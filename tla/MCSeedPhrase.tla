---------------------------- MODULE MCSeedPhrase ----------------------------
(***************************************************************************)
(* A lexicon of eight words: 16 words fill it twice, and 17 cannot pass    *)
(* the floor.  Seeds as newseed printed them, mnemonics and phrases in an  *)
(* alphabet with accents, in every form and spacing they may be typed in.  *)
(***************************************************************************)
EXTENDS SeedPhrase

SomeCounts == {-1, 0, 8, 12, 16, 17}

Typings(words, letters) ==
    [words : words, gap : {"space", "run", "nbsp"}, tail : {"", "blank"}, letters : letters]

SomeSeedLines ==
    Typings({"drawn", "mnemonic", "repetitive"}, {"plain"})
      \cup Typings({"phrase"}, {"plain", "composed", "decomposed"})
      \cup [words : {""}, gap : {"space"}, tail : {"", "blank"}, letters : {"plain"}]

SomePassphrases ==
    [words : {""}, gap : {"space"}, tail : {"", "blank"}, letters : {"plain"}]
      \cup [words : {"secret"}, gap : {"space"}, tail : {""},
            letters : {"plain", "composed", "decomposed"}]
=============================================================================
