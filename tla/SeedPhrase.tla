----------------------------- MODULE SeedPhrase -----------------------------
(***************************************************************************)
(* A seed phrase, from newseed, which draws and prints it, to a later      *)
(* command that reads it again and derives a key (src/src/yubtc/seed.py,   *)
(* the KDF of src/src/yubtc/crypto.py, newseed and the reception of        *)
(* src/src/yubtc/cli.py).                                                  *)
(*                                                                         *)
(* A draw is how many different words it has and how often the most        *)
(* frequent one occurs.  A line of input is its words, what stands between *)
(* them, what ends it, and the Unicode form of its accented letters; the   *)
(* one KDF that takes no passphrase encodes it in latin-1, one of the      *)
(* others normalises it.  The one-way functions keep their inputs apart.   *)
(***************************************************************************)
EXTENDS Integers, FiniteSets

CONSTANTS
    WordCounts,       \* what newseed -n is given
    LexiconSize,      \* len(BIP39_WORDLIST)
    MAX_WORD_REPEATS,
    SeedLines,        \* lines that may be entered for the seed
    PassphraseLines,  \* and for the passphrase
    Mnemonics,        \* words that parse as BIP-39
    Repetitive        \* those of them below the entropy floor

SUPPORTED_WORD_COUNTS == {12, 15, 18, 21, 24}
AddrTypes == {"legacy", "native", "taproot"}
KdfAlgos == {"yubtc", "pbkdf2", "argon2id", "scrypt"}

Line == [words : STRING, gap : {"space", "run", "nbsp"}, tail : {"", "blank"},
         letters : {"plain", "composed", "decomposed"}]
Text(words) == [words |-> words, gap |-> "space", tail |-> "", letters |-> "plain"]
EmptyText == Text("")

ASSUME DrawAssumption ==
    WordCounts \subseteq Int /\ LexiconSize \in Nat \ {0} /\ MAX_WORD_REPEATS \in Nat \ {0}
ASSUME LinesAssumption ==
    /\ SeedLines \subseteq Line /\ PassphraseLines \subseteq Line
    /\ Text("drawn") \in SeedLines /\ EmptyText \in PassphraseLines
    /\ Repetitive \subseteq Mnemonics /\ "drawn" \notin Mnemonics
    \* A line of no words has nothing between them and no letters.
    /\ \A line \in SeedLines \cup PassphraseLines :
         line.words = "" => line.gap = "space" /\ line.letters = "plain"

VARIABLES
    stage,       \* "asked", "drawing", "printed", "passphrase", "seed",
                 \* "opened", "refused" or "raised"
    count,       \* -n
    draw,        \* the last draw
    shown,       \* the key whose address newseed prints, NoPrivKey before
    passphrase,  \* as get_passphrase returns it
    seed,        \* as get_seed returns it
    opened       \* the key the command works with

phrase == <<stage, count, draw, shown, passphrase, seed, opened>>

----------------------------------------------------------------------------
(* generate_seed *)

\* What n draws with replacement lead to; a count below zero draws nothing.
Draws(n) ==
    IF n <= 0 THEN {[unique |-> 0, repeats |-> 0]}
    ELSE {d \in [unique : 1..n, repeats : 1..n] :
            /\ d.unique <= LexiconSize
            /\ d.unique - 1 + d.repeats <= n /\ n <= d.unique * d.repeats}

MinUniqueWords(n) == IF n \in SUPPORTED_WORD_COUNTS THEN n \div 3 ELSE 0

\* _entropy_floor_rejects
FloorRejects(n, d) ==
    d.unique < MinUniqueWords(n) \/ d.repeats > MAX_WORD_REPEATS

----------------------------------------------------------------------------
(* The key of a seed and a passphrase *)

Nfkd(line) == [line EXCEPT !.gap = IF @ = "nbsp" THEN "space" ELSE @,
                           !.letters = IF @ = "composed" THEN "decomposed" ELSE @]

\* A combining accent is outside latin-1, as other alphabets are.
Latin1(line) == line.letters # "decomposed"

NoPrivKey == [kdf |-> "none", seed |-> EmptyText, passphrase |-> EmptyText,
          purpose |-> 0, clamped |-> FALSE]

DefaultKdf(pass) == IF pass = EmptyText THEN "yubtc" ELSE "pbkdf2"

\* Mutant: the passphrase goes into the salt as it was typed.
Stretched_RawSalt(kdf, text, pass) ==
    IF kdf = "pbkdf2" THEN <<Nfkd(text), pass>> ELSE <<text, pass>>

\* _STRETCH: only the BIP-39 one normalises.
Stretched(kdf, text, pass) ==
    IF kdf = "pbkdf2" THEN <<Nfkd(text), Nfkd(pass)>> ELSE <<text, pass>>

\* Mutant: the address type selects the path whatever the KDF.
Purpose_EveryKdf(kdf, addr_type) ==
    IF addr_type = "legacy" THEN 44 ELSE IF addr_type = "native" THEN 84 ELSE 86

\* The purpose of the BIP-32 path; the legacy cascade has no path.
Purpose(kdf, addr_type) ==
    CASE kdf = "yubtc" -> 0
      [] kdf = "pbkdf2" /\ addr_type = "native" -> 84
      [] kdf = "pbkdf2" /\ addr_type = "taproot" -> 86
      [] OTHER -> 44

\* seed2bin and the clamp of seed2privkey; NoPrivKey when they raise.
Seed2PrivKey(text, pass, kdf, addr_type) ==
    LET texts == IF kdf = "yubtc" THEN <<text, EmptyText>>
                 ELSE Stretched(kdf, text, pass)
    IN  IF (kdf = "yubtc") # (pass = EmptyText) \/ (kdf = "yubtc" /\ ~Latin1(text))
        THEN NoPrivKey
        ELSE [kdf |-> kdf, seed |-> texts[1], passphrase |-> texts[2],
              purpose |-> Purpose(kdf, addr_type), clamped |-> kdf = "yubtc"]

----------------------------------------------------------------------------
(* Reading and validating *)

\* On a pipe the seed line loses its trailing white space, a passphrase line
\* only its newline.
Read(line, tty) == IF tty THEN line ELSE [line EXCEPT !.tail = ""]

\* validate_seed, for text that may be empty but for white space.
Accepts(text, strict) ==
    /\ text.words # ""
    /\ strict => text.words \in Mnemonics \ Repetitive /\ text.letters = "plain"

----------------------------------------------------------------------------
PhraseInit ==
    /\ stage = "asked" /\ count = 0
    /\ draw = [unique |-> 0, repeats |-> 0]
    /\ shown = NoPrivKey /\ opened = NoPrivKey
    /\ passphrase = EmptyText /\ seed = EmptyText

\* Wallet raises on the empty seed of a draw of no words; newseed has no
\* passphrase and prints the legacy address.
ShowSeed(n) ==
    IF n <= 0 THEN stage' = "raised" /\ UNCHANGED shown
    ELSE /\ stage' = "printed"
         /\ shown' = Seed2PrivKey(Text("drawn"), EmptyText, DefaultKdf(EmptyText), "legacy")

\* newseed -u draws without replacement, and only once.
DrawUnique(n) ==
    /\ stage = "asked"
    /\ count' = n
    /\ IF n < 0 \/ n > LexiconSize
       THEN stage' = "raised" /\ UNCHANGED <<draw, shown>>
       ELSE /\ draw' = [unique |-> n, repeats |-> IF n = 0 THEN 0 ELSE 1]
            /\ ShowSeed(n)
    /\ UNCHANGED <<passphrase, seed, opened>>

NewSeed(n) ==
    /\ stage = "asked"
    /\ count' = n /\ stage' = "drawing"
    /\ UNCHANGED <<draw, shown, passphrase, seed, opened>>

\* Mutant: the draw is handed over as a value instead of a callable.
DrawUntil_Once ==
    /\ stage = "drawing"
    /\ draw' \in IF draw.unique = 0 THEN Draws(count) ELSE {draw}
    /\ IF FloorRejects(count, draw') THEN UNCHANGED <<stage, shown>> ELSE ShowSeed(count)
    /\ UNCHANGED <<count, passphrase, seed, opened>>

\* One turn of _draw_until.
DrawUntil ==
    /\ stage = "drawing"
    /\ draw' \in Draws(count)
    /\ IF FloorRejects(count, draw') THEN UNCHANGED <<stage, shown>> ELSE ShowSeed(count)
    /\ UNCHANGED <<count, passphrase, seed, opened>>

\* get_seed_and_passphrase asks for the passphrase first.
AskPassphrase(line) ==
    /\ stage \in {"asked", "printed"}
    /\ passphrase' = line /\ stage' = "passphrase"
    /\ UNCHANGED <<count, draw, shown, seed, opened>>

\* The end of a pipe reads as an empty line.
AskSeed(line, tty) ==
    /\ stage = "passphrase"
    /\ seed' = Read(line, tty) /\ stage' = "seed"
    /\ UNCHANGED <<count, draw, shown, passphrase, opened>>

\* _validate_entered_seed, then Wallet, whose keys take the default KDF.
Open(strict, addr_type) ==
    LET key == Seed2PrivKey(seed, passphrase, DefaultKdf(passphrase), addr_type)
    IN  /\ stage = "seed"
        /\ IF ~Accepts(seed, strict) THEN stage' = "refused" /\ UNCHANGED opened
           ELSE /\ stage' = IF key = NoPrivKey THEN "raised" ELSE "opened"
                /\ opened' = key
        /\ UNCHANGED <<count, draw, shown, passphrase, seed>>

\* ms_own_privkey, for callers of the library: any KDF, no validation, and
\* every error is the caller's.
MsOwnPrivkey(kdf) ==
    LET key == Seed2PrivKey(seed, passphrase, kdf, "legacy")
    IN  /\ stage = "seed"
        /\ stage' = IF seed = EmptyText \/ key = NoPrivKey THEN "refused" ELSE "opened"
        /\ opened' = IF seed = EmptyText THEN NoPrivKey ELSE key
        /\ UNCHANGED <<count, draw, shown, passphrase, seed>>

PhraseNext ==
    \/ \E n \in WordCounts : DrawUnique(n) \/ NewSeed(n)
    \/ DrawUntil
    \/ \E line \in PassphraseLines : AskPassphrase(line)
    \/ \E line \in SeedLines \cup {EmptyText}, tty \in BOOLEAN : AskSeed(line, tty)
    \/ \E strict \in BOOLEAN, addr_type \in AddrTypes : Open(strict, addr_type)
    \/ \E kdf \in KdfAlgos : MsOwnPrivkey(kdf)

\* The draws are independent: one that can pass the floor does in the end.
PhraseSpec ==
    PhraseInit /\ [][PhraseNext]_phrase /\ SF_phrase(DrawUntil /\ stage' # "drawing")

----------------------------------------------------------------------------

PhraseTypeOK ==
    /\ stage \in {"asked", "drawing", "printed", "passphrase", "seed", "opened",
                  "refused", "raised"}
    /\ count \in WordCounts \cup {0}
    /\ draw \in [unique : 0..LexiconSize, repeats : Nat]
    /\ passphrase \in Line /\ seed \in Line
    /\ {shown, opened} \subseteq
         [kdf : KdfAlgos \cup {"none"}, seed : Line, passphrase : Line,
          purpose : {0, 44, 84, 86}, clamped : BOOLEAN]

\* _draw_until ends for every count that two of each word can fill.
DrawEnds ==
    stage = "drawing" /\ count <= 2 * LexiconSize ~> stage # "drawing"

\* The seed that was printed, typed again without a passphrase and without a
\* blank at the end of a terminal line, opens the key whose address was
\* printed with it, whatever the address type.
PrintedSeedOpens ==
    shown # NoPrivKey /\ stage = "opened" /\ passphrase = EmptyText
      /\ seed = Text("drawn") => opened = shown

\* A standard wallet goes by what was meant and not by how it was typed: every
\* other Unicode form of the seed and of the passphrase opens the same key,
\* the same words apart by a run of blanks do not.
StandardWallet ==
    stage = "opened" /\ opened.kdf = "pbkdf2" =>
      \A line \in SeedLines, pass \in PassphraseLines, addr_type \in AddrTypes :
        (Seed2PrivKey(line, pass, "pbkdf2", addr_type) = opened) <=>
          /\ Nfkd(line) = Nfkd(seed) /\ Nfkd(pass) = Nfkd(passphrase)
          /\ opened.purpose = Purpose("pbkdf2", addr_type)

\* The help of --strict-bip39: "permissive -- any non-empty seed is accepted".
\* A command that has accepted one has a key to work with.
NonEmptySeedOpens == stage = "raised" => seed.words = ""
=============================================================================
