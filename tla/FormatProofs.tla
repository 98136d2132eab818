---------------------------- MODULE FormatProofs ----------------------------
(***************************************************************************)
(* Proofs about what crosses the boundary of the program as text or bytes. *)
(*                                                                         *)
(* Seed phrases: PhraseTypeOK, PrintedSeedOpens and StandardWallet, for    *)
(* every lexicon size, set of lines, form and answer at the prompts.  The  *)
(* invariant (PInv) says that an opened key is the derivation of what was  *)
(* typed and a shown one that of the drawn seed; the rest is what the      *)
(* derivation keeps of its arguments (KeyFields, NfkdType).                *)
(*                                                                         *)
(* The PSBT wire format: WireTypeOK, OwnFilesRead, NothingLost and         *)
(* MergeOrderFree, for every set of files, values and partners.  The       *)
(* invariant (WInv) says that the maps read so far are a document that     *)
(* would be read back unchanged (WellRead), that every pair of them was    *)
(* taken (TakenIn), and, for a file written here, that they are the maps   *)
(* it was written from (Rereads).  Writing a map lists its pairs once each *)
(* (KeyOrderedLists), which is an induction over the fold that sorts them; *)
(* combining is a union of the maps (MergeUnites).                         *)
(*                                                                         *)
(* Addresses: AddressTypeOK, OwnAddressPaid and StandardIffPaid, for every *)
(* program of 20 or 32 bytes and every string.  Regrouping keeps the bits  *)
(* in their order (RegroupedBits, an induction over the loop: after k      *)
(* values the groups that are out and the bits in hand are the bits that   *)
(* went in, Carried); so there and back again is the same (RoundTrip), and *)
(* the ladder of checks amounts to the standard (StandardPaid).  The       *)
(* invariant (AddressInv) says that a string as it was published is the    *)
(* owner's in either case, and that any other is no address.               *)
(***************************************************************************)
EXTENDS SeedPhrase, PsbtWire, Addresses, InductionFacts

----------------------------------------------------------------------------
(* Seed phrases *)

\* The key whose address newseed prints.
Printed == Seed2PrivKey(Text("drawn"), EmptyText, "yubtc", "legacy")

PInv ==
    /\ PhraseTypeOK
    /\ passphrase \in PassphraseLines
    /\ shown \in {NoPrivKey, Printed}
    /\ stage = "opened" =>
         /\ opened # NoPrivKey
         /\ \E kdf \in KdfAlgos, addr_type \in AddrTypes :
              opened = Seed2PrivKey(seed, passphrase, kdf, addr_type)

PrivKey == [kdf : KdfAlgos \cup {"none"}, seed : Line, passphrase : Line,
            purpose : {0, 44, 84, 86}, clamped : BOOLEAN]

\* The lines the program writes itself.
LEMMA EmptyTextType == EmptyText \in Line /\ Text("drawn") \in Line
BY LinesAssumption

\* Normalising changes what stands between the words and the letters.
LEMMA NfkdType ==
    ASSUME NEW line \in Line
    PROVE  /\ Nfkd(line) \in Line
           /\ Nfkd(line).words = line.words /\ Nfkd(line).tail = line.tail
<1> DEFINE gap == IF line.gap = "nbsp" THEN "space" ELSE line.gap
           letters == IF line.letters = "composed" THEN "decomposed" ELSE line.letters
           mid == [line EXCEPT !.gap = gap]
<1>1. Nfkd(line) = [line EXCEPT !.gap = gap, !.letters = letters] BY DEF Nfkd
<1>2. gap \in {"space", "run", "nbsp"} /\ letters \in {"plain", "composed", "decomposed"}
    BY DEF Line
<1> HIDE DEF gap, letters
<1>3. [line EXCEPT !.gap = gap, !.letters = letters] = [mid EXCEPT !.letters = letters]
    BY DEF Line
<1>4. mid \in Line /\ mid.words = line.words /\ mid.tail = line.tail BY <1>2 DEF Line
<1> HIDE DEF mid
<1>5. LET new == [mid EXCEPT !.letters = letters]
      IN  new \in Line /\ new.words = mid.words /\ new.tail = mid.tail
    BY <1>2, <1>4 DEF Line
<1> QED BY <1>1, <1>3, <1>4, <1>5

\* What the derivation gives when it raises nothing.
LEMMA KeyFields ==
    ASSUME NEW text, NEW pass, NEW kdf \in KdfAlgos, NEW addr_type
    PROVE  LET key == Seed2PrivKey(text, pass, kdf, addr_type)
           IN  key # NoPrivKey =>
                 /\ (kdf = "yubtc") <=> (pass = EmptyText)
                 /\ kdf = "yubtc" =>
                      key = [kdf |-> "yubtc", seed |-> text, passphrase |-> EmptyText,
                             purpose |-> 0, clamped |-> TRUE]
                 /\ kdf = "pbkdf2" =>
                      key = [kdf |-> "pbkdf2", seed |-> Nfkd(text), passphrase |-> Nfkd(pass),
                             purpose |-> Purpose("pbkdf2", addr_type), clamped |-> FALSE]
                 /\ key.kdf = kdf
<1> DEFINE key == Seed2PrivKey(text, pass, kdf, addr_type)
           texts == IF kdf = "yubtc" THEN <<text, EmptyText>> ELSE Stretched(kdf, text, pass)
           clamped == kdf = "yubtc"
           Made(a, b, c, d, e) == [kdf |-> a, seed |-> b, passphrase |-> c, purpose |-> d,
                                   clamped |-> e]
           full == Made(kdf, texts[1], texts[2], Purpose(kdf, addr_type), clamped)
           raises == (kdf = "yubtc") # (pass = EmptyText) \/ (kdf = "yubtc" /\ ~Latin1(text))
<1>1. key = IF raises THEN NoPrivKey ELSE full BY DEF Seed2PrivKey
<1> SUFFICES ASSUME key # NoPrivKey
             PROVE  /\ (kdf = "yubtc") <=> (pass = EmptyText)
                    /\ kdf = "yubtc" =>
                         key = [kdf |-> "yubtc", seed |-> text, passphrase |-> EmptyText,
                                purpose |-> 0, clamped |-> TRUE]
                    /\ kdf = "pbkdf2" =>
                         key = [kdf |-> "pbkdf2", seed |-> Nfkd(text),
                                passphrase |-> Nfkd(pass),
                                purpose |-> Purpose("pbkdf2", addr_type), clamped |-> FALSE]
                    /\ key.kdf = kdf
    OBVIOUS
<1> HIDE DEF key
<1>2. ~raises /\ key = full BY <1>1
<1>3. (kdf = "yubtc") <=> (pass = EmptyText) BY <1>2
<1>4. kdf = "yubtc" => /\ texts = <<text, EmptyText>> /\ Purpose(kdf, addr_type) = 0
                       /\ clamped = TRUE
    BY DEF Purpose
<1>5. kdf = "pbkdf2" => /\ texts = <<Nfkd(text), Nfkd(pass)>> /\ clamped = FALSE
    BY DEF Stretched
<1> HIDE DEF texts, clamped
<1>6. key.kdf = kdf BY <1>2
<1> HIDE DEF Made
<1>7. ASSUME kdf = "yubtc"
      PROVE  key = [kdf |-> "yubtc", seed |-> text, passphrase |-> EmptyText,
                    purpose |-> 0, clamped |-> TRUE]
    <2>1. texts[1] = text /\ texts[2] = EmptyText /\ Purpose(kdf, addr_type) = 0
        BY <1>4, <1>7
    <2>2. clamped = TRUE BY <1>4, <1>7
    <2>3. key = Made(kdf, text, EmptyText, 0, clamped) BY <1>2, <2>1
    <2>4. key = Made("yubtc", text, EmptyText, 0, TRUE) BY <1>7, <2>2, <2>3
    <2> QED BY <2>4 DEF Made
<1>8. ASSUME kdf = "pbkdf2"
      PROVE  key = [kdf |-> "pbkdf2", seed |-> Nfkd(text), passphrase |-> Nfkd(pass),
                    purpose |-> Purpose("pbkdf2", addr_type), clamped |-> FALSE]
    <2>1. texts[1] = Nfkd(text) /\ texts[2] = Nfkd(pass) BY <1>5, <1>8
    <2>2. clamped = FALSE BY <1>5, <1>8
    <2>3. key = Made(kdf, Nfkd(text), Nfkd(pass), Purpose(kdf, addr_type), clamped)
        BY <1>2, <2>1
    <2>4. key = Made("pbkdf2", Nfkd(text), Nfkd(pass), Purpose("pbkdf2", addr_type), FALSE)
        BY <1>8, <2>2, <2>3
    <2> QED BY <2>4 DEF Made
<1> QED BY <1>3, <1>6, <1>7, <1>8

\* A derivation gives a key or nothing.
LEMMA KeyType ==
    ASSUME NEW text \in Line, NEW pass \in Line, NEW kdf \in KdfAlgos, NEW addr_type
    PROVE  Seed2PrivKey(text, pass, kdf, addr_type) \in PrivKey
<1>1. NoPrivKey \in PrivKey BY EmptyTextType DEF NoPrivKey, PrivKey
<1>2. Purpose(kdf, addr_type) \in {0, 44, 84, 86} BY DEF Purpose
<1> DEFINE texts == IF kdf = "yubtc" THEN <<text, EmptyText>> ELSE Stretched(kdf, text, pass)
<1>3. texts[1] \in Line /\ texts[2] \in Line
    <2>1. Nfkd(text) \in Line /\ Nfkd(pass) \in Line BY NfkdType
    <2> QED BY <2>1, EmptyTextType DEF Stretched
<1> HIDE DEF texts
<1>4. [kdf |-> kdf, seed |-> texts[1], passphrase |-> texts[2],
       purpose |-> Purpose(kdf, addr_type), clamped |-> kdf = "yubtc"] \in PrivKey
    BY <1>2, <1>3 DEF PrivKey
<1> QED BY <1>1, <1>4 DEF Seed2PrivKey, texts

\* The key whose address newseed prints.
LEMMA PrintedIs ==
    Printed = [kdf |-> "yubtc", seed |-> Text("drawn"), passphrase |-> EmptyText,
               purpose |-> 0, clamped |-> TRUE]
BY DEF Printed, Seed2PrivKey, Latin1, Text, EmptyText, Purpose

\* The invariant holds before any seed was drawn.
LEMMA InitPInv == PhraseInit => PInv
<1> SUFFICES ASSUME PhraseInit PROVE PInv OBVIOUS
<1>1. NoPrivKey \in PrivKey BY EmptyTextType DEF NoPrivKey, PrivKey
<1>2. PhraseTypeOK BY <1>1, EmptyTextType, DrawAssumption DEF PhraseInit, PhraseTypeOK, PrivKey
<1>3. EmptyText \in PassphraseLines BY LinesAssumption
<1> QED BY <1>2, <1>3 DEF PhraseInit, PInv

\* newseed: the draw, and the key of what was drawn.
LEMMA DrawPInv ==
    PInv /\ ((\E n \in WordCounts : DrawUnique(n) \/ NewSeed(n)) \/ DrawUntil) => PInv'
<1> SUFFICES ASSUME PInv,
                    (\E n \in WordCounts : DrawUnique(n) \/ NewSeed(n)) \/ DrawUntil
             PROVE  PInv'
    OBVIOUS
<1>1. WordCounts \subseteq Int /\ LexiconSize \in Nat /\ 0 \in WordCounts \cup {0}
    BY DrawAssumption
<1>2. UNCHANGED <<passphrase, seed, opened>> BY DEF DrawUnique, NewSeed, DrawUntil
<1>3. DefaultKdf(EmptyText) = "yubtc" BY DEF DefaultKdf
<1>4. Printed \in PrivKey BY EmptyTextType, KeyType DEF Printed, KdfAlgos
<1>5. \A n : ShowSeed(n) => /\ stage' \in {"raised", "printed"}
                            /\ shown' \in {shown, Printed}
    BY <1>3 DEF ShowSeed, Printed
<1>6. \A n \in Int : Draws(n) \subseteq [unique : 0..LexiconSize, repeats : Nat]
    <2> SUFFICES ASSUME NEW n \in Int, NEW d \in Draws(n)
                 PROVE  d \in [unique : 0..LexiconSize, repeats : Nat]
        OBVIOUS
    <2>1. CASE n <= 0 BY <1>1, <2>1 DEF Draws
    <2>2. CASE ~(n <= 0)
        <3>1. d \in [unique : 1..n, repeats : 1..n] /\ d.unique <= LexiconSize
            BY <2>2 DEF Draws
        <3>2. d.unique \in 0..LexiconSize /\ d.repeats \in Nat BY <1>1, <3>1
        <3> QED BY <3>1, <3>2
    <2> QED BY <2>1, <2>2
<1> DEFINE Drawn == /\ count' \in WordCounts \cup {0}
                    /\ draw' \in [unique : 0..LexiconSize, repeats : Nat]
                    /\ stage' \in {"raised", "printed", "drawing"}
                    /\ shown' \in {shown, Printed}
<1>7. Drawn
    <2>1. /\ count \in WordCounts \cup {0} /\ count \in Int
          /\ draw \in [unique : 0..LexiconSize, repeats : Nat]
        BY <1>1 DEF PInv, PhraseTypeOK
    <2>2. ASSUME NEW n \in WordCounts, DrawUnique(n)
          PROVE  Drawn
        <3>1. n \in Int BY <1>1
        <3>2. CASE n < 0 \/ n > LexiconSize BY <2>1, <2>2, <3>2 DEF DrawUnique
        <3>3. CASE ~(n < 0 \/ n > LexiconSize)
            <4>1. n \in 0..LexiconSize BY <1>1, <3>1, <3>3
            <4>2. draw' = [unique |-> n, repeats |-> IF n = 0 THEN 0 ELSE 1]
                  /\ ShowSeed(n) /\ count' = n
                BY <2>2, <3>3 DEF DrawUnique
            <4> QED BY <1>5, <4>1, <4>2
        <3> QED BY <3>2, <3>3
    <2>3. ASSUME NEW n \in WordCounts, NewSeed(n)
          PROVE  Drawn
        BY <2>1, <2>3 DEF NewSeed
    <2>4. ASSUME DrawUntil
          PROVE  Drawn
        <3>1. /\ draw' \in [unique : 0..LexiconSize, repeats : Nat] /\ count' = count
              /\ stage = "drawing"
              /\ UNCHANGED <<stage, shown>> \/ ShowSeed(count)
            BY <1>6, <2>1, <2>4 DEF DrawUntil
        <3> QED BY <1>5, <2>1, <3>1
    <2> QED BY <2>2, <2>3, <2>4
<1>8. PhraseTypeOK' BY <1>2, <1>4, <1>7 DEF PInv, PhraseTypeOK, PrivKey
<1> QED BY <1>2, <1>7, <1>8 DEF PInv

\* Typing the passphrase and the seed.
LEMMA AskPInv ==
    /\ PInv
    /\ \/ \E line \in PassphraseLines : AskPassphrase(line)
       \/ \E line \in SeedLines \cup {EmptyText}, tty \in BOOLEAN : AskSeed(line, tty)
    => PInv'
<1> SUFFICES ASSUME PInv,
                    \/ \E line \in PassphraseLines : AskPassphrase(line)
                    \/ \E line \in SeedLines \cup {EmptyText}, tty \in BOOLEAN :
                         AskSeed(line, tty)
             PROVE  PInv'
    OBVIOUS
<1>1. /\ passphrase' \in PassphraseLines /\ seed' \in Line /\ stage' \in {"passphrase", "seed"}
      /\ UNCHANGED <<count, draw, shown, opened>>
    <2>1. CASE \E line \in PassphraseLines : AskPassphrase(line)
        BY <2>1 DEF AskPassphrase, PInv, PhraseTypeOK
    <2>2. ASSUME NEW line \in SeedLines \cup {EmptyText}, NEW tty \in BOOLEAN,
                 AskSeed(line, tty)
          PROVE  /\ passphrase' \in PassphraseLines /\ seed' \in Line
                 /\ stage' \in {"passphrase", "seed"}
                 /\ UNCHANGED <<count, draw, shown, opened>>
        <3>1. line \in Line BY LinesAssumption, EmptyTextType
        <3>2. Read(line, tty) \in Line BY <3>1 DEF Read, Line
        <3> QED BY <2>2, <3>2 DEF AskSeed, PInv
    <2> QED BY <2>1, <2>2
<1>2. passphrase' \in Line BY <1>1, LinesAssumption
<1>3. PhraseTypeOK' BY <1>1, <1>2 DEF PInv, PhraseTypeOK
<1> QED BY <1>1, <1>3 DEF PInv

\* The two ways to a key.
LEMMA OpenPInv ==
    /\ PInv
    /\ \/ \E strict \in BOOLEAN, addr_type \in AddrTypes : Open(strict, addr_type)
       \/ \E kdf \in KdfAlgos : MsOwnPrivkey(kdf)
    => PInv'
<1> SUFFICES ASSUME PInv,
                    \/ \E strict \in BOOLEAN, addr_type \in AddrTypes : Open(strict, addr_type)
                    \/ \E kdf \in KdfAlgos : MsOwnPrivkey(kdf)
             PROVE  PInv'
    OBVIOUS
<1>1. seed \in Line /\ passphrase \in Line /\ opened \in PrivKey
    BY DEF PInv, PhraseTypeOK, PrivKey
<1> DEFINE Made(key) == /\ stage' \in {"opened", "refused", "raised"}
                        /\ opened' \in {opened, NoPrivKey, key}
                        /\ stage' = "opened" => opened' = key /\ key # NoPrivKey
<1>2. PICK kdf \in KdfAlgos, addr_type \in AddrTypes :
        Made(Seed2PrivKey(seed, passphrase, kdf, addr_type))
    <2>1. ASSUME NEW strict \in BOOLEAN, NEW addr_type \in AddrTypes, Open(strict, addr_type)
          PROVE  Made(Seed2PrivKey(seed, passphrase, DefaultKdf(passphrase), addr_type))
                 /\ DefaultKdf(passphrase) \in KdfAlgos
        <3>1. DefaultKdf(passphrase) \in KdfAlgos BY DEF DefaultKdf, KdfAlgos
        <3> QED BY <2>1, <3>1 DEF Open
    <2>2. ASSUME NEW kdf \in KdfAlgos, MsOwnPrivkey(kdf)
          PROVE  Made(Seed2PrivKey(seed, passphrase, kdf, "legacy"))
        BY <2>2 DEF MsOwnPrivkey
    <2>3. "legacy" \in AddrTypes BY DEF AddrTypes
    <2> HIDE DEF Made
    <2> QED BY <2>1, <2>2, <2>3
<1>3. UNCHANGED <<count, draw, shown, passphrase, seed>> BY DEF Open, MsOwnPrivkey
<1>4. opened' \in PrivKey
    <2>1. NoPrivKey \in PrivKey BY EmptyTextType DEF NoPrivKey, PrivKey
    <2> QED BY <1>1, <1>2, <2>1, KeyType
<1>5. PhraseTypeOK' BY <1>2, <1>3, <1>4 DEF PInv, PhraseTypeOK, PrivKey
<1>6. \A k, a : Seed2PrivKey(seed, passphrase, k, a)' = Seed2PrivKey(seed, passphrase, k, a)
    BY <1>3
<1> QED BY <1>2, <1>3, <1>5, <1>6 DEF PInv

\* Every step keeps the invariant.
LEMMA StepPInv == PInv /\ [PhraseNext]_phrase => PInv'
<1>1. PInv /\ UNCHANGED phrase => PInv' BY DEF phrase, PInv, PhraseTypeOK
<1> QED BY <1>1, DrawPInv, AskPInv, OpenPInv DEF PhraseNext

\* Seeds, draws and keys keep their shapes whatever words are drawn and lines
\* typed.
THEOREM PhraseTypeCorrect == PhraseSpec => []PhraseTypeOK
<1>1. PInv => PhraseTypeOK BY DEF PInv
<1> QED BY <1>1, InitPInv, StepPInv, PTL DEF PhraseSpec

\* The printed seed, entered without a passphrase, opens the wallet whose
\* address newseed printed with it, however the prompt was reached and whatever
\* --strict says.
THEOREM PrintedSeedOpensHolds == PhraseSpec => []PrintedSeedOpens
<1>1. PInv => PrintedSeedOpens
    <2> SUFFICES ASSUME PInv, shown # NoPrivKey, stage = "opened", passphrase = EmptyText,
                        seed = Text("drawn")
                 PROVE  opened = shown
        BY DEF PrintedSeedOpens
    <2>1. PICK kdf \in KdfAlgos, addr_type \in AddrTypes :
            opened = Seed2PrivKey(seed, passphrase, kdf, addr_type)
        BY DEF PInv
    <2>2. opened # NoPrivKey BY DEF PInv
    <2>3. kdf = "yubtc" BY <2>1, <2>2, KeyFields
    <2>4. opened = [kdf |-> "yubtc", seed |-> seed, passphrase |-> EmptyText,
                    purpose |-> 0, clamped |-> TRUE]
        BY <2>1, <2>2, <2>3, KeyFields
    <2>5. shown = Printed BY DEF PInv
    <2> QED BY <2>4, <2>5, PrintedIs
<1> QED BY <1>1, InitPInv, StepPInv, PTL DEF PhraseSpec

\* Two entries open the same BIP-39 wallet exactly when they agree after NFKD
\* and the form asks for the same BIP-43 purpose: nothing else of what is typed
\* enters the derivation, and nothing of it is lost.
THEOREM StandardWalletHolds == PhraseSpec => []StandardWallet
<1>1. PInv => StandardWallet
    <2> SUFFICES ASSUME PInv, stage = "opened", opened.kdf = "pbkdf2",
                        NEW line \in SeedLines, NEW pass \in PassphraseLines,
                        NEW addr_type \in AddrTypes
                 PROVE  (Seed2PrivKey(line, pass, "pbkdf2", addr_type) = opened) <=>
                          /\ Nfkd(line) = Nfkd(seed) /\ Nfkd(pass) = Nfkd(passphrase)
                          /\ opened.purpose = Purpose("pbkdf2", addr_type)
        BY DEF StandardWallet
    <2> DEFINE key == Seed2PrivKey(line, pass, "pbkdf2", addr_type)
    <2>1. PICK kdf \in KdfAlgos, at \in AddrTypes :
            opened = Seed2PrivKey(seed, passphrase, kdf, at) /\ opened # NoPrivKey
        BY DEF PInv
    <2>2. kdf = "pbkdf2" BY <2>1, KeyFields
    <2>3. /\ passphrase # EmptyText
          /\ opened = [kdf |-> "pbkdf2", seed |-> Nfkd(seed), passphrase |-> Nfkd(passphrase),
                       purpose |-> Purpose("pbkdf2", at), clamped |-> FALSE]
        BY <2>1, <2>2, KeyFields
    <2>4. "pbkdf2" \in KdfAlgos BY DEF KdfAlgos
    <2>5. Nfkd(passphrase) # EmptyText
        <3>1. passphrase \in Line /\ passphrase \in PassphraseLines
            BY LinesAssumption DEF PInv
        <3> SUFFICES ASSUME Nfkd(passphrase) = EmptyText PROVE FALSE OBVIOUS
        <3>2. Nfkd(passphrase).words = passphrase.words /\ Nfkd(passphrase).tail = passphrase.tail
            BY <3>1, NfkdType
        <3>3. passphrase.words = "" /\ passphrase.tail = ""
            <4>1. EmptyText.words = "" /\ EmptyText.tail = "" BY DEF EmptyText, Text
            <4> QED BY <3>2, <4>1
        <3>4. passphrase.gap = "space" /\ passphrase.letters = "plain"
            BY <3>1, <3>3, LinesAssumption
        <3>5. passphrase = [words |-> passphrase.words, gap |-> passphrase.gap,
                            tail |-> passphrase.tail, letters |-> passphrase.letters]
            BY <3>1 DEF Line
        <3> QED BY <2>3, <3>3, <3>4, <3>5 DEF EmptyText, Text
    <2>6. CASE pass = EmptyText
        <3>1. key = NoPrivKey BY <2>4, <2>6, KeyFields
        <3>2. Nfkd(EmptyText) = EmptyText BY DEF Nfkd, EmptyText, Text
        <3> QED BY <2>1, <2>5, <2>6, <3>1, <3>2
    <2>7. CASE pass # EmptyText
        <3>1. key = [kdf |-> "pbkdf2", seed |-> Nfkd(line), passphrase |-> Nfkd(pass),
                     purpose |-> Purpose("pbkdf2", addr_type), clamped |-> FALSE]
            BY <2>7 DEF Seed2PrivKey, Stretched
        <3> HIDE DEF key
        <3> QED BY <2>3, <3>1 DEF key
    <2> QED BY <2>6, <2>7
<1> QED BY <1>1, InitPInv, StepPInv, PTL DEF PhraseSpec

----------------------------------------------------------------------------
(* What is read, and what is written of it *)

File == [maps : Seq(Seq(Pair)), cut : BOOLEAN]

\* A pair of the file is there, forgotten or, a transaction or an output, in
\* other bytes.
TakenIn(doc, n, p) ==
    \/ Forgotten(n, p)
    \/ \E q \in doc[n] :
         /\ q.key = p.key
         /\ q.value = p.value \/ (TypedField(doc, n, p) /\ Anew(q) = Anew(p))

\* What has been read of a file that was written here.
Rereads(doc) ==
    /\ WellRead(doc) /\ Len(doc) = Announced(doc)
    /\ file = Written(doc) /\ verdict \in {"reading", "accepted"}
    /\ Len(psbt) <= Len(doc) /\ \A n \in DOMAIN psbt : psbt[n] = Kept(doc)[n]

WInv ==
    /\ WellRead(psbt)
    /\ verdict \in {"none", "reading", "accepted"} \cup Errors
    /\ verdict = "none" => file = Nothing /\ psbt = <<>> /\ mine = Nothing
    /\ verdict # "none" => file \in File
    /\ verdict = "accepted" => psbt # <<>> /\ Len(psbt) = Announced(psbt) /\ Len(file.maps) = Len(psbt)
    /\ verdict \in {"reading", "accepted"} =>
         /\ Len(psbt) <= Len(file.maps)
         /\ \A n \in DOMAIN psbt : \A p \in ToSet(file.maps[n]) : TakenIn(psbt, n, p)
    /\ mine # Nothing => Rereads(mine)

\* A document that has been read has its transaction and announces its maps.
LEMMA Announces ==
    ASSUME NEW doc, WellRead(doc)
    PROVE  /\ Announced(doc) \in Nat \ {0}
           /\ doc # <<>> =>
                LET p == CHOOSE p \in doc[1] : p.key.ty = 0
                IN  /\ p \in doc[1] /\ p.key.ty = 0 /\ p \in Pair
                    /\ p.value \in DOMAIN Tx /\ Tx[p.value] \in TxRecord
                    /\ Spends(doc[1]) = Tx[p.value]
                    /\ KeydataLen[p.key.data] = 0 /\ ~p.key.wide
<1>1. CASE doc = <<>> BY <1>1 DEF Announced
<1>2. CASE doc # <<>>
    <2> DEFINE p == CHOOSE p \in doc[1] : p.key.ty = 0
    <2>1. p \in doc[1] /\ p.key.ty = 0 BY <1>2 DEF WellRead
    <2>2. Spends(doc[1]) = Tx[p.value] BY DEF Spends
    <2> HIDE DEF p
    <2>3. doc \in Seq(SUBSET Pair) /\ 1 \in DOMAIN doc BY <1>2 DEF WellRead
    <2>4. p \in Pair BY <2>1, <2>3
    <2>5. GlobalFits(p) /\ ~p.key.wide BY <2>1, <2>3 DEF WellRead, FieldFits, IsGlobal
    <2>6. p.value \in DOMAIN Tx /\ KeydataLen[p.key.data] = 0
        BY <2>1, <2>5 DEF GlobalFits, UnsignedTx, Keyless
    <2>7. Tx[p.value] \in TxRecord BY <2>6, WireAssumption DEF TxRecord
    <2>8. Announced(doc) \in Nat \ {0} BY <1>2, <2>2, <2>7 DEF Announced, TxRecord
    <2> QED BY <2>1, <2>2, <2>4, <2>5, <2>6, <2>7, <2>8 DEF p
<1> QED BY <1>1, <1>2

\* Documents with the same transaction are read by the same rules.
LEMMA SameRules ==
    ASSUME NEW a, NEW b, a # <<>>, b # <<>>, Spends(a[1]) = Spends(b[1])
    PROVE  /\ Announced(a) = Announced(b)
           /\ \A n : IsInput(a, n) = IsInput(b, n)
           /\ \A n, p : FieldFits(a, n, p) = FieldFits(b, n, p)
           /\ \A n, p : TypedField(a, n, p) = TypedField(b, n, p)
           /\ \A n, p : Held(a, n, p) = Held(b, n, p)
           /\ \A n, p : Unset(a, n, p) = Unset(b, n, p)
<1>1. \A n : IsInput(a, n) = IsInput(b, n) BY DEF IsInput
<1>2. \A n, p : TypedField(a, n, p) = TypedField(b, n, p) BY <1>1 DEF TypedField
<1> QED BY <1>1, <1>2 DEF Announced, FieldFits, Held, Unset

\* The global map is read by rules of its own.
LEMMA GlobalRules ==
    ASSUME NEW a, NEW b
    PROVE  /\ \A p : FieldFits(a, 1, p) = FieldFits(b, 1, p)
           /\ \A p : TypedField(a, 1, p) = TypedField(b, 1, p)
           /\ \A p : Held(a, 1, p) = Held(b, 1, p)
           /\ \A p : Unset(a, 1, p) = FALSE
BY DEF FieldFits, Held, Unset, TypedField, IsGlobal

\* Of a transaction the one with an output and no scripts is still such a one
\* when it is written anew.
LEMMA AnewTx ==
    ASSUME NEW v \in DOMAIN Tx
    PROVE  /\ Tx[v].anew \in DOMAIN Tx /\ Tx[v].anew \in Value
           /\ Tx[Tx[v].anew].anew = Tx[v].anew
           /\ UnsignedTx(v) => UnsignedTx(Tx[v].anew)
<1>1. Tx[v] \in TxRecord BY WireAssumption
<1>2. Tx[v].anew \in DOMAIN Tx BY <1>1 DEF TxRecord
<1>3. LET w == Tx[v].anew
      IN  /\ Tx[w].anew = w /\ Tx[w].ins = Tx[v].ins /\ Tx[w].outs = Tx[v].outs
          /\ Tx[w].scripts = Tx[v].scripts /\ (Tx[w].marker => Tx[v].marker)
    BY WireAssumption
<1>4. UnsignedTx(v) => UnsignedTx(Tx[v].anew) BY <1>2, <1>3 DEF UnsignedTx
<1>5. Tx[v].anew \in Value BY <1>2, WireAssumption
<1> QED BY <1>2, <1>3, <1>4, <1>5

\* What is kept of a pair: the pair, but for a transaction or an output that
\* is rewritten.
LEMMA HeldIs ==
    ASSUME NEW doc, NEW n, NEW p \in Pair, ~p.key.wide, FieldFits(doc, n, p)
    PROVE  LET q == Held(doc, n, p)
           IN  /\ q \in Pair /\ q.key = p.key /\ ~q.key.wide
               /\ FieldFits(doc, n, q) /\ Held(doc, n, q) = q
               /\ q.value = p.value \/ (TypedField(doc, n, p) /\ Anew(q) = Anew(p))
<1> DEFINE typed == TypedField(doc, n, p)
           value == IF typed THEN Anew(p) ELSE p.value
           q == Held(doc, n, p)
<1>1. /\ p.key \in [ty : FieldType, wide : BOOLEAN, data : Keydata] /\ p.key.wide = FALSE
      /\ p = [key |-> p.key, value |-> p.value] /\ p.value \in Value
    BY DEF Pair
<1>2. [p.key EXCEPT !.wide = FALSE] = p.key BY <1>1
<1>3. q = [key |-> p.key, value |-> value] BY <1>2 DEF Held
<1>4. CASE ~typed
    <2>1. q = p BY <1>1, <1>3, <1>4
    <2> QED BY <1>1, <2>1
<1>5. CASE typed /\ p.key.ty \notin {0, 1}
    <2>1. Anew(p) = p.value BY <1>5 DEF Anew
    <2>2. q = p BY <1>1, <1>3, <1>5, <2>1
    <2> QED BY <1>1, <2>2
<1>6. CASE typed /\ p.key.ty = 0
    <2>1. p.value \in DOMAIN Tx
        BY <1>6 DEF TypedField, FieldFits, GlobalFits, InputFits, UnsignedTx
    <2>2. Anew(p) = Tx[p.value].anew BY <1>6 DEF Anew
    <2>3. /\ q.key = p.key /\ q.value = Tx[p.value].anew
          /\ q = [key |-> p.key, value |-> Tx[p.value].anew]
        BY <1>3, <1>6, <2>2
    <2>4. /\ Tx[p.value].anew \in DOMAIN Tx /\ Tx[p.value].anew \in Value
          /\ Tx[Tx[p.value].anew].anew = Tx[p.value].anew
          /\ UnsignedTx(p.value) => UnsignedTx(Tx[p.value].anew)
        BY <2>1, AnewTx
    <2> HIDE DEF q, value
    <2>5. q \in Pair BY <1>1, <2>3, <2>4 DEF Pair
    <2>6. FieldFits(doc, n, q)
        <3>1. CASE IsGlobal(n)
            <4>1. UnsignedTx(p.value) /\ Keyless(p)
                BY <1>6, <3>1 DEF FieldFits, GlobalFits
            <4> QED BY <1>6, <2>3, <2>4, <3>1, <4>1 DEF FieldFits, GlobalFits, Keyless
        <3>2. CASE ~IsGlobal(n)
            <4>1. IsInput(doc, n) BY <1>6, <3>2 DEF TypedField
            <4>2. Keyless(p) BY <1>6, <3>2, <4>1 DEF FieldFits, InputFits
            <4> QED BY <1>6, <2>3, <2>4, <3>2, <4>1, <4>2 DEF FieldFits, InputFits, Keyless
        <3> QED BY <3>1, <3>2
    <2>7. TypedField(doc, n, q) BY <1>6, <2>3 DEF TypedField
    <2>8. Anew(q) = q.value BY <1>6, <2>3, <2>4 DEF Anew
    <2>9. Held(doc, n, q) = q
        <3>1. Held(doc, n, q) = [key |-> [q.key EXCEPT !.wide = FALSE], value |-> Anew(q)]
            BY <2>7 DEF Held
        <3> QED BY <1>2, <2>3, <2>8, <3>1
    <2> QED BY <1>1, <1>6, <2>2, <2>3, <2>5, <2>6, <2>8, <2>9 DEF q
<1>7. CASE typed /\ p.key.ty = 1
    <2>1. ~IsGlobal(n) /\ IsInput(doc, n) BY <1>7 DEF TypedField
    <2>2. p.value \in DOMAIN Utxo /\ Keyless(p) BY <1>7, <2>1 DEF FieldFits, InputFits
    <2>3. Anew(p) = Utxo[p.value] BY <1>7 DEF Anew
    <2>4. /\ q.key = p.key /\ q.value = Utxo[p.value]
          /\ q = [key |-> p.key, value |-> Utxo[p.value]]
        BY <1>3, <1>7, <2>3
    <2>5. /\ Utxo[p.value] \in DOMAIN Utxo /\ Utxo[p.value] \in Value
          /\ Utxo[Utxo[p.value]] = Utxo[p.value]
        BY <2>2, WireAssumption
    <2> HIDE DEF q, value
    <2>6. q \in Pair BY <1>1, <2>4, <2>5 DEF Pair
    <2>7. FieldFits(doc, n, q)
        BY <1>7, <2>1, <2>2, <2>4, <2>5 DEF FieldFits, InputFits, Keyless
    <2>8. TypedField(doc, n, q) BY <1>7, <2>4 DEF TypedField
    <2>9. Anew(q) = q.value BY <1>7, <2>4, <2>5 DEF Anew
    <2>10. Held(doc, n, q) = q
        <3>1. Held(doc, n, q) = [key |-> [q.key EXCEPT !.wide = FALSE], value |-> Anew(q)]
            BY <2>8 DEF Held
        <3> QED BY <1>2, <2>4, <2>9, <3>1
    <2> QED BY <1>1, <1>7, <2>3, <2>4, <2>6, <2>7, <2>9, <2>10 DEF q
<1> QED BY <1>4, <1>5, <1>6, <1>7

\* A map is written with each of its pairs once.
LEMMA KeyOrderedLists ==
    ASSUME NEW S, IsFiniteSet(S), S \subseteq Pair
    PROVE  /\ KeyOrdered(S) \in Seq(Pair)
           /\ ToSet(KeyOrdered(S)) = S
           /\ \A j, k \in DOMAIN KeyOrdered(S) :
                KeyOrdered(S)[j] = KeyOrdered(S)[k] => j = k
<1> DEFINE Place(p, seq) == 1 + Cardinality({i \in DOMAIN seq : KeyBefore(seq[i], p)})
           Put(p, seq) == InsertAt(seq, Place(p, seq), p)
           iter == CHOOSE f : f = [s \in SUBSET S |-> IF s = {} THEN <<>>
                     ELSE Put(CHOOSE x \in s : TRUE, f[s \ {CHOOSE x \in s : TRUE}])]
           op == [pair \in S \X Seq(Pair) |-> Put(pair[1], pair[2])]
           Good(s, q) == /\ q \in Seq(Pair) /\ ToSet(q) = s
                         /\ \A j, k \in DOMAIN q : q[j] = q[k] => j = k
<1>1. KeyOrdered(S) = iter[S] BY DEF KeyOrdered, FoldSet, MapThenFoldSet
<1>2. ASSUME NEW p \in Pair, NEW seq \in Seq(Pair)
      PROVE  Place(p, seq) \in 1 .. Len(seq) + 1
    <2> DEFINE T == {i \in DOMAIN seq : KeyBefore(seq[i], p)}
    <2>1. DOMAIN seq = 1 .. Len(seq) /\ Len(seq) \in Nat OBVIOUS
    <2>2. IsFiniteSet(1 .. Len(seq)) /\ Cardinality(1 .. Len(seq)) = Len(seq)
        BY <2>1, FS_Interval
    <2>3. T \subseteq 1 .. Len(seq) BY <2>1
    <2> HIDE DEF T
    <2>4. Cardinality(T) <= Len(seq) /\ Cardinality(T) \in Nat
        BY <2>2, <2>3, FS_Subset, FS_CardinalityType
    <2> QED BY <2>1, <2>4 DEF T
<1> HIDE DEF Place
<1>3. ASSUME NEW p \in Pair, NEW s, p \notin s, NEW seq, Good(s, seq)
      PROVE  Good(s \cup {p}, Put(p, seq))
    <2>1. Place(p, seq) \in 1 .. Len(seq) + 1 BY <1>2, <1>3
    <2> DEFINE i == Place(p, seq)
               r == InsertAt(seq, i, p)
    <2> HIDE DEF i, r
    <2>2. /\ r \in Seq(Pair) /\ ToSet(r) = s \cup {p}
          /\ \A j, k \in DOMAIN r : r[j] = r[k] => j = k
        BY <1>3, <2>1, InsertKeeps DEF i, r
    <2> QED BY <2>2 DEF i, r
<1>4. op \in [S \X Seq(Pair) -> Seq(Pair)] BY <1>2, InsertKeeps
<1>5. PICK f \in [SUBSET S -> Seq(Pair)] : FoldsOver(f, op, <<>>, S)
    <2>1. <<>> \in Seq(Pair) OBVIOUS
    <2> HIDE DEF op
    <2> QED BY <1>4, <2>1, FoldExists
<1>6. ASSUME NEW s \in SUBSET S, s # {}
      PROVE  op[<<CHOOSE x \in s : TRUE, f[s \ {CHOOSE x \in s : TRUE}]>>]
               = Put(CHOOSE x \in s : TRUE, f[s \ {CHOOSE x \in s : TRUE}])
    <2> DEFINE x == CHOOSE x \in s : TRUE
               q == f[s \ {x}]
    <2>1. x \in S BY <1>6
    <2>2. q \in Seq(Pair) OBVIOUS
    <2> HIDE DEF x, q, Put
    <2>3. op[<<x, q>>] = Put(x, q) BY <2>1, <2>2
    <2> QED BY <2>3 DEF x, q
<1>7. iter = [s \in SUBSET S |-> IF s = {} THEN <<>>
                ELSE Put(CHOOSE x \in s : TRUE, iter[s \ {CHOOSE x \in s : TRUE}])]
    <2> DEFINE a(s) == op[<<CHOOSE x \in s : TRUE, f[s \ {CHOOSE x \in s : TRUE}]>>]
               b(g, s) == Put(CHOOSE x \in s : TRUE, g[s \ {CHOOSE x \in s : TRUE}])
    <2>1. \A s \in SUBSET S : s # {} => a(s) = b(f, s)
        <3> HIDE DEF op, Put
        <3> QED BY <1>6
    <2>2. f = [s \in SUBSET S |-> IF s = {} THEN <<>> ELSE a(s)]
        <3> HIDE DEF op
        <3> QED BY <1>5 DEF FoldsOver
    <2>3. f = [s \in SUBSET S |-> IF s = {} THEN <<>> ELSE b(f, s)]
        <3> HIDE DEF a, b
        <3> QED BY <2>1, <2>2
    <2>4. iter = CHOOSE g : g = [s \in SUBSET S |-> IF s = {} THEN <<>> ELSE b(g, s)]
        OBVIOUS
    <2>5. iter = [s \in SUBSET S |-> IF s = {} THEN <<>> ELSE b(iter, s)]
        <3> HIDE DEF iter, b
        <3> QED BY <2>3, <2>4
    <2> HIDE DEF iter
    <2> QED BY <2>5
<1> HIDE DEF iter, Put, op
<1>8. Good(S, iter[S])
    <2> DEFINE F == {s \in SUBSET S : ~Good(s, iter[s])}
    <2> SUFFICES ASSUME F # {} PROVE FALSE
        <3> HIDE DEF Good
        <3> QED OBVIOUS
    <2>1. F \subseteq FiniteSubsetsOf(S) BY FS_Subset DEF FiniteSubsetsOf
    <2>2. PICK s \in F : \A t \in F : t \subseteq s => t = s
        <3> HIDE DEF F
        <3> QED BY <2>1, MinimalSet
    <2>3. s \in SUBSET S /\ ~Good(s, iter[s]) OBVIOUS
    <2>4. s # {}
        <3>1. iter[{}] = <<>> BY <1>7
        <3>2. Good({}, <<>>) BY DEF ToSet
        <3> QED BY <2>3, <3>1, <3>2
    <2> DEFINE x == CHOOSE x \in s : TRUE
               t == s \ {x}
    <2>5. x \in s /\ x \in Pair BY <2>3, <2>4
    <2>6. iter[s] = Put(x, iter[t]) BY <1>7, <2>3, <2>4
    <2> HIDE DEF x, Good
    <2>7. Good(t, iter[t]) BY <2>2, <2>3, <2>5
    <2>8. x \notin t /\ t \cup {x} = s BY <2>5
    <2> HIDE DEF t
    <2> QED BY <1>3, <2>3, <2>5, <2>6, <2>7, <2>8
<1> QED BY <1>1, <1>8

\* What is written of a map that has been read: its pairs but the empty final
\* scripts, each once, and a key once.
LEMMA WrittenMaps ==
    ASSUME NEW doc, WellRead(doc), NEW n \in DOMAIN doc
    PROVE  LET map == Written(doc).maps[n]
           IN  /\ map \in Seq(Pair) /\ ToSet(map) = Kept(doc)[n]
               /\ Kept(doc)[n] \subseteq doc[n] /\ doc[n] \subseteq Pair
               /\ ~Duplicated(map)
<1> DEFINE K == Kept(doc)[n]
           map == KeyOrdered(K)
<1>1. K \subseteq doc[n] BY DEF Kept
<1>2. doc \in Seq(SUBSET Pair) /\ doc[n] \subseteq Pair /\ IsFiniteSet(doc[n])
    BY SeqElement DEF WellRead
<1>3. IsFiniteSet(K) /\ K \subseteq Pair BY <1>1, <1>2, FS_Subset
<1>4. Written(doc).maps[n] = map BY DEF Written
<1> HIDE DEF K
<1>5. /\ map \in Seq(Pair) /\ ToSet(map) = K
      /\ \A j, k \in DOMAIN map : map[j] = map[k] => j = k
    BY <1>3, KeyOrderedLists
<1> HIDE DEF map
<1>6. ~Duplicated(map)
    <2> SUFFICES ASSUME NEW i \in DOMAIN map, NEW j \in DOMAIN map, i # j,
                        map[i].key = map[j].key
                 PROVE  FALSE
        BY DEF Duplicated
    <2>1. map[i] \in doc[n] /\ map[j] \in doc[n] BY <1>1, <1>5 DEF ToSet
    <2>2. map[i] = map[j] BY <2>1 DEF WellRead
    <2> QED BY <1>5, <2>2
<1> QED BY <1>1, <1>2, <1>4, <1>5, <1>6 DEF K

\* It is a document in transport, with the maps of the one it was written from.
LEMMA WrittenType ==
    ASSUME NEW doc, WellRead(doc)
    PROVE  Written(doc) \in File /\ Len(Written(doc).maps) = Len(doc) /\ ~Written(doc).cut
<1> DEFINE maps == [n \in DOMAIN doc |-> KeyOrdered(Kept(doc)[n])]
<1>1. Written(doc) = [maps |-> maps, cut |-> FALSE] BY DEF Written
<1>2. \A n \in DOMAIN doc : maps[n] \in Seq(Pair) BY <1>1, WrittenMaps
<1>3. DOMAIN doc = 1 .. Len(doc) /\ Len(doc) \in Nat BY DEF WellRead
<1>4. maps \in [1 .. Len(doc) -> Seq(Pair)]
    <2>1. DOMAIN maps = 1 .. Len(doc) BY <1>3
    <2>2. maps = [n \in 1 .. Len(doc) |-> maps[n]] BY <1>3
    <2> HIDE DEF maps
    <2> QED BY <1>2, <1>3, <2>1, <2>2
<1> HIDE DEF maps
<1>5. maps \in Seq(Seq(Pair)) /\ Len(maps) = Len(doc)
    <2> DEFINE V == Seq(Pair)
    <2>1. maps \in [1 .. Len(doc) -> V] BY <1>4
    <2> HIDE DEF V
    <2> QED BY <1>3, <2>1, FunctionIsSeq DEF V
<1> QED BY <1>1, <1>5 DEF File

\* Leaving out the empty final scripts leaves nothing more to leave out.
LEMMA KeptAgain ==
    ASSUME NEW doc, WellRead(doc), doc # <<>>, NEW other, DOMAIN other = DOMAIN doc,
           \A n \in DOMAIN doc : other[n] = Kept(doc)[n]
    PROVE  other[1] = doc[1] /\ Kept(other) = [n \in DOMAIN doc |-> other[n]]
<1>1. 1 \in DOMAIN doc BY DEF WellRead
<1>2. other[1] = doc[1] BY <1>1, GlobalRules DEF Kept
<1>3. other # <<>> BY <1>1
<1>4. \A n, p : Unset(other, n, p) = Unset(doc, n, p) BY <1>2, <1>3, SameRules
<1>5. \A n \in DOMAIN doc : {p \in other[n] : ~Unset(other, n, p)} = other[n]
    BY <1>4 DEF Kept
<1> QED BY <1>2, <1>5 DEF Kept

----------------------------------------------------------------------------
(* Reading, writing and combining keep the invariant *)

\* The map that is read next, and the document with it.
NextMap == Len(psbt) + 1
Longer == Append(psbt, Interpreted(psbt, NextMap, file.maps[NextMap]))

\* A map that was read keeps every pair, and leaves the document well read.
LEMMA MapRead ==
    ASSUME WellRead(psbt), file \in File,
           NextMap <= Announced(psbt), NextMap <= Len(file.maps),
           ~Duplicated(file.maps[NextMap]),
           \A p \in ToSet(file.maps[NextMap]) : KeyReads(p) /\ FieldFits(psbt, NextMap, p),
           IsGlobal(NextMap) => \E p \in ToSet(file.maps[NextMap]) : p.key.ty = 0
    PROVE  /\ WellRead(Longer) /\ Longer # <<>> /\ Len(Longer) = NextMap
           /\ Longer[NextMap] = Interpreted(psbt, NextMap, file.maps[NextMap])
           /\ \A m \in DOMAIN psbt : m \in DOMAIN Longer /\ Longer[m] = psbt[m]
           /\ \A m \in DOMAIN Longer : m \in DOMAIN psbt \/ m = NextMap
           /\ \A m \in DOMAIN Longer : \A p : TypedField(Longer, m, p) = TypedField(psbt, m, p)
           /\ \A p \in ToSet(file.maps[NextMap]) : TakenIn(Longer, NextMap, p)
<1> DEFINE n == NextMap
           new == Longer
<1>a. /\ n = Len(psbt) + 1 /\ n <= Announced(psbt) /\ n <= Len(file.maps)
      /\ ~Duplicated(file.maps[n])
      /\ \A p \in ToSet(file.maps[n]) : KeyReads(p) /\ FieldFits(psbt, n, p)
      /\ IsGlobal(n) => \E p \in ToSet(file.maps[n]) : p.key.ty = 0
      /\ new = Append(psbt, Interpreted(psbt, n, file.maps[n]))
    BY DEF NextMap, Longer
<1> HIDE DEF n, new
<1> DEFINE pairs == file.maps[n]
           S == Interpreted(psbt, n, pairs)
<1>1. psbt \in Seq(SUBSET Pair) /\ Len(psbt) \in Nat /\ n \in Nat BY <1>a DEF WellRead
<1>2. pairs \in Seq(Pair)
    <2> DEFINE V == Seq(Pair)
    <2>1. file.maps \in Seq(V) /\ n \in DOMAIN file.maps BY <1>1, <1>a DEF File
    <2> HIDE DEF V
    <2>2. file.maps[n] \in V BY <2>1, SeqElement
    <2> QED BY <2>2 DEF V
<1> HIDE DEF pairs
<1>3. \A p \in ToSet(pairs) : /\ p \in Pair /\ ~p.key.wide /\ FieldFits(psbt, n, p)
    BY <1>2, <1>a DEF ToSet, KeyReads, pairs
<1>4. \A p \in ToSet(pairs) :
        LET q == Held(psbt, n, p)
        IN  /\ q \in Pair /\ q.key = p.key /\ ~q.key.wide
            /\ FieldFits(psbt, n, q) /\ Held(psbt, n, q) = q
            /\ q.value = p.value \/ (TypedField(psbt, n, p) /\ Anew(q) = Anew(p))
    BY <1>3, HeldIs
<1>5. \A q \in S : \E p \in ToSet(pairs) : q = Held(psbt, n, p) /\ ~Forgotten(n, p)
    BY DEF Interpreted
<1>6. IsFiniteSet(S)
    <2>1. IsFiniteSet(1 .. Len(pairs)) /\ DOMAIN pairs = 1 .. Len(pairs)
        <3>1. Len(pairs) \in Nat /\ DOMAIN pairs = 1 .. Len(pairs) BY <1>2
        <3> QED BY <3>1, FS_Interval
    <2>2. IsFiniteSet(ToSet(pairs))
        <3>1. ToSet(pairs) = {pairs[i] : i \in 1 .. Len(pairs)} BY <2>1 DEF ToSet
        <3>2. pairs = [i \in 1 .. Len(pairs) |-> pairs[i]] BY <1>2
        <3> QED BY <2>1, <3>1, <3>2, FiniteImage
    <2> DEFINE left == {q \in ToSet(pairs) : ~Forgotten(n, q)}
    <2>3. IsFiniteSet(left) BY <2>2, FS_Subset
    <2> DEFINE f == [p \in left |-> Held(psbt, n, p)]
    <2>4. S = {f[p] : p \in left} BY DEF Interpreted
    <2>5. DOMAIN f = left /\ f = [p \in left |-> f[p]] OBVIOUS
    <2> HIDE DEF left, f, S
    <2> QED BY <2>3, <2>4, <2>5, FiniteImage
<1>7. ASSUME NEW q \in S, NEW r \in S, q.key = r.key
      PROVE  q = r
    <2>1. PICK p \in ToSet(pairs) : q = Held(psbt, n, p)
        <3> HIDE DEF S
        <3> QED BY <1>5
    <2>2. PICK o \in ToSet(pairs) : r = Held(psbt, n, o)
        <3> HIDE DEF S
        <3> QED BY <1>5
    <2>3. p.key = o.key BY <1>4, <1>7, <2>1, <2>2
    <2>4. PICK i \in DOMAIN pairs : p = pairs[i] BY DEF ToSet
    <2>5. PICK j \in DOMAIN pairs : o = pairs[j] BY DEF ToSet
    <2>6. i = j BY <1>a, <2>3, <2>4, <2>5 DEF Duplicated, pairs
    <2> QED BY <2>1, <2>2, <2>4, <2>5, <2>6
<1>8. \A q \in S : /\ q \in Pair /\ ~q.key.wide /\ FieldFits(psbt, n, q)
                   /\ ~Forgotten(n, q) /\ Held(psbt, n, q) = q
    BY <1>4, <1>5 DEF Forgotten
<1>9. \A p \in ToSet(pairs) :
        \/ Forgotten(n, p)
        \/ \E q \in S : /\ q.key = p.key
                        /\ q.value = p.value \/ (TypedField(psbt, n, p) /\ Anew(q) = Anew(p))
    BY <1>4 DEF Interpreted
<1>10. IsGlobal(n) => \E q \in S : q.key.ty = 0
    <2> SUFFICES ASSUME IsGlobal(n) PROVE \E q \in S : q.key.ty = 0 OBVIOUS
    <2>1. PICK p \in ToSet(pairs) : p.key.ty = 0 BY <1>a DEF pairs
    <2>2. ~Forgotten(n, p) BY <2>1 DEF Forgotten
    <2> QED BY <1>4, <2>1, <2>2 DEF Interpreted
<1>11. new = Append(psbt, S) BY <1>a DEF pairs
<1> HIDE DEF S
<1>12. /\ new \in Seq(SUBSET Pair) /\ Len(new) = n /\ new[n] = S
       /\ \A m \in DOMAIN psbt : m \in DOMAIN new /\ new[m] = psbt[m]
       /\ \A m \in DOMAIN new : m \in DOMAIN psbt \/ m = n
       /\ n \in DOMAIN new /\ new # <<>>
    <2> DEFINE V == SUBSET Pair
    <2>1. S \in V /\ psbt \in Seq(V) /\ n = Len(psbt) + 1 /\ new = Append(psbt, S)
        BY <1>1, <1>8, <1>11, <1>a
    <2> HIDE DEF V
    <2>2. /\ new \in Seq(V) /\ Len(new) = n /\ new[n] = S
          /\ \A m \in DOMAIN psbt : m \in DOMAIN new /\ new[m] = psbt[m]
          /\ \A m \in DOMAIN new : m \in DOMAIN psbt \/ m = n
          /\ n \in DOMAIN new /\ new # <<>>
        BY <2>1
    <2> QED BY <2>2 DEF V
<1>13. psbt # <<>> => 1 \in DOMAIN psbt /\ new[1] = psbt[1] /\ n # 1 BY <1>1, <1>12, <1>a
<1>14. psbt = <<>> => n = 1 BY <1>1, <1>a
<1>15. /\ \A m \in DOMAIN new : \A p : FieldFits(new, m, p) = FieldFits(psbt, m, p)
       /\ \A m \in DOMAIN new : \A p : TypedField(new, m, p) = TypedField(psbt, m, p)
       /\ \A m \in DOMAIN new : \A p : Held(new, m, p) = Held(psbt, m, p)
       /\ psbt # <<>> => Announced(new) = Announced(psbt)
    <2>1. CASE psbt = <<>>
        <3>1. \A m \in DOMAIN new : m = 1 BY <1>12, <1>14, <2>1
        <3>2. \A p : FieldFits(new, 1, p) = FieldFits(psbt, 1, p)
            BY GlobalRules
        <3>3. \A p : /\ TypedField(new, 1, p) = TypedField(psbt, 1, p)
                     /\ Held(new, 1, p) = Held(psbt, 1, p)
            BY GlobalRules
        <3> QED BY <2>1, <3>1, <3>2, <3>3
    <2>2. CASE psbt # <<>>
        <3>1. Spends(new[1]) = Spends(psbt[1]) BY <1>13, <2>2
        <3>2. new # <<>> BY <1>12
        <3>3. Announced(new) = Announced(psbt) BY <2>2, <3>1, <3>2, SameRules
        <3>4. \A m, p : FieldFits(new, m, p) = FieldFits(psbt, m, p)
            BY <2>2, <3>1, <3>2, SameRules
        <3>5. ASSUME NEW m, NEW p
              PROVE  /\ TypedField(new, m, p) = TypedField(psbt, m, p)
                     /\ Held(new, m, p) = Held(psbt, m, p)
            BY <2>2, <3>1, <3>2, SameRules
        <3> QED BY <3>3, <3>4, <3>5
    <2> QED BY <2>1, <2>2
<1>16. \E p \in new[1] : p.key.ty = 0
    <2>1. CASE psbt = <<>> BY <1>10, <1>12, <1>14, <2>1 DEF IsGlobal
    <2>2. CASE psbt # <<>> BY <1>13, <2>2 DEF WellRead
    <2> QED BY <2>1, <2>2
<1>17. \A m \in DOMAIN new :
         /\ IsFiniteSet(new[m])
         /\ \A p, q \in new[m] : p.key = q.key => p = q
         /\ \A p \in new[m] : /\ ~p.key.wide /\ FieldFits(new, m, p)
                              /\ ~Forgotten(m, p) /\ Held(new, m, p) = p
    <2> SUFFICES ASSUME NEW m \in DOMAIN new
                 PROVE  /\ IsFiniteSet(new[m])
                        /\ \A p, q \in new[m] : p.key = q.key => p = q
                        /\ \A p \in new[m] : /\ ~p.key.wide /\ FieldFits(psbt, m, p)
                                             /\ ~Forgotten(m, p) /\ Held(psbt, m, p) = p
        BY <1>15
    <2>1. CASE m \in DOMAIN psbt
        <3>1. new[m] = psbt[m] BY <1>12, <2>1
        <3> QED BY <2>1, <3>1 DEF WellRead
    <2>2. CASE m = n BY <1>6, <1>7, <1>8, <1>12, <2>2
    <2> QED BY <1>12, <2>1, <2>2
<1>18. Len(new) <= Announced(new)
    <2>1. CASE psbt # <<>> BY <1>12, <1>15, <1>a, <2>1
    <2>2. CASE psbt = <<>>
        <3> DEFINE p == CHOOSE p \in new[1] : p.key.ty = 0
        <3>1. p \in new[1] /\ p.key.ty = 0 /\ new[1] = S BY <1>12, <1>14, <1>16, <2>2
        <3>2. Spends(new[1]) = Tx[p.value] BY DEF Spends
        <3> HIDE DEF p
        <3>3. FieldFits(psbt, 1, p) BY <1>8, <1>14, <2>2, <3>1
        <3>4. p.value \in DOMAIN Tx
            BY <3>1, <3>3 DEF FieldFits, IsGlobal, GlobalFits, UnsignedTx
        <3>5. Tx[p.value] \in TxRecord BY <3>4, WireAssumption DEF TxRecord
        <3> QED BY <1>12, <1>14, <2>2, <3>2, <3>5 DEF Announced, TxRecord
    <2> QED BY <2>1, <2>2
<1>19. WellRead(new) BY <1>12, <1>16, <1>17, <1>18 DEF WellRead
<1>20. \A p \in ToSet(pairs) : TakenIn(new, n, p)
    BY <1>9, <1>12, <1>15 DEF TakenIn
<1> QED BY <1>12, <1>13, <1>15, <1>19, <1>20 DEF S, pairs, n, new

\* Nothing has been read at first.
LEMMA InitWInv == WireInit => WInv
<1> SUFFICES ASSUME WireInit PROVE WInv OBVIOUS
<1>1. WellRead(<<>>) BY DEF WellRead, Announced
<1> QED BY <1>1 DEF WireInit, WInv

\* A file that comes in has not been read yet.
LEMMA ReceiveWInv == WInv /\ Receive => WInv'
<1> SUFFICES ASSUME WInv, Receive PROVE WInv' OBVIOUS
<1>1. psbt = <<>> /\ mine = Nothing /\ psbt' = psbt /\ mine' = mine /\ verdict' = "reading"
      /\ file' \in File
    BY FilesAssumption DEF WInv, Receive, File
<1>2. WellRead(psbt') /\ Len(psbt') = 0 /\ DOMAIN psbt' = {} BY <1>1 DEF WInv
<1>3. Len(file'.maps) \in Nat BY <1>1 DEF File
<1> QED BY <1>1, <1>2, <1>3 DEF WInv

\* A refusal keeps what has been read; a file written here is not refused.
LEMMA RefuseWInv ==
    ASSUME WInv, NEW error, error \in Errors, mine = Nothing, RefuseFile(error),
           verdict # "none"
    PROVE  WInv'
<1>1. psbt' = psbt /\ file' = file /\ mine' = mine /\ verdict' = error BY DEF RefuseFile
<1>2. error \notin {"none", "reading", "accepted"} BY DEF Errors
<1>3. WellRead(psbt') BY <1>1 DEF WInv
<1> QED BY <1>1, <1>2, <1>3 DEF WInv

\* Reading a map of a file that was written here gives back the map.
LEMMA RereadsMap ==
    ASSUME WInv, mine # Nothing, NEW n, n = Len(psbt) + 1, n <= Announced(psbt),
           n <= Len(file.maps)
    PROVE  /\ n \in DOMAIN mine /\ ~file.cut
           /\ ~Duplicated(file.maps[n])
           /\ \A p \in ToSet(file.maps[n]) : KeyReads(p) /\ FieldFits(psbt, n, p)
           /\ IsGlobal(n) => \E p \in ToSet(file.maps[n]) : p.key.ty = 0
           /\ Interpreted(psbt, n, file.maps[n]) = Kept(mine)[n]
<1>1. Rereads(mine) /\ WellRead(psbt) BY DEF WInv
<1>2. /\ WellRead(mine) /\ file = Written(mine) /\ Len(psbt) <= Len(mine)
      /\ \A m \in DOMAIN psbt : psbt[m] = Kept(mine)[m]
    BY <1>1 DEF Rereads
<1>3. mine \in Seq(SUBSET Pair) /\ psbt \in Seq(SUBSET Pair) BY <1>1, <1>2 DEF WellRead
<1>4. Len(file.maps) = Len(mine) /\ ~file.cut BY <1>2, WrittenType
<1>5. n \in DOMAIN mine /\ mine # <<>> BY <1>3, <1>4
<1>6. /\ ToSet(file.maps[n]) = Kept(mine)[n] /\ Kept(mine)[n] \subseteq mine[n]
      /\ mine[n] \subseteq Pair /\ ~Duplicated(file.maps[n])
    BY <1>2, <1>5, WrittenMaps
<1>7. \A p : /\ FieldFits(psbt, n, p) <=> FieldFits(mine, n, p)
             /\ Held(psbt, n, p) = Held(mine, n, p)
    <2>1. CASE n = 1 BY <2>1, GlobalRules
    <2>2. CASE n # 1
        <3>1. psbt # <<>> /\ 1 \in DOMAIN psbt /\ 1 \in DOMAIN mine BY <1>3, <1>5, <2>2
        <3>2. psbt[1] = mine[1] BY <1>2, <3>1, GlobalRules DEF Kept
        <3> QED BY <3>1, <3>2, SameRules
    <2> QED BY <2>1, <2>2
<1>8. \A p \in mine[n] : /\ ~p.key.wide /\ FieldFits(mine, n, p)
                         /\ ~Forgotten(n, p) /\ Held(mine, n, p) = p
    BY <1>2, <1>5 DEF WellRead
<1>9. \A p \in ToSet(file.maps[n]) : KeyReads(p) /\ FieldFits(psbt, n, p)
    BY <1>6, <1>7, <1>8 DEF KeyReads
<1>10. Interpreted(psbt, n, file.maps[n]) = Kept(mine)[n]
    <2>1. \A p \in Kept(mine)[n] : Held(psbt, n, p) = p /\ ~Forgotten(n, p)
        BY <1>6, <1>7, <1>8
    <2> QED BY <1>6, <2>1 DEF Interpreted
<1>11. IsGlobal(n) => \E p \in ToSet(file.maps[n]) : p.key.ty = 0
    <2> SUFFICES ASSUME n = 1 PROVE \E p \in Kept(mine)[n] : p.key.ty = 0
        BY <1>6 DEF IsGlobal
    <2>1. PICK p \in mine[1] : p.key.ty = 0 BY <1>2, <1>5 DEF WellRead
    <2>2. ~Unset(mine, 1, p) BY GlobalRules
    <2> QED BY <1>5, <2>1, <2>2 DEF Kept
<1> QED BY <1>4, <1>5, <1>6, <1>9, <1>10, <1>11

\* Reading a map, or refusing it.
LEMMA ReadMapWInv == WInv /\ ReadMap => WInv'
<1> SUFFICES ASSUME WInv, ReadMap PROVE WInv' OBVIOUS
<1> DEFINE n == Len(psbt) + 1
           pairs == file.maps[n]
           reads == /\ \A p \in ToSet(pairs) : KeyReads(p) /\ FieldFits(psbt, n, p)
                    /\ IsGlobal(n) => \E p \in ToSet(pairs) : p.key.ty = 0
           isCut == file.cut /\ n = Len(file.maps)
<1>1. /\ verdict = "reading" /\ n <= Announced(psbt) /\ n <= Len(file.maps)
      /\ \/ Duplicated(pairs) /\ RefuseFile("DuplicateKey")
         \/ ~Duplicated(pairs) /\ isCut /\ RefuseFile("Truncated")
         \/ ~Duplicated(pairs) /\ ~isCut /\ ~reads /\ RefuseFile("Malformed")
         \/ /\ ~Duplicated(pairs) /\ ~isCut /\ reads
            /\ psbt' = Append(psbt, Interpreted(psbt, n, pairs))
            /\ UNCHANGED <<file, verdict, mine>>
    BY DEF ReadMap
<1>2. mine # Nothing => /\ ~Duplicated(pairs) /\ ~isCut /\ reads
                        /\ Interpreted(psbt, n, pairs) = Kept(mine)[n]
                        /\ n \in DOMAIN mine
    <2> HIDE DEF WInv
    <2> QED BY <1>1, RereadsMap
<1> HIDE DEF n, pairs, reads, isCut
<1>3. CASE /\ ~Duplicated(pairs) /\ ~isCut /\ reads
           /\ psbt' = Append(psbt, Interpreted(psbt, n, pairs))
           /\ UNCHANGED <<file, verdict, mine>>
    <2>1. WellRead(psbt) /\ file \in File BY <1>1 DEF WInv
    <2>2. /\ WellRead(psbt') /\ psbt' # <<>> /\ Len(psbt') = n
          /\ psbt'[n] = Interpreted(psbt, n, pairs)
          /\ \A m \in DOMAIN psbt : m \in DOMAIN psbt' /\ psbt'[m] = psbt[m]
          /\ \A m \in DOMAIN psbt' : m \in DOMAIN psbt \/ m = n
          /\ \A m \in DOMAIN psbt' : \A p : TypedField(psbt', m, p) = TypedField(psbt, m, p)
          /\ \A p \in ToSet(pairs) : TakenIn(psbt', n, p)
        <3>1. n = NextMap BY DEF n, NextMap
        <3>2. /\ n <= Announced(psbt) /\ n <= Len(file.maps)
              /\ ~Duplicated(file.maps[n])
              /\ \A p \in ToSet(file.maps[n]) : KeyReads(p) /\ FieldFits(psbt, n, p)
              /\ IsGlobal(n) => \E p \in ToSet(file.maps[n]) : p.key.ty = 0
            BY <1>1, <1>3 DEF pairs, reads
        <3>3. psbt' = Longer BY <1>3, <3>1 DEF Longer, pairs
        <3> HIDE DEF WInv
        <3>4. /\ WellRead(Longer) /\ Longer # <<>> /\ Len(Longer) = n
              /\ Longer[n] = Interpreted(psbt, n, file.maps[n])
              /\ \A m \in DOMAIN psbt : m \in DOMAIN Longer /\ Longer[m] = psbt[m]
              /\ \A m \in DOMAIN Longer : m \in DOMAIN psbt \/ m = n
              /\ \A m \in DOMAIN Longer : \A p : TypedField(Longer, m, p) = TypedField(psbt, m, p)
              /\ \A p \in ToSet(file.maps[n]) : TakenIn(Longer, n, p)
            BY <2>1, <3>1, <3>2, MapRead
        <3> QED BY <3>3, <3>4 DEF pairs
    <2>3. ASSUME NEW m \in DOMAIN psbt'
          PROVE  \A p \in ToSet(file.maps[m]) : TakenIn(psbt', m, p)
        <3>1. CASE m \in DOMAIN psbt
            <4>1. \A p \in ToSet(file.maps[m]) : TakenIn(psbt, m, p) BY <1>1, <3>1 DEF WInv
            <4>2. psbt'[m] = psbt[m] BY <2>2, <3>1
            <4>3. \A p : TypedField(psbt', m, p) = TypedField(psbt, m, p) BY <2>2, <2>3
            <4> QED BY <4>1, <4>2, <4>3 DEF TakenIn
        <3>2. CASE m = n BY <2>2, <3>2 DEF pairs
        <3> QED BY <2>2, <2>3, <3>1, <3>2
    <2>4. ASSUME mine # Nothing
          PROVE  Rereads(mine)'
        <3>1. Rereads(mine) BY <2>4 DEF WInv
        <3>2. mine \in Seq(SUBSET Pair) BY <3>1 DEF Rereads, WellRead
        <3>3. n <= Len(mine) BY <1>2, <2>4, <3>2
        <3>4. ASSUME NEW m \in DOMAIN psbt'
              PROVE  psbt'[m] = Kept(mine)[m]
            <4>1. CASE m \in DOMAIN psbt BY <2>2, <3>1, <4>1 DEF Rereads
            <4>2. CASE m = n BY <1>2, <2>2, <2>4, <4>2
            <4> QED BY <2>2, <3>4, <4>1, <4>2
        <3>5. WellRead(mine') /\ Len(mine') = Announced(mine') /\ file' = Written(mine')
              /\ verdict' \in {"reading", "accepted"}
            BY <1>3, <3>1 DEF Rereads
        <3>6. Len(psbt') <= Len(mine') /\ \A m \in DOMAIN psbt' : psbt'[m] = Kept(mine')[m]
            BY <1>3, <2>2, <3>3, <3>4
        <3> QED BY <3>5, <3>6 DEF Rereads
    <2> QED BY <1>1, <1>3, <2>1, <2>2, <2>3, <2>4 DEF WInv
<1>4. CASE Duplicated(pairs) /\ RefuseFile("DuplicateKey")
    BY <1>1, <1>2, <1>4, RefuseWInv DEF Errors
<1>5. CASE ~Duplicated(pairs) /\ isCut /\ RefuseFile("Truncated")
    BY <1>1, <1>2, <1>5, RefuseWInv DEF Errors
<1>6. CASE ~Duplicated(pairs) /\ ~isCut /\ ~reads /\ RefuseFile("Malformed")
    BY <1>1, <1>2, <1>6, RefuseWInv DEF Errors
<1> QED BY <1>1, <1>3, <1>4, <1>5, <1>6

\* The end of a file that was written here comes where it is announced.
LEMMA EndsWInv == WInv /\ (MissingMap \/ EndOfMaps) => WInv'
<1> SUFFICES ASSUME WInv, MissingMap \/ EndOfMaps PROVE WInv' OBVIOUS
<1>1. verdict = "reading" BY DEF MissingMap, EndOfMaps
<1>2. WellRead(psbt) /\ psbt \in Seq(SUBSET Pair) /\ Announced(psbt) \in Nat \ {0}
    BY Announces DEF WInv, WellRead
<1>3. ASSUME mine # Nothing
      PROVE  /\ Len(file.maps) = Announced(mine) /\ Announced(mine) \in Nat \ {0}
             /\ psbt # <<>> => Announced(psbt) = Announced(mine)
    <2>1. Rereads(mine) BY <1>3 DEF WInv
    <2>2. WellRead(mine) /\ mine \in Seq(SUBSET Pair) /\ file = Written(mine)
          /\ Len(mine) = Announced(mine)
        BY <2>1 DEF Rereads, WellRead
    <2>3. Len(file.maps) = Len(mine) BY <2>2, WrittenType
    <2>4. psbt # <<>> => Announced(psbt) = Announced(mine)
        <3> SUFFICES ASSUME psbt # <<>> PROVE Announced(psbt) = Announced(mine) OBVIOUS
        <3>1. 1 \in DOMAIN psbt /\ Len(psbt) <= Len(mine) BY <1>2, <2>1 DEF Rereads
        <3>2. 1 \in DOMAIN mine /\ mine # <<>> BY <1>2, <2>2, <3>1
        <3>3. psbt[1] = mine[1] BY <2>1, <3>1, <3>2, GlobalRules DEF Rereads, Kept
        <3> QED BY <3>2, <3>3 DEF Announced
    <2> QED BY <2>2, <2>3, <2>4, Announces
<1>4. CASE MissingMap
    <2>1. Len(psbt) < Announced(psbt) /\ Len(psbt) = Len(file.maps)
          /\ RefuseFile("MapCountMismatch")
        BY <1>4 DEF MissingMap
    <2>2. mine = Nothing
        <3> SUFFICES ASSUME mine # Nothing PROVE FALSE OBVIOUS
        <3> QED BY <1>2, <1>3, <2>1
    <2> QED BY <1>1, <2>1, <2>2, RefuseWInv DEF Errors
<1>5. CASE EndOfMaps
    <2>1. /\ Len(psbt) = Announced(psbt) /\ psbt # <<>>
          /\ \/ Len(file.maps) = Announced(psbt) /\ RefuseFile("accepted")
             \/ Len(file.maps) > Announced(psbt)
                /\ (RefuseFile("Truncated") \/ RefuseFile("MapCountMismatch"))
        BY <1>2, <1>5 DEF EndOfMaps
    <2>2. CASE Len(file.maps) = Announced(psbt) /\ RefuseFile("accepted")
        <3>1. psbt' = psbt /\ file' = file /\ mine' = mine /\ verdict' = "accepted"
            BY <2>2 DEF RefuseFile
        <3>2. mine # Nothing => Rereads(mine)'
            BY <3>1 DEF WInv, Rereads
        <3>3. WellRead(psbt') BY <1>2, <3>1
        <3> QED BY <1>1, <2>1, <2>2, <3>1, <3>2, <3>3 DEF WInv
    <2>3. CASE Len(file.maps) > Announced(psbt)
               /\ (RefuseFile("Truncated") \/ RefuseFile("MapCountMismatch"))
        <3>1. mine = Nothing
            <4> SUFFICES ASSUME mine # Nothing PROVE FALSE OBVIOUS
            <4> QED BY <1>2, <1>3, <2>1, <2>3
        <3> QED BY <1>1, <2>3, <3>1, RefuseWInv DEF Errors
    <2> QED BY <2>1, <2>2, <2>3
<1> QED BY <1>4, <1>5

\* What is written is the document, ready to be read again.
LEMMA SerializeWInv == WInv /\ SerializePsbt => WInv'
<1> SUFFICES ASSUME WInv, SerializePsbt PROVE WInv' OBVIOUS
<1>1. /\ verdict = "accepted" /\ verdict' = "reading" /\ mine' = psbt /\ psbt' = <<>>
      /\ file' = Written(psbt)
    BY DEF SerializePsbt
<1>2. WellRead(psbt) /\ Len(psbt) = Announced(psbt) /\ Len(psbt) \in Nat
    BY <1>1 DEF WInv, WellRead
<1>3. WellRead(<<>>) BY DEF WellRead, Announced
<1>4. file' \in File /\ Len(file'.maps) = Len(psbt) BY <1>1, <1>2, WrittenType
<1>5. Rereads(mine)'
    <2>1. WellRead(mine') /\ Len(mine') = Announced(mine') /\ file' = Written(mine')
        BY <1>1, <1>2
    <2> QED BY <1>1, <1>2, <2>1 DEF Rereads
<1>6. WellRead(psbt') /\ Len(psbt') = 0 /\ DOMAIN psbt' = {} BY <1>1, <1>3
<1> QED BY <1>1, <1>2, <1>4, <1>5, <1>6 DEF WInv

\* Documents that combine are united, map by map.
LEMMA MergeUnites ==
    ASSUME NEW a \in Seq(SUBSET Pair), NEW b \in Seq(SUBSET Pair), Combines(a, b)
    PROVE  /\ MergedPsbt(a, b) \in Seq(SUBSET Pair)
           /\ MergedPsbt(a, b) = [n \in DOMAIN a |-> a[n] \cup b[n]]
           /\ DOMAIN b = DOMAIN a /\ Len(MergedPsbt(a, b)) = Len(a)
<1> DEFINE V == SUBSET Pair
           m == [n \in DOMAIN a |-> a[n] \cup b[n]]
<1>1. DOMAIN b = DOMAIN a /\ DOMAIN a = 1 .. Len(a) /\ Len(a) \in Nat BY DEF Combines
<1>2. ASSUME NEW n \in DOMAIN a
      PROVE  Merged(a[n], b[n]) = a[n] \cup b[n] /\ a[n] \cup b[n] \in V
    <2>1. a[n] \subseteq Pair /\ b[n] \subseteq Pair BY <1>1, <1>2
    <2>2. ASSUME NEW p \in a[n], NEW q \in b[n], p.key = q.key
          PROVE  p = q
        <3>1. p.value = q.value BY <1>2, <2>2 DEF Combines, Conflict
        <3> QED BY <2>1, <2>2, <3>1 DEF Pair
    <2> QED BY <2>1, <2>2 DEF Merged
<1>3. MergedPsbt(a, b) = m BY <1>2 DEF MergedPsbt
<1>4. m \in [1 .. Len(a) -> V]
    <2> HIDE DEF V
    <2> QED BY <1>1, <1>2
<1> HIDE DEF V, m
<1>5. m \in Seq(V) /\ Len(m) = Len(a) BY <1>1, <1>4, FunctionIsSeq
<1> QED BY <1>1, <1>3, <1>5 DEF V, m

\* What goes into one goes into the other.
LEMMA MergeTurns ==
    ASSUME NEW a \in Seq(SUBSET Pair), NEW b \in Seq(SUBSET Pair), NEW c \in Seq(SUBSET Pair),
           Combines(a, b), Combines(MergedPsbt(a, b), c)
    PROVE  /\ Combines(c, b) /\ Combines(MergedPsbt(c, b), a)
           /\ MergedPsbt(MergedPsbt(a, b), c) = MergedPsbt(MergedPsbt(c, b), a)
<1> DEFINE ab == MergedPsbt(a, b)
           cb == MergedPsbt(c, b)
<1>1. /\ ab \in Seq(SUBSET Pair) /\ ab = [n \in DOMAIN a |-> a[n] \cup b[n]]
      /\ DOMAIN b = DOMAIN a /\ Len(ab) = Len(a)
    BY MergeUnites
<1>2. Len(a) = Len(b) /\ Len(ab) = Len(c) BY DEF Combines
<1> HIDE DEF ab
<1>3. /\ MergedPsbt(ab, c) = [n \in DOMAIN ab |-> ab[n] \cup c[n]] /\ DOMAIN c = DOMAIN ab
    BY <1>1, MergeUnites DEF ab
<1>4. DOMAIN ab = DOMAIN a /\ DOMAIN c = DOMAIN a BY <1>1, <1>3
<1>5. \A n \in DOMAIN a : ~Conflict(a[n] \cup b[n], c[n])
    <2>1. \A n \in DOMAIN ab : ~Conflict(ab[n], c[n]) BY DEF Combines, ab
    <2> QED BY <1>1, <1>4, <2>1
<1>6. \A n \in DOMAIN a : ~Conflict(a[n], b[n]) BY DEF Combines
<1>7. Combines(c, b)
    <2>1. \A n \in DOMAIN a : ~Conflict(c[n], b[n]) BY <1>5 DEF Conflict
    <2> QED BY <1>1, <1>2, <1>4, <2>1 DEF Combines
<1>8. /\ cb \in Seq(SUBSET Pair) /\ cb = [n \in DOMAIN c |-> c[n] \cup b[n]]
      /\ Len(cb) = Len(c)
    BY <1>7, MergeUnites
<1> HIDE DEF cb
<1>9. DOMAIN cb = DOMAIN a BY <1>4, <1>8
<1>10. Combines(cb, a)
    <2>1. \A n \in DOMAIN a : ~Conflict(c[n] \cup b[n], a[n])
        BY <1>5, <1>6 DEF Conflict
    <2> QED BY <1>1, <1>2, <1>4, <1>8, <1>9, <2>1 DEF Combines
<1>11. MergedPsbt(cb, a) = [n \in DOMAIN cb |-> cb[n] \cup a[n]]
    BY <1>8, <1>10, MergeUnites
<1>12. MergedPsbt(ab, c) = MergedPsbt(cb, a)
    <2>1. \A n \in DOMAIN a : ab[n] \cup c[n] = cb[n] \cup a[n] BY <1>1, <1>4, <1>8
    <2> QED BY <1>3, <1>4, <1>9, <1>11, <2>1
<1> QED BY <1>7, <1>10, <1>12 DEF ab, cb

\* A document says which transaction it is of in one way.
LEMMA OneTransaction ==
    ASSUME NEW doc, WellRead(doc), doc # <<>>, NEW p \in doc[1], p.key.ty = 0
    PROVE  /\ p \in Pair /\ p.value \in DOMAIN Tx /\ ~p.key.wide
           /\ KeydataLen[p.key.data] = 0 /\ Spends(doc[1]) = Tx[p.value]
<1>1. doc \in Seq(SUBSET Pair) /\ 1 \in DOMAIN doc BY DEF WellRead
<1>2. p \in Pair BY <1>1
<1>3. GlobalFits(p) /\ ~p.key.wide BY <1>1 DEF WellRead, FieldFits, IsGlobal
<1>4. p.value \in DOMAIN Tx /\ KeydataLen[p.key.data] = 0
    BY <1>3 DEF GlobalFits, UnsignedTx, Keyless
<1> DEFINE q == CHOOSE q \in doc[1] : q.key.ty = 0
<1>5. /\ q \in doc[1] /\ q.key.ty = 0 /\ q \in Pair /\ KeydataLen[q.key.data] = 0
      /\ ~q.key.wide /\ Spends(doc[1]) = Tx[q.value]
    BY Announces
<1> HIDE DEF q
<1>6. p.key = q.key
    <2>1. p.key.data = q.key.data BY <1>2, <1>4, <1>5, WireAssumption DEF Pair
    <2>2. p.key.wide = FALSE /\ q.key.wide = FALSE BY <1>2, <1>3, <1>5 DEF Pair
    <2> QED BY <1>2, <1>5, <2>1, <2>2 DEF Pair
<1>7. p = q BY <1>1, <1>5, <1>6 DEF WellRead
<1> QED BY <1>2, <1>3, <1>4, <1>5, <1>7

\* Combining documents of one transaction gives a document of it.
LEMMA MergedWellRead ==
    ASSUME NEW a, NEW b, WellRead(a), WellRead(b), Len(a) = Announced(a),
           Len(b) = Announced(b), Combines(a, b)
    PROVE  LET m == MergedPsbt(a, b)
           IN  /\ WellRead(m) /\ Len(m) = Len(a) /\ Len(m) = Announced(m)
               /\ \A n, r : TypedField(m, n, r) = TypedField(a, n, r)
<1> DEFINE m == MergedPsbt(a, b)
<1>1. a \in Seq(SUBSET Pair) /\ b \in Seq(SUBSET Pair) BY DEF WellRead
<1>2. /\ m \in Seq(SUBSET Pair) /\ m = [n \in DOMAIN a |-> a[n] \cup b[n]]
      /\ DOMAIN b = DOMAIN a /\ Len(m) = Len(a) /\ DOMAIN m = DOMAIN a
    BY <1>1, MergeUnites
<1>3. a # <<>> /\ b # <<>> /\ 1 \in DOMAIN a /\ Announced(a) \in Nat
    <2>1. Announced(a) \in Nat \ {0} BY Announces
    <2>2. Len(a) = Announced(a) /\ DOMAIN a = 1 .. Len(a) BY <1>1
    <2>3. 1 \in DOMAIN a /\ 1 \in DOMAIN b BY <1>2, <2>1, <2>2
    <2>4. DOMAIN <<>> = {} OBVIOUS
    <2> QED BY <2>1, <2>3, <2>4
<1> HIDE DEF m
<1>4. m # <<>> /\ m[1] = a[1] \cup b[1] BY <1>2, <1>3
<1>5. \A n \in DOMAIN a : ~Conflict(a[n], b[n]) BY DEF Combines
<1>6. PICK p \in a[1] : p.key.ty = 0 BY <1>3 DEF WellRead
<1>7. PICK q \in b[1] : q.key.ty = 0 BY <1>3 DEF WellRead
<1>8. /\ p \in Pair /\ ~p.key.wide /\ KeydataLen[p.key.data] = 0 /\ Spends(a[1]) = Tx[p.value]
      /\ q \in Pair /\ ~q.key.wide /\ KeydataLen[q.key.data] = 0 /\ Spends(b[1]) = Tx[q.value]
    BY <1>3, <1>6, <1>7, OneTransaction
<1>9. p.value = q.value
    <2>1. p.key.data = q.key.data BY <1>8, WireAssumption DEF Pair
    <2>2. p.key.wide = FALSE /\ q.key.wide = FALSE BY <1>8 DEF Pair
    <2>3. p.key = q.key BY <1>6, <1>7, <1>8, <2>1, <2>2 DEF Pair
    <2> QED BY <1>3, <1>5, <1>6, <1>7, <2>3 DEF Conflict
<1>10. Spends(m[1]) = Spends(a[1]) /\ Spends(b[1]) = Spends(a[1])
    <2> DEFINE r == CHOOSE r \in m[1] : r.key.ty = 0
    <2>1. r \in m[1] /\ r.key.ty = 0 BY <1>4, <1>6
    <2>2. Spends(m[1]) = Tx[r.value] BY DEF Spends
    <2> HIDE DEF r
    <2>3. CASE r \in a[1]
        <3>1. Spends(a[1]) = Tx[r.value] BY <1>3, <2>1, <2>3, OneTransaction
        <3> QED BY <1>8, <1>9, <2>2, <3>1
    <2>4. CASE r \in b[1]
        <3>1. Spends(b[1]) = Tx[r.value] BY <1>3, <2>1, <2>4, OneTransaction
        <3> QED BY <1>8, <1>9, <2>2, <3>1
    <2> QED BY <1>4, <2>1, <2>3, <2>4
<1>11. /\ Announced(m) = Announced(a)
       /\ \A n, r : FieldFits(m, n, r) <=> FieldFits(a, n, r)
       /\ \A n, r : FieldFits(m, n, r) <=> FieldFits(b, n, r)
       /\ \A n, r : TypedField(m, n, r) = TypedField(a, n, r)
       /\ \A n, r : Held(m, n, r) = Held(a, n, r)
       /\ \A n, r : Held(m, n, r) = Held(b, n, r)
    <2>1. \A n : /\ IsInput(m, n) <=> IsInput(a, n)
                 /\ IsInput(m, n) <=> IsInput(b, n)
        BY <1>10 DEF IsInput
    <2>2. Announced(m) = Announced(a) BY <1>3, <1>4, <1>10 DEF Announced
    <2>3. \A n, r : /\ FieldFits(m, n, r) <=> FieldFits(a, n, r)
                    /\ FieldFits(m, n, r) <=> FieldFits(b, n, r)
        BY <2>1 DEF FieldFits
    <2>4. \A n, r : TypedField(m, n, r) = TypedField(a, n, r)
        BY <1>10 DEF TypedField, IsInput
    <2>5. \A n, r : Held(m, n, r) = Held(a, n, r)
        BY <1>10 DEF Held, TypedField, IsInput
    <2>6. \A n, r : Held(m, n, r) = Held(b, n, r)
        BY <1>10 DEF Held, TypedField, IsInput
    <2> QED BY <2>2, <2>3, <2>4, <2>5, <2>6
<1>12. ASSUME NEW n \in DOMAIN m
       PROVE  /\ IsFiniteSet(m[n])
              /\ \A r, s \in m[n] : r.key = s.key => r = s
              /\ \A r \in m[n] : /\ ~r.key.wide /\ FieldFits(m, n, r)
                                 /\ ~Forgotten(n, r) /\ Held(m, n, r) = r
    <2>1. n \in DOMAIN a /\ n \in DOMAIN b /\ m[n] = a[n] \cup b[n] BY <1>2
    <2>2. IsFiniteSet(m[n])
        <3>1. IsFiniteSet(a[n]) /\ IsFiniteSet(b[n]) BY <2>1 DEF WellRead
        <3> QED BY <2>1, <3>1, FS_Union
    <2>3. a[n] \subseteq Pair /\ b[n] \subseteq Pair BY <1>1, <2>1
    <2>4. ASSUME NEW r \in a[n], NEW s \in b[n], r.key = s.key
          PROVE  r = s
        <3>1. r.value = s.value BY <1>5, <2>1, <2>4 DEF Conflict
        <3> QED BY <2>3, <2>4, <3>1 DEF Pair
    <2>5. \A r, s \in m[n] : r.key = s.key => r = s
        <3>1. \A r, s \in a[n] : r.key = s.key => r = s BY <2>1 DEF WellRead
        <3>2. \A r, s \in b[n] : r.key = s.key => r = s BY <2>1 DEF WellRead
        <3> QED BY <2>1, <2>4, <3>1, <3>2
    <2>6. \A r \in a[n] : /\ ~r.key.wide /\ FieldFits(a, n, r)
                          /\ ~Forgotten(n, r) /\ Held(a, n, r) = r
        BY <2>1 DEF WellRead
    <2>7. \A r \in b[n] : /\ ~r.key.wide /\ FieldFits(b, n, r)
                          /\ ~Forgotten(n, r) /\ Held(b, n, r) = r
        BY <2>1 DEF WellRead
    <2> QED BY <1>11, <2>1, <2>2, <2>5, <2>6, <2>7
<1>13. WellRead(m) BY <1>2, <1>3, <1>4, <1>6, <1>11, <1>12 DEF WellRead
<1> QED BY <1>2, <1>11, <1>13 DEF m

\* Combining keeps all that was taken from the file.
LEMMA CombineWInv == WInv /\ (\E other \in Partners : CombineWith(other)) => WInv'
<1> SUFFICES ASSUME WInv, NEW other \in Partners, CombineWith(other) PROVE WInv' OBVIOUS
<1>1. /\ verdict = "accepted" /\ Combines(psbt, other)
      /\ psbt' = MergedPsbt(psbt, other) /\ mine' = Nothing
      /\ UNCHANGED <<file, verdict>>
    BY DEF CombineWith
<1>2. WellRead(other) /\ Len(other) = Announced(other) BY PartnersAssumption
<1>3. /\ WellRead(psbt) /\ Len(psbt) = Announced(psbt) /\ Len(file.maps) = Len(psbt)
      /\ psbt # <<>> /\ file \in File
    BY <1>1 DEF WInv
<1>4. psbt \in Seq(SUBSET Pair) /\ other \in Seq(SUBSET Pair) BY <1>2, <1>3 DEF WellRead
<1>5. /\ WellRead(psbt') /\ Len(psbt') = Len(psbt) /\ Len(psbt') = Announced(psbt')
      /\ \A n, p : TypedField(psbt', n, p) = TypedField(psbt, n, p)
    BY <1>1, <1>2, <1>3, MergedWellRead
<1>6. psbt' = [n \in DOMAIN psbt |-> psbt[n] \cup other[n]]
    BY <1>1, <1>4, MergeUnites
<1>7. ASSUME NEW n \in DOMAIN psbt', NEW p \in ToSet(file'.maps[n])
      PROVE  TakenIn(psbt', n, p)
    <2>1. TakenIn(psbt, n, p) BY <1>1, <1>6 DEF WInv
    <2>2. psbt[n] \subseteq psbt'[n] BY <1>6
    <2> QED BY <1>5, <2>1, <2>2 DEF TakenIn
<1>8. psbt' # <<>> /\ Len(psbt) \in Nat BY <1>3, <1>4, <1>6
<1> QED BY <1>1, <1>3, <1>5, <1>7, <1>8 DEF WInv

\* Every step keeps the invariant of the reader.
LEMMA StepWInv == WInv /\ [WireNext]_wire => WInv'
<1> SUFFICES ASSUME WInv, [WireNext]_wire PROVE WInv' OBVIOUS
<1>1. CASE UNCHANGED wire BY <1>1 DEF wire, WInv, Rereads
<1> QED BY <1>1, ReceiveWInv, ReadMapWInv, EndsWInv, SerializeWInv, CombineWInv DEF WireNext

\* Whatever files come in and whatever is combined, a document in memory has
\* unique keys, fields that fit and no more maps than its transaction announces.
THEOREM WireTypeCorrect == WireSpec => []WireTypeOK
<1>1. WInv => WireTypeOK
    BY DEF WInv, WireTypeOK, Rereads, WellRead, File
<1> QED BY <1>1, InitWInv, StepWInv, PTL DEF WireSpec

\* parse_psbt accepts what serialize_psbt wrote and gives back the document, less
\* its empty final scripts; writing it again gives the same file.
THEOREM OwnFilesReadHolds == WireSpec => []OwnFilesRead
<1>1. WInv => OwnFilesRead
    <2> SUFFICES ASSUME WInv, mine # Nothing
                 PROVE  /\ verdict \notin Errors
                        /\ verdict = "accepted" => psbt = Kept(mine) /\ Written(psbt) = file
        BY DEF OwnFilesRead
    <2>1. Rereads(mine) BY DEF WInv
    <2>2. /\ WellRead(mine) /\ file = Written(mine) /\ Len(mine) = Announced(mine)
          /\ mine \in Seq(SUBSET Pair)
        BY <2>1 DEF Rereads, WellRead
    <2>3. verdict \notin Errors BY <2>1 DEF Rereads, Errors
    <2>4. ASSUME verdict = "accepted"
          PROVE  psbt = Kept(mine) /\ Written(psbt) = file
        <3>1. psbt \in Seq(SUBSET Pair) /\ Len(psbt) = Len(file.maps) /\ psbt # <<>>
            BY <2>4 DEF WInv, WellRead
        <3>2. Len(psbt) = Len(mine) BY <2>2, <3>1, WrittenType
        <3>3. DOMAIN psbt = DOMAIN mine /\ \A n \in DOMAIN mine : psbt[n] = Kept(mine)[n]
            BY <2>1, <2>2, <3>1, <3>2 DEF Rereads
        <3>4. psbt = Kept(mine)
            <4>1. psbt = [n \in DOMAIN mine |-> psbt[n]] BY <3>1, <3>3
            <4>2. Kept(mine) = [n \in DOMAIN mine |-> Kept(mine)[n]] BY DEF Kept
            <4> QED BY <3>3, <4>1, <4>2
        <3>5. mine # <<>> BY <2>2, <3>1, <3>2
        <3>6. Kept(psbt) = [n \in DOMAIN mine |-> psbt[n]]
            BY <2>2, <3>3, <3>5, KeptAgain
        <3>7. Kept(psbt) = Kept(mine) BY <3>1, <3>3, <3>4, <3>6
        <3>8. Written(psbt) = Written(mine) BY <3>3, <3>7 DEF Written
        <3> QED BY <2>2, <3>4, <3>8
    <2> QED BY <2>3, <2>4
<1> QED BY <1>1, InitWInv, StepWInv, PTL DEF WireSpec

\* Reading, combining and writing lose no field, known or not, but VERSION 0 and
\* empty final scripts; what comes back in other bytes is a transaction or an
\* output of which _Reader took longer lengths than the writers use.
THEOREM NothingLostHolds == WireSpec => []NothingLost
<1>1. WInv => NothingLost
    <2> SUFFICES ASSUME WInv, verdict = "accepted", NEW n \in DOMAIN file.maps,
                        NEW p \in ToSet(file.maps[n]), ~Forgotten(n, p),
                        ~(p.key.ty \in {7, 8} /\ Size[p.value] = 0)
                 PROVE  \E q \in ToSet(Written(psbt).maps[n]) :
                           /\ q.key = p.key
                           /\ \/ q.value = p.value
                              \/ TypedField(psbt, n, p) /\ Anew(q) = Anew(p)
        BY DEF NothingLost
    <2>1. WellRead(psbt) /\ Len(file.maps) = Len(psbt) /\ file \in File BY DEF WInv
    <2>2. n \in DOMAIN psbt
        <3>1. psbt \in Seq(SUBSET Pair) BY <2>1 DEF WellRead
        <3> DEFINE V == Seq(Pair)
        <3>2. file.maps \in Seq(V) BY <2>1 DEF File
        <3> HIDE DEF V
        <3> QED BY <2>1, <3>1, <3>2
    <2>3. PICK q \in psbt[n] :
             /\ q.key = p.key
             /\ q.value = p.value \/ (TypedField(psbt, n, p) /\ Anew(q) = Anew(p))
        BY <2>2 DEF WInv, TakenIn
    <2>4. ~Unset(psbt, n, q)
        <3>1. q.key.ty \in {7, 8} => q.value = p.value BY <2>3 DEF Anew
        <3> QED BY <2>3, <3>1 DEF Unset
    <2>5. q \in Kept(psbt)[n] BY <2>2, <2>3, <2>4 DEF Kept
    <2>6. q \in ToSet(Written(psbt).maps[n]) BY <2>1, <2>2, <2>5, WrittenMaps
    <2> QED BY <2>3, <2>6
<1> QED BY <1>1, InitWInv, StepWInv, PTL DEF WireSpec

\* Copies may be combined in any order: either both orders succeed, and write
\* the same bytes, or neither does.
THEOREM MergeOrderFreeHolds == WireSpec => []MergeOrderFree
<1>1. WInv => MergeOrderFree
    <2> SUFFICES ASSUME WInv, NEW b \in Partners, NEW c \in Partners
                 PROVE  LET first == Combines(psbt, b) /\ Combines(MergedPsbt(psbt, b), c)
                            second == Combines(c, b) /\ Combines(MergedPsbt(c, b), psbt)
                        IN  /\ first <=> second
                            /\ first => Written(MergedPsbt(MergedPsbt(psbt, b), c))
                                          = Written(MergedPsbt(MergedPsbt(c, b), psbt))
        BY DEF MergeOrderFree
    <2>1. psbt \in Seq(SUBSET Pair) BY DEF WInv, WellRead
    <2>2. b \in Seq(SUBSET Pair) /\ c \in Seq(SUBSET Pair)
        BY PartnersAssumption DEF WellRead
    <2> QED BY <2>1, <2>2, MergeTurns
<1> QED BY <1>1, InitWInv, StepWInv, PTL DEF WireSpec

----------------------------------------------------------------------------
(* Addresses: the bits of what is regrouped *)

\* The regroupings there are: bytes to groups of five bits, and back.
Widths(from, to) == (from = 8 /\ to = 5) \/ (from = 5 /\ to = 8)

\* The table of powers doubles from entry to entry,
LEMMA PowerNext ==
    /\ Power(0) = 1 /\ Power(5) = 32 /\ Power(8) = 256 /\ Power(12) = 4096
    /\ \A i \in 0 .. 12 : Power(i) \in Nat /\ Power(i) > 0
    /\ \A i \in 0 .. 11 : Power(i + 1) = 2 * Power(i)
<1> DEFINE p == <<1, 2, 4, 8, 16, 32, 64, 128, 256, 512, 1024, 2048, 4096>>
<1>1. /\ p[1] = 1 /\ p[2] = 2 /\ p[3] = 4 /\ p[4] = 8 /\ p[5] = 16 /\ p[6] = 32 /\ p[7] = 64
      /\ p[8] = 128 /\ p[9] = 256 /\ p[10] = 512 /\ p[11] = 1024 /\ p[12] = 2048
      /\ p[13] = 4096
    OBVIOUS
<1>2. \A i : Power(i) = p[i + 1] BY DEF Power
<1> HIDE DEF p
<1>3. \A i \in 0 .. 12 : Power(i) \in Nat /\ Power(i) > 0 BY <1>1, <1>2
<1>4. \A i \in 0 .. 11 : Power(i + 1) = 2 * Power(i) BY <1>1, <1>2
<1> QED BY <1>1, <1>2, <1>3, <1>4

\* so that shifts add up.
LEMMA PowerTimes ==
    ASSUME NEW i \in 0 .. 12, NEW j \in 0 .. 12, i + j <= 12
    PROVE  Power(i + j) = Power(i) * Power(j)
<1> DEFINE P == {k \in Nat : k + j <= 12 => Power(k + j) = Power(k) * Power(j)}
<1>1. 0 \in P BY PowerNext
<1>2. ASSUME NEW k \in Nat, k < 12, k \in P
      PROVE  k + 1 \in P
    <2> SUFFICES ASSUME (k + 1) + j <= 12 PROVE Power((k + 1) + j) = Power(k + 1) * Power(j)
        OBVIOUS
    <2>1. k + j \in 0 .. 11 /\ k \in 0 .. 11 /\ (k + 1) + j = (k + j) + 1 BY <1>2
    <2>2. Power((k + j) + 1) = 2 * Power(k + j) /\ Power(k + 1) = 2 * Power(k)
        BY <2>1, PowerNext
    <2>3. Power(k + j) = Power(k) * Power(j) BY <1>2, <2>1
    <2>4. Power(k) \in Nat /\ Power(j) \in Nat BY <2>1, PowerNext
    <2> QED BY <2>1, <2>2, <2>3, <2>4
<1> HIDE DEF P
<1>3. \A k \in 0 .. 12 : k \in P BY <1>1, <1>2, InductionUpTo
<1> QED BY <1>3 DEF P

\* After a value goes into the accumulator, the bits are its own and those
\* that were there.
BitThen(v, acc, from, p) ==
    IF p < from THEN BitOf(v, Power(p)) ELSE BitOf(acc, Power(p - from))

\* What the mask leaves of the accumulator has the bits it had.
LEMMA AccBits ==
    ASSUME NEW from \in 0 .. 12, NEW acc \in Nat, NEW v, NEW x \in Nat,
           Joined(x, acc, Power(from), v), NEW width \in 1 .. 12, NEW p \in 0 .. width - 1
    PROVE  BitOf(x % Power(width), Power(p)) = BitThen(v, acc, from, p)
<1> DEFINE f == Power(from)
<1>0. acc \in Nat /\ x = acc * f + v /\ v \in 0 .. f - 1 BY DEF Joined
<1>1. f \in Nat /\ f > 0 /\ Power(p) \in Nat /\ Power(p) > 0 /\ v \in Nat /\ x \in Nat
    <2>1. from \in 0 .. 12 /\ p \in 0 .. 12 OBVIOUS
    <2>2. f \in Nat /\ f > 0 /\ Power(p) \in Nat /\ Power(p) > 0 BY <2>1, PowerNext
    <2>3. v \in Nat BY <1>0, <2>2
    <2> HIDE DEF f
    <2>4. acc * f \in Nat BY <1>0, <2>2
    <2>5. x \in Nat BY <1>0, <2>3, <2>4
    <2> QED BY <2>2, <2>3, <2>5
<1>2. BitOf(x % Power(width), Power(p)) = BitOf(x, Power(p))
    <2> DEFINE i == (width - 1) - p
               m == Power(i)
    <2>1. p \in 0 .. 12 /\ i \in 0 .. 11 /\ i + 1 \in 0 .. 12 /\ p + (i + 1) = width OBVIOUS
    <2> HIDE DEF i, f
    <2>2. m \in Nat /\ m > 0 BY <2>1, PowerNext
    <2>3. Power(p) * (2 * m) = Power(width)
        <3>1. Power(i + 1) = 2 * m BY <2>1, PowerNext
        <3>2. Power(p + (i + 1)) = Power(p) * Power(i + 1) BY <2>1, PowerTimes
        <3> QED BY <2>1, <3>1, <3>2
    <2> HIDE DEF m
    <2>4. Above(Power(width), Power(p)) BY <2>2, <2>3 DEF Above
    <2> QED BY <1>1, <2>4, BitMasked
<1>3. CASE p < from
    <2> DEFINE m == Power((from - 1) - p)
               n == m * acc
    <2>1. m \in Nat BY <1>3, PowerNext
    <2>2. f = Power(p) * (2 * m)
        <3> DEFINE i == (from - 1) - p
        <3>1. i \in 0 .. 11 /\ i + 1 \in 0 .. 12 /\ p + (i + 1) = from BY <1>3
        <3>2. Power(i + 1) = 2 * m BY <3>1, PowerNext
        <3> HIDE DEF i
        <3>3. Power(p + (i + 1)) = Power(p) * Power(i + 1) BY <3>1, PowerTimes
        <3> QED BY <3>1, <3>2, <3>3
    <2>3. n \in Nat
        <3> HIDE DEF m
        <3> QED BY <1>0, <2>1
    <2> HIDE DEF m, f
    <2>4. acc * f = Power(p) * (2 * n) BY <1>1, <2>1, <2>2
    <2> HIDE DEF n
    <2>5. BitOf(Power(p) * (2 * n) + v, Power(p)) = BitOf(v, Power(p))
        BY <1>1, <2>3, BitBelow
    <2>6. BitOf(x % Power(width), Power(p)) = BitOf(v, Power(p)) BY <1>0, <1>2, <2>4, <2>5
    <2> QED BY <1>3, <2>6 DEF f, BitThen
<1>4. CASE ~(p < from)
    <2> DEFINE i == p - from
    <2>1. i \in 0 .. 12 /\ from \in 0 .. 12 /\ from + i = p BY <1>4
    <2>2. Power(i) \in Nat /\ Power(i) > 0 BY <2>1, PowerNext
    <2> HIDE DEF i
    <2>3. Power(p) = f * Power(i) BY <2>1, PowerTimes
    <2> HIDE DEF f
    <2>4. Joined(x, acc, f, v) BY DEF f
    <2>5. BitOf(x, Power(p)) = BitOf(acc, Power(i))
        BY <1>0, <1>1, <2>2, <2>3, <2>4, BitShiftedLeft
    <2>6. BitOf(x % Power(width), Power(p)) = BitOf(acc, Power(i)) BY <1>2, <2>5
    <2> QED BY <1>4, <2>6 DEF f, i, BitThen
<1> QED BY <1>3, <1>4

\* A group that is taken out has the bits from its place on.
LEMMA GroupBits ==
    ASSUME NEW to \in {5, 8}, NEW x \in Nat, NEW s \in 0 .. 12, NEW q \in 0 .. to - 1,
           s + q <= 12
    PROVE  BitOf((x \div Power(s)) % Power(to), Power(q)) = BitOf(x, Power(s + q))
<1> DEFINE y == x \div Power(s)
           i == (to - 1) - q
           m == Power(i)
<1>1. q \in 0 .. 12 /\ i \in 0 .. 11 /\ i + 1 \in 0 .. 12 /\ q + (i + 1) = to OBVIOUS
<1>2. /\ Power(s) \in Nat /\ Power(s) > 0 /\ Power(q) \in Nat /\ Power(q) > 0
      /\ m \in Nat /\ m > 0
    BY <1>1, PowerNext
<1>3. y \in Nat BY <1>2, DivParts
<1> HIDE DEF i
<1>4. Above(Power(to), Power(q))
    <2>1. Power(i + 1) = 2 * m BY <1>1, PowerNext
    <2>2. Power(q + (i + 1)) = Power(q) * Power(i + 1) BY <1>1, PowerTimes
    <2>3. Power(to) = Power(q) * (2 * m) BY <1>1, <2>1, <2>2
    <2> QED BY <1>2, <2>3 DEF Above
<1> HIDE DEF y, m
<1>5. BitOf(y % Power(to), Power(q)) = BitOf(y, Power(q)) BY <1>2, <1>3, <1>4, BitMasked
<1>6. BitOf(y, Power(q)) = BitOf(x, Power(s) * Power(q)) BY <1>2, BitShiftedRight DEF y
<1>7. Power(s) * Power(q) = Power(s + q) BY <1>1, PowerTimes
<1> QED BY <1>5, <1>6, <1>7 DEF y

\* The same of the accumulator in hand.
LEMMA HandBits ==
    ASSUME NEW from \in {5, 8}, NEW st, st.acc \in Nat, NEW v \in Values(from),
           NEW p \in 0 .. 11
    PROVE  BitOf((st.acc * Power(from) + v) % 4096, Power(p))
             = BitThen(v, st.acc, from, p)
<1>1. PICK a \in Nat : a = st.acc OBVIOUS
<1>2. a * Power(from) + v \in Nat
    <2> DEFINE f == Power(from)
    <2>1. from \in 0 .. 12 OBVIOUS
    <2>2. f \in Nat BY <2>1, PowerNext
    <2>3. v \in 0 .. f - 1 BY DEF Values
    <2> HIDE DEF f
    <2>4. v \in Nat /\ a \in Nat BY <2>2, <2>3
    <2>5. a * f \in Nat BY <2>2, <2>4
    <2>6. a * f + v \in Nat BY <2>4, <2>5
    <2> QED BY <2>6 DEF f
<1>3. PICK z \in Nat : z = a * Power(from) + v BY <1>2
<1>4. Joined(z, a, Power(from), v) BY <1>3 DEF Joined, Values
<1>5. BitOf(z % Power(12), Power(p)) = BitThen(v, a, from, p)
    <2>1. from \in 0 .. 12 OBVIOUS
    <2>2. 12 \in 1 .. 12 /\ p \in 0 .. 12 - 1 OBVIOUS
    <2> QED BY <1>4, <2>1, <2>2, AccBits
<1> QED BY <1>1, <1>3, <1>5, PowerNext

\* The groups that are complete: where they stand, and what is left.
LEMMA GroupsReady ==
    ASSUME NEW from, NEW to, Widths(from, to), NEW b, b \in 0 .. to - 1
    PROVE  LET ready == (b + from) \div to
           IN  /\ b + from \in 0 .. 12 /\ ready \in Nat
               /\ (b + from) - ready * to \in 0 .. to - 1
               /\ \A j \in 1 .. ready, q \in 0 .. to - 1 :
                    /\ (b + from) - j * to \in 0 .. 12 - to
                    /\ (b + from) - j * to + q \in 0 .. 11
<1> DEFINE bits == b + from
           ready == bits \div to
<1>1. CASE from = 8 /\ to = 5
    <2>1. bits \in 8 .. 12 /\ ready = bits \div 5 BY <1>1
    <2> HIDE DEF bits
    <2>2. ready \in Nat /\ bits - ready * 5 \in 0 .. 4 BY <2>1
    <2> HIDE DEF ready
    <2>3. \A j \in 1 .. ready, q \in 0 .. 4 :
            bits - j * 5 \in 0 .. 7 /\ bits - j * 5 + q \in 0 .. 11
        BY <2>1, <2>2
    <2> QED BY <1>1, <2>1, <2>2, <2>3 DEF bits, ready
<1>2. CASE from = 5 /\ to = 8
    <2>1. bits \in 5 .. 12 /\ ready = bits \div 8 BY <1>2
    <2> HIDE DEF bits
    <2>2. ready \in Nat /\ bits - ready * 8 \in 0 .. 7 BY <2>1
    <2> HIDE DEF ready
    <2>3. \A j \in 1 .. ready, q \in 0 .. 7 :
            bits - j * 8 \in 0 .. 4 /\ bits - j * 8 + q \in 0 .. 11
        BY <2>1, <2>2
    <2> QED BY <1>2, <2>1, <2>2, <2>3 DEF bits, ready
<1> QED BY <1>1, <1>2 DEF Widths

\* One value more: what the loop does to what it has in hand, bit by bit.
LEMMA TakeStep ==
    ASSUME NEW from, NEW to, Widths(from, to), NEW st \in Hand(to), NEW v \in Values(from),
           NEW r, r = Take(st, v, from, to)
    PROVE  /\ r \in Hand(to) /\ Len(st.out) <= Len(r.out)
           /\ to * Len(r.out) + r.bits = to * Len(st.out) + st.bits + from
           /\ \A i \in 1 .. Len(st.out) : r.out[i] = st.out[i]
           /\ \A p \in 0 .. 11 :
                BitOf(r.acc, Power(p))
                  = BitThen(v, st.acc, from, p)
           /\ \A j \in 1 .. Len(r.out) - Len(st.out), q \in 0 .. to - 1 :
                /\ from + st.bits - j * to + q \in 0 .. 11
                /\ BitOf(r.out[Len(st.out) + j], Power(q))
                     = BitOf(r.acc, Power(from + st.bits - j * to + q))
<1> DEFINE acc == (st.acc * Power(from) + v) % 4096
           bits == st.bits + from
           ready == bits \div to
           G == Values(to)
           groups == [k \in 1 .. ready |-> (acc \div Power(bits - k * to)) % Power(to)]
<1>1. from \in {5, 8} /\ to \in {5, 8} /\ from \in 0 .. 12 /\ to \in 0 .. 12 BY DEF Widths
<1>2. st.acc \in Nat /\ st.bits \in 0 .. to - 1 /\ st.out \in Seq(G) BY DEF Hand
<1>3. Power(from) \in Nat /\ Power(to) \in Nat /\ Power(to) > 0 BY <1>1, PowerNext
<1>4. acc \in Nat
    <2> DEFINE f == Power(from)
               a == st.acc
               x == a * f + v
    <2>1. x \in Nat
        <3>1. f \in Nat /\ v \in 0 .. f - 1 /\ a \in Nat BY <1>2, <1>3 DEF Values
        <3> HIDE DEF f, a
        <3>2. a \in Nat /\ v \in Nat BY <3>1
        <3>3. a * f \in Nat BY <3>1, <3>2
        <3> QED BY <3>2, <3>3
    <2> HIDE DEF x
    <2>2. x % 4096 \in Nat BY <2>1
    <2> QED BY <2>2 DEF x, a, f
<1>5. /\ bits \in 0 .. 12 /\ ready \in Nat
      /\ bits - ready * to \in 0 .. to - 1
      /\ \A k \in 1 .. ready, q \in 0 .. to - 1 :
            bits - k * to \in 0 .. 12 - to /\ bits - k * to + q \in 0 .. 11
    BY <1>2, GroupsReady
<1>6. r = [acc |-> acc, bits |-> bits - ready * to, out |-> st.out \o groups]
    BY DEF Take
<1> HIDE DEF bits, ready
<1>7. groups \in [1 .. ready -> G]
    <2> SUFFICES ASSUME NEW k \in 1 .. ready
                 PROVE  (acc \div Power(bits - k * to)) % Power(to) \in G
        OBVIOUS
    <2> DEFINE s == bits - k * to
    <2>1. s \in 0 .. 12 BY <1>1, <1>5
    <2> HIDE DEF s, acc
    <2>2. Power(s) \in Nat /\ Power(s) > 0 BY <2>1, PowerNext
    <2>3. acc \in Nat BY <1>4
    <2>4. acc \div Power(s) \in Nat BY <2>2, <2>3, DivParts
    <2>5. (acc \div Power(s)) % Power(to) \in G BY <1>3, <2>4, DivParts DEF Values
    <2> QED BY <2>5 DEF s
<1>8. /\ groups \in Seq(G) /\ Len(groups) = ready
      /\ \A k \in 1 .. ready : groups[k] = (acc \div Power(bits - k * to)) % Power(to)
    <2>1. \A k \in 1 .. ready : groups[k] = (acc \div Power(bits - k * to)) % Power(to) OBVIOUS
    <2> HIDE DEF groups, G
    <2>2. groups \in Seq(G) /\ Len(groups) = ready BY <1>5, <1>7, FunctionIsSeq
    <2> QED BY <2>1, <2>2
<1> HIDE DEF acc, groups
<1>9. /\ r.acc = acc /\ r.bits = bits - ready * to /\ r.out = st.out \o groups
      /\ r = [acc |-> r.acc, bits |-> r.bits, out |-> r.out]
    BY <1>6
<1>10. /\ r.out \in Seq(G) /\ Len(r.out) = Len(st.out) + ready /\ Len(st.out) \in Nat
       /\ \A i \in 1 .. Len(st.out) : r.out[i] = st.out[i]
       /\ \A k \in 1 .. ready : r.out[Len(st.out) + k] = groups[k]
    <2> HIDE DEF G
    <2>1. st.out \in Seq(G) /\ groups \in Seq(G) /\ r.out = st.out \o groups BY <1>2, <1>9, <1>8
    <2> DEFINE c == st.out
    <2>2. c \in Seq(G) /\ r.out = c \o groups BY <2>1
    <2>3. Len(c) \in Nat BY <2>2
    <2> HIDE DEF c
    <2>4. /\ c \o groups \in Seq(G) /\ Len(c \o groups) = Len(c) + Len(groups)
          /\ \A k \in 1 .. Len(c) : (c \o groups)[k] = c[k]
          /\ \A k \in 1 .. Len(groups) : (c \o groups)[Len(c) + k] = groups[k]
        BY <2>1, <2>2, Concatenation
    <2>5. Len(groups) = ready BY <1>8
    <2> QED BY <2>2, <2>3, <2>4, <2>5 DEF c
<1>11. r \in Hand(to)
    <2>1. r.acc \in Nat /\ r.bits \in 0 .. to - 1 /\ r.out \in Seq(Values(to))
        BY <1>4, <1>5, <1>9, <1>10
    <2> DEFINE A == Nat
               B == 0 .. to - 1
    <2>2. r.acc \in A /\ r.bits \in B /\ r.out \in Seq(G) BY <2>1
    <2> HIDE DEF G, A, B
    <2>3. r \in [acc : A, bits : B, out : Seq(G)] BY <1>9, <2>2
    <2> QED BY <2>3 DEF Hand, A, B, G
<1>12. to * Len(r.out) + r.bits = to * Len(st.out) + st.bits + from
    <2> DEFINE n == Len(st.out)
               b == st.bits
    <2>1. n \in Nat /\ b \in Int /\ ready \in Nat /\ to \in Int /\ from \in Int
        BY <1>1, <1>2, <1>5, <1>10
    <2>2. Len(r.out) = n + ready /\ r.bits = (b + from) - ready * to BY <1>9, <1>10 DEF bits
    <2> HIDE DEF n, b
    <2>3. to * Len(r.out) + r.bits = to * n + b + from BY <2>1, <2>2
    <2> QED BY <2>3 DEF n, b
<1>13. ASSUME NEW p \in 0 .. 11
       PROVE  BitOf(r.acc, Power(p))
                = BitThen(v, st.acc, from, p)
    <2>1. BitOf((st.acc * Power(from) + v) % 4096, Power(p))
            = BitThen(v, st.acc, from, p)
        BY <1>1, <1>2, HandBits
    <2> QED BY <1>9, <2>1 DEF acc
<1>14. ASSUME NEW j \in 1 .. Len(r.out) - Len(st.out), NEW q \in 0 .. to - 1
       PROVE  /\ from + st.bits - j * to + q \in 0 .. 11
              /\ BitOf(r.out[Len(st.out) + j], Power(q))
                   = BitOf(r.acc, Power(from + st.bits - j * to + q))
    <2> DEFINE s == bits - j * to
    <2>1. j \in 1 .. ready BY <1>5, <1>10
    <2>2. s \in 0 .. 12 - to /\ s + q \in 0 .. 11 BY <1>5, <2>1
    <2>3. from + st.bits - j * to + q = s + q BY <1>1, <1>2, <2>1 DEF bits
    <2>4. r.out[Len(st.out) + j] = (acc \div Power(s)) % Power(to)
        <3>1. r.out[Len(st.out) + j] = groups[j] BY <1>10, <2>1
        <3>2. groups[j] = (acc \div Power(s)) % Power(to) BY <1>8, <2>1
        <3> QED BY <3>1, <3>2
    <2> HIDE DEF s
    <2>5. BitOf((acc \div Power(s)) % Power(to), Power(q)) = BitOf(acc, Power(s + q))
        <3>1. acc \in Nat /\ s \in 0 .. 12 /\ s + q <= 12 BY <1>1, <1>4, <2>2
        <3> QED BY <1>1, <3>1, GroupBits
    <2> QED BY <1>9, <2>2, <2>3, <2>4, <2>5
<1> QED BY <1>10, <1>11, <1>12, <1>13, <1>14, <1>5

\* After k values, the groups that are out and the bits that are left are the
\* bits that went in.
Carried(st, k, data, from, to) ==
    /\ st \in Hand(to)
    /\ to * Len(st.out) + st.bits = from * k
    /\ \A n \in 0 .. to * Len(st.out) - 1 : Bit(st.out, to, n) = Bit(data, from, n)
    /\ \A n \in to * Len(st.out) .. from * k - 1 :
         BitOf(st.acc, Power(from * k - 1 - n)) = Bit(data, from, n)

\* Where the nth bit is.
LEMMA BitPlace ==
    ASSUME NEW width \in {5, 8}, NEW values, NEW i \in Nat, NEW j \in 0 .. width - 1
    PROVE  Bit(values, width, width * i + j) = BitOf(values[i + 1], Power(width - 1 - j))
<1>1. width \in Nat /\ width > 0 OBVIOUS
<1>2. (width * i + j) \div width = i /\ (width * i + j) % width = j BY <1>1, DivIs
<1> DEFINE n == width * i + j
<1> HIDE DEF n
<1>3. n \div width = i /\ n % width = j BY <1>2 DEF n
<1>4. Bit(values, width, n) = BitOf(values[i + 1], Power(width - 1 - j)) BY <1>3 DEF Bit, BitOf
<1> QED BY <1>4 DEF n

\* and every bit is somewhere.
LEMMA PlaceOf ==
    ASSUME NEW width \in {5, 8}, NEW n \in Nat
    PROVE  \E i \in Nat, j \in 0 .. width - 1 : n = width * i + j
<1>1. width \in Nat /\ width > 0 OBVIOUS
<1>2. n \div width \in Nat /\ n % width \in 0 .. width - 1 /\ n = width * (n \div width) + (n % width)
    BY <1>1, DivParts
<1> QED BY <1>2

\* One value more carries its bits too.
LEMMA CarriedOn ==
    ASSUME NEW from, NEW to, Widths(from, to), NEW data \in Seq(Values(from)),
           NEW k \in Nat, k < Len(data), NEW st, Carried(st, k, data, from, to)
    PROVE  Carried(Take(st, data[k + 1], from, to), k + 1, data, from, to)
<1> DEFINE r == Take(st, data[k + 1], from, to)
           v == data[k + 1]
           o == Len(st.out)
           o2 == Len(r.out)
<1>1. from \in {5, 8} /\ to \in {5, 8} BY DEF Widths
<1>2. st \in Hand(to) /\ to * o + st.bits = from * k BY DEF Carried
<1>3. v \in Values(from) BY SeqElement
<1>4. o \in Nat /\ st.bits \in 0 .. to - 1
    <2>1. st.out \in Seq(Values(to)) /\ st.bits \in 0 .. to - 1 BY <1>2 DEF Hand
    <2> QED BY <2>1
<1>5. /\ r \in Hand(to) /\ o <= o2
      /\ to * o2 + r.bits = to * o + st.bits + from
      /\ \A i \in 1 .. o : r.out[i] = st.out[i]
      /\ \A p \in 0 .. 11 : BitOf(r.acc, Power(p)) = BitThen(v, st.acc, from, p)
      /\ \A j \in 1 .. o2 - o, q \in 0 .. to - 1 :
            /\ from + st.bits - j * to + q \in 0 .. 11
            /\ BitOf(r.out[o + j], Power(q)) = BitOf(r.acc, Power(from + st.bits - j * to + q))
    <2> HIDE DEF v
    <2>1. Take(st, v, from, to) = r BY DEF v
    <2> QED BY <1>2, <1>3, <2>1, TakeStep
<1>6. o2 \in Nat /\ r.bits \in 0 .. to - 1
    <2>1. r.out \in Seq(Values(to)) /\ r.bits \in 0 .. to - 1
        <3> HIDE DEF r
        <3> QED BY <1>5 DEF Hand
    <2> HIDE DEF r
    <2> QED BY <2>1
<1> HIDE DEF r, o, o2
<1>7. to * o2 + r.bits = from * (k + 1) BY <1>1, <1>2, <1>4, <1>5, <1>6
\* The accumulator holds the bits that are not in a group.
<1>8. ASSUME NEW n \in Nat, n >= to * o, n < from * (k + 1)
      PROVE  BitOf(r.acc, Power(from * (k + 1) - 1 - n)) = Bit(data, from, n)
    <2> DEFINE p == from * (k + 1) - 1 - n
    <2>1. p \in 0 .. 11 BY <1>1, <1>2, <1>4, <1>8 DEF Widths
    <2>2. CASE n < from * k
        <3>1. p >= from /\ p - from = from * k - 1 - n BY <1>1, <2>2
        <3>2. BitThen(v, st.acc, from, p) = BitOf(st.acc, Power(p - from))
            BY <1>1, <2>1, <3>1 DEF BitThen
        <3>3. n \in to * o .. from * k - 1 BY <1>1, <1>4, <1>8, <2>2
        <3>4. BitOf(st.acc, Power(from * k - 1 - n)) = Bit(data, from, n)
            BY <3>3 DEF Carried, o
        <3> HIDE DEF p
        <3> QED BY <1>5, <2>1, <3>1, <3>2, <3>4 DEF p
    <2>3. CASE n >= from * k
        <3> DEFINE j == n - from * k
        <3>1. j \in 0 .. from - 1 /\ n = from * k + j /\ p = from - 1 - j /\ p < from
            BY <1>1, <1>8, <2>3
        <3> HIDE DEF j
        <3>2. Bit(data, from, from * k + j) = BitOf(data[k + 1], Power(from - 1 - j))
            BY <1>1, <3>1, BitPlace
        <3>3. BitThen(v, st.acc, from, p) = BitOf(v, Power(p)) BY <3>1 DEF BitThen
        <3> HIDE DEF p
        <3> QED BY <1>5, <2>1, <3>1, <3>2, <3>3 DEF p, v
    <2> QED BY <1>1, <2>2, <2>3
\* The groups that come out hold what was in the accumulator.
<1>9. ASSUME NEW n \in Nat, n < to * o2
      PROVE  Bit(r.out, to, n) = Bit(data, from, n)
    <2>1. PICK i \in Nat, q \in 0 .. to - 1 : n = to * i + q BY <1>1, PlaceOf
    <2>2. Bit(r.out, to, n) = BitOf(r.out[i + 1], Power(to - 1 - q)) BY <1>1, <2>1, BitPlace
    <2>3. CASE i < o
        <3>1. r.out[i + 1] = st.out[i + 1]
            <4>1. i + 1 \in 1 .. o BY <1>4, <2>3
            <4> QED BY <1>5, <4>1
        <3>2. Bit(st.out, to, n) = BitOf(st.out[i + 1], Power(to - 1 - q))
            BY <1>1, <2>1, BitPlace
        <3>3. n \in 0 .. to * o - 1 BY <1>1, <1>4, <2>1, <2>3
        <3>4. Bit(st.out, to, n) = Bit(data, from, n) BY <3>3 DEF Carried, o
        <3> QED BY <2>2, <3>1, <3>2, <3>4
    <2>4. CASE i >= o
        <3> DEFINE j == i + 1 - o
                   g == to - 1 - q
        <3>1. j \in 1 .. o2 - o /\ o + j = i + 1 /\ g \in 0 .. to - 1
            BY <1>1, <1>4, <1>6, <1>9, <2>1, <2>4
        <3>2. from + st.bits - j * to + g = from * (k + 1) - 1 - n
            <4> DEFINE b == st.bits
            <4>1. b \in Int /\ to * o + b = from * k BY <1>1, <1>2, <1>4
            <4> HIDE DEF b
            <4>2. CASE from = 8 /\ to = 5
                <5>1. 8 + b - j * 5 + g = 8 * (k + 1) - 1 - n BY <1>4, <2>1, <4>1, <4>2
                <5> QED BY <4>2, <5>1 DEF b
            <4>3. CASE from = 5 /\ to = 8
                <5>1. 5 + b - j * 8 + g = 5 * (k + 1) - 1 - n BY <1>4, <2>1, <4>1, <4>3
                <5> QED BY <4>3, <5>1 DEF b
            <4> QED BY <4>2, <4>3 DEF Widths
        <3> HIDE DEF j, g
        <3>3. BitOf(r.out[o + j], Power(g)) = BitOf(r.acc, Power(from + st.bits - j * to + g))
            BY <1>5, <3>1
        <3>4. n >= to * o /\ n < from * (k + 1) BY <1>1, <1>4, <1>6, <1>7, <1>9, <2>1, <2>4
        <3>5. BitOf(r.acc, Power(from * (k + 1) - 1 - n)) = Bit(data, from, n) BY <1>8, <3>4
        <3> QED BY <2>2, <3>1, <3>2, <3>3, <3>5 DEF g
    <2> QED BY <1>4, <2>3, <2>4
<1>10. \A n \in 0 .. to * o2 - 1 : Bit(r.out, to, n) = Bit(data, from, n)
    BY <1>1, <1>6, <1>9
<1>11. \A n \in to * o2 .. from * (k + 1) - 1 :
         BitOf(r.acc, Power(from * (k + 1) - 1 - n)) = Bit(data, from, n)
    <2> SUFFICES ASSUME NEW n \in to * o2 .. from * (k + 1) - 1
                 PROVE  BitOf(r.acc, Power(from * (k + 1) - 1 - n)) = Bit(data, from, n)
        OBVIOUS
    <2>1. n \in Nat /\ n >= to * o /\ n < from * (k + 1)
        <3>1. CASE from = 8 /\ to = 5 BY <1>4, <1>5, <1>6, <3>1
        <3>2. CASE from = 5 /\ to = 8 BY <1>4, <1>5, <1>6, <3>2
        <3> QED BY <3>1, <3>2 DEF Widths
    <2> QED BY <1>8, <2>1
<1>12. Carried(r, k + 1, data, from, to) BY <1>5, <1>7, <1>10, <1>11 DEF Carried, o2
<1> QED BY <1>12 DEF r

\* The recursive function inside Regrouped.
NoneTaken == [acc |-> 0, bits |-> 0, out |-> <<>>]
TakeOf(from, to) == [p \in Hand(to) \X Values(from) |-> Take(p[1], p[2], from, to)]

Regroups(f, data, from, to) ==
    f = [k \in 0 .. Len(data) |->
            IF k = 0 THEN NoneTaken ELSE TakeOf(from, to)[<<f[k - 1], data[k]>>]]

\* There is such a function.
LEMMA RegroupsExists ==
    ASSUME NEW from, NEW to, Widths(from, to), NEW data \in Seq(Values(from))
    PROVE  \E f : Regroups(f, data, from, to)
<1> DEFINE S == DOMAIN data
           V == Hand(to)
           op == [p \in S \X V |-> Take(p[2], data[p[1]], from, to)]
           choose == [s \in SUBSET S |-> Max(s)]
<1>1. S = 1 .. Len(data) /\ Len(data) \in Nat /\ IsFiniteSet(S) BY FS_Interval
<1>2. \A s \in SUBSET S : s # {} => choose[s] \in s BY <1>1, LargestNatural
<1>3. NoneTaken \in V
    <2>1. to \in {5, 8} BY DEF Widths
    <2>2. 0 \in 0 .. to - 1 BY <2>1
    <2> QED BY <2>2 DEF NoneTaken, Hand
<1>4. op \in [S \X V -> V]
    <2>1. ASSUME NEW i \in S, NEW st \in V
          PROVE  Take(st, data[i], from, to) \in V
        <3>1. data[i] \in Values(from) BY SeqElement
        <3> QED BY <3>1, TakeStep
    <2> HIDE DEF V, S
    <2> QED BY <2>1
<1>5. PICK f \in [SUBSET S -> V] : FoldsBy(f, op, NoneTaken, choose, S)
    <2> HIDE DEF S, V, op, choose
    <2> QED BY <1>1, <1>2, <1>3, <1>4, FoldByExists
<1> DEFINE g == [k \in 0 .. Len(data) |-> f[1 .. k]]
           t == TakeOf(from, to)
           here(k) == IF k = 0 THEN NoneTaken ELSE t[<<g[k - 1], data[k]>>]
<1>6. ASSUME NEW k \in 0 .. Len(data)
      PROVE  g[k] = here(k)
    <2> DEFINE s == 1 .. k
               prev == 1 .. (k - 1)
    <2>1. s \in SUBSET S /\ g[k] = f[s]
        <3>1. \A i \in 1 .. k : i \in 1 .. Len(data) BY <1>1
        <3> QED BY <1>1, <3>1
    <2>2. f[s] = IF s = {} THEN NoneTaken ELSE op[<<choose[s], f[s \ {choose[s]}]>>]
        <3> HIDE DEF S, V, op, choose, s
        <3> QED BY <1>5, <2>1 DEF FoldsBy
    <2>3. CASE k = 0
        <3>1. s = {} BY <2>3
        <3> HIDE DEF s, g, t
        <3> QED BY <2>1, <2>2, <2>3, <3>1
    <2>4. CASE k # 0
        <3>1. k \in Nat /\ k \in s /\ k \in S /\ k - 1 \in 0 .. Len(data) BY <1>1, <2>1, <2>4
        <3>2. choose[s] = k
            <4>1. choose[s] = Max(s) BY <2>1
            <4>2. Max(s) \in s /\ \A x \in s : Max(s) >= x
                <5>1. s \in SUBSET (1 .. k) /\ s # {} BY <3>1
                <5> HIDE DEF s
                <5> QED BY <3>1, <5>1, LargestNatural
            <4> QED BY <3>1, <4>1, <4>2
        <3>3. s \ {k} = prev BY <3>1
        <3>4. g[k - 1] = f[prev] /\ prev \in SUBSET S
            <4>1. \A i \in prev : i \in 1 .. Len(data) BY <1>1, <3>1
            <4> QED BY <1>1, <3>1, <4>1
        <3> DEFINE st == f[prev]
                   v == data[k]
        <3>5. st \in V
            <4> HIDE DEF V, S, prev
            <4> QED BY <3>4
        <3>6. v \in Values(from) BY <3>1, SeqElement
        <3>7. op[<<k, st>>] = Take(st, v, from, to)
            <4> HIDE DEF S, V, st
            <4> QED BY <3>1, <3>5
        <3>8. t[<<st, v>>] = Take(st, v, from, to)
            <4> HIDE DEF st, v
            <4> QED BY <3>5, <3>6 DEF TakeOf
        <3>9. s # {} BY <3>1
        <3> HIDE DEF s, prev, op, choose, g, t
        <3> QED BY <2>1, <2>2, <2>4, <3>2, <3>3, <3>4, <3>7, <3>8, <3>9
    <2> QED BY <2>3, <2>4
<1>7. Regroups(g, data, from, to)
    <2>1. g = [k \in 0 .. Len(data) |-> g[k]] OBVIOUS
    <2> HIDE DEF g
    <2>2. g = [k \in 0 .. Len(data) |-> here(k)] BY <1>6, <2>1
    <2> QED BY <2>2 DEF Regroups
<1> QED BY <1>7

\* Regrouping keeps the bits in their order.
LEMMA RegroupedBits ==
    ASSUME NEW from, NEW to, Widths(from, to), NEW data \in Seq(Values(from))
    PROVE  Carried(Regrouped(data, from, to), Len(data), data, from, to)
<1> DEFINE f == CHOOSE f : Regroups(f, data, from, to)
           t == TakeOf(from, to)
           P == {k \in Nat : Carried(f[k], k, data, from, to)}
<1>1. Regroups(f, data, from, to) BY RegroupsExists
<1>2. Regrouped(data, from, to) = f[Len(data)]
    BY DEF Regrouped, Regroups, NoneTaken, TakeOf
<1> HIDE DEF f
<1>3. Len(data) \in Nat OBVIOUS
<1>4. \A k \in 0 .. Len(data) : f[k] = IF k = 0 THEN NoneTaken ELSE t[<<f[k - 1], data[k]>>]
    BY <1>1 DEF Regroups
<1>5. 0 \in P
    <2>1. to \in {5, 8} /\ from \in {5, 8} BY DEF Widths
    <2>2. f[0] = NoneTaken
        <3>1. 0 \in 0 .. Len(data) BY <1>3
        <3> HIDE DEF t
        <3> QED BY <1>4, <3>1
    <2>3. 0 \in 0 .. to - 1 BY <2>1
    <2>4. NoneTaken \in Hand(to) BY <2>3 DEF NoneTaken, Hand
    <2>5. NoneTaken.out = <<>> /\ NoneTaken.bits = 0 /\ Len(<<>>) = 0 BY DEF NoneTaken
    <2>6. Carried(NoneTaken, 0, data, from, to) BY <2>1, <2>4, <2>5 DEF Carried
    <2> QED BY <2>2, <2>6
<1>6. ASSUME NEW k \in Nat, k < Len(data), k \in P
      PROVE  k + 1 \in P
    <2> DEFINE j == k + 1
               st == f[k]
               v == data[j]
    <2>1. j \in 0 .. Len(data) /\ j \in 1 .. Len(data) /\ j # 0 /\ j - 1 = k BY <1>3, <1>6
    <2>2. Carried(st, k, data, from, to) BY <1>6
    <2>3. st \in Hand(to) BY <2>2 DEF Carried
    <2>4. v \in Values(from) BY <2>1, SeqElement
    <2>5. t[<<st, v>>] = Take(st, v, from, to)
        <3> HIDE DEF st, v
        <3> QED BY <2>3, <2>4 DEF TakeOf
    <2>6. f[j] = t[<<st, v>>]
        <3> HIDE DEF t, j
        <3> QED BY <1>4, <2>1
    <2>7. Carried(Take(st, v, from, to), j, data, from, to) BY <1>6, <2>2, CarriedOn
    <2> HIDE DEF t, st, v
    <2> QED BY <2>1, <2>5, <2>6, <2>7
<1> HIDE DEF P
<1>7. \A k \in 0 .. Len(data) : k \in P BY <1>3, <1>5, <1>6, InductionUpTo
<1> QED BY <1>2, <1>3, <1>7 DEF P

\* The last group is filled up with zeros.
LEMMA PaddedBits ==
    ASSUME NEW acc \in Nat, NEW b \in 1 .. 4, NEW j \in 0 .. 4
    PROVE  /\ (acc * Power(5 - b)) % 32 \in Values(5)
           /\ BitOf((acc * Power(5 - b)) % 32, Power(4 - j))
                = IF j < b THEN BitOf(acc, Power((b - 1) - j)) ELSE 0
<1> DEFINE s == 5 - b
           p == 4 - j
           f == Power(s)
           x == acc * f
<1>1. s \in 0 .. 12 /\ p \in 0 .. 12 /\ 5 \in 1 .. 12 /\ p \in 0 .. 5 - 1 OBVIOUS
<1> HIDE DEF s, p
<1>2. f \in Nat /\ f > 0 /\ Power(p) \in Nat /\ Power(p) > 0 /\ Power(5) = 32
    BY <1>1, PowerNext
<1> HIDE DEF f
<1>3. x \in Nat BY <1>2
<1> HIDE DEF x
<1>4. x % 32 \in Values(5) BY <1>2, <1>3 DEF Values
<1>5. Joined(x, acc, Power(s), 0) BY <1>2, <1>3 DEF Joined, x, f
<1>6. BitOf(x % 32, Power(p)) = BitThen(0, acc, s, p)
    BY <1>1, <1>2, <1>3, <1>5, AccBits
<1>7. p < s <=> ~(j < b) BY DEF p, s
<1>8. BitOf(0, Power(p)) = 0
    <2>1. 0 \div Power(p) = 0
        <3> DEFINE P == Power(p)
        <3>1. P \in Nat /\ P > 0 BY <1>2
        <3> HIDE DEF P
        <3>2. 0 \div P = 0 BY <3>1
        <3> QED BY <3>2 DEF P
    <2> QED BY <2>1 DEF BitOf
<1>9. p - s = (b - 1) - j BY DEF p, s
<1> QED BY <1>4, <1>6, <1>7, <1>8, <1>9 DEF BitThen, x, f, p, s

\* bytes_to_5bit: the bits of the bytes, in groups, and zeros.
LEMMA GroupedBits ==
    ASSUME NEW data \in Seq(Values(8))
    PROVE  LET groups == BytesTo5bit(data)
           IN  /\ groups \in Seq(Values(5))
               /\ 5 * Len(groups) \in 8 * Len(data) .. 8 * Len(data) + 4
               /\ \A n \in 0 .. 8 * Len(data) - 1 : Bit(groups, 5, n) = Bit(data, 8, n)
               /\ \A n \in 8 * Len(data) .. 5 * Len(groups) - 1 : Bit(groups, 5, n) = 0
<1> DEFINE end == Regrouped(data, 8, 5)
           L == Len(data)
           o == Len(end.out)
           groups == BytesTo5bit(data)
<1>1. Carried(end, L, data, 8, 5) BY RegroupedBits DEF Widths
<1> HIDE DEF end
<1>2. end \in Hand(5) /\ 5 * o + end.bits = 8 * L BY <1>1 DEF Carried
<1>3. end.acc \in Nat /\ end.bits \in 0 .. 4 /\ end.out \in Seq(Values(5)) BY <1>2 DEF Hand
<1>4. L \in Nat /\ o \in Nat BY <1>3
<1> HIDE DEF o, L
<1>5. CASE end.bits = 0
    <2>1. groups = end.out BY <1>5 DEF BytesTo5bit, end
    <2>2. 5 * o = 8 * L BY <1>2, <1>4, <1>5
    <2>3. \A n \in 0 .. 8 * L - 1 : Bit(groups, 5, n) = Bit(data, 8, n)
        BY <1>1, <2>1, <2>2 DEF Carried, o
    <2> HIDE DEF groups
    <2> QED BY <1>3, <1>4, <2>1, <2>2, <2>3 DEF groups, o, L
<1>6. CASE end.bits # 0
    <2> DEFINE x == (end.acc * Power(5 - end.bits)) % 32
    <2>1. groups = Append(end.out, x) BY <1>6 DEF BytesTo5bit, end
    <2>2. PICK b \in 1 .. 4 : b = end.bits BY <1>3, <1>6
    <2>3. PICK acc \in Nat : acc = end.acc BY <1>3
    <2>4. /\ x \in Values(5)
          /\ \A j \in 0 .. 4 :
               BitOf(x, Power(4 - j)) = IF j < b THEN BitOf(acc, Power((b - 1) - j)) ELSE 0
        <3>1. x = (acc * Power(5 - b)) % 32 BY <2>2, <2>3
        <3>2. 0 \in 0 .. 4 OBVIOUS
        <3> HIDE DEF x
        <3> QED BY <3>1, <3>2, PaddedBits
    <2> HIDE DEF x, groups
    <2>5. /\ groups \in Seq(Values(5)) /\ Len(groups) = o + 1 /\ groups[o + 1] = x
          /\ \A i \in 1 .. o : groups[i] = end.out[i]
        <3> DEFINE V == Values(5)
                   c == end.out
        <3>1. c \in Seq(V) /\ x \in V /\ groups = Append(c, x) BY <1>3, <2>1, <2>4
        <3> HIDE DEF V, c
        <3>2. groups \in Seq(V) /\ Len(groups) = Len(c) + 1 /\ groups[Len(c) + 1] = x
            BY <3>1
        <3>3. \A i \in 1 .. Len(c) : groups[i] = c[i] BY <3>1
        <3> QED BY <3>2, <3>3 DEF V, c, o
    <2>6. ASSUME NEW n \in Nat, n < 5 * (o + 1)
          PROVE  Bit(groups, 5, n) = IF n < 8 * L THEN Bit(data, 8, n) ELSE 0
        <3>1. PICK i \in Nat, j \in 0 .. 5 - 1 : n = 5 * i + j BY PlaceOf
        <3>2. Bit(groups, 5, n) = BitOf(groups[i + 1], Power(5 - 1 - j)) BY <3>1, BitPlace
        <3>3. CASE i < o
            <4>1. i + 1 \in 1 .. o /\ n \in 0 .. 5 * o - 1 /\ n < 8 * L
                BY <1>2, <1>4, <2>2, <3>1, <3>3
            <4>2. groups[i + 1] = end.out[i + 1] BY <2>5, <4>1
            <4>3. Bit(end.out, 5, n) = BitOf(end.out[i + 1], Power(5 - 1 - j))
                BY <3>1, BitPlace
            <4>4. Bit(end.out, 5, n) = Bit(data, 8, n) BY <1>1, <4>1 DEF Carried, o
            <4> QED BY <3>2, <4>1, <4>2, <4>3, <4>4
        <3>4. CASE i = o
            <4>1. j \in 0 .. 4 /\ 5 - 1 - j = 4 - j OBVIOUS
            <4>2. Bit(groups, 5, n) = IF j < b THEN BitOf(acc, Power((b - 1) - j)) ELSE 0
                BY <2>4, <2>5, <3>2, <3>4, <4>1
            <4>3. j < b <=> n < 8 * L BY <1>2, <1>4, <2>2, <3>1, <3>4
            <4>4. CASE j < b
                <5>1. n \in 5 * o .. 8 * L - 1 /\ 8 * L - 1 - n = (b - 1) - j
                    BY <1>2, <1>4, <2>2, <3>1, <3>4, <4>4
                <5>2. BitOf(end.acc, Power(8 * L - 1 - n)) = Bit(data, 8, n)
                    BY <1>1, <5>1 DEF Carried, o
                <5> QED BY <2>3, <4>2, <4>3, <4>4, <5>1, <5>2
            <4> QED BY <4>2, <4>3, <4>4
        <3>5. i <= o BY <1>4, <2>6, <3>1
        <3> QED BY <1>4, <3>3, <3>4, <3>5
    <2>7. 5 * Len(groups) \in 8 * L .. 8 * L + 4 BY <1>2, <1>4, <2>2, <2>5
    <2>8. \A n \in 0 .. 8 * L - 1 : Bit(groups, 5, n) = Bit(data, 8, n)
        BY <1>2, <1>4, <2>2, <2>6
    <2>9. \A n \in 8 * L .. 5 * Len(groups) - 1 : Bit(groups, 5, n) = 0
        BY <1>2, <1>4, <2>2, <2>5, <2>6
    <2> QED BY <2>5, <2>7, <2>8, <2>9 DEF groups, L
<1> QED BY <1>5, <1>6

\* One bit more of a number.
LEMMA BitsNext ==
    ASSUME NEW x \in Nat, NEW b \in 0 .. 11
    PROVE  /\ BitOf(x, Power(b)) \in 0 .. 1
           /\ x % Power(b) \in Nat
           /\ x % Power(b + 1) = Power(b) * BitOf(x, Power(b)) + (x % Power(b))
<1> DEFINE p == Power(b)
           bit == BitOf(x, p)
<1>1. p \in Nat /\ p > 0 /\ Power(b + 1) = 2 * p BY PowerNext
<1> HIDE DEF p
<1>2. bit \in 0 .. 1 BY <1>1, HasBit
<1>3. PICK h, l : BitParts(x, p, h, bit, l) BY <1>1, HasBit
<1> HIDE DEF bit
<1>4. h \in Nat /\ l \in 0 .. p - 1 /\ x = p * (2 * h + bit) + l BY <1>3 DEF BitParts
<1>5. x % p = l
    <2> DEFINE y == 2 * h + bit
    <2>1. y \in Nat /\ x = p * y + l BY <1>2, <1>4
    <2> HIDE DEF y
    <2> QED BY <1>1, <1>4, <2>1, DivIs
<1>6. x % (2 * p) = p * bit + l
    <2> DEFINE r == p * bit + l
               q == 2 * p
    <2>1. r \in 0 .. q - 1
        <3>1. CASE bit = 0 BY <1>1, <1>4, <3>1
        <3>2. CASE bit = 1 BY <1>1, <1>4, <3>2
        <3> QED BY <1>2, <3>1, <3>2
    <2>2. x = q * h + r
        <3>1. CASE bit = 0 BY <1>1, <1>4, <3>1
        <3>2. CASE bit = 1 BY <1>1, <1>4, <3>2
        <3> QED BY <1>2, <3>1, <3>2
    <2>3. q \in Nat /\ q > 0 BY <1>1
    <2> HIDE DEF q, r
    <2>4. x % q = r BY <1>4, <2>1, <2>2, <2>3, DivIs
    <2> QED BY <2>4 DEF q, r
<1> QED BY <1>1, <1>2, <1>4, <1>5, <1>6 DEF bit, p

\* What is masked is zero when every bit of it is,
LEMMA ZeroBits ==
    ASSUME NEW x \in Nat, NEW b \in 0 .. 12
    PROVE  x % Power(b) = 0 <=> \A p \in 0 .. b - 1 : BitOf(x, Power(p)) = 0
<1> DEFINE P == {n \in Nat :
                   x % Power(n) = 0 <=> \A p \in 0 .. n - 1 : BitOf(x, Power(p)) = 0}
<1>1. 0 \in P
    <2>1. x % 1 = 0 OBVIOUS
    <2> QED BY <2>1, PowerNext
<1>2. ASSUME NEW n \in Nat, n < 12, n \in P
      PROVE  n + 1 \in P
    <2> DEFINE bit == BitOf(x, Power(n))
               l == x % Power(n)
               w == Power(n)
    <2>1. n \in 0 .. 11 /\ n \in 0 .. 12 BY <1>2
    <2>2. bit \in 0 .. 1 /\ l \in Nat /\ x % Power(n + 1) = w * bit + l BY <2>1, BitsNext
    <2>3. w \in Nat /\ w > 0 BY <2>1, PowerNext
    <2>4. l = 0 <=> \A p \in 0 .. n - 1 : BitOf(x, Power(p)) = 0 BY <1>2
    <2>5. (\A p \in 0 .. (n + 1) - 1 : BitOf(x, Power(p)) = 0)
            <=> bit = 0 /\ \A p \in 0 .. n - 1 : BitOf(x, Power(p)) = 0
        <3>1. \A p \in 0 .. (n + 1) - 1 : p = n \/ p \in 0 .. n - 1 BY <1>2
        <3>2. n \in 0 .. (n + 1) - 1 /\ \A p \in 0 .. n - 1 : p \in 0 .. (n + 1) - 1 BY <1>2
        <3> QED BY <3>1, <3>2
    <2> HIDE DEF bit, l, w
    <2>6. w * bit + l = 0 <=> bit = 0 /\ l = 0
        <3>1. CASE bit = 0 BY <2>2, <2>3, <3>1
        <3>2. CASE bit = 1 BY <2>2, <2>3, <3>2
        <3> QED BY <2>2, <3>1, <3>2
    <2> QED BY <2>2, <2>4, <2>5, <2>6
<1> HIDE DEF P
<1>3. \A n \in 0 .. 12 : n \in P BY <1>1, <1>2, InductionUpTo
<1> QED BY <1>3 DEF P

\* and values of the same bits are the same.
LEMMA SameBits ==
    ASSUME NEW width \in {5, 8}, NEW x \in Values(width), NEW y \in Values(width),
           \A p \in 0 .. width - 1 : BitOf(x, Power(p)) = BitOf(y, Power(p))
    PROVE  x = y
<1> DEFINE P == {n \in Nat : n <= width => x % Power(n) = y % Power(n)}
<1>0. Power(width) \in Nat /\ width \in 0 .. 12 BY PowerNext
<1>1. x \in Nat /\ y \in Nat /\ x < Power(width) /\ y < Power(width)
    BY <1>0 DEF Values
<1>2. 0 \in P
    <2>1. x % 1 = 0 /\ y % 1 = 0 BY <1>1
    <2> QED BY <2>1, PowerNext
<1>3. ASSUME NEW n \in Nat, n < 12, n \in P
      PROVE  n + 1 \in P
    <2> SUFFICES ASSUME n + 1 <= width PROVE x % Power(n + 1) = y % Power(n + 1)
        OBVIOUS
    <2>1. n \in 0 .. 11 /\ n \in 0 .. width - 1 /\ n <= width BY <1>3
    <2>2. x % Power(n) = y % Power(n) BY <1>3, <2>1
    <2>3. BitOf(x, Power(n)) = BitOf(y, Power(n)) BY <2>1
    <2>4. /\ x % Power(n + 1) = Power(n) * BitOf(x, Power(n)) + (x % Power(n))
          /\ y % Power(n + 1) = Power(n) * BitOf(y, Power(n)) + (y % Power(n))
        BY <1>1, <2>1, BitsNext
    <2> QED BY <2>2, <2>3, <2>4
<1> HIDE DEF P
<1>4. \A n \in 0 .. 12 : n \in P BY <1>2, <1>3, InductionUpTo
<1>5. x % Power(width) = y % Power(width) BY <1>0, <1>4 DEF P
<1> DEFINE w == Power(width)
<1>6. x % w = y % w /\ w \in Nat /\ x < w /\ y < w BY <1>0, <1>1, <1>5
<1> HIDE DEF w
<1>7. x % w = x /\ y % w = y BY <1>1, <1>6
<1> QED BY <1>6, <1>7

\* five_bit_to_bytes: as many bytes as there are in the bits, and what is left
\* over is padding when it is short and zero.
LEMMA UngroupedBits ==
    ASSUME NEW values \in Seq(Values(5))
    PROVE  LET end == Regrouped(values, 5, 8)
               bits == 5 * Len(values)
           IN  /\ end.out \in Seq(Values(8)) /\ Len(end.out) = bits \div 8
               /\ \A n \in 0 .. 8 * Len(end.out) - 1 : Bit(end.out, 8, n) = Bit(values, 5, n)
               /\ PaddingFits(end)
                    <=> /\ bits % 8 < 5
                        /\ \A n \in 8 * (bits \div 8) .. bits - 1 : Bit(values, 5, n) = 0
<1> DEFINE end == Regrouped(values, 5, 8)
           bits == 5 * Len(values)
           o == Len(end.out)
           b == end.bits
<1>1. Carried(end, Len(values), values, 5, 8) BY RegroupedBits DEF Widths
<1> HIDE DEF end
<1>2. end \in Hand(8) /\ 8 * o + b = bits BY <1>1 DEF Carried
<1>3. end.acc \in Nat /\ b \in 0 .. 7 /\ end.out \in Seq(Values(8)) BY <1>2 DEF Hand
<1>4. o \in Nat /\ bits \in Nat
    <2>1. Len(values) \in Nat OBVIOUS
    <2> DEFINE V == Values(8)
    <2>2. end.out \in Seq(V) BY <1>3
    <2> HIDE DEF V
    <2> QED BY <2>1, <2>2
<1>5. \A n \in 8 * o .. bits - 1 : BitOf(end.acc, Power(bits - 1 - n)) = Bit(values, 5, n)
    BY <1>1 DEF Carried
<1>6. \A n \in 0 .. 8 * o - 1 : Bit(end.out, 8, n) = Bit(values, 5, n)
    BY <1>1 DEF Carried
<1> HIDE DEF o, b, bits
<1>7. bits \div 8 = o /\ bits % 8 = b
    <2>1. (8 * o + b) \div 8 = o /\ (8 * o + b) % 8 = b BY <1>3, <1>4, DivIs
    <2> QED BY <1>2, <2>1
<1>8. (\A p \in 0 .. b - 1 : BitOf(end.acc, Power(p)) = 0)
        <=> \A n \in 8 * o .. bits - 1 : Bit(values, 5, n) = 0
    <2>1. ASSUME \A p \in 0 .. b - 1 : BitOf(end.acc, Power(p)) = 0,
                 NEW n \in 8 * o .. bits - 1
          PROVE  Bit(values, 5, n) = 0
        <3>1. bits - 1 - n \in 0 .. b - 1 BY <1>2, <1>3, <1>4
        <3> QED BY <1>5, <2>1, <3>1
    <2>2. ASSUME \A n \in 8 * o .. bits - 1 : Bit(values, 5, n) = 0,
                 NEW p \in 0 .. b - 1
          PROVE  BitOf(end.acc, Power(p)) = 0
        <3>1. bits - 1 - p \in 8 * o .. bits - 1 /\ bits - 1 - (bits - 1 - p) = p
            BY <1>2, <1>3, <1>4
        <3> DEFINE n == bits - 1 - p
        <3> HIDE DEF n
        <3>2. n \in 8 * o .. bits - 1 /\ bits - 1 - n = p BY <3>1 DEF n
        <3> QED BY <1>5, <2>2, <3>2
    <2> QED BY <2>1, <2>2
<1>9. end.acc % Power(b) = 0 <=> \A p \in 0 .. b - 1 : BitOf(end.acc, Power(p)) = 0
    <2>1. b \in 0 .. 12 BY <1>3
    <2>2. PICK acc \in Nat : acc = end.acc BY <1>3
    <2>3. acc % Power(b) = 0 <=> \A p \in 0 .. b - 1 : BitOf(acc, Power(p)) = 0
        BY <2>1, ZeroBits
    <2> QED BY <2>2, <2>3
<1>10. PaddingFits(end)
         <=> b < 5 /\ \A n \in 8 * o .. bits - 1 : Bit(values, 5, n) = 0
    BY <1>8, <1>9 DEF PaddingFits, b
<1> QED BY <1>3, <1>6, <1>7, <1>10 DEF end, o, b, bits

\* What is grouped and ungrouped again is the same.
LEMMA RoundTrip ==
    ASSUME NEW data \in Seq(Values(8))
    PROVE  LET end == Regrouped(BytesTo5bit(data), 5, 8)
           IN  end.out = data /\ PaddingFits(end)
<1> DEFINE groups == BytesTo5bit(data)
           end == Regrouped(groups, 5, 8)
           g == Len(groups)
           L == Len(data)
<1>1. /\ groups \in Seq(Values(5))
      /\ 5 * g \in 8 * L .. 8 * L + 4
      /\ \A n \in 0 .. 8 * L - 1 : Bit(groups, 5, n) = Bit(data, 8, n)
      /\ \A n \in 8 * L .. 5 * g - 1 : Bit(groups, 5, n) = 0
    BY GroupedBits
<1> HIDE DEF groups
<1>2. /\ end.out \in Seq(Values(8)) /\ Len(end.out) = (5 * g) \div 8
      /\ \A n \in 0 .. 8 * Len(end.out) - 1 : Bit(end.out, 8, n) = Bit(groups, 5, n)
      /\ PaddingFits(end)
           <=> /\ (5 * g) % 8 < 5
               /\ \A n \in 8 * ((5 * g) \div 8) .. 5 * g - 1 : Bit(groups, 5, n) = 0
    BY <1>1, UngroupedBits
<1> HIDE DEF end
<1>3. L \in Nat /\ g \in Nat BY <1>1
<1> HIDE DEF g, L
<1>4. (5 * g) \div 8 = L /\ (5 * g) % 8 \in 0 .. 4
    <2> DEFINE l == 5 * g - 8 * L
    <2>1. l \in 0 .. 4 /\ 5 * g = 8 * L + l BY <1>1, <1>3
    <2> HIDE DEF l
    <2>2. l \in 0 .. 8 - 1 BY <2>1
    <2>3. (8 * L + l) \div 8 = L /\ (8 * L + l) % 8 = l BY <1>3, <2>2, DivIs
    <2> QED BY <2>1, <2>3
<1>5. PaddingFits(end) BY <1>1, <1>2, <1>4
<1>6. Len(end.out) = L BY <1>2, <1>4
<1>7. ASSUME NEW i \in 1 .. L
      PROVE  end.out[i] = data[i]
    <2> DEFINE x == end.out[i]
               y == data[i]
    <2>1. x \in Values(8) /\ y \in Values(8) BY <1>2, <1>6, SeqElement DEF L
    <2>2. PICK k \in Nat : i = k + 1
        <3>1. i - 1 \in Nat /\ i = (i - 1) + 1 BY <1>3
        <3> QED BY <3>1
    <2>3. ASSUME NEW p \in 0 .. 8 - 1
          PROVE  BitOf(x, Power(p)) = BitOf(y, Power(p))
        <3> DEFINE j == 7 - p
                   n == 8 * k + j
        <3>1. j \in 0 .. 8 - 1 /\ 8 - 1 - j = p OBVIOUS
        <3> HIDE DEF j
        <3>2. Bit(end.out, 8, n) = BitOf(x, Power(p)) /\ Bit(data, 8, n) = BitOf(y, Power(p))
            BY <2>2, <3>1, BitPlace
        <3>3. n \in 0 .. 8 * L - 1 BY <1>3, <2>2, <3>1
        <3> HIDE DEF n, x, y
        <3> QED BY <1>1, <1>2, <1>6, <3>2, <3>3
    <2> HIDE DEF x, y
    <2>4. 8 \in {5, 8} OBVIOUS
    <2>5. x = y BY <2>1, <2>3, <2>4, SameBits
    <2> QED BY <2>5 DEF x, y
<1>8. end.out = data
    <2> DEFINE V == Values(8)
               c == end.out
    <2>1. c \in Seq(V) /\ data \in Seq(V) /\ Len(c) = Len(data)
          /\ \A i \in 1 .. Len(data) : c[i] = data[i]
        BY <1>2, <1>6, <1>7 DEF L
    <2> HIDE DEF V, c
    <2>2. c = data BY <2>1
    <2> QED BY <2>2 DEF c
<1> QED BY <1>5, <1>8 DEF end, groups

\* A string as it was published, but for the case of its letters.
AsPublished(a, form, program) ==
    IF form \in {"legacy", "p2sh"} THEN a = AddressOf(form, program)
    ELSE \E letters \in {"lower", "upper"} :
           a = [AddressOf(form, program) EXCEPT !.text.letters = letters]

\* What is typed in as it was published is the owner's; what is not is no
\* address at all.
AddressInv ==
    /\ AddressTypeOK
    /\ address = NoScript => owner = Nobody /\ intact /\ paid_to = NoScript
    /\ paid_to # NoScript => paid_to = LockScript(address)
    /\ ~intact => LockScript(address) = NoScript /\ paid_to = NoScript
    /\ owner # Nobody =>
         /\ Len(owner.program) = Bytes(owner.form)
         /\ intact => AsPublished(address, owner.form, owner.program)

\* Addresses have their fields, of their types.
LEMMA Bech32Parts ==
    ASSUME NEW s \in Bech32
    PROVE  /\ s.hrp \in DOMAIN HrpLen
           /\ s.letters \in {"lower", "upper", "mixed", "invalid"}
           /\ s.sum \in {"bech32", "bech32m", "none"}
           /\ s.values \in Seq(Values(5))
BY DEF Bech32

\* What stands behind the version.
LEMMA ProgramBits ==
    ASSUME NEW s \in Bech32, s.values # <<>>
    PROVE  LET bits == 5 * (Len(s.values) - 1)
           IN  /\ Len(s.values) \in Nat \ {0} /\ Version(s) \in Values(5)
               /\ Program(s) \in Seq(Values(8)) /\ Len(Program(s)) = bits \div 8
               /\ \A n \in 0 .. 8 * Len(Program(s)) - 1 :
                    Bit(Program(s), 8, n) = Bit(Tail(s.values), 5, n)
               /\ PaddingFits(Regrouped(Tail(s.values), 5, 8))
                    <=> /\ bits % 8 < 5
                        /\ \A n \in 8 * (bits \div 8) .. bits - 1 : Bit(Tail(s.values), 5, n) = 0
<1> DEFINE V == Values(5)
           c == s.values
           t == Tail(c)
<1>1. c \in Seq(V) /\ c # <<>> BY Bech32Parts
<1> HIDE DEF V, c
<1>2. t \in Seq(V) /\ Len(c) \in Nat \ {0} /\ Len(t) = Len(c) - 1 /\ c[1] \in V BY <1>1
<1> HIDE DEF t
<1> DEFINE end == Regrouped(t, 5, 8)
<1>3. t \in Seq(Values(5)) BY <1>2 DEF V
<1> DEFINE bits == 5 * Len(t)
<1>4. /\ end.out \in Seq(Values(8)) /\ Len(end.out) = bits \div 8
      /\ \A n \in 0 .. 8 * Len(end.out) - 1 : Bit(end.out, 8, n) = Bit(t, 5, n)
      /\ PaddingFits(end)
           <=> /\ bits % 8 < 5
               /\ \A n \in 8 * (bits \div 8) .. bits - 1 : Bit(t, 5, n) = 0
    BY <1>3, UngroupedBits
<1>5. Program(s) = end.out BY DEF Program, t, c
<1>6. Version(s) \in Values(5) BY <1>2 DEF Version, c, V
<1> HIDE DEF end
<1>7. bits = 5 * (Len(c) - 1) BY <1>2
<1> HIDE DEF bits
<1> QED BY <1>2, <1>4, <1>5, <1>6, <1>7 DEF end, t, c

\* What make_lock_script gives has an opcode or template and whole bytes.
LEMMA LockTyped ==
    ASSUME NEW a \in Address
    PROVE  LockScript(a) \in Lock \cup {NoScript}
<1> DEFINE B == Seq(Values(8))
<1>1. CASE a.kind = "bech32"
    <2>1. PICK s \in Bech32 : a.text = s BY <1>1 DEF Address
    <2>2. CASE s.values # <<>>
        <3>1. Program(s) \in B BY <2>2, ProgramBits
        <3> HIDE DEF B
        <3>2. Bech32Script(s) \in ({"v0", "v1"} \X B) \cup {NoScript} BY <3>1 DEF Bech32Script
        <3> QED BY <1>1, <2>1, <3>2 DEF LockScript, Lock, B
    <2>3. CASE s.values = <<>>
        <3>1. Bech32Script(s) = NoScript BY <2>3 DEF Bech32Script, IsP2wsh, NotP2wsh, Structured
        <3> QED BY <1>1, <2>1, <3>1 DEF LockScript
    <2> QED BY <2>2, <2>3
<1>2. CASE a.kind = "base58"
    <2>1. a.text.hash \in B BY <1>2 DEF Address, Base58
    <2> HIDE DEF B
    <2>2. Base58Script(a.text) \in ({"p2pkh", "p2sh"} \X B) \cup {NoScript}
        BY <2>1 DEF Base58Script
    <2> QED BY <1>2, <2>2 DEF LockScript, Lock, B
<1>3. a.kind \in {"bech32", "base58"} BY DEF Address
<1> QED BY <1>1, <1>2, <1>3

\* A script is not the absence of one, and has its two parts.
LEMMA ScriptIs ==
    ASSUME NEW o \in {"p2pkh", "p2sh", "v0", "v1"}, NEW p \in Seq(Values(8))
    PROVE  <<o, p>> # NoScript /\ <<o, p>>[1] = o /\ <<o, p>>[2] = p
<1>1. <<o, p>> \in Lock BY DEF Lock
<1>2. <<o, p>> # NoScript BY <1>1, NobodyAssumption
<1> QED BY <1>2

\* make_lock_script takes the standard strings and no others.
LEMMA StandardPaid ==
    ASSUME NEW s \in Bech32
    PROVE  LET lock == LockScript([kind |-> "bech32", text |-> s])
           IN  /\ lock # NoScript <=> Standard(s)
               /\ lock # NoScript =>
                    /\ s.values # <<>>
                    /\ lock = <<IF s.values[1] = 0 THEN "v0" ELSE "v1", Program(s)>>
<1> DEFINE lock == LockScript([kind |-> "bech32", text |-> s])
           v == Version(s)
           L == Len(Program(s))
           n == Len(s.values)
           fits == PaddingFits(Regrouped(Tail(s.values), 5, 8))
<1>1. lock = IF s.hrp \in {"bc", "bc1x"} THEN Bech32Script(s) ELSE NoScript BY DEF LockScript
<1>2. Structured(s) <=> /\ HrpLen[s.hrp] + 1 + n + 6 <= 90
                        /\ s.letters \in {"lower", "upper"} /\ s.sum # "none"
                        /\ s.hrp = "bc" /\ s.values # <<>> /\ fits
    BY DEF Structured, Decodes
<1>3. CASE ~(s.hrp = "bc" /\ s.values # <<>>)
    <2>1. ~Structured(s) /\ ~Standard(s) BY <1>2, <1>3 DEF Standard
    <2>2. lock = NoScript BY <1>1, <2>1 DEF Bech32Script, IsP2wsh, NotP2wsh, IsSegwit
    <2> QED BY <2>1, <2>2
<1>4. CASE s.hrp = "bc" /\ s.values # <<>>
    <2> DEFINE bits == 5 * (n - 1)
               zeros == \A i \in 8 * (bits \div 8) .. bits - 1 : Bit(Tail(s.values), 5, i) = 0
    <2>1. /\ n \in Nat \ {0} /\ v \in Values(5)
          /\ Program(s) \in Seq(Values(8)) /\ L = bits \div 8
          /\ fits <=> bits % 8 < 5 /\ zeros
        BY <1>4, ProgramBits
    <2>2. v \in Nat
        <3>1. Power(5) \in Nat BY PowerNext
        <3> QED BY <2>1, <3>1 DEF Values
    <2>3. HrpLen[s.hrp] = 2 BY <1>4, StringsAssumption
    <2>4. Standard(s) <=> /\ s.letters \in {"lower", "upper"} /\ fits
                          /\ \/ v = 0 /\ s.sum = "bech32" /\ L \in {20, 32}
                             \/ v = 1 /\ s.sum = "bech32m" /\ L = 32
        BY <1>4, <2>1 DEF Standard, Version
    <2>5. L \in Nat /\ (L \in {20, 32} => 2 + 1 + n + 6 <= 90)
        <3>1. n \in Nat \ {0} /\ L = bits \div 8 BY <2>1
        <3> HIDE DEF n, L
        <3>2. bits \in Nat BY <3>1
        <3>3. L \in Nat /\ bits % 8 \in 0 .. 7 /\ bits = 8 * L + (bits % 8)
            BY <3>1, <3>2, DivParts
        <3>4. 5 * (n - 1) <= 8 * L + 7 BY <3>2, <3>3
        <3> QED BY <3>1, <3>3, <3>4
    <2> DEFINE script == <<IF v = 0 THEN "v0" ELSE "v1", Program(s)>>
    <2>6. script # NoScript BY <2>1, ScriptIs
    <2>7. script = <<IF s.values[1] = 0 THEN "v0" ELSE "v1", Program(s)>> BY DEF Version
    <2>8. L \in Nat BY <2>5
    <2> HIDE DEF v, L, fits, n, bits, zeros
    <2>9. Structured(s) <=> /\ 2 + 1 + n + 6 <= 90 /\ s.letters \in {"lower", "upper"}
                            /\ s.sum # "none" /\ fits
        BY <1>2, <1>4, <2>3
    <2>10. IsP2wsh(s) <=> Structured(s) /\ v = 0 /\ L = 32 /\ s.sum = "bech32"
        BY DEF IsP2wsh, NotP2wsh, v, L
    <2>11. NotP2wsh(s) <=> Structured(s) /\ (v # 0 \/ L # 32) BY DEF NotP2wsh, v, L
    <2>12. IsSegwit(s) <=> /\ Structured(s) /\ L \in 2 .. 40 /\ v <= 1 /\ (v = 0 => L = 20)
                           /\ s.sum = IF v = 0 THEN "bech32" ELSE "bech32m"
        BY DEF IsSegwit, v, L
    <2>13. lock = IF IsP2wsh(s) \/ (NotP2wsh(s) /\ IsSegwit(s) /\ (v = 1 => L = 32))
                  THEN script ELSE NoScript
        <3>1. IsP2wsh(s) => v = 0 BY <2>10
        <3> QED BY <1>1, <1>4, <3>1 DEF Bech32Script, v, L
    <2>14. (IsP2wsh(s) \/ (NotP2wsh(s) /\ IsSegwit(s) /\ (v = 1 => L = 32))) <=> Standard(s)
        <3>1. CASE v = 0 BY <2>4, <2>5, <2>8, <2>9, <2>10, <2>11, <2>12, <3>1
        <3>2. CASE v = 1 BY <2>4, <2>5, <2>8, <2>9, <2>10, <2>11, <2>12, <3>2
        <3>3. CASE v > 1 BY <2>2, <2>4, <2>10, <2>12, <3>3
        <3> QED BY <2>2, <3>1, <3>2, <3>3
    <2> HIDE DEF script, lock
    <2>15. /\ lock # NoScript <=> Standard(s)
           /\ lock # NoScript => lock = script
        BY <2>6, <2>13, <2>14
    <2> QED BY <1>4, <2>7, <2>15 DEF lock
<1> QED BY <1>3, <1>4

\* What the program puts into a bech32 address can be read out of it.
LEMMA PublishedString ==
    ASSUME NEW v \in {0, 1}, NEW program \in Seq(Values(8)), Len(program) \in {20, 32},
           NEW letters \in {"lower", "upper"}, NEW sum \in {"bech32", "bech32m"},
           IF v = 0 THEN sum = "bech32" ELSE sum = "bech32m" /\ Len(program) = 32,
           NEW s, s = [hrp |-> "bc", letters |-> letters, sum |-> sum,
                       values |-> <<v>> \o BytesTo5bit(program)]
    PROVE  /\ s \in Bech32
           /\ LockScript([kind |-> "bech32", text |-> s])
                = <<IF v = 0 THEN "v0" ELSE "v1", program>>
<1> DEFINE V == Values(5)
           G == BytesTo5bit(program)
           values == <<v>> \o G
<1>1. G \in Seq(V) BY GroupedBits
<1>2. v \in V
    <2>1. Power(5) = 32 BY PowerNext
    <2> QED BY <2>1 DEF Values
<1>3. Regrouped(G, 5, 8).out = program /\ PaddingFits(Regrouped(G, 5, 8)) BY RoundTrip
<1> HIDE DEF V, G
<1>4. values \in Seq(V) /\ values # <<>> /\ values[1] = v /\ Tail(values) = G BY <1>1, <1>2
<1> HIDE DEF values
<1>5. /\ s.values = values /\ s.letters = letters /\ s.sum = sum /\ s.hrp = "bc"
      /\ s = [hrp |-> s.hrp, letters |-> s.letters, sum |-> s.sum, values |-> s.values]
    BY DEF values, G
<1>6. s \in Bech32
    <2>1. "bc" \in DOMAIN HrpLen BY StringsAssumption
    <2> QED BY <1>4, <1>5, <2>1 DEF Bech32, V
<1>7. Program(s) = program /\ PaddingFits(Regrouped(Tail(s.values), 5, 8))
    BY <1>3, <1>4, <1>5 DEF Program
<1>8. Standard(s)
    <2> DEFINE bits == 5 * (Len(s.values) - 1)
    <2>1. /\ Len(program) = bits \div 8 /\ bits % 8 < 5
          /\ \A n \in 8 * (bits \div 8) .. bits - 1 : Bit(Tail(s.values), 5, n) = 0
        BY <1>4, <1>5, <1>6, <1>7, ProgramBits
    <2>2. s.values[1] = v BY <1>4, <1>5
    <2> HIDE DEF bits
    <2> QED BY <1>4, <1>5, <2>1, <2>2 DEF Standard, bits
<1> DEFINE lock == LockScript([kind |-> "bech32", text |-> s])
<1>9. /\ lock # NoScript <=> Standard(s)
      /\ lock # NoScript => lock = <<IF s.values[1] = 0 THEN "v0" ELSE "v1", Program(s)>>
    BY <1>6, StandardPaid
<1> HIDE DEF lock
<1>10. lock = <<IF v = 0 THEN "v0" ELSE "v1", program>> BY <1>4, <1>5, <1>7, <1>8, <1>9
<1> QED BY <1>6, <1>10 DEF lock

\* A payment to an address that was published is its owner's.
LEMMA OwnPaid ==
    ASSUME NEW form \in {"legacy", "native", "taproot", "p2sh", "p2wsh"},
           NEW program \in Seq(Values(8)), Len(program) = Bytes(form),
           NEW a, AsPublished(a, form, program)
    PROVE  /\ a \in Address
           /\ Recognised(LockScript(a)) = [form |-> form, program |-> program]
<1> DEFINE lock == LockScript(a)
<1>1. CASE form \in {"legacy", "p2sh"}
    <2> DEFINE version == IF form = "legacy" THEN 0 ELSE 5
               o == IF form = "legacy" THEN "p2pkh" ELSE "p2sh"
               text == [version |-> version, hash |-> program, sum |-> "base58"]
    <2>1. a = [kind |-> "base58", text |-> text] BY <1>1 DEF AsPublished, AddressOf
    <2>2. text \in Base58 BY <1>1 DEF Base58
    <2>3. text.version = version /\ text.hash = program /\ text.sum = "base58" OBVIOUS
    <2>4. version \in {0, 5} /\ (version = 0 <=> form = "legacy") OBVIOUS
    <2> HIDE DEF text
    <2>5. a \in Address /\ a.kind = "base58" /\ a.text = text BY <2>1, <2>2 DEF Address
    <2>6. lock = <<o, program>>
        BY <2>3, <2>4, <2>5 DEF LockScript, Base58Script
    <2> HIDE DEF lock
    <2>7. lock # NoScript /\ lock[1] = o /\ lock[2] = program
        <3>1. o \in {"p2pkh", "p2sh", "v0", "v1"} OBVIOUS
        <3> HIDE DEF o
        <3> QED BY <2>6, <3>1, ScriptIs
    <2>8. Recognised(lock) = [form |-> form, program |-> program]
        BY <1>1, <2>7 DEF Recognised
    <2> QED BY <2>5, <2>8 DEF lock
<1>2. CASE form \in {"native", "taproot", "p2wsh"}
    <2> DEFINE v == IF form = "taproot" THEN 1 ELSE 0
               sum == IF form = "taproot" THEN "bech32m" ELSE "bech32"
               o == IF v = 0 THEN "v0" ELSE "v1"
    <2>1. PICK letters \in {"lower", "upper"} :
            a = [AddressOf(form, program) EXCEPT !.text.letters = letters]
        BY <1>2 DEF AsPublished
    <2> DEFINE s == [hrp |-> "bc", letters |-> letters, sum |-> sum,
                     values |-> <<v>> \o BytesTo5bit(program)]
    <2>2. a = [kind |-> "bech32", text |-> s] BY <1>2, <2>1 DEF AddressOf
    <2>3. Len(program) \in {20, 32} /\ (form # "native" => Len(program) = 32)
          /\ (form = "native" => Len(program) = 20)
        BY <1>2 DEF Bytes
    <2>4. /\ v \in {0, 1} /\ sum \in {"bech32", "bech32m"}
          /\ IF v = 0 THEN sum = "bech32" ELSE sum = "bech32m" /\ Len(program) = 32
        BY <1>2, <2>3
    <2>5. v = 1 <=> form = "taproot" OBVIOUS
    <2> DEFINE t == s
    <2>6. t = s OBVIOUS
    <2> HIDE DEF v, sum, t
    <2>7. t \in Bech32 /\ LockScript([kind |-> "bech32", text |-> t]) = <<o, program>>
        BY <2>3, <2>4, <2>6, PublishedString
    <2>8. a = [kind |-> "bech32", text |-> t] BY <2>2, <2>6
    <2> HIDE DEF s
    <2>9. a \in Address BY <2>7, <2>8 DEF Address
    <2>10. lock = <<o, program>> BY <2>7, <2>8
    <2> HIDE DEF lock
    <2>11. lock # NoScript /\ lock[1] = o /\ lock[2] = program
        <3>1. o \in {"p2pkh", "p2sh", "v0", "v1"} OBVIOUS
        <3> HIDE DEF o
        <3> QED BY <2>10, <3>1, ScriptIs
    <2>12. o = "v1" <=> form = "taproot" BY <2>4, <2>5
    <2>13. o \in {"v0", "v1"} OBVIOUS
    <2> HIDE DEF o
    <2>14. Recognised(lock) = [form |-> form, program |-> program]
        <3>1. lock[1] = "v1" <=> form = "taproot" BY <2>11, <2>12
        <3>2. lock[1] \in {"v0", "v1"} BY <2>11, <2>13
        <3>3. Len(lock[2]) = 20 <=> form = "native"
            <4>1. Len(lock[2]) = Len(program) BY <2>11
            <4>2. Len(program) = 20 <=> form = "native"
                <5>1. 20 # 32 OBVIOUS
                <5> DEFINE n == Len(program)
                <5>2. (form # "native" => n = 32) /\ (form = "native" => n = 20) BY <2>3
                <5> HIDE DEF n
                <5>3. n = 20 <=> form = "native" BY <5>1, <5>2
                <5> QED BY <5>3 DEF n
            <4> QED BY <4>1, <4>2
        <3>4. Recognised(lock)
                = [form |-> IF form = "taproot" THEN "taproot"
                            ELSE IF form = "native" THEN "native" ELSE "p2wsh",
                   program |-> program]
            BY <2>11, <3>1, <3>2, <3>3 DEF Recognised
        <3> QED BY <1>2, <3>4
    <2> QED BY <2>9, <2>14 DEF lock
<1> QED BY <1>1, <1>2

----------------------------------------------------------------------------
\* Before there is an address,
LEMMA AddressInvInit ==
    ASSUME AddressInit
    PROVE  AddressInv
<1>1. owner = Nobody /\ address = NoScript /\ intact = TRUE /\ paid_to = NoScript BY DEF AddressInit
<1>2. AddressTypeOK BY <1>1 DEF AddressTypeOK
<1> QED BY <1>1, <1>2 DEF AddressInv

\* and after every step, the invariant holds.
LEMMA AddressInvStep ==
    ASSUME AddressInv, [AddressNext]_addr
    PROVE  AddressInv'
<1>1. /\ owner \in Owner \cup {Nobody} /\ address \in Address \cup {NoScript}
      /\ intact \in BOOLEAN /\ paid_to \in Lock \cup {NoScript}
    BY DEF AddressInv, AddressTypeOK
<1>2. ASSUME NEW form \in {"legacy", "native", "taproot", "p2sh", "p2wsh"}, NEW program \in Programs,
             Publish(form, program)
      PROVE  AddressInv'
    <2>1. /\ address = NoScript /\ Len(program) = Bytes(form)
          /\ address' = AddressOf(form, program)
          /\ owner' = [form |-> form, program |-> program]
          /\ intact' = intact /\ paid_to' = paid_to
        BY <1>2 DEF Publish
    <2>2. program \in Seq(Values(8)) BY ProgramsAssumption
    <2>3. intact = TRUE /\ paid_to = NoScript BY <2>1 DEF AddressInv
    <2>4. AsPublished(address', form, program)
        <3>1. CASE form \in {"legacy", "p2sh"} BY <2>1, <3>1 DEF AsPublished
        <3>2. CASE form \in {"native", "taproot", "p2wsh"}
            <4> DEFINE sum == IF form = "taproot" THEN "bech32m" ELSE "bech32"
                       values == <<IF form = "taproot" THEN 1 ELSE 0>> \o BytesTo5bit(program)
                       text == [hrp |-> "bc", letters |-> "lower", sum |-> sum,
                                values |-> values]
            <4>1. AddressOf(form, program) = [kind |-> "bech32", text |-> text]
                BY <3>2 DEF AddressOf
            <4> HIDE DEF sum, values
            <4>2. text = [text EXCEPT !.letters = "lower"] OBVIOUS
            <4> HIDE DEF text
            <4>3. address' = [AddressOf(form, program) EXCEPT !.text.letters = "lower"]
                BY <2>1, <4>1, <4>2
            <4> QED BY <3>2, <4>3 DEF AsPublished
        <3> QED BY <3>1, <3>2
    <2>5. address' \in Address BY <2>1, <2>2, <2>4, OwnPaid
    <2>6. address' # NoScript BY <2>5, NobodyAssumption
    <2>7. owner' \in Owner BY <2>1, <2>2 DEF Owner
    <2>8. AddressTypeOK' BY <1>1, <2>1, <2>5, <2>7 DEF AddressTypeOK
    <2>9. owner'.form = form /\ owner'.program = program BY <2>1
    <2> QED BY <2>1, <2>3, <2>4, <2>6, <2>8, <2>9 DEF AddressInv
<1>3. ASSUME NEW s \in Strings, HandOut(s)
      PROVE  AddressInv'
    <2>1. /\ address = NoScript /\ address' = [kind |-> "bech32", text |-> s]
          /\ owner' = owner /\ intact' = intact /\ paid_to' = paid_to
        BY <1>3 DEF HandOut
    <2>2. s \in Bech32 BY StringsAssumption
    <2>3. address' \in Address BY <2>1, <2>2 DEF Address
    <2>4. address' # NoScript BY <2>3, NobodyAssumption
    <2>5. owner = Nobody /\ intact = TRUE /\ paid_to = NoScript BY <2>1 DEF AddressInv
    <2>6. AddressTypeOK' BY <1>1, <2>1, <2>3 DEF AddressTypeOK
    <2> QED BY <2>1, <2>4, <2>5, <2>6 DEF AddressInv
<1>4. ASSUME Retype
      PROVE  AddressInv'
    <2>1. /\ address # NoScript /\ intact /\ paid_to = NoScript
          /\ owner' = owner /\ paid_to' = paid_to
        BY <1>4 DEF Retype
    <2>2. address \in Address BY <1>1, <2>1
    <2>3. ASSUME NEW letters \in {"upper", "mixed"}, address.kind = "bech32",
                 address.text.letters = "lower",
                 address' = [address EXCEPT !.text.letters = letters],
                 intact' = (letters = "upper")
          PROVE  AddressInv'
        <3>1. PICK s \in Bech32 : address = [kind |-> "bech32", text |-> s]
            BY <2>2, <2>3 DEF Address
        <3> DEFINE r == [s EXCEPT !.letters = letters]
        <3>2. r \in Bech32 /\ r.letters = letters BY DEF Bech32
        <3>3. address' = [kind |-> "bech32", text |-> r] BY <2>3, <3>1
        <3> HIDE DEF r
        <3>4. address' \in Address BY <3>2, <3>3 DEF Address
        <3>5. address' # NoScript BY <3>4, NobodyAssumption
        <3>6. AddressTypeOK' BY <1>1, <2>1, <2>3, <3>4 DEF AddressTypeOK
        <3>7. letters = "mixed" => LockScript(address') = NoScript
            BY <3>2, <3>3
               DEF LockScript, Bech32Script, IsP2wsh, NotP2wsh, Structured, Decodes
        <3>8. ASSUME owner # Nobody, letters = "upper"
              PROVE  AsPublished(address', owner.form, owner.program)
            <4>1. AsPublished(address, owner.form, owner.program)
                BY <2>1, <3>8 DEF AddressInv
            <4>2. owner.form \notin {"legacy", "p2sh"}
                BY <2>3, <4>1 DEF AsPublished, AddressOf
            <4>3. PICK l \in {"lower", "upper"} :
                    address = [AddressOf(owner.form, owner.program) EXCEPT !.text.letters = l]
                BY <4>1, <4>2 DEF AsPublished
            <4>4. address' = [AddressOf(owner.form, owner.program) EXCEPT !.text.letters = "upper"]
                BY <2>3, <3>8, <4>2, <4>3 DEF AddressOf
            <4> QED BY <4>2, <4>4 DEF AsPublished
        <3> QED BY <2>1, <2>3, <3>5, <3>6, <3>7, <3>8 DEF AddressInv
    <2>4. ASSUME address' = [address EXCEPT !.text.sum = "none"], intact' = FALSE
          PROVE  AddressInv'
        <3>1. address' \in Address /\ LockScript(address') = NoScript
            <4>1. CASE address.kind = "bech32"
                <5>1. PICK s \in Bech32 : address = [kind |-> "bech32", text |-> s]
                    BY <2>2, <4>1 DEF Address
                <5> DEFINE r == [s EXCEPT !.sum = "none"]
                <5>2. r \in Bech32 /\ r.sum = "none" BY DEF Bech32
                <5>3. address' = [kind |-> "bech32", text |-> r] BY <2>4, <5>1
                <5> HIDE DEF r
                <5>4. LockScript(address') = NoScript
                    BY <5>2, <5>3
                       DEF LockScript, Bech32Script, IsP2wsh, NotP2wsh, Structured, Decodes
                <5> QED BY <5>2, <5>3, <5>4 DEF Address
            <4>2. CASE address.kind = "base58"
                <5>1. PICK t \in Base58 : address = [kind |-> "base58", text |-> t]
                    BY <2>2, <4>2 DEF Address
                <5> DEFINE r == [t EXCEPT !.sum = "none"]
                <5>2. r \in Base58 /\ r.sum = "none" BY DEF Base58
                <5>3. address' = [kind |-> "base58", text |-> r] BY <2>4, <5>1
                <5> HIDE DEF r
                <5>4. LockScript(address') = NoScript
                    BY <5>2, <5>3 DEF LockScript, Base58Script
                <5> QED BY <5>2, <5>3, <5>4 DEF Address
            <4> QED BY <2>2, <4>1, <4>2 DEF Address
        <3>2. address' # NoScript BY <3>1, NobodyAssumption
        <3>3. AddressTypeOK' BY <1>1, <2>1, <2>4, <3>1 DEF AddressTypeOK
        <3> QED BY <2>1, <2>4, <3>1, <3>2, <3>3 DEF AddressInv
    <2> QED BY <1>4, <2>3, <2>4 DEF Retype
<1>5. ASSUME Pay
      PROVE  AddressInv'
    <2>1. /\ address # NoScript /\ paid_to = NoScript /\ paid_to' = LockScript(address)
          /\ address' = address /\ owner' = owner /\ intact' = intact
        BY <1>5 DEF Pay
    <2>2. paid_to' \in Lock \cup {NoScript} BY <1>1, <2>1, LockTyped
    <2>3. AddressTypeOK' BY <1>1, <2>1, <2>2 DEF AddressTypeOK
    <2> QED BY <2>1, <2>3 DEF AddressInv
<1>6. CASE UNCHANGED addr BY <1>6 DEF addr, AddressInv, AddressTypeOK
<1> QED BY <1>2, <1>3, <1>4, <1>5, <1>6 DEF AddressNext

\* It holds throughout.
LEMMA AddressInvHolds == AddressSpec => []AddressInv
<1>1. AddressInit => AddressInv BY AddressInvInit
<1>2. AddressInv /\ [AddressNext]_addr => AddressInv' BY AddressInvStep
<1> QED BY <1>1, <1>2, PTL DEF AddressSpec

\* Every address has its fields, whatever is paid to has whole bytes
\* (bech32.py, base58check.py, crypto.make_lock_script).
THEOREM AddressTypeCorrect == AddressSpec => []AddressTypeOK
<1>1. AddressInv => AddressTypeOK BY DEF AddressInv
<1> QED BY <1>1, AddressInvHolds, PTL

\* A payment to an address is its owner's, the string being typed in either
\* case, and a string with a wrong letter is not paid (crypto.pubkey2addr and
\* its likes against make_lock_script and script.script2pkh).
THEOREM OwnAddressPaidHolds == AddressSpec => []OwnAddressPaid
<1>1. ASSUME AddressInv PROVE OwnAddressPaid
    <2>1. ASSUME owner # Nobody, intact
          PROVE  Recognised(LockScript(address)) = owner
        <3>1. owner \in Owner BY <1>1, <2>1 DEF AddressInv, AddressTypeOK
        <3>2. PICK form \in {"legacy", "native", "taproot", "p2sh", "p2wsh"},
                   program \in Seq(Values(8)) :
                owner = [form |-> form, program |-> program]
            BY <3>1 DEF Owner
        <3>3. Len(program) = Bytes(form) /\ AsPublished(address, form, program)
            BY <1>1, <2>1, <3>2 DEF AddressInv
        <3> QED BY <3>2, <3>3, OwnPaid
    <2>2. ~intact => paid_to = NoScript /\ LockScript(address) = NoScript
        BY <1>1 DEF AddressInv
    <2> QED BY <2>1, <2>2 DEF OwnAddressPaid
<1> QED BY <1>1, AddressInvHolds, PTL

\* The bech32 strings that are paid are the standard ones, and what is paid to
\* is the program that stands in them, bit by bit (crypto.decode_segwit_addr,
\* decode_p2wsh_addr, make_lock_script).
THEOREM StandardIffPaidHolds == AddressSpec => []StandardIffPaid
<1>1. ASSUME AddressInv PROVE StandardIffPaid
    <2> SUFFICES ASSUME address # NoScript, address.kind = "bech32"
                 PROVE  LET lock == LockScript(address)
                        IN  /\ lock # NoScript <=> Standard(address.text)
                            /\ lock # NoScript =>
                                 /\ lock[1] = IF address.text.values[1] = 0 THEN "v0" ELSE "v1"
                                 /\ \A n \in 0..(8 * Len(lock[2]) - 1) :
                                      Bit(lock[2], 8, n) = Bit(Tail(address.text.values), 5, n)
        BY DEF StandardIffPaid
    <2>1. address \in Address BY <1>1 DEF AddressInv, AddressTypeOK
    <2>2. PICK s \in Bech32 : address = [kind |-> "bech32", text |-> s] BY <2>1 DEF Address
    <2> DEFINE lock == LockScript(address)
               o == IF s.values[1] = 0 THEN "v0" ELSE "v1"
               P == Program(s)
    <2>3. /\ lock # NoScript <=> Standard(s)
          /\ lock # NoScript => s.values # <<>> /\ lock = <<o, P>>
        BY <2>2, StandardPaid
    <2>4. ASSUME lock # NoScript
          PROVE  \A n \in 0 .. 8 * Len(P) - 1 : Bit(P, 8, n) = Bit(Tail(s.values), 5, n)
        BY <2>3, <2>4, ProgramBits
    <2>5. <<o, P>>[1] = o /\ <<o, P>>[2] = P OBVIOUS
    <2>6. address.text = s BY <2>2
    <2> HIDE DEF lock, o, P
    <2> QED BY <2>3, <2>4, <2>5, <2>6 DEF lock, o
<1> QED BY <1>1, AddressInvHolds, PTL
=============================================================================
