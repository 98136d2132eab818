------------------------------ MODULE PsbtWire ------------------------------
(***************************************************************************)
(* The wire format of a PSBT (src/src/yubtc/psbt.py): parse_psbt map by    *)
(* map, serialize_psbt, and combine_psbt on what was read, in any          *)
(* sequence.  PsbtRoles has what the fields mean; here a field is a pair   *)
(* of a key and a value.                                                   *)
(*                                                                         *)
(* A file is a sequence of maps, a map a sequence of pairs and its         *)
(* terminator; a file that is cut ends inside its last map.  A key is a    *)
(* type, whether the type is written wider than it has to be, and keydata. *)
(* What has been read of a map is the set of its pairs: only the order of  *)
(* the file is lost, and serialize_psbt sorts.                             *)
(***************************************************************************)
EXTENDS Integers, Sequences, FiniteSets, SequencesExt

CONSTANTS
    KeydataLen,  \* keydata -> its length
    KeydataRank, \* keydata -> its place in the order of bytes
    TypeRank,    \* type of a key -> its place in the order of its bytes
    Size,        \* value -> its length
    ZeroTail,    \* value -> the zero bytes a pair with it ends in
    Tx,          \* value that is a transaction -> what it holds
    Utxo,        \* value that is one output -> the same output written anew
    Files,       \* documents handed in
    Partners,    \* documents to combine with, as they are read
    Nothing

Keydata == DOMAIN KeydataLen
FieldType == DOMAIN TypeRank
Value == DOMAIN Size
Pair == [key : [ty : FieldType, wide : BOOLEAN, data : Keydata], value : Value]

\* marker: the BIP-144 layout; anew: the same transaction as it is written
\* here, with the shortest lengths and without a marker for empty witnesses.
\* Bound: a transaction has an input, without one its rewritten bytes could
\* be taken for those of a marker.
TxRecord == [ins : Nat \ {0}, outs : Nat, scripts : BOOLEAN, marker : BOOLEAN,
             anew : DOMAIN Tx]

ASSUME WireAssumption ==
    /\ FieldType \subseteq Nat
    /\ KeydataLen \in [Keydata -> Nat] /\ KeydataRank \in [Keydata -> Nat]
    /\ TypeRank \in [FieldType -> Nat] /\ IsInjective(TypeRank) /\ IsInjective(KeydataRank)
    /\ Size \in [Value -> Nat] /\ ZeroTail \in [Value -> Nat]
    /\ Tx \in [DOMAIN Tx -> TxRecord] /\ Utxo \in [DOMAIN Utxo -> DOMAIN Utxo]
    /\ \A v \in DOMAIN Tx :
         LET w == Tx[v].anew
         IN  /\ Tx[w].anew = w /\ Tx[w].ins = Tx[v].ins /\ Tx[w].outs = Tx[v].outs
             /\ Tx[w].scripts = Tx[v].scripts /\ (Tx[w].marker => Tx[v].marker)
    /\ \A v \in DOMAIN Utxo : Utxo[Utxo[v]] = Utxo[v]
    /\ DOMAIN Tx \subseteq Value /\ DOMAIN Utxo \subseteq Value
    \* there is one way to have no keydata
    /\ \A d, e \in Keydata : KeydataLen[d] = 0 /\ KeydataLen[e] = 0 => d = e
ASSUME FilesAssumption ==
    /\ Files \subseteq [maps : Seq(Seq(Pair)), cut : BOOLEAN]
    /\ \A f \in Files : f.maps # <<>>

VARIABLES
    file,    \* the document in transport
    psbt,    \* what has been read of it: a set of pairs per map
    verdict, \* "none", "reading", "accepted" or the class of the error
    mine     \* the PSBT the file was written from, by serialize_psbt

wire == <<file, psbt, verdict, mine>>

----------------------------------------------------------------------------
(* The fields *)

Keyless(p) == KeydataLen[p.key.data] = 0
ByPubkey(p) == KeydataLen[p.key.data] \in {33, 65}

\* UNSIGNED_TX: stripped, with an output and without scriptSigs.
UnsignedTx(v) ==
    v \in DOMAIN Tx /\ ~Tx[v].marker /\ ~Tx[v].scripts /\ Tx[v].outs > 0

\* 0 UNSIGNED_TX, 1 XPUB, 251 VERSION, which has to be 0.
GlobalFits(p) ==
    /\ p.key.ty = 0 => Keyless(p) /\ UnsignedTx(p.value)
    /\ p.key.ty = 1 => KeydataLen[p.key.data] = 78
    /\ p.key.ty = 251 => Keyless(p) /\ Size[p.value] = 4 /\ ZeroTail[p.value] = 4

\* 2 and 6 are keyed by public key, 20 and 21 the taproot signatures and
\* leaf scripts, 23 and 24 the taproot internal key and root.
InputFits(p) ==
    /\ p.key.ty \in {0, 1, 3, 4, 5, 7, 8, 23, 24} => Keyless(p)
    /\ p.key.ty \in {2, 6} => ByPubkey(p)
    /\ p.key.ty = 0 => p.value \in DOMAIN Tx
    /\ p.key.ty = 1 => p.value \in DOMAIN Utxo
    /\ p.key.ty = 3 => Size[p.value] = 4
    /\ p.key.ty = 20 => KeydataLen[p.key.data] = 64
    /\ p.key.ty = 21 => KeydataLen[p.key.data] = 33 /\ Size[p.value] > 0
    /\ p.key.ty \in {23, 24} => Size[p.value] = 32

OutputFits(p) ==
    /\ p.key.ty \in {0, 1} => Keyless(p)
    /\ p.key.ty = 2 => ByPubkey(p)

\* Mutant: a type may be written wider than it has to be.
KeyReads_Wide(p) == TRUE

\* _split_key, NonMinimalCompactSize.
KeyReads(p) == ~p.key.wide

Duplicated(pairs) ==
    \E i, j \in DOMAIN pairs : i # j /\ pairs[i].key = pairs[j].key

\* The transaction of a global map that has been read.
Spends(global) == Tx[(CHOOSE p \in global : p.key.ty = 0).value]

\* Maps the transaction announces, with the global one.
Announced(doc) == IF doc = <<>> THEN 1 ELSE 1 + Spends(doc[1]).ins + Spends(doc[1]).outs

IsGlobal(n) == n = 1
IsInput(doc, n) == n > 1 /\ n <= 1 + Spends(doc[1]).ins

FieldFits(doc, n, p) ==
    IF IsGlobal(n) THEN GlobalFits(p)
    ELSE IF IsInput(doc, n) THEN InputFits(p) ELSE OutputFits(p)

\* Fields with a place of their own are written anew, the others as they came.
TypedField(doc, n, p) ==
    p.key.ty \in IF IsGlobal(n) THEN {0}
                 ELSE IF IsInput(doc, n) THEN {0, 1, 2, 3, 4, 5, 7, 8, 20, 21, 23, 24}
                 ELSE {}

\* Transactions and outputs are kept parsed: _Reader takes any length of a
\* length in them, and the writers use the shortest one.
Anew(p) ==
    CASE p.key.ty = 0 -> Tx[p.value].anew
      [] p.key.ty = 1 -> Utxo[p.value]
      [] p.key.ty \notin {0, 1} -> p.value

Held(doc, n, p) ==
    [key |-> IF TypedField(doc, n, p) THEN [p.key EXCEPT !.wide = FALSE] ELSE p.key,
     value |-> IF TypedField(doc, n, p) THEN Anew(p) ELSE p.value]

\* VERSION is checked and forgotten.
Forgotten(n, p) == IsGlobal(n) /\ p.key.ty = 251

Interpreted(doc, n, pairs) ==
    {Held(doc, n, p) : p \in {q \in ToSet(pairs) : ~Forgotten(n, q)}}

\* What is kept of a document: finite maps, a key once in each, no more maps
\* than announced, and every pair as it would be read again.
WellRead(doc) ==
    /\ doc \in Seq(SUBSET Pair) /\ Len(doc) <= Announced(doc)
    /\ doc # <<>> => \E p \in doc[1] : p.key.ty = 0
    /\ \A n \in DOMAIN doc :
         /\ IsFiniteSet(doc[n])
         /\ \A p, q \in doc[n] : p.key = q.key => p = q
         /\ \A p \in doc[n] : /\ ~p.key.wide /\ FieldFits(doc, n, p)
                              /\ ~Forgotten(n, p) /\ Held(doc, n, p) = p

ASSUME PartnersAssumption ==
    \A doc \in Partners : WellRead(doc) /\ Len(doc) = Announced(doc)

----------------------------------------------------------------------------
(* parse_psbt *)

Receive ==
    /\ verdict = "none"
    /\ file' \in Files
    /\ verdict' = "reading"
    /\ UNCHANGED <<psbt, mine>>

RefuseFile(error) == verdict' = error /\ UNCHANGED <<file, psbt, mine>>

\* _read_map, then the fields of the map in their order.
ReadMap ==
    LET n == Len(psbt) + 1
        pairs == file.maps[n]
        isCut == file.cut /\ n = Len(file.maps)
        reads == /\ \A p \in ToSet(pairs) : KeyReads(p) /\ FieldFits(psbt, n, p)
                 /\ IsGlobal(n) => \E p \in ToSet(pairs) : p.key.ty = 0
    IN  /\ verdict = "reading" /\ n <= Announced(psbt) /\ n <= Len(file.maps)
        /\ \/ Duplicated(pairs) /\ RefuseFile("DuplicateKey")
           \/ ~Duplicated(pairs) /\ isCut /\ RefuseFile("Truncated")
           \/ ~Duplicated(pairs) /\ ~isCut /\ ~reads /\ RefuseFile("Malformed")
           \/ /\ ~Duplicated(pairs) /\ ~isCut /\ reads
              /\ psbt' = Append(psbt, Interpreted(psbt, n, pairs))
              /\ UNCHANGED <<file, verdict, mine>>

MissingMap ==
    /\ verdict = "reading" /\ Len(psbt) < Announced(psbt) /\ Len(psbt) = Len(file.maps)
    /\ RefuseFile("MapCountMismatch")

\* Nothing but terminators is left.
OnlyTerminators ==
    ~file.cut /\ \A n \in (Len(psbt) + 1)..Len(file.maps) : file.maps[n] = <<>>

\* The zero bytes that end the last map read: its terminator, those of the
\* empty maps before it, and the tail of the last pair.  (A terminator is one
\* byte; the reader would also take a longer zero.)
ZerosRead ==
    LET last == CHOOSE n \in DOMAIN psbt :
                    /\ file.maps[n] # <<>>
                    /\ \A m \in (n + 1)..Len(psbt) : file.maps[m] = <<>>
    IN  Len(psbt) - last + 1 + ZeroTail[Last(file.maps[last]).value]

\* The tail is looked at from r.pos in the data with its magic, five bytes
\* before what is left.
TailIsZero == OnlyTerminators /\ ZerosRead >= 5

EndOfMaps ==
    /\ verdict = "reading" /\ Len(psbt) = Announced(psbt)
    /\ \/ Len(file.maps) = Announced(psbt) /\ RefuseFile("accepted")
       \/ Len(file.maps) > Announced(psbt) /\ TailIsZero /\ RefuseFile("Truncated")
       \/ Len(file.maps) > Announced(psbt) /\ ~TailIsZero /\ RefuseFile("MapCountMismatch")

----------------------------------------------------------------------------
(* serialize_psbt *)

\* Mutant: fields the wallet does not know are not written to inputs.
Unset_Unknown(doc, n, p) ==
    /\ ~IsGlobal(n) /\ IsInput(doc, n)
    /\ (p.key.ty \in {7, 8} /\ Size[p.value] = 0) \/ p.key.ty > 255

\* An empty final script is written as an absent one.
Unset(doc, n, p) ==
    /\ ~IsGlobal(n) /\ IsInput(doc, n)
    /\ p.key.ty \in {7, 8} /\ Size[p.value] = 0

Kept(doc) == [n \in DOMAIN doc |-> {p \in doc[n] : ~Unset(doc, n, p)}]

\* By the bytes of the key, its type before its keydata.  Types from 253 on
\* take more bytes, the low one first: 256 comes before 253.
KeyBefore(p, q) ==
    \/ TypeRank[p.key.ty] < TypeRank[q.key.ty]
    \/ p.key.ty = q.key.ty /\ KeydataRank[p.key.data] < KeydataRank[q.key.data]

KeyOrdered(pairs) ==
    FoldSet(LAMBDA p, seq :
              InsertAt(seq, 1 + Cardinality({i \in DOMAIN seq : KeyBefore(seq[i], p)}), p),
            <<>>, pairs)

Written(doc) ==
    [maps |-> [n \in DOMAIN doc |-> KeyOrdered(Kept(doc)[n])],
     cut |-> FALSE]

SerializePsbt ==
    /\ verdict = "accepted"
    /\ file' = Written(psbt) /\ mine' = psbt
    /\ psbt' = <<>> /\ verdict' = "reading"

----------------------------------------------------------------------------
(* combine_psbt *)

\* Mutant: an opaque field that differs is kept as it is.
Conflict_TypedOnly(a, b) ==
    \E p \in a, q \in b : p.key = q.key /\ p.value # q.value /\ p.key.ty < 32

\* The merge helpers: a key with two values is a ConflictingField.
Conflict(a, b) == \E p \in a, q \in b : p.key = q.key /\ p.value # q.value

\* Otherwise ForeignTransaction or ConflictingField.
Combines(doc, other) ==
    /\ Len(doc) = Len(other)
    /\ \A n \in DOMAIN doc : ~Conflict(doc[n], other[n])

\* New keys are added to what is there.
Merged(a, b) == a \cup {q \in b : \A p \in a : p.key # q.key}

MergedPsbt(doc, other) == [n \in DOMAIN doc |-> Merged(doc[n], other[n])]

CombineWith(other) ==
    /\ verdict = "accepted" /\ Combines(psbt, other)
    /\ psbt' = MergedPsbt(psbt, other) /\ mine' = Nothing
    /\ UNCHANGED <<file, verdict>>

----------------------------------------------------------------------------
WireInit == file = Nothing /\ psbt = <<>> /\ verdict = "none" /\ mine = Nothing

WireNext ==
    \/ Receive \/ ReadMap \/ MissingMap \/ EndOfMaps \/ SerializePsbt
    \/ \E other \in Partners : CombineWith(other)

WireSpec == WireInit /\ [][WireNext]_wire

----------------------------------------------------------------------------
Errors == {"DuplicateKey", "Truncated", "Malformed", "MapCountMismatch"}

\* What has been read is well read, at every map and after every merge.
WireTypeOK ==
    /\ file = Nothing \/ file \in [maps : Seq(Seq(Pair)), cut : BOOLEAN]
    /\ WellRead(psbt)
    /\ verdict \in {"none", "reading", "accepted"} \cup Errors
    /\ mine = Nothing \/ mine \in Seq(SUBSET Pair)

\* What serialize_psbt writes can be read again, gives the PSBT it was
\* written from less its empty final scripts, and is written the same way
\* the next time: whatever was accepted, merged and written before.
OwnFilesRead ==
    mine # Nothing =>
      /\ verdict \notin Errors
      /\ verdict = "accepted" => psbt = Kept(mine) /\ Written(psbt) = file

\* No pair of a document that was accepted is missing when it is written
\* again, alone or combined with others, but VERSION 0 and empty final
\* scripts; and only the transactions and outputs with a place of their own
\* may come back in other bytes, still the same transaction or output.
NothingLost ==
    verdict = "accepted" =>
      \A n \in DOMAIN file.maps : \A p \in ToSet(file.maps[n]) :
        \/ Forgotten(n, p)
        \/ p.key.ty \in {7, 8} /\ Size[p.value] = 0
        \/ \E q \in ToSet(Written(psbt).maps[n]) :
             /\ q.key = p.key
             /\ q.value = p.value \/ (TypedField(psbt, n, p) /\ Anew(q) = Anew(p))

\* Documents may be combined in any order: two others either both go in,
\* one way as the other and with the same bytes written, or neither way.
MergeOrderFree ==
    verdict = "accepted" =>
      \A b, c \in Partners :
        LET first == Combines(psbt, b) /\ Combines(MergedPsbt(psbt, b), c)
            second == Combines(c, b) /\ Combines(MergedPsbt(c, b), psbt)
        IN  /\ first <=> second
            /\ first => Written(MergedPsbt(MergedPsbt(psbt, b), c))
                          = Written(MergedPsbt(MergedPsbt(c, b), psbt))

\* The comment at the end of parse_psbt: an all-zero tail is a stray second
\* map terminator, which is Truncated and not a wrong number of maps.
StrayTerminatorTruncated ==
    verdict = "MapCountMismatch" =>
        Len(psbt) < Announced(psbt) \/ ~OnlyTerminators
=============================================================================
