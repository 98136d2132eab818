----------------------------- MODULE MCPsbtWire -----------------------------
(***************************************************************************)
(* Documents of one input and one or two outputs.  Either the global map,  *)
(* the number of maps and the end of the file vary, or the input map does, *)
(* over every sequence of up to two pairs of all field types.              *)
(***************************************************************************)
EXTENDS PsbtWire

Lengths == [none |-> 0, pub |-> 33, pub2 |-> 33, raw |-> 65, short |-> 32,
            tap |-> 64, xpub |-> 78]
Ranks == [none |-> 0, pub |-> 1, pub2 |-> 2, raw |-> 3, short |-> 4, tap |-> 5, xpub |-> 6]

\* From 253 on a type takes three bytes, the low one of its two first.
FieldTypes == 0..9 \cup {20, 21, 23, 24, 251, 253, 256}
TypeRanks == [ty \in FieldTypes |-> IF ty < 253 THEN ty ELSE 256 * (ty % 256) + ty \div 256 + 253]

\* long, tx11long and prevlong have a length in them that is longer than it
\* has to be.
Sizes == [empty |-> 0, zero4 |-> 4, one4 |-> 4, key |-> 32, sig |-> 71, sig2 |-> 71,
          utxo |-> 31, long |-> 33, tx11 |-> 82, tx11long |-> 84, tx12 |-> 116,
          tx10 |-> 48, txsig |-> 99,
          prev |-> 82, prevlong |-> 86, marked |-> 85]
Holding(i, o, scripts, marker, anew) ==
    [ins |-> i, outs |-> o, scripts |-> scripts, marker |-> marker, anew |-> anew]
Txs == [tx11 |-> Holding(1, 1, FALSE, FALSE, "tx11"),
        tx11long |-> Holding(1, 1, FALSE, FALSE, "tx11"),
        tx12 |-> Holding(1, 2, FALSE, FALSE, "tx12"),
        tx10 |-> Holding(1, 0, FALSE, FALSE, "tx10"),
        txsig |-> Holding(1, 1, TRUE, FALSE, "txsig"),
        prev |-> Holding(1, 1, TRUE, FALSE, "prev"),
        prevlong |-> Holding(1, 1, TRUE, FALSE, "prev"),
        marked |-> Holding(1, 1, TRUE, TRUE, "prev")]
SomeUtxo == [utxo |-> "utxo", long |-> "utxo"]

\* An empty value ends in its length byte.
Tails == [v \in DOMAIN Sizes |-> CASE v = "empty" -> 1
                                   [] v \in {"zero4"} \cup DOMAIN Txs -> 4
                                   [] OTHER -> 0]

P(ty, data, value) ==
    [key |-> [ty |-> ty, wide |-> FALSE, data |-> data], value |-> value]
Wide(p) == [p EXCEPT !.key.wide = TRUE]

Globals ==
    LET tx == P(0, "none", "tx11") IN
    {<<tx>>, <<P(0, "none", "tx12")>>, <<P(0, "none", "tx10")>>, <<P(0, "none", "txsig")>>,
     <<P(0, "none", "tx11long")>>,
     <<P(0, "pub", "tx11")>>, <<P(0, "none", "marked")>>, <<Wide(tx)>>, <<tx, tx>>,
     <<tx, P(251, "none", "zero4")>>, <<P(251, "none", "one4"), tx>>,
     <<P(251, "none", "empty"), tx>>, <<tx, P(1, "xpub", "sig")>>, <<P(1, "pub", "sig"), tx>>,
     <<P(256, "none", "sig"), tx>>, <<P(9, "none", "sig")>>}

InputPairs ==
    {P(0, "none", "prev"), P(0, "none", "marked"), P(0, "none", "prevlong"),
     P(0, "none", "key"), P(0, "pub", "prev"), P(1, "none", "utxo"), P(1, "none", "long"),
     P(1, "none", "sig"),
     P(2, "pub", "sig"), P(2, "pub2", "sig"), P(2, "pub", "sig2"), P(2, "short", "sig"),
     P(3, "none", "one4"), P(3, "none", "sig"), P(4, "none", "sig"), P(5, "none", "sig"),
     P(6, "raw", "sig"), P(7, "none", "empty"), P(7, "none", "sig"), P(8, "none", "empty"),
     P(20, "tap", "sig"), P(20, "pub", "sig"), P(21, "pub", "sig"), P(21, "pub", "empty"),
     P(23, "none", "key"), P(24, "none", "sig"), P(256, "none", "sig"), P(256, "none", "sig2"),
     P(253, "none", "sig"), Wide(P(2, "pub", "sig"))}
InputMaps == {<<>>} \cup {<<p>> : p \in InputPairs} \cup {<<p, q>> : p, q \in InputPairs}

OutputMaps == {<<>>, <<P(0, "none", "sig")>>, <<P(1, "pub", "sig")>>, <<P(2, "pub", "sig")>>,
               <<P(2, "short", "sig")>>, <<P(9, "none", "sig"), P(256, "none", "sig")>>}

\* The maps that follow, as many as announced, too few or too many.
Endings ==
    {<<>>, <<<<>>>>, <<<<P(5, "none", "sig")>>>>}
      \cup {<<<<P(3, "none", "zero4")>>, out>> : out \in OutputMaps}
      \cup {<<<<>>, <<>>, <<>>>>, <<<<>>, <<>>, <<>>, <<>>>>,
            <<<<P(7, "none", "sig")>>, <<>>, <<>>>>, <<<<>>, <<>>, <<P(9, "none", "sig")>>>>}

SomeFiles ==
    {[maps |-> <<global>> \o ending, cut |-> cut] :
        global \in Globals, ending \in Endings, cut \in BOOLEAN}
      \cup {[maps |-> <<<<P(0, "none", "tx11")>>, input, output>>, cut |-> FALSE] :
        input \in InputMaps, output \in {<<>>, <<P(2, "pub", "sig")>>}}

AsRead(input, output) == <<{P(0, "none", "tx11")}, input, output>>
SomePartners ==
    {AsRead({P(2, "pub", "sig"), P(256, "none", "sig")}, {}),
     AsRead({P(2, "pub2", "sig"), P(7, "none", "empty")}, {P(2, "pub", "sig")}),
     AsRead({P(256, "none", "sig2"), P(5, "none", "sig")}, {}),
     AsRead({P(7, "none", "sig"), P(20, "tap", "sig")}, {P(9, "none", "key")})}
=============================================================================
