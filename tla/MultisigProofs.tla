--------------------------- MODULE MultisigProofs ---------------------------
(***************************************************************************)
(* What holds of a multisig spend, for every set of calls, every answer of *)
(* the backend and every size estimate, and of its scripts, for every set  *)
(* of owners and every quorum.                                             *)
(*                                                                         *)
(* MsSend implements the fee loop: a build and a fixed build are steps of  *)
(* it, everything else stutters.  Because its request is computed from the *)
(* call and the answer, which no step changes, the theorems of             *)
(* FeeLoopProofs carry over through their INSTANCE, and MInv adds what the *)
(* loop does not see: the size of each build is that of a sized spend, and *)
(* a signature is no larger than its estimate.  With one size for each     *)
(* number of outputs the loop makes at most three builds.                  *)
(*                                                                         *)
(* QuorumScript runs the script of a spend.  QuorumInv says what the stack *)
(* holds before each instruction, for the members that signed: an          *)
(* increasing choice of positions for OP_CHECKMULTISIG (MultisigAt), the   *)
(* slots not yet checked and the counter for a tapscript (TapscriptAt).    *)
(***************************************************************************)
EXTENDS MsSend, QuorumScript, InductionFacts

LoopFacts == INSTANCE FeeLoopProofs WITH
    req <- Request(call, unspent), Requests <- AllRequests, TxSizes <- AllSizes

----------------------------------------------------------------------------
(* What is asked of the fee loop *)

\* A sum of outputs is an amount.
LEMMA SumIsAmount ==
    ASSUME NEW list \in Seq(Output)
    PROVE  Sum(list) \in Nat
<1> DEFINE D == DOMAIN list
           w == [i \in D |-> list[i].value]
           iter == CHOOSE f : f = [s \in SUBSET D |-> IF s = {} THEN 0
              ELSE list[CHOOSE x \in s : TRUE].value + f[s \ {CHOOSE x \in s : TRUE}]]
<1>1. D = 1 .. Len(list) /\ Len(list) \in Nat OBVIOUS
<1>2. IsFiniteSet(D) BY <1>1, FS_Interval
<1>3. w \in [D -> Nat]
    <2>1. \A i \in D : list[i] \in Output BY SeqElement
    <2>2. \A i \in D : list[i].value \in Nat BY <2>1 DEF Output
    <2> QED BY <2>2
<1>4. \A f : Sums(f, w, D) <=> f = [s \in SUBSET D |-> IF s = {} THEN 0
              ELSE list[CHOOSE x \in s : TRUE].value + f[s \ {CHOOSE x \in s : TRUE}]]
    <2>1. \A s \in SUBSET D : s # {} =>
              w[CHOOSE x \in s : TRUE] = list[CHOOSE x \in s : TRUE].value
        OBVIOUS
    <2> HIDE DEF w, D
    <2> QED BY <2>1 DEF Sums
<1>5. Sum(list) = iter[D]
    BY DEF Sum, FoldSeq, FoldFunction, FoldFunctionOnSet, MapThenFoldSet
<1> HIDE DEF w, D
<1>6. Sums(iter, w, D)
    <2>1. \E f : Sums(f, w, D) BY <1>2, <1>3, SumExists
    <2> QED BY <1>4, <2>1
<1> HIDE DEF iter
<1> QED BY <1>2, <1>3, <1>5, <1>6, SumType

\* The outputs that may be spent are outputs.
LEMMA AffordableType ==
    ASSUME NEW c, NEW list \in Seq(Output)
    PROVE  Affordable(c, list) \in Seq(Output)
<1> DEFINE piece(i) == IF list[i].confirmations >= c.confirmations
                       THEN <<list[i]>> ELSE <<>>
           pieces == [i \in DOMAIN list |-> piece(i)]
<1>1. DOMAIN list = 1 .. Len(list) /\ Len(list) \in Nat OBVIOUS
<1>2. \A i \in DOMAIN list : list[i] \in Output BY SeqElement
<1>3. \A i \in DOMAIN list : piece(i) \in Seq(Output) BY <1>2
<1> HIDE DEF piece
<1>4. pieces \in Seq(Seq(Output)) BY <1>1, <1>3
<1>5. Affordable(c, list) = FlattenSeq(pieces) BY DEF Affordable, piece
<1> HIDE DEF pieces
<1> QED BY <1>4, <1>5, FlattenSeqType

\* The prefix is one of the outputs that may be spent; it reaches the target,
\* or nothing does.
LEMMA SelectedPrefix ==
    ASSUME NEW c \in Call, NEW list \in Seq(Output)
    PROVE  /\ Selected(c, list) \in Seq(Output)
           /\ \/ Sum(Selected(c, list)) >= Target(c)
              \/ Selected(c, list) = Affordable(c, list)
<1> DEFINE all == Affordable(c, list)
           enough == {k \in DOMAIN all : Sum(SubSeq(all, 1, k)) >= Target(c)}
<1>1. all \in Seq(Output) BY AffordableType
<1>2. Selected(c, list) = IF enough = {} THEN all ELSE SubSeq(all, 1, Min(enough))
    BY DEF Selected
<1>3. CASE enough = {} BY <1>1, <1>2, <1>3
<1>4. CASE enough # {}
    <2>1. enough \in SUBSET Nat BY <1>1
    <2>2. \E k \in enough : \A j \in enough : k <= j BY <1>4, <2>1, LeastNatural
    <2>3. Min(enough) \in enough
        <3> HIDE DEF enough
        <3> QED BY <2>2 DEF Min
    <2>4. Sum(SubSeq(all, 1, Min(enough))) >= Target(c) BY <2>3
    <2>5. Min(enough) \in 1 .. Len(all) BY <1>1, <2>3
    <2>6. SubSeq(all, 1, Min(enough)) \in Seq(Output)
        <3> HIDE DEF all, enough
        <3> QED BY <1>1, <2>5
    <2> QED BY <1>2, <1>4, <2>4, <2>6
<1> QED BY <1>3, <1>4

\* The request has the types of the fee loop.
LEMMA RequestFields ==
    ASSUME NEW c \in Calls, NEW list \in Answers
    PROVE  /\ Request(c, list) \in [in_amount : Nat, amount : Nat \cup {Drain},
                                    fee : Nat, feekb : Nat, dst_ok : BOOLEAN]
           /\ Request(c, list).in_amount = Sum(Selected(c, list))
           /\ Request(c, list).amount = c.amount /\ Request(c, list).fee = c.fee
           /\ Request(c, list).feekb = c.feekb /\ Request(c, list).dst_ok = (c.dst # 0)
<1>1. c \in Call BY CallsAssumption
<1>2. list \in Seq(Output) BY AnswersAssumption
<1>3. Sum(Selected(c, list)) \in Nat BY <1>1, <1>2, SelectedPrefix, SumIsAmount
<1> HIDE DEF Selected, Sum
<1>4. c.amount \in Nat /\ c.fee \in Nat /\ c.feekb \in Nat BY <1>1 DEF Call
<1> QED BY <1>3, <1>4 DEF Request

----------------------------------------------------------------------------
(* The fee loop, from its own proofs *)

\* The instance of the fee loop is the one its theorems are about.
LEMMA LoopIsFeeLoop ==
    /\ Loop!Init <=> LoopFacts!Init
    /\ [Loop!Next]_(Loop!vars) <=> [LoopFacts!Next]_(LoopFacts!vars)
    /\ LoopFacts!TypeOK <=> Loop!TypeOK
    /\ LoopFacts!RatePaid <=> Loop!RatePaid
    /\ LoopFacts!Conservation <=> Loop!Conservation
<1>1. Loop!Init <=> LoopFacts!Init
    BY DEF Loop!Init, LoopFacts!Init, Loop!NoResult, LoopFacts!NoResult
<1>2. \A f, s : Loop!MakeVout(f, s) = LoopFacts!MakeVout(f, s)
    BY DEF Loop!MakeVout, LoopFacts!MakeVout, Loop!OneOutput, LoopFacts!OneOutput
<1>3. \A f : Loop!MakeVoutRaises(f) <=> LoopFacts!MakeVoutRaises(f)
    BY DEF Loop!MakeVoutRaises, LoopFacts!MakeVoutRaises
<1>4. \A f : Loop!VSize(f) = LoopFacts!VSize(f)
    BY DEF Loop!VSize, LoopFacts!VSize, Loop!NumOutputs, LoopFacts!NumOutputs,
           Loop!OneOutput, LoopFacts!OneOutput
<1>5. \A s, r : Loop!FeeAt(s, r) = LoopFacts!FeeAt(s, r)
    BY DEF Loop!FeeAt, LoopFacts!FeeAt
<1>6. \A i : Loop!Picked(i) <=> LoopFacts!Picked(i)
    BY DEF Loop!Picked, LoopFacts!Picked, Loop!Paying, LoopFacts!Paying, Loop!Pays,
           LoopFacts!Pays, Loop!Preferred, LoopFacts!Preferred, Loop!FeeAt, LoopFacts!FeeAt
<1>7. Loop!Next <=> LoopFacts!Next
    <2>1. Loop!BuildFixed <=> LoopFacts!BuildFixed
        BY <1>2, <1>3, <1>4 DEF Loop!BuildFixed, LoopFacts!BuildFixed
    <2>2. Loop!Iterate <=> LoopFacts!Iterate
        BY <1>2, <1>3, <1>4, <1>5 DEF Loop!Iterate, LoopFacts!Iterate
    <2>3. Loop!Refuse <=> LoopFacts!Refuse
        BY <1>3 DEF Loop!Refuse, LoopFacts!Refuse
    <2>4. Loop!Pick <=> LoopFacts!Pick
        BY <1>6 DEF Loop!Pick, LoopFacts!Pick
    <2> QED BY <2>1, <2>2, <2>3, <2>4 DEF Loop!Next, LoopFacts!Next
<1>8. UNCHANGED Loop!vars <=> UNCHANGED LoopFacts!vars
    BY DEF Loop!vars, LoopFacts!vars
<1>9. LoopFacts!TypeOK <=> Loop!TypeOK
    BY DEF LoopFacts!TypeOK, Loop!TypeOK, LoopFacts!Candidate, Loop!Candidate
<1>10. LoopFacts!RatePaid <=> Loop!RatePaid
    BY <1>5 DEF Loop!RatePaid, LoopFacts!RatePaid
<1>11. LoopFacts!Conservation <=> Loop!Conservation
    BY DEF Loop!Conservation, LoopFacts!Conservation
<1> QED BY <1>1, <1>7, <1>8, <1>9, <1>10, <1>11

\* Lengths are natural numbers, and no witness is empty but that of p2sh.
LEMMA LengthTypes ==
    ASSUME NEW c \in Calls, c.valid, NEW sig \in Nat
    PROVE  /\ WitnessLen(c, sig) \in Nat
           /\ c.form # "p2sh" => WitnessLen(c, sig) > 0
           /\ ScriptSigLen(c) \in Nat
<1>1. c \in Call /\ c.m <= c.n BY CallsAssumption
<1>2. c.n \in Nat /\ c.m \in Nat /\ c.form \in {"p2sh", "p2wsh", "p2tr"} BY <1>1 DEF Call
<1>3. MS_SIG_SIZE_ESTIMATE \in Nat BY SigSizesAssumption
<1>4. \A k \in Nat : CompactSize(k) \in Nat /\ CompactSize(k) > 0 /\ WithLength(k) \in Nat
                     /\ PushDataLen(k) \in Nat
    BY DEF CompactSize, WithLength, PushDataLen
<1>5. RedeemLen(c) \in Nat BY <1>2 DEF RedeemLen
<1>6. \A k, l \in Nat : k * l \in Nat OBVIOUS
<1>7. c.m * WithLength(sig) \in Nat /\ c.m * (1 + MS_SIG_SIZE_ESTIMATE) \in Nat
    <2>1. WithLength(sig) \in Nat /\ 1 + MS_SIG_SIZE_ESTIMATE \in Nat BY <1>3, <1>4
    <2> QED BY <1>2, <1>6, <2>1
<1>8. ScriptSigLen(c) \in Nat
    <2>1. PushDataLen(RedeemLen(c)) \in Nat BY <1>4, <1>5
    <2> QED BY <1>7, <2>1 DEF ScriptSigLen
<1>9. WithLength(RedeemLen(c)) \in Nat /\ WithLength(33) \in Nat
      /\ CompactSize(c.m + 2) > 0 /\ CompactSize(c.n + 2) > 0
      /\ CompactSize(c.m + 2) \in Nat /\ CompactSize(c.n + 2) \in Nat
    BY <1>2, <1>4, <1>5
<1>10. CASE c.form = "p2sh" BY <1>8, <1>10 DEF WitnessLen
<1>11. CASE c.form = "p2wsh"
    <2>1. WitnessLen(c, sig) = CompactSize(c.m + 2) + 1 + c.m * WithLength(sig)
                                 + WithLength(RedeemLen(c))
        BY <1>11 DEF WitnessLen
    <2> QED BY <1>7, <1>8, <1>9, <2>1
<1>12. CASE c.form = "p2tr"
    <2>1. WitnessLen(c, sig) = CompactSize(c.n + 2) + c.m * WithLength(sig) + (c.n - c.m)
                                 + WithLength(RedeemLen(c)) + WithLength(33)
        BY <1>12 DEF WitnessLen
    <2>2. c.n - c.m \in Nat BY <1>1, <1>2
    <2> QED BY <1>7, <1>8, <1>9, <2>1, <2>2
<1> QED BY <1>2, <1>10, <1>11, <1>12

\* A longer signature does not make a shorter witness.
LEMMA WitnessMonotone ==
    ASSUME NEW c \in Calls, NEW low \in Nat, NEW high \in Nat, low <= high
    PROVE  WitnessLen(c, low) <= WitnessLen(c, high)
<1>1. c.n \in Nat /\ c.m \in Nat /\ c.form \in {"p2sh", "p2wsh", "p2tr"}
    BY CallsAssumption DEF Call
<1>2. /\ WithLength(low) \in Nat /\ WithLength(high) \in Nat
      /\ WithLength(low) <= WithLength(high)
    BY DEF WithLength, CompactSize
<1>3. /\ c.m * WithLength(low) \in Nat /\ c.m * WithLength(high) \in Nat
      /\ c.m * WithLength(low) <= c.m * WithLength(high)
    <2> DEFINE a == WithLength(low)
               b == WithLength(high)
    <2>1. a \in Nat /\ b \in Nat /\ a <= b BY <1>2
    <2> HIDE DEF a, b
    <2>2. PICK d \in Nat : b = a + d
        <3>1. b - a \in Nat /\ b = a + (b - a) BY <2>1
        <3> QED BY <3>1
    <2>3. c.m * b = c.m * a + c.m * d BY <1>1, <2>1, <2>2
    <2>4. c.m * a \in Nat /\ c.m * b \in Nat /\ c.m * d \in Nat BY <1>1, <2>1, <2>2
    <2>5. c.m * a <= c.m * b BY <2>3, <2>4
    <2> QED BY <2>4, <2>5 DEF a, b
<1>4. \A k \in Nat : CompactSize(k) \in Nat /\ WithLength(k) \in Nat
    BY DEF CompactSize, WithLength
<1>5. RedeemLen(c) \in Nat BY <1>1 DEF RedeemLen
<1>6. WithLength(RedeemLen(c)) \in Nat /\ WithLength(33) \in Nat
      /\ CompactSize(c.m + 2) \in Nat /\ CompactSize(c.n + 2) \in Nat
    BY <1>1, <1>4, <1>5
<1>7. CASE c.form = "p2sh" BY <1>7 DEF WitnessLen
<1>8. CASE c.form = "p2wsh"
    <2>1. \A sig : WitnessLen(c, sig) = CompactSize(c.m + 2) + 1 + c.m * WithLength(sig)
                                        + WithLength(RedeemLen(c))
        BY <1>8 DEF WitnessLen
    <2> QED BY <1>3, <1>6, <2>1
<1>9. CASE c.form = "p2tr"
    <2>1. \A sig : WitnessLen(c, sig) = CompactSize(c.n + 2) + c.m * WithLength(sig)
                          + (c.n - c.m) + WithLength(RedeemLen(c)) + WithLength(33)
        BY <1>9 DEF WitnessLen
    <2> QED BY <1>1, <1>3, <1>6, <2>1
<1> QED BY <1>1, <1>7, <1>8, <1>9

\* The estimate the witness of a form is sized with.
Estimate(c) == IF c.form = "p2tr" THEN MS_SIG_SIZE_ESTIMATE_TAP ELSE MS_SIG_SIZE_ESTIMATE

\* Bytes more in a witness are not bytes less in a transaction.
LEMMA VirtualSizeMonotone ==
    ASSUME NEW c \in Call, NEW inputs \in Nat, NEW outputs \in 1 .. 2, NEW script_sig \in Nat,
           NEW low \in Nat, NEW high \in Nat, low <= high, high = 0 \/ low > 0
    PROVE  /\ VirtualSize(c, inputs, outputs, script_sig, low) \in Nat
           /\ VirtualSize(c, inputs, outputs, script_sig, low)
                <= VirtualSize(c, inputs, outputs, script_sig, high)
<1> DEFINE out == 8 + WithLength(c.dst)
                    + (IF outputs = 2 THEN 8 + WithLength(QuorumScriptLen(c)) ELSE 0)
           each == 32 + 4 + WithLength(script_sig) + 4
           stripped == 4 + CompactSize(inputs) + inputs * each + CompactSize(outputs) + out + 4
           wire(w) == stripped + (IF w = 0 THEN 0 ELSE 2 + inputs * w)
<1>1. \A k \in Nat : CompactSize(k) \in Nat /\ WithLength(k) \in Nat
    BY DEF CompactSize, WithLength
<1>2. c.dst \in Nat BY DEF Call
<1>3. QuorumScriptLen(c) \in Nat BY DEF QuorumScriptLen
<1>4. out \in Nat BY <1>1, <1>2, <1>3
<1>5. each \in Nat BY <1>1
<1>6. \A k, l \in Nat : k * l \in Nat OBVIOUS
<1> HIDE DEF out, each
<1>7. inputs * each \in Nat /\ inputs * low \in Nat /\ inputs * high \in Nat BY <1>5, <1>6
<1>8. stripped \in Nat BY <1>1, <1>4, <1>7
<1>9. inputs * low <= inputs * high
    <2>1. PICK d \in Nat : high = low + d
        <3>1. high - low \in Nat /\ high = low + (high - low) OBVIOUS
        <3> QED BY <3>1
    <2>2. inputs * high = inputs * low + inputs * d BY <2>1
    <2>3. inputs * d \in Nat BY <1>6
    <2> QED BY <1>7, <2>2, <2>3
<1> HIDE DEF stripped
<1>10. wire(low) \in Nat /\ wire(high) \in Nat /\ wire(low) <= wire(high)
    BY <1>7, <1>8, <1>9
<1>11. \A w : VirtualSize(c, inputs, outputs, script_sig, w) = (3 * stripped + wire(w) + 3) \div 4
    BY DEF VirtualSize, stripped, each, out
<1> HIDE DEF wire
<1>12. \A x, y \in Nat : x <= y => x \div 4 <= y \div 4 /\ x \div 4 \in Nat OBVIOUS
<1> DEFINE a == 3 * stripped + wire(low) + 3
           b == 3 * stripped + wire(high) + 3
<1>13. a \in Nat /\ b \in Nat /\ a <= b BY <1>8, <1>10
<1>14. /\ VirtualSize(c, inputs, outputs, script_sig, low) = a \div 4
       /\ VirtualSize(c, inputs, outputs, script_sig, high) = b \div 4
    BY <1>11
<1> HIDE DEF a, b
<1> QED BY <1>12, <1>13, <1>14

\* A sized spend has a size.
LEMMA SizedType ==
    ASSUME NEW c \in Calls, c.valid, NEW inputs \in Nat, NEW outputs \in 1 .. 2
    PROVE  SizedVSize(c, inputs, outputs) \in Nat
<1>1. c \in Call BY CallsAssumption
<1>2. ScriptSigLen(c) \in Nat /\ SizedWitnessLen(c) \in Nat
    <2>1. Estimate(c) \in Nat BY SigSizesAssumption DEF Estimate
    <2>2. SizedWitnessLen(c) = WitnessLen(c, Estimate(c)) BY DEF SizedWitnessLen, Estimate
    <2> QED BY <2>1, <2>2, LengthTypes
<1> DEFINE s == ScriptSigLen(c)
           w == SizedWitnessLen(c)
<1>3. s \in Nat /\ w \in Nat /\ w <= w /\ (w = 0 \/ w > 0) BY <1>2
<1>4. SizedVSize(c, inputs, outputs) = VirtualSize(c, inputs, outputs, s, w) BY DEF SizedVSize
<1> HIDE DEF s, w
<1>5. VirtualSize(c, inputs, outputs, s, w) \in Nat BY <1>1, <1>3, VirtualSizeMonotone
<1> QED BY <1>4, <1>5

\* What the fee loop is told meets what it assumes.
LEMMA LoopAssumptions ==
    /\ Drain \notin Nat /\ MIN_RELAY_TX_FEE \in Nat
    /\ AllRequests \subseteq [in_amount : Nat, amount : Nat \cup {Drain},
                              fee : Nat, feekb : Nat, dst_ok : BOOLEAN]
    /\ AllSizes \in [1..2 -> SUBSET Nat]
<1>1. Drain \notin Nat /\ MIN_RELAY_TX_FEE \in Nat BY AmountsAssumption
<1>2. AllRequests \subseteq [in_amount : Nat, amount : Nat \cup {Drain},
                              fee : Nat, feekb : Nat, dst_ok : BOOLEAN]
    BY RequestFields DEF AllRequests
<1>3. AllSizes \in [1..2 -> SUBSET Nat]
    <2> DEFINE sizes(outputs) == {SizedVSize(c, inputs, outputs) :
                  c \in {d \in Calls : d.valid}, inputs \in 0..MaxInputs}
    <2>1. 0 .. MaxInputs \subseteq Nat BY AnswersAssumption
    <2>2. \A outputs \in 1 .. 2 : sizes(outputs) \in SUBSET Nat BY <2>1, SizedType
    <2>3. AllSizes = [outputs \in 1 .. 2 |-> sizes(outputs)] BY DEF AllSizes
    <2> HIDE DEF sizes
    <2> QED BY <2>2, <2>3
<1> QED BY <1>1, <1>2, <1>3

----------------------------------------------------------------------------
(* The inductive invariant *)

\* A candidate was billed for the sized spend with its number of outputs.
Sized(c) == c.size = SizedVSize(call, Inputs, IF c.cashback = 0 THEN 1 ELSE 2)

MInv ==
    /\ call \in Calls /\ unspent \in Answers
    /\ phase \in {"validate", "query", "fee", "prevs", "done", "failed"}
    /\ phase \notin {"validate", "failed"} => call.valid
    /\ fetched \in 0..Inputs
    /\ call.fee > 0 => pc \in {"fixed", "done", "raised"}
    /\ phase \in {"prevs", "done"} => pc = "done"
    /\ \A i \in DOMAIN by_size : Sized(by_size[i])
    /\ pc = "done" => Sized(result)
    /\ RefusalIsFinal

\* The fields of the request while nothing of the call changes.
LEMMA InvRequest ==
    ASSUME MInv
    PROVE  /\ call \in Call /\ unspent \in Seq(Output) /\ Inputs \in Nat
           /\ Request(call, unspent) \in [in_amount : Nat, amount : Nat \cup {Drain},
                                          fee : Nat, feekb : Nat, dst_ok : BOOLEAN]
           /\ Request(call, unspent).in_amount = Sum(Selected(call, unspent))
           /\ Request(call, unspent).amount = call.amount
           /\ Request(call, unspent).fee = call.fee
           /\ Request(call, unspent).feekb = call.feekb
           /\ Request(call, unspent).dst_ok = (call.dst # 0)
           /\ call.amount \in Nat /\ call.fee \in Nat /\ call.feekb \in Nat
           /\ call.amount # Drain
<1>1. call \in Calls /\ unspent \in Answers BY DEF MInv
<1>2. call \in Call /\ unspent \in Seq(Output) BY <1>1, CallsAssumption, AnswersAssumption
<1>3. Selected(call, unspent) \in Seq(Output) BY <1>2, SelectedPrefix
<1>4. Inputs \in Nat BY <1>3 DEF Inputs
<1>5. call.amount \in Nat /\ call.fee \in Nat /\ call.feekb \in Nat /\ call.amount # Drain
    BY <1>2, AmountsAssumption DEF Call
<1> QED BY <1>1, <1>2, <1>4, <1>5, RequestFields

\* Steps that change neither the call nor the answer leave what was computed
\* from them.
LEMMA SameCall ==
    UNCHANGED <<call, unspent>> =>
        /\ Inputs' = Inputs /\ Request(call, unspent)' = Request(call, unspent)
        /\ Affordable(call, unspent)' = Affordable(call, unspent)
        /\ \A c : Sized(c)' <=> Sized(c)
BY DEF Inputs, Request, Affordable, Sized

\* A build of the loop has its size.
LEMMA BuildSized ==
    ASSUME MInv, NEW fee \in Nat, NEW size, size = SizeOfBuild(fee), ~Loop!MakeVoutRaises(fee)
    PROVE  Sized(Loop!MakeVout(fee, size))
<1> DEFINE req == Request(call, unspent)
           c == Loop!MakeVout(fee, size)
<1>1. /\ req.in_amount \in Nat /\ req.amount \in Nat /\ req.amount # Drain
    BY InvRequest
<1>2. ~(req.amount + fee > req.in_amount) BY <1>1 DEF Loop!MakeVoutRaises
<1>3. Loop!OneOutput(fee) <=> req.amount + fee = req.in_amount BY <1>1 DEF Loop!OneOutput
<1>4. c.size = size /\ c.cashback = IF Loop!OneOutput(fee) THEN 0
                                    ELSE req.in_amount - req.amount - fee
    BY DEF Loop!MakeVout
<1> HIDE DEF req, c
<1>5. c.cashback = 0 <=> Loop!OneOutput(fee) BY <1>1, <1>2, <1>3, <1>4
<1>6. size = SizedVSize(call, Inputs, IF Loop!OneOutput(fee) THEN 1 ELSE 2)
    BY DEF SizeOfBuild, Loop!NumOutputs
<1>7. Sized(c) BY <1>4, <1>5, <1>6 DEF Sized
<1> QED BY <1>7 DEF c

\* A call starts in the invariant.
LEMMA InitMInv == Init => MInv
<1> SUFFICES ASSUME Init PROVE MInv OBVIOUS
<1>1. call \in Calls /\ unspent \in Answers BY DEF Init
<1>2. call \in Call /\ unspent \in Seq(Output) BY <1>1, CallsAssumption, AnswersAssumption
<1>3. Inputs \in Nat BY <1>2, SelectedPrefix DEF Inputs
<1>4. call.fee > 0 => pc = "fixed" BY DEF Init
<1>5. pc \notin {"done", "raised"} BY DEF Init
<1>6. 0 \in 0 .. Inputs BY <1>3
<1> QED BY <1>1, <1>4, <1>5, <1>6 DEF Init, MInv, RefusalIsFinal

\* Outside the loop nothing of the loop changes.
LEMMA QuietMInv ==
    MInv /\ (Validate \/ Query \/ FetchPrev \/ CreateAndSign \/ UNCHANGED vars) => MInv'
<1> SUFFICES ASSUME MInv, Validate \/ Query \/ FetchPrev \/ CreateAndSign \/ UNCHANGED vars
             PROVE  MInv'
    OBVIOUS
<1>1. UNCHANGED <<call, unspent, pc, current_fee, by_size, seen_sizes, result>>
    BY DEF Validate, Query, FetchPrev, CreateAndSign, vars, loopVars
<1>2. /\ Inputs' = Inputs /\ Affordable(call, unspent)' = Affordable(call, unspent)
      /\ \A c : Sized(c)' <=> Sized(c)
    BY <1>1, SameCall
<1>3. /\ phase' \in {"validate", "query", "fee", "prevs", "done", "failed"}
      /\ phase' \notin {"validate", "failed"} => call.valid
      /\ phase' \in {"prevs", "done"} => pc = "done"
    BY DEF MInv, Validate, Query, FetchPrev, CreateAndSign, vars
<1>4. fetched' \in 0..Inputs
    <2>1. Inputs \in Nat /\ fetched \in 0..Inputs BY InvRequest DEF MInv
    <2>2. CASE FetchPrev
        <3>1. fetched < Inputs /\ (fetched' = fetched + 1 \/ fetched' = fetched)
            BY <2>2 DEF FetchPrev, NeedsPrev
        <3> QED BY <2>1, <3>1
    <2>3. CASE ~FetchPrev
        <3>1. fetched' = fetched BY <2>3 DEF Validate, Query, CreateAndSign, vars
        <3> QED BY <2>1, <3>1
    <2> QED BY <2>2, <2>3
<1>5. (\A i \in DOMAIN by_size : Sized(by_size[i]))' /\ (pc = "done" => Sized(result))'
    <2>1. \A i \in DOMAIN by_size : by_size[i].size =
                SizedVSize(call, Inputs, IF by_size[i].cashback = 0 THEN 1 ELSE 2)
        BY DEF MInv, Sized
    <2>2. pc = "done" => result.size =
                SizedVSize(call, Inputs, IF result.cashback = 0 THEN 1 ELSE 2)
        BY DEF MInv, Sized
    <2> QED BY <1>1, <1>2, <2>1, <2>2 DEF Sized
<1>6. RefusalIsFinal' BY <1>1 DEF MInv, RefusalIsFinal
<1> QED BY <1>1, <1>2, <1>3, <1>4, <1>5, <1>6 DEF MInv

\* A build of the loop is that of a sized spend, and none has been refused.
LEMMA IterateMInv == MInv /\ Loop!TypeOK /\ Iterate => MInv'
<1> SUFFICES ASSUME MInv, Loop!TypeOK, Iterate PROVE MInv' OBVIOUS
<1>1. /\ phase = "fee" /\ UNCHANGED <<call, unspent, fetched, phase>> /\ Loop!Iterate
      /\ by_size'[Len(by_size')].size = SizeOfBuild(current_fee)
    BY DEF Iterate
<1>2. PICK size \in Loop!VSize(current_fee) :
        /\ by_size' = Append(by_size, Loop!MakeVout(current_fee, size))
        /\ pc' \in {"pick", pc}
    BY <1>1 DEF Loop!Iterate
<1>3. pc = "loop" /\ ~Loop!MakeVoutRaises(current_fee) /\ UNCHANGED result
    BY <1>1 DEF Loop!Iterate
<1>4. by_size \in Seq(Loop!Candidate) /\ current_fee \in Nat BY DEF Loop!TypeOK
<1> DEFINE new == Loop!MakeVout(current_fee, size)
<1>5. new.size = size BY DEF Loop!MakeVout
<1> HIDE DEF new
<1>6. /\ DOMAIN by_size' = 1 .. Len(by_size) + 1 /\ DOMAIN by_size = 1 .. Len(by_size)
      /\ Len(by_size') = Len(by_size) + 1 /\ Len(by_size) \in Nat
      /\ by_size'[Len(by_size) + 1] = new
      /\ \A i \in 1 .. Len(by_size) : by_size'[i] = by_size[i]
    BY <1>2, <1>4 DEF new
<1>7. size = SizeOfBuild(current_fee) BY <1>1, <1>5, <1>6
<1>8. Sized(new) BY <1>3, <1>4, <1>7, BuildSized DEF new
<1>9. \A i \in DOMAIN by_size' : Sized(by_size'[i]) BY <1>6, <1>8 DEF MInv
<1>10. /\ Inputs' = Inputs /\ \A c : Sized(c)' <=> Sized(c) BY <1>1, SameCall
<1>11. (\A i \in DOMAIN by_size : Sized(by_size[i]))'
    <2>1. \A i \in DOMAIN by_size' : SizedVSize(call, Inputs, IF by_size'[i].cashback = 0 THEN 1 ELSE 2)
              = by_size'[i].size
        BY <1>9 DEF Sized
    <2> QED BY <1>1, <1>10, <2>1 DEF Sized
<1>12. pc' \notin {"done", "raised"} /\ ~(call.fee > 0) BY <1>2, <1>3 DEF MInv
<1> QED BY <1>1, <1>10, <1>11, <1>12 DEF MInv, RefusalIsFinal

\* A build with the fee given is that of a sized spend.
LEMMA BuildFixedMInv == MInv /\ BuildFixed => MInv'
<1> SUFFICES ASSUME MInv, BuildFixed PROVE MInv' OBVIOUS
<1>1. /\ phase = "fee" /\ phase' = "prevs" /\ UNCHANGED <<call, unspent, fetched>>
      /\ Loop!BuildFixed /\ result'.size = SizeOfBuild(call.fee)
    BY DEF BuildFixed
<1>2. Request(call, unspent).fee = call.fee /\ call.fee \in Nat BY InvRequest
<1>3. /\ pc' = "done" /\ UNCHANGED by_size /\ ~Loop!MakeVoutRaises(call.fee)
      /\ \E size \in Loop!VSize(call.fee) : result' = Loop!MakeVout(call.fee, size)
    BY <1>1, <1>2 DEF Loop!BuildFixed
<1>4. PICK size : result' = Loop!MakeVout(call.fee, size) BY <1>3
<1>5. size = SizeOfBuild(call.fee) BY <1>1, <1>4 DEF Loop!MakeVout
<1>6. Sized(result') BY <1>2, <1>3, <1>4, <1>5, BuildSized
<1>7. /\ Inputs' = Inputs /\ \A c : Sized(c)' <=> Sized(c) BY <1>1, SameCall
<1>8. Sized(result)' BY <1>1, <1>6, <1>7 DEF Sized
<1>9. (\A i \in DOMAIN by_size : Sized(by_size[i]))'
    <2>1. \A i \in DOMAIN by_size : by_size[i].size =
                SizedVSize(call, Inputs, IF by_size[i].cashback = 0 THEN 1 ELSE 2)
        BY DEF MInv, Sized
    <2> QED BY <1>1, <1>3, <1>7, <2>1 DEF Sized
<1> QED BY <1>1, <1>3, <1>7, <1>8, <1>9 DEF MInv, RefusalIsFinal

\* Picking the result leaves what was built.
LEMMA PickMInv == MInv /\ Pick => MInv'
<1> SUFFICES ASSUME MInv, Pick PROVE MInv' OBVIOUS
<1>1. /\ phase = "fee" /\ phase' = "prevs" /\ UNCHANGED <<call, unspent, fetched>> /\ Loop!Pick
    BY DEF Pick
<1>2. PICK i \in DOMAIN by_size : result' = by_size[i] BY <1>1 DEF Loop!Pick
<1>3. pc' = "done" /\ UNCHANGED by_size BY <1>1 DEF Loop!Pick
<1>4. Sized(result') BY <1>2 DEF MInv
<1>5. /\ Inputs' = Inputs /\ \A c : Sized(c)' <=> Sized(c) BY <1>1, SameCall
<1>6. Sized(result)' BY <1>1, <1>4, <1>5 DEF Sized
<1>7. (\A j \in DOMAIN by_size : Sized(by_size[j]))'
    <2>1. \A j \in DOMAIN by_size : by_size[j].size =
                SizedVSize(call, Inputs, IF by_size[j].cashback = 0 THEN 1 ELSE 2)
        BY DEF MInv, Sized
    <2> QED BY <1>1, <1>3, <1>5, <2>1 DEF Sized
<1> QED BY <1>1, <1>3, <1>5, <1>6, <1>7 DEF MInv, RefusalIsFinal

\* With the fee given the loop refuses in its only build, and only when the
\* selected prefix falls short: then it was all there is.
LEMMA RefuseMInv == MInv /\ Refuse => MInv'
<1> SUFFICES ASSUME MInv, Refuse PROVE MInv' OBVIOUS
<1>1. /\ phase = "fee" /\ phase' = "failed" /\ UNCHANGED <<call, unspent, fetched>>
      /\ Loop!Refuse
    BY DEF Refuse
<1>2. /\ pc' = "raised" /\ UNCHANGED <<by_size, result>>
      /\ (pc = "fixed" /\ Loop!MakeVoutRaises(Request(call, unspent).fee)) \/ pc = "loop"
    BY <1>1 DEF Loop!Refuse
<1>3. /\ Inputs' = Inputs /\ (\A c : Sized(c)' <=> Sized(c))
      /\ Affordable(call, unspent)' = Affordable(call, unspent)
    BY <1>1, SameCall
<1>4. (\A j \in DOMAIN by_size : Sized(by_size[j]))'
    <2>1. \A j \in DOMAIN by_size : by_size[j].size =
                SizedVSize(call, Inputs, IF by_size[j].cashback = 0 THEN 1 ELSE 2)
        BY DEF MInv, Sized
    <2> QED BY <1>1, <1>2, <1>3, <2>1 DEF Sized
<1>5. ASSUME call.fee > 0, call.dst # 0
      PROVE  Sum(Affordable(call, unspent)) < call.amount + call.fee
    <2> DEFINE req == Request(call, unspent)
               sum == Sum(Selected(call, unspent))
    <2>1. /\ req.in_amount = sum /\ req.amount = call.amount /\ req.fee = call.fee /\ req.dst_ok
          /\ call.amount \in Nat /\ call.fee \in Nat /\ call \in Call /\ unspent \in Seq(Output)
        BY <1>5, InvRequest
    <2>2. pc = "fixed" BY <1>2, <1>5 DEF MInv
    <2>3. Loop!MakeVoutRaises(req.fee) BY <1>2, <2>2
    <2>4. req.in_amount < req.fee \/ req.amount + req.fee > req.in_amount
        BY <2>1, <2>3 DEF Loop!MakeVoutRaises
    <2>5. Selected(call, unspent) \in Seq(Output) BY <2>1, SelectedPrefix
    <2>6. sum \in Nat BY <2>5, SumIsAmount
    <2> HIDE DEF req, sum
    <2>7. sum < call.amount + call.fee BY <2>1, <2>4, <2>6
    <2>8. ~(sum >= Target(call)) BY <2>1, <2>6, <2>7 DEF Target
    <2>9. Selected(call, unspent) = Affordable(call, unspent)
        BY <2>1, <2>8, SelectedPrefix DEF sum
    <2> QED BY <2>7, <2>9 DEF sum
<1>6. RefusalIsFinal' BY <1>1, <1>5 DEF RefusalIsFinal
<1> QED BY <1>1, <1>2, <1>3, <1>4, <1>6 DEF MInv

\* Every step keeps the invariant.
LEMMA StepMInv == MInv /\ Loop!TypeOK /\ [Next]_vars => MInv'
BY QuietMInv, IterateMInv, BuildFixedMInv, PickMInv, RefuseMInv DEF Next

\* The signatures of a cosigner weigh no more than the estimate.
LEMMA FinalWithinSized ==
    ASSUME NEW c \in Calls, c.valid, c.form # "p2sh", NEW inputs \in Nat,
           NEW outputs \in 1 .. 2, NEW sig \in RealSigSizes[c.form]
    PROVE  /\ FinalVSize(c, inputs, outputs, sig) \in Nat
           /\ SizedVSize(c, inputs, outputs) \in Nat
           /\ FinalVSize(c, inputs, outputs, sig) <= SizedVSize(c, inputs, outputs)
<1>1. c \in Call /\ c.form \in {"p2wsh", "p2tr"} BY CallsAssumption DEF Call
<1>2. sig \in Nat /\ Estimate(c) \in Nat /\ sig <= Estimate(c)
    BY <1>1, SigSizesAssumption DEF Estimate
<1> DEFINE low == WitnessLen(c, sig)
           high == WitnessLen(c, Estimate(c))
<1>3. low \in Nat /\ low > 0 /\ high \in Nat /\ high > 0 /\ low <= high
    BY <1>2, LengthTypes, WitnessMonotone
<1>4. ScriptSigLen(c) = 0 /\ FinalScriptSigLen(c, sig) = 0
    BY DEF ScriptSigLen, FinalScriptSigLen
<1>5. SizedWitnessLen(c) = high BY DEF SizedWitnessLen, Estimate
<1>6. FinalVSize(c, inputs, outputs, sig) = VirtualSize(c, inputs, outputs, 0, low)
    BY <1>4 DEF FinalVSize
<1>7. SizedVSize(c, inputs, outputs) = VirtualSize(c, inputs, outputs, 0, high)
    BY <1>4, <1>5 DEF SizedVSize
<1> HIDE DEF low, high
<1>8. /\ VirtualSize(c, inputs, outputs, 0, low) \in Nat
      /\ VirtualSize(c, inputs, outputs, 0, low) <= VirtualSize(c, inputs, outputs, 0, high)
    BY <1>1, <1>3, VirtualSizeMonotone
<1>9. VirtualSize(c, inputs, outputs, 0, high) \in Nat
    <2>1. high <= high BY <1>3
    <2> QED BY <1>1, <1>3, <2>1, VirtualSizeMonotone
<1> QED BY <1>6, <1>7, <1>8, <1>9

\* A larger size does not ask for a smaller fee.
LEMMA FeeGrowsWithSize ==
    ASSUME NEW low \in Nat, NEW high \in Nat, low <= high, NEW rate \in Nat
    PROVE  /\ Loop!FeeAt(low, rate) \in Nat /\ Loop!FeeAt(high, rate) \in Nat
           /\ Loop!FeeAt(low, rate) <= Loop!FeeAt(high, rate)
<1>1. PICK d \in Nat : high = low + d
    <2>1. high - low \in Nat /\ high = low + (high - low) OBVIOUS
    <2> QED BY <2>1
<1> DEFINE a == low * rate
           b == high * rate
<1>2. a \in Nat /\ b \in Nat /\ d * rate \in Nat OBVIOUS
<1>3. b = a + d * rate BY <1>1
<1>4. Loop!FeeAt(low, rate) = a \div 1000 /\ Loop!FeeAt(high, rate) = b \div 1000
    BY DEF Loop!FeeAt
<1> HIDE DEF a, b
<1>5. a <= b BY <1>2, <1>3
<1>6. \A x, y \in Nat : x <= y => x \div 1000 <= y \div 1000 /\ x \div 1000 \in Nat
                                  /\ y \div 1000 \in Nat
    OBVIOUS
<1> QED BY <1>2, <1>4, <1>5, <1>6

----------------------------------------------------------------------------
(* The refinement *)

\* The loop starts on a request it knows, in the mode the fee selects.
LEMMA InitRefines == Init => Loop!Init
<1> SUFFICES ASSUME Init PROVE Loop!Init OBVIOUS
<1>1. call \in Calls /\ unspent \in Answers BY DEF Init
<1>2. Request(call, unspent) \in AllRequests BY <1>1 DEF AllRequests
<1>3. call.fee \in Nat BY <1>1, CallsAssumption DEF Call
<1>4. Request(call, unspent).fee = call.fee BY DEF Request
<1>5. pc = IF Request(call, unspent).fee # 0 THEN "fixed" ELSE "loop"
    BY <1>3, <1>4 DEF Init
<1>6. /\ current_fee = 0 /\ by_size = <<>> /\ seen_sizes = {}
      /\ result = Loop!NoResult
    BY DEF Init
<1> QED BY <1>2, <1>5, <1>6 DEF Loop!Init

\* Every step of ms_create_psbt is a step of the loop or one it does not see.
LEMMA StepRefines == [Next]_vars => [Loop!Next]_(Loop!vars)
<1> SUFFICES ASSUME [Next]_vars PROVE [Loop!Next]_(Loop!vars) OBVIOUS
<1>1. CASE Iterate BY <1>1 DEF Iterate, Loop!Next
<1>2. CASE BuildFixed BY <1>2 DEF BuildFixed, Loop!Next
<1>3. CASE Pick BY <1>3 DEF Pick, Loop!Next
<1>4. CASE Refuse BY <1>4 DEF Refuse, Loop!Next
<1>5. CASE Validate \/ Query \/ FetchPrev \/ CreateAndSign \/ UNCHANGED vars
  <2>1. UNCHANGED <<call, unspent, loopVars>>
      BY <1>5 DEF Validate, Query, FetchPrev, CreateAndSign, vars
  <2>2. Request(call, unspent)' = Request(call, unspent) BY <2>1
  <2>3. UNCHANGED Loop!vars BY <2>1, <2>2 DEF loopVars, Loop!vars
  <2> QED BY <2>3
<1> QED BY <1>1, <1>2, <1>3, <1>4, <1>5 DEF Next

\* Seen from its request, ms_create_psbt behaves as the fee loop of
\* make_transaction: what that loop may not do, the multisig spend does not.
THEOREM ImplementsFeeLoop == Spec => FeeLoopSpec
<1>1. Init => Loop!Init BY InitRefines
<1>2. [Next]_vars => [Loop!Next]_(Loop!vars) BY StepRefines
<1> QED BY <1>1, <1>2, PTL DEF Spec, FeeLoopSpec, Loop!Spec

----------------------------------------------------------------------------
(* What holds of every call *)

\* The fee loop of ms_create_psbt keeps what the proofs of FeeLoop say of it.
LEMMA LoopKeeps == Spec => [](Loop!TypeOK /\ Loop!RatePaid /\ Loop!Conservation)
<1>1. LoopFacts!Spec => []LoopFacts!TypeOK BY LoopAssumptions, LoopFacts!TypeCorrect
<1>2. LoopFacts!Spec => []LoopFacts!RatePaid BY LoopAssumptions, LoopFacts!RatePaidHolds
<1>3. LoopFacts!Spec => []LoopFacts!Conservation BY LoopAssumptions, LoopFacts!ConservationHolds
<1>4. Init => LoopFacts!Init BY InitRefines, LoopIsFeeLoop
<1>5. [Next]_vars => [LoopFacts!Next]_(LoopFacts!vars) BY StepRefines, LoopIsFeeLoop
<1>6. LoopFacts!TypeOK /\ LoopFacts!RatePaid /\ LoopFacts!Conservation
        => Loop!TypeOK /\ Loop!RatePaid /\ Loop!Conservation
    BY LoopIsFeeLoop
<1> QED BY <1>1, <1>2, <1>3, <1>4, <1>5, <1>6, PTL DEF Spec, LoopFacts!Spec

\* The invariant holds along every behaviour.
LEMMA MsSendInvariance == Spec => [](MInv /\ Loop!TypeOK /\ Loop!RatePaid)
BY LoopKeeps, InitMInv, StepMInv, PTL DEF Spec

\* A call keeps its variables in their types, and requests no previous
\* transaction twice or for nothing.
THEOREM SendTypeCorrect == Spec => []TypeOK
<1>1. MInv /\ Loop!TypeOK => TypeOK BY DEF MInv, TypeOK, Loop!TypeOK
<1> QED BY <1>1, MsSendInvariance, PTL

\* Nothing is created or lost between the selected outputs and the outputs of
\* the spend, for multisig as for single keys.
THEOREM SendConserves == Spec => []Loop!Conservation
BY LoopKeeps, PTL

\* The fee loop of a multisig send ends after three builds at the latest: the
\* cosigners have not signed yet, ms_create_psbt sizes each candidate with an
\* estimate of their signatures, and so one or two outputs have one size each.
THEOREM SendLoopBounded == Spec => [](Len(by_size) <= 3)
<1>1. ASSUME MInv, Loop!TypeOK, LoopFacts!OneBuildPerSize
      PROVE  Len(by_size) <= 3
    <2> DEFINE one == SizedVSize(call, Inputs, 1)
               two == SizedVSize(call, Inputs, 2)
    <2>1. \A i \in DOMAIN by_size : by_size[i].size \in {one, two} BY <1>1 DEF MInv, Sized
    <2> HIDE DEF one, two
    <2> QED BY <1>1, <2>1, LoopAssumptions, LoopIsFeeLoop, LoopFacts!PairBounds
<1>2. LoopFacts!Spec => []LoopFacts!OneBuildPerSize
    BY LoopAssumptions, LoopFacts!OneBuildPerSizeHolds
<1>3. Init => LoopFacts!Init BY InitRefines, LoopIsFeeLoop
<1>4. [Next]_vars => [LoopFacts!Next]_(LoopFacts!vars) BY StepRefines, LoopIsFeeLoop
<1> QED BY <1>1, <1>2, <1>3, <1>4, MsSendInvariance, PTL DEF Spec, LoopFacts!Spec

\* A refusal with an explicit fee is final: the prefix that ms_select_utxos
\* took was all there is.
THEOREM RefusalIsFinalHolds == Spec => []RefusalIsFinal
<1>1. MInv => RefusalIsFinal BY DEF MInv
<1> QED BY <1>1, MsSendInvariance, PTL

\* The estimates of the two witness forms are the worst case: the spend that
\* the cosigners complete pays the rate it was created for.
THEOREM EstimateIsWorstCase == Spec => []WitnessRateHolds
<1>1. MInv /\ Loop!TypeOK /\ Loop!RatePaid => WitnessRateHolds
    <2> SUFFICES ASSUME MInv, Loop!TypeOK, Loop!RatePaid, call.form # "p2sh", phase = "done",
                        call.fee = 0, call.feekb >= MIN_RELAY_TX_FEE,
                        NEW sig \in RealSigSizes[call.form]
                 PROVE  result.fee >= Loop!FeeAt(
                            FinalVSize(call, Inputs, OutputsOfResult, sig), call.feekb)
        BY DEF WitnessRateHolds, RateHolds
    <2>1. pc = "done" /\ call.valid /\ call \in Calls BY DEF MInv
    <2>2. /\ Request(call, unspent).fee = call.fee /\ Request(call, unspent).feekb = call.feekb
          /\ Inputs \in Nat /\ call.feekb \in Nat
        BY InvRequest
    <2>3. result.fee >= Loop!FeeAt(result.size, call.feekb) BY <2>1, <2>2 DEF Loop!RatePaid
    <2>4. result.size = SizedVSize(call, Inputs, OutputsOfResult)
        BY <2>1 DEF MInv, Sized, OutputsOfResult
    <2>5. result.fee \in Nat BY DEF Loop!TypeOK, Loop!Candidate
    <2>6. OutputsOfResult \in 1 .. 2 BY DEF OutputsOfResult
    <2> DEFINE final == FinalVSize(call, Inputs, OutputsOfResult, sig)
               sized == SizedVSize(call, Inputs, OutputsOfResult)
    <2>7. final \in Nat /\ sized \in Nat /\ final <= sized
        BY <2>1, <2>2, <2>6, FinalWithinSized
    <2> HIDE DEF final, sized
    <2>8. /\ Loop!FeeAt(final, call.feekb) \in Nat /\ Loop!FeeAt(sized, call.feekb) \in Nat
          /\ Loop!FeeAt(final, call.feekb) <= Loop!FeeAt(sized, call.feekb)
        BY <2>2, <2>7, FeeGrowsWithSize
    <2> QED BY <2>3, <2>4, <2>5, <2>8 DEF final, sized
<1> QED BY <1>1, MsSendInvariance, PTL

----------------------------------------------------------------------------
(* Scripts *)

ElementKey == [prefix : {0, 2, 3}, x : Nat]

\* Stack elements and instructions have their types.
LEMMA ElementTypes ==
    /\ \A i \in Nat : Number(i) \in Element
    /\ \A k \in ElementKey : PubKey(k) \in Element /\ Signature(k) \in Element
    /\ Empty \in Element
    /\ \A e \in Element : Push(e) \in Instruction
    /\ \A o \in {"checksig", "checksigadd", "checkmultisig", "numequal", "numequalverify"} :
         Op(o) \in Instruction
    /\ \A i : Number(i).t = "number" /\ Number(i).n = i
    /\ \A k : PubKey(k).t = "key" /\ PubKey(k).key = k
    /\ \A k : Signature(k).t = "signature" /\ Signature(k).key = k
    /\ \A e : Push(e).op = "push" /\ Push(e).arg = e
    /\ \A o : Op(o).op = o /\ Op(o).arg = Empty
<1>1. NoKey \in ElementKey BY DEF NoKey, ElementKey
<1>2. \A i \in Nat : Number(i) \in Element
    BY <1>1 DEF Number, Element, ElementKey
<1>3. \A k \in ElementKey : PubKey(k) \in Element /\ Signature(k) \in Element
    BY DEF PubKey, Signature, Element, ElementKey
<1>4. Empty \in Element BY <1>2 DEF Empty
<1>5. \A e \in Element : Push(e) \in Instruction BY DEF Push, Instruction
<1>6. \A o \in {"checksig", "checksigadd", "checkmultisig", "numequal", "numequalverify"} :
         Op(o) \in Instruction
    <2> HIDE DEF Empty
    <2> QED BY <1>4 DEF Op, Instruction
<1> QED BY <1>2, <1>3, <1>4, <1>5, <1>6 DEF Number, PubKey, Signature, Push, Op

\* The instructions of a redeem script.
LEMMA MultisigShape ==
    ASSUME NEW m, NEW keys \in Seq(ElementKey)
    PROVE  /\ Len(MultisigScript(m, keys)) = Len(keys) + 3
           /\ MultisigScript(m, keys)[1] = Push(Number(m))
           /\ \A i \in 1 .. Len(keys) : MultisigScript(m, keys)[i + 1] = Push(PubKey(keys[i]))
           /\ MultisigScript(m, keys)[Len(keys) + 2] = Push(Number(Len(keys)))
           /\ MultisigScript(m, keys)[Len(keys) + 3] = Op("checkmultisig")
           /\ m \in Nat => MultisigScript(m, keys) \in Seq(Instruction)
<1> DEFINE V == Instruction \cup {Push(Number(m))}
           n == Len(keys)
           a == <<Push(Number(m))>>
           b == [i \in DOMAIN keys |-> Push(PubKey(keys[i]))]
           c == <<Push(Number(n)), Op("checkmultisig")>>
           ab == a \o b
           s == ab \o c
<1>1. n \in Nat /\ DOMAIN keys = 1 .. n /\ \A i \in 1 .. n : keys[i] \in ElementKey OBVIOUS
<1> HIDE DEF n
<1>2. a \in Seq(V) /\ Len(a) = 1 /\ a[1] = Push(Number(m)) OBVIOUS
<1>3. b \in Seq(V) /\ Len(b) = n /\ \A i \in 1 .. n : b[i] = Push(PubKey(keys[i]))
    <2>1. \A i \in 1 .. n : Push(PubKey(keys[i])) \in V BY <1>1, ElementTypes
    <2>2. b \in [1 .. n -> V]
        <3> HIDE DEF V
        <3> QED BY <1>1, <2>1
    <2>3. \A i \in 1 .. n : b[i] = Push(PubKey(keys[i])) BY <1>1
    <2> HIDE DEF V, b
    <2> QED BY <1>1, <2>2, <2>3, FunctionIsSeq
<1>4. c \in Seq(V) /\ Len(c) = 2 /\ c[1] = Push(Number(n)) /\ c[2] = Op("checkmultisig")
    <2>1. Push(Number(n)) \in V /\ Op("checkmultisig") \in V BY <1>1, ElementTypes
    <2> HIDE DEF V
    <2> QED BY <2>1
<1>5. m \in Nat => V = Instruction BY ElementTypes
<1>6. MultisigScript(m, keys) = s BY DEF MultisigScript, n
<1> HIDE DEF V, a, b, c
<1>7. /\ ab \in Seq(V) /\ Len(ab) = Len(a) + Len(b)
      /\ \A i \in 1 .. Len(a) : ab[i] = a[i]
      /\ \A i \in 1 .. Len(b) : ab[Len(a) + i] = b[i]
    <2>1. a \in Seq(V) /\ b \in Seq(V) BY <1>2, <1>3
    <2> QED BY <2>1, Concatenation
<1> HIDE DEF ab
<1>8. /\ Len(ab) = n + 1 /\ ab[1] = Push(Number(m))
      /\ \A i \in 1 .. n : ab[i + 1] = Push(PubKey(keys[i]))
    <2>1. \A i \in 1 .. n : ab[1 + i] = b[i] /\ i + 1 = 1 + i BY <1>2, <1>3, <1>7
    <2> QED BY <1>1, <1>2, <1>3, <1>7, <2>1
<1>9. /\ s \in Seq(V) /\ Len(s) = Len(ab) + Len(c)
      /\ \A i \in 1 .. Len(ab) : s[i] = ab[i]
      /\ \A i \in 1 .. Len(c) : s[Len(ab) + i] = c[i]
    <2>1. ab \in Seq(V) /\ c \in Seq(V) BY <1>4, <1>7
    <2> QED BY <2>1, Concatenation
<1> HIDE DEF s
<1>10. /\ Len(s) = n + 3 /\ s[1] = Push(Number(m))
       /\ \A i \in 1 .. n : s[i + 1] = Push(PubKey(keys[i]))
    <2>1. \A i \in 1 .. n + 1 : s[i] = ab[i] BY <1>8, <1>9
    <2>2. Len(s) = n + 3 BY <1>1, <1>4, <1>8, <1>9
    <2>3. \A i \in 1 .. n : i + 1 \in 1 .. n + 1 BY <1>1
    <2> QED BY <1>1, <1>8, <2>1, <2>2, <2>3
<1>11. s[n + 2] = Push(Number(n)) /\ s[n + 3] = Op("checkmultisig")
    <2>1. 1 \in 1 .. Len(c) /\ 2 \in 1 .. Len(c) BY <1>4
    <2>2. s[Len(ab) + 1] = c[1] /\ s[Len(ab) + 2] = c[2] BY <1>9, <2>1
    <2>3. Len(ab) + 1 = n + 2 /\ Len(ab) + 2 = n + 3 BY <1>1, <1>8
    <2> QED BY <1>4, <2>2, <2>3
<1> QED BY <1>5, <1>6, <1>9, <1>10, <1>11 DEF n

\* The instructions of a leaf.
LEMMA TapscriptShape ==
    ASSUME NEW m, NEW keys \in Seq(ElementKey)
    PROVE  /\ Len(MultisigTapscript(m, keys)) = 2 * Len(keys) + 2
           /\ \A i \in 1 .. Len(keys) :
                /\ MultisigTapscript(m, keys)[2 * i - 1] = Push(PubKey(keys[i]))
                /\ MultisigTapscript(m, keys)[2 * i]
                     = Op(IF i = 1 THEN "checksig" ELSE "checksigadd")
           /\ MultisigTapscript(m, keys)[2 * Len(keys) + 1] = Push(Number(m))
           /\ MultisigTapscript(m, keys)[2 * Len(keys) + 2] = Op(TAPSCRIPT_NUMEQUAL)
           /\ m \in Nat => MultisigTapscript(m, keys) \in Seq(Instruction)
<1> DEFINE V == Instruction \cup {Push(Number(m))}
           n == Len(keys)
           pair(i) == <<Push(PubKey(keys[i])), Op(IF i = 1 THEN "checksig" ELSE "checksigadd")>>
           pairs == [i \in DOMAIN keys |-> pair(i)]
           a == FlattenSeq(pairs)
           c == <<Push(Number(m)), Op(TAPSCRIPT_NUMEQUAL)>>
           s == a \o c
<1>1. n \in Nat /\ DOMAIN keys = 1 .. n /\ \A i \in 1 .. n : keys[i] \in ElementKey OBVIOUS
<1> HIDE DEF n
<1>2. MultisigTapscript(m, keys) = s BY DEF MultisigTapscript
<1>3. \A i \in 1 .. n : pair(i) \in Seq(V) /\ Len(pair(i)) = 2
    <2>1. \A i \in 1 .. n : /\ Push(PubKey(keys[i])) \in V
                            /\ Op(IF i = 1 THEN "checksig" ELSE "checksigadd") \in V
        BY <1>1, ElementTypes
    <2> HIDE DEF V
    <2> QED BY <2>1
<1>4. /\ \A i : pair(i)[1] = Push(PubKey(keys[i]))
      /\ \A i : pair(i)[2] = Op(IF i = 1 THEN "checksig" ELSE "checksigadd")
    OBVIOUS
<1>5. c \in Seq(V) /\ Len(c) = 2 /\ c[1] = Push(Number(m)) /\ c[2] = Op(TAPSCRIPT_NUMEQUAL)
    <2>1. Push(Number(m)) \in V /\ Op(TAPSCRIPT_NUMEQUAL) \in V
        BY ElementTypes, TerminatorAssumption
    <2> HIDE DEF V
    <2> QED BY <2>1
<1>6. m \in Nat => V = Instruction BY ElementTypes
<1> HIDE DEF V, pair, c
<1>7. pairs \in Seq(Seq(V)) /\ Len(pairs) = n /\ \A i \in 1 .. n : pairs[i] = pair(i)
    <2>1. pairs \in [1 .. n -> Seq(V)] BY <1>1, <1>3
    <2>2. \A i \in 1 .. n : pairs[i] = pair(i) BY <1>1
    <2> HIDE DEF pairs
    <2> QED BY <1>1, <2>1, <2>2, FunctionIsSeq
<1> HIDE DEF pairs
<1>8. /\ a \in Seq(V) /\ Len(a) = 2 * n
      /\ \A i \in 1 .. n : a[2 * i - 1] = pair(i)[1] /\ a[2 * i] = pair(i)[2]
    <2>1. DOMAIN pairs = 1 .. n /\ \A i \in DOMAIN pairs : Len(pairs[i]) = 2
        BY <1>3, <1>7
    <2>2. /\ a \in Seq(V) /\ Len(a) = 2 * Len(pairs)
          /\ \A i \in DOMAIN pairs : a[2 * i - 1] = pairs[i][1] /\ a[2 * i] = pairs[i][2]
        BY <1>7, <2>1, FlattenPairs
    <2> HIDE DEF a
    <2> QED BY <1>7, <2>1, <2>2
<1> HIDE DEF a
<1>9. /\ s \in Seq(V) /\ Len(s) = Len(a) + Len(c)
      /\ \A i \in 1 .. Len(a) : s[i] = a[i]
      /\ \A i \in 1 .. Len(c) : s[Len(a) + i] = c[i]
    <2>1. a \in Seq(V) /\ c \in Seq(V) BY <1>5, <1>8
    <2> QED BY <2>1, Concatenation
<1> HIDE DEF s
<1>10. Len(s) = 2 * n + 2 BY <1>1, <1>5, <1>8, <1>9
<1>11. ASSUME NEW i \in 1 .. n
       PROVE  /\ s[2 * i - 1] = Push(PubKey(keys[i]))
              /\ s[2 * i] = Op(IF i = 1 THEN "checksig" ELSE "checksigadd")
    <2>1. 2 * i - 1 \in 1 .. 2 * n /\ 2 * i \in 1 .. 2 * n BY <1>1
    <2>2. s[2 * i - 1] = a[2 * i - 1] /\ s[2 * i] = a[2 * i] BY <1>8, <1>9, <2>1
    <2> QED BY <1>4, <1>8, <2>2
<1>12. s[2 * n + 1] = Push(Number(m)) /\ s[2 * n + 2] = Op(TAPSCRIPT_NUMEQUAL)
    <2>1. 1 \in 1 .. Len(c) /\ 2 \in 1 .. Len(c) BY <1>5
    <2>2. s[Len(a) + 1] = c[1] /\ s[Len(a) + 2] = c[2] BY <1>9, <2>1
    <2> QED BY <1>5, <1>8, <2>2
<1> QED BY <1>2, <1>6, <1>9, <1>10, <1>11, <1>12 DEF n

\* The keys read from a script are those it pushes.
LEMMA KeysOfFacts ==
    ASSUME NEW s \in Seq(Instruction)
    PROVE  /\ KeysOf(s) \in Seq(ElementKey)
           /\ Range(KeysOf(s)) = {s[i].arg.key : i \in {j \in DOMAIN s : s[j].arg.t = "key"}}
<1> DEFINE part(i) == IF s[i].arg.t = "key" THEN <<s[i].arg.key>> ELSE <<>>
           parts == [i \in DOMAIN s |-> part(i)]
           keys == KeysOf(s)
<1>1. DOMAIN s = 1 .. Len(s) /\ Len(s) \in Nat OBVIOUS
<1>2. \A i \in DOMAIN s : s[i].arg.key \in ElementKey
    <2>1. \A i \in DOMAIN s : s[i] \in Instruction BY SeqElement
    <2> QED BY <2>1 DEF Instruction, Element, ElementKey
<1>3. \A i \in DOMAIN s : /\ part(i) \in Seq(ElementKey) /\ Len(part(i)) <= 1
                          /\ part(i) # <<>> => s[i].arg.t = "key" /\ part(i) = <<s[i].arg.key>>
                          /\ s[i].arg.t = "key" => part(i) # <<>>
    BY <1>2
<1>4. keys = FlattenSeq(parts) BY DEF KeysOf
<1> HIDE DEF part, keys
<1>5. parts \in Seq(Seq(ElementKey)) /\ DOMAIN parts = DOMAIN s
      /\ \A i \in DOMAIN s : parts[i] = part(i)
    <2>1. parts \in [1 .. Len(s) -> Seq(ElementKey)] BY <1>1, <1>3
    <2>2. \A i \in DOMAIN s : parts[i] = part(i) OBVIOUS
    <2> HIDE DEF parts
    <2> QED BY <1>1, <2>1, <2>2, FunctionIsSeq
<1> HIDE DEF parts
<1>6. keys \in Seq(ElementKey) BY <1>4, <1>5, FlattenSeqType
<1>7. PICK g \in [DOMAIN keys -> DOMAIN parts] :
        /\ \A i \in DOMAIN keys : parts[g[i]] = <<keys[i]>>
        /\ \A k \in DOMAIN parts : parts[k] # <<>> => \E i \in DOMAIN keys : g[i] = k
    <2>1. \A i \in DOMAIN parts : Len(parts[i]) <= 1 BY <1>3, <1>5
    <2> DEFINE flat == FlattenSeq(parts)
    <2>2. PICK g \in [DOMAIN flat -> DOMAIN parts] :
             /\ \A i \in DOMAIN flat : parts[g[i]] = <<flat[i]>>
             /\ \A k \in DOMAIN parts : parts[k] # <<>> => \E i \in DOMAIN flat : g[i] = k
        <3>1. parts \in Seq(Seq(ElementKey)) BY <1>5
        <3> QED BY <2>1, <3>1, FlattenPicks
    <2>3. keys = flat BY <1>4
    <2> HIDE DEF flat
    <2> QED BY <2>2, <2>3
<1>8. \A i \in DOMAIN keys : g[i] \in DOMAIN s /\ s[g[i]].arg.t = "key" /\ keys[i] = s[g[i]].arg.key
    <2> SUFFICES ASSUME NEW i \in DOMAIN keys
                 PROVE g[i] \in DOMAIN s /\ s[g[i]].arg.t = "key" /\ keys[i] = s[g[i]].arg.key
        OBVIOUS
    <2>1. g[i] \in DOMAIN s /\ part(g[i]) = <<keys[i]>> BY <1>5, <1>7
    <2>2. part(g[i]) # <<>> BY <2>1
    <2>3. s[g[i]].arg.t = "key" /\ part(g[i]) = <<s[g[i]].arg.key>>
        BY <1>3, <2>1, <2>2
    <2> DEFINE v == s[g[i]].arg.key
    <2>4. <<keys[i]>> = <<v>> BY <2>1, <2>3
    <2> HIDE DEF v
    <2>5. keys[i] = v
        <3>1. <<keys[i]>>[1] = keys[i] /\ <<v>>[1] = v OBVIOUS
        <3> QED BY <2>4, <3>1
    <2> QED BY <2>1, <2>3, <2>5 DEF v
<1>9. \A k \in DOMAIN s : s[k].arg.t = "key" =>
            \E i \in DOMAIN keys : keys[i] = s[k].arg.key
    <2> SUFFICES ASSUME NEW k \in DOMAIN s, s[k].arg.t = "key"
                 PROVE \E i \in DOMAIN keys : keys[i] = s[k].arg.key
        OBVIOUS
    <2>1. PICK i \in DOMAIN keys : g[i] = k BY <1>3, <1>5, <1>7
    <2> QED BY <1>8, <2>1
<1>10. Range(keys) = {s[i].arg.key : i \in {j \in DOMAIN s : s[j].arg.t = "key"}}
    BY <1>8, <1>9 DEF Range
<1> QED BY <1>6, <1>10 DEF keys

\* What is read from a script that was built is what it was built from.
LEMMA ScriptFacts ==
    ASSUME NEW m \in Nat, NEW keys \in Seq(ElementKey)
    PROVE  /\ Script(m, keys) \in Seq(Instruction) /\ Script(m, keys) # <<>>
           /\ ThresholdOf(Script(m, keys)) = m
           /\ Range(KeysOf(Script(m, keys))) = Range(keys)
<1> DEFINE s == Script(m, keys)
           n == Len(keys)
<1>1. n \in Nat /\ DOMAIN keys = 1 .. n OBVIOUS
<1>2. CASE ms_form = "p2tr"
    <2>1. s = MultisigTapscript(m, keys) BY <1>2 DEF Script
    <2>2. /\ s \in Seq(Instruction) /\ Len(s) = 2 * n + 2
          /\ \A i \in 1 .. n : s[2 * i - 1] = Push(PubKey(keys[i]))
                    /\ s[2 * i] = Op(IF i = 1 THEN "checksig" ELSE "checksigadd")
          /\ s[2 * n + 1] = Push(Number(m)) /\ s[2 * n + 2] = Op(TAPSCRIPT_NUMEQUAL)
        BY <2>1, TapscriptShape
    <2> HIDE DEF s, n
    <2>3. DOMAIN s = 1 .. 2 * n + 2 BY <2>2
    <2>4. ThresholdOf(s) = s[Len(s) - 1].arg.n BY <1>2 DEF ThresholdOf
    <2>5. ThresholdOf(s) = m
        <3>1. Len(s) - 1 = 2 * n + 1 BY <1>1, <2>2
        <3> QED BY <2>2, <2>4, <3>1, ElementTypes
    <2>6. \A j \in DOMAIN s : \/ \E i \in 1 .. n : j = 2 * i - 1 \/ j = 2 * i
                              \/ j = 2 * n + 1 \/ j = 2 * n + 2
        <3> SUFFICES ASSUME NEW j \in DOMAIN s, j # 2 * n + 1, j # 2 * n + 2
                     PROVE  \E i \in 1 .. n : j = 2 * i - 1 \/ j = 2 * i
            OBVIOUS
        <3> DEFINE i == (j + 1) \div 2
        <3>1. j \in 1 .. 2 * n BY <1>1, <2>3
        <3>2. i \in Int /\ 2 * i <= j + 1 /\ j + 1 < 2 * i + 2 BY <3>1
        <3> HIDE DEF i
        <3>3. i \in 1 .. n /\ (j = 2 * i - 1 \/ j = 2 * i) BY <1>1, <3>1, <3>2
        <3> QED BY <3>3
    <2>7. \A i \in 1 .. n : 2 * i - 1 \in DOMAIN s BY <1>1, <2>3
    <2>8. {s[i].arg.key : i \in {j \in DOMAIN s : s[j].arg.t = "key"}} = Range(keys)
        <3>1. \A i \in 1 .. n : s[2 * i - 1].arg.t = "key" /\ s[2 * i - 1].arg.key = keys[i]
            BY <2>2, ElementTypes
        <3>2. \A i \in 1 .. n : s[2 * i].arg.t # "key" BY <2>2, ElementTypes DEF Empty
        <3>3. s[2 * n + 1].arg.t # "key" /\ s[2 * n + 2].arg.t # "key"
            BY <2>2, ElementTypes DEF Empty
        <3>4. \A j \in DOMAIN s : s[j].arg.t = "key" => \E i \in 1 .. n : s[j].arg.key = keys[i]
            BY <2>6, <3>1, <3>2, <3>3
        <3> DEFINE D == {j \in DOMAIN s : s[j].arg.t = "key"}
        <3>5. \A j \in D : s[j].arg.key \in Range(keys) BY <1>1, <3>4 DEF Range
        <3>6. \A i \in 1 .. n : \E j \in D : s[j].arg.key = keys[i] BY <2>7, <3>1
        <3> HIDE DEF D
        <3>7. \A k \in Range(keys) : \E j \in D : s[j].arg.key = k BY <1>1, <3>6 DEF Range
        <3>8. {s[i].arg.key : i \in D} = Range(keys) BY <3>5, <3>7
        <3> QED BY <3>8 DEF D
    <2>9. Range(KeysOf(s)) = Range(keys) BY <2>2, <2>8, KeysOfFacts
    <2>10. s # <<>> BY <1>1, <2>2
    <2> QED BY <2>2, <2>5, <2>9, <2>10 DEF s
<1>3. CASE ms_form # "p2tr"
    <2>1. s = MultisigScript(m, keys) BY <1>3 DEF Script
    <2>2. /\ s \in Seq(Instruction) /\ Len(s) = n + 3
          /\ s[1] = Push(Number(m))
          /\ \A i \in 1 .. n : s[i + 1] = Push(PubKey(keys[i]))
          /\ s[n + 2] = Push(Number(n)) /\ s[n + 3] = Op("checkmultisig")
        BY <2>1, MultisigShape
    <2> HIDE DEF s, n
    <2>3. DOMAIN s = 1 .. n + 3 BY <2>2
    <2>4. ThresholdOf(s) = s[1].arg.n BY <1>3 DEF ThresholdOf
    <2>5. ThresholdOf(s) = m BY <2>2, <2>4, ElementTypes
    <2>6. \A j \in DOMAIN s : \/ \E i \in 1 .. n : j = i + 1
                              \/ j = 1 \/ j = n + 2 \/ j = n + 3
        <3> SUFFICES ASSUME NEW j \in DOMAIN s, j # 1, j # n + 2, j # n + 3
                     PROVE  \E i \in 1 .. n : j = i + 1
            OBVIOUS
        <3>1. j - 1 \in 1 .. n /\ j = (j - 1) + 1 BY <1>1, <2>3
        <3> QED BY <3>1
    <2>7. \A i \in 1 .. n : i + 1 \in DOMAIN s BY <1>1, <2>3
    <2>8. {s[i].arg.key : i \in {j \in DOMAIN s : s[j].arg.t = "key"}} = Range(keys)
        <3>1. \A i \in 1 .. n : s[i + 1].arg.t = "key" /\ s[i + 1].arg.key = keys[i]
            BY <2>2, ElementTypes
        <3>2. s[1].arg.t # "key" /\ s[n + 2].arg.t # "key" /\ s[n + 3].arg.t # "key"
            BY <2>2, ElementTypes DEF Empty
        <3>3. \A j \in DOMAIN s : s[j].arg.t = "key" => \E i \in 1 .. n : s[j].arg.key = keys[i]
            BY <2>6, <3>1, <3>2
        <3> DEFINE D == {j \in DOMAIN s : s[j].arg.t = "key"}
        <3>4. \A j \in D : s[j].arg.key \in Range(keys) BY <1>1, <3>3 DEF Range
        <3>5. \A i \in 1 .. n : \E j \in D : s[j].arg.key = keys[i] BY <2>7, <3>1
        <3> HIDE DEF D
        <3>6. \A k \in Range(keys) : \E j \in D : s[j].arg.key = k BY <1>1, <3>5 DEF Range
        <3>7. {s[i].arg.key : i \in D} = Range(keys) BY <3>4, <3>6
        <3> QED BY <3>7 DEF D
    <2>9. Range(KeysOf(s)) = Range(keys) BY <2>2, <2>8, KeysOfFacts
    <2>10. s # <<>> BY <1>1, <2>2
    <2> QED BY <2>2, <2>5, <2>9, <2>10 DEF s
<1> QED BY <1>2, <1>3

\* The quorum of a script that the recognisers let through.
LEMMA CanonicalFacts ==
    ASSUME script \in Seq(Instruction), Canonical(script)
    PROVE  /\ KeysOf(script) \in Seq(ElementKey)
           /\ \A i, j \in DOMAIN KeysOf(script) : KeysOf(script)[i] = KeysOf(script)[j] => i = j
           /\ ThresholdOf(script) \in 1 .. Len(KeysOf(script))
           /\ script = Script(ThresholdOf(script), KeysOf(script))
<1> DEFINE keys == KeysOf(script)
           m == ThresholdOf(script)
           n == Len(keys)
<1>1. keys \in Seq(ElementKey) BY KeysOfFacts
<1>2. script = Script(m, keys) /\ 1 <= m /\ m <= n /\ IsInjective(keys) BY DEF Canonical
<1>3. \A i \in DOMAIN script : script[i].arg.n \in Nat
    <2>1. \A i \in DOMAIN script : script[i] \in Instruction BY SeqElement
    <2> QED BY <2>1 DEF Instruction, Element
<1>4. m \in Nat
    <2>1. n \in Nat BY <1>1
    <2>2. CASE ms_form = "p2tr"
        <3>1. m = script[Len(script) - 1].arg.n BY <2>2 DEF ThresholdOf
        <3>2. Len(script) = 2 * n + 2
            <4>1. script = MultisigTapscript(m, keys) BY <1>2, <2>2 DEF Script
            <4> HIDE DEF m, keys
            <4> QED BY <1>1, <4>1, TapscriptShape
        <3> HIDE DEF m, n
        <3>3. Len(script) - 1 \in DOMAIN script BY <2>1, <3>2
        <3> QED BY <1>3, <3>1, <3>3
    <2>3. CASE ms_form # "p2tr"
        <3>1. m = script[1].arg.n BY <2>3 DEF ThresholdOf
        <3>2. Len(script) = n + 3
            <4>1. script = MultisigScript(m, keys) BY <1>2, <2>3 DEF Script
            <4> HIDE DEF m, keys
            <4> QED BY <1>1, <4>1, MultisigShape
        <3> HIDE DEF m, n
        <3>3. 1 \in DOMAIN script BY <2>1, <3>2
        <3> QED BY <1>3, <3>1, <3>3
    <2> QED BY <2>2, <2>3
<1>5. n \in Nat BY <1>1
<1> HIDE DEF m, n
<1>6. m \in 1 .. n BY <1>2, <1>4, <1>5
<1> QED BY <1>1, <1>2, <1>6 DEF m, n, IsInjective

\* The keys of a script in their order, each of them once.
LEMMA InOrderOfLists ==
    ASSUME NEW S, IsFiniteSet(S), S \subseteq ElementKey
    PROVE  /\ InOrderOf(S) \in Seq(ElementKey)
           /\ ToSet(InOrderOf(S)) = S
           /\ \A j, k \in DOMAIN InOrderOf(S) :
                InOrderOf(S)[j] = InOrderOf(S)[k] => j = k
<1> DEFINE Place(p, seq) == 1 + Cardinality({i \in DOMAIN seq : Below(seq[i], p)})
           Put(p, seq) == InsertAt(seq, Place(p, seq), p)
           iter == CHOOSE f : f = [s \in SUBSET S |-> IF s = {} THEN <<>>
                     ELSE Put(CHOOSE x \in s : TRUE, f[s \ {CHOOSE x \in s : TRUE}])]
           op == [pair \in S \X Seq(ElementKey) |-> Put(pair[1], pair[2])]
           Good(s, q) == /\ q \in Seq(ElementKey) /\ ToSet(q) = s
                         /\ \A j, k \in DOMAIN q : q[j] = q[k] => j = k
<1>1. InOrderOf(S) = iter[S] BY DEF InOrderOf, FoldSet, MapThenFoldSet
<1>2. ASSUME NEW p \in ElementKey, NEW seq \in Seq(ElementKey)
      PROVE  Place(p, seq) \in 1 .. Len(seq) + 1
    <2> DEFINE T == {i \in DOMAIN seq : Below(seq[i], p)}
    <2>1. DOMAIN seq = 1 .. Len(seq) /\ Len(seq) \in Nat OBVIOUS
    <2>2. IsFiniteSet(1 .. Len(seq)) /\ Cardinality(1 .. Len(seq)) = Len(seq)
        BY <2>1, FS_Interval
    <2>3. T \subseteq 1 .. Len(seq) BY <2>1
    <2> HIDE DEF T
    <2>4. Cardinality(T) <= Len(seq) /\ Cardinality(T) \in Nat
        BY <2>2, <2>3, FS_Subset, FS_CardinalityType
    <2> QED BY <2>1, <2>4 DEF T
<1> HIDE DEF Place
<1>3. ASSUME NEW p \in ElementKey, NEW s, p \notin s, NEW seq, Good(s, seq)
      PROVE  Good(s \cup {p}, Put(p, seq))
    <2>1. Place(p, seq) \in 1 .. Len(seq) + 1 BY <1>2, <1>3
    <2> DEFINE i == Place(p, seq)
               r == InsertAt(seq, i, p)
    <2> HIDE DEF i, r
    <2>2. /\ r \in Seq(ElementKey) /\ ToSet(r) = s \cup {p}
          /\ \A j, k \in DOMAIN r : r[j] = r[k] => j = k
        BY <1>3, <2>1, InsertKeeps DEF i, r
    <2> QED BY <2>2 DEF i, r
<1>4. op \in [S \X Seq(ElementKey) -> Seq(ElementKey)] BY <1>2, InsertKeeps
<1>5. PICK f \in [SUBSET S -> Seq(ElementKey)] : FoldsOver(f, op, <<>>, S)
    <2>1. <<>> \in Seq(ElementKey) OBVIOUS
    <2> HIDE DEF op
    <2> QED BY <1>4, <2>1, FoldExists
<1>6. ASSUME NEW s \in SUBSET S, s # {}
      PROVE  op[<<CHOOSE x \in s : TRUE, f[s \ {CHOOSE x \in s : TRUE}]>>]
               = Put(CHOOSE x \in s : TRUE, f[s \ {CHOOSE x \in s : TRUE}])
    <2> DEFINE x == CHOOSE x \in s : TRUE
               q == f[s \ {x}]
    <2>1. x \in S BY <1>6
    <2>2. q \in Seq(ElementKey) OBVIOUS
    <2> HIDE DEF x, q, Put
    <2>3. op[<<x, q>>] = Put(x, q) BY <2>1, <2>2
    <2> QED BY <2>3 DEF x, q
<1>7. iter = [s \in SUBSET S |-> IF s = {} THEN <<>>
                ELSE Put(CHOOSE x \in s : TRUE, iter[s \ {CHOOSE x \in s : TRUE}])]
    <2> DEFINE a(s) == op[<<CHOOSE x \in s : TRUE, f[s \ {CHOOSE x \in s : TRUE}]>>]
               b(g, s) == Put(CHOOSE x \in s : TRUE, g[s \ {CHOOSE x \in s : TRUE}])
    <2>1. \A s \in SUBSET S : s # {} => a(s) = b(f, s)
        <3> HIDE DEF op, Put
        <3> QED BY <1>6
    <2>2. f = [s \in SUBSET S |-> IF s = {} THEN <<>> ELSE a(s)]
        <3> HIDE DEF op
        <3> QED BY <1>5 DEF FoldsOver
    <2>3. f = [s \in SUBSET S |-> IF s = {} THEN <<>> ELSE b(f, s)]
        <3> HIDE DEF a, b
        <3> QED BY <2>1, <2>2
    <2>4. iter = CHOOSE g : g = [s \in SUBSET S |-> IF s = {} THEN <<>> ELSE b(g, s)]
        OBVIOUS
    <2>5. iter = [s \in SUBSET S |-> IF s = {} THEN <<>> ELSE b(iter, s)]
        <3> HIDE DEF iter, b
        <3> QED BY <2>3, <2>4
    <2> HIDE DEF iter
    <2> QED BY <2>5
<1> HIDE DEF iter, Put, op
<1>8. Good(S, iter[S])
    <2> DEFINE F == {s \in SUBSET S : ~Good(s, iter[s])}
    <2> SUFFICES ASSUME F # {} PROVE FALSE
        <3> HIDE DEF Good
        <3> QED OBVIOUS
    <2>1. F \subseteq FiniteSubsetsOf(S) BY FS_Subset DEF FiniteSubsetsOf
    <2>2. PICK s \in F : \A t \in F : t \subseteq s => t = s
        <3> HIDE DEF F
        <3> QED BY <2>1, MinimalSet
    <2>3. s \in SUBSET S /\ ~Good(s, iter[s]) OBVIOUS
    <2>4. s # {}
        <3>1. iter[{}] = <<>> BY <1>7
        <3>2. Good({}, <<>>) BY DEF ToSet
        <3> QED BY <2>3, <3>1, <3>2
    <2> DEFINE x == CHOOSE x \in s : TRUE
               t == s \ {x}
    <2>5. x \in s /\ x \in ElementKey BY <2>3, <2>4
    <2>6. iter[s] = Put(x, iter[t]) BY <1>7, <2>3, <2>4
    <2> HIDE DEF x, Good
    <2>7. Good(t, iter[t]) BY <2>2, <2>3, <2>5
    <2>8. x \notin t /\ t \cup {x} = s BY <2>5
    <2> HIDE DEF t
    <2> QED BY <1>3, <2>3, <2>5, <2>6, <2>7, <2>8
<1> QED BY <1>1, <1>8

----------------------------------------------------------------------------
(* The node *)

\* What the node does to its stack: it pushes, and it takes off the top.
LEMMA StackOperations ==
    ASSUME NEW S, NEW s \in Seq(S), NEW e \in S
    PROVE  /\ Append(s, e) \in Seq(S) /\ Len(Append(s, e)) = Len(s) + 1
           /\ \A i \in 1 .. Len(s) : Append(s, e)[i] = s[i]
           /\ Append(s, e)[Len(s) + 1] = e
           /\ \A from \in 1 .. Len(s) + 1, to \in 0 .. Len(s) : from <= to + 1 =>
                /\ SubSeq(s, from, to) \in Seq(S)
                /\ Len(SubSeq(s, from, to)) = to - from + 1
                /\ \A i \in 1 .. to - from + 1 : SubSeq(s, from, to)[i] = s[from + i - 1]
OBVIOUS

\* The stack of a CHECKMULTISIG spend when instruction p is next: the dummy,
\* the signatures of the members g in their order, and what was pushed since.
MultisigAt(st, p, m, keys, g) ==
    LET n == Len(keys)
    IN  /\ st \in Seq(Element) /\ p \in 1 .. n + 4
        /\ g \in [1 .. m -> 1 .. n] /\ \A i, j \in 1 .. m : i < j => g[i] < g[j]
        /\ p <= n + 3 =>
             /\ Len(st) = m + p /\ st[1] = Empty
             /\ \A i \in 1 .. m : st[i + 1] = Signature(keys[g[i]])
             /\ \A j \in 1 .. p - 1 : st[m + 1 + j] = MultisigScript(m, keys)[j].arg
        /\ p = n + 4 => st = <<Number(1)>>

\* Its opcode finds the dummy, and a key for each signature in their order.
LEMMA CheckMultisigPasses ==
    ASSUME NEW m \in Nat, NEW keys \in Seq(ElementKey), NEW g,
           MultisigAt(stack, Len(keys) + 3, m, keys, g)
    PROVE  CheckMultisig = {<<Number(1)>>}
<1> DEFINE n == Len(keys)
           L == Len(stack)
<1>1. /\ n \in Nat /\ stack \in Seq(Element) /\ L = m + n + 3 /\ stack[1] = Empty
      /\ g \in [1 .. m -> 1 .. n] /\ \A i, j \in 1 .. m : i < j => g[i] < g[j]
      /\ \A i \in 1 .. m : stack[i + 1] = Signature(keys[g[i]])
      /\ \A j \in 1 .. n + 2 : stack[m + 1 + j] = MultisigScript(m, keys)[j].arg
    BY DEF MultisigAt
<1> HIDE DEF n, L
<1>2. /\ stack[m + 2] = Number(m) /\ stack[m + n + 3] = Number(n)
      /\ \A i \in 1 .. n : stack[m + 2 + i] = PubKey(keys[i])
    <2>1. /\ MultisigScript(m, keys)[1].arg = Number(m)
          /\ MultisigScript(m, keys)[n + 2].arg = Number(n)
          /\ \A i \in 1 .. n : MultisigScript(m, keys)[i + 1].arg = PubKey(keys[i])
        BY <1>1, MultisigShape, ElementTypes DEF n
    <2>2. stack[m + 2] = Number(m) /\ stack[m + n + 3] = Number(n)
        <3>1. 1 \in 1 .. n + 2 /\ n + 2 \in 1 .. n + 2 BY <1>1
        <3>2. m + 1 + 1 = m + 2 /\ m + 1 + (n + 2) = m + n + 3 BY <1>1
        <3> QED BY <1>1, <2>1, <3>1, <3>2
    <2>3. ASSUME NEW i \in 1 .. n
          PROVE  stack[m + 2 + i] = PubKey(keys[i])
        <3>1. i + 1 \in 1 .. n + 2 /\ m + 1 + (i + 1) = m + 2 + i BY <1>1
        <3> QED BY <1>1, <2>1, <3>1
    <2> QED BY <2>2, <2>3
<1>3. Top(1) = Number(n) /\ Top(n + 2) = Number(m) /\ Top(n + m + 3) = Empty
    <2>1. L + 1 - 1 = m + n + 3 /\ L + 1 - (n + 2) = m + 2 /\ L + 1 - (n + m + 3) = 1
        BY <1>1
    <2> QED BY <1>1, <1>2, <2>1 DEF Top, L
<1>4. Top(1).n = n /\ Top(n + 2).n = m BY <1>3, ElementTypes
<1> DEFINE sigs == SubSeq(stack, L + 1 - (n + m + 2), L + 1 - (n + 3))
           pubs == SubSeq(stack, L + 1 - (n + 1), L + 1 - 2)
<1>5. /\ DOMAIN sigs = 1 .. m
      /\ \A i \in 1 .. m : sigs[i] = Signature(keys[g[i]])
    <2>1. L + 1 - (n + m + 2) = 2 /\ L + 1 - (n + 3) = m + 1 BY <1>1
    <2>2. 2 \in 1 .. L + 1 /\ m + 1 \in 0 .. L /\ 2 <= m + 1 + 1 BY <1>1
    <2>3. /\ SubSeq(stack, 2, m + 1) \in Seq(Element)
          /\ Len(SubSeq(stack, 2, m + 1)) = m + 1 - 2 + 1
          /\ \A i \in 1 .. m + 1 - 2 + 1 : SubSeq(stack, 2, m + 1)[i] = stack[2 + i - 1]
        <3>1. Empty \in Element BY ElementTypes
        <3> QED BY <1>1, <2>2, <3>1, StackOperations DEF L
    <2>4. m + 1 - 2 + 1 = m /\ \A i \in 1 .. m : 2 + i - 1 = i + 1 OBVIOUS
    <2>5. sigs = SubSeq(stack, 2, m + 1) BY <2>1
    <2> HIDE DEF sigs
    <2>6. DOMAIN sigs = 1 .. m BY <2>3, <2>4, <2>5
    <2> QED BY <1>1, <2>3, <2>4, <2>5, <2>6
<1>6. /\ DOMAIN pubs = 1 .. n
      /\ \A i \in 1 .. n : pubs[i] = PubKey(keys[i])
    <2>1. L + 1 - (n + 1) = m + 3 /\ L + 1 - 2 = m + n + 2 BY <1>1
    <2>2. m + 3 \in 1 .. L + 1 /\ m + n + 2 \in 0 .. L /\ m + 3 <= m + n + 2 + 1 BY <1>1
    <2>3. /\ SubSeq(stack, m + 3, m + n + 2) \in Seq(Element)
          /\ Len(SubSeq(stack, m + 3, m + n + 2)) = m + n + 2 - (m + 3) + 1
          /\ \A i \in 1 .. m + n + 2 - (m + 3) + 1 :
               SubSeq(stack, m + 3, m + n + 2)[i] = stack[m + 3 + i - 1]
        <3>1. Empty \in Element BY ElementTypes
        <3> QED BY <1>1, <2>2, <3>1, StackOperations DEF L
    <2>4. m + n + 2 - (m + 3) + 1 = n /\ \A i \in 1 .. n : m + 3 + i - 1 = m + 2 + i
        BY <1>1
    <2>5. pubs = SubSeq(stack, m + 3, m + n + 2) BY <2>1
    <2> HIDE DEF pubs
    <2>6. DOMAIN pubs = 1 .. n
        <3>1. pubs \in Seq(Element) /\ Len(pubs) = n BY <2>3, <2>4, <2>5
        <3> QED BY <3>1
    <2> QED BY <1>2, <2>3, <2>4, <2>5, <2>6
<1> HIDE DEF sigs, pubs
<1>7. InOrder(sigs, pubs)
    <2>1. g \in [DOMAIN sigs -> DOMAIN pubs] BY <1>1, <1>5, <1>6
    <2>2. \A i \in DOMAIN sigs : Verifies(sigs[i], pubs[g[i]])
        <3>1. \A i \in 1 .. m : pubs[g[i]].key = keys[g[i]]
            BY <1>1, <1>6, ElementTypes
        <3> QED BY <1>5, <3>1 DEF Verifies
    <2> QED BY <1>1, <1>5, <2>1, <2>2 DEF InOrder
<1>8. Rest(n + m + 3) = <<>>
    <2>1. L - (n + m + 3) = 0 BY <1>1
    <2> QED BY <1>1, <2>1 DEF Rest, L
<1>9. CheckMultisig = {Append(Rest(n + m + 3), Number(1))}
    <2>1. ~(L < n + m + 3) BY <1>1
    <2> QED BY <1>3, <1>4, <1>7, <2>1 DEF CheckMultisig, sigs, pubs, L
<1>10. Append(<<>>, Number(1)) = <<Number(1)>> OBVIOUS
<1> QED BY <1>8, <1>9, <1>10

\* No instruction of a CHECKMULTISIG spend fails.
LEMMA MultisigStep ==
    ASSUME NEW m \in Nat, NEW keys \in Seq(ElementKey), NEW g,
           script = MultisigScript(m, keys),
           MultisigAt(stack, ip, m, keys, g), ip <= Len(script)
    PROVE  \E s : After(script[ip]) = {s} /\ MultisigAt(s, ip + 1, m, keys, g)
<1> DEFINE n == Len(keys)
<1>1. /\ n \in Nat /\ ip \in 1 .. n + 3 /\ Len(script) = n + 3 /\ script \in Seq(Instruction)
    BY MultisigShape DEF MultisigAt
<1>2. /\ script[1] = Push(Number(m))
      /\ \A i \in 1 .. n : script[i + 1] = Push(PubKey(keys[i]))
      /\ script[n + 2] = Push(Number(n)) /\ script[n + 3] = Op("checkmultisig")
    BY MultisigShape
<1>3. /\ stack \in Seq(Element) /\ Len(stack) = m + ip /\ stack[1] = Empty
      /\ g \in [1 .. m -> 1 .. n] /\ \A i, j \in 1 .. m : i < j => g[i] < g[j]
      /\ \A i \in 1 .. m : stack[i + 1] = Signature(keys[g[i]])
      /\ \A j \in 1 .. ip - 1 : stack[m + 1 + j] = script[j].arg
    BY <1>1 DEF MultisigAt
<1>4. CASE ip = n + 3
    <2>1. MultisigAt(stack, n + 3, m, keys, g) BY <1>4
    <2>2. CheckMultisig = {<<Number(1)>>} BY <2>1, CheckMultisigPasses
    <2>3. After(script[ip]) = {<<Number(1)>>}
        <3>1. script[ip].op = "checkmultisig" BY <1>2, <1>4, ElementTypes
        <3> QED BY <2>2, <3>1 DEF After
    <2>4. <<Number(1)>> \in Seq(Element)
        <3>1. Number(1) \in Element BY ElementTypes
        <3> QED BY <3>1
    <2>5. MultisigAt(<<Number(1)>>, ip + 1, m, keys, g)
        <3> HIDE DEF n
        <3>1. /\ ip + 1 = n + 4 /\ ~(ip + 1 <= n + 3) /\ ip + 1 \in 1 .. n + 4
            BY <1>1, <1>4
        <3> QED BY <1>3, <2>4, <3>1 DEF MultisigAt, n
    <2> QED BY <2>3, <2>5
<1>5. CASE ip # n + 3
    <2> DEFINE e == script[ip].arg
               s == Append(stack, e)
    <2>1. script[ip].op = "push" /\ e \in Element
        <3> HIDE DEF n
        <3>1. CASE ip = 1 BY <1>2, <3>1, ElementTypes
        <3>2. CASE ip = n + 2 BY <1>1, <1>2, <3>2, ElementTypes
        <3>3. CASE ip # 1 /\ ip # n + 2
            <4> DEFINE i == ip - 1
            <4>1. i \in 1 .. n /\ i + 1 = ip BY <1>1, <1>5, <3>3
            <4> HIDE DEF i
            <4>2. script[ip] = Push(PubKey(keys[i])) BY <1>2, <4>1
            <4>3. keys[i] \in ElementKey BY <1>1, <4>1 DEF n
            <4> QED BY <4>2, <4>3, ElementTypes
        <3> QED BY <3>1, <3>2, <3>3
    <2>2. After(script[ip]) = {s} BY <2>1 DEF After
    <2> HIDE DEF e, n
    <2>3. /\ s \in Seq(Element) /\ Len(s) = Len(stack) + 1
          /\ \A i \in 1 .. Len(stack) : s[i] = stack[i]
          /\ s[Len(stack) + 1] = e
        BY <1>3, <2>1, StackOperations
    <2> HIDE DEF s
    <2>4. Len(s) = m + (ip + 1) /\ s[1] = Empty BY <1>1, <1>3, <2>3
    <2>5. \A i \in 1 .. m : s[i + 1] = Signature(keys[g[i]])
        <3>1. \A i \in 1 .. m : i + 1 \in 1 .. Len(stack) BY <1>1, <1>3
        <3> QED BY <1>3, <2>3, <3>1
    <2>6. ASSUME NEW j \in 1 .. ip
          PROVE  s[m + 1 + j] = script[j].arg
        <3>1. CASE j = ip
            <4>1. m + 1 + j = Len(stack) + 1 BY <1>1, <1>3, <3>1
            <4> QED BY <2>3, <3>1, <4>1 DEF e
        <3>2. CASE j # ip
            <4>1. j \in 1 .. ip - 1 /\ m + 1 + j \in 1 .. Len(stack) BY <1>1, <1>3, <3>2
            <4> QED BY <1>3, <2>3, <4>1
        <3> QED BY <3>1, <3>2
    <2>7. ip + 1 \in 1 .. n + 4 /\ ip + 1 # n + 4 /\ (ip + 1) - 1 = ip BY <1>1, <1>5
    <2>8. MultisigAt(s, ip + 1, m, keys, g)
        BY <1>3, <2>3, <2>4, <2>5, <2>6, <2>7 DEF MultisigAt, n
    <2> QED BY <2>2, <2>8
<1> QED BY <1>4, <1>5

\* How many of the members T are among the first d.
CountTo(T, d) == Cardinality({i \in T : i <= d})

\* One more key, one more signature or none.
LEMMA CountSteps ==
    ASSUME NEW n \in Nat, NEW T \in SUBSET (1 .. n)
    PROVE  /\ CountTo(T, 0) = 0 /\ CountTo(T, n) = Cardinality(T)
           /\ \A d \in 0 .. n : CountTo(T, d) \in Nat
           /\ \A d \in 0 .. n - 1 :
                CountTo(T, d + 1) = CountTo(T, d) + IF d + 1 \in T THEN 1 ELSE 0
<1>0. \A i \in T : i \in Nat /\ i >= 1 /\ i <= n OBVIOUS
<1>1. \A d : IsFiniteSet({i \in T : i <= d})
    <2>1. IsFiniteSet(1 .. n) BY FS_Interval
    <2>2. \A d : {i \in T : i <= d} \subseteq 1 .. n OBVIOUS
    <2> QED BY <2>1, <2>2, FS_Subset
<1>2. CountTo(T, 0) = 0
    <2>1. {i \in T : i <= 0} = {}
        <3>1. \A i \in T : ~(i <= 0) BY <1>0
        <3> QED BY <3>1
    <2> QED BY <2>1, FS_EmptySet DEF CountTo
<1>3. CountTo(T, n) = Cardinality(T)
    <2>1. {i \in T : i <= n} = T BY <1>0
    <2> QED BY <2>1 DEF CountTo
<1>4. \A d \in 0 .. n : CountTo(T, d) \in Nat BY <1>1, FS_CardinalityType DEF CountTo
<1>5. ASSUME NEW d \in 0 .. n - 1
      PROVE  CountTo(T, d + 1) = CountTo(T, d) + IF d + 1 \in T THEN 1 ELSE 0
    <2> DEFINE A == {i \in T : i <= d}
               B == {i \in T : i <= d + 1}
    <2>1. CASE d + 1 \in T
        <3>1. B = A \cup {d + 1} /\ d + 1 \notin A
            <4>1. ~(d + 1 <= d) /\ d + 1 <= d + 1 OBVIOUS
            <4>2. \A i \in T : (i <= d + 1) <=> (i <= d \/ i = d + 1) BY <1>0
            <4> QED BY <2>1, <4>1, <4>2
        <3>2. Cardinality(B) = Cardinality(A) + 1
            <4> HIDE DEF B
            <4>1. IsFiniteSet(A) BY <1>1
            <4> HIDE DEF A
            <4> QED BY <3>1, <4>1, FS_AddElement
        <3> QED BY <2>1, <3>2 DEF CountTo
    <2>2. CASE d + 1 \notin T
        <3>1. B = A
            <4>1. \A i \in T : (i <= d + 1) <=> (i <= d \/ i = d + 1) BY <1>0
            <4> QED BY <2>2, <4>1
        <3>2. CountTo(T, d) \in Nat BY <1>4
        <3>3. CountTo(T, d + 1) = CountTo(T, d) BY <3>1 DEF CountTo
        <3> QED BY <2>2, <3>2, <3>3
    <2> QED BY <2>1, <2>2
<1> QED BY <1>2, <1>3, <1>4, <1>5

\* The slot of member i.
Slot(keys, T, i) == IF i \in T THEN Signature(keys[i]) ELSE Empty

\* The stack of a tapscript spend in which the members T signed.  After d keys
\* it is the slots of the others, the next one's on top, and the counter;
\* between two keys, the next key above them; then the counter against m.
TapscriptMid(st, p, m, keys, T, d) ==
    LET n == Len(keys)
        counter == IF d = 0 THEN 0 ELSE 1
    IN  /\ Len(st) = n - d + counter + (p - (2 * d + 1))
        /\ \A i \in d + 1 .. n : st[n + 1 - i] = Slot(keys, T, i)
        /\ d # 0 => st[n + 1 - d] = Number(CountTo(T, d))
        /\ p = 2 * d + 2 => st[Len(st)] = IF d = n THEN Number(m)
                                          ELSE PubKey(keys[d + 1])

\* That, and what is left when the counter has been compared.
TapscriptAt(st, p, m, keys, T) ==
    LET n == Len(keys)
    IN  /\ st \in Seq(Element) /\ p \in 1 .. 2 * n + 3
        /\ T \subseteq 1 .. n /\ Cardinality(T) = m
        /\ \A d \in 0 .. n :
             p \in {2 * d + 1, 2 * d + 2} => TapscriptMid(st, p, m, keys, T, d)
        /\ p = 2 * n + 3 => st \in {<<>>, <<Number(1)>>}

\* What a check of a slot yields.
LEMMA SlotOutcome ==
    ASSUME NEW keys \in Seq(ElementKey), NEW T \in SUBSET (1 .. Len(keys)),
           NEW i \in 1 .. Len(keys)
    PROVE  Outcome(Slot(keys, T, i), PubKey(keys[i]))
             = {Number(IF i \in T THEN 1 ELSE 0)}
<1>1. Signature(keys[i]) # Empty
    BY DEF Signature, Empty, Number
<1>2. PubKey(keys[i]).key = keys[i] BY DEF PubKey
<1>3. CASE i \in T
    <2>1. Slot(keys, T, i) = Signature(keys[i]) BY <1>3 DEF Slot
    <2>2. {u \in {0, 1} : IF u = 0 THEN Signature(keys[i]) = Empty
                            ELSE Verifies(Signature(keys[i]), PubKey(keys[i]))} = {1}
        BY <1>1, <1>2 DEF Verifies
    <2> QED BY <1>3, <2>1, <2>2 DEF Outcome
<1>4. CASE i \notin T
    <2>1. Slot(keys, T, i) = Empty BY <1>4 DEF Slot
    <2>2. {u \in {0, 1} : IF u = 0 THEN Empty = Empty
                            ELSE Verifies(Empty, PubKey(keys[i]))} = {0}
        BY <1>1, <1>2 DEF Verifies
    <2> QED BY <1>4, <2>1, <2>2 DEF Outcome
<1> QED BY <1>3, <1>4

\* No instruction of a tapscript spend fails.
LEMMA TapscriptStep ==
    ASSUME NEW m \in Nat, NEW keys \in Seq(ElementKey), NEW T, keys # <<>>,
           script = MultisigTapscript(m, keys),
           TapscriptAt(stack, ip, m, keys, T), ip <= Len(script)
    PROVE  \E s : After(script[ip]) = {s} /\ TapscriptAt(s, ip + 1, m, keys, T)
<1> DEFINE n == Len(keys)
           L == Len(stack)
<1>1. n \in Nat /\ n # 0 /\ L \in Nat /\ \A i \in 1 .. n : keys[i] \in ElementKey
    BY DEF TapscriptAt
<1>2. /\ Len(script) = 2 * n + 2 /\ script \in Seq(Instruction)
      /\ \A i \in 1 .. n : script[2 * i - 1] = Push(PubKey(keys[i]))
                /\ script[2 * i] = Op(IF i = 1 THEN "checksig" ELSE "checksigadd")
      /\ script[2 * n + 1] = Push(Number(m)) /\ script[2 * n + 2] = Op(TAPSCRIPT_NUMEQUAL)
    BY TapscriptShape
<1>3. stack \in Seq(Element) /\ T \subseteq 1 .. n /\ Cardinality(T) = m BY DEF TapscriptAt
<1>4. PICK d \in 0 .. n : ip \in {2 * d + 1, 2 * d + 2}
    <2> DEFINE d == (ip - 1) \div 2
    <2>1. ip \in 1 .. 2 * n + 2
        <3>1. ip \in 1 .. 2 * n + 3 BY DEF TapscriptAt
        <3> HIDE DEF n
        <3> QED BY <1>1, <1>2, <3>1
    <2>2. d \in Int /\ 2 * d <= ip - 1 /\ ip - 1 < 2 * d + 2 BY <2>1
    <2> HIDE DEF d, n
    <2>3. d \in 0 .. n /\ ip \in {2 * d + 1, 2 * d + 2} BY <1>1, <2>1, <2>2
    <2> QED BY <2>3
<1> DEFINE counter == IF d = 0 THEN 0 ELSE 1
<1>5. /\ L = n - d + counter + (ip - (2 * d + 1))
      /\ \A i \in d + 1 .. n : stack[n + 1 - i] = Slot(keys, T, i)
      /\ d # 0 => stack[n + 1 - d] = Number(CountTo(T, d))
      /\ ip = 2 * d + 2 => stack[L] = IF d = n THEN Number(m) ELSE PubKey(keys[d + 1])
    <2>1. TapscriptMid(stack, ip, m, keys, T, d) BY <1>4 DEF TapscriptAt
    <2> QED BY <2>1 DEF TapscriptMid
<1>6. /\ counter \in {0, 1} /\ (d = 0 => counter = 0) /\ (d # 0 => counter = 1)
      /\ d \in Nat /\ d <= n
    BY <1>1, <1>4
<1>7. /\ \A c \in 0 .. n : CountTo(T, c) \in Nat
      /\ CountTo(T, 0) = 0 /\ CountTo(T, n) = m
      /\ \A c \in 0 .. n - 1 :
           CountTo(T, c + 1) = CountTo(T, c) + IF c + 1 \in T THEN 1 ELSE 0
    <2>1. T \in SUBSET (1 .. n) BY <1>3
    <2> HIDE DEF n
    <2> QED BY <1>1, <1>3, <2>1, CountSteps
<1> HIDE DEF n, L, counter
<1>8. CASE ip = 2 * d + 1
    <2> DEFINE e == script[ip].arg
               s == Append(stack, e)
    <2>1. script[ip].op = "push" /\ e \in Element
          /\ e = IF d = n THEN Number(m) ELSE PubKey(keys[d + 1])
        <3>1. CASE d = n BY <1>2, <1>8, <3>1, ElementTypes
        <3>2. CASE d # n
            <4> DEFINE i == d + 1
            <4>1. i \in 1 .. n /\ 2 * i - 1 = ip BY <1>1, <1>6, <1>8, <3>2
            <4> HIDE DEF i
            <4>2. script[ip] = Push(PubKey(keys[i])) /\ keys[i] \in ElementKey
                BY <1>1, <1>2, <4>1
            <4>3. script[ip].op = "push" /\ e = PubKey(keys[i]) /\ e \in Element
                BY <4>2, ElementTypes
            <4> QED BY <3>2, <4>3 DEF i
        <3> QED BY <3>1, <3>2
    <2>2. After(script[ip]) = {s} BY <2>1 DEF After
    <2> HIDE DEF e
    <2>3. /\ s \in Seq(Element) /\ Len(s) = L + 1
          /\ \A i \in 1 .. L : s[i] = stack[i]
          /\ s[L + 1] = e
        BY <1>3, <2>1, StackOperations DEF L
    <2> HIDE DEF s
    <2>4. L = n - d + counter BY <1>1, <1>5, <1>6, <1>8
    <2>5. ip + 1 = 2 * d + 2 /\ ip + 1 \in 1 .. 2 * n + 3 /\ ip + 1 # 2 * n + 3
        BY <1>1, <1>6, <1>8
    <2>6. Len(s) = n - d + counter + ((ip + 1) - (2 * d + 1))
        <3>1. (ip + 1) - (2 * d + 1) = 1
            <4>1. (2 * d + 2) - (2 * d + 1) = 1 BY <1>6
            <4> QED BY <2>5, <4>1
        <3>2. Len(s) = n - d + counter + 1 BY <1>1, <1>6, <2>3, <2>4
        <3> QED BY <3>1, <3>2
    <2>7. \A i \in d + 1 .. n : s[n + 1 - i] = Slot(keys, T, i)
        <3>1. \A i \in d + 1 .. n : n + 1 - i \in 1 .. L BY <1>1, <1>6, <2>4
        <3> QED BY <1>5, <2>3, <3>1
    <2>8. d # 0 => s[n + 1 - d] = Number(CountTo(T, d))
        <3>1. d # 0 => n + 1 - d \in 1 .. L BY <1>1, <1>6, <2>4
        <3> QED BY <1>5, <2>3, <3>1
    <2>9. s[Len(s)] = IF d = n THEN Number(m) ELSE PubKey(keys[d + 1])
        BY <2>1, <2>3
    <2>10. \A c \in 0 .. n : ip + 1 \in {2 * c + 1, 2 * c + 2} => c = d
        BY <1>6, <2>5
    <2>11. TapscriptAt(s, ip + 1, m, keys, T)
        <3>1. /\ s \in Seq(Element) /\ ip + 1 \in 1 .. 2 * n + 3
              /\ T \subseteq 1 .. n /\ Cardinality(T) = m
              /\ ip + 1 # 2 * n + 3
            BY <1>3, <2>3, <2>5
        <3>2. TapscriptMid(s, ip + 1, m, keys, T, d)
            BY <2>6, <2>7, <2>8, <2>9 DEF TapscriptMid, n, counter
        <3> QED BY <2>10, <3>1, <3>2 DEF TapscriptAt, n
    <2> QED BY <2>2, <2>11
<1>9. CASE ip = 2 * d + 2 /\ d # n
    <2> DEFINE i == d + 1
               v == IF i \in T THEN 1 ELSE 0
    <2>1. i \in 1 .. n /\ 2 * i = ip /\ d \in 0 .. n - 1 BY <1>1, <1>6, <1>9
    <2>2. L = n - d + counter + 1 BY <1>1, <1>5, <1>6, <1>9
    <2>3. Top(1) = PubKey(keys[i])
        <3>1. L + 1 - 1 = L BY <1>1
        <3> QED BY <1>5, <1>9, <3>1 DEF Top, L
    <2>4. stack[n - d] = Slot(keys, T, i)
        <3>1. n + 1 - i = n - d /\ i \in d + 1 .. n BY <1>1, <1>6, <2>1
        <3> HIDE DEF i
        <3> QED BY <1>5, <3>1
    <2>5. Outcome(Slot(keys, T, i), PubKey(keys[i])) = {Number(v)}
        <3> HIDE DEF i
        <3> QED BY <1>3, <2>1, SlotOutcome DEF n
    <2> DEFINE rest == SubSeq(stack, 1, n - d - 1)
               e == Number(CountTo(T, i))
               s == Append(rest, e)
    <2>6. CountTo(T, i) = CountTo(T, d) + v /\ CountTo(T, i) \in Nat BY <1>7, <2>1
    <2>7. After(script[ip]) = {s}
        <3>1. CASE d = 0
            <4>1. script[ip].op = "checksig" BY <1>2, <2>1, <3>1, ElementTypes
            <4>2. Top(2) = Slot(keys, T, i)
                <5>1. L + 1 - 2 = n - d BY <1>1, <1>6, <2>2, <3>1
                <5> QED BY <2>4, <5>1 DEF Top, L
            <4>3. Rest(2) = rest
                <5>1. L - 2 = n - d - 1 BY <1>1, <1>6, <2>2, <3>1
                <5> QED BY <5>1 DEF Rest, L
            <4>4. After(script[ip]) = {Append(Rest(2), u) : u \in Outcome(Top(2), Top(1))}
                BY <4>1 DEF After
            <4>5. Number(v) = e BY <1>7, <2>6, <3>1
            <4> HIDE DEF v, e, rest, i
            <4> QED BY <2>3, <2>5, <4>2, <4>3, <4>4, <4>5
        <3>2. CASE d # 0
            <4>1. script[ip].op = "checksigadd" BY <1>2, <1>6, <2>1, <3>2, ElementTypes
            <4>2. Top(3) = Slot(keys, T, i) /\ Top(2) = Number(CountTo(T, d))
                <5>1. L + 1 - 3 = n - d /\ L + 1 - 2 = n + 1 - d BY <1>1, <1>6, <2>2, <3>2
                <5> QED BY <1>5, <2>4, <3>2, <5>1 DEF Top, L
            <4>3. Rest(3) = rest
                <5>1. L - 3 = n - d - 1 BY <1>1, <1>6, <2>2, <3>2
                <5> QED BY <5>1 DEF Rest, L
            <4>4. After(script[ip])
                    = {Append(Rest(3), Number(Top(2).n + u.n)) : u \in Outcome(Top(3), Top(1))}
                BY <4>1 DEF After
            <4>5. Number(Top(2).n + Number(v).n) = e BY <2>6, <4>2, ElementTypes
            <4> HIDE DEF v, e, rest, i
            <4> QED BY <2>3, <2>5, <4>2, <4>3, <4>4, <4>5
        <3> QED BY <3>1, <3>2
    <2>8. e \in Element BY <2>6, ElementTypes
    <2>9. /\ rest \in Seq(Element) /\ Len(rest) = n - d - 1
          /\ \A k \in 1 .. n - d - 1 : rest[k] = stack[k]
        <3>1. 1 \in 1 .. L + 1 /\ n - d - 1 \in 0 .. L /\ 1 <= n - d - 1 + 1
            BY <1>1, <1>6, <2>1, <2>2
        <3> DEFINE to == n - d - 1
        <3>2. to \in Int BY <1>1, <1>6
        <3> HIDE DEF to
        <3>3. /\ SubSeq(stack, 1, to) \in Seq(Element)
              /\ Len(SubSeq(stack, 1, to)) = to - 1 + 1
              /\ \A k \in 1 .. to - 1 + 1 : SubSeq(stack, 1, to)[k] = stack[1 + k - 1]
            <4> HIDE DEF e
            <4> QED BY <1>3, <2>8, <3>1, StackOperations DEF L, to
        <3>4. to - 1 + 1 = to /\ \A k \in 1 .. to : 1 + k - 1 = k BY <3>2
        <3> QED BY <3>3, <3>4 DEF to
    <2> HIDE DEF e, rest
    <2>10. /\ s \in Seq(Element) /\ Len(s) = n - d
           /\ \A k \in 1 .. n - d - 1 : s[k] = stack[k]
           /\ s[n - d] = e
        <3>1. /\ s \in Seq(Element) /\ Len(s) = Len(rest) + 1
              /\ \A k \in 1 .. Len(rest) : s[k] = rest[k]
              /\ s[Len(rest) + 1] = e
            BY <2>8, <2>9, StackOperations
        <3> HIDE DEF s
        <3>2. Len(rest) + 1 = n - d BY <1>1, <1>6, <2>9
        <3> QED BY <2>9, <3>1, <3>2
    <2> HIDE DEF s
    <2>11. ip + 1 = 2 * i + 1 /\ ip + 1 \in 1 .. 2 * n + 3 /\ ip + 1 # 2 * n + 3
        BY <1>1, <2>1
    <2>12. Len(s) = n - i + 1 + ((ip + 1) - (2 * i + 1))
        <3>1. (ip + 1) - (2 * i + 1) = 0
            <4>1. (2 * i + 1) - (2 * i + 1) = 0 BY <1>6
            <4> HIDE DEF i
            <4> QED BY <2>11, <4>1
        <3>2. Len(s) = n - i + 1 BY <1>1, <1>6, <2>10
        <3>3. n - i + 1 + 0 = n - i + 1 BY <1>1, <1>6
        <3> HIDE DEF i
        <3> QED BY <3>1, <3>2, <3>3
    <2>13. \A k \in i + 1 .. n : s[n + 1 - k] = Slot(keys, T, k)
        <3>1. \A k \in i + 1 .. n : n + 1 - k \in 1 .. n - d - 1 /\ k \in d + 1 .. n
            BY <1>1, <1>6, <2>1
        <3> QED BY <1>5, <2>10, <3>1
    <2>14. s[n + 1 - i] = Number(CountTo(T, i))
        <3>1. n + 1 - i = n - d BY <1>1, <1>6
        <3> QED BY <2>10, <3>1 DEF e
    <2>15. \A c \in 0 .. n : ip + 1 \in {2 * c + 1, 2 * c + 2} => c = i
        BY <1>6, <2>11
    <2>16. TapscriptAt(s, ip + 1, m, keys, T)
        <3>1. /\ s \in Seq(Element) /\ ip + 1 \in 1 .. 2 * n + 3
              /\ T \subseteq 1 .. n /\ Cardinality(T) = m
              /\ ip + 1 # 2 * n + 3 /\ i # 0 /\ ip + 1 # 2 * i + 2
            BY <1>3, <1>6, <2>1, <2>10, <2>11
        <3> HIDE DEF i
        <3>2. TapscriptMid(s, ip + 1, m, keys, T, i)
            BY <2>12, <2>13, <2>14, <3>1 DEF TapscriptMid, n
        <3> QED BY <2>15, <3>1, <3>2 DEF TapscriptAt, n
    <2> QED BY <2>7, <2>16
<1>10. CASE ip = 2 * d + 2 /\ d = n
    <2>1. L = 2 BY <1>1, <1>5, <1>6, <1>10
    <2>2. stack[1] = Number(m) /\ stack[2] = Number(m)
        <3>1. n + 1 - d = 1 BY <1>1, <1>10
        <3> QED BY <1>1, <1>5, <1>7, <1>10, <2>1, <3>1
    <2>3. Top(1) = Top(2) /\ Rest(2) = <<>>
        <3>1. Len(stack) + 1 - 1 = 2 /\ Len(stack) + 1 - 2 = 1 /\ Len(stack) - 2 = 0
            BY <2>1 DEF L
        <3>2. SubSeq(stack, 1, 0) = <<>> BY <1>3
        <3> QED BY <2>2, <3>1, <3>2 DEF Top, Rest
    <2>4. script[ip].op = TAPSCRIPT_NUMEQUAL BY <1>2, <1>10, ElementTypes
    <2>5. \E s \in {<<>>, <<Number(1)>>} : After(script[ip]) = {s}
        <3>1. CASE TAPSCRIPT_NUMEQUAL = "numequal"
            <4>1. After(script[ip])
                    = {Append(Rest(2), Number(IF Top(1) = Top(2) THEN 1 ELSE 0))}
                BY <2>4, <3>1 DEF After
            <4>2. Append(<<>>, Number(1)) = <<Number(1)>> OBVIOUS
            <4> QED BY <2>3, <4>1, <4>2
        <3>2. CASE TAPSCRIPT_NUMEQUAL = "numequalverify"
            <4>1. After(script[ip]) = {s \in {Rest(2)} : Top(1) = Top(2)}
                BY <2>4, <3>2 DEF After
            <4>2. After(script[ip]) = {<<>>} BY <2>3, <4>1
            <4> QED BY <4>2
        <3> QED BY <3>1, <3>2, TerminatorAssumption
    <2>6. PICK s \in {<<>>, <<Number(1)>>} : After(script[ip]) = {s} BY <2>5
    <2>7. s \in Seq(Element)
        <3>1. Number(1) \in Element BY ElementTypes
        <3>2. <<>> \in Seq(Element) /\ <<Number(1)>> \in Seq(Element) BY <3>1
        <3> QED BY <3>2
    <2>8. /\ ip + 1 = 2 * n + 3 /\ ip + 1 \in 1 .. 2 * n + 3
          /\ \A c \in 0 .. n : ip + 1 \notin {2 * c + 1, 2 * c + 2}
        BY <1>1, <1>10
    <2>9. TapscriptAt(s, ip + 1, m, keys, T)
        BY <1>3, <2>7, <2>8 DEF TapscriptAt, n
    <2> QED BY <2>6, <2>9
<1> QED BY <1>4, <1>8, <1>9, <1>10

----------------------------------------------------------------------------
(* What the finalizer lays out *)

\* The quorum of a script the recognisers let through.
Proper(m, keys) ==
    /\ m \in Nat /\ keys \in Seq(ElementKey)
    /\ 1 <= m /\ m <= Len(keys)
    /\ \A i, j \in DOMAIN keys : keys[i] = keys[j] => i = j

\* Of the members that signed the first m are taken, in script order.
LEMMA TakenFacts ==
    ASSUME script \in Seq(Instruction), Canonical(script),
           Len(MemberSigs) >= ThresholdOf(script)
    PROVE  LET m == ThresholdOf(script)
               keys == KeysOf(script)
           IN  /\ Len(Taken) = m /\ DOMAIN Taken = 1 .. m
               /\ \E h \in [1 .. m -> 1 .. Len(keys)] :
                    /\ \A i, j \in 1 .. m : i < j => h[i] < h[j]
                    /\ \A i \in 1 .. m : Taken[i] = keys[h[i]]
<1> DEFINE m == ThresholdOf(script)
           keys == KeysOf(script)
           n == Len(keys)
           part(i) == IF keys[i] \in partial_sigs THEN <<keys[i]>> ELSE <<>>
           parts == [i \in DOMAIN keys |-> part(i)]
           sigs == MemberSigs
<1>1. keys \in Seq(ElementKey) /\ m \in 1 .. n BY CanonicalFacts
<1>2. sigs = FlattenSeq(parts) BY DEF MemberSigs
<1>3. Taken = SubSeq(sigs, 1, m) /\ Len(sigs) >= m BY DEF Taken
<1> HIDE DEF m, keys, sigs
<1>4. n \in Nat /\ DOMAIN keys = 1 .. n /\ \A i \in 1 .. n : keys[i] \in ElementKey BY <1>1
<1>5. \A i \in 1 .. n : part(i) \in Seq(ElementKey) /\ Len(part(i)) <= 1
                        /\ (part(i) = <<keys[i]>> \/ part(i) = <<>>)
    BY <1>4
<1> HIDE DEF part, n
<1>6. parts \in Seq(Seq(ElementKey)) /\ DOMAIN parts = 1 .. n
      /\ \A i \in 1 .. n : parts[i] = part(i)
    <2>1. parts \in [1 .. n -> Seq(ElementKey)] BY <1>4, <1>5
    <2>2. \A i \in 1 .. n : parts[i] = part(i) BY <1>4
    <2> HIDE DEF parts
    <2> QED BY <1>4, <2>1, <2>2, FunctionIsSeq
<1> HIDE DEF parts
<1>7. PICK g \in [DOMAIN sigs -> DOMAIN parts] :
        /\ \A i, j \in DOMAIN sigs : i < j => g[i] < g[j]
        /\ \A i \in DOMAIN sigs : parts[g[i]] = <<sigs[i]>>
    <2>1. \A i \in DOMAIN parts : Len(parts[i]) <= 1 BY <1>5, <1>6
    <2> QED BY <1>2, <1>6, <2>1, FlattenPicks
<1>8. ASSUME NEW i \in DOMAIN sigs
      PROVE  g[i] \in 1 .. n /\ sigs[i] = keys[g[i]]
    <2>1. g[i] \in 1 .. n /\ part(g[i]) = <<sigs[i]>> BY <1>6, <1>7
    <2>2. part(g[i]) # <<>> BY <2>1
    <2> DEFINE v == keys[g[i]]
    <2>3. <<sigs[i]>> = <<v>> BY <1>5, <2>1, <2>2
    <2> HIDE DEF v
    <2>4. <<sigs[i]>>[1] = sigs[i] /\ <<v>>[1] = v OBVIOUS
    <2>5. sigs[i] = v BY <2>3, <2>4
    <2> QED BY <2>1, <2>5 DEF v
<1>9. sigs \in Seq(ElementKey) BY <1>2, <1>6, FlattenSeqType
<1>10. Len(sigs) \in Nat /\ DOMAIN sigs = 1 .. Len(sigs) /\ 1 .. m \subseteq DOMAIN sigs
    BY <1>1, <1>3, <1>4, <1>9 DEF n
<1>11. /\ Len(SubSeq(sigs, 1, m)) = m /\ DOMAIN SubSeq(sigs, 1, m) = 1 .. m
       /\ \A i \in 1 .. m : SubSeq(sigs, 1, m)[i] = sigs[i]
    <2>1. m \in Nat /\ Len(sigs) \in Nat /\ m <= Len(sigs) BY <1>1, <1>3, <1>4, <1>10
    <2> QED BY <1>9, <2>1
<1> DEFINE h == [i \in 1 .. m |-> g[i]]
<1>12. h \in [1 .. m -> 1 .. n] BY <1>8, <1>10
<1>13. \A i \in 1 .. m : h[i] = g[i] OBVIOUS
<1> HIDE DEF h
<1>14. \A i, j \in 1 .. m : i < j => h[i] < h[j] BY <1>7, <1>10, <1>13
<1>15. \A i \in 1 .. m : Taken[i] = keys[h[i]] BY <1>3, <1>8, <1>10, <1>11, <1>13
<1> QED BY <1>3, <1>11, <1>12, <1>14, <1>15 DEF m, keys, n

\* What an increasing choice of members comes to.
LEMMA MembersChosen ==
    ASSUME NEW m \in Nat, NEW n \in Nat, NEW h \in [1 .. m -> 1 .. n],
           \A i, j \in 1 .. m : i < j => h[i] < h[j]
    PROVE  /\ {h[i] : i \in 1 .. m} \subseteq 1 .. n
           /\ IsFiniteSet({h[i] : i \in 1 .. m})
           /\ Cardinality({h[i] : i \in 1 .. m}) = m
<1>1. \A i, j \in 1 .. m : h[i] = h[j] => i = j
    <2> SUFFICES ASSUME NEW i \in 1 .. m, NEW j \in 1 .. m, h[i] = h[j]
                 PROVE  i = j
        OBVIOUS
    <2>1. h[i] \in Int /\ h[j] \in Int OBVIOUS
    <2>2. ~(i < j) /\ ~(j < i) BY <2>1
    <2> QED BY <2>2
<1> DEFINE S == 1 .. m
<1>2. h = [i \in S |-> h[i]] /\ \A i, j \in S : h[i] = h[j] => i = j BY <1>1
<1>3. IsFiniteSet(S) /\ Cardinality(S) = m BY FS_Interval
<1> HIDE DEF S
<1>4. IsFiniteSet(Image(h, S)) /\ Cardinality(Image(h, S)) = Cardinality(S)
    BY <1>2, <1>3, InjectiveImage
<1> QED BY <1>3, <1>4 DEF S, Image

\* The witness of a CHECKMULTISIG spend.
LEMMA MultisigStart ==
    ASSUME script \in Seq(Instruction), Canonical(script),
           Len(MemberSigs) >= ThresholdOf(script)
    PROVE  \E g : MultisigAt(MultisigWitness, 1, ThresholdOf(script), KeysOf(script), g)
<1> DEFINE m == ThresholdOf(script)
           keys == KeysOf(script)
           n == Len(keys)
           a == <<Empty>>
           b == [i \in DOMAIN Taken |-> Signature(Taken[i])]
<1>1. keys \in Seq(ElementKey) /\ m \in 1 .. n BY CanonicalFacts
<1>2. /\ Len(Taken) = m /\ DOMAIN Taken = 1 .. m
      /\ \E h \in [1 .. m -> 1 .. n] :
           /\ \A i, j \in 1 .. m : i < j => h[i] < h[j]
           /\ \A i \in 1 .. m : Taken[i] = keys[h[i]]
    BY TakenFacts
<1>3. MultisigWitness = a \o b BY DEF MultisigWitness
<1> HIDE DEF m, keys
<1>4. PICK h \in [1 .. m -> 1 .. n] :
        /\ \A i, j \in 1 .. m : i < j => h[i] < h[j]
        /\ \A i \in 1 .. m : Taken[i] = keys[h[i]]
    BY <1>2
<1>5. n \in Nat /\ m \in Nat /\ DOMAIN keys = 1 .. n BY <1>1
<1>6. a \in Seq(Element) /\ Len(a) = 1 /\ a[1] = Empty
    <2>1. Empty \in Element BY ElementTypes
    <2> HIDE DEF Empty
    <2> QED BY <2>1
<1>7. b \in Seq(Element) /\ Len(b) = m /\ \A i \in 1 .. m : b[i] = Signature(keys[h[i]])
    <2>1. \A i \in 1 .. m : Signature(Taken[i]) \in Element
        <3>1. \A i \in 1 .. m : Taken[i] \in ElementKey BY <1>1, <1>4, <1>5
        <3> QED BY <3>1, ElementTypes
    <2>2. b \in [1 .. m -> Element] BY <1>2, <2>1
    <2>3. \A i \in 1 .. m : b[i] = Signature(keys[h[i]]) BY <1>2, <1>4
    <2> HIDE DEF b
    <2> QED BY <1>5, <2>2, <2>3, FunctionIsSeq
<1> HIDE DEF n, a, b
<1> DEFINE s == a \o b
<1>8. /\ s \in Seq(Element) /\ Len(s) = Len(a) + Len(b)
      /\ \A i \in 1 .. Len(a) : s[i] = a[i]
      /\ \A i \in 1 .. Len(b) : s[Len(a) + i] = b[i]
    <2>1. a \in Seq(Element) /\ b \in Seq(Element) BY <1>6, <1>7
    <2> QED BY <2>1, Concatenation
<1> HIDE DEF s
<1>9. /\ Len(s) = m + 1 /\ s[1] = Empty
      /\ \A i \in 1 .. m : s[i + 1] = Signature(keys[h[i]])
    <2>1. \A i \in 1 .. m : s[1 + i] = b[i] /\ i + 1 = 1 + i BY <1>5, <1>6, <1>7, <1>8
    <2>2. Len(s) = m + 1 /\ s[1] = Empty BY <1>5, <1>6, <1>7, <1>8
    <2> QED BY <1>7, <2>1, <2>2
<1>10. MultisigAt(s, 1, m, keys, h)
    <2>1. 1 \in 1 .. n + 4 /\ 1 # n + 4 /\ 1 .. 1 - 1 = {} BY <1>5
    <2> QED BY <1>4, <1>8, <1>9, <2>1 DEF MultisigAt, n
<1> QED BY <1>3, <1>10 DEF s, m, keys

\* The witness of a tapscript spend.
LEMMA TapscriptStart ==
    ASSUME script \in Seq(Instruction), Canonical(script),
           Len(MemberSigs) >= ThresholdOf(script)
    PROVE  \E T : TapscriptAt(TapscriptWitness, 1, ThresholdOf(script), KeysOf(script), T)
<1> DEFINE m == ThresholdOf(script)
           keys == KeysOf(script)
           n == Len(keys)
           slots == [i \in DOMAIN keys |->
                       IF keys[i] \in Range(Taken) THEN Signature(keys[i]) ELSE Empty]
<1>1. /\ keys \in Seq(ElementKey) /\ m \in 1 .. n
      /\ \A i, j \in DOMAIN keys : keys[i] = keys[j] => i = j
    BY CanonicalFacts
<1>2. /\ Len(Taken) = m /\ DOMAIN Taken = 1 .. m
      /\ \E h \in [1 .. m -> 1 .. n] :
           /\ \A i, j \in 1 .. m : i < j => h[i] < h[j]
           /\ \A i \in 1 .. m : Taken[i] = keys[h[i]]
    BY TakenFacts
<1>3. TapscriptWitness = Reverse(slots) BY DEF TapscriptWitness
<1> HIDE DEF m, keys
<1>4. PICK h \in [1 .. m -> 1 .. n] :
        /\ \A i, j \in 1 .. m : i < j => h[i] < h[j]
        /\ \A i \in 1 .. m : Taken[i] = keys[h[i]]
    BY <1>2
<1>5. n \in Nat /\ m \in Nat /\ DOMAIN keys = 1 .. n BY <1>1
<1> HIDE DEF n
<1> DEFINE T == {h[i] : i \in 1 .. m}
<1>6. T \subseteq 1 .. n /\ Cardinality(T) = m BY <1>4, <1>5, MembersChosen
<1>7. \A i \in 1 .. n : keys[i] \in Range(Taken) <=> i \in T
    <2>1. \A i \in 1 .. n : keys[i] \in Range(Taken) <=> \E k \in 1 .. m : keys[i] = keys[h[k]]
        <3>1. \A x : x \in Range(Taken) <=> \E k \in 1 .. m : x = Taken[k] BY <1>2 DEF Range
        <3> SUFFICES ASSUME NEW i \in 1 .. n
                     PROVE  keys[i] \in Range(Taken) <=> \E k \in 1 .. m : keys[i] = keys[h[k]]
            OBVIOUS
        <3>2. keys[i] \in Range(Taken) <=> \E k \in 1 .. m : keys[i] = Taken[k] BY <3>1
        <3> QED BY <1>4, <3>2
    <2>2. \A i \in 1 .. n, k \in 1 .. m : keys[i] = keys[h[k]] <=> i = h[k]
        BY <1>1, <1>4, <1>5
    <2>3. \A i \in 1 .. n : (\E k \in 1 .. m : keys[i] = keys[h[k]]) <=> (\E k \in 1 .. m : i = h[k])
        <3> SUFFICES ASSUME NEW i \in 1 .. n
                     PROVE  (\E k \in 1 .. m : keys[i] = keys[h[k]]) <=> (\E k \in 1 .. m : i = h[k])
            OBVIOUS
        <3> QED BY <2>2
    <2>4. \A i : i \in T <=> \E k \in 1 .. m : i = h[k] OBVIOUS
    <2> HIDE DEF T
    <2> QED BY <2>1, <2>3, <2>4
<1> HIDE DEF T
<1>8. \A i \in 1 .. n : slots[i] = Slot(keys, T, i) BY <1>5, <1>7 DEF Slot
<1>9. slots \in [1 .. n -> Element]
    <2>1. \A i \in 1 .. n : Signature(keys[i]) \in Element /\ Empty \in Element
        BY <1>1, <1>5, ElementTypes
    <2> HIDE DEF Empty
    <2> QED BY <1>5, <2>1
<1> HIDE DEF slots
<1>10. Len(slots) = n /\ slots \in Seq(Element) BY <1>5, <1>9, FunctionIsSeq
<1> DEFINE s == [i \in 1 .. n |-> slots[n - i + 1]]
<1>11. TapscriptWitness = s BY <1>3, <1>10 DEF Reverse
<1>12. s \in [1 .. n -> Element]
    <2>1. \A i \in 1 .. n : n - i + 1 \in 1 .. n BY <1>5
    <2> QED BY <1>9, <2>1
<1>13. \A i \in 1 .. n : s[n + 1 - i] = Slot(keys, T, i)
    <2> SUFFICES ASSUME NEW i \in 1 .. n PROVE s[n + 1 - i] = Slot(keys, T, i) OBVIOUS
    <2>1. n + 1 - i \in 1 .. n /\ n - (n + 1 - i) + 1 = i BY <1>5
    <2>2. s[n + 1 - i] = slots[n - (n + 1 - i) + 1] BY <2>1
    <2> QED BY <1>8, <2>1, <2>2
<1> HIDE DEF s
<1>14. s \in Seq(Element) /\ Len(s) = n BY <1>5, <1>12, FunctionIsSeq
<1>15. TapscriptMid(s, 1, m, keys, T, 0)
    <2>1. n - 0 + 0 + (1 - (2 * 0 + 1)) = n /\ 0 + 1 .. n = 1 .. n /\ 1 # 2 * 0 + 2 BY <1>5
    <2> QED BY <1>13, <1>14, <2>1 DEF TapscriptMid, n
<1>16. TapscriptAt(s, 1, m, keys, T)
    <2>1. /\ 1 \in 1 .. 2 * n + 3 /\ 1 # 2 * n + 3
          /\ \A d \in 0 .. n : 1 \in {2 * d + 1, 2 * d + 2} => d = 0
        BY <1>5
    <2> QED BY <1>6, <1>14, <1>15, <2>1 DEF TapscriptAt, n
<1> QED BY <1>11, <1>16 DEF m, keys

----------------------------------------------------------------------------
(* The invariant of a quorum output *)

\* A script of ms_create_address: a threshold and a set of keys, sorted.
DerivedScript(s) ==
    \E m \in Nat, K \in SUBSET ElementKey :
        IsFiniteSet(K) /\ s = Script(m, InOrderOf(K))

\* A node that runs a spend of a canonical script.
Running ==
    \E m \in Nat, keys \in Seq(ElementKey) :
        /\ Proper(m, keys)
        /\ script = Script(m, keys) /\ ThresholdOf(script) = m
        /\ IF ms_form = "p2tr" THEN \E T : TapscriptAt(stack, ip, m, keys, T)
           ELSE \E g : MultisigAt(stack, ip, m, keys, g)

QuorumInv ==
    /\ QuorumTypeOK
    /\ \A p \in Derivers : derived[p] = <<>> \/ DerivedScript(derived[p])
    /\ life = "open" => ip = 1
    /\ life = "running" => Running
    /\ SignaturesFit

\* The types of the keys.
LEMMA KeyTypes ==
    /\ \A k \in CompressedKey : ScriptKey(k) \in ElementKey /\ Typed(k) \in CompressedKey
    /\ Owners \subseteq CompressedKey
BY OwnersAssumption DEF CompressedKey, ElementKey, ScriptKey, Typed

\* What is read from a derived script determines it.
LEMMA DerivedFacts ==
    ASSUME NEW a, DerivedScript(a)
    PROVE  /\ a \in Seq(Instruction) /\ a # <<>>
           /\ \A b : DerivedScript(b) /\ ThresholdOf(a) = ThresholdOf(b)
                       /\ Range(KeysOf(a)) = Range(KeysOf(b)) => a = b
<1>1. ASSUME NEW s, NEW m \in Nat, NEW K \in SUBSET ElementKey, IsFiniteSet(K),
             s = Script(m, InOrderOf(K))
      PROVE  /\ s \in Seq(Instruction) /\ s # <<>>
             /\ ThresholdOf(s) = m /\ Range(KeysOf(s)) = K
    <2> DEFINE keys == InOrderOf(K)
    <2>1. keys \in Seq(ElementKey) /\ ToSet(keys) = K BY <1>1, InOrderOfLists
    <2>2. Range(keys) = K BY <2>1 DEF Range, ToSet
    <2>3. s = Script(m, keys) BY <1>1
    <2> HIDE DEF keys
    <2> QED BY <2>1, <2>2, <2>3, ScriptFacts
<1>2. PICK m \in Nat, K \in SUBSET ElementKey :
        IsFiniteSet(K) /\ a = Script(m, InOrderOf(K))
    BY DEF DerivedScript
<1>3. ASSUME NEW b, DerivedScript(b), ThresholdOf(a) = ThresholdOf(b),
             Range(KeysOf(a)) = Range(KeysOf(b))
      PROVE  a = b
    <2>1. PICK l \in Nat, J \in SUBSET ElementKey :
            IsFiniteSet(J) /\ b = Script(l, InOrderOf(J))
        BY <1>3 DEF DerivedScript
    <2>2. l = m /\ J = K BY <1>1, <1>2, <1>3, <2>1
    <2> QED BY <1>2, <2>1, <2>2
<1>4. a \in Seq(Instruction) /\ a # <<>> BY <1>1, <1>2
<1> QED BY <1>3, <1>4

\* A cosigner derives a script of that kind.
LEMMA AddressDerived ==
    ASSUME NEW p \in Derivers, NEW m \in Thresholds, NEW keys \in Arguments
    PROVE  DerivedScript(Script(m, Sorted(Range(Append(keys, p)))))
<1> DEFINE typed == Append(keys, p)
           K == {ScriptKey(k) : k \in Range(typed)}
<1>1. m \in Nat BY BoundsAssumption
<1>2. p \in CompressedKey BY DeriversAssumption, KeyTypes
<1>3. keys \in Seq(CompressedKey)
    <2>1. PICK len \in 0 .. Cardinality(Owners) - 1 : keys \in [1 .. len -> {Typed(k) : k \in Owners}]
        BY DEF Arguments
    <2>2. {Typed(k) : k \in Owners} \subseteq CompressedKey BY KeyTypes
    <2>3. len \in Nat BY <2>1
    <2>4. keys \in [1 .. len -> CompressedKey] BY <2>1, <2>2
    <2> QED BY <2>3, <2>4, FunctionIsSeq
<1>4. typed \in Seq(CompressedKey) BY <1>2, <1>3
<1> HIDE DEF typed
<1> DEFINE n == Len(typed)
           f == [i \in 1 .. n |-> ScriptKey(typed[i])]
<1>5. n \in Nat /\ DOMAIN typed = 1 .. n /\ \A i \in 1 .. n : typed[i] \in CompressedKey BY <1>4
<1> HIDE DEF n
<1>6. K = {f[i] : i \in 1 .. n} BY <1>5 DEF Range
<1>7. IsFiniteSet({f[i] : i \in 1 .. n})
    <2> DEFINE S == 1 .. n
    <2>1. DOMAIN f = S /\ f = [i \in S |-> f[i]] OBVIOUS
    <2>2. IsFiniteSet(S) BY <1>5, FS_Interval
    <2> HIDE DEF S, f
    <2>3. IsFiniteSet({f[i] : i \in S}) BY <2>1, <2>2, FiniteImage
    <2> QED BY <2>3 DEF S
<1>8. K \subseteq ElementKey BY <1>5, KeyTypes DEF Range
<1>9. Sorted(Range(typed)) = InOrderOf(K) BY DEF Sorted
<1> HIDE DEF K, f
<1> QED BY <1>1, <1>6, <1>7, <1>8, <1>9 DEF DerivedScript, typed

\* Scripts of other software are scripts.
LEMMA ForeignTypes == Foreign \subseteq Seq(Instruction)
<1> DEFINE scripts == {Script(m, [i \in DOMAIN s |-> ScriptKey(s[i])]) :
                          m \in Thresholds \ {0}, s \in ForeignKeys}
<1>1. scripts \subseteq Seq(Instruction)
    <2> DEFINE built(m, s) == Script(m, [i \in DOMAIN s |-> ScriptKey(s[i])])
    <2> SUFFICES ASSUME NEW m \in Thresholds \ {0}, NEW s \in ForeignKeys
                 PROVE  built(m, s) \in Seq(Instruction)
        <3> HIDE DEF built
        <3>1. scripts = {built(m, s) : m \in Thresholds \ {0}, s \in ForeignKeys} BY DEF built
        <3> HIDE DEF scripts
        <3> QED BY <3>1
    <2> DEFINE keys == [i \in DOMAIN s |-> ScriptKey(s[i])]
               n == Len(s)
    <2>1. s \in Seq(CompressedKey) BY ForeignAssumption, KeyTypes
    <2>2. n \in Nat /\ DOMAIN s = 1 .. n /\ \A i \in 1 .. n : s[i] \in CompressedKey BY <2>1
    <2> HIDE DEF n
    <2>3. keys \in [1 .. n -> ElementKey] BY <2>2, KeyTypes
    <2> HIDE DEF keys
    <2>4. keys \in Seq(ElementKey) BY <2>2, <2>3, FunctionIsSeq
    <2>5. m \in Nat BY BoundsAssumption
    <2>6. Script(m, keys) \in Seq(Instruction) BY <2>4, <2>5, ScriptFacts
    <2> QED BY <2>6 DEF keys
<1>2. ASSUME NEW s \in scripts
      PROVE  [s EXCEPT ![Len(s)] = Op("numequal")] \in Seq(Instruction)
    <2>1. s \in Seq(Instruction) BY <1>1
    <2>2. Op("numequal") \in Instruction BY ElementTypes
    <2> DEFINE n == Len(s)
               t == [s EXCEPT ![n] = Op("numequal")]
    <2>3. n \in Nat /\ s \in [1 .. n -> Instruction] BY <2>1
    <2> HIDE DEF scripts, n
    <2>4. t \in [1 .. n -> Instruction] BY <2>2, <2>3
    <2> HIDE DEF t
    <2>5. t \in Seq(Instruction) BY <2>3, <2>4, FunctionIsSeq
    <2> QED BY <2>5 DEF t, n
<1> HIDE DEF scripts
<1>3. Foreign = scripts \cup {[s EXCEPT ![Len(s)] = Op("numequal")] :
                                 s \in {t \in scripts : ms_form = "p2tr"}}
    BY DEF Foreign, scripts
<1> QED BY <1>1, <1>2, <1>3

\* Before anything is derived.
LEMMA InitQuorum == QuorumInit => QuorumInv
<1> SUFFICES ASSUME QuorumInit PROVE QuorumInv OBVIOUS
<1>1. /\ derived \in [Derivers -> Seq(Instruction)]
      /\ \A p \in Derivers : derived[p] = <<>>
    <2>1. derived = [p \in Derivers |-> <<>>] BY DEF QuorumInit
    <2>2. <<>> \in Seq(Instruction) OBVIOUS
    <2> QED BY <2>1, <2>2
<1>2. script = <<>> /\ stack = <<>> /\ Len(script) = 0 BY DEF QuorumInit
<1>3. QuorumTypeOK BY <1>1, <1>2 DEF QuorumInit, QuorumTypeOK
<1> QED BY <1>1, <1>3 DEF QuorumInit, QuorumInv, SignaturesFit

\* What the encoding of the output decides does not change with the state.
LEMMA SameForm ==
    ASSUME ms_form' = ms_form
    PROVE  /\ \A k : ScriptKey(k)' = ScriptKey(k)
           /\ \A s : DerivedScript(s) => DerivedScript(s)'
<1>1. \A k : ScriptKey(k)' = ScriptKey(k) BY DEF ScriptKey
<1>2. \A m, keys : Script(m, keys)' = Script(m, keys) BY DEF Script
<1> QED BY <1>1, <1>2 DEF DerivedScript

\* ms_create_address adds a derived script.
LEMMA AddressQuorum ==
    ASSUME QuorumInv, NEW p \in Derivers, MsCreateAddress(p)
    PROVE  QuorumInv'
<1>1. /\ life = "open" /\ life' = life /\ ms_form' = ms_form /\ script' = script
      /\ partial_sigs' = partial_sigs /\ stack' = stack /\ ip' = ip
    BY DEF MsCreateAddress
<1>2. PICK m \in Thresholds, keys \in Arguments :
        derived' = [derived EXCEPT ![p] = Script(m, Sorted(Range(Append(keys, p))))]
    BY DEF MsCreateAddress
<1> DEFINE d == Script(m, Sorted(Range(Append(keys, p))))
<1>3. DerivedScript(d) BY AddressDerived
<1>4. d \in Seq(Instruction) BY <1>3, DerivedFacts
<1>5. derived' = [derived EXCEPT ![p] = d] BY <1>2
<1> HIDE DEF d
<1>6. derived' \in [Derivers -> Seq(Instruction)]
    BY <1>4, <1>5 DEF QuorumInv, QuorumTypeOK
<1>7. \A q \in Derivers : derived'[q] = <<>> \/ DerivedScript(derived'[q])
    BY <1>3, <1>5 DEF QuorumInv, QuorumTypeOK
<1>8. \A q \in Derivers : (derived[q] = <<>> \/ DerivedScript(derived[q]))'
    <2> SUFFICES ASSUME NEW q \in Derivers PROVE (derived[q] = <<>> \/ DerivedScript(derived[q]))'
        OBVIOUS
    <2>1. PICK s : s = derived'[q] OBVIOUS
    <2>2. s = <<>> \/ DerivedScript(s)' BY <1>1, <1>7, <2>1, SameForm
    <2> QED BY <2>1, <2>2 DEF DerivedScript
<1>9. \A k : ScriptKey(k)' = ScriptKey(k) BY <1>1, SameForm
<1>10. QuorumTypeOK'
    <2>1. partial_sigs' \subseteq {ScriptKey(k)' : k \in Owners}
        BY <1>1, <1>9 DEF QuorumInv, QuorumTypeOK
    <2> QED BY <1>1, <1>6, <2>1 DEF QuorumInv, QuorumTypeOK
<1> QED BY <1>1, <1>8, <1>10 DEF QuorumInv, SignaturesFit

\* The steps that leave the derived scripts alone.
LEMMA SameDerived ==
    ASSUME QuorumInv, ms_form' = ms_form, derived' = derived
    PROVE  /\ ms_form' \in Forms /\ derived' \in [Derivers -> Seq(Instruction)]
           /\ \A p \in Derivers : (derived[p] = <<>> \/ DerivedScript(derived[p]))'
           /\ \A k : ScriptKey(k)' = ScriptKey(k)
<1>1. \A p \in Derivers : (derived[p] = <<>> \/ DerivedScript(derived[p]))'
    <2> SUFFICES ASSUME NEW p \in Derivers PROVE (derived[p] = <<>> \/ DerivedScript(derived[p]))'
        OBVIOUS
    <2>1. PICK s : s = derived[p] OBVIOUS
    <2>2. s = <<>> \/ DerivedScript(s)' BY <2>1, SameForm DEF QuorumInv
    <2> QED BY <2>1, <2>2 DEF DerivedScript
<1> QED BY <1>1, SameForm DEF QuorumInv, QuorumTypeOK

\* A payment fixes the script of the output.
LEMMA FundQuorum == QuorumInv /\ Fund => QuorumInv'
<1> SUFFICES ASSUME QuorumInv, Fund PROVE QuorumInv' OBVIOUS
<1>1. /\ life = "open" /\ life' = life /\ ms_form' = ms_form /\ derived' = derived
      /\ partial_sigs' = partial_sigs /\ stack' = stack /\ ip' = ip /\ ip = 1
    BY DEF Fund, QuorumInv
<1>2. script' \in Seq(Instruction)
    <2>1. CASE script' \in Range(derived) \ {<<>>}
        BY <2>1 DEF Range, QuorumInv, QuorumTypeOK
    <2>2. CASE script' \in Foreign BY <2>2, ForeignTypes
    <2> QED BY <2>1, <2>2 DEF Fund
<1>3. ip' \in 1 .. Len(script') + 1
    <2>1. Len(script') \in Nat BY <1>2
    <2> QED BY <1>1, <2>1
<1>4. QuorumTypeOK'
    <2>1. partial_sigs' \subseteq {ScriptKey(k)' : k \in Owners}
        BY <1>1, SameForm DEF QuorumInv, QuorumTypeOK
    <2> QED BY <1>1, <1>2, <1>3, <2>1, SameDerived DEF QuorumInv, QuorumTypeOK
<1> QED BY <1>1, <1>4, SameDerived DEF QuorumInv, SignaturesFit

\* A signature joins the input.
LEMMA SignQuorum ==
    ASSUME QuorumInv, NEW p \in Owners, SignPsbtInput(p) \/ ImportSignature(p)
    PROVE  QuorumInv'
<1>1. /\ life = "open" /\ life' = life /\ ms_form' = ms_form /\ derived' = derived
      /\ script' = script /\ stack' = stack /\ ip' = ip /\ ip = 1
      /\ partial_sigs' = partial_sigs \cup {ScriptKey(p)}
    BY DEF SignPsbtInput, ImportSignature, QuorumInv
<1>2. QuorumTypeOK'
    <2>1. partial_sigs' \subseteq {ScriptKey(k)' : k \in Owners}
        BY <1>1, SameForm DEF QuorumInv, QuorumTypeOK
    <2> QED BY <1>1, <2>1, SameDerived DEF QuorumInv, QuorumTypeOK
<1> QED BY <1>1, <1>2, SameDerived DEF QuorumInv, SignaturesFit

\* The finalizer sets the node to the first instruction of a spend that fits.
LEMMA FinalizeQuorum == QuorumInv /\ FinalizePsbtInput => QuorumInv'
<1> SUFFICES ASSUME QuorumInv, FinalizePsbtInput PROVE QuorumInv' OBVIOUS
<1>1. /\ life' = "running" /\ ms_form' = ms_form /\ derived' = derived
      /\ script' = script /\ ip' = ip /\ ip = 1 /\ partial_sigs' = {}
      /\ Canonical(script) /\ Len(MemberSigs) >= ThresholdOf(script)
      /\ script \in Seq(Instruction)
      /\ stack' = IF ms_form = "p2tr" THEN TapscriptWitness ELSE MultisigWitness
    BY DEF FinalizePsbtInput, QuorumInv, QuorumTypeOK
<1> DEFINE m == ThresholdOf(script)
           keys == KeysOf(script)
<1>2. Proper(m, keys) /\ script = Script(m, keys)
    <2>1. /\ keys \in Seq(ElementKey) /\ m \in 1 .. Len(keys)
          /\ \A i, j \in DOMAIN keys : keys[i] = keys[j] => i = j
          /\ script = Script(m, keys)
        BY <1>1, CanonicalFacts
    <2> HIDE DEF m, keys
    <2>2. Len(keys) \in Nat BY <2>1
    <2> QED BY <2>1, <2>2 DEF Proper
<1>3. ms_form = "p2tr" => \E T : TapscriptAt(stack', 1, m, keys, T)
    BY <1>1, TapscriptStart
<1>4. ms_form # "p2tr" => \E g : MultisigAt(stack', 1, m, keys, g)
    BY <1>1, MultisigStart
<1>5. ThresholdOf(script)' = m BY <1>1 DEF ThresholdOf
<1>6. PICK l, members : l = m /\ members = keys OBVIOUS
<1> HIDE DEF m, keys
<1>7. Running'
    <2>1. Script(l, members)' = Script(l, members) BY <1>1 DEF Script
    <2>2. l \in Nat /\ members \in Seq(ElementKey) BY <1>2, <1>6 DEF Proper
    <2>3. /\ Proper(l, members) /\ script' = Script(l, members)' /\ ThresholdOf(script)' = l
          /\ IF ms_form' = "p2tr" THEN \E T : TapscriptAt(stack', ip', l, members, T)
             ELSE \E g : MultisigAt(stack', ip', l, members, g)
        BY <1>1, <1>2, <1>3, <1>4, <1>5, <1>6, <2>1
    <2> QED BY <2>2, <2>3 DEF Running
<1>8. stack' \in Seq(Element)
    BY <1>1, <1>3, <1>4 DEF TapscriptAt, MultisigAt
<1>9. QuorumTypeOK' BY <1>1, <1>8, SameDerived DEF QuorumInv, QuorumTypeOK
<1> QED BY <1>1, <1>7, <1>9, SameDerived DEF QuorumInv, SignaturesFit

\* One instruction of a running spend.
LEMMA InstructionRuns ==
    ASSUME Running, ip <= Len(script)
    PROVE  \E s : /\ After(script[ip]) = {s} /\ s \in Seq(Element)
                  /\ \E m \in Nat, keys \in Seq(ElementKey) :
                       /\ Proper(m, keys)
                       /\ script = Script(m, keys) /\ ThresholdOf(script) = m
                       /\ IF ms_form = "p2tr" THEN \E T : TapscriptAt(s, ip + 1, m, keys, T)
                          ELSE \E g : MultisigAt(s, ip + 1, m, keys, g)
<1>1. PICK m \in Nat, keys \in Seq(ElementKey) :
        /\ Proper(m, keys)
        /\ script = Script(m, keys) /\ ThresholdOf(script) = m
        /\ IF ms_form = "p2tr" THEN \E T : TapscriptAt(stack, ip, m, keys, T)
           ELSE \E g : MultisigAt(stack, ip, m, keys, g)
    BY DEF Running
<1>2. CASE ms_form = "p2tr"
    <2>1. PICK T : TapscriptAt(stack, ip, m, keys, T) BY <1>1, <1>2
    <2>2. keys # <<>> BY <1>1 DEF Proper
    <2>3. script = MultisigTapscript(m, keys) BY <1>1, <1>2 DEF Script
    <2>4. PICK s : After(script[ip]) = {s} /\ TapscriptAt(s, ip + 1, m, keys, T)
        BY <2>1, <2>2, <2>3, TapscriptStep
    <2>5. s \in Seq(Element) BY <2>4 DEF TapscriptAt
    <2> QED BY <1>1, <1>2, <2>4, <2>5
<1>3. CASE ms_form # "p2tr"
    <2>1. PICK g : MultisigAt(stack, ip, m, keys, g) BY <1>1, <1>3
    <2>2. script = MultisigScript(m, keys) BY <1>1, <1>3 DEF Script
    <2>3. PICK s : After(script[ip]) = {s} /\ MultisigAt(s, ip + 1, m, keys, g)
        BY <2>1, <2>2, MultisigStep
    <2>4. s \in Seq(Element) BY <2>3 DEF MultisigAt
    <2> QED BY <1>1, <1>3, <2>3, <2>4
<1> QED BY <1>2, <1>3

\* An instruction leads to the stack of the next one.
LEMMA ExecuteQuorum == QuorumInv /\ Execute => QuorumInv'
<1> SUFFICES ASSUME QuorumInv, Execute PROVE QuorumInv' OBVIOUS
<1>1. /\ life = "running" /\ Running /\ ip <= Len(script)
      /\ ms_form' = ms_form /\ derived' = derived
      /\ script' = script /\ partial_sigs' = partial_sigs
      /\ ip \in 1 .. Len(script) + 1 /\ script \in Seq(Instruction)
    BY DEF Execute, QuorumInv, QuorumTypeOK
<1>2. PICK s : /\ After(script[ip]) = {s} /\ s \in Seq(Element)
               /\ \E m \in Nat, keys \in Seq(ElementKey) :
                    /\ Proper(m, keys)
                    /\ script = Script(m, keys) /\ ThresholdOf(script) = m
                    /\ IF ms_form = "p2tr" THEN \E T : TapscriptAt(s, ip + 1, m, keys, T)
                       ELSE \E g : MultisigAt(s, ip + 1, m, keys, g)
    BY <1>1, InstructionRuns
<1>3. stack' = s /\ ip' = ip + 1 /\ life' = life
    <2>1. After(script[ip]) # {} BY <1>2
    <2> QED BY <1>2, <2>1 DEF Execute
<1>4. Running'
    <2>1. PICK m \in Nat, keys \in Seq(ElementKey) :
            /\ Proper(m, keys)
            /\ script = Script(m, keys) /\ ThresholdOf(script) = m
            /\ IF ms_form = "p2tr" THEN \E T : TapscriptAt(s, ip + 1, m, keys, T)
               ELSE \E g : MultisigAt(s, ip + 1, m, keys, g)
        BY <1>2
    <2>2. Script(m, keys)' = Script(m, keys) BY <1>1 DEF Script
    <2>3. ThresholdOf(script)' = m BY <1>1, <2>1 DEF ThresholdOf
    <2>4. /\ Proper(m, keys) /\ script' = Script(m, keys)' /\ ThresholdOf(script)' = m
          /\ IF ms_form' = "p2tr" THEN \E T : TapscriptAt(stack', ip', m, keys, T)
             ELSE \E g : MultisigAt(stack', ip', m, keys, g)
        BY <1>1, <1>3, <2>1, <2>2, <2>3
    <2> QED BY <2>4 DEF Running
<1>5. ip' \in 1 .. Len(script') + 1
    <2>1. Len(script) \in Nat BY <1>1
    <2> QED BY <1>1, <1>3, <2>1
<1>6. QuorumTypeOK'
    <2>1. partial_sigs' \subseteq {ScriptKey(k)' : k \in Owners}
        BY <1>1, SameForm DEF QuorumInv, QuorumTypeOK
    <2> QED BY <1>1, <1>2, <1>3, <1>5, <2>1, SameDerived DEF QuorumInv, QuorumTypeOK
<1> QED BY <1>1, <1>3, <1>4, <1>6, SameDerived DEF QuorumInv, SignaturesFit

\* The end of a CHECKMULTISIG spend leaves a true stack.
LEMMA HaltQuorum == QuorumInv /\ Halt => QuorumInv'
<1> SUFFICES ASSUME QuorumInv, Halt PROVE QuorumInv' OBVIOUS
<1>1. /\ life = "running" /\ Running /\ ip > Len(script)
      /\ ms_form' = ms_form /\ derived' = derived /\ script' = script
      /\ partial_sigs' = partial_sigs /\ stack' = stack /\ ip' = ip
      /\ life' = IF StackIsTrue THEN "accepted" ELSE "rejected"
      /\ ip \in 1 .. Len(script) + 1 /\ script \in Seq(Instruction)
    BY DEF Halt, QuorumInv, QuorumTypeOK
<1>2. ip = Len(script) + 1
    <2>1. Len(script) \in Nat BY <1>1
    <2> QED BY <1>1, <2>1
<1>3. ms_form # "p2tr" => StackIsTrue
    <2> SUFFICES ASSUME ms_form # "p2tr" PROVE StackIsTrue OBVIOUS
    <2>1. PICK m \in Nat, keys \in Seq(ElementKey) :
            script = Script(m, keys) /\ \E g : MultisigAt(stack, ip, m, keys, g)
        BY <1>1 DEF Running
    <2>2. Len(script) = Len(keys) + 3 /\ Len(keys) \in Nat BY <2>1, MultisigShape DEF Script
    <2>3. ip = Len(keys) + 4 BY <1>2, <2>2
    <2>4. stack = <<Number(1)>> BY <2>1, <2>3 DEF MultisigAt
    <2>5. Number(1) # Empty BY DEF Number, Empty
    <2> QED BY <2>4, <2>5 DEF StackIsTrue
<1>4. QuorumTypeOK'
    <2>1. partial_sigs' \subseteq {ScriptKey(k)' : k \in Owners}
        BY <1>1, SameForm DEF QuorumInv, QuorumTypeOK
    <2> QED BY <1>1, <2>1, SameDerived DEF QuorumInv, QuorumTypeOK
<1>5. SignaturesFit' BY <1>1, <1>2, <1>3 DEF SignaturesFit
<1> QED BY <1>1, <1>4, <1>5, SameDerived DEF QuorumInv

\* Every step keeps the invariant.
LEMMA NextQuorum == QuorumInv /\ [QuorumNext]_quorum => QuorumInv'
<1> SUFFICES ASSUME QuorumInv, [QuorumNext]_quorum PROVE QuorumInv' OBVIOUS
<1>1. CASE UNCHANGED quorum
    <2>1. /\ life' = life /\ ms_form' = ms_form /\ derived' = derived
          /\ script' = script /\ partial_sigs' = partial_sigs /\ stack' = stack /\ ip' = ip
        BY <1>1 DEF quorum
    <2>2. Running => Running'
        BY <2>1 DEF Running, Script, ThresholdOf
    <2>3. partial_sigs' \subseteq {ScriptKey(k)' : k \in Owners}
        BY <2>1, SameForm DEF QuorumInv, QuorumTypeOK
    <2>4. QuorumTypeOK' BY <2>1, <2>3, SameDerived DEF QuorumInv, QuorumTypeOK
    <2> QED BY <2>1, <2>2, <2>4, SameDerived DEF QuorumInv, SignaturesFit
<1>2. CASE QuorumNext
    BY <1>2, AddressQuorum, FundQuorum, SignQuorum, FinalizeQuorum, ExecuteQuorum,
       HaltQuorum DEF QuorumNext
<1> QED BY <1>1, <1>2

\* The invariant holds along every behaviour.
LEMMA QuorumInvariance == QuorumSpec => []QuorumInv
<1> QED BY InitQuorum, NextQuorum, PTL DEF QuorumSpec

\* The slots the finalizer fills and the instructions the node reaches are
\* those of the script: the variables keep their types.
THEOREM QuorumTypeCorrect == QuorumSpec => []QuorumTypeOK
<1>1. QuorumInv => QuorumTypeOK BY DEF QuorumInv
<1> QED BY <1>1, QuorumInvariance, PTL

\* Two cosigners who mean the same quorum derive the same script, however
\* each orders the keys (the sorts of make_multisig_redeem_script and
\* make_multisig_tapscript).
THEOREM SameScriptHolds == QuorumSpec => []SameScript
<1>1. QuorumInv => SameScript BY DerivedFacts DEF QuorumInv, SameScript
<1> QED BY <1>1, QuorumInvariance, PTL

\* No opcode of a finalized spend fails, for every quorum, every subset of
\* signers and every foreign signature, and a CHECKMULTISIG spend is accepted
\* (finalize_psbt_input and the witness builders of script.py).
THEOREM SignaturesFitHolds == QuorumSpec => []SignaturesFit
<1>1. QuorumInv => SignaturesFit BY DEF QuorumInv
<1> QED BY <1>1, QuorumInvariance, PTL

\* R-MS-3: a finalized spend carries the signatures of as many different keys
\* as its threshold asks (the duplicate check of extract_multisig_quorum and
\* the selection of finalize_psbt_input).
THEOREM DistinctSignersHolds == QuorumSpec => []DistinctSigners
<1>1. QuorumInv => DistinctSigners
    <2> DEFINE signers == {e.key : e \in {d \in Range(stack) : d.t = "signature"}}
    <2> SUFFICES ASSUME Running, ip = 1 PROVE Cardinality(signers) = ThresholdOf(script)
        BY DEF QuorumInv, DistinctSigners
    <2>1. PICK m \in Nat, keys \in Seq(ElementKey) :
            /\ Proper(m, keys) /\ ThresholdOf(script) = m
            /\ IF ms_form = "p2tr" THEN \E T : TapscriptAt(stack, 1, m, keys, T)
               ELSE \E g : MultisigAt(stack, 1, m, keys, g)
        BY DEF Running
    <2> DEFINE n == Len(keys)
    <2>2. /\ n \in Nat /\ DOMAIN keys = 1 .. n
          /\ \A i, j \in 1 .. n : keys[i] = keys[j] => i = j
        BY <2>1 DEF Proper
    <2> HIDE DEF n
    <2>3. \E T : /\ T \subseteq 1 .. n /\ Cardinality(T) = m
                 /\ \A k : k \in signers <=> \E i \in T : k = keys[i]
        <3>1. CASE ms_form = "p2tr"
            <4>1. PICK T : TapscriptAt(stack, 1, m, keys, T) BY <2>1, <3>1
            <4>2. TapscriptMid(stack, 1, m, keys, T, 0)
                <5>1. 1 \in {2 * 0 + 1, 2 * 0 + 2} /\ 0 \in 0 .. n BY <2>2
                <5> QED BY <4>1, <5>1 DEF TapscriptAt, n
            <4>3. T \subseteq 1 .. n /\ Cardinality(T) = m /\ stack \in Seq(Element)
                BY <4>1 DEF TapscriptAt, n
            <4>4. Len(stack) = n /\ \A i \in 1 .. n : stack[n + 1 - i] = Slot(keys, T, i)
                <5>1. n - 0 + 0 + (1 - (2 * 0 + 1)) = n /\ 0 + 1 .. n = 1 .. n BY <2>2
                <5> QED BY <4>2, <5>1 DEF TapscriptMid, n
            <4>5. \A i \in 1 .. n : stack[i] = Slot(keys, T, n + 1 - i)
                <5>1. \A i \in 1 .. n : n + 1 - i \in 1 .. n /\ n + 1 - (n + 1 - i) = i BY <2>2
                <5> QED BY <4>4, <5>1
            <4>6. \A e : e \in Range(stack) <=> \E i \in 1 .. n : e = Slot(keys, T, i)
                <5>1. DOMAIN stack = 1 .. n BY <4>3, <4>4
                <5>2. \A i \in 1 .. n : n + 1 - i \in 1 .. n BY <2>2
                <5>3. \A e \in Range(stack) : \E i \in 1 .. n : e = Slot(keys, T, i)
                    BY <4>5, <5>1, <5>2 DEF Range
                <5>4. \A i \in 1 .. n : Slot(keys, T, i) \in Range(stack)
                    BY <4>4, <5>1, <5>2 DEF Range
                <5> QED BY <5>3, <5>4
            <4>7. \A i \in 1 .. n : Slot(keys, T, i).t = "signature" <=> i \in T
                BY ElementTypes DEF Slot, Empty
            <4>8. \A i \in T : Slot(keys, T, i).key = keys[i] BY ElementTypes DEF Slot
            <4>9. \A k \in signers : \E i \in T : k = keys[i] BY <4>6, <4>7, <4>8
            <4>10. \A i \in T : keys[i] \in signers
                <5> SUFFICES ASSUME NEW i \in T PROVE keys[i] \in signers OBVIOUS
                <5> DEFINE e == Slot(keys, T, i)
                <5>1. e \in Range(stack) /\ e.t = "signature" /\ e.key = keys[i]
                    BY <4>3, <4>6, <4>7, <4>8
                <5> QED BY <5>1
            <4> QED BY <4>3, <4>9, <4>10
        <3>2. CASE ms_form # "p2tr"
            <4>1. PICK g : MultisigAt(stack, 1, m, keys, g) BY <2>1, <3>2
            <4>2. /\ stack \in Seq(Element)
                  /\ g \in [1 .. m -> 1 .. n] /\ \A i, j \in 1 .. m : i < j => g[i] < g[j]
                  /\ Len(stack) = m + 1 /\ stack[1] = Empty
                  /\ \A i \in 1 .. m : stack[i + 1] = Signature(keys[g[i]])
                BY <2>2, <4>1 DEF MultisigAt, n
            <4> DEFINE T == {g[i] : i \in 1 .. m}
            <4>3. T \subseteq 1 .. n /\ Cardinality(T) = m BY <2>2, <4>2, MembersChosen
            <4>4. DOMAIN stack = 1 .. m + 1 BY <4>2
            <4>5. \A i \in 2 .. m + 1 : stack[i] = Signature(keys[g[i - 1]]) /\ g[i - 1] \in T
                <5>1. \A i \in 2 .. m + 1 : i - 1 \in 1 .. m /\ (i - 1) + 1 = i OBVIOUS
                <5> QED BY <4>2, <5>1
            <4>6. Empty.t # "signature" BY ElementTypes DEF Empty
            <4>7. \A k \in signers : \E i \in T : k = keys[i]
                <5> SUFFICES ASSUME NEW j \in 1 .. m + 1, stack[j].t = "signature"
                             PROVE  \E i \in T : stack[j].key = keys[i]
                    BY <4>4 DEF Range
                <5>1. j \in 2 .. m + 1 BY <4>2, <4>6
                <5> QED BY <4>5, <5>1, ElementTypes
            <4>8. \A i \in 1 .. m : keys[g[i]] \in signers
                <5> SUFFICES ASSUME NEW i \in 1 .. m PROVE keys[g[i]] \in signers OBVIOUS
                <5>1. i + 1 \in DOMAIN stack BY <4>4
                <5> DEFINE e == stack[i + 1]
                <5>2. e \in Range(stack) BY <5>1 DEF Range
                <5>3. e.t = "signature" /\ e.key = keys[g[i]] BY <4>2, ElementTypes
                <5> HIDE DEF e
                <5> QED BY <5>2, <5>3
            <4> HIDE DEF signers
            <4>9. \A i \in T : keys[i] \in signers
                <5> SUFFICES ASSUME NEW i \in 1 .. m PROVE keys[g[i]] \in signers OBVIOUS
                <5> QED BY <4>8
            <4> HIDE DEF T
            <4>10. \A k : k \in signers <=> \E i \in T : k = keys[i] BY <4>7, <4>9
            <4> QED BY <4>3, <4>10
        <3> QED BY <3>1, <3>2
    <2> HIDE DEF signers
    <2>4. PICK T : /\ T \subseteq 1 .. n /\ Cardinality(T) = m
                   /\ \A k : k \in signers <=> \E i \in T : k = keys[i]
        BY <2>3
    <2> DEFINE f == [i \in T |-> keys[i]]
    <2>5. f = [i \in T |-> f[i]] /\ \A i, j \in T : f[i] = f[j] => i = j BY <2>2, <2>4
    <2>6. signers = {f[i] : i \in T}
        <3>1. \A k : k \in {f[i] : i \in T} <=> \E i \in T : k = keys[i] OBVIOUS
        <3> HIDE DEF f
        <3> QED BY <2>4, <3>1
    <2>7. IsFiniteSet(T)
        <3>1. IsFiniteSet(1 .. n) BY <2>2, FS_Interval
        <3> QED BY <2>4, <3>1, FS_Subset
    <2> HIDE DEF f
    <2>8. Cardinality(Image(f, T)) = Cardinality(T) BY <2>5, <2>7, InjectiveImage
    <2> QED BY <2>1, <2>4, <2>6, <2>8 DEF Image
<1> QED BY <1>1, QuorumInvariance, PTL
=============================================================================
