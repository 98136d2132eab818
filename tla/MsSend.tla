------------------------------- MODULE MsSend -------------------------------
(***************************************************************************)
(* ms_create_psbt (src/src/yubtc/wallet.py): how a cosigner starts to      *)
(* spend from a quorum address.  The outputs of the address are queried    *)
(* once, a prefix of them is selected, the fee loop of FeeLoop runs over a *)
(* spend that is sized and not signed, a p2sh spend fetches the previous   *)
(* transactions, and the own key signs.  The other cosigners sign later;   *)
(* the size of their signatures is not known here and the spend is sized   *)
(* by an upper bound.                                                      *)
(*                                                                         *)
(* Sizes are the serializers of src/src/yubtc/psbt.py counted in bytes.    *)
(* Keys, hashes and outpoints have fixed lengths and carry no identity.    *)
(***************************************************************************)
EXTENDS Integers, Sequences, FiniteSets, FiniteSetsExt, SequencesExt

CONSTANTS
    Calls,                    \* the arguments of a call
    Answers,                  \* output lists a backend may answer with
    MaxInputs,                \* the length of the longest of them
    MS_SIG_SIZE_ESTIMATE,     \* an ECDSA signature with its sighash byte
    MS_SIG_SIZE_ESTIMATE_TAP, \* a filled slot of a tapscript witness
    RealSigSizes,             \* form -> the sizes signatures really have
    MIN_RELAY_TX_FEE,
    Drain

Call == [form : {"p2sh", "p2wsh", "p2tr"}, n : Nat, m : Nat,
         valid : BOOLEAN,       \* own nonce given, quorum accepted
         amount : Nat, fee : Nat, feekb : Nat, confirmations : Nat,
         dst : Nat]             \* length of dst's lock script, 0 if none
Output == [value : Nat, confirmations : Nat]

ASSUME CallsAssumption == Calls \subseteq Call /\ \A c \in Calls : c.valid => c.m <= c.n
ASSUME AnswersAssumption ==
    /\ Answers \subseteq Seq(Output) /\ MaxInputs \in Nat
    /\ \A a \in Answers : Len(a) <= MaxInputs
\* A low-S DER signature has at most 72 bytes, a BIP-340 one 64; a byte of
\* sighash may follow.
ASSUME SigSizesAssumption ==
    /\ MS_SIG_SIZE_ESTIMATE \in Nat /\ MS_SIG_SIZE_ESTIMATE_TAP \in Nat
    /\ RealSigSizes \in [{"p2sh", "p2wsh", "p2tr"} -> SUBSET Nat]
    /\ \A sig \in RealSigSizes["p2wsh"] : sig <= MS_SIG_SIZE_ESTIMATE
    /\ \A sig \in RealSigSizes["p2tr"] : sig <= MS_SIG_SIZE_ESTIMATE_TAP
ASSUME AmountsAssumption == MIN_RELAY_TX_FEE \in Nat /\ Drain \notin Nat

VARIABLES
    call,      \* the call being served
    unspent,   \* what the backend answers, or would
    phase,     \* "validate", "query", "fee", "prevs", "done" or "failed"
    fetched,   \* how many previous transactions have arrived
    pc, current_fee, by_size, seen_sizes, result  \* those of FeeLoop

loopVars == <<pc, current_fee, by_size, seen_sizes, result>>
vars == <<call, unspent, phase, fetched, loopVars>>

----------------------------------------------------------------------------
(* Selection *)

Sum(outputs) == FoldSeq(LAMBDA o, acc : o.value + acc, 0, outputs)

Affordable(c, list) ==
    FlattenSeq([i \in DOMAIN list |->
        IF list[i].confirmations >= c.confirmations THEN <<list[i]>> ELSE <<>>])

\* Mutant: the fee is forgotten in the target.
Target_AmountOnly(c) == c.amount

Target(c) == c.amount + c.fee

\* ms_select_utxos: the smallest prefix that reaches the target, all if none.
Selected(c, list) ==
    LET enough == {k \in DOMAIN Affordable(c, list) :
                      Sum(SubSeq(Affordable(c, list), 1, k)) >= Target(c)}
    IN  IF enough = {} THEN Affordable(c, list)
        ELSE SubSeq(Affordable(c, list), 1, Min(enough))

\* What make_vout and the fee loop are asked, once the inputs are selected.
Request(c, list) ==
    [in_amount |-> Sum(Selected(c, list)), amount |-> c.amount,
     fee |-> c.fee, feekb |-> c.feekb, dst_ok |-> c.dst # 0]

----------------------------------------------------------------------------
(* Sizes *)

\* compact_size; no length here reaches 2^16.
CompactSize(k) == IF k < 253 THEN 1 ELSE 3
WithLength(k) == CompactSize(k) + k

\* push_data_len: the prefix of a push, without the item.
PushDataLen(k) == IF k <= 75 THEN 1 ELSE IF k <= 255 THEN 2 ELSE 3

\* OP_m, n pushes of 33 bytes, OP_n, OP_CHECKMULTISIG; or n pushes of 32
\* bytes with an opcode each, OP_m and the terminator.
RedeemLen(c) == 34 * c.n + (IF c.form = "p2tr" THEN 2 ELSE 3)

\* script_sig_len: the length the code gives the scriptSig of a sized input.
ScriptSigLen(c) ==
    IF c.form = "p2sh"
    THEN 1 + c.m * (1 + MS_SIG_SIZE_ESTIMATE) + PushDataLen(RedeemLen(c))
    ELSE 0

\* make_multisig_script_sig over signatures of size sig.
FinalScriptSigLen(c, sig) ==
    IF c.form = "p2sh"
    THEN 1 + c.m * (PushDataLen(sig) + sig)
           + PushDataLen(RedeemLen(c)) + RedeemLen(c)
    ELSE 0

\* The serialized stacks of make_multisig_witness and
\* make_multisig_tapscript_witness; a p2sh input has none.
WitnessLen(c, sig) ==
    CASE c.form = "p2sh" -> 0
      [] c.form = "p2wsh" ->
           CompactSize(c.m + 2) + 1 + c.m * WithLength(sig)
             + WithLength(RedeemLen(c))
      [] c.form = "p2tr" ->
           CompactSize(c.n + 2) + c.m * WithLength(sig) + (c.n - c.m)
             + WithLength(RedeemLen(c)) + WithLength(33)

\* Mutant: the stack is sized without its script.
SizedWitnessLen_NoScript(c) ==
    LET sig == IF c.form = "p2tr" THEN MS_SIG_SIZE_ESTIMATE_TAP
               ELSE MS_SIG_SIZE_ESTIMATE
    IN  IF c.form = "p2sh" THEN 0
        ELSE WitnessLen(c, sig) - WithLength(RedeemLen(c))

\* sized_witness
SizedWitnessLen(c) ==
    WitnessLen(c, IF c.form = "p2tr" THEN MS_SIG_SIZE_ESTIMATE_TAP
                  ELSE MS_SIG_SIZE_ESTIMATE)

\* The quorum's own lock script, for the change.
QuorumScriptLen(c) == IF c.form = "p2sh" THEN 23 ELSE 34

\* serialize_stripped, serialize_wire and the rounded-up weight / 4.
VirtualSize(c, inputs, outputs, script_sig, witness) ==
    LET out == 8 + WithLength(c.dst)
               + (IF outputs = 2 THEN 8 + WithLength(QuorumScriptLen(c)) ELSE 0)
        stripped == 4 + CompactSize(inputs)
                      + inputs * (32 + 4 + WithLength(script_sig) + 4)
                      + CompactSize(outputs) + out + 4
        wire == stripped + (IF witness = 0 THEN 0 ELSE 2 + inputs * witness)
    IN  (3 * stripped + wire + 3) \div 4

SizedVSize(c, inputs, outputs) ==
    VirtualSize(c, inputs, outputs, ScriptSigLen(c), SizedWitnessLen(c))

FinalVSize(c, inputs, outputs, sig) ==
    VirtualSize(c, inputs, outputs, FinalScriptSigLen(c, sig), WitnessLen(c, sig))

----------------------------------------------------------------------------
(* The fee loop, over the requests and the sizes that occur here *)

AllRequests == {Request(c, list) : c \in Calls, list \in Answers}
AllSizes == [outputs \in 1..2 |->
    {SizedVSize(c, inputs, outputs) : c \in {d \in Calls : d.valid}, inputs \in 0..MaxInputs}]

Loop == INSTANCE FeeLoop WITH
    req <- Request(call, unspent), Requests <- AllRequests, TxSizes <- AllSizes

Inputs == Len(Selected(call, unspent))

\* A build that pays `fee` has the size of its sized vin.
SizeOfBuild(fee) == SizedVSize(call, Inputs, Loop!NumOutputs(fee))

----------------------------------------------------------------------------
Init ==
    /\ call \in Calls
    /\ unspent \in Answers
    /\ phase = "validate"
    /\ fetched = 0
    /\ pc = IF call.fee > 0 THEN "fixed" ELSE "loop"
    /\ current_fee = 0 /\ by_size = <<>> /\ seen_sizes = {}
    /\ result = Loop!NoResult

\* NotAParticipant and the errors of ms_create_address come before any I/O.
Validate ==
    /\ phase = "validate"
    /\ phase' = IF call.valid THEN "query" ELSE "failed"
    /\ UNCHANGED <<call, unspent, fetched, loopVars>>

\* One get_unspent; an exception of the backend leaves ms_create_psbt.
Query ==
    /\ phase = "query"
    /\ phase' \in {"fee", "failed"}
    /\ UNCHANGED <<call, unspent, fetched, loopVars>>

\* Mutant: the repeated size ends the loop before the candidate is stored.
Iterate_BreakFirst ==
    /\ phase = "fee" /\ pc = "loop"
    /\ UNCHANGED <<call, unspent, fetched, phase, result>>
    /\ ~Loop!MakeVoutRaises(current_fee)
    /\ LET size == SizeOfBuild(current_fee)
       IN  IF size \in seen_sizes
           THEN pc' = "pick" /\ UNCHANGED <<current_fee, by_size, seen_sizes>>
           ELSE /\ by_size' = Append(by_size, Loop!MakeVout(current_fee, size))
                /\ seen_sizes' = seen_sizes \cup {size}
                /\ current_fee' = Loop!FeeAt(size, call.feekb)
                /\ pc' = pc

\* One turn of the fee loop, with the size computed instead of signed.
Iterate ==
    /\ phase = "fee"
    /\ UNCHANGED <<call, unspent, fetched, phase>>
    /\ Loop!Iterate
    /\ by_size'[Len(by_size')].size = SizeOfBuild(current_fee)

BuildFixed ==
    /\ phase = "fee"
    /\ UNCHANGED <<call, unspent, fetched>>
    /\ Loop!BuildFixed
    /\ result'.size = SizeOfBuild(call.fee)
    /\ phase' = "prevs"

Pick ==
    /\ phase = "fee"
    /\ UNCHANGED <<call, unspent, fetched>>
    /\ Loop!Pick
    /\ phase' = "prevs"

Refuse ==
    /\ phase = "fee"
    /\ UNCHANGED <<call, unspent, fetched>>
    /\ Loop!Refuse
    /\ phase' = "failed"

\* A p2sh input commits to no amount: its previous transaction is fetched.
NeedsPrev == call.form = "p2sh" /\ fetched < Inputs

\* raw_transaction for the next input.  A transport error, bytes that do not
\* parse, or a transaction with another id (create_psbt) ends the call.
FetchPrev ==
    /\ phase = "prevs"
    /\ NeedsPrev
    /\ \/ fetched' = fetched + 1 /\ phase' = phase
       \/ fetched' = fetched /\ phase' = "failed"
    /\ UNCHANGED <<call, unspent, loopVars>>

\* create_psbt, and the own signature at every input.
CreateAndSign ==
    /\ phase = "prevs"
    /\ ~NeedsPrev
    /\ phase' = "done"
    /\ UNCHANGED <<call, unspent, fetched, loopVars>>

Next ==
    \/ Validate \/ Query \/ Iterate \/ BuildFixed \/ Pick \/ Refuse
    \/ FetchPrev \/ CreateAndSign

Spec == Init /\ [][Next]_vars

----------------------------------------------------------------------------
\* No previous transaction is requested twice or for nothing.
TypeOK ==
    /\ call \in Calls
    /\ unspent \in Answers
    /\ phase \in {"validate", "query", "fee", "prevs", "done", "failed"}
    /\ fetched \in 0..Inputs
    /\ pc \in {"fixed", "loop", "pick", "done", "raised"}
    /\ current_fee \in Nat
    /\ by_size \in Seq(Loop!Candidate)
    /\ seen_sizes \subseteq Nat
    /\ result \in Loop!Candidate

\* ms_create_psbt is a user of the fee loop and nothing else: seen from its
\* request it builds, iterates, picks and refuses as make_transaction does,
\* so what FeeLoop shows of conservation, rate and cycles holds here too.
FeeLoopSpec == Loop!Spec

\* The number of outputs the returned spend has.
OutputsOfResult == IF result.cashback = 0 THEN 1 ELSE 2

\* Whatever the other cosigners' signatures turn out to weigh, the completed
\* spend pays the requested rate.
RateHolds ==
    (phase = "done" /\ call.fee = 0 /\ call.feekb >= MIN_RELAY_TX_FEE) =>
        \A sig \in RealSigSizes[call.form] :
            result.fee >= Loop!FeeAt(
                FinalVSize(call, Inputs, OutputsOfResult, sig), call.feekb)

\* "The estimate is the worst case, so the fee never underpays" (the comments
\* on the two size estimates), for the forms that are sized by a witness.
WitnessRateHolds == call.form # "p2sh" => RateHolds

\* The same comment, for the form that is sized by a scriptSig.
ScriptSigRateHolds == call.form = "p2sh" => RateHolds

\* With an explicit fee a refusal is final: the confirmed outputs of the
\* quorum together do not cover what was asked (the greedy prefix never
\* leaves out an output the payment needed).
RefusalIsFinal ==
    (pc = "raised" /\ call.fee > 0 /\ call.dst # 0) =>
        Sum(Affordable(call, unspent)) < call.amount + call.fee
=============================================================================
