------------------------------ MODULE FeeLoop ------------------------------
(***************************************************************************)
(* The build / sign / fee-tune part of Wallet.make_transaction             *)
(* (src/src/yubtc/wallet.py), with make_vout (src/src/yubtc/crypto.py) and *)
(* _pick_best_fee_loop_candidate.  The inputs are already selected: a      *)
(* request carries their sum.  Amounts are satoshi.                        *)
(*                                                                         *)
(* The vsize of a signed candidate is a pure function of (inputs, fee):    *)
(* the number of outputs decides its base, and the DER length of the       *)
(* RFC 6979 signatures, which sign a hash that depends on the fee, moves   *)
(* it by a few bytes.  So the size of a fee that was not built before is   *)
(* any member of TxSizes[number of outputs], and the size of a fee built   *)
(* before is the one it had.                                               *)
(***************************************************************************)
EXTENDS Integers, Sequences

CONSTANTS
    Requests,          \* the arguments a caller may pass, with the input sum
    TxSizes,           \* number of outputs -> possible vsizes of the signed tx
    MIN_RELAY_TX_FEE,  \* sat/kvB floor (fwd.py)
    Drain              \* the value of `amount` that stands for None

ASSUME DrainAssumption == Drain \notin Nat
ASSUME RequestsAssumption ==
    Requests \subseteq [in_amount : Nat, amount : Nat \cup {Drain},
                        fee : Nat, feekb : Nat, dst_ok : BOOLEAN]
ASSUME TxSizesAssumption == TxSizes \in [1..2 -> SUBSET Nat]
ASSUME RelayAssumption == MIN_RELAY_TX_FEE \in Nat

VARIABLES
    req,          \* the call being served
    pc,           \* "fixed", "loop", "pick", "done" or "raised"
    current_fee,  \* the fee the next candidate is built with
    by_size,      \* the candidates in build order; the code groups them by size
    seen_sizes,   \* the sizes the loop has already met
    result        \* the TxResult, with the size it was billed for

vars == <<req, pc, current_fee, by_size, seen_sizes, result>>

----------------------------------------------------------------------------
(* make_vout *)

\* Mutant: the check that keeps the change from going negative is gone.
MakeVoutRaises_NoAmountCheck(fee) == req.in_amount < fee \/ ~req.dst_ok

\* The two ValueErrors raised before the address is looked at, and the one
\* make_lock_script raises for a dst it cannot decode.
MakeVoutRaises(fee) ==
    \/ req.in_amount < fee
    \/ req.amount # Drain /\ req.amount + fee > req.in_amount
    \/ ~req.dst_ok

\* Everything but the fee goes to dst: a drain, or an exact match.
OneOutput(fee) == req.amount = Drain \/ req.amount + fee = req.in_amount

NumOutputs(fee) == IF OneOutput(fee) THEN 1 ELSE 2

\* Mutant: the change is computed before the fee is taken off.
MakeVout_ChangeBeforeFee(fee, size) ==
    [fee |-> fee, size |-> size,
     amount   |-> IF OneOutput(fee) THEN req.in_amount - fee ELSE req.amount,
     cashback |-> IF OneOutput(fee) THEN 0 ELSE req.in_amount - req.amount]

\* The VoutResult of a build that does not raise, tagged as the loop tags it.
MakeVout(fee, size) ==
    [fee |-> fee, size |-> size,
     amount   |-> IF OneOutput(fee) THEN req.in_amount - fee ELSE req.amount,
     cashback |-> IF OneOutput(fee) THEN 0
                  ELSE req.in_amount - req.amount - fee]

Candidate == [fee : Nat, size : Nat, amount : Nat, cashback : Nat]
NoResult == [fee |-> 0, size |-> 0, amount |-> 0, cashback |-> 0]

----------------------------------------------------------------------------
(* Sizes and fees *)

\* int(txsize * feekb / 1000): exact floor for any size a transaction has.
FeeAt(size, rate) == (size * rate) \div 1000

\* What stx.vsize() may return for a candidate that pays `fee`.
VSize(fee) ==
    LET built == {i \in DOMAIN by_size : by_size[i].fee = fee}
    IN  IF built = {} THEN TxSizes[NumOutputs(fee)]
        ELSE {by_size[i].size : i \in built}

\* Mutant: only the relay floor is checked.
Pays_FloorOnly(c) == c.fee >= FeeAt(c.size, MIN_RELAY_TX_FEE)

\* Rule 1 of the pick: the requested rate and the relay floor are both paid.
Pays(c) == /\ c.fee >= FeeAt(c.size, req.feekb)
           /\ c.fee >= FeeAt(c.size, MIN_RELAY_TX_FEE)

\* Rule 2: smallest size, then smallest fee.
Preferred(c, d) == c.size < d.size \/ (c.size = d.size /\ c.fee <= d.fee)

Paying == {i \in DOMAIN by_size : Pays(by_size[i])}

\* The candidate _pick_best_fee_loop_candidate returns; with nothing paying,
\* the first one built among those of the smallest size.
Picked(i) ==
    IF Paying # {}
    THEN i \in Paying /\ \A j \in Paying : Preferred(by_size[i], by_size[j])
    ELSE \A j \in DOMAIN by_size :
            \/ by_size[i].size < by_size[j].size
            \/ by_size[i].size = by_size[j].size /\ i <= j

----------------------------------------------------------------------------
Init ==
    /\ req \in Requests
    /\ pc = IF req.fee # 0 THEN "fixed" ELSE "loop"
    /\ current_fee = 0
    /\ by_size = <<>>
    /\ seen_sizes = {}
    /\ result = NoResult

\* `if fee:` one build with the caller's fee, and no rate to meet.
BuildFixed ==
    /\ pc = "fixed"
    /\ ~MakeVoutRaises(req.fee)
    /\ \E size \in VSize(req.fee) : result' = MakeVout(req.fee, size)
    /\ pc' = "done"
    /\ UNCHANGED <<req, current_fee, by_size, seen_sizes>>

\* Mutant: an iteration cap instead of cycle detection.
Iterate_Capped ==
    /\ pc = "loop"
    /\ ~MakeVoutRaises(current_fee)
    /\ \E size \in VSize(current_fee) :
         /\ by_size' = Append(by_size, MakeVout(current_fee, size))
         /\ IF Len(by_size) = 1
            THEN pc' = "pick" /\ UNCHANGED <<current_fee, seen_sizes>>
            ELSE /\ seen_sizes' = seen_sizes \cup {size}
                 /\ current_fee' = FeeAt(size, req.feekb)
                 /\ pc' = pc
    /\ UNCHANGED <<req, result>>

\* Mutant: the fixed-point loop of v0.1, which keeps one candidate.
Iterate_FixedPoint ==
    /\ pc = "loop"
    /\ ~MakeVoutRaises(current_fee)
    /\ \E size \in VSize(current_fee) :
         /\ by_size' = <<MakeVout(current_fee, size)>>
         /\ current_fee' = FeeAt(size, req.feekb)
         /\ pc' = IF current_fee' = current_fee THEN "pick" ELSE pc
    /\ UNCHANGED <<req, seen_sizes, result>>

\* One turn of `while True`: the candidate is stored before the size is
\* looked up, and the new fee is taken only when the size is new.
Iterate ==
    /\ pc = "loop"
    /\ ~MakeVoutRaises(current_fee)
    /\ \E size \in VSize(current_fee) :
         /\ by_size' = Append(by_size, MakeVout(current_fee, size))
         /\ IF size \in seen_sizes
            THEN pc' = "pick" /\ UNCHANGED <<current_fee, seen_sizes>>
            ELSE /\ seen_sizes' = seen_sizes \cup {size}
                 /\ current_fee' = FeeAt(size, req.feekb)
                 /\ pc' = pc
    /\ UNCHANGED <<req, result>>

\* A ValueError of make_vout leaves make_transaction, whatever by_size holds.
Refuse ==
    /\ \/ pc = "fixed" /\ MakeVoutRaises(req.fee)
       \/ pc = "loop" /\ MakeVoutRaises(current_fee)
    /\ pc' = "raised"
    /\ UNCHANGED <<req, current_fee, by_size, seen_sizes, result>>

Pick ==
    /\ pc = "pick"
    /\ \E i \in DOMAIN by_size : Picked(i) /\ result' = by_size[i]
    /\ pc' = "done"
    /\ UNCHANGED <<req, current_fee, by_size, seen_sizes>>

Next == BuildFixed \/ Iterate \/ Refuse \/ Pick

Spec == Init /\ [][Next]_vars

\* The loop is sequential code without I/O: it keeps running until it stops.
FairSpec == Spec /\ WF_vars(Next)

----------------------------------------------------------------------------
TypeOK ==
    /\ req \in Requests
    /\ pc \in {"fixed", "loop", "pick", "done", "raised"}
    /\ current_fee \in Nat
    /\ by_size \in Seq(Candidate)
    /\ seen_sizes \subseteq Nat
    /\ result \in Candidate

\* No satoshi is created or lost: what is announced as amount, cashback and
\* fee adds up to the inputs, and a caller who named an amount sends exactly
\* it (make_vout's two branches and its two checks, under every fee the loop
\* tries).
Conservation ==
    pc = "done" =>
        /\ result.amount + result.cashback + result.fee = req.in_amount
        /\ req.amount # Drain => result.amount = req.amount

\* The fee loop never settles for an underpaying transaction: for a rate at or
\* above the relay floor the result pays the rate for its own size, whatever
\* sizes the candidates happened to have.  The fallback of the pick is then
\* out of reach.
RatePaid ==
    (pc = "done" /\ req.fee = 0 /\ req.feekb >= MIN_RELAY_TX_FEE)
        => result.fee >= FeeAt(result.size, req.feekb)

\* "A repeated size means the iteration entered a cycle and no new candidate
\* can appear" (the comment of the loop): when the loop leaves, the fee it
\* would try next has been tried.
CycleClosed ==
    pc = "pick" =>
        \E i \in DOMAIN by_size :
            by_size[i].fee = FeeAt(by_size[Len(by_size)].size, req.feekb)

\* There is no iteration cap (decision C3), and none is needed: cycle
\* detection on the size ends every call, with a result or a refusal.
Termination == <>(pc \in {"done", "raised"})
=============================================================================
