----------------------------- MODULE MCFeeLoop -----------------------------
(***************************************************************************)
(* Small instances of FeeLoop.  A one-input native P2WPKH spend is 110 vB  *)
(* with one output and 141 vB with two; the signature moves it by a byte.  *)
(* The slack is what the input has over the amount: it runs over every     *)
(* value near the fees those sizes lead to, so each of exact match, one    *)
(* satoshi short, one over and no change occurs at each turn of the loop.  *)
(***************************************************************************)
EXTENDS FeeLoop

Amount == 10000
Rates == {0, 500, 999, 1000, 1001, 2000, 5000}

MCTxSizes == <<{109, 110, 111}, {140, 141, 142}>>

Fees == {FeeAt(size, rate) : size \in UNION {MCTxSizes[n] : n \in 1..2}, rate \in Rates}

\* The slack around every fee the loop can reach.
Slacks == UNION {{f - 1, f, f + 1} : f \in Fees} \cap Nat

MCRequests ==
    [in_amount : {Amount + s : s \in Slacks}, amount : {Amount},
     fee : {0}, feekb : Rates, dst_ok : {TRUE}]
    \cup
    [in_amount : {0, 100, 141, 282, Amount}, amount : {Drain, 100},
     fee : {0, 50, 141}, feekb : Rates, dst_ok : BOOLEAN]
=============================================================================
