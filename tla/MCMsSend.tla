------------------------------ MODULE MCMsSend ------------------------------
(***************************************************************************)
(* Quorums of 1, 3 and 15 keys: their redeem scripts are pushed with one,  *)
(* two and three bytes of prefix, and their scriptSigs and witness scripts *)
(* lie on both sides of the 253 of compact_size.  Signatures have the      *)
(* sizes of low-S DER with a sighash byte, or 64 for BIP-340.  The values  *)
(* make the amount reachable by one, two or three outputs, exactly, and    *)
(* short of the fee only.                                                  *)
(***************************************************************************)
EXTENDS MsSend

Quorums == {[n |-> 1, m |-> 1], [n |-> 3, m |-> 2], [n |-> 15, m |-> 15]}

Asked(f, q, fee, rate) ==
    [form |-> f, n |-> q.n, m |-> q.m, valid |-> TRUE, amount |-> 5000,
     fee |-> fee, feekb |-> rate, confirmations |-> 1, dst |-> 22]
FeesAsked == {<<0, 500>>, <<0, 1000>>, <<0, 3000>>, <<400, 1000>>}
QuorumForms == {"p2sh", "p2wsh", "p2tr"}

\* The calls that are refused for their arguments need no variety.
MCCalls ==
    {Asked(f, q, fee[1], fee[2]) : f \in QuorumForms, q \in Quorums, fee \in FeesAsked}
      \cup {[Asked("p2sh", [n |-> 3, m |-> 2], fee[1], fee[2]) EXCEPT !.dst = 0] : fee \in FeesAsked}
      \cup {[Asked(f, [n |-> 3, m |-> 2], 0, 1000) EXCEPT !.valid = FALSE] : f \in QuorumForms}

Outputs == [value : {3000, 5000, 5400, 50000}, confirmations : {0, 1}]

MCAnswers == UNION {[1..len -> Outputs] : len \in 0..2}

MCRealSigSizes == [p2sh |-> 69..72, p2wsh |-> 69..72, p2tr |-> {64}]
=============================================================================
