---------------------------- MODULE MCSelection ----------------------------
(***************************************************************************)
(* Two forms of one nonce, with one or two outputs each, and an address of *)
(* the next one; indices repeat between them and within one address.       *)
(***************************************************************************)
EXTENDS Selection

Out(n, a) == [out_n |-> n, amount |-> a]

SomeOuts == {<<Out(0, 2)>>, <<Out(0, 1), Out(1, 3)>>, <<Out(0, 2), Out(0, 1)>>}

SomeScans ==
    {<<[nonce |-> 0, outs |-> a], [nonce |-> 0, outs |-> b],
       [nonce |-> 1, outs |-> <<Out(0, 2)>>]>> : a, b \in SomeOuts}

SomeTargets == {SendAll, 1, 4, 6}
=============================================================================
