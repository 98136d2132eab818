-------------------------- MODULE MCQuorumScript ---------------------------
(***************************************************************************)
(* Four owners, one with an odd key whose compressed form sorts last while *)
(* its x coordinate is the smallest, so the two sort orders differ.        *)
(* MS_MAX_PUBKEYS is 3, which puts a quorum of four beyond the bound and   *)
(* leaves 2-of-3, where signatures may be too few, enough or too many.     *)
(***************************************************************************)
EXTENDS QuorumScript

OddKey == [prefix |-> 3, x |-> 1]
EvenKey == [prefix |-> 2, x |-> 2]
OtherKey == [prefix |-> 2, x |-> 3]
LastKey == [prefix |-> 2, x |-> 4]

MCOwners == {OddKey, EvenKey, OtherKey, LastKey}
MCDerivers == {OddKey, EvenKey}

\* Out of order, with a key twice, and a quorum beyond the bound.
MCForeignKeys ==
    {<<OtherKey, EvenKey, OddKey>>, <<EvenKey, EvenKey>>,
     <<OddKey, EvenKey, OtherKey, LastKey>>}
=============================================================================
