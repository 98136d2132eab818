---------------------------- MODULE QuorumSpend ----------------------------
(***************************************************************************)
(* What a multisig PSBT exchange promises, without documents: key owners   *)
(* authorise inputs of a draft transaction, and a draft becomes a spend    *)
(* only when a full quorum has authorised that very draft at every input.  *)
(***************************************************************************)
EXTENDS Integers, FiniteSets

CONSTANTS
    Key,        \* public keys
    Draft,      \* unsigned transactions
    Inputs,     \* input indices, the same outpoints in every draft
    Members,    \* input -> the keys that may sign it
    Threshold   \* input -> how many of them must

VARIABLES
    authorised,  \* signatures ever made: [key, draft, input]
    spent        \* drafts for which a complete transaction was built

Authorisation == [key : Key, draft : Draft, input : Inputs]

\* A quorum of input i whose every member authorised the draft there.
QuorumFor(draft, i) ==
    \E quorum \in SUBSET Members[i] :
        /\ Cardinality(quorum) = Threshold[i]
        /\ \A k \in quorum :
             [key |-> k, draft |-> draft, input |-> i] \in authorised

Init == authorised = {} /\ spent = {}

Authorise ==
    /\ \E new \in SUBSET Authorisation : authorised' = authorised \cup new
    /\ UNCHANGED spent

Spend(draft) ==
    /\ \A i \in Inputs : QuorumFor(draft, i)
    /\ spent' = spent \cup {draft}
    /\ UNCHANGED authorised

Next == Authorise \/ \E draft \in Draft : Spend(draft)

Spec == Init /\ [][Next]_<<authorised, spent>>
=============================================================================
