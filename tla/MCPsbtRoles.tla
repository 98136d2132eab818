---------------------------- MODULE MCPsbtRoles ----------------------------
(***************************************************************************)
(* Instances of PsbtRoles.                                                 *)
(*   Quorum:  three cosigners with a key each share a 2-of-3 output.       *)
(*   Mixed:   two cosigners, two competing drafts that spend a 2-of-3      *)
(*            p2wsh output and a 1-of-2 taproot leaf; the third key and a  *)
(*            key outside the quorum are used by other software.           *)
(***************************************************************************)
EXTENDS PsbtRoles

\* Quorum
ThreeParties == {"a", "b", "c"}
OneInput == {1}
OneForm == <<"p2wsh">>
OneQuorum == <<<<"ka", "kb", "kc">>>>
OneThreshold == <<2>>
OneKeyEach == [a |-> <<"ka">>, b |-> <<"kb">>, c |-> <<"kc">>]
\* A caller who passes the right script, or forgets it, or passes another.
AllRequests ==
    [Inputs -> [script : {"none", "canonical", "uncommitted"},
                prev : {"none", "match"}]]
NoForeign == {}

\* Mixed
TwoParties == {"a", "b"}
TwoInputs == {1, 2}
MixedForm == <<"p2wsh", "p2tr_leaf">>
MixedQuorum == <<<<"ka", "kb", "kc">>, <<"ka", "kb">>>>
MixedThreshold == <<2, 1>>
MixedWalk == [a |-> <<"ka">>, b |-> <<"kb">>]
GoodRequests == {[i \in Inputs |-> [script |-> "canonical", prev |-> "none"]]}

\* Other software: the third key signs input 1 with another sighash, and the
\* previous transaction given at input 2 is not the one spent, so a Signer
\* goes through input 1 and raises at input 2; a key outside the quorum
\* signs, and kb with an explicit sighash where the form has none; a document
\* without the UTXO of input 1 that pins another sighash there.
Foreign(key, pinned) == [key |-> key, draft |-> "t1", pinned |-> pinned]
Bare == [utxo |-> TRUE, prev |-> "none", script |-> "canonical", sighash |-> "none",
         sigs |-> {}, final |-> {}]
MixedForeign ==
    {[draft |-> "t1", ins |->
        <<[Bare EXCEPT !.sigs = {Foreign("kc", FALSE)}],
          [Bare EXCEPT !.prev = "other"]>>],
     [draft |-> "t1", ins |->
        <<Bare, [Bare EXCEPT !.sigs = {Foreign("kx", TRUE), Foreign("kb", FALSE)}]>>],
     [draft |-> "t1", ins |->
        <<[Bare EXCEPT !.utxo = FALSE, !.sighash = "other"], Bare>>]}
=============================================================================
