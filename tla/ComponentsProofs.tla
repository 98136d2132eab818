-------------------------- MODULE ComponentsProofs --------------------------
(***************************************************************************)
(* The components side by side: in MCComponents the network, the screen,   *)
(* signing, addresses, the PSBT format, the seed, the quorum script and    *)
(* the multisig send are used one after the other and share no variable.   *)
(* A behaviour of that specification is therefore, seen from any of them,  *)
(* a behaviour of that component alone that stutters while the others      *)
(* move (BeginsAll, StepsAll), and what is proved of a component for every *)
(* value of its constants carries over to the instance that is run.        *)
(***************************************************************************)
EXTENDS MCComponents, SendProofs, FormatProofs, MultisigProofs

-----------------------------------------------------------------------------

\* The combined instance begins as each component does: the ones that are not in
\* use in a behaviour stand still in one of their own initial states.
LEMMA BeginsAll ==
    ASSUME ComponentsInit
    PROVE  /\ NetInit /\ ScreenInit /\ SigningInit /\ AddressInit
           /\ WireInit /\ PhraseInit /\ QuorumInit /\ Init
BY DEF ComponentsInit, NetIdle, ScreenIdle, SigningIdle, QuorumIdle, SendIdle

\* A step of the combined instance is a step of one component (a request, a key
\* pressed, an input signed, an address read, a map parsed, a phrase typed, an
\* instruction run, a build of the fee loop) and leaves the others as they are.
LEMMA StepsAll ==
    ASSUME [ComponentsNext]_everything
    PROVE  /\ [NetNext]_net /\ [ScreenNext]_screen /\ [SigningNext]_signing
           /\ [AddressNext]_addr /\ [WireNext]_wire /\ [PhraseNext]_phrase
           /\ [QuorumNext]_quorum /\ [Next]_vars
BY DEF ComponentsNext, everything, UseNet, UseScreen, UseSigning, UseAddr, UseWire,
       UsePhrase, UseQuorum, UseSend

-----------------------------------------------------------------------------

\* AllTypesOK, the type invariants of the eight components together: whatever
\* component is in use, each keeps its variables in their types, because it does
\* so alone (NetTypeCorrect, ScreenTypeCorrect and the others).
THEOREM AllTypesCorrect == ComponentsSpec => []AllTypesOK
<1>1. ComponentsSpec => NetSpec
    <2>1. ComponentsInit => NetInit BY BeginsAll
    <2>2. [ComponentsNext]_everything => [NetNext]_net BY StepsAll
    <2> QED BY <2>1, <2>2, PTL DEF ComponentsSpec, NetSpec
<1>2. ComponentsSpec => ScreenSpec
    <2>1. ComponentsInit => ScreenInit BY BeginsAll
    <2>2. [ComponentsNext]_everything => [ScreenNext]_screen BY StepsAll
    <2> QED BY <2>1, <2>2, PTL DEF ComponentsSpec, ScreenSpec
<1>3. ComponentsSpec => SigningSpec
    <2>1. ComponentsInit => SigningInit BY BeginsAll
    <2>2. [ComponentsNext]_everything => [SigningNext]_signing BY StepsAll
    <2> QED BY <2>1, <2>2, PTL DEF ComponentsSpec, SigningSpec
<1>4. ComponentsSpec => AddressSpec
    <2>1. ComponentsInit => AddressInit BY BeginsAll
    <2>2. [ComponentsNext]_everything => [AddressNext]_addr BY StepsAll
    <2> QED BY <2>1, <2>2, PTL DEF ComponentsSpec, AddressSpec
<1>5. ComponentsSpec => WireSpec
    <2>1. ComponentsInit => WireInit BY BeginsAll
    <2>2. [ComponentsNext]_everything => [WireNext]_wire BY StepsAll
    <2> QED BY <2>1, <2>2, PTL DEF ComponentsSpec, WireSpec
<1>6. ComponentsSpec => PhraseSpec
    <2>1. ComponentsInit => PhraseInit BY BeginsAll
    <2>2. [ComponentsNext]_everything => [PhraseNext]_phrase BY StepsAll
    <2> QED BY <2>1, <2>2, PTL DEF ComponentsSpec, PhraseSpec
<1>7. ComponentsSpec => QuorumSpec
    <2>1. ComponentsInit => QuorumInit BY BeginsAll
    <2>2. [ComponentsNext]_everything => [QuorumNext]_quorum BY StepsAll
    <2> QED BY <2>1, <2>2, PTL DEF ComponentsSpec, QuorumSpec
<1>8. ComponentsSpec => Spec
    <2>1. ComponentsInit => Init BY BeginsAll
    <2>2. [ComponentsNext]_everything => [Next]_vars BY StepsAll
    <2> QED BY <2>1, <2>2, PTL DEF ComponentsSpec, Spec
<1> QED
    BY <1>1, <1>2, <1>3, <1>4, <1>5, <1>6, <1>7, <1>8, NetTypeCorrect, ScreenTypeCorrect,
       SigningTypeCorrect, AddressTypeCorrect, WireTypeCorrect, PhraseTypeCorrect,
       QuorumTypeCorrect, SendTypeCorrect, PTL DEF AllTypesOK
=============================================================================
