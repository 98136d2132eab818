---------------------------- MODULE MCComponents ----------------------------
(***************************************************************************)
(* The components that share no state, in one instance: the network, the   *)
(* screen, the signatures of a send, addresses, the PSBT wire format, seed *)
(* phrases, the scripts of a quorum and ms_create_psbt.  A behaviour uses  *)
(* one of them, over all the inputs its own MC module gives it, and leaves *)
(* the others where they are; their interleavings would add nothing, since *)
(* no step of one reads or writes what another keeps.                      *)
(***************************************************************************)
EXTENDS MCFailover, MCSelection, MCSigning, MCAddresses, MCPsbtWire,
        MCSeedPhrase, MCQuorumScript, MCMsSend

VARIABLE using  \* the component this behaviour uses

----------------------------------------------------------------------------
(* A component that is not used: one of its initial states *)

NetIdle == provider = 0 /\ NetInit
ScreenIdle ==
    /\ sources = (CHOOSE scan \in Scans : TRUE) /\ target = SendAll /\ cli_fee = 0
    /\ ScreenInit
SigningIdle == listing = <<>> /\ SigningInit
QuorumIdle == ms_form = "p2tr" /\ QuorumInit
SendIdle == call = (CHOOSE c \in Calls : TRUE) /\ unspent = <<>> /\ Init

ComponentsInit ==
    /\ using \in {"net", "screen", "signing", "addr", "wire", "phrase", "quorum", "send"}
    /\ IF using = "net" THEN NetInit ELSE NetIdle
    /\ IF using = "screen" THEN ScreenInit ELSE ScreenIdle
    /\ IF using = "signing" THEN SigningInit ELSE SigningIdle
    /\ AddressInit /\ WireInit /\ PhraseInit
    /\ IF using = "quorum" THEN QuorumInit ELSE QuorumIdle
    /\ IF using = "send" THEN Init ELSE SendIdle

----------------------------------------------------------------------------
UseNet == /\ using = "net" /\ NetNext
          /\ UNCHANGED <<using, screen, signing, addr, wire, phrase, quorum, vars>>
UseScreen == /\ using = "screen" /\ ScreenNext
             /\ UNCHANGED <<using, net, signing, addr, wire, phrase, quorum, vars>>
UseSigning == /\ using = "signing" /\ SigningNext
              /\ UNCHANGED <<using, net, screen, addr, wire, phrase, quorum, vars>>
UseAddr == /\ using = "addr" /\ AddressNext
           /\ UNCHANGED <<using, net, screen, signing, wire, phrase, quorum, vars>>
UseWire == /\ using = "wire" /\ WireNext
           /\ UNCHANGED <<using, net, screen, signing, addr, phrase, quorum, vars>>
UsePhrase == /\ using = "phrase" /\ PhraseNext
             /\ UNCHANGED <<using, net, screen, signing, addr, wire, quorum, vars>>
UseQuorum == /\ using = "quorum" /\ QuorumNext
             /\ UNCHANGED <<using, net, screen, signing, addr, wire, phrase, vars>>
UseSend == /\ using = "send" /\ Next
           /\ UNCHANGED <<using, net, screen, signing, addr, wire, phrase, quorum>>

ComponentsNext ==
    \/ UseNet \/ UseScreen \/ UseSigning \/ UseAddr
    \/ UseWire \/ UsePhrase \/ UseQuorum \/ UseSend

everything == <<using, net, screen, signing, addr, wire, phrase, quorum, vars>>

\* The fairness of each component; the steps of one not used are disabled.
ComponentsSpec ==
    /\ ComponentsInit
    /\ [][ComponentsNext]_everything
    /\ WF_net(Exchange)
    /\ SF_phrase(DrawUntil /\ stage' # "drawing")
    /\ QuorumFairness

----------------------------------------------------------------------------
\* Each component keeps its variables in their types: the retries are counted
\* up to --retries, the cursor stays on the screen, the instruction pointer in
\* the script, and so on.
AllTypesOK ==
    /\ NetTypeOK /\ ScreenTypeOK /\ SigningTypeOK /\ AddressTypeOK
    /\ WireTypeOK /\ PhraseTypeOK /\ QuorumTypeOK /\ TypeOK
=============================================================================
