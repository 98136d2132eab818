------------------------------- MODULE Wallet -------------------------------
(***************************************************************************)
(* One command over the wallet (src/src/yubtc/wallet.py, cli.py): the gap  *)
(* walk that opens it, then `balance`, a plain `send` from the primary     *)
(* address, or a `send --scan` over every address form.  Each request to   *)
(* the network is a step of its own, and between two of them others pay    *)
(* into the wallet's addresses or spend from them with the same seed.      *)
(*                                                                         *)
(* An output on the chain is a "coin".  Coins are a constant: a coin has   *)
(* not arrived yet ("future"), is "unspent" or is "spent".  An address is  *)
(* a nonce and a form.                                                     *)
(***************************************************************************)
EXTENDS Integers, Sequences, FiniteSets, SequencesExt

CONSTANTS
    Coins,       \* records [id, nonce, form, amount, deep]
    Own,         \* --addr-type, the form of the addresses handed out
    Commands,    \* records [kind, start, amount, fee]: the command lines
    Drain,       \* the amount that stands for ALL
    FeePerInput, \* what the fee loop comes to, per input
    Masking      \* providers may send a body that is read as "nothing"

\* ADDR_TYPES, in scan order
Forms == <<"legacy", "native", "taproot">>

ASSUME CoinsAssumption ==
    /\ IsFiniteSet(Coins)
    /\ Coins \subseteq [id : Nat, nonce : Nat, form : {"legacy", "native", "taproot"},
                        amount : Nat \ {0}, deep : BOOLEAN]
ASSUME OwnAssumption == Own \in {"legacy", "native", "taproot"}
ASSUME CommandsAssumption ==
    /\ Drain \notin Nat
    /\ Commands \subseteq [kind : {"balance", "send", "scan"}, start : Nat,
                           amount : Nat \cup {Drain}, fee : Nat]
ASSUME FeeAssumption == FeePerInput \in Nat /\ Masking \in BOOLEAN

VARIABLES
    status,   \* coin -> "future", "unspent" or "spent"
    before,   \* the status of the coins when the command began
    masked,   \* some answer hid what is on the chain
    cmd,      \* the command line
    pc,       \* where the command is
    nonce,    \* the nonce being walked over
    form,     \* index into Forms of the key being asked about
    info,     \* TPrivKey._info of the keys of this nonce: form -> ...
    keys,     \* Wallet.privkeys, each with its _info
    pending,  \* balance: what get_unspent said of the first key
    sources,  \* the (key, outputs) pairs collected, or counted by balance
    stop,     \* why the selection ended: "gap", "target" or "primary"
    cashback  \* the address any change goes to

vars == <<status, before, masked, cmd, pc, nonce, form, info, keys, pending,
          sources, stop, cashback>>
chain == <<status, before, cmd>>

Infos == {"unknown", "used", "unused"}
Unasked == [f \in ToSet(Forms) |-> "unknown"]
NoAddress == [nonce |-> 0, form |-> "none"]

Final == {"done", "built", "short", "sent", "refused"}

----------------------------------------------------------------------------
(* The network's answers *)

At(n, f) == {c \in Coins : c.nonce = n /\ c.form = f}

\* Mutant: an address that was emptied counts as never paid.
Received_Balance(n, f) == \E c \in At(n, f) : status[c] = "unspent"

Received(n, f) == \E c \in At(n, f) : status[c] # "future"
Unspent(n, f) == {c \in At(n, f) : status[c] = "unspent"}

\* get_info of a key whose _info is `known`: cached once it has been asked.
\* A body that does not decode reads as total_received = 0.
Learns(n, f, known, used) ==
    IF known # "unknown" THEN used = (known = "used") /\ UNCHANGED masked
    ELSE /\ used = Received(n, f) \/ (Masking /\ ~used)
         /\ masked' = (masked \/ used # Received(n, f))

AsInfo(used) == IF used THEN "used" ELSE "unused"

\* get_unspent asks anew every time, and reads such a body as [].
Lists(n, f, coins) ==
    /\ coins = Unspent(n, f) \/ (Masking /\ coins = {})
    /\ masked' = (masked \/ coins # Unspent(n, f))

\* The filter of get_unspent(confirmations).
Confirmed(coins) == {c \in coins : c.deep}

----------------------------------------------------------------------------
(* What has been collected *)

Inputs == UNION {s.coins : s \in ToSet(sources)}
Worth(coins) == FoldSet(LAMBDA c, sum : c.amount + sum, 0, coins)
total == Worth(Inputs)

\* _select_inputs: the amount and the fee the caller set.
Target == cmd.amount + cmd.fee

\* Mutant: a target met exactly is not met.
Enough_Strict(srcs) == Worth(UNION {s.coins : s \in ToSet(srcs)}) > Target

Enough(srcs) == Worth(UNION {s.coins : s \in ToSet(srcs)}) >= Target

\* make_transaction: the fee set, or the one its loop arrives at.
FeeDue == IF cmd.fee # 0 THEN cmd.fee
          ELSE FeePerInput * (1 + Cardinality(Inputs))

\* make_vout raises "input does not cover fee" or "amount + fee exceeds input".
Short == total < FeeDue \/ (cmd.amount # Drain /\ cmd.amount + FeeDue > total)

----------------------------------------------------------------------------
Init ==
    /\ status \in {s \in [Coins -> {"future", "unspent", "spent"}] :
                      \A c \in Coins : c.deep => s[c] # "future"}
    /\ before = status
    /\ masked = FALSE
    /\ cmd \in Commands
    /\ pc = "open" /\ nonce = cmd.start /\ form = 1 /\ info = Unasked
    /\ keys = <<>> /\ pending = {} /\ sources = <<>>
    /\ stop = "none" /\ cashback = NoAddress

\* The rest of the world: a payment arrives, or a coin is spent.
Others ==
    /\ pc \notin Final \ {"built"}
    /\ \E c \in Coins :
         \/ status[c] = "future" /\ status' = [status EXCEPT ![c] = "unspent"]
         \/ status[c] = "unspent" /\ status' = [status EXCEPT ![c] = "spent"]
    /\ UNCHANGED <<before, masked, cmd, pc, nonce, form, info, keys, pending,
                   sources, stop, cashback>>

\* The keys of another nonce are derived: nothing is known of them.
Turn(n) == nonce' = n /\ form' = 1 /\ info' = Unasked

\* A key of the nonce is asked for its total_received.
AskInfo(used) ==
    /\ Learns(nonce, Forms[form], info[Forms[form]], used)
    /\ info' = [info EXCEPT ![Forms[form]] = AsInfo(used)]

\* Mutant: a form the walk did not have to ask about is taken for unused.
OwnKey_NotAsked(n, known) ==
    [nonce |-> n, info |-> IF known = "unknown" THEN "unused" ELSE known]

OwnKey(n, known) == [nonce |-> n, info |-> known]

\* Wallet.__init__: the walk from --nonce over the nonces of which some form
\* was ever paid, then one fresh key (DEFAULT_NEW_ADDRESSES).
OpenWalk ==
    /\ pc = "open"
    /\ \E used \in BOOLEAN :
         /\ Learns(nonce, Forms[form], info[Forms[form]], used)
         /\ \/ /\ used
               /\ keys' = Append(keys, OwnKey(nonce, IF Forms[form] = Own
                                             THEN "used" ELSE info[Own]))
               /\ Turn(nonce + 1)
               /\ UNCHANGED pc
            \/ /\ ~used /\ form < Len(Forms)
               /\ form' = form + 1
               /\ info' = [info EXCEPT ![Forms[form]] = "unused"]
               /\ UNCHANGED <<pc, nonce, keys>>
            \/ /\ ~used /\ form = Len(Forms)
               /\ keys' = Append(keys, OwnKey(nonce, "unknown"))
               /\ pc' = cmd.kind
               /\ Turn(0)
    /\ UNCHANGED <<chain, pending, sources, stop, cashback>>

\* balance: get_unspent of the next key.
BalanceUnspent ==
    /\ pc = "balance"
    /\ \E coins \in SUBSET At(Head(keys).nonce, Own) :
         /\ Lists(Head(keys).nonce, Own, coins)
         /\ pending' = Confirmed(coins)
    /\ pc' = "line"
    /\ UNCHANGED <<chain, nonce, form, info, keys, sources, stop, cashback>>

\* balance: is_unused of that key, which may be an answer of the walk.
BalanceLine ==
    /\ pc = "line"
    /\ \E used \in BOOLEAN :
         /\ Learns(Head(keys).nonce, Own, Head(keys).info, used)
         /\ sources' = IF used /\ pending # {}
                       THEN Append(sources, [nonce |-> Head(keys).nonce,
                                             form |-> Own, coins |-> pending])
                       ELSE sources
    /\ keys' = Tail(keys) /\ pending' = {}
    /\ pc' = IF Len(keys) = 1 THEN "done" ELSE "balance"
    /\ UNCHANGED <<chain, nonce, form, info, stop, cashback>>

\* _select_inputs without --scan: the primary address, change to itself.
SelectPrimary ==
    /\ pc = "send"
    /\ \E coins \in SUBSET At(keys[1].nonce, Own) :
         /\ Lists(keys[1].nonce, Own, coins)
         /\ sources' = <<[nonce |-> keys[1].nonce, form |-> Own,
                          coins |-> Confirmed(coins)]>>
    /\ stop' = "primary"
    /\ cashback' = [nonce |-> keys[1].nonce, form |-> Own]
    /\ pc' = "build"
    /\ UNCHANGED <<chain, nonce, form, info, keys, pending>>

\* Mutant: the change skips a nonce.
FreshAddress_Next == [nonce |-> nonce + 1, form |-> Own]

\* The address of the gap nonce in the wallet's own form.
FreshAddress == [nonce |-> nonce, form |-> Own]

\* _scan_inputs: is the nonce used?  The question ends at the first form
\* that is; the nonce where none is takes the change.
ScanNonce ==
    /\ pc = "scan"
    /\ \E used \in BOOLEAN :
         /\ AskInfo(used)
         /\ \/ /\ used
               /\ form' = 1 /\ pc' = "gather"
               /\ UNCHANGED <<stop, cashback>>
            \/ /\ ~used /\ form < Len(Forms)
               /\ form' = form + 1
               /\ UNCHANGED <<pc, stop, cashback>>
            \/ /\ ~used /\ form = Len(Forms)
               /\ stop' = "gap"
               /\ cashback' = FreshAddress
               /\ pc' = "build"
               /\ UNCHANGED form
    /\ UNCHANGED <<chain, nonce, keys, pending, sources>>

LastAddress(srcs) == [nonce |-> nonce, form |-> Last(srcs).form]

\* Mutant: an emptied nonce is asked about again.
NextNonce_IfFound(found) == IF found THEN nonce + 1 ELSE nonce

NextNonce(found) == nonce + 1

\* The inner loop goes on to the next form, or the outer one to the end of
\* this nonce, where the target is looked at if anything was found here.
NextForm ==
    LET found == sources' # <<>> /\ Last(sources').nonce = nonce
        met == found /\ cmd.amount # Drain /\ Enough(sources')
    IN  \/ /\ form < Len(Forms)
           /\ form' = form + 1 /\ pc' = "gather"
           /\ UNCHANGED <<nonce, stop, cashback>>
        \/ /\ form = Len(Forms) /\ met
           /\ stop' = "target" /\ pc' = "build"
           /\ cashback' = LastAddress(sources')
           /\ UNCHANGED <<nonce, form>>
        \/ /\ form = Len(Forms) /\ ~met
           /\ nonce' = NextNonce(found) /\ form' = 1 /\ pc' = "scan"
           /\ UNCHANGED <<stop, cashback>>

\* _scan_inputs: get_info of a form; one never paid is passed over.
GatherInfo ==
    /\ pc = "gather"
    /\ \E used \in BOOLEAN :
         /\ Learns(nonce, Forms[form], info[Forms[form]], used)
         /\ \/ /\ used
               /\ pc' = "list"
               /\ info' = [info EXCEPT ![Forms[form]] = "used"]
               /\ UNCHANGED <<nonce, form, sources, stop, cashback>>
            \/ /\ ~used
               /\ UNCHANGED sources
               /\ NextForm
               /\ info' = IF pc' = "scan" THEN Unasked
                          ELSE [info EXCEPT ![Forms[form]] = "unused"]
    /\ UNCHANGED <<chain, keys, pending>>

\* _scan_inputs: get_unspent of a used form, whatever the confirmations.
GatherUnspent ==
    /\ pc = "list"
    /\ \E coins \in SUBSET At(nonce, Forms[form]) :
         /\ Lists(nonce, Forms[form], coins)
         /\ sources' = IF coins = {} THEN sources
                       ELSE Append(sources, [nonce |-> nonce,
                                   form |-> Forms[form], coins |-> coins])
    /\ NextForm
    /\ info' = IF pc' = "scan" THEN Unasked ELSE info
    /\ UNCHANGED <<chain, keys, pending>>

\* make_transaction, whose arithmetic FeeLoop details.
Build ==
    /\ pc = "build"
    /\ pc' = IF Short THEN "short" ELSE "built"
    /\ UNCHANGED <<chain, masked, nonce, form, info, keys, pending, sources,
                   stop, cashback>>

\* _announce_tx with --broadcast and a yes: the network takes a transaction
\* only when all its inputs are there.
Announce ==
    /\ pc = "built"
    /\ IF Inputs # {} /\ \A c \in Inputs : status[c] = "unspent"
       THEN /\ pc' = "sent"
            /\ status' = [c \in Coins |-> IF c \in Inputs THEN "spent" ELSE status[c]]
       ELSE /\ pc' = "refused"
            /\ UNCHANGED status
    /\ UNCHANGED <<before, masked, cmd, nonce, form, info, keys, pending,
                   sources, stop, cashback>>

Command ==
    \/ OpenWalk \/ BalanceUnspent \/ BalanceLine \/ SelectPrimary
    \/ ScanNonce \/ GatherInfo \/ GatherUnspent \/ Build \/ Announce

Next == Others \/ Command

Spec == Init /\ [][Next]_vars

\* The command is one thread that is always ready to run; a transaction that
\* is built need not be broadcast.
FairSpec == Spec /\ WF_vars(Command /\ pc # "built")

----------------------------------------------------------------------------
TypeOK ==
    /\ status \in [Coins -> {"future", "unspent", "spent"}]
    /\ before \in [Coins -> {"future", "unspent", "spent"}]
    /\ masked \in BOOLEAN /\ cmd \in Commands
    /\ pc \in {"open", "balance", "line", "send", "scan", "gather", "list",
               "build"} \cup Final
    /\ nonce \in Nat /\ form \in DOMAIN Forms
    /\ info \in [ToSet(Forms) -> Infos]
    /\ keys \in Seq([nonce : Nat, info : Infos])
    /\ pending \in SUBSET Coins
    /\ sources \in Seq([nonce : Nat, form : ToSet(Forms), coins : SUBSET Coins])
    /\ stop \in {"none", "gap", "target", "primary"}
    /\ cashback \in [nonce : Nat, form : ToSet(Forms) \cup {"none"}]

Reaches(state, from, n) ==
    \A m \in from..n : \E c \in Coins : c.nonce = m /\ state[c] # "future"

\* The funds a walk from `from` had to meet: on the chain from the beginning
\* of the command to now, with no gap before them.
Due(from) == {c \in Coins : /\ before[c] = "unspent" /\ status[c] = "unspent"
                            /\ c.nonce >= from /\ Reaches(before, from, c.nonce)}

\* A scan that ran into the gap has collected all there was: forms that were
\* paid and emptied, and payments that arrive while it walks, make it miss
\* nothing of what was there before.  (Docstring of _scan_inputs, "note on
\* gap detection".)
NothingLeftBehind ==
    stop = "gap" /\ ~masked => Due(0) \subseteq Inputs

\* A scan stops at the first nonce that fills the target and never before:
\* without the sources of the last nonce the target was not met, and a scan
\* that found the gap has not met it at all.
StopsAtTarget ==
    cmd.kind = "scan" /\ cmd.amount # Drain =>
      /\ stop = "gap" /\ Target > 0 => total < Target
      /\ stop = "target" =>
           /\ total >= Target
           /\ LET earlier == {c \in Inputs : c.nonce < Last(sources).nonce}
              IN  earlier # {} => Worth(earlier) < Target

\* The change of a scan lands where the next walk from nonce 0 finds it, even
\* when providers hide what they know: no nonce before it is unpaid.
ChangeFound ==
    stop \in {"gap", "target"} => Reaches(status, 0, cashback.nonce - 1)

\* balance counts all confirmed funds of the selected form that were on the
\* chain when it began, although it decides with answers of the walk.
BalanceComplete ==
    pc = "done" /\ ~masked =>
      {c \in Due(cmd.start) : c.form = Own /\ c.deep} \subseteq Inputs

\* Every command ends: each walk meets an unpaid nonce.
CommandEnds == <>(pc \in Final)

\* The help of --addr-type: it affects only the receiving encoding, "balance
\* and send still see and spend UTXOs of every form".
BalanceSeesEveryForm ==
    pc = "done" /\ ~masked => {c \in Due(cmd.start) : c.deep} \subseteq Inputs

\* _select_inputs says of --scan that the collected inputs must cover the
\* payment and the fee: then a send is short only when the scan had to end
\* at the gap.
ShortOnlyAtTheGap == pc = "short" => stop # "target"
=============================================================================
