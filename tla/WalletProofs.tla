---------------------------- MODULE WalletProofs ----------------------------
(***************************************************************************)
(* Proofs for the wallet's commands: the types, and what ChangeFound,      *)
(* NothingLeftBehind, StopsAtTarget and BalanceComplete state, for every   *)
(* finite set of outputs, every command line, whatever others pay or spend *)
(* between two requests, and providers that may hide what they know.       *)
(*                                                                         *)
(* ChangeFound speaks of the nonces before the change; the scan looks at   *)
(* one nonce at a time and forgets the ones before.  What carries the      *)
(* property is that the nonces the scan has passed were each paid          *)
(* (Reached): it passes a nonce only with an answer "used" in the cache of *)
(* that nonce (SomeUsed), an answer "used" is never made up (Learned), and *)
(* an address that was paid stays paid.                                    *)
(*                                                                         *)
(* NothingLeftBehind speaks of all nonces before the gap.  An answer       *)
(* "unused" in the cache was true of the chain at the beginning of the     *)
(* command (Silent).  The question whether a nonce is used goes through    *)
(* its forms in order (Asked).  What was due at the addresses behind the   *)
(* walk has been collected (Collected).  At the gap all forms are          *)
(* "unused", so nothing due lies at that nonce or, for want of a path,     *)
(* beyond it.                                                              *)
(*                                                                         *)
(* StopsAtTarget needs that the sources come nonce by nonce (Ordered), so  *)
(* that the outputs of the earlier nonces are those on which the scan went *)
(* on (Unmet).                                                             *)
(*                                                                         *)
(* BalanceComplete follows an output that has to be counted from the walk  *)
(* to the sum: either it is counted or a key of its nonce is still to come *)
(* (Opening, Counting), and an address is left out only by an answer that  *)
(* was true (KeptAnswers).                                                 *)
(*                                                                         *)
(* CommandAdvances: every step of a command takes it to a later phase or   *)
(* leaves fewer requests in this one (StepsLeft), since a walk goes on only *)
(* from a paid nonce and those have a top (Top).  What others do in between *)
(* adds nothing.                                                           *)
(***************************************************************************)
EXTENDS Wallet, InductionFacts

Form == {"legacy", "native", "taproot"}
Walking == {"scan", "gather", "list"}

Typed ==
    /\ status \in [Coins -> {"future", "unspent", "spent"}]
    /\ nonce \in Nat
    /\ form \in 1..3
    /\ info \in [Form -> Infos]
    /\ cmd \in Commands

Reached == pc \in Walking => Reaches(status, 0, nonce - 1)

Learned == pc \in Walking => \A f \in Form : info[f] = "used" => Received(nonce, f)

SomeUsed == pc \in {"gather", "list"} => \E f \in Form : info[f] = "used"

IInv == Typed /\ Reached /\ Learned /\ SomeUsed /\ ChangeFound

\* Nothing that was paid becomes unpaid.
Grows == \A c \in Coins : status[c] # "future" => status'[c] # "future"

----------------------------------------------------------------------------
\* The forms, and the one the walk is at.
LEMMA FormsAre ==
    /\ ToSet(Forms) = Form
    /\ DOMAIN Forms = 1..3 /\ Len(Forms) = 3
    /\ \A i \in 1..3 : Forms[i] \in Form
<1>1. /\ Forms[1] = "legacy" /\ Forms[2] = "native" /\ Forms[3] = "taproot"
      /\ Len(Forms) = 3 /\ DOMAIN Forms = 1..3
    BY DEF Forms
<1>2. \A i \in 1..3 : i = 1 \/ i = 2 \/ i = 3 OBVIOUS
<1>3. ToSet(Forms) = {Forms[i] : i \in 1..3} BY <1>1 DEF ToSet
<1>4. {Forms[i] : i \in 1..3} = Form BY <1>1, <1>2 DEF Form
<1> QED BY <1>1, <1>2, <1>3, <1>4 DEF Form

\* Nothing is known of a nonce that the walk turns to.
LEMMA UnaskedType == Unasked \in [Form -> Infos] /\ \A f \in Form : Unasked[f] # "used"
BY FormsAre DEF Unasked, Infos

\* What the walk has passed stays passed while payments only arrive.
LEMMA ReachesKept ==
    ASSUME Grows, NEW n, NEW k, Reaches(status, k, n)
    PROVE  Reaches(status', k, n)
BY DEF Grows, Reaches

\* A nonce with a paid form extends what the walk has passed.
LEMMA ReachesOneMore ==
    ASSUME NEW f \in Form, NEW n \in Nat, Reaches(status, 0, n - 1), Received(n, f)
    PROVE  Reaches(status, 0, n)
<1>1. PICK c \in Coins : c.nonce = n /\ status[c] # "future"
    BY DEF Received, At
<1>2. \A m \in 0..n : m = n \/ m \in 0..n - 1 OBVIOUS
<1> QED BY <1>1, <1>2 DEF Reaches

\* An answer "used" is backed by the chain or by an earlier answer.
LEMMA LearnsTrue ==
    ASSUME NEW n, NEW f, NEW known, Learns(n, f, known, TRUE)
    PROVE  known = "used" \/ Received(n, f)
BY DEF Learns

\* An answer "unused" does not contradict an earlier one.
LEMMA LearnsFalse ==
    ASSUME NEW n, NEW f, NEW known, Learns(n, f, known, FALSE)
    PROVE  known # "used"
BY DEF Learns

----------------------------------------------------------------------------
\* A command starts before any walk and with no change address.
LEMMA InitIInv == Init => IInv
<1> SUFFICES ASSUME Init PROVE IInv OBVIOUS
<1>1. Typed
  <2>1. cmd.start \in Nat /\ cmd \in Commands BY CommandsAssumption DEF Init
  <2> QED BY <2>1, UnaskedType DEF Init, Typed
<1>2. pc = "open" /\ stop = "none" BY DEF Init
<1> QED BY <1>1, <1>2 DEF IInv, Reached, Learned, SomeUsed, ChangeFound, Walking

\* The steps that change what is on the chain: payments and spends.
LEMMA ChainIInv ==
    ASSUME IInv, Grows, status' \in [Coins -> {"future", "unspent", "spent"}],
           UNCHANGED <<nonce, form, info, cmd, stop, cashback>>,
           pc' = pc \/ pc' \notin Walking
    PROVE  IInv'
<1>1. Typed' BY DEF IInv, Typed
<1>2. Reached' BY ReachesKept DEF IInv, Reached, Walking
<1>3. Learned'
  <2>1. \A n, f : Received(n, f) => Received(n, f)' BY DEF Grows, Received, At
  <2> QED BY <2>1 DEF IInv, Learned, Walking
<1>4. SomeUsed' BY DEF IInv, SomeUsed, Walking
<1>5. ChangeFound' BY ReachesKept DEF IInv, ChangeFound
<1> QED BY <1>1, <1>2, <1>3, <1>4, <1>5 DEF IInv

\* Others only pay: what was paid stays paid.
LEMMA OthersIInv == IInv /\ Others => IInv'
<1> SUFFICES ASSUME IInv, Others PROVE IInv' OBVIOUS
<1>1. PICK c \in Coins :
        \/ status[c] = "future" /\ status' = [status EXCEPT ![c] = "unspent"]
        \/ status[c] = "unspent" /\ status' = [status EXCEPT ![c] = "spent"]
    BY DEF Others
<1>2. Grows /\ status' \in [Coins -> {"future", "unspent", "spent"}]
    BY <1>1 DEF IInv, Typed, Grows
<1>3. UNCHANGED <<nonce, form, info, cmd, stop, cashback, pc>> BY DEF Others
<1> QED BY <1>2, <1>3, ChainIInv

\* A broadcast spends and pays, and moves no walk.
LEMMA AnnounceIInv == IInv /\ Announce => IInv'
<1> SUFFICES ASSUME IInv, Announce PROVE IInv' OBVIOUS
<1>1. UNCHANGED <<nonce, form, info, cmd, stop, cashback>> /\ pc' \notin Walking
    BY DEF Announce, Walking
<1>2. \/ status' = [c \in Coins |-> IF c \in Inputs THEN "spent" ELSE status[c]]
      \/ status' = status
    BY DEF Announce
<1>3. Grows /\ status' \in [Coins -> {"future", "unspent", "spent"}]
    BY <1>2 DEF IInv, Typed, Grows
<1> QED BY <1>1, <1>3, ChainIInv

----------------------------------------------------------------------------
\* The opening walk keeps no promise of its own; a scan begins at nonce 0.
LEMMA OpenWalkIInv == IInv /\ OpenWalk => IInv'
<1> SUFFICES ASSUME IInv, OpenWalk PROVE IInv' OBVIOUS
<1>1. pc = "open" /\ UNCHANGED <<status, cmd, stop, cashback>>
    BY DEF OpenWalk, chain
<1>2. ChangeFound' BY <1>1 DEF IInv, ChangeFound, Reaches
<1>3. \/ pc' = pc
      \/ pc' = cmd.kind /\ Turn(0)
    BY DEF OpenWalk
<1>4. Typed'
  <2>1. form \in 1..3 /\ nonce \in Nat /\ info \in [Form -> Infos]
      BY DEF IInv, Typed
  <2>2. Forms[form] \in Form BY <2>1, FormsAre
  <2>3. \/ Turn(nonce + 1) \/ Turn(0)
        \/ /\ form < 3 /\ form' = form + 1
           /\ info' = [info EXCEPT ![Forms[form]] = "unused"]
           /\ nonce' = nonce
      BY FormsAre DEF OpenWalk
  <2>4. nonce' \in Nat /\ form' \in 1..3 /\ info' \in [Form -> Infos]
      BY <2>1, <2>2, <2>3, UnaskedType DEF Turn, Infos
  <2> QED BY <1>1, <2>4 DEF IInv, Typed
<1>5. CASE pc' = pc
    BY <1>1, <1>2, <1>4, <1>5 DEF IInv, Reached, Learned, SomeUsed, Walking
<1>6. CASE pc' = cmd.kind /\ Turn(0)
  <2>1. pc' \notin {"gather", "list"}
    <3>1. cmd.kind \in {"balance", "send", "scan"}
        BY CommandsAssumption DEF IInv, Typed
    <3> QED BY <1>6, <3>1
  <2>2. Reached' BY <1>6 DEF Turn, Reached, Reaches
  <2>3. Learned' BY <1>6, UnaskedType DEF Turn, Learned
  <2>4. SomeUsed' BY <2>1 DEF SomeUsed
  <2> QED BY <1>2, <1>4, <2>2, <2>3, <2>4 DEF IInv
<1> QED BY <1>3, <1>5, <1>6

\* The steps of balance, of a plain send and of the build end no scan.
LEMMA OtherCommandsIInv ==
    IInv /\ (BalanceUnspent \/ BalanceLine \/ SelectPrimary \/ Build) => IInv'
<1> SUFFICES ASSUME IInv, BalanceUnspent \/ BalanceLine \/ SelectPrimary \/ Build
             PROVE  IInv'
    OBVIOUS
<1>1. UNCHANGED <<status, nonce, form, info, cmd>> /\ pc' \notin Walking
    BY DEF BalanceUnspent, BalanceLine, SelectPrimary, Build, chain, Walking
<1>2. stop' = "primary" \/ UNCHANGED <<stop, cashback>>
    BY DEF BalanceUnspent, BalanceLine, SelectPrimary, Build
<1>3. ChangeFound' BY <1>1, <1>2 DEF IInv, ChangeFound, Reaches
<1>4. Typed' BY <1>1 DEF IInv, Typed
<1>5. Reached' /\ Learned' /\ SomeUsed'
    BY <1>1 DEF Reached, Learned, SomeUsed, Walking
<1> QED BY <1>3, <1>4, <1>5 DEF IInv

----------------------------------------------------------------------------
\* The scan asks whether the nonce is used; it goes on with a used form in
\* the cache, or ends at a nonce that all it has passed lead up to.
LEMMA ScanNonceIInv == IInv /\ ScanNonce => IInv'
<1> SUFFICES ASSUME IInv, ScanNonce PROVE IInv' OBVIOUS
<1> DEFINE f == Forms[form]
<1>1. pc = "scan" /\ UNCHANGED <<status, cmd, nonce>> BY DEF ScanNonce, chain
<1>2. f \in Form BY FormsAre DEF IInv, Typed
<1>3. PICK used \in BOOLEAN :
        /\ Learns(nonce, f, info[f], used)
        /\ info' = [info EXCEPT ![f] = AsInfo(used)]
        /\ \/ /\ used /\ form' = 1 /\ pc' = "gather"
              /\ UNCHANGED <<stop, cashback>>
           \/ /\ ~used /\ form < 3 /\ form' = form + 1
              /\ UNCHANGED <<pc, stop, cashback>>
           \/ /\ ~used /\ stop' = "gap" /\ cashback' = FreshAddress
              /\ pc' = "build" /\ UNCHANGED form
    BY FormsAre DEF ScanNonce, AskInfo
<1>4. Typed'
  <2>1. info' \in [Form -> Infos] BY <1>3 DEF IInv, Typed, AsInfo, Infos
  <2>2. form' \in 1..3 BY <1>3 DEF IInv, Typed
  <2> QED BY <1>1, <2>1, <2>2 DEF IInv, Typed
<1>5. Reached' BY <1>1 DEF IInv, Reached, Walking, Reaches
<1>6. Learned'
  <2>1. \A g \in Form : info'[g] = "used" => info[g] = "used" \/ (g = f /\ used)
      BY <1>2, <1>3 DEF IInv, Typed, AsInfo
  <2>2. used => info[f] = "used" \/ Received(nonce, f) BY <1>3, LearnsTrue
  <2>3. \A g \in Form : info[g] = "used" => Received(nonce, g)
      BY <1>1 DEF IInv, Learned, Walking
  <2>4. \A g \in Form : info'[g] = "used" => Received(nonce, g)
      BY <2>1, <2>2, <2>3
  <2>5. \A g : Received(nonce, g)' = Received(nonce, g)
      BY <1>1 DEF Received, At
  <2> QED BY <2>4, <2>5 DEF Learned
<1>7. SomeUsed'
  <2>1. pc' = "gather" => info'[f] = "used"
      BY <1>1, <1>2, <1>3 DEF IInv, Typed, AsInfo
  <2>2. pc' # "list" BY <1>1, <1>3
  <2> QED BY <1>2, <2>1, <2>2 DEF SomeUsed
<1>8. ChangeFound'
  <2>1. Reaches(status, 0, nonce - 1) BY <1>1 DEF IInv, Reached, Walking
  <2>2. \/ stop' = "gap" /\ cashback' = FreshAddress
        \/ UNCHANGED <<stop, cashback>>
      BY <1>3
  <2>3. FreshAddress.nonce = nonce BY DEF FreshAddress
  <2> QED BY <1>1, <2>1, <2>2, <2>3 DEF IInv, ChangeFound, Reaches
<1> QED BY <1>4, <1>5, <1>6, <1>7, <1>8 DEF IInv

\* Leaving a form of a used nonce: to the next form, to the build with the
\* address of the last source, or past the nonce, which was paid.
LEMMA NextFormIInv ==
    ASSUME IInv, pc \in {"gather", "list"}, NextForm, UNCHANGED <<status, cmd>>,
           NEW g \in Form, info[g] = "used",
           pc' = "scan" => info' = Unasked,
           pc' # "scan" => /\ info' \in [Form -> Infos]
                           /\ info'[g] = "used"
                           /\ \A h \in Form : info'[h] = "used" => info[h] = "used"
    PROVE  IInv'
<1>1. \/ /\ form < 3 /\ form' = form + 1 /\ pc' = "gather"
         /\ UNCHANGED <<nonce, stop, cashback>>
      \/ /\ stop' = "target" /\ pc' = "build"
         /\ cashback' = LastAddress(sources')
         /\ UNCHANGED <<nonce, form>>
      \/ /\ nonce' = nonce + 1 /\ form' = 1 /\ pc' = "scan"
         /\ UNCHANGED <<stop, cashback>>
    BY FormsAre DEF NextForm, NextNonce
<1>2. Reaches(status, 0, nonce - 1) BY DEF IInv, Reached, Walking
<1>3. \A h \in Form : info[h] = "used" => Received(nonce, h)
    BY DEF IInv, Learned, Walking
<1>4. nonce \in Nat BY DEF IInv, Typed
<1>5. Typed'
  <2>1. nonce' \in Nat /\ form' \in 1..3 BY <1>1 DEF IInv, Typed
  <2>2. info' \in [Form -> Infos] BY UnaskedType
  <2> QED BY <2>1, <2>2 DEF IInv, Typed
<1>6. Reached'
  <2>1. Reaches(status, 0, nonce) BY <1>2, <1>3, <1>4, ReachesOneMore
  <2>2. pc' = "scan" => nonce' = nonce + 1 BY <1>1
  <2>3. pc' = "gather" => nonce' = nonce BY <1>1
  <2>4. pc' = "scan" => nonce' - 1 = nonce BY <1>4, <2>2
  <2>5. pc' \in {"build", "gather", "scan"} BY <1>1
  <2> QED BY <1>2, <2>1, <2>3, <2>4, <2>5 DEF Reached, Reaches, Walking
<1>7. Learned'
  <2>1. CASE pc' = "scan" BY <2>1, UnaskedType DEF Learned
  <2>2. CASE pc' # "scan"
    <3>1. nonce' = nonce BY <1>1, <2>2
    <3> QED BY <1>3, <2>2, <3>1 DEF Learned, Received, At
  <2> QED BY <2>1, <2>2
<1>8. SomeUsed' BY <1>1 DEF SomeUsed
<1>9. ChangeFound'
  <2>1. LastAddress(sources').nonce = nonce BY DEF LastAddress
  <2> QED BY <1>1, <1>2, <2>1 DEF IInv, ChangeFound, Reaches
<1> QED BY <1>5, <1>6, <1>7, <1>8, <1>9 DEF IInv

\* The question whether a form was used; a "no" for the last form ends the nonce.
LEMMA GatherInfoIInv == IInv /\ GatherInfo => IInv'
<1> SUFFICES ASSUME IInv, GatherInfo PROVE IInv' OBVIOUS
<1> DEFINE f == Forms[form]
<1>1. pc = "gather" /\ UNCHANGED <<status, cmd>> BY DEF GatherInfo, chain
<1>2. f \in Form /\ info \in [Form -> Infos] BY FormsAre DEF IInv, Typed
<1>3. PICK g \in Form : info[g] = "used" BY <1>1 DEF IInv, SomeUsed
<1>4. PICK used \in BOOLEAN :
        /\ Learns(nonce, f, info[f], used)
        /\ \/ /\ used /\ pc' = "list" /\ info' = [info EXCEPT ![f] = "used"]
              /\ UNCHANGED <<nonce, form, sources, stop, cashback>>
           \/ /\ ~used /\ NextForm
              /\ info' = IF pc' = "scan" THEN Unasked
                         ELSE [info EXCEPT ![f] = "unused"]
    BY DEF GatherInfo
<1>5. CASE used
  <2>1. pc' = "list" /\ info' = [info EXCEPT ![f] = "used"]
        /\ UNCHANGED <<nonce, form, stop, cashback>>
      BY <1>4, <1>5
  <2>2. info[f] = "used" \/ Received(nonce, f) BY <1>4, <1>5, LearnsTrue
  <2>3. \A h \in Form : info[h] = "used" => Received(nonce, h)
      BY <1>1 DEF IInv, Learned, Walking
  <2>4. \A h \in Form : info'[h] = "used" => Received(nonce, h)
      BY <1>2, <2>1, <2>2, <2>3
  <2>5. Learned' BY <1>1, <2>1, <2>4 DEF Learned, Received, At
  <2>6. Typed' BY <1>1, <1>2, <2>1 DEF IInv, Typed, Infos
  <2>7. SomeUsed' BY <1>2, <2>1 DEF SomeUsed
  <2>8. Reached' /\ ChangeFound'
      BY <1>1, <2>1 DEF IInv, Reached, ChangeFound, Reaches, Walking
  <2> QED BY <2>5, <2>6, <2>7, <2>8 DEF IInv
<1>6. CASE ~used
  <2>1. NextForm /\ info' = IF pc' = "scan" THEN Unasked
                            ELSE [info EXCEPT ![f] = "unused"]
      BY <1>4, <1>6
  <2>2. Learns(nonce, f, info[f], FALSE) BY <1>4, <1>6
  <2>3. g # f BY <1>3, <2>2, LearnsFalse
  <2>4. pc' # "scan" => /\ info' \in [Form -> Infos]
                        /\ info'[g] = "used"
                        /\ \A h \in Form : info'[h] = "used" => info[h] = "used"
      BY <1>2, <1>3, <2>1, <2>3 DEF Infos
  <2> QED BY <1>1, <1>3, <2>1, <2>4, NextFormIInv
<1> QED BY <1>5, <1>6

\* Listing an address ends its turn; the nonce keeps its used form.
LEMMA GatherUnspentIInv == IInv /\ GatherUnspent => IInv'
<1> SUFFICES ASSUME IInv, GatherUnspent PROVE IInv' OBVIOUS
<1>1. /\ pc = "list" /\ NextForm /\ UNCHANGED <<status, cmd>>
      /\ info' = IF pc' = "scan" THEN Unasked ELSE info
    BY DEF GatherUnspent, chain
<1>2. PICK g \in Form : info[g] = "used" BY <1>1 DEF IInv, SomeUsed
<1>3. info \in [Form -> Infos] BY DEF IInv, Typed
<1> QED BY <1>1, <1>2, <1>3, NextFormIInv

----------------------------------------------------------------------------
\* Every step keeps the invariant of the change.
LEMMA StepIInv == IInv /\ [Next]_vars => IInv'
<1> SUFFICES ASSUME IInv, [Next]_vars PROVE IInv' OBVIOUS
<1>1. CASE Others BY <1>1, OthersIInv
<1>2. CASE OpenWalk BY <1>2, OpenWalkIInv
<1>3. CASE BalanceUnspent \/ BalanceLine \/ SelectPrimary \/ Build
    BY <1>3, OtherCommandsIInv
<1>4. CASE ScanNonce BY <1>4, ScanNonceIInv
<1>5. CASE GatherInfo BY <1>5, GatherInfoIInv
<1>6. CASE GatherUnspent BY <1>6, GatherUnspentIInv
<1>7. CASE Announce BY <1>7, AnnounceIInv
<1>8. CASE UNCHANGED vars
    BY <1>8 DEF vars, IInv, Typed, Reached, Learned, SomeUsed, ChangeFound,
                Reaches, Received, At
<1> QED BY <1>1, <1>2, <1>3, <1>4, <1>5, <1>6, <1>7, <1>8 DEF Next, Command

\* The change of a scan lands where the next walk from nonce 0 finds it:
\* whatever others pay or spend meanwhile and whatever providers hide, every
\* nonce before it has been paid (_scan_inputs and its two return values).
THEOREM ChangeFoundHolds == Spec => []ChangeFound
<1>1. Init => IInv BY InitIInv
<1>2. IInv /\ [Next]_vars => IInv' BY StepIInv
<1>3. IInv => ChangeFound BY DEF IInv
<1> QED BY <1>1, <1>2, <1>3, PTL DEF Spec
----------------------------------------------------------------------------
Key == [nonce : Nat, info : Infos]
Source == [nonce : Nat, form : Form, coins : SUBSET Coins]
Status == {"future", "unspent", "spent"}

\* The steps that look at the first key have one.
KeysLeft == pc \in {"balance", "line", "send"} => keys # <<>>

TInv == TypeOK /\ KeysLeft

----------------------------------------------------------------------------
(* Types *)

\* The types over the set of the forms.
LEMMA TypeFacts ==
    ASSUME TypeOK
    PROVE  /\ status \in [Coins -> Status] /\ before \in [Coins -> Status]
           /\ masked \in BOOLEAN /\ cmd \in Commands
           /\ nonce \in Nat /\ form \in 1..3 /\ Forms[form] \in Form
           /\ info \in [Form -> Infos] /\ info[Forms[form]] \in Infos
           /\ keys \in Seq(Key) /\ pending \in SUBSET Coins
           /\ sources \in Seq(Source)
<1>1. ToSet(Forms) = Form /\ DOMAIN Forms = 1..3 BY FormsAre
<1>2. form \in 1..3 BY <1>1 DEF TypeOK
<1>3. Forms[form] \in Form BY <1>2, FormsAre
<1>4. info \in [Form -> Infos] /\ sources \in Seq(Source)
    BY <1>1 DEF TypeOK, Source
<1> QED BY <1>2, <1>3, <1>4 DEF TypeOK, Status, Key

\* What a command line holds.
LEMMA CommandType ==
    ASSUME NEW c \in Commands
    PROVE  c.kind \in {"balance", "send", "scan"} /\ c.start \in Nat
BY CommandsAssumption

\* An answer of get_info keeps the types.
LEMMA LearnsType ==
    ASSUME TypeOK, NEW n, NEW f, NEW known, NEW used \in BOOLEAN, Learns(n, f, known, used)
    PROVE  masked' \in BOOLEAN
BY DEF TypeOK, Learns

\* A listing keeps the types.
LEMMA ListsType ==
    ASSUME TypeOK, NEW n, NEW f, NEW coins, Lists(n, f, coins)
    PROVE  masked' \in BOOLEAN
BY DEF TypeOK, Lists

\* A command starts in its types.
LEMMA InitTInv == Init => TInv
<1> SUFFICES ASSUME Init PROVE TInv OBVIOUS
<1>1. cmd.start \in Nat BY CommandType DEF Init
<1>2. DOMAIN Forms = 1..3 BY FormsAre
<1>3. info \in [ToSet(Forms) -> Infos] BY UnaskedType, FormsAre DEF Init
<1>4. /\ keys \in Seq([nonce : Nat, info : Infos])
      /\ sources \in Seq([nonce : Nat, form : ToSet(Forms), coins : SUBSET Coins])
    BY DEF Init
<1>5. cashback \in [nonce : Nat, form : ToSet(Forms) \cup {"none"}]
    BY DEF Init, NoAddress
<1>6. /\ status \in [Coins -> {"future", "unspent", "spent"}] /\ before = status
      /\ masked \in BOOLEAN /\ cmd \in Commands /\ pending \in SUBSET Coins
      /\ pc = "open" /\ stop = "none" /\ nonce = cmd.start /\ form = 1
    BY DEF Init
<1>7. TypeOK BY <1>1, <1>2, <1>3, <1>4, <1>5, <1>6 DEF TypeOK
<1> QED BY <1>6, <1>7 DEF TInv, KeysLeft

\* Others change the chain only.
LEMMA OthersTInv == TInv /\ Others => TInv'
<1> SUFFICES ASSUME TInv, Others PROVE TInv' OBVIOUS
<1>1. status' \in [Coins -> {"future", "unspent", "spent"}]
    BY DEF TInv, TypeOK, Others
<1> QED BY <1>1 DEF TInv, TypeOK, KeysLeft, Others

\* The forms of a fresh nonce.
LEMMA TurnType ==
    ASSUME NEW n \in Nat, Turn(n)
    PROVE  nonce' \in Nat /\ form' \in DOMAIN Forms /\ info' \in [ToSet(Forms) -> Infos]
BY FormsAre, UnaskedType DEF Turn

\* The opening walk leaves a key behind, which the commands after it look at.
LEMMA OpenWalkTInv == TInv /\ OpenWalk => TInv'
<1> SUFFICES ASSUME TInv, OpenWalk PROVE TInv' OBVIOUS
<1> DEFINE f == Forms[form]
<1>1. PICK used \in BOOLEAN :
         /\ Learns(nonce, f, info[f], used)
         /\ \/ /\ used
               /\ keys' = Append(keys, OwnKey(nonce, IF f = Own THEN "used" ELSE info[Own]))
               /\ Turn(nonce + 1)
               /\ UNCHANGED pc
            \/ /\ ~used /\ form < Len(Forms)
               /\ form' = form + 1
               /\ info' = [info EXCEPT ![f] = "unused"]
               /\ UNCHANGED <<pc, nonce, keys>>
            \/ /\ ~used /\ form = Len(Forms)
               /\ keys' = Append(keys, OwnKey(nonce, "unknown"))
               /\ pc' = cmd.kind
               /\ Turn(0)
    BY DEF OpenWalk
<1>2. masked' \in BOOLEAN BY <1>1, LearnsType DEF TInv
<1>3. /\ nonce \in Nat /\ form \in 1..3 /\ f \in Form /\ info \in [Form -> Infos]
      /\ keys \in Seq(Key) /\ cmd \in Commands
    BY TypeFacts DEF TInv
<1>4. /\ pc = "open" /\ UNCHANGED <<status, before, cmd, pending, sources, stop, cashback>>
    BY DEF OpenWalk, chain
<1>5. ASSUME NEW known \in Infos
      PROVE  OwnKey(nonce, known) \in Key
    BY <1>3 DEF OwnKey, Key
<1>6. CASE /\ keys' = Append(keys, OwnKey(nonce, IF f = Own THEN "used" ELSE info[Own]))
           /\ Turn(nonce + 1) /\ UNCHANGED pc
    <2>1. (IF f = Own THEN "used" ELSE info[Own]) \in Infos
        BY <1>3, OwnAssumption DEF Infos, Form
    <2>2. keys' \in Seq(Key) BY <1>3, <1>5, <1>6, <2>1
    <2>3. /\ nonce' \in Nat /\ form' \in DOMAIN Forms
          /\ info' \in [ToSet(Forms) -> Infos]
        BY <1>3, <1>6, TurnType
    <2> QED BY <1>2, <1>4, <1>6, <2>2, <2>3 DEF TInv, TypeOK, KeysLeft, Key
<1>7. CASE /\ form < Len(Forms) /\ form' = form + 1
           /\ info' = [info EXCEPT ![f] = "unused"] /\ UNCHANGED <<pc, nonce, keys>>
    <2>1. form' \in DOMAIN Forms BY <1>3, <1>7, FormsAre
    <2>2. info' \in [ToSet(Forms) -> Infos] BY <1>3, <1>7, FormsAre DEF Infos
    <2> QED BY <1>2, <1>4, <1>7, <2>1, <2>2 DEF TInv, TypeOK, KeysLeft
<1>8. CASE /\ keys' = Append(keys, OwnKey(nonce, "unknown"))
           /\ pc' = cmd.kind /\ Turn(0)
    <2>1. OwnKey(nonce, "unknown") \in Key BY <1>5 DEF Infos
    <2>2. keys' \in Seq(Key) /\ keys' # <<>> BY <1>3, <1>8, <2>1
    <2>3. /\ nonce' \in Nat /\ form' \in DOMAIN Forms
          /\ info' \in [ToSet(Forms) -> Infos]
        BY <1>8, TurnType
    <2>4. pc' \in {"balance", "send", "scan"} BY <1>3, <1>8, CommandType
    <2> QED BY <1>2, <1>4, <2>2, <2>3, <2>4 DEF TInv, TypeOK, KeysLeft, Key
<1> QED BY <1>1, <1>6, <1>7, <1>8

\* The steps of balance, of a plain send and of the build.
LEMMA OtherCommandsTInv ==
    TInv /\ (BalanceUnspent \/ BalanceLine \/ SelectPrimary \/ Build) => TInv'
<1> SUFFICES ASSUME TInv, BalanceUnspent \/ BalanceLine \/ SelectPrimary \/ Build
             PROVE  TInv'
    OBVIOUS
<1>1. /\ keys \in Seq(Key) /\ sources \in Seq(Source) /\ Own \in Form
      /\ UNCHANGED <<status, before, cmd, nonce, form, info>>
    BY TypeFacts, OwnAssumption
       DEF TInv, Form, BalanceUnspent, BalanceLine, SelectPrimary, Build, chain
<1>2. \A n, f : At(n, f) \subseteq Coins BY DEF At
<1>3. CASE BalanceUnspent
    <2>1. PICK coins \in SUBSET At(Head(keys).nonce, Own) :
            Lists(Head(keys).nonce, Own, coins) /\ pending' = Confirmed(coins)
        BY <1>3 DEF BalanceUnspent
    <2>2. masked' \in BOOLEAN /\ pending' \in SUBSET Coins
        BY <1>2, <2>1, ListsType DEF TInv, Confirmed
    <2> QED BY <1>1, <1>3, <2>2 DEF TInv, TypeOK, KeysLeft, BalanceUnspent
<1>4. CASE BalanceLine
    <2>1. keys # <<>> BY <1>4 DEF TInv, KeysLeft, BalanceLine
    <2>2. Head(keys) \in Key /\ Tail(keys) \in Seq(Key) BY <1>1, <2>1
    <2>3. PICK used \in BOOLEAN :
            /\ Learns(Head(keys).nonce, Own, Head(keys).info, used)
            /\ sources' = IF used /\ pending # {}
                          THEN Append(sources, [nonce |-> Head(keys).nonce,
                                                form |-> Own, coins |-> pending])
                          ELSE sources
        BY <1>4 DEF BalanceLine
    <2>4. masked' \in BOOLEAN BY <2>3, LearnsType DEF TInv
    <2>5. [nonce |-> Head(keys).nonce, form |-> Own, coins |-> pending] \in Source
        BY <1>1, <2>2 DEF TInv, TypeOK, Key, Source
    <2>6. sources' \in Seq(Source) BY <1>1, <2>3, <2>5
    <2>7. /\ keys' = Tail(keys) /\ pending' = {} /\ UNCHANGED <<stop, cashback>>
          /\ pc' = IF Len(keys) = 1 THEN "done" ELSE "balance"
        BY <1>4 DEF BalanceLine
    <2>8. pc' = "balance" => keys' # <<>>
        <3>1. Len(keys) \in Nat \ {0} /\ Len(Tail(keys)) = Len(keys) - 1 BY <1>1, <2>1
        <3>2. pc' = "balance" => Len(keys) # 1 BY <2>7
        <3>3. Len(<<>>) = 0 OBVIOUS
        <3>4. ASSUME pc' = "balance" PROVE Tail(keys) # <<>> BY <3>1, <3>2, <3>3, <3>4
        <3> QED BY <2>7, <3>4
    <2>9. pc' \in {"done", "balance"} BY <2>7
    <2> QED BY <1>1, <2>2, <2>4, <2>6, <2>7, <2>8, <2>9, FormsAre
            DEF TInv, TypeOK, KeysLeft, Key, Source, Final
<1>5. CASE SelectPrimary
    <2>1. keys # <<>> BY <1>5 DEF TInv, KeysLeft, SelectPrimary
    <2>2. keys[1] \in Key BY <1>1, <2>1
    <2>3. PICK coins \in SUBSET At(keys[1].nonce, Own) :
            /\ Lists(keys[1].nonce, Own, coins)
            /\ sources' = <<[nonce |-> keys[1].nonce, form |-> Own,
                             coins |-> Confirmed(coins)]>>
        BY <1>5 DEF SelectPrimary
    <2>4. masked' \in BOOLEAN BY <2>3, ListsType DEF TInv
    <2>5. sources' \in Seq(Source)
        <3>1. Confirmed(coins) \in SUBSET Coins BY <1>2 DEF Confirmed
        <3> QED BY <1>1, <2>2, <2>3, <3>1 DEF Key, Source
    <2>6. /\ cashback' = [nonce |-> keys[1].nonce, form |-> Own] /\ stop' = "primary"
          /\ pc' = "build" /\ UNCHANGED <<keys, pending>>
        BY <1>5 DEF SelectPrimary
    <2>7. cashback' \in [nonce : Nat, form : Form \cup {"none"}]
        BY <1>1, <2>2, <2>6 DEF Key
    <2> QED BY <1>1, <2>4, <2>5, <2>6, <2>7, FormsAre
            DEF TInv, TypeOK, KeysLeft, Source
<1>6. CASE Build
    BY <1>6 DEF TInv, TypeOK, KeysLeft, Build, chain, Final
<1> QED BY <1>3, <1>4, <1>5, <1>6

\* The scan's questions keep the types.
LEMMA ScanNonceTInv == TInv /\ ScanNonce => TInv'
<1> SUFFICES ASSUME TInv, ScanNonce PROVE TInv' OBVIOUS
<1> DEFINE f == Forms[form]
<1>1. PICK used \in BOOLEAN :
        /\ Learns(nonce, f, info[f], used)
        /\ info' = [info EXCEPT ![f] = AsInfo(used)]
        /\ \/ /\ form' = 1 /\ pc' = "gather" /\ UNCHANGED <<stop, cashback>>
           \/ /\ form < 3 /\ form' = form + 1 /\ UNCHANGED <<pc, stop, cashback>>
           \/ /\ stop' = "gap" /\ cashback' = FreshAddress
              /\ pc' = "build" /\ UNCHANGED form
    BY FormsAre DEF ScanNonce, AskInfo
<1>2. masked' \in BOOLEAN BY <1>1, LearnsType DEF TInv
<1>3. nonce \in Nat /\ form \in 1..3 /\ f \in Form /\ info \in [Form -> Infos]
    BY TypeFacts DEF TInv
<1>4. info' \in [ToSet(Forms) -> Infos]
    BY <1>1, <1>3, FormsAre DEF AsInfo, Infos
<1>5. /\ pc = "scan"
      /\ UNCHANGED <<status, before, cmd, nonce, keys, pending, sources>>
    BY DEF ScanNonce, chain
<1>6. form' \in DOMAIN Forms BY <1>1, <1>3, FormsAre
<1>7. FreshAddress \in [nonce : Nat, form : ToSet(Forms) \cup {"none"}]
    BY <1>3, OwnAssumption, FormsAre DEF FreshAddress, Form
<1> QED BY <1>1, <1>2, <1>4, <1>5, <1>6, <1>7 DEF TInv, TypeOK, KeysLeft

\* Going on to the next form needs the new list of sources only.
LEMMA NextFormTInv ==
    ASSUME TInv, NextForm, sources' \in Seq(Source), masked' \in BOOLEAN,
           pc \in {"gather", "list"}, info' \in [Form -> Infos],
           UNCHANGED <<chain, keys, pending>>
    PROVE  TInv'
<1>1. \/ /\ form < 3 /\ form' = form + 1 /\ pc' = "gather"
         /\ UNCHANGED <<nonce, stop, cashback>>
      \/ /\ sources' # <<>> /\ stop' = "target" /\ pc' = "build"
         /\ cashback' = LastAddress(sources')
         /\ UNCHANGED <<nonce, form>>
      \/ /\ nonce' = nonce + 1 /\ form' = 1 /\ pc' = "scan"
         /\ UNCHANGED <<stop, cashback>>
    BY FormsAre DEF NextForm, NextNonce
<1>2. nonce \in Nat /\ form \in 1..3 BY TypeFacts DEF TInv
<1>3. nonce' \in Nat /\ form' \in DOMAIN Forms BY <1>1, <1>2, FormsAre
<1>4. sources' # <<>> =>
        LastAddress(sources') \in [nonce : Nat, form : ToSet(Forms) \cup {"none"}]
    <2> SUFFICES ASSUME sources' # <<>>
                 PROVE  LastAddress(sources') \in
                          [nonce : Nat, form : ToSet(Forms) \cup {"none"}]
        OBVIOUS
    <2>1. Len(sources') \in 1..Len(sources') OBVIOUS
    <2>2. Last(sources') \in Source BY <2>1 DEF Last
    <2> QED BY <1>2, <2>2, FormsAre DEF LastAddress, Source
<1>5. /\ sources' \in Seq([nonce : Nat, form : ToSet(Forms), coins : SUBSET Coins])
      /\ info' \in [ToSet(Forms) -> Infos]
    BY FormsAre DEF Source
<1> QED BY <1>1, <1>3, <1>4, <1>5 DEF TInv, TypeOK, KeysLeft, chain

\* Collecting an address keeps the types.
LEMMA GatherTInv == TInv /\ (GatherInfo \/ GatherUnspent) => TInv'
<1> SUFFICES ASSUME TInv, GatherInfo \/ GatherUnspent PROVE TInv' OBVIOUS
<1> DEFINE f == Forms[form]
<1>1. /\ nonce \in Nat /\ f \in Form /\ info \in [Form -> Infos]
      /\ sources \in Seq(Source)
    BY TypeFacts DEF TInv
<1>2. Unasked \in [Form -> Infos] BY UnaskedType
<1>3. CASE GatherInfo
    <2>1. PICK used \in BOOLEAN :
            /\ Learns(nonce, f, info[f], used)
            /\ \/ /\ used /\ pc' = "list" /\ info' = [info EXCEPT ![f] = "used"]
                  /\ UNCHANGED <<nonce, form, sources, stop, cashback>>
               \/ /\ ~used /\ UNCHANGED sources /\ NextForm
                  /\ info' = IF pc' = "scan" THEN Unasked
                             ELSE [info EXCEPT ![f] = "unused"]
        BY <1>3 DEF GatherInfo
    <2>2. masked' \in BOOLEAN BY <2>1, LearnsType DEF TInv
    <2>3. pc = "gather" /\ UNCHANGED <<chain, keys, pending>> BY <1>3 DEF GatherInfo
    <2>4. info' \in [Form -> Infos] BY <1>1, <1>2, <2>1 DEF Infos
    <2>5. CASE NextForm /\ UNCHANGED sources
        BY <1>1, <2>2, <2>3, <2>4, <2>5, NextFormTInv
    <2>6. CASE pc' = "list" /\ UNCHANGED <<nonce, form, sources, stop, cashback>>
        BY <2>2, <2>3, <2>4, <2>6, FormsAre DEF TInv, TypeOK, KeysLeft, chain
    <2> QED BY <2>1, <2>5, <2>6
<1>4. CASE GatherUnspent
    <2>1. PICK coins \in SUBSET At(nonce, f) :
            /\ Lists(nonce, f, coins)
            /\ sources' = IF coins = {} THEN sources
                          ELSE Append(sources, [nonce |-> nonce, form |-> f,
                                                coins |-> coins])
        BY <1>4 DEF GatherUnspent
    <2>2. masked' \in BOOLEAN BY <2>1, ListsType DEF TInv
    <2>3. coins \in SUBSET Coins BY DEF At
    <2>4. sources' \in Seq(Source)
        <3>1. [nonce |-> nonce, form |-> f, coins |-> coins] \in Source
            BY <1>1, <2>3 DEF Source
        <3> QED BY <1>1, <2>1, <3>1
    <2>5. /\ pc = "list" /\ NextForm /\ UNCHANGED <<chain, keys, pending>>
          /\ info' = IF pc' = "scan" THEN Unasked ELSE info
        BY <1>4 DEF GatherUnspent
    <2>6. info' \in [Form -> Infos] BY <1>1, <1>2, <2>5
    <2> QED BY <2>2, <2>4, <2>5, <2>6, NextFormTInv
<1> QED BY <1>3, <1>4

\* A broadcast keeps the types.
LEMMA AnnounceTInv == TInv /\ Announce => TInv'
<1> SUFFICES ASSUME TInv, Announce PROVE TInv' OBVIOUS
<1>1. status' \in [Coins -> {"future", "unspent", "spent"}]
    BY DEF TInv, TypeOK, Announce
<1>2. pc' \in {"sent", "refused"} BY DEF Announce
<1> QED BY <1>1, <1>2 DEF TInv, TypeOK, KeysLeft, Announce, Final

\* Every step keeps the types.
LEMMA StepTInv == TInv /\ [Next]_vars => TInv'
<1> SUFFICES ASSUME TInv, [Next]_vars PROVE TInv' OBVIOUS
<1>1. CASE UNCHANGED vars BY <1>1 DEF vars, TInv, TypeOK, KeysLeft
<1>2. CASE Others BY <1>2, OthersTInv
<1>3. CASE Command
    BY <1>3, OpenWalkTInv, OtherCommandsTInv, ScanNonceTInv, GatherTInv, AnnounceTInv
       DEF Command
<1> QED BY <1>1, <1>2, <1>3 DEF Next

\* The types hold throughout.
LEMMA TypesHold == Spec => []TInv
BY InitTInv, StepTInv, PTL DEF Spec

\* Every variable of a command stays in its type, through all its requests
\* and whatever the network answers.
THEOREM TypeCorrect == Spec => []TypeOK
<1>1. TInv => TypeOK BY DEF TInv
<1> QED BY <1>1, TypesHold, PTL

----------------------------------------------------------------------------
(* Nothing left behind *)

\* Nothing had been paid to the address when the command began.
Empty(n, f) == \A c \in At(n, f) : before[c] = "future"

\* The walk has passed the address of the coin.
Behind(c) ==
    \/ c.nonce < nonce
    \/ /\ pc # "scan" /\ c.nonce = nonce
       /\ \E k \in 1..3 : k < form /\ c.form = Forms[k]

Selecting == {"open", "balance", "line", "send"} \cup Walking

Lasting == \A c \in Coins : before[c] # "future" => status[c] # "future"
Unstopped == pc \in Selecting => stop = "none"
Silent == pc \in Walking /\ ~masked =>
            \A f \in Form : info[f] = "unused" => Empty(nonce, f)
Asked == pc = "scan" => \A k \in 1..3 : k < form => info[Forms[k]] = "unused"
Collected == pc \in Walking /\ ~masked =>
               \A c \in Due(0) : Behind(c) => c \in Inputs

FInv ==
    TypeOK /\ Lasting /\ Unstopped /\ Silent /\ Asked /\ Collected /\ NothingLeftBehind

\* Every coin lies at a nonce and a form.
LEMMA CoinType == \A c \in Coins : c.nonce \in Nat /\ c.form \in Form
BY CoinsAssumption DEF Form

\* A true answer "unused" speaks of the beginning too, for payments stay.
LEMMA UnusedWasEmpty ==
    ASSUME TypeOK, Lasting, NEW n, NEW f, NEW known \in Infos,
           Learns(n, f, known, FALSE), ~masked'
    PROVE  ~masked /\ (known = "unused" \/ Empty(n, f))
<1>1. CASE known # "unknown" BY <1>1 DEF Learns, Infos, TypeOK
<1>2. CASE known = "unknown"
    <2>1. masked' = (masked \/ FALSE # Received(n, f)) BY <1>2 DEF Learns
    <2>2. CASE Received(n, f)
        <3>1. (FALSE # Received(n, f)) = TRUE BY <2>2
        <3> QED BY <2>1, <3>1
    <2>3. CASE ~Received(n, f)
        <3>1. Empty(n, f) BY <2>3 DEF Empty, Received, Lasting, At
        <3>2. ~masked BY <2>1
        <3> QED BY <3>1, <3>2
    <2> QED BY <2>2, <2>3
<1> QED BY <1>1, <1>2

\* What has been hidden stays hidden.
LEMMA MaskStays ==
    ASSUME TypeOK, NEW n, NEW f, NEW known, NEW used \in BOOLEAN,
           Learns(n, f, known, used), ~masked'
    PROVE  ~masked
BY DEF TypeOK, Learns

\* A list that hides nothing shows all that is due at the address.
LEMMA ListedDue ==
    ASSUME TypeOK, NEW n, NEW f, NEW coins, Lists(n, f, coins), ~masked'
    PROVE  ~masked /\ \A c \in Due(0) : c.nonce = n /\ c.form = f => c \in coins
<1>1. ~masked /\ coins = Unspent(n, f) BY DEF TypeOK, Lists
<1> QED BY <1>1 DEF Due, Unspent, At

\* An address that was empty at the beginning owes nothing.
LEMMA EmptyOwesNothing ==
    ASSUME NEW n, NEW f, Empty(n, f), NEW c \in Due(0), c.nonce = n
    PROVE  c.form # f
BY DEF Empty, Due, At

\* Nothing is left behind before anything was passed.
LEMMA InitFInv == Init => FInv
<1> SUFFICES ASSUME Init PROVE FInv OBVIOUS
<1>1. TypeOK BY InitTInv DEF TInv
<1>2. pc = "open" /\ stop = "none" /\ before = status BY DEF Init
<1> QED BY <1>1, <1>2 DEF FInv, Lasting, Unstopped, Silent, Asked, Collected,
                          NothingLeftBehind, Walking

\* Payments and spends only take from what is due.
LEMMA ChainFInv ==
    ASSUME FInv, TypeOK', Grows,
           \A c \in Coins : before[c] = "unspent" /\ status'[c] = "unspent"
                             => status[c] = "unspent",
           UNCHANGED <<before, masked, nonce, form, info, sources, stop>>,
           pc' = pc \/ pc' \in Final
    PROVE  FInv'
<1>1. Due(0)' \subseteq Due(0) BY DEF Due, Reaches
<1>2. Inputs' = Inputs BY DEF Inputs
<1>3. pc' = pc \/ pc' \notin Selecting BY DEF Final, Selecting, Walking
<1>4. Lasting' BY DEF FInv, Lasting, Grows
<1>5. Unstopped' BY <1>3 DEF FInv, Unstopped
<1>6. Silent' BY <1>3 DEF FInv, Silent, Empty, At, Selecting
<1>7. Asked' BY <1>3 DEF FInv, Asked, Selecting, Walking
<1>8. Collected' BY <1>1, <1>2, <1>3 DEF FInv, Collected, Behind, Selecting
<1>9. NothingLeftBehind' BY <1>1, <1>2 DEF FInv, NothingLeftBehind
<1> QED BY <1>4, <1>5, <1>6, <1>7, <1>8, <1>9 DEF FInv

\* Payments and spendings by others make nothing due.
LEMMA OthersFInv == FInv /\ TypeOK' /\ Others => FInv'
<1> SUFFICES ASSUME FInv, TypeOK', Others PROVE FInv' OBVIOUS
<1>1. PICK c \in Coins :
        \/ status[c] = "future" /\ status' = [status EXCEPT ![c] = "unspent"]
        \/ status[c] = "unspent" /\ status' = [status EXCEPT ![c] = "spent"]
    BY DEF Others
<1>2. status \in [Coins -> Status] BY TypeFacts DEF FInv
<1>3. Grows BY <1>1, <1>2 DEF Grows
<1>4. \A d \in Coins : before[d] = "unspent" /\ status'[d] = "unspent"
                        => status[d] = "unspent"
    BY <1>1, <1>2 DEF FInv, Lasting
<1>5. UNCHANGED <<before, masked, nonce, form, info, sources, stop, pc>> BY DEF Others
<1> QED BY <1>3, <1>4, <1>5, ChainFInv

\* A broadcast comes after the scan.
LEMMA AnnounceFInv == FInv /\ TypeOK' /\ Announce => FInv'
<1> SUFFICES ASSUME FInv, TypeOK', Announce PROVE FInv' OBVIOUS
<1>1. \/ status' = [c \in Coins |-> IF c \in Inputs THEN "spent" ELSE status[c]]
      \/ status' = status
    BY DEF Announce
<1>2. Grows BY <1>1 DEF Grows
<1>3. \A d \in Coins : before[d] = "unspent" /\ status'[d] = "unspent"
                        => status[d] = "unspent"
    BY <1>1
<1>4. UNCHANGED <<before, masked, nonce, form, info, sources, stop>> /\ pc' \in Final
    BY DEF Announce, Final
<1> QED BY <1>2, <1>3, <1>4, ChainFInv

\* A step that leaves the chain alone and is not part of a scan.
LEMMA OutsideFInv ==
    ASSUME FInv, TypeOK', UNCHANGED <<status, before>>, Unstopped', pc' \notin Walking,
           stop' = "gap" => UNCHANGED <<stop, masked, sources>>
    PROVE  FInv'
<1>1. Lasting' BY DEF FInv, Lasting
<1>2. Silent' /\ Asked' /\ Collected' BY DEF Silent, Asked, Collected, Walking
<1>3. NothingLeftBehind' BY DEF FInv, NothingLeftBehind, Due, Reaches, Inputs
<1> QED BY <1>1, <1>2, <1>3 DEF FInv

\* The first question of a scan finds nothing behind it.
LEMMA OpenWalkFInv == FInv /\ TypeOK' /\ OpenWalk => FInv'
<1> SUFFICES ASSUME FInv, TypeOK', OpenWalk PROVE FInv' OBVIOUS
<1>1. /\ pc = "open" /\ UNCHANGED <<status, before, stop, sources>>
      /\ pc' = pc \/ (pc' = cmd.kind /\ Turn(0))
    BY DEF OpenWalk, chain
<1>2. stop = "none" BY <1>1 DEF FInv, Unstopped, Selecting
<1>3. Unstopped' BY <1>1, <1>2 DEF Unstopped
<1>4. CASE pc' \notin Walking
    BY <1>1, <1>2, <1>3, <1>4, OutsideFInv
<1>5. CASE pc' \in Walking
    <2>1. pc' = cmd.kind /\ Turn(0) BY <1>1, <1>5 DEF Walking
    <2>2. pc' = "scan" /\ nonce' = 0 /\ form' = 1 /\ info' = Unasked
        BY <1>5, <2>1, TypeFacts, CommandType DEF FInv, Turn, Walking
    <2>3. Lasting' BY <1>1 DEF FInv, Lasting
    <2>4. Silent' BY <2>2, FormsAre DEF Silent, Unasked
    <2>5. Asked' BY <2>2 DEF Asked
    <2>6. Collected' BY <2>2, CoinType DEF Collected, Behind, Due
    <2>7. NothingLeftBehind' BY <1>1, <1>2 DEF NothingLeftBehind
    <2> QED BY <1>3, <2>3, <2>4, <2>5, <2>6, <2>7 DEF FInv
<1> QED BY <1>4, <1>5

\* Balance and plain send collect by their keys.
LEMMA OtherCommandsFInv ==
    FInv /\ TypeOK' /\ (BalanceUnspent \/ BalanceLine \/ SelectPrimary \/ Build) => FInv'
<1> SUFFICES ASSUME FInv, TypeOK',
                    BalanceUnspent \/ BalanceLine \/ SelectPrimary \/ Build
             PROVE  FInv'
    OBVIOUS
<1>1. /\ UNCHANGED <<status, before>> /\ pc' \notin Walking
    BY DEF BalanceUnspent, BalanceLine, SelectPrimary, Build, chain, Walking
<1>2. CASE Build
    <2>1. UNCHANGED <<stop, masked, sources>> /\ pc' \notin Selecting
        BY <1>2 DEF Build, Selecting, Walking
    <2> QED BY <1>1, <2>1, OutsideFInv DEF Unstopped
<1>3. CASE SelectPrimary
    <2>1. stop' = "primary" /\ pc' = "build" BY <1>3 DEF SelectPrimary
    <2> QED BY <1>1, <2>1, OutsideFInv DEF Unstopped, Selecting, Walking
<1>4. CASE BalanceUnspent \/ BalanceLine
    <2>1. stop' = stop /\ pc \in {"balance", "line"}
        BY <1>4 DEF BalanceUnspent, BalanceLine
    <2>2. stop = "none" BY <2>1 DEF FInv, Unstopped, Selecting
    <2> QED BY <1>1, <2>1, <2>2, OutsideFInv DEF Unstopped
<1> QED BY <1>2, <1>3, <1>4

\* At the gap every form was empty at the beginning, so nothing due lies at
\* this nonce, and none leads past it.
LEMMA GapFInv ==
    ASSUME FInv, pc = "scan", ~masked, \A f \in Form : Empty(nonce, f)
    PROVE  Due(0) \subseteq Inputs
<1> SUFFICES ASSUME NEW c \in Due(0) PROVE c \in Inputs OBVIOUS
<1>1. c \in Coins /\ c.nonce \in Nat /\ nonce \in Nat
    BY CoinType, TypeFacts DEF FInv, Due
<1>2. CASE c.nonce < nonce
    BY <1>2 DEF FInv, Collected, Behind, Walking
<1>3. CASE ~(c.nonce < nonce)
    <2>1. nonce \in 0..c.nonce BY <1>1, <1>3
    <2>2. PICK d \in Coins : d.nonce = nonce /\ before[d] # "future"
        BY <2>1 DEF Due, Reaches
    <2>3. d.form \in Form /\ d \in At(nonce, d.form) BY <2>2, CoinType DEF At
    <2> QED BY <2>2, <2>3 DEF Empty
<1> QED BY <1>2, <1>3

\* A nonce is passed when all its forms are unused: then the scan is at the gap.
LEMMA ScanNonceFInv == FInv /\ TypeOK' /\ ScanNonce => FInv'
<1> SUFFICES ASSUME FInv, TypeOK', ScanNonce PROVE FInv' OBVIOUS
<1> DEFINE f == Forms[form]
<1>1. PICK used \in BOOLEAN :
        /\ Learns(nonce, f, info[f], used)
        /\ info' = [info EXCEPT ![f] = AsInfo(used)]
        /\ \/ /\ used /\ form' = 1 /\ pc' = "gather" /\ UNCHANGED stop
           \/ /\ ~used /\ form < 3 /\ form' = form + 1 /\ UNCHANGED <<pc, stop>>
           \/ /\ ~used /\ form = 3 /\ stop' = "gap" /\ pc' = "build"
    BY FormsAre DEF ScanNonce, AskInfo
<1>2. /\ pc = "scan" /\ stop = "none"
      /\ UNCHANGED <<status, before, nonce, sources>>
    BY DEF ScanNonce, chain, FInv, Unstopped, Selecting, Walking
<1>3. /\ nonce \in Nat /\ form \in 1..3 /\ f \in Form
      /\ info \in [Form -> Infos] /\ info[f] \in Infos
    BY TypeFacts DEF FInv
<1>4. ~masked' => ~masked BY <1>1, MaskStays DEF FInv
<1>5. ~masked' => \A g \in Form : info[g] = "unused" => Empty(nonce, g)
    BY <1>2, <1>4 DEF FInv, Silent, Walking
<1>6. ~masked' /\ ~used => Empty(nonce, f)
    <2> SUFFICES ASSUME ~masked', ~used PROVE Empty(nonce, f) OBVIOUS
    <2>1. used = FALSE OBVIOUS
    <2>2. info[f] = "unused" \/ Empty(nonce, f)
        BY <1>1, <1>3, <2>1, UnusedWasEmpty DEF FInv
    <2> QED BY <1>3, <1>5, <2>2
<1>7. ~masked' => \A g \in Form : info'[g] = "unused" => Empty(nonce, g)
    <2>1. ASSUME NEW g \in Form, info'[g] = "unused"
          PROVE  info[g] = "unused" \/ (g = f /\ ~used)
        BY <1>1, <1>3, <2>1 DEF AsInfo
    <2> QED BY <1>5, <1>6, <2>1
<1>8. Lasting' BY <1>2 DEF FInv, Lasting
<1>9. Unstopped' BY <1>1, <1>2 DEF Unstopped, Selecting, Walking
<1>10. Silent' BY <1>2, <1>7 DEF Silent, Empty, At
<1>11. ~used => \A k \in 1..3 : k <= form => info'[Forms[k]] = "unused"
    <2> SUFFICES ASSUME ~used, NEW k \in 1..3, k <= form
                 PROVE  info'[Forms[k]] = "unused"
        OBVIOUS
    <2>1. AsInfo(used) = "unused" BY DEF AsInfo
    <2>2. Forms[k] \in Form BY FormsAre
    <2>3. CASE Forms[k] = f BY <1>1, <1>3, <2>1, <2>3
    <2>4. CASE Forms[k] # f
        <3>1. k < form BY <1>3, <2>4
        <3>2. info[Forms[k]] = "unused" BY <1>2, <3>1 DEF FInv, Asked
        <3> QED BY <1>1, <1>3, <2>2, <2>4, <3>2
    <2> QED BY <2>3, <2>4
<1>12. Asked'
    <2> SUFFICES ASSUME pc' = "scan", NEW k \in 1..3, k < form'
                 PROVE  info'[Forms[k]] = "unused"
        BY DEF Asked
    <2>1. ~used /\ form' = form + 1 BY <1>1, <1>2
    <2>2. k <= form BY <1>3, <2>1
    <2> QED BY <1>11, <2>1, <2>2
<1>13. Due(0)' = Due(0) /\ Inputs' = Inputs BY <1>2 DEF Due, Reaches, Inputs
<1>14. Collected'
    <2> SUFFICES ASSUME pc' \in Walking, ~masked', NEW c \in Due(0), Behind(c)'
                 PROVE  c \in Inputs
        BY <1>13 DEF Collected
    <2>1. c.nonce < nonce
        <3>1. pc' = "scan" \/ (pc' = "gather" /\ form' = 1)
            BY <1>1, <1>2 DEF Walking
        <3>2. nonce' = nonce /\ ~(\E k \in 1..3 : k < 1) BY <1>2
        <3> QED BY <3>1, <3>2 DEF Behind
    <2> QED BY <1>2, <1>4, <2>1 DEF FInv, Collected, Behind, Walking
<1>15. NothingLeftBehind'
    <2> SUFFICES ASSUME stop' = "gap", ~masked' PROVE Due(0) \subseteq Inputs
        BY <1>13 DEF NothingLeftBehind
    <2>1. ~used /\ form = 3 BY <1>1, <1>2
    <2>2. \A k \in 1..3 : info'[Forms[k]] = "unused" BY <1>11, <2>1
    <2>3. \A g \in Form : \E k \in 1..3 : g = Forms[k]
        BY FormsAre DEF Form, Forms
    <2>4. \A g \in Form : Empty(nonce, g) BY <1>7, <2>2, <2>3
    <2> QED BY <1>2, <1>4, <2>4, GapFInv
<1> QED BY <1>8, <1>9, <1>10, <1>12, <1>14, <1>15 DEF FInv

\* Leaving a form behind that owes nothing that has not been collected.
LEMMA NextFormFInv ==
    ASSUME FInv, TypeOK', NextForm, pc \in {"gather", "list"},
           UNCHANGED <<status, before>>,
           pc' = "scan" => info' = Unasked,
           ~masked' =>
             /\ ~masked
             /\ Inputs \subseteq Inputs'
             /\ \A c \in Due(0) : c.nonce = nonce /\ c.form = Forms[form] => c \in Inputs'
             /\ \A f \in Form : info'[f] = "unused" => info[f] = "unused" \/ Empty(nonce, f)
    PROVE  FInv'
<1>1. \/ /\ form < 3 /\ form' = form + 1 /\ pc' = "gather"
         /\ UNCHANGED <<nonce, stop>>
      \/ /\ stop' = "target" /\ pc' = "build"
      \/ /\ form = 3 /\ nonce' = nonce + 1 /\ form' = 1 /\ pc' = "scan"
         /\ UNCHANGED stop
    BY FormsAre DEF NextForm, NextNonce
<1>2. /\ nonce \in Nat /\ form \in 1..3 BY TypeFacts DEF FInv
<1>3. stop = "none" /\ pc \in Walking /\ pc # "scan"
    BY DEF FInv, Unstopped, Selecting, Walking
<1>4. Due(0)' = Due(0) BY DEF Due, Reaches
<1>5. Lasting' BY DEF FInv, Lasting
<1>6. Unstopped' BY <1>1, <1>3 DEF Unstopped, Selecting, Walking
<1>7. Silent'
    <2> SUFFICES ASSUME pc' \in Walking, ~masked', NEW f \in Form, info'[f] = "unused"
                 PROVE  Empty(nonce, f)'
        BY DEF Silent
    <2>1. pc' # "scan"
        <3>1. Unasked[f] = "unknown" BY FormsAre DEF Unasked
        <3> QED BY <3>1
    <2>2. nonce' = nonce BY <1>1, <2>1 DEF Walking
    <2>3. Empty(nonce, f) BY <1>3 DEF FInv, Silent
    <2> QED BY <2>2, <2>3 DEF Empty, At
<1>8. Asked' BY <1>1 DEF Asked
<1>9. Collected'
    <2> SUFFICES ASSUME pc' \in Walking, ~masked', NEW c \in Due(0), Behind(c)'
                 PROVE  c \in Inputs'
        BY <1>4 DEF Collected
    <2>1. c.nonce \in Nat /\ c.form \in Form BY CoinType DEF Due
    <2>2. PICK k \in 1..3 : c.form = Forms[k] BY <2>1, FormsAre DEF Form, Forms
    <2>3. CASE Behind(c)
        BY <1>3, <2>3 DEF FInv, Collected
    <2>4. CASE c.nonce = nonce /\ c.form = Forms[form] BY <2>4
    <2>5. Behind(c) \/ (c.nonce = nonce /\ c.form = Forms[form])
        <3>1. CASE pc' = "scan"
            <4>1. nonce' = nonce + 1 /\ form = 3 BY <1>1, <3>1
            <4>2. c.nonce < nonce + 1 BY <3>1, <4>1 DEF Behind
            <4>3. c.nonce < nonce \/ c.nonce = nonce BY <1>2, <2>1, <4>2
            <4>4. k < form \/ k = form BY <4>1
            <4> QED BY <1>3, <2>2, <4>3, <4>4 DEF Behind
        <3>2. CASE pc' # "scan"
            <4>1. nonce' = nonce /\ form' = form + 1 BY <1>1, <3>2 DEF Walking
            <4>2. CASE c.nonce < nonce BY <4>2 DEF Behind
            <4>3. CASE ~(c.nonce < nonce)
                <5>1. PICK j \in 1..3 : j < form' /\ c.form = Forms[j] /\ c.nonce = nonce
                    BY <4>1, <4>3 DEF Behind
                <5>2. j < form \/ j = form BY <1>2, <4>1, <5>1
                <5> QED BY <1>3, <5>1, <5>2 DEF Behind
            <4> QED BY <4>2, <4>3
        <3> QED BY <3>1, <3>2
    <2> QED BY <2>3, <2>4, <2>5
<1>10. NothingLeftBehind' BY <1>1, <1>3 DEF NothingLeftBehind
<1> QED BY <1>5, <1>6, <1>7, <1>8, <1>9, <1>10 DEF FInv

\* A form never paid owes nothing; a used one is asked for its outputs next.
LEMMA GatherInfoFInv == FInv /\ TypeOK' /\ GatherInfo => FInv'
<1> SUFFICES ASSUME FInv, TypeOK', GatherInfo PROVE FInv' OBVIOUS
<1> DEFINE f == Forms[form]
<1>1. PICK used \in BOOLEAN :
        /\ Learns(nonce, f, info[f], used)
        /\ \/ /\ used /\ pc' = "list" /\ info' = [info EXCEPT ![f] = "used"]
              /\ UNCHANGED <<nonce, form, sources, stop>>
           \/ /\ ~used /\ UNCHANGED sources /\ NextForm
              /\ info' = IF pc' = "scan" THEN Unasked
                         ELSE [info EXCEPT ![f] = "unused"]
    BY DEF GatherInfo
<1>2. pc = "gather" /\ UNCHANGED <<status, before>> BY DEF GatherInfo, chain
<1>3. f \in Form /\ info \in [Form -> Infos] /\ info[f] \in Infos
    BY TypeFacts DEF FInv
<1>4. ~masked' => ~masked BY <1>1, MaskStays DEF FInv
<1>5. UNCHANGED sources /\ Inputs' = Inputs BY <1>1 DEF Inputs
<1>6. CASE used
    <2>1. /\ pc' = "list" /\ info' = [info EXCEPT ![f] = "used"]
          /\ UNCHANGED <<nonce, form, sources, stop>>
        BY <1>1, <1>6
    <2>2. Lasting' BY <1>2 DEF FInv, Lasting
    <2>3. Unstopped' BY <1>2, <2>1 DEF FInv, Unstopped, Selecting, Walking
    <2>4. Silent'
        <3>1. \A g \in Form : info'[g] = "unused" => info[g] = "unused"
            BY <1>3, <2>1
        <3> QED BY <1>2, <1>4, <2>1, <3>1 DEF FInv, Silent, Empty, At, Walking
    <2>5. Asked' BY <2>1 DEF Asked
    <2>6. Collected'
        <3>1. Due(0)' = Due(0) BY <1>2 DEF Due, Reaches
        <3>2. \A c : Behind(c)' => Behind(c) BY <1>2, <2>1 DEF Behind
        <3> QED BY <1>2, <1>4, <1>5, <3>1, <3>2 DEF FInv, Collected, Walking
    <2>7. NothingLeftBehind'
        <3>1. stop' = "none" BY <1>2, <2>1 DEF FInv, Unstopped, Selecting, Walking
        <3> QED BY <3>1 DEF NothingLeftBehind
    <2> QED BY <2>2, <2>3, <2>4, <2>5, <2>6, <2>7 DEF FInv
<1>7. CASE ~used
    <2>1. NextForm /\ info' = IF pc' = "scan" THEN Unasked
                              ELSE [info EXCEPT ![f] = "unused"]
        BY <1>1, <1>7
    <2>2. Learns(nonce, f, info[f], FALSE) BY <1>1, <1>7
    <2>3. ~masked' => Empty(nonce, f)
        <3> SUFFICES ASSUME ~masked' PROVE Empty(nonce, f) OBVIOUS
        <3>1. info[f] = "unused" \/ Empty(nonce, f)
            BY <1>3, <2>2, UnusedWasEmpty DEF FInv
        <3>2. info[f] = "unused" => Empty(nonce, f)
            BY <1>2, <1>3, <1>4 DEF FInv, Silent, Walking
        <3> QED BY <3>1, <3>2
    <2>4. ~masked' => \A c \in Due(0) : c.nonce = nonce => c.form # f
        BY <2>3, EmptyOwesNothing
    <2>5. ~masked' => \A g \in Form : info'[g] = "unused"
                                        => info[g] = "unused" \/ Empty(nonce, g)
        <3> SUFFICES ASSUME ~masked', NEW g \in Form, info'[g] = "unused"
                     PROVE  info[g] = "unused" \/ Empty(nonce, g)
            OBVIOUS
        <3>1. pc' # "scan"
            <4>1. Unasked[g] = "unknown" BY FormsAre DEF Unasked
            <4> QED BY <2>1, <4>1
        <3>2. info' = [info EXCEPT ![f] = "unused"] BY <2>1, <3>1
        <3>3. CASE g = f BY <2>3, <3>3
        <3>4. CASE g # f BY <1>3, <3>2, <3>4
        <3> QED BY <3>3, <3>4
    <2>6. pc' = "scan" => info' = Unasked BY <2>1
    <2>7. pc \in {"gather", "list"} BY <1>2
    <2> QED BY <1>2, <1>4, <1>5, <2>1, <2>4, <2>5, <2>6, <2>7, NextFormFInv
<1> QED BY <1>6, <1>7

\* A used form is listed, and the list has all that is due there.
LEMMA GatherUnspentFInv == FInv /\ TypeOK' /\ GatherUnspent => FInv'
<1> SUFFICES ASSUME FInv, TypeOK', GatherUnspent PROVE FInv' OBVIOUS
<1> DEFINE f == Forms[form]
<1>1. PICK coins \in SUBSET At(nonce, f) :
        /\ Lists(nonce, f, coins)
        /\ sources' = IF coins = {} THEN sources
                      ELSE Append(sources, [nonce |-> nonce, form |-> f, coins |-> coins])
    BY DEF GatherUnspent
<1>2. /\ pc \in {"gather", "list"} /\ NextForm /\ UNCHANGED <<status, before>>
      /\ info' = IF pc' = "scan" THEN Unasked ELSE info
    BY DEF GatherUnspent, chain
<1>3. sources \in Seq(Source) BY TypeFacts DEF FInv
<1>4. Inputs \subseteq Inputs' /\ coins \subseteq Inputs'
    <2>1. CASE coins = {} BY <1>1, <2>1 DEF Inputs
    <2>2. CASE coins # {}
        <3> DEFINE s == [nonce |-> nonce, form |-> f, coins |-> coins]
        <3>1. sources' = Append(sources, s) BY <1>1, <2>2
        <3>2. /\ \A k \in DOMAIN sources : k \in DOMAIN sources' /\ sources'[k] = sources[k]
              /\ Len(sources) + 1 \in DOMAIN sources' /\ sources'[Len(sources) + 1] = s
            BY <1>3, <3>1
        <3>3. ToSet(sources) \subseteq ToSet(sources') /\ s \in ToSet(sources')
            BY <3>2 DEF ToSet
        <3>4. s.coins = coins OBVIOUS
        <3> HIDE DEF s
        <3> QED BY <3>3, <3>4 DEF Inputs
    <2> QED BY <2>1, <2>2
<1>5. ~masked' => /\ ~masked
                  /\ \A c \in Due(0) : c.nonce = nonce /\ c.form = f => c \in Inputs'
    BY <1>1, <1>4, ListedDue DEF FInv
<1>6. ~masked' => \A g \in Form : info'[g] = "unused"
                                    => info[g] = "unused" \/ Empty(nonce, g)
    <2>1. \A g \in Form : Unasked[g] = "unknown" BY FormsAre DEF Unasked
    <2> QED BY <1>2, <2>1
<1>7. pc' = "scan" => info' = Unasked BY <1>2
<1> QED BY <1>2, <1>4, <1>5, <1>6, <1>7, NextFormFInv

\* Every step keeps the invariant of the collection.
LEMMA StepFInv == FInv /\ TypeOK' /\ [Next]_vars => FInv'
<1> SUFFICES ASSUME FInv, TypeOK', [Next]_vars PROVE FInv' OBVIOUS
<1>1. CASE UNCHANGED vars
    BY <1>1 DEF vars, FInv, Lasting, Unstopped, Silent, Asked, Collected, Behind,
                NothingLeftBehind, Due, Reaches, Inputs, Empty, At
<1>2. CASE Others BY <1>2, OthersFInv
<1>3. CASE Command
    BY <1>3, OpenWalkFInv, OtherCommandsFInv, ScanNonceFInv, GatherInfoFInv,
       GatherUnspentFInv, AnnounceFInv
       DEF Command
<1> QED BY <1>1, <1>2, <1>3 DEF Next

\* A scan that runs into the gap has collected everything that was there when
\* the command began and is still there, along unbroken nonces: emptied
\* addresses, answers cached by get_info and payments that arrive in
\* between make _scan_inputs miss nothing, unless an answer hid it.
THEOREM NothingLeftBehindHolds == Spec => []NothingLeftBehind
<1>1. Init => FInv BY InitFInv
<1>2. FInv /\ TypeOK' /\ [Next]_vars => FInv' BY StepFInv
<1>3. FInv => NothingLeftBehind BY DEF FInv
<1> QED BY <1>1, <1>2, <1>3, TypeCorrect, PTL DEF Spec

----------------------------------------------------------------------------
(* Stops at the target *)

\* The worth of a set of outputs is an amount.
LEMMA WorthType ==
    ASSUME NEW D \in SUBSET Coins
    PROVE  Worth(D) \in Nat
<1> DEFINE w == [c \in D |-> c.amount]
           iter == CHOOSE f : f = [s \in SUBSET D |-> IF s = {} THEN 0
              ELSE (CHOOSE x \in s : TRUE).amount + f[s \ {CHOOSE x \in s : TRUE}]]
<1>1. w \in [D -> Nat] /\ IsFiniteSet(D) BY CoinsAssumption, FS_Subset
<1>2. \A f : Sums(f, w, D) <=> f = [s \in SUBSET D |-> IF s = {} THEN 0
              ELSE (CHOOSE x \in s : TRUE).amount + f[s \ {CHOOSE x \in s : TRUE}]]
    <2>1. \A s \in SUBSET D : s # {} => w[CHOOSE x \in s : TRUE] = (CHOOSE x \in s : TRUE).amount
        OBVIOUS
    <2> HIDE DEF w
    <2> QED BY <2>1 DEF Sums
<1>3. Worth(D) = iter[D] BY DEF Worth, FoldSet, MapThenFoldSet
<1> HIDE DEF w
<1>4. Sums(iter, w, D)
    <2>1. \E f : Sums(f, w, D) BY <1>1, SumExists
    <2> QED BY <1>2, <2>1
<1> HIDE DEF iter
<1> QED BY <1>1, <1>3, <1>4, SumType

\* Nothing is worth nothing.
LEMMA WorthOfNothing == Worth({}) = 0
<1> DEFINE w == [c \in {} |-> 0]
           iter == CHOOSE f : f = [s \in SUBSET {} |-> IF s = {} THEN 0
              ELSE (CHOOSE x \in s : TRUE).amount + f[s \ {CHOOSE x \in s : TRUE}]]
<1>1. Worth({}) = iter[{}] BY DEF Worth, FoldSet, MapThenFoldSet
<1>2. \E f : f = [s \in SUBSET {} |-> IF s = {} THEN 0
              ELSE (CHOOSE x \in s : TRUE).amount + f[s \ {CHOOSE x \in s : TRUE}]]
    <2> DEFINE f == [s \in SUBSET {} |-> 0]
    <2>1. f = [s \in SUBSET {} |-> IF s = {} THEN 0
              ELSE (CHOOSE x \in s : TRUE).amount + f[s \ {CHOOSE x \in s : TRUE}]]
        OBVIOUS
    <2> QED BY <2>1
<1>3. iter = [s \in SUBSET {} |-> IF s = {} THEN 0
              ELSE (CHOOSE x \in s : TRUE).amount + iter[s \ {CHOOSE x \in s : TRUE}]]
    BY <1>2
<1> HIDE DEF iter
<1> QED BY <1>1, <1>3

\* The outputs of a list of sources, and those of earlier nonces.
Gathered(srcs) == UNION {s.coins : s \in ToSet(srcs)}
Earlier(srcs, n) == {c \in Gathered(srcs) : c.nonce < n}

\* The sources come nonce by nonce, each with outputs of its own nonce.
Ordered(srcs) ==
    \A i \in DOMAIN srcs :
        /\ srcs[i].nonce <= Last(srcs).nonce
        /\ \A c \in srcs[i].coins : c.nonce = srcs[i].nonce

Unmet(coins) == cmd.amount # Drain /\ coins # {} => Worth(coins) < Target

QInv ==
    /\ pc = "open" => sources = <<>>
    /\ pc \in Walking =>
         /\ Ordered(sources)
         /\ sources # <<>> => /\ Last(sources).nonce <= nonce
                              /\ pc = "scan" => Last(sources).nonce < nonce
         /\ Unmet(Earlier(sources, nonce))
    /\ StopsAtTarget

\* What has to be covered is an amount, unless the wallet is drained.
LEMMA TargetType ==
    ASSUME TypeOK, cmd.amount # Drain PROVE Target \in Nat
<1>1. cmd \in Commands BY DEF TypeOK
<1>2. cmd.amount \in Nat /\ cmd.fee \in Nat BY <1>1, CommandsAssumption
<1> QED BY <1>2 DEF Target

\* The collected outputs are outputs of the chain.
LEMMA GatheredType ==
    ASSUME NEW srcs \in Seq(Source)
    PROVE  /\ Gathered(srcs) \in SUBSET Coins
           /\ srcs # <<>> => Last(srcs) \in Source
<1>1. \A i \in DOMAIN srcs : srcs[i] \in Source OBVIOUS
<1>2. \A s \in ToSet(srcs) : s.coins \in SUBSET Coins BY <1>1 DEF ToSet, Source
<1>3. srcs # <<>> => Len(srcs) \in DOMAIN srcs OBVIOUS
<1> QED BY <1>1, <1>2, <1>3 DEF Gathered, Last

\* No collected output lies beyond the last source.
LEMMA OrderedNonces ==
    ASSUME NEW srcs \in Seq(Source), Ordered(srcs), NEW c \in Gathered(srcs)
    PROVE  srcs # <<>> /\ c.nonce <= Last(srcs).nonce
<1>1. PICK i \in DOMAIN srcs : c \in srcs[i].coins BY DEF Gathered, ToSet
<1> QED BY <1>1 DEF Ordered

\* The invariant of the collection holds when a command begins.
LEMMA InitQInv == Init => QInv
BY DEF Init, QInv, Walking, StopsAtTarget

\* Steps that leave the walk alone.
LEMMA StillQInv ==
    ASSUME QInv, UNCHANGED <<cmd, sources, nonce, stop>>,
           pc' = pc \/ (pc' \notin Walking \cup {"open"})
    PROVE  QInv'
<1>1. Inputs' = Inputs /\ total' = total /\ Target' = Target
    BY DEF Inputs, total, Target
<1>2. StopsAtTarget' BY <1>1 DEF QInv, StopsAtTarget
<1> QED BY <1>1, <1>2 DEF QInv, Unmet

\* After the last form of a nonce the scan stops if its target is met; otherwise
\* what it has so far did not meet the target.
LEMMA NextFormQInv ==
    ASSUME QInv, FInv, TypeOK', NextForm, UNCHANGED cmd, pc \in {"gather", "list"},
           sources' \in Seq(Source), Ordered(sources'),
           sources' # <<>> => Last(sources').nonce <= nonce,
           Earlier(sources', nonce) = Earlier(sources, nonce)
    PROVE  QInv'
<1> DEFINE found == sources' # <<>> /\ Last(sources').nonce = nonce
<1>1. \/ /\ form < 3 /\ pc' = "gather" /\ UNCHANGED <<nonce, stop>>
      \/ /\ found /\ cmd.amount # Drain /\ Enough(sources')
         /\ stop' = "target" /\ pc' = "build" /\ UNCHANGED nonce
      \/ /\ ~(found /\ cmd.amount # Drain /\ Enough(sources'))
         /\ nonce' = nonce + 1 /\ pc' = "scan" /\ UNCHANGED stop
    BY FormsAre DEF NextForm, NextNonce
<1>2. nonce \in Nat /\ sources \in Seq(Source) BY TypeFacts DEF FInv
<1>3. Inputs' = Gathered(sources') BY DEF Inputs, Gathered
<1>4. Target' = Target BY DEF Target
<1>5. stop = "none" BY DEF FInv, Unstopped, Selecting, Walking
<1>6. Unmet(Earlier(sources, nonce)) BY DEF QInv, Walking
<1>7. \A c \in Gathered(sources') : sources' # <<>> /\ c.nonce <= Last(sources').nonce
    BY OrderedNonces
<1>8. /\ Gathered(sources') \in SUBSET Coins
      /\ sources' # <<>> => Last(sources').nonce \in Nat
    <2>1. \A s \in Source : s.nonce \in Nat BY DEF Source
    <2> QED BY <2>1, GatheredType
<1>9. \A c \in Coins : c.nonce \in Nat BY CoinType
<1>10. CASE pc' = "gather" /\ UNCHANGED <<nonce, stop>>
    <2>1. StopsAtTarget' BY <1>5, <1>10 DEF StopsAtTarget
    <2> QED BY <1>4, <1>6, <1>10, <2>1 DEF QInv, Unmet
<1>11. CASE /\ found /\ cmd.amount # Drain /\ Enough(sources')
            /\ stop' = "target" /\ pc' = "build" /\ UNCHANGED nonce
    <2>1. Worth(Inputs') >= Target BY <1>3, <1>11 DEF Enough, Gathered
    <2>2. {c \in Inputs' : c.nonce < Last(sources').nonce} = Earlier(sources, nonce)
        BY <1>3, <1>11 DEF Earlier
    <2>3. StopsAtTarget'
        BY <1>4, <1>6, <1>11, <2>1, <2>2 DEF StopsAtTarget, total, Unmet
    <2> QED BY <1>11, <2>3 DEF QInv, Walking
<1>12. CASE /\ ~(found /\ cmd.amount # Drain /\ Enough(sources'))
            /\ nonce' = nonce + 1 /\ pc' = "scan" /\ UNCHANGED stop
    <2>1. StopsAtTarget' BY <1>5, <1>12 DEF StopsAtTarget
    <2>2. Earlier(sources', nonce') = Gathered(sources')
        BY <1>2, <1>7, <1>8, <1>9, <1>12 DEF Earlier
    <2>3. sources' # <<>> => Last(sources').nonce < nonce'
        BY <1>2, <1>8, <1>12
    <2>4. Unmet(Gathered(sources'))
        <3>1. CASE found
            <4> SUFFICES ASSUME cmd.amount # Drain PROVE Worth(Gathered(sources')) < Target
                BY DEF Unmet
            <4>1. ~(Worth(Gathered(sources')) >= Target)
                BY <1>12, <3>1 DEF Enough, Gathered
            <4>2. Worth(Gathered(sources')) \in Nat /\ Target \in Nat
                BY <1>8, WorthType, TargetType DEF FInv
            <4> QED BY <4>1, <4>2
        <3>2. CASE ~found
            <4>1. Earlier(sources', nonce) = Gathered(sources')
                BY <1>2, <1>7, <1>8, <1>9, <3>2 DEF Earlier
            <4> QED BY <1>6, <4>1
        <3> QED BY <3>1, <3>2
    <2>5. Unmet(Earlier(sources, nonce))' BY <1>4, <2>2, <2>4 DEF Unmet
    <2> QED BY <1>2, <1>8, <1>12, <2>1, <2>3, <2>5 DEF QInv
<1> QED BY <1>1, <1>10, <1>11, <1>12

\* Looking for a used form of the next nonce collects nothing.
LEMMA ScanNonceQInv == QInv /\ FInv /\ ScanNonce => QInv'
<1> SUFFICES ASSUME QInv, FInv, ScanNonce PROVE QInv' OBVIOUS
<1>1. /\ pc = "scan" /\ UNCHANGED <<cmd, nonce, sources>>
      /\ \/ UNCHANGED stop /\ pc' \in {"gather", "scan"}
         \/ stop' = "gap" /\ pc' = "build"
    BY DEF ScanNonce, chain
<1>2. stop = "none" BY <1>1 DEF FInv, Unstopped, Selecting, Walking
<1>3. Inputs' = Gathered(sources) /\ Target' = Target
    BY <1>1 DEF Inputs, Gathered, Target
<1>4. nonce \in Nat /\ sources \in Seq(Source) BY TypeFacts DEF FInv
<1>5. CASE UNCHANGED stop /\ pc' \in {"gather", "scan"}
    <2>1. StopsAtTarget' BY <1>2, <1>5 DEF StopsAtTarget
    <2> QED BY <1>1, <1>3, <1>5, <2>1 DEF QInv, Unmet, Walking
<1>6. CASE stop' = "gap" /\ pc' = "build"
    <2>1. Ordered(sources) /\ (sources # <<>> => Last(sources).nonce < nonce)
          /\ Unmet(Earlier(sources, nonce))
        BY <1>1 DEF QInv, Walking
    <2>2. Earlier(sources, nonce) = Gathered(sources)
        <3>1. \A c \in Gathered(sources) : c.nonce \in Nat
            BY <1>4, GatheredType, CoinType
        <3>2. sources # <<>> => Last(sources).nonce \in Nat
            BY <1>4, GatheredType DEF Source
        <3> QED BY <1>4, <2>1, <3>1, <3>2, OrderedNonces DEF Earlier
    <2>3. cmd.amount # Drain /\ Target > 0 => Worth(Gathered(sources)) < Target
        <3>1. CASE Gathered(sources) = {}
            BY <3>1, WorthOfNothing, TargetType DEF FInv
        <3>2. CASE Gathered(sources) # {} BY <2>1, <2>2, <3>2 DEF Unmet
        <3> QED BY <3>1, <3>2
    <2>4. StopsAtTarget' BY <1>1, <1>3, <1>6, <2>3 DEF StopsAtTarget, total
    <2> QED BY <1>6, <2>4 DEF QInv, Walking
<1> QED BY <1>1, <1>5, <1>6

\* Asking whether a form was used collects nothing.
LEMMA GatherInfoQInv == QInv /\ FInv /\ TypeOK' /\ GatherInfo => QInv'
<1> SUFFICES ASSUME QInv, FInv, TypeOK', GatherInfo PROVE QInv' OBVIOUS
<1>1. /\ pc = "gather" /\ UNCHANGED cmd
      /\ \/ pc' = "list" /\ UNCHANGED <<nonce, sources, stop>>
         \/ NextForm /\ UNCHANGED sources
    BY DEF GatherInfo, chain
<1>2. sources \in Seq(Source) BY TypeFacts DEF FInv
<1>3. CASE NextForm /\ UNCHANGED sources
    <2>1. Ordered(sources) /\ (sources # <<>> => Last(sources).nonce <= nonce)
        BY <1>1 DEF QInv, Walking
    <2> QED BY <1>1, <1>2, <1>3, <2>1, NextFormQInv
<1>4. CASE pc' = "list" /\ UNCHANGED <<nonce, sources, stop>>
    <2>1. Inputs' = Inputs /\ total' = total /\ Target' = Target
        BY <1>1, <1>4 DEF Inputs, total, Target
    <2>2. StopsAtTarget' BY <1>1, <1>4, <2>1 DEF QInv, StopsAtTarget
    <2> QED BY <1>1, <1>4, <2>1, <2>2 DEF QInv, Unmet, Walking
<1> QED BY <1>1, <1>3, <1>4

\* Listing an address adds at most outputs of the present nonce.
LEMMA GatherUnspentQInv == QInv /\ FInv /\ TypeOK' /\ GatherUnspent => QInv'
<1> SUFFICES ASSUME QInv, FInv, TypeOK', GatherUnspent PROVE QInv' OBVIOUS
<1> DEFINE f == Forms[form]
<1>1. /\ pc = "list" /\ UNCHANGED cmd /\ NextForm BY DEF GatherUnspent, chain
<1>2. PICK coins \in SUBSET At(nonce, f) :
        sources' = IF coins = {} THEN sources
                   ELSE Append(sources, [nonce |-> nonce, form |-> f, coins |-> coins])
    BY DEF GatherUnspent
<1>3. sources \in Seq(Source) /\ nonce \in Nat /\ f \in Form BY TypeFacts DEF FInv
<1>4. Ordered(sources) /\ (sources # <<>> => Last(sources).nonce <= nonce)
    BY <1>1 DEF QInv, Walking
<1>5. CASE coins = {} BY <1>1, <1>2, <1>3, <1>4, <1>5, NextFormQInv
<1>6. CASE coins # {}
    <2> DEFINE s == [nonce |-> nonce, form |-> f, coins |-> coins]
    <2>1. sources' = Append(sources, s) BY <1>2, <1>6
    <2>2. /\ s.nonce = nonce /\ s.coins = coins /\ s \in Source
        BY <1>3 DEF Source, At
    <2>3. \A c \in coins : c.nonce = nonce BY DEF At
    <2> HIDE DEF s
    <2>4. /\ sources' \in Seq(Source) /\ sources' # <<>> /\ Last(sources') = s
          /\ \A i \in DOMAIN sources' :
               (i \in DOMAIN sources /\ sources'[i] = sources[i]) \/ sources'[i] = s
          /\ \A i \in DOMAIN sources : i \in DOMAIN sources' /\ sources'[i] = sources[i]
          /\ Len(sources) + 1 \in DOMAIN sources' /\ sources'[Len(sources) + 1] = s
        BY <1>3, <2>1, <2>2 DEF Last
    <2>5. Ordered(sources')
        <3> SUFFICES ASSUME NEW i \in DOMAIN sources'
                     PROVE  /\ sources'[i].nonce <= s.nonce
                            /\ \A c \in sources'[i].coins : c.nonce = sources'[i].nonce
            BY <2>4 DEF Ordered
        <3>1. CASE sources'[i] = s BY <1>3, <2>2, <2>3, <3>1
        <3>2. CASE i \in DOMAIN sources /\ sources'[i] = sources[i]
            <4>1. sources # <<>> BY <3>2
            <4>2. sources[i].nonce <= Last(sources).nonce
                  /\ \A c \in sources[i].coins : c.nonce = sources[i].nonce
                BY <1>4, <3>2 DEF Ordered
            <4>3. sources[i].nonce \in Nat /\ Last(sources).nonce \in Nat
                <5>1. sources[i] \in Source /\ Last(sources) \in Source
                    BY <1>3, <3>2, <4>1, GatheredType
                <5> QED BY <5>1 DEF Source
            <4> QED BY <1>3, <1>4, <2>2, <3>2, <4>1, <4>2, <4>3
        <3> QED BY <2>4, <3>1, <3>2
    <2>6. Gathered(sources') = Gathered(sources) \cup coins
        <3>1. ToSet(sources') = ToSet(sources) \cup {s} BY <2>4 DEF ToSet
        <3> QED BY <2>2, <3>1 DEF Gathered
    <2>7. Earlier(sources', nonce) = Earlier(sources, nonce)
        BY <1>3, <2>3, <2>6 DEF Earlier
    <2> QED BY <1>1, <1>3, <2>2, <2>4, <2>5, <2>7, NextFormQInv
<1> QED BY <1>5, <1>6

\* Every step keeps the invariant of the collection.
LEMMA StepQInv == QInv /\ FInv /\ TypeOK' /\ [Next]_vars => QInv'
<1> SUFFICES ASSUME QInv, FInv, TypeOK', [Next]_vars PROVE QInv' OBVIOUS
<1>1. CASE UNCHANGED vars BY <1>1, StillQInv DEF vars
<1>2. CASE Others BY <1>2, StillQInv DEF Others
<1>3. CASE Announce
    <2>1. UNCHANGED <<cmd, sources, nonce, stop>> /\ pc' \notin Walking \cup {"open"}
        BY <1>3 DEF Announce, Walking
    <2> QED BY <2>1, StillQInv
<1>4. CASE Build
    <2>1. UNCHANGED <<cmd, sources, nonce, stop>> /\ pc' \notin Walking \cup {"open"}
        BY <1>4 DEF Build, chain, Walking
    <2> QED BY <2>1, StillQInv
<1>5. CASE BalanceUnspent \/ BalanceLine \/ SelectPrimary
    <2>1. /\ pc \in Selecting /\ pc' \notin Walking \cup {"open"}
          /\ stop' = "primary" \/ UNCHANGED stop
        BY <1>5 DEF BalanceUnspent, BalanceLine, SelectPrimary, Selecting, Walking
    <2>2. stop = "none" BY <2>1 DEF FInv, Unstopped
    <2> QED BY <2>1, <2>2 DEF QInv, StopsAtTarget
<1>6. CASE OpenWalk
    <2>1. /\ pc = "open" /\ UNCHANGED <<cmd, sources, stop>>
          /\ pc' = pc \/ pc' = cmd.kind
        BY <1>6 DEF OpenWalk, chain
    <2>2. stop = "none" BY <2>1 DEF FInv, Unstopped, Selecting
    <2>3. StopsAtTarget' BY <2>1, <2>2 DEF StopsAtTarget
    <2>4. sources' = <<>> BY <2>1 DEF QInv
    <2>5. Ordered(<<>>) /\ Gathered(<<>>) = {} BY DEF Ordered, Gathered, ToSet
    <2>6. Unmet(Earlier(sources, nonce))' BY <2>4, <2>5 DEF Unmet, Earlier
    <2> QED BY <2>3, <2>4, <2>5, <2>6 DEF QInv
<1>7. CASE ScanNonce BY <1>7, ScanNonceQInv
<1>8. CASE GatherInfo BY <1>8, GatherInfoQInv
<1>9. CASE GatherUnspent BY <1>9, GatherUnspentQInv
<1> QED BY <1>1, <1>2, <1>3, <1>4, <1>5, <1>6, <1>7, <1>8, <1>9 DEF Next, Command

\* The scan stops where _scan_inputs says it does: at the gap, with less than
\* the target, or at the first nonce whose outputs reach it, so that what the
\* earlier nonces held did not suffice.
THEOREM StopsAtTargetHolds == Spec => []StopsAtTarget
<1>1. Init => FInv /\ QInv BY InitFInv, InitQInv
<1>2. FInv /\ QInv /\ TypeOK' /\ [Next]_vars => FInv' /\ QInv' BY StepFInv, StepQInv
<1>3. QInv => StopsAtTarget BY DEF QInv
<1> QED BY <1>1, <1>2, <1>3, TypeCorrect, PTL DEF Spec

----------------------------------------------------------------------------
(* The balance is complete *)

\* What balance has to count.
Counted == {c \in Due(cmd.start) : c.form = Own /\ c.deep}

HasKey(n) == \E k \in DOMAIN keys : keys[k].nonce = n

\* The opening walk holds true answers about its nonce, asked in order, and a
\* key for every nonce it has passed.
Opening ==
    pc = "open" =>
      /\ cmd.start <= nonce
      /\ \A k \in 1..3 : k < form => info[Forms[k]] = "unused"
      /\ ~masked =>
           /\ \A f \in Form : info[f] = "unused" => Empty(nonce, f)
           /\ \A c \in Due(cmd.start) : c.nonce < nonce => HasKey(c.nonce)

\* An answer that a key has kept from the walk was true.
KeptAnswers ==
    pc \in {"open", "balance", "line"} /\ ~masked =>
      \A k \in DOMAIN keys : keys[k].info = "unused" => Empty(keys[k].nonce, Own)

Counting ==
    pc \in {"balance", "line"} /\ ~masked =>
      /\ \A c \in Counted : c \in Inputs \/ HasKey(c.nonce)
      /\ pc = "line" => \A c \in Counted : c.nonce = Head(keys).nonce => c \in pending

BInv == Opening /\ KeptAnswers /\ Counting /\ BalanceComplete

\* The invariant of the count holds when a command begins.
LEMMA InitBInv == Init => BInv
<1> SUFFICES ASSUME Init PROVE BInv OBVIOUS
<1>1. /\ pc = "open" /\ nonce = cmd.start /\ form = 1 /\ info = Unasked /\ keys = <<>>
      /\ cmd \in Commands
    BY DEF Init
<1>2. cmd.start \in Nat BY <1>1, CommandType
<1>3. \A f \in Form : info[f] # "unused" BY <1>1, FormsAre DEF Unasked
<1>4. \A c \in Due(cmd.start) : ~(c.nonce < nonce)
    BY <1>1, <1>2, CoinType DEF Due
<1> QED BY <1>1, <1>2, <1>3, <1>4 DEF BInv, Opening, KeptAnswers, Counting, BalanceComplete

\* What others do meanwhile only takes away from what has to be counted.
LEMMA OthersBInv == BInv /\ FInv /\ Others => BInv'
<1> SUFFICES ASSUME BInv, FInv, Others PROVE BInv' OBVIOUS
<1>1. PICK c \in Coins :
        \/ status[c] = "future" /\ status' = [status EXCEPT ![c] = "unspent"]
        \/ status[c] = "unspent" /\ status' = [status EXCEPT ![c] = "spent"]
    BY DEF Others
<1>2. status \in [Coins -> Status] BY TypeFacts DEF FInv
<1>3. \A d \in Coins : before[d] = "unspent" /\ status'[d] = "unspent"
                        => status[d] = "unspent"
    BY <1>1, <1>2 DEF FInv, Lasting
<1>4. /\ UNCHANGED <<before, masked, cmd, pc, nonce, form, info, keys, pending, sources>>
      /\ pc # "done"
    BY DEF Others, Final
<1>5. \A n : Due(n)' \subseteq Due(n) BY <1>3, <1>4 DEF Due, Reaches
<1>6. Counted' \subseteq Counted BY <1>4, <1>5 DEF Counted
<1>7. Inputs' = Inputs /\ \A n : HasKey(n)' = HasKey(n) BY <1>4 DEF Inputs, HasKey
<1>8. \A n, f : Empty(n, f)' = Empty(n, f) BY <1>4 DEF Empty, At
<1>9. Opening' BY <1>4, <1>5, <1>7, <1>8 DEF BInv, Opening
<1>10. KeptAnswers' BY <1>4, <1>8 DEF BInv, KeptAnswers
<1>11. Counting' BY <1>4, <1>6, <1>7 DEF BInv, Counting
<1>12. BalanceComplete' BY <1>4 DEF BalanceComplete
<1> QED BY <1>9, <1>10, <1>11, <1>12 DEF BInv

\* The opening walk passes a nonce only with a key for it, and ends only at
\* one where nothing was due.
LEMMA OpenWalkBInv == BInv /\ FInv /\ TInv /\ OpenWalk => BInv'
<1> SUFFICES ASSUME BInv, FInv, TInv, OpenWalk PROVE BInv' OBVIOUS
<1> DEFINE f == Forms[form]
           got == IF f = Own THEN "used" ELSE info[Own]
<1>1. PICK used \in BOOLEAN :
         /\ Learns(nonce, f, info[f], used)
         /\ \/ /\ used
               /\ keys' = Append(keys, OwnKey(nonce, got))
               /\ Turn(nonce + 1)
               /\ UNCHANGED pc
            \/ /\ ~used /\ form < 3
               /\ form' = form + 1
               /\ info' = [info EXCEPT ![f] = "unused"]
               /\ UNCHANGED <<pc, nonce, keys>>
            \/ /\ ~used /\ form = 3
               /\ keys' = Append(keys, OwnKey(nonce, "unknown"))
               /\ pc' = cmd.kind
               /\ Turn(0)
    BY FormsAre DEF OpenWalk
<1>2. /\ pc = "open" /\ UNCHANGED <<status, before, cmd, sources>>
    BY DEF OpenWalk, chain
<1>3. /\ nonce \in Nat /\ form \in 1..3 /\ f \in Form /\ info \in [Form -> Infos]
      /\ info[f] \in Infos /\ keys \in Seq(Key) /\ cmd \in Commands
      /\ cmd.start \in Nat /\ cmd.kind \in {"balance", "send", "scan"} /\ Own \in Form
    BY TypeFacts, CommandType, OwnAssumption DEF TInv, Form
<1>4. ~masked' => ~masked BY <1>1, MaskStays DEF FInv
<1>5. /\ cmd.start <= nonce
      /\ \A k \in 1..3 : k < form => info[Forms[k]] = "unused"
      /\ ~masked => /\ \A g \in Form : info[g] = "unused" => Empty(nonce, g)
                    /\ \A c \in Due(cmd.start) : c.nonce < nonce => HasKey(c.nonce)
      /\ ~masked => \A k \in DOMAIN keys :
                       keys[k].info = "unused" => Empty(keys[k].nonce, Own)
    BY <1>2 DEF BInv, Opening, KeptAnswers
<1>6. ~masked' /\ ~used => Empty(nonce, f)
    <2> SUFFICES ASSUME ~masked', ~used PROVE Empty(nonce, f) OBVIOUS
    <2>1. used = FALSE OBVIOUS
    <2>2. info[f] = "unused" \/ Empty(nonce, f)
        BY <1>1, <1>3, <2>1, UnusedWasEmpty DEF FInv
    <2> QED BY <1>3, <1>4, <1>5, <2>2
<1>7. \A n : Due(n)' = Due(n) BY <1>2 DEF Due, Reaches
<1>8. \A n, g : Empty(n, g)' = Empty(n, g) BY <1>2 DEF Empty, At
<1>9. ASSUME NEW known \in Infos, keys' = Append(keys, OwnKey(nonce, known))
      PROVE  /\ \A n : HasKey(n) => HasKey(n)'
             /\ \A n : n = nonce => HasKey(n)'
             /\ \A k \in DOMAIN keys' : \/ (k \in DOMAIN keys /\ keys'[k] = keys[k])
                                        \/ (keys'[k].nonce = nonce /\ keys'[k].info = known)
    <2> DEFINE key == OwnKey(nonce, known)
    <2>1. key.nonce = nonce /\ key.info = known /\ key \in Key BY <1>3 DEF OwnKey, Key
    <2> HIDE DEF key
    <2>2. /\ \A k \in DOMAIN keys : k \in DOMAIN keys' /\ keys'[k] = keys[k]
          /\ Len(keys) + 1 \in DOMAIN keys' /\ keys'[Len(keys) + 1] = key
          /\ \A k \in DOMAIN keys' : (k \in DOMAIN keys /\ keys'[k] = keys[k]) \/ keys'[k] = key
        BY <1>3, <1>9, <2>1 DEF key
    <2>3. ASSUME NEW n, HasKey(n)
          PROVE  HasKey(n)'
        <3>1. PICK k \in DOMAIN keys : keys[k].nonce = n BY <2>3 DEF HasKey
        <3> QED BY <2>2, <3>1 DEF HasKey
    <2>4. \A n : n = nonce => HasKey(n)' BY <2>1, <2>2 DEF HasKey
    <2>5. \A k \in DOMAIN keys' : \/ (k \in DOMAIN keys /\ keys'[k] = keys[k])
                                 \/ (keys'[k].nonce = nonce /\ keys'[k].info = known)
        BY <2>1, <2>2
    <2> QED BY <2>3, <2>4, <2>5
<1>10. BalanceComplete'
    <2>1. pc' # "done" BY <1>1, <1>2, <1>3
    <2> QED BY <2>1 DEF BalanceComplete
<1>11. CASE used
    <2>1. keys' = Append(keys, OwnKey(nonce, got)) /\ Turn(nonce + 1) /\ UNCHANGED pc
        BY <1>1, <1>11
    <2>2. got \in Infos BY <1>3 DEF Infos
    <2>3. ~masked => (got = "unused" => Empty(nonce, Own)) BY <1>3, <1>5
    <2> HIDE DEF got
    <2>4. KeptAnswers'
        <3> SUFFICES ASSUME ~masked', NEW k \in DOMAIN keys', keys'[k].info = "unused"
                     PROVE  Empty(keys'[k].nonce, Own)
            BY <1>8 DEF KeptAnswers
        <3> QED BY <1>4, <1>5, <1>9, <2>1, <2>2, <2>3
    <2>5. Opening'
        <3>1. cmd.start <= nonce' /\ nonce' = nonce + 1 BY <1>3, <1>5, <2>1 DEF Turn
        <3>2. \A k \in 1..3 : ~(k < form') BY <2>1 DEF Turn
        <3>3. \A g \in Form : info'[g] # "unused" BY <2>1, FormsAre DEF Turn, Unasked
        <3>4. ~masked' => \A c \in Due(cmd.start) : c.nonce < nonce + 1 => HasKey(c.nonce)'
            <4> SUFFICES ASSUME ~masked', NEW c \in Due(cmd.start), c.nonce < nonce + 1
                         PROVE  HasKey(c.nonce)'
                OBVIOUS
            <4>1. c.nonce \in Nat BY CoinType DEF Due
            <4>2. c.nonce < nonce \/ c.nonce = nonce BY <1>3, <4>1
            <4>3. c.nonce < nonce => HasKey(c.nonce) BY <1>4, <1>5
            <4> QED BY <1>9, <2>1, <2>2, <4>2, <4>3
        <3> QED BY <1>2, <1>7, <3>1, <3>2, <3>3, <3>4 DEF Opening
    <2>6. Counting' BY <1>2, <2>1 DEF Counting
    <2> QED BY <1>10, <2>4, <2>5, <2>6 DEF BInv
<1>12. CASE ~used /\ form < 3
    <2>1. /\ form' = form + 1 /\ info' = [info EXCEPT ![f] = "unused"]
          /\ UNCHANGED <<pc, nonce, keys>>
        BY <1>1, <1>12
    <2>2. \A n : HasKey(n)' = HasKey(n) BY <2>1 DEF HasKey
    <2>3. \A k \in 1..3 : k < form' => info'[Forms[k]] = "unused"
        <3> SUFFICES ASSUME NEW k \in 1..3, k < form' PROVE info'[Forms[k]] = "unused"
            OBVIOUS
        <3>1. Forms[k] \in Form BY FormsAre
        <3>2. k < form \/ k = form BY <1>3, <2>1
        <3> QED BY <1>3, <1>5, <2>1, <3>1, <3>2
    <2>4. ~masked' => \A g \in Form : info'[g] = "unused" => Empty(nonce, g)
        BY <1>3, <1>4, <1>5, <1>6, <1>12, <2>1
    <2>5. Opening' BY <1>2, <1>4, <1>5, <1>7, <1>8, <2>1, <2>2, <2>3, <2>4 DEF Opening
    <2>6. KeptAnswers' BY <1>2, <1>4, <1>5, <1>8, <2>1 DEF KeptAnswers
    <2>7. Counting' BY <1>2, <2>1 DEF Counting
    <2> QED BY <1>10, <2>5, <2>6, <2>7 DEF BInv
<1>13. CASE ~used /\ form = 3
    <2>1. keys' = Append(keys, OwnKey(nonce, "unknown")) /\ pc' = cmd.kind
        BY <1>1, <1>13
    <2>2. "unknown" \in Infos BY DEF Infos
    <2>3. KeptAnswers'
        <3> SUFFICES ASSUME ~masked', NEW k \in DOMAIN keys', keys'[k].info = "unused"
                     PROVE  Empty(keys'[k].nonce, Own)
            BY <1>8 DEF KeptAnswers
        <3> QED BY <1>4, <1>5, <1>9, <2>1, <2>2
    <2>4. ~masked' => \A g \in Form : Empty(nonce, g)
        <3> SUFFICES ASSUME ~masked', NEW g \in Form PROVE Empty(nonce, g) OBVIOUS
        <3>1. PICK k \in 1..3 : g = Forms[k] BY FormsAre DEF Form, Forms
        <3>2. CASE k = form BY <1>6, <1>13, <3>1, <3>2
        <3>3. CASE k # form
            <4>1. k < form BY <1>3, <1>13, <3>3
            <4> QED BY <1>4, <1>5, <3>1, <4>1
        <3> QED BY <3>2, <3>3
    <2>5. ~masked' => \A c \in Due(cmd.start) : c.nonce < nonce
        <3> SUFFICES ASSUME ~masked', NEW c \in Due(cmd.start), ~(c.nonce < nonce)
                     PROVE  FALSE
            OBVIOUS
        <3>1. c.nonce \in Nat BY CoinType DEF Due
        <3>2. nonce \in cmd.start..c.nonce BY <1>3, <1>5, <3>1
        <3>3. PICK d \in Coins : d.nonce = nonce /\ before[d] # "future"
            BY <3>2 DEF Due, Reaches
        <3>4. d.form \in Form /\ d \in At(nonce, d.form) BY <3>3, CoinType DEF At
        <3> QED BY <2>4, <3>3, <3>4 DEF Empty
    <2>6. ~masked' => \A c \in Due(cmd.start) : HasKey(c.nonce)'
        BY <1>4, <1>5, <1>9, <2>1, <2>2, <2>5
    <2>7. Counted' = Counted /\ Counted \subseteq Due(cmd.start)
        BY <1>2, <1>7 DEF Counted
    <2>8. Opening' /\ Counting'
        <3>1. pc' \notin {"open", "line"} BY <1>3, <2>1
        <3> QED BY <2>6, <2>7, <3>1 DEF Opening, Counting
    <2> QED BY <1>10, <2>3, <2>8 DEF BInv
<1> QED BY <1>1, <1>11, <1>12, <1>13

\* Listing the address of a key shows what is due there.
LEMMA BalanceUnspentBInv == BInv /\ FInv /\ BalanceUnspent => BInv'
<1> SUFFICES ASSUME BInv, FInv, BalanceUnspent PROVE BInv' OBVIOUS
<1> DEFINE n == Head(keys).nonce
<1>1. PICK coins \in SUBSET At(n, Own) :
         Lists(n, Own, coins) /\ pending' = Confirmed(coins)
    BY DEF BalanceUnspent
<1>2. /\ pc = "balance" /\ pc' = "line"
      /\ UNCHANGED <<status, before, cmd, keys, sources>>
    BY DEF BalanceUnspent, chain
<1>3. ~masked' => ~masked /\ coins = Unspent(n, Own)
    BY <1>1 DEF FInv, TypeOK, Lists
<1>4. Counted' = Counted /\ Inputs' = Inputs /\ \A m : HasKey(m)' = HasKey(m)
    BY <1>2 DEF Counted, Due, Reaches, Inputs, HasKey
<1>5. \A m, g : Empty(m, g)' = Empty(m, g) BY <1>2 DEF Empty, At
<1>6. ~masked' => \A c \in Counted : c.nonce = n => c \in pending'
    BY <1>1, <1>3 DEF Counted, Due, Unspent, At, Confirmed
<1>7. Counting' BY <1>2, <1>3, <1>4, <1>6 DEF BInv, Counting
<1>8. KeptAnswers' BY <1>2, <1>3, <1>5 DEF BInv, KeptAnswers
<1>9. Opening' /\ BalanceComplete' BY <1>2 DEF Opening, BalanceComplete
<1> QED BY <1>7, <1>8, <1>9 DEF BInv

\* The line of a key adds what was listed, unless nothing was ever there.
LEMMA BalanceLineBInv == BInv /\ FInv /\ TInv /\ BalanceLine => BInv'
<1> SUFFICES ASSUME BInv, FInv, TInv, BalanceLine PROVE BInv' OBVIOUS
<1> DEFINE key == Head(keys)
           s == [nonce |-> key.nonce, form |-> Own, coins |-> pending]
<1>1. PICK used \in BOOLEAN :
        /\ Learns(key.nonce, Own, key.info, used)
        /\ sources' = IF used /\ pending # {} THEN Append(sources, s) ELSE sources
    BY DEF BalanceLine
<1>2. /\ pc = "line" /\ pc' = IF Len(keys) = 1 THEN "done" ELSE "balance"
      /\ keys' = Tail(keys) /\ UNCHANGED <<status, before, cmd>>
    BY DEF BalanceLine, chain
<1>3. keys \in Seq(Key) /\ keys # <<>> /\ sources \in Seq(Source)
    BY <1>2, TypeFacts DEF TInv, KeysLeft
<1>4. /\ key \in Key /\ key.info \in Infos /\ 1 \in DOMAIN keys /\ key = keys[1]
    <2>1. 1 \in DOMAIN keys /\ key = keys[1] BY <1>3
    <2>2. keys[1] \in Key BY <1>3, <2>1, SeqElement
    <2>3. \A k \in Key : k.info \in Infos BY DEF Key
    <2> QED BY <2>1, <2>2, <2>3
<1>5. ~masked' => ~masked BY <1>1, MaskStays DEF FInv
<1>6. Counted' = Counted BY <1>2 DEF Counted, Due, Reaches
<1>7. \A m, g : Empty(m, g)' = Empty(m, g) BY <1>2 DEF Empty, At
<1>8. Inputs' = Inputs \cup (IF used THEN pending ELSE {})
    <2>1. CASE used /\ pending # {}
        <3>1. sources' = Append(sources, s) /\ s.coins = pending BY <1>1, <2>1
        <3> HIDE DEF s
        <3>2. ToSet(sources') = ToSet(sources) \cup {s}
            <4>1. /\ \A k \in DOMAIN sources : k \in DOMAIN sources' /\ sources'[k] = sources[k]
                  /\ Len(sources) + 1 \in DOMAIN sources' /\ sources'[Len(sources) + 1] = s
                  /\ \A k \in DOMAIN sources' :
                       (k \in DOMAIN sources /\ sources'[k] = sources[k]) \/ sources'[k] = s
                BY <1>3, <3>1
            <4> QED BY <4>1 DEF ToSet
        <3> QED BY <2>1, <3>1, <3>2 DEF Inputs
    <2>2. CASE ~(used /\ pending # {}) BY <1>1, <2>2 DEF Inputs
    <2> QED BY <2>1, <2>2
<1>9. ~masked' => \A c \in Counted : c.nonce = key.nonce => c \in Inputs'
    <2> SUFFICES ASSUME ~masked', NEW c \in Counted, c.nonce = key.nonce
                 PROVE  c \in Inputs'
        OBVIOUS
    <2>1. c \in pending BY <1>2, <1>5 DEF BInv, Counting
    <2>2. CASE used BY <1>8, <2>1, <2>2
    <2>3. CASE ~used
        <3>1. used = FALSE BY <2>3
        <3>2. key.info = "unused" \/ Empty(key.nonce, Own)
            BY <1>1, <1>4, <3>1, UnusedWasEmpty DEF FInv
        <3>3. Empty(key.nonce, Own)
            BY <1>2, <1>4, <1>5, <3>2 DEF BInv, KeptAnswers
        <3> QED BY <3>3 DEF Empty, Counted, Due, At
    <2> QED BY <2>2, <2>3
<1>10. \A k \in DOMAIN keys : k = 1 \/ (k - 1 \in DOMAIN keys' /\ keys'[k - 1] = keys[k])
    BY <1>2, <1>3
<1>11. \A k \in DOMAIN keys' : k + 1 \in DOMAIN keys /\ keys'[k] = keys[k + 1]
    BY <1>2, <1>3
<1>12. ~masked' => \A c \in Counted : c \in Inputs' \/ HasKey(c.nonce)'
    <2> SUFFICES ASSUME ~masked', NEW c \in Counted PROVE c \in Inputs' \/ HasKey(c.nonce)'
        OBVIOUS
    <2>1. c \in Inputs \/ HasKey(c.nonce) BY <1>2, <1>5 DEF BInv, Counting
    <2>2. CASE c \in Inputs BY <1>8, <2>2
    <2>3. CASE HasKey(c.nonce)
        <3>1. PICK k \in DOMAIN keys : keys[k].nonce = c.nonce BY <2>3 DEF HasKey
        <3>2. CASE k = 1 BY <1>4, <1>9, <3>1, <3>2
        <3>3. CASE k # 1 BY <1>10, <3>1, <3>3 DEF HasKey
        <3> QED BY <3>2, <3>3
    <2> QED BY <2>1, <2>2, <2>3
<1>13. Counting'
    <2>1. pc' # "line" BY <1>2
    <2> QED BY <1>6, <1>12, <2>1 DEF Counting
<1>14. KeptAnswers' BY <1>2, <1>5, <1>7, <1>11 DEF BInv, KeptAnswers
<1>15. BalanceComplete'
    <2> SUFFICES ASSUME pc' = "done", ~masked' PROVE Counted \subseteq Inputs'
        BY <1>6 DEF BalanceComplete, Counted
    <2>1. Len(keys) = 1 BY <1>2
    <2>2. DOMAIN keys' = {} BY <1>2, <1>3, <2>1
    <2> QED BY <1>12, <2>2 DEF HasKey
<1>16. Opening' BY <1>2 DEF Opening
<1> QED BY <1>13, <1>14, <1>15, <1>16 DEF BInv

\* Every step keeps the invariant of the count.
LEMMA StepBInv == BInv /\ FInv /\ TInv /\ [Next]_vars => BInv'
<1> SUFFICES ASSUME BInv, FInv, TInv, [Next]_vars PROVE BInv' OBVIOUS
<1>1. CASE UNCHANGED vars
    BY <1>1 DEF vars, BInv, Opening, KeptAnswers, Counting, BalanceComplete, Counted, HasKey,
                Due, Reaches, Inputs, Empty, At
<1>2. CASE Others BY <1>2, OthersBInv
<1>3. CASE OpenWalk BY <1>3, OpenWalkBInv
<1>4. CASE BalanceUnspent BY <1>4, BalanceUnspentBInv
<1>5. CASE BalanceLine BY <1>5, BalanceLineBInv
<1>6. CASE SelectPrimary \/ ScanNonce \/ GatherInfo \/ GatherUnspent \/ Build \/ Announce
    <2>1. pc' \notin {"open", "balance", "line", "done"}
        BY <1>6, FormsAre DEF SelectPrimary, ScanNonce, GatherInfo, GatherUnspent, Build, Announce,
                    NextForm
    <2> QED BY <2>1 DEF BInv, Opening, KeptAnswers, Counting, BalanceComplete
<1> QED BY <1>1, <1>2, <1>3, <1>4, <1>5, <1>6 DEF Next, Command

\* balance counts all that was confirmed for the selected form when it began
\* and is still there, though it leaves addresses out by the answers that the
\* opening walk kept in the keys.
THEOREM BalanceCompleteHolds == Spec => []BalanceComplete
<1>1. Init => FInv /\ TInv /\ BInv BY InitFInv, InitTInv, InitBInv
<1>2. FInv /\ TInv /\ BInv /\ TypeOK' /\ [Next]_vars => FInv' /\ TInv' /\ BInv'
    BY StepFInv, StepTInv, StepBInv
<1>3. BInv => BalanceComplete BY DEF BInv
<1> QED BY <1>1, <1>2, <1>3, TypeCorrect, PTL DEF Spec

----------------------------------------------------------------------------
(* A command ends *)

\* A nonce beyond every output there will ever be.
Top == CHOOSE t \in Nat : \A c \in Coins : c.nonce < t

LEMMA TopType == Top \in Nat /\ \A c \in Coins : c.nonce < Top
<1> DEFINE P == {S \in SUBSET Coins : \E t \in Nat : \A c \in S : c.nonce < t}
<1>1. {} \in P BY 0 \in Nat
<1>2. ASSUME NEW S \in SUBSET Coins, NEW x \in Coins, S \in P
      PROVE  S \cup {x} \in P
    <2>1. PICK t \in Nat : \A c \in S : c.nonce < t BY <1>2
    <2>2. \A c \in Coins : c.nonce \in Nat BY CoinType
    <2> DEFINE u == IF t > x.nonce + 1 THEN t ELSE x.nonce + 1
    <2>3. u \in Nat /\ u >= t /\ u > x.nonce BY <2>2
    <2> HIDE DEF u
    <2>4. \A c \in S \cup {x} : c.nonce < u BY <2>1, <2>2, <2>3
    <2> QED BY <2>3, <2>4
<1>3. Coins \in P
    <2> HIDE DEF P
    <2> QED BY <1>1, <1>2, CoinsAssumption, InductionOnSets
<1> QED BY <1>3 DEF Top

\* How far the opening walk can come.
Far == IF cmd.start > Top THEN cmd.start ELSE Top

Phase ==
    CASE pc = "open" -> 0
      [] pc \in {"balance", "line", "send", "scan", "gather", "list"} -> 1
      [] pc = "build" -> 2
      [] pc = "built" -> 3
      [] OTHER -> 4

\* The requests that are still to come in this phase, at most.
StepsLeft ==
    CASE pc = "open"    -> 3 * (Far - nonce) + (3 - form)
      [] pc = "balance" -> 2 * Len(keys)
      [] pc = "line"    -> 2 * Len(keys) - 1
      [] pc = "scan"    -> 9 * (Top - nonce) + 6 + (3 - form)
      [] pc = "gather"  -> 9 * (Top - nonce) + 2 * (3 - form) + 1
      [] pc = "list"    -> 9 * (Top - nonce) + 2 * (3 - form)
      [] OTHER -> 0

Advances ==
    \/ Phase' > Phase
    \/ Phase' = Phase /\ StepsLeft \in Nat /\ StepsLeft' \in Nat /\ StepsLeft' < StepsLeft

\* The opening walk has only heard "unused" of its nonce, and has come so far
\* because something was paid just before.
Opened ==
    pc = "open" => /\ \A f \in Form : info[f] # "used"
                   /\ nonce = cmd.start \/ nonce <= Top

\* An address that was paid lies before the top.
LEMMA ReceivedBelow ==
    ASSUME NEW n, NEW f, Received(n, f)
    PROVE  n < Top
BY TopType DEF Received, At

\* One step of the opening walk.
LEMMA OpenAdvances ==
    ASSUME TInv, Opened, OpenWalk
    PROVE  Opened' /\ Advances
<1> DEFINE f == Forms[form]
<1>1. PICK used \in BOOLEAN :
         /\ Learns(nonce, f, info[f], used)
         /\ \/ /\ used /\ Turn(nonce + 1) /\ UNCHANGED pc
            \/ /\ ~used /\ form < 3 /\ form' = form + 1
               /\ info' = [info EXCEPT ![f] = "unused"]
               /\ UNCHANGED <<pc, nonce>>
            \/ pc' = cmd.kind
    BY FormsAre DEF OpenWalk
<1>2. /\ pc = "open" /\ cmd' = cmd /\ cmd.start \in Nat
      /\ nonce \in Nat /\ form \in 1..3 /\ f \in Form /\ info \in [Form -> Infos]
      /\ cmd.kind \in {"balance", "send", "scan"}
    BY TypeFacts, CommandType DEF TInv, OpenWalk, chain
<1>3. Far \in Nat /\ Far >= Top /\ Far >= nonce /\ Far' = Far
    BY <1>2, TopType DEF Opened, Far
<1>4. StepsLeft = 3 * (Far - nonce) + (3 - form) /\ Phase = 0 BY <1>2 DEF StepsLeft, Phase
<1>5. CASE used /\ Turn(nonce + 1) /\ UNCHANGED pc
    <2>1. nonce < Top BY <1>1, <1>2, <1>5, LearnsTrue, ReceivedBelow DEF Opened
    <2>2. nonce' = nonce + 1 /\ form' = 1 /\ info' = Unasked /\ pc' = "open"
        BY <1>2, <1>5 DEF Turn
    <2>3. Opened' BY <1>2, <2>1, <2>2, UnaskedType, TopType DEF Opened
    <2>4. StepsLeft' = 3 * (Far - (nonce + 1)) + 2 /\ Phase' = 0
        BY <1>3, <2>2 DEF StepsLeft, Phase
    <2> QED BY <1>2, <1>3, <1>4, <2>1, <2>3, <2>4, TopType DEF Advances
<1>6. CASE /\ form < 3 /\ form' = form + 1 /\ info' = [info EXCEPT ![f] = "unused"]
           /\ UNCHANGED <<pc, nonce>>
    <2>1. Opened' BY <1>2, <1>6 DEF Opened
    <2>2. StepsLeft' = 3 * (Far - nonce) + (3 - (form + 1)) /\ Phase' = 0
        BY <1>2, <1>3, <1>6 DEF StepsLeft, Phase
    <2> QED BY <1>2, <1>3, <1>4, <1>6, <2>1, <2>2 DEF Advances
<1>7. CASE pc' = cmd.kind
    <2>1. Opened' BY <1>2, <1>7 DEF Opened
    <2>2. Phase' = 1 BY <1>2, <1>7 DEF Phase
    <2> QED BY <1>4, <2>1, <2>2 DEF Advances
<1> QED BY <1>1, <1>5, <1>6, <1>7

\* balance takes its keys one by one; a plain send, the build and the
\* broadcast are one step each.
LEMMA OtherAdvances ==
    ASSUME TInv, BalanceUnspent \/ BalanceLine \/ SelectPrimary \/ Build \/ Announce
    PROVE  Advances
<1>1. keys \in Seq(Key) BY TypeFacts DEF TInv
<1>2. CASE BalanceUnspent
    <2>1. pc = "balance" /\ pc' = "line" /\ keys' = keys BY <1>2 DEF BalanceUnspent
    <2>2. keys # <<>> /\ Len(keys) \in Nat /\ Len(keys) # 0
        BY <1>1, <2>1 DEF TInv, KeysLeft
    <2>3. StepsLeft = 2 * Len(keys) /\ StepsLeft' = 2 * Len(keys) - 1 /\ Phase = 1 /\ Phase' = 1
        BY <2>1 DEF StepsLeft, Phase
    <2> QED BY <2>2, <2>3 DEF Advances
<1>3. CASE BalanceLine
    <2>1. /\ pc = "line" /\ keys' = Tail(keys)
          /\ pc' = IF Len(keys) = 1 THEN "done" ELSE "balance"
        BY <1>3 DEF BalanceLine
    <2>2. keys # <<>> /\ Len(keys) \in Nat /\ Len(keys) # 0
        BY <1>1, <2>1 DEF TInv, KeysLeft
    <2>3. Len(keys') = Len(keys) - 1 BY <1>1, <2>1, <2>2
    <2>4. StepsLeft = 2 * Len(keys) - 1 /\ Phase = 1 BY <2>1 DEF StepsLeft, Phase
    <2>5. CASE pc' = "done" BY <2>4, <2>5 DEF Advances, Phase
    <2>6. CASE pc' = "balance"
        <3>1. StepsLeft' = 2 * (Len(keys) - 1) /\ Phase' = 1
            BY <2>3, <2>6 DEF StepsLeft, Phase
        <3> QED BY <2>2, <2>4, <3>1 DEF Advances
    <2> QED BY <2>1, <2>5, <2>6
<1>4. CASE SelectPrimary BY <1>4 DEF SelectPrimary, Advances, Phase
<1>5. CASE Build BY <1>5 DEF Build, Advances, Phase
<1>6. CASE Announce BY <1>6 DEF Announce, Advances, Phase
<1> QED BY <1>2, <1>3, <1>4, <1>5, <1>6

\* A scan that has come to a nonce found all before it paid.
LEMMA ScanBelow ==
    ASSUME IInv, pc \in Walking
    PROVE  /\ nonce \in Nat /\ nonce <= Top /\ form \in 1..3
           /\ pc # "scan" => nonce < Top
<1>1. nonce \in Nat /\ form \in 1..3 BY DEF IInv, Typed
<1>2. nonce <= Top
    <2>1. CASE nonce = 0 BY <2>1, TopType
    <2>2. CASE nonce # 0
        <3>1. nonce - 1 \in 0..(nonce - 1) BY <1>1, <2>2
        <3>2. \E c \in Coins : c.nonce = nonce - 1 BY <3>1 DEF IInv, Reached, Reaches
        <3> QED BY <1>1, <3>2, TopType
    <2> QED BY <2>1, <2>2
<1>3. pc # "scan" => nonce < Top
    BY ReceivedBelow DEF IInv, Learned, SomeUsed, Walking
<1> QED BY <1>1, <1>2, <1>3

\* The scan asks at most once for each form of a nonce, then gathers.
LEMMA ScanAdvances ==
    ASSUME IInv, ScanNonce
    PROVE  Advances
<1>1. /\ pc = "scan" /\ nonce' = nonce
      /\ \/ form' = 1 /\ pc' = "gather"
         \/ form < 3 /\ form' = form + 1 /\ pc' = pc
         \/ pc' = "build"
    BY FormsAre DEF ScanNonce
<1>2. nonce \in Nat /\ nonce <= Top /\ form \in 1..3 /\ Top \in Nat
    BY <1>1, ScanBelow, TopType DEF Walking
<1>3. StepsLeft = 9 * (Top - nonce) + 6 + (3 - form) /\ Phase = 1
    BY <1>1 DEF StepsLeft, Phase
<1>4. CASE form' = 1 /\ pc' = "gather"
    <2>1. StepsLeft' = 9 * (Top - nonce) + 2 * (3 - 1) + 1 /\ Phase' = 1
        BY <1>1, <1>4 DEF StepsLeft, Phase
    <2> QED BY <1>2, <1>3, <2>1 DEF Advances
<1>5. CASE form < 3 /\ form' = form + 1 /\ pc' = pc
    <2>1. StepsLeft' = 9 * (Top - nonce) + 6 + (3 - (form + 1)) /\ Phase' = 1
        BY <1>1, <1>5 DEF StepsLeft, Phase
    <2> QED BY <1>2, <1>3, <1>5, <2>1 DEF Advances
<1>6. CASE pc' = "build" BY <1>3, <1>6 DEF Advances, Phase
<1> QED BY <1>1, <1>4, <1>5, <1>6

\* Each form is asked about once and listed at most once; then comes the next
\* nonce, or the build.
LEMMA GatherAdvances ==
    ASSUME IInv, GatherInfo \/ GatherUnspent
    PROVE  Advances
<1>1. /\ pc \in {"gather", "list"}
      /\ \/ pc = "gather" /\ pc' = "list" /\ UNCHANGED <<nonce, form>>
         \/ form < 3 /\ form' = form + 1 /\ pc' = "gather" /\ nonce' = nonce
         \/ pc' = "build"
         \/ nonce' = nonce + 1 /\ form' = 1 /\ pc' = "scan"
    BY FormsAre DEF GatherInfo, GatherUnspent, NextForm, NextNonce
<1>2. nonce \in Nat /\ nonce < Top /\ form \in 1..3 /\ Top \in Nat
    BY <1>1, ScanBelow, TopType DEF Walking
<1>3. /\ Phase = 1
      /\ StepsLeft = 9 * (Top - nonce) + 2 * (3 - form) + (IF pc = "gather" THEN 1 ELSE 0)
    BY <1>1, <1>2 DEF StepsLeft, Phase
<1>4. CASE pc = "gather" /\ pc' = "list" /\ UNCHANGED <<nonce, form>>
    <2>1. StepsLeft' = 9 * (Top - nonce) + 2 * (3 - form) /\ Phase' = 1
        BY <1>4 DEF StepsLeft, Phase
    <2> QED BY <1>2, <1>3, <1>4, <2>1 DEF Advances
<1>5. CASE form < 3 /\ form' = form + 1 /\ pc' = "gather" /\ nonce' = nonce
    <2>1. StepsLeft' = 9 * (Top - nonce) + 2 * (3 - (form + 1)) + 1 /\ Phase' = 1
        BY <1>5 DEF StepsLeft, Phase
    <2> QED BY <1>2, <1>3, <1>5, <2>1 DEF Advances
<1>6. CASE pc' = "build" BY <1>3, <1>6 DEF Advances, Phase
<1>7. CASE nonce' = nonce + 1 /\ form' = 1 /\ pc' = "scan"
    <2>1. StepsLeft' = 9 * (Top - (nonce + 1)) + 6 + (3 - 1) /\ Phase' = 1
        BY <1>7 DEF StepsLeft, Phase
    <2> QED BY <1>2, <1>3, <2>1 DEF Advances
<1> QED BY <1>1, <1>4, <1>5, <1>6, <1>7

\* Whatever the providers answer or hide, every step of a command leaves less
\* of it, in order of its phases; and what others pay or spend between two
\* requests adds nothing (Wallet.__init__, balance, _scan_inputs: each walk
\* goes on only from an address that was paid).
THEOREM CommandAdvances ==
    Spec => [][/\ Command => Advances
               /\ Others => UNCHANGED <<Phase, StepsLeft>>]_vars
<1>1. Init => Opened
    BY UnaskedType DEF Init, Opened
<1>2. TInv /\ Opened /\ [Next]_vars => Opened'
    <2> SUFFICES ASSUME TInv, Opened, [Next]_vars PROVE Opened' OBVIOUS
    <2>1. CASE OpenWalk BY <2>1, OpenAdvances
    <2>2. CASE Others \/ UNCHANGED vars
        BY <2>2 DEF Others, vars, Opened
    <2>3. CASE Command /\ ~OpenWalk
        <3>1. pc' # "open"
            BY <2>3, FormsAre DEF Command, BalanceUnspent, BalanceLine, SelectPrimary, ScanNonce,
                        GatherInfo, GatherUnspent, Build, Announce, NextForm
        <3> QED BY <3>1 DEF Opened
    <2> QED BY <2>1, <2>2, <2>3 DEF Next
<1>3. TInv /\ Opened /\ IInv /\ [Next]_vars
        => [/\ Command => Advances
            /\ Others => UNCHANGED <<Phase, StepsLeft>>]_vars
    <2> SUFFICES ASSUME TInv, Opened, IInv
                 PROVE  /\ Command => Advances
                        /\ Others => UNCHANGED <<Phase, StepsLeft>>
        OBVIOUS
    <2>1. Command => Advances
        BY OpenAdvances, OtherAdvances, ScanAdvances, GatherAdvances DEF Command
    <2>2. Others => UNCHANGED <<Phase, StepsLeft>>
        <3>1. ASSUME Others PROVE UNCHANGED <<pc, cmd, nonce, form, keys>> BY <3>1 DEF Others
        <3> QED BY <3>1 DEF Phase, StepsLeft, Far
    <2> QED BY <2>1, <2>2
<1>4. Init => IInv BY InitIInv
<1>5. IInv /\ [Next]_vars => IInv' BY StepIInv
<1> QED BY <1>1, <1>2, <1>3, <1>4, <1>5, TypesHold, PTL DEF Spec
=============================================================================
