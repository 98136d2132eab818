----------------------------- MODULE SendProofs -----------------------------
(***************************************************************************)
(* Proofs about the path of a payment: the screen on which the outputs are *)
(* picked, the signing of the candidates built from them, and the requests *)
(* to the network.                                                         *)
(*                                                                         *)
(* Signing: SigningTypeOK and CandidatesVerify, for every group, every     *)
(* tweak, any number of inputs in any mix of forms, and any number of      *)
(* builds of the fee loop.  The invariant says exactly what the copy that  *)
(* is being signed looks like: the inputs up to `done` are as InputOf      *)
(* makes them from the unsigned transaction, the others are unsigned.      *)
(* This works because no digest looks at the scripts and witnesses of the  *)
(* other inputs: signing an input neither invalidates those signed before  *)
(* it nor depends on them, and a build starts again from the unsigned      *)
(* transaction.                                                            *)
(*                                                                         *)
(* Selection: SpentAsShown and TickHolds, for any sources, outputs,        *)
(* payment and fee.  The invariant (Shown) ties the figure on the screen   *)
(* to what is ticked, and the result of an accepted screen to both; the    *)
(* listing does not change while the screen is open (SameListing).         *)
(* ScreenTypeOK holds by itself: a row or an output that is listed has a   *)
(* source (ListedType, RowsType), and there are enough outputs for the     *)
(* default selection (DefaultType).                                        *)
(*                                                                         *)
(* Failover: NetTypeOK, RefusedOnce, EveryBackendTried, WaitBounded and    *)
(* BroadcastHappened, for any number and kind of backends, any number of   *)
(* retries and calls, and any headers a server may send.                   *)
(* The walk of a call is an order of the backends in which each stands     *)
(* exactly once (WalkIsOrder), wherever it begins.  While the call runs,   *)
(* the backends behind the walk are its trail (Behind), and the requests   *)
(* from the present one on have not been refused (Fresh): after a refusal  *)
(* the call goes on to another request, of this backend or of the next.    *)
(* Each request leaves fewer that may follow (RequestsLeft), so that no    *)
(* answers keep a call going (CallAdvances).                               *)
(***************************************************************************)
EXTENDS Selection, Signing, Failover, InductionFacts

----------------------------------------------------------------------------
(* Signing *)

Input == [key : Scalar, coin : Coin]

\* An input as sign_segwit leaves it in build n.
InputOf(i, n) == SignedInput(Unsigned(n), i)

\* The copy of build n with the first d inputs signed.
Partial(n, d) ==
    [ins |-> [i \in DOMAIN vin |-> IF i <= d THEN InputOf(i, n) ELSE Unsigned(n).ins[i]],
     outs |-> n, done |-> d]

NothingSigned == [ins |-> <<>>, outs |-> 0, done |-> 0]

\* Before the first build there is nothing; then `signed` is the copy of the
\* last build, and the candidates are the finished copies of the builds.
Progress ==
    \/ outs = 0 /\ signed = NothingSigned /\ candidates = <<>>
    \/ /\ vin # <<>> /\ outs \in 1..MaxBuilds
       /\ \E d \in 0..Len(vin) :
            /\ signed = Partial(outs, d)
            /\ Len(candidates) = IF d = Len(vin) THEN outs ELSE outs - 1

SInv ==
    /\ listing \in Listings
    /\ vin \in Seq(Input)
    /\ \A i \in DOMAIN vin : Spendable(vin[i].key, vin[i].coin)
    /\ candidates \in Seq({Partial(n, Len(vin)) : n \in 1..MaxBuilds})
    /\ Progress

----------------------------------------------------------------------------
(* The inputs *)

\* What _select_inputs hands over is a sequence of inputs.
LEMMA ListedInputsType == listing \in Listings => ListedInputs \in Seq(Input)
<1> SUFFICES ASSUME listing \in Listings PROVE ListedInputs \in Seq(Input) OBVIOUS
<1> DEFINE row(s) == [c \in DOMAIN listing[s].coins |->
                        [key |-> listing[s].key, coin |-> listing[s].coins[c]]]
           rows == [s \in DOMAIN listing |-> row(s)]
<1>1. listing \in Seq([key : Scalar, coins : Seq(Coin)]) BY ListingsAssumption
<1>2. ASSUME NEW s \in DOMAIN listing
      PROVE  row(s) \in Seq(Input)
    <2> DEFINE Source == [key : Scalar, coins : Seq(Coin)]
    <2>0. listing[s] \in Source
        <3>1. listing \in Seq(Source) BY <1>1
        <3> HIDE DEF Source
        <3> QED BY <3>1, SeqElement
    <2>1. listing[s].key \in Scalar /\ listing[s].coins \in Seq(Coin) BY <2>0
    <2> DEFINE coins == listing[s].coins
    <2>2. \A c \in DOMAIN coins : coins[c] \in Coin BY <2>1
    <2>3. DOMAIN coins = 1..Len(coins) /\ Len(coins) \in Nat BY <2>1
    <2>4. \A c \in DOMAIN coins : [key |-> listing[s].key, coin |-> coins[c]] \in Input
        BY <2>1, <2>2 DEF Input
    <2> HIDE DEF coins
    <2>5. [c \in 1..Len(coins) |-> [key |-> listing[s].key, coin |-> coins[c]]]
            \in [1..Len(coins) -> Input]
        BY <2>3, <2>4
    <2> QED BY <2>3, <2>5, FunctionIsSeq DEF coins
<1>3. DOMAIN listing = 1..Len(listing) /\ Len(listing) \in Nat BY <1>1
<1> HIDE DEF row
<1>4. rows \in Seq(Seq(Input)) BY <1>2, <1>3
<1>5. ListedInputs = FlattenSeq(rows) BY DEF ListedInputs, row
<1> HIDE DEF rows
<1> QED BY <1>4, <1>5, FlattenSeqType

----------------------------------------------------------------------------
(* One input *)

\* The fields of an unsigned input.
LEMMA UnsignedFields ==
    ASSUME NEW n, NEW i \in DOMAIN vin
    PROVE  /\ Unsigned(n).outs = n /\ DOMAIN Unsigned(n).ins = DOMAIN vin
           /\ Unsigned(n).ins[i] = [outpoint |-> vin[i].coin.outpoint,
                                    script |-> ScriptPubKey(vin[i].coin), witness |-> <<>>]
BY DEF Unsigned

\* Signing changes no outpoint.
LEMMA SameOutpoint ==
    ASSUME NEW n, NEW i \in DOMAIN vin
    PROVE  InputOf(i, n).outpoint = vin[i].coin.outpoint
<1> DEFINE in == Unsigned(n).ins[i]
<1>1. in = [outpoint |-> vin[i].coin.outpoint,
            script |-> ScriptPubKey(vin[i].coin), witness |-> <<>>]
    BY UnsignedFields
<1> HIDE DEF in
<1>2. \A s, w : [in EXCEPT !.script = s, !.witness = w].outpoint = in.outpoint BY <1>1
<1>3. \A s : [in EXCEPT !.script = s].outpoint = in.outpoint BY <1>1
<1> QED BY <1>1, <1>2, <1>3 DEF InputOf, SignedInput, in

\* A partly signed copy and the unsigned transaction have the same digests.
LEMMA SameDigests ==
    ASSUME NEW n, NEW d, NEW i \in DOMAIN vin
    PROVE  /\ Partial(n, d).outs = n
           /\ \A code : LegacyDigest(Partial(n, d), i, code) = LegacyDigest(Unsigned(n), i, code)
           /\ \A p, a : Bip143Digest(Partial(n, d), i, p, a) = Bip143Digest(Unsigned(n), i, p, a)
           /\ \A s : TaprootDigest(Partial(n, d), i, s) = TaprootDigest(Unsigned(n), i, s)
<1> DEFINE tx == Partial(n, d)
           raw == Unsigned(n)
<1>1. tx.outs = n /\ raw.outs = n /\ DOMAIN tx.ins = DOMAIN vin /\ DOMAIN raw.ins = DOMAIN vin
    BY DEF Partial, Unsigned
<1>2. \A z \in DOMAIN vin : tx.ins[z] = IF z <= d THEN InputOf(z, n) ELSE Unsigned(n).ins[z]
    BY DEF Partial
<1>3. ASSUME NEW z \in DOMAIN vin
      PROVE  /\ tx.ins[z].outpoint = vin[z].coin.outpoint
             /\ raw.ins[z].outpoint = vin[z].coin.outpoint
    <2>1. raw.ins[z].outpoint = vin[z].coin.outpoint
        <3>1. raw.ins[z] = [outpoint |-> vin[z].coin.outpoint,
                            script |-> ScriptPubKey(vin[z].coin), witness |-> <<>>]
            BY UnsignedFields
        <3> QED BY <3>1
    <2>2. InputOf(z, n).outpoint = vin[z].coin.outpoint BY SameOutpoint
    <2> QED BY <1>2, <2>1, <2>2
<1> HIDE DEF tx, raw
<1>4. Outpoints(tx) = Outpoints(raw) BY <1>1, <1>3 DEF Outpoints
<1>5. \A code : LegacyDigest(tx, i, code) = LegacyDigest(raw, i, code)
    BY <1>1, <1>3 DEF LegacyDigest
<1>6. /\ \A p, m : Bip143Digest(tx, i, p, m) = Bip143Digest(raw, i, p, m)
      /\ \A s : TaprootDigest(tx, i, s) = TaprootDigest(raw, i, s)
    BY <1>1, <1>4 DEF Bip143Digest, TaprootDigest
<1> QED BY <1>1, <1>5, <1>6 DEF tx, raw

\* The next input of the loop is signed as it would be on its own.
LEMMA NextInput ==
    ASSUME NEW n, NEW d \in Nat, NEW i \in DOMAIN vin, i \in Nat, i > d
    PROVE  SignedInput(Partial(n, d), i) = InputOf(i, n)
<1> DEFINE tx == Partial(n, d)
           raw == Unsigned(n)
<1>1. tx.ins[i] = raw.ins[i] BY DEF Partial
<1>2. tx.outs = n /\ raw.outs = n BY UnsignedFields, SameDigests
<1>3. /\ \A p, m : Bip143Digest(tx, i, p, m) = Bip143Digest(raw, i, p, m)
      /\ \A s : TaprootDigest(tx, i, s) = TaprootDigest(raw, i, s)
    BY SameDigests
<1> HIDE DEF tx, raw
<1>4. SignedInput(tx, i) = SignedInput(raw, i) BY <1>1, <1>2, <1>3 DEF SignedInput
<1> QED BY <1>4 DEF InputOf, tx, raw

\* The taproot signature is by the key the coin is locked to, whichever
\* parity the internal key has.
LEMMA TweakedKey == \A d : X(TweakedScalar(d)) = OutputKey(X(d))
BY DEF TweakedScalar, OutputKey, X

\* A finished input is one the node accepts.
LEMMA FinishedVerifies ==
    ASSUME SInv, NEW n, NEW i \in DOMAIN vin
    PROVE  Accepted(Partial(n, Len(vin)), i)
<1> DEFINE tx == Partial(n, Len(vin))
           coin == vin[i].coin
           key == vin[i].key
           in == tx.ins[i]
           was == Unsigned(n).ins[i]
<1>1. vin \in Seq(Input) /\ Spendable(key, coin) BY DEF SInv
<1>2. i \in 1..Len(vin) /\ coin \in Coin
    <2>1. i \in 1..Len(vin) /\ vin[i] \in Input BY <1>1
    <2> QED BY <2>1 DEF Input
<1>3. in = InputOf(i, n)
    <2>1. in = IF i <= Len(vin) THEN InputOf(i, n) ELSE Unsigned(n).ins[i] BY DEF Partial
    <2>2. i <= Len(vin) BY <1>1, <1>2
    <2> QED BY <2>1, <2>2
<1>4. was = [outpoint |-> coin.outpoint, script |-> ScriptPubKey(coin), witness |-> <<>>]
    BY UnsignedFields
<1>5. in.outpoint = coin.outpoint BY <1>3, SameOutpoint
<1>6. coin.form \in {"p2pkh", "p2wpkh", "p2tr"}
    BY <1>1, <1>2 DEF Coin, Spendable
<1>7. Unsigned(n).outs = n BY UnsignedFields
<1>8. CASE coin.form = "p2wpkh"
    <2>1. coin.program = key BY <1>1, <1>8 DEF Spendable
    <2>2. in = [was EXCEPT !.script = EmptyScript,
                  !.witness = <<Ecdsa(key, Bip143Digest(Unsigned(n), i, coin.program, coin.amount)), key>>]
        BY <1>3, <1>8 DEF InputOf, SignedInput
    <2>3. Bip143Digest(tx, i, coin.program, coin.amount)
            = Bip143Digest(Unsigned(n), i, coin.program, coin.amount)
        BY SameDigests
    <2> HIDE DEF was, tx, in
    <2>4. /\ in.script = EmptyScript
          /\ in.witness = <<Ecdsa(coin.program,
                Bip143Digest(tx, i, coin.program, coin.amount)), coin.program>>
        BY <1>4, <2>1, <2>2, <2>3
    <2> QED BY <1>5, <1>8, <2>4 DEF Accepted, in, tx
<1>9. CASE coin.form = "p2tr"
    <2>1. coin.program = OutputKey(X(key)) BY <1>1, <1>9 DEF Spendable
    <2>2. in = [was EXCEPT !.script = EmptyScript,
                  !.witness = <<Schnorr(TweakedScalar(key), TaprootDigest(Unsigned(n), i, Spend))>>]
        BY <1>3, <1>9 DEF InputOf, SignedInput
    <2>3. TaprootDigest(tx, i, Spend) = TaprootDigest(Unsigned(n), i, Spend)
        BY SameDigests
    <2>4. Schnorr(TweakedScalar(key), TaprootDigest(tx, i, Spend))
            = <<"schnorr", coin.program, TaprootDigest(tx, i, Spend)>>
        BY <2>1, TweakedKey DEF Schnorr
    <2> HIDE DEF was, tx, in
    <2>5. /\ in.script = EmptyScript
          /\ in.witness = <<<<"schnorr", coin.program, TaprootDigest(tx, i, Spend)>>>>
        BY <1>4, <2>2, <2>3, <2>4
    <2> QED BY <1>5, <1>9, <2>5 DEF Accepted, Spend, in, tx
<1>10. CASE coin.form = "p2pkh"
    <2>1. coin.program = key BY <1>1, <1>10 DEF Spendable
    <2>2. in = [was EXCEPT
                  !.script = ScriptSig(<<Ecdsa(key, LegacyDigest(Unsigned(n), i, was.script)), key>>)]
        BY <1>3, <1>7, <1>10 DEF InputOf, SignedInput
    <2>3. LegacyDigest(tx, i, ScriptPubKey(coin)) = LegacyDigest(Unsigned(n), i, ScriptPubKey(coin))
        BY SameDigests
    <2> HIDE DEF was, tx, in
    <2>4. /\ in.witness = <<>>
          /\ in.script = ScriptSig(<<Ecdsa(coin.program,
                LegacyDigest(tx, i, ScriptPubKey(coin))), coin.program>>)
        BY <1>4, <2>1, <2>2, <2>3
    <2> QED BY <1>5, <1>10, <2>4 DEF Accepted, in, tx
<1> QED BY <1>6, <1>8, <1>9, <1>10

----------------------------------------------------------------------------
(* Steps *)

\* The copies are those of the inputs alone.
LEMMA SameVin == UNCHANGED vin => \A n, d : Partial(n, d)' = Partial(n, d)
BY DEF Partial, Unsigned, InputOf, SignedInput, Spend, LegacyDigest, Bip143Digest,
       TaprootDigest, Outpoints

\* Making the inputs checks each against its key.
LEMMA MakeVinSInv == SInv /\ MakeVin => SInv'
<1> SUFFICES ASSUME SInv, MakeVin PROVE SInv' OBVIOUS
<1>1. vin = <<>> /\ vin' = ListedInputs /\ UNCHANGED <<listing, outs, signed, candidates>>
    BY DEF MakeVin
<1>2. outs = 0 /\ signed = NothingSigned /\ candidates = <<>> BY <1>1 DEF SInv, Progress
<1>3. vin' \in Seq(Input) BY <1>1, ListedInputsType DEF SInv
<1>4. \A i \in DOMAIN vin' : Spendable(vin'[i].key, vin'[i].coin) BY <1>1 DEF MakeVin
<1>5. Progress' BY <1>1, <1>2 DEF Progress
<1>6. candidates' \in Seq({Partial(n, Len(vin)) : n \in 1..MaxBuilds})'
    BY <1>1, <1>2
<1> QED BY <1>1, <1>3, <1>4, <1>5, <1>6 DEF SInv

\* A build starts from the unsigned transaction.
LEMMA BuildSInv == SInv /\ Build => SInv'
<1> SUFFICES ASSUME SInv, Build PROVE SInv' OBVIOUS
<1>1. /\ vin # <<>> /\ outs < MaxBuilds /\ outs' = outs + 1
      /\ signed' = [ins |-> Unsigned(outs').ins, outs |-> outs', done |-> 0]
      /\ signed.done = Len(signed.ins) /\ UNCHANGED <<listing, vin, candidates>>
    BY DEF Build
<1>2. vin \in Seq(Input) /\ MaxBuilds \in Nat BY ListingsAssumption DEF SInv
<1>3. outs \in Nat /\ Len(candidates) = outs
    <2>1. CASE outs = 0 /\ candidates = <<>> BY <2>1
    <2>2. ASSUME NEW d \in 0..Len(vin), outs \in 1..MaxBuilds, signed = Partial(outs, d),
                 Len(candidates) = IF d = Len(vin) THEN outs ELSE outs - 1
          PROVE  outs \in Nat /\ Len(candidates) = outs
        <3>1. signed.done = d /\ DOMAIN signed.ins = DOMAIN vin BY <2>2 DEF Partial
        <3>2. Len(signed.ins) = Len(vin)
            <4>1. DOMAIN signed.ins = 1..Len(vin) /\ Len(vin) \in Nat BY <1>2, <3>1
            <4>2. signed.ins = [i \in 1..Len(vin) |-> signed.ins[i]]
                BY <1>2, <2>2 DEF Partial
            <4> QED BY <4>1, <4>2
        <3> QED BY <1>1, <2>2, <3>1, <3>2
    <2> QED BY <2>1, <2>2 DEF SInv, Progress
<1>4. outs' \in 1..MaxBuilds BY <1>1, <1>2, <1>3
<1>5. signed' = Partial(outs', 0)
    <2>1. \A i \in DOMAIN vin : ~(i <= 0) BY <1>2
    <2>2. Unsigned(outs').ins = [i \in DOMAIN vin |->
                IF i <= 0 THEN InputOf(i, outs') ELSE Unsigned(outs').ins[i]]
        BY <2>1 DEF Unsigned
    <2> QED BY <1>1, <2>2 DEF Partial
<1>6. \A n, d : Partial(n, d)' = Partial(n, d) BY <1>1, SameVin
<1>7. Progress'
    <2>1. 0 \in 0..Len(vin) /\ Len(vin) # 0 BY <1>1, <1>2
    <2>2. Len(candidates') = outs' - 1 BY <1>1, <1>3
    <2> QED BY <1>1, <1>4, <1>5, <1>6, <2>1, <2>2 DEF Progress
<1>8. candidates' \in Seq({Partial(n, Len(vin)) : n \in 1..MaxBuilds})'
    <2>1. candidates \in Seq({Partial(n, Len(vin)) : n \in 1..MaxBuilds}) BY DEF SInv
    <2> QED BY <1>1, <1>6, <2>1
<1> QED BY <1>1, <1>7, <1>8 DEF SInv

\* Signing an input leaves the ones before it as they were signed.
LEMMA SignInputSInv == SInv /\ SignInput => SInv'
<1> SUFFICES ASSUME SInv, SignInput PROVE SInv' OBVIOUS
<1> DEFINE i == signed.done + 1
<1>1. /\ signed.done < Len(signed.ins)
      /\ signed' = [signed EXCEPT !.ins[i] = SignedInput(signed, i), !.done = i]
      /\ candidates' = IF signed'.done = Len(signed.ins)
                       THEN Append(candidates, signed') ELSE candidates
      /\ UNCHANGED <<listing, vin, outs>>
    BY DEF SignInput
<1>2. vin \in Seq(Input) /\ candidates \in Seq({Partial(n, Len(vin)) : n \in 1..MaxBuilds})
    BY DEF SInv
<1>3. signed # NothingSigned BY <1>1 DEF NothingSigned
<1>4. PICK d \in 0..Len(vin) : /\ vin # <<>> /\ outs \in 1..MaxBuilds
                               /\ signed = Partial(outs, d)
                               /\ Len(candidates) = IF d = Len(vin) THEN outs ELSE outs - 1
    BY <1>3 DEF SInv, Progress
<1>5. signed.done = d /\ i = d + 1 /\ Len(signed.ins) = Len(vin)
    <2>1. signed.done = d /\ signed.ins = [z \in DOMAIN vin |->
            IF z <= d THEN InputOf(z, outs) ELSE Unsigned(outs).ins[z]]
        BY <1>4 DEF Partial
    <2> QED BY <1>2, <2>1
<1>6. /\ d < Len(vin) /\ i \in 1..Len(vin) /\ Len(vin) \in Nat /\ DOMAIN vin = 1..Len(vin)
      /\ d \in Nat /\ i \in Nat /\ i > d /\ outs \in Nat /\ Len(candidates) = outs - 1
    BY <1>1, <1>2, <1>4, <1>5, ListingsAssumption
<1>7. SignedInput(signed, i) = InputOf(i, outs)
    <2> HIDE DEF i
    <2> QED BY <1>4, <1>6, NextInput
<1>8. signed' = Partial(outs, i)
    <2>1. signed = [ins |-> signed.ins, outs |-> outs, done |-> d] BY <1>4 DEF Partial
    <2>2. signed.ins = [z \in DOMAIN vin |->
            IF z <= d THEN InputOf(z, outs) ELSE Unsigned(outs).ins[z]]
        BY <1>4 DEF Partial
    <2> DEFINE ins == [signed.ins EXCEPT ![i] = SignedInput(signed, i)]
    <2>3. signed' = [ins |-> ins, outs |-> outs, done |-> i]
        <3> DEFINE x == SignedInput(signed, i)
                   old == signed.ins
                   mid == [signed EXCEPT !.ins[i] = x]
        <3>1. signed' = [signed EXCEPT !.ins[i] = x, !.done = i] BY <1>1
        <3> HIDE DEF i, x, old
        <3>2. [signed EXCEPT !.ins[i] = x, !.done = i] = [mid EXCEPT !.done = i] OBVIOUS
        <3>3. mid = [ins |-> [old EXCEPT ![i] = x], outs |-> outs, done |-> d] BY <2>1 DEF old
        <3> HIDE DEF mid
        <3>4. [mid EXCEPT !.done = i] = [ins |-> [old EXCEPT ![i] = x], outs |-> outs, done |-> i]
            BY <3>3
        <3> QED BY <3>1, <3>2, <3>4 DEF x, old
    <2>4. ins = [z \in DOMAIN vin |->
            IF z <= i THEN InputOf(z, outs) ELSE Unsigned(outs).ins[z]]
        BY <1>5, <1>6, <1>7, <2>2
    <2> HIDE DEF ins
    <2> QED BY <2>3, <2>4 DEF Partial
<1> HIDE DEF i
<1>9. signed'.done = i BY <1>8 DEF Partial
<1>10. \A n, e : Partial(n, e)' = Partial(n, e) BY <1>1, SameVin
<1>11. /\ candidates' \in Seq({Partial(n, Len(vin)) : n \in 1..MaxBuilds})
       /\ Len(candidates') = IF i = Len(vin) THEN outs ELSE outs - 1
    <2>1. CASE i = Len(vin)
        <3>1. candidates' = Append(candidates, Partial(outs, i)) BY <1>1, <1>5, <1>8, <1>9, <2>1
        <3>2. Partial(outs, i) \in {Partial(n, Len(vin)) : n \in 1..MaxBuilds}
            BY <1>4, <2>1
        <3> QED BY <1>2, <1>6, <2>1, <3>1, <3>2
    <2>2. CASE i # Len(vin)
        <3>1. candidates' = candidates BY <1>1, <1>5, <1>9, <2>2
        <3> QED BY <1>2, <1>6, <2>2, <3>1
    <2> QED BY <2>1, <2>2
<1>12. Progress'
    <2>1. i \in 0..Len(vin) BY <1>6
    <2> QED BY <1>1, <1>4, <1>8, <1>10, <1>11, <2>1 DEF Progress
<1> QED BY <1>1, <1>10, <1>11, <1>12 DEF SInv

\* Every step keeps the invariant of the signing.
LEMMA StepSInv == SInv /\ [SigningNext]_signing => SInv'
<1>1. SInv /\ UNCHANGED signing => SInv'
    <2> SUFFICES ASSUME SInv, UNCHANGED signing PROVE SInv' OBVIOUS
    <2>1. UNCHANGED <<listing, vin, outs, signed, candidates>> BY DEF signing
    <2>2. \A n, d : Partial(n, d)' = Partial(n, d) BY <2>1, SameVin
    <2>3. Progress' BY <2>1, <2>2 DEF SInv, Progress
    <2> QED BY <2>1, <2>2, <2>3 DEF SInv
<1> QED BY <1>1, MakeVinSInv, BuildSInv, SignInputSInv DEF SigningNext

\* Nothing is signed yet.
LEMMA InitSInv == SigningInit => SInv
BY DEF SigningInit, SInv, Progress, NothingSigned

\* At any time the copy has no input or all of them, and as many are signed
\* as it says.
THEOREM SigningTypeCorrect == SigningSpec => []SigningTypeOK
<1>1. SInv => SigningTypeOK
    <2> SUFFICES ASSUME SInv PROVE SigningTypeOK OBVIOUS
    <2>1. vin \in Seq(Input) /\ MaxBuilds \in Nat BY ListingsAssumption DEF SInv
    <2>2. CASE outs = 0 /\ signed = NothingSigned /\ candidates = <<>>
        BY <2>1, <2>2 DEF SInv, SigningTypeOK, NothingSigned, Input
    <2>3. ASSUME NEW d \in 0..Len(vin), outs \in 1..MaxBuilds, signed = Partial(outs, d),
                 Len(candidates) = IF d = Len(vin) THEN outs ELSE outs - 1
          PROVE  SigningTypeOK
        <3>1. signed.done = d /\ signed.ins = [z \in DOMAIN vin |->
                IF z <= d THEN InputOf(z, outs) ELSE Unsigned(outs).ins[z]]
            BY <2>3 DEF Partial
        <3>2. Len(signed.ins) = Len(vin) BY <2>1, <3>1
        <3>3. outs \in 0..MaxBuilds /\ Len(candidates) \in {outs - 1, outs}
            BY <2>1, <2>3
        <3>4. Len(signed.ins) \in {0, Len(vin)} /\ signed.done \in 0..Len(signed.ins)
            BY <2>3, <3>1, <3>2
        <3> QED BY <2>1, <3>3, <3>4 DEF SInv, SigningTypeOK, Input
    <2> QED BY <2>2, <2>3 DEF SInv, Progress
<1> QED BY <1>1, InitSInv, StepSInv, PTL DEF SigningSpec

\* A node accepts every transaction the fee loop could return, at each
\* input.
THEOREM CandidatesVerifyHolds == SigningSpec => []CandidatesVerify
<1>1. SInv => CandidatesVerify
    <2> SUFFICES ASSUME SInv, NEW c \in DOMAIN candidates, NEW i \in DOMAIN vin
                 PROVE  Accepted(candidates[c], i)
        BY DEF CandidatesVerify
    <2>1. candidates \in Seq({Partial(n, Len(vin)) : n \in 1..MaxBuilds}) BY DEF SInv
    <2>2. candidates[c] \in {Partial(n, Len(vin)) : n \in 1..MaxBuilds} BY <2>1
    <2> QED BY <2>2, FinishedVerifies
<1> QED BY <1>1, InitSInv, StepSInv, PTL DEF SigningSpec

----------------------------------------------------------------------------
(* Selection *)

\* The figure on the screen is the sum of what is ticked.
Shown ==
    /\ total = ComputeTotal(selected)
    /\ mode = "accepted" => grouped = Regroup(Ticked(selected))

\* The listing is that of the sources.
LEMMA SameListing ==
    UNCHANGED sources => /\ Listed' = Listed /\ Rows' = Rows
                         /\ \A S : Worth(S)' = Worth(S)
                         /\ \A S : Ticked(S)' = Ticked(S)
                         /\ \A S : Regroup(S)' = Regroup(S)
                         /\ \A S : ComputeTotal(S)' = ComputeTotal(S)
<1> SUFFICES ASSUME UNCHANGED sources
             PROVE  /\ Listed' = Listed /\ Rows' = Rows
                    /\ \A S : Worth(S)' = Worth(S)
                    /\ \A S : Ticked(S)' = Ticked(S)
                    /\ \A S : Regroup(S)' = Regroup(S)
                    /\ \A S : ComputeTotal(S)' = ComputeTotal(S)
    OBVIOUS
<1>1. Rows' = Rows /\ Listed' = Listed BY DEF Listed, Rows
<1>2. \A S : Worth(S)' = Worth(S) BY DEF Worth, FoldSet, MapThenFoldSet, Amount
<1>3. \A S : Ticked(S)' = Ticked(S)
    <2>1. \A o : Marker(o)' = Marker(o) BY DEF Marker
    <2>2. ToSet(Listed)' = ToSet(Listed) BY <1>1 DEF ToSet
    <2> HIDE DEF Marker
    <2> QED BY <2>1, <2>2 DEF Ticked
<1>4. \A S : Regroup(S)' = Regroup(S) BY DEF Regroup
<1>5. \A S : ComputeTotal(S)' = ComputeTotal(S) BY <1>2, <1>3 DEF ComputeTotal
<1> QED BY <1>1, <1>2, <1>3, <1>4, <1>5

\* Nothing ticked is worth nothing.
LEMMA EmptySum == Worth({}) = 0
<1> DEFINE step(g, s) == IF s = {} THEN 0
                         ELSE Amount(CHOOSE x \in s : TRUE) + g[s \ {CHOOSE x \in s : TRUE}]
           iter == CHOOSE g : g = [s \in SUBSET {} |-> step(g, s)]
<1>1. Worth({}) = iter[{}] BY DEF Worth, FoldSet, MapThenFoldSet
<1>2. \E g : g = [s \in SUBSET {} |-> step(g, s)]
    <2> DEFINE g == [s \in SUBSET {} |-> 0]
    <2>1. g = [s \in SUBSET {} |-> step(g, s)] OBVIOUS
    <2> QED BY <2>1
<1>3. iter = [s \in SUBSET {} |-> step(iter, s)] BY <1>2
<1> HIDE DEF iter
<1> QED BY <1>1, <1>3

\* With nothing selected nothing is ticked.
LEMMA NoneTicked == Ticked({}) = {}
BY DEF Ticked

\* The screen opens with the figure of its first selection.
LEMMA InitShown == ScreenInit => Shown
BY DEF ScreenInit, Shown

\* Every key keeps figure and ticks together.
LEMMA StepShown == Shown /\ [ScreenNext]_screen => Shown'
<1> SUFFICES ASSUME Shown, [ScreenNext]_screen PROVE Shown' OBVIOUS
<1>1. UNCHANGED sources
    BY DEF ScreenNext, screen, asked, ToggleOutput, ToggleGroup, SelectAll, SelectNone, Move,
           Accept, Cancel
<1>2. /\ \A S : Worth(S)' = Worth(S)
      /\ \A S : Regroup(S)' = Regroup(S)
      /\ \A S : Ticked(S)' = Ticked(S)
      /\ \A S : ComputeTotal(S)' = ComputeTotal(S)
    BY <1>1, SameListing
<1>3. ASSUME mode = "open", mode' = "open", NEW sel, Select(sel)
      PROVE  Shown'
    BY <1>2, <1>3 DEF Shown, Select
<1>4. CASE ToggleOutput BY <1>3, <1>4 DEF ToggleOutput
<1>5. CASE ToggleGroup BY <1>3, <1>5 DEF ToggleGroup
<1>6. CASE SelectAll BY <1>3, <1>6 DEF SelectAll
<1>7. CASE SelectNone
    BY <1>2, <1>7, EmptySum, NoneTicked DEF SelectNone, Shown, ComputeTotal
<1>8. CASE Move BY <1>2, <1>8 DEF Move, Shown
<1>9. CASE Accept BY <1>2, <1>9 DEF Accept, Shown
<1>10. CASE Cancel BY <1>2, <1>10 DEF Cancel, Shown
<1>11. CASE UNCHANGED screen BY <1>2, <1>11 DEF screen, Shown
<1> QED BY <1>4, <1>5, <1>6, <1>7, <1>8, <1>9, <1>10, <1>11 DEF ScreenNext

\* What an accepted screen hands over is what was ticked.
LEMMA SpentIsTicked ==
    ASSUME Shown, mode = "accepted" PROVE Spent = Ticked(selected)
<1>1. grouped = Regroup(Ticked(selected)) BY DEF Shown
<1> QED BY <1>1 DEF Spent, Regroup

\* The wallet spends exactly the outputs that were ticked when the user accepted,
\* each with the key of its source, and their sum is the figure on the screen.
THEOREM SpentAsShownHolds == ScreenSpec => []SpentAsShown
<1>1. Shown => SpentAsShown
    <2> SUFFICES ASSUME Shown, mode = "accepted"
                 PROVE  /\ Worth(Spent) = total
                        /\ \A s \in DOMAIN grouped : \A o \in grouped[s] : o[1] = s
        BY DEF SpentAsShown
    <2>1. Worth(Spent) = total BY SpentIsTicked DEF Shown, ComputeTotal
    <2>2. grouped = Regroup(Ticked(selected)) BY DEF Shown
    <2> QED BY <2>1, <2>2 DEF Regroup
<1> QED BY <1>1, InitShown, StepShown, PTL DEF ScreenSpec

\* When the screen shows the check mark for a given fee, the accepted outputs do
\* cover payment and fee.
THEOREM TickHoldsHolds == ScreenSpec => []TickHolds
<1>1. Shown => TickHolds
    <2> SUFFICES ASSUME Shown, mode = "accepted", cli_fee # 0, CoversFee
                 PROVE  target + cli_fee <= Worth(Spent)
        BY DEF TickHolds
    <2>1. Worth(Spent) = total BY SpentIsTicked DEF Shown, ComputeTotal
    <2>2. total >= target + cli_fee BY DEF CoversFee, ShownFee
    <2> QED BY <2>1, <2>2
<1> QED BY <1>1, InitShown, StepShown, PTL DEF ScreenSpec

----------------------------------------------------------------------------
(* The types of the screen *)

\* The outputs and the rows there are.
ScannedOutput == {o \in (DOMAIN sources) \X Nat : o[2] \in DOMAIN sources[o[1]].outs}
ScreenRow == {r \in (DOMAIN sources) \X Nat : r[2] = 0 \/ r[2] \in DOMAIN sources[r[1]].outs}

\* What a scan hands over.
LEMMA SourcesType ==
    ASSUME sources \in Scans
    PROVE  /\ DOMAIN sources = 1 .. Len(sources) /\ Len(sources) \in Nat \ {0}
           /\ \A s \in DOMAIN sources :
                /\ sources[s].nonce \in Nat
                /\ sources[s].outs \in Seq([out_n : Nat, amount : Nat \ {0}])
<1>1. /\ sources \in Seq([nonce : Nat, outs : Seq([out_n : Nat, amount : Nat \ {0}])])
      /\ sources # <<>>
    BY ScansAssumption
<1>2. \A s \in DOMAIN sources :
          sources[s] \in [nonce : Nat, outs : Seq([out_n : Nat, amount : Nat \ {0}])]
    BY <1>1, SeqElement
<1> QED BY <1>1, <1>2

\* Amounts and markers of outputs are what the servers and the walk gave.
LEMMA ScannedOutputType ==
    ASSUME sources \in Scans, NEW o \in ScannedOutput
    PROVE  Amount(o) \in Nat /\ Marker(o) \in Nat \X Nat
<1>1. o[1] \in DOMAIN sources /\ o[2] \in DOMAIN sources[o[1]].outs BY DEF ScannedOutput
<1>2. sources[o[1]].nonce \in Nat
      /\ sources[o[1]].outs \in Seq([out_n : Nat, amount : Nat \ {0}])
    BY <1>1, SourcesType
<1>3. sources[o[1]].outs[o[2]] \in [out_n : Nat, amount : Nat \ {0}]
    <2> DEFINE list == sources[o[1]].outs
    <2>1. list \in Seq([out_n : Nat, amount : Nat \ {0}]) /\ o[2] \in DOMAIN list
        BY <1>1, <1>2
    <2> HIDE DEF list
    <2>2. list[o[2]] \in [out_n : Nat, amount : Nat \ {0}] BY <2>1, SeqElement
    <2> QED BY <2>2 DEF list
<1> QED BY <1>2, <1>3 DEF Amount, Marker

\* The list of outputs names outputs.
LEMMA ListedType ==
    ASSUME sources \in Scans PROVE Listed \in Seq(ScannedOutput)
<1> DEFINE ss == [s \in DOMAIN sources |-> [k \in DOMAIN sources[s].outs |-> <<s, k>>]]
<1>1. ASSUME NEW s \in DOMAIN sources PROVE ss[s] \in Seq(ScannedOutput)
    <2>1. sources[s].outs \in Seq([out_n : Nat, amount : Nat \ {0}]) BY SourcesType
    <2>2. DOMAIN sources[s].outs = 1 .. Len(sources[s].outs) /\ Len(sources[s].outs) \in Nat
        BY <2>1
    <2>3. \A k \in DOMAIN sources[s].outs : <<s, k>> \in ScannedOutput
        BY <2>2 DEF ScannedOutput
    <2>4. ss[s] \in [1 .. Len(sources[s].outs) -> ScannedOutput] BY <2>2, <2>3
    <2> QED BY <2>2, <2>4, FunctionIsSeq
<1>2. ss \in Seq(Seq(ScannedOutput))
    <2>1. ss \in [1 .. Len(sources) -> Seq(ScannedOutput)] BY <1>1, SourcesType
    <2> HIDE DEF ss
    <2> QED BY <2>1, SourcesType, FunctionIsSeq
<1>3. Listed = FlattenSeq(ss) BY DEF Listed
<1> HIDE DEF ss
<1> QED BY <1>2, <1>3, FlattenSeqType

\* There is a row to stand on.
LEMMA RowsType ==
    ASSUME sources \in Scans PROVE Rows \in Seq(ScreenRow) /\ 1 \in DOMAIN Rows
<1> DEFINE block(s) == [k \in 1 .. (Len(sources[s].outs) + 1) |-> <<s, k - 1>>]
           ss == [s \in DOMAIN sources |-> block(s)]
<1>1. ASSUME NEW s \in DOMAIN sources
      PROVE  ss[s] \in Seq(ScreenRow) /\ Len(ss[s]) > 0
    <2>1. sources[s].outs \in Seq([out_n : Nat, amount : Nat \ {0}]) BY SourcesType
    <2> DEFINE n == Len(sources[s].outs)
    <2>2. DOMAIN sources[s].outs = 1 .. n /\ n \in Nat BY <2>1
    <2> HIDE DEF n
    <2>3. \A k \in 1 .. (n + 1) : <<s, k - 1>> \in ScreenRow
        BY <2>2 DEF ScreenRow
    <2>4. block(s) \in [1 .. (n + 1) -> ScreenRow] BY <2>3 DEF n
    <2>5. n + 1 \in Nat BY <2>2
    <2>6. block(s) \in Seq(ScreenRow) /\ Len(block(s)) = n + 1
        <3> HIDE DEF block
        <3> QED BY <2>4, <2>5, FunctionIsSeq
    <2>7. ss[s] = block(s) OBVIOUS
    <2> HIDE DEF block, ss
    <2> QED BY <2>2, <2>6, <2>7
<1>2. ss \in Seq(Seq(ScreenRow)) /\ Len(ss) = Len(sources)
    <2>1. ss \in [1 .. Len(sources) -> Seq(ScreenRow)] BY <1>1, SourcesType
    <2> HIDE DEF ss
    <2> QED BY <2>1, SourcesType, FunctionIsSeq
<1>3. Rows = FlattenSeq(ss) BY DEF Rows
<1>4. 1 \in DOMAIN sources BY SourcesType
<1>5. Len(ss[1]) > 0 BY <1>1, <1>4
<1> HIDE DEF ss
<1>6. PICK f \in [0 .. Len(ss) -> Seq(ScreenRow)] :
             /\ f[0] = <<>>
             /\ \A k \in 1 .. Len(ss) : f[k] = f[k - 1] \o ss[k]
             /\ FlattenSeq(ss) = f[Len(ss)]
    BY <1>2, FlattenSteps
<1>7. Len(ss) \in Nat \ {0} BY <1>2, SourcesType
<1>8. \A k \in 1 .. Len(ss) : Len(f[k]) = Len(f[k - 1]) + Len(ss[k])
    <2> SUFFICES ASSUME NEW k \in 1 .. Len(ss) PROVE Len(f[k]) = Len(f[k - 1]) + Len(ss[k])
        OBVIOUS
    <2>1. k - 1 \in 0 .. Len(ss) /\ k \in DOMAIN ss BY <1>2, <1>7
    <2>2. f[k - 1] \in Seq(ScreenRow) BY <1>6, <2>1
    <2>3. ss[k] \in Seq(ScreenRow) BY <1>2, <2>1, SeqElement
    <2>4. Len(f[k - 1] \o ss[k]) = Len(f[k - 1]) + Len(ss[k]) BY <2>2, <2>3, Concatenation
    <2> QED BY <1>6, <2>4
<1> DEFINE P == {k \in 0 .. Len(ss) : k > 0 => Len(f[k]) > 0}
<1>9. \A k \in Nat : k < Len(ss) /\ k \in P => k + 1 \in P
    <2> SUFFICES ASSUME NEW k \in Nat, k < Len(ss), k \in P PROVE k + 1 \in P
        OBVIOUS
    <2>1. k \in 0 .. Len(ss) /\ k + 1 \in 1 .. Len(ss) /\ (k + 1) - 1 = k BY <1>7
    <2>2. f[k] \in Seq(ScreenRow) /\ ss[k + 1] \in Seq(ScreenRow)
        <3>1. k + 1 \in DOMAIN ss BY <1>2, <2>1
        <3>2. ss[k + 1] \in Seq(ScreenRow) BY <1>2, <3>1, SeqElement
        <3> QED BY <1>6, <2>1, <3>2
    <2>3. Len(f[k]) \in Nat /\ Len(ss[k + 1]) \in Nat BY <2>2
    <2>4. Len(f[k + 1]) = Len(f[k]) + Len(ss[k + 1]) BY <1>8, <2>1
    <2>5. CASE k = 0 BY <1>5, <2>1, <2>3, <2>4, <2>5
    <2>6. CASE k # 0
        <3>1. Len(f[k]) > 0 BY <2>6
        <3> QED BY <2>1, <2>3, <2>4, <3>1
    <2> QED BY <2>5, <2>6
<1>10. Len(ss) \in P
    <2>1. 0 \in P BY <1>7
    <2> HIDE DEF P
    <2>2. \A k \in 0 .. Len(ss) : k \in P BY <1>7, <1>9, <2>1, InductionUpTo
    <2> QED BY <1>7, <2>2
<1>11. Rows \in Seq(ScreenRow) BY <1>3, <1>6, <1>7
<1>12. Len(Rows) > 0 BY <1>3, <1>6, <1>7, <1>10
<1> QED BY <1>11, <1>12

\* The outputs listed are finitely many, and worth an amount.
LEMMA ScreenWorthType ==
    ASSUME sources \in Scans, NEW S \in SUBSET ToSet(Listed)
    PROVE  Worth(S) \in Nat
<1>1. Listed \in Seq(ScannedOutput) BY ListedType
<1>2. IsFiniteSet(ToSet(Listed))
    <2>1. DOMAIN Listed = 1 .. Len(Listed) /\ Len(Listed) \in Nat BY <1>1
    <2>2. IsFiniteSet(DOMAIN Listed) BY <2>1, FS_Interval
    <2>3. Listed = [i \in DOMAIN Listed |-> Listed[i]] BY <1>1
    <2> QED BY <2>2, <2>3, FiniteImage DEF ToSet
<1>3. IsFiniteSet(S) BY <1>2, FS_Subset
<1>4. S \subseteq ScannedOutput BY <1>1 DEF ToSet
<1> DEFINE w == [o \in S |-> Amount(o)]
           iter == CHOOSE f : f = [s \in SUBSET S |-> IF s = {} THEN 0
              ELSE Amount(CHOOSE x \in s : TRUE) + f[s \ {CHOOSE x \in s : TRUE}]]
<1>5. w \in [S -> Nat]
    <2>1. \A o \in S : Amount(o) \in Nat BY <1>4, ScannedOutputType
    <2> QED BY <2>1
<1>6. \A f : Sums(f, w, S) <=> f = [s \in SUBSET S |-> IF s = {} THEN 0
              ELSE Amount(CHOOSE x \in s : TRUE) + f[s \ {CHOOSE x \in s : TRUE}]]
    <2>1. \A s \in SUBSET S : s # {} =>
              w[CHOOSE x \in s : TRUE] = Amount(CHOOSE x \in s : TRUE)
        OBVIOUS
    <2> HIDE DEF w
    <2> QED BY <2>1 DEF Sums
<1>7. Worth(S) = iter[S] BY DEF Worth, FoldSet, MapThenFoldSet
<1> HIDE DEF w
<1>8. Sums(iter, w, S)
    <2>1. \E f : Sums(f, w, S) BY <1>3, <1>5, SumExists
    <2> QED BY <1>6, <2>1
<1> HIDE DEF iter
<1> QED BY <1>3, <1>5, <1>7, <1>8, SumType

\* What is ticked by hand or by default are markers.
LEMMA MarkersType ==
    ASSUME sources \in Scans, NEW S \in SUBSET ToSet(Listed)
    PROVE  Markers(S) \subseteq Nat \X Nat
<1>1. S \subseteq ScannedOutput BY ListedType DEF ToSet
<1>2. \A o \in S : Marker(o) \in Nat \X Nat BY <1>1, ScannedOutputType
<1> HIDE DEF Marker
<1> QED BY <1>2 DEF Markers

\* There are enough outputs to begin with, since the target was compared with all
\* of them before the screen opened.
LEMMA DefaultType ==
    ASSUME sources \in Scans, target \in Targets,
           target # SendAll => target <= Worth(ToSet(Listed))
    PROVE  DefaultSelection \subseteq Nat \X Nat
<1>1. Listed \in Seq(ScannedOutput) BY ListedType
<1>2. DOMAIN Listed = 1 .. Len(Listed) /\ Len(Listed) \in Nat BY <1>1
<1>3. {Listed[i] : i \in 1 .. Len(Listed)} = ToSet(Listed) BY <1>2 DEF ToSet
<1>4. Greedy(Len(Listed))
    <2>1. CASE target = SendAll BY <2>1 DEF Greedy
    <2>2. CASE target # SendAll
        <3>1. target \in Nat BY <2>2, CallAssumption
        <3>2. Worth(ToSet(Listed)) \in Nat BY ScreenWorthType
        <3>3. Worth(ToSet(Listed)) >= target BY <2>2, <3>1, <3>2
        <3> QED BY <1>3, <2>2, <3>3 DEF Greedy
    <2> QED BY <2>1, <2>2
<1> DEFINE G == {n \in 0 .. Len(Listed) : Greedy(n)}
<1>5. PICK n \in G : \A k \in G : n <= k
    <2>1. G \in SUBSET Nat /\ Len(Listed) \in G BY <1>2, <1>4
    <2> HIDE DEF G
    <2> QED BY <2>1, LeastNatural
<1>6. \A k \in 0 .. (n - 1) : ~Greedy(k)
    <2> SUFFICES ASSUME NEW k \in 0 .. (n - 1), Greedy(k) PROVE FALSE OBVIOUS
    <2>1. n \in 0 .. Len(Listed) OBVIOUS
    <2>2. k \in 0 .. Len(Listed) /\ k < n BY <1>2, <2>1
    <2>3. k \in G BY <2>2
    <2>4. n <= k BY <1>5, <2>3
    <2> QED BY <2>1, <2>2, <2>4
<1> DEFINE c == CHOOSE m \in 0 .. Len(Listed) : Greedy(m) /\ \A k \in 0 .. (m - 1) : ~Greedy(k)
<1>7. c \in 0 .. Len(Listed)
    <2>1. n \in 0 .. Len(Listed) /\ Greedy(n) OBVIOUS
    <2> HIDE DEF G
    <2> QED BY <1>6, <2>1
<1>8. DefaultSelection = Markers({Listed[i] : i \in 1 .. c}) BY DEF DefaultSelection
<1> HIDE DEF c
<1>9. {Listed[i] : i \in 1 .. c} \subseteq ToSet(Listed)
    <2>1. \A i \in 1 .. c : i \in DOMAIN Listed BY <1>2, <1>7
    <2> QED BY <2>1 DEF ToSet
<1> QED BY <1>8, <1>9, MarkersType

\* The total is an amount whatever is ticked.
LEMMA TotalType ==
    ASSUME sources \in Scans, NEW sel PROVE ComputeTotal(sel) \in Nat
<1>1. Ticked(sel) \subseteq ToSet(Listed) BY DEF Ticked
<1> QED BY <1>1, ScreenWorthType DEF ComputeTotal

\* The screen opens on its first row.
LEMMA InitScreenType == ScreenInit => ScreenTypeOK
<1> SUFFICES ASSUME ScreenInit PROVE ScreenTypeOK OBVIOUS
<1>1. /\ sources \in Scans /\ target \in Targets /\ cli_fee \in Fees
      /\ mode = "open" /\ grouped = <<>> /\ cursor = 1
      /\ total = ComputeTotal(selected) /\ selected = DefaultSelection
      /\ target # SendAll => target <= Worth(ToSet(Listed))
    BY DEF ScreenInit
<1>2. selected \subseteq Nat \X Nat BY <1>1, DefaultType
<1>3. total \in Nat BY <1>1, TotalType
<1>4. cursor \in DOMAIN Rows BY <1>1, RowsType
<1>5. \A s \in DOMAIN grouped : grouped[s] \subseteq ToSet(Listed) BY <1>1
<1> QED BY <1>1, <1>2, <1>3, <1>4, <1>5 DEF ScreenTypeOK

\* Every key leaves the screen in order.
LEMMA StepScreenType == ScreenTypeOK /\ [ScreenNext]_screen => ScreenTypeOK'
<1> SUFFICES ASSUME ScreenTypeOK, [ScreenNext]_screen PROVE ScreenTypeOK' OBVIOUS
<1>1. UNCHANGED asked
    BY DEF ScreenNext, screen, asked, ToggleOutput, ToggleGroup, SelectAll, SelectNone, Move,
           Accept, Cancel
<1>2. sources \in Scans /\ UNCHANGED sources BY <1>1 DEF asked, ScreenTypeOK
<1>3. /\ Rows' = Rows /\ Listed' = Listed /\ ToSet(Listed)' = ToSet(Listed)
    BY <1>2, SameListing DEF ToSet
<1>4. ASSUME NEW sel \in SUBSET (Nat \X Nat), Select(sel), UNCHANGED <<asked, cursor, mode, grouped>>
      PROVE  ScreenTypeOK'
    <2>1. total' \in Nat BY <1>2, <1>4, TotalType DEF Select
    <2>2. selected' \subseteq Nat \X Nat BY <1>4 DEF Select
    <2> QED BY <1>3, <1>4, <2>1, <2>2 DEF ScreenTypeOK, asked
<1>5. CASE ToggleOutput
    <2>1. Rows[cursor] \in ScreenRow /\ Rows[cursor][2] # 0
        BY <1>2, <1>5, RowsType, SeqElement DEF ScreenTypeOK, ToggleOutput
    <2>2. Rows[cursor] \in ScannedOutput BY <2>1 DEF ScreenRow, ScannedOutput
    <2>3. Marker(Rows[cursor]) \in Nat \X Nat BY <1>2, <2>2, ScannedOutputType
    <2> DEFINE row == Rows[cursor]
               sel == IF Marker(row) \in selected THEN selected \ {Marker(row)}
                      ELSE selected \cup {Marker(row)}
    <2>4. Select(sel) /\ UNCHANGED <<asked, cursor, mode, grouped>>
        BY <1>5 DEF ToggleOutput
    <2>5. sel \in SUBSET (Nat \X Nat)
        <3> HIDE DEF row
        <3>1. Marker(row) \in Nat \X Nat BY <2>3 DEF row
        <3> HIDE DEF Marker
        <3> QED BY <3>1 DEF ScreenTypeOK
    <2> HIDE DEF sel
    <2> QED BY <1>4, <2>4, <2>5
<1>6. CASE ToggleGroup
    <2> DEFINE row == Rows[cursor]
               group == Markers({o \in ToSet(Listed) :
                                   sources[o[1]].nonce = sources[row[1]].nonce})
               sel == IF group \subseteq selected THEN selected \ group
                      ELSE selected \cup group
    <2>1. Select(sel) /\ UNCHANGED <<asked, cursor, mode, grouped>>
        BY <1>6 DEF ToggleGroup
    <2>2. group \subseteq Nat \X Nat BY <1>2, MarkersType
    <2> HIDE DEF group
    <2>3. sel \in SUBSET (Nat \X Nat) BY <2>2 DEF ScreenTypeOK
    <2> HIDE DEF sel
    <2> QED BY <1>4, <2>1, <2>3
<1>7. CASE SelectAll
    <2>1. Markers(ToSet(Listed)) \subseteq Nat \X Nat BY <1>2, MarkersType
    <2>2. selected \cup Markers(ToSet(Listed)) \in SUBSET (Nat \X Nat)
        BY <2>1 DEF ScreenTypeOK
    <2> QED BY <1>4, <1>7, <2>2 DEF SelectAll
<1>8. CASE SelectNone BY <1>3, <1>8 DEF SelectNone, ScreenTypeOK, asked
<1>9. CASE Move
    <2>1. PICK direction \in {-1, 1} : cursor' = Step(direction) BY <1>9 DEF Move
    <2>2. cursor' \in DOMAIN Rows BY <2>1 DEF Step, ScreenTypeOK
    <2> QED BY <1>3, <1>9, <2>2 DEF Move, ScreenTypeOK, asked
<1>10. CASE Accept
    <2>1. \A s \in DOMAIN grouped' : grouped'[s] \subseteq ToSet(Listed)
        BY <1>10 DEF Accept, Regroup, Ticked
    <2> QED BY <1>3, <1>10, <2>1 DEF Accept, ScreenTypeOK, asked
<1>11. CASE Cancel BY <1>3, <1>11 DEF Cancel, ScreenTypeOK, asked
<1>12. CASE UNCHANGED screen BY <1>3, <1>12 DEF screen, ScreenTypeOK, asked
<1> QED BY <1>5, <1>6, <1>7, <1>8, <1>9, <1>10, <1>11, <1>12 DEF ScreenNext

\* The screen never loses its place: the cursor stands on a row, the figure is an
\* amount, and what it hands over was listed by the scan.
THEOREM ScreenTypeCorrect == ScreenSpec => []ScreenTypeOK
BY InitScreenType, StepScreenType, PTL DEF ScreenSpec

----------------------------------------------------------------------------
(* Failover *)

NetTyped ==
    /\ provider \in 0..Len(Kind) /\ preferred \in 0..Len(Kind)
    /\ pos \in Nat /\ pos < Len(WalkOrder)
    /\ attempt \in Nat /\ attempt <= Retries
    /\ slept \in Nat
    /\ trail \in Seq(Backends)
    /\ refusals \in [Backends \X BOOLEAN -> Nat]
    /\ mempool \in BOOLEAN

Told ==
    /\ calls \in 0..MaxCalls /\ method \in Ops \cup {"none"}
    /\ page \in {"none", "data", "junk"}
    /\ outcome \in {"running", "answered", "raised"} /\ answer \in {"data", "empty"}

\* Neither the request under way nor any that may follow in this call.
Ahead(n, t) == n > pos + 1 \/ (n = pos + 1 /\ (tip => t))

Fresh ==
    outcome = "running" =>
        \A n \in 1..Len(WalkOrder), t \in BOOLEAN :
            Ahead(n, t) => refusals[<<WalkOrder[n], t>>] = 0

\* The first n backends of the walk have failed, and no other.
Left(n) == Len(trail) = n /\ \A k \in 1..n : trail[k] = WalkOrder[k]

Behind ==
    /\ outcome = "running" => Left(pos)
    /\ outcome = "raised" => Left(Len(WalkOrder))

IInv == NetTyped /\ Told /\ Fresh /\ Behind /\ RefusedOnce /\ WaitBounded /\ BroadcastHappened

----------------------------------------------------------------------------
\* Counting on from a of 0..L-1 by less than L wraps around at most once.
LEMMA WrapOnce ==
    ASSUME NEW L \in Nat \ {0}, NEW a \in 0..(L - 1), NEW k \in 0..(L - 1)
    PROVE  (a + k) % L = IF a + k < L THEN a + k ELSE a + k - L
<1>1. CASE a + k < L BY <1>1, SMT
<1>2. CASE a + k >= L BY <1>2, SMT
<1> QED BY <1>1, <1>2

\* The number of backends, and their indices.
LEMMA KindType == Len(Kind) \in Nat \ {0} /\ Backends = 1..Len(Kind)
BY KindAssumption DEF Backends

\* Where the walk of "auto" begins, counted from 0.
Start == IF preferred = 0 THEN 0 ELSE preferred - 1

\* The walk of "auto" in closed form.
LEMMA WalkAt ==
    ASSUME provider = 0, preferred \in 0..Len(Kind)
    PROVE  /\ Start \in 0..(Len(Kind) - 1)
           /\ WalkOrder \in Seq(Backends) /\ Len(WalkOrder) = Len(Kind)
           /\ \A n \in 1..Len(Kind) :
                WalkOrder[n] = IF Start + n <= Len(Kind) THEN Start + n
                               ELSE Start + n - Len(Kind)
<1>1. Start \in 0..(Len(Kind) - 1) BY KindType DEF Start
<1>2. WalkOrder = [n \in 1..Len(Kind) |-> ((Start + n - 1) % Len(Kind)) + 1]
    BY DEF WalkOrder, Start
<1>3. ASSUME NEW n \in 1..Len(Kind)
      PROVE  /\ WalkOrder[n] = IF Start + n <= Len(Kind) THEN Start + n
                               ELSE Start + n - Len(Kind)
             /\ WalkOrder[n] \in Backends
    <2>1. n - 1 \in 0..(Len(Kind) - 1) BY KindType
    <2>2. (Start + (n - 1)) % Len(Kind) =
            IF Start + (n - 1) < Len(Kind) THEN Start + (n - 1)
            ELSE Start + (n - 1) - Len(Kind)
        BY <1>1, <2>1, KindType, WrapOnce
    <2>3. Start + n - 1 = Start + (n - 1) BY <1>1, <2>1, KindType
    <2>4. WalkOrder[n] = ((Start + (n - 1)) % Len(Kind)) + 1 BY <1>2, <2>3
    <2> QED BY <1>1, <2>1, <2>2, <2>4, KindType
<1> QED BY <1>1, <1>2, <1>3, KindType

\* Every walk is a sequence of backends without repetitions; that of "auto"
\* has every backend in it.
LEMMA WalkIsOrder ==
    ASSUME provider \in 0..Len(Kind), preferred \in 0..Len(Kind)
    PROVE  /\ WalkOrder \in Seq(Backends)
           /\ Len(WalkOrder) = IF provider = 0 THEN Len(Kind) ELSE 1
           /\ \A m, n \in 1..Len(WalkOrder) : WalkOrder[m] = WalkOrder[n] => m = n
           /\ provider = 0 =>
                \A b \in Backends : \E n \in 1..Len(Kind) : WalkOrder[n] = b
<1>1. CASE provider = 0
    <2> DEFINE L == Len(Kind)
    <2>1. /\ L \in Nat \ {0} /\ Backends = 1..L /\ Start \in 0..(L - 1)
          /\ Len(WalkOrder) = L
        BY <1>1, WalkAt, KindType
    <2>2. \A n \in 1..L :
             WalkOrder[n] = IF Start + n <= L THEN Start + n ELSE Start + n - L
        BY <1>1, WalkAt
    <2> HIDE DEF L
    <2>3. ASSUME NEW m \in 1..L, NEW n \in 1..L, WalkOrder[m] = WalkOrder[n]
          PROVE  m = n
        BY <2>1, <2>2, <2>3
    <2>4. ASSUME NEW b \in Backends
          PROVE  \E n \in 1..L : WalkOrder[n] = b
        <3>1. CASE b > Start
            <4>1. b - Start \in 1..L /\ Start + (b - Start) = b /\ b <= L
                BY <2>1, <3>1
            <4> QED BY <2>2, <4>1
        <3>2. CASE b <= Start
            <4> DEFINE n == b + L - Start
            <4>1. n \in 1..L /\ Start + n = b + L BY <2>1, <3>2
            <4>2. WalkOrder[n] = b BY <2>1, <2>2, <4>1
            <4> QED BY <4>1, <4>2
        <3> QED BY <2>1, <3>1, <3>2
    <2> QED BY <1>1, <2>1, <2>3, <2>4, WalkAt DEF L
<1>2. CASE provider # 0
    <2>1. WalkOrder = <<provider>> BY <1>2 DEF WalkOrder
    <2> QED BY <1>2, <2>1, KindType
<1> QED BY <1>1, <1>2

LEMMA WalkType ==
    ASSUME provider \in 0..Len(Kind), preferred \in 0..Len(Kind)
    PROVE  WalkOrder \in Seq(Backends) /\ Len(WalkOrder) \in Nat \ {0}
<1>1. /\ WalkOrder \in Seq(Backends)
      /\ Len(WalkOrder) = IF provider = 0 THEN Len(Kind) ELSE 1
    BY WalkIsOrder
<1> QED BY <1>1, KindType

\* The recursive function Doubled.
Doubles(f) == f = [n \in 0..Retries |-> IF n = 0 THEN BaseDelay ELSE 2 * f[n - 1]]

\* Such a delay there is,
LEMMA DoublesExists == \E f : Doubles(f)
<1> DEFINE Upto(k, f) == \A i \in 0..k : f[i] = IF i = 0 THEN BaseDelay ELSE 2 * f[i - 1]
           P == {k \in Nat : \E f : Upto(k, f)}
<1>1. 0 \in P
    <2> DEFINE f == [i \in {0} |-> BaseDelay]
    <2>1. Upto(0, f) OBVIOUS
    <2> QED BY <2>1
<1>2. ASSUME NEW k \in Nat, k < Retries, k \in P
      PROVE  k + 1 \in P
    <2>1. PICK f : Upto(k, f) BY <1>2
    <2> DEFINE g == [i \in 0..(k + 1) |-> IF i <= k THEN f[i] ELSE 2 * f[k]]
    <2>2. ASSUME NEW i \in 0..(k + 1)
          PROVE  g[i] = IF i = 0 THEN BaseDelay ELSE 2 * g[i - 1]
        <3>1. CASE i <= k
            <4>1. g[i] = f[i] /\ (i # 0 => g[i - 1] = f[i - 1]) BY <3>1
            <4>2. f[i] = IF i = 0 THEN BaseDelay ELSE 2 * f[i - 1] BY <2>1, <3>1
            <4> HIDE DEF g
            <4> QED BY <4>1, <4>2
        <3>2. CASE i = k + 1
            <4>1. g[i] = 2 * f[k] /\ i # 0 BY <3>2
            <4>2. g[k] = f[k] /\ i - 1 = k BY <3>2
            <4> HIDE DEF g
            <4> QED BY <4>1, <4>2
        <3> QED BY <3>1, <3>2
    <2>3. Upto(k + 1, g) BY <2>2
    <2> HIDE DEF Upto, g
    <2> QED BY <2>3
<1> HIDE DEF P
<1>3. \A k \in 0..Retries : k \in P BY <1>1, <1>2, InductionUpTo, LimitsAssumption
<1>4. PICK f : Upto(Retries, f) BY <1>3, LimitsAssumption DEF P
<1> DEFINE h == [n \in 0..Retries |-> f[n]]
<1>5. ASSUME NEW n \in 0..Retries
      PROVE  h[n] = IF n = 0 THEN BaseDelay ELSE 2 * h[n - 1]
    <2>1. h[n] = f[n] /\ (n # 0 => h[n - 1] = f[n - 1]) BY LimitsAssumption
    <2>2. f[n] = IF n = 0 THEN BaseDelay ELSE 2 * f[n - 1] BY <1>4
    <2> HIDE DEF h
    <2> QED BY <2>1, <2>2
<1>6. h = [n \in 0..Retries |-> h[n]] OBVIOUS
<1>7. Doubles(h)
    <2> HIDE DEF h
    <2> QED BY <1>5, <1>6 DEF Doubles
<1> QED BY <1>7

\* and it is a number.
LEMMA DoubledType ==
    ASSUME NEW n \in Nat, n <= Retries
    PROVE  Doubled[n] \in Nat
<1> DEFINE P == {k \in Nat : Doubled[k] \in Nat}
<1>1. Doubles(Doubled) BY DoublesExists DEF Doubled, Doubles
<1>2. \A k \in 0..Retries : Doubled[k] = IF k = 0 THEN BaseDelay ELSE 2 * Doubled[k - 1]
    BY <1>1 DEF Doubles
<1>3. 0 \in P BY <1>2, LimitsAssumption
<1>4. ASSUME NEW k \in Nat, k < Retries, k \in P
      PROVE  k + 1 \in P
    <2>1. k + 1 \in 0..Retries /\ k + 1 # 0 /\ (k + 1) - 1 = k BY <1>4, LimitsAssumption
    <2>2. Doubled[k + 1] = 2 * Doubled[k] BY <1>2, <2>1
    <2> QED BY <1>4, <2>2
<1> HIDE DEF P
<1>5. \A k \in 0..Retries : k \in P BY <1>3, <1>4, InductionUpTo, LimitsAssumption
<1> QED BY <1>5, LimitsAssumption DEF P

\* No pause is longer than the longest Retry-After that is honoured.
LEMMA DelayBound ==
    ASSUME attempt \in Nat, attempt <= Retries, NEW response, NEW header \in RetryAfters
    PROVE  Delay(response, header) \in Nat /\ Delay(response, header) <= RetryAfterMax
<1>1. Backoff(attempt) \in Nat /\ Backoff(attempt) <= MaxDelay
    BY DoubledType, LimitsAssumption DEF Backoff
<1> QED BY <1>1, LimitsAssumption DEF Delay

\* A broadcast is accepted once and for all, and read as such only then.
LEMMA AcceptedStays ==
    ASSUME mempool \in BOOLEAN, NEW response, NEW body, Exchanged(response, body)
    PROVE  /\ mempool' \in BOOLEAN /\ (mempool => mempool')
           /\ method = "send_tx" /\ Reading(Kind[Current], response, body) # "error"
                => mempool'
<1>1. mempool' \in BOOLEAN /\ (mempool => mempool') BY DEF Exchanged
<1>2. ASSUME method = "send_tx", Reading(Kind[Current], response, body) # "error"
      PROVE  mempool'
    <2>1. response = "ok" BY <1>2 DEF Reading
    <2>2. method = "send_tx" /\ response = "ok" => mempool' BY DEF Exchanged
    <2> QED BY <1>2, <2>1, <2>2
<1> QED BY <1>1, <1>2

----------------------------------------------------------------------------
LEMMA InitIInv == NetInit => IInv
<1> SUFFICES ASSUME NetInit PROVE IInv OBVIOUS
<1>1. provider \in 0..Len(Kind) /\ preferred \in 0..Len(Kind)
    BY KindType DEF NetInit
<1>2. pos \in Nat /\ pos < Len(WalkOrder)
    BY <1>1, WalkType DEF NetInit
<1>3. NetTyped
    <2>1. trail \in Seq(Backends) /\ refusals \in [Backends \X BOOLEAN -> Nat] BY DEF NetInit
    <2>2. mempool \in BOOLEAN BY DEF NetInit
    <2>3. attempt = 0 /\ slept = 0 BY DEF NetInit
    <2> QED BY <1>1, <1>2, <2>1, <2>2, <2>3, LimitsAssumption DEF NetTyped
<1>4. slept <= attempt * RetryAfterMax BY LimitsAssumption DEF NetInit
<1>5. Told
    <2>1. 0 \in 0..MaxCalls BY LimitsAssumption
    <2> QED BY <2>1 DEF NetInit, Told
<1> QED BY <1>3, <1>4, <1>5 DEF NetInit, IInv, Fresh, Behind, RefusedOnce, WaitBounded,
                          BroadcastHappened

\* A call begins with nobody asked.
LEMMA CallMethodIInv == IInv /\ CallMethod => IInv'
<1> SUFFICES ASSUME IInv, CallMethod PROVE IInv' OBVIOUS
<1>1. provider \in 0..Len(Kind) /\ preferred \in 0..Len(Kind)
    BY DEF IInv, NetTyped
<1>2. WalkOrder' = WalkOrder BY DEF CallMethod, WalkOrder
<1>3. WalkOrder \in Seq(Backends) /\ Len(WalkOrder) \in Nat \ {0}
    BY <1>1, WalkType
<1>4. NetTyped' /\ Told'
    <2>1. /\ attempt' = 0 /\ slept' = 0 /\ pos' = 0 /\ trail' = <<>>
          /\ refusals' = [request \in Backends \X BOOLEAN |-> 0] /\ mempool' = mempool
          /\ provider' = provider /\ preferred' = preferred
        BY DEF CallMethod
    <2>2. refusals' \in [Backends \X BOOLEAN -> Nat] /\ trail' \in Seq(Backends) BY <2>1
    <2>3. NetTyped' BY <1>1, <1>2, <1>3, <2>1, <2>2, LimitsAssumption DEF IInv, NetTyped
    <2>4. calls' \in 0..MaxCalls
        <3>1. MaxCalls \in Nat BY LimitsAssumption
        <3> QED BY <3>1 DEF IInv, Told, CallMethod
    <2>5. method' \in Ops /\ page' = "none" /\ outcome' = "running" /\ answer' = "data"
        BY DEF CallMethod
    <2>6. Told' BY <2>4, <2>5 DEF Told
    <2> QED BY <2>3, <2>6
<1>5. \A n \in 1..Len(WalkOrder) : WalkOrder[n] \in Backends BY <1>3
<1>6. Fresh' BY <1>2, <1>5 DEF Fresh, CallMethod
<1>7. Behind' BY DEF Behind, Left, CallMethod
<1>8. RefusedOnce' BY DEF RefusedOnce, CallMethod
<1>9. WaitBounded' BY LimitsAssumption DEF WaitBounded, CallMethod
<1>10. BroadcastHappened' BY DEF BroadcastHappened, CallMethod
<1> QED BY <1>4, <1>6, <1>7, <1>8, <1>9, <1>10 DEF IInv

\* What an exchange does to the refusals: of the requests from the present one
\* on only the present one may have been refused, and once.
LEMMA Refusals ==
    ASSUME IInv, outcome = "running", NEW response, NEW body, Exchanged(response, body)
    PROVE  /\ refusals' \in [Backends \X BOOLEAN -> Nat]
           /\ \A b \in Backends, t \in BOOLEAN : refusals'[<<b, t>>] <= 1
           /\ \A n \in 1..Len(WalkOrder), t \in BOOLEAN :
                n > pos + 1 \/ (n = pos + 1 /\ ~tip /\ t) => refusals'[<<WalkOrder[n], t>>] = 0
           /\ response # "refused" => refusals' = refusals
           /\ Current \in Backends
<1>1. /\ WalkOrder \in Seq(Backends) /\ Len(WalkOrder) \in Nat \ {0}
      /\ \A m, n \in 1..Len(WalkOrder) : WalkOrder[m] = WalkOrder[n] => m = n
    BY WalkIsOrder, WalkType DEF IInv, NetTyped
<1>2. pos \in Nat /\ pos + 1 \in 1..Len(WalkOrder) BY <1>1 DEF IInv, NetTyped
<1>3. Current \in Backends /\ Current = WalkOrder[pos + 1]
    <2>1. \A n \in 1..Len(WalkOrder) : WalkOrder[n] \in Backends BY <1>1
    <2> QED BY <1>2, <2>1 DEF Current
<1>4. tip \in BOOLEAN BY DEF tip
<1>5. /\ refusals \in [Backends \X BOOLEAN -> Nat]
      /\ \A b \in Backends, t \in BOOLEAN : refusals[<<b, t>>] <= 1
      /\ \A n \in 1..Len(WalkOrder), t \in BOOLEAN :
            Ahead(n, t) => refusals[<<WalkOrder[n], t>>] = 0
    BY DEF IInv, NetTyped, RefusedOnce, Fresh
<1>6. refusals[<<Current, tip>>] = 0 BY <1>2, <1>3, <1>4, <1>5 DEF Ahead
<1>7. \A n \in 1..Len(WalkOrder), t \in BOOLEAN :
        n > pos + 1 \/ (n = pos + 1 /\ ~tip /\ t)
          => /\ refusals[<<WalkOrder[n], t>>] = 0
             /\ <<WalkOrder[n], t>> # <<Current, tip>>
             /\ <<WalkOrder[n], t>> \in Backends \X BOOLEAN
    <2> SUFFICES ASSUME NEW n \in 1..Len(WalkOrder), NEW t \in BOOLEAN,
                        n > pos + 1 \/ (n = pos + 1 /\ ~tip /\ t)
                 PROVE  /\ refusals[<<WalkOrder[n], t>>] = 0
                        /\ <<WalkOrder[n], t>> # <<Current, tip>>
                        /\ <<WalkOrder[n], t>> \in Backends \X BOOLEAN
        OBVIOUS
    <2>1. refusals[<<WalkOrder[n], t>>] = 0 BY <1>5 DEF Ahead
    <2>2. WalkOrder[n] \in Backends BY <1>1
    <2>3. CASE n > pos + 1
        <3>1. WalkOrder[n] # Current BY <1>1, <1>2, <1>3, <2>3
        <3> QED BY <2>1, <2>2, <3>1
    <2>4. CASE n = pos + 1 /\ ~tip /\ t
        <3>1. t # tip BY <2>4
        <3> QED BY <2>1, <2>2, <3>1
    <2> QED BY <2>3, <2>4
<1>8. CASE response = "refused"
    <2>1. refusals' = [refusals EXCEPT ![<<Current, tip>>] = refusals[<<Current, tip>>] + 1]
        BY <1>8 DEF Exchanged
    <2>2. refusals' = [refusals EXCEPT ![<<Current, tip>>] = 1] BY <1>6, <2>1
    <2> HIDE DEF tip
    <2>3. refusals' \in [Backends \X BOOLEAN -> Nat] BY <1>5, <2>2
    <2>4. ASSUME NEW b \in Backends, NEW t \in BOOLEAN
          PROVE  refusals'[<<b, t>>] <= 1
        <3>1. <<b, t>> \in Backends \X BOOLEAN OBVIOUS
        <3>2. refusals'[<<b, t>>] = IF <<b, t>> = <<Current, tip>> THEN 1 ELSE refusals[<<b, t>>]
            BY <1>5, <2>2, <3>1
        <3>3. refusals[<<b, t>>] <= 1 BY <1>5
        <3> QED BY <3>2, <3>3
    <2>5. ASSUME NEW n \in 1..Len(WalkOrder), NEW t \in BOOLEAN,
                 n > pos + 1 \/ (n = pos + 1 /\ ~tip /\ t)
          PROVE  refusals'[<<WalkOrder[n], t>>] = 0
        BY <1>5, <1>7, <2>2, <2>5
    <2> QED BY <1>3, <1>8, <2>3, <2>4, <2>5
<1>9. CASE response # "refused"
    <2>1. refusals' = refusals BY <1>9 DEF Exchanged
    <2> QED BY <1>3, <1>5, <1>7, <2>1
<1> QED BY <1>8, <1>9

LEMMA RepeatIInv ==
    ASSUME IInv, outcome = "running", NEW response, NEW body,
           NEW header \in RetryAfters,
           Exchanged(response, body), Repeat(response, header)
    PROVE  IInv'
<1>1. response # "refused" BY DEF Repeat, Retryable
<1>2. refusals' = refusals BY <1>1, Refusals
<1>3. WalkOrder' = WalkOrder BY DEF Repeat, WalkOrder
<1>4. mempool' \in BOOLEAN /\ (mempool => mempool')
    BY AcceptedStays DEF IInv, NetTyped
<1>5. attempt \in Nat /\ slept \in Nat /\ slept <= attempt * RetryAfterMax
    BY DEF IInv, NetTyped, WaitBounded
<1>6. /\ Delay(response, header) \in Nat /\ Delay(response, header) <= RetryAfterMax
    BY <1>5, DelayBound DEF IInv, NetTyped
<1>7. attempt' = attempt + 1 /\ slept' = slept + Delay(response, header) BY DEF Repeat
<1>8. attempt' \in Nat /\ attempt' <= Retries /\ slept' \in Nat
    BY <1>5, <1>6, <1>7, LimitsAssumption DEF Repeat
<1>9. slept' <= attempt' * RetryAfterMax
    <2>1. (attempt + 1) * RetryAfterMax = attempt * RetryAfterMax + RetryAfterMax
        BY <1>5, LimitsAssumption
    <2>2. attempt * RetryAfterMax \in Int /\ RetryAfterMax \in Int
        BY <1>5, LimitsAssumption
    <2> QED BY <1>5, <1>6, <1>7, <2>1, <2>2
<1>10. NetTyped' /\ Told' BY <1>2, <1>3, <1>4, <1>8 DEF IInv, NetTyped, Told, Repeat
<1>11. Fresh' /\ Behind' /\ RefusedOnce'
    BY <1>2, <1>3 DEF IInv, Fresh, Ahead, tip, Behind, Left, RefusedOnce, Repeat
<1>12. WaitBounded' BY <1>9 DEF WaitBounded
<1>13. BroadcastHappened' BY DEF BroadcastHappened, Repeat
<1> QED BY <1>10, <1>11, <1>12, <1>13 DEF IInv

\* The tip may be asked for after a refusal; it has not been refused itself.
LEMMA AskTipIInv ==
    ASSUME IInv, outcome = "running", NEW response, NEW body,
           Exchanged(response, body), AskTip(response, body)
    PROVE  IInv'
<1>1. /\ refusals' \in [Backends \X BOOLEAN -> Nat]
      /\ \A b \in Backends, t \in BOOLEAN : refusals'[<<b, t>>] <= 1
      /\ \A n \in 1..Len(WalkOrder), t \in BOOLEAN :
           n > pos + 1 \/ (n = pos + 1 /\ ~tip /\ t) => refusals'[<<WalkOrder[n], t>>] = 0
    BY Refusals
<1>2. ~tip /\ page' \in {"data", "junk"} BY DEF AskTip, MayAskTip
<1>3. WalkOrder' = WalkOrder /\ pos' = pos BY DEF AskTip, WalkOrder
<1>4. mempool' \in BOOLEAN BY AcceptedStays DEF IInv, NetTyped
<1>5. NetTyped' /\ Told'
    <2>1. NetTyped' BY <1>1, <1>3, <1>4, LimitsAssumption DEF IInv, NetTyped, AskTip
    <2>2. Told' BY <1>2 DEF IInv, Told, AskTip
    <2> QED BY <2>1, <2>2
<1>6. Fresh' BY <1>1, <1>2, <1>3 DEF Fresh, Ahead, tip
<1>7. Behind' BY <1>3 DEF IInv, Behind, Left, AskTip
<1>8. RefusedOnce' BY <1>1 DEF RefusedOnce
<1>9. WaitBounded' BY LimitsAssumption DEF WaitBounded, AskTip
<1>10. BroadcastHappened' BY DEF BroadcastHappened, AskTip
<1> QED BY <1>5, <1>6, <1>7, <1>8, <1>9, <1>10 DEF IInv

\* The preferred provider may be another one now, the length of a walk is not.
LEMMA AnswerIInv ==
    ASSUME IInv, outcome = "running", NEW response, NEW body,
           Exchanged(response, body), Answer(response, body)
    PROVE  IInv'
<1>1. /\ refusals' \in [Backends \X BOOLEAN -> Nat] /\ Current \in Backends
      /\ \A b \in Backends, t \in BOOLEAN : refusals'[<<b, t>>] <= 1
    BY Refusals
<1>2. provider' = provider /\ preferred' \in 0..Len(Kind)
    BY <1>1, KindType DEF IInv, NetTyped, Answer
<1>3. Len(WalkOrder) = Len(WalkOrder')
    <2>1. Len(WalkOrder) = IF provider = 0 THEN Len(Kind) ELSE 1
        BY WalkIsOrder DEF IInv, NetTyped
    <2>2. CASE provider = 0
        <3>1. WalkOrder' = [n \in 1..Len(Kind) |->
                (((IF preferred' = 0 THEN 0 ELSE preferred' - 1) + n - 1) % Len(Kind)) + 1]
            BY <1>2, <2>2 DEF WalkOrder
        <3> QED BY <2>1, <2>2, <3>1, KindType
    <2>3. CASE provider # 0
        <3>1. WalkOrder' = <<provider>> BY <1>2, <2>3 DEF WalkOrder
        <3> QED BY <2>1, <2>3, <3>1
    <2> QED BY <2>2, <2>3
<1>4. /\ mempool' \in BOOLEAN
      /\ method = "send_tx" /\ Reading(Kind[Current], response, body) # "error"
           => mempool'
    BY AcceptedStays DEF IInv, NetTyped
<1>5. NetTyped' /\ Told'
    <2>1. answer' \in {"data", "empty"} BY DEF Answer
    <2>2. NetTyped' BY <1>1, <1>2, <1>3, <1>4 DEF IInv, NetTyped, Answer
    <2>3. Told' BY <2>1 DEF IInv, Told, Answer
    <2> QED BY <2>2, <2>3
<1>6. Fresh' /\ Behind' BY DEF Fresh, Behind, Answer
<1>7. RefusedOnce' BY <1>1 DEF RefusedOnce
<1>8. WaitBounded' BY DEF IInv, WaitBounded, Answer
<1>9. BroadcastHappened' BY <1>4 DEF BroadcastHappened, Answer
<1> QED BY <1>5, <1>6, <1>7, <1>8, <1>9 DEF IInv

\* The walk moves on by one backend, or has come to its end.
LEMMA FailIInv ==
    ASSUME IInv, outcome = "running", NEW response, NEW body,
           Exchanged(response, body), Fail(response, body)
    PROVE  IInv'
<1>1. /\ refusals' \in [Backends \X BOOLEAN -> Nat] /\ Current \in Backends
      /\ \A b \in Backends, t \in BOOLEAN : refusals'[<<b, t>>] <= 1
      /\ \A n \in 1..Len(WalkOrder), t \in BOOLEAN :
           n > pos + 1 => refusals'[<<WalkOrder[n], t>>] = 0
    BY Refusals
<1>2. WalkOrder' = WalkOrder BY DEF Fail, WalkOrder
<1>3. mempool' \in BOOLEAN BY AcceptedStays DEF IInv, NetTyped
<1>4. /\ trail \in Seq(Backends) /\ Len(trail) = pos
      /\ \A k \in 1..pos : trail[k] = WalkOrder[k]
      /\ pos \in Nat /\ pos < Len(WalkOrder)
    BY DEF IInv, NetTyped, Behind, Left
<1>5. trail' = Append(trail, Current) BY DEF Fail
<1>6. /\ trail' \in Seq(Backends) /\ Len(trail') = pos + 1
      /\ \A k \in 1..(pos + 1) : trail'[k] = WalkOrder[k]
    <2>1. Current = WalkOrder[pos + 1] BY DEF Current
    <2> QED BY <1>1, <1>4, <1>5, <2>1
<1>7. RefusedOnce' BY <1>1 DEF RefusedOnce
<1>8. BroadcastHappened' BY DEF BroadcastHappened, Fail, IInv
<1>9. Len(WalkOrder) \in Nat BY WalkType DEF IInv, NetTyped
<1>10. CASE pos + 1 < Len(WalkOrder)
    <2>1. /\ pos' = pos + 1 /\ attempt' = 0 /\ slept' = 0
          /\ outcome' = outcome /\ provider' = provider /\ preferred' = preferred
        BY <1>10 DEF Fail
    <2>2. NetTyped' /\ Told'
        <3>1. 0 <= Retries BY LimitsAssumption
        <3>2. NetTyped' BY <1>1, <1>2, <1>3, <1>4, <1>6, <1>10, <2>1, <3>1 DEF IInv, NetTyped
        <3>3. Told' BY <1>10 DEF IInv, Told, Fail
        <3> QED BY <3>2, <3>3
    <2>3. Fresh'
        <3>1. \A n \in 1..Len(WalkOrder), t \in BOOLEAN : Ahead(n, t)' => n > pos + 1
            BY <1>4, <2>1 DEF Ahead
        <3> QED BY <1>1, <1>2, <3>1 DEF Fresh
    <2>4. Behind' BY <1>2, <1>6, <2>1 DEF Behind, Left
    <2>5. WaitBounded' BY <2>1, LimitsAssumption DEF WaitBounded
    <2> QED BY <1>7, <1>8, <2>2, <2>3, <2>4, <2>5 DEF IInv
<1>11. CASE ~(pos + 1 < Len(WalkOrder))
    <2>1. /\ outcome' = "raised" /\ pos' = pos /\ attempt' = attempt /\ slept' = slept
          /\ provider' = provider /\ preferred' = preferred
        BY <1>11 DEF Fail
    <2>2. NetTyped' /\ Told'
        <3>1. NetTyped' BY <1>1, <1>2, <1>3, <1>6, <2>1 DEF IInv, NetTyped
        <3>2. Told' BY <1>11 DEF IInv, Told, Fail
        <3> QED BY <3>1, <3>2
    <2>3. Fresh' BY <2>1 DEF Fresh
    <2>4. Behind'
        <3>1. pos + 1 = Len(WalkOrder) BY <1>4, <1>9, <1>11
        <3> QED BY <1>2, <1>6, <2>1, <3>1 DEF Behind, Left
    <2>5. WaitBounded' BY <2>1 DEF IInv, WaitBounded
    <2> QED BY <1>7, <1>8, <2>2, <2>3, <2>4, <2>5 DEF IInv
<1> QED BY <1>10, <1>11

LEMMA StepIInv == IInv /\ [NetNext]_net => IInv'
<1> SUFFICES ASSUME IInv, [NetNext]_net PROVE IInv' OBVIOUS
<1>1. CASE CallMethod BY <1>1, CallMethodIInv
<1>2. CASE Exchange
    <2>1. PICK response \in Responses, body \in Bodies, header \in RetryAfters :
            /\ Exchanged(response, body)
            /\ \/ Repeat(response, header)
               \/ AskTip(response, body)
               \/ Answer(response, body)
               \/ Fail(response, body)
        BY <1>2 DEF Exchange
    <2>2. outcome = "running" BY <1>2 DEF Exchange
    <2>3. CASE Repeat(response, header) BY <2>1, <2>2, <2>3, RepeatIInv
    <2>4. CASE AskTip(response, body) BY <2>1, <2>2, <2>4, AskTipIInv
    <2>5. CASE Answer(response, body) BY <2>1, <2>2, <2>5, AnswerIInv
    <2>6. CASE Fail(response, body) BY <2>1, <2>2, <2>6, FailIInv
    <2> QED BY <2>1, <2>3, <2>4, <2>5, <2>6
<1>3. CASE UNCHANGED net
    <2>1. WalkOrder' = WalkOrder BY <1>3 DEF net, WalkOrder
    <2> QED BY <1>3, <2>1 DEF net, IInv, NetTyped, Told, Fresh, Ahead, tip, Behind, Left, RefusedOnce,
                             WaitBounded, BroadcastHappened
<1> QED BY <1>1, <1>2, <1>3 DEF NetNext

LEMMA Invariant == NetSpec => []IInv
BY InitIInv, StepIInv, PTL DEF NetSpec

----------------------------------------------------------------------------
\* A call keeps its place in the walk, its attempts and its times within their
\* bounds (net._request_with_retries, AutoBackend._run).
THEOREM NetTypeCorrect == NetSpec => []NetTypeOK
<1>1. ASSUME IInv PROVE NetTypeOK
    <2>1. NetTyped /\ Told BY <1>1 DEF IInv
    <2>2. pos \in 0..(Len(Kind) - 1)
        <3>1. Len(WalkOrder) = IF provider = 0 THEN Len(Kind) ELSE 1
            BY <2>1, WalkIsOrder DEF NetTyped
        <3> QED BY <2>1, <3>1, KindType DEF NetTyped
    <2>3. provider \in {0} \cup Backends /\ preferred \in {0} \cup Backends
        BY <2>1, KindType DEF NetTyped
    <2>4. attempt \in 0..Retries BY <2>1, LimitsAssumption DEF NetTyped
    <2> QED BY <2>1, <2>2, <2>3, <2>4 DEF NetTyped, Told, NetTypeOK
<1> QED BY <1>1, Invariant, PTL

\* A refusal is final: _request_with_retries raises on it at once and
\* AutoBackend._run does not come back to the backend in the same call.
THEOREM RefusedOnceHolds == NetSpec => []RefusedOnce
<1>1. IInv => RefusedOnce BY DEF IInv
<1> QED BY <1>1, Invariant, PTL

\* The pauses of _request_with_retries never add up to more than the sane
\* Retry-After for each repetition, whatever the servers ask for.
THEOREM WaitBoundedHolds == NetSpec => []WaitBounded
<1>1. IInv => WaitBounded BY DEF IInv
<1> QED BY <1>1, Invariant, PTL

\* No path through retries and failover lets send_tx return without the
\* network having the transaction.
THEOREM BroadcastHappenedHolds == NetSpec => []BroadcastHappened
<1>1. IInv => BroadcastHappened BY DEF IInv
<1> QED BY <1>1, Invariant, PTL

\* AutoBackend._run raises AllBackendsFailed after every registered backend
\* failed once, from wherever it began and around the end of the list.
THEOREM EveryBackendTriedHolds == NetSpec => []EveryBackendTried
<1>1. IInv => EveryBackendTried
    <2> SUFFICES ASSUME IInv, outcome = "raised"
                 PROVE  IF provider # 0 THEN trail = <<provider>>
                        ELSE /\ Len(trail) = Len(Kind)
                             /\ {trail[n] : n \in DOMAIN trail} = Backends
        BY DEF EveryBackendTried
    <2>1. /\ trail \in Seq(Backends) /\ Len(trail) = Len(WalkOrder)
          /\ \A k \in 1..Len(WalkOrder) : trail[k] = WalkOrder[k]
        BY DEF IInv, NetTyped, Behind, Left
    <2>2. CASE provider # 0
        <3>1. WalkOrder = <<provider>> BY <2>2 DEF WalkOrder
        <3> QED BY <2>1, <2>2, <3>1
    <2>3. CASE provider = 0
        <3>1. /\ Len(WalkOrder) = Len(Kind)
              /\ \A b \in Backends : \E n \in 1..Len(Kind) : WalkOrder[n] = b
            BY <2>3, WalkIsOrder DEF IInv, NetTyped
        <3>2. DOMAIN trail = 1..Len(Kind) BY <2>1, <3>1
        <3>3. \A n \in DOMAIN trail : trail[n] \in Backends BY <2>1
        <3>4. \A b \in Backends : \E n \in DOMAIN trail : trail[n] = b
            BY <2>1, <3>1, <3>2
        <3> QED BY <2>1, <2>3, <3>1, <3>3, <3>4
    <2> QED BY <2>2, <2>3
<1> QED BY <1>1, Invariant, PTL

----------------------------------------------------------------------------
(* A call ends *)

\* The HTTP requests a call may still make: at the backends ahead of the walk
\* two each, get_unspent and its tip, each repeated up to --retries times.
RequestsLeft ==
    (2 * (Len(WalkOrder) - pos) - (IF tip THEN 1 ELSE 0)) * (Retries + 1) - attempt

\* Going round, asking for the tip and moving on to the next backend each
\* leave fewer.
LEMMA ExchangeAdvances ==
    ASSUME IInv, IInv', Exchange, outcome' = "running"
    PROVE  RequestsLeft \in Nat /\ RequestsLeft' \in Nat /\ RequestsLeft' < RequestsLeft
<1>1. PICK response \in Responses, body \in Bodies, header \in RetryAfters :
        /\ Exchanged(response, body)
        /\ \/ Repeat(response, header)
           \/ AskTip(response, body)
           \/ Answer(response, body)
           \/ Fail(response, body)
    BY DEF Exchange
<1> DEFINE L == Len(WalkOrder)
           places == 2 * (L - pos) - (IF tip THEN 1 ELSE 0)
           R == Retries + 1
<1>2. /\ L \in Nat /\ pos \in Nat /\ pos < L /\ tip \in BOOLEAN
      /\ attempt \in Nat /\ attempt <= Retries /\ Retries \in Nat
    BY WalkType, LimitsAssumption DEF IInv, NetTyped, tip
<1>3. places \in Nat /\ places >= 1 /\ R \in Nat /\ R >= 1 BY <1>2
<1>4. ASSUME NEW p \in Nat, p >= 1, NEW a \in Nat, a <= Retries
      PROVE  p * R - a \in Nat
    <2>1. p * R = (p - 1) * R + R /\ (p - 1) * R \in Nat
        <3>1. (p - 1) * R \in Nat BY <1>3, <1>4
        <3> QED BY <1>3, <1>4, <3>1
    <2> QED BY <1>2, <1>4, <2>1
<1>5. ASSUME NEW p \in Nat, NEW q \in Nat, q < p
      PROVE  q * R - 0 < p * R - attempt
    <2>1. PICK d \in Nat : p = q + 1 + d
        <3>1. p - q - 1 \in Nat /\ p = q + 1 + (p - q - 1) BY <1>5
        <3> QED BY <3>1
    <2>2. p * R = q * R + R + d * R BY <1>3, <2>1
    <2>3. q * R \in Nat /\ d * R \in Nat BY <1>3, <2>1
    <2> QED BY <1>2, <2>2, <2>3
<1>6. RequestsLeft = places * R - attempt BY DEF RequestsLeft
<1>7. UNCHANGED <<provider, preferred>> /\ WalkOrder' = WalkOrder
    <2>1. ~Answer(response, body) BY DEF Answer
    <2>2. UNCHANGED <<provider, preferred>>
        BY <1>1, <2>1 DEF Repeat, AskTip, Fail
    <2> QED BY <2>2 DEF WalkOrder
<1>8. CASE Repeat(response, header)
    <2>1. RequestsLeft' = places * R - (attempt + 1)
        BY <1>7, <1>8 DEF Repeat, RequestsLeft, tip
    <2>2. attempt + 1 <= Retries BY <1>2, <1>8 DEF Repeat
    <2>3. places * R \in Nat BY <1>3
    <2>4. places * R - (attempt + 1) \in Nat
        <3>1. attempt + 1 \in Nat BY <1>2
        <3> HIDE DEF places, R
        <3> QED BY <1>3, <1>4, <2>2, <3>1
    <2>5. places * R - (attempt + 1) < places * R - attempt
        <3> HIDE DEF places, R
        <3> QED BY <1>2, <2>3
    <2>6. places * R - attempt \in Nat
        <3> HIDE DEF places, R
        <3> QED BY <1>2, <1>3, <1>4
    <2> HIDE DEF places, R
    <2> QED BY <1>6, <2>1, <2>4, <2>5, <2>6
<1>9. CASE AskTip(response, body)
    <2>1. ~tip /\ tip' BY <1>9 DEF AskTip, MayAskTip, tip
    <2>2. RequestsLeft' = (2 * (L - pos) - 1) * R - 0
        BY <1>7, <1>9, <2>1 DEF AskTip, RequestsLeft
    <2>3. places = 2 * (L - pos) BY <1>2, <2>1
    <2>4. 2 * (L - pos) - 1 \in Nat /\ 2 * (L - pos) - 1 >= 1 /\ 2 * (L - pos) - 1 < places
        BY <1>2, <2>3
    <2> HIDE DEF places, R, L
    <2> QED BY <1>2, <1>3, <1>4, <1>5, <1>6, <2>2, <2>4
<1>10. CASE Fail(response, body)
    <2>1. pos + 1 < L /\ pos' = pos + 1 /\ attempt' = 0 /\ tip' = FALSE
        BY <1>10 DEF Fail, tip
    <2>2. RequestsLeft' = (2 * (L - (pos + 1))) * R - 0
        BY <1>7, <2>1 DEF RequestsLeft
    <2>3. 2 * (L - (pos + 1)) \in Nat /\ 2 * (L - (pos + 1)) >= 1
          /\ 2 * (L - (pos + 1)) < places
        BY <1>2, <2>1
    <2> HIDE DEF places, R, L
    <2> QED BY <1>2, <1>3, <1>4, <1>5, <1>6, <2>2, <2>3
<1>11. CASE Answer(response, body) BY <1>11 DEF Answer
<1> QED BY <1>1, <1>8, <1>9, <1>10, <1>11

\* No sequence of answers keeps a call going: every HTTP request of
\* _request_with_retries and AutoBackend._run either ends the call or leaves
\* strictly fewer that may follow.
THEOREM CallAdvances ==
    NetSpec => [][Exchange => \/ outcome' # "running"
                              \/ RequestsLeft' \in Nat /\ RequestsLeft' < RequestsLeft]_net
<1>1. IInv /\ [NetNext]_net => IInv' BY StepIInv
<1>2. IInv /\ IInv' /\ [NetNext]_net
        => [Exchange => \/ outcome' # "running"
                        \/ RequestsLeft' \in Nat /\ RequestsLeft' < RequestsLeft]_net
    BY ExchangeAdvances
<1> QED BY <1>2, Invariant, PTL DEF NetSpec
=============================================================================
