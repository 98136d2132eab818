--------------------------- MODULE FeeLoopProofs ---------------------------
(***************************************************************************)
(* Proofs of the safety properties of FeeLoop, for every set of requests,  *)
(* every set of sizes and every relay floor.                               *)
(*                                                                         *)
(* RatePaid is not inductive: that the loop leaves with a paying candidate *)
(* needs what holds while it has none.  Until a candidate pays, every new  *)
(* size asks for more than the fee it was built with, so current_fee only  *)
(* grows and stays at or above the fee of each size seen; a repeated size  *)
(* is then paid by the candidate that repeats it.  No monotonicity of size *)
(* in fee is used.                                                         *)
(*                                                                         *)
(* The loop ends because every turn but the last brings a size that none   *)
(* before it had (OneBuildPerSize): LoopBounded counts the turns by the    *)
(* sizes a transaction can have, PairBounds when it can have two.          *)
(***************************************************************************)
EXTENDS FeeLoop, FiniteSetTheorems, TLAPS

RateMet(c) == c.fee >= FeeAt(c.size, req.feekb)

RateMetBuilt == \E i \in DOMAIN by_size : RateMet(by_size[i])

FeeBuilt(fee) == \E i \in DOMAIN by_size : by_size[i].fee = fee

Conserves(c) ==
    /\ c.amount + c.cashback + c.fee = req.in_amount
    /\ req.amount # Drain => c.amount = req.amount

IInv ==
    /\ TypeOK
    /\ \A i \in DOMAIN by_size : Conserves(by_size[i])
    /\ pc = "loop" => \A s \in seen_sizes :
            current_fee = FeeAt(s, req.feekb) \/ FeeBuilt(FeeAt(s, req.feekb))
    /\ pc = "loop" => RateMetBuilt
            \/ \A s \in seen_sizes : FeeAt(s, req.feekb) <= current_fee
    /\ pc = "pick" => RateMetBuilt
    /\ pc = "pick" => by_size # <<>> /\ CycleClosed
    /\ pc \in {"fixed", "loop", "pick"} => (pc = "fixed") = (req.fee # 0)
    /\ Conservation
    /\ RatePaid

----------------------------------------------------------------------------
(* Arithmetic and typing of the operators *)

\* A fee computed from a size and a rate is a number of satoshi.
LEMMA FeeAtType ==
    ASSUME NEW size \in Nat, NEW rate \in Nat
    PROVE  FeeAt(size, rate) \in Nat
<1>1. size * rate \in Nat OBVIOUS
<1>2. \A x \in Nat : x \div 1000 \in Nat OBVIOUS
<1> QED BY <1>1, <1>2 DEF FeeAt

\* A higher rate never asks for a lower fee: the rule that lets a rate at or
\* above the relay floor stand for both checks of the pick.
LEMMA FeeAtMonotone ==
    ASSUME NEW size \in Nat, NEW low \in Nat, NEW high \in Nat, low <= high
    PROVE  FeeAt(size, low) <= FeeAt(size, high)
<1>1. size * low \in Nat /\ size * high \in Nat OBVIOUS
<1>2. size * low <= size * high
  <2>1. PICK d \in Nat : high = low + d
    <3>1. high - low \in Nat /\ high = low + (high - low) OBVIOUS
    <3> QED BY <3>1
  <2>2. size * high = size * low + size * d BY <2>1
  <2>3. size * d \in Nat BY <2>1
  <2> QED BY <2>2, <2>3, <1>1
<1>3. \A x, y \in Nat : x <= y => x \div 1000 <= y \div 1000 OBVIOUS
<1> QED BY <1>1, <1>2, <1>3 DEF FeeAt

\* What make_vout checks is exactly what it needs: past the two ValueErrors
\* neither an amount nor a change is negative, and nothing is lost.
LEMMA MakeVoutConserves ==
    ASSUME TypeOK, NEW fee \in Nat, NEW size \in Nat, ~MakeVoutRaises(fee)
    PROVE  /\ MakeVout(fee, size) \in Candidate
           /\ Conserves(MakeVout(fee, size))
           /\ MakeVout(fee, size).fee = fee
           /\ MakeVout(fee, size).size = size
<1>1. req.in_amount \in Nat /\ req.amount \in Nat \cup {Drain}
  BY RequestsAssumption DEF TypeOK
<1>2. CASE req.amount = Drain
  BY <1>1, <1>2, DrainAssumption
  DEF MakeVoutRaises, MakeVout, OneOutput, Candidate, Conserves
<1>3. CASE req.amount # Drain
  BY <1>1, <1>3 DEF MakeVoutRaises, MakeVout, OneOutput, Candidate, Conserves
<1> QED BY <1>2, <1>3

\* A signed candidate has a size.
LEMMA VSizeType ==
    ASSUME TypeOK, NEW fee \in Nat
    PROVE  VSize(fee) \subseteq Nat
<1>1. TxSizes[NumOutputs(fee)] \subseteq Nat
  BY TxSizesAssumption DEF NumOutputs
<1>2. \A i \in DOMAIN by_size : by_size[i].size \in Nat
  <2>1. \A i \in DOMAIN by_size : by_size[i] \in Candidate BY DEF TypeOK
  <2> QED BY <2>1 DEF Candidate
<1> QED BY <1>1, <1>2 DEF VSize

\* Every request is typed as its record says.
LEMMA RequestType ==
    ASSUME TypeOK
    PROVE  req.fee \in Nat /\ req.feekb \in Nat /\ req.in_amount \in Nat
BY RequestsAssumption DEF TypeOK

----------------------------------------------------------------------------
LEMMA InitIInv == Init => IInv
<1> SUFFICES ASSUME Init PROVE IInv OBVIOUS
<1>1. TypeOK BY DEF Init, TypeOK, Candidate, NoResult
<1> QED BY <1>1
  DEF Init, IInv, CycleClosed, Conservation, RatePaid, RateMetBuilt

LEMMA BuildFixedIInv == IInv /\ BuildFixed => IInv'
<1> SUFFICES ASSUME IInv, BuildFixed PROVE IInv' OBVIOUS
<1>0. TypeOK /\ req.fee \in Nat BY RequestType DEF IInv
<1>1. PICK size \in VSize(req.fee) : result' = MakeVout(req.fee, size)
  BY DEF BuildFixed
<1>2. size \in Nat BY <1>0, <1>1, VSizeType
<1>3. result' \in Candidate /\ Conserves(result')
  BY <1>0, <1>1, <1>2, MakeVoutConserves DEF BuildFixed
<1>4. req.fee # 0 BY DEF IInv, BuildFixed
<1>5. UNCHANGED <<req, current_fee, by_size, seen_sizes>> /\ pc' = "done"
  BY DEF BuildFixed
<1>6. TypeOK' BY <1>0, <1>3, <1>5 DEF TypeOK
<1>7. Conservation' BY <1>3, <1>5 DEF Conservation, Conserves
<1>8. RatePaid' BY <1>4, <1>5 DEF RatePaid
<1>9. \A i \in DOMAIN by_size' : Conserves(by_size[i])'
  BY <1>5 DEF IInv, Conserves
<1> QED BY <1>5, <1>6, <1>7, <1>8, <1>9 DEF IInv

LEMMA IterateIInv == IInv /\ Iterate => IInv'
<1> SUFFICES ASSUME IInv, Iterate PROVE IInv' OBVIOUS
<1>0. TypeOK /\ req.feekb \in Nat /\ current_fee \in Nat /\ pc = "loop"
  BY RequestType DEF IInv, TypeOK, Iterate
<1>1. PICK size \in VSize(current_fee) :
        /\ by_size' = Append(by_size, MakeVout(current_fee, size))
        /\ IF size \in seen_sizes
           THEN pc' = "pick" /\ UNCHANGED <<current_fee, seen_sizes>>
           ELSE /\ seen_sizes' = seen_sizes \cup {size}
                /\ current_fee' = FeeAt(size, req.feekb)
                /\ pc' = pc
  BY DEF Iterate
<1> DEFINE new == MakeVout(current_fee, size)
           newfee == FeeAt(size, req.feekb)
           last == Len(by_size) + 1
<1>2. size \in Nat BY <1>0, <1>1, VSizeType
<1>3. /\ new \in Candidate /\ Conserves(new)
      /\ new.fee = current_fee /\ new.size = size
  BY <1>0, <1>2, MakeVoutConserves DEF Iterate
<1>4. newfee \in Nat BY <1>0, <1>2, FeeAtType
<1>5. req' = req /\ result' = result BY DEF Iterate
<1> HIDE DEF new, newfee
<1>6. /\ by_size' \in Seq(Candidate)
      /\ DOMAIN by_size' = DOMAIN by_size \cup {last}
      /\ \A i \in DOMAIN by_size : by_size'[i] = by_size[i]
      /\ by_size'[last] = new
      /\ Len(by_size') = last
      /\ by_size' # <<>>
  BY <1>0, <1>1, <1>3 DEF TypeOK, new
<1>7. TypeOK'
  BY <1>0, <1>1, <1>2, <1>4, <1>5, <1>6 DEF TypeOK, newfee
<1>8. \A i \in DOMAIN by_size' : Conserves(by_size[i])'
  BY <1>3, <1>5, <1>6 DEF IInv, Conserves
<1>9. \A fee : fee = current_fee \/ FeeBuilt(fee)
        => \E i \in DOMAIN by_size' : by_size'[i].fee = fee
  BY <1>3, <1>6 DEF FeeBuilt
<1>10. RateMetBuilt \/ newfee <= current_fee => RateMetBuilt'
  BY <1>3, <1>5, <1>6 DEF RateMetBuilt, RateMet, newfee
<1>11. CASE size \in seen_sizes
  <2>1. pc' = "pick" /\ UNCHANGED <<current_fee, seen_sizes>>
    BY <1>1, <1>11
  <2>2. RateMetBuilt' BY <1>0, <1>10, <1>11 DEF IInv, newfee
  <2>3. CycleClosed'
    <3>1. FeeBuilt(FeeAt(size, req.feekb))
             \/ FeeAt(size, req.feekb) = current_fee
      BY <1>0, <1>11 DEF IInv
    <3>2. \E i \in DOMAIN by_size' : by_size'[i].fee = FeeAt(size, req.feekb)
      BY <1>3, <1>6, <3>1 DEF FeeBuilt
    <3>3. by_size'[Len(by_size')].size = size BY <1>3, <1>6
    <3> QED BY <1>5, <3>2, <3>3 DEF CycleClosed
  <2>4. Conservation' /\ RatePaid' BY <2>1 DEF Conservation, RatePaid
  <2> QED BY <1>0, <1>5, <1>6, <1>7, <1>8, <2>1, <2>2, <2>3, <2>4 DEF IInv
<1>12. CASE size \notin seen_sizes
  <2>1. /\ seen_sizes' = seen_sizes \cup {size}
        /\ current_fee' = newfee
        /\ pc' = "loop"
    BY <1>0, <1>1, <1>12 DEF newfee
  <2>2. \A s \in seen_sizes' : \/ current_fee' = FeeAt(s, req.feekb)'
                               \/ FeeBuilt(FeeAt(s, req.feekb))'
    <3> SUFFICES ASSUME NEW s \in seen_sizes'
                 PROVE  \/ current_fee' = FeeAt(s, req.feekb)
                        \/ \E i \in DOMAIN by_size' :
                                by_size'[i].fee = FeeAt(s, req.feekb)
      BY <1>5 DEF FeeBuilt
    <3>1. CASE s = size
      <4>1. current_fee' = FeeAt(size, req.feekb) BY <2>1 DEF newfee
      <4> QED BY <3>1, <4>1
    <3>2. CASE s \in seen_sizes
      <4>1. current_fee = FeeAt(s, req.feekb) \/ FeeBuilt(FeeAt(s, req.feekb))
        BY <1>0, <3>2 DEF IInv
      <4> QED BY <1>9, <4>1
    <3> QED BY <2>1, <3>1, <3>2
  <2>3. RateMetBuilt' \/ \A s \in seen_sizes' :
                            FeeAt(s, req.feekb)' <= current_fee'
    <3>1. CASE RateMetBuilt \/ newfee <= current_fee BY <1>10, <3>1
    <3>2. CASE ~RateMetBuilt /\ current_fee < newfee
      <4>1. \A s \in seen_sizes : FeeAt(s, req.feekb) <= current_fee
        BY <1>0, <3>2 DEF IInv
      <4>2. \A s \in seen_sizes : FeeAt(s, req.feekb) \in Nat
        BY <1>0, FeeAtType DEF TypeOK
      <4>3. \A s \in seen_sizes : FeeAt(s, req.feekb) <= newfee
        BY <1>0, <1>4, <3>2, <4>1, <4>2
      <4>4. FeeAt(size, req.feekb) <= newfee BY <1>4 DEF newfee
      <4> QED BY <1>5, <2>1, <4>3, <4>4
    <3> QED BY <1>0, <1>4, <3>1, <3>2
  <2>4. Conservation' /\ RatePaid' /\ CycleClosed'
    BY <2>1 DEF Conservation, RatePaid, CycleClosed
  <2> QED BY <1>0, <1>5, <1>7, <1>8, <2>1, <2>2, <2>3, <2>4 DEF IInv
<1> QED BY <1>11, <1>12

LEMMA RefuseIInv == IInv /\ Refuse => IInv'
<1> SUFFICES ASSUME IInv, Refuse PROVE IInv' OBVIOUS
<1>1. /\ pc' = "raised"
      /\ UNCHANGED <<req, current_fee, by_size, seen_sizes, result>>
  BY DEF Refuse
<1>2. TypeOK' BY <1>1 DEF IInv, TypeOK
<1>3. \A i \in DOMAIN by_size' : Conserves(by_size[i])'
  BY <1>1 DEF IInv, Conserves
<1> QED BY <1>1, <1>2, <1>3 DEF IInv, Conservation, RatePaid

LEMMA PickIInv == IInv /\ Pick => IInv'
<1> SUFFICES ASSUME IInv, Pick PROVE IInv' OBVIOUS
<1>1. PICK i \in DOMAIN by_size : Picked(i) /\ result' = by_size[i]
  BY DEF Pick
<1>2. /\ pc = "pick" /\ pc' = "done"
      /\ UNCHANGED <<req, current_fee, by_size, seen_sizes>>
  BY DEF Pick
<1>3. by_size \in Seq(Candidate) /\ by_size[i] \in Candidate
  BY <1>1 DEF IInv, TypeOK
<1>4. TypeOK' BY <1>1, <1>2, <1>3 DEF IInv, TypeOK
<1>5. Conservation' BY <1>1, <1>2 DEF IInv, Conservation, Conserves
<1>6. RatePaid'
  <2> SUFFICES ASSUME req.feekb >= MIN_RELAY_TX_FEE
               PROVE  RateMet(by_size[i])
    BY <1>1, <1>2 DEF RatePaid, RateMet
  <2>1. PICK j \in DOMAIN by_size : RateMet(by_size[j])
    BY <1>2 DEF IInv, RateMetBuilt
  <2>2. by_size[j].size \in Nat /\ by_size[j].fee \in Nat
    <3>1. by_size[j] \in Candidate BY <1>3, <2>1
    <3> QED BY <3>1 DEF Candidate
  <2>3. req.feekb \in Nat BY RequestType DEF IInv
  <2>4. FeeAt(by_size[j].size, MIN_RELAY_TX_FEE)
          <= FeeAt(by_size[j].size, req.feekb)
    BY <2>2, <2>3, FeeAtMonotone, RelayAssumption
  <2>5. /\ FeeAt(by_size[j].size, MIN_RELAY_TX_FEE) \in Nat
        /\ FeeAt(by_size[j].size, req.feekb) \in Nat
    BY <2>2, <2>3, FeeAtType, RelayAssumption
  <2>6. Pays(by_size[j]) BY <2>1, <2>2, <2>4, <2>5 DEF Pays, RateMet
  <2>7. i \in Paying BY <1>1, <2>1, <2>6 DEF Picked, Paying
  <2> QED BY <2>7 DEF Paying, Pays, RateMet
<1>7. \A k \in DOMAIN by_size' : Conserves(by_size[k])'
  BY <1>2 DEF IInv, Conserves
<1> QED BY <1>2, <1>4, <1>5, <1>6, <1>7 DEF IInv

LEMMA StepIInv == IInv /\ [Next]_vars => IInv'
<1> SUFFICES ASSUME IInv, [Next]_vars PROVE IInv' OBVIOUS
<1>1. CASE BuildFixed BY <1>1, BuildFixedIInv
<1>2. CASE Iterate BY <1>2, IterateIInv
<1>3. CASE Refuse BY <1>3, RefuseIInv
<1>4. CASE Pick BY <1>4, PickIInv
<1>5. CASE UNCHANGED vars
  BY <1>5 DEF vars, IInv, TypeOK, Conserves, FeeBuilt, RateMetBuilt, RateMet,
              CycleClosed, Conservation, RatePaid
<1> QED BY <1>1, <1>2, <1>3, <1>4, <1>5 DEF Next

LEMMA Invariance == Spec => []IInv
BY InitIInv, StepIInv, PTL DEF Spec

----------------------------------------------------------------------------
\* The loop's variables keep their types; in particular no amount and no
\* change that make_transaction announces is negative.
THEOREM TypeCorrect == Spec => []TypeOK
<1>1. IInv => TypeOK BY DEF IInv
<1> QED BY <1>1, Invariance, PTL

\* What make_transaction announces adds up to the inputs it spends, whatever
\* fee the loop settled on.
THEOREM ConservationHolds == Spec => []Conservation
<1>1. IInv => Conservation BY DEF IInv
<1> QED BY <1>1, Invariance, PTL

\* For a rate at or above the relay floor the fee loop pays the rate for the
\* size it returns, however the sizes of the candidates jitter: the fallback
\* of _pick_best_fee_loop_candidate is reached only below the floor.
THEOREM RatePaidHolds == Spec => []RatePaid
<1>1. IInv => RatePaid BY DEF IInv
<1> QED BY <1>1, Invariance, PTL

\* A repeated size does mean that the loop is in a cycle of fees.
THEOREM CycleClosedHolds == Spec => []CycleClosed
<1>1. IInv => CycleClosed BY DEF IInv, CycleClosed
<1> QED BY <1>1, Invariance, PTL

----------------------------------------------------------------------------
(* The loop ends *)

\* Every size a signed candidate can have.
Sizes == TxSizes[1] \cup TxSizes[2]

\* All candidates but one have each brought a size that none had before.
OneBuildPerSize ==
    /\ IsFiniteSet(seen_sizes)
    /\ \A size \in seen_sizes : \E i \in DOMAIN by_size : by_size[i].size = size
    /\ Len(by_size) <= Cardinality(seen_sizes) + 1

BoundInv ==
    /\ OneBuildPerSize
    /\ \A i \in DOMAIN by_size : by_size[i].size \in Sizes
    /\ pc \in {"fixed", "loop"} => Len(by_size) = Cardinality(seen_sizes)

\* Nothing is built, and no size has been seen.
LEMMA InitBoundInv == Init => BoundInv
BY FS_EmptySet DEF Init, BoundInv, OneBuildPerSize

\* A turn of the loop adds a candidate; it goes on only with a new size.
LEMMA IterateBoundInv ==
    ASSUME IInv, BoundInv, Iterate
    PROVE  BoundInv'
<1>1. by_size \in Seq(Candidate) /\ pc = "loop" /\ current_fee \in Nat
    BY DEF IInv, TypeOK, Iterate
<1>2. PICK size \in VSize(current_fee) :
        /\ by_size' = Append(by_size, MakeVout(current_fee, size))
        /\ IF size \in seen_sizes
           THEN pc' = "pick" /\ UNCHANGED <<current_fee, seen_sizes>>
           ELSE /\ seen_sizes' = seen_sizes \cup {size}
                /\ pc' = pc
    BY DEF Iterate
<1>3. size \in Sizes BY <1>2 DEF VSize, NumOutputs, Sizes, BoundInv
<1>4. size \in Nat BY <1>1, <1>2, VSizeType DEF IInv
<1>5. MakeVout(current_fee, size) \in Candidate /\ MakeVout(current_fee, size).size = size
    BY <1>1, <1>4, MakeVoutConserves DEF IInv, Iterate
<1>6. /\ Len(by_size) \in Nat /\ Len(by_size') = Len(by_size) + 1
      /\ DOMAIN by_size = 1..Len(by_size) /\ DOMAIN by_size' = 1..(Len(by_size) + 1)
      /\ \A i \in DOMAIN by_size : by_size'[i] = by_size[i]
      /\ by_size'[Len(by_size) + 1].size = size
    BY <1>1, <1>2, <1>5
<1>7. \A i \in DOMAIN by_size' : by_size'[i].size \in Sizes
    BY <1>3, <1>6 DEF BoundInv
<1>8. \A s \in seen_sizes \cup {size} : \E i \in DOMAIN by_size' : by_size'[i].size = s
    BY <1>6 DEF BoundInv, OneBuildPerSize
<1>9. /\ IsFiniteSet(seen_sizes) /\ Cardinality(seen_sizes) \in Nat
      /\ Len(by_size) = Cardinality(seen_sizes)
    BY <1>1, FS_CardinalityType DEF BoundInv, OneBuildPerSize
<1>10. CASE size \in seen_sizes
    <2>1. seen_sizes' = seen_sizes /\ pc' = "pick" BY <1>2, <1>10
    <2> QED BY <1>6, <1>7, <1>8, <1>9, <2>1 DEF BoundInv, OneBuildPerSize
<1>11. CASE size \notin seen_sizes
    <2>1. seen_sizes' = seen_sizes \cup {size} /\ pc' = "loop" BY <1>1, <1>2, <1>11
    <2>2. IsFiniteSet(seen_sizes') /\ Cardinality(seen_sizes') = Cardinality(seen_sizes) + 1
        BY <1>9, <1>11, <2>1, FS_AddElement
    <2> QED BY <1>6, <1>7, <1>8, <1>9, <2>1, <2>2 DEF BoundInv, OneBuildPerSize
<1> QED BY <1>10, <1>11

\* The other steps build nothing that the loop counts.
LEMMA StepBoundInv ==
    ASSUME IInv, BoundInv, [Next]_vars
    PROVE  BoundInv'
<1>1. CASE Iterate BY <1>1, IterateBoundInv
<1>2. CASE BuildFixed \/ Refuse \/ Pick \/ UNCHANGED vars
    <2>1. UNCHANGED <<by_size, seen_sizes>>
        BY <1>2 DEF BuildFixed, Refuse, Pick, vars
    <2>2. pc' \in {"fixed", "loop"} => pc \in {"fixed", "loop"}
        BY <1>2 DEF BuildFixed, Refuse, Pick, vars
    <2> QED BY <2>1, <2>2 DEF BoundInv, OneBuildPerSize
<1> QED BY <1>1, <1>2 DEF Next

LEMMA BoundInvHolds == Spec => []BoundInv
<1>1. IInv /\ BoundInv /\ [Next]_vars => BoundInv' BY StepBoundInv
<1> QED BY <1>1, InitBoundInv, Invariance, PTL DEF Spec

\* Only the last candidate of the loop can repeat a size (seen_sizes in
\* make_transaction), whatever sizes the signatures lead to.
THEOREM OneBuildPerSizeHolds == Spec => []OneBuildPerSize
<1>1. BoundInv => OneBuildPerSize BY DEF BoundInv
<1> QED BY <1>1, BoundInvHolds, PTL

\* The loop of make_transaction has no iteration cap and needs none: it builds
\* at most one candidate more than a signed transaction can have sizes.
THEOREM LoopBounded ==
    ASSUME IsFiniteSet(Sizes)
    PROVE  Spec => [](Len(by_size) <= Cardinality(Sizes) + 1)
<1>1. ASSUME IInv, BoundInv
      PROVE  Len(by_size) <= Cardinality(Sizes) + 1
    <2>1. seen_sizes \subseteq Sizes BY <1>1 DEF BoundInv, OneBuildPerSize
    <2>2. Cardinality(seen_sizes) <= Cardinality(Sizes) BY <2>1, FS_Subset
    <2>3. Cardinality(seen_sizes) \in Nat /\ Cardinality(Sizes) \in Nat
        BY <1>1, FS_CardinalityType DEF BoundInv, OneBuildPerSize
    <2>4. Len(by_size) \in Nat BY <1>1 DEF IInv, TypeOK
    <2>5. Len(by_size) <= Cardinality(seen_sizes) + 1 BY <1>1 DEF BoundInv, OneBuildPerSize
    <2> QED BY <2>2, <2>3, <2>4, <2>5
<1> QED BY <1>1, Invariance, BoundInvHolds, PTL

\* A set of at most two members has at most two.
LEMMA PairHasTwo ==
    ASSUME NEW S, NEW a, NEW b, S \subseteq {a, b}
    PROVE  Cardinality(S) \in Nat /\ Cardinality(S) <= 2
<1> DEFINE pair == {a} \cup {b}
<1>1. IsFiniteSet({a}) /\ Cardinality({a}) = 1 BY FS_Singleton
<1>2. /\ IsFiniteSet(pair)
      /\ Cardinality(pair) = (IF b \in {a} THEN Cardinality({a}) ELSE Cardinality({a}) + 1)
    BY <1>1, FS_AddElement
<1>3. Cardinality(pair) \in Nat /\ Cardinality(pair) <= 2 BY <1>1, <1>2
<1>4. S \in SUBSET pair OBVIOUS
<1> HIDE DEF pair
<1>5. IsFiniteSet(S) /\ Cardinality(S) <= Cardinality(pair) BY <1>2, <1>4, FS_Subset
<1>6. Cardinality(S) \in Nat BY <1>5, FS_CardinalityType
<1> QED BY <1>3, <1>5, <1>6

\* Candidates of at most two sizes are at most three.
LEMMA PairBounds ==
    ASSUME TypeOK, OneBuildPerSize, NEW a, NEW b,
           \A i \in DOMAIN by_size : by_size[i].size \in {a, b}
    PROVE  Len(by_size) <= 3
<1>1. seen_sizes \subseteq {a, b} BY DEF OneBuildPerSize
<1>2. Cardinality(seen_sizes) \in Nat /\ Cardinality(seen_sizes) <= 2
    BY <1>1, PairHasTwo
<1>3. Len(by_size) \in Nat BY DEF TypeOK
<1> QED BY <1>2, <1>3 DEF OneBuildPerSize

=============================================================================
