---------------------------- MODULE InductionFacts ---------------------------
(***************************************************************************)
(* Induction for the proofs about data.  The induction theorems of the     *)
(* library take the property to prove as an operator; here a property is   *)
(* the set of the naturals, or of the finite sets, that have it, and the   *)
(* well-foundedness of strict inclusion does the rest.  From it follow the *)
(* facts about the recursive operators of the community modules that the   *)
(* specifications are built from.                                          *)
(***************************************************************************)
EXTENDS Integers, Sequences, SequencesExt, FiniteSetTheorems, WellFoundedInduction, TLAPS

----------------------------------------------------------------------------
(* Induction *)

\* A family of finite sets that is not empty has a minimal member.
LEMMA MinimalSet ==
    ASSUME NEW S, NEW F, F \subseteq FiniteSubsetsOf(S), F # {}
    PROVE  \E T \in F : \A U \in F : U \subseteq T => U = T
<1>1. \E T \in F : \A U \in F : ~(<<U, T>> \in StrictSubsetOrdering(S))
    <2> HIDE DEF FiniteSubsetsOf, StrictSubsetOrdering
    <2> QED BY FS_StrictSubsetOrderingWellFounded, WFMin
<1>2. PICK T \in F : \A U \in F : ~(<<U, T>> \in StrictSubsetOrdering(S)) BY <1>1
<1>3. ASSUME NEW U \in F, U \subseteq T, U # T
      PROVE  FALSE
    <2>1. U \in SUBSET S /\ T \in SUBSET S BY DEF FiniteSubsetsOf
    <2>2. <<U, T>> \in StrictSubsetOrdering(S) BY <1>3, <2>1 DEF StrictSubsetOrdering
    <2> QED BY <1>2, <2>2
<1> QED BY <1>3

\* A set of natural numbers that is not empty has a least element.
LEMMA LeastNatural ==
    ASSUME NEW T \in SUBSET Nat, T # {}
    PROVE  \E m \in T : \A k \in T : m <= k
<1> DEFINE F == {0 .. n : n \in T}
<1>1. F \subseteq FiniteSubsetsOf(Nat)
    <2>1. ASSUME NEW n \in T
          PROVE  0 .. n \in FiniteSubsetsOf(Nat)
        <3>1. IsFiniteSet(0 .. n) BY FS_Interval
        <3> QED BY <3>1 DEF FiniteSubsetsOf
    <2> QED BY <2>1
<1>2. F # {} OBVIOUS
<1>3. PICK L \in F : \A U \in F : U \subseteq L => U = L
    <2> HIDE DEF F
    <2> QED BY <1>1, <1>2, MinimalSet
<1>4. PICK m \in T : L = 0 .. m OBVIOUS
<1>5. ASSUME NEW k \in T, k < m
      PROVE  FALSE
    <2>1. 0 .. k \subseteq 0 .. m /\ 0 .. k \in F BY <1>5
    <2>2. 0 .. k = 0 .. m BY <1>3, <1>4, <2>1
    <2>3. m \in 0 .. k BY <2>2
    <2> QED BY <1>5, <2>3
<1>6. \A k \in T : m <= k BY <1>5
<1> QED BY <1>6

\* A set of naturals up to a bound has a largest element.
LEMMA LargestNatural ==
    ASSUME NEW n \in Nat, NEW s \in SUBSET (1 .. n), s # {}
    PROVE  Max(s) \in s /\ \A x \in s : Max(s) >= x
<1> DEFINE T == {n - x : x \in s}
<1>1. T \in SUBSET Nat /\ T # {}
    <2>1. ASSUME NEW x \in s PROVE n - x \in Nat
        <3>1. x \in 1 .. n OBVIOUS
        <3> QED BY <3>1
    <2>2. T \in SUBSET Nat BY <2>1
    <2>3. T # {} OBVIOUS
    <2> QED BY <2>2, <2>3
<1>2. PICK m \in T : \A k \in T : m <= k
    <2> HIDE DEF T
    <2> QED BY <1>1, LeastNatural
<1>3. PICK x \in s : m = n - x BY <1>2
<1>4. \A y \in s : x >= y
    <2> SUFFICES ASSUME NEW y \in s PROVE x >= y OBVIOUS
    <2>1. n - y \in T /\ x \in Int /\ y \in Int OBVIOUS
    <2>2. m <= n - y BY <1>2, <2>1
    <2> QED BY <1>3, <2>1, <2>2
<1> QED BY <1>3, <1>4 DEF Max

\* Up to a bound, induction step by step.
LEMMA InductionUpTo ==
    ASSUME NEW n \in Nat, NEW P, 0 \in P,
           \A k \in Nat : k < n /\ k \in P => k + 1 \in P
    PROVE  \A k \in 0 .. n : k \in P
<1> DEFINE T == {k \in Nat : k <= n /\ k \notin P}
<1> SUFFICES ASSUME T # {} PROVE FALSE OBVIOUS
<1>1. PICK m \in T : \A k \in T : m <= k
    <2>1. T \in SUBSET Nat OBVIOUS
    <2> HIDE DEF T
    <2> QED BY <2>1, LeastNatural
<1>2. m # 0 OBVIOUS
<1>3. m - 1 \in Nat /\ m - 1 < n /\ (m - 1) + 1 = m BY <1>2
<1>4. m - 1 \notin T BY <1>1, <1>3
<1>5. m - 1 \in P BY <1>3, <1>4
<1> QED BY <1>3, <1>5

\* A property of the empty set that adding an element keeps.
LEMMA InductionOnSets ==
    ASSUME NEW S, IsFiniteSet(S), NEW P, {} \in P,
           \A T \in SUBSET S : \A x \in S \ T : T \in P => T \cup {x} \in P
    PROVE  \A T \in SUBSET S : T \in P
<1> DEFINE F == {T \in SUBSET S : T \notin P}
<1> SUFFICES ASSUME F # {} PROVE FALSE OBVIOUS
<1>1. F \subseteq FiniteSubsetsOf(S) BY FS_Subset DEF FiniteSubsetsOf
<1>2. PICK T \in F : \A U \in F : U \subseteq T => U = T
    <2> HIDE DEF F
    <2> QED BY <1>1, MinimalSet
<1>3. PICK x \in T : TRUE OBVIOUS
<1> DEFINE U == T \ {x}
<1>4. U \in SUBSET S /\ x \in S \ U /\ U \cup {x} = T /\ U # T /\ U \subseteq T OBVIOUS
<1>5. U \in P BY <1>2, <1>4
<1> HIDE DEF U
<1> QED BY <1>4, <1>5

----------------------------------------------------------------------------
(* FlattenSeq *)

\* A sequence is a function into the set of its elements.
LEMMA SeqElement ==
    ASSUME NEW S, NEW seq \in Seq(S), NEW n \in DOMAIN seq
    PROVE  seq[n] \in S
OBVIOUS

\* and such a function is a sequence.
LEMMA FunctionIsSeq ==
    ASSUME NEW S, NEW n \in Nat, NEW f \in [1 .. n -> S]
    PROVE  f \in Seq(S) /\ Len(f) = n
OBVIOUS

\* The recursive function inside FlattenSeq.
Flattens(f, ss) ==
    f = [i \in 1 .. Len(ss) |-> IF i = 1 THEN ss[i] ELSE f[i - 1] \o ss[i]]

\* There is one.
LEMMA FlattenExists ==
    ASSUME NEW S, NEW ss \in Seq(Seq(S))
    PROVE  \E f : Flattens(f, ss)
<1> DEFINE Upto(k, f) == \A i \in 1 .. k : f[i] = IF i = 1 THEN ss[i] ELSE f[i - 1] \o ss[i]
           P == {k \in Nat : k <= Len(ss) => \E f : Upto(k, f)}
<1>1. 0 \in P OBVIOUS
<1>2. ASSUME NEW k \in Nat, k < Len(ss), k \in P
      PROVE  k + 1 \in P
    <2>1. PICK f : Upto(k, f) BY <1>2
    <2> DEFINE g == [i \in 1 .. k + 1 |->
                        IF i <= k THEN f[i] ELSE IF i = 1 THEN ss[i] ELSE f[k] \o ss[i]]
    <2>2. ASSUME NEW i \in 1 .. k + 1
          PROVE  g[i] = IF i = 1 THEN ss[i] ELSE g[i - 1] \o ss[i]
        <3>1. CASE i = 1 BY <2>1, <3>1
        <3>2. CASE i # 1 /\ i <= k
            <4>1. g[i] = f[i] /\ g[i - 1] = f[i - 1] BY <3>2
            <4>2. i \in 1 .. k BY <3>2
            <4>3. f[i] = f[i - 1] \o ss[i] BY <2>1, <3>2, <4>2
            <4> HIDE DEF g
            <4> QED BY <3>2, <4>1, <4>3
        <3>3. CASE i # 1 /\ i = k + 1
            <4>1. i - 1 = k /\ k \in 1 .. k + 1 BY <3>3
            <4>2. g[i] = f[k] \o ss[i]
                <5>1. g[i] = IF i <= k THEN f[i] ELSE IF i = 1 THEN ss[i] ELSE f[k] \o ss[i]
                    OBVIOUS
                <5>2. ~(i <= k) BY <3>3
                <5> QED BY <3>3, <5>1, <5>2
            <4>3. g[k] = f[k] BY <4>1
            <4> HIDE DEF g
            <4> QED BY <3>3, <4>1, <4>2, <4>3
        <3> QED BY <3>1, <3>2, <3>3
    <2>3. Upto(k + 1, g) BY <2>2
    <2> HIDE DEF Upto, g
    <2> QED BY <2>3
<1>3. Len(ss) \in Nat OBVIOUS
<1>4. Len(ss) \in P
    <2> HIDE DEF P
    <2>1. \A k \in 0 .. Len(ss) : k \in P BY <1>1, <1>2, <1>3, InductionUpTo
    <2> QED BY <1>3, <2>1
<1>5. PICK f : Upto(Len(ss), f)
    <2> HIDE DEF Upto
    <2>1. \E f : Upto(Len(ss), f) BY <1>3, <1>4
    <2> QED BY <2>1
<1> DEFINE g == [i \in 1 .. Len(ss) |-> f[i]]
<1>6. \A i \in 1 .. Len(ss) : g[i] = IF i = 1 THEN ss[i] ELSE g[i - 1] \o ss[i]
    BY <1>3, <1>5
<1>7. Flattens(g, ss)
    <2>1. g = [i \in 1 .. Len(ss) |-> g[i]] OBVIOUS
    <2> HIDE DEF g
    <2> QED BY <1>6, <2>1 DEF Flattens
<1> QED BY <1>7

\* Flattening sequences over S gives a sequence over S.
LEMMA FlattenSeqType ==
    ASSUME NEW S, NEW ss \in Seq(Seq(S))
    PROVE  FlattenSeq(ss) \in Seq(S)
<1> DEFINE f == CHOOSE f : Flattens(f, ss)
<1>1. Flattens(f, ss) BY FlattenExists
<1>2. FlattenSeq(ss) = IF Len(ss) = 0 THEN ss ELSE f[Len(ss)]
    BY DEF FlattenSeq, Flattens
<1> HIDE DEF f
<1>3. Len(ss) \in Nat OBVIOUS
<1>4. CASE Len(ss) = 0 BY <1>2, <1>4
<1>5. CASE Len(ss) # 0
    <2> DEFINE P == {k \in Nat : k \in 1 .. Len(ss) => f[k] \in Seq(S)}
    <2>1. 0 \in P OBVIOUS
    <2>2. ASSUME NEW k \in Nat, k < Len(ss), k \in P
          PROVE  k + 1 \in P
        <3> DEFINE j == k + 1
        <3>1. j \in 1 .. Len(ss) /\ j - 1 = k BY <1>3, <2>2
        <3>2. ss[j] \in Seq(S) BY <3>1
        <3> HIDE DEF j
        <3>3. f[j] = IF j = 1 THEN ss[j] ELSE f[j - 1] \o ss[j]
            BY <1>1, <3>1 DEF Flattens
        <3>4. CASE j = 1 BY <3>1, <3>2, <3>3, <3>4 DEF j
        <3>5. CASE j # 1
            <4>1. f[k] \in Seq(S) BY <1>3, <2>2, <3>1, <3>5 DEF j
            <4>2. f[j] \in Seq(S) BY <3>1, <3>2, <3>3, <3>5, <4>1
            <4> QED BY <2>2, <4>2 DEF j
        <3> QED BY <3>4, <3>5
    <2> HIDE DEF P
    <2>3. \A k \in 0 .. Len(ss) : k \in P BY <1>3, <2>1, <2>2, InductionUpTo
    <2>4. Len(ss) \in P BY <1>3, <2>3
    <2> QED BY <1>2, <1>3, <1>5, <2>4 DEF P
<1> QED BY <1>4, <1>5

----------------------------------------------------------------------------
(* Sequences with an element more *)

\* What a concatenation holds.
LEMMA Concatenation ==
    ASSUME NEW S, NEW c \in Seq(S), NEW b \in Seq(S)
    PROVE  /\ c \o b \in Seq(S) /\ Len(c \o b) = Len(c) + Len(b)
           /\ \A k \in 1 .. Len(c) : (c \o b)[k] = c[k]
           /\ \A k \in 1 .. Len(b) : (c \o b)[Len(c) + k] = b[k]
OBVIOUS

\* Inserting an element that is not there yet.
LEMMA InsertKeeps ==
    ASSUME NEW S, NEW s \in Seq(S), NEW e \in S, NEW i \in 1 .. Len(s) + 1
    PROVE  /\ InsertAt(s, i, e) \in Seq(S)
           /\ ToSet(InsertAt(s, i, e)) = ToSet(s) \cup {e}
           /\ e \notin ToSet(s) /\ (\A j, k \in DOMAIN s : s[j] = s[k] => j = k)
                => \A j, k \in DOMAIN InsertAt(s, i, e) :
                     InsertAt(s, i, e)[j] = InsertAt(s, i, e)[k] => j = k
<1> DEFINE a == SubSeq(s, 1, i - 1)
           b == SubSeq(s, i, Len(s))
           r == InsertAt(s, i, e)
<1>1. /\ Len(s) \in Nat /\ i \in Nat
      /\ a \in Seq(S) /\ Len(a) = i - 1 /\ \A k \in 1 .. i - 1 : a[k] = s[k]
      /\ b \in Seq(S) /\ Len(b) = Len(s) - i + 1 /\ \A k \in 1 .. Len(b) : b[k] = s[i + k - 1]
    OBVIOUS
<1> DEFINE c == a \o <<e>>
<1>2. r = c \o b BY DEF InsertAt
<1> HIDE DEF a, b, r
<1>9. c \in Seq(S) /\ Len(c) = i /\ c[i] = e /\ \A k \in 1 .. i - 1 : c[k] = s[k]
    BY <1>1
<1> HIDE DEF c
<1>3. /\ r \in Seq(S) /\ Len(r) = Len(s) + 1
      /\ \A k \in 1 .. i - 1 : r[k] = s[k]
      /\ r[i] = e
    <2>1. c \in Seq(S) /\ b \in Seq(S) BY <1>1, <1>9
    <2>2. /\ r \in Seq(S) /\ Len(r) = Len(c) + Len(b)
          /\ \A k \in 1 .. Len(c) : r[k] = c[k]
        BY <1>2, <2>1, Concatenation
    <2>3. Len(c) = i /\ i \in Nat /\ i >= 1 /\ Len(b) = Len(s) - i + 1 BY <1>1, <1>9
    <2>4. Len(r) = Len(s) + 1 BY <1>1, <2>2, <2>3
    <2>5. ASSUME NEW k \in 1 .. i - 1
          PROVE  r[k] = s[k]
        <3>1. k \in 1 .. Len(c) BY <2>3
        <3> QED BY <1>9, <2>2, <3>1
    <2>6. r[i] = e BY <1>9, <2>2, <2>3
    <2> QED BY <2>2, <2>4, <2>5, <2>6
<1>4. \A k \in i + 1 .. Len(s) + 1 : r[k] = s[k - 1]
    <2> SUFFICES ASSUME NEW k \in i + 1 .. Len(s) + 1 PROVE r[k] = s[k - 1] OBVIOUS
    <2> DEFINE m == k - i
    <2>1. m \in 1 .. Len(b) /\ i + m - 1 = k - 1 /\ i + m = k BY <1>1
    <2> HIDE DEF m
    <2>2. r[i + m] = b[m]
        <3>1. c \in Seq(S) /\ b \in Seq(S) /\ Len(c) = i BY <1>1, <1>9
        <3> QED BY <1>2, <2>1, <3>1, Concatenation
    <2>3. b[m] = s[k - 1] BY <1>1, <2>1
    <2> QED BY <2>1, <2>2, <2>3
<1>5. DOMAIN r = 1 .. Len(s) + 1 /\ DOMAIN s = 1 .. Len(s) BY <1>3
<1>6. \A k \in DOMAIN r :
        \/ k = i /\ r[k] = e
        \/ k < i /\ k \in DOMAIN s /\ r[k] = s[k]
        \/ k > i /\ k - 1 \in DOMAIN s /\ k - 1 >= i /\ r[k] = s[k - 1]
    BY <1>1, <1>3, <1>4, <1>5
<1>7. ToSet(r) = ToSet(s) \cup {e}
    <2>1. ToSet(r) \subseteq ToSet(s) \cup {e} BY <1>6 DEF ToSet
    <2>2. e \in ToSet(r) BY <1>1, <1>3, <1>5 DEF ToSet
    <2>3. ASSUME NEW k \in DOMAIN s
          PROVE  s[k] \in ToSet(r)
        <3>1. CASE k < i BY <1>1, <1>3, <1>5, <3>1 DEF ToSet
        <3>2. CASE k >= i
            <4> DEFINE j == k + 1
            <4>1. j \in i + 1 .. Len(s) + 1 /\ j \in DOMAIN r /\ j - 1 = k
                BY <1>1, <1>5, <2>3, <3>2
            <4> HIDE DEF j
            <4>2. r[j] = s[k] BY <1>4, <4>1
            <4> QED BY <4>1, <4>2 DEF ToSet
        <3> QED BY <1>1, <1>5, <3>1, <3>2
    <2> QED BY <2>1, <2>2, <2>3 DEF ToSet
<1>8. ASSUME e \notin ToSet(s), \A j, k \in DOMAIN s : s[j] = s[k] => j = k,
             NEW j \in DOMAIN r, NEW k \in DOMAIN r, r[j] = r[k]
      PROVE  j = k
    <2>1. \A m \in DOMAIN s : s[m] # e BY <1>8 DEF ToSet
    <2>2. j \in Int /\ k \in Int BY <1>5
    <2> QED BY <1>6, <1>8, <2>1, <2>2, <1>1
<1> QED BY <1>3, <1>7, <1>8 DEF r

----------------------------------------------------------------------------
(* Folds *)

\* The recursive function inside a fold, for an operator and a choice that are
\* given as functions.
FoldsBy(f, op, base, choose, S) ==
    f = [s \in SUBSET S |-> IF s = {} THEN base ELSE op[<<choose[s], f[s \ {choose[s]}]>>]]

\* There is one, and it takes its values where the operator does.
LEMMA FoldByExists ==
    ASSUME NEW S, IsFiniteSet(S), NEW V, NEW base \in V, NEW op \in [S \X V -> V],
           NEW choose, \A s \in SUBSET S : s # {} => choose[s] \in s
    PROVE  \E f \in [SUBSET S -> V] : FoldsBy(f, op, base, choose, S)
<1> DEFINE One(f, s) == IF s = {} THEN base ELSE op[<<choose[s], f[s \ {choose[s]}]>>]
           Upto(k, f) == \A s \in SUBSET S : Cardinality(s) <= k => f[s] = One(f, s)
           P == {k \in Nat : \E f \in [SUBSET S -> V] : Upto(k, f)}
           N == Cardinality(S)
<1>1. N \in Nat /\ \A s \in SUBSET S : IsFiniteSet(s) /\ Cardinality(s) \in 0..N
    BY FS_Subset, FS_CardinalityType
<1>2. ASSUME NEW s \in SUBSET S, s # {}
      PROVE  /\ choose[s] \in S
             /\ s \ {choose[s]} \in SUBSET S
             /\ Cardinality(s \ {choose[s]}) = Cardinality(s) - 1
    <2>1. choose[s] \in s BY <1>2
    <2>2. IsFiniteSet(s) BY <1>1
    <2> QED BY <2>1, <2>2, FS_RemoveElement
<1>3. ASSUME NEW f \in [SUBSET S -> V], NEW s \in SUBSET S
      PROVE  One(f, s) \in V
    <2>1. CASE s = {} BY <2>1
    <2>2. CASE s # {}
        <3>1. f[s \ {choose[s]}] \in V BY <1>2, <2>2
        <3>2. <<choose[s], f[s \ {choose[s]}]>> \in S \X V
            BY <1>2, <2>2, <3>1
        <3> QED BY <2>2, <3>2
    <2> QED BY <2>1, <2>2
<1>4. 0 \in P
    <2> DEFINE f == [s \in SUBSET S |-> base]
    <2>1. \A s \in SUBSET S : Cardinality(s) <= 0 => s = {}
        BY <1>1, FS_EmptySet
    <2>2. Upto(0, f) BY <2>1
    <2>3. f \in [SUBSET S -> V] OBVIOUS
    <2> HIDE DEF f, Upto
    <2> QED BY <2>2, <2>3
<1>5. ASSUME NEW k \in Nat, k < N, k \in P
      PROVE  k + 1 \in P
    <2>1. PICK f \in [SUBSET S -> V] : Upto(k, f) BY <1>5
    <2> DEFINE g == [s \in SUBSET S |-> IF Cardinality(s) <= k THEN f[s] ELSE One(f, s)]
    <2>2. g \in [SUBSET S -> V]
        <3> HIDE DEF One
        <3> QED BY <1>3
    <2>3. \A s \in SUBSET S : g[s] = One(f, s)
        <3> HIDE DEF One
        <3> QED BY <2>1
    <2>4. ASSUME NEW s \in SUBSET S, Cardinality(s) <= k + 1
          PROVE  g[s] = One(g, s)
        <3>1. CASE s = {} BY <2>3, <3>1
        <3>2. CASE s # {}
            <4> DEFINE t == s \ {choose[s]}
            <4>1. t \in SUBSET S /\ Cardinality(t) <= k
                <5>1. Cardinality(s) \in Nat BY <1>1
                <5>2. t \in SUBSET S /\ Cardinality(t) = Cardinality(s) - 1 BY <1>2, <3>2
                <5> HIDE DEF t
                <5> QED BY <2>4, <5>1, <5>2
            <4>2. g[t] = f[t] BY <4>1
            <4>3. One(g, s) = One(f, s)
                <5> HIDE DEF g
                <5> QED BY <3>2, <4>2
            <4> QED BY <2>3, <4>3
        <3> QED BY <3>1, <3>2
    <2>5. Upto(k + 1, g)
        <3> HIDE DEF g, One
        <3> QED BY <2>4
    <2> HIDE DEF Upto, g
    <2> QED BY <2>2, <2>5
<1>6. N \in P
    <2> HIDE DEF P, N
    <2>1. \A k \in 0 .. N : k \in P BY <1>1, <1>4, <1>5, InductionUpTo
    <2> QED BY <1>1, <2>1
<1>7. PICK f \in [SUBSET S -> V] : Upto(N, f) BY <1>6
<1>8. \A s \in SUBSET S : f[s] = One(f, s)
    <2> HIDE DEF One, N
    <2> QED BY <1>1, <1>7
<1>9. f = [s \in SUBSET S |-> One(f, s)]
    <2>1. f = [s \in SUBSET S |-> f[s]] OBVIOUS
    <2> HIDE DEF One
    <2> QED BY <1>8, <2>1
<1> QED BY <1>9 DEF FoldsBy

\* The one of FoldSet, which takes any element.
FoldsOver(f, op, base, S) ==
    f = [s \in SUBSET S |-> IF s = {} THEN base
            ELSE op[<<CHOOSE x \in s : TRUE, f[s \ {CHOOSE x \in s : TRUE}]>>]]

\* There is one, too.
LEMMA FoldExists ==
    ASSUME NEW S, IsFiniteSet(S), NEW V, NEW base \in V, NEW op \in [S \X V -> V]
    PROVE  \E f \in [SUBSET S -> V] : FoldsOver(f, op, base, S)
<1> DEFINE choose == [s \in SUBSET S |-> CHOOSE x \in s : TRUE]
           a(f, s) == op[<<choose[s], f[s \ {choose[s]}]>>]
           b(f, s) == op[<<CHOOSE x \in s : TRUE, f[s \ {CHOOSE x \in s : TRUE}]>>]
<1>1. \A s \in SUBSET S : s # {} => choose[s] \in s OBVIOUS
<1>2. PICK f \in [SUBSET S -> V] : FoldsBy(f, op, base, choose, S)
    <2> HIDE DEF choose
    <2> QED BY <1>1, FoldByExists
<1>3. \A s \in SUBSET S : a(f, s) = b(f, s) OBVIOUS
<1>4. f = [s \in SUBSET S |-> IF s = {} THEN base ELSE a(f, s)] BY <1>2 DEF FoldsBy
<1> HIDE DEF a, b
<1>5. f = [s \in SUBSET S |-> IF s = {} THEN base ELSE b(f, s)] BY <1>3, <1>4
<1> QED BY <1>5 DEF FoldsOver, b

\* The recursive function inside a sum of natural numbers with FoldSet.
Sums(f, w, S) ==
    f = [s \in SUBSET S |-> IF s = {} THEN 0
            ELSE w[CHOOSE x \in s : TRUE] + f[s \ {CHOOSE x \in s : TRUE}]]

\* There is one.
LEMMA SumExists ==
    ASSUME NEW S, IsFiniteSet(S), NEW w \in [S -> Nat]
    PROVE  \E f : Sums(f, w, S)
<1> DEFINE op == [p \in S \X Nat |-> w[p[1]] + p[2]]
<1>1. op \in [S \X Nat -> Nat] OBVIOUS
<1>2. PICK f \in [SUBSET S -> Nat] : FoldsOver(f, op, 0, S)
    <2> HIDE DEF op
    <2> QED BY <1>1, FoldExists
<1>3. ASSUME NEW s \in SUBSET S, s # {}
      PROVE  op[<<CHOOSE x \in s : TRUE, f[s \ {CHOOSE x \in s : TRUE}]>>]
               = w[CHOOSE x \in s : TRUE] + f[s \ {CHOOSE x \in s : TRUE}]
    <2> DEFINE x == CHOOSE x \in s : TRUE
               n == f[s \ {x}]
    <2>1. x \in S BY <1>3
    <2>2. n \in Nat OBVIOUS
    <2> HIDE DEF x, n
    <2>3. op[<<x, n>>] = w[x] + n BY <2>1, <2>2
    <2> QED BY <2>3 DEF x, n
<1>4. Sums(f, w, S)
    <2> DEFINE a(s) == op[<<CHOOSE x \in s : TRUE, f[s \ {CHOOSE x \in s : TRUE}]>>]
               b(s) == w[CHOOSE x \in s : TRUE] + f[s \ {CHOOSE x \in s : TRUE}]
    <2>1. \A s \in SUBSET S : s # {} => a(s) = b(s) BY <1>3
    <2>2. f = [s \in SUBSET S |-> IF s = {} THEN 0 ELSE a(s)] BY <1>2 DEF FoldsOver
    <2> HIDE DEF a, b
    <2>3. f = [s \in SUBSET S |-> IF s = {} THEN 0 ELSE b(s)] BY <2>1, <2>2
    <2> QED BY <2>3 DEF Sums, b
<1> QED BY <1>4

\* Such a sum is a natural number.
LEMMA SumType ==
    ASSUME NEW S, IsFiniteSet(S), NEW w \in [S -> Nat], NEW f, Sums(f, w, S)
    PROVE  \A s \in SUBSET S : f[s] \in Nat
<1> DEFINE F == {s \in SUBSET S : f[s] \notin Nat}
<1> SUFFICES ASSUME F # {} PROVE FALSE OBVIOUS
<1>1. F \subseteq FiniteSubsetsOf(S) BY FS_Subset DEF FiniteSubsetsOf
<1>2. PICK s \in F : \A t \in F : t \subseteq s => t = s
    <2> HIDE DEF F
    <2> QED BY <1>1, MinimalSet
<1>3. s # {} BY DEF Sums
<1> DEFINE x == CHOOSE x \in s : TRUE
<1>4. x \in s /\ x \in S BY <1>3
<1>5. f[s \ {x}] \in Nat BY <1>2, <1>4
<1>6. f[s] = w[x] + f[s \ {x}] BY <1>3 DEF Sums
<1>7. f[s] \in Nat BY <1>4, <1>5, <1>6
<1> QED BY <1>7

\* The values of a function on a finite set.
LEMMA FiniteImage ==
    ASSUME NEW S, IsFiniteSet(S), NEW f, DOMAIN f = S, f = [x \in S |-> f[x]]
    PROVE  IsFiniteSet({f[x] : x \in S})
<1> DEFINE T == {f[x] : x \in S}
<1>1. f \in [S -> T] OBVIOUS
<1>2. f \in Surjection(S, T) BY <1>1 DEF Surjection
<1> QED BY <1>2, FS_Surjection

\* Its values.
Image(f, S) == {f[x] : x \in S}

\* A function that is injective on a finite set has as many values.
LEMMA InjectiveImage ==
    ASSUME NEW S, IsFiniteSet(S), NEW f, f = [x \in S |-> f[x]],
           \A x, y \in S : f[x] = f[y] => x = y
    PROVE  IsFiniteSet(Image(f, S)) /\ Cardinality(Image(f, S)) = Cardinality(S)
<1> DEFINE T == {f[x] : x \in S}
<1>1. DOMAIN f = S /\ f \in [S -> T] BY SMT
<1>2. f \in Bijection(S, T)
    BY <1>1 DEF Bijection, Injection, Surjection, IsInjective
<1>3. ExistsBijection(S, T) BY <1>2 DEF ExistsBijection
<1> HIDE DEF T
<1>4. IsFiniteSet(T) /\ Cardinality(T) = Cardinality(S) BY <1>3, FS_Bijection
<1> QED BY <1>4 DEF T, Image

----------------------------------------------------------------------------
(* Flattening, step by step *)

\* Flattening is concatenating one after the other.
LEMMA FlattenSteps ==
    ASSUME NEW S, NEW ss \in Seq(Seq(S))
    PROVE  \E f \in [0 .. Len(ss) -> Seq(S)] :
             /\ f[0] = <<>>
             /\ \A k \in 1 .. Len(ss) : f[k] = f[k - 1] \o ss[k]
             /\ FlattenSeq(ss) = f[Len(ss)]
<1> DEFINE h == CHOOSE f : Flattens(f, ss)
           g == [k \in 0 .. Len(ss) |-> IF k = 0 THEN <<>> ELSE h[k]]
<1>1. Flattens(h, ss) BY FlattenExists
<1>2. FlattenSeq(ss) = IF Len(ss) = 0 THEN ss ELSE h[Len(ss)]
    BY DEF FlattenSeq, Flattens
<1> HIDE DEF h
<1>3. Len(ss) \in Nat /\ \A k \in 1 .. Len(ss) : ss[k] \in Seq(S) OBVIOUS
<1>4. g[0] = <<>> BY <1>3
<1>5. ASSUME NEW k \in 1 .. Len(ss)
      PROVE  g[k] = g[k - 1] \o ss[k]
    <2>1. h[k] = IF k = 1 THEN ss[k] ELSE h[k - 1] \o ss[k] BY <1>1 DEF Flattens
    <2>2. g[k] = h[k] /\ k - 1 \in 0 .. Len(ss) BY <1>3
    <2>3. CASE k = 1
        <3>1. <<>> \o ss[k] = ss[k] BY <1>3
        <3> QED BY <1>4, <2>1, <2>2, <2>3, <3>1
    <2>4. CASE k # 1
        <3>1. g[k - 1] = h[k - 1] BY <2>2, <2>4
        <3> QED BY <2>1, <2>2, <2>4, <3>1
    <2> QED BY <2>3, <2>4
<1>6. FlattenSeq(ss) = g[Len(ss)]
    <2>1. CASE Len(ss) = 0
        <3>1. ss = <<>> BY <2>1
        <3> QED BY <1>2, <1>4, <2>1, <3>1
    <2>2. CASE Len(ss) # 0 BY <1>2, <1>3, <2>2
    <2> QED BY <2>1, <2>2
<1>7. DOMAIN g = 0 .. Len(ss) /\ g = [k \in 0 .. Len(ss) |-> g[k]] OBVIOUS
<1> HIDE DEF g
<1>8. \A k \in 0 .. Len(ss) : g[k] \in Seq(S)
    <2> DEFINE P == {k \in Nat : g[k] \in Seq(S)}
    <2>1. 0 \in P
        <3>1. <<>> \in Seq(S) OBVIOUS
        <3> QED BY <1>4, <3>1
    <2>2. ASSUME NEW k \in Nat, k < Len(ss), k \in P
          PROVE  k + 1 \in P
        <3> DEFINE j == k + 1
        <3>1. j \in 1 .. Len(ss) /\ j - 1 = k BY <1>3, <2>2
        <3> HIDE DEF j
        <3>2. g[j] = g[k] \o ss[j] /\ g[k] \in Seq(S) /\ ss[j] \in Seq(S)
            BY <1>3, <1>5, <2>2, <3>1
        <3>3. g[j] \in Seq(S) BY <3>2
        <3> QED BY <2>2, <3>3 DEF j
    <2> HIDE DEF P
    <2>3. \A k \in 0 .. Len(ss) : k \in P BY <1>3, <2>1, <2>2, InductionUpTo
    <2> QED BY <2>3 DEF P
<1> QED BY <1>4, <1>5, <1>6, <1>7, <1>8

\* A sequence of at most one element that is not empty.
LEMMA OneElement ==
    ASSUME NEW S, NEW s \in Seq(S), Len(s) <= 1, s # <<>>
    PROVE  Len(s) = 1 /\ s = <<s[1]>>
<1>1. Len(s) \in Nat /\ Len(s) # 0 OBVIOUS
<1>2. Len(s) = 1 BY <1>1
<1> QED BY <1>2

\* Flattening sequences of at most one element picks those that have one, in
\* their order.
LEMMA FlattenPicks ==
    ASSUME NEW S, NEW ss \in Seq(Seq(S)), \A i \in DOMAIN ss : Len(ss[i]) <= 1
    PROVE  \E g \in [DOMAIN FlattenSeq(ss) -> DOMAIN ss] :
             /\ \A i, j \in DOMAIN FlattenSeq(ss) : i < j => g[i] < g[j]
             /\ \A i \in DOMAIN FlattenSeq(ss) : ss[g[i]] = <<FlattenSeq(ss)[i]>>
             /\ \A k \in DOMAIN ss : ss[k] # <<>> => \E i \in DOMAIN FlattenSeq(ss) : g[i] = k
<1>1. PICK f \in [0 .. Len(ss) -> Seq(S)] :
        /\ f[0] = <<>>
        /\ \A k \in 1 .. Len(ss) : f[k] = f[k - 1] \o ss[k]
        /\ FlattenSeq(ss) = f[Len(ss)]
    BY FlattenSteps
<1>2. /\ Len(ss) \in Nat /\ DOMAIN ss = 1 .. Len(ss)
      /\ \A k \in 1 .. Len(ss) : ss[k] \in Seq(S) /\ Len(ss[k]) <= 1
    OBVIOUS
<1> DEFINE Picks(k, g) ==
             /\ g \in [DOMAIN f[k] -> 1 .. k]
             /\ \A i, j \in DOMAIN f[k] : i < j => g[i] < g[j]
             /\ \A i \in DOMAIN f[k] : ss[g[i]] = <<f[k][i]>>
             /\ \A l \in 1 .. k : ss[l] # <<>> => \E i \in DOMAIN f[k] : g[i] = l
           P == {k \in Nat : \E g : Picks(k, g)}
<1>3. 0 \in P
    <2>1. DOMAIN f[0] = {} BY <1>1
    <2>2. Picks(0, <<>>) BY <2>1
    <2> HIDE DEF Picks
    <2> QED BY <2>2
<1>4. ASSUME NEW k \in Nat, k < Len(ss), k \in P
      PROVE  k + 1 \in P
    <2>1. PICK g : Picks(k, g) BY <1>4
    <2> DEFINE j == k + 1
               n == Len(f[k])
    <2>2. j \in 1 .. Len(ss) /\ j - 1 = k /\ k \in 0 .. Len(ss) BY <1>2, <1>4
    <2>3. f[k] \in Seq(S) /\ n \in Nat /\ DOMAIN f[k] = 1 .. n
        <3>1. f[k] \in Seq(S) BY <2>2
        <3> QED BY <3>1
    <2>4. f[j] = f[k] \o ss[j] /\ ss[j] \in Seq(S) /\ Len(ss[j]) <= 1
        BY <1>1, <1>2, <2>2
    <2> HIDE DEF n
    <2>5. CASE ss[j] = <<>>
        <3>1. f[j] = f[k] BY <2>3, <2>4, <2>5
        <3>2. 1 .. j = 1 .. k \cup {j} BY <2>2
        <3>3. Picks(j, g) BY <2>1, <2>3, <2>5, <3>1, <3>2
        <3> HIDE DEF Picks
        <3> QED BY <3>3
    <2>6. CASE ss[j] # <<>>
        <3>1. Len(ss[j]) = 1 /\ ss[j] = <<ss[j][1]>> BY <2>4, <2>6, OneElement
        <3>2. ss[j] = <<ss[j][1]>> BY <3>1
        <3> DEFINE x == ss[j][1]
                   G == [i \in 1 .. n + 1 |-> IF i <= n THEN g[i] ELSE j]
        <3>3. /\ DOMAIN f[j] = 1 .. n + 1
              /\ \A i \in 1 .. n : f[j][i] = f[k][i]
              /\ f[j][n + 1] = x
            <4> DEFINE c == f[k]
                       b == ss[j]
            <4>1. c \in Seq(S) /\ b \in Seq(S) /\ Len(b) = 1 /\ Len(c) = n
                BY <2>3, <2>4, <3>1 DEF n
            <4>2. f[j] = c \o b BY <2>4
            <4> HIDE DEF c, b
            <4> DEFINE r == c \o b
            <4>3. /\ r \in Seq(S) /\ Len(r) = Len(c) + Len(b)
                  /\ \A i \in 1 .. Len(c) : r[i] = c[i]
                  /\ \A i \in 1 .. Len(b) : r[Len(c) + i] = b[i]
                <5>1. c \in Seq(S) /\ b \in Seq(S) BY <4>1
                <5> QED BY <5>1, Concatenation
            <4> HIDE DEF r
            <4>4. DOMAIN r = 1 .. n + 1 /\ \A i \in 1 .. n : r[i] = c[i] BY <2>3, <4>1, <4>3
            <4>5. r[n + 1] = b[1]
                <5>1. 1 \in 1 .. Len(b) BY <4>1
                <5> QED BY <4>1, <4>3, <5>1
            <4> QED BY <4>2, <4>4, <4>5 DEF c, b, r, x
        <3> HIDE DEF x
        <3>4. /\ g \in [1 .. n -> 1 .. k]
              /\ \A i, l \in 1 .. n : i < l => g[i] < g[l]
              /\ \A i \in 1 .. n : ss[g[i]] = <<f[k][i]>>
              /\ \A l \in 1 .. k : ss[l] # <<>> => \E i \in 1 .. n : g[i] = l
            BY <2>1, <2>3
        <3>5. G \in [1 .. n + 1 -> 1 .. j] BY <2>2, <2>3, <3>4
        <3>6. /\ \A i \in 1 .. n : G[i] = g[i] /\ G[i] < j
              /\ G[n + 1] = j
              /\ 1 .. n + 1 = 1 .. n \cup {n + 1}
            BY <2>2, <2>3, <3>4
        <3> HIDE DEF G
        <3>7. \A i, l \in 1 .. n + 1 : i < l => G[i] < G[l]
            <4> SUFFICES ASSUME NEW i \in 1 .. n + 1, NEW l \in 1 .. n + 1, i < l
                         PROVE  G[i] < G[l]
                OBVIOUS
            <4>1. i \in 1 .. n BY <2>3
            <4>2. CASE l = n + 1 BY <3>6, <4>1, <4>2
            <4>3. CASE l # n + 1
                <5>1. l \in 1 .. n BY <2>3, <4>3
                <5> QED BY <3>4, <3>6, <4>1, <5>1
            <4> QED BY <4>2, <4>3
        <3>8. \A i \in 1 .. n + 1 : ss[G[i]] = <<f[j][i]>>
            <4>1. \A i \in 1 .. n : ss[G[i]] = <<f[j][i]>> BY <3>3, <3>4, <3>6
            <4>2. ss[G[n + 1]] = <<f[j][n + 1]>> BY <3>2, <3>3, <3>6 DEF x
            <4> QED BY <3>6, <4>1, <4>2
        <3>9. \A l \in 1 .. j : ss[l] # <<>> => \E i \in 1 .. n + 1 : G[i] = l
            <4>1. 1 .. j = 1 .. k \cup {j} BY <2>2
            <4>2. \A l \in 1 .. k : ss[l] # <<>> => \E i \in 1 .. n + 1 : G[i] = l
                BY <3>4, <3>6
            <4> QED BY <3>6, <4>1, <4>2
        <3>10. Picks(j, G) BY <3>3, <3>5, <3>7, <3>8, <3>9
        <3> HIDE DEF Picks
        <3> QED BY <3>10
    <2> QED BY <2>5, <2>6
<1> HIDE DEF P
<1>5. \A k \in 0 .. Len(ss) : k \in P BY <1>2, <1>3, <1>4, InductionUpTo
<1>6. Len(ss) \in P BY <1>2, <1>5
<1>7. PICK g : Picks(Len(ss), g) BY <1>6 DEF P
<1>8. /\ g \in [DOMAIN FlattenSeq(ss) -> DOMAIN ss]
      /\ \A i, j \in DOMAIN FlattenSeq(ss) : i < j => g[i] < g[j]
      /\ \A i \in DOMAIN FlattenSeq(ss) : ss[g[i]] = <<FlattenSeq(ss)[i]>>
      /\ \A k \in DOMAIN ss : ss[k] # <<>> => \E i \in DOMAIN FlattenSeq(ss) : g[i] = k
    BY <1>1, <1>2, <1>7
<1> QED BY <1>8

\* Flattening pairs puts the two of the i-th at 2 * i - 1 and 2 * i.
LEMMA FlattenPairs ==
    ASSUME NEW S, NEW ss \in Seq(Seq(S)), \A i \in DOMAIN ss : Len(ss[i]) = 2
    PROVE  /\ FlattenSeq(ss) \in Seq(S) /\ Len(FlattenSeq(ss)) = 2 * Len(ss)
           /\ \A i \in DOMAIN ss : /\ FlattenSeq(ss)[2 * i - 1] = ss[i][1]
                                   /\ FlattenSeq(ss)[2 * i] = ss[i][2]
<1>1. PICK f \in [0 .. Len(ss) -> Seq(S)] :
        /\ f[0] = <<>>
        /\ \A k \in 1 .. Len(ss) : f[k] = f[k - 1] \o ss[k]
        /\ FlattenSeq(ss) = f[Len(ss)]
    BY FlattenSteps
<1>2. /\ Len(ss) \in Nat /\ DOMAIN ss = 1 .. Len(ss)
      /\ \A k \in 1 .. Len(ss) : ss[k] \in Seq(S) /\ Len(ss[k]) = 2
    OBVIOUS
<1> DEFINE P == {k \in Nat : /\ Len(f[k]) = 2 * k
                             /\ \A i \in 1 .. k : /\ f[k][2 * i - 1] = ss[i][1]
                                                  /\ f[k][2 * i] = ss[i][2]}
<1>3. 0 \in P BY <1>1
<1>4. ASSUME NEW k \in Nat, k < Len(ss), k \in P
      PROVE  k + 1 \in P
    <2> DEFINE j == k + 1
    <2>1. j \in 1 .. Len(ss) /\ j - 1 = k /\ k \in 0 .. Len(ss) BY <1>2, <1>4
    <2>2. /\ f[k] \in Seq(S) /\ Len(f[k]) = 2 * k
          /\ \A i \in 1 .. k : f[k][2 * i - 1] = ss[i][1] /\ f[k][2 * i] = ss[i][2]
        BY <1>4, <2>1
    <2>3. f[j] = f[k] \o ss[j] /\ ss[j] \in Seq(S) /\ Len(ss[j]) = 2
        BY <1>1, <1>2, <2>1
    <2>4. /\ Len(f[j]) = 2 * k + 2
          /\ \A i \in 1 .. 2 * k : f[j][i] = f[k][i]
          /\ \A i \in 1 .. 2 : f[j][2 * k + i] = ss[j][i]
        <3> DEFINE c == f[k]
                   b == ss[j]
        <3>1. c \in Seq(S) /\ b \in Seq(S) /\ Len(b) = 2 /\ Len(c) = 2 * k
            BY <2>2, <2>3
        <3>2. f[j] = c \o b BY <2>3
        <3> HIDE DEF c, b
        <3> DEFINE r == c \o b
        <3>3. /\ r \in Seq(S) /\ Len(r) = Len(c) + Len(b)
              /\ \A i \in 1 .. Len(c) : r[i] = c[i]
              /\ \A i \in 1 .. Len(b) : r[Len(c) + i] = b[i]
            <4>1. c \in Seq(S) /\ b \in Seq(S) BY <3>1
            <4> QED BY <4>1, Concatenation
        <3> HIDE DEF r
        <3>4. /\ Len(r) = 2 * k + 2
              /\ \A i \in 1 .. 2 * k : r[i] = c[i]
              /\ \A i \in 1 .. 2 : r[2 * k + i] = b[i]
            BY <3>1, <3>3
        <3> QED BY <3>2, <3>4 DEF c, b, r
    <2>5. f[j][2 * j - 1] = ss[j][1] /\ f[j][2 * j] = ss[j][2] /\ Len(f[j]) = 2 * j
        <3>1. 2 * j - 1 = 2 * k + 1 /\ 2 * j = 2 * k + 2 OBVIOUS
        <3>2. f[j][2 * k + 1] = ss[j][1] /\ f[j][2 * k + 2] = ss[j][2] BY <2>4
        <3> HIDE DEF j
        <3> QED BY <2>4, <3>1, <3>2
    <2>6. ASSUME NEW i \in 1 .. k
          PROVE  f[j][2 * i - 1] = ss[i][1] /\ f[j][2 * i] = ss[i][2]
        <3>1. 2 * i - 1 \in 1 .. 2 * k /\ 2 * i \in 1 .. 2 * k OBVIOUS
        <3> QED BY <2>2, <2>4, <3>1
    <2>7. 1 .. j = 1 .. k \cup {j} /\ j \in Nat OBVIOUS
    <2> HIDE DEF j
    <2>8. \A i \in 1 .. j : f[j][2 * i - 1] = ss[i][1] /\ f[j][2 * i] = ss[i][2]
        <3> SUFFICES ASSUME NEW i \in 1 .. j
                     PROVE  f[j][2 * i - 1] = ss[i][1] /\ f[j][2 * i] = ss[i][2]
            OBVIOUS
        <3>1. CASE i = j BY <2>5, <3>1
        <3>2. CASE i \in 1 .. k BY <2>6, <3>2
        <3> QED BY <2>7, <3>1, <3>2
    <2>9. j \in P BY <2>5, <2>7, <2>8
    <2> QED BY <2>9 DEF j
<1> HIDE DEF P
<1>5. \A k \in 0 .. Len(ss) : k \in P BY <1>2, <1>3, <1>4, InductionUpTo
<1>6. Len(ss) \in P /\ Len(ss) \in 0 .. Len(ss) BY <1>2, <1>5
<1>7. f[Len(ss)] \in Seq(S) BY <1>6
<1> QED BY <1>1, <1>2, <1>6, <1>7 DEF P

----------------------------------------------------------------------------
(* Quotients and bits *)

\* Of two multiples of a number, the larger one is larger by that number.
LEMMA TimesBelow ==
    ASSUME NEW p \in Nat, NEW a \in Int, NEW b \in Int, a < b
    PROVE  p * a + p <= p * b
<1> DEFINE d == b - a - 1
<1>1. d \in Nat OBVIOUS
<1>2. p * d >= 0 BY <1>1
<1>3. p * (b - a - 1) = p * b - p * a - p OBVIOUS
<1> QED BY <1>2, <1>3

\* A number is its quotient and its remainder,
LEMMA DivParts ==
    ASSUME NEW x \in Nat, NEW p \in Nat, p > 0
    PROVE  x \div p \in Nat /\ x % p \in 0 .. p - 1 /\ x = p * (x \div p) + (x % p)
OBVIOUS

\* and there are no others.
LEMMA DivIs ==
    ASSUME NEW p \in Nat, p > 0, NEW y \in Nat, NEW l \in 0 .. p - 1
    PROVE  (p * y + l) \div p = y /\ (p * y + l) % p = l
<1> DEFINE x == p * y + l
           d == x \div p
           r == x % p
<1>1. x \in Nat OBVIOUS
<1>2. d \in Nat /\ r \in 0 .. p - 1 /\ x = p * d + r BY <1>1, DivParts
<1>3. p * y + l = p * d + r BY <1>2
<1> HIDE DEF d, r
<1>4. d = y
    <2>1. CASE d < y
        <3>1. p * d + p <= p * y BY <1>2, <2>1, TimesBelow
        <3> QED BY <1>2, <1>3, <3>1
    <2>2. CASE y < d
        <3>1. p * y + p <= p * d BY <1>2, <2>2, TimesBelow
        <3> QED BY <1>2, <1>3, <3>1
    <2> QED BY <1>2, <2>1, <2>2
<1>5. r = l BY <1>2, <1>3, <1>4
<1> QED BY <1>4, <1>5 DEF d, r

\* The bit of x of weight p, a power of two.
BitOf(x, p) == (x \div p) % 2

\* What stands above a bit, the bit, and what stands below it.
BitParts(x, p, h, b, l) ==
    h \in Nat /\ b \in 0 .. 1 /\ l \in 0 .. p - 1 /\ x = p * (2 * h + b) + l

\* A number has these parts,
LEMMA HasBit ==
    ASSUME NEW x \in Nat, NEW p \in Nat, p > 0
    PROVE  BitOf(x, p) \in 0 .. 1 /\ \E h, l : BitParts(x, p, h, BitOf(x, p), l)
<1> DEFINE y == x \div p
           l == x % p
           h == y \div 2
<1>1. y \in Nat /\ l \in 0 .. p - 1 /\ x = p * y + l BY DivParts
<1>2. h \in Nat /\ y % 2 \in 0 .. 1 /\ y = 2 * h + (y % 2) BY <1>1, DivParts
<1>3. BitOf(x, p) = y % 2 BY DEF BitOf
<1> HIDE DEF y, l, h
<1>4. x = p * (2 * h + BitOf(x, p)) + l BY <1>1, <1>2, <1>3
<1>5. BitParts(x, p, h, BitOf(x, p), l) BY <1>1, <1>2, <1>3, <1>4 DEF BitParts
<1> QED BY <1>2, <1>3, <1>5

\* and no others.
LEMMA BitIs ==
    ASSUME NEW x, NEW p \in Nat, p > 0, NEW h, NEW b, NEW l, BitParts(x, p, h, b, l)
    PROVE  BitOf(x, p) = b
<1> DEFINE y == 2 * h + b
<1>1. y \in Nat /\ l \in 0 .. p - 1 /\ x = p * y + l BY DEF BitParts
<1>2. y % 2 = b BY DEF BitParts
<1> HIDE DEF y
<1>3. (p * y + l) \div p = y BY <1>1, DivIs
<1> QED BY <1>1, <1>2, <1>3 DEF BitOf

\* y is x with the lower bits v put below.
Joined(y, x, f, v) == v \in 0 .. f - 1 /\ y = x * f + v

\* Shifted to the left, with other bits put below,
LEMMA BitShiftedLeft ==
    ASSUME NEW x \in Nat, NEW p \in Nat, p > 0, NEW f \in Nat, NEW v, NEW y, Joined(y, x, f, v),
           NEW q, q = f * p
    PROVE  BitOf(y, q) = BitOf(x, p)
<1> DEFINE b == BitOf(x, p)
<1>0. v \in 0 .. f - 1 /\ y = x * f + v BY DEF Joined
<1>1. PICK h, l : BitParts(x, p, h, b, l) BY HasBit
<1> HIDE DEF b
<1>2. h \in Nat /\ b \in 0 .. 1 /\ l \in 0 .. p - 1 /\ x = p * (2 * h + b) + l
    BY <1>1 DEF BitParts
<1> DEFINE m == f * l + v
<1>3. m \in 0 .. q - 1 /\ q \in Nat /\ q > 0
    <2>1. f * l + f <= f * p BY <1>2, TimesBelow
    <2>2. f > 0 /\ l + 1 <= p BY <1>0, <1>2
    <2>3. q \in Nat /\ q > 0
        <3>1. f * p > 0 BY <2>2
        <3> QED BY <3>1
    <2>4. m \in Nat /\ m < f * l + f BY <1>0, <1>2
    <2>5. m < q BY <1>2, <2>1, <2>4
    <2> HIDE DEF m
    <2> QED BY <2>3, <2>4, <2>5
<1>4. y = q * (2 * h + b) + m
    <2>1. x * f = f * (p * (2 * h + b)) + f * l BY <1>2
    <2>2. f * (p * (2 * h + b)) = q * (2 * h + b) BY <1>2
    <2> QED BY <1>0, <1>2, <2>1, <2>2
<1> HIDE DEF m
<1>5. BitParts(y, q, h, b, m) BY <1>2, <1>3, <1>4 DEF BitParts
<1>6. BitOf(y, q) = b BY <1>3, <1>5, BitIs
<1> QED BY <1>6 DEF b

\* below what is put above it,
LEMMA BitBelow ==
    ASSUME NEW x \in Nat, NEW p \in Nat, p > 0, NEW n \in Nat
    PROVE  BitOf(p * (2 * n) + x, p) = BitOf(x, p)
<1> DEFINE b == BitOf(x, p)
           y == p * (2 * n) + x
<1>1. PICK h, l : BitParts(x, p, h, b, l) BY HasBit
<1> HIDE DEF b
<1>2. h \in Nat /\ b \in 0 .. 1 /\ l \in 0 .. p - 1 /\ x = p * (2 * h + b) + l
    BY <1>1 DEF BitParts
<1> DEFINE g == h + n
<1>3. y = p * (2 * g + b) + l BY <1>2
<1>4. g \in Nat BY <1>2
<1> HIDE DEF g, y
<1>5. BitParts(y, p, g, b, l) BY <1>2, <1>3, <1>4 DEF BitParts
<1>6. BitOf(y, p) = b BY <1>5, BitIs
<1> QED BY <1>6 DEF b, y

\* What a mask above the bit is.
Above(q, p) == \E m \in Nat \ {0} : q = p * (2 * m)

\* with the bits above it masked off,
LEMMA BitMasked ==
    ASSUME NEW x \in Nat, NEW p \in Nat, p > 0, NEW q, Above(q, p)
    PROVE  BitOf(x % q, p) = BitOf(x, p)
<1>0. PICK m \in Nat : m > 0 /\ q = p * (2 * m) BY DEF Above
<1> DEFINE k == x \div q
           r == x % q
           n == m * k
<1>1. q \in Nat /\ q > 0
    <2> DEFINE d == p * m
    <2>1. d \in Nat /\ d > 0 BY <1>0
    <2>2. q = 2 * d BY <1>0
    <2> HIDE DEF d
    <2> QED BY <2>1, <2>2
<1>2. k \in Nat /\ r \in Nat /\ x = q * k + r BY <1>1, DivParts
<1> HIDE DEF k, r
<1>3. n \in Nat BY <1>0, <1>2
<1>4. q * k = p * (2 * n) BY <1>0, <1>2
<1> HIDE DEF n
<1>5. x = p * (2 * n) + r BY <1>2, <1>4
<1>6. BitOf(p * (2 * n) + r, p) = BitOf(r, p) BY <1>2, <1>3, BitBelow
<1> QED BY <1>5, <1>6 DEF r

\* and shifted to the right.
LEMMA BitShiftedRight ==
    ASSUME NEW x \in Nat, NEW s \in Nat, s > 0, NEW p \in Nat, p > 0
    PROVE  BitOf(x \div s, p) = BitOf(x, s * p)
<1> DEFINE y == x \div s
           r == x % s
<1>1. y \in Nat /\ r \in 0 .. s - 1 /\ x = s * y + r BY DivParts
<1> HIDE DEF y, r
<1>2. Joined(x, y, s, r) BY <1>1 DEF Joined
<1>3. BitOf(x, s * p) = BitOf(y, p) BY <1>1, <1>2, BitShiftedLeft
<1> QED BY <1>3 DEF y
=============================================================================
