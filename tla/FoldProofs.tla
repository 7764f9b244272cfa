----------------------------- MODULE FoldProofs ------------------------------
(***************************************************************************)
(* Proofs by induction over data.  An induction theorem of the library     *)
(* takes the formula to prove as an operator, which no prover here can     *)
(* instantiate; Induction takes the set of the numbers for which it holds. *)
(* It rests on inclusion of finite sets being well-founded.                *)
(*                                                                         *)
(* FoldSteps and FoldInvariant say what FoldLeft computes.  They are about *)
(* one Step and one Base, the parameters of this module: a proof about a   *)
(* fold instantiates it and cites the two laws of the instance.            *)
(***************************************************************************)
EXTENDS Integers, SequencesExt, FiniteSetTheorems, WellFoundedInduction,
        SequenceTheorems, TLAPS

CONSTANTS Step(_, _), Base

Folded(s) == FoldLeft(Step, Base, s)

\* A set of numbers has a least element: the sets 1 .. n of its numbers n are
\* finite, and one of them has none of the others inside.
LEMMA Least ==
    ASSUME NEW S, S \subseteq Nat, S # {}
    PROVE  \E n \in S : \A m \in S : n <= m
<1> DEFINE T == {1 .. n : n \in S}
           R == StrictSubsetOrdering(Nat)
<1>1. T # {} /\ IsWellFoundedOn(R, FiniteSubsetsOf(Nat))
  BY FS_StrictSubsetOrderingWellFounded, Zenon
<1>2. \A n \in S : 1 .. n \in FiniteSubsetsOf(Nat)
  <2>1. TAKE n \in S
  <2>2. IsFiniteSet(1 .. n) BY FS_Interval
  <2>3. QED BY <2>2 DEF FiniteSubsetsOf
<1>3. T \subseteq FiniteSubsetsOf(Nat) BY <1>2, Zenon
<1> HIDE DEF R
<1>4. \E x \in T : \A y \in T : ~(<<y, x>> \in R)
  <2> HIDE DEF T
  <2> QED BY <1>1, <1>3, WFMin, Zenon
<1>5. PICK n \in S : \A m \in S : ~(<<1 .. m, 1 .. n>> \in R) BY <1>4, Zenon
<1>6. \A m \in S : ~(m < n)
  <2>1. SUFFICES ASSUME NEW m \in S, m < n PROVE <<1 .. m, 1 .. n>> \in R
    BY <1>5, Zenon
  <2>2. 1 .. m # 1 .. n BY <2>1
  <2> QED BY <2>1, <2>2 DEF R, StrictSubsetOrdering
<1> QED BY <1>6

\* What holds of 0, and of i if of i - 1, holds as far as n: where it fails, it
\* would fail first.
LEMMA Induction ==
    ASSUME NEW n \in Nat, NEW Good, 0 \in Good,
           \A i \in 1 .. n : i - 1 \in Good => i \in Good
    PROVE  0 .. n \subseteq Good
<1> DEFINE Bad == {i \in 0 .. n : i \notin Good}
<1>1. SUFFICES ASSUME Bad # {} PROVE FALSE OBVIOUS
<1>2. PICK i \in Bad : \A m \in Bad : i <= m
  <2>1. Bad \subseteq Nat OBVIOUS
  <2> HIDE DEF Bad
  <2> QED BY <1>1, <2>1, Least
<1>3. i # 0 /\ i \in 1 .. n OBVIOUS
<1>4. i - 1 \in Good BY <1>2, <1>3
<1> QED BY <1>2, <1>3, <1>4

-----------------------------------------------------------------------------
\* The recursion of MapThenFoldSet over the places of s, as far as n.
IterOf(it, s, T) ==
    IF T = {} THEN Base ELSE Step(it[T \ {Max(T)}], s[Max(T)])

Iterates(it, s, n) == it = [T \in SUBSET (1 .. n) |-> IterOf(it, s, T)]

LEMMA MaxOfPlaces ==
    ASSUME NEW n \in Nat, NEW T \in SUBSET (1 .. n), T # {}
    PROVE  Max(T) \in T /\ \A m \in T : m <= Max(T)
<1> DEFINE U == {n - m : m \in T}
<1>1. \A m \in T : m \in Nat /\ n - m \in Nat OBVIOUS
<1>2. U \subseteq Nat /\ U # {} BY <1>1
<1>3. PICK k \in U : \A m \in U : k <= m
  <2> HIDE DEF U
  <2> QED BY <1>2, Least
<1>4. PICK x \in T : k = n - x BY <1>3
<1>5. \A m \in T : m <= x
  <2>1. TAKE m \in T
  <2>2. n - m \in U OBVIOUS
  <2>3. n - x <= n - m BY <1>3, <1>4, <2>2
  <2> QED BY <1>1, <2>3
<1>6. \E y \in T : \A m \in T : y >= m BY <1>1, <1>5
<1>7. Max(T) \in T /\ \A m \in T : Max(T) >= m BY <1>6 DEF Max
<1> QED BY <1>1, <1>7

LEMMA IterExists ==
    ASSUME NEW s, NEW n \in Nat
    PROVE  \E it : Iterates(it, s, n)
<1> DEFINE Good == {i \in 0 .. n : \E it : Iterates(it, s, i)}
<1>1. 0 \in Good
  <2> DEFINE it == [T \in SUBSET (1 .. 0) |-> Base]
  <2>1. it = [T \in SUBSET (1 .. 0) |-> IterOf(it, s, T)]
    <3>1. \A T \in SUBSET (1 .. 0) : IterOf(it, s, T) = Base
      <4> HIDE DEF it
      <4> QED BY DEF IterOf
    <3> QED BY <3>1
  <2>2. Iterates(it, s, 0)
    <3> HIDE DEF it
    <3> QED BY <2>1, Zenon DEF Iterates
  <2> HIDE DEF it
  <2> QED BY <2>2
<1>2. ASSUME NEW i \in 1 .. n, i - 1 \in Good PROVE i \in Good
  <2>1. PICK it : Iterates(it, s, i - 1) BY <1>2
  <2> DEFINE jt == [T \in SUBSET (1 .. i) |-> IterOf(it, s, T)]
  <2>2. \A T \in SUBSET (1 .. i - 1) : it[T] = IterOf(it, s, T)
    <3> DEFINE F(T) == IterOf(it, s, T)
    <3>1. it = [T \in SUBSET (1 .. i - 1) |-> F(T)] BY <2>1 DEF Iterates
    <3> HIDE DEF F
    <3>2. \A T \in SUBSET (1 .. i - 1) : it[T] = F(T) BY <3>1
    <3> QED BY <3>2 DEF F
  <2>3. \A T \in SUBSET (1 .. i - 1) : jt[T] = it[T] BY <2>2
  <2> HIDE DEF jt
  <2>4. \A T \in SUBSET (1 .. i) : IterOf(jt, s, T) = IterOf(it, s, T)
    <3>1. TAKE T \in SUBSET (1 .. i)
    <3>2. CASE T = {} BY <3>2 DEF IterOf
    <3>3. CASE T # {}
      <4>1. T \ {Max(T)} \in SUBSET (1 .. i - 1)
        <5>1. i \in Nat OBVIOUS
        <5>2. Max(T) \in T /\ \A m \in T : m <= Max(T)
          BY <3>3, <5>1, MaxOfPlaces
        <5>3. ASSUME NEW m \in T, m # Max(T) PROVE m \in 1 .. i - 1
          <6>1. m \in 1 .. i /\ Max(T) \in 1 .. i /\ m <= Max(T) BY <5>2
          <6> QED BY <5>1, <5>3, <6>1
        <5> QED BY <5>3
      <4>2. jt[T \ {Max(T)}] = it[T \ {Max(T)}] BY <4>1, <2>3
      <4> QED BY <3>3, <4>2 DEF IterOf
    <3> QED BY <3>2, <3>3
  <2>5. jt = [T \in SUBSET (1 .. i) |-> IterOf(jt, s, T)] BY <2>4 DEF jt
  <2>6. Iterates(jt, s, i) BY <2>5, Zenon DEF Iterates
  <2> QED BY <2>6
<1>3. 0 .. n \subseteq Good
  <2> HIDE DEF Good
  <2> QED BY <1>1, <1>2, Induction
<1> QED BY <1>3

LEMMA FoldIterates ==
    ASSUME NEW S, NEW s \in Seq(S)
    PROVE  \E it : Iterates(it, s, Len(s)) /\ Folded(s) = it[1 .. Len(s)]
<1>1. DOMAIN s = 1 .. Len(s) /\ Len(s) \in Nat OBVIOUS
<1> DEFINE it == CHOOSE it : Iterates(it, s, Len(s))
<1>2. Iterates(it, s, Len(s)) BY <1>1, IterExists
<1>3. Folded(s) = it[DOMAIN s]
  BY <1>1, Zenon DEF Folded, FoldLeft, MapThenFoldSet, Iterates, IterOf
<1> QED BY <1>1, <1>2, <1>3

\* A fold over a sequence goes through its elements from the first one.
LEMMA FoldSteps ==
    ASSUME NEW S, NEW s \in Seq(S)
    PROVE  \E f : /\ f[0] = Base
                  /\ \A i \in 1 .. Len(s) : f[i] = Step(f[i - 1], s[i])
                  /\ Folded(s) = f[Len(s)]
<1>1. Len(s) \in Nat OBVIOUS
<1>2. PICK it : Iterates(it, s, Len(s)) /\ Folded(s) = it[1 .. Len(s)]
  BY FoldIterates
<1>3. \A T \in SUBSET (1 .. Len(s)) : it[T] = IterOf(it, s, T)
  <2> DEFINE F(T) == IterOf(it, s, T)
  <2>1. it = [T \in SUBSET (1 .. Len(s)) |-> F(T)] BY <1>2 DEF Iterates
  <2> HIDE DEF F
  <2>2. \A T \in SUBSET (1 .. Len(s)) : it[T] = F(T) BY <2>1
  <2> QED BY <2>2 DEF F
<1> DEFINE f == [i \in 0 .. Len(s) |-> it[1 .. i]]
<1>4. f[0] = Base
  <2>1. 1 .. 0 = {} /\ {} \in SUBSET (1 .. Len(s)) BY <1>1
  <2>2. it[{}] = Base BY <1>3, <2>1 DEF IterOf
  <2> QED BY <1>1, <2>1, <2>2
<1>5. ASSUME NEW i \in 1 .. Len(s) PROVE f[i] = Step(f[i - 1], s[i])
  <2>1. 1 .. i \in SUBSET (1 .. Len(s)) /\ 1 .. i # {} /\ i \in Nat
    <3>1. i \in Nat /\ i \in 1 .. i /\ i <= Len(s) BY <1>1
    <3>2. 1 .. i \subseteq 1 .. Len(s) BY <1>1, <3>1
    <3> QED BY <3>1, <3>2
  <2>2. Max(1 .. i) = i
    <3>1. Max(1 .. i) \in 1 .. i /\ \A m \in 1 .. i : m <= Max(1 .. i)
      BY <2>1, MaxOfPlaces
    <3>2. i \in 1 .. i BY <2>1
    <3> QED BY <3>1, <3>2
  <2>3. (1 .. i) \ {i} = 1 .. (i - 1) BY <2>1
  <2>4. it[1 .. i] = Step(it[1 .. (i - 1)], s[i])
    BY <1>3, <2>1, <2>2, <2>3 DEF IterOf
  <2>5. i \in 0 .. Len(s) /\ i - 1 \in 0 .. Len(s) BY <1>1
  <2> QED BY <2>4, <2>5
<1>6. Folded(s) = f[Len(s)] BY <1>1, <1>2
<1> HIDE DEF f
<1> QED BY <1>4, <1>5, <1>6

\* What holds at first and is kept by every step holds of the result.
LEMMA FoldInvariant ==
    ASSUME NEW S, NEW s \in Seq(S), NEW Good, Base \in Good,
           \A x \in Good : \A i \in 1 .. Len(s) : Step(x, s[i]) \in Good
    PROVE  Folded(s) \in Good
<1>1. Len(s) \in Nat OBVIOUS
<1>2. PICK f : /\ f[0] = Base
               /\ \A i \in 1 .. Len(s) : f[i] = Step(f[i - 1], s[i])
               /\ Folded(s) = f[Len(s)]
  BY FoldSteps
<1> DEFINE Ok == {i \in 0 .. Len(s) : f[i] \in Good}
<1>3. 0 \in Ok BY <1>1, <1>2
<1>4. \A i \in 1 .. Len(s) : i - 1 \in Ok => i \in Ok BY <1>1, <1>2
<1>5. 0 .. Len(s) \subseteq Ok
  <2> HIDE DEF Ok
  <2> QED BY <1>1, <1>3, <1>4, Induction
<1> QED BY <1>1, <1>2, <1>5

\* The last element is taken last.
LEMMA FoldAppend ==
    ASSUME NEW S, NEW s \in Seq(S), NEW e \in S
    PROVE  Folded(Append(s, e)) = Step(Folded(s), e)
<1> DEFINE t == Append(s, e)
<1>1. /\ t \in Seq(S) /\ Len(s) \in Nat /\ Len(t) = Len(s) + 1
      /\ \A i \in 1 .. Len(s) : t[i] = s[i]
      /\ t[Len(s) + 1] = e
  OBVIOUS
<1> HIDE DEF t
<1>2. PICK f : /\ f[0] = Base
               /\ \A i \in 1 .. Len(s) : f[i] = Step(f[i - 1], s[i])
               /\ Folded(s) = f[Len(s)]
  BY FoldSteps
<1>3. PICK g : /\ g[0] = Base
               /\ \A i \in 1 .. Len(t) : g[i] = Step(g[i - 1], t[i])
               /\ Folded(t) = g[Len(t)]
  BY <1>1, FoldSteps
<1> DEFINE Ok == {i \in 0 .. Len(s) : g[i] = f[i]}
<1>4. 0 \in Ok BY <1>1, <1>2, <1>3
<1>5. ASSUME NEW i \in 1 .. Len(s), i - 1 \in Ok PROVE i \in Ok
  <2>1. i \in 1 .. Len(t) /\ t[i] = s[i] /\ g[i - 1] = f[i - 1] BY <1>1, <1>5
  <2>2. g[i] = f[i] BY <1>2, <1>3, <2>1
  <2> QED BY <1>1, <2>2
<1>6. 0 .. Len(s) \subseteq Ok
  <2> HIDE DEF Ok
  <2> QED BY <1>1, <1>4, <1>5, Induction
<1>7. g[Len(s)] = f[Len(s)] BY <1>1, <1>6
<1>8. g[Len(s) + 1] = Step(g[Len(s)], e)
  <2>1. Len(s) + 1 \in 1 .. Len(t) /\ (Len(s) + 1) - 1 = Len(s) BY <1>1
  <2> QED BY <1>1, <1>3, <2>1
<1> QED BY <1>1, <1>2, <1>3, <1>7, <1>8 DEF t

LEMMA FoldEmpty == Folded(<< >>) = Base
<1>1. << >> \in Seq({}) /\ Len(<< >>) = 0 OBVIOUS
<1> QED BY <1>1, FoldSteps

\* Sequences by induction: a set that has the empty sequence, and with a
\* sequence of it every longer one, has them all.
LEMMA SequenceInduction ==
    ASSUME NEW S, NEW Good, << >> \in Good,
           \A s \in Seq(S) : \A e \in S : s \in Good => Append(s, e) \in Good
    PROVE  Seq(S) \subseteq Good
<1>1. SUFFICES ASSUME NEW s \in Seq(S) PROVE s \in Good OBVIOUS
<1>2. Len(s) \in Nat OBVIOUS
<1> DEFINE Ok == {i \in 0 .. Len(s) : SubSeq(s, 1, i) \in Good}
<1>3. 0 \in Ok
  <2>1. SubSeq(s, 1, 0) = << >> BY SubSeqEmpty
  <2>2. SubSeq(s, 1, 0) \in Good BY <2>1
  <2>3. 0 \in 0 .. Len(s) BY <1>2
  <2> QED BY <2>2, <2>3
<1>4. ASSUME NEW i \in 1 .. Len(s), i - 1 \in Ok PROVE i \in Ok
  <2>1. SubSeq(s, 1, i - 1) \in Good /\ i - 1 \in Nat BY <1>2, <1>4
  <2>2. SubSeq(s, 1, i - 1) \in Seq(S) /\ s[i] \in S
    <3>1. \A j \in 1 .. Len(s) : s[j] \in S BY ElementOfSeq
    <3>2. \A j \in 1 .. i - 1 : s[j] \in S BY <1>2, <3>1
    <3>3. i - 1 \in Int BY <1>2
    <3>4. SubSeq(s, 1, i - 1) \in Seq(S) BY <3>2, <3>3, SubSeqProperties
    <3> QED BY <3>1, <3>4
  <2>3. SubSeq(s, 1, i) = SubSeq(s, 1, i - 1) \o <<s[i]>>
    BY <1>2, SubSeqRecursiveSecond
  <2>4. SubSeq(s, 1, i) = Append(SubSeq(s, 1, i - 1), s[i])
    BY <2>2, <2>3, AppendIsConcat
  <2>5. SubSeq(s, 1, i) \in Good BY <2>1, <2>2, <2>4
  <2> QED BY <1>2, <2>5
<1>5. 0 .. Len(s) \subseteq Ok
  <2> HIDE DEF Ok
  <2> QED BY <1>2, <1>3, <1>4, Induction
<1>6. Len(s) \in 0 .. Len(s) BY <1>2
<1>7. SubSeq(s, 1, Len(s)) \in Good BY <1>5, <1>6
<1> QED BY <1>7, SubSeqFull
=============================================================================
