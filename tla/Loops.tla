---------------------------------- MODULE Loops --------------------------------
(***************************************************************************)
(* What the proofs about the loops of the code need.  A scan finds a first *)
(* entry (the tables of FS); what holds before a loop and after each of    *)
(* its turns holds throughout (the maps and transfers of FS, the sectors   *)
(* of HD); a loop whose turns are a function has a run (deadlock()); and   *)
(* what places in bytes and sectors are computed with.                     *)
(***************************************************************************)
EXTENDS Integers, FiniteSetTheorems, TLAPS

\* A nonempty set of naturals has a least element.
LEMMA LeastElement ==
  ASSUME NEW T, T \subseteq Nat, T # {}
  PROVE  \E m \in T : \A k \in T : m <= k
<1> DEFINE below(k) == 0 .. k - 1
           F == {below(k) : k \in T}
           R == StrictSubsetOrdering(Nat)
<1>1. F # {} /\ F \subseteq FiniteSubsetsOf(Nat)
  <2>1. \A k \in T : IsFiniteSet(below(k)) /\ below(k) \subseteq Nat
    BY FS_Interval
  <2> QED
    BY <2>1 DEF FiniteSubsetsOf
<1>2. IsWellFoundedOn(R, FiniteSubsetsOf(Nat))
  BY FS_StrictSubsetOrderingWellFounded
<1>3. PICK x \in F : \A y \in F : <<y, x>> \notin R
  <2> HIDE DEF F, R
  <2> QED
    BY <1>1, <1>2, WFMin
<1>4. PICK m \in T : x = below(m)
  OBVIOUS
<1>5. ASSUME NEW k \in T, ~(m <= k)
      PROVE  FALSE
  <2>1. <<below(k), below(m)>> \notin R
    BY <1>3, <1>4
  <2>2. below(k) \subseteq below(m) /\ k \in below(m) /\ k \notin below(k)
    BY <1>5
  <2> QED
    BY <2>1, <2>2 DEF StrictSubsetOrdering
<1> QED
  BY <1>5

\* Turn after turn: what holds at the start, and after a turn if before it.
LEMMA TurnByTurn ==
  ASSUME NEW n \in Nat, NEW T, 0 \in T, \A i \in 0 .. n - 1 : i \in T => i + 1 \in T
  PROVE  0 .. n \subseteq T
<1> DEFINE S == {i \in 0 .. n : i \notin T}
<1>1. SUFFICES ASSUME S # {}
               PROVE  FALSE
  OBVIOUS
<1>2. S \subseteq Nat
  OBVIOUS
<1>3. PICK m \in S : \A k \in S : m <= k
  <2> HIDE DEF S
  <2> QED
    BY <1>1, <1>2, LeastElement
<1>4. m # 0 /\ m - 1 \in 0 .. n - 1 /\ m - 1 \notin S
  BY <1>3
<1> QED
  BY <1>3, <1>4

\* A run of a loop of n turns: the value it starts with, and that after each turn.
IsRun(f, start, turn, n) == f[0] = start /\ \A i \in 1 .. n : f[i] = turn[f[i - 1]]

\* A loop of n turns, each of which takes a value in S to one in S, has a run.
LEMMA LoopRuns ==
  ASSUME NEW S, NEW start \in S, NEW turn \in [S -> S], NEW n \in Nat
  PROVE  \E f \in [0 .. n -> S] : IsRun(f, start, turn, n)
<1> DEFINE T == {m \in 0 .. n : \E f \in [0 .. m -> S] : IsRun(f, start, turn, m)}
<1>1. 0 \in T
  <2> DEFINE f == [i \in 0 .. 0 |-> start]
  <2>1. f \in [0 .. 0 -> S] /\ IsRun(f, start, turn, 0)
    BY DEF IsRun
  <2> HIDE DEF f
  <2> QED
    BY <2>1
<1>2. ASSUME NEW m \in 0 .. n - 1, m \in T
      PROVE  m + 1 \in T
  <2>1. PICK f \in [0 .. m -> S] : IsRun(f, start, turn, m)
    BY <1>2
  <2> DEFINE g == [i \in 0 .. m + 1 |-> IF i <= m THEN f[i] ELSE turn[f[m]]]
  <2>2. g \in [0 .. m + 1 -> S] /\ \A i \in 0 .. m : g[i] = f[i]
    OBVIOUS
  <2>3. IsRun(g, start, turn, m + 1)
    <3>1. g[0] = start
      BY <2>1, <2>2 DEF IsRun
    <3>2. ASSUME NEW i \in 1 .. m + 1
          PROVE  g[i] = turn[g[i - 1]]
      BY <2>1, <2>2 DEF IsRun
    <3> QED
      BY <3>1, <3>2 DEF IsRun
  <2> HIDE DEF g
  <2> QED
    BY <2>2, <2>3
<1>3. n \in T
  <2> HIDE DEF T
  <2> QED
    BY <1>1, <1>2, TurnByTurn
<1> QED
  BY <1>3

\* The division of naturals.
LEMMA Division ==
  ASSUME NEW a \in Nat, NEW b \in Nat \ {0}
  PROVE  a \div b \in Nat /\ a % b \in 0 .. b - 1 /\ a = b * (a \div b) + (a % b)
OBVIOUS

\* A product grows with its first factor.
LEMMA ProductsGrow ==
  ASSUME NEW D \in Nat, NEW j \in Nat, NEW k \in Nat, j < k
  PROVE  j * D + D <= k * D
<1>1. PICK e \in Nat : k = j + 1 + e
  <2> WITNESS k - j - 1 \in Nat
  <2> QED
    OBVIOUS
<1>2. k * D = j * D + D + e * D
  BY <1>1
<1>3. e * D \in Nat /\ j * D \in Nat
  OBVIOUS
<1> QED
  BY <1>2, <1>3
=============================================================================
