---------------------------- MODULE SumTheorems -----------------------------
(***************************************************************************)
(* Facts that the proofs about the components rest on: induction over the  *)
(* numbers and over finite sets in the form of sets, the existence of      *)
(* recursive functions, and the sums that SumFunction forms.               *)
(***************************************************************************)
EXTENDS Functions, FiniteSetTheorems, WellFoundedInduction, TLAPS

-----------------------------------------------------------------------------
(* Induction.                                                              *)

(* Every nonempty set of numbers has a least element.                      *)
LEMMA LeastNumber ==
    ASSUME NEW T, T \subseteq Nat, T # {}
    PROVE  \E x \in T : \A y \in T : x <= y
<1>1. PICK x \in T : \A y \in T : <<y, x>> \notin OpToRel(<, Nat)
  BY NatLessThanWellFounded, WFMin, Zenon
<1>2. \A y \in T : ~(y < x)
  BY <1>1, Zenon DEF OpToRel
<1> QED
  BY <1>2

(* A set that has 0 and with every number its successor has them all.      *)
LEMMA SetInduction ==
    ASSUME NEW S, 0 \in S, \A n \in Nat : n \in S => n + 1 \in S
    PROVE  Nat \subseteq S
<1> SUFFICES ASSUME Nat \ S # {} PROVE FALSE
  OBVIOUS
<1>1. PICK x \in Nat \ S : \A y \in Nat \ S : x <= y
  BY LeastNumber, Nat \ S \subseteq Nat, Zenon
<1>2. x # 0 /\ x - 1 \in Nat /\ x - 1 \notin Nat \ S
  BY <1>1
<1> QED
  BY <1>2

(* What holds of the empty set, and of a set if it does of the set without *)
(* any one of its elements, holds of every part of a finite set.           *)
LEMMA PartInduction ==
    ASSUME NEW S, IsFiniteSet(S), NEW A,
           \A T \in SUBSET S : (\A x \in T : T \ {x} \in A) => T \in A
    PROVE  \A T \in SUBSET S : T \in A
<1> DEFINE N == {n \in Nat : \A T \in SUBSET S : Cardinality(T) = n => T \in A}
<1>1. \A T \in SUBSET S : IsFiniteSet(T) /\ Cardinality(T) \in Nat
  BY FS_Subset, FS_CardinalityType
<1>2. 0 \in N
  <2> SUFFICES ASSUME NEW T \in SUBSET S, Cardinality(T) = 0
               PROVE  T \in A
    OBVIOUS
  <2>1. T = {}
    BY <1>1, FS_EmptySet
  <2> QED
    BY <2>1
<1>3. ASSUME NEW n \in Nat, n \in N PROVE n + 1 \in N
  <2> SUFFICES ASSUME NEW T \in SUBSET S, Cardinality(T) = n + 1
               PROVE  T \in A
    OBVIOUS
  <2>1. ASSUME NEW x \in T PROVE T \ {x} \in A
    <3>1. Cardinality(T \ {x}) = n
      BY <1>1, FS_RemoveElement
    <3> QED
      BY <1>3, <3>1
  <2> QED
    BY <2>1
<1> HIDE DEF N
<1>4. Nat \subseteq N
  BY <1>2, <1>3, SetInduction
<1> QED
  BY <1>1, <1>4 DEF N

-----------------------------------------------------------------------------
(* Recursive functions: on base the value is B[x], elsewhere it is         *)
(* computed by G from x and the value at step[x], whose measure m is less. *)

Recursive(D, V, m, base, B, G, step) ==
    /\ m \in [D -> Nat] /\ step \in [D -> D]
    /\ B \in [D -> V] /\ G \in [D \X V -> V]
    /\ \A x \in D \ base : m[step[x]] < m[x]
Follows(h, base, B, G, step, x) ==
    h[x] = IF x \in base THEN B[x] ELSE G[x, h[step[x]]]

FollowsBelow(h, D, m, base, B, G, step, b) ==
    \A x \in D : m[x] < b => Follows(h, base, B, G, step, x)

(* The values below the measure n.                                         *)
LEMMA RecursionBelow ==
    ASSUME NEW D, NEW V, NEW m, NEW base, NEW B, NEW G, NEW step,
           Recursive(D, V, m, base, B, G, step)
    PROVE  \A n \in Nat : \E h \in [D -> V] :
              \A x \in D : m[x] < n => Follows(h, base, B, G, step, x)
<1>0. /\ m \in [D -> Nat] /\ step \in [D -> D]
      /\ B \in [D -> V] /\ G \in [D \X V -> V]
      /\ \A x \in D \ base : m[step[x]] < m[x]
  BY DEF Recursive
<1> DEFINE N == {n \in Nat : \E h \in [D -> V] :
                    \A x \in D : m[x] < n => Follows(h, base, B, G, step, x)}
<1>1. 0 \in N
  <2>1. \A x \in D : ~(m[x] < 0)
    BY <1>0
  <2> QED
    BY <1>0, <2>1
<1>2. ASSUME NEW n \in Nat, n \in N PROVE n + 1 \in N
  <2>1. PICK h \in [D -> V] : \A x \in D : m[x] < n => Follows(h, base, B, G, step, x)
    BY <1>2
  <2> DEFINE k == [x \in D |-> IF x \in base THEN B[x] ELSE G[x, h[step[x]]]]
  <2>2. k \in [D -> V]
    BY <1>0
  <2>3. ASSUME NEW x \in D, m[x] < n + 1 PROVE Follows(k, base, B, G, step, x)
    <3>1. CASE x \in base
      BY <3>1 DEF Follows
    <3>2. CASE x \notin base
      <4>1. step[x] \in D /\ m[step[x]] < n
        BY <1>0, <2>3, <3>2
      <4>2. k[step[x]] = h[step[x]]
        BY <2>1, <4>1 DEF Follows
      <4> QED
        BY <3>2, <4>2 DEF Follows
    <3> QED
      BY <3>1, <3>2
  <2> HIDE DEF k
  <2>4. n + 1 \in Nat
    OBVIOUS
  <2> QED
    BY <2>2, <2>3, <2>4
<1> HIDE DEF N
<1>3. Nat \subseteq N
  BY <1>1, <1>2, SetInduction
<1> QED
  BY <1>3 DEF N

(* They are determined.                                                    *)
LEMMA RecursionUnique ==
    ASSUME NEW D, NEW V, NEW m, NEW base, NEW B, NEW G, NEW step,
           Recursive(D, V, m, base, B, G, step),
           NEW h, NEW k, NEW b \in Nat,
           FollowsBelow(h, D, m, base, B, G, step, b),
           FollowsBelow(k, D, m, base, B, G, step, b)
    PROVE  \A x \in D : m[x] < b => h[x] = k[x]
<1>0. /\ m \in [D -> Nat] /\ step \in [D -> D]
      /\ B \in [D -> V] /\ G \in [D \X V -> V]
      /\ \A x \in D \ base : m[step[x]] < m[x]
  BY DEF Recursive
<1> DEFINE N == {n \in Nat : \A x \in D : m[x] < n /\ m[x] < b => h[x] = k[x]}
<1>1. 0 \in N
  BY <1>0
<1>2. ASSUME NEW n \in Nat, n \in N PROVE n + 1 \in N
  <2> SUFFICES ASSUME NEW x \in D, m[x] < n + 1, m[x] < b
               PROVE  h[x] = k[x]
    OBVIOUS
  <2>1. x \notin base => h[step[x]] = k[step[x]]
    BY <1>0, <1>2
  <2> QED
    BY <2>1 DEF Follows, FollowsBelow
<1> HIDE DEF N
<1>3. Nat \subseteq N
  BY <1>1, <1>2, SetInduction
<1> QED
  BY <1>3 DEF N

(* There is a function that satisfies the recursion everywhere.            *)
LEMMA RecursionExists ==
    ASSUME NEW D, NEW V, NEW m, NEW base, NEW B, NEW G, NEW step,
           Recursive(D, V, m, base, B, G, step)
    PROVE  \E h \in [D -> V] : \A x \in D : Follows(h, base, B, G, step, x)
<1>0. /\ m \in [D -> Nat] /\ step \in [D -> D]
      /\ B \in [D -> V] /\ G \in [D \X V -> V]
      /\ \A x \in D \ base : m[step[x]] < m[x]
  BY DEF Recursive
<1> DEFINE t(n) == CHOOSE h \in [D -> V] :
                       \A x \in D : m[x] < n => Follows(h, base, B, G, step, x)
           f == [x \in D |-> t(m[x] + 1)[x]]
<1>1. \A n \in Nat : /\ t(n) \in [D -> V]
                     /\ \A x \in D : m[x] < n => Follows(t(n), base, B, G, step, x)
  <2>1. \A n \in Nat : \E h \in [D -> V] :
              \A x \in D : m[x] < n => Follows(h, base, B, G, step, x)
    BY RecursionBelow, Zenon
  <2> QED
    BY <2>1, Zenon
<1> HIDE DEF t
<1>2. f \in [D -> V]
  BY <1>0, <1>1
<1>3. ASSUME NEW x \in D PROVE Follows(f, base, B, G, step, x)
  <2>1. Follows(t(m[x] + 1), base, B, G, step, x)
    BY <1>0, <1>1
  <2>2. CASE x \in base
    BY <2>1, <2>2 DEF Follows
  <2>3. CASE x \notin base
    <3>1. step[x] \in D /\ m[step[x]] \in Nat /\ m[x] \in Nat /\ m[step[x]] < m[x]
      BY <1>0, <2>3
    <3> DEFINE b == m[step[x]] + 1
    <3>2. b \in Nat /\ b <= m[x] + 1 /\ m[x] + 1 \in Nat
      BY <3>1
    <3>3. \A y \in D : m[y] < b => m[y] < m[x] + 1
      BY <1>0, <3>2
    <3>4. /\ FollowsBelow(t(b), D, m, base, B, G, step, b)
          /\ FollowsBelow(t(m[x] + 1), D, m, base, B, G, step, b)
      BY <1>1, <3>2, <3>3 DEF FollowsBelow
    <3>5. m[step[x]] < b
      BY <3>1
    <3> HIDE DEF b
    <3>6. \A y \in D : m[y] < b => t(b)[y] = t(m[x] + 1)[y]
      <4>1. ASSUME NEW h, NEW k, FollowsBelow(h, D, m, base, B, G, step, b),
                   FollowsBelow(k, D, m, base, B, G, step, b)
            PROVE  \A y \in D : m[y] < b => h[y] = k[y]
        BY ONLY <3>2, <4>1, RecursionUnique, Recursive(D, V, m, base, B, G, step), SMT
      <4> QED
        BY <3>4, <4>1, Zenon
    <3>7. f[step[x]] = t(m[x] + 1)[step[x]]
      BY <3>1, <3>5, <3>6 DEF b
    <3> QED
      BY <2>1, <2>3, <3>7 DEF Follows
  <2> QED
    BY <2>2, <2>3
<1> HIDE DEF f
<1> QED
  BY <1>2, <1>3

(* The states of a loop with the body G, from v.                           *)
RoundsOf(r, v, G) == r = [n \in Nat |-> IF n = 0 THEN v ELSE G[r[n - 1]]]

LEMMA LoopExists ==
    ASSUME NEW V, NEW v \in V, NEW G \in [V -> V]
    PROVE  \E r \in [Nat -> V] : RoundsOf(r, v, G)
<1> DEFINE m == [n \in Nat |-> n]
           step == [n \in Nat |-> IF n = 0 THEN 0 ELSE n - 1]
           B == [n \in Nat |-> v]
           H == [a \in Nat \X V |-> G[a[2]]]
<1>1. m \in [Nat -> Nat] /\ step \in [Nat -> Nat] /\ B \in [Nat -> V] /\ H \in [Nat \X V -> V]
  OBVIOUS
<1>2. \A n \in Nat \ {0} : m[step[n]] < m[n]
  OBVIOUS
<1>3. Recursive(Nat, V, m, {0}, B, H, step)
  BY <1>1, <1>2 DEF Recursive
<1>4. PICK r \in [Nat -> V] : \A n \in Nat : Follows(r, {0}, B, H, step, n)
  <2> HIDE DEF m, step, B, H
  <2> QED
    BY <1>3, RecursionExists
<1>5. ASSUME NEW n \in Nat PROVE r[n] = IF n = 0 THEN v ELSE G[r[n - 1]]
  <2>1. CASE n = 0
    BY <1>4, <2>1 DEF Follows
  <2>2. CASE n # 0
    <3>1. r[n] = H[n, r[step[n]]]
      BY <1>4, <2>2 DEF Follows
    <3>2. step[n] = n - 1 /\ r[step[n]] \in V
      BY <2>2
    <3> QED
      BY <2>2, <3>1, <3>2
  <2> QED
    BY <2>1, <2>2
<1>6. r = [n \in Nat |-> IF n = 0 THEN v ELSE G[r[n - 1]]]
  BY <1>5
<1> QED
  BY <1>6, Zenon DEF RoundsOf

(* A loop whose body decreases a measure m, or has nothing more to do, has *)
(* nothing more to do after as many rounds as the measure says.            *)
LEMMA LoopEnds ==
    ASSUME NEW V, NEW v \in V, NEW G \in [V -> V], NEW m \in [V -> Nat],
           \A s \in V : G[s] = s \/ m[G[s]] < m[s],
           NEW r, r[0] = v, \A n \in Nat : r[n] \in V => r[n + 1] = G[r[n]]
    PROVE  \A n \in Nat : r[n] \in V /\ (n >= m[v] => G[r[n]] = r[n])
<1> DEFINE S == {n \in Nat : r[n] \in V /\ (G[r[n]] = r[n] \/ m[r[n]] + n <= m[v])}
<1>1. 0 \in S
  OBVIOUS
<1>2. ASSUME NEW n \in Nat, n \in S PROVE n + 1 \in S
  <2>1. PICK s \in V : s = r[n]
    BY <1>2
  <2>2. G[s] \in V /\ r[n + 1] = G[s]
    BY <1>2, <2>1
  <2>3. CASE G[s] = s
    BY <2>1, <2>2, <2>3
  <2>4. CASE G[s] # s
    <3>1. m[s] + n <= m[v]
      BY <1>2, <2>1, <2>4
    <3>2. m[G[s]] < m[s] /\ m[G[s]] \in Nat /\ m[s] \in Nat /\ m[v] \in Nat
      BY <2>2, <2>4
    <3>3. m[G[s]] + (n + 1) <= m[v]
      BY <3>1, <3>2
    <3> QED
      BY <2>2, <3>3
  <2> QED
    BY <2>3, <2>4
<1>3. Nat \subseteq S
  <2> HIDE DEF S
  <2> QED
    BY <1>1, <1>2, SetInduction
<1>4. ASSUME NEW n \in Nat, n >= m[v] PROVE G[r[n]] = r[n]
  <2>1. PICK s \in V : s = r[n] /\ (G[s] = s \/ m[s] + n <= m[v])
    BY <1>3
  <2>2. m[s] \in Nat /\ m[G[s]] \in Nat /\ m[v] \in Nat
    BY <2>1
  <2> QED
    BY <1>4, <2>1, <2>2
<1> QED
  BY <1>3, <1>4

-----------------------------------------------------------------------------
(* Sums.                                                                   *)

Pick(s) == CHOOSE x \in s : TRUE

(* What SumFunctionOnSet forms on the way.                                 *)
Adds(f, g, s) == g[s] = IF s = {} THEN 0 ELSE f[Pick(s)] + g[s \ {Pick(s)}]
PartialSums(f, S) ==
    CHOOSE g : g = [s \in SUBSET S |-> IF s = {} THEN 0 ELSE f[Pick(s)] + g[s \ {Pick(s)}]]

LEMMA SumIsPartial ==
    ASSUME NEW f, NEW S PROVE SumFunctionOnSet(f, S) = PartialSums(f, S)[S]
BY Zenon DEF SumFunctionOnSet, FoldFunctionOnSet, MapThenFoldSet, PartialSums, Pick

LEMMA PickInside == ASSUME NEW s, s # {} PROVE Pick(s) \in s
BY Zenon DEF Pick

(* The recursion of SumFunctionOnSet has a solution.                       *)
LEMMA PartialSumsExist ==
    ASSUME NEW S, IsFiniteSet(S), NEW f, \A x \in S : f[x] \in Int
    PROVE  /\ PartialSums(f, S) \in [SUBSET S -> Int]
           /\ \A s \in SUBSET S : Adds(f, PartialSums(f, S), s)
<1> DEFINE D == SUBSET S
           m == [s \in D |-> Cardinality(s)]
           step == [s \in D |-> s \ {Pick(s)}]
           B == [s \in D |-> 0]
           G == [a \in D \X Int |-> IF a[1] = {} THEN 0 ELSE f[Pick(a[1])] + a[2]]
<1>1. \A s \in D : IsFiniteSet(s) /\ Cardinality(s) \in Nat
  BY FS_Subset, FS_CardinalityType
<1>2. m \in [D -> Nat] /\ step \in [D -> D] /\ B \in [D -> Int]
  BY <1>1
<1>3. \A s \in D : s # {} => Pick(s) \in S /\ f[Pick(s)] \in Int
  BY PickInside
<1>4. G \in [D \X Int -> Int]
  BY <1>3
<1>5. ASSUME NEW s \in D \ {{}} PROVE m[step[s]] < m[s]
  <2>1. Pick(s) \in s
    BY PickInside
  <2>2. Cardinality(s \ {Pick(s)}) = Cardinality(s) - 1
    BY <1>1, <2>1, FS_RemoveElement
  <2> QED
    BY <1>1, <2>2
<1>6. Recursive(D, Int, m, {{}}, B, G, step)
  BY <1>2, <1>4, <1>5 DEF Recursive
<1>61. PICK g \in [D -> Int] : \A s \in D : Follows(g, {{}}, B, G, step, s)
  <2> HIDE DEF D, m, step, B, G
  <2> QED
    BY <1>6, RecursionExists
<1>7. ASSUME NEW s \in D
      PROVE  g[s] = IF s = {} THEN 0 ELSE f[Pick(s)] + g[s \ {Pick(s)}]
  <2>1. CASE s = {}
    BY <1>61, <2>1 DEF Follows
  <2>2. CASE s # {}
    <3>1. g[s] = G[s, g[step[s]]]
      BY <1>61, <2>2 DEF Follows
    <3>2. step[s] \in D /\ step[s] = s \ {Pick(s)} /\ g[step[s]] \in Int
      OBVIOUS
    <3> QED
      BY <2>2, <3>1, <3>2
  <2> QED
    BY <2>1, <2>2
<1>8. g = [s \in SUBSET S |-> IF s = {} THEN 0 ELSE f[Pick(s)] + g[s \ {Pick(s)}]]
  BY <1>7
<1>9. PartialSums(f, S)
        = [s \in SUBSET S |-> IF s = {} THEN 0 ELSE f[Pick(s)] + PartialSums(f, S)[s \ {Pick(s)}]]
  BY <1>8, Zenon DEF PartialSums
<1> DEFINE h == PartialSums(f, S)
<1>91. DOMAIN h = SUBSET S
  BY <1>9, Zenon
<1>10. \A s \in SUBSET S : Adds(f, h, s)
  BY <1>9 DEF Adds
<1> HIDE DEF h
<1> DEFINE A == {s \in SUBSET S : h[s] \in Int}
<1>11. ASSUME NEW s \in SUBSET S, \A x \in s : s \ {x} \in A PROVE s \in A
  <2>1. CASE s = {}
    <3>1. h[s] = 0
      BY <1>10, <2>1, Zenon DEF Adds
    <3> QED
      BY <3>1
  <2>2. CASE s # {}
    <3>1. Pick(s) \in s
      BY <2>2, PickInside
    <3>2. h[s \ {Pick(s)}] \in Int
      BY <1>11, <3>1
    <3>3. h[s] = f[Pick(s)] + h[s \ {Pick(s)}]
      BY <1>10, <2>2 DEF Adds
    <3> QED
      BY <1>3, <2>2, <3>2, <3>3
  <2> QED
    BY <2>1, <2>2
<1> HIDE DEF A
<1>12. \A s \in SUBSET S : s \in A
  BY <1>11, PartInduction
<1>13. h \in [SUBSET S -> Int]
  BY <1>9, <1>12, <1>91 DEF A, h
<1> QED
  BY <1>10, <1>13 DEF h

(* It is the same for a part of the set.                                   *)
LEMMA PartialSumsAgree ==
    ASSUME NEW S, IsFiniteSet(S), NEW f, \A x \in S : f[x] \in Int, NEW T \in SUBSET S
    PROVE  PartialSums(f, S)[T] = SumFunctionOnSet(f, T)
<1> DEFINE g == PartialSums(f, S)
           h == PartialSums(f, T)
           A == {s \in SUBSET T : g[s] = h[s]}
<1>1. IsFiniteSet(T) /\ \A x \in T : f[x] \in Int
  BY FS_Subset
<1>2. (\A s \in SUBSET S : Adds(f, g, s)) /\ (\A s \in SUBSET T : Adds(f, h, s))
  BY <1>1, PartialSumsExist
<1> HIDE DEF g, h
<1>3. ASSUME NEW s \in SUBSET T, \A x \in s : s \ {x} \in A PROVE s \in A
  <2>1. CASE s = {}
    BY <1>2, <2>1, s \in SUBSET S, Zenon DEF Adds
  <2>2. CASE s # {}
    <3>1. g[s \ {Pick(s)}] = h[s \ {Pick(s)}]
      BY <1>3, <2>2, PickInside
    <3> QED
      BY <1>2, <2>2, <3>1, s \in SUBSET S DEF Adds
  <2> QED
    BY <2>1, <2>2
<1> HIDE DEF A
<1>4. \A s \in SUBSET T : s \in A
  BY <1>1, <1>3, PartInduction
<1>5. g[T] = h[T]
  BY <1>4 DEF A
<1> QED
  BY <1>5, SumIsPartial DEF g, h

(* The sum of nothing.                                                     *)
LEMMA SumEmpty == ASSUME NEW f PROVE SumFunctionOnSet(f, {}) = 0
<1>1. IsFiniteSet({}) /\ \A x \in {} : f[x] \in Int
  BY FS_EmptySet
<1>2. Adds(f, PartialSums(f, {}), {})
  BY <1>1, PartialSumsExist
<1> QED
  BY <1>2, SumIsPartial DEF Adds

(* A sum of integers is one.                                               *)
LEMMA SumInt ==
    ASSUME NEW S, IsFiniteSet(S), NEW f, \A x \in S : f[x] \in Int
    PROVE  SumFunctionOnSet(f, S) \in Int
BY PartialSumsExist, SumIsPartial

(* The element that is summed first.                                       *)
LEMMA SumPick ==
    ASSUME NEW S, IsFiniteSet(S), S # {}, NEW f, \A x \in S : f[x] \in Int
    PROVE  SumFunctionOnSet(f, S) = f[Pick(S)] + SumFunctionOnSet(f, S \ {Pick(S)})
<1>1. Adds(f, PartialSums(f, S), S)
  BY PartialSumsExist
<1>2. PartialSums(f, S)[S \ {Pick(S)}] = SumFunctionOnSet(f, S \ {Pick(S)})
  BY PartialSumsAgree, S \ {Pick(S)} \in SUBSET S
<1> QED
  BY <1>1, <1>2, SumIsPartial DEF Adds

(* Any element may be taken out of a sum.                                  *)
LEMMA SumRemove ==
    ASSUME NEW S, IsFiniteSet(S), NEW f, \A x \in S : f[x] \in Int, NEW e \in S
    PROVE  SumFunctionOnSet(f, S) = f[e] + SumFunctionOnSet(f, S \ {e})
<1> DEFINE sum(T) == SumFunctionOnSet(f, T)
           A == {T \in SUBSET S : \A x \in T : sum(T) = f[x] + sum(T \ {x})}
<1>1. ASSUME NEW T \in SUBSET S
      PROVE  IsFiniteSet(T) /\ (\A x \in T : f[x] \in Int) /\ sum(T) \in Int
  BY FS_Subset, SumInt
<1>2. ASSUME NEW T \in SUBSET S, \A x \in T : T \ {x} \in A PROVE T \in A
  <2> SUFFICES ASSUME NEW x \in T PROVE sum(T) = f[x] + sum(T \ {x})
    BY <1>2
  <2> DEFINE c == Pick(T)
  <2>1. c \in T /\ sum(T) = f[c] + sum(T \ {c})
    BY <1>1, SumPick, PickInside
  <2> HIDE DEF c
  <2>2. CASE x = c
    BY <2>1, <2>2
  <2>3. CASE x # c
    <3>1. x \in T \ {c} /\ c \in T \ {x} /\ T \ {c} \in A /\ T \ {x} \in A
      BY <1>2, <2>1, <2>3
    <3>2. sum(T \ {c}) = f[x] + sum((T \ {c}) \ {x}) /\ sum(T \ {x}) = f[c] + sum((T \ {x}) \ {c})
      BY <3>1
    <3>3. (T \ {c}) \ {x} = (T \ {x}) \ {c} /\ (T \ {x}) \ {c} \in SUBSET S
      OBVIOUS
    <3>4. f[x] \in Int /\ f[c] \in Int /\ sum((T \ {x}) \ {c}) \in Int
      BY <1>1, <2>1, <3>3
    <3>5. sum((T \ {c}) \ {x}) = sum((T \ {x}) \ {c})
      BY <3>3
    <3> HIDE DEF sum
    <3>6. sum(T \ {c}) = f[x] + sum((T \ {x}) \ {c})
      BY <3>2, <3>5
    <3> DEFINE z == sum((T \ {x}) \ {c})
    <3>7. z \in Int /\ sum(T \ {c}) = f[x] + z /\ sum(T \ {x}) = f[c] + z
      BY <3>2, <3>4, <3>6
    <3> HIDE DEF z
    <3> QED
      BY <2>1, <3>4, <3>7
  <2> QED
    BY <2>2, <2>3
<1> HIDE DEF A
<1>3. \A T \in SUBSET S : T \in A
  BY <1>2, PartInduction
<1> QED
  BY <1>3 DEF A

(* Sums of functions that agree on the set.                                *)
LEMMA SumSame ==
    ASSUME NEW S, IsFiniteSet(S), NEW f, NEW g, \A x \in S : f[x] \in Int /\ f[x] = g[x]
    PROVE  SumFunctionOnSet(f, S) = SumFunctionOnSet(g, S)
<1> DEFINE A == {T \in SUBSET S : SumFunctionOnSet(f, T) = SumFunctionOnSet(g, T)}
<1>1. ASSUME NEW T \in SUBSET S, \A x \in T : T \ {x} \in A PROVE T \in A
  <2>1. CASE T = {}
    BY <2>1, SumEmpty
  <2>2. CASE T # {}
    <3>1. Pick(T) \in T /\ IsFiniteSet(T) /\ \A x \in T : f[x] \in Int /\ g[x] \in Int
      BY <2>2, PickInside, FS_Subset
    <3>2. /\ SumFunctionOnSet(f, T) = f[Pick(T)] + SumFunctionOnSet(f, T \ {Pick(T)})
          /\ SumFunctionOnSet(g, T) = g[Pick(T)] + SumFunctionOnSet(g, T \ {Pick(T)})
      BY <2>2, <3>1, SumPick
    <3>3. SumFunctionOnSet(f, T \ {Pick(T)}) = SumFunctionOnSet(g, T \ {Pick(T)})
      BY <1>1, <3>1
    <3> QED
      BY <3>1, <3>2, <3>3
  <2> QED
    BY <2>1, <2>2
<1> HIDE DEF A
<1>2. \A T \in SUBSET S : T \in A
  BY <1>1, PartInduction
<1> QED
  BY <1>2 DEF A

(* Summand by summand no more.                                             *)
LEMMA SumAtMost ==
    ASSUME NEW S, IsFiniteSet(S), NEW f, NEW g,
           \A x \in S : f[x] \in Int /\ g[x] \in Int /\ f[x] <= g[x]
    PROVE  SumFunctionOnSet(f, S) <= SumFunctionOnSet(g, S)
<1> DEFINE A == {T \in SUBSET S : SumFunctionOnSet(f, T) <= SumFunctionOnSet(g, T)}
<1>1. ASSUME NEW T \in SUBSET S, \A x \in T : T \ {x} \in A PROVE T \in A
  <2>1. CASE T = {}
    BY <2>1, SumEmpty
  <2>2. CASE T # {}
    <3>1. Pick(T) \in T /\ IsFiniteSet(T) /\ \A x \in T : f[x] \in Int /\ g[x] \in Int
      BY <2>2, PickInside, FS_Subset
    <3>2. /\ SumFunctionOnSet(f, T) = f[Pick(T)] + SumFunctionOnSet(f, T \ {Pick(T)})
          /\ SumFunctionOnSet(g, T) = g[Pick(T)] + SumFunctionOnSet(g, T \ {Pick(T)})
      BY <2>2, <3>1, SumPick
    <3>3. SumFunctionOnSet(f, T \ {Pick(T)}) <= SumFunctionOnSet(g, T \ {Pick(T)})
      BY <1>1, <3>1
    <3>4. IsFiniteSet(T \ {Pick(T)})
      BY <3>1, FS_Subset
    <3>5. SumFunctionOnSet(f, T \ {Pick(T)}) \in Int /\ SumFunctionOnSet(g, T \ {Pick(T)}) \in Int
      BY <3>1, <3>4, SumInt
    <3> QED
      BY <3>1, <3>2, <3>3, <3>5
  <2> QED
    BY <2>1, <2>2
<1> HIDE DEF A
<1>2. \A T \in SUBSET S : T \in A
  BY <1>1, PartInduction
<1> QED
  BY <1>2 DEF A

(* A sum of naturals is one, and a part of them sums up to no more.        *)
LEMMA SumNat ==
    ASSUME NEW S, IsFiniteSet(S), NEW f, \A x \in S : f[x] \in Nat
    PROVE  /\ SumFunctionOnSet(f, S) \in Nat
           /\ \A e \in S : f[e] <= SumFunctionOnSet(f, S)
<1> DEFINE A == {T \in SUBSET S : SumFunctionOnSet(f, T) \in Nat}
<1>0. \A x \in S : f[x] \in Int
  OBVIOUS
<1>1. ASSUME NEW T \in SUBSET S, \A x \in T : T \ {x} \in A PROVE T \in A
  <2>1. CASE T = {}
    BY <2>1, SumEmpty
  <2>2. CASE T # {}
    <3>1. Pick(T) \in T /\ IsFiniteSet(T) /\ \A x \in T : f[x] \in Int
      BY <2>2, PickInside, FS_Subset
    <3>2. SumFunctionOnSet(f, T) = f[Pick(T)] + SumFunctionOnSet(f, T \ {Pick(T)})
      BY <2>2, <3>1, SumPick
    <3> QED
      BY <1>1, <3>1, <3>2
  <2> QED
    BY <2>1, <2>2
<1> HIDE DEF A
<1>2. \A T \in SUBSET S : T \in A
  BY <1>1, PartInduction
<1>3. ASSUME NEW e \in S PROVE f[e] <= SumFunctionOnSet(f, S)
  <2>1. SumFunctionOnSet(f, S) = f[e] + SumFunctionOnSet(f, S \ {e})
    BY <1>0, SumRemove
  <2>2. SumFunctionOnSet(f, S \ {e}) \in Nat
    BY <1>2, S \ {e} \in SUBSET S DEF A
  <2> QED
    BY <2>1, <2>2
<1>4. SumFunctionOnSet(f, S) \in Nat
  BY <1>2 DEF A
<1> QED
  BY <1>3, <1>4

(* A sum of zeros.                                                         *)
LEMMA SumZero ==
    ASSUME NEW S, IsFiniteSet(S), NEW f, \A x \in S : f[x] = 0
    PROVE  SumFunctionOnSet(f, S) = 0
<1> DEFINE A == {T \in SUBSET S : SumFunctionOnSet(f, T) = 0}
<1>1. ASSUME NEW T \in SUBSET S, \A x \in T : T \ {x} \in A PROVE T \in A
  <2>1. CASE T = {}
    BY <2>1, SumEmpty
  <2>2. CASE T # {}
    <3>1. Pick(T) \in T /\ IsFiniteSet(T) /\ \A x \in T : f[x] \in Int
      BY <2>2, PickInside, FS_Subset
    <3>2. SumFunctionOnSet(f, T) = f[Pick(T)] + SumFunctionOnSet(f, T \ {Pick(T)})
      BY <2>2, <3>1, SumPick
    <3> QED
      BY <1>1, <3>1, <3>2
  <2> QED
    BY <2>1, <2>2
<1> HIDE DEF A
<1>2. \A T \in SUBSET S : T \in A
  BY <1>1, PartInduction
<1> QED
  BY <1>2 DEF A

(* Fewer summands, none of them negative.                                  *)
LEMMA SumPart ==
    ASSUME NEW S, IsFiniteSet(S), NEW f, \A x \in S : f[x] \in Nat, NEW P \in SUBSET S
    PROVE  SumFunctionOnSet(f, P) <= SumFunctionOnSet(f, S)
<1> DEFINE sum(T) == SumFunctionOnSet(f, T)
           A == {T \in SUBSET S : \A R \in SUBSET T : sum(R) <= sum(T)}
<1>0. ASSUME NEW T \in SUBSET S
      PROVE  IsFiniteSet(T) /\ (\A x \in T : f[x] \in Int) /\ sum(T) \in Int
  <2>1. IsFiniteSet(T) /\ \A x \in T : f[x] \in Int
    BY FS_Subset
  <2> QED
    BY <2>1, SumInt
<1>1. ASSUME NEW T \in SUBSET S, \A x \in T : T \ {x} \in A PROVE T \in A
  <2> SUFFICES ASSUME NEW R \in SUBSET T PROVE sum(R) <= sum(T)
    OBVIOUS
  <2>1. CASE R = T
    BY <1>0, <2>1
  <2>2. CASE R # T
    <3>1. PICK x \in T : x \notin R
      BY <2>2
    <3>2. sum(T) = f[x] + sum(T \ {x})
      BY <1>0, SumRemove
    <3>3. sum(R) <= sum(T \ {x}) /\ sum(R) \in Int /\ sum(T \ {x}) \in Int /\ f[x] \in Nat
      BY <1>0, <1>1, <3>1
    <3> QED
      BY <3>2, <3>3
  <2> QED
    BY <2>1, <2>2
<1> HIDE DEF A
<1>2. \A T \in SUBSET S : T \in A
  BY <1>1, PartInduction
<1> QED
  BY <1>2 DEF A

(* One summand grows, the others do not shrink.                            *)
LEMMA SumMore ==
    ASSUME NEW S, IsFiniteSet(S), NEW f, NEW g, NEW e \in S, NEW d \in Int,
           \A x \in S : f[x] \in Int /\ g[x] \in Int /\ f[x] <= g[x],
           f[e] + d <= g[e]
    PROVE  SumFunctionOnSet(f, S) + d <= SumFunctionOnSet(g, S)
<1>1. IsFiniteSet(S \ {e})
  BY FS_Subset
<1>2. /\ SumFunctionOnSet(f, S) = f[e] + SumFunctionOnSet(f, S \ {e})
      /\ SumFunctionOnSet(g, S) = g[e] + SumFunctionOnSet(g, S \ {e})
  BY SumRemove
<1>3. SumFunctionOnSet(f, S \ {e}) <= SumFunctionOnSet(g, S \ {e})
  BY <1>1, SumAtMost
<1>4. SumFunctionOnSet(f, S \ {e}) \in Int /\ SumFunctionOnSet(g, S \ {e}) \in Int
  BY <1>1, SumInt
<1> QED
  BY <1>2, <1>3, <1>4

(* One summand changes, the others are the same.                           *)
LEMMA SumChange ==
    ASSUME NEW S, IsFiniteSet(S), NEW f, NEW g, NEW e \in S,
           \A x \in S : f[x] \in Int /\ g[x] \in Int,
           \A x \in S \ {e} : f[x] = g[x]
    PROVE  SumFunctionOnSet(g, S) = SumFunctionOnSet(f, S) + (g[e] - f[e])
<1>1. IsFiniteSet(S \ {e})
  BY FS_Subset
<1>2. /\ SumFunctionOnSet(f, S) = f[e] + SumFunctionOnSet(f, S \ {e})
      /\ SumFunctionOnSet(g, S) = g[e] + SumFunctionOnSet(g, S \ {e})
  BY SumRemove
<1>3. SumFunctionOnSet(f, S \ {e}) = SumFunctionOnSet(g, S \ {e})
  BY <1>1, SumSame
<1>4. SumFunctionOnSet(f, S \ {e}) \in Int
  BY <1>1, SumInt
<1> QED
  BY <1>2, <1>3, <1>4

(* A common factor.                                                        *)
LEMMA SumScale ==
    ASSUME NEW S, IsFiniteSet(S), NEW f, NEW g, NEW c \in Int,
           \A x \in S : f[x] \in Int /\ g[x] = c * f[x]
    PROVE  SumFunctionOnSet(g, S) = c * SumFunctionOnSet(f, S)
<1> DEFINE A == {T \in SUBSET S : SumFunctionOnSet(g, T) = c * SumFunctionOnSet(f, T)}
<1>1. ASSUME NEW T \in SUBSET S, \A x \in T : T \ {x} \in A PROVE T \in A
  <2>1. CASE T = {}
    <3>1. SumFunctionOnSet(g, T) = 0 /\ SumFunctionOnSet(f, T) = 0
      BY <2>1, SumEmpty
    <3> QED
      BY <3>1
  <2>2. CASE T # {}
    <3>1. Pick(T) \in T /\ IsFiniteSet(T) /\ IsFiniteSet(T \ {Pick(T)})
      BY <2>2, PickInside, FS_Subset
    <3>2. \A x \in T : f[x] \in Int /\ g[x] \in Int
      OBVIOUS
    <3>3. /\ SumFunctionOnSet(f, T) = f[Pick(T)] + SumFunctionOnSet(f, T \ {Pick(T)})
          /\ SumFunctionOnSet(g, T) = g[Pick(T)] + SumFunctionOnSet(g, T \ {Pick(T)})
      BY <2>2, <3>1, <3>2, SumPick
    <3>4. SumFunctionOnSet(g, T \ {Pick(T)}) = c * SumFunctionOnSet(f, T \ {Pick(T)})
      BY <1>1, <3>1
    <3>5. SumFunctionOnSet(f, T \ {Pick(T)}) \in Int
      BY <3>1, <3>2, SumInt
    <3>6. \A a, b \in Int : c * a + c * b = c * (a + b)
      OBVIOUS
    <3>7. f[Pick(T)] \in Int /\ g[Pick(T)] = c * f[Pick(T)]
      BY <3>1
    <3>8. SumFunctionOnSet(g, T) = c * (f[Pick(T)] + SumFunctionOnSet(f, T \ {Pick(T)}))
      BY <3>3, <3>4, <3>5, <3>6, <3>7
    <3> QED
      BY <3>3, <3>8
  <2> QED
    BY <2>1, <2>2
<1> HIDE DEF A
<1>2. \A T \in SUBSET S : T \in A
  BY <1>1, PartInduction
<1> QED
  BY <1>2 DEF A

(* SumFunction sums over the domain, which nothing else depends on.        *)
LEMMA SumOver ==
    ASSUME NEW S, IsFiniteSet(S), NEW f, DOMAIN f = S, NEW g, \A x \in S : g[x] \in Int /\ f[x] = g[x]
    PROVE  SumFunction(f) = SumFunctionOnSet(g, S)
<1>1. SumFunction(f) = SumFunctionOnSet(f, S)
  BY DEF SumFunction
<1>2. \A x \in S : f[x] \in Int /\ f[x] = g[x]
  OBVIOUS
<1> QED
  BY <1>1, <1>2, SumSame
=============================================================================
