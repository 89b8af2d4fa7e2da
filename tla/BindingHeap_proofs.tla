-------------------------- MODULE BindingHeap_proofs ------------------------
(***************************************************************************)
(* Proofs about BindingHeap for any size, nodes and times: the sifting     *)
(* loops keep the array a heap, and the array with its pop loop implements *)
(* the set of Bindings of BindingRecords.                                  *)
(***************************************************************************)
EXTENDS BindingHeap, SumTheorems

-----------------------------------------------------------------------------
(* Arrays without repetition.                                              *)

Timed(B) == \A b \in B : b.timestamp \in Int
Array(h, n, B) ==
    /\ n \in Nat /\ h \in [1..n -> B]
    /\ \A i, j \in 1..n : h[i] = h[j] => i = j
Contents(h) == {h[i] : i \in DOMAIN h}
Ordered(h, n) == \A i \in 2..n : h[i \div 2].timestamp <= h[i].timestamp

LEMMA SwapArray ==
    ASSUME NEW B, NEW n, NEW h, Array(h, n, B), NEW a \in 1..n, NEW b \in 1..n
    PROVE  /\ Array(Swap(h, a, b), n, B)
           /\ Contents(Swap(h, a, b)) = Contents(h)
           /\ Swap(h, a, b)[a] = h[b] /\ Swap(h, a, b)[b] = h[a]
           /\ \A i \in 1..n : i # a /\ i # b => Swap(h, a, b)[i] = h[i]
<1> DEFINE g == Swap(h, a, b)
<1>1. n \in Nat /\ h \in [1..n -> B] /\ \A i, j \in 1..n : h[i] = h[j] => i = j
  BY DEF Array
<1>2. /\ g \in [1..n -> B] /\ g[a] = h[b] /\ g[b] = h[a]
      /\ \A i \in 1..n : i # a /\ i # b => g[i] = h[i]
  BY <1>1 DEF Swap
<1> HIDE DEF g
<1>3. \A i, j \in 1..n : g[i] = g[j] => i = j
  BY <1>1, <1>2
<1>4. Contents(g) = Contents(h)
  <2>1. ASSUME NEW i \in 1..n PROVE \E j \in 1..n : g[j] = h[i]
    BY <1>2
  <2>2. ASSUME NEW i \in 1..n PROVE \E j \in 1..n : h[j] = g[i]
    BY <1>2
  <2>3. DOMAIN g = 1..n /\ DOMAIN h = 1..n
    BY <1>1, <1>2
  <2>4. Contents(g) \subseteq Contents(h)
    BY <2>2, <2>3 DEF Contents
  <2>5. Contents(h) \subseteq Contents(g)
    BY <2>1, <2>3 DEF Contents
  <2> QED
    BY <2>4, <2>5
<1> QED
  BY <1>1, <1>2, <1>3, <1>4 DEF Array, g

(* The root of a heap is the least.                                        *)
LEMMA RootLeast ==
    ASSUME NEW B, Timed(B), NEW n, NEW h, Array(h, n, B), Ordered(h, n)
    PROVE  \A i \in 1..n : h[1].timestamp <= h[i].timestamp
<1>0. n \in Nat /\ \A i \in 1..n : h[i] \in B /\ h[i].timestamp \in Int
  BY DEF Array, Timed
<1> DEFINE T == {i \in 1..n : ~(h[1].timestamp <= h[i].timestamp)}
<1> SUFFICES ASSUME T # {} PROVE FALSE
  OBVIOUS
<1>1. T \subseteq Nat
  BY <1>0
<1>2. PICK i \in T : \A j \in T : i <= j
  <2> HIDE DEF T
  <2> QED
    BY <1>1, LeastNumber, Zenon
<1>3. i \in 2..n
  BY <1>0
<1>4. i \div 2 \in 1..n /\ i \div 2 < i
  BY <1>0, <1>3
<1>5. h[1].timestamp <= h[i \div 2].timestamp
  BY <1>2, <1>3, <1>4
<1>6. h[i \div 2].timestamp <= h[i].timestamp
  BY <1>3 DEF Ordered
<1>7. h[1].timestamp <= h[i].timestamp
  <2>1. 1 \in 1..n
    BY <1>0, <1>3
  <2> QED
    BY <1>0, <1>3, <1>4, <1>5, <1>6, <2>1
<1> QED
  BY <1>7

-----------------------------------------------------------------------------
(* heap.up                                                                 *)

(* A heap but for the element at j, which may be less than its parent; and *)
(* the elements below it are not less than that parent either.             *)
Rising(h, j, n) ==
    /\ \A i \in 2..n : i # j => h[i \div 2].timestamp <= h[i].timestamp
    /\ \A i \in 2..n : i \div 2 = j /\ j # 1 => h[j \div 2].timestamp <= h[i].timestamp

RiseStates(n, B, C) ==
    {s \in [heap : [1..n -> B], at : 1..n] :
        Array(s.heap, n, B) /\ Contents(s.heap) = C /\ Rising(s.heap, s.at, n)}

LEMMA SwapRises ==
    ASSUME NEW B, Timed(B), NEW n, NEW h, Array(h, n, B), NEW j \in 2..n,
           Rising(h, j, n), h[j].timestamp < h[j \div 2].timestamp
    PROVE  Rising(Swap(h, j \div 2, j), j \div 2, n)
<1> DEFINE p == j \div 2
           g == Swap(h, p, j)
<1>0. n \in Nat /\ \A i \in 1..n : h[i] \in B /\ h[i].timestamp \in Int
  BY DEF Array, Timed
<1>1. p \in 1..n /\ p < j /\ j \in 1..n /\ j # 1
  BY <1>0
<1>3. h[j].timestamp < h[p].timestamp
  OBVIOUS
<1>4. j \div 2 = p
  OBVIOUS
<1> HIDE DEF p
<1>2. g[p] = h[j] /\ g[j] = h[p] /\ \A i \in 1..n : i # p /\ i # j => g[i] = h[i]
  <2>1. p \in 1..n /\ j \in 1..n
    BY <1>1
  <2>2. h \in [1..n -> B]
    BY DEF Array
  <2> QED
    BY <2>1, <2>2 DEF Swap
<1> HIDE DEF g
<1>5. /\ \A i \in 2..n : i # j => h[i \div 2].timestamp <= h[i].timestamp
      /\ \A i \in 2..n : i \div 2 = j => h[p].timestamp <= h[i].timestamp
  BY <1>1, <1>4 DEF Rising
<1>6. ASSUME NEW i \in 2..n, i # p PROVE g[i \div 2].timestamp <= g[i].timestamp
  <2>0. i \in 1..n /\ i \div 2 \in 1..n
    BY <1>0
  <2>1. CASE i = j
    BY <1>0, <1>1, <1>2, <1>3, <1>4, <2>1
  <2>2. CASE i # j /\ i \div 2 = j
    BY <1>2, <1>5, <1>6, <2>0, <2>2
  <2>3. CASE i # j /\ i \div 2 = p
    BY <1>0, <1>1, <1>2, <1>3, <1>5, <1>6, <2>0, <2>3
  <2>4. CASE i # j /\ i \div 2 # j /\ i \div 2 # p
    BY <1>2, <1>5, <1>6, <2>0, <2>4
  <2> QED
    BY <2>1, <2>2, <2>3, <2>4
<1>7. ASSUME NEW i \in 2..n, i \div 2 = p, p # 1 PROVE g[p \div 2].timestamp <= g[i].timestamp
  <2>0. i \in 1..n /\ p \div 2 \in 1..n /\ p \div 2 # p /\ p \div 2 # j /\ p \in 2..n /\ i # p
    BY <1>0, <1>1, <1>7
  <2>1. h[p \div 2].timestamp <= h[p].timestamp
    BY <1>1, <1>5, <2>0
  <2>2. g[p \div 2] = h[p \div 2]
    BY <1>2, <2>0
  <2>3. CASE i = j
    BY <1>2, <2>1, <2>2, <2>3
  <2>4. CASE i # j
    <3>1. h[p].timestamp <= h[i].timestamp /\ g[i] = h[i]
      BY <1>2, <1>5, <1>7, <2>0, <2>4
    <3> QED
      BY <1>0, <1>1, <2>0, <2>1, <2>2, <3>1
  <2> QED
    BY <2>3, <2>4
<1> QED
  BY <1>6, <1>7 DEF Rising, g, p

LEMMA RiseStep ==
    ASSUME NEW B, Timed(B), NEW n \in Nat, NEW C, NEW s \in RiseStates(n, B, C)
    PROVE  /\ Rise(s) \in RiseStates(n, B, C)
           /\ Rise(s) = s \/ Rise(s).at < s.at
           /\ Rise(s) = s => Ordered(s.heap, n)
<1>0. /\ s.heap \in [1..n -> B] /\ s.at \in 1..n /\ Array(s.heap, n, B)
      /\ Contents(s.heap) = C /\ Rising(s.heap, s.at, n)
  BY DEF RiseStates
<1>1. PICK h, j : h = s.heap /\ j = s.at
  OBVIOUS
<1>2. Array(h, n, B) /\ Rising(h, j, n) /\ j \in 1..n
  BY <1>0, <1>1
<1>3. CASE j = 1 \/ ~Less(h, j, j \div 2)
  <2>1. Rise(s) = s
    BY <1>1, <1>3 DEF Rise
  <2>2. ASSUME NEW i \in 2..n PROVE h[i \div 2].timestamp <= h[i].timestamp
    <3>1. CASE i # j
      BY <1>2, <3>1 DEF Rising
    <3>2. CASE i = j
      <4>1. h[j \div 2].timestamp \in Int /\ h[j].timestamp \in Int
        <5>1. j \div 2 \in 1..n
          BY <3>2
        <5> QED
          BY <1>2, <5>1 DEF Array, Timed
      <4> QED
        BY <1>3, <3>2, <4>1 DEF Less
    <3> QED
      BY <3>1, <3>2
  <2> QED
    BY <1>1, <2>1, <2>2 DEF Ordered
<1>4. CASE ~(j = 1 \/ ~Less(h, j, j \div 2))
  <2>0. j \in 2..n /\ j \div 2 \in 1..n /\ j \div 2 < j
    BY <1>2, <1>4
  <2>1. Rise(s) = [heap |-> Swap(h, j \div 2, j), at |-> j \div 2]
    BY <1>1, <1>4 DEF Rise
  <2>2. Rising(Swap(h, j \div 2, j), j \div 2, n)
    BY <1>2, <1>4, <2>0, SwapRises DEF Less
  <2>3. PICK p \in 1..n : p = j \div 2
    BY <2>0
  <2>4. Array(Swap(h, p, j), n, B) /\ Contents(Swap(h, p, j)) = C
    <3>1. Array(h, n, B) /\ j \in 1..n /\ Contents(h) = C
      BY <1>0, <1>1, <1>2
    <3> QED
      BY <3>1, SwapArray
  <2>5. Rise(s) \in RiseStates(n, B, C)
    <3>1. Swap(h, p, j) \in [1..n -> B]
      BY <2>4 DEF Array
    <3> QED
      BY <2>0, <2>1, <2>2, <2>3, <2>4, <3>1 DEF RiseStates
  <2>6. Rise(s).at < s.at
    BY <1>1, <2>0, <2>1
  <2>7. Rise(s) # s
    BY <1>2, <2>6, <1>1
  <2> QED
    BY <2>5, <2>6, <2>7
<1> QED
  BY <1>3, <1>4

(* The loop has a function of its states.                                  *)
UpRounds(r, v) == r = [n \in Nat |-> IF n = 0 THEN v ELSE Rise(r[n - 1])]

LEMMA UpArray ==
    ASSUME NEW B, Timed(B), NEW n, NEW h, Array(h, n, B), NEW j \in 1..n, Rising(h, j, n)
    PROVE  /\ Array(up(h, j), n, B)
           /\ Contents(up(h, j)) = Contents(h)
           /\ Ordered(up(h, j), n)
<1> DEFINE V == RiseStates(n, B, Contents(h))
           G == [s \in V |-> Rise(s)]
           m == [s \in V |-> s.at - 1]
           v == [heap |-> h, at |-> j]
<1>1. n \in Nat /\ h \in [1..n -> B]
  BY DEF Array
<1>2. v \in V
  BY <1>1 DEF RiseStates
<1>3. \A s \in V : /\ Rise(s) \in V
                   /\ Rise(s) = s \/ Rise(s).at < s.at
                   /\ Rise(s) = s => Ordered(s.heap, n)
  BY <1>1, RiseStep
<1>4. \A s \in V : s.at \in 1..n /\ Array(s.heap, n, B) /\ Contents(s.heap) = Contents(h)
  BY DEF RiseStates
<1>5. m[v] <= j /\ m[v] \in Nat
  BY <1>2
<1> HIDE DEF V, v
<1>6. G \in [V -> V] /\ m \in [V -> Nat]
  BY <1>1, <1>3, <1>4
<1>7. \A s \in V : G[s] = s \/ m[G[s]] < m[s]
  BY <1>3, <1>4
<1>8. PICK q \in [Nat -> V] : RoundsOf(q, v, G)
  <2> HIDE DEF G, m
  <2> QED
    BY <1>2, <1>6, LoopExists
<1>9. UpRounds(q, v)
  <2>1. ASSUME NEW k \in Nat PROVE q[k] = IF k = 0 THEN v ELSE Rise(q[k - 1])
    BY <1>8 DEF RoundsOf
  <2> QED
    BY <2>1 DEF UpRounds
<1> DEFINE r == CHOOSE f : UpRounds(f, v)
<1>10. UpRounds(r, v)
  BY <1>9, Zenon
<1>11. up(h, j) = r[j].heap
  BY Zenon DEF up, UpRounds, v
<1> HIDE DEF r
<1>12. r[0] = v /\ \A k \in Nat : r[k] \in V => r[k + 1] = G[r[k]]
  BY <1>10 DEF UpRounds
<1>13. r[j] \in V /\ G[r[j]] = r[j]
  <2> HIDE DEF G, m
  <2>1. \A k \in Nat : r[k] \in V /\ (k >= m[v] => G[r[k]] = r[k])
    BY <1>2, <1>6, <1>7, <1>12, LoopEnds
  <2> QED
    BY <1>1, <1>5, <2>1
<1>14. PICK s \in V : s = r[j]
  BY <1>13
<1> QED
  BY <1>3, <1>4, <1>11, <1>13, <1>14

(* heap.Push                                                               *)
LEMMA PushArray ==
    ASSUME NEW B, Timed(B), NEW h \in Seq(B), Array(h, Len(h), B), Ordered(h, Len(h)),
           NEW b \in B, b \notin Contents(h)
    PROVE  /\ Array(Push(h, b), Len(h) + 1, B)
           /\ Contents(Push(h, b)) = Contents(h) \cup {b}
           /\ Ordered(Push(h, b), Len(h) + 1)
<1>1. PICK n \in Nat : n = Len(h)
  OBVIOUS
<1>2. PICK g : g = Append(h, b)
  OBVIOUS
<1>3. g \in [1..(n + 1) -> B] /\ g[n + 1] = b /\ \A i \in 1..n : g[i] = h[i]
  <2>1. g \in Seq(B) /\ Len(g) = n + 1
    BY <1>1, <1>2
  <2>2. DOMAIN g = 1..(n + 1) /\ g[n + 1] = b /\ \A i \in 1..n : g[i] = h[i]
    BY <1>1, <1>2
  <2>3. \A i \in 1..(n + 1) : g[i] \in B
    BY <2>1
  <2>4. g = [i \in DOMAIN g |-> g[i]]
    BY <2>1
  <2> QED
    BY <2>2, <2>3, <2>4
<1>4. DOMAIN h = 1..n /\ \A i \in 1..n : h[i] # b
  BY <1>1 DEF Contents
<1>5. Array(g, n + 1, B)
  BY <1>1, <1>3, <1>4 DEF Array
<1>6. Contents(g) = Contents(h) \cup {b}
  <2>1. DOMAIN g = 1..(n + 1) /\ 1..(n + 1) = 1..n \cup {n + 1}
    BY <1>3
  <2>2. Contents(g) \subseteq Contents(h) \cup {b}
    BY <1>3, <1>4, <2>1 DEF Contents
  <2>3. Contents(h) \subseteq Contents(g)
    <3>1. ASSUME NEW i \in 1..n PROVE \E k \in 1..(n + 1) : g[k] = h[i]
      BY <1>3, <2>1
    <3> QED
      BY <1>4, <2>1, <3>1 DEF Contents
  <2>4. b \in Contents(g)
    BY <1>3, <2>1 DEF Contents
  <2> QED
    BY <2>2, <2>3, <2>4
<1>7. Rising(g, n + 1, n + 1)
  <2>1. ASSUME NEW i \in 2..(n + 1), i # n + 1 PROVE g[i \div 2].timestamp <= g[i].timestamp
    <3>1. i \in 2..n /\ i \in 1..n /\ i \div 2 \in 1..n
      BY <2>1
    <3> QED
      BY <1>1, <1>3, <3>1 DEF Ordered
  <2>2. \A i \in 2..(n + 1) : i \div 2 # n + 1
    OBVIOUS
  <2> QED
    BY <2>1, <2>2 DEF Rising
<1>8. PICK k \in Nat : k = n + 1 /\ k \in 1..k
  OBVIOUS
<1>9. Array(up(g, k), k, B) /\ Contents(up(g, k)) = Contents(g) /\ Ordered(up(g, k), k)
  BY <1>5, <1>7, <1>8, UpArray
<1> QED
  BY <1>1, <1>2, <1>6, <1>8, <1>9 DEF Push

-----------------------------------------------------------------------------
(* heap.down                                                               *)

(* The first n elements are a heap but for the element at j, which may be  *)
(* greater than those below it; and these are not less than the one above. *)
Sinking(h, j, n) ==
    /\ \A i \in 2..n : i \div 2 # j => h[i \div 2].timestamp <= h[i].timestamp
    /\ \A i \in 2..n : i \div 2 = j /\ j # 1 => h[j \div 2].timestamp <= h[i].timestamp

SinkStates(n, B, C, top) ==
    {s \in [heap : [1..n -> B], at : 1..n] :
        /\ Array(s.heap, n, B) /\ Contents(s.heap) = C /\ s.heap[n] = top
        /\ Sinking(s.heap, s.at, n - 1)}

LEMMA SwapSinks ==
    ASSUME NEW B, Timed(B), NEW k \in Nat, NEW n, NEW h, Array(h, n, B), k <= n,
           NEW j \in 1..k, NEW c \in 2..k, c \div 2 = j, Sinking(h, j, k),
           h[c].timestamp < h[j].timestamp,
           \A i \in 2..k : i \div 2 = j => h[c].timestamp <= h[i].timestamp
    PROVE  Sinking(Swap(h, j, c), c, k)
<1> DEFINE g == Swap(h, j, c)
<1>0. n \in Nat /\ h \in [1..n -> B] /\ \A i \in 1..n : h[i] \in B /\ h[i].timestamp \in Int
  BY DEF Array, Timed
<1>1. j \in 1..n /\ c \in 1..n /\ j < c /\ \A i \in 2..k : i \in 1..n /\ i \div 2 \in 1..n /\ i \div 2 < i
  BY <1>0
<1>2. g[j] = h[c] /\ g[c] = h[j] /\ \A i \in 1..n : i # j /\ i # c => g[i] = h[i]
  BY <1>0, <1>1 DEF Swap
<1> HIDE DEF g
<1>3. /\ \A i \in 2..k : i \div 2 # j => h[i \div 2].timestamp <= h[i].timestamp
      /\ \A i \in 2..k : i \div 2 = j /\ j # 1 => h[j \div 2].timestamp <= h[i].timestamp
  BY DEF Sinking
<1>4. ASSUME NEW i \in 2..k, i \div 2 # c PROVE g[i \div 2].timestamp <= g[i].timestamp
  <2>1. CASE i = c
    BY <1>0, <1>1, <1>2, <2>1
  <2>2. CASE i # c /\ i \div 2 = j
    <3>1. i # j /\ g[i] = h[i] /\ g[i \div 2] = h[c]
      BY <1>1, <1>2, <2>2
    <3> QED
      BY <2>2, <3>1
  <2>3. CASE i = j
    <3>1. i \div 2 \in 1..n /\ i \div 2 # j /\ i \div 2 # c
      BY <1>1, <1>4, <2>3
    <3>2. g[i \div 2] = h[i \div 2] /\ g[i] = h[c]
      BY <1>2, <2>3, <3>1
    <3>3. j # 1
      BY <2>3
    <3> QED
      BY <1>3, <2>3, <3>2, <3>3
  <2>4. CASE i # c /\ i \div 2 # j /\ i # j
    <3>1. g[i \div 2] = h[i \div 2] /\ g[i] = h[i]
      BY <1>1, <1>2, <1>4, <2>4
    <3> QED
      BY <1>3, <2>4, <3>1
  <2> QED
    BY <2>1, <2>2, <2>3, <2>4
<1>5. ASSUME NEW i \in 2..k, i \div 2 = c PROVE g[c \div 2].timestamp <= g[i].timestamp
  <2>1. i # c /\ i # j /\ c # j
    BY <1>1, <1>5
  <2>2. g[c \div 2] = h[c] /\ g[i] = h[i]
    BY <1>1, <1>2, <2>1
  <2> QED
    BY <1>3, <1>5, <2>1, <2>2
<1> QED
  BY <1>4, <1>5 DEF Sinking, g

LEMMA SinkStep ==
    ASSUME NEW B, Timed(B), NEW n \in Nat \ {0}, NEW C, NEW top, NEW s \in SinkStates(n, B, C, top)
    PROVE  /\ Sink(s, n - 1) \in SinkStates(n, B, C, top)
           /\ Sink(s, n - 1) = s \/ Sink(s, n - 1).at > s.at
           /\ Sink(s, n - 1) = s => Ordered(s.heap, n - 1)
<1>0. PICK k \in Nat : k = n - 1 /\ k < n
  OBVIOUS
<1>1. PICK h, j : h = s.heap /\ j = s.at
  OBVIOUS
<1>2. /\ h \in [1..n -> B] /\ j \in 1..n /\ Array(h, n, B)
      /\ Contents(h) = C /\ h[n] = top /\ Sinking(h, j, k)
  BY <1>0, <1>1 DEF SinkStates
<1>3. \A i \in 1..n : h[i].timestamp \in Int
  BY <1>2 DEF Timed
<1>4. PICK c : c = LesserChild(h, j, k)
  OBVIOUS
<1>5. ASSUME 2 * j <= k
      PROVE  /\ c \in 2..k /\ c \in 1..n /\ j \in 1..k /\ c \div 2 = j /\ c > j /\ c # n
             /\ \A i \in 2..k : i \div 2 = j => h[c].timestamp <= h[i].timestamp
  <2>1. c \in 2..k /\ (c = 2 * j \/ c = 2 * j + 1)
    BY <1>0, <1>2, <1>4, <1>5 DEF LesserChild
  <2>2. ASSUME NEW i \in 2..k, i \div 2 = j PROVE h[c].timestamp <= h[i].timestamp
    <3>1. i = 2 * j \/ i = 2 * j + 1
      BY <1>2, <2>2
    <3>2. /\ h[i].timestamp \in Int /\ h[c].timestamp \in Int /\ h[2 * j].timestamp \in Int
          /\ 2 * j + 1 <= k => h[2 * j + 1].timestamp \in Int
      BY <1>0, <1>2, <1>3, <1>5, <2>1
    <3>3. CASE i = 2 * j
      BY <1>4, <3>2, <3>3 DEF LesserChild, Less
    <3>4. CASE i = 2 * j + 1
      BY <1>4, <3>2, <3>4 DEF LesserChild, Less
    <3> QED
      BY <3>1, <3>3, <3>4
  <2> QED
    BY <1>0, <1>2, <1>5, <2>1, <2>2
<1>6. CASE 2 * j > k \/ ~Less(h, c, j)
  <2>1. Sink(s, n - 1) = s
    BY <1>0, <1>1, <1>4, <1>6 DEF Sink
  <2>2. ASSUME NEW i \in 2..k PROVE h[i \div 2].timestamp <= h[i].timestamp
    <3>1. CASE i \div 2 # j
      BY <1>2, <3>1 DEF Sinking
    <3>2. CASE i \div 2 = j
      <4>1. 2 * j <= k /\ i \in 1..n
        BY <1>0, <1>2, <3>2
      <4>2. ~(h[c].timestamp < h[j].timestamp) /\ h[c].timestamp <= h[i].timestamp /\ c \in 1..n
        BY <1>5, <1>6, <3>2, <4>1, <1>0, <1>2 DEF Less
      <4> QED
        BY <1>2, <1>3, <3>2, <4>1, <4>2
    <3> QED
      BY <3>1, <3>2
  <2> QED
    BY <1>0, <1>1, <2>1, <2>2 DEF Ordered
<1>7. CASE ~(2 * j > k \/ ~Less(h, c, j))
  <2>0. 2 * j <= k
    BY <1>0, <1>2, <1>7
  <2>1. /\ c \in 2..k /\ c \in 1..n /\ j \in 1..k /\ c \div 2 = j /\ c > j /\ c # n
        /\ \A i \in 2..k : i \div 2 = j => h[c].timestamp <= h[i].timestamp
        /\ j # n /\ n \in 1..n
    BY <1>0, <1>5, <2>0
  <2>2. Sink(s, n - 1) = [heap |-> Swap(h, j, c), at |-> c]
    BY <1>0, <1>1, <1>4, <1>7 DEF Sink
  <2>3. h[c].timestamp < h[j].timestamp
    BY <1>7 DEF Less
  <2>4. Sinking(Swap(h, j, c), c, k)
    BY <1>0, <1>2, <2>1, <2>3, SwapSinks
  <2>5. Array(Swap(h, j, c), n, B) /\ Contents(Swap(h, j, c)) = C
    <3>1. Array(h, n, B) /\ j \in 1..n /\ c \in 1..n /\ Contents(h) = C
      BY <1>2, <2>1
    <3> QED
      BY <3>1, SwapArray
  <2>6. Swap(h, j, c)[n] = top /\ Swap(h, j, c) \in [1..n -> B]
    BY <1>2, <2>1 DEF Swap
  <2>7. Sink(s, n - 1) \in SinkStates(n, B, C, top)
    BY <1>0, <2>1, <2>2, <2>4, <2>5, <2>6 DEF SinkStates
  <2>8. Sink(s, n - 1).at > s.at
    BY <1>1, <2>1, <2>2
  <2>9. Sink(s, n - 1) # s
    BY <1>1, <1>2, <2>1, <2>8
  <2> QED
    BY <2>7, <2>8, <2>9
<1> QED
  BY <1>6, <1>7

DownRounds(r, v, k) == r = [n \in Nat |-> IF n = 0 THEN v ELSE Sink(r[n - 1], k)]

LEMMA DownArray ==
    ASSUME NEW B, Timed(B), NEW n \in Nat \ {0}, NEW h, Array(h, n, B), Sinking(h, 1, n - 1)
    PROVE  /\ Array(down(h, 1, n - 1), n, B)
           /\ Contents(down(h, 1, n - 1)) = Contents(h)
           /\ down(h, 1, n - 1)[n] = h[n]
           /\ Ordered(down(h, 1, n - 1), n - 1)
<1>0. PICK k \in Nat : k = n - 1
  OBVIOUS
<1> DEFINE V == SinkStates(n, B, Contents(h), h[n])
           G == [s \in V |-> Sink(s, k)]
           m == [s \in V |-> n - s.at]
           v == [heap |-> h, at |-> 1]
<1>1. v \in V
  <2>1. h \in [1..n -> B]
    BY DEF Array
  <2> QED
    BY <2>1 DEF SinkStates
<1>2. \A s \in V : /\ Sink(s, k) \in V
                   /\ Sink(s, k) = s \/ Sink(s, k).at > s.at
                   /\ Sink(s, k) = s => Ordered(s.heap, k)
  BY <1>0, SinkStep
<1>3. \A s \in V : /\ s.at \in 1..n /\ Array(s.heap, n, B)
                   /\ Contents(s.heap) = Contents(h) /\ s.heap[n] = h[n]
  BY DEF SinkStates
<1>4. m[v] = k
  BY <1>0, <1>1
<1> HIDE DEF V, v
<1>5. G \in [V -> V] /\ m \in [V -> Nat]
  BY <1>2, <1>3
<1>6. \A s \in V : G[s] = s \/ m[G[s]] < m[s]
  BY <1>2, <1>3
<1>7. PICK q \in [Nat -> V] : RoundsOf(q, v, G)
  <2> HIDE DEF G, m
  <2> QED
    BY <1>1, <1>5, LoopExists
<1>8. DownRounds(q, v, k)
  <2>1. ASSUME NEW l \in Nat PROVE q[l] = IF l = 0 THEN v ELSE Sink(q[l - 1], k)
    BY <1>7 DEF RoundsOf
  <2> QED
    BY <2>1 DEF DownRounds
<1> DEFINE r == CHOOSE f : DownRounds(f, v, k)
<1>9. DownRounds(r, v, k)
  BY <1>8, Zenon
<1>10. down(h, 1, k) = r[k].heap
  BY Zenon DEF down, DownRounds, v
<1> HIDE DEF r
<1>11. r[0] = v /\ \A l \in Nat : r[l] \in V => r[l + 1] = G[r[l]]
  BY <1>9 DEF DownRounds
<1>12. r[k] \in V /\ G[r[k]] = r[k]
  <2> HIDE DEF G, m
  <2>1. \A l \in Nat : r[l] \in V /\ (l >= m[v] => G[r[l]] = r[l])
    BY <1>1, <1>5, <1>6, <1>11, LoopEnds
  <2> QED
    BY <1>4, <2>1
<1>13. PICK s \in V : s = r[k]
  BY <1>12
<1> QED
  BY <1>0, <1>2, <1>3, <1>10, <1>12, <1>13

(* heap.Pop                                                                *)
LEMMA PopArray ==
    ASSUME NEW B, Timed(B), NEW h \in Seq(B), Len(h) # 0,
           Array(h, Len(h), B), Ordered(h, Len(h))
    PROVE  /\ Pop(h).top = h[1] /\ h[1] \in Contents(h)
           /\ \A b \in Contents(h) : h[1].timestamp <= b.timestamp
           /\ Pop(h).rest \in Seq(B) /\ Len(Pop(h).rest) = Len(h) - 1
           /\ Array(Pop(h).rest, Len(h) - 1, B)
           /\ Contents(Pop(h).rest) = Contents(h) \ {h[1]}
           /\ Ordered(Pop(h).rest, Len(h) - 1)
<1>1. PICK n \in Nat \ {0} : n = Len(h) /\ 1 \in 1..n /\ n \in 1..n
  OBVIOUS
<1>2. Array(h, n, B) /\ Ordered(h, n) /\ h \in [1..n -> B] /\ DOMAIN h = 1..n
  BY <1>1 DEF Array
<1>3. PICK w : w = Swap(h, 1, n)
  OBVIOUS
<1>4. Array(w, n, B) /\ Contents(w) = Contents(h)
  BY <1>1, <1>2, <1>3, SwapArray
<1>5. w[n] = h[1] /\ \A i \in 2..(n - 1) : w[i] = h[i]
  BY <1>1, <1>2, <1>3 DEF Swap
<1>6. Sinking(w, 1, n - 1)
  <2>1. ASSUME NEW i \in 2..(n - 1), i \div 2 # 1 PROVE w[i \div 2].timestamp <= w[i].timestamp
    <3>1. i \div 2 \in 2..(n - 1) /\ i \in 2..n
      BY <2>1
    <3> QED
      BY <1>2, <1>5, <3>1 DEF Ordered
  <2> QED
    BY <2>1 DEF Sinking
<1>7. PICK d : d = down(w, 1, n - 1)
  OBVIOUS
<1>8. Array(d, n, B) /\ Contents(d) = Contents(h) /\ d[n] = h[1] /\ Ordered(d, n - 1)
  BY <1>4, <1>5, <1>6, <1>7, DownArray
<1>9. d \in [1..n -> B] /\ \A i, j \in 1..n : d[i] = d[j] => i = j
  BY <1>8 DEF Array
<1>10. PICK r : r = SubSeq(d, 1, n - 1)
  OBVIOUS
<1>11. Pop(h).top = d[n] /\ Pop(h).rest = r
  BY <1>1, <1>3, <1>7, <1>10 DEF Pop
<1>12. r = [i \in 1..(n - 1) |-> d[i]]
  BY <1>10 DEF SubSeq
<1>13. r \in [1..(n - 1) -> B] /\ \A i \in 1..(n - 1) : r[i] = d[i]
  BY <1>9, <1>12
<1>14. r \in Seq(B) /\ Len(r) = n - 1
  BY <1>13
<1>15. Array(r, n - 1, B)
  BY <1>9, <1>13 DEF Array
<1>16. Ordered(r, n - 1)
  <2>1. ASSUME NEW i \in 2..(n - 1) PROVE r[i \div 2].timestamp <= r[i].timestamp
    <3>1. i \in 1..(n - 1) /\ i \div 2 \in 1..(n - 1)
      OBVIOUS
    <3> QED
      BY <1>8, <1>13, <3>1 DEF Ordered
  <2> QED
    BY <2>1 DEF Ordered
<1>17. Contents(r) = Contents(h) \ {h[1]}
  <2>1. DOMAIN r = 1..(n - 1) /\ DOMAIN d = 1..n /\ 1..n = 1..(n - 1) \cup {n} /\ n \notin 1..(n - 1)
    BY <1>9, <1>13
  <2>2. Contents(r) \subseteq Contents(d) \ {d[n]}
    BY <1>9, <1>13, <2>1 DEF Contents
  <2>3. Contents(d) \ {d[n]} \subseteq Contents(r)
    BY <1>9, <1>13, <2>1 DEF Contents
  <2> QED
    BY <1>8, <2>2, <2>3
<1>18. \A i \in 1..n : h[1].timestamp <= h[i].timestamp
  BY <1>2, RootLeast
<1> QED
  BY <1>1, <1>2, <1>8, <1>11, <1>14, <1>15, <1>16, <1>17, <1>18 DEF Contents

-----------------------------------------------------------------------------
(* The loop of BindingsGC.                                                 *)

Heap(h, B) == h \in Seq(B) /\ Array(h, Len(h), B) /\ Ordered(h, Len(h))
Young(C, timeline) == {b \in C : b.timestamp > timeline}

(* Until the loop stops it has removed old Bindings only.                  *)
CollectStates(B, C, timeline) ==
    {s \in [heap : Seq(B), stop : BOOLEAN] :
        /\ Heap(s.heap, B) /\ Contents(s.heap) \subseteq C
        /\ \A b \in C \ Contents(s.heap) : b.timestamp <= timeline
        /\ s.stop => Contents(s.heap) = Young(C, timeline)}

LEMMA PushHeap ==
    ASSUME NEW B, Timed(B), NEW h, Heap(h, B), NEW b \in B, b \notin Contents(h)
    PROVE  /\ Heap(Push(h, b), B) /\ Len(Push(h, b)) = Len(h) + 1
           /\ Contents(Push(h, b)) = Contents(h) \cup {b}
<1>0. PICK n \in Nat : n = Len(h) + 1
  BY DEF Heap
<1>1. PICK g : n = Len(h) + 1 /\ g = Push(h, b)
  BY <1>0
<1>2. Array(g, n, B) /\ Contents(g) = Contents(h) \cup {b} /\ Ordered(g, n)
  BY <1>1, PushArray DEF Heap
<1>3. g \in Seq(B) /\ Len(g) = n
  BY <1>2 DEF Array
<1> QED
  BY <1>1, <1>2, <1>3 DEF Heap

LEMMA PopHeap ==
    ASSUME NEW B, Timed(B), NEW h, Heap(h, B), Len(h) # 0
    PROVE  /\ Pop(h).top \in Contents(h) /\ Pop(h).top \in B
           /\ \A b \in Contents(h) : Pop(h).top.timestamp <= b.timestamp
           /\ Heap(Pop(h).rest, B) /\ Len(Pop(h).rest) = Len(h) - 1
           /\ Contents(Pop(h).rest) = Contents(h) \ {Pop(h).top}
<1>1. h \in Seq(B) /\ Array(h, Len(h), B) /\ Ordered(h, Len(h)) /\ Len(h) \in Nat
  BY DEF Heap
<1>2. h[1] \in B
  BY <1>1
<1> QED
  BY <1>1, <1>2, PopArray DEF Heap

LEMMA CollectStep ==
    ASSUME NEW B, Timed(B), NEW C \in SUBSET B, NEW timeline \in Int,
           NEW s \in CollectStates(B, C, timeline)
    PROVE  /\ Collect(s, timeline) \in CollectStates(B, C, timeline)
           /\ Collect(s, timeline) = s \/
                (~s.stop /\ Len(s.heap) # 0
                    /\ (Collect(s, timeline).stop \/ Len(Collect(s, timeline).heap) < Len(s.heap)))
           /\ Collect(s, timeline) = s => Contents(s.heap) = Young(C, timeline)
<1>1. PICK h : h = s.heap
  OBVIOUS
<1>2. /\ s \in [heap : Seq(B), stop : BOOLEAN] /\ Heap(h, B) /\ Contents(h) \subseteq C
      /\ \A b \in C \ Contents(h) : b.timestamp <= timeline
      /\ s.stop => Contents(h) = Young(C, timeline)
      /\ h \in Seq(B) /\ Len(h) \in Nat
  BY <1>1 DEF CollectStates, Heap
<1>3. CASE s.stop \/ Len(h) = 0
  <2>1. Collect(s, timeline) = s
    BY <1>1, <1>3 DEF Collect
  <2>2. ASSUME Len(h) = 0 PROVE Contents(h) = Young(C, timeline)
    <3>1. DOMAIN h = {}
      BY <1>2, <2>2
    <3>2. Contents(h) = {}
      BY <3>1 DEF Contents
    <3>3. \A b \in C : b.timestamp \in Int /\ b.timestamp <= timeline
      BY <1>2, <3>2 DEF Timed
    <3> QED
      BY <3>2, <3>3 DEF Young
  <2> QED
    BY <1>1, <1>2, <1>3, <2>1, <2>2
<1>4. CASE ~(s.stop \/ Len(h) = 0)
  <2>1. PICK top, rest : top = Pop(h).top /\ rest = Pop(h).rest
    OBVIOUS
  <2>2. /\ top \in Contents(h) /\ top \in B
        /\ \A b \in Contents(h) : top.timestamp <= b.timestamp
        /\ Heap(rest, B) /\ Len(rest) = Len(h) - 1
        /\ Contents(rest) = Contents(h) \ {top}
    BY <1>2, <1>4, <2>1, PopHeap
  <2>3. top.timestamp \in Int /\ \A b \in C : b.timestamp \in Int
    BY <2>2 DEF Timed
  <2>4. CASE top.timestamp > timeline
    <3>1. Collect(s, timeline) = [heap |-> Push(rest, top), stop |-> TRUE]
      BY <1>1, <1>4, <2>1, <2>4 DEF Collect
    <3>2. PICK g : g = Push(rest, top)
      OBVIOUS
    <3>3. Heap(g, B) /\ Contents(g) = Contents(h)
      <4>1. Heap(g, B) /\ Contents(g) = Contents(rest) \cup {top}
        BY <2>2, <3>2, PushHeap
      <4> QED
        BY <2>2, <4>1
    <3>4. Contents(h) = Young(C, timeline)
      BY <1>2, <2>2, <2>3, <2>4 DEF Young
    <3>5. Collect(s, timeline) \in CollectStates(B, C, timeline)
      BY <1>2, <3>1, <3>2, <3>3, <3>4 DEF CollectStates, Heap
    <3>6. Collect(s, timeline) # s
      BY <1>4, <3>1
    <3> QED
      BY <1>1, <1>4, <3>1, <3>5, <3>6
  <2>5. CASE ~(top.timestamp > timeline)
    <3>1. Collect(s, timeline) = [heap |-> rest, stop |-> FALSE]
      BY <1>1, <1>4, <2>1, <2>5 DEF Collect
    <3>2. \A b \in C \ Contents(rest) : b.timestamp <= timeline
      BY <1>2, <2>2, <2>3, <2>5
    <3>3. Collect(s, timeline) \in CollectStates(B, C, timeline)
      BY <1>2, <2>2, <3>1, <3>2 DEF CollectStates, Heap
    <3>4. Len(Collect(s, timeline).heap) < Len(s.heap)
      BY <1>1, <1>2, <2>2, <3>1
    <3>5. Collect(s, timeline) # s
      BY <1>2, <1>1, <3>4
    <3> QED
      BY <1>1, <1>4, <3>3, <3>4, <3>5
  <2> QED
    BY <2>4, <2>5
<1> QED
  BY <1>3, <1>4

CollectRounds(r, v, timeline) ==
    r = [n \in Nat |-> IF n = 0 THEN v ELSE Collect(r[n - 1], timeline)]

LEMMA RecycleHeap ==
    ASSUME NEW B, Timed(B), NEW h, Heap(h, B), NEW timeline \in Int
    PROVE  /\ Heap(Recycle(h, timeline), B)
           /\ Contents(Recycle(h, timeline)) = Young(Contents(h), timeline)
<1>0. h \in Seq(B) /\ Len(h) \in Nat /\ Contents(h) \in SUBSET B
  <2>1. h \in Seq(B)
    BY DEF Heap
  <2> QED
    BY <2>1 DEF Contents
<1> DEFINE V == CollectStates(B, Contents(h), timeline)
           G == [s \in V |-> Collect(s, timeline)]
           m == [s \in V |-> IF s.stop THEN 0 ELSE Len(s.heap)]
           v == [heap |-> h, stop |-> FALSE]
<1>1. v \in V
  BY <1>0 DEF CollectStates
<1>2. \A s \in V : /\ Collect(s, timeline) \in V
                   /\ Collect(s, timeline) = s \/
                        (~s.stop /\ Len(s.heap) # 0
                           /\ (Collect(s, timeline).stop \/ Len(Collect(s, timeline).heap) < Len(s.heap)))
                   /\ Collect(s, timeline) = s => Contents(s.heap) = Young(Contents(h), timeline)
  BY <1>0, CollectStep
<1>3. \A s \in V : Heap(s.heap, B) /\ Len(s.heap) \in Nat
  BY DEF CollectStates
<1>4. m[v] = Len(h)
  BY <1>1
<1> HIDE DEF V, v
<1>5. G \in [V -> V] /\ m \in [V -> Nat]
  BY <1>2, <1>3
<1>6. \A s \in V : G[s] = s \/ m[G[s]] < m[s]
  BY <1>2, <1>3
<1>7. PICK q \in [Nat -> V] : RoundsOf(q, v, G)
  <2> HIDE DEF G, m
  <2> QED
    BY <1>1, <1>5, LoopExists
<1>8. CollectRounds(q, v, timeline)
  <2>1. ASSUME NEW l \in Nat PROVE q[l] = IF l = 0 THEN v ELSE Collect(q[l - 1], timeline)
    BY <1>7 DEF RoundsOf
  <2> QED
    BY <2>1 DEF CollectRounds
<1> DEFINE r == CHOOSE f : CollectRounds(f, v, timeline)
<1>9. CollectRounds(r, v, timeline)
  BY <1>8, Zenon
<1>10. Recycle(h, timeline) = r[Len(h)].heap
  BY Zenon DEF Recycle, CollectRounds, v
<1> HIDE DEF r
<1>11. r[0] = v /\ \A l \in Nat : r[l] \in V => r[l + 1] = G[r[l]]
  BY <1>9 DEF CollectRounds
<1>12. r[Len(h)] \in V /\ G[r[Len(h)]] = r[Len(h)]
  <2> HIDE DEF G, m
  <2>1. \A l \in Nat : r[l] \in V /\ (l >= m[v] => G[r[l]] = r[l])
    BY <1>1, <1>5, <1>6, <1>11, LoopEnds
  <2> QED
    BY <1>0, <1>4, <2>1
<1>13. PICK s \in V : s = r[Len(h)]
  BY <1>12
<1> QED
  BY <1>2, <1>3, <1>10, <1>12, <1>13

-----------------------------------------------------------------------------
(* The records.                                                            *)

HeapInv ==
    /\ now \in 0..MaxTime
    /\ added \subseteq Records!Binding
    /\ Heap(heap, Records!Binding)
    /\ Contents(heap) \subseteq added

LEMMA BindingTimed == Timed(Records!Binding)
BY TimeAssumption DEF Timed, Records!Binding

(* What AddBinding tests is the number of Bindings.                        *)
LEMMA ContentsCounted ==
    ASSUME NEW B, NEW h, Heap(h, B)
    PROVE  Cardinality(Contents(h)) = Len(h) /\ Len(h) \in Nat
<1>1. PICK n \in Nat : n = Len(h) /\ DOMAIN h = 1..n
  BY DEF Heap
<1>2. h \in [1..n -> B] /\ \A i, j \in 1..n : h[i] = h[j] => i = j
  BY <1>1 DEF Heap, Array
<1>3. h \in Bijection(1..n, Contents(h))
  BY <1>1, <1>2 DEF Bijection, Injection, Surjection, IsInjective, Contents
<1>4. IsFiniteSet(1..n) /\ Cardinality(1..n) = n
  BY FS_Interval
<1>5. ExistsBijection(1..n, Contents(h))
  BY <1>3 DEF ExistsBijection
<1>6. Cardinality(Contents(h)) = Cardinality(1..n)
  BY <1>4, <1>5, FS_Bijection
<1> QED
  BY <1>1, <1>4, <1>6

(* AddBinding makes room by one of the oldest Bindings, if there is none,  *)
(* and keeps all others.                                                   *)
LEMMA AddHeap ==
    ASSUME HeapInv, NEW b \in Records!Binding, AddBinding(b)
    PROVE  /\ Heap(heap', Records!Binding)
           /\ \/ /\ Len(heap) = Size
                 /\ \E old \in Records!Oldest(Contents(heap)) :
                        Contents(heap)' = (Contents(heap) \ {old}) \cup {b}
              \/ /\ Len(heap) # Size
                 /\ Contents(heap)' = Contents(heap) \cup {b}
<1> DEFINE B == Records!Binding
<1>1. PICK h : h = heap
  OBVIOUS
<1>2. PICK g : g = heap'
  OBVIOUS
<1>3. Heap(h, B) /\ b \notin Contents(h) /\ Timed(B)
  BY <1>1, BindingTimed DEF HeapInv, AddBinding
<1>4. Contents(heap)' = Contents(g) /\ Contents(heap) = Contents(h)
  BY <1>1, <1>2 DEF Contents
<1> HIDE DEF B
<1>5. CASE Len(h) = Size
  <2>1. Len(h) # 0
    BY <1>5, SizeAssumption
  <2>2. PICK top, rest : top = Pop(h).top /\ rest = Pop(h).rest
    OBVIOUS
  <2>3. /\ top \in Contents(h)
        /\ \A c \in Contents(h) : top.timestamp <= c.timestamp
        /\ Heap(rest, B) /\ Contents(rest) = Contents(h) \ {top}
    BY <1>3, <2>1, <2>2, PopHeap
  <2>4. g = Push(rest, b)
    BY <1>1, <1>2, <1>5, <2>2 DEF AddBinding
  <2>5. Heap(g, B) /\ Contents(g) = (Contents(h) \ {top}) \cup {b}
    <3>1. b \in B /\ b \notin Contents(rest)
      BY <1>3, <2>3 DEF B
    <3> QED
      BY <1>3, <2>3, <2>4, <3>1, PushHeap
  <2>6. top \in Records!Oldest(Contents(h))
    BY <2>3 DEF Records!Oldest
  <2> QED
    BY <1>1, <1>2, <1>4, <1>5, <2>5, <2>6 DEF B
<1>6. CASE Len(h) # Size
  <2>1. g = Push(h, b)
    BY <1>1, <1>2, <1>6 DEF AddBinding
  <2>2. Heap(g, B) /\ Contents(g) = Contents(h) \cup {b}
    <3>1. b \in B
      BY DEF B
    <3> QED
      BY <1>3, <2>1, <3>1, PushHeap
  <2> QED
    BY <1>1, <1>2, <1>4, <1>6, <2>2 DEF B
<1> QED
  BY <1>5, <1>6

LEMMA HeapStep ==
    ASSUME HeapInv, [Next]_vars
    PROVE  HeapInv' /\ [Records!Next]_(Records!vars)
<1>0. Contents(heap) = {heap[i] : i \in DOMAIN heap} /\ now \in 0..MaxTime /\ MaxTime \in Nat
  BY TimeAssumption DEF Contents, HeapInv
<1>1. CASE Add
  <2>1. PICK r \in Ref, n \in Node, t \in 0..now :
            now - t <= MaxLag /\ AddBinding([ref |-> r, node |-> n, timestamp |-> t])
    BY <1>1 DEF Add
  <2>2. PICK b : b = [ref |-> r, node |-> n, timestamp |-> t]
    OBVIOUS
  <2>3. b \in Records!Binding
    BY <1>0, <2>2 DEF Records!Binding
  <2>4. /\ Heap(heap', Records!Binding)
        /\ \/ /\ Len(heap) = Size
              /\ \E old \in Records!Oldest(Contents(heap)) :
                        Contents(heap)' = (Contents(heap) \ {old}) \cup {b}
           \/ /\ Len(heap) # Size
              /\ Contents(heap)' = Contents(heap) \cup {b}
    BY <2>1, <2>2, <2>3, AddHeap
  <2>5. /\ \A a \in added : a.ref # b.ref
        /\ added' = added \cup {b} /\ now' = now
    BY <2>1, <2>2 DEF AddBinding
  <2>6. HeapInv'
    <3>1. Contents(heap)' \subseteq Contents(heap) \cup {b}
      BY <2>4
    <3> QED
      BY <2>3, <2>4, <2>5, <3>1 DEF HeapInv
  <2>7. Cardinality(Contents(heap)) = Len(heap)
    BY ContentsCounted DEF HeapInv
  <2>8. Records!Cardinality(Contents(heap)) = Len(heap)
    <3>1. \A S : Records!Cardinality(S) = Cardinality(S)
      BY Zenon DEF Records!Cardinality, Cardinality
    <3> QED
      BY <2>7, <3>1, Zenon
  <2>9. Records!AddBinding(b)
    BY <2>4, <2>5, <2>8 DEF Records!AddBinding, Contents
  <2> QED
    BY <2>1, <2>2, <2>6, <2>9 DEF Records!Next, Records!Add
<1>2. CASE BindingsGC
  <2>1. GCTimeRange # 0 /\ heap' = Recycle(heap, now - GCTimeRange) /\ UNCHANGED <<now, added>>
    BY <1>2 DEF BindingsGC
  <2>2. PICK h, g, timeline : h = heap /\ g = heap' /\ timeline = now - GCTimeRange
    OBVIOUS
  <2>3. Heap(g, Records!Binding) /\ Contents(g) = Young(Contents(h), timeline)
    <3>1. timeline \in Int /\ Heap(h, Records!Binding) /\ g = Recycle(h, timeline)
      BY <1>0, <2>1, <2>2, TimeAssumption DEF HeapInv
    <3> QED
      BY <3>1, RecycleHeap, BindingTimed
  <2>4. Contents(heap)' = Young(Contents(heap), now - GCTimeRange)
    BY <2>2, <2>3 DEF Contents
  <2>5. HeapInv'
    BY <2>1, <2>2, <2>3, <2>4 DEF HeapInv, Young
  <2>6. Records!BindingsGC
    BY <2>1, <2>4 DEF Records!BindingsGC, Contents, Young
  <2> QED
    BY <2>5, <2>6 DEF Records!Next
<1>3. CASE Tick
  <2>1. HeapInv'
    BY <1>0, <1>3 DEF Tick, HeapInv, Contents
  <2>2. Records!Tick
    BY <1>3 DEF Tick, Records!Tick
  <2> QED
    BY <2>1, <2>2 DEF Records!Next
<1>4. CASE UNCHANGED vars
  BY <1>4 DEF vars, HeapInv, Contents, Records!vars
<1> QED
  BY <1>1, <1>2, <1>3, <1>4 DEF Next

LEMMA HeapStarts == NewBindingRecords => HeapInv /\ Records!NewBindingRecords
<1> SUFFICES ASSUME NewBindingRecords PROVE HeapInv /\ Records!NewBindingRecords
  OBVIOUS
<1>1. heap = <<>> /\ DOMAIN heap = {} /\ Len(heap) = 0 /\ now = 0 /\ added = {}
  BY DEF NewBindingRecords
<1>2. Contents(heap) = {}
  BY <1>1 DEF Contents
<1>3. Heap(heap, Records!Binding)
  BY <1>1 DEF Heap, Array, Ordered
<1> QED
  BY <1>1, <1>2, <1>3, TimeAssumption DEF HeapInv, Contents, Records!NewBindingRecords

(* The array is a heap at all times, for any size, whatever the order in   *)
(* which AddBinding and BindingsGC change it.                              *)
THEOREM ArrayIsHeap == Spec => []HeapOrdered
<1>1. HeapInv => HeapOrdered
  BY DEF HeapInv, Heap, Array, Ordered, HeapOrdered
<1>2. HeapInv /\ [Next]_vars => HeapInv'
  BY HeapStep
<1> QED
  BY <1>1, <1>2, HeapStarts, PTL DEF Spec

(* The array with Go's sifting and the early exit from the pop loop        *)
(* implements the set of Bindings that BindingRecords describes: what is   *)
(* proved of the records holds of the array.                               *)
THEOREM ArrayImplementsRecords == Spec => ImplementsRecords
<1>1. HeapInv /\ [Next]_vars => HeapInv' /\ [Records!Next]_(Records!vars)
  BY HeapStep
<1> QED
  BY <1>1, HeapStarts, PTL DEF Spec, ImplementsRecords, Records!Spec
=============================================================================
