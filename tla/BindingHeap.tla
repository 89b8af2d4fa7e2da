----------------------------- MODULE BindingHeap ----------------------------
(***************************************************************************)
(* The array behind BindingRecords: BindingHeap with the sifting of Go's   *)
(* container/heap, and the pop loop of BindingsGC.  It implements          *)
(* BindingRecords, where the heap is the set of what it holds.  (The first *)
(* element has index 1 here.)                                              *)
(***************************************************************************)
EXTENDS Integers, Sequences, FiniteSets

CONSTANTS Node, Ref, Size, GCTimeRange, HotValue, MaxLag, MaxTime

ASSUME SizeAssumption == Size \in Nat \ {0}
ASSUME TimeAssumption == GCTimeRange \in Nat /\ MaxLag \in Nat /\ MaxTime \in Nat

VARIABLES now, heap, added

vars == <<now, heap, added>>

Less(h, i, j) == h[i].timestamp < h[j].timestamp
Swap(h, i, j) == [h EXCEPT ![i] = h[j], ![j] = h[i]]

(* heap.up: the element at j rises while it is less than its parent.  A    *)
(* loop is the function of its state after n rounds; this one breaks       *)
(* within j of them.                                                       *)
Rise(s) ==
    LET parent == s.at \div 2
    IN  IF s.at = 1 \/ ~Less(s.heap, s.at, parent)
        THEN s
        ELSE [heap |-> Swap(s.heap, parent, s.at), at |-> parent]

up(h, j) ==
    LET round[n \in Nat] == IF n = 0 THEN [heap |-> h, at |-> j] ELSE Rise(round[n - 1])
    IN  round[j].heap

(* heap.down: the element at i sinks below its lesser child among the      *)
(* first n elements, in less than n rounds.                                *)
LesserChild(h, i, n) == IF 2*i + 1 <= n /\ Less(h, 2*i + 1, 2*i) THEN 2*i + 1 ELSE 2*i

Sink(s, n) ==
    LET child == LesserChild(s.heap, s.at, n)
    IN  IF 2 * s.at > n \/ ~Less(s.heap, child, s.at)
        THEN s
        ELSE [heap |-> Swap(s.heap, s.at, child), at |-> child]

down(h, i, n) ==
    LET round[m \in Nat] == IF m = 0 THEN [heap |-> h, at |-> i] ELSE Sink(round[m - 1], n)
    IN  round[n].heap

(* heap.Push and heap.Pop with the methods Push and Pop of BindingHeap.    *)
Push(h, b) == up(Append(h, b), Len(h) + 1)
Pop(h) == LET sifted == down(Swap(h, 1, Len(h)), 1, Len(h) - 1)
          IN  [top |-> sifted[Len(h)], rest |-> SubSeq(sifted, 1, Len(h) - 1)]

(* Mutants of the loop of BindingsGC: the young Binding is put back by the *)
(* Push of the slice, without heap.up; it is not put back.                 *)
CollectAppending(s, timeline) ==
    LET popped == Pop(s.heap)
    IN  IF s.stop \/ Len(s.heap) = 0 THEN s
        ELSE IF popped.top.timestamp > timeline
             THEN [heap |-> Append(popped.rest, popped.top), stop |-> TRUE]
             ELSE [heap |-> popped.rest, stop |-> FALSE]
CollectDropping(s, timeline) ==
    LET popped == Pop(s.heap)
    IN  IF s.stop \/ Len(s.heap) = 0 THEN s
        ELSE [heap |-> popped.rest, stop |-> popped.top.timestamp > timeline]

(* The loop of BindingsGC: a round pops a Binding, and the first that is   *)
(* young is pushed back and ends it.                                       *)
Collect(s, timeline) ==
    LET popped == Pop(s.heap)
    IN  IF s.stop \/ Len(s.heap) = 0 THEN s
        ELSE IF popped.top.timestamp > timeline
             THEN [heap |-> Push(popped.rest, popped.top), stop |-> TRUE]
             ELSE [heap |-> popped.rest, stop |-> FALSE]

Recycle(h, timeline) ==
    LET round[n \in Nat] == IF n = 0 THEN [heap |-> h, stop |-> FALSE] ELSE Collect(round[n - 1], timeline)
    IN  round[Len(h)].heap

NewBindingRecords == now = 0 /\ heap = <<>> /\ added = {}

AddBinding(b) ==
    /\ \A a \in added : a.ref # b.ref
    /\ heap' = Push(IF Len(heap) = Size THEN Pop(heap).rest ELSE heap, b)
    /\ added' = added \cup {b}
    /\ UNCHANGED now

Add == \E r \in Ref, n \in Node, t \in 0..now :
          now - t <= MaxLag /\ AddBinding([ref |-> r, node |-> n, timestamp |-> t])

BindingsGC ==
    /\ GCTimeRange # 0
    /\ heap' = Recycle(heap, now - GCTimeRange)
    /\ UNCHANGED <<now, added>>

Tick == now < MaxTime /\ now' = now + 1 /\ UNCHANGED <<heap, added>>

Next == Add \/ BindingsGC \/ Tick

Spec == NewBindingRecords /\ [][Next]_vars

-----------------------------------------------------------------------------

Records == INSTANCE BindingRecords WITH bindings <- {heap[i] : i \in DOMAIN heap}

(* No Binding is in the array twice and none is younger than the two below *)
(* it: what heap.Pop relies on to return the oldest.                       *)
HeapOrdered ==
    /\ \A i, j \in DOMAIN heap : i # j => heap[i] # heap[j]
    /\ \A i \in 2..Len(heap) : heap[i \div 2].timestamp <= heap[i].timestamp

(* Every AddBinding evicts one of the oldest Bindings and no other, and    *)
(* every collection removes exactly the expired ones: the array with its   *)
(* early exit from the pop loop implements the abstract records.           *)
ImplementsRecords == Records!Spec
=============================================================================
