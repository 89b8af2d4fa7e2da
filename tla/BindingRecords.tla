--------------------------- MODULE BindingRecords ---------------------------
(***************************************************************************)
(* The bounded record of recent pod bindings (annotator/binding.go) from   *)
(* which both the annotator and the Dynamic plugin compute a node's hot    *)
(* value.  Every method runs under br.rw, so each one is a single action.  *)
(* The min-heap is the set of the Bindings it holds: heap.Pop takes a      *)
(* Binding with the least timestamp.  Module BindingHeap has the array.    *)
(***************************************************************************)
EXTENDS Integers, FiniteSets, Functions

CONSTANTS
    Node,         \* node names
    Ref,          \* identities of Binding objects: one per AddBinding call
    Size,         \* br.size
    GCTimeRange,  \* br.gcTimeRange
    HotValue,     \* policy.Spec.HotValue, a sequence of [timeRange, count]
    MaxLag,       \* how much older than the clock a new binding may be
    MaxTime       \* bound on the clock

ASSUME SizeAssumption == Size \in Nat \ {0}
ASSUME TimeAssumption == GCTimeRange \in Nat /\ MaxLag \in Nat /\ MaxTime \in Nat
ASSUME HotValueAssumption ==
    /\ IsFiniteSet(DOMAIN HotValue)
    /\ \A i \in DOMAIN HotValue : HotValue[i].timeRange \in Nat /\ HotValue[i].count \in Nat \ {0}

VARIABLES
    now,       \* the Unix time, in whole units
    bindings,  \* the contents of the heap *br.bindings
    added      \* history: every Binding that AddBinding was called with

vars == <<now, bindings, added>>

Binding == [ref : Ref, node : Node, timestamp : 0..MaxTime]

TypeOK ==
    /\ now \in 0..MaxTime
    /\ added \subseteq Binding
    /\ bindings \subseteq added

NewBindingRecords ==
    /\ now = 0
    /\ bindings = {}
    /\ added = {}

-----------------------------------------------------------------------------

(* The collection period of the annotator: its longest hot value policy.   *)
getMaxHotVauleTimeRange(hotValues) ==
    LET ranges == {0} \cup {hotValues[i].timeRange : i \in DOMAIN hotValues}
    IN  CHOOSE m \in ranges : \A r \in ranges : r <= m

(* What heap.Pop may return: Less compares timestamps only, so any of the  *)
(* oldest Bindings can be at the root.  (Mutant: Less the other way round.) *)
OldestReversed(S) == {b \in S : \A c \in S : b.timestamp >= c.timestamp}
Oldest(S) == {b \in S : \A c \in S : b.timestamp <= c.timestamp}

(* Mutant: AddBinding evicts one Binding too late.                         *)
AddBindingAbove(b) ==
    /\ \A a \in added : a.ref # b.ref
    /\ added' = added \cup {b}
    /\ \/ /\ Cardinality(bindings) > Size
          /\ \E old \in Oldest(bindings) : bindings' = (bindings \ {old}) \cup {b}
       \/ /\ Cardinality(bindings) <= Size
          /\ bindings' = bindings \cup {b}
    /\ UNCHANGED now

AddBinding(b) ==
    /\ \A a \in added : a.ref # b.ref
    /\ added' = added \cup {b}
    /\ \/ /\ Cardinality(bindings) = Size
          /\ \E old \in Oldest(bindings) : bindings' = (bindings \ {old}) \cup {b}
       \/ /\ Cardinality(bindings) # Size
          /\ bindings' = bindings \cup {b}
    /\ UNCHANGED now

(* Mutant: the timeline of BindingsGC is one unit too late.                *)
BindingsGCEarly ==
    /\ GCTimeRange # 0
    /\ bindings' = {b \in bindings : b.timestamp > now - GCTimeRange + 1}
    /\ UNCHANGED <<now, added>>

(* The loop pops the oldest Binding until one is younger than the timeline *)
(* and pushes that one back: what is left are the younger Bindings.        *)
BindingsGC ==
    /\ GCTimeRange # 0
    /\ bindings' = {b \in bindings : b.timestamp > now - GCTimeRange}
    /\ UNCHANGED <<now, added>>

LastNodeBindings(S, n, timeRange) ==
    {b \in S : b.timestamp > now - timeRange /\ b.node = n}

(* Mutant: the timeline itself is counted.                                 *)
GetLastNodeBindingCountClosed(n, timeRange) ==
    Cardinality({b \in bindings : b.timestamp >= now - timeRange /\ b.node = n})

GetLastNodeBindingCount(n, timeRange) ==
    Cardinality(LastNodeBindings(bindings, n, timeRange))

(* Hot value of a node: the same sum in Score and in annotateNodeHotValue. *)
NodeHotValue(n) ==
    SumFunction([i \in DOMAIN HotValue |->
        GetLastNodeBindingCount(n, HotValue[i].timeRange) \div HotValue[i].count])

Tick ==
    /\ now < MaxTime
    /\ now' = now + 1
    /\ UNCHANGED <<bindings, added>>

(* A caller passes the time of the binding: PostBind the current time, the *)
(* event controller the time of an event, which may lie in the past.       *)
Add == \E r \in Ref, n \in Node, t \in 0..now :
          /\ now - t <= MaxLag
          /\ AddBinding([ref |-> r, node |-> n, timestamp |-> t])

Next == Add \/ BindingsGC \/ Tick

Spec == NewBindingRecords /\ [][Next]_vars

-----------------------------------------------------------------------------

(* AddBinding tests Len() == size and not >=: the heap never holds more    *)
(* than size Bindings, however AddBinding and BindingsGC alternate.        *)
LenBounded == Cardinality(bindings) <= Size

(* A Binding is dropped only when it is expired or when at least size      *)
(* Bindings as young as it have been added beside it: the records hold the *)
(* latest bindings ("store latest and least" of the type's comment).       *)
LatestKept ==
    \A b \in added \ bindings :
        \/ b.timestamp <= now - GCTimeRange
        \/ Cardinality({c \in added : c.timestamp >= b.timestamp}) > Size

(* While no more than size bindings fall into the period BindingsGC keeps, *)
(* the count that GetLastNodeBindingCount returns for a node and a policy  *)
(* is the count of all the bindings made to the node in that time.         *)
CountExact ==
    Cardinality({b \in added : b.timestamp > now - GCTimeRange}) <= Size
        => \A n \in Node, i \in DOMAIN HotValue :
              GetLastNodeBindingCount(n, HotValue[i].timeRange)
                  = Cardinality(LastNodeBindings(added, n, HotValue[i].timeRange))

(* BindingsGC keeps whatever some policy still counts: so it is in the     *)
(* annotator, whose period is its longest policy; in the plugin the period *)
(* is fixed.                                                               *)
PoliciesCovered == \A i \in DOMAIN HotValue : HotValue[i].timeRange <= GCTimeRange

(* BindingsGC recycles only expired Bindings: no collection changes what   *)
(* any hot value policy counts on any node.                                *)
GCInvisible ==
    [][BindingsGC => \A n \in Node, i \in DOMAIN HotValue :
          LastNodeBindings(bindings', n, HotValue[i].timeRange)
              = LastNodeBindings(bindings, n, HotValue[i].timeRange)]_vars

=============================================================================
