----------------------- MODULE BindingRecords_proofs ------------------------
(***************************************************************************)
(* Proofs about BindingRecords and the two components that use the records,*)
(* for any size, nodes, policies, events, times, versions and restarts:    *)
(* HotValueAnnotation, where the event controller writes them and the node *)
(* controller counts them, and DynamicScheduler, where they spread a burst *)
(* of pods.                                                                *)
(***************************************************************************)
EXTENDS HotValueAnnotation, DynamicScheduler, SumTheorems

-----------------------------------------------------------------------------
(***************************************************************************)
(* The records.                                                            *)
(***************************************************************************)

(* The heap and its bound.                                                 *)

(* What every caller keeps: finitely many Bindings, none from the future.  *)
HeapInv ==
    /\ TypeOK
    /\ IsFiniteSet(added)
    /\ LenBounded
    /\ \A b \in added : b.timestamp <= now

(* A part of the added Bindings is finite, and has no more elements.       *)
LEMMA PartFinite ==
    ASSUME NEW S, IsFiniteSet(S), NEW T \in SUBSET S
    PROVE  /\ IsFiniteSet(T) /\ Cardinality(T) \in Nat
           /\ Cardinality(S) \in Nat /\ Cardinality(T) <= Cardinality(S)
<1>1. IsFiniteSet(T) /\ Cardinality(T) <= Cardinality(S)
  BY FS_Subset
<1> QED
  BY <1>1, FS_CardinalityType

(* AddBinding keeps the heap within its size, evicting one when it is full.*)
LEMMA AddBounded ==
    ASSUME HeapInv, NEW b \in Binding, AddBinding(b), b.timestamp <= now
    PROVE  HeapInv'
<1>1. bindings \subseteq added /\ b \notin added
  BY DEF HeapInv, TypeOK, AddBinding
<1>2. IsFiniteSet(added')
  BY FS_AddElement DEF HeapInv, AddBinding
<1>3. IsFiniteSet(bindings) /\ Cardinality(bindings) \in Nat
  BY <1>1, PartFinite DEF HeapInv
<1>4. TypeOK'
  BY <1>1 DEF HeapInv, TypeOK, AddBinding, Oldest
<1>5. LenBounded'
  <2>1. CASE Cardinality(bindings) = Size
    <3>1. PICK old \in Oldest(bindings) : bindings' = (bindings \ {old}) \cup {b}
      BY <2>1 DEF AddBinding
    <3>2. old \in bindings
      BY DEF Oldest
    <3>3. IsFiniteSet(bindings \ {old}) /\ Cardinality(bindings \ {old}) = Size - 1
      BY <1>3, <2>1, <3>2, FS_RemoveElement
    <3>4. Cardinality(bindings') = (Size - 1) + 1
      BY <1>1, <3>1, <3>3, FS_AddElement
    <3> QED
      BY <3>4, SizeAssumption DEF LenBounded
  <2>2. CASE Cardinality(bindings) # Size
    <3>1. bindings' = bindings \cup {b}
      BY <2>2 DEF AddBinding
    <3>2. Cardinality(bindings') = Cardinality(bindings) + 1
      BY <1>1, <1>3, <3>1, FS_AddElement
    <3> QED
      BY <1>3, <2>2, <3>2, SizeAssumption DEF HeapInv, LenBounded
  <2> QED
    BY <2>1, <2>2
<1>6. (\A c \in added : c.timestamp <= now)'
  BY DEF HeapInv, AddBinding
<1> QED
  BY <1>2, <1>4, <1>5, <1>6 DEF HeapInv

(* Every step keeps the heap within its size.                              *)
LEMMA HeapStep == HeapInv /\ [Next]_vars => HeapInv'
<1> SUFFICES ASSUME HeapInv, [Next]_vars
             PROVE  HeapInv'
  OBVIOUS
<1>1. CASE Add
  <2>1. PICK r \in Ref, n \in Node, t \in 0..now :
            AddBinding([ref |-> r, node |-> n, timestamp |-> t])
    BY <1>1 DEF Add
  <2>2. /\ [ref |-> r, node |-> n, timestamp |-> t] \in Binding
        /\ [ref |-> r, node |-> n, timestamp |-> t].timestamp <= now
    BY TimeAssumption DEF HeapInv, TypeOK, Binding
  <2> QED
    BY <2>1, <2>2, AddBounded
<1>2. CASE BindingsGC
  <2>1. bindings' \subseteq bindings /\ UNCHANGED <<now, added>>
    BY <1>2 DEF BindingsGC
  <2>2. IsFiniteSet(bindings)
    BY PartFinite DEF HeapInv, TypeOK
  <2>3. /\ Cardinality(bindings') <= Cardinality(bindings)
        /\ Cardinality(bindings') \in Nat /\ Cardinality(bindings) \in Nat
    BY <2>1, <2>2, PartFinite
  <2> QED
    BY <2>1, <2>3, SizeAssumption DEF HeapInv, TypeOK, LenBounded
<1>3. CASE Tick
  BY <1>3, TimeAssumption DEF Tick, HeapInv, TypeOK, LenBounded, Binding
<1>4. CASE UNCHANGED vars
  BY <1>4 DEF vars, HeapInv, TypeOK, LenBounded
<1> QED
  BY <1>1, <1>2, <1>3, <1>4 DEF Next

(* The heap never holds more than size Bindings.                           *)
THEOREM HeapBounded == Spec => []HeapInv
<1>1. NewBindingRecords => HeapInv
  BY FS_EmptySet, SizeAssumption, TimeAssumption DEF NewBindingRecords, HeapInv, TypeOK, LenBounded
<1> QED
  BY <1>1, HeapStep, PTL DEF Spec

(* The types of the records and the size bound, as the runs check them.    *)
THEOREM LenNeverExceedsSize == Spec => [](TypeOK /\ LenBounded)
<1>1. HeapInv => TypeOK /\ LenBounded
  BY DEF HeapInv
<1> QED
  BY <1>1, HeapBounded, PTL

-----------------------------------------------------------------------------
(* What the heap keeps, when Bindings are added in the order of their time *)
(* as PostBind adds them (MaxLag = 0).                                     *)

(* A dropped Binding stays dropped for one of the two good reasons.        *)
LEMMA LatestStep ==
    ASSUME MaxLag = 0, HeapInv, HeapInv', LatestKept, [Next]_vars
    PROVE  LatestKept'
<1> DEFINE younger(b) == {c \in added : c.timestamp >= b.timestamp}
<1>1. /\ bindings \subseteq added /\ added \subseteq Binding /\ IsFiniteSet(added)
      /\ now \in Nat /\ GCTimeRange \in Nat
      /\ \A b \in added : b.timestamp \in Nat /\ b.timestamp <= now
  BY TimeAssumption DEF HeapInv, TypeOK, Binding
<1>2. CASE Add
  <2>1. PICK r \in Ref, n \in Node, t \in 0..now :
            /\ now - t <= MaxLag
            /\ AddBinding([ref |-> r, node |-> n, timestamp |-> t])
    BY <1>2 DEF Add
  <2> DEFINE b == [ref |-> r, node |-> n, timestamp |-> t]
  <2>2. b.timestamp = now
    BY <1>1, <2>1
  <2>3. AddBinding(b) /\ b \notin added /\ b.timestamp \in Nat
    BY <1>1, <2>1, <2>2 DEF AddBinding
  <2> HIDE DEF b
  <2>4. added' = added \cup {b} /\ now' = now /\ IsFiniteSet(added')
    BY <1>1, <2>3, FS_AddElement DEF AddBinding
  <2> SUFFICES ASSUME NEW d \in added' \ bindings', ~(d.timestamp <= now - GCTimeRange)
               PROVE  Cardinality({c \in added' : c.timestamp >= d.timestamp}) > Size
    BY <2>4 DEF LatestKept
  <2>5. b \in bindings'
    BY <2>3 DEF AddBinding
  <2>6. d \in added
    BY <2>4, <2>5
  <2>7. CASE d \notin bindings
    <3>1. Cardinality(younger(d)) > Size
      BY <2>6, <2>7 DEF LatestKept
    <3>2. younger(d) \in SUBSET {c \in added' : c.timestamp >= d.timestamp}
      BY <2>4
    <3>3. IsFiniteSet({c \in added' : c.timestamp >= d.timestamp})
      BY <2>4, FS_Subset
    <3>4. /\ Cardinality(younger(d)) <= Cardinality({c \in added' : c.timestamp >= d.timestamp})
          /\ Cardinality(younger(d)) \in Nat
          /\ Cardinality({c \in added' : c.timestamp >= d.timestamp}) \in Nat
      BY <3>2, <3>3, PartFinite
    <3> QED
      BY <3>1, <3>4, SizeAssumption
  <2>8. CASE d \in bindings
    <3>1. Cardinality(bindings) = Size /\ d \in Oldest(bindings)
      BY <2>3, <2>8 DEF AddBinding
    <3>2. bindings \cup {b} \in SUBSET {c \in added' : c.timestamp >= d.timestamp}
      BY <1>1, <2>2, <2>4, <2>6, <3>1 DEF Oldest
    <3>3. IsFiniteSet(bindings)
      BY <1>1, PartFinite
    <3>4. Cardinality(bindings \cup {b}) = Size + 1
      BY <1>1, <2>3, <3>1, <3>3, FS_AddElement
    <3>5. IsFiniteSet({c \in added' : c.timestamp >= d.timestamp})
      BY <2>4, FS_Subset
    <3>6. /\ Cardinality(bindings \cup {b}) <= Cardinality({c \in added' : c.timestamp >= d.timestamp})
          /\ Cardinality({c \in added' : c.timestamp >= d.timestamp}) \in Nat
      BY <3>2, <3>5, PartFinite
    <3> QED
      BY <3>4, <3>6, SizeAssumption
  <2> QED
    BY <2>7, <2>8
<1>3. CASE BindingsGC
  BY <1>1, <1>3 DEF BindingsGC, LatestKept
<1>4. CASE Tick
  BY <1>1, <1>4 DEF Tick, LatestKept
<1>5. CASE UNCHANGED vars
  BY <1>5 DEF vars, LatestKept
<1> QED
  BY <1>2, <1>3, <1>4, <1>5 DEF Next

(* The records of the Dynamic plugin hold the latest bindings: one that is *)
(* not there is expired, or size others are as young.                      *)
THEOREM PluginKeepsLatest == ASSUME MaxLag = 0 PROVE Spec => []LatestKept
<1>1. NewBindingRecords => LatestKept
  BY DEF NewBindingRecords, LatestKept
<1>2. LatestKept /\ HeapInv /\ HeapInv' /\ [Next]_vars => LatestKept'
  BY LatestStep
<1> QED
  BY <1>1, <1>2, HeapBounded, PTL DEF Spec

(* While size is not exceeded, a node's count misses no binding.           *)
LEMMA CountFromLatest ==
    ASSUME PoliciesCovered, HeapInv, LatestKept
    PROVE  CountExact
<1> SUFFICES ASSUME Cardinality({b \in added : b.timestamp > now - GCTimeRange}) <= Size,
                    NEW n \in Node, NEW i \in DOMAIN HotValue
             PROVE  LastNodeBindings(bindings, n, HotValue[i].timeRange)
                        = LastNodeBindings(added, n, HotValue[i].timeRange)
  BY DEF CountExact, GetLastNodeBindingCount
<1> DEFINE recent == {b \in added : b.timestamp > now - GCTimeRange}
<1>1. /\ bindings \subseteq added /\ IsFiniteSet(added)
      /\ now \in Nat /\ GCTimeRange \in Nat /\ HotValue[i].timeRange \in Nat
      /\ HotValue[i].timeRange <= GCTimeRange
      /\ \A b \in added : b.timestamp \in Nat
  BY TimeAssumption, HotValueAssumption DEF HeapInv, TypeOK, Binding, PoliciesCovered
<1>2. ASSUME NEW b \in added, b.timestamp > now - HotValue[i].timeRange
      PROVE  b \in bindings
  <2> SUFFICES ASSUME b \notin bindings
               PROVE  FALSE
    OBVIOUS
  <2>1. Cardinality({c \in added : c.timestamp >= b.timestamp}) > Size
    BY <1>1, <1>2 DEF LatestKept
  <2>2. {c \in added : c.timestamp >= b.timestamp} \in SUBSET recent
    BY <1>1, <1>2
  <2>3. IsFiniteSet(recent)
    BY <1>1, FS_Subset
  <2>4. /\ Cardinality({c \in added : c.timestamp >= b.timestamp}) <= Cardinality(recent)
        /\ Cardinality({c \in added : c.timestamp >= b.timestamp}) \in Nat
        /\ Cardinality(recent) \in Nat
    BY <2>2, <2>3, PartFinite
  <2> QED
    BY <2>1, <2>4, SizeAssumption
<1> QED
  BY <1>1, <1>2 DEF LastNodeBindings

(* With policies no longer than the collection period, the plugin's counts *)
(* are those of all the bindings, as long as size is not exceeded.         *)
THEOREM PluginCountExact ==
    ASSUME MaxLag = 0, PoliciesCovered PROVE Spec => []CountExact
<1>1. HeapInv /\ LatestKept => CountExact
  BY CountFromLatest
<1> QED
  BY <1>1, HeapBounded, PluginKeepsLatest, PTL

(* With policies no longer than the collection period, BindingsGC changes  *)
(* no hot value, whatever the order and the age of the Bindings added.     *)
THEOREM CollectionInvisible == ASSUME PoliciesCovered PROVE Spec => GCInvisible
<1>1. HeapInv /\ [Next]_vars =>
        [BindingsGC => \A n \in Node, i \in DOMAIN HotValue :
            LastNodeBindings(bindings', n, HotValue[i].timeRange)
                = LastNodeBindings(bindings, n, HotValue[i].timeRange)]_vars
  <2> SUFFICES ASSUME HeapInv, BindingsGC, NEW n \in Node, NEW i \in DOMAIN HotValue
               PROVE  LastNodeBindings(bindings', n, HotValue[i].timeRange)
                          = LastNodeBindings(bindings, n, HotValue[i].timeRange)
    OBVIOUS
  <2>1. /\ now \in Nat /\ GCTimeRange \in Nat /\ HotValue[i].timeRange \in Nat
        /\ HotValue[i].timeRange <= GCTimeRange
        /\ \A b \in bindings : b.timestamp \in Nat
    BY TimeAssumption, HotValueAssumption DEF HeapInv, TypeOK, Binding, PoliciesCovered
  <2>2. bindings' = {b \in bindings : b.timestamp > now - GCTimeRange}
    BY DEF BindingsGC
  <2> QED
    BY <2>1, <2>2 DEF LastNodeBindings
<1> QED
  BY <1>1, HeapBounded, PTL DEF Spec, GCInvisible

-----------------------------------------------------------------------------
(* The hot value.                                                          *)

(* The summands of a node's hot value.                                     *)
HotShare(n) ==
    [i \in DOMAIN HotValue |-> GetLastNodeBindingCount(n, HotValue[i].timeRange) \div HotValue[i].count]

(* A number divided by a positive one.                                     *)
LEMMA QuotientType ==
    ASSUME NEW a \in Nat, NEW b \in Nat \ {0} PROVE a \div b \in Nat
OBVIOUS

(* The count of a node is a number, and so is its hot value.               *)
LEMMA HotValueType ==
    ASSUME NEW n, IsFiniteSet(bindings)
    PROVE  /\ \A t : GetLastNodeBindingCount(n, t) \in Nat
           /\ \A i \in DOMAIN HotValue : HotShare(n)[i] \in Nat
           /\ NodeHotValue(n) = SumFunctionOnSet(HotShare(n), DOMAIN HotValue)
           /\ NodeHotValue(n) \in Nat
<1>1. ASSUME NEW t PROVE GetLastNodeBindingCount(n, t) \in Nat
  <2>1. LastNodeBindings(bindings, n, t) \in SUBSET bindings
    BY DEF LastNodeBindings
  <2> QED
    BY <2>1, PartFinite DEF GetLastNodeBindingCount
<1>2. ASSUME NEW i \in DOMAIN HotValue PROVE HotShare(n)[i] \in Nat
  BY <1>1, HotValueAssumption, QuotientType DEF HotShare
<1>3. NodeHotValue(n) = SumFunction(HotShare(n)) /\ DOMAIN HotShare(n) = DOMAIN HotValue
  BY DEF NodeHotValue, HotShare
<1>4. NodeHotValue(n) = SumFunctionOnSet(HotShare(n), DOMAIN HotValue)
  BY <1>3 DEF SumFunction
<1>5. SumFunctionOnSet(HotShare(n), DOMAIN HotValue) \in Nat
  BY <1>2, SumNat, HotValueAssumption
<1> QED
  BY <1>1, <1>2, <1>4, <1>5

-----------------------------------------------------------------------------
(***************************************************************************)
(* The event controller, and the hot value that is written.                *)
(***************************************************************************)

(* The types of what the event controller reads, and the records' shape.   *)
EventTypeOK ==
    /\ now \in 0..MaxTime
    /\ event \in [Event -> EventObject]
    /\ seen \in [Event -> EventObject]
    /\ queue \subseteq Event
    /\ recorded \in [Event -> Nat]
    /\ IsFiniteSet(added) /\ bindings \subseteq added

(* The lister is behind the API server, and has an event that exists as it *)
(* is if it has its latest version.                                        *)
ListerBehind ==
    \A e \in Event :
        /\ seen[e].version <= event[e].version
        /\ seen[e].version = event[e].version /\ ~event[e].gone => seen[e] = event[e]

-----------------------------------------------------------------------------
(* The events in the API server.                                           *)

(* A new or a changed event is an event, of a later version, at a time     *)
(* that has come.                                                          *)
LEMMA EventChange ==
    ASSUME EventTypeOK, NEW e \in Event, EventRecorded(e) \/ EventUpdated(e) \/ EventRemoved(e)
    PROVE  /\ event' \in [Event -> EventObject]
           /\ \A f \in Event \ {e} : event'[f] = event[f]
           /\ \/ event'[e].version = event[e].version + 1
              \/ event'[e].version = event[e].version /\ event'[e].gone
<1>1. now \in {Zero} \cup 0..MaxTime /\ event[e] \in EventObject /\ DOMAIN event = Event
  BY DEF EventTypeOK
<1>2. NoEvent \in EventObject
  BY DEF NoEvent, EventObject
<1>3. CASE EventRecorded(e)
  <2>1. event[e].version = 0
    BY <1>3 DEF EventRecorded
  <2>2. PICK new \in EventObject : event' = [event EXCEPT ![e] = new] /\ new.version = 1
    <3>1. CASE e \in NewAPI
      <4>1. [NoEvent EXCEPT !.version = 1, !.eventTime = now] \in EventObject
        BY <1>1, <1>2 DEF EventObject
      <4>2. [NoEvent EXCEPT !.version = 1, !.eventTime = now].version = 1
        BY DEF NoEvent
      <4> QED
        BY <1>3, <3>1, <4>1, <4>2 DEF EventRecorded
    <3>2. CASE e \notin NewAPI
      <4>1. [NoEvent EXCEPT !.version = 1, !.count = 1, !.lastTimestamp = now] \in EventObject
        BY <1>1, <1>2 DEF EventObject
      <4>2. [NoEvent EXCEPT !.version = 1, !.count = 1, !.lastTimestamp = now].version = 1
        BY DEF NoEvent
      <4> QED
        BY <1>3, <3>2, <4>1, <4>2 DEF EventRecorded
    <3> QED
      BY <3>1, <3>2
  <2> QED
    BY <1>1, <2>1, <2>2 DEF EventTypeOK
<1>4. CASE EventUpdated(e)
  <2> DEFINE old == event[e]
             new(again) == [old EXCEPT
                  !.version = old.version + 1,
                  !.count = IF e \in NewAPI THEN 0 ELSE old.count + again,
                  !.lastTimestamp = IF e \in NewAPI \/ again = 0 THEN old.lastTimestamp ELSE now]
  <2>1. PICK again \in {0, 1} : event' = [event EXCEPT ![e] = new(again)]
    BY <1>4 DEF EventUpdated
  <2>2. /\ old.version + 1 \in Nat
        /\ (IF e \in NewAPI THEN 0 ELSE old.count + again) \in Nat
        /\ (IF e \in NewAPI \/ again = 0 THEN old.lastTimestamp ELSE now) \in {Zero} \cup 0..MaxTime
    BY <1>1 DEF EventObject
  <2>3. new(again) \in EventObject /\ new(again).version = event[e].version + 1
    BY <1>1, <2>2 DEF EventObject
  <2> HIDE DEF new, old
  <2> QED
    BY <1>1, <2>1, <2>3 DEF EventTypeOK
<1>5. CASE EventRemoved(e)
  <2>1. event' = [event EXCEPT ![e] = [event[e] EXCEPT !.gone = TRUE]]
    BY <1>1, <1>5 DEF EventRemoved
  <2> QED
    BY <1>1, <2>1 DEF EventTypeOK, EventObject
<1> QED
  BY <1>3, <1>4, <1>5

(* A change of an event leaves the controller alone.                       *)
LEMMA EventAlone ==
    ASSUME NEW e \in Event, EventRecorded(e) \/ EventUpdated(e) \/ EventRemoved(e)
    PROVE  UNCHANGED <<now, bindings, added, seen, queue, recorded>>
BY DEF EventRecorded, EventUpdated, EventRemoved, vars

-----------------------------------------------------------------------------
(* The records.                                                            *)

(* AddBinding puts in the Binding, and keeps every other one unless size   *)
(* Bindings are there.                                                     *)
LEMMA AddKeeps ==
    ASSUME NEW b, AddBinding(b), IsFiniteSet(added), bindings \subseteq added
    PROVE  /\ IsFiniteSet(added') /\ bindings' \subseteq added' /\ b \in bindings'
           /\ Cardinality(added') = Cardinality(added) + 1 /\ Cardinality(added) \in Nat
           /\ Cardinality(added') <= Size => bindings \subseteq bindings'
           /\ LenBounded => LenBounded'
           /\ UNCHANGED now
<1>1. b \notin added /\ added' = added \cup {b} /\ UNCHANGED now
  BY DEF AddBinding
<1>2. /\ IsFiniteSet(added') /\ Cardinality(added') = Cardinality(added) + 1 /\ Cardinality(added) \in Nat
  BY <1>1, FS_AddElement, FS_CardinalityType
<1>3. IsFiniteSet(bindings) /\ Cardinality(bindings) \in Nat /\ Cardinality(bindings) <= Cardinality(added)
  BY FS_Subset, FS_CardinalityType
<1>4. b \notin bindings /\ Size \in Nat \ {0}
  BY <1>1, SizeAssumption
<1>5. CASE Cardinality(bindings) = Size
  <2>1. PICK old \in Oldest(bindings) : bindings' = (bindings \ {old}) \cup {b}
    BY <1>5 DEF AddBinding
  <2>2. old \in bindings
    BY <2>1 DEF Oldest
  <2>3. IsFiniteSet(bindings \ {old}) /\ Cardinality(bindings \ {old}) = Size - 1
    BY <1>3, <1>5, <2>2, FS_RemoveElement
  <2>4. Cardinality((bindings \ {old}) \cup {b}) = Size
    <3>1. \A S : IsFiniteSet(S) /\ b \notin S => Cardinality(S \cup {b}) = Cardinality(S) + 1
      BY FS_AddElement, Zenon
    <3>2. Cardinality((bindings \ {old}) \cup {b}) = Cardinality(bindings \ {old}) + 1
      BY <1>4, <2>3, <3>1
    <3> QED
      BY <1>4, <2>3, <3>2
  <2>5. LenBounded'
    BY <1>4, <2>1, <2>4 DEF LenBounded
  <2>6. ~ (Cardinality(added) + 1 <= Size)
    BY <1>2, <1>3, <1>4, <1>5
  <2> QED
    BY <1>1, <1>2, <2>1, <2>5, <2>6
<1>6. CASE Cardinality(bindings) # Size
  <2>1. bindings' = bindings \cup {b}
    BY <1>6 DEF AddBinding
  <2>2. Cardinality(bindings \cup {b}) = Cardinality(bindings) + 1
    BY <1>3, <1>4, FS_AddElement
  <2>3. LenBounded => Cardinality(bindings) + 1 <= Size
    BY <1>3, <1>4, <1>6 DEF LenBounded
  <2>4. LenBounded => LenBounded'
    BY <2>1, <2>2, <2>3 DEF LenBounded
  <2> QED
    BY <1>1, <1>2, <2>1, <2>4
<1> QED
  BY <1>5, <1>6

(* A collection keeps the Bindings younger than its timeline.              *)
LEMMA GCKeeps ==
    ASSUME EventTypeOK, BindingsGC
    PROVE  /\ bindings' \subseteq bindings /\ UNCHANGED <<now, added>>
           /\ \A b \in bindings : b.timestamp > now - GCTimeRange => b \in bindings'
           /\ LenBounded => LenBounded'
<1>1. bindings' \subseteq bindings /\ UNCHANGED <<now, added>>
  BY DEF BindingsGC
<1>2. \A b \in bindings : b.timestamp > now - GCTimeRange => b \in bindings'
  BY DEF BindingsGC
<1>3. IsFiniteSet(bindings)
  BY FS_Subset DEF EventTypeOK
<1>4. PICK kept : kept = bindings'
  OBVIOUS
<1>5. Cardinality(kept) <= Cardinality(bindings) /\ Cardinality(kept) \in Nat /\ Cardinality(bindings) \in Nat
  BY <1>1, <1>3, <1>4, FS_Subset, FS_CardinalityType
<1>6. LenBounded => Cardinality(kept) <= Size
  BY <1>5, SizeAssumption DEF LenBounded
<1>7. LenBounded => LenBounded'
  BY <1>4, <1>6 DEF LenBounded
<1> QED
  BY <1>1, <1>2, <1>7

-----------------------------------------------------------------------------
(* What the other steps leave alone.                                       *)

inputVars == <<now, bindings, added, event, seen, queue, recorded>>

(* annotateNodeHotValue reads the records only.                            *)
LEMMA AnnotateReads ==
    ASSUME \/ \E n \in Node : SyncNode(n)
           \/ \E w \in Workers \cup {Syncer} :
                 CountHotValue(w) \/ PatchHotValue(w) \/ AnnotateFails(w)
           \/ UNCHANGED allVars
    PROVE  UNCHANGED inputVars
<1>1. ASSUME NEW n \in Node, SyncNode(n) PROVE UNCHANGED inputVars
  BY <1>1 DEF SyncNode, vars, eventVars, inputVars
<1>2. ASSUME NEW w \in Workers \cup {Syncer}, CountHotValue(w) PROVE UNCHANGED inputVars
  BY <1>2 DEF CountHotValue, vars, eventVars, inputVars
<1>3. ASSUME NEW w \in Workers \cup {Syncer}, PatchHotValue(w) PROVE UNCHANGED inputVars
  BY <1>3 DEF PatchHotValue, vars, eventVars, inputVars
<1>4. ASSUME NEW w \in Workers \cup {Syncer}, AnnotateFails(w) PROVE UNCHANGED inputVars
  BY <1>4 DEF AnnotateFails, vars, eventVars, inputVars
<1>5. CASE UNCHANGED allVars
  BY <1>5 DEF allVars, hotVars, eventVars, vars, inputVars
<1> QED
  BY <1>1, <1>2, <1>3, <1>4, <1>5

(* The steps of the system as the proofs take them.                        *)
LEMMA StepCases ==
    ASSUME [HotValueNext]_allVars
    PROVE  \/ \E e \in Event : EventRecorded(e) \/ EventUpdated(e) \/ EventRemoved(e)
           \/ \E e \in Event : ObserveEvent(e)
           \/ \E e \in Event : Relist(e)
           \/ \E w \in Workers : Reconcile(w)
           \/ \E w \in Workers : ReconcileError(w)
           \/ BindingsGC /\ UNCHANGED hotVars
           \/ Tick /\ UNCHANGED hotVars
           \/ Restart
           \/ UNCHANGED inputVars
<1>1. CASE UNCHANGED allVars
  BY <1>1, AnnotateReads
<1>2. CASE HotValueNext
  BY <1>2, AnnotateReads DEF HotValueNext
<1> QED
  BY <1>1, <1>2

(* What the informer's notification of a change does to the queue.         *)
LEMMA Notified ==
    ASSUME EventTypeOK, ListerBehind, NEW e \in Event, ObserveEvent(e)
    PROVE  /\ seen' = [seen EXCEPT ![e] = event[e]]
           /\ UNCHANGED <<now, bindings, added, event, recorded>>
           /\ \/ event[e].gone /\ UNCHANGED queue
              \/ queue' = queue \cup {e} /\ seen[e].version + 1 <= event[e].version
<1>1. /\ seen[e] # event[e] /\ seen' = [seen EXCEPT ![e] = event[e]]
      /\ UNCHANGED <<now, bindings, added, event, recorded>>
  BY DEF ObserveEvent, vars
<1>2. CASE event[e].gone /\ UNCHANGED queue
  BY <1>1, <1>2
<1>3. CASE ~event[e].gone /\ (queue' = queue \cup {e} \/ seen[e].version = event[e].version)
  <2>1. seen[e].version # event[e].version
    BY <1>1, <1>3 DEF ListerBehind
  <2>2. seen[e].version \in Nat /\ event[e].version \in Nat /\ seen[e].version <= event[e].version
    BY DEF ListerBehind, EventTypeOK, EventObject
  <2>3. seen[e].version + 1 <= event[e].version
    BY <2>1, <2>2
  <2> QED
    BY <1>1, <1>3, <2>1, <2>3
<1> QED
  BY <1>2, <1>3 DEF ObserveEvent, handleAddEvent, handleUpdateEvent, enqueue

(* A relist tells the controller nothing.                                  *)
LEMMA RelistUnseen ==
    ASSUME NEW e \in Event, Relist(e)
    PROVE  UNCHANGED inputVars
BY DEF Relist, handleUpdateEvent, vars, eventVars, inputVars

(* The event that a worker takes, and what it makes of it.                 *)
LEMMA ReconcileTakes ==
    ASSUME NEW w \in Workers, Reconcile(w)
    PROVE  \E e \in queue :
              /\ Exists(seen[e]) /\ NodeOf[e] # Malformed
              /\ queue' = queue \ {e}
              /\ AddBinding(translateEventToBinding(e))
              /\ recorded' = [recorded EXCEPT ![e] = @ + 1]
              /\ UNCHANGED <<event, seen>>
BY DEF Reconcile, eventVars

-----------------------------------------------------------------------------
(* The types and the lister.                                               *)

(* Every step keeps the types, and the lister behind the API server.       *)
LEMMA InputStep ==
    ASSUME EventTypeOK, ListerBehind, [HotValueNext]_allVars
    PROVE  EventTypeOK' /\ ListerBehind'
<1>1. ASSUME NEW e \in Event, EventRecorded(e) \/ EventUpdated(e) \/ EventRemoved(e)
      PROVE  EventTypeOK' /\ ListerBehind'
  <2>1. EventTypeOK'
    BY <1>1, EventChange, EventAlone DEF EventTypeOK
  <2>2. ASSUME NEW f \in Event
        PROVE  /\ seen'[f].version <= event'[f].version
               /\ seen'[f].version = event'[f].version /\ ~event'[f].gone => seen'[f] = event'[f]
    <3>1. seen' = seen /\ seen[f].version \in Nat /\ event[f].version \in Nat
      BY <1>1, EventAlone DEF EventTypeOK, EventObject
    <3>2. /\ seen[f].version <= event[f].version
          /\ seen[f].version = event[f].version /\ ~event[f].gone => seen[f] = event[f]
      BY DEF ListerBehind
    <3>3. CASE f # e
      BY <1>1, <3>1, <3>2, <3>3, EventChange
    <3>4. CASE f = e
      <4>1. PICK new : new = event'[e]
        OBVIOUS
      <4>2. \/ new.version = event[e].version + 1
            \/ new.version = event[e].version /\ new.gone
        BY <1>1, <4>1, EventChange
      <4>3. /\ seen[e].version <= new.version
            /\ seen[e].version = new.version /\ ~new.gone => seen[e] = new
        BY <3>1, <3>2, <3>4, <4>2
      <4> QED
        BY <3>1, <3>4, <4>1, <4>3
    <3> QED
      BY <3>3, <3>4
  <2> QED
    BY <2>1, <2>2 DEF ListerBehind
<1>2. ASSUME NEW e \in Event, ObserveEvent(e)
      PROVE  EventTypeOK' /\ ListerBehind'
  <2>1. /\ seen' = [seen EXCEPT ![e] = event[e]]
        /\ UNCHANGED <<now, bindings, added, event, recorded>>
        /\ queue' = queue \/ queue' = queue \cup {e}
    BY <1>2, Notified
  <2>2. event[e] \in EventObject /\ event[e].version \in Nat
    BY DEF EventTypeOK, EventObject
  <2>3. EventTypeOK'
    BY <2>1, <2>2 DEF EventTypeOK
  <2>4. ListerBehind'
    BY <2>1, <2>2 DEF ListerBehind, EventTypeOK
  <2> QED
    BY <2>3, <2>4
<1>3. ASSUME NEW w \in Workers, Reconcile(w)
      PROVE  EventTypeOK' /\ ListerBehind'
  <2>1. PICK e \in queue :
           /\ queue' = queue \ {e}
           /\ AddBinding(translateEventToBinding(e))
           /\ recorded' = [recorded EXCEPT ![e] = @ + 1]
           /\ UNCHANGED <<event, seen>>
    BY <1>3, ReconcileTakes
  <2>2. IsFiniteSet(added') /\ bindings' \subseteq added' /\ UNCHANGED now
    BY <2>1, AddKeeps DEF EventTypeOK
  <2>3. recorded' \in [Event -> Nat]
    BY <2>1 DEF EventTypeOK
  <2> QED
    BY <2>1, <2>2, <2>3 DEF EventTypeOK, ListerBehind
<1>4. ASSUME NEW w \in Workers, ReconcileError(w)
      PROVE  EventTypeOK' /\ ListerBehind'
  BY <1>4 DEF ReconcileError, EventTypeOK, ListerBehind, vars, eventVars
<1>5. CASE BindingsGC /\ UNCHANGED hotVars
  BY <1>5, GCKeeps DEF EventTypeOK, ListerBehind, hotVars, eventVars
<1>6. CASE Tick /\ UNCHANGED hotVars
  BY <1>6, TimeAssumption DEF Tick, EventTypeOK, ListerBehind, hotVars, eventVars
<1>7. CASE Restart
  <2>1. IsFiniteSet({})
    BY FS_EmptySet
  <2>2. EventTypeOK'
    BY <1>7, <2>1 DEF Restart, EventTypeOK
  <2>3. ListerBehind'
    BY <1>7 DEF Restart, ListerBehind, EventTypeOK, EventObject
  <2> QED
    BY <2>2, <2>3
<1>8. CASE UNCHANGED inputVars
  BY <1>8 DEF inputVars, EventTypeOK, ListerBehind
<1>9. ASSUME NEW e \in Event, Relist(e)
      PROVE  EventTypeOK' /\ ListerBehind'
  BY <1>8, <1>9, RelistUnseen
<1> QED
  BY <1>1, <1>2, <1>3, <1>4, <1>5, <1>6, <1>7, <1>8, <1>9, StepCases

(* They hold at the start.                                                 *)
LEMMA InputInit == Init => EventTypeOK /\ ListerBehind
<1> SUFFICES ASSUME Init PROVE EventTypeOK /\ ListerBehind
  OBVIOUS
<1>1. NoEvent \in EventObject /\ NoEvent.version = 0
  BY DEF NoEvent, EventObject
<1>2. IsFiniteSet({})
  BY FS_EmptySet
<1>3. EventTypeOK
  BY <1>1, <1>2, TimeAssumption DEF Init, NewBindingRecords, EventTypeOK
<1>4. ListerBehind
  BY <1>1 DEF Init, ListerBehind
<1> QED
  BY <1>3, <1>4

-----------------------------------------------------------------------------
(* One Binding per version.                                                *)

(* A key in the queue stands for a version that has no Binding yet.        *)
VersionsAhead ==
    \A e \in Event :
        /\ recorded[e] <= seen[e].version
        /\ e \in queue => recorded[e] + 1 <= seen[e].version

(* Every step keeps recorded behind the versions.                          *)
LEMMA VersionStep ==
    ASSUME EventTypeOK, ListerBehind, VersionsAhead, [HotValueNext]_allVars
    PROVE  VersionsAhead'
<1> USE DEF VersionsAhead
<1>1. ASSUME NEW e \in Event, EventRecorded(e) \/ EventUpdated(e) \/ EventRemoved(e)
      PROVE  VersionsAhead'
  BY <1>1, EventAlone
<1>2. ASSUME NEW e \in Event, ObserveEvent(e)
      PROVE  VersionsAhead'
  <2>1. /\ seen' = [seen EXCEPT ![e] = event[e]] /\ UNCHANGED <<event, recorded>>
        /\ \/ UNCHANGED queue
           \/ queue' = queue \cup {e} /\ seen[e].version + 1 <= event[e].version
    BY <1>2, Notified
  <2>2. /\ recorded[e] \in Nat /\ seen[e].version \in Nat /\ event[e].version \in Nat
        /\ seen[e].version <= event[e].version
        /\ DOMAIN seen = Event
    BY DEF EventTypeOK, EventObject, ListerBehind
  <2>3. /\ recorded[e] <= event[e].version
        /\ (e \in queue \/ seen[e].version + 1 <= event[e].version) => recorded[e] + 1 <= event[e].version
    BY <2>2
  <2>4. /\ recorded[e] <= event[e].version
        /\ e \in queue' => recorded[e] + 1 <= event[e].version
    BY <2>1, <2>3
  <2>5. seen'[e] = event[e] /\ \A f \in Event \ {e} : seen'[f] = seen[f] /\ (f \in queue' => f \in queue)
    BY <2>1, <2>2
  <2> QED
    BY <2>1, <2>4, <2>5
<1>3. ASSUME NEW w \in Workers, Reconcile(w)
      PROVE  VersionsAhead'
  <2>1. PICK e \in queue :
           /\ queue' = queue \ {e}
           /\ recorded' = [recorded EXCEPT ![e] = @ + 1]
           /\ seen' = seen
    BY <1>3, ReconcileTakes
  <2>2. e \in Event /\ e \notin queue' /\ recorded'[e] = recorded[e] + 1
    BY <2>1 DEF EventTypeOK
  <2>3. \A f \in Event \ {e} : recorded'[f] = recorded[f] /\ (f \in queue' => f \in queue)
    BY <2>1 DEF EventTypeOK
  <2> QED
    BY <2>1, <2>2, <2>3
<1>4. ASSUME NEW w \in Workers, ReconcileError(w)
      PROVE  VersionsAhead'
  BY <1>4 DEF ReconcileError, vars, eventVars
<1>5. CASE BindingsGC /\ UNCHANGED hotVars
  BY <1>5 DEF hotVars, eventVars
<1>6. CASE Tick /\ UNCHANGED hotVars
  BY <1>6 DEF hotVars, eventVars
<1>7. CASE Restart
  BY <1>7 DEF Restart, Exists, EventTypeOK, EventObject
<1>8. CASE UNCHANGED inputVars
  BY <1>8 DEF inputVars
<1>9. ASSUME NEW e \in Event, Relist(e)
      PROVE  VersionsAhead'
  BY <1>8, <1>9, RelistUnseen
<1> QED
  BY <1>1, <1>2, <1>3, <1>4, <1>5, <1>6, <1>7, <1>8, <1>9, StepCases

(* No event is counted more often than the lister has had versions of it,  *)
(* whatever relists, busy workers, failing patches and restarts happen.    *)
THEOREM CountedPerVersion == HotValueSpec => []RecordedPerVersion
<1>1. Init => EventTypeOK /\ ListerBehind /\ VersionsAhead
  <2>1. Init => VersionsAhead
    BY DEF Init, VersionsAhead, NoEvent
  <2> QED
    BY <2>1, InputInit
<1>2. EventTypeOK /\ ListerBehind /\ VersionsAhead /\ [HotValueNext]_allVars
        => EventTypeOK' /\ ListerBehind' /\ VersionsAhead'
  BY InputStep, VersionStep
<1>3. VersionsAhead => RecordedPerVersion
  BY DEF VersionsAhead, RecordedPerVersion
<1> QED
  BY <1>1, <1>2, <1>3, PTL DEF HotValueSpec

-----------------------------------------------------------------------------
(* The records are complete.                                               *)

(* An event the controller is done with, and its Binding.                  *)
Served(e) == Exists(seen[e]) /\ NodeOf[e] # Malformed /\ e \notin queue
Held(e) == \E b \in bindings : b.node = NodeOf[e] /\ b.timestamp = occurred(e)
Kept(e) == occurred(e) > now - GCTimeRange /\ Cardinality(added) <= Size

(* RecordsComplete in these terms.                                         *)
LEMMA CompleteMeans == RecordsComplete <=> \A e \in Event : Served(e) /\ Kept(e) => Held(e)
BY DEF RecordsComplete, Served, Kept, Held

(* The time of an event is a number.                                       *)
LEMMA OccurredType == ASSUME EventTypeOK, NEW e \in Event PROVE occurred(e) \in Int
BY DEF EventTypeOK, EventObject, occurred, Zero

(* An event that was served before the step stays held if the lister keeps *)
(* it, unless a Binding of its time may leave the records.                 *)
LEMMA HeldStays ==
    ASSUME RecordsComplete, NEW e \in Event,
           Served(e), Kept(e), seen'[e] = seen[e],
           \A b \in bindings : b.timestamp = occurred(e) => b \in bindings'
    PROVE  Held(e)'
<1>1. Held(e)
  BY CompleteMeans
<1>2. occurred(e)' = occurred(e)
  BY DEF occurred
<1>3. PICK b \in bindings : b.node = NodeOf[e] /\ b.timestamp = occurred(e)
  BY <1>1 DEF Held
<1>4. b \in bindings' /\ b.node = NodeOf[e] /\ b.timestamp = occurred(e)'
  BY <1>2, <1>3
<1> QED
  BY <1>4 DEF Held

(* Every step keeps the records complete.                                  *)
LEMMA CompleteStep ==
    ASSUME EventTypeOK, ListerBehind, RecordsComplete, [HotValueNext]_allVars
    PROVE  RecordsComplete'
<1>1. ASSUME NEW e \in Event, EventRecorded(e) \/ EventUpdated(e) \/ EventRemoved(e)
      PROVE  RecordsComplete'
  <2>1. UNCHANGED <<now, bindings, added, seen, queue>>
    BY <1>1, EventAlone
  <2> QED
    BY <2>1 DEF RecordsComplete, occurred
<1>2. CASE UNCHANGED inputVars
  BY <1>2 DEF RecordsComplete, occurred, inputVars
<1>3. ASSUME NEW e \in Event, Relist(e)
      PROVE  RecordsComplete'
  BY <1>2, <1>3, RelistUnseen
<1>4. SUFFICES ASSUME NEW f \in Event, Served(f)', Kept(f)',
                      \/ \E e \in Event : ObserveEvent(e)
                      \/ \E w \in Workers : Reconcile(w)
                      \/ \E w \in Workers : ReconcileError(w)
                      \/ BindingsGC /\ UNCHANGED hotVars
                      \/ Tick /\ UNCHANGED hotVars
                      \/ Restart
               PROVE  Held(f)'
  <2>1. (\A e \in Event : Served(e)' /\ Kept(e)' => Held(e)') => RecordsComplete'
    BY DEF RecordsComplete, Served, Kept, Held
  <2> QED
    BY <1>1, <1>2, <1>3, <2>1, StepCases
<1>5. occurred(f) \in Int /\ now \in Int /\ GCTimeRange \in Int
  BY OccurredType, TimeAssumption DEF EventTypeOK
<1>6. ASSUME NEW e \in Event, ObserveEvent(e)
      PROVE  Held(f)'
  <2>1. /\ seen' = [seen EXCEPT ![e] = event[e]]
        /\ UNCHANGED <<now, bindings, added>>
        /\ (event[e].gone /\ UNCHANGED queue) \/ queue' = queue \cup {e}
    BY <1>6, Notified
  <2>2. f # e
    BY <1>4, <2>1 DEF Served, Exists, EventTypeOK
  <2>3. seen'[f] = seen[f] /\ f \notin queue
    BY <1>4, <2>1, <2>2 DEF Served, EventTypeOK
  <2>4. Served(f)
    BY <1>4, <2>3 DEF Served
  <2>5. Kept(f)
    BY <1>4, <2>1, <2>3 DEF Kept, occurred
  <2> QED
    BY <2>1, <2>3, <2>4, <2>5, HeldStays
<1>7. ASSUME NEW w \in Workers, Reconcile(w)
      PROVE  Held(f)'
  <2>1. PICK e \in queue :
           /\ queue' = queue \ {e}
           /\ AddBinding(translateEventToBinding(e))
           /\ UNCHANGED <<event, seen>>
    BY <1>7, ReconcileTakes
  <2>2. /\ translateEventToBinding(e) \in bindings'
        /\ Cardinality(added') = Cardinality(added) + 1 /\ Cardinality(added) \in Nat
        /\ Cardinality(added') <= Size => bindings \subseteq bindings'
        /\ UNCHANGED now
    BY <2>1, AddKeeps DEF EventTypeOK
  <2>3. occurred(f)' = occurred(f)
    BY <2>1 DEF occurred
  <2>4. CASE f = e
    <3>1. /\ translateEventToBinding(e).node = NodeOf[e]
          /\ translateEventToBinding(e).timestamp = occurred(e)
      BY DEF translateEventToBinding
    <3> QED
      BY <2>2, <2>3, <2>4, <3>1 DEF Held
  <2>5. CASE f # e
    <3>1. Served(f)
      BY <1>4, <2>1, <2>5 DEF Served
    <3>2. Cardinality(added') <= Size
      BY <1>4 DEF Kept
    <3>3. Cardinality(added) <= Size
      BY <2>2, <3>2, SizeAssumption
    <3>4. Kept(f)
      BY <1>4, <2>2, <2>3, <3>3 DEF Kept
    <3> QED
      BY <2>1, <2>2, <3>1, <3>2, <3>4, HeldStays
  <2> QED
    BY <2>4, <2>5
<1>8. ASSUME NEW w \in Workers, ReconcileError(w)
      PROVE  Held(f)'
  <2>1. PICK e \in queue :
           /\ ~Exists(seen[e]) \/ NodeOf[e] = Malformed
           /\ queue' = queue \ {e}
           /\ UNCHANGED <<now, bindings, added, seen>>
    BY <1>8 DEF ReconcileError, vars, eventVars
  <2>2. Served(f)
    BY <1>4, <2>1 DEF Served
  <2>3. Kept(f)
    BY <1>4, <2>1 DEF Kept, occurred
  <2> QED
    BY <2>1, <2>2, <2>3, HeldStays
<1>9. CASE BindingsGC /\ UNCHANGED hotVars
  <2>1. /\ UNCHANGED <<now, added, seen, queue>>
        /\ \A b \in bindings : b.timestamp > now - GCTimeRange => b \in bindings'
    BY <1>9, GCKeeps DEF hotVars, eventVars
  <2>2. Served(f) /\ Kept(f)
    BY <1>4, <2>1 DEF Served, Kept, occurred
  <2>3. \A b \in bindings : b.timestamp = occurred(f) => b \in bindings'
    BY <2>1, <2>2 DEF Kept
  <2> QED
    BY <2>1, <2>2, <2>3, HeldStays
<1>10. CASE Tick /\ UNCHANGED hotVars
  <2>1. UNCHANGED <<bindings, added, seen, queue>> /\ now' = now + 1
    BY <1>10 DEF Tick, hotVars, eventVars
  <2>2. Served(f)
    BY <1>4, <2>1 DEF Served
  <2>3. occurred(f) > (now + 1) - GCTimeRange /\ Cardinality(added) <= Size
    BY <1>4, <2>1 DEF Kept, occurred
  <2>4. Kept(f)
    BY <1>5, <2>3 DEF Kept
  <2> QED
    BY <2>1, <2>2, <2>4, HeldStays
<1>11. CASE Restart
  BY <1>4, <1>11 DEF Restart, Served
<1> QED
  BY <1>4, <1>6, <1>7, <1>8, <1>9, <1>10, <1>11

(* Unless the heap overflows, the records hold the last time of every      *)
(* event the controller is done with: no interleaving of informer, queue,  *)
(* workers, collection and restart loses one.                              *)
THEOREM RecordsStayComplete == HotValueSpec => []RecordsComplete
<1>1. Init => EventTypeOK /\ ListerBehind /\ RecordsComplete
  <2>1. Init => RecordsComplete
    BY DEF Init, RecordsComplete, NoEvent, Exists
  <2> QED
    BY <2>1, InputInit
<1>2. EventTypeOK /\ ListerBehind /\ RecordsComplete /\ [HotValueNext]_allVars
        => EventTypeOK' /\ ListerBehind' /\ RecordsComplete'
  BY InputStep, CompleteStep
<1> QED
  BY <1>1, <1>2, PTL DEF HotValueSpec

-----------------------------------------------------------------------------
(* The annotator's records keep their bound.                               *)

(* However the event controller adds Bindings, the collection runs and the *)
(* controller restarts, the heap holds no more than size Bindings.         *)
THEOREM AnnotatorLenBounded == HotValueSpec => []LenBounded
<1>1. Init => EventTypeOK /\ ListerBehind /\ LenBounded
  <2>1. Init => LenBounded
    BY FS_EmptySet, SizeAssumption DEF Init, NewBindingRecords, LenBounded
  <2> QED
    BY <2>1, InputInit
<1>2. ASSUME EventTypeOK, ListerBehind, LenBounded, [HotValueNext]_allVars
      PROVE  LenBounded'
  <2>1. ASSUME UNCHANGED bindings PROVE LenBounded'
    BY <1>2, <2>1 DEF LenBounded
  <2>2. ASSUME NEW e \in Event, EventRecorded(e) \/ EventUpdated(e) \/ EventRemoved(e)
        PROVE  LenBounded'
    BY <2>1, <2>2, EventAlone
  <2>3. ASSUME NEW e \in Event, ObserveEvent(e) PROVE LenBounded'
    BY <1>2, <2>1, <2>3, Notified
  <2>4. ASSUME NEW w \in Workers, Reconcile(w) PROVE LenBounded'
    BY <1>2, <2>4, ReconcileTakes, AddKeeps DEF EventTypeOK
  <2>5. ASSUME NEW w \in Workers, ReconcileError(w) PROVE LenBounded'
    BY <2>1, <2>5 DEF ReconcileError, vars
  <2>6. CASE BindingsGC
    BY <1>2, <2>6, GCKeeps
  <2>7. CASE Tick
    BY <2>1, <2>7 DEF Tick
  <2>8. CASE Restart
    <3>1. bindings' = {} /\ Cardinality({}) = 0
      BY <2>8, FS_EmptySet DEF Restart
    <3> QED
      BY <3>1, SizeAssumption DEF LenBounded
  <2>9. CASE UNCHANGED inputVars
    BY <2>1, <2>9 DEF inputVars
  <2>10. ASSUME NEW e \in Event, Relist(e) PROVE LenBounded'
    BY <2>9, <2>10, RelistUnseen
  <2> QED
    BY <1>2, <2>2, <2>3, <2>4, <2>5, <2>6, <2>7, <2>8, <2>9, <2>10, StepCases
<1>3. EventTypeOK /\ ListerBehind /\ LenBounded /\ [HotValueNext]_allVars
        => EventTypeOK' /\ ListerBehind' /\ LenBounded'
  BY <1>2, InputStep
<1> QED
  BY <1>1, <1>3, PTL DEF HotValueSpec

-----------------------------------------------------------------------------
(* The types of everything.                                                *)

(* The time that occurred reads is set: the event time with the new API,   *)
(* the time of the last occurrence with the old one.                       *)
Timed(e, obj) ==
    /\ obj.version <= MaxVersion[e]
    /\ obj.version > 0 =>
          IF e \in NewAPI THEN obj.count = 0 /\ obj.eventTime \in 0..MaxTime
          ELSE obj.count # 0 /\ obj.lastTimestamp \in 0..MaxTime
EventsTimed == \A e \in Event : Timed(e, event[e]) /\ Timed(e, seen[e])

(* Every Binding was counted for an event.                                 *)
AddedCounted == Cardinality(added) = SumFunctionOnSet(recorded, Event)

(* A change of an event sets its time.                                     *)
LEMMA ChangeTimed ==
    ASSUME EventTypeOK, EventsTimed, NEW e \in Event,
           EventRecorded(e) \/ EventUpdated(e) \/ EventRemoved(e)
    PROVE  Timed(e, event'[e])
<1>1. now \in 0..MaxTime /\ event[e] \in EventObject /\ DOMAIN event = Event
  BY DEF EventTypeOK
<1>2. MaxVersion[e] \in Nat \ {0} /\ Timed(e, event[e])
  BY EventAssumption DEF EventsTimed
<1>3. CASE EventRecorded(e)
  <2>1. CASE e \in NewAPI
    <3>1. event'[e] = [NoEvent EXCEPT !.version = 1, !.eventTime = now]
      BY <1>1, <1>3, <2>1 DEF EventRecorded
    <3>2. event'[e].version = 1 /\ event'[e].eventTime = now /\ event'[e].count = 0
      BY <3>1 DEF NoEvent
    <3> QED
      BY <1>1, <1>2, <2>1, <3>2 DEF Timed
  <2>2. CASE e \notin NewAPI
    <3>1. event'[e] = [NoEvent EXCEPT !.version = 1, !.count = 1, !.lastTimestamp = now]
      BY <1>1, <1>3, <2>2 DEF EventRecorded
    <3>2. event'[e].version = 1 /\ event'[e].lastTimestamp = now /\ event'[e].count = 1
      BY <3>1 DEF NoEvent
    <3> QED
      BY <1>1, <1>2, <2>2, <3>2 DEF Timed
  <2> QED
    BY <2>1, <2>2
<1>4. CASE EventUpdated(e)
  <2> DEFINE old == event[e]
             new(again) == [old EXCEPT
                  !.version = old.version + 1,
                  !.count = IF e \in NewAPI THEN 0 ELSE old.count + again,
                  !.lastTimestamp = IF e \in NewAPI \/ again = 0 THEN old.lastTimestamp ELSE now]
  <2>1. PICK again \in {0, 1} : event' = [event EXCEPT ![e] = new(again)]
    BY <1>4 DEF EventUpdated
  <2>2. event'[e] = new(again)
    BY <1>1, <2>1
  <2>3. old.version > 0 /\ old.version < MaxVersion[e] /\ old.version \in Nat /\ old.count \in Nat
    BY <1>1, <1>4 DEF EventUpdated, Exists, EventObject
  <2>4. /\ new(again).version = old.version + 1
        /\ new(again).count = IF e \in NewAPI THEN 0 ELSE old.count + again
        /\ new(again).eventTime = old.eventTime
        /\ new(again).lastTimestamp = IF e \in NewAPI \/ again = 0 THEN old.lastTimestamp ELSE now
    BY <1>1 DEF EventObject
  <2> HIDE DEF new
  <2>5. CASE e \in NewAPI
    BY <1>1, <1>2, <2>2, <2>3, <2>4, <2>5 DEF Timed
  <2>6. CASE e \notin NewAPI
    BY <1>1, <1>2, <2>2, <2>3, <2>4, <2>6 DEF Timed
  <2> QED
    BY <2>5, <2>6
<1>5. CASE EventRemoved(e)
  <2>1. event'[e] = [event[e] EXCEPT !.gone = TRUE]
    BY <1>1, <1>5 DEF EventRemoved
  <2>2. /\ event'[e].version = event[e].version /\ event'[e].count = event[e].count
        /\ event'[e].eventTime = event[e].eventTime /\ event'[e].lastTimestamp = event[e].lastTimestamp
    BY <1>1, <2>1 DEF EventObject
  <2> QED
    BY <1>2, <2>2 DEF Timed
<1> QED
  BY <1>3, <1>4, <1>5

(* Every step keeps the times set.                                         *)
LEMMA TimedStep ==
    ASSUME EventTypeOK, ListerBehind, EventsTimed, [HotValueNext]_allVars
    PROVE  EventsTimed'
<1>0. ASSUME UNCHANGED <<event, seen>> PROVE EventsTimed'
  BY <1>0 DEF EventsTimed, Timed
<1>1. ASSUME NEW e \in Event, EventRecorded(e) \/ EventUpdated(e) \/ EventRemoved(e)
      PROVE  EventsTimed'
  <2>1. seen' = seen /\ Timed(e, event'[e]) /\ \A f \in Event \ {e} : event'[f] = event[f]
    BY <1>1, EventAlone, EventChange, ChangeTimed
  <2> QED
    BY <2>1 DEF EventsTimed, Timed
<1>2. ASSUME NEW e \in Event, ObserveEvent(e)
      PROVE  EventsTimed'
  <2>1. seen' = [seen EXCEPT ![e] = event[e]] /\ event' = event
    BY <1>2, Notified
  <2>2. \A f \in Event : seen'[f] = seen[f] \/ seen'[f] = event[f]
    BY <2>1 DEF EventTypeOK
  <2> QED
    BY <2>1, <2>2 DEF EventsTimed, Timed
<1>3. ASSUME NEW w \in Workers, Reconcile(w) PROVE EventsTimed'
  BY <1>0, <1>3 DEF Reconcile, eventVars
<1>4. ASSUME NEW w \in Workers, ReconcileError(w) PROVE EventsTimed'
  BY <1>0, <1>4 DEF ReconcileError, eventVars
<1>5. CASE UNCHANGED hotVars
  BY <1>0, <1>5 DEF hotVars, eventVars
<1>6. CASE Restart
  BY <1>6 DEF Restart, EventsTimed, Timed
<1>7. CASE UNCHANGED inputVars
  BY <1>0, <1>7 DEF inputVars
<1>8. ASSUME NEW e \in Event, Relist(e) PROVE EventsTimed'
  BY <1>7, <1>8, RelistUnseen
<1> QED
  BY <1>1, <1>2, <1>3, <1>4, <1>5, <1>6, <1>7, <1>8, StepCases

(* Counting one more of an event counts one more.                          *)
LEMMA SumGrows ==
    ASSUME NEW f \in [Event -> Nat], NEW e \in Event
    PROVE  SumFunctionOnSet([f EXCEPT ![e] = @ + 1], Event) = SumFunctionOnSet(f, Event) + 1
<1> DEFINE g == [f EXCEPT ![e] = @ + 1]
<1>1. g[e] = f[e] + 1 /\ \A x \in Event \ {e} : f[x] = g[x]
  OBVIOUS
<1>2. \A x \in Event : f[x] \in Int /\ g[x] \in Int
  BY <1>1
<1> HIDE DEF g
<1>3. SumFunctionOnSet(g, Event) = SumFunctionOnSet(f, Event) + (g[e] - f[e])
  BY <1>1, <1>2, EventAssumption, SumChange
<1>4. g[e] - f[e] = 1
  BY <1>1
<1> QED
  BY <1>3, <1>4 DEF g

(* At the start nothing is counted.                                        *)
LEMMA ZeroCounted == Cardinality({}) = SumFunctionOnSet([e \in Event |-> 0], Event)
<1> DEFINE z == [e \in Event |-> 0]
<1>1. \A e \in Event : z[e] \in Int /\ z[e] = 0
  OBVIOUS
<1> HIDE DEF z
<1>2. SumFunctionOnSet(z, Event) = 0
  BY <1>1, SumZero, EventAssumption
<1> QED
  BY <1>2, FS_EmptySet DEF z

(* Every step keeps the count.                                             *)
LEMMA CountedStep ==
    ASSUME EventTypeOK, ListerBehind, AddedCounted, [HotValueNext]_allVars
    PROVE  AddedCounted'
<1>0. ASSUME UNCHANGED <<added, recorded>> PROVE AddedCounted'
  BY <1>0 DEF AddedCounted
<1>1. ASSUME NEW e \in Event, EventRecorded(e) \/ EventUpdated(e) \/ EventRemoved(e)
      PROVE  AddedCounted'
  BY <1>0, <1>1, EventAlone
<1>2. ASSUME NEW e \in Event, ObserveEvent(e) PROVE AddedCounted'
  BY <1>0, <1>2, Notified
<1>3. ASSUME NEW w \in Workers, Reconcile(w) PROVE AddedCounted'
  <2>1. PICK e \in queue : /\ AddBinding(translateEventToBinding(e))
                           /\ recorded' = [recorded EXCEPT ![e] = @ + 1]
    BY <1>3, ReconcileTakes
  <2>2. Cardinality(added') = Cardinality(added) + 1
    BY <2>1, AddKeeps DEF EventTypeOK
  <2>3. SumFunctionOnSet(recorded', Event) = SumFunctionOnSet(recorded, Event) + 1
    BY <2>1, SumGrows DEF EventTypeOK
  <2> QED
    BY <2>2, <2>3 DEF AddedCounted
<1>4. ASSUME NEW w \in Workers, ReconcileError(w) PROVE AddedCounted'
  BY <1>0, <1>4 DEF ReconcileError, vars
<1>5. CASE (BindingsGC \/ Tick) /\ UNCHANGED hotVars
  BY <1>0, <1>5 DEF BindingsGC, Tick, hotVars
<1>6. CASE Restart
  <2>1. added' = {} /\ recorded' = [e \in Event |-> 0]
    BY <1>6 DEF Restart
  <2> QED
    BY <2>1, ZeroCounted DEF AddedCounted
<1>7. CASE UNCHANGED inputVars
  BY <1>0, <1>7 DEF inputVars
<1>8. ASSUME NEW e \in Event, Relist(e) PROVE AddedCounted'
  BY <1>7, <1>8, RelistUnseen
<1> QED
  BY <1>1, <1>2, <1>3, <1>4, <1>5, <1>6, <1>7, <1>8, StepCases

(* What the goroutines and the annotations hold.                           *)
JobTypes ==
    /\ added \subseteq Binding
    /\ worker \in [Workers \cup {Syncer} -> Job \cup {Idle}]
    /\ hot \in [Node -> Nat \cup {Absent}]
    /\ restarts \in 0..MaxRestarts

(* There is a Binding for the version that a worker takes.                 *)
LEMMA BindingType ==
    ASSUME EventTypeOK, ListerBehind, VersionsAhead, EventsTimed, AddedCounted,
           NEW e \in queue, Exists(seen[e]), NodeOf[e] # Malformed
    PROVE  translateEventToBinding(e) \in Binding
<1>1. e \in Event /\ seen[e] \in EventObject /\ seen[e].version > 0 /\ Timed(e, seen[e])
  BY DEF EventTypeOK, Exists, EventsTimed
<1>2. NodeOf[e] \in Node
  BY <1>1, EventAssumption
<1>3. occurred(e) \in 0..MaxTime
  BY <1>1 DEF Timed, occurred
<1>4. Cardinality(added) + 1 \in Ref
  <2> DEFINE more == [recorded EXCEPT ![e] = @ + 1]
  <2>1. SumFunctionOnSet(more, Event) = Cardinality(added) + 1
    BY <1>1, SumGrows DEF EventTypeOK, AddedCounted
  <2>2. ASSUME NEW f \in Event
        PROVE  more[f] \in Int /\ MaxVersion[f] \in Int /\ more[f] <= MaxVersion[f]
    <3>1. /\ recorded[f] \in Nat /\ seen[f].version \in Nat /\ MaxVersion[f] \in Nat
          /\ seen[f].version <= MaxVersion[f]
      BY EventAssumption DEF EventTypeOK, EventObject, EventsTimed, Timed
    <3>2. recorded[f] <= seen[f].version /\ (f = e => recorded[f] + 1 <= seen[f].version)
      BY DEF VersionsAhead
    <3>3. more[f] = IF f = e THEN recorded[f] + 1 ELSE recorded[f]
      BY <1>1 DEF EventTypeOK
    <3> HIDE DEF more
    <3> QED
      BY <3>1, <3>2, <3>3
  <2>3. IsFiniteSet(Event) /\ DOMAIN MaxVersion = Event
    BY EventAssumption
  <2> HIDE DEF more
  <2>4. SumFunctionOnSet(more, Event) <= SumFunctionOnSet(MaxVersion, Event)
    BY <2>2, <2>3, SumAtMost
  <2>5. SumFunctionOnSet(MaxVersion, Event) = SumFunction(MaxVersion)
    BY <2>3 DEF SumFunction
  <2>6. SumFunctionOnSet(MaxVersion, Event) \in Int
    BY <2>2, <2>3, SumInt
  <2>7. Cardinality(added) \in Nat
    BY FS_CardinalityType DEF EventTypeOK
  <2>8. Cardinality(added) + 1 \in 1..SumFunction(MaxVersion)
    BY <2>1, <2>4, <2>5, <2>6, <2>7
  <2> QED
    BY <2>8, RefAssumption
<1> QED
  BY <1>2, <1>3, <1>4 DEF translateEventToBinding, Binding

(* Every step keeps what they hold.                                        *)
LEMMA JobStep ==
    ASSUME EventTypeOK, ListerBehind, VersionsAhead, EventsTimed, AddedCounted,
           JobTypes, [HotValueNext]_allVars
    PROVE  JobTypes'
<1>0. ASSUME UNCHANGED <<added, worker, hot, restarts>> PROVE JobTypes'
  BY <1>0 DEF JobTypes
<1>1. ASSUME NEW e \in Event, EventRecorded(e) \/ EventUpdated(e) \/ EventRemoved(e)
      PROVE  JobTypes'
  BY <1>0, <1>1 DEF EventRecorded, EventUpdated, EventRemoved, vars
<1>2. ASSUME NEW e \in Event, ObserveEvent(e) \/ Relist(e) PROVE JobTypes'
  BY <1>0, <1>2 DEF ObserveEvent, Relist, vars
<1>3. ASSUME NEW w \in Workers, Reconcile(w) PROVE JobTypes'
  <2>1. PICK e \in queue :
           /\ Exists(seen[e]) /\ NodeOf[e] # Malformed
           /\ AddBinding(translateEventToBinding(e))
           /\ worker' = [worker EXCEPT ![w] = [event |-> e, node |-> NodeOf[e], value |-> Absent]]
           /\ UNCHANGED <<hot, restarts>>
    BY <1>3 DEF Reconcile
  <2>2. e \in Event /\ NodeOf[e] \in Node
    BY <2>1, EventAssumption DEF EventTypeOK
  <2>3. translateEventToBinding(e) \in Binding
    BY <2>1, BindingType
  <2>4. added' = added \cup {translateEventToBinding(e)}
    BY <2>1 DEF AddBinding
  <2>5. [event |-> e, node |-> NodeOf[e], value |-> Absent] \in Job
    BY <2>2 DEF Job
  <2> QED
    BY <2>1, <2>3, <2>4, <2>5 DEF JobTypes
<1>4. ASSUME NEW w \in Workers, ReconcileError(w) PROVE JobTypes'
  BY <1>0, <1>4 DEF ReconcileError, vars
<1>5. ASSUME NEW n \in Node, SyncNode(n) PROVE JobTypes'
  <2>1. /\ worker' = [worker EXCEPT ![Syncer] = [event |-> Syncer, node |-> n, value |-> Absent]]
        /\ UNCHANGED <<added, hot, restarts>>
    BY <1>5 DEF SyncNode, vars
  <2>2. [event |-> Syncer, node |-> n, value |-> Absent] \in Job
    BY DEF Job
  <2> QED
    BY <2>1, <2>2 DEF JobTypes
<1>6. ASSUME NEW w \in Workers \cup {Syncer}, CountHotValue(w) PROVE JobTypes'
  <2>1. /\ worker[w] \in Job /\ UNCHANGED <<added, hot, restarts>>
        /\ worker' = [worker EXCEPT ![w].value = NodeHotValue(worker[w].node)]
    BY <1>6 DEF CountHotValue, JobTypes, vars
  <2>2. IsFiniteSet(bindings)
    BY FS_Subset DEF EventTypeOK
  <2>3. NodeHotValue(worker[w].node) \in Nat
    BY <2>2, HotValueType
  <2>4. [worker[w] EXCEPT !.value = NodeHotValue(worker[w].node)] \in Job
    BY <2>1, <2>3 DEF Job
  <2> QED
    BY <2>1, <2>4 DEF JobTypes
<1>7. ASSUME NEW w \in Workers \cup {Syncer}, PatchHotValue(w) PROVE JobTypes'
  <2>1. /\ worker[w] \in Job /\ UNCHANGED <<added, restarts>>
        /\ hot' = [hot EXCEPT ![worker[w].node] = worker[w].value]
        /\ worker' = [worker EXCEPT ![w] = Idle]
    BY <1>7 DEF PatchHotValue, JobTypes, vars
  <2>2. worker[w].value \in Nat \cup {Absent}
    BY <2>1 DEF Job
  <2> QED
    BY <2>1, <2>2 DEF JobTypes
<1>8. ASSUME NEW w \in Workers \cup {Syncer}, AnnotateFails(w) PROVE JobTypes'
  BY <1>8 DEF AnnotateFails, JobTypes, vars
<1>9. CASE (BindingsGC \/ Tick) /\ UNCHANGED hotVars
  BY <1>0, <1>9 DEF BindingsGC, Tick, hotVars
<1>10. CASE Restart
  BY <1>10, EventAssumption DEF Restart, JobTypes
<1>11. CASE UNCHANGED allVars
  BY <1>0, <1>11 DEF allVars, hotVars, vars
<1> QED
  BY <1>1, <1>2, <1>3, <1>4, <1>5, <1>6, <1>7, <1>8, <1>9, <1>10, <1>11 DEF HotValueNext

(* Every Binding that the event controller makes has a node and a time,    *)
(* for events of either API, and every hot value is a number, whatever is  *)
(* added, collected and counted in between.                                *)
THEOREM HotValueTypeCorrect == HotValueSpec => []HotValueTypeOK
<1> DEFINE IInv == /\ EventTypeOK /\ ListerBehind /\ VersionsAhead
                   /\ EventsTimed /\ AddedCounted /\ JobTypes
<1>1. Init => IInv
  <2> SUFFICES ASSUME Init PROVE IInv
    OBVIOUS
  <2>1. VersionsAhead
    BY DEF Init, VersionsAhead, NoEvent
  <2>2. EventsTimed
    BY EventAssumption DEF Init, EventsTimed, Timed, NoEvent
  <2>3. AddedCounted
    BY ZeroCounted DEF Init, NewBindingRecords, AddedCounted
  <2>4. JobTypes
    BY EventAssumption DEF Init, NewBindingRecords, JobTypes
  <2> QED
    BY <2>1, <2>2, <2>3, <2>4, InputInit
<1>2. IInv /\ [HotValueNext]_allVars => IInv'
  BY InputStep, VersionStep, TimedStep, CountedStep, JobStep
<1>3. IInv => HotValueTypeOK
  BY DEF EventTypeOK, JobTypes, HotValueTypeOK, TypeOK
<1> QED
  BY <1>1, <1>2, <1>3, PTL DEF HotValueSpec

-----------------------------------------------------------------------------
(***************************************************************************)
(* The Dynamic plugin in a burst of pods.                                  *)
(***************************************************************************)

(* The plugin as a user of the records.                                    *)

(* PostBind adds a Binding of the current time; a cycle's other steps are  *)
(* not seen by the records.                                                *)
LEMMA BurstStep ==
    ASSUME TypeOK, [BurstNext]_burstVars
    PROVE  [Next]_vars
<1>1. ASSUME NEW n \in Node, PostBind(n) PROVE Add
  <2>1. PICK r \in Ref : AddBinding([ref |-> r, node |-> n, timestamp |-> now])
    BY <1>1 DEF PostBind
  <2>2. now \in 0..now /\ now - now <= MaxLag
    BY TimeAssumption DEF TypeOK
  <2> QED
    BY <2>1, <2>2 DEF Add
<1> QED
  BY <1>1 DEF BurstNext, Schedule, BindingFails, burstVars, Next

(* What the records promise holds in the plugin: its binding cycles use    *)
(* them as BindingRecords allows.                                          *)
THEOREM BurstUsesRecords == BurstSpec => Spec
<1>1. BurstInit => NewBindingRecords
  BY DEF BurstInit
<1>2. NewBindingRecords => HeapInv
  BY FS_EmptySet, SizeAssumption, TimeAssumption DEF NewBindingRecords, HeapInv, TypeOK, LenBounded
<1>3. HeapInv /\ [BurstNext]_burstVars => HeapInv' /\ [Next]_vars
  BY BurstStep, HeapStep DEF HeapInv
<1> QED
  BY <1>1, <1>2, <1>3, PTL DEF BurstSpec, Spec

-----------------------------------------------------------------------------
(* Scores.                                                                 *)

(* The summands of a node's score.                                         *)
Scores(n) == [i \in DOMAIN Weight |-> getScore(n, i)]
Points == [i \in DOMAIN Weight |-> MaxNodeScore * Weight[i]]

(* int() of a quotient.                                                    *)
LEMMA TruncateType ==
    ASSUME NEW a \in Int, NEW b \in Nat \ {0}
    PROVE  Truncate(a, b) \in Int /\ (a <= MaxNodeScore * b => Truncate(a, b) <= MaxNodeScore)
<1>1. CASE a >= 0
  <2>1. a \div b \in Int
    OBVIOUS
  <2>2. a <= 100 * b => a \div b <= 100
    OBVIOUS
  <2> QED
    BY <1>1, <2>1, <2>2 DEF Truncate, MaxNodeScore
<1>2. CASE ~(a >= 0)
  <2>1. (-a) \in Nat /\ (-a) \div b \in Nat
    BY <1>2, QuotientType
  <2> QED
    BY <1>2, <2>1 DEF Truncate, MaxNodeScore
<1> QED
  BY <1>1, <1>2

(* The score by usage is a number, and never above the maximum.            *)
LEMMA NodeScoreType ==
    ASSUME NEW n \in Node
    PROVE  getNodeScore(n) \in Int /\ getNodeScore(n) <= MaxNodeScore
<1>1. CASE DOMAIN Weight = {}
  BY <1>1 DEF getNodeScore, MaxNodeScore
<1>2. CASE DOMAIN Weight # {}
  <2> DEFINE D == DOMAIN Weight
  <2>1. IsFiniteSet(D) /\ \A i \in D : Weight[i] \in Nat \ {0} /\ Usage[n][i] \in Nat \cup {NoUsage}
    BY WeightAssumption
  <2>2. ASSUME NEW i \in D
        PROVE  /\ Scores(n)[i] \in Int /\ Points[i] \in Int /\ Scores(n)[i] <= Points[i]
               /\ Weight[i] \in Int /\ Points[i] = MaxNodeScore * Weight[i]
    <3>1. PICK w \in Nat \ {0} : w = Weight[i]
      BY <2>1
    <3>2. Points[i] = 100 * w /\ 100 * w \in Int
      BY <3>1 DEF Points, MaxNodeScore
    <3>3. CASE Usage[n][i] = NoUsage
      <4>1. Scores(n)[i] = 0
        BY <3>3 DEF Scores, getScore
      <4> QED
        BY <3>1, <3>2, <4>1 DEF MaxNodeScore
    <3>4. CASE Usage[n][i] # NoUsage
      <4>1. PICK u \in Nat : u = Usage[n][i]
        BY <2>1, <3>4
      <4>2. Scores(n)[i] = (100 - u) * w
        BY <3>1, <3>4, <4>1 DEF Scores, getScore, MaxNodeScore
      <4>3. (100 - u) * w = 100 * w - u * w /\ u * w \in Nat
        OBVIOUS
      <4> QED
        BY <3>1, <3>2, <4>2, <4>3 DEF MaxNodeScore
    <3> QED
      BY <3>3, <3>4
  <2>3. SumFunctionOnSet(Scores(n), D) \in Int /\ SumFunctionOnSet(Scores(n), D) <= SumFunctionOnSet(Points, D)
    BY <2>1, <2>2, SumInt, SumAtMost
  <2>4. SumFunctionOnSet(Points, D) = MaxNodeScore * SumFunctionOnSet(Weight, D)
    <3>1. MaxNodeScore \in Int
      BY DEF MaxNodeScore
    <3> QED
      BY <2>1, <2>2, <3>1, SumScale
  <2>5. SumFunctionOnSet(Weight, D) \in Nat \ {0}
    <3>1. PICK i \in D : TRUE
      BY <1>2
    <3>2. SumFunctionOnSet(Weight, D) \in Nat /\ Weight[i] <= SumFunctionOnSet(Weight, D)
      BY <2>1, SumNat
    <3> QED
      BY <2>1, <3>1, <3>2
  <2>6. getNodeScore(n) = Truncate(SumFunctionOnSet(Scores(n), D), SumFunctionOnSet(Weight, D))
    <3>1. SumFunction(Weight) = SumFunctionOnSet(Weight, D)
      BY DEF SumFunction
    <3>2. SumFunction([i \in DOMAIN Weight |-> getScore(n, i)]) = SumFunctionOnSet(Scores(n), D)
      BY DEF SumFunction, Scores
    <3> QED
      BY <1>2, <3>1, <3>2 DEF getNodeScore
  <2> QED
    BY <2>3, <2>4, <2>5, <2>6, TruncateType
<1> QED
  BY <1>1, <1>2

(* Every score is in the range that the framework accepts.                 *)
LEMMA ScoreType ==
    ASSUME IsFiniteSet(bindings), NEW n \in Node
    PROVE  /\ Score(n) \in 0..MaxNodeScore
           /\ Score(n) > 0 => Score(n) = getNodeScore(n) - 10 * NodeHotValue(n)
<1>1. NodeHotValue(n) \in Nat /\ getNodeScore(n) \in Int /\ getNodeScore(n) <= MaxNodeScore
  BY HotValueType, NodeScoreType
<1> QED
  BY <1>1 DEF Score, NormalizeScore, MaxNodeScore

-----------------------------------------------------------------------------
(* The binding cycles.                                                     *)

(* The cycles before their PostBind are no more than MaxInFlight together. *)
CyclesBounded ==
    /\ inFlight \in [Node -> Nat]
    /\ SumFunctionOnSet(inFlight, Node) <= MaxInFlight

(* One cycle more or less.                                                 *)
LEMMA CycleChange ==
    ASSUME NEW f \in [Node -> Nat], NEW g \in [Node -> Nat], NEW n \in Node,
           \A x \in Node \ {n} : f[x] = g[x]
    PROVE  /\ SumFunctionOnSet(g, Node) = SumFunctionOnSet(f, Node) + (g[n] - f[n])
           /\ SumFunctionOnSet(f, Node) \in Int
<1>1. \A x \in Node : f[x] \in Int /\ g[x] \in Int
  OBVIOUS
<1> QED
  BY <1>1, BurstAssumption, SumChange, SumInt

(* Every step keeps to the bound.                                          *)
LEMMA CyclesStep == CyclesBounded /\ [BurstNext]_burstVars => CyclesBounded'
<1> SUFFICES ASSUME CyclesBounded, [BurstNext]_burstVars PROVE CyclesBounded'
  OBVIOUS
<1>1. MaxInFlight \in Nat /\ IsFiniteSet(Node) /\ inFlight \in [Node -> Nat]
  BY BurstAssumption DEF CyclesBounded
<1>2. ASSUME NEW n \in Node, Schedule(n) PROVE CyclesBounded'
  <2>1. SumFunctionOnSet(inFlight, Node) < MaxInFlight
    BY <1>1, <1>2 DEF Schedule, SumFunction
  <2>2. inFlight' = [inFlight EXCEPT ![n] = @ + 1] /\ inFlight[n] + 1 \in Nat
    BY <1>1, <1>2 DEF Schedule
  <2>3. /\ inFlight' \in [Node -> Nat] /\ SumFunctionOnSet(inFlight, Node) \in Int
        /\ SumFunctionOnSet(inFlight', Node) = SumFunctionOnSet(inFlight, Node) + 1
    <3>1. PICK f \in [Node -> Nat] : f = inFlight
      BY <1>1
    <3>2. PICK g \in [Node -> Nat] : g = inFlight'
      BY <1>1, <2>2
    <3>3. g[n] = f[n] + 1 /\ \A x \in Node \ {n} : f[x] = g[x]
      BY <1>1, <2>2, <3>1, <3>2
    <3>4. /\ SumFunctionOnSet(g, Node) = SumFunctionOnSet(f, Node) + (g[n] - f[n])
          /\ SumFunctionOnSet(f, Node) \in Int
      BY <3>3, CycleChange
    <3>5. SumFunctionOnSet(g, Node) = SumFunctionOnSet(f, Node) + 1
      BY <3>3, <3>4
    <3> QED
      BY <3>1, <3>2, <3>4, <3>5
  <2> QED
    BY <1>1, <2>1, <2>3 DEF CyclesBounded
<1>3. ASSUME NEW n \in Node, PostBind(n) \/ BindingFails(n) PROVE CyclesBounded'
  <2>1. inFlight' = [inFlight EXCEPT ![n] = @ + (-1)] /\ inFlight[n] + (-1) \in Nat
    BY <1>1, <1>3 DEF PostBind, BindingFails
  <2>2. /\ inFlight' \in [Node -> Nat] /\ SumFunctionOnSet(inFlight, Node) \in Int
        /\ SumFunctionOnSet(inFlight', Node) = SumFunctionOnSet(inFlight, Node) + (-1)
    <3>1. PICK f \in [Node -> Nat] : f = inFlight
      BY <1>1
    <3>2. PICK g \in [Node -> Nat] : g = inFlight'
      BY <1>1, <2>1
    <3>3. g[n] = f[n] + (-1) /\ \A x \in Node \ {n} : f[x] = g[x]
      BY <1>1, <2>1, <3>1, <3>2
    <3>4. /\ SumFunctionOnSet(g, Node) = SumFunctionOnSet(f, Node) + (g[n] - f[n])
          /\ SumFunctionOnSet(f, Node) \in Int
      BY <3>3, CycleChange
    <3>5. SumFunctionOnSet(g, Node) = SumFunctionOnSet(f, Node) + (-1)
      BY <3>3, <3>4
    <3> QED
      BY <3>1, <3>2, <3>4, <3>5
  <2> QED
    BY <1>1, <2>2 DEF CyclesBounded
<1>4. CASE UNCHANGED inFlight
  BY <1>4 DEF CyclesBounded
<1> QED
  BY <1>2, <1>3, <1>4 DEF BurstNext, burstVars

(* At the start there are none.                                            *)
LEMMA CyclesInit == BurstInit => CyclesBounded
<1> SUFFICES ASSUME BurstInit PROVE CyclesBounded
  OBVIOUS
<1>1. inFlight \in [Node -> Nat] /\ \A n \in Node : inFlight[n] = 0
  BY DEF BurstInit
<1>2. SumFunctionOnSet(inFlight, Node) = 0
  BY <1>1, SumZero, BurstAssumption
<1> QED
  BY <1>1, <1>2, BurstAssumption DEF CyclesBounded

(* The records and cycles keep their types, and no score leaves the range  *)
(* of the framework, whatever the usages, weights and hot values are.      *)
THEOREM BurstTypeCorrect == BurstSpec => []BurstTypeOK
<1>1. BurstInit => CyclesBounded
  BY CyclesInit
<1>2. HeapInv /\ CyclesBounded => BurstTypeOK
  <2> SUFFICES ASSUME HeapInv, CyclesBounded PROVE BurstTypeOK
    OBVIOUS
  <2>1. IsFiniteSet(bindings)
    BY PartFinite DEF HeapInv, TypeOK
  <2>2. \A n \in Node : Score(n) \in 0..MaxNodeScore
    BY <2>1, ScoreType
  <2>3. ASSUME NEW n \in Node PROVE inFlight[n] \in 0..MaxInFlight
    <3>1. /\ SumFunctionOnSet(inFlight, Node) \in Nat
          /\ inFlight[n] <= SumFunctionOnSet(inFlight, Node)
      BY SumNat, BurstAssumption DEF CyclesBounded
    <3> QED
      BY <3>1, BurstAssumption DEF CyclesBounded
  <2> QED
    BY <2>2, <2>3 DEF BurstTypeOK, HeapInv, CyclesBounded
<1> QED
  BY <1>1, <1>2, CyclesStep, BurstUsesRecords, HeapBounded, PTL DEF BurstSpec

-----------------------------------------------------------------------------
(* A burst.  While it lasts, the hot value of a node is a function of how  *)
(* many Bindings were added for it.                                        *)

OfNode(n) == {b \in added : b.node = n}
Bindings(n) == Cardinality(OfNode(n))
Shares(k) == [i \in DOMAIN HotValue |-> k \div HotValue[i].count]
HotAt(k) == SumFunctionOnSet(Shares(k), DOMAIN HotValue)

(* The plugin has a hot value policy, and each is within the period that   *)
(* BindingsGC keeps.                                                       *)
HotValueConfigured == DOMAIN HotValue # {} /\ PoliciesCovered

(* Quotients by the same count.                                            *)
LEMMA QuotientGrows ==
    ASSUME NEW j \in Nat, NEW k \in Nat, j <= k, NEW c \in Nat \ {0}
    PROVE  j \div c <= k \div c /\ (j + c <= k => j \div c + 1 <= k \div c)
OBVIOUS

(* LeastCount is the count of a policy.                                    *)
LEMMA LeastCountTaken ==
    ASSUME DOMAIN HotValue # {}
    PROVE  \E i \in DOMAIN HotValue : LeastCount = HotValue[i].count /\ LeastCount \in Nat \ {0}
<1> DEFINE counts == {HotValue[i].count : i \in DOMAIN HotValue}
<1>1. counts \subseteq Nat
  BY HotValueAssumption
<1>2. counts # {}
  OBVIOUS
<1>3. \E c \in counts : \A d \in counts : c <= d
  <2> HIDE DEF counts
  <2> QED
    BY <1>1, <1>2, LeastNumber, Zenon
<1>4. LeastCount \in counts
  BY <1>3, Zenon DEF LeastCount
<1>5. PICK i \in DOMAIN HotValue : LeastCount = HotValue[i].count
  BY <1>4
<1>6. LeastCount \in Nat \ {0}
  BY <1>5, HotValueAssumption
<1> QED
  BY <1>5, <1>6

(* More Bindings are hotter, and LeastCount more are strictly so.          *)
LEMMA HotGrows ==
    ASSUME DOMAIN HotValue # {}, NEW j \in Nat, NEW k \in Nat, j <= k
    PROVE  /\ HotAt(j) \in Int /\ HotAt(k) \in Int /\ HotAt(j) <= HotAt(k)
           /\ j + LeastCount <= k => HotAt(j) + 1 <= HotAt(k)
<1> DEFINE D == DOMAIN HotValue
<1>1. IsFiniteSet(D) /\ \A i \in D : HotValue[i].count \in Nat \ {0}
  BY HotValueAssumption
<1>2. ASSUME NEW i \in D
      PROVE  Shares(j)[i] \in Int /\ Shares(k)[i] \in Int /\ Shares(j)[i] <= Shares(k)[i]
  BY <1>1, QuotientType, QuotientGrows DEF Shares
<1>3. HotAt(j) \in Int /\ HotAt(k) \in Int /\ HotAt(j) <= HotAt(k)
  BY <1>1, <1>2, SumInt, SumAtMost DEF HotAt
<1>4. ASSUME j + LeastCount <= k PROVE HotAt(j) + 1 <= HotAt(k)
  <2>1. PICK i \in D : LeastCount = HotValue[i].count
    BY LeastCountTaken
  <2>2. Shares(j)[i] + 1 <= Shares(k)[i]
    BY <1>1, <1>4, <2>1, QuotientGrows DEF Shares
  <2>3. SumFunctionOnSet(Shares(j), D) + 1 <= SumFunctionOnSet(Shares(k), D)
    <3>1. PICK d \in Int : d = 1
      OBVIOUS
    <3>2. Shares(j)[i] + d <= Shares(k)[i]
      BY <2>2, <3>1
    <3>3. SumFunctionOnSet(Shares(j), D) + d <= SumFunctionOnSet(Shares(k), D)
      <4> HIDE DEF D
      <4> QED
        BY <1>1, <1>2, <3>2, SumMore
    <3> QED
      BY <3>1, <3>3
  <2> QED
    BY <2>3 DEF HotAt
<1> QED
  BY <1>3, <1>4

(* While the burst lasts, every count is that of the Bindings added.       *)
LEMMA BurstCounts ==
    ASSUME HotValueConfigured, HeapInv, BurstLasts, NEW n \in Node
    PROVE  /\ Bindings(n) \in Nat
           /\ GetLastNodeBindingCount(n, GCTimeRange) = Bindings(n)
           /\ NodeHotValue(n) = HotAt(Bindings(n))
<1>1. /\ bindings \subseteq added /\ now \in Nat /\ GCTimeRange \in Nat
      /\ \A b \in added : b.timestamp \in Nat
  BY TimeAssumption DEF HeapInv, TypeOK, Binding
<1>2. Bindings(n) \in Nat
  <2>1. OfNode(n) \in SUBSET added
    BY DEF OfNode
  <2> QED
    BY <2>1, PartFinite DEF HeapInv, Bindings
<1>3. ASSUME NEW i \in DOMAIN HotValue
      PROVE  LastNodeBindings(bindings, n, HotValue[i].timeRange) = OfNode(n)
  BY <1>1, <1>3 DEF BurstLasts, LastNodeBindings, OfNode
<1>4. LastNodeBindings(bindings, n, GCTimeRange) = OfNode(n)
  <2>1. PICK i \in DOMAIN HotValue : TRUE
    BY DEF HotValueConfigured
  <2>2. HotValue[i].timeRange \in Nat /\ HotValue[i].timeRange <= GCTimeRange
    BY <2>1, HotValueAssumption DEF HotValueConfigured, PoliciesCovered
  <2>3. \A b \in added : b \in bindings /\ b.timestamp > now - HotValue[i].timeRange
    BY <2>1 DEF BurstLasts
  <2> QED
    BY <1>1, <2>2, <2>3 DEF LastNodeBindings, OfNode
<1>5. NodeHotValue(n) = HotAt(Bindings(n))
  <2>1. IsFiniteSet(bindings)
    BY PartFinite DEF HeapInv, TypeOK
  <2>2. /\ NodeHotValue(n) = SumFunctionOnSet(HotShare(n), DOMAIN HotValue)
        /\ \A i \in DOMAIN HotValue : HotShare(n)[i] \in Nat
    BY <2>1, HotValueType
  <2>3. ASSUME NEW i \in DOMAIN HotValue PROVE HotShare(n)[i] = Shares(Bindings(n))[i]
    BY <1>3 DEF HotShare, Shares, Bindings, GetLastNodeBindingCount
  <2>4. HotShare(n) = Shares(Bindings(n))
    BY <2>3 DEF HotShare, Shares
  <2> QED
    BY <2>2, <2>4 DEF HotAt
<1> QED
  BY <1>2, <1>4, <1>5 DEF GetLastNodeBindingCount, Bindings

(* A node whose score is not used up.                                      *)
Warm(n) == getNodeScore(n) > 10 * HotAt(Bindings(n))

(* ... is one whose score is positive.                                     *)
LEMMA WarmScore ==
    ASSUME HotValueConfigured, HeapInv, BurstLasts, NEW n \in Node
    PROVE  /\ HotAt(Bindings(n)) \in Int /\ getNodeScore(n) \in Int
           /\ Warm(n) <=> Score(n) > 0
           /\ Warm(n) => Score(n) = getNodeScore(n) - 10 * HotAt(Bindings(n))
           /\ ~Warm(n) => Score(n) = 0
<1>1. NodeHotValue(n) = HotAt(Bindings(n)) /\ Bindings(n) \in Nat
  BY BurstCounts
<1>2. HotAt(Bindings(n)) \in Nat
  <2>1. IsFiniteSet(bindings)
    BY PartFinite DEF HeapInv, TypeOK
  <2> QED
    BY <1>1, <2>1, HotValueType
<1>3. getNodeScore(n) \in Int /\ getNodeScore(n) <= MaxNodeScore
  BY NodeScoreType
<1> QED
  BY <1>1, <1>2, <1>3 DEF Warm, Score, NormalizeScore, MaxNodeScore

(* The inductive form of HotSpotAvoided: b counts with the Bindings it has *)
(* for certain, since its binding cycles may still fail.                   *)
BurstSpread ==
    BurstLasts => \A a, b \in Node :
        Usage[a] = Usage[b] /\ Warm(b)
            => Bindings(a) + inFlight[a] <= Bindings(b) + LeastCount - 1 + MaxInFlight

(* A burst that lasts has lasted.                                          *)
LEMMA BurstLasted ==
    ASSUME HeapInv, [BurstNext]_burstVars, BurstLasts'
    PROVE  BurstLasts
<1>1. /\ bindings \subseteq added /\ now \in Nat /\ \A b \in added : b.timestamp \in Nat
      /\ \A i \in DOMAIN HotValue : HotValue[i].timeRange \in Nat
  BY TimeAssumption, HotValueAssumption DEF HeapInv, TypeOK, Binding
<1>2. ASSUME NEW n \in Node, PostBind(n) PROVE BurstLasts
  <2>1. PICK r \in Ref : AddBinding([ref |-> r, node |-> n, timestamp |-> now])
    BY <1>2 DEF PostBind
  <2> DEFINE b == [ref |-> r, node |-> n, timestamp |-> now]
  <2>2. b \notin added /\ added' = added \cup {b} /\ now' = now
    BY <2>1 DEF AddBinding
  <2>3. bindings' \subseteq bindings \cup {b}
    BY <2>1 DEF AddBinding
  <2> HIDE DEF b
  <2> QED
    BY <2>2, <2>3 DEF BurstLasts
<1>3. CASE BindingsGC
  BY <1>3 DEF BindingsGC, BurstLasts
<1>4. CASE Tick
  BY <1>1, <1>4 DEF Tick, BurstLasts
<1>5. CASE UNCHANGED vars
  BY <1>5 DEF vars, BurstLasts
<1> QED
  BY <1>2, <1>3, <1>4, <1>5 DEF BurstNext, Schedule, BindingFails, burstVars

(* Bindings are only added, one by one, and each ends a binding cycle.     *)
LEMMA BurstMoves ==
    ASSUME HeapInv, CyclesBounded, [BurstNext]_burstVars, NEW n \in Node
    PROVE  /\ Bindings(n) \in Nat /\ Bindings(n)' \in Nat /\ Bindings(n) <= Bindings(n)'
           /\ ~Schedule(n) => Bindings(n)' + inFlight'[n] <= Bindings(n) + inFlight[n]
<1>1. Bindings(n) \in Nat /\ IsFiniteSet(OfNode(n)) /\ inFlight[n] \in Nat
  <2>1. OfNode(n) \in SUBSET added
    BY DEF OfNode
  <2> QED
    BY <2>1, PartFinite DEF HeapInv, Bindings, CyclesBounded
<1>2. ASSUME UNCHANGED added
      PROVE  Bindings(n)' = Bindings(n)
  BY <1>2 DEF Bindings, OfNode
<1>3. ASSUME NEW m \in Node, Schedule(m)
      PROVE  added' = added /\ (n # m => inFlight'[n] = inFlight[n])
  BY <1>3 DEF Schedule, vars, CyclesBounded
<1>4. ASSUME NEW m \in Node, BindingFails(m)
      PROVE  added' = added /\ inFlight'[n] <= inFlight[n]
  BY <1>1, <1>4 DEF BindingFails, vars, CyclesBounded
<1>5. ASSUME NEW m \in Node, PostBind(m)
      PROVE  IF n = m THEN Bindings(n)' = Bindings(n) + 1 /\ inFlight'[n] = inFlight[n] - 1
                      ELSE Bindings(n)' = Bindings(n) /\ inFlight'[n] = inFlight[n]
  <2>1. PICK r \in Ref : AddBinding([ref |-> r, node |-> m, timestamp |-> now])
    BY <1>5 DEF PostBind
  <2> DEFINE b == [ref |-> r, node |-> m, timestamp |-> now]
  <2>2. b \notin added /\ added' = added \cup {b} /\ b.node = m
    BY <2>1 DEF AddBinding
  <2>3. inFlight'[n] = IF n = m THEN inFlight[n] - 1 ELSE inFlight[n]
    BY <1>5 DEF PostBind, CyclesBounded
  <2> HIDE DEF b
  <2>4. OfNode(n)' = IF n = m THEN OfNode(n) \cup {b} ELSE OfNode(n)
    BY <2>2 DEF OfNode
  <2>5. b \notin OfNode(n)
    BY <2>2 DEF OfNode
  <2>6. Cardinality(OfNode(n) \cup {b}) = Cardinality(OfNode(n)) + 1
    BY <1>1, <2>5, FS_AddElement
  <2> QED
    BY <2>3, <2>4, <2>6 DEF Bindings
<1>6. CASE (BindingsGC \/ Tick) /\ UNCHANGED inFlight
  BY <1>1, <1>2, <1>6 DEF BindingsGC, Tick
<1>7. CASE UNCHANGED burstVars
  BY <1>1, <1>2, <1>7 DEF burstVars, vars
<1> QED
  <2>1. ASSUME NEW m \in Node, Schedule(m) PROVE n # m \/ Schedule(n)
    BY <2>1
  <2>2. CASE \E m \in Node : Schedule(m)
    BY <1>1, <1>2, <1>3, <2>2
  <2>3. CASE \E m \in Node : BindingFails(m)
    BY <1>1, <1>2, <1>4, <2>3, CyclesStep DEF CyclesBounded
  <2>4. CASE \E m \in Node : PostBind(m)
    BY <1>1, <1>5, <2>4
  <2> QED
    BY <1>6, <1>7, <2>2, <2>3, <2>4 DEF BurstNext

(* Every step keeps the burst spread.                                      *)
LEMMA SpreadStep ==
    ASSUME HotValueConfigured, HeapInv, HeapInv', CyclesBounded, CyclesBounded',
           BurstSpread, [BurstNext]_burstVars
    PROVE  BurstSpread'
<1> SUFFICES ASSUME BurstLasts', NEW a \in Node, NEW b \in Node, Usage[a] = Usage[b], Warm(b)'
             PROVE  Bindings(a)' + inFlight'[a] <= Bindings(b)' + LeastCount - 1 + MaxInFlight
  BY DEF BurstSpread
<1>1. BurstLasts
  BY BurstLasted
<1>2. PICK c \in Nat \ {0} : c = LeastCount
  BY LeastCountTaken DEF HotValueConfigured
<1>3. /\ Bindings(a) \in Nat /\ Bindings(a)' \in Nat
      /\ Bindings(b) \in Nat /\ Bindings(b)' \in Nat /\ Bindings(b) <= Bindings(b)'
      /\ ~Schedule(a) => Bindings(a)' + inFlight'[a] <= Bindings(a) + inFlight[a]
  BY BurstMoves
<1>4. MaxInFlight \in Nat /\ inFlight[a] \in Nat /\ inFlight'[a] \in Nat
  BY BurstAssumption DEF CyclesBounded
<1>5. Warm(b)
  <2>1. PICK k \in Nat : k = Bindings(b)'
    BY <1>3
  <2>2. /\ HotAt(Bindings(b)) \in Int /\ HotAt(k) \in Int
        /\ HotAt(Bindings(b)) <= HotAt(k)
    BY <1>3, <2>1, HotGrows DEF HotValueConfigured
  <2>3. getNodeScore(b) > 10 * HotAt(k)
    BY <2>1 DEF Warm
  <2>4. getNodeScore(b) \in Int
    BY NodeScoreType
  <2> QED
    BY <2>2, <2>3, <2>4 DEF Warm
<1>6. CASE ~Schedule(a)
  <2>1. Bindings(a) + inFlight[a] <= Bindings(b) + LeastCount - 1 + MaxInFlight
    BY <1>1, <1>5 DEF BurstSpread
  <2> QED
    BY <1>2, <1>3, <1>4, <1>6, <2>1
<1>7. CASE Schedule(a)
  <2>1. Score(a) >= Score(b) /\ added' = added
    BY <1>7 DEF Schedule, vars
  <2>2. Bindings(a)' = Bindings(a) /\ Bindings(b)' = Bindings(b)
    BY <2>1 DEF Bindings, OfNode
  <2>3. getNodeScore(a) = getNodeScore(b)
    BY DEF getNodeScore, getScore
  <2>4. /\ HotAt(Bindings(a)) \in Int /\ HotAt(Bindings(b)) \in Int /\ getNodeScore(b) \in Int
        /\ HotAt(Bindings(a)) <= HotAt(Bindings(b))
    <3>1. /\ HotAt(Bindings(a)) \in Int /\ HotAt(Bindings(b)) \in Int
          /\ getNodeScore(a) \in Int /\ getNodeScore(b) \in Int
      BY <1>1, WarmScore
    <3>2. Score(b) = getNodeScore(b) - 10 * HotAt(Bindings(b)) /\ Score(b) > 0
      BY <1>1, <1>5, WarmScore
    <3>3. Score(a) = 0 \/ Score(a) = getNodeScore(a) - 10 * HotAt(Bindings(a))
      BY <1>1, WarmScore
    <3> QED
      BY <2>1, <2>3, <3>1, <3>2, <3>3
  <2>5. Bindings(a) <= Bindings(b) + c - 1
    <3> SUFFICES ASSUME Bindings(b) + c <= Bindings(a) PROVE FALSE
      BY <1>2, <1>3
    <3>1. HotAt(Bindings(b)) + 1 <= HotAt(Bindings(a))
      BY <1>2, <1>3, HotGrows DEF HotValueConfigured
    <3> QED
      BY <2>4, <3>1
  <2>6. inFlight'[a] <= MaxInFlight
    <3>1. PICK f \in [Node -> Nat] : f = inFlight'
      BY DEF CyclesBounded
    <3>2. SumFunctionOnSet(f, Node) \in Nat /\ f[a] <= SumFunctionOnSet(f, Node)
      BY <3>1, SumNat, BurstAssumption
    <3>3. SumFunctionOnSet(f, Node) <= MaxInFlight
      BY <3>1 DEF CyclesBounded
    <3> QED
      BY <1>4, <3>1, <3>2, <3>3
  <2> QED
    BY <1>2, <1>3, <1>4, <2>2, <2>5, <2>6
<1> QED
  BY <1>6, <1>7

(* In a burst no node gets ahead of one with the same usage by more than a *)
(* policy's count and the binding cycles under way, for any nodes, usages, *)
(* weights and policies: "avoid hot spots".                                *)
THEOREM BurstAvoidsHotSpots ==
    ASSUME HotValueConfigured PROVE BurstSpec => []HotSpotAvoided
<1>1. BurstInit => CyclesBounded /\ BurstSpread
  <2>1. ASSUME BurstInit PROVE BurstSpread
    <3>1. PICK c \in Nat \ {0} : c = LeastCount
      BY LeastCountTaken DEF HotValueConfigured
    <3>2. ASSUME NEW n \in Node PROVE Bindings(n) = 0 /\ inFlight[n] = 0
      <4>1. OfNode(n) = {}
        BY <2>1 DEF BurstInit, NewBindingRecords, OfNode
      <4> QED
        BY <2>1, <4>1, FS_EmptySet DEF BurstInit, Bindings
    <3> QED
      BY <3>1, <3>2, BurstAssumption DEF BurstSpread
  <2> QED
    BY <2>1, CyclesInit
<1>2. HeapInv /\ HeapInv' /\ CyclesBounded /\ BurstSpread /\ [BurstNext]_burstVars
        => CyclesBounded' /\ BurstSpread'
  BY CyclesStep, SpreadStep
<1>3. HeapInv /\ CyclesBounded /\ BurstSpread => HotSpotAvoided
  <2> SUFFICES ASSUME HeapInv, CyclesBounded, BurstSpread, BurstLasts,
                      NEW a \in Node, NEW b \in Node, Usage[a] = Usage[b], Score(b) > 0
               PROVE  Bound(a) <= Bound(b) + LeastCount - 1 + MaxInFlight
    BY DEF HotSpotAvoided
  <2>1. Warm(b)
    BY WarmScore
  <2>2. /\ Bound(a) = Bindings(a) + inFlight[a] /\ Bound(b) = Bindings(b) + inFlight[b]
        /\ Bindings(a) \in Nat /\ Bindings(b) \in Nat
    BY BurstCounts DEF Bound
  <2>3. Bindings(a) + inFlight[a] <= Bindings(b) + LeastCount - 1 + MaxInFlight
    BY <2>1 DEF BurstSpread
  <2>4. inFlight[a] \in Nat /\ inFlight[b] \in Nat /\ MaxInFlight \in Nat
    BY BurstAssumption DEF CyclesBounded
  <2>5. PICK c \in Nat \ {0} : c = LeastCount
    BY LeastCountTaken DEF HotValueConfigured
  <2> QED
    BY <2>2, <2>3, <2>4, <2>5
<1> QED
  BY <1>1, <1>2, <1>3, BurstUsesRecords, HeapBounded, PTL DEF BurstSpec
=============================================================================
