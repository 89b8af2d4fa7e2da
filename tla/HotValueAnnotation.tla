------------------------ MODULE HotValueAnnotation --------------------------
(***************************************************************************)
(* The event controller of the annotator (annotator/event.go) and the hot  *)
(* value annotation.  Every Scheduled event becomes a Binding in the       *)
(* annotator's BindingRecords; the hot value of the event's node is then   *)
(* computed from the records and patched into the node, as the node        *)
(* controller does at the end of each of its own syncs.  Between count and *)
(* patch other workers go on.                                              *)
(***************************************************************************)
EXTENDS BindingRecords

CONSTANTS
    Event,        \* names of Scheduled events
    NodeOf,       \* NodeOf[e]: the node in the event's message, or Malformed
    Malformed,
    NewAPI,       \* events recorded through events.k8s.io: an EventTime, Count = 0
    Workers,      \* goroutines of the event controller
    Syncer,       \* a goroutine of the node controller
    Idle, Absent,
    MaxVersion,   \* MaxVersion[e]: bound on the versions of an event
    MaxRestarts   \* bound on restarts of the controller

ASSUME EventAssumption ==
    /\ NodeOf \in [Event -> Node \cup {Malformed}]
    /\ NewAPI \subseteq Event
    /\ MaxVersion \in [Event -> Nat \ {0}]
    /\ MaxRestarts \in Nat
    /\ Syncer \notin Workers
    /\ Absent \notin Nat
    /\ IsFiniteSet(Event)
ASSUME RefAssumption ==  \* a Binding for every version
    1..SumFunction(MaxVersion) \subseteq Ref

VARIABLES
    event,     \* the events of the API server; version 0: not recorded yet
    seen,      \* the event lister
    queue,     \* keys waiting in the queue
    worker,    \* what each goroutine is annotating
    hot,       \* the hot value annotation of each node
    recorded,  \* history: Bindings added per event since the controller started
    restarts

eventVars == <<event, seen>>
hotVars == <<eventVars, queue, worker, hot, recorded, restarts>>
allVars == <<vars, hotVars>>

Zero == -1  \* a time that is not set
EventObject == [version : Nat, count : Nat, gone : BOOLEAN,
                eventTime : {Zero} \cup 0..MaxTime, lastTimestamp : {Zero} \cup 0..MaxTime]
NoEvent == [version |-> 0, count |-> 0, gone |-> FALSE, eventTime |-> Zero, lastTimestamp |-> Zero]
Exists(e) == e.version > 0 /\ ~e.gone
Job == [event : Event \cup {Syncer}, node : Node, value : Nat \cup {Absent}]

HotValueTypeOK ==
    /\ TypeOK
    /\ event \in [Event -> EventObject]
    /\ seen \in [Event -> EventObject]
    /\ queue \subseteq Event
    /\ worker \in [Workers \cup {Syncer} -> Job \cup {Idle}]
    /\ hot \in [Node -> Nat \cup {Absent}]
    /\ recorded \in [Event -> Nat]
    /\ restarts \in 0..MaxRestarts

Init ==
    /\ NewBindingRecords
    /\ event = [e \in Event |-> NoEvent]
    /\ seen = event
    /\ queue = {}
    /\ worker = [w \in Workers \cup {Syncer} |-> Idle]
    /\ hot = [n \in Node |-> Absent]
    /\ recorded = [e \in Event |-> 0]
    /\ restarts = 0

-----------------------------------------------------------------------------
(* The API server and the event informer.                                  *)

EventRecorded(e) ==
    /\ event[e].version = 0
    /\ event' = [event EXCEPT ![e] =
          IF e \in NewAPI
          THEN [NoEvent EXCEPT !.version = 1, !.eventTime = now]
          ELSE [NoEvent EXCEPT !.version = 1, !.count = 1, !.lastTimestamp = now]]
    /\ UNCHANGED <<vars, seen, queue, worker, hot, recorded, restarts>>

(* The event occurs again, or its metadata change.                         *)
EventUpdated(e) ==
    /\ Exists(event[e]) /\ event[e].version < MaxVersion[e]
    /\ LET old == event[e]
       IN  \E again \in {0, 1} :
              event' = [event EXCEPT ![e] = [old EXCEPT
                  !.version = old.version + 1,
                  !.count = IF e \in NewAPI THEN 0 ELSE old.count + again,
                  !.lastTimestamp = IF e \in NewAPI \/ again = 0 THEN old.lastTimestamp ELSE now]]
    /\ UNCHANGED <<vars, seen, queue, worker, hot, recorded, restarts>>

(* Its time to live is over.                                               *)
EventRemoved(e) ==
    /\ Exists(event[e])
    /\ event' = [event EXCEPT ![e].gone = TRUE]
    /\ UNCHANGED <<vars, seen, queue, worker, hot, recorded, restarts>>

-----------------------------------------------------------------------------
(* The event controller.                                                   *)

Processing == {worker[w].event : w \in {v \in Workers : worker[v] # Idle}}

(* Mutant: a key that is being processed is not taken.                     *)
enqueueIfFree(e) == queue' = IF e \in Processing THEN queue ELSE queue \cup {e}

enqueue(e) == queue' = queue \cup {e}

handleAddEvent(e) == enqueue(e)

(* Mutant: every update is taken for news.                                 *)
handleEveryUpdate(e, old, new) == enqueue(e)

handleUpdateEvent(e, old, new) ==
    \/ old.version = new.version /\ UNCHANGED queue
    \/ old.version # new.version /\ enqueue(e)

(* The informer stores the event as it is now and calls the handlers;      *)
(* versions in between may be skipped, and removals are not handled.       *)
ObserveEvent(e) ==
    /\ seen[e] # event[e]
    /\ seen' = [seen EXCEPT ![e] = event[e]]
    /\ \/ event[e].gone /\ UNCHANGED queue
       \/ ~event[e].gone /\ seen[e].version = 0 /\ handleAddEvent(e)
       \/ ~event[e].gone /\ seen[e].version # 0 /\ handleUpdateEvent(e, seen[e], event[e])
    /\ UNCHANGED <<vars, event, worker, hot, recorded, restarts>>

(* The watch breaks and the informer lists again: an update notification   *)
(* for what has not changed.                                               *)
Relist(e) ==
    /\ Exists(seen[e]) /\ seen[e] = event[e]
    /\ handleUpdateEvent(e, seen[e], event[e])
    /\ UNCHANGED <<vars, eventVars, worker, hot, recorded, restarts>>

(* Mutant: the time of the last occurrence, which the new API does not set. *)
lastTimestampOf(e) == seen[e].lastTimestamp

occurred(e) == IF seen[e].count = 0 THEN seen[e].eventTime ELSE seen[e].lastTimestamp

translateEventToBinding(e) ==
    [ref |-> Cardinality(added) + 1, node |-> NodeOf[e], timestamp |-> occurred(e)]

(* reconcile fails for an event that is not in the lister any more or that *)
(* has no node in its message; errors are logged and nothing is put back.  *)
ReconcileError(w) ==
    /\ worker[w] = Idle
    /\ \E e \in queue \ Processing :
          /\ ~Exists(seen[e]) \/ NodeOf[e] = Malformed
          /\ queue' = queue \ {e}
    /\ UNCHANGED <<vars, eventVars, worker, hot, recorded, restarts>>

(* It adds a Binding and goes on to the hot value of its node.             *)
Reconcile(w) ==
    /\ worker[w] = Idle
    /\ \E e \in queue \ Processing :
          /\ Exists(seen[e]) /\ NodeOf[e] # Malformed
          /\ queue' = queue \ {e}
          /\ AddBinding(translateEventToBinding(e))
          /\ worker' = [worker EXCEPT ![w] = [event |-> e, node |-> NodeOf[e], value |-> Absent]]
          /\ recorded' = [recorded EXCEPT ![e] = @ + 1]
    /\ UNCHANGED <<eventVars, hot, restarts>>

-----------------------------------------------------------------------------
(* annotateNodeHotValue, called by both controllers.                       *)

(* Mutant: the node controller annotates the load only.                    *)
SyncNodeLoad(n) ==
    /\ worker[Syncer] = Idle
    /\ UNCHANGED allVars

(* The node controller has annotated the load of a node.                   *)
SyncNode(n) ==
    /\ worker[Syncer] = Idle
    /\ worker' = [worker EXCEPT ![Syncer] = [event |-> Syncer, node |-> n, value |-> Absent]]
    /\ UNCHANGED <<vars, eventVars, queue, hot, recorded, restarts>>

CountHotValue(w) ==
    /\ worker[w] # Idle /\ worker[w].value = Absent
    /\ worker' = [worker EXCEPT ![w].value = NodeHotValue(worker[w].node)]
    /\ UNCHANGED <<vars, eventVars, queue, hot, recorded, restarts>>

PatchHotValue(w) ==
    /\ worker[w] # Idle /\ worker[w].value # Absent
    /\ hot' = [hot EXCEPT ![worker[w].node] = worker[w].value]
    /\ worker' = [worker EXCEPT ![w] = Idle]
    /\ UNCHANGED <<vars, eventVars, queue, recorded, restarts>>

(* The lister does not have the node, or the patch fails.  The event       *)
(* controller does not try again, the node controller does.                *)
AnnotateFails(w) ==
    /\ worker[w] # Idle
    /\ worker' = [worker EXCEPT ![w] = Idle]
    /\ UNCHANGED <<vars, eventVars, queue, hot, recorded, restarts>>

(* A new leader: empty records, and an Add event for every event listed.   *)
Restart ==
    /\ restarts < MaxRestarts
    /\ restarts' = restarts + 1
    /\ bindings' = {} /\ added' = {} /\ UNCHANGED now
    /\ seen' = event
    /\ queue' = {e \in Event : Exists(event[e])}
    /\ worker' = [w \in Workers \cup {Syncer} |-> Idle]
    /\ recorded' = [e \in Event |-> 0]
    /\ UNCHANGED <<event, hot>>

HotValueNext ==
    \/ \E e \in Event :
          \/ EventRecorded(e)
          \/ EventUpdated(e)
          \/ EventRemoved(e)
          \/ ObserveEvent(e)
          \/ Relist(e)
    \/ \E w \in Workers : Reconcile(w) \/ ReconcileError(w)
    \/ \E n \in Node : SyncNode(n)
    \/ \E w \in Workers \cup {Syncer} :
          \/ CountHotValue(w)
          \/ PatchHotValue(w)
          \/ AnnotateFails(w)
    \/ (BindingsGC \/ Tick) /\ UNCHANGED hotVars
    \/ Restart

(* The node controller syncs every node again and again, and the API       *)
(* server does not refuse its patches for ever.                            *)
HotValueFairness ==
    \A n \in Node :
        /\ SF_allVars(SyncNode(n))
        /\ SF_allVars(CountHotValue(Syncer) /\ worker[Syncer].node = n)
        /\ SF_allVars(PatchHotValue(Syncer) /\ worker[Syncer].node = n)

HotValueSpec == Init /\ [][HotValueNext]_allVars /\ HotValueFairness

-----------------------------------------------------------------------------

(* An event is counted at most once for each version of it that the lister *)
(* has had: notifications of a relist, keys put back while they are being  *)
(* processed and failing patches add no Binding.                           *)
RecordedPerVersion == \A e \in Event : recorded[e] <= seen[e].version

(* As long as the heap has not been full, the records hold the latest time *)
(* of every event that the lister has, once its key is done: no update is  *)
(* lost to a worker that is busy with the event, and a restarted           *)
(* controller gets back what its predecessor knew.                         *)
RecordsComplete ==
    \A e \in Event :
        /\ Exists(seen[e]) /\ NodeOf[e] # Malformed
        /\ e \notin queue
        /\ occurred(e) > now - GCTimeRange
        /\ Cardinality(added) <= Size
        => \E b \in bindings : b.node = NodeOf[e] /\ b.timestamp = occurred(e)

(* A hot value that was overtaken between count and patch, or not patched  *)
(* at all, is put right: in the end every annotation is the hot value that *)
(* the records give.                                                       *)
HotValueSettles == \A n \in Node : <>[](hot[n] = NodeHotValue(n))
=============================================================================
