------------------ MODULE ApplicationResourceAware_proofs -------------------
(***************************************************************************)
(* Proofs about DeltaUsage and ApplicationResourceAware, for any pods,     *)
(* deployments, metrics, workers and usages and any number of midnights    *)
(* and restarts: what the pod controller keeps in the delta annotations,   *)
(* and that the pods which Filter lets onto a node by them are not expected*)
(* to use more than the limit.                                             *)
(***************************************************************************)
EXTENDS ApplicationResourceAware, SumTheorems

-----------------------------------------------------------------------------
(***************************************************************************)
(* The pod controller and the delta annotations.                           *)
(***************************************************************************)

(* Types.                                                                  *)

(* What reconcile reads of the policy and the usages is of its type.       *)
LEMMA PolicyTypes ==
    /\ Len(Policies) \in Nat \ {0}
    /\ \A k \in 1..Len(Policies) : Policies[k] \in Metrics
    /\ \A r \in Ranges : r \in Seq(Nat) /\ r \in Seq(Int)
BY PolicyAssumption, RangeAssumption

(* A job that is under way has its fields.                                 *)
LEMMA JobTypes ==
    ASSUME TypeOK, NEW w \in Workers, worker[w] # Idle
    PROVE  /\ worker[w] \in Job
           /\ worker[w].pod \in Pods /\ worker[w].mergeType \in {"add", "sub"}
           /\ worker[w].usages \in DeployAnnotations /\ worker[w].node \in NodeAnnotations
           /\ worker[w].i \in 1..Len(Policies)
           /\ Metric(w) \in Metrics
BY PolicyTypes DEF TypeOK, Job, Metric

(* The ranges that a merge starts from are sequences of numbers.           *)
LEMMA MergeArguments ==
    ASSUME TypeOK, NEW w \in Workers, Patching(w)
    PROVE  /\ Delta(w) \in Seq(Int)
           /\ Usage(w) \in Seq(Nat)
           /\ \A j \in DOMAIN Usage(w) : Usage(w)[j] <= MaxUsage
<1>1. worker[w].node \in NodeAnnotations /\ worker[w].usages \in DeployAnnotations /\ Metric(w) \in Metrics
  BY JobTypes DEF Patching
<1>2. Delta(w) \in Seq(Int)
  BY <1>1 DEF Delta, UsageRange, NodeAnnotations, Values
<1>3. worker[w].usages[Metric(w)] \in Ranges \cup {Absent}
  BY <1>1 DEF Patching, Merges, DeployAnnotations
<1>4. Usage(w) \in Ranges \/ Usage(w) = <<>>
  BY <1>3 DEF Usage, UsageRange
<1> HIDE DEF Usage
<1>5. CASE Usage(w) \in Ranges
  BY <1>2, <1>5, RangeAssumption
<1>6. CASE Usage(w) = <<>>
  BY <1>2, <1>6
<1> QED
  BY <1>4, <1>5, <1>6

(* A merged range has the values of the usage range, added to or           *)
(* subtracted from those of a delta of the same length.                    *)
LEMMA MergeType ==
    ASSUME NEW delta \in Seq(Int), NEW usage \in Seq(Nat), NEW mergeType \in {"add", "sub"}
    PROVE  MergeUsageRange(delta, usage, mergeType) \in Seq(Int)
<1>1. usage \in Seq(Int)
  OBVIOUS
<1>2. Len(usage) \in Nat /\ DOMAIN usage = 1..Len(usage) /\ \A j \in DOMAIN usage : usage[j] \in Int
  OBVIOUS
<1>3. CASE Len(delta) = Len(usage)
  <2>1. \A j \in DOMAIN usage : delta[j] \in Int
    BY <1>3
  <2> QED
    BY <1>1, <1>2, <1>3, <2>1 DEF MergeUsageRange
<1>4. CASE Len(delta) # Len(usage)
  BY <1>1, <1>2, <1>4 DEF MergeUsageRange
<1> QED
  BY <1>3, <1>4

(* Advance leaves the job of the worker at its next policy, or ends it.    *)
LEMMA AdvanceJob ==
    ASSUME TypeOK, NEW w \in Workers, worker[w] # Idle, Advance(w)
    PROVE  /\ \A v \in Workers : worker'[v] = Idle \/ worker'[v] \in Job
           /\ DOMAIN worker' = Workers
           /\ \A v \in Workers \ {w} : worker'[v] = worker[v]
           /\ \/ worker'[w] = Idle
              \/ /\ worker[w].i < Len(Policies)
                 /\ worker'[w] = [worker[w] EXCEPT !.i = worker[w].i + 1]
                 /\ worker'[w].i = worker[w].i + 1
                 /\ worker'[w].pod = worker[w].pod /\ worker'[w].mergeType = worker[w].mergeType
                 /\ worker'[w].node = worker[w].node /\ worker'[w].usages = worker[w].usages
<1>1. worker[w] \in Job /\ worker[w].i \in 1..Len(Policies) /\ Len(Policies) \in Nat
  BY JobTypes, PolicyTypes
<1>2. DOMAIN worker = Workers
  BY DEF TypeOK
<1>3. CASE worker[w].i = Len(Policies)
  BY <1>2, <1>3 DEF Advance, TypeOK
<1>4. CASE worker[w].i # Len(Policies)
  <2>1. worker' = [worker EXCEPT ![w] = [worker[w] EXCEPT !.i = worker[w].i + 1]]
    BY <1>2, <1>4 DEF Advance
  <2>2. worker[w].i + 1 \in 1..Len(Policies) /\ worker[w].i < Len(Policies)
    BY <1>1, <1>4
  <2>3. [worker[w] EXCEPT !.i = worker[w].i + 1] \in Job
    BY <1>1, <2>2 DEF Job
  <2> QED
    BY <1>1, <1>2, <2>1, <2>2, <2>3 DEF TypeOK, Job
<1> QED
  BY <1>3, <1>4

(* After it, every busy worker is at the same job, perhaps one policy on.  *)
LEMMA AdvanceBusy ==
    ASSUME TypeOK, NEW w \in Workers, worker[w] # Idle, Advance(w), NEW v \in Busy'
    PROVE  /\ v \in Workers /\ v \in Busy
           /\ worker'[v].pod = worker[v].pod /\ worker[v].pod \in Pods
           /\ worker'[v].mergeType = worker[v].mergeType /\ worker'[v].node = worker[v].node
           /\ worker[v].i \in 1..Len(Policies)
           /\ \/ v # w /\ worker'[v].i = worker[v].i
              \/ v = w /\ worker'[v].i = worker[v].i + 1
<1>1. v \in Workers /\ worker'[v] # Idle
  BY DEF Busy
<1>2. worker[v] # Idle
  BY <1>1, AdvanceJob
<1>3. worker[v].pod \in Pods /\ worker[v].i \in 1..Len(Policies)
  BY <1>1, <1>2, JobTypes
<1>4. CASE v = w
  BY <1>1, <1>2, <1>3, <1>4, AdvanceJob DEF Busy
<1>5. CASE v # w
  <2>1. worker'[v] = worker[v]
    BY <1>1, <1>5, AdvanceJob
  <2> QED
    BY <1>1, <1>2, <1>3, <1>5, <2>1 DEF Busy
<1> QED
  BY <1>4, <1>5

(* Counting a pod for a metric leaves the other counts alone.              *)
LEMMA CountType ==
    ASSUME NEW f \in [Metrics -> [Pods -> Nat]], NEW m \in Metrics, NEW p \in Pods,
           NEW g, g = [f EXCEPT ![m][p] = @ + 1]
    PROVE  /\ g \in [Metrics -> [Pods -> Nat]]
           /\ g[m][p] = f[m][p] + 1
           /\ \A k \in Metrics, q \in Pods : k # m \/ q # p => g[k][q] = f[k][q]
<1>1. f[m] \in [Pods -> Nat]
  OBVIOUS
<1>2. [f[m] EXCEPT ![p] = f[m][p] + 1] \in [Pods -> Nat]
  BY <1>1
<1> QED
  BY <1>1, <1>2

(* The annotation that a patch writes is a sequence of numbers.            *)
LEMMA PatchTypes ==
    ASSUME TypeOK, NEW w \in Workers, PatchNodeAnnotation(w)
    PROVE  /\ anno' \in NodeAnnotations /\ watch' \in Seq(NodeAnnotations)
           /\ adds' \in [Metrics -> [Pods -> Nat]] /\ subs' \in [Metrics -> [Pods -> Nat]]
<1>1. /\ worker[w] # Idle /\ Metric(w) \in Metrics
      /\ worker[w].pod \in Pods /\ worker[w].mergeType \in {"add", "sub"}
  BY JobTypes DEF PatchNodeAnnotation, Patching
<1>2. MergeUsageRange(Delta(w), Usage(w), worker[w].mergeType) \in Seq(Int)
  BY <1>1, MergeArguments, MergeType DEF PatchNodeAnnotation
<1>3. anno' \in NodeAnnotations /\ watch' = Append(watch, anno')
  BY <1>1, <1>2 DEF PatchNodeAnnotation, WriteNode, TypeOK, NodeAnnotations, Values
<1>4. watch' \in Seq(NodeAnnotations)
  BY <1>3 DEF TypeOK
<1>5. adds' \in [Metrics -> [Pods -> Nat]] /\ subs' \in [Metrics -> [Pods -> Nat]]
  <2>1. adds \in [Metrics -> [Pods -> Nat]] /\ subs \in [Metrics -> [Pods -> Nat]]
    BY DEF TypeOK
  <2>2. CASE worker[w].mergeType = "add"
    <3>1. adds' = [adds EXCEPT ![Metric(w)][worker[w].pod] = @ + 1] /\ subs' = subs
      BY <2>2 DEF PatchNodeAnnotation
    <3> QED
      BY <1>1, <2>1, <3>1, CountType
  <2>3. CASE worker[w].mergeType # "add"
    <3>1. subs' = [subs EXCEPT ![Metric(w)][worker[w].pod] = @ + 1] /\ adds' = adds
      BY <2>3 DEF PatchNodeAnnotation
    <3> QED
      BY <1>1, <2>1, <3>1, CountType
  <2> QED
    BY <2>2, <2>3
<1> QED
  BY <1>3, <1>4, <1>5

(* A patch counts the pod of the job, for the metric it is at, and no      *)
(* other; it counts an addition only for a job that adds.                  *)
LEMMA PatchCounts ==
    ASSUME TypeOK, NEW w \in Workers, PatchNodeAnnotation(w)
    PROVE  /\ \A m \in Metrics, q \in Pods :
                 m # Metric(w) \/ q # worker[w].pod => adds'[m][q] = adds[m][q]
           /\ worker[w].mergeType = "add" =>
                 adds'[Metric(w)][worker[w].pod] = adds[Metric(w)][worker[w].pod] + 1
           /\ worker[w].mergeType # "add" => adds' = adds
<1>1. Metric(w) \in Metrics /\ worker[w].pod \in Pods
  BY JobTypes DEF PatchNodeAnnotation, Patching
<1>2. adds \in [Metrics -> [Pods -> Nat]]
  BY DEF TypeOK
<1>3. CASE worker[w].mergeType = "add"
  <2>1. adds' = [adds EXCEPT ![Metric(w)][worker[w].pod] = @ + 1]
    BY <1>3 DEF PatchNodeAnnotation
  <2> QED
    BY <1>1, <1>2, <1>3, <2>1, CountType
<1>4. CASE worker[w].mergeType # "add"
  BY <1>4 DEF PatchNodeAnnotation
<1> QED
  BY <1>3, <1>4

(* Every step keeps every variable in its type.                            *)
LEMMA TypeStep == TypeOK /\ [Next]_vars => TypeOK'
<1> SUFFICES ASSUME TypeOK, [Next]_vars
             PROVE  TypeOK'
  OBVIOUS
<1> USE DEF podVars, nodeVars, resetVars, counts
<1>1. ASSUME NEW p \in Pods, NEW s \in PodState, PodChanges(p, s) PROVE TypeOK'
  BY <1>1 DEF TypeOK, PodChanges
<1>2. ASSUME NEW p \in Pods, NEW s \in PodState, ObservePod(p, s) PROVE TypeOK'
  <2>1. [pod |-> p, old |-> podSeen[p], new |-> s] \in Note
    BY DEF TypeOK, Note
  <2>2. podSeen' \in [Pods -> PodState] /\ notes' \in Seq(Note)
    BY <1>2, <2>1 DEF TypeOK, ObservePod
  <2> QED
    BY <1>2, <2>2 DEF TypeOK, ObservePod
<1>3. CASE ObserveNode
  <2>1. seen' \in NodeAnnotations /\ watch' \in Seq(NodeAnnotations)
    BY <1>3 DEF TypeOK, ObserveNode
  <2> QED
    BY <1>3, <2>1 DEF TypeOK, ObserveNode
<1>4. ASSUME NEW d \in Deploys, NEW m \in Metrics, NEW r \in Ranges \cup {Expired}, DeployChanges(d, m, r)
      PROVE  TypeOK'
  <2>1. deploy' \in [Deploys -> DeployAnnotations] /\ syncs' \in Nat
    BY <1>4 DEF TypeOK, DeployChanges, DeployAnnotations
  <2> QED
    BY <1>4, <2>1 DEF TypeOK, DeployChanges
<1>5. CASE handleUpdateEvent
  <2>0. notes' \in Seq(Note) /\ Head(notes) \in Note
    BY <1>5 DEF TypeOK, handleUpdateEvent
  <2>1. notes' \in Seq(Note) /\ Head(notes).pod \in Pods
    BY <2>0 DEF Note
  <2>2. queue' \subseteq Pods
    BY <1>5, <2>1 DEF TypeOK, handleUpdateEvent
  <2> QED
    BY <1>5, <2>1, <2>2 DEF TypeOK, handleUpdateEvent
<1>6. ASSUME NEW w \in Workers, Reconcile(w) PROVE TypeOK'
  <2>1. PICK p \in queue \ Processing :
          /\ queue' = queue \ {p}
          /\ \/ UNCHANGED worker
             \/ /\ DeployOf[p] # NoDeploy
                /\ worker' = [worker EXCEPT ![w] =
                      [pod |-> p, mergeType |-> IF podSeen[p] = "terminating" THEN "sub" ELSE "add",
                       usages |-> deploy[DeployOf[p]], node |-> seen, i |-> 1]]
    BY <1>6 DEF Reconcile
  <2>2. p \in Pods /\ 1 \in 1..Len(Policies)
    BY PolicyTypes DEF TypeOK
  <2>3. DeployOf[p] # NoDeploy =>
            [pod |-> p, mergeType |-> IF podSeen[p] = "terminating" THEN "sub" ELSE "add",
             usages |-> deploy[DeployOf[p]], node |-> seen, i |-> 1] \in Job
    BY <2>2, PolicyAssumption DEF TypeOK, Job
  <2>4. (\A v \in Workers : worker'[v] = Idle \/ worker'[v] \in Job) /\ DOMAIN worker' = Workers
    BY <2>1, <2>3 DEF TypeOK
  <2>5. queue' \subseteq Pods
    BY <2>1 DEF TypeOK
  <2>6. UNCHANGED <<podVars, deploy, nodeVars, resetVars, counts, adds, subs, owed>>
    BY <1>6 DEF Reconcile
  <2> QED
    BY <2>4, <2>5, <2>6 DEF TypeOK
<1>7. ASSUME NEW w \in Workers, SkipPolicy(w) PROVE TypeOK'
  <2>1. (\A v \in Workers : worker'[v] = Idle \/ worker'[v] \in Job) /\ DOMAIN worker' = Workers
    BY <1>7, AdvanceJob DEF SkipPolicy
  <2> QED
    BY <1>7, <2>1 DEF TypeOK, SkipPolicy
<1>8. ASSUME NEW w \in Workers, PatchNodeAnnotation(w) PROVE TypeOK'
  <2>1. (\A v \in Workers : worker'[v] = Idle \/ worker'[v] \in Job) /\ DOMAIN worker' = Workers
    BY <1>8, AdvanceJob DEF PatchNodeAnnotation, Patching
  <2>2. UNCHANGED <<podVars, deploy, seen, queue, resetVars, counts, owed>>
    BY <1>8 DEF PatchNodeAnnotation
  <2> QED
    BY <1>8, <2>1, <2>2, PatchTypes DEF TypeOK
<1>9. ASSUME NEW w \in Workers, PatchFails(w) PROVE TypeOK'
  BY <1>9 DEF TypeOK, PatchFails
<1>10. CASE CreateMetricResetTicker
  BY <1>10 DEF TypeOK, CreateMetricResetTicker
<1>11. CASE SyncNode
  BY <1>11 DEF TypeOK, SyncNode
<1>12. ASSUME NEW m \in Metrics, DeleteNodeAnnotation(m) PROVE TypeOK'
  <2>1. anno' \in NodeAnnotations /\ watch' = Append(watch, anno')
    BY <1>12 DEF TypeOK, DeleteNodeAnnotation, WriteNode, NodeAnnotations
  <2>2. watch' \in Seq(NodeAnnotations)
    BY <2>1 DEF TypeOK
  <2> QED
    BY <1>12, <2>1, <2>2 DEF TypeOK, DeleteNodeAnnotation
<1>13. CASE DeleteFails
  BY <1>13 DEF TypeOK, DeleteFails
<1>14. CASE Restart
  <2>1. notes' \in Seq(Note) /\ watch' \in Seq(NodeAnnotations)
    BY <1>14 DEF Restart
  <2>2. (\A w \in Workers : worker'[w] = Idle) /\ DOMAIN worker' = Workers
    BY <1>14 DEF Restart
  <2>3. restarts' \in Nat /\ UNCHANGED <<pod, deploy, anno, syncs, resets, adds, subs>>
    BY <1>14 DEF Restart, TypeOK
  <2>4. /\ podSeen' = pod /\ queue' = {} /\ seen' = anno /\ resetQueued' = FALSE
        /\ resetKeys' = {} /\ owed' = {}
    BY <1>14 DEF Restart
  <2> QED
    BY <2>1, <2>2, <2>3, <2>4 DEF TypeOK
<1>15. CASE UNCHANGED vars
  BY <1>15 DEF TypeOK, vars
<1> QED
  BY <1>1, <1>2, <1>3, <1>4, <1>5, <1>6, <1>7, <1>8, <1>9, <1>10, <1>11, <1>12, <1>13, <1>14, <1>15 DEF Next

(* The initial state is of the type.                                       *)
LEMMA TypeInit == Init => TypeOK
<1> SUFFICES ASSUME Init
             PROVE  TypeOK
  OBVIOUS
<1>1. pod \in [Pods -> PodState] /\ podSeen \in [Pods -> PodState]
  BY DEF Init, PodState
<1>2. notes \in Seq(Note) /\ watch \in Seq(NodeAnnotations)
  BY DEF Init
<1>3. anno \in NodeAnnotations /\ seen \in NodeAnnotations
  BY DEF Init, NodeAnnotations, NoAnnotations
<1>4. (\A w \in Workers : worker[w] = Idle) /\ DOMAIN worker = Workers
  BY DEF Init
<1>5. adds \in [Metrics -> [Pods -> Nat]] /\ subs \in [Metrics -> [Pods -> Nat]]
  BY DEF Init
<1>6. /\ deploy \in [Deploys -> DeployAnnotations] /\ queue = {} /\ resetQueued = FALSE /\ resetKeys = {}
      /\ syncs = 0 /\ resets = 0 /\ restarts = 0 /\ owed = {}
  BY DEF Init
<1> QED
  BY <1>1, <1>2, <1>3, <1>4, <1>5, <1>6 DEF TypeOK

(* Every variable stays in its type.                                       *)
THEOREM TypeCorrect == Spec => []TypeOK
BY TypeInit, TypeStep, PTL DEF Spec

-----------------------------------------------------------------------------
(* A pod is added at most once.                                            *)

NotesOf(p) == {k \in DOMAIN notes : notes[k].pod = p}
Untouched(p) == /\ \A w \in Busy : worker[w].pod # p
                /\ \A m \in Metrics : adds[m][p] = 0

(* While the lister has a pod as scheduled, its notification, its key in   *)
(* the queue and the job for it exclude each other, and there is only one. *)
OneTrigger ==
    /\ \A p \in Pods : pod[p] = "pending" => podSeen[p] = "pending"
    /\ \A v, w \in Busy : worker[v].pod = worker[w].pod => v = w
    /\ \A p \in Pods :
        /\ podSeen[p] = "pending" => NotesOf(p) = {} /\ p \notin queue /\ Untouched(p)
        /\ podSeen[p] = "scheduled" =>
              /\ \A j, k \in NotesOf(p) : j = k
              /\ p \in queue => NotesOf(p) = {}
              /\ p \in queue \/ NotesOf(p) # {} => Untouched(p)

(* The steps that leave notifications, queue and pods alone and at most    *)
(* end jobs keep that.                                                     *)
LEMMA TriggerKept ==
    ASSUME OneTrigger, UNCHANGED <<podSeen, notes, queue, adds>>,
           \A p \in Pods : pod'[p] = "pending" => pod[p] = "pending",
           \A w \in Workers : worker'[w] = Idle \/ (worker[w] # Idle /\ worker'[w].pod = worker[w].pod)
    PROVE  OneTrigger'
BY DEF OneTrigger, NotesOf, Untouched, Busy

(* Every step keeps the triggers of an addition apart.                     *)
LEMMA TriggerStep ==
    ASSUME TypeOK, TypeOK', OneTrigger, [Next]_vars
    PROVE  OneTrigger'
<1> USE DEF podVars, nodeVars, resetVars, counts
<1>1. ASSUME NEW p \in Pods, NEW s \in PodState, PodChanges(p, s) PROVE OneTrigger'
  <2>1. \A q \in Pods : pod'[q] = "pending" => pod[q] = "pending"
    BY <1>1 DEF PodChanges, PodStep, TypeOK
  <2>2. UNCHANGED <<podSeen, notes, queue, adds, worker>>
    BY <1>1 DEF PodChanges
  <2> QED
    BY <2>1, <2>2, TriggerKept
<1>2. ASSUME NEW p \in Pods, NEW s \in PodState, ObservePod(p, s) PROVE OneTrigger'
  <2>1. /\ UNCHANGED <<pod, queue, worker, adds>> /\ podSeen' = [podSeen EXCEPT ![p] = s]
        /\ s \in Versions[pod[p]] /\ Stage[podSeen[p]] < Stage[s]
        /\ notes' = IF s \in Removed THEN notes
                    ELSE Append(notes, [pod |-> p, old |-> podSeen[p], new |-> s])
    BY <1>2 DEF ObservePod
  <2>2. /\ pod[p] # "pending" /\ s # "pending"
        /\ s = "scheduled" => podSeen[p] = "pending"
    <3>1. pod[p] \in PodState /\ podSeen[p] \in PodState
      BY DEF TypeOK
    <3> QED
      BY <2>1, <3>1 DEF Versions, Stage, PodState
  <2>3. \A q \in Pods \ {p} : NotesOf(q)' = NotesOf(q) /\ podSeen'[q] = podSeen[q]
    <3>1. \A q \in Pods \ {p} : podSeen'[q] = podSeen[q]
      BY <2>1 DEF TypeOK
    <3>2. CASE s \in Removed
      BY <2>1, <3>1, <3>2 DEF NotesOf
    <3>3. CASE s \notin Removed
      <4>1. notes' = Append(notes, [pod |-> p, old |-> podSeen[p], new |-> s]) /\ notes \in Seq(Note)
        BY <2>1, <3>3 DEF TypeOK
      <4>2. /\ DOMAIN notes' = DOMAIN notes \cup {Len(notes) + 1}
            /\ notes'[Len(notes) + 1].pod = p
            /\ \A k \in DOMAIN notes : notes'[k] = notes[k]
        BY <4>1
      <4> QED
        BY <3>1, <4>2 DEF NotesOf
    <3> QED
      BY <3>2, <3>3
  <2>4. podSeen'[p] = s
    BY <2>1 DEF TypeOK
  <2>5. podSeen[p] = "pending" /\ s = "scheduled" =>
            /\ \A j, k \in NotesOf(p)' : j = k
            /\ p \notin queue
    <3> SUFFICES ASSUME podSeen[p] = "pending", s = "scheduled"
                 PROVE  (\A j, k \in NotesOf(p)' : j = k) /\ p \notin queue
      OBVIOUS
    <3>1. NotesOf(p) = {} /\ p \notin queue
      BY DEF OneTrigger
    <3>2. notes' = Append(notes, [pod |-> p, old |-> podSeen[p], new |-> s]) /\ notes \in Seq(Note)
      BY <2>1 DEF TypeOK, Removed
    <3>3. /\ DOMAIN notes' = DOMAIN notes \cup {Len(notes) + 1}
          /\ \A k \in DOMAIN notes : notes'[k] = notes[k]
      BY <3>2
    <3> QED
      BY <3>1, <3>3 DEF NotesOf
  <2>6. \A q \in Pods : Untouched(q)' = Untouched(q)
    BY <2>1 DEF Untouched, Busy
  <2>7. \A v, w \in Busy' : worker'[v].pod = worker'[w].pod => v = w
    BY <2>1 DEF OneTrigger, Busy
  <2>8. \A q \in Pods : pod'[q] = "pending" => podSeen'[q] = "pending"
    BY <2>1, <2>2, <2>3 DEF OneTrigger
  <2>9. ASSUME NEW q \in Pods \ {p}
        PROVE  /\ podSeen'[q] = "pending" => NotesOf(q)' = {} /\ q \notin queue' /\ Untouched(q)'
               /\ podSeen'[q] = "scheduled" =>
                     /\ \A j, k \in NotesOf(q)' : j = k
                     /\ q \in queue' => NotesOf(q)' = {}
                     /\ q \in queue' \/ NotesOf(q)' # {} => Untouched(q)'
    BY <2>1, <2>3, <2>6 DEF OneTrigger
  <2>10. /\ podSeen'[p] = "pending" => NotesOf(p)' = {} /\ p \notin queue' /\ Untouched(p)'
         /\ podSeen'[p] = "scheduled" =>
               /\ \A j, k \in NotesOf(p)' : j = k
               /\ p \in queue' => NotesOf(p)' = {}
               /\ p \in queue' \/ NotesOf(p)' # {} => Untouched(p)'
    BY <2>1, <2>2, <2>4, <2>5, <2>6 DEF OneTrigger
  <2> QED
    BY <2>7, <2>8, <2>9, <2>10 DEF OneTrigger
<1>3. ASSUME ObserveNode \/ CreateMetricResetTicker \/ SyncNode \/ DeleteFails \/ UNCHANGED vars
      PROVE  OneTrigger'
  BY <1>3, TriggerKept DEF ObserveNode, CreateMetricResetTicker, SyncNode, DeleteFails, vars
<1>4. ASSUME NEW d \in Deploys, NEW m \in Metrics, NEW r \in Ranges \cup {Expired}, DeployChanges(d, m, r)
      PROVE  OneTrigger'
  BY <1>4, TriggerKept DEF DeployChanges
<1>5. ASSUME NEW m \in Metrics, DeleteNodeAnnotation(m) PROVE OneTrigger'
  BY <1>5, TriggerKept DEF DeleteNodeAnnotation
<1>6. CASE handleUpdateEvent
  <2>1. /\ notes # <<>> /\ notes' = Tail(notes) /\ UNCHANGED <<pod, podSeen, worker, adds>>
        /\ queue' = queue \/ queue' = queue \cup {Head(notes).pod}
    BY <1>6 DEF handleUpdateEvent
  <2>0. PICK p \in Pods : p = Head(notes).pod
    <3>1. Head(notes) \in Note
      BY <2>1 DEF TypeOK
    <3> QED
      BY <3>1 DEF Note
  <2>2. /\ Len(notes) \in Nat \ {0} /\ DOMAIN notes = 1..Len(notes) /\ p = notes[1].pod
        /\ DOMAIN notes' = 1..(Len(notes) - 1)
        /\ \A k \in 1..(Len(notes) - 1) : notes'[k] = notes[k + 1]
    BY <2>0, <2>1 DEF TypeOK
  <2>3. \A q \in Pods : \A k \in NotesOf(q)' : k \in Nat \ {0} /\ k + 1 \in NotesOf(q)
    BY <2>2 DEF NotesOf
  <2>4. 1 \in NotesOf(p)
    BY <2>2 DEF NotesOf
  <2>5. \A q \in Pods : Untouched(q)' = Untouched(q)
    BY <2>1 DEF Untouched, Busy
  <2>6. podSeen[p] # "pending"
    BY <2>2, <2>4 DEF OneTrigger
  <2>7. podSeen[p] = "scheduled" => NotesOf(p)' = {} /\ Untouched(p)
    <3> SUFFICES ASSUME podSeen[p] = "scheduled"
                 PROVE  NotesOf(p)' = {} /\ Untouched(p)
      OBVIOUS
    <3>1. \A j, k \in NotesOf(p) : j = k
      BY <2>2 DEF OneTrigger
    <3>2. ASSUME NEW k \in NotesOf(p)' PROVE FALSE
      <4>1. k \in Nat \ {0} /\ k + 1 \in NotesOf(p)
        BY <2>2, <2>3
      <4>2. k + 1 = 1
        BY <2>4, <3>1, <4>1
      <4> QED
        BY <4>1, <4>2
    <3> QED
      BY <2>2, <2>4, <3>2 DEF OneTrigger
  <2>8. \A q \in Pods : NotesOf(q) = {} => NotesOf(q)' = {}
    BY <2>3
  <2>9. \A q \in Pods : podSeen[q] = "scheduled" => \A j, k \in NotesOf(q)' : j = k
    <3> SUFFICES ASSUME NEW q \in Pods, podSeen[q] = "scheduled", NEW j \in NotesOf(q)', NEW k \in NotesOf(q)'
                 PROVE  j = k
      OBVIOUS
    <3>1. j + 1 = k + 1 /\ j \in Nat /\ k \in Nat
      BY <2>3 DEF OneTrigger
    <3> QED
      BY <3>1
  <2>10. queue' \subseteq queue \cup {p}
    BY <2>0, <2>1
  <2>11. \A v, w \in Busy' : worker'[v].pod = worker'[w].pod => v = w
    BY <2>1 DEF OneTrigger, Busy
  <2>12. ASSUME NEW q \in Pods
         PROVE  /\ podSeen'[q] = "pending" => NotesOf(q)' = {} /\ q \notin queue' /\ Untouched(q)'
                /\ podSeen'[q] = "scheduled" =>
                     /\ \A j, k \in NotesOf(q)' : j = k
                     /\ q \in queue' => NotesOf(q)' = {}
                     /\ q \in queue' \/ NotesOf(q)' # {} => Untouched(q)'
    <3>2. CASE podSeen[q] = "pending"
      BY <2>1, <2>5, <2>6, <2>8, <2>10, <3>2 DEF OneTrigger
    <3>3. CASE podSeen[q] = "scheduled" /\ q = p
      BY <2>1, <2>5, <2>7, <3>3
    <3>4. CASE podSeen[q] = "scheduled" /\ q # p
      <4>1. q \in queue' => q \in queue
        BY <2>10, <3>4
      <4>2. /\ q \in queue => NotesOf(q) = {}
            /\ q \in queue \/ NotesOf(q) # {} => Untouched(q)
        BY <3>4 DEF OneTrigger
      <4> QED
        BY <2>1, <2>5, <2>8, <2>9, <3>4, <4>1, <4>2
    <3> QED
      BY <2>1, <3>2, <3>3, <3>4
  <2> QED
    BY <2>1, <2>11, <2>12 DEF OneTrigger
<1>7. ASSUME NEW w \in Workers, Reconcile(w) PROVE OneTrigger'
  <2>1. PICK p \in queue \ Processing :
          /\ queue' = queue \ {p}
          /\ \/ UNCHANGED worker
             \/ \E job : job.pod = p /\ worker' = [worker EXCEPT ![w] = job]
    BY <1>7 DEF Reconcile
  <2>2. UNCHANGED <<pod, podSeen, notes, adds>> /\ worker[w] = Idle /\ p \in Pods
    BY <1>7 DEF Reconcile, TypeOK
  <2>3. \A v \in Workers \ {w} : worker'[v] = worker[v]
    BY <2>1 DEF TypeOK
  <2>4. worker'[w] = Idle \/ worker'[w].pod = p
    BY <2>1, <2>2 DEF TypeOK
  <2>5. \A v \in Busy : worker[v].pod # p
    BY <2>1 DEF Processing
  <2>6. \A v \in Busy' : v \in Busy \/ v = w
    BY <2>3 DEF Busy
  <2>7. \A u, v \in Busy' : worker'[u].pod = worker'[v].pod => u = v
    BY <2>2, <2>3, <2>4, <2>5, <2>6 DEF OneTrigger, Busy
  <2>8. \A q \in Pods \ {p} : Untouched(q) => Untouched(q)'
    BY <2>2, <2>3, <2>4, <2>6 DEF Untouched, Busy
  <2>9. \A q \in Pods : NotesOf(q)' = NotesOf(q)
    BY <2>2 DEF NotesOf
  <2>10. podSeen[p] # "pending" /\ (podSeen[p] = "scheduled" => NotesOf(p) = {})
    BY <2>1, <2>2 DEF OneTrigger
  <2>11. ASSUME NEW q \in Pods
         PROVE  /\ podSeen'[q] = "pending" => NotesOf(q)' = {} /\ q \notin queue' /\ Untouched(q)'
                /\ podSeen'[q] = "scheduled" =>
                     /\ \A j, k \in NotesOf(q)' : j = k
                     /\ q \in queue' => NotesOf(q)' = {}
                     /\ q \in queue' \/ NotesOf(q)' # {} => Untouched(q)'
    BY <2>1, <2>2, <2>8, <2>9, <2>10 DEF OneTrigger
  <2> QED
    BY <2>2, <2>7, <2>11 DEF OneTrigger
<1>8. ASSUME NEW w \in Workers, SkipPolicy(w) PROVE OneTrigger'
  BY <1>8, AdvanceJob, TriggerKept DEF SkipPolicy
<1>9. ASSUME NEW w \in Workers, PatchNodeAnnotation(w) PROVE OneTrigger'
  <2>1. worker[w] # Idle /\ UNCHANGED <<pod, podSeen, notes, queue>> /\ Advance(w)
    BY <1>9 DEF PatchNodeAnnotation, Patching
  <2>2. worker[w].pod \in Pods
    BY <2>1, JobTypes
  <2> DEFINE p == worker[w].pod
  <2>3. \A m \in Metrics, q \in Pods \ {p} : adds'[m][q] = adds[m][q]
    BY <1>9, PatchCounts
  <2>4. \A v \in Workers : worker'[v] = Idle \/ (worker[v] # Idle /\ worker'[v].pod = worker[v].pod)
    BY <2>1, AdvanceJob
  <2>5. \A q \in Pods : Untouched(q) => q # p
    BY <2>1 DEF Untouched, Busy
  <2> HIDE DEF p
  <2>6. \A q \in Pods : Untouched(q) => Untouched(q)'
    BY <2>3, <2>4, <2>5 DEF Untouched, Busy
  <2>7. \A u, v \in Busy' : worker'[u].pod = worker'[v].pod => u = v
    BY <2>4 DEF OneTrigger, Busy
  <2>8. \A q \in Pods : NotesOf(q)' = NotesOf(q)
    BY <2>1 DEF NotesOf
  <2>9. ASSUME NEW q \in Pods
        PROVE  /\ podSeen'[q] = "pending" => NotesOf(q)' = {} /\ q \notin queue' /\ Untouched(q)'
               /\ podSeen'[q] = "scheduled" =>
                     /\ \A j, k \in NotesOf(q)' : j = k
                     /\ q \in queue' => NotesOf(q)' = {}
                     /\ q \in queue' \/ NotesOf(q)' # {} => Untouched(q)'
    BY <2>1, <2>6, <2>8 DEF OneTrigger
  <2> QED
    BY <2>1, <2>7, <2>9 DEF OneTrigger
<1>10. ASSUME NEW w \in Workers, PatchFails(w) PROVE OneTrigger'
  <2>1. \A v \in Workers : worker'[v] = Idle \/ (worker[v] # Idle /\ worker'[v].pod = worker[v].pod)
    BY <1>10 DEF PatchFails, TypeOK
  <2> QED
    BY <1>10, <2>1, TriggerKept DEF PatchFails
<1>11. CASE Restart
  <2>1. /\ podSeen' = pod /\ notes' = <<>> /\ queue' = {} /\ Busy' = {} /\ UNCHANGED <<pod, adds>>
    BY <1>11 DEF Restart, Busy
  <2>2. \A q \in Pods : NotesOf(q)' = {}
    BY <2>1 DEF NotesOf
  <2>3. \A q \in Pods : podSeen'[q] = "pending" => Untouched(q)'
    BY <2>1 DEF OneTrigger, Untouched
  <2> QED
    BY <2>1, <2>2, <2>3 DEF OneTrigger
<1> QED
  BY <1>1, <1>2, <1>3, <1>4, <1>5, <1>6, <1>7, <1>8, <1>9, <1>10, <1>11 DEF Next

(* At the start there is nothing to tell apart.                            *)
LEMMA TriggerInit == Init => OneTrigger
<1> SUFFICES ASSUME Init
             PROVE  OneTrigger
  OBVIOUS
<1>1. Busy = {} /\ queue = {} /\ \A p \in Pods : NotesOf(p) = {}
  BY DEF Init, Busy, NotesOf
<1>2. \A p \in Pods : podSeen[p] = "pending" /\ \A m \in Metrics : adds[m][p] = 0
  BY DEF Init
<1> QED
  BY <1>1, <1>2 DEF OneTrigger, Untouched

(* A job that adds has not done so for the metrics still ahead of it.      *)
AddsAhead ==
    \A w \in Busy : worker[w].mergeType = "add" =>
        \A j \in worker[w].i..Len(Policies) : adds[Policies[j]][worker[w].pod] = 0

(* A job is begun for a pod that the lister has as scheduled or            *)
(* terminating, and one that adds for a pod that no one has added.         *)
LEMMA ReconcileJob ==
    ASSUME TypeOK, OneTrigger, NEW w \in Workers, Reconcile(w)
    PROVE  /\ UNCHANGED <<anno, seen, watch, adds>>
           /\ DOMAIN worker' = Workers
           /\ \A v \in Workers \ {w} : worker'[v] = worker[v]
           /\ \/ worker'[w] = Idle
              \/ /\ worker'[w].pod \in Pods /\ worker'[w].node = seen /\ worker'[w].i = 1
                 /\ worker'[w].mergeType = "add" => \A m \in Metrics : adds[m][worker'[w].pod] = 0
<1>1. PICK p \in queue \ Processing :
          \/ UNCHANGED worker
          \/ /\ podSeen[p] \notin Removed
             /\ worker' = [worker EXCEPT ![w] =
                   [pod |-> p, mergeType |-> IF podSeen[p] = "terminating" THEN "sub" ELSE "add",
                    usages |-> deploy[DeployOf[p]], node |-> seen, i |-> 1]]
  BY DEF Reconcile
<1>2. p \in Pods /\ worker[w] = Idle /\ UNCHANGED <<anno, seen, watch, adds>> /\ DOMAIN worker = Workers
  BY DEF Reconcile, TypeOK, nodeVars
<1>3. podSeen[p] \in PodState /\ podSeen[p] # "pending" /\ (podSeen[p] = "scheduled" => Untouched(p))
  BY <1>1, <1>2 DEF OneTrigger, TypeOK
<1>4. podSeen[p] \notin Removed /\ podSeen[p] # "terminating" => \A m \in Metrics : adds[m][p] = 0
  BY <1>3 DEF PodState, Removed, Untouched
<1>5. CASE UNCHANGED worker
  BY <1>2, <1>5
<1>6. CASE ~ UNCHANGED worker
  <2>1. /\ podSeen[p] \notin Removed
        /\ worker' = [worker EXCEPT ![w] =
                   [pod |-> p, mergeType |-> IF podSeen[p] = "terminating" THEN "sub" ELSE "add",
                    usages |-> deploy[DeployOf[p]], node |-> seen, i |-> 1]]
    BY <1>1, <1>6
  <2>2. /\ worker'[w].pod = p /\ worker'[w].node = seen /\ worker'[w].i = 1
        /\ worker'[w].mergeType = "add" => podSeen[p] # "terminating"
    BY <1>2, <2>1
  <2>3. DOMAIN worker' = Workers /\ \A v \in Workers \ {w} : worker'[v] = worker[v]
    BY <1>2, <2>1
  <2> QED
    BY <1>2, <1>4, <2>1, <2>2, <2>3
<1> QED
  BY <1>5, <1>6

(* The steps other than these begin no job, count nothing and leave jobs   *)
(* alone or end them.                                                      *)
LEMMA OtherSteps ==
    ASSUME TypeOK, [Next]_vars,
           \A w \in Workers : ~ Reconcile(w) /\ ~ SkipPolicy(w) /\ ~ PatchNodeAnnotation(w)
    PROVE  /\ UNCHANGED adds
           /\ \A v \in Workers : worker'[v] = Idle \/ worker'[v] = worker[v]
<1> USE DEF podVars, nodeVars, resetVars, counts
<1>1. ASSUME NEW w \in Workers, PatchFails(w)
      PROVE  UNCHANGED adds /\ \A v \in Workers : worker'[v] = Idle \/ worker'[v] = worker[v]
  BY <1>1 DEF PatchFails, TypeOK
<1>2. CASE Restart
  BY <1>2 DEF Restart
<1>3. CASE ~ Restart /\ \A w \in Workers : ~ PatchFails(w)
  <2>1. UNCHANGED <<adds, worker>>
    BY <1>3 DEF Next, vars, PodChanges, ObservePod, ObserveNode, DeployChanges, handleUpdateEvent,
                CreateMetricResetTicker, SyncNode, DeleteNodeAnnotation, DeleteFails
  <2> QED
    BY <2>1
<1> QED
  BY <1>1, <1>2, <1>3

(* A step keeps both, if no metric is listed twice.                        *)
LEMMA OnceStep ==
    ASSUME DistinctPolicies, TypeOK, OneTrigger, AddsAhead, AddedOnce, [Next]_vars
    PROVE  AddsAhead' /\ AddedOnce'
<1>0. /\ Len(Policies) \in Nat \ {0} /\ DOMAIN Policies = 1..Len(Policies)
      /\ \A k \in 1..Len(Policies) : Policies[k] \in Metrics
  BY PolicyTypes, PolicyAssumption
<1>1. ASSUME NEW w \in Workers, Reconcile(w) PROVE AddsAhead' /\ AddedOnce'
  <2>1. \A v \in Busy' : v = w \/ (v \in Busy /\ worker'[v] = worker[v])
    BY <1>1, ReconcileJob DEF Busy
  <2>2. adds' = adds
    BY <1>1, ReconcileJob
  <2>3. \A v \in Busy' : worker'[v].mergeType = "add" =>
            \A j \in worker'[v].i..Len(Policies) : adds'[Policies[j]][worker'[v].pod] = 0
    <3> SUFFICES ASSUME NEW v \in Busy', worker'[v].mergeType = "add", NEW j \in worker'[v].i..Len(Policies)
                 PROVE  adds'[Policies[j]][worker'[v].pod] = 0
      OBVIOUS
    <3>1. CASE v = w
      BY <1>0, <1>1, <2>2, <3>1, ReconcileJob DEF Busy
    <3>2. CASE v # w
      BY <2>1, <2>2, <3>2 DEF AddsAhead
    <3> QED
      BY <3>1, <3>2
  <2> QED
    BY <2>2, <2>3 DEF AddsAhead, AddedOnce
<1>2. ASSUME NEW w \in Workers, SkipPolicy(w) PROVE AddsAhead' /\ AddedOnce'
  <2>1. worker[w] # Idle /\ Advance(w) /\ UNCHANGED adds
    BY <1>2 DEF SkipPolicy
  <2>3. ASSUME NEW v \in Busy', worker'[v].mergeType = "add", NEW j \in worker'[v].i..Len(Policies)
        PROVE  adds'[Policies[j]][worker'[v].pod] = 0
    <3>1. v \in Busy /\ worker[v].mergeType = "add" /\ worker'[v].pod = worker[v].pod
      BY <2>1, <2>3, AdvanceBusy
    <3>2. j \in worker[v].i..Len(Policies)
      BY <1>0, <2>1, AdvanceBusy
    <3> QED
      BY <2>1, <3>1, <3>2 DEF AddsAhead
  <2> QED
    BY <2>1, <2>3 DEF AddsAhead, AddedOnce
<1>3. ASSUME NEW w \in Workers, PatchNodeAnnotation(w) PROVE AddsAhead' /\ AddedOnce'
  <2>1. worker[w] # Idle /\ Advance(w)
    BY <1>3 DEF PatchNodeAnnotation, Patching
  <2>2. /\ worker[w].pod \in Pods /\ worker[w].mergeType \in {"add", "sub"}
        /\ worker[w].i \in 1..Len(Policies) /\ Metric(w) \in Metrics
    BY <2>1, JobTypes
  <2>3. worker[w].mergeType = "add" => adds[Metric(w)][worker[w].pod] = 0
    BY <1>0, <2>1, <2>2 DEF AddsAhead, Busy, Metric
  <2>4. AddedOnce'
    <3> SUFFICES ASSUME NEW m \in Metrics, NEW q \in Pods
                 PROVE  adds'[m][q] <= 1
      BY DEF AddedOnce
    <3>1. CASE m = Metric(w) /\ q = worker[w].pod /\ worker[w].mergeType = "add"
      BY <1>3, <2>3, <3>1, PatchCounts
    <3>2. CASE ~ (m = Metric(w) /\ q = worker[w].pod /\ worker[w].mergeType = "add")
      <4>1. adds'[m][q] = adds[m][q]
        BY <1>3, <3>2, PatchCounts
      <4> QED
        BY <4>1 DEF AddedOnce
    <3> QED
      BY <3>1, <3>2
  <2>5. ASSUME NEW v \in Busy', worker'[v].mergeType = "add", NEW j \in worker'[v].i..Len(Policies)
        PROVE  adds'[Policies[j]][worker'[v].pod] = 0
    <3>1. /\ v \in Workers /\ v \in Busy /\ worker'[v].pod = worker[v].pod /\ worker[v].pod \in Pods
          /\ worker'[v].mergeType = worker[v].mergeType /\ worker[v].i \in 1..Len(Policies)
          /\ \/ v # w /\ worker'[v].i = worker[v].i
             \/ v = w /\ worker'[v].i = worker[v].i + 1
      BY <2>1, AdvanceBusy
    <3>2. j \in worker[v].i..Len(Policies) /\ Policies[j] \in Metrics
      BY <1>0, <3>1
    <3>3. adds[Policies[j]][worker[v].pod] = 0
      BY <2>5, <3>1, <3>2 DEF AddsAhead
    <3>4. CASE v = w
      <4>1. worker'[w].i = worker[w].i + 1
        BY <3>1, <3>4
      <4>2. j # worker[w].i /\ j \in 1..Len(Policies)
        BY <1>0, <2>2, <3>4, <4>1
      <4>3. Policies[j] # Metric(w)
        BY <1>0, <2>2, <4>2 DEF DistinctPolicies, Metric
      <4> QED
        BY <1>3, <3>1, <3>2, <3>3, <4>3, PatchCounts
    <3>5. CASE v # w
      <4>1. worker[v].pod # worker[w].pod
        BY <2>1, <3>1, <3>5 DEF OneTrigger, Busy
      <4> QED
        BY <1>3, <3>1, <3>2, <3>3, <4>1, PatchCounts
    <3> QED
      BY <3>4, <3>5
  <2> QED
    BY <2>4, <2>5 DEF AddsAhead
<1>4. CASE \A w \in Workers : ~ Reconcile(w) /\ ~ SkipPolicy(w) /\ ~ PatchNodeAnnotation(w)
  BY <1>4, OtherSteps DEF AddsAhead, AddedOnce, Busy
<1> QED
  BY <1>1, <1>2, <1>3, <1>4

(* The scheduling of a pod is counted at most once: its notification, its  *)
(* key in the pod queue and the worker's job exclude each other, and none  *)
(* comes back after a restart.                                             *)
THEOREM PodAddedOnce ==
    ASSUME DistinctPolicies
    PROVE  Spec => []AddedOnce
<1>1. Init => AddsAhead /\ AddedOnce
  BY DEF Init, AddsAhead, AddedOnce, Busy
<1>2. TypeOK /\ OneTrigger /\ AddsAhead /\ AddedOnce /\ [Next]_vars => AddsAhead' /\ AddedOnce'
  BY OnceStep
<1>3. TypeOK /\ TypeOK' /\ OneTrigger /\ [Next]_vars => OneTrigger'
  BY TriggerStep
<1> QED
  BY <1>1, <1>2, <1>3, TriggerInit, TypeInit, TypeStep, PTL DEF Spec

-----------------------------------------------------------------------------
(* No delta claims more than the pods that were added can use.             *)

(* What the pods in A[m] can use covers the annotations a.                 *)
Fits(a, A) ==
    \A m \in Metrics :
        a[m] # Absent => \A j \in DOMAIN a[m] : a[m][j] <= MaxUsage * Cardinality(A[m])

Counted == [m \in Metrics |-> Added(m)]

(* The pods whose usage may be in the node that a job has read: a job that *)
(* adds a pod does not find it there.                                      *)
Before(w) ==
    IF worker[w].mergeType = "add" THEN [m \in Metrics |-> Added(m) \ {worker[w].pod}] ELSE Counted

(* Every copy of the node fits, the old ones in the watch and in the jobs  *)
(* of the workers, too.                                                    *)
SnapshotsFit ==
    /\ Fits(anno, Counted)
    /\ Fits(seen, Counted)
    /\ \A k \in DOMAIN watch : Fits(watch[k], Counted)
    /\ \A w \in Busy : Fits(worker[w].node, Before(w))

(* More pods leave more room.                                              *)
LEMMA FitsMore ==
    ASSUME NEW a \in NodeAnnotations, NEW A, NEW B, Fits(a, A),
           \A m \in Metrics : A[m] \subseteq B[m] /\ B[m] \subseteq Pods
    PROVE  Fits(a, B)
<1> SUFFICES ASSUME NEW m \in Metrics, a[m] # Absent, NEW j \in DOMAIN a[m]
             PROVE  a[m][j] <= MaxUsage * Cardinality(B[m])
  BY DEF Fits
<1>1. IsFiniteSet(B[m])
  BY PodsAssumption, FS_Subset
<1>2. /\ Cardinality(A[m]) \in Nat /\ Cardinality(B[m]) \in Nat
      /\ Cardinality(A[m]) <= Cardinality(B[m])
  BY <1>1, FS_Subset, FS_CardinalityType
<1>3. a[m][j] \in Int /\ a[m][j] <= MaxUsage * Cardinality(A[m])
  BY DEF Fits, NodeAnnotations, Values
<1>4. MaxUsage * Cardinality(A[m]) <= MaxUsage * Cardinality(B[m])
  BY <1>2, RangeAssumption
<1>5. MaxUsage * Cardinality(A[m]) \in Int /\ MaxUsage * Cardinality(B[m]) \in Int
  BY <1>2, RangeAssumption
<1> QED
  BY <1>3, <1>4, <1>5

(* What MergeUsageRange adds is at most a pod's largest usage; what it     *)
(* subtracts is not negative.                                              *)
LEMMA MergeBounded ==
    ASSUME NEW delta \in Seq(Int), NEW usage \in Seq(Nat), NEW mergeType \in {"add", "sub"},
           NEW b \in Nat, \A j \in DOMAIN delta : delta[j] <= b,
           \A j \in DOMAIN usage : usage[j] <= MaxUsage,
           NEW j \in DOMAIN MergeUsageRange(delta, usage, mergeType)
    PROVE  MergeUsageRange(delta, usage, mergeType)[j] <= IF mergeType = "add" THEN b + MaxUsage ELSE b
<1> DEFINE old == IF Len(delta) = Len(usage) THEN delta ELSE [k \in DOMAIN usage |-> 0]
<1>1. j \in DOMAIN usage /\ usage[j] \in Nat /\ usage[j] <= MaxUsage
  BY DEF MergeUsageRange
<1>2. old[j] \in Int /\ old[j] <= b
  <2>1. CASE Len(delta) = Len(usage)
    BY <1>1, <2>1
  <2>2. CASE Len(delta) # Len(usage)
    BY <1>1, <2>2
  <2> QED
    BY <2>1, <2>2
<1>3. \/ mergeType = "add" /\ MergeUsageRange(delta, usage, mergeType)[j] = usage[j]
      \/ mergeType = "add" /\ MergeUsageRange(delta, usage, mergeType)[j] = old[j] + usage[j]
      \/ mergeType = "sub" /\ MergeUsageRange(delta, usage, mergeType)[j] = old[j] - usage[j]
  <2>1. CASE delta = <<>> /\ mergeType = "add"
    BY <1>1, <2>1 DEF MergeUsageRange
  <2>2. CASE ~ (delta = <<>> /\ mergeType = "add")
    <3>1. MergeUsageRange(delta, usage, mergeType) =
             [k \in DOMAIN usage |-> IF mergeType = "add" THEN old[k] + usage[k] ELSE old[k] - usage[k]]
      BY <2>2 DEF MergeUsageRange
    <3> HIDE DEF old
    <3> QED
      BY <1>1, <3>1
  <2> QED
    BY <2>1, <2>2
<1> HIDE DEF old
<1>4. MaxUsage \in Nat
  BY RangeAssumption
<1> QED
  BY <1>1, <1>2, <1>3, <1>4

(* The pods that are counted are pods, and stay counted.                   *)
LEMMA CountedGrows ==
    ASSUME TypeOK, TypeOK', \A m \in Metrics, q \in Pods : adds[m][q] <= adds'[m][q]
    PROVE  \A m \in Metrics : Counted[m] \subseteq Counted'[m] /\ Counted'[m] \subseteq Pods
<1>1. adds \in [Metrics -> [Pods -> Nat]] /\ adds' \in [Metrics -> [Pods -> Nat]]
  BY DEF TypeOK
<1>2. \A m \in Metrics, q \in Pods : adds[m][q] > 0 => adds'[m][q] > 0
  BY <1>1
<1> QED
  BY <1>2 DEF Counted, Added

(* A patch writes annotations that fit the pods counted after it.          *)
LEMMA PatchFits ==
    ASSUME TypeOK, TypeOK', SnapshotsFit, NEW w \in Workers, PatchNodeAnnotation(w),
           \A m \in Metrics : Counted[m] \subseteq Counted'[m] /\ Counted'[m] \subseteq Pods
    PROVE  Fits(anno', Counted')
<1>1. worker[w] # Idle /\ Patching(w)
  BY DEF PatchNodeAnnotation, Patching
<1>2. /\ worker[w].pod \in Pods /\ worker[w].mergeType \in {"add", "sub"} /\ Metric(w) \in Metrics
      /\ worker[w].node \in NodeAnnotations
  BY <1>1, JobTypes
<1>3. PICK k \in Metrics : k = Metric(w)
  BY <1>2
<1> DEFINE merged == MergeUsageRange(Delta(w), Usage(w), worker[w].mergeType)
           others == Before(w)[k]
<1>4. /\ Delta(w) \in Seq(Int) /\ Usage(w) \in Seq(Nat)
      /\ \A j \in DOMAIN Usage(w) : Usage(w)[j] <= MaxUsage
  BY <1>1, MergeArguments
<1>5. anno' = [anno EXCEPT ![k] = merged] /\ anno \in NodeAnnotations
  BY <1>3 DEF PatchNodeAnnotation, WriteNode, TypeOK
<1>6. /\ others \subseteq Counted'[k] /\ IsFiniteSet(others) /\ Cardinality(others) \in Nat
      /\ IsFiniteSet(Counted'[k]) /\ Cardinality(Counted'[k]) \in Nat
      /\ Cardinality(others) <= Cardinality(Counted'[k])
  <2>1. others \subseteq Counted[k]
    BY DEF Before, Counted, Added
  <2>2. others \subseteq Counted'[k] /\ Counted'[k] \subseteq Pods
    BY <2>1
  <2> HIDE DEF others
  <2> QED
    BY <2>2, PodsAssumption, FS_Subset, FS_CardinalityType
<1>7. worker[w].mergeType = "add" => Cardinality(others) + 1 <= Cardinality(Counted'[k])
  <2> SUFFICES ASSUME worker[w].mergeType = "add"
               PROVE  Cardinality(others) + 1 <= Cardinality(Counted'[k])
    OBVIOUS
  <2>1. adds'[k][worker[w].pod] = adds[k][worker[w].pod] + 1 /\ adds[k][worker[w].pod] \in Nat
    BY <1>2, <1>3, PatchCounts, SMTT(30) DEF TypeOK
  <2>2. worker[w].pod \in Counted'[k]
    BY <1>2, <2>1 DEF Counted, Added
  <2>3. worker[w].pod \notin others
    BY DEF Before
  <2> HIDE DEF others
  <2>4. others \cup {worker[w].pod} \subseteq Counted'[k]
    BY <1>6, <2>2
  <2>5. Cardinality(others \cup {worker[w].pod}) = Cardinality(others) + 1
    BY <1>6, <2>3, FS_AddElement
  <2> QED
    BY <1>6, <2>4, <2>5, FS_Subset
<1>8. \A j \in DOMAIN Delta(w) : Delta(w)[j] <= MaxUsage * Cardinality(others)
  <2>1. Fits(worker[w].node, Before(w))
    BY <1>1 DEF SnapshotsFit, Busy
  <2>2. CASE worker[w].node[k] = Absent
    BY <1>3, <2>2 DEF Delta, UsageRange
  <2>3. CASE worker[w].node[k] # Absent
    BY <1>3, <2>1, <2>3 DEF Delta, UsageRange, Fits
  <2> QED
    BY <2>2, <2>3
<1> HIDE DEF others
<1>9. /\ MaxUsage * Cardinality(others) \in Nat
      /\ MaxUsage * Cardinality(others) <= MaxUsage * Cardinality(Counted'[k])
      /\ worker[w].mergeType = "add" =>
            MaxUsage * Cardinality(others) + MaxUsage <= MaxUsage * Cardinality(Counted'[k])
      /\ MaxUsage * Cardinality(Counted'[k]) \in Nat
  <2>1. MaxUsage \in Nat
    BY RangeAssumption
  <2>2. \A a, b \in Nat : a <= b => MaxUsage * a <= MaxUsage * b /\ MaxUsage * a \in Nat /\ MaxUsage * b \in Nat
    BY <2>1
  <2>3. \A a \in Nat : MaxUsage * (a + 1) = MaxUsage * a + MaxUsage
    BY <2>1
  <2>4. CASE worker[w].mergeType = "add"
    <3>1. Cardinality(others) + 1 \in Nat /\ Cardinality(others) + 1 <= Cardinality(Counted'[k])
      BY <1>6, <1>7, <2>4
    <3>2. MaxUsage * (Cardinality(others) + 1) <= MaxUsage * Cardinality(Counted'[k])
      BY <1>6, <2>2, <3>1
    <3> QED
      BY <1>6, <2>2, <2>3, <3>2
  <2>5. CASE worker[w].mergeType # "add"
    BY <1>6, <2>2, <2>5
  <2> QED
    BY <2>4, <2>5
<1>10. ASSUME NEW j \in DOMAIN merged
       PROVE  merged[j] <= MaxUsage * Cardinality(Counted'[k])
  <2>1. merged[j] <= IF worker[w].mergeType = "add" THEN MaxUsage * Cardinality(others) + MaxUsage
                                                    ELSE MaxUsage * Cardinality(others)
    BY <1>2, <1>4, <1>8, <1>9, MergeBounded
  <2>2. merged[j] \in Int
    <3>1. merged \in Seq(Int)
      BY <1>2, <1>4, MergeType
    <3> HIDE DEF merged
    <3> QED
      BY <3>1
  <2>3. MaxUsage \in Nat
    BY RangeAssumption
  <2> HIDE DEF merged
  <2> QED
    BY <1>2, <1>9, <2>1, <2>2, <2>3
<1> HIDE DEF merged
<1>11. Fits(anno, Counted')
  BY <1>5, FitsMore DEF SnapshotsFit
<1> QED
  BY <1>5, <1>10, <1>11 DEF Fits, NodeAnnotations

(* The copies of the node that there are fit the pods counted later.       *)
LEMMA CopiesFit ==
    ASSUME TypeOK, SnapshotsFit,
           \A m \in Metrics : Counted[m] \subseteq Counted'[m] /\ Counted'[m] \subseteq Pods
    PROVE  /\ Fits(anno, Counted') /\ Fits(seen, Counted')
           /\ \A k \in DOMAIN watch : Fits(watch[k], Counted')
<1>1. anno \in NodeAnnotations /\ seen \in NodeAnnotations /\ \A k \in DOMAIN watch : watch[k] \in NodeAnnotations
  BY DEF TypeOK
<1> QED
  BY <1>1, FitsMore DEF SnapshotsFit

(* The node that a job has read fits as long as the job goes on.           *)
LEMMA JobFits ==
    ASSUME TypeOK, SnapshotsFit, NEW v \in Workers, v \in Busy,
           worker'[v].pod = worker[v].pod, worker'[v].mergeType = worker[v].mergeType,
           worker'[v].node = worker[v].node,
           \A m \in Metrics : Counted[m] \subseteq Counted'[m] /\ Counted'[m] \subseteq Pods
    PROVE  Fits(worker'[v].node, Before(v)')
<1>1. worker[v].node \in NodeAnnotations /\ Fits(worker[v].node, Before(v))
  BY JobTypes DEF Busy, SnapshotsFit
<1>2. \A m \in Metrics : Added(m) \subseteq Added(m)' /\ Added(m)' \subseteq Pods
  BY DEF Counted
<1>3. \A m \in Metrics : Before(v)[m] \subseteq Before(v)'[m] /\ Before(v)'[m] \subseteq Pods
  BY <1>2 DEF Before, Counted
<1> QED
  BY <1>1, <1>3, FitsMore

(* Appending to the watch keeps what is in it.                             *)
LEMMA WatchFits ==
    ASSUME TypeOK, NEW a, watch' = Append(watch, a), NEW A, Fits(a, A),
           \A k \in DOMAIN watch : Fits(watch[k], A)
    PROVE  \A k \in DOMAIN watch' : Fits(watch'[k], A)
<1>1. watch \in Seq(NodeAnnotations)
  BY DEF TypeOK
<1>2. /\ DOMAIN watch' = DOMAIN watch \cup {Len(watch) + 1}
      /\ watch'[Len(watch) + 1] = a /\ \A k \in DOMAIN watch : watch'[k] = watch[k]
  BY <1>1
<1> QED
  BY <1>2

(* Every step keeps the copies within what the counted pods can use.       *)
LEMMA FitStep ==
    ASSUME TypeOK, TypeOK', OneTrigger, SnapshotsFit, [Next]_vars
    PROVE  SnapshotsFit'
<1> USE DEF podVars, nodeVars, resetVars, counts
<1>1. UNCHANGED adds => \A m \in Metrics : Counted[m] \subseteq Counted'[m] /\ Counted'[m] \subseteq Pods
  BY DEF Counted, Added
<1>2. ASSUME NEW w \in Workers, Reconcile(w) PROVE SnapshotsFit'
  <2>1. UNCHANGED <<anno, seen, watch, adds>>
    BY <1>2, ReconcileJob
  <2>2. /\ Fits(anno', Counted') /\ Fits(seen', Counted')
        /\ \A k \in DOMAIN watch' : Fits(watch'[k], Counted')
    BY <1>1, <2>1, CopiesFit
  <2>3. ASSUME NEW v \in Busy' PROVE Fits(worker'[v].node, Before(v)')
    <3>1. v \in Workers /\ worker'[v] # Idle
      BY <2>3 DEF Busy
    <3>2. CASE v = w
      <4>1. /\ worker'[w].pod \in Pods /\ worker'[w].node = seen
            /\ worker'[w].mergeType = "add" => \A m \in Metrics : adds[m][worker'[w].pod] = 0
        BY <1>2, <3>1, <3>2, ReconcileJob
      <4>2. worker'[w].mergeType = "add" => \A m \in Metrics : worker'[w].pod \notin Added(m)'
        BY <2>1, <4>1 DEF Added
      <4>3. \A m \in Metrics : Counted[m] \subseteq Before(w)'[m] /\ Before(w)'[m] \subseteq Pods
        BY <1>1, <2>1, <4>2 DEF Before, Counted
      <4>4. seen \in NodeAnnotations /\ Fits(seen, Counted)
        BY DEF TypeOK, SnapshotsFit
      <4> QED
        BY <3>2, <4>1, <4>3, <4>4, FitsMore
    <3>3. CASE v # w
      <4>1. worker'[v] = worker[v]
        BY <1>2, <3>1, <3>3, ReconcileJob
      <4>2. v \in Busy
        BY <3>1, <4>1 DEF Busy
      <4> QED
        BY <1>1, <2>1, <3>1, <4>1, <4>2, JobFits
    <3> QED
      BY <3>2, <3>3
  <2> QED
    BY <2>2, <2>3 DEF SnapshotsFit
<1>3. ASSUME NEW w \in Workers, SkipPolicy(w) PROVE SnapshotsFit'
  <2>1. worker[w] # Idle /\ Advance(w) /\ UNCHANGED <<anno, seen, watch, adds>>
    BY <1>3 DEF SkipPolicy
  <2>2. /\ Fits(anno', Counted') /\ Fits(seen', Counted')
        /\ \A k \in DOMAIN watch' : Fits(watch'[k], Counted')
    BY <1>1, <2>1, CopiesFit
  <2>3. ASSUME NEW v \in Busy' PROVE Fits(worker'[v].node, Before(v)')
    BY <1>1, <2>1, AdvanceBusy, JobFits
  <2> QED
    BY <2>2, <2>3 DEF SnapshotsFit
<1>4. ASSUME NEW w \in Workers, PatchNodeAnnotation(w) PROVE SnapshotsFit'
  <2>1. worker[w] # Idle /\ Advance(w) /\ UNCHANGED seen /\ watch' = Append(watch, anno')
    BY <1>4 DEF PatchNodeAnnotation, Patching, WriteNode
  <2>2. \A m \in Metrics, q \in Pods : adds[m][q] <= adds'[m][q]
    <3> SUFFICES ASSUME NEW m \in Metrics, NEW q \in Pods
                 PROVE  adds[m][q] <= adds'[m][q]
      OBVIOUS
    <3>1. adds[m][q] \in Nat
      BY DEF TypeOK
    <3>2. adds'[m][q] = adds[m][q] \/ adds'[m][q] = adds[m][q] + 1
      BY <1>4, PatchCounts
    <3> QED
      BY <3>1, <3>2
  <2>3. \A m \in Metrics : Counted[m] \subseteq Counted'[m] /\ Counted'[m] \subseteq Pods
    BY <2>2, CountedGrows
  <2>4. Fits(anno', Counted')
    BY <1>4, <2>3, PatchFits
  <2>5. Fits(seen', Counted') /\ \A k \in DOMAIN watch' : Fits(watch'[k], Counted')
    BY <2>1, <2>3, <2>4, CopiesFit, WatchFits
  <2>6. ASSUME NEW v \in Busy' PROVE Fits(worker'[v].node, Before(v)')
    BY <2>1, <2>3, AdvanceBusy, JobFits
  <2> QED
    BY <2>4, <2>5, <2>6 DEF SnapshotsFit
<1>5. CASE \A w \in Workers : ~ Reconcile(w) /\ ~ SkipPolicy(w) /\ ~ PatchNodeAnnotation(w)
  <2>1. UNCHANGED adds /\ \A v \in Workers : worker'[v] = Idle \/ worker'[v] = worker[v]
    BY <1>5, OtherSteps
  <2>2. ASSUME NEW v \in Busy' PROVE Fits(worker'[v].node, Before(v)')
    <3>1. v \in Workers /\ v \in Busy /\ worker'[v] = worker[v]
      BY <2>1 DEF Busy
    <3> QED
      BY <1>1, <2>1, <3>1, JobFits
  <2>3. /\ Fits(anno, Counted') /\ Fits(seen, Counted')
        /\ \A k \in DOMAIN watch : Fits(watch[k], Counted')
    BY <1>1, <2>1, CopiesFit
  <2>4. CASE ObserveNode
    <3>1. watch # <<>> /\ watch \in Seq(NodeAnnotations) /\ UNCHANGED anno
      BY <2>4 DEF ObserveNode, TypeOK
    <3>2. seen' = watch[1] /\ 1 \in DOMAIN watch
      BY <2>4, <3>1 DEF ObserveNode
    <3>3. \A k \in DOMAIN watch' : k + 1 \in DOMAIN watch /\ watch'[k] = watch[k + 1]
      BY <2>4, <3>1 DEF ObserveNode
    <3> QED
      BY <2>2, <2>3, <3>1, <3>2, <3>3 DEF SnapshotsFit
  <2>5. ASSUME NEW m \in Metrics, DeleteNodeAnnotation(m) PROVE SnapshotsFit'
    <3>1. anno' = [anno EXCEPT ![m] = Absent] /\ watch' = Append(watch, anno') /\ UNCHANGED seen
      BY <2>5 DEF DeleteNodeAnnotation, WriteNode
    <3>2. Fits(anno', Counted')
      BY <2>3, <3>1 DEF Fits, TypeOK, NodeAnnotations
    <3>3. \A k \in DOMAIN watch' : Fits(watch'[k], Counted')
      BY <2>3, <3>1, <3>2, WatchFits
    <3> QED
      BY <2>2, <2>3, <3>1, <3>2, <3>3 DEF SnapshotsFit
  <2>6. CASE Restart
    <3>1. UNCHANGED anno /\ seen' = anno /\ watch' = <<>>
      BY <2>6 DEF Restart
    <3> QED
      BY <2>2, <2>3, <3>1 DEF SnapshotsFit
  <2>7. CASE ~ ObserveNode /\ ~ Restart /\ \A m \in Metrics : ~ DeleteNodeAnnotation(m)
    <3>1. UNCHANGED <<anno, seen, watch>>
      BY <1>5, <2>7 DEF Next, vars, PodChanges, ObservePod, DeployChanges, handleUpdateEvent, PatchFails,
                        CreateMetricResetTicker, SyncNode, DeleteFails
    <3> QED
      BY <2>2, <2>3, <3>1 DEF SnapshotsFit
  <2> QED
    BY <2>4, <2>5, <2>6, <2>7
<1> QED
  BY <1>2, <1>3, <1>4, <1>5

(* No delta claims more than all the pods that were ever added can use:    *)
(* reconcile adds to a node that may be out of date, but never to one that *)
(* has the pod in it already, and a shorter history counts as zeros.       *)
THEOREM DeltaStaysBounded == Spec => []DeltaBounded
<1>1. Init => SnapshotsFit
  <2> SUFFICES ASSUME Init
               PROVE  SnapshotsFit
    OBVIOUS
  <2>1. Busy = {} /\ watch = <<>> /\ anno = NoAnnotations /\ seen = NoAnnotations
    BY DEF Init, Busy
  <2> QED
    BY <2>1 DEF SnapshotsFit, Fits, NoAnnotations
<1>2. TypeOK /\ TypeOK' /\ OneTrigger /\ SnapshotsFit /\ [Next]_vars => SnapshotsFit'
  BY FitStep
<1>3. TypeOK /\ TypeOK' /\ OneTrigger /\ [Next]_vars => OneTrigger'
  BY TriggerStep
<1>4. SnapshotsFit => DeltaBounded
  BY DEF SnapshotsFit, Fits, Counted, DeltaBounded
<1> QED
  BY <1>1, <1>2, <1>3, <1>4, TriggerInit, TypeInit, TypeStep, PTL DEF Spec

(* A worker that found no delta writes the usage of its pod, or subtracts  *)
(* it from nothing.                                                        *)
LEMMA FirstMerge ==
    ASSUME TypeOK, NEW w \in Workers, Patching(w), worker[w].node[Metric(w)] = Absent
    PROVE  MergeUsageRange(Delta(w), Usage(w), worker[w].mergeType) \in OneUsage
<1>1. worker[w].usages \in DeployAnnotations /\ Metric(w) \in Metrics
      /\ worker[w].mergeType \in {"add", "sub"}
  BY JobTypes DEF Patching
<1>2. worker[w].usages[Metric(w)] \in Ranges \cup {Absent}
  BY <1>1 DEF Patching, Merges, DeployAnnotations
<1>3. Usage(w) \in Ranges \cup {<<>>}
  BY <1>2 DEF Usage, UsageRange
<1>4. Delta(w) = <<>>
  BY DEF Delta, UsageRange
<1>5. CASE worker[w].mergeType = "add"
  BY <1>3, <1>4, <1>5 DEF MergeUsageRange, OneUsage
<1>6. CASE worker[w].mergeType = "sub"
  <2>1. Usage(w) # <<>>
    BY <1>6 DEF Patching, Merges, Mergeable
  <2>2. Usage(w) \in Ranges /\ Usage(w) \in Seq(Nat)
    BY <1>3, <2>1, PolicyTypes
  <2>3. MergeUsageRange(Delta(w), Usage(w), "sub") = [j \in DOMAIN Usage(w) |-> 0 - Usage(w)[j]]
    <3>1. ASSUME NEW u \in Seq(Nat), u # <<>>
          PROVE  MergeUsageRange(<<>>, u, "sub") = [j \in DOMAIN u |-> 0 - u[j]]
      BY <3>1 DEF MergeUsageRange
    <3> QED
      BY <1>4, <2>1, <2>2, <3>1
  <2> QED
    BY <1>6, <2>2, <2>3 DEF OneUsage
<1> QED
  BY <1>1, <1>5, <1>6

(* A delta appears on a node without one only by a patch of a worker that  *)
(* found none.                                                             *)
LEMMA AppearsByPatch ==
    ASSUME TypeOK, [Next]_vars, NEW m \in Metrics, anno[m] = Absent, anno'[m] # Absent
    PROVE  anno'[m] \in OneUsage
<1>1. anno \in NodeAnnotations
  BY DEF TypeOK
<1>2. ASSUME NEW w \in Workers, PatchNodeAnnotation(w)
      PROVE  anno'[m] \in OneUsage
  <2>1. anno' = [anno EXCEPT ![Metric(w)] = MergeUsageRange(Delta(w), Usage(w), worker[w].mergeType)]
    BY <1>2 DEF PatchNodeAnnotation, WriteNode
  <2>2. m = Metric(w)
    BY <1>1, <2>1 DEF NodeAnnotations
  <2>3. Patching(w) /\ worker[w].node[Metric(w)] = Absent
    BY <1>2, <2>2 DEF PatchNodeAnnotation
  <2>4. anno'[m] = MergeUsageRange(Delta(w), Usage(w), worker[w].mergeType)
    BY <1>1, <2>1, <2>2 DEF NodeAnnotations
  <2> QED
    BY <2>3, <2>4, FirstMerge
<1>3. ASSUME NEW k \in Metrics, DeleteNodeAnnotation(k)
      PROVE  FALSE
  <2>1. anno' = [anno EXCEPT ![k] = Absent]
    BY <1>3 DEF DeleteNodeAnnotation, WriteNode
  <2> QED
    BY <1>1, <2>1 DEF NodeAnnotations
<1>4. CASE UNCHANGED anno
  BY <1>4
<1>5. \/ \E w \in Workers : PatchNodeAnnotation(w)
      \/ \E k \in Metrics : DeleteNodeAnnotation(k)
      \/ UNCHANGED anno
  BY DEF Next, vars, nodeVars, PodChanges, ObservePod, ObserveNode, DeployChanges, handleUpdateEvent,
         Reconcile, SkipPolicy, PatchFails, CreateMetricResetTicker, SyncNode, DeleteFails, Restart
<1> QED
  BY <1>2, <1>3, <1>4, <1>5

(* A reset is not undone: whatever workers and resets read and write in    *)
(* between, a delta that was removed begins anew with one pod's usage.     *)
THEOREM ResetForgetsYesterday == Spec => ResetStartsAnew
<1>1. TypeOK /\ [Next]_vars
        => [\A m \in Metrics : anno[m] = Absent /\ anno'[m] # Absent => anno'[m] \in OneUsage]_vars
  BY AppearsByPatch
<1> QED
  BY <1>1, TypeCorrect, PTL DEF Spec, ResetStartsAnew

-----------------------------------------------------------------------------
(***************************************************************************)
(* The cluster that the plugin schedules.                                  *)
(***************************************************************************)

(* A step of the plugin's cluster is a step of the controller's model.     *)
LEMMA AraStep == [AraNext]_araVars => [Next]_vars
<1> SUFFICES ASSUME [AraNext]_araVars
             PROVE  [Next]_vars
  OBVIOUS
<1>1. ASSUME NEW p \in Pods, Schedule(p) \/ DeletePod(p) \/ RemovePod(p) PROVE Next
  <2>1. \E s \in PodState : PodChanges(p, s)
    BY <1>1 DEF Schedule, DeletePod, RemovePod, PodState
  <2> QED
    BY <2>1 DEF Next
<1>2. CASE ObserveView
  BY <1>2 DEF ObserveView
<1>3. CASE Controller
  BY <1>3 DEF Controller, Next
<1>4. ASSUME NEW w \in Workers, ControllerFails(w) PROVE Next
  BY <1>4 DEF ControllerFails, Next
<1>5. CASE UNCHANGED araVars
  BY <1>5 DEF araVars
<1> QED
  BY <1>1, <1>2, <1>3, <1>4, <1>5 DEF AraNext

(* The cluster that the plugin schedules, with pods that come and go by    *)
(* Filter, implements the controller's specification: what is proved of    *)
(* that holds here.                                                        *)
THEOREM ClusterImplementsController == AraSpec => Spec
<1>1. AraInit => Init
  BY DEF AraInit
<1> QED
  BY <1>1, AraStep, PTL DEF AraSpec, Spec

-----------------------------------------------------------------------------
(* How often a pod can be hasty or lose its delta.                         *)

Started   == {p \in Pods : pod[p] # "pending"}
Ended     == {p \in Pods : pod[p] \in {"terminating", "gone"}}
StartSeen == {p \in Pods : podSeen[p] # "pending"}
EndSeen   == {p \in Pods : podSeen[p] \notin {"pending", "scheduled"}}

(* The pod lister does not run ahead.                                      *)
ListerBehind == \A p \in EndSeen : pod[p] \notin {"pending", "scheduled"}

(* Changes the lister has announced, and those still on their way.         *)
Announced == Cardinality(StartSeen) + Cardinality(EndSeen)
InFlight  == Len(notes) + Cardinality(queue) + Cardinality(Processing)

HurryCounted == hasty \in Nat /\ hasty <= Cardinality(Started) + Cardinality(Ended)
LossCounted == failed \in Nat /\ failed + InFlight <= Announced

(* Sets of pods are finite, and a larger one counts more.                  *)
LEMMA PodSets ==
    ASSUME NEW S \in SUBSET Pods, NEW T \in SUBSET Pods, S \subseteq T
    PROVE  /\ IsFiniteSet(S) /\ IsFiniteSet(T) /\ Cardinality(S) \in Nat /\ Cardinality(T) \in Nat
           /\ Cardinality(S) <= Cardinality(T)
           /\ \A x \in T \ S : Cardinality(S) + 1 <= Cardinality(T)
<1>1. IsFiniteSet(S) /\ IsFiniteSet(T) /\ Cardinality(S) \in Nat /\ Cardinality(T) \in Nat
  BY PodsAssumption, FS_Subset, FS_CardinalityType
<1>2. Cardinality(S) <= Cardinality(T)
  BY <1>1, FS_Subset
<1>3. ASSUME NEW x \in T \ S PROVE Cardinality(S) + 1 <= Cardinality(T)
  <2>1. Cardinality(S \cup {x}) = Cardinality(S) + 1
    BY <1>1, <1>3, FS_AddElement
  <2>2. S \cup {x} \subseteq T
    BY <1>3
  <2> QED
    BY <1>1, <2>1, <2>2, FS_Subset
<1> QED
  BY <1>1, <1>2, <1>3

(* What is on its way is counted with natural numbers.                     *)
LEMMA FlightTypes ==
    ASSUME TypeOK
    PROVE  /\ Len(notes) \in Nat /\ Cardinality(queue) \in Nat /\ Cardinality(Processing) \in Nat
           /\ Processing \subseteq Pods /\ IsFiniteSet(queue) /\ IsFiniteSet(Processing)
           /\ Cardinality(StartSeen) \in Nat /\ Cardinality(EndSeen) \in Nat
           /\ InFlight \in Nat /\ Announced \in Nat
<1>1. Processing \subseteq Pods
  BY JobTypes DEF Processing, Busy
<1>2. queue \subseteq Pods /\ StartSeen \subseteq Pods /\ EndSeen \subseteq Pods
  BY DEF TypeOK, StartSeen, EndSeen
<1>3. /\ Cardinality(queue) \in Nat /\ IsFiniteSet(queue)
      /\ Cardinality(Processing) \in Nat /\ IsFiniteSet(Processing)
      /\ Cardinality(StartSeen) \in Nat /\ Cardinality(EndSeen) \in Nat
  BY <1>1, <1>2, PodSets
<1>4. Len(notes) \in Nat
  BY DEF TypeOK
<1> QED
  BY <1>1, <1>3, <1>4 DEF InFlight, Announced

(* Steps that leave the pod lister, the notifications and the queue alone  *)
(* and begin no job put nothing on its way.                                *)
LEMMA FlightKept ==
    ASSUME TypeOK, UNCHANGED <<podSeen, notes, queue>>,
           \A v \in Workers : worker'[v] = Idle \/ (worker[v] # Idle /\ worker'[v].pod = worker[v].pod)
    PROVE  InFlight' <= InFlight /\ Announced' = Announced /\ InFlight' \in Nat
<1>1. Announced' = Announced
  BY DEF Announced, StartSeen, EndSeen
<1>2. Processing' \subseteq Processing
  BY DEF Processing, Busy
<1>3. Cardinality(Processing') <= Cardinality(Processing) /\ Cardinality(Processing') \in Nat
  BY <1>2, FlightTypes, FS_Subset, FS_CardinalityType
<1> QED
  BY <1>1, <1>3, FlightTypes DEF InFlight

(* What a step puts on its way the lister has announced, and what a failed *)
(* patch drops is on its way no longer.                                    *)
LEMMA FlightStep ==
    ASSUME TypeOK, OneTrigger, ListerBehind, [Next]_vars
    PROVE  /\ ListerBehind'
           /\ InFlight' \in Nat /\ Announced' \in Nat
           /\ InFlight' + Announced <= InFlight + Announced'
           /\ (\E w \in Workers : PatchFails(w)) => InFlight' + 1 + Announced <= InFlight + Announced'
<1> USE DEF podVars, nodeVars, resetVars, counts
<1> DEFINE Goal == /\ ListerBehind' /\ InFlight' \in Nat /\ Announced' \in Nat
                   /\ InFlight' + Announced <= InFlight + Announced'
<1>0. InFlight \in Nat /\ Announced \in Nat
  BY FlightTypes
<1>sums. \A i, j, a, b \in Nat :
             /\ j <= i /\ a <= b => j + a <= i + b
             /\ j = i + 1 /\ a + 1 <= b => j + a <= i + b
             /\ j + 1 <= i /\ a <= b => j + 1 + a <= i + b
  OBVIOUS
<1>1. ASSUME UNCHANGED <<podSeen, notes, queue>>,
             \A v \in Workers : worker'[v] = Idle \/ (worker[v] # Idle /\ worker'[v].pod = worker[v].pod),
             \A q \in Pods : pod'[q] \in {"pending", "scheduled"} => pod[q] \in {"pending", "scheduled"}
      PROVE  Goal
  <2>1. ListerBehind'
    BY <1>1 DEF ListerBehind, EndSeen
  <2> QED
    BY <1>0, <1>1, <2>1, FlightKept
<1>2. ASSUME NEW p \in Pods, NEW s \in PodState, PodChanges(p, s) PROVE Goal
  <2>1. UNCHANGED <<podSeen, notes, queue, worker>>
    BY <1>2 DEF PodChanges
  <2>2. \A q \in Pods : pod'[q] \in {"pending", "scheduled"} => pod[q] \in {"pending", "scheduled"}
    BY <1>2 DEF PodChanges, PodStep, TypeOK
  <2> QED
    BY <1>1, <2>1, <2>2
<1>3. ASSUME NEW p \in Pods, NEW s \in PodState, ObservePod(p, s) PROVE Goal
  <2>1. /\ UNCHANGED <<pod, queue, worker>> /\ podSeen' = [podSeen EXCEPT ![p] = s]
        /\ s \in Versions[pod[p]] /\ Stage[podSeen[p]] < Stage[s]
        /\ notes' = IF s \in Removed THEN notes
                    ELSE Append(notes, [pod |-> p, old |-> podSeen[p], new |-> s])
    BY <1>3 DEF ObservePod
  <2>2. pod[p] \in PodState /\ podSeen[p] \in PodState
    BY DEF TypeOK
  <2>3. /\ s = "scheduled" => podSeen[p] = "pending"
        /\ s # "pending"
        /\ s = "terminating" => podSeen[p] \in {"pending", "scheduled"}
        /\ s # "scheduled" => pod[p] \notin {"pending", "scheduled"}
        /\ podSeen[p] \notin {"pending", "scheduled"} => s # "scheduled"
    BY <2>1, <2>2 DEF Versions, Stage, PodState
  <2>4. podSeen'[p] = s /\ \A q \in Pods \ {p} : podSeen'[q] = podSeen[q]
    BY <2>1 DEF TypeOK
  <2>5. ListerBehind'
    BY <2>1, <2>3, <2>4 DEF ListerBehind, EndSeen
  <2>6. /\ StartSeen \subseteq StartSeen' /\ StartSeen' \subseteq Pods
        /\ EndSeen \subseteq EndSeen' /\ EndSeen' \subseteq Pods
    BY <2>3, <2>4 DEF StartSeen, EndSeen
  <2>7. s \notin Removed => p \in StartSeen' \ StartSeen \/ p \in EndSeen' \ EndSeen
    BY <2>3, <2>4 DEF StartSeen, EndSeen, Removed, PodState
  <2>8. /\ Cardinality(StartSeen) <= Cardinality(StartSeen')
        /\ Cardinality(EndSeen) <= Cardinality(EndSeen')
        /\ Cardinality(StartSeen') \in Nat /\ Cardinality(EndSeen') \in Nat
        /\ p \in StartSeen' \ StartSeen => Cardinality(StartSeen) + 1 <= Cardinality(StartSeen')
        /\ p \in EndSeen' \ EndSeen => Cardinality(EndSeen) + 1 <= Cardinality(EndSeen')
    <3>1. StartSeen \in SUBSET Pods /\ EndSeen \in SUBSET Pods
      BY DEF StartSeen, EndSeen
    <3> QED
      BY <2>6, <3>1, PodSets
  <2>9. Processing' = Processing
    BY <2>1 DEF Processing, Busy
  <2>10. /\ Len(notes) \in Nat /\ Cardinality(queue) \in Nat /\ Cardinality(Processing) \in Nat
         /\ Cardinality(StartSeen) \in Nat /\ Cardinality(EndSeen) \in Nat
    BY FlightTypes
  <2>11. CASE s \in Removed
    <3>1. notes' = notes
      BY <2>1, <2>11
    <3>2. InFlight' \in Nat /\ InFlight' <= InFlight
      BY <1>0, <2>1, <2>9, <3>1 DEF InFlight
    <3>3. Announced' \in Nat /\ Announced <= Announced'
      BY <2>8, <2>10 DEF Announced
    <3> QED
      BY <1>0, <1>sums, <2>5, <3>2, <3>3, Zenon
  <2>12. CASE s \notin Removed
    <3>1. Len(notes') = Len(notes) + 1
      <4>1. notes \in Seq(Note)
        BY DEF TypeOK
      <4> QED
        BY <2>1, <2>12, <4>1
    <3>2. InFlight' \in Nat /\ InFlight' = InFlight + 1
      <4>1. InFlight' = (Len(notes) + 1) + Cardinality(queue) + Cardinality(Processing)
        BY <2>1, <2>9, <3>1 DEF InFlight
      <4>2. InFlight = Len(notes) + Cardinality(queue) + Cardinality(Processing)
        BY DEF InFlight
      <4> QED
        BY <2>10, <4>1, <4>2
    <3>3. Announced' \in Nat /\ Announced + 1 <= Announced'
      <4>1. CASE p \in StartSeen' \ StartSeen
        BY <2>8, <2>10, <4>1 DEF Announced
      <4>2. CASE p \in EndSeen' \ EndSeen
        BY <2>8, <2>10, <4>2 DEF Announced
      <4> QED
        BY <2>7, <2>12, <4>1, <4>2
    <3> QED
      BY <1>0, <1>sums, <2>5, <3>2, <3>3, Zenon
  <2> QED
    BY <2>11, <2>12
<1>4. ASSUME handleUpdateEvent PROVE Goal
  <2>1. /\ notes # <<>> /\ notes' = Tail(notes) /\ UNCHANGED <<pod, podSeen, worker>>
        /\ queue' = queue \/ queue' = queue \cup {Head(notes).pod}
    BY <1>4 DEF handleUpdateEvent
  <2>2. Len(notes) \in Nat \ {0} /\ Len(notes') = Len(notes) - 1
    BY <2>1 DEF TypeOK
  <2>3. Cardinality(queue') \in Nat /\ Cardinality(queue') <= Cardinality(queue) + 1
    <3>1. Cardinality(queue) \in Nat /\ IsFiniteSet(queue)
      BY FlightTypes
    <3>2. CASE queue' = queue
      BY <3>1, <3>2
    <3>3. CASE queue' = queue \cup {Head(notes).pod}
      BY <3>1, <3>3, FS_AddElement
    <3> QED
      BY <2>1, <3>2, <3>3
  <2>4. /\ Processing' = Processing /\ StartSeen' = StartSeen /\ EndSeen' = EndSeen /\ ListerBehind'
    BY <2>1 DEF Processing, Busy, StartSeen, EndSeen, ListerBehind
  <2>5. InFlight' \in Nat /\ InFlight' <= InFlight /\ Announced' \in Nat /\ Announced <= Announced'
    BY <2>2, <2>3, <2>4, FlightTypes, SMTT(30) DEF InFlight, Announced
  <2> QED
    BY <1>0, <1>sums, <2>4, <2>5, Zenon
<1>5. ASSUME NEW w \in Workers, Reconcile(w) PROVE Goal
  <2>1. PICK p \in queue \ Processing :
          /\ queue' = queue \ {p}
          /\ \/ UNCHANGED worker
             \/ \E job : job.pod = p /\ worker' = [worker EXCEPT ![w] = job]
    BY <1>5 DEF Reconcile
  <2>2. UNCHANGED <<pod, podSeen, notes>>
    BY <1>5 DEF Reconcile
  <2>3. \A v \in Workers : worker'[v] = worker[v] \/ worker'[v].pod = p
    BY <2>1 DEF TypeOK
  <2>4. Processing' \subseteq Processing \cup {p}
    BY <2>3 DEF Processing, Busy
  <2>5. IsFiniteSet(Processing \cup {p}) /\ Cardinality(Processing \cup {p}) = Cardinality(Processing) + 1
    BY <2>1, FlightTypes, FS_AddElement
  <2>6. Cardinality(Processing') \in Nat /\ Cardinality(Processing') <= Cardinality(Processing) + 1
    BY <2>4, <2>5, FS_Subset, FS_CardinalityType
  <2>7. Cardinality(queue') = Cardinality(queue) - 1 /\ Cardinality(queue') \in Nat
    BY <2>1, FlightTypes, FS_RemoveElement, FS_CardinalityType
  <2>8. StartSeen' = StartSeen /\ EndSeen' = EndSeen /\ ListerBehind'
    BY <2>2 DEF StartSeen, EndSeen, ListerBehind
  <2>9. Announced' \in Nat /\ Announced <= Announced'
    BY <2>8, FlightTypes DEF Announced
  <2>10. InFlight' \in Nat /\ InFlight' <= InFlight
    <3>1. PICK r \in Nat : r = Cardinality(Processing')
      BY <2>6
    <3>2. InFlight' = Len(notes) + (Cardinality(queue) - 1) + r
      BY <2>2, <2>7, <3>1 DEF InFlight
    <3>3. r <= Cardinality(Processing) + 1 /\ Cardinality(queue) - 1 \in Nat
      BY <2>6, <2>7, <3>1
    <3>4. InFlight = Len(notes) + Cardinality(queue) + Cardinality(Processing)
      BY DEF InFlight
    <3> QED
      BY <3>2, <3>3, <3>4, FlightTypes, SMTT(30)
  <2> QED
    BY <1>0, <1>sums, <2>8, <2>9, <2>10, Zenon
<1>6. ASSUME NEW w \in Workers, SkipPolicy(w) \/ PatchNodeAnnotation(w) PROVE Goal
  <2>1. worker[w] # Idle /\ Advance(w) /\ UNCHANGED <<pod, podSeen, notes, queue>>
    BY <1>6 DEF SkipPolicy, PatchNodeAnnotation, Patching
  <2>2. \A v \in Workers : worker'[v] = Idle \/ (worker[v] # Idle /\ worker'[v].pod = worker[v].pod)
    BY <2>1, AdvanceJob
  <2> QED
    BY <1>1, <2>1, <2>2
<1>7. ASSUME NEW w \in Workers, PatchFails(w)
      PROVE  Goal /\ InFlight' + 1 + Announced <= InFlight + Announced'
  <2>1. /\ worker[w] # Idle /\ worker' = [worker EXCEPT ![w] = Idle]
        /\ UNCHANGED <<pod, podSeen, notes, queue>>
    BY <1>7 DEF PatchFails, Patching
  <2>2. worker'[w] = Idle /\ \A v \in Workers \ {w} : worker'[v] = worker[v]
    BY <2>1 DEF TypeOK
  <2>3. \A v \in Workers : worker'[v] = Idle \/ (worker[v] # Idle /\ worker'[v].pod = worker[v].pod)
    BY <2>2
  <2>4. Goal
    BY <1>1, <2>1, <2>3
  <2>5. Processing' \subseteq Processing \ {worker[w].pod} /\ worker[w].pod \in Processing
    BY <2>1, <2>2 DEF Processing, Busy, OneTrigger
  <2>6. Cardinality(Processing \ {worker[w].pod}) = Cardinality(Processing) - 1
        /\ IsFiniteSet(Processing \ {worker[w].pod})
    BY <2>5, FlightTypes, FS_RemoveElement
  <2>7. Cardinality(Processing') <= Cardinality(Processing) - 1 /\ Cardinality(Processing') \in Nat
    BY <2>5, <2>6, FS_Subset, FS_CardinalityType
  <2>8. Announced' \in Nat /\ Announced <= Announced'
    BY <1>0, <2>1 DEF Announced, StartSeen, EndSeen
  <2>9. InFlight' + 1 <= InFlight
    BY <2>1, <2>7, FlightTypes DEF InFlight
  <2>10. InFlight' \in Nat
    BY <2>4
  <2>11. InFlight' + 1 + Announced <= InFlight + Announced'
    BY <1>0, <1>sums, <2>8, <2>9, <2>10, Zenon
  <2> QED
    BY <2>4, <2>11
<1>8. ASSUME Restart PROVE Goal
  <2>1. podSeen' = pod /\ notes' = <<>> /\ queue' = {} /\ Busy' = {} /\ UNCHANGED pod
    BY <1>8 DEF Restart, Busy
  <2>2. InFlight' = 0
    <3>1. Processing' = {}
      BY <2>1 DEF Processing
    <3>2. Cardinality(queue') = 0 /\ Cardinality(Processing') = 0 /\ Len(notes') = 0
      BY <2>1, <3>1, FS_EmptySet
    <3> QED
      BY <3>2 DEF InFlight
  <2>3. /\ StartSeen \subseteq StartSeen' /\ StartSeen' \subseteq Pods
        /\ EndSeen \subseteq EndSeen' /\ EndSeen' \subseteq Pods
    BY <2>1 DEF StartSeen, EndSeen, ListerBehind, OneTrigger
  <2>4. /\ Cardinality(StartSeen) <= Cardinality(StartSeen') /\ Cardinality(StartSeen') \in Nat
        /\ Cardinality(EndSeen) <= Cardinality(EndSeen') /\ Cardinality(EndSeen') \in Nat
    BY <2>3, PodSets
  <2>5. ListerBehind'
    BY <2>1 DEF ListerBehind, EndSeen
  <2>6. Announced' \in Nat /\ Announced <= Announced'
    BY <2>4, FlightTypes DEF Announced
  <2>7. InFlight' \in Nat /\ InFlight' <= InFlight
    BY <1>0, <2>2
  <2> QED
    BY <1>0, <1>sums, <2>5, <2>6, <2>7, Zenon
<1>9. ASSUME \/ ObserveNode \/ CreateMetricResetTicker \/ SyncNode \/ DeleteFails \/ UNCHANGED vars
             \/ \E m \in Metrics : DeleteNodeAnnotation(m)
             \/ \E d \in Deploys, m \in Metrics, r \in Ranges \cup {Expired} : DeployChanges(d, m, r)
      PROVE  Goal
  <2>1. UNCHANGED <<pod, podSeen, notes, queue, worker>>
    BY <1>9 DEF ObserveNode, CreateMetricResetTicker, SyncNode, DeleteFails, vars, DeleteNodeAnnotation,
                DeployChanges
  <2> QED
    BY <1>1, <2>1
<1>10. Goal
  <2> HIDE DEF Goal
  <2> QED
    BY <1>2, <1>3, <1>4, <1>5, <1>6, <1>7, <1>8, <1>9 DEF Next
<1> QED
  BY <1>7, <1>10

(* Only a pod that gets its node or is deleted can be hasty.               *)
LEMMA HurryStep ==
    ASSUME TypeOK, HurryCounted, [AraNext]_araVars
    PROVE  HurryCounted'
<1> USE DEF podVars, nodeVars, resetVars, counts
<1>1. /\ Started \in SUBSET Pods /\ Ended \in SUBSET Pods
      /\ Started' \in SUBSET Pods /\ Ended' \in SUBSET Pods
  BY DEF Started, Ended
<1>2. Cardinality(Started) \in Nat /\ Cardinality(Ended) \in Nat /\ hasty \in Nat
  BY <1>1, PodSets DEF HurryCounted
<1>sums. \A h, a, b, c, d \in Nat :
             /\ h <= a + b /\ a <= c /\ b <= d => h <= c + d
             /\ h <= a + b /\ a + 1 <= c /\ b <= d => h + 1 <= c + d
             /\ h <= a + b /\ a <= c /\ b + 1 <= d => h + 1 <= c + d
  OBVIOUS
<1>3. ASSUME NEW p \in Pods, Schedule(p) PROVE HurryCounted'
  <2>1. pod[p] = "pending" /\ pod' = [pod EXCEPT ![p] = "scheduled"] /\ Hurry
    BY <1>3 DEF Schedule, PodChanges, PodStep
  <2>2. Started \subseteq Started' /\ Ended \subseteq Ended' /\ p \in Started' \ Started
    BY <2>1 DEF Started, Ended, TypeOK
  <2>3. /\ Cardinality(Started) <= Cardinality(Started') /\ Cardinality(Ended) <= Cardinality(Ended')
        /\ Cardinality(Started) + 1 <= Cardinality(Started')
        /\ Cardinality(Started') \in Nat /\ Cardinality(Ended') \in Nat
    BY <1>1, <2>2, PodSets
  <2>4. hasty' = hasty \/ hasty' = hasty + 1
    BY <2>1 DEF Hurry
  <2>5. hasty' \in Nat
    BY <1>2, <2>4
  <2>6. hasty <= Cardinality(Started) + Cardinality(Ended)
    BY DEF HurryCounted
  <2>7. hasty <= Cardinality(Started') + Cardinality(Ended')
    BY <1>2, <1>sums, <2>3, <2>6, Zenon
  <2>8. hasty + 1 <= Cardinality(Started') + Cardinality(Ended')
    BY <1>2, <1>sums, <2>3, <2>6, Zenon
  <2> QED
    BY <2>4, <2>5, <2>7, <2>8, Zenon DEF HurryCounted
<1>4. ASSUME NEW p \in Pods, DeletePod(p) PROVE HurryCounted'
  <2>1. pod[p] = "scheduled" /\ pod' = [pod EXCEPT ![p] = "terminating"] /\ Hurry
    BY <1>4 DEF DeletePod, PodChanges, PodStep
  <2>2. Started \subseteq Started' /\ Ended \subseteq Ended' /\ p \in Ended' \ Ended
    BY <2>1 DEF Started, Ended, TypeOK
  <2>3. /\ Cardinality(Started) <= Cardinality(Started') /\ Cardinality(Ended) <= Cardinality(Ended')
        /\ Cardinality(Ended) + 1 <= Cardinality(Ended')
        /\ Cardinality(Started') \in Nat /\ Cardinality(Ended') \in Nat
    BY <1>1, <2>2, PodSets
  <2>4. hasty' = hasty \/ hasty' = hasty + 1
    BY <2>1 DEF Hurry
  <2>5. hasty' \in Nat
    BY <1>2, <2>4
  <2>6. hasty <= Cardinality(Started) + Cardinality(Ended)
    BY DEF HurryCounted
  <2>7. hasty <= Cardinality(Started') + Cardinality(Ended')
    BY <1>2, <1>sums, <2>3, <2>6, Zenon
  <2>8. hasty + 1 <= Cardinality(Started') + Cardinality(Ended')
    BY <1>2, <1>sums, <2>3, <2>6, Zenon
  <2> QED
    BY <2>4, <2>5, <2>7, <2>8, Zenon DEF HurryCounted
<1>5. CASE \A p \in Pods : ~ Schedule(p) /\ ~ DeletePod(p)
  <2>1. hasty' = hasty
    BY <1>5 DEF AraNext, araVars, RemovePod, ObserveView, Controller, ControllerFails
  <2>2. Started \subseteq Started' /\ Ended \subseteq Ended'
    <3>1. ASSUME NEW p \in Pods, RemovePod(p) PROVE Started \subseteq Started' /\ Ended \subseteq Ended'
      <4>1. PICK s \in {"gone", "killed"} : PodChanges(p, s)
        BY <3>1 DEF RemovePod
      <4>2. \/ pod[p] = "terminating" /\ s = "gone" 
            \/ pod[p] = "scheduled" /\ s = "killed"
        BY <4>1 DEF PodChanges, PodStep
      <4>3. pod' = [pod EXCEPT ![p] = s]
        BY <4>1 DEF PodChanges
      <4> QED
        BY <4>2, <4>3 DEF Started, Ended, TypeOK
    <3>2. CASE \A p \in Pods : ~ RemovePod(p)
      <4>1. pod' = pod
        BY <1>5, <3>2 DEF AraNext, araVars, vars, ObserveView, Controller, ControllerFails, ObservePod, ObserveNode,
                          handleUpdateEvent, Reconcile, SkipPolicy, PatchNodeAnnotation, PatchFails, Restart
      <4> QED
        BY <4>1 DEF Started, Ended
    <3> QED
      BY <3>1, <3>2
  <2>3. /\ Cardinality(Started) <= Cardinality(Started') /\ Cardinality(Ended) <= Cardinality(Ended')
        /\ Cardinality(Started') \in Nat /\ Cardinality(Ended') \in Nat
    BY <1>1, <2>2, PodSets
  <2> QED
    BY <1>2, <1>sums, <2>1, <2>3, Zenon DEF HurryCounted
<1> QED
  BY <1>3, <1>4, <1>5

(* A delta is lost only with a change that was on its way.                 *)
LEMMA LossStep ==
    ASSUME TypeOK, OneTrigger, ListerBehind, LossCounted, [AraNext]_araVars
    PROVE  LossCounted'
<1>1. /\ InFlight' \in Nat /\ Announced' \in Nat /\ InFlight \in Nat /\ Announced \in Nat
      /\ InFlight' + Announced <= InFlight + Announced'
      /\ (\E w \in Workers : PatchFails(w)) => InFlight' + 1 + Announced <= InFlight + Announced'
  BY AraStep, FlightStep, FlightTypes
<1>2. failed \in Nat /\ failed + InFlight <= Announced
  BY DEF LossCounted
<1>sums. \A f, i, j, a, b \in Nat :
             /\ f + i <= a /\ j + a <= i + b => f + j <= b
             /\ f + i <= a /\ j + 1 + a <= i + b => f + 1 + j <= b
  OBVIOUS
<1>3. ASSUME NEW w \in Workers, ControllerFails(w) PROVE LossCounted'
  <2>1. PatchFails(w) /\ failed' = failed + 1
    BY <1>3 DEF ControllerFails
  <2>2. failed' \in Nat
    BY <1>2, <2>1
  <2> QED
    BY <1>1, <1>2, <1>sums, <2>1, <2>2, Zenon DEF LossCounted
<1>4. CASE \A w \in Workers : ~ ControllerFails(w)
  <2>1. failed' = failed
    BY <1>4 DEF AraNext, araVars, Schedule, DeletePod, RemovePod, ObserveView, Controller
  <2> QED
    BY <1>1, <1>2, <1>sums, <2>1, Zenon DEF LossCounted
<1> QED
  BY <1>3, <1>4

(* The scheduler's copies of the node are copies of its annotations.       *)
ViewTypes == node \in NodeStates /\ view \in NodeAnnotations /\ pending \in Seq(NodeAnnotations)

LEMMA ViewStep ==
    ASSUME TypeOK, TypeOK', ViewTypes, [AraNext]_araVars
    PROVE  ViewTypes'
<1>1. CASE ObserveView
  BY <1>1 DEF ObserveView, ViewTypes
<1>2. CASE Controller
  <2>1. anno' \in NodeAnnotations /\ pending \in Seq(NodeAnnotations)
    BY DEF TypeOK, ViewTypes
  <2> QED
    BY <1>2, <2>1 DEF Controller, ViewTypes
<1>3. CASE ~ ObserveView /\ ~ Controller
  <2>1. UNCHANGED <<node, view, pending>>
    BY <1>3 DEF AraNext, araVars, viewVars, Schedule, DeletePod, RemovePod, ControllerFails
  <2> QED
    BY <2>1 DEF ViewTypes
<1> QED
  BY <1>1, <1>2, <1>3

(* The plugin's cluster stays in its types; among them, however pods,      *)
(* notifications, failing patches and restarts interleave, no pod is hasty *)
(* or loses a delta more than twice, once when it is placed and once when  *)
(* it is deleted.                                                          *)
THEOREM AraTypeCorrect == AraSpec => []AraTypeOK
<1>1. AraInit => OneTrigger /\ TypeOK /\ Init
  BY TriggerInit, TypeInit DEF AraInit
<1>2. AraInit => HurryCounted /\ LossCounted /\ ListerBehind /\ ViewTypes
  <2> SUFFICES ASSUME AraInit
               PROVE  HurryCounted /\ LossCounted /\ ListerBehind /\ ViewTypes
    OBVIOUS
  <2>1. /\ notes = <<>> /\ queue = {} /\ Busy = {} /\ hasty = 0 /\ failed = 0
        /\ \A p \in Pods : podSeen[p] = "pending"
    BY DEF AraInit, Init, Busy
  <2>2. Cardinality(Started) \in Nat /\ Cardinality(Ended) \in Nat
    <3>1. Started \in SUBSET Pods /\ Ended \in SUBSET Pods
      BY DEF Started, Ended
    <3> QED
      BY <3>1, PodSets
  <2>3. HurryCounted
    BY <2>1, <2>2 DEF HurryCounted
  <2>4. InFlight = 0
    <3>1. Processing = {}
      BY <2>1 DEF Processing
    <3>2. Len(notes) = 0 /\ Cardinality(queue) = 0 /\ Cardinality(Processing) = 0
      BY <2>1, <3>1, FS_EmptySet
    <3> QED
      BY <3>2 DEF InFlight
  <2>5. LossCounted
    BY <1>1, <2>1, <2>4, FlightTypes DEF LossCounted
  <2>6. ListerBehind
    BY <2>1 DEF ListerBehind, EndSeen
  <2>7. ViewTypes
    <3>1. TypeOK
      BY <1>1
    <3> QED
      BY <3>1 DEF AraInit, ViewTypes, TypeOK
  <2> QED
    BY <2>3, <2>5, <2>6, <2>7
<1>3. TypeOK /\ TypeOK' /\ OneTrigger /\ [AraNext]_araVars => OneTrigger'
  BY AraStep, TriggerStep
<1>4. TypeOK /\ [AraNext]_araVars => TypeOK'
  BY AraStep, TypeStep
<1>5. TypeOK /\ OneTrigger /\ ListerBehind /\ [AraNext]_araVars => ListerBehind'
  BY AraStep, FlightStep
<1>6. TypeOK /\ HurryCounted /\ [AraNext]_araVars => HurryCounted'
  BY HurryStep
<1>7. TypeOK /\ OneTrigger /\ ListerBehind /\ LossCounted /\ [AraNext]_araVars => LossCounted'
  BY LossStep
<1>8. TypeOK /\ TypeOK' /\ ViewTypes /\ [AraNext]_araVars => ViewTypes'
  BY ViewStep
<1>9. TypeOK /\ HurryCounted /\ LossCounted /\ ViewTypes => AraTypeOK
  <2> SUFFICES ASSUME TypeOK, HurryCounted, LossCounted, ViewTypes
               PROVE  AraTypeOK
    OBVIOUS
  <2>1. /\ Started \in SUBSET Pods /\ Ended \in SUBSET Pods
        /\ StartSeen \in SUBSET Pods /\ EndSeen \in SUBSET Pods
    BY DEF Started, Ended, StartSeen, EndSeen
  <2>2. /\ Cardinality(Started) \in Nat /\ Cardinality(Started) <= Cardinality(Pods)
        /\ Cardinality(Ended) \in Nat /\ Cardinality(Ended) <= Cardinality(Pods)
        /\ Cardinality(StartSeen) \in Nat /\ Cardinality(StartSeen) <= Cardinality(Pods)
        /\ Cardinality(EndSeen) \in Nat /\ Cardinality(EndSeen) <= Cardinality(Pods)
        /\ Cardinality(Pods) \in Nat
    BY <2>1, PodsAssumption, FS_Subset, FS_CardinalityType
  <2>3. hasty \in 0..(2 * Cardinality(Pods))
    BY <2>2 DEF HurryCounted
  <2>4. InFlight \in Nat
    BY FlightTypes
  <2>5. failed \in 0..(2 * Cardinality(Pods))
    BY <2>2, <2>4 DEF LossCounted, Announced
  <2> QED
    BY <2>3, <2>5 DEF AraTypeOK, ViewTypes
<1> QED
  BY <1>1, <1>2, <1>3, <1>4, <1>5, <1>6, <1>7, <1>8, <1>9, PTL DEF AraSpec

(* Where the plugin schedules the pods, each is still added at most once,  *)
(* if no metric is listed twice in the policy.                             *)
THEOREM ClusterAddedOnce ==
    ASSUME DistinctPolicies
    PROVE  AraSpec => []AddedOnce
BY ClusterImplementsController, PodAddedOnce, PTL

(* And the delta that Filter gets to see in time claims no more than the   *)
(* pods that were ever added can use.                                      *)
THEOREM ClusterDeltaBounded == AraSpec => []DeltaBounded
BY ClusterImplementsController, DeltaStaysBounded, PTL

-----------------------------------------------------------------------------
(* Filter's promise.  What the pods that came to the node are expected to  *)
(* use is compared with what every copy of the delta annotation shows.     *)

Expected(p, j) == IF Known(p) THEN UsageOf(p)[j] ELSE 0

(* A pod claims its usage from its placement on, and until it has been     *)
(* subtracted when it is deleted.                                          *)
Claims(p) == pod[p] = "scheduled" \/ (pod[p] \in {"terminating", "gone"} /\ subs[Metric1][p] = 0)
Claim(j) == [p \in Pods |-> IF Claims(p) THEN Expected(p, j) ELSE 0]
Claimed(j) == SumFunctionOnSet(Claim(j), Pods)

(* What the delta lacks while the change of a pod is on its way.           *)
Cost(j) == [p \in Pods |-> IF pod[p] = "scheduled" THEN Expected(p, j) ELSE 0]

(* The pods with a change that has not come through to the annotation.     *)
Due(w) == \E k \in worker[w].i..Len(Policies) : Policies[k] = Metric1
Tasks == {worker[w].pod : w \in {v \in Busy : Due(v)}}
Noted == {notes[k].pod : k \in DOMAIN notes}
Unsettled ==
    {p \in Pods :
        \/ podSeen[p] = "pending" /\ pod[p] # "pending"
        \/ podSeen[p] = "scheduled" /\ pod[p] \in {"terminating", "gone"}
        \/ p \in Noted
        \/ p \in queue
        \/ p \in Tasks}

(* The copies of the delta, and what Filter would take from each.          *)
Copies ==
    {anno[Metric1], seen[Metric1], view[Metric1]}
        \cup {watch[k][Metric1] : k \in DOMAIN watch}
        \cup {pending[k][Metric1] : k \in DOMAIN pending}
        \cup {worker[w].node[Metric1] : w \in Busy}
DeltaAt(a, j) == IF Len(UsageRange(a)) = Len(node.range) THEN UsageRange(a)[j] ELSE 0
Shown(j) == {DeltaAt(a, j) : a \in Copies}

Slack == MaxUsage * Lapses

(* No copy in D falls short of the claim e by more than the slack s and a  *)
(* pod; none by more than the cost of any one pod of U on top; and once U  *)
(* is empty the annotation, which shows a, is within the slack.            *)
Within(D, a, U, e, s, c) ==
    /\ \A x \in D : e - x <= s + MaxUsage
    /\ \A x \in D, p \in U : e - x <= s + c[p]
    /\ e - a <= s \/ U # {}

Shortfall(j) == Within(Shown(j), DeltaAt(anno[Metric1], j), Unsettled, Claimed(j), Slack, Cost(j))

(* The lister has a version of the pod that there has been, every          *)
(* notification is one that is handled, the last version under way is the  *)
(* current one, and a job is about the deployment as it is.                *)
ListerTrue == \A p \in Pods : podSeen[p] = "pending" \/ podSeen[p] \in Versions[pod[p]]
NotesMatter ==
    \A k \in DOMAIN notes :
        \/ notes[k].old = "pending" /\ notes[k].new # "pending"
        \/ notes[k].old # "terminating" /\ notes[k].new = "terminating"
Ends(copy, way) == IF way = <<>> THEN copy = anno ELSE way[Len(way)] = anno
CopiesFollow == Ends(seen, watch) /\ Ends(view, pending)
JobsTrue ==
    \A w \in Busy :
        /\ DeployOf[worker[w].pod] # NoDeploy
        /\ worker[w].usages = deploy[DeployOf[worker[w].pod]]
        /\ worker[w].mergeType = "sub" => pod[worker[w].pod] \in {"terminating", "gone"}
LengthsMatch == \A a \in Copies : Len(UsageRange(a)) \in {0, Len(node.range)}

Bookkeeping == ListerTrue /\ NotesMatter /\ CopiesFollow /\ JobsTrue
Books ==
    /\ Bookkeeping
    /\ Comparable => \A j \in DOMAIN node.range : LengthsMatch /\ Shortfall(j)

(* Copies that go, pods that cost nothing any more.                        *)
LEMMA WithinQuiet ==
    ASSUME NEW D \in SUBSET Int, NEW a \in D, NEW U \in SUBSET Pods, NEW e \in Int, NEW s \in Int,
           NEW c \in [Pods -> Nat], Within(D, a, U, e, s, c),
           NEW D2 \in SUBSET D, NEW U2 \in SUBSET U, \A p \in U \ U2 : c[p] = 0
    PROVE  Within(D2, a, U2, e, s, c)
BY DEF Within

(* A lapse makes up for any pod whose change is lost.                      *)
LEMMA WithinLapse ==
    ASSUME NEW D \in SUBSET Int, NEW a \in D, NEW U \in SUBSET Pods, NEW e \in Int, NEW s \in Int,
           NEW c \in [Pods -> Nat], Within(D, a, U, e, s, c),
           NEW D2 \in SUBSET D, NEW U2 \in SUBSET U
    PROVE  Within(D2, a, U2, e, s + MaxUsage, c)
BY RangeAssumption DEF Within

(* A pod on its way is added to the copy b.                                *)
LEMMA WithinAdd ==
    ASSUME NEW D \in SUBSET Int, NEW a, NEW U \in SUBSET Pods, NEW e \in Int, NEW s \in Int,
           NEW c \in [Pods -> Nat], Within(D, a, U, e, s, c),
           NEW p \in U, NEW b \in D, NEW u \in Nat, c[p] <= u,
           NEW D2 \in SUBSET (D \cup {b + u}), NEW U2 \in SUBSET U
    PROVE  Within(D2, b + u, U2, e, s, c)
<1>1. e - b <= s + c[p] /\ c[p] \in Nat /\ b \in Int
  BY DEF Within
<1>2. e - (b + u) <= e - b /\ e - (b + u) <= s
  BY <1>1
<1>3. ASSUME NEW x \in D2 PROVE e - x <= s + MaxUsage /\ \A q \in U2 : e - x <= s + c[q]
  <2>1. CASE x \in D
    BY <2>1 DEF Within
  <2>2. CASE x = b + u
    BY <1>1, <1>2, <2>2, RangeAssumption DEF Within
  <2> QED
    BY <2>1, <2>2
<1> QED
  BY <1>2, <1>3 DEF Within

(* It is subtracted for the first time, and its claim ends.                *)
LEMMA WithinSub ==
    ASSUME NEW D \in SUBSET Int, NEW a, NEW U \in SUBSET Pods, NEW e \in Int, NEW s \in Int,
           NEW c \in [Pods -> Nat], Within(D, a, U, e, s, c),
           NEW p \in U, NEW b \in D, NEW u \in Nat, c[p] = 0,
           NEW D2 \in SUBSET (D \cup {b - u}), NEW U2 \in SUBSET U
    PROVE  Within(D2, b - u, U2, e - u, s, c)
<1>1. (e - u) - (b - u) = e - b /\ e - b <= s
  BY DEF Within
<1>2. ASSUME NEW x \in D2 PROVE (e - u) - x <= s + MaxUsage /\ \A q \in U2 : (e - u) - x <= s + c[q]
  <2>1. CASE x \in D
    <3>1. e - x <= s + MaxUsage /\ (\A q \in U2 : e - x <= s + c[q]) /\ x \in Int
      BY <2>1 DEF Within
    <3> QED
      BY <3>1, RangeAssumption
  <2>2. CASE x = b - u
    BY <1>1, <2>2, RangeAssumption
  <2> QED
    BY <2>1, <2>2
<1> QED
  BY <1>1, <1>2 DEF Within

(* It is subtracted once more, which is a lapse.                           *)
LEMMA WithinSubAgain ==
    ASSUME NEW D \in SUBSET Int, NEW a, NEW U \in SUBSET Pods, NEW e \in Int, NEW s \in Int,
           NEW c \in [Pods -> Nat], Within(D, a, U, e, s, c),
           NEW p \in U, NEW b \in D, NEW u \in Nat, u <= MaxUsage, c[p] = 0,
           NEW D2 \in SUBSET (D \cup {b - u}), NEW U2 \in SUBSET U
    PROVE  Within(D2, b - u, U2, e, s + MaxUsage, c)
<1>1. b - u \in Int /\ e - (b - u) = (e - b) + u /\ e - b <= s /\ MaxUsage \in Nat
  BY RangeAssumption DEF Within
<1> QED
  BY <1>1 DEF Within

(* A pod is placed or deleted, with a cost of d and a claim that grows by  *)
(* no more: when all is settled, or in haste.                              *)
LEMMA WithinChange ==
    ASSUME NEW D \in SUBSET Int, NEW a \in D, NEW U \in SUBSET Pods, NEW e \in Int, NEW s \in Int,
           NEW c \in [Pods -> Nat], Within(D, a, U, e, s, c),
           NEW p \in Pods, NEW u \in Nat, u <= MaxUsage,
           NEW c2 \in [Pods -> Nat], \A q \in Pods \ {p} : c2[q] = c[q], u <= c2[p],
           NEW U2 \in SUBSET (U \cup {p}), p \in U2, NEW s2 \in Int,
           (D = {a} /\ U = {} /\ s2 = s) \/ s2 = s + MaxUsage
    PROVE  Within(D, a, U2, e + u, s2, c2)
<1>0. MaxUsage \in Nat
  BY RangeAssumption
<1>1. CASE D = {a} /\ U = {} /\ s2 = s
  <2>1. e - a <= s /\ U2 = {p}
    BY <1>1 DEF Within
  <2> QED
    BY <1>0, <1>1, <2>1 DEF Within
<1>2. CASE s2 = s + MaxUsage
  <2>1. \A x \in D : e - x <= s + MaxUsage /\ \A q \in U : e - x <= s + c[q]
    BY DEF Within
  <2>2. ASSUME NEW x \in D, NEW q \in U2 PROVE (e + u) - x <= s2 + c2[q]
    <3>1. CASE q = p
      BY <1>0, <1>2, <2>1, <3>1
    <3>2. CASE q # p
      <4>1. q \in U /\ c2[q] = c[q] /\ c[q] \in Nat /\ e - x <= s + c[q]
        BY <2>1, <3>2
      <4> QED
        BY <1>0, <1>2, <4>1
    <3> QED
      BY <3>1, <3>2
  <2>3. ASSUME NEW x \in D PROVE (e + u) - x <= s2 + MaxUsage
    BY <1>0, <1>2, <2>1
  <2> QED
    BY <2>2, <2>3 DEF Within
<1> QED
  BY <1>1, <1>2

(* A smaller claim is met as well.                                         *)
LEMMA WithinLess ==
    ASSUME NEW D \in SUBSET Int, NEW a \in D, NEW U \in SUBSET Pods, NEW e \in Int, NEW s \in Int,
           NEW c \in [Pods -> Nat], Within(D, a, U, e, s, c), NEW e2 \in Int, e2 <= e
    PROVE  Within(D, a, U, e2, s, c)
BY RangeAssumption DEF Within

(* A pod that costs u is removed by force, and its claim ends.             *)
LEMMA WithinKill ==
    ASSUME NEW D \in SUBSET Int, NEW a \in D, NEW U \in SUBSET Pods, NEW e \in Int, NEW s \in Int,
           NEW c \in [Pods -> Nat], Within(D, a, U, e, s, c),
           NEW p \in Pods, NEW u \in Nat, c[p] = u,
           NEW c2 \in [Pods -> Nat], \A q \in Pods \ {p} : c2[q] = c[q]
    PROVE  Within(D, a, U, e - u, s, c2)
<1>1. ASSUME NEW x \in D, NEW q \in U PROVE (e - u) - x <= s + c2[q]
  <2>1. e - x <= s + c[q] /\ c[q] \in Nat /\ c2[q] \in Nat
    BY DEF Within
  <2> QED
    BY <2>1
<1>2. \A x \in D : (e - u) - x <= e - x
  OBVIOUS
<1> QED
  BY <1>1, <1>2, RangeAssumption DEF Within

(* The repeated subtractions, as a sum over the pods.                      *)
Again == [p \in Pods |-> IF subs[Metric1][p] = 0 THEN 0 ELSE subs[Metric1][p] - 1]

LEMMA RepeatedSum ==
    ASSUME TypeOK
    PROVE  Again \in [Pods -> Nat] /\ Repeated = SumFunctionOnSet(Again, Pods) /\ Repeated \in Nat
<1>1. subs[Metric1] \in [Pods -> Nat]
  BY NodeAssumption DEF TypeOK
<1>2. Again \in [Pods -> Nat]
  BY <1>1 DEF Again
<1>3. Repeated = SumFunctionOnSet(Again, Pods)
  BY <1>2 DEF Repeated, Again, SumFunction
<1>4. SumFunctionOnSet(Again, Pods) \in Nat
  BY <1>2, PodsAssumption, SumNat
<1> QED
  BY <1>2, <1>3, <1>4

(* The same after a step.                                                  *)
LEMMA RepeatedNext ==
    ASSUME TypeOK'
    PROVE  Again' \in [Pods -> Nat] /\ Repeated' = SumFunctionOnSet(Again', Pods) /\ Repeated' \in Nat
<1>1. subs'[Metric1] \in [Pods -> Nat]
  BY NodeAssumption DEF TypeOK
<1>2. Again' \in [Pods -> Nat]
  BY <1>1 DEF Again
<1>3. Repeated' = SumFunctionOnSet(Again', Pods)
  BY <1>2 DEF Repeated, Again, SumFunction
<1>4. SumFunctionOnSet(Again', Pods) \in Nat
  BY <1>2, PodsAssumption, SumNat
<1> QED
  BY <1>2, <1>3, <1>4

LEMMA LapseTypes ==
    ASSUME AraTypeOK
    PROVE  hasty \in Nat /\ failed \in Nat /\ restarts \in Nat /\ Repeated \in Nat
<1>1. Cardinality(Pods) \in Nat
  BY PodsAssumption, FS_CardinalityType
<1> QED
  BY <1>1, RepeatedSum DEF AraTypeOK, TypeOK

LEMMA SlackType ==
    ASSUME AraTypeOK
    PROVE  Lapses \in Nat /\ Slack \in Int
<1>1. hasty \in Nat /\ failed \in Nat /\ restarts \in Nat /\ Repeated \in Nat
  BY LapseTypes
<1>2. Lapses \in Nat
  BY <1>1 DEF Lapses
<1> QED
  BY <1>2, RangeAssumption DEF Slack

LEMMA SlackMore ==
    ASSUME Lapses \in Nat, Lapses' = Lapses + 1
    PROVE  Slack' = Slack + MaxUsage
<1>1. \A l, m \in Nat : m * (l + 1) = m * l + m
  OBVIOUS
<1>2. MaxUsage \in Nat /\ Slack' = MaxUsage * Lapses'
  BY RangeAssumption DEF Slack
<1> QED
  BY <1>1, <1>2 DEF Slack

(* The node's range, when it can be compared.                              *)
LEMMA RangeType ==
    ASSUME ViewTypes, Comparable
    PROVE  /\ node.range \in Seq(Nat) /\ node.range # Absent /\ node.range # Expired
           /\ DOMAIN node.range = 1..Len(node.range) /\ Len(node.range) \in Nat
           /\ node.limit \in Nat \ {0} /\ node.capacity \in Nat \ {0}
<1>1. PICK s \in NodeStates : s = node
  BY DEF ViewTypes
<1>2. s.range \in Seq(Nat) \cup {Absent, Expired} /\ s.limit \in Nat /\ s.capacity \in Nat
  BY NodeAssumption
<1>3. node.range \notin {Absent, Expired} /\ node.limit # 0 /\ node.capacity # 0
  BY DEF Comparable
<1> QED
  BY <1>1, <1>2, <1>3

(* What a pod is expected to use is a number, and at most MaxUsage.        *)
LEMMA ExpectedType ==
    ASSUME TypeOK, ViewTypes, Comparable, NEW j \in DOMAIN node.range, NEW p \in Pods
    PROVE  Expected(p, j) \in Nat /\ Expected(p, j) <= MaxUsage
<1>1. CASE Known(p)
  <2>1. DeployOf[p] \in Deploys /\ deploy[DeployOf[p]] \in DeployAnnotations
    BY <1>1, PolicyAssumption DEF Known, TypeOK
  <2>2. UsageOf(p) \in Ranges
    BY <1>1, <2>1, NodeAssumption DEF Known, UsageOf, DeployAnnotations
  <2>3. UsageOf(p) \in Seq(Nat) /\ \A k \in DOMAIN UsageOf(p) : UsageOf(p)[k] <= MaxUsage
    BY <2>2, RangeAssumption
  <2>4. Len(UsageOf(p)) = Len(node.range)
    BY <1>1 DEF Comparable
  <2>5. j \in DOMAIN UsageOf(p)
    BY <2>3, <2>4, RangeType
  <2> QED
    BY <1>1, <2>3, <2>5 DEF Expected
<1>2. CASE ~ Known(p)
  BY <1>2, RangeAssumption DEF Expected
<1> QED
  BY <1>1, <1>2

(* The copies, and what they show.                                         *)
LEMMA CopyTypes ==
    ASSUME TypeOK, ViewTypes
    PROVE  /\ anno[Metric1] \in Copies
           /\ \A a \in Copies : a \in Seq(Int) \cup {Absent} /\ UsageRange(a) \in Seq(Int)
<1>1. Metric1 \in Metrics
  BY NodeAssumption
<1>2. \A v \in NodeAnnotations : v[Metric1] \in Seq(Int) \cup {Absent}
  BY <1>1 DEF NodeAnnotations, Values
<1>3. anno \in NodeAnnotations /\ seen \in NodeAnnotations /\ view \in NodeAnnotations
  BY DEF TypeOK, ViewTypes
<1>4. \A k \in DOMAIN watch : watch[k] \in NodeAnnotations
  BY DEF TypeOK
<1>5. \A k \in DOMAIN pending : pending[k] \in NodeAnnotations
  BY DEF ViewTypes
<1>6. \A w \in Busy : worker[w].node \in NodeAnnotations
  BY JobTypes DEF Busy
<1>7. \A a \in Copies : a \in Seq(Int) \cup {Absent}
  BY <1>2, <1>3, <1>4, <1>5, <1>6 DEF Copies
<1>8. \A a \in Seq(Int) \cup {Absent} : UsageRange(a) \in Seq(Int)
  BY DEF UsageRange
<1> QED
  BY <1>7, <1>8 DEF Copies

LEMMA BookTypes ==
    ASSUME TypeOK, ViewTypes, Comparable, NEW j \in DOMAIN node.range
    PROVE  /\ Claim(j) \in [Pods -> Nat] /\ Cost(j) \in [Pods -> Nat] /\ Claimed(j) \in Nat
           /\ Unsettled \in SUBSET Pods
           /\ Shown(j) \in SUBSET Int /\ DeltaAt(anno[Metric1], j) \in Shown(j)
<1>1. \A p \in Pods : Expected(p, j) \in Nat
  BY ExpectedType
<1>2. Claim(j) \in [Pods -> Nat] /\ Cost(j) \in [Pods -> Nat]
  BY <1>1 DEF Claim, Cost
<1>3. Claimed(j) \in Nat
  BY <1>2, PodsAssumption, SumNat DEF Claimed
<1>4. ASSUME NEW a \in Copies PROVE DeltaAt(a, j) \in Int
  <2>1. UsageRange(a) \in Seq(Int) /\ j \in 1..Len(node.range)
    BY CopyTypes, RangeType
  <2> QED
    BY <2>1 DEF DeltaAt
<1>5. Shown(j) \in SUBSET Int /\ DeltaAt(anno[Metric1], j) \in Shown(j)
  BY <1>4, CopyTypes DEF Shown
<1> QED
  BY <1>2, <1>3, <1>5 DEF Unsettled

(* The node's history and the deployments' usages are the same all day.    *)
LEMMA DayFixed == [AraNext]_araVars => UNCHANGED <<deploy, node>>
BY DEF AraNext, araVars, vars, podVars, Schedule, DeletePod, RemovePod, PodChanges, ObserveView, Controller,
       ControllerFails, ObservePod, ObserveNode, handleUpdateEvent, Reconcile, SkipPolicy, PatchNodeAnnotation,
       PatchFails, Restart

LEMMA BookFixed ==
    ASSUME UNCHANGED <<deploy, node>>
    PROVE  /\ Comparable' <=> Comparable
           /\ \A p \in Pods : Known(p)' <=> Known(p)
           /\ \A p, j : Expected(p, j)' = Expected(p, j)
           /\ \A a, j : DeltaAt(a, j)' = DeltaAt(a, j)
<1>1. \A p : (Known(p)' <=> Known(p)) /\ UsageOf(p)' = UsageOf(p)
  BY DEF Known, UsageOf
<1>2. \A p, j : Expected(p, j)' = Expected(p, j)
  BY <1>1 DEF Expected
<1>3. Comparable' <=> Comparable
  BY <1>1 DEF Comparable
<1>4. \A a, j : DeltaAt(a, j)' = DeltaAt(a, j)
  BY DEF DeltaAt
<1> QED
  BY <1>1, <1>2, <1>3, <1>4

(* A step shows no copy but the ones there were and the annotation that it *)
(* leaves, and only a patch of a worker changes that.                      *)
LEMMA CopiesStep ==
    ASSUME TypeOK, TypeOK', ViewTypes, [AraNext]_araVars
    PROVE  /\ Copies' \subseteq Copies \cup {anno'[Metric1]}
           /\ (\A w \in Workers : ~ PatchNodeAnnotation(w)) => anno' = anno
<1> USE DEF podVars, nodeVars, resetVars, counts, viewVars
<1> DEFINE C == Copies \cup {anno'[Metric1]}
<1>0. /\ anno[Metric1] \in C /\ seen[Metric1] \in C /\ view[Metric1] \in C /\ anno'[Metric1] \in C
      /\ \A k \in DOMAIN watch : watch[k][Metric1] \in C
      /\ \A k \in DOMAIN pending : pending[k][Metric1] \in C
      /\ \A w \in Busy : worker[w].node[Metric1] \in C
  BY DEF Copies
<1>a. watch \in Seq(NodeAnnotations) /\ watch' \in Seq(NodeAnnotations) /\ pending \in Seq(NodeAnnotations)
  BY DEF TypeOK, ViewTypes
<1> HIDE DEF C
<1>1. UNCHANGED anno \/ \E w \in Workers : PatchNodeAnnotation(w)
  BY DEF AraNext, araVars, vars, Schedule, DeletePod, RemovePod, PodChanges, ObserveView, Controller,
         ControllerFails, ObservePod, ObserveNode, handleUpdateEvent, Reconcile, SkipPolicy, PatchFails, Restart
<1>2. seen'[Metric1] \in C /\ \A k \in DOMAIN watch' : watch'[k][Metric1] \in C
  <2>1. CASE ObserveNode
    <3>1. watch # <<>> /\ seen' = Head(watch) /\ watch' = Tail(watch)
      BY <2>1 DEF ObserveNode
    <3>2. seen' = watch[1] /\ 1 \in DOMAIN watch
      BY <1>a, <3>1
    <3>3. \A k \in DOMAIN watch' : k + 1 \in DOMAIN watch /\ watch'[k] = watch[k + 1]
      BY <1>a, <3>1
    <3> QED
      BY <1>0, <3>2, <3>3
  <2>2. ASSUME NEW w \in Workers, PatchNodeAnnotation(w)
        PROVE  seen'[Metric1] \in C /\ \A k \in DOMAIN watch' : watch'[k][Metric1] \in C
    <3>1. seen' = seen /\ watch' = Append(watch, anno')
      BY <2>2 DEF PatchNodeAnnotation, WriteNode
    <3>2. \A k \in DOMAIN watch' : watch'[k] = anno' \/ (k \in DOMAIN watch /\ watch'[k] = watch[k])
      BY <1>a, <3>1
    <3> QED
      BY <1>0, <3>1, <3>2
  <2>3. CASE Restart
    BY <1>0, <2>3 DEF Restart
  <2>4. UNCHANGED <<seen, watch>> \/ ObserveNode \/ Restart \/ \E w \in Workers : PatchNodeAnnotation(w)
    BY DEF AraNext, araVars, vars, Schedule, DeletePod, RemovePod, PodChanges, ObserveView, Controller,
           ControllerFails, ObservePod, handleUpdateEvent, Reconcile, SkipPolicy, PatchFails
  <2> QED
    BY <1>0, <2>1, <2>2, <2>3, <2>4
<1>3. view'[Metric1] \in C /\ \A k \in DOMAIN pending' : pending'[k][Metric1] \in C
  <2>1. CASE ObserveView
    <3>1. pending # <<>> /\ view' = Head(pending) /\ pending' = Tail(pending)
      BY <2>1 DEF ObserveView
    <3>2. view' = pending[1] /\ 1 \in DOMAIN pending
      BY <1>a, <3>1
    <3>3. \A k \in DOMAIN pending' : k + 1 \in DOMAIN pending /\ pending'[k] = pending[k + 1]
      BY <1>a, <3>1
    <3> QED
      BY <1>0, <3>2, <3>3
  <2>2. CASE Controller
    <3>1. view' = view /\ (pending' = pending \/ pending' = Append(pending, anno'))
      BY <2>2 DEF Controller
    <3>2. anno' \in NodeAnnotations
      BY DEF TypeOK
    <3>3. \A k \in DOMAIN pending' : pending'[k] = anno' \/ (k \in DOMAIN pending /\ pending'[k] = pending[k])
      BY <1>a, <3>1, <3>2
    <3> QED
      BY <1>0, <3>1, <3>3
  <2>3. UNCHANGED <<view, pending>> \/ ObserveView \/ Controller
    BY DEF AraNext, araVars, Schedule, DeletePod, RemovePod, ControllerFails
  <2> QED
    BY <1>0, <2>1, <2>2, <2>3
<1>4. \A w \in Busy' : worker'[w].node[Metric1] \in C
  <2>1. ASSUME NEW v \in Workers, Reconcile(v) PROVE \A w \in Busy' : worker'[w].node[Metric1] \in C
    <3>1. PICK p : \/ UNCHANGED worker
                   \/ worker' = [worker EXCEPT ![v] =
                      [pod |-> p, mergeType |-> IF podSeen[p] = "terminating" THEN "sub" ELSE "add",
                       usages |-> deploy[DeployOf[p]], node |-> seen, i |-> 1]]
      BY <2>1 DEF Reconcile
    <3>2. \A w \in Workers : worker'[w] = worker[w] \/ worker'[w].node = seen
      BY <3>1 DEF TypeOK
    <3> QED
      BY <1>0, <3>2 DEF Busy
  <2>2. ASSUME NEW v \in Workers, SkipPolicy(v) \/ PatchNodeAnnotation(v)
        PROVE  \A w \in Busy' : worker'[w].node[Metric1] \in C
    <3>1. worker[v] # Idle /\ Advance(v)
      BY <2>2 DEF SkipPolicy, PatchNodeAnnotation, Patching
    <3> QED
      BY <1>0, <3>1, AdvanceBusy
  <2>3. ASSUME NEW v \in Workers, PatchFails(v) PROVE \A w \in Busy' : worker'[w].node[Metric1] \in C
    <3>1. \A w \in Workers : worker'[w] = worker[w] \/ worker'[w] = Idle
      BY <2>3 DEF PatchFails, TypeOK
    <3> QED
      BY <1>0, <3>1 DEF Busy
  <2>4. CASE Restart
    BY <2>4 DEF Restart, Busy
  <2>5. \/ UNCHANGED worker \/ Restart
        \/ \E v \in Workers : Reconcile(v) \/ SkipPolicy(v) \/ PatchNodeAnnotation(v) \/ PatchFails(v)
    BY DEF AraNext, araVars, vars, Schedule, DeletePod, RemovePod, PodChanges, ObserveView, Controller,
           ControllerFails, ObservePod, ObserveNode, handleUpdateEvent
  <2>6. CASE UNCHANGED worker
    BY <1>0, <2>6 DEF Busy
  <2> QED
    BY <2>1, <2>2, <2>3, <2>4, <2>5, <2>6
<1>5. Copies' \subseteq C
  BY <1>0, <1>2, <1>3, <1>4 DEF Copies
<1> QED
  BY <1>1, <1>5 DEF C

-----------------------------------------------------------------------------
(* What the books rest on.                                                 *)

(* How a pod changes.                                                      *)
LEMMA PodsStep ==
    ASSUME TypeOK, [AraNext]_araVars
    PROVE  \A p \in Pods : pod'[p] = pod[p] \/ <<pod[p], pod'[p]>> \in PodStep
<1> USE DEF podVars
<1>1. ASSUME NEW p \in Pods, NEW s, PodChanges(p, s)
      PROVE  \A q \in Pods : pod'[q] = pod[q] \/ <<pod[q], pod'[q]>> \in PodStep
  <2>1. <<pod[p], s>> \in PodStep /\ pod' = [pod EXCEPT ![p] = s] /\ pod \in [Pods -> PodState]
    BY <1>1 DEF PodChanges, TypeOK
  <2> QED
    BY <2>1
<1>2. pod' = pod \/ \E p \in Pods, s \in PodState : PodChanges(p, s)
  BY DEF AraNext, araVars, vars, Schedule, DeletePod, RemovePod, ObserveView, Controller, ControllerFails,
         ObservePod, ObserveNode, handleUpdateEvent, Reconcile, SkipPolicy, PatchNodeAnnotation, PatchFails, Restart,
         PodState
<1> QED
  BY <1>1, <1>2

LEMMA ListerStep ==
    ASSUME TypeOK, ListerTrue, [AraNext]_araVars
    PROVE  ListerTrue'
<1> USE DEF podVars
<1>0. \A s, t \in PodState : <<s, t>> \in PodStep => Versions[s] \subseteq Versions[t]
  BY DEF PodStep, Versions, PodState
<1>1. \A s \in PodState : s = "pending" \/ s \in Versions[s]
  BY DEF Versions, PodState
<1>2. pod \in [Pods -> PodState] /\ podSeen \in [Pods -> PodState] /\ pod' \in [Pods -> PodState]
  BY AraStep, TypeStep DEF TypeOK
<1>3. CASE podSeen' = podSeen
  BY <1>0, <1>2, <1>3, PodsStep DEF ListerTrue
<1>4. ASSUME NEW p \in Pods, NEW s \in PodState, ObservePod(p, s) PROVE ListerTrue'
  <2>1. s \in Versions[pod[p]] /\ podSeen' = [podSeen EXCEPT ![p] = s] /\ pod' = pod
    BY <1>4 DEF ObservePod
  <2> QED
    BY <1>2, <2>1 DEF ListerTrue
<1>5. CASE Restart
  BY <1>1, <1>2, <1>5 DEF ListerTrue, Restart
<1>6. podSeen' = podSeen \/ Restart \/ \E p \in Pods, s \in PodState : ObservePod(p, s)
  BY DEF AraNext, araVars, vars, Schedule, DeletePod, RemovePod, PodChanges, ObserveView, Controller,
         ControllerFails, ObserveNode, handleUpdateEvent, Reconcile, SkipPolicy, PatchNodeAnnotation, PatchFails
<1> QED
  BY <1>3, <1>4, <1>5, <1>6

LEMMA NotesStep ==
    ASSUME TypeOK, TypeOK', NotesMatter, [AraNext]_araVars
    PROVE  NotesMatter'
<1> USE DEF podVars
<1>1. notes \in Seq(Note) /\ notes' \in Seq(Note)
  BY DEF TypeOK
<1>2. ASSUME NEW p \in Pods, NEW s \in PodState, ObservePod(p, s) PROVE NotesMatter'
  <2>0. pod[p] \in PodState /\ podSeen[p] \in PodState
    BY DEF TypeOK
  <2>1. CASE s \in Removed
    BY <1>2, <2>1 DEF ObservePod, NotesMatter
  <2>2. CASE s \notin Removed
    <3> DEFINE n == [pod |-> p, old |-> podSeen[p], new |-> s]
    <3>1. notes' = Append(notes, n) /\ s \in Versions[pod[p]] /\ Stage[podSeen[p]] < Stage[s]
      BY <1>2, <2>2 DEF ObservePod
    <3>2. \/ podSeen[p] = "pending" /\ s # "pending"
          \/ podSeen[p] # "terminating" /\ s = "terminating"
      BY <2>0, <2>2, <3>1 DEF Versions, Stage, PodState, Removed
    <3>3. \/ n.old = "pending" /\ n.new # "pending"
          \/ n.old # "terminating" /\ n.new = "terminating"
      BY <3>2
    <3>4. n \in Note
      BY <2>0 DEF Note
    <3> HIDE DEF n
    <3>5. \A k \in DOMAIN notes' : notes'[k] = n \/ (k \in DOMAIN notes /\ notes'[k] = notes[k])
      BY <1>1, <3>1, <3>4
    <3> QED
      BY <3>3, <3>5 DEF NotesMatter
  <2> QED
    BY <2>1, <2>2
<1>3. CASE handleUpdateEvent
  <2>1. notes # <<>> /\ notes' = Tail(notes)
    BY <1>3 DEF handleUpdateEvent
  <2>2. \A k \in DOMAIN notes' : k + 1 \in DOMAIN notes /\ notes'[k] = notes[k + 1]
    BY <1>1, <2>1
  <2> QED
    BY <2>2 DEF NotesMatter
<1>4. CASE Restart
  <2>1. notes' = <<>>
    BY <1>4 DEF Restart
  <2> QED
    BY <2>1 DEF NotesMatter
<1>5. notes' = notes \/ handleUpdateEvent \/ Restart \/ \E p \in Pods, s \in PodState : ObservePod(p, s)
  BY DEF AraNext, araVars, vars, Schedule, DeletePod, RemovePod, PodChanges, ObserveView, Controller,
         ControllerFails, ObserveNode, Reconcile, SkipPolicy, PatchNodeAnnotation, PatchFails
<1> QED
  BY <1>2, <1>3, <1>4, <1>5 DEF NotesMatter

(* A copy that gets the next version, and a version that goes its way.     *)
LEMMA EndsTaken ==
    ASSUME NEW S, NEW way \in Seq(S), way # <<>>, NEW a, way[Len(way)] = a
    PROVE  IF Tail(way) = <<>> THEN Head(way) = a ELSE Tail(way)[Len(Tail(way))] = a
<1>1. Len(way) \in Nat \ {0} /\ Len(Tail(way)) = Len(way) - 1 /\ Head(way) = way[1]
  OBVIOUS
<1>2. CASE Len(way) = 1
  <2>0. \A s \in Seq(S) : Len(s) = 0 => s = <<>>
    OBVIOUS
  <2>1. Tail(way) \in Seq(S) /\ Len(Tail(way)) = 0
    BY <1>1, <1>2
  <2>2. Tail(way) = <<>>
    BY <2>0, <2>1
  <2> QED
    BY <1>1, <1>2, <2>2
<1>3. CASE Len(way) # 1
  <2>1. Tail(way) # <<>> /\ Len(Tail(way)) \in 1..Len(Tail(way))
    BY <1>1, <1>3
  <2>2. \A k \in 1..(Len(way) - 1) : Tail(way)[k] = way[k + 1]
    BY <1>1
  <2>3. Tail(way)[Len(way) - 1] = way[Len(way)]
    BY <1>1, <1>3, <2>2
  <2> QED
    BY <1>1, <2>1, <2>3
<1> QED
  BY <1>2, <1>3

LEMMA EndsSent ==
    ASSUME NEW S, NEW way \in Seq(S), NEW a \in S
    PROVE  Append(way, a) # <<>> /\ Append(way, a)[Len(Append(way, a))] = a
OBVIOUS

LEMMA FollowStep ==
    ASSUME TypeOK, TypeOK', ViewTypes, CopiesFollow, [AraNext]_araVars
    PROVE  CopiesFollow'
<1> USE DEF podVars, nodeVars, viewVars
<1>0. /\ watch \in Seq(NodeAnnotations) /\ pending \in Seq(NodeAnnotations) /\ anno' \in NodeAnnotations
      /\ Ends(seen, watch) /\ Ends(view, pending)
  BY DEF TypeOK, ViewTypes, CopiesFollow
<1>1. Ends(seen, watch)'
  <2>1. CASE ObserveNode
    <3>1. watch # <<>> /\ seen' = Head(watch) /\ watch' = Tail(watch) /\ anno' = anno
      BY <2>1 DEF ObserveNode
    <3> QED
      BY <1>0, <3>1, EndsTaken DEF Ends
  <2>2. ASSUME NEW w \in Workers, PatchNodeAnnotation(w) PROVE Ends(seen, watch)'
    <3>1. watch' = Append(watch, anno')
      BY <2>2 DEF PatchNodeAnnotation, WriteNode
    <3> QED
      BY <1>0, <3>1, EndsSent DEF Ends
  <2>3. CASE Restart
    BY <2>3 DEF Restart, Ends
  <2>4. UNCHANGED <<seen, watch, anno>> \/ ObserveNode \/ Restart \/ \E w \in Workers : PatchNodeAnnotation(w)
    BY DEF AraNext, araVars, vars, Schedule, DeletePod, RemovePod, PodChanges, ObserveView, Controller,
           ControllerFails, ObservePod, handleUpdateEvent, Reconcile, SkipPolicy, PatchFails
  <2> QED
    BY <1>0, <2>1, <2>2, <2>3, <2>4 DEF Ends
<1>2. Ends(view, pending)'
  <2>1. CASE ObserveView
    <3>1. pending # <<>> /\ view' = Head(pending) /\ pending' = Tail(pending) /\ anno' = anno
      BY <2>1 DEF ObserveView, vars
    <3> QED
      BY <1>0, <3>1, EndsTaken DEF Ends
  <2>2. CASE Controller
    <3>1. view' = view /\ pending' = IF anno' # anno THEN Append(pending, anno') ELSE pending
      BY <2>2 DEF Controller
    <3> QED
      BY <1>0, <3>1, EndsSent DEF Ends
  <2>3. UNCHANGED <<view, pending, anno>> \/ ObserveView \/ Controller
    BY DEF AraNext, araVars, vars, Schedule, DeletePod, RemovePod, PodChanges, ControllerFails, PatchFails
  <2> QED
    BY <1>0, <2>1, <2>2, <2>3 DEF Ends
<1> QED
  BY <1>1, <1>2 DEF CopiesFollow

LEMMA JobsStep ==
    ASSUME TypeOK, ListerTrue, JobsTrue, [AraNext]_araVars
    PROVE  JobsTrue'
<1> USE DEF podVars
<1>0. UNCHANGED deploy /\ \A p \in Pods : pod[p] \in {"terminating", "gone"} => pod'[p] \in {"terminating", "gone"}
  BY DayFixed, PodsStep DEF PodStep
<1>1. ASSUME \A w \in Busy' : /\ w \in Busy /\ worker'[w].pod = worker[w].pod
                              /\ worker'[w].usages = worker[w].usages
                              /\ worker'[w].mergeType = worker[w].mergeType
      PROVE  JobsTrue'
  <2>1. \A w \in Busy : worker[w].pod \in Pods
    BY JobTypes DEF Busy
  <2> QED
    BY <1>0, <1>1, <2>1 DEF JobsTrue
<1>2. ASSUME NEW v \in Workers, Reconcile(v) PROVE JobsTrue'
  <2>1. PICK p \in queue \ Processing :
          \/ UNCHANGED worker
          \/ /\ DeployOf[p] # NoDeploy
             /\ worker' = [worker EXCEPT ![v] =
                      [pod |-> p, mergeType |-> IF podSeen[p] = "terminating" THEN "sub" ELSE "add",
                       usages |-> deploy[DeployOf[p]], node |-> seen, i |-> 1]]
    BY <1>2 DEF Reconcile
  <2>2. CASE UNCHANGED worker
    BY <1>1, <2>2 DEF Busy
  <2>3. CASE ~ UNCHANGED worker
    <3>1. p \in Pods /\ pod[p] \in PodState
      BY DEF TypeOK
    <3>2. podSeen[p] = "terminating" => pod[p] \in {"terminating", "gone"}
      BY <3>1 DEF ListerTrue, Versions, PodState
    <3>3. /\ DeployOf[p] # NoDeploy /\ \A w \in Workers \ {v} : worker'[w] = worker[w]
          /\ worker'[v].pod = p /\ worker'[v].usages = deploy[DeployOf[p]]
          /\ worker'[v].mergeType = "sub" => podSeen[p] = "terminating"
      BY <2>1, <2>3 DEF TypeOK
    <3>4. pod' = pod
      BY <1>2 DEF Reconcile
    <3> QED
      BY <1>0, <3>2, <3>3, <3>4 DEF JobsTrue, Busy
  <2> QED
    BY <2>2, <2>3
<1>3. ASSUME NEW v \in Workers, SkipPolicy(v) \/ PatchNodeAnnotation(v) PROVE JobsTrue'
  <2>1. worker[v] # Idle /\ Advance(v)
    BY <1>3 DEF SkipPolicy, PatchNodeAnnotation, Patching
  <2>2. ASSUME NEW w \in Busy'
        PROVE  /\ w \in Busy /\ worker'[w].pod = worker[w].pod
               /\ worker'[w].usages = worker[w].usages /\ worker'[w].mergeType = worker[w].mergeType
    <3>1. w \in Busy /\ worker'[w].pod = worker[w].pod /\ worker'[w].mergeType = worker[w].mergeType
      BY <2>1, AdvanceBusy
    <3>2. worker'[w].usages = worker[w].usages
      BY <2>1, AdvanceJob DEF Busy
    <3> QED
      BY <3>1, <3>2
  <2> QED
    BY <1>1, <2>2
<1>4. ASSUME NEW v \in Workers, PatchFails(v) PROVE JobsTrue'
  <2>1. \A w \in Workers : worker'[w] = worker[w] \/ worker'[w] = Idle
    BY <1>4 DEF PatchFails, TypeOK
  <2> QED
    BY <1>1, <2>1 DEF Busy
<1>5. CASE Restart
  BY <1>5 DEF Restart, Busy, JobsTrue
<1>6. \/ UNCHANGED worker \/ Restart
      \/ \E v \in Workers : Reconcile(v) \/ SkipPolicy(v) \/ PatchNodeAnnotation(v) \/ PatchFails(v)
  BY DEF AraNext, araVars, vars, Schedule, DeletePod, RemovePod, PodChanges, ObserveView, Controller,
         ControllerFails, ObservePod, ObserveNode, handleUpdateEvent
<1>7. CASE UNCHANGED worker
  BY <1>1, <1>7 DEF Busy
<1> QED
  BY <1>2, <1>3, <1>4, <1>5, <1>6, <1>7

LEMMA BookkeepingStep ==
    ASSUME TypeOK, TypeOK', ViewTypes, Bookkeeping, [AraNext]_araVars
    PROVE  Bookkeeping'
BY ListerStep, NotesStep, FollowStep, JobsStep DEF Bookkeeping

(* Once all is settled no pod is on its way, and there is one copy.        *)
LEMMA SettledBooks ==
    ASSUME TypeOK, ViewTypes, Bookkeeping, Settled
    PROVE  Unsettled = {} /\ Copies = {anno[Metric1]}
<1>1. podSeen = pod /\ notes = <<>> /\ queue = {} /\ Busy = {} /\ watch = <<>> /\ pending = <<>>
  BY DEF Settled
<1>2. Noted = {}
  BY <1>1 DEF Noted
<1>3. Unsettled = {}
  BY <1>1, <1>2 DEF Unsettled, Tasks
<1>4. seen = anno /\ view = anno
  BY <1>1 DEF Bookkeeping, CopiesFollow, Ends
<1>5. Copies = {anno[Metric1]}
  <2>1. DOMAIN watch = {} /\ DOMAIN pending = {}
    BY <1>1
  <2> QED
    BY <1>1, <1>4, <2>1 DEF Copies
<1> QED
  BY <1>3, <1>5

-----------------------------------------------------------------------------
(* How pods come to be settled.                                            *)

(* The controller keeps the delta that Filter reads.                       *)
Listed == \E k \in DOMAIN Policies : Policies[k] = Metric1

LEMMA TasksReconcile ==
    ASSUME Listed, TypeOK, NEW w \in Workers, NEW p \in queue \ Processing,
           worker[w] = Idle,
           worker' = [worker EXCEPT ![w] =
                      [pod |-> p, mergeType |-> IF podSeen[p] = "terminating" THEN "sub" ELSE "add",
                       usages |-> deploy[DeployOf[p]], node |-> seen, i |-> 1]],
           DeployOf[p] # NoDeploy
    PROVE  Tasks' = Tasks \cup {p}
<1>1. /\ worker'[w].pod = p /\ worker'[w].i = 1
      /\ \A v \in Workers \ {w} : worker'[v] = worker[v]
  BY DEF TypeOK
<1>a. worker'[w] # Idle
  <2>1. /\ p \in Pods /\ 1 \in 1..Len(Policies) /\ deploy[DeployOf[p]] \in DeployAnnotations
        /\ seen \in NodeAnnotations
    BY PolicyAssumption, PolicyTypes DEF TypeOK
  <2>2. [pod |-> p, mergeType |-> IF podSeen[p] = "terminating" THEN "sub" ELSE "add",
         usages |-> deploy[DeployOf[p]], node |-> seen, i |-> 1] \in Job
    BY <2>1 DEF Job
  <2> QED
    BY <2>2, MarkerAssumption DEF TypeOK
<1>2. w \notin Busy /\ Busy' = Busy \cup {w}
  BY <1>1, <1>a DEF Busy
<1>3. Due(w)'
  <2>1. PICK k \in 1..Len(Policies) : Policies[k] = Metric1
    BY PolicyAssumption DEF Listed
  <2> QED
    BY <1>1, <2>1 DEF Due
<1>4. \A v \in Busy : v \in Workers \ {w} /\ worker'[v] = worker[v]
  BY <1>1, <1>2 DEF Busy
<1>5. \A v \in Busy : Due(v)' <=> Due(v)
  BY <1>4 DEF Due
<1>6. Tasks' \subseteq Tasks \cup {p}
  BY <1>1, <1>2, <1>4, <1>5 DEF Tasks
<1>7. Tasks \subseteq Tasks' /\ p \in Tasks'
  BY <1>1, <1>2, <1>3, <1>4, <1>5 DEF Tasks
<1> QED
  BY <1>6, <1>7

LEMMA TasksAdvance ==
    ASSUME TypeOK, NEW w \in Workers, worker[w] # Idle, Advance(w)
    PROVE  /\ Tasks' \subseteq Tasks
           /\ \A p \in Tasks \ Tasks' : p = worker[w].pod /\ Metric(w) = Metric1
<1>0. Len(Policies) \in Nat /\ worker[w].i \in 1..Len(Policies)
  BY JobTypes, PolicyTypes
<1>1. ASSUME NEW v \in Busy' PROVE v \in Busy /\ worker'[v].pod = worker[v].pod /\ (Due(v)' => Due(v))
  <2>1. /\ v \in Busy /\ worker'[v].pod = worker[v].pod /\ worker[v].i \in 1..Len(Policies)
        /\ worker'[v].i = worker[v].i \/ worker'[v].i = worker[v].i + 1
    BY AdvanceBusy
  <2>2. \A k \in worker'[v].i..Len(Policies) : k \in worker[v].i..Len(Policies)
    BY <1>0, <2>1
  <2> QED
    BY <2>1, <2>2 DEF Due
<1>2. Tasks' \subseteq Tasks
  BY <1>1 DEF Tasks
<1>3. ASSUME NEW p \in Tasks \ Tasks' PROVE p = worker[w].pod /\ Metric(w) = Metric1
  <2>1. PICK v \in Busy : Due(v) /\ worker[v].pod = p
    BY <1>3 DEF Tasks
  <2>2. CASE v # w
    <3>1. v \in Workers /\ worker'[v] = worker[v]
      BY <2>2, AdvanceJob DEF Busy
    <3>2. v \in Busy' /\ Due(v)' /\ worker'[v].pod = p
      BY <2>1, <3>1 DEF Busy, Due
    <3> QED
      BY <1>3, <3>2 DEF Tasks
  <2>3. CASE v = w
    <3> SUFFICES ASSUME Metric(w) # Metric1 PROVE FALSE
      BY <2>1, <2>3
    <3>1. PICK k \in worker[w].i..Len(Policies) : Policies[k] = Metric1
      BY <2>1, <2>3 DEF Due
    <3>2. k # worker[w].i
      BY <3>1 DEF Metric
    <3>3. worker[w].i < Len(Policies) /\ k \in (worker[w].i + 1)..Len(Policies)
      BY <1>0, <3>1, <3>2
    <3>4. worker' = [worker EXCEPT ![w] = [worker[w] EXCEPT !.i = worker[w].i + 1]]
      <4>1. worker[w].i # Len(Policies)
        BY <1>0, <3>3
      <4> QED
        BY <4>1 DEF Advance
    <3>5. worker[w] \in Job /\ DOMAIN worker = Workers
      BY JobTypes DEF TypeOK
    <3>6. worker'[w].i = worker[w].i + 1 /\ worker'[w].pod = worker[w].pod
      BY <3>4, <3>5 DEF Job
    <3>7. worker'[w] # Idle
      <4>1. [worker[w] EXCEPT !.i = worker[w].i + 1] \in Job
        <5>1. worker[w].i + 1 \in 1..Len(Policies)
          BY <1>0, <3>3
        <5> QED
          BY <3>5, <5>1 DEF Job
      <4> QED
        BY <3>4, <3>5, <4>1, MarkerAssumption
    <3>8. w \in Busy' /\ Due(w)'
      BY <3>1, <3>3, <3>6, <3>7 DEF Busy, Due
    <3> QED
      BY <1>3, <2>1, <2>3, <3>6, <3>8 DEF Tasks
  <2> QED
    BY <2>2, <2>3
<1> QED
  BY <1>2, <1>3

(* Observing and queueing a change leaves the pod on its way, unless the   *)
(* pod is no longer there; so does taking its key, unless there is nothing *)
(* to do for it.                                                           *)
LEMMA UnsettledSame ==
    ASSUME UNCHANGED <<pod, podSeen, notes, queue, worker>>
    PROVE  Unsettled' = Unsettled
BY DEF Unsettled, Noted, Tasks, Busy, Due

LEMMA UnsettledObserve ==
    ASSUME TypeOK, TypeOK', NEW p \in Pods, NEW s \in PodState, ObservePod(p, s)
    PROVE  /\ Unsettled' \subseteq Unsettled
           /\ \A q \in Unsettled \ Unsettled' : pod[q] # "scheduled"
<1>1. /\ s \in Versions[pod[p]] /\ Stage[podSeen[p]] < Stage[s] /\ podSeen' = [podSeen EXCEPT ![p] = s]
      /\ notes' = IF s \in Removed THEN notes ELSE Append(notes, [pod |-> p, old |-> podSeen[p], new |-> s])
      /\ UNCHANGED <<pod, queue, worker>>
  BY DEF ObservePod
<1>2. pod[p] \in PodState /\ podSeen[p] \in PodState /\ podSeen \in [Pods -> PodState] /\ notes \in Seq(Note)
  BY DEF TypeOK
<1>3. Tasks' = Tasks
  BY <1>1 DEF Tasks, Busy, Due
<1>4. podSeen'[p] = s /\ \A q \in Pods \ {p} : podSeen'[q] = podSeen[q]
  BY <1>1, <1>2
<1>5. p \in Unsettled \/ s \in Removed
  <2>1. \/ s \in Removed
        \/ podSeen[p] = "pending" /\ pod[p] # "pending"
        \/ podSeen[p] = "scheduled" /\ pod[p] \in {"terminating", "gone"}
    BY <1>1, <1>2 DEF Versions, Stage, PodState, Removed
  <2> QED
    BY <2>1 DEF Unsettled
<1>6. CASE s \in Removed
  <2>1. Noted' = Noted
    BY <1>1, <1>6 DEF Noted
  <2>2. pod[p] \in {"gone", "killed"} /\ s # "pending" /\ s # "scheduled"
    BY <1>1, <1>2, <1>6 DEF Versions, PodState, Removed
  <2>3. \A q \in Pods \ {p} : q \in Unsettled' <=> q \in Unsettled
    BY <1>1, <1>3, <1>4, <2>1 DEF Unsettled
  <2>4. p \in Unsettled' => p \in Unsettled
    BY <1>1, <1>3, <1>4, <2>1, <2>2 DEF Unsettled
  <2>5. Unsettled \subseteq Pods /\ Unsettled' \subseteq Pods
    BY DEF Unsettled
  <2> QED
    BY <2>2, <2>3, <2>4, <2>5
<1>7. CASE s \notin Removed
  <2>1. Noted' = Noted \cup {p}
    <3> DEFINE n == [pod |-> p, old |-> podSeen[p], new |-> s]
    <3>1. n \in Note /\ n.pod = p /\ notes' = Append(notes, n)
      BY <1>1, <1>2, <1>7 DEF Note
    <3> HIDE DEF n
    <3>2. /\ \A k \in DOMAIN notes' : notes'[k] = n \/ (k \in DOMAIN notes /\ notes'[k] = notes[k])
          /\ \A k \in DOMAIN notes : k \in DOMAIN notes' /\ notes'[k] = notes[k]
          /\ Len(notes) + 1 \in DOMAIN notes' /\ notes'[Len(notes) + 1] = n
      BY <1>2, <3>1
    <3> QED
      BY <3>1, <3>2 DEF Noted
  <2>2. \A q \in Pods \ {p} : q \in Unsettled' <=> q \in Unsettled
    BY <1>1, <1>3, <1>4, <2>1 DEF Unsettled
  <2>3. p \in Unsettled' /\ p \in Unsettled
    BY <1>5, <1>7, <2>1 DEF Unsettled
  <2>4. Unsettled \subseteq Pods /\ Unsettled' \subseteq Pods
    BY DEF Unsettled
  <2> QED
    BY <2>2, <2>3, <2>4
<1> QED
  BY <1>6, <1>7

LEMMA UnsettledQueued ==
    ASSUME TypeOK, NotesMatter, handleUpdateEvent
    PROVE  Unsettled' = Unsettled
<1> DEFINE n == Head(notes)
<1>1. notes # <<>> /\ notes' = Tail(notes) /\ UNCHANGED <<pod, podSeen, worker>> /\ notes \in Seq(Note)
  BY DEF handleUpdateEvent, TypeOK
<1>2. 1 \in DOMAIN notes /\ n = notes[1]
  BY <1>1
<1>3. queue' = queue \cup {n.pod}
  BY <1>2 DEF handleUpdateEvent, NotesMatter
<1>4. /\ \A k \in DOMAIN notes' : k + 1 \in DOMAIN notes /\ notes'[k] = notes[k + 1]
      /\ \A k \in DOMAIN notes : k = 1 \/ (k - 1 \in DOMAIN notes' /\ notes'[k - 1] = notes[k])
  BY <1>1
<1> HIDE DEF n
<1>5. Noted' \subseteq Noted /\ n.pod \in Noted /\ Noted \subseteq Noted' \cup {n.pod}
  BY <1>2, <1>4 DEF Noted
<1>6. Tasks' = Tasks
  BY <1>1 DEF Tasks, Busy, Due
<1> QED
  BY <1>1, <1>3, <1>5, <1>6 DEF Unsettled

LEMMA UnsettledReconcile ==
    ASSUME Listed, TypeOK, ListerTrue, NEW w \in Workers, Reconcile(w)
    PROVE  /\ Unsettled' \subseteq Unsettled
           /\ \A q \in Unsettled \ Unsettled' : pod[q] # "scheduled" \/ ~ Known(q)
<1>1. PICK p \in queue \ Processing :
          /\ queue' = queue \ {p}
          /\ \/ /\ podSeen[p] \in Removed \/ DeployOf[p] = NoDeploy
                /\ UNCHANGED worker
             \/ /\ DeployOf[p] # NoDeploy
                /\ worker' = [worker EXCEPT ![w] =
                      [pod |-> p, mergeType |-> IF podSeen[p] = "terminating" THEN "sub" ELSE "add",
                       usages |-> deploy[DeployOf[p]], node |-> seen, i |-> 1]]
  BY DEF Reconcile
<1>2. worker[w] = Idle /\ UNCHANGED <<pod, podSeen, notes>> /\ p \in Pods /\ p \in Unsettled
  BY <1>1 DEF Reconcile, podVars, Unsettled, TypeOK
<1>3. Noted' = Noted
  BY <1>2 DEF Noted
<1>4. CASE (podSeen[p] \in Removed \/ DeployOf[p] = NoDeploy) /\ UNCHANGED worker
  <2>1. Tasks' = Tasks
    BY <1>4 DEF Tasks, Busy, Due
  <2>2. Unsettled' \subseteq Unsettled /\ \A q \in Unsettled \ Unsettled' : q = p
    BY <1>1, <1>2, <1>3, <2>1 DEF Unsettled
  <2>3. pod[p] # "scheduled" \/ ~ Known(p)
    <3>1. pod[p] \in PodState
      BY <1>2 DEF TypeOK
    <3> QED
      BY <1>2, <1>4, <3>1 DEF ListerTrue, Versions, Removed, Known, PodState
  <2> QED
    BY <2>2, <2>3
<1>5. CASE /\ DeployOf[p] # NoDeploy
           /\ worker' = [worker EXCEPT ![w] =
                      [pod |-> p, mergeType |-> IF podSeen[p] = "terminating" THEN "sub" ELSE "add",
                       usages |-> deploy[DeployOf[p]], node |-> seen, i |-> 1]]
  <2>1. Tasks' = Tasks \cup {p}
    BY <1>2, <1>5, TasksReconcile
  <2>2. Unsettled' = Unsettled
    BY <1>1, <1>2, <1>3, <2>1 DEF Unsettled
  <2> QED
    BY <2>2
<1> QED
  BY <1>1, <1>4, <1>5

LEMMA UnsettledAdvance ==
    ASSUME TypeOK, NEW w \in Workers, SkipPolicy(w) \/ PatchNodeAnnotation(w)
    PROVE  /\ Unsettled' \subseteq Unsettled
           /\ \A q \in Unsettled \ Unsettled' : q = worker[w].pod /\ Metric(w) = Metric1
<1>1. worker[w] # Idle /\ Advance(w) /\ UNCHANGED <<pod, podSeen, notes, queue>>
  BY DEF SkipPolicy, PatchNodeAnnotation, Patching, podVars
<1>2. Noted' = Noted
  BY <1>1 DEF Noted
<1> QED
  BY <1>1, <1>2, TasksAdvance DEF Unsettled

LEMMA UnsettledDropped ==
    ASSUME TypeOK, Restart \/ \E w \in Workers : PatchFails(w)
    PROVE  Unsettled' \subseteq Unsettled
<1>1. CASE Restart
  <2>1. podSeen' = pod /\ notes' = <<>> /\ queue' = {} /\ Busy' = {} /\ pod' = pod
    BY <1>1 DEF Restart, Busy
  <2>2. Noted' = {} /\ Tasks' = {}
    BY <2>1 DEF Noted, Tasks
  <2> QED
    BY <2>1, <2>2 DEF Unsettled
<1>2. ASSUME NEW w \in Workers, PatchFails(w) PROVE Unsettled' \subseteq Unsettled
  <2>1. UNCHANGED <<pod, podSeen, notes, queue>> /\ \A v \in Workers : worker'[v] = Idle \/ worker'[v] = worker[v]
    BY <1>2 DEF PatchFails, podVars, TypeOK
  <2>2. Noted' = Noted
    BY <2>1 DEF Noted
  <2>3. \A v \in Busy' : v \in Busy /\ worker'[v] = worker[v]
    BY <2>1 DEF Busy
  <2>4. Tasks' \subseteq Tasks
    BY <2>3 DEF Tasks, Due
  <2> QED
    BY <2>1, <2>2, <2>4 DEF Unsettled
<1> QED
  BY <1>1, <1>2

(* A pod that is placed or deleted is on its way.                          *)
LEMMA UnsettledChange ==
    ASSUME TypeOK, ListerTrue, NEW p \in Pods, NEW s \in PodState, PodChanges(p, s)
    PROVE  /\ Unsettled' \subseteq Unsettled \cup {p}
           /\ s \in {"scheduled", "terminating"} => p \in Unsettled'
           /\ s \notin {"scheduled", "terminating"} => Unsettled' = Unsettled
<1>1. <<pod[p], s>> \in PodStep /\ pod' = [pod EXCEPT ![p] = s] /\ UNCHANGED <<podSeen, notes, queue, worker>>
  BY DEF PodChanges
<1>2. pod \in [Pods -> PodState] /\ podSeen[p] \in PodState
  BY DEF TypeOK
<1>3. Noted' = Noted /\ Tasks' = Tasks
  BY <1>1 DEF Noted, Tasks, Busy, Due
<1>4. pod'[p] = s /\ \A q \in Pods \ {p} : pod'[q] = pod[q]
  BY <1>1, <1>2
<1>5. \A q \in Pods \ {p} : q \in Unsettled' <=> q \in Unsettled
  BY <1>1, <1>3, <1>4 DEF Unsettled
<1>6. Unsettled \subseteq Pods /\ Unsettled' \subseteq Pods
  BY DEF Unsettled
<1>7. s \in {"scheduled", "terminating"} => p \in Unsettled'
  <2>1. podSeen[p] = "pending" \/ podSeen[p] \in Versions[pod[p]]
    BY DEF ListerTrue
  <2>2. s \in {"scheduled", "terminating"} =>
            podSeen[p] = "pending" \/ (podSeen[p] = "scheduled" /\ s = "terminating")
    BY <1>1, <1>2, <2>1 DEF PodStep, Versions
  <2> QED
    BY <1>1, <1>4, <2>2 DEF Unsettled
<1>8. s \notin {"scheduled", "terminating"} => (p \in Unsettled' <=> p \in Unsettled)
  <2>1. s \notin {"scheduled", "terminating"} =>
            (pod[p] = "terminating" /\ s = "gone") \/ (pod[p] = "scheduled" /\ s = "killed")
    BY <1>1 DEF PodStep
  <2> QED
    BY <1>1, <1>3, <1>4, <2>1 DEF Unsettled
<1> QED
  BY <1>5, <1>6, <1>7, <1>8

-----------------------------------------------------------------------------
(* The books are kept.                                                     *)

LEMMA ShownStep ==
    ASSUME TypeOK, TypeOK', ViewTypes, [AraNext]_araVars, NEW j
    PROVE  /\ Shown(j)' \subseteq Shown(j) \cup {DeltaAt(anno[Metric1], j)'}
           /\ anno'[Metric1] = anno[Metric1] =>
                 DeltaAt(anno[Metric1], j)' = DeltaAt(anno[Metric1], j) /\ Shown(j)' \subseteq Shown(j)
<1>1. \A a : DeltaAt(a, j)' = DeltaAt(a, j)
  BY DayFixed, BookFixed
<1>2. Copies' \subseteq Copies \cup {anno'[Metric1]} /\ anno[Metric1] \in Copies
  BY CopiesStep, CopyTypes
<1>3. UNCHANGED node
  BY DayFixed
<1>4. \A a \in Copies' : DeltaAt(a, j) \in Shown(j) \cup {DeltaAt(anno[Metric1], j)'}
  BY <1>2, <1>3 DEF Shown, DeltaAt
<1>5. Shown(j)' = {DeltaAt(a, j) : a \in Copies'}
  BY <1>3 DEF Shown, DeltaAt
<1>6. Shown(j)' \subseteq Shown(j) \cup {DeltaAt(anno[Metric1], j)'}
  BY <1>4, <1>5
<1>7. anno'[Metric1] = anno[Metric1] => DeltaAt(anno[Metric1], j)' = DeltaAt(anno[Metric1], j)
  BY <1>3 DEF DeltaAt
<1>8. DeltaAt(anno[Metric1], j) \in Shown(j)
  BY <1>2 DEF Shown
<1> QED
  BY <1>6, <1>7, <1>8

LEMMA ClaimsSame ==
    ASSUME [AraNext]_araVars, pod' = pod, subs'[Metric1] = subs[Metric1], NEW j
    PROVE  Claim(j)' = Claim(j) /\ Cost(j)' = Cost(j) /\ Claimed(j)' = Claimed(j) /\ Repeated' = Repeated
<1>1. \A p : Expected(p, j)' = Expected(p, j)
  BY DayFixed, BookFixed
<1>2. \A p \in Pods : Claims(p)' <=> Claims(p)
  BY DEF Claims
<1>3. Claim(j)' = Claim(j) /\ Cost(j)' = Cost(j)
  BY <1>1, <1>2 DEF Claim, Cost
<1>4. Claimed(j)' = Claimed(j)
  BY <1>3 DEF Claimed
<1>5. Repeated' = Repeated
  BY DEF Repeated
<1> QED
  BY <1>3, <1>4, <1>5

(* Steps that leave the pods and the annotation alone, and settle no pod   *)
(* that costs anything.                                                    *)
LEMMA QuietBooks ==
    ASSUME AraTypeOK, TypeOK', ViewTypes, Comparable, [AraNext]_araVars,
           NEW j \in DOMAIN node.range, Shortfall(j),
           pod' = pod, subs'[Metric1] = subs[Metric1], anno'[Metric1] = anno[Metric1],
           UNCHANGED <<hasty, failed, restarts>>,
           Unsettled' \subseteq Unsettled, \A q \in Unsettled \ Unsettled' : Cost(j)[q] = 0
    PROVE  Shortfall(j)'
<1>0. TypeOK
  BY DEF AraTypeOK
<1>1. /\ Cost(j) \in [Pods -> Nat] /\ Claimed(j) \in Int /\ Unsettled \in SUBSET Pods
      /\ Shown(j) \in SUBSET Int /\ DeltaAt(anno[Metric1], j) \in Shown(j)
  BY <1>0, BookTypes
<1>2. Slack \in Int
  BY SlackType
<1>3. Claimed(j)' = Claimed(j) /\ Cost(j)' = Cost(j) /\ Repeated' = Repeated
  BY ClaimsSame
<1>4. Slack' = Slack
  BY <1>3 DEF Slack, Lapses
<1>5. DeltaAt(anno[Metric1], j)' = DeltaAt(anno[Metric1], j) /\ Shown(j)' \in SUBSET Shown(j)
  BY <1>0, ShownStep
<1>6. Within(Shown(j)', DeltaAt(anno[Metric1], j), Unsettled', Claimed(j), Slack, Cost(j))
  BY <1>1, <1>2, <1>5, WithinQuiet DEF Shortfall
<1> QED
  BY <1>3, <1>4, <1>5, <1>6 DEF Shortfall

(* A failed patch, or a restart.                                           *)
LEMMA LapseBooks ==
    ASSUME AraTypeOK, TypeOK', ViewTypes, Comparable, [AraNext]_araVars,
           NEW j \in DOMAIN node.range, Shortfall(j),
           pod' = pod, subs' = subs, anno' = anno, hasty' = hasty, failed' + restarts' = failed + restarts + 1,
           failed' \in Nat, restarts' \in Nat,
           Unsettled' \subseteq Unsettled
    PROVE  Shortfall(j)'
<1>0. TypeOK
  BY DEF AraTypeOK
<1>1. /\ Cost(j) \in [Pods -> Nat] /\ Claimed(j) \in Int /\ Unsettled \in SUBSET Pods
      /\ Shown(j) \in SUBSET Int /\ DeltaAt(anno[Metric1], j) \in Shown(j)
  BY <1>0, BookTypes
<1>2. Slack \in Int /\ Lapses \in Nat
  BY SlackType
<1>3. Claimed(j)' = Claimed(j) /\ Cost(j)' = Cost(j) /\ Repeated' = Repeated
  BY ClaimsSame
<1>4. Slack' = Slack + MaxUsage
  <2>1. hasty \in Nat /\ failed \in Nat /\ restarts \in Nat /\ Repeated \in Nat
    BY LapseTypes
  <2>2. Lapses' = hasty + failed' + restarts' + Repeated
    BY <1>3 DEF Lapses
  <2>3. Lapses' = Lapses + 1
    <3>1. PICK f \in Nat, r \in Nat : f = failed' /\ r = restarts'
      OBVIOUS
    <3>2. Lapses = hasty + failed + restarts + Repeated /\ Lapses' = hasty + f + r + Repeated
      BY <2>2, <3>1 DEF Lapses
    <3>3. f + r = failed + restarts + 1
      BY <3>1
    <3> QED
      BY <2>1, <3>2, <3>3
  <2> QED
    BY <1>2, <2>3, SlackMore
<1>5. DeltaAt(anno[Metric1], j)' = DeltaAt(anno[Metric1], j) /\ Shown(j)' \in SUBSET Shown(j)
  BY <1>0, ShownStep
<1>6. Within(Shown(j)', DeltaAt(anno[Metric1], j), Unsettled', Claimed(j), Slack + MaxUsage, Cost(j))
  BY <1>1, <1>2, <1>5, WithinLapse DEF Shortfall
<1> QED
  BY <1>3, <1>4, <1>5, <1>6 DEF Shortfall

(* What a patch of Metric1 shows: the copy that the job has read, with the *)
(* usage of its pod added or subtracted.                                   *)
LEMMA PatchShows ==
    ASSUME TypeOK, ViewTypes, Bookkeeping, Comparable, LengthsMatch, UNCHANGED node,
           NEW w \in Workers, PatchNodeAnnotation(w), Metric(w) = Metric1, NEW j \in DOMAIN node.range
    PROVE  /\ Len(UsageRange(anno'[Metric1])) \in {0, Len(node.range)}
           /\ DeltaAt(anno[Metric1], j)' =
                 IF worker[w].mergeType = "add"
                 THEN DeltaAt(worker[w].node[Metric1], j) + Expected(worker[w].pod, j)
                 ELSE DeltaAt(worker[w].node[Metric1], j) - Expected(worker[w].pod, j)
<1> DEFINE p == worker[w].pod
           mt == worker[w].mergeType
           delta == Delta(w)
           usage == Usage(w)
           r == MergeUsageRange(delta, usage, mt)
           N == Len(node.range)
<1>1. /\ worker[w] # Idle /\ w \in Busy /\ Merges(w) /\ p \in Pods /\ mt \in {"add", "sub"}
      /\ anno' = [anno EXCEPT ![Metric1] = r] /\ Patching(w)
  BY JobTypes DEF PatchNodeAnnotation, Patching, Busy, WriteNode
<1>2. delta \in Seq(Int) /\ usage \in Seq(Nat) /\ r \in Seq(Int)
  BY <1>1, MergeArguments, MergeType
<1>3. anno'[Metric1] = r
  BY <1>1, NodeAssumption DEF TypeOK, NodeAnnotations
<1>4. r # Absent
  BY <1>2, MarkerAssumption DEF Values
<1>5. UsageRange(anno'[Metric1]) = r
  BY <1>3, <1>4 DEF UsageRange
<1>6. DeltaAt(anno[Metric1], j)' = IF Len(r) = N THEN r[j] ELSE 0
  BY <1>5 DEF DeltaAt, UsageRange
<1>7. worker[w].node[Metric1] \in Copies /\ delta = UsageRange(worker[w].node[Metric1])
  BY <1>1 DEF Copies, Delta
<1>8. Len(delta) \in {0, N}
  BY <1>7 DEF LengthsMatch
<1>9. DeltaAt(worker[w].node[Metric1], j) = IF Len(delta) = N THEN delta[j] ELSE 0
  BY <1>7 DEF DeltaAt
<1>10. N \in Nat \ {0} /\ j \in 1..N
  BY RangeType
<1>11. /\ DeployOf[p] # NoDeploy /\ worker[w].usages = deploy[DeployOf[p]]
       /\ deploy[DeployOf[p]][Metric1] # Expired /\ usage = UsageRange(deploy[DeployOf[p]][Metric1])
       /\ Mergeable(delta, usage, mt)
  BY <1>1 DEF Bookkeeping, JobsTrue, Merges, Usage
<1> HIDE DEF p, mt, delta, usage, r, N
<1>12. CASE Known(p)
  <2>1. usage = UsageOf(p) /\ Len(usage) = N /\ Expected(p, j) = usage[j] /\ usage[j] \in Nat
    <3>1. usage = UsageOf(p)
      BY <1>11, <1>12 DEF Known, UsageOf, UsageRange
    <3>2. Len(usage) = N
      BY <1>1, <1>12, <3>1 DEF Comparable, N
    <3> QED
      BY <1>2, <1>10, <1>12, <3>1, <3>2 DEF Expected
  <2>2. DOMAIN usage = 1..N
    BY <1>2, <2>1
  <2>3. CASE delta = <<>> /\ mt = "add"
    <3>1. r = usage /\ Len(delta) = 0
      BY <2>3 DEF r, MergeUsageRange
    <3> QED
      BY <1>5, <1>6, <1>9, <1>10, <2>1, <2>3, <3>1 DEF p, mt, N
  <2>4. CASE ~ (delta = <<>> /\ mt = "add")
    <3> DEFINE old == IF Len(delta) = Len(usage) THEN delta ELSE [k \in DOMAIN usage |-> 0]
    <3>1. r = [k \in DOMAIN usage |-> IF mt = "add" THEN old[k] + usage[k] ELSE old[k] - usage[k]]
      BY <2>4 DEF r, MergeUsageRange
    <3>2. old[j] = IF Len(delta) = N THEN delta[j] ELSE 0
      BY <1>10, <2>1, <2>2
    <3> HIDE DEF old
    <3>3. DOMAIN r = 1..N /\ r[j] = IF mt = "add" THEN old[j] + usage[j] ELSE old[j] - usage[j]
      BY <1>10, <2>2, <3>1
    <3>4. Len(r) = N
      BY <1>2, <1>10, <3>3
    <3> QED
      BY <1>5, <1>6, <1>9, <2>1, <3>2, <3>3, <3>4 DEF p, mt, N
  <2> QED
    BY <2>3, <2>4
<1>13. CASE ~ Known(p)
  <2>1. usage = <<>> /\ Expected(p, j) = 0
    BY <1>11, <1>13 DEF Known, UsageRange, Expected
  <2>2. delta = <<>> /\ mt = "add"
    BY <1>11, <2>1 DEF Mergeable
  <2>3. r = <<>>
    BY <2>1, <2>2 DEF r, MergeUsageRange
  <2>4. Len(r) = 0 /\ Len(delta) = 0
    BY <2>2, <2>3
  <2> QED
    BY <1>5, <1>6, <1>9, <1>10, <2>1, <2>2, <2>4 DEF p, mt, N
<1> QED
  BY <1>12, <1>13

(* A patch of another metric leaves the copies of this one as they were.   *)
LEMMA PatchOther ==
    ASSUME TypeOK, NEW w \in Workers, PatchNodeAnnotation(w), Metric(w) # Metric1
    PROVE  anno'[Metric1] = anno[Metric1] /\ subs'[Metric1] = subs[Metric1]
<1>1. Metric1 \in Metrics /\ anno \in NodeAnnotations /\ subs \in [Metrics -> [Pods -> Nat]]
  BY NodeAssumption DEF TypeOK
<1>2. anno'[Metric1] = anno[Metric1]
  BY <1>1 DEF PatchNodeAnnotation, WriteNode, NodeAnnotations
<1>3. subs' = subs \/ subs' = [subs EXCEPT ![Metric(w)][worker[w].pod] = @ + 1]
  BY DEF PatchNodeAnnotation
<1> QED
  BY <1>1, <1>2, <1>3

(* What a subtraction changes in the history.                              *)
LEMMA PatchSubs ==
    ASSUME TypeOK, NEW w \in Workers, PatchNodeAnnotation(w), Metric(w) = Metric1
    PROVE  /\ worker[w].mergeType = "add" => subs' = subs
           /\ worker[w].mergeType = "sub" =>
                 /\ subs'[Metric1][worker[w].pod] = subs[Metric1][worker[w].pod] + 1
                 /\ \A q \in Pods \ {worker[w].pod} : subs'[Metric1][q] = subs[Metric1][q]
<1>1. Metric1 \in Metrics /\ subs \in [Metrics -> [Pods -> Nat]] /\ worker[w].pod \in Pods
  BY JobTypes, NodeAssumption DEF TypeOK, PatchNodeAnnotation, Patching
<1>2. CASE worker[w].mergeType = "add"
  BY <1>2 DEF PatchNodeAnnotation
<1>3. CASE worker[w].mergeType = "sub"
  <2>1. subs' = [subs EXCEPT ![Metric1][worker[w].pod] = @ + 1]
    BY <1>3 DEF PatchNodeAnnotation
  <2> QED
    BY <1>1, <1>3, <2>1, CountType
<1> QED
  BY <1>2, <1>3

LEMMA PatchBooks ==
    ASSUME AraTypeOK, TypeOK', ViewTypes, Bookkeeping, Comparable, LengthsMatch, [AraNext]_araVars,
           UNCHANGED <<hasty, failed>>,
           NEW w \in Workers, PatchNodeAnnotation(w), Metric(w) = Metric1,
           NEW j \in DOMAIN node.range, Shortfall(j)
    PROVE  Shortfall(j)'
<1> DEFINE p == worker[w].pod
           b == DeltaAt(worker[w].node[Metric1], j)
           u == Expected(p, j)
<1>0. TypeOK /\ UNCHANGED <<pod, restarts, node>>
  BY DayFixed DEF AraTypeOK, PatchNodeAnnotation, podVars, counts
<1>1. /\ worker[w] # Idle /\ w \in Busy /\ p \in Pods /\ worker[w].mergeType \in {"add", "sub"}
      /\ worker[w].i \in 1..Len(Policies)
  BY <1>0, JobTypes DEF PatchNodeAnnotation, Patching, Busy
<1>2. /\ Cost(j) \in [Pods -> Nat] /\ Claim(j) \in [Pods -> Nat] /\ Claimed(j) \in Int /\ Unsettled \in SUBSET Pods
      /\ Shown(j) \in SUBSET Int /\ DeltaAt(anno[Metric1], j) \in Shown(j)
  BY <1>0, BookTypes
<1>3. Slack \in Int /\ Lapses \in Nat
  BY SlackType
<1>4. u \in Nat /\ u <= MaxUsage
  BY <1>0, <1>1, ExpectedType
<1>5. b \in Shown(j)
  BY <1>1 DEF Shown, Copies
<1>6. p \in Unsettled
  <2>1. worker[w].i \in worker[w].i..Len(Policies) /\ Policies[worker[w].i] = Metric1
    BY <1>1, PolicyTypes DEF Metric
  <2>2. p \in Tasks
    BY <1>1, <2>1 DEF Tasks, Due
  <2> QED
    BY <1>1, <2>2 DEF Unsettled
<1>7. Unsettled' \in SUBSET Unsettled
  BY <1>0, UnsettledAdvance
<1>8. Shown(j)' \subseteq Shown(j) \cup {DeltaAt(anno[Metric1], j)'}
  BY <1>0, ShownStep
<1>9. Within(Shown(j), DeltaAt(anno[Metric1], j), Unsettled, Claimed(j), Slack, Cost(j))
  BY DEF Shortfall
<1>10. \A q : Expected(q, j)' = Expected(q, j)
  BY DayFixed, BookFixed
<1>11. Cost(j)' = Cost(j)
  BY <1>0, <1>10 DEF Cost
<1>12. CASE worker[w].mergeType = "add"
  <2>1. subs' = subs
    BY <1>0, <1>12, PatchSubs
  <2>2. Claimed(j)' = Claimed(j) /\ Repeated' = Repeated
    BY <1>0, <2>1, ClaimsSame
  <2>3. Slack' = Slack
    BY <1>0, <2>2 DEF Slack, Lapses
  <2>4. DeltaAt(anno[Metric1], j)' = b + u
    BY <1>0, <1>12, PatchShows
  <2>5. Cost(j)[p] <= u
    BY <1>1, <1>4 DEF Cost
  <2> HIDE DEF b, u, p
  <2>6. Shown(j)' \in SUBSET (Shown(j) \cup {b + u})
    BY <1>8, <2>4
  <2>7. Within(Shown(j)', b + u, Unsettled', Claimed(j), Slack, Cost(j))
    BY <1>2, <1>3, <1>4, <1>5, <1>6, <1>7, <1>9, <2>5, <2>6, WithinAdd
  <2> QED
    BY <1>11, <2>2, <2>3, <2>4, <2>7 DEF Shortfall
<1>13. CASE worker[w].mergeType = "sub"
  <2>1. /\ subs'[Metric1][p] = subs[Metric1][p] + 1
        /\ \A q \in Pods \ {p} : subs'[Metric1][q] = subs[Metric1][q]
        /\ subs[Metric1] \in [Pods -> Nat] /\ subs'[Metric1] \in [Pods -> Nat]
    BY <1>0, <1>13, PatchSubs, NodeAssumption DEF TypeOK
  <2>2. pod[p] \in {"terminating", "gone"}
    BY <1>1, <1>13 DEF Bookkeeping, JobsTrue
  <2>3. DeltaAt(anno[Metric1], j)' = b - u
    BY <1>0, <1>1, <1>13, PatchShows
  <2>4. Cost(j)[p] = 0
    BY <1>1, <2>2 DEF Cost
  <2>5. Again \in [Pods -> Nat] /\ Again' \in [Pods -> Nat]
        /\ Repeated = SumFunctionOnSet(Again, Pods) /\ Repeated' = SumFunctionOnSet(Again', Pods)
    BY <1>0, RepeatedSum, RepeatedNext
  <2>6. \A q \in Pods \ {p} : Again'[q] = Again[q] /\ Claim(j)'[q] = Claim(j)[q]
    BY <1>0, <1>10, <2>1 DEF Again, Claim, Claims
  <2>7. Shown(j)' \in SUBSET (Shown(j) \cup {b - u})
    BY <1>8, <2>3
  <2>8. CASE subs[Metric1][p] = 0
    <3>1. Claim(j)[p] = u /\ Claim(j)'[p] = 0 /\ Again[p] = 0 /\ Again'[p] = 0
      BY <1>0, <1>1, <2>1, <2>2, <2>8 DEF Claim, Claims, Again
    <3>2. Claim(j)' \in [Pods -> Nat]
      BY <1>2, <2>6, <3>1 DEF Claim
    <3>3. Repeated' = Repeated
      <4>1. \A q \in Pods : Again[q] \in Int /\ Again[q] = Again'[q]
        BY <2>5, <2>6, <3>1
      <4> QED
        BY <2>5, <4>1, PodsAssumption, SumSame
    <3>4. Slack' = Slack
      BY <1>0, <3>3 DEF Slack, Lapses
    <3>5. Claimed(j)' = Claimed(j) - u
      <4>1. PICK f : f = Claim(j)
        OBVIOUS
      <4>2. PICK g : g = Claim(j)'
        OBVIOUS
      <4>3. (\A x \in Pods : f[x] \in Int /\ g[x] \in Int) /\ \A x \in Pods \ {p} : f[x] = g[x]
        <5>1. f \in [Pods -> Nat] /\ g \in [Pods -> Nat]
          BY <1>2, <3>2, <4>1, <4>2
        <5>2. \A x \in Pods \ {p} : f[x] = g[x]
          BY <2>6, <4>1, <4>2
        <5> QED
          BY <5>1, <5>2
      <4>4. SumFunctionOnSet(g, Pods) = SumFunctionOnSet(f, Pods) + (g[p] - f[p])
        <5> HIDE DEF p
        <5>1. p \in Pods
          BY <1>1 DEF p
        <5> QED
          BY <4>3, <5>1, PodsAssumption, SumChange
      <4>5. Claimed(j)' = Claimed(j) + (0 - u)
        BY <3>1, <4>1, <4>2, <4>4 DEF Claimed
      <4> HIDE DEF u
      <4> QED
        BY <1>2, <1>4, <4>5
    <3> HIDE DEF b, u, p
    <3>6. Within(Shown(j)', b - u, Unsettled', Claimed(j) - u, Slack, Cost(j))
      BY <1>2, <1>3, <1>4, <1>5, <1>6, <1>7, <1>9, <2>4, <2>7, WithinSub
    <3> QED
      BY <1>11, <2>3, <3>4, <3>5, <3>6 DEF Shortfall
  <2>9. CASE subs[Metric1][p] # 0
    <3>1. Claim(j)[p] = 0 /\ Claim(j)'[p] = 0 /\ Again'[p] = Again[p] + 1
      <4> HIDE DEF p
      <4>1. p \in Pods
        BY <1>1 DEF p
      <4>2. Claim(j)[p] = 0 /\ Claim(j)'[p] = 0
        BY <1>0, <2>1, <2>2, <2>9, <4>1 DEF Claim, Claims
      <4>3. Again[p] = subs[Metric1][p] - 1
        BY <2>9, <4>1 DEF Again
      <4>4. subs[Metric1][p] \in Nat
        BY <2>1, <4>1
      <4>5. Again'[p] = (subs[Metric1][p] + 1) - 1
        BY <2>1, <4>1, <4>4 DEF Again
      <4> QED
        BY <4>2, <4>3, <4>4, <4>5
    <3>2. Repeated' = Repeated + 1
      <4>1. PICK f : f = Again
        OBVIOUS
      <4>2. PICK g : g = Again'
        OBVIOUS
      <4>3. (\A x \in Pods : f[x] \in Int /\ g[x] \in Int) /\ \A x \in Pods \ {p} : f[x] = g[x]
        <5>1. f \in [Pods -> Nat] /\ g \in [Pods -> Nat]
          BY <2>5, <4>1, <4>2
        <5>2. \A x \in Pods \ {p} : f[x] = g[x]
          BY <2>6, <4>1, <4>2
        <5> QED
          BY <5>1, <5>2
      <4>4. SumFunctionOnSet(g, Pods) = SumFunctionOnSet(f, Pods) + (g[p] - f[p])
        <5> HIDE DEF p
        <5>1. p \in Pods
          BY <1>1 DEF p
        <5> QED
          BY <4>3, <5>1, PodsAssumption, SumChange
      <4>5. g[p] - f[p] = 1
        BY <1>1, <2>5, <3>1, <4>1, <4>2
      <4> QED
        BY <2>5, <4>1, <4>2, <4>4, <4>5
    <3>3. Slack' = Slack + MaxUsage
      <4>1. hasty \in Nat /\ failed \in Nat /\ restarts \in Nat /\ Repeated \in Nat
        BY LapseTypes
      <4>2. Lapses' = hasty + failed + restarts + (Repeated + 1)
        BY <1>0, <3>2 DEF Lapses
      <4>3. Lapses' = Lapses + 1
        BY <4>1, <4>2 DEF Lapses
      <4> QED
        BY <1>3, <4>3, SlackMore
    <3>4. Claimed(j)' = Claimed(j)
      <4>1. \A q \in Pods : Claim(j)[q] \in Int /\ Claim(j)[q] = Claim(j)'[q]
        BY <1>2, <2>6, <3>1
      <4> QED
        BY <4>1, PodsAssumption, SumSame DEF Claimed
    <3> HIDE DEF b, u, p
    <3>5. Within(Shown(j)', b - u, Unsettled', Claimed(j), Slack + MaxUsage, Cost(j))
      BY <1>2, <1>3, <1>4, <1>5, <1>6, <1>7, <1>9, <2>4, <2>7, WithinSubAgain
    <3> QED
      BY <1>11, <2>3, <3>3, <3>4, <3>5 DEF Shortfall
  <2> QED
    BY <2>8, <2>9
<1> QED
  BY <1>1, <1>12, <1>13

(* What the change of a pod does to the books.                             *)
LEMMA ChangeClaims ==
    ASSUME TypeOK, ViewTypes, Comparable, [AraNext]_araVars, UNCHANGED viewVars,
           NEW p \in Pods, NEW s \in PodState, PodChanges(p, s), NEW j \in DOMAIN node.range
    PROVE  /\ Claim(j)' \in [Pods -> Nat] /\ Cost(j)' \in [Pods -> Nat]
           /\ \A q \in Pods \ {p} : Cost(j)'[q] = Cost(j)[q] /\ Claim(j)'[q] = Claim(j)[q]
           /\ Claimed(j)' = Claimed(j) + (Claim(j)'[p] - Claim(j)[p])
           /\ Copies' = Copies /\ Shown(j)' = Shown(j)
           /\ DeltaAt(anno[Metric1], j)' = DeltaAt(anno[Metric1], j)
           /\ Repeated' = Repeated
<1>1. pod' = [pod EXCEPT ![p] = s] /\ UNCHANGED <<anno, seen, watch, worker, subs>>
  BY DEF PodChanges, nodeVars
<1>2. pod'[p] = s /\ \A q \in Pods \ {p} : pod'[q] = pod[q]
  BY <1>1 DEF TypeOK
<1>3. \A q : Expected(q, j)' = Expected(q, j)
  BY DayFixed, BookFixed
<1>4. \A q \in Pods : Expected(q, j) \in Nat
  BY ExpectedType
<1>5. Claim(j)' \in [Pods -> Nat] /\ Cost(j)' \in [Pods -> Nat]
  BY <1>3, <1>4 DEF Claim, Cost
<1>6. \A q \in Pods \ {p} : Cost(j)'[q] = Cost(j)[q] /\ Claim(j)'[q] = Claim(j)[q]
  BY <1>1, <1>2, <1>3 DEF Claim, Cost, Claims
<1>7. Claimed(j)' = Claimed(j) + (Claim(j)'[p] - Claim(j)[p])
  <2>1. PICK f : f = Claim(j)
    OBVIOUS
  <2>2. PICK g : g = Claim(j)'
    OBVIOUS
  <2>3. f \in [Pods -> Nat] /\ g \in [Pods -> Nat] /\ \A x \in Pods \ {p} : f[x] = g[x]
    BY <1>5, <1>6, <2>1, <2>2, BookTypes
  <2>4. \A x \in Pods : f[x] \in Int /\ g[x] \in Int
    BY <2>3
  <2>5. SumFunctionOnSet(g, Pods) = SumFunctionOnSet(f, Pods) + (g[p] - f[p])
    BY <2>3, <2>4, PodsAssumption, SumChange
  <2> QED
    BY <2>1, <2>2, <2>5 DEF Claimed
<1>8. Copies' = Copies
  BY <1>1 DEF Copies, Busy, viewVars
<1>9. UNCHANGED node
  BY DayFixed
<1>10. Shown(j)' = Shown(j) /\ DeltaAt(anno[Metric1], j)' = DeltaAt(anno[Metric1], j)
  BY <1>1, <1>8, <1>9 DEF Shown, DeltaAt
<1>11. Repeated' = Repeated
  BY <1>1 DEF Repeated
<1> QED
  BY <1>5, <1>6, <1>7, <1>8, <1>10, <1>11

(* A pod that hurries is a lapse; one that does not finds all settled.     *)
LEMMA HurryBooks ==
    ASSUME AraTypeOK, ViewTypes, Bookkeeping, Hurry, UNCHANGED <<failed, restarts>>, Repeated' = Repeated,
           NEW j \in DOMAIN node.range
    PROVE  \/ /\ Shown(j) = {DeltaAt(anno[Metric1], j)} /\ Unsettled = {} /\ Slack' = Slack
           \/ Slack' = Slack + MaxUsage
<1>0. TypeOK
  BY DEF AraTypeOK
<1>1. CASE Settled
  <2>1. Unsettled = {} /\ Copies = {anno[Metric1]}
    BY <1>0, <1>1, SettledBooks
  <2>2. hasty' = hasty
    BY <1>1 DEF Hurry
  <2>3. Slack' = Slack
    BY <2>2 DEF Slack, Lapses
  <2> QED
    BY <2>1, <2>3 DEF Shown
<1>2. CASE ~ Settled
  <2>1. hasty \in Nat /\ failed \in Nat /\ restarts \in Nat /\ Repeated \in Nat
    BY LapseTypes
  <2>2. hasty' = hasty + 1
    BY <1>2 DEF Hurry
  <2>3. Lapses' = (hasty + 1) + failed + restarts + Repeated
    BY <2>2 DEF Lapses
  <2>4. Lapses' = Lapses + 1
    BY <2>1, <2>3 DEF Lapses
  <2> QED
    BY <2>4, SlackMore, SlackType
<1> QED
  BY <1>1, <1>2

LEMMA ScheduleBooks ==
    ASSUME AraTypeOK, TypeOK', ViewTypes, Bookkeeping, Comparable, [AraNext]_araVars,
           NEW p \in Pods, Schedule(p), NEW j \in DOMAIN node.range, Shortfall(j)
    PROVE  Shortfall(j)'
<1> DEFINE u == Expected(p, j)
<1>0. TypeOK /\ "scheduled" \in PodState
  BY DEF AraTypeOK, PodState
<1>1. /\ PodChanges(p, "scheduled") /\ Hurry /\ UNCHANGED <<failed, restarts, viewVars>>
      /\ pod[p] = "pending" /\ pod'[p] = "scheduled"
  BY <1>0 DEF Schedule, PodChanges, PodStep, counts, TypeOK
<1>2. /\ Cost(j) \in [Pods -> Nat] /\ Claimed(j) \in Int /\ Unsettled \in SUBSET Pods
      /\ Shown(j) \in SUBSET Int /\ DeltaAt(anno[Metric1], j) \in Shown(j)
  BY <1>0, BookTypes
<1>3. /\ Cost(j)' \in [Pods -> Nat] /\ \A q \in Pods \ {p} : Cost(j)'[q] = Cost(j)[q]
      /\ Claimed(j)' = Claimed(j) + (Claim(j)'[p] - Claim(j)[p])
      /\ Shown(j)' = Shown(j) /\ DeltaAt(anno[Metric1], j)' = DeltaAt(anno[Metric1], j)
      /\ Repeated' = Repeated
  BY <1>0, <1>1, ChangeClaims
<1>4. u \in Nat /\ u <= MaxUsage /\ Expected(p, j)' = u
  BY <1>0, ExpectedType, DayFixed, BookFixed
<1>5. Claim(j)[p] = 0 /\ Claim(j)'[p] = u /\ Cost(j)'[p] = u
  BY <1>1, <1>4 DEF Claim, Claims, Cost
<1>6. p \in Unsettled' /\ Unsettled' \in SUBSET (Unsettled \cup {p})
  BY <1>0, <1>1, UnsettledChange DEF Bookkeeping
<1>7. Slack \in Int /\ Slack' \in Int
      /\ \/ Shown(j) = {DeltaAt(anno[Metric1], j)} /\ Unsettled = {} /\ Slack' = Slack
         \/ Slack' = Slack + MaxUsage
  <2>1. Slack \in Int
    BY SlackType
  <2>2. \/ Shown(j) = {DeltaAt(anno[Metric1], j)} /\ Unsettled = {} /\ Slack' = Slack
        \/ Slack' = Slack + MaxUsage
    BY <1>1, <1>3, HurryBooks
  <2> QED
    BY <2>1, <2>2, RangeAssumption
<1> HIDE DEF u
<1>8. Claimed(j)' = Claimed(j) + u
  BY <1>2, <1>3, <1>4, <1>5
<1>9. u <= Cost(j)'[p]
  BY <1>4, <1>5
<1>10. Within(Shown(j), DeltaAt(anno[Metric1], j), Unsettled, Claimed(j), Slack, Cost(j))
  BY DEF Shortfall
<1>11. Within(Shown(j), DeltaAt(anno[Metric1], j), Unsettled', Claimed(j) + u, Slack', Cost(j)')
  BY <1>2, <1>3, <1>4, <1>6, <1>7, <1>9, <1>10, WithinChange
<1> QED
  BY <1>3, <1>8, <1>11 DEF Shortfall

LEMMA DeleteBooks ==
    ASSUME AraTypeOK, TypeOK', ViewTypes, Bookkeeping, Comparable, [AraNext]_araVars,
           NEW p \in Pods, DeletePod(p), NEW j \in DOMAIN node.range, Shortfall(j)
    PROVE  Shortfall(j)'
<1>0. TypeOK /\ "terminating" \in PodState
  BY DEF AraTypeOK, PodState
<1>1. /\ PodChanges(p, "terminating") /\ Hurry /\ UNCHANGED <<failed, restarts, viewVars>>
      /\ pod[p] = "scheduled"
  BY <1>0 DEF DeletePod, PodChanges, PodStep, counts, TypeOK
<1>2. /\ Cost(j) \in [Pods -> Nat] /\ Claimed(j) \in Int /\ Unsettled \in SUBSET Pods
      /\ Shown(j) \in SUBSET Int /\ DeltaAt(anno[Metric1], j) \in Shown(j)
  BY <1>0, BookTypes
<1>3. /\ Cost(j)' \in [Pods -> Nat] /\ \A q \in Pods \ {p} : Cost(j)'[q] = Cost(j)[q]
      /\ Claimed(j)' = Claimed(j) + (Claim(j)'[p] - Claim(j)[p])
      /\ Shown(j)' = Shown(j) /\ DeltaAt(anno[Metric1], j)' = DeltaAt(anno[Metric1], j)
      /\ Repeated' = Repeated /\ Claim(j)' \in [Pods -> Nat]
  BY <1>0, <1>1, ChangeClaims
<1>4. Expected(p, j) \in Nat /\ Expected(p, j)' = Expected(p, j)
  BY <1>0, ExpectedType, DayFixed, BookFixed
<1>5. Claim(j)[p] = Expected(p, j) /\ (Claim(j)'[p] = Expected(p, j) \/ Claim(j)'[p] = 0)
  BY <1>1, <1>4 DEF Claim, Claims
<1>6. Claimed(j)' \in Int /\ Claimed(j)' <= Claimed(j) + 0
  BY <1>2, <1>3, <1>4, <1>5
<1>7. p \in Unsettled' /\ Unsettled' \in SUBSET (Unsettled \cup {p})
  BY <1>0, <1>1, UnsettledChange DEF Bookkeeping
<1>8. Slack \in Int /\ Slack' \in Int
      /\ \/ Shown(j) = {DeltaAt(anno[Metric1], j)} /\ Unsettled = {} /\ Slack' = Slack
         \/ Slack' = Slack + MaxUsage
  <2>1. Slack \in Int
    BY SlackType
  <2>2. \/ Shown(j) = {DeltaAt(anno[Metric1], j)} /\ Unsettled = {} /\ Slack' = Slack
        \/ Slack' = Slack + MaxUsage
    BY <1>1, <1>3, HurryBooks
  <2> QED
    BY <2>1, <2>2, RangeAssumption
<1>9. Within(Shown(j), DeltaAt(anno[Metric1], j), Unsettled, Claimed(j), Slack, Cost(j))
  BY DEF Shortfall
<1>10. 0 \in Nat /\ 0 <= MaxUsage /\ 0 <= Cost(j)'[p]
  BY <1>3, RangeAssumption
<1>11. Within(Shown(j), DeltaAt(anno[Metric1], j), Unsettled', Claimed(j) + 0, Slack', Cost(j)')
  BY <1>2, <1>3, <1>7, <1>8, <1>9, <1>10, WithinChange, SMTT(30)
<1>12. Within(Shown(j), DeltaAt(anno[Metric1], j), Unsettled', Claimed(j)', Slack', Cost(j)')
  <2>1. Claimed(j) + 0 \in Int /\ Unsettled' \in SUBSET Pods
    BY <1>2, <1>7
  <2> QED
    BY <1>2, <1>3, <1>6, <1>8, <1>11, <2>1, WithinLess
<1> QED
  BY <1>3, <1>12 DEF Shortfall

LEMMA RemoveBooks ==
    ASSUME AraTypeOK, TypeOK', ViewTypes, Bookkeeping, Comparable, [AraNext]_araVars,
           NEW p \in Pods, RemovePod(p), NEW j \in DOMAIN node.range, Shortfall(j)
    PROVE  Shortfall(j)'
<1>0. TypeOK
  BY DEF AraTypeOK
<1>1. PICK s \in {"gone", "killed"} : PodChanges(p, s)
  BY DEF RemovePod
<1>2. /\ s \in PodState /\ UNCHANGED <<hasty, failed, restarts, viewVars, subs>>
      /\ (pod[p] = "terminating" /\ s = "gone") \/ (pod[p] = "scheduled" /\ s = "killed")
      /\ pod'[p] = s
  <2>1. s \in PodState /\ UNCHANGED <<hasty, failed, restarts, viewVars, subs>>
    BY <1>1 DEF RemovePod, PodChanges, counts, PodState
  <2>2. <<pod[p], s>> \in PodStep /\ pod' = [pod EXCEPT ![p] = s]
    BY <1>1 DEF PodChanges
  <2>3. (pod[p] = "terminating" /\ s = "gone") \/ (pod[p] = "scheduled" /\ s = "killed")
    BY <2>2 DEF PodStep
  <2>4. pod'[p] = s
    BY <1>0, <2>2 DEF TypeOK
  <2> QED
    BY <2>1, <2>3, <2>4
<1>3. /\ Cost(j) \in [Pods -> Nat] /\ Claimed(j) \in Int /\ Unsettled \in SUBSET Pods
      /\ Shown(j) \in SUBSET Int /\ DeltaAt(anno[Metric1], j) \in Shown(j)
      /\ Claim(j) \in [Pods -> Nat]
  BY <1>0, BookTypes
<1>4. /\ Cost(j)' \in [Pods -> Nat] /\ \A q \in Pods \ {p} : Cost(j)'[q] = Cost(j)[q]
      /\ Claimed(j)' = Claimed(j) + (Claim(j)'[p] - Claim(j)[p])
      /\ Shown(j)' = Shown(j) /\ DeltaAt(anno[Metric1], j)' = DeltaAt(anno[Metric1], j)
      /\ Repeated' = Repeated /\ Claim(j)' \in [Pods -> Nat]
  BY <1>0, <1>1, <1>2, ChangeClaims
<1>5. Expected(p, j) \in Nat /\ Expected(p, j)' = Expected(p, j)
  BY <1>0, ExpectedType, DayFixed, BookFixed
<1>6. Claim(j)'[p] = Claim(j)[p] - Cost(j)[p]
  BY <1>2, <1>5 DEF Claim, Claims, Cost
<1>7. PICK u \in Nat : u = Cost(j)[p]
  BY <1>3
<1>8. Claimed(j)' = Claimed(j) - u
  <2>1. Claim(j)[p] \in Nat
    BY <1>3
  <2> QED
    BY <1>3, <1>4, <1>6, <1>7, <2>1
<1>9. Unsettled' = Unsettled
  BY <1>0, <1>1, <1>2, UnsettledChange DEF Bookkeeping
<1>10. Slack \in Int /\ Slack' = Slack
  BY <1>2, <1>4, SlackType DEF Slack, Lapses
<1>11. Within(Shown(j), DeltaAt(anno[Metric1], j), Unsettled, Claimed(j), Slack, Cost(j))
  BY DEF Shortfall
<1>12. Within(Shown(j), DeltaAt(anno[Metric1], j), Unsettled, Claimed(j) - u, Slack, Cost(j)')
  BY <1>3, <1>4, <1>7, <1>10, <1>11, WithinKill
<1> QED
  BY <1>4, <1>8, <1>9, <1>10, <1>12 DEF Shortfall

(* The policy of Metric1 is passed over only for a pod of unknown usage.   *)
LEMMA SkipUnknown ==
    ASSUME TypeOK, ViewTypes, Bookkeeping, Comparable, LengthsMatch, NEW j \in DOMAIN node.range,
           NEW w \in Workers, SkipPolicy(w), Metric(w) = Metric1
    PROVE  ~ Known(worker[w].pod)
<1> DEFINE p == worker[w].pod
<1> SUFFICES ASSUME Known(p) PROVE FALSE
  OBVIOUS
<1>1. /\ worker[w] # Idle /\ w \in Busy /\ ~ Merges(w) /\ p \in Pods
      /\ worker[w].node \in NodeAnnotations
  BY JobTypes DEF SkipPolicy, Busy
<1>2. worker[w].usages = deploy[DeployOf[p]]
  BY <1>1 DEF Bookkeeping, JobsTrue
<1>3. worker[w].usages[Metric1] # Expired /\ Usage(w) = UsageOf(p)
  BY <1>2 DEF Known, Usage, UsageRange, UsageOf
<1>4. Len(Usage(w)) = Len(node.range)
  BY <1>1, <1>3 DEF Comparable
<1>5. Len(node.range) \in Nat \ {0}
  BY RangeType
<1>6. Delta(w) = UsageRange(worker[w].node[Metric1]) /\ worker[w].node[Metric1] \in Copies
  BY <1>1 DEF Delta, Copies
<1>7. Len(Delta(w)) \in {0, Len(node.range)}
  BY <1>6 DEF LengthsMatch
<1>8. Usage(w) # <<>> /\ Len(Delta(w)) <= Len(Usage(w))
  BY <1>4, <1>5, <1>7
<1> QED
  BY <1>1, <1>3, <1>8 DEF Merges, Mergeable

(* A step of the controller other than a patch of Metric1, a failed patch  *)
(* or a restart settles no pod that costs anything.                        *)
QuietStep ==
    \/ ObserveView
    \/ UNCHANGED araVars
    \/ /\ UNCHANGED <<hasty, failed>>
       /\ \/ \E p \in Pods, s \in PodState : ObservePod(p, s)
          \/ ObserveNode
          \/ handleUpdateEvent
          \/ \E w \in Workers : Reconcile(w) \/ SkipPolicy(w)
          \/ \E w \in Workers : PatchNodeAnnotation(w) /\ Metric(w) # Metric1

LEMMA QuietSteps ==
    ASSUME Listed, AraTypeOK, TypeOK', ViewTypes, Bookkeeping, Comparable, LengthsMatch, [AraNext]_araVars,
           NEW j \in DOMAIN node.range, Shortfall(j),
           QuietStep
    PROVE  Shortfall(j)'
<1> USE DEF podVars, nodeVars, counts
<1>0. TypeOK
  BY DEF AraTypeOK
<1>1. \A q \in Pods : pod[q] # "scheduled" \/ ~ Known(q) => Cost(j)[q] = 0
  BY DEF Cost, Expected
<1>2. Unsettled \subseteq Pods
  BY DEF Unsettled
<1>3. CASE ObserveView \/ UNCHANGED araVars \/ (ObserveNode /\ UNCHANGED <<hasty, failed>>)
  <2>1. UNCHANGED <<pod, podSeen, notes, queue, worker, subs, anno, hasty, failed, restarts>>
    BY <1>3 DEF ObserveView, araVars, vars, ObserveNode
  <2>2. Unsettled' = Unsettled
    BY <2>1, UnsettledSame
  <2> QED
    BY <2>1, <2>2, QuietBooks
<1>4. ASSUME NEW p \in Pods, NEW s \in PodState, ObservePod(p, s), UNCHANGED <<hasty, failed>> PROVE Shortfall(j)'
  <2>1. UNCHANGED <<pod, subs, anno, hasty, failed, restarts>>
    BY <1>4 DEF ObservePod
  <2>2. Unsettled' \subseteq Unsettled /\ \A q \in Unsettled \ Unsettled' : Cost(j)[q] = 0
    BY <1>0, <1>1, <1>2, <1>4, UnsettledObserve
  <2> QED
    BY <2>1, <2>2, QuietBooks
<1>5. CASE handleUpdateEvent /\ UNCHANGED <<hasty, failed>>
  <2>1. UNCHANGED <<pod, subs, anno, hasty, failed, restarts>>
    BY <1>5 DEF handleUpdateEvent
  <2>2. Unsettled' = Unsettled
    BY <1>0, <1>5, UnsettledQueued DEF Bookkeeping
  <2> QED
    BY <2>1, <2>2, QuietBooks
<1>6. ASSUME NEW w \in Workers, Reconcile(w), UNCHANGED <<hasty, failed>> PROVE Shortfall(j)'
  <2>1. UNCHANGED <<pod, subs, anno, hasty, failed, restarts>>
    BY <1>6 DEF Reconcile
  <2>2. Unsettled' \subseteq Unsettled /\ \A q \in Unsettled \ Unsettled' : Cost(j)[q] = 0
    BY <1>0, <1>1, <1>2, <1>6, UnsettledReconcile DEF Bookkeeping
  <2> QED
    BY <2>1, <2>2, QuietBooks
<1>7. ASSUME NEW w \in Workers, SkipPolicy(w), UNCHANGED <<hasty, failed>> PROVE Shortfall(j)'
  <2>1. UNCHANGED <<pod, subs, anno, hasty, failed, restarts>>
    BY <1>7 DEF SkipPolicy
  <2>2. Unsettled' \subseteq Unsettled /\ \A q \in Unsettled \ Unsettled' : Cost(j)[q] = 0
    BY <1>0, <1>1, <1>2, <1>7, UnsettledAdvance, SkipUnknown
  <2> QED
    BY <2>1, <2>2, QuietBooks
<1>8. ASSUME NEW w \in Workers, PatchNodeAnnotation(w), Metric(w) # Metric1, UNCHANGED <<hasty, failed>>
      PROVE  Shortfall(j)'
  <2>1. UNCHANGED <<pod, hasty, failed, restarts>>
    BY <1>8 DEF PatchNodeAnnotation
  <2>2. anno'[Metric1] = anno[Metric1] /\ subs'[Metric1] = subs[Metric1]
    BY <1>0, <1>8, PatchOther
  <2>3. Unsettled' \subseteq Unsettled /\ \A q \in Unsettled \ Unsettled' : Cost(j)[q] = 0
    BY <1>0, <1>8, UnsettledAdvance
  <2> QED
    BY <2>1, <2>2, <2>3, QuietBooks
<1>9. \/ ObserveView \/ UNCHANGED araVars \/ (ObserveNode /\ UNCHANGED <<hasty, failed>>)
      \/ handleUpdateEvent /\ UNCHANGED <<hasty, failed>>
      \/ \E p \in Pods, s \in PodState : ObservePod(p, s) /\ UNCHANGED <<hasty, failed>>
      \/ \E w \in Workers : Reconcile(w) /\ UNCHANGED <<hasty, failed>>
      \/ \E w \in Workers : SkipPolicy(w) /\ UNCHANGED <<hasty, failed>>
      \/ \E w \in Workers : PatchNodeAnnotation(w) /\ Metric(w) # Metric1 /\ UNCHANGED <<hasty, failed>>
  BY Zenon DEF QuietStep
<1> QED
  BY <1>3, <1>4, <1>5, <1>6, <1>7, <1>8, <1>9

LEMMA BooksStep ==
    ASSUME Listed, AraTypeOK, TypeOK', Books, [AraNext]_araVars
    PROVE  Books'
<1>0. TypeOK /\ ViewTypes /\ Bookkeeping
  BY DEF AraTypeOK, ViewTypes, Books
<1>1. Bookkeeping'
  BY <1>0, BookkeepingStep
<1>2. ASSUME Comparable, NEW j \in DOMAIN node.range, LengthsMatch, Shortfall(j)
      PROVE  LengthsMatch' /\ Shortfall(j)'
  <2>1. LengthsMatch'
    <3>1. Copies' \subseteq Copies \cup {anno'[Metric1]} /\ anno[Metric1] \in Copies
      BY <1>0, CopiesStep, CopyTypes
    <3>2. UNCHANGED node
      BY DayFixed
    <3>3. Len(UsageRange(anno'[Metric1])) \in {0, Len(node.range)}
      <4>1. CASE anno'[Metric1] = anno[Metric1]
        BY <1>2, <3>1, <4>1 DEF LengthsMatch
      <4>2. CASE anno'[Metric1] # anno[Metric1]
        <5>1. PICK w \in Workers : PatchNodeAnnotation(w)
          BY <1>0, <4>2, CopiesStep
        <5>2. Metric(w) = Metric1
          BY <1>0, <4>2, <5>1, PatchOther
        <5> QED
          BY <1>0, <1>2, <3>2, <5>1, <5>2, PatchShows
      <4> QED
        BY <4>1, <4>2
    <3> QED
      BY <1>2, <3>1, <3>2, <3>3 DEF LengthsMatch
  <2>2. ASSUME NEW p \in Pods, Schedule(p) \/ DeletePod(p) \/ RemovePod(p) PROVE Shortfall(j)'
    BY <1>0, <1>2, <2>2, ScheduleBooks, DeleteBooks, RemoveBooks
  <2>3. ASSUME NEW w \in Workers, ControllerFails(w) PROVE Shortfall(j)'
    <3>1. /\ PatchFails(w) /\ failed' = failed + 1
          /\ UNCHANGED <<pod, subs, anno, hasty, restarts>>
      BY <2>3 DEF ControllerFails, PatchFails, podVars, nodeVars, counts
    <3>2. failed \in Nat /\ restarts \in Nat
      BY LapseTypes
    <3>3. failed' + restarts' = failed + restarts + 1 /\ failed' \in Nat /\ restarts' \in Nat
      BY <3>1, <3>2
    <3>4. Unsettled' \subseteq Unsettled
      BY <1>0, <3>1, UnsettledDropped
    <3> QED
      BY <1>0, <1>2, <3>1, <3>3, <3>4, LapseBooks
  <2>4. ASSUME Restart, UNCHANGED <<hasty, failed>> PROVE Shortfall(j)'
    <3>1. restarts' = restarts + 1 /\ UNCHANGED <<pod, subs, anno, hasty, failed>>
      BY <2>4 DEF Restart
    <3>2. failed \in Nat /\ restarts \in Nat
      BY LapseTypes
    <3>3. failed' + restarts' = failed + restarts + 1 /\ failed' \in Nat /\ restarts' \in Nat
      BY <3>1, <3>2
    <3>4. Unsettled' \subseteq Unsettled
      BY <1>0, <2>4, UnsettledDropped
    <3> QED
      BY <1>0, <1>2, <3>1, <3>3, <3>4, LapseBooks
  <2>5. ASSUME NEW w \in Workers, PatchNodeAnnotation(w), UNCHANGED <<hasty, failed>>, Metric(w) = Metric1
        PROVE  Shortfall(j)'
    BY <1>0, <1>2, <2>5, PatchBooks
  <2>6. ASSUME Controller PROVE Shortfall(j)'
    <3>1. UNCHANGED <<hasty, failed>>
      BY <2>6 DEF Controller
    <3>2. \/ \E p \in Pods, s \in PodState : ObservePod(p, s)
          \/ ObserveNode \/ handleUpdateEvent \/ Restart
          \/ \E w \in Workers : Reconcile(w) \/ SkipPolicy(w) \/ PatchNodeAnnotation(w)
      BY <2>6 DEF Controller
    <3>3. QuietStep \/ Restart \/ \E w \in Workers : PatchNodeAnnotation(w) /\ Metric(w) = Metric1
      BY <3>1, <3>2 DEF QuietStep
    <3>4. CASE QuietStep
      BY <1>0, <1>2, <3>4, QuietSteps
    <3> QED
      BY <2>4, <2>5, <3>1, <3>3, <3>4
  <2>7. ASSUME ObserveView \/ UNCHANGED araVars PROVE Shortfall(j)'
    <3>1. QuietStep
      BY <2>7 DEF QuietStep
    <3> QED
      BY <1>0, <1>2, <3>1, QuietSteps
  <2> QED
    BY <2>1, <2>2, <2>3, <2>6, <2>7 DEF AraNext
<1>3. Comparable' <=> Comparable
  BY DayFixed, BookFixed
<1>4. UNCHANGED node
  BY DayFixed
<1> QED
  BY <1>1, <1>2, <1>3, <1>4 DEF Books

-----------------------------------------------------------------------------
(* The node is not overbooked.                                             *)

Usages(j) == [p \in Pods |-> Expected(p, j)]
Booked(j) == SumFunctionOnSet(Usages(j), Placed)

(* What the placed pods are expected to use is claimed.                    *)
LEMMA BookedClaimed ==
    ASSUME TypeOK, ViewTypes, Comparable, NEW j \in DOMAIN node.range
    PROVE  /\ Usages(j) \in [Pods -> Nat] /\ IsFiniteSet(Placed) /\ Placed \in SUBSET Pods
           /\ Booked(j) \in Nat /\ Booked(j) <= Claimed(j)
           /\ Predicted(j) = node.range[j] * node.capacity + Booked(j)
<1>1. Usages(j) \in [Pods -> Nat]
  BY ExpectedType DEF Usages
<1>2. Placed \in SUBSET Pods /\ IsFiniteSet(Placed)
  BY PodsAssumption, FS_Subset DEF Placed
<1>3. Booked(j) \in Nat
  BY <1>1, <1>2, SumNat DEF Booked
<1>4. Booked(j) <= Claimed(j)
  <2>1. Claim(j) \in [Pods -> Nat]
    BY BookTypes
  <2>2. \A p \in Placed : Claim(j)[p] = Usages(j)[p]
    BY <1>2 DEF Placed, Claim, Claims, Usages
  <2>3. \A p \in Placed : Usages(j)[p] \in Int /\ Usages(j)[p] = Claim(j)[p]
    BY <1>1, <1>2, <2>2
  <2>4. SumFunctionOnSet(Usages(j), Placed) = SumFunctionOnSet(Claim(j), Placed)
    BY <1>2, <2>3, SumSame
  <2>5. SumFunctionOnSet(Claim(j), Placed) <= SumFunctionOnSet(Claim(j), Pods)
    BY <1>2, <2>1, PodsAssumption, SumPart
  <2> QED
    BY <2>4, <2>5 DEF Booked, Claimed
<1>5. SumFunction([p \in Placed |-> UsageOf(p)[j]]) = Booked(j)
  <2> DEFINE f == [p \in Placed |-> UsageOf(p)[j]]
  <2>1. DOMAIN f = Placed /\ \A p \in Placed : Usages(j)[p] \in Int /\ f[p] = Usages(j)[p]
    BY <1>1, <1>2 DEF Placed, Usages, Expected
  <2> HIDE DEF f
  <2>2. SumFunction(f) = SumFunctionOnSet(Usages(j), Placed)
    BY <1>2, <2>1, SumOver
  <2> QED
    BY <2>2 DEF f, Booked
<1>6. Predicted(j) = node.range[j] * node.capacity + Booked(j)
  BY <1>5 DEF Predicted
<1> QED
  BY <1>1, <1>2, <1>3, <1>4, <1>6

(* Lapses are never forgotten.                                             *)
LEMMA SlackGrows ==
    ASSUME AraTypeOK, AraTypeOK', [AraNext]_araVars
    PROVE  Slack \in Int /\ Slack' \in Int /\ Slack <= Slack'
<1>0. TypeOK /\ TypeOK'
  BY DEF AraTypeOK
<1>1. /\ hasty \in Nat /\ failed \in Nat /\ restarts \in Nat /\ Repeated \in Nat
      /\ hasty' \in Nat /\ failed' \in Nat /\ restarts' \in Nat /\ Repeated' \in Nat
  <2>1. Cardinality(Pods) \in Nat
    BY PodsAssumption, FS_CardinalityType
  <2>2. hasty' \in Nat /\ failed' \in Nat /\ restarts' \in Nat
    BY <2>1 DEF AraTypeOK, TypeOK
  <2>3. Repeated' \in Nat
    BY <1>0, RepeatedNext
  <2> QED
    BY <2>2, <2>3, LapseTypes
<1>2. hasty' = hasty \/ hasty' = hasty + 1
  BY DEF AraNext, araVars, Schedule, DeletePod, Hurry, RemovePod, ObserveView, Controller, ControllerFails
<1>3. failed' = failed \/ failed' = failed + 1
  BY DEF AraNext, araVars, Schedule, DeletePod, RemovePod, ObserveView, Controller, ControllerFails
<1>4. restarts' = restarts \/ restarts' = restarts + 1
  BY DEF AraNext, araVars, vars, counts, Schedule, DeletePod, RemovePod, PodChanges, ObserveView, Controller,
         ControllerFails, ObservePod, ObserveNode, handleUpdateEvent, Reconcile, SkipPolicy, PatchNodeAnnotation,
         PatchFails, Restart
<1>5. Repeated <= Repeated'
  <2>1. /\ Again \in [Pods -> Nat] /\ Again' \in [Pods -> Nat]
        /\ Repeated = SumFunctionOnSet(Again, Pods) /\ Repeated' = SumFunctionOnSet(Again', Pods)
    BY <1>0, RepeatedSum, RepeatedNext
  <2>2. \A p \in Pods : subs[Metric1][p] \in Nat /\ subs'[Metric1][p] \in Nat /\ subs[Metric1][p] <= subs'[Metric1][p]
    <3>1. subs[Metric1] \in [Pods -> Nat] /\ subs'[Metric1] \in [Pods -> Nat]
      BY <1>0, NodeAssumption DEF TypeOK
    <3>2. CASE subs'[Metric1] = subs[Metric1]
      BY <3>1, <3>2
    <3>3. CASE subs'[Metric1] # subs[Metric1]
      <4>1. PICK w \in Workers : PatchNodeAnnotation(w)
        BY <3>3 DEF AraNext, araVars, vars, Schedule, DeletePod, RemovePod, PodChanges, ObserveView, Controller,
           ControllerFails, ObservePod, ObserveNode, handleUpdateEvent, Reconcile, SkipPolicy, PatchFails, Restart
      <4>2. Metric(w) = Metric1 /\ worker[w].mergeType \in {"add", "sub"}
        BY <1>0, <3>3, <4>1, PatchOther, JobTypes DEF PatchNodeAnnotation, Patching
      <4>3. /\ subs'[Metric1][worker[w].pod] = subs[Metric1][worker[w].pod] + 1
            /\ \A q \in Pods \ {worker[w].pod} : subs'[Metric1][q] = subs[Metric1][q]
        BY <1>0, <3>3, <4>1, <4>2, PatchSubs
      <4> QED
        BY <3>1, <4>3
    <3> QED
      BY <3>2, <3>3
  <2>3. \A p \in Pods : Again[p] \in Int /\ Again'[p] \in Int /\ Again[p] <= Again'[p]
    BY <2>2 DEF Again
  <2> QED
    BY <2>1, <2>3, PodsAssumption, SumAtMost
<1>6. Lapses \in Nat /\ Lapses' \in Nat /\ Lapses <= Lapses'
  <2>1. PICK h \in Nat, f \in Nat, r \in Nat, n \in Nat :
            h = hasty' /\ f = failed' /\ r = restarts' /\ n = Repeated'
    BY <1>1
  <2>2. hasty <= h /\ failed <= f /\ restarts <= r /\ Repeated <= n
    BY <1>1, <1>2, <1>3, <1>4, <1>5, <2>1
  <2>3. Lapses' = h + f + r + n /\ Lapses = hasty + failed + restarts + Repeated
    BY <2>1 DEF Lapses
  <2> QED
    BY <1>1, <2>2, <2>3
<1>7. \A l, k, m \in Nat : l <= k => m * l \in Int /\ m * k \in Int /\ m * l <= m * k
  OBVIOUS
<1>8. Slack' = MaxUsage * Lapses' /\ Slack = MaxUsage * Lapses
  BY DEF Slack
<1> QED
  BY <1>6, <1>7, <1>8, RangeAssumption

(* What Filter has found of the copy in the scheduler's snapshot.          *)
LEMMA FilterPasses ==
    ASSUME TypeOK, ViewTypes, Comparable, NEW p \in Pods, Filter(p), Known(p), NEW j \in DOMAIN node.range
    PROVE  node.range[j] * node.capacity + DeltaAt(view[Metric1], j) + Expected(p, j)
              <= node.limit * node.capacity
<1>1. /\ node.range \in Seq(Nat) /\ node.range # Absent /\ node.range # Expired
      /\ DOMAIN node.range = 1..Len(node.range) /\ Len(node.range) \in Nat
      /\ node.limit \in Nat \ {0} /\ node.capacity \in Nat \ {0}
  BY RangeType
<1>2. UsageRange(node.range) = node.range /\ node.range # <<>>
  BY <1>1 DEF UsageRange
<1>3. UsageRange(deploy[DeployOf[p]][Metric1]) = UsageOf(p) /\ Len(UsageOf(p)) = Len(node.range)
  BY DEF Known, UsageOf, UsageRange, Comparable
<1>4. UsageOf(p) # <<>>
  BY <1>1, <1>3
<1>5. ~ predictingOverLoad(node.range, UsageOf(p), UsageRange(view[Metric1]))
  BY <1>1, <1>2, <1>3 DEF Filter, Known
<1>6. ~ (node.range[j] * node.capacity + DeltaAt(view[Metric1], j) + Expected(p, j) > node.limit * node.capacity)
  BY <1>1, <1>2, <1>3, <1>4, <1>5 DEF predictingOverLoad, DeltaAt, Expected
<1>7. /\ node.range[j] * node.capacity \in Int /\ node.limit * node.capacity \in Int
      /\ DeltaAt(view[Metric1], j) \in Int /\ Expected(p, j) \in Int
  <2>1. \A a, b \in Nat : a * b \in Int
    OBVIOUS
  <2>2. view[Metric1] \in Copies
    BY DEF Copies
  <2>3. DeltaAt(view[Metric1], j) \in Int
    BY <2>2, BookTypes DEF Shown
  <2>4. node.range[j] \in Nat
    BY <1>1
  <2> QED
    BY <1>1, <2>1, <2>3, <2>4, ExpectedType, SMTT(30)
<1> QED
  BY <1>6, <1>7

(* After a step, too, the prediction is the sum over the placed pods.      *)
LEMMA PredictedNext ==
    ASSUME AraTypeOK, AraTypeOK', Comparable, [AraNext]_araVars, NEW j \in DOMAIN node.range
    PROVE  /\ Placed' \in SUBSET Pods /\ IsFiniteSet(Placed')
           /\ Predicted(j)' = node.range[j] * node.capacity + SumFunctionOnSet(Usages(j), Placed')
<1>0. TypeOK /\ ViewTypes
  BY DEF AraTypeOK, ViewTypes
<1>1. UNCHANGED <<deploy, node>>
  BY DayFixed
<1>2. Usages(j) \in [Pods -> Nat]
  BY <1>0, BookedClaimed
<1>3. PICK S \in SUBSET Pods : S = Placed'
  BY DEF Placed
<1>4. IsFiniteSet(S)
  BY PodsAssumption, FS_Subset
<1>5. \A q \in S : Known(q) /\ UsageOf(q)' = UsageOf(q)
  BY <1>1, <1>3, BookFixed DEF Placed, UsageOf
<1> DEFINE f == [q \in S |-> UsageOf(q)[j]]
<1>6. DOMAIN f = S /\ \A q \in S : Usages(j)[q] \in Int /\ f[q] = Usages(j)[q]
  BY <1>2, <1>5 DEF Usages, Expected
<1>7. SumFunction(f) = SumFunctionOnSet(Usages(j), S)
  <2> HIDE DEF f
  <2> QED
    BY <1>4, <1>6, SumOver
<1>8. [q \in Placed' |-> UsageOf(q)'[j]] = f
  BY <1>3, <1>5
<1>9. Predicted(j)' = node.range[j] * node.capacity + SumFunction(f)
  BY <1>1, <1>8 DEF Predicted
<1> QED
  BY <1>3, <1>4, <1>7, <1>9

(* No pod is placed beyond the limit and the lapses.                       *)
LEMMA ScheduleFits ==
    ASSUME AraTypeOK, AraTypeOK', Books, Comparable, [AraNext]_araVars,
           NEW p \in Pods, Schedule(p), Known(p), NEW j \in DOMAIN node.range
    PROVE  Predicted(j)' <= node.limit * node.capacity + Slack'
<1> DEFINE u == Expected(p, j)
           x == DeltaAt(view[Metric1], j)
           h == node.range[j] * node.capacity
           l == node.limit * node.capacity
<1>0. TypeOK /\ TypeOK' /\ ViewTypes /\ ViewTypes' /\ Bookkeeping /\ Shortfall(j)
  BY DEF AraTypeOK, ViewTypes, Books
<1>1. UNCHANGED <<deploy, node>> /\ Comparable'
  BY DayFixed, BookFixed
<1>2. /\ PodChanges(p, "scheduled") /\ Hurry /\ UNCHANGED <<failed, restarts, viewVars>> /\ Filter(p)
      /\ pod[p] = "pending" /\ pod' = [pod EXCEPT ![p] = "scheduled"] /\ "scheduled" \in PodState
  BY <1>0 DEF Schedule, PodChanges, PodStep, counts, PodState
<1>3. h + x + u <= l
  BY <1>0, <1>2, FilterPasses
<1>4. /\ Usages(j) \in [Pods -> Nat] /\ IsFiniteSet(Placed) /\ Placed \in SUBSET Pods
      /\ Booked(j) \in Nat /\ Booked(j) <= Claimed(j)
  BY <1>0, BookedClaimed
<1>5. /\ Claimed(j) \in Int /\ Shown(j) \in SUBSET Int /\ x \in Shown(j)
  BY <1>0, BookTypes DEF Shown, Copies
<1>6. Claimed(j) - x <= Slack'
  <2>1. Repeated' = Repeated
    BY <1>0, <1>2, ChangeClaims
  <2>2. \/ Shown(j) = {DeltaAt(anno[Metric1], j)} /\ Unsettled = {} /\ Slack' = Slack
        \/ Slack' = Slack + MaxUsage
    BY <1>0, <1>2, <2>1, HurryBooks
  <2>3. Within(Shown(j), DeltaAt(anno[Metric1], j), Unsettled, Claimed(j), Slack, Cost(j))
    BY <1>0 DEF Shortfall
  <2> HIDE DEF x
  <2> QED
    BY <1>5, <2>2, <2>3 DEF Within
<1>7. Booked(j) + u = SumFunctionOnSet(Usages(j), Placed')
  <2>1. PICK S \in SUBSET Pods : S = Placed' /\ IsFiniteSet(S)
    BY PredictedNext
  <2>2. p \in S /\ S \ {p} = Placed
    BY <1>0, <1>1, <1>2, <2>1, BookFixed DEF Placed, TypeOK
  <2>3. SumFunctionOnSet(Usages(j), S) = Usages(j)[p] + SumFunctionOnSet(Usages(j), S \ {p})
    BY <1>4, <2>1, <2>2, SumRemove
  <2>4. Usages(j)[p] = u
    BY DEF Usages
  <2>5. SumFunctionOnSet(Usages(j), S) = Usages(j)[p] + Booked(j)
    BY <2>2, <2>3 DEF Booked
  <2> QED
    BY <1>4, <2>1, <2>4, <2>5
<1>8. Predicted(j)' = h + (Booked(j) + u)
  BY <1>7, PredictedNext
<1>9. h \in Int /\ l \in Int /\ u \in Int /\ x \in Int /\ Slack' \in Int
  <2>1. \A a, b \in Nat : a * b \in Int
    OBVIOUS
  <2>2. node.range[j] \in Nat /\ node.limit \in Nat /\ node.capacity \in Nat
    BY <1>0, RangeType
  <2> QED
    BY <1>0, <1>5, <2>1, <2>2, ExpectedType, SlackGrows
<1> HIDE DEF h, u, x, l
<1>10. h + (Booked(j) + u) <= l + Slack'
  BY <1>3, <1>4, <1>5, <1>6, <1>9
<1> QED
  BY <1>8, <1>10 DEF l

(* A step that places no pod with a known usage predicts no more.          *)
LEMMA NoneAdded ==
    ASSUME AraTypeOK, AraTypeOK', Comparable, NotOverbooked, [AraNext]_araVars,
           Placed' \subseteq Placed, Placed' # {}, NEW j \in DOMAIN node.range
    PROVE  Predicted(j)' <= node.limit * node.capacity + Slack'
<1> DEFINE h == node.range[j] * node.capacity
           l == node.limit * node.capacity
<1>0. TypeOK /\ ViewTypes
  BY DEF AraTypeOK, ViewTypes
<1>1. /\ Usages(j) \in [Pods -> Nat] /\ IsFiniteSet(Placed) /\ Placed \in SUBSET Pods
      /\ Booked(j) \in Nat /\ Predicted(j) = h + Booked(j)
  BY <1>0, BookedClaimed
<1>2. PICK S \in SUBSET Placed : S = Placed'
  OBVIOUS
<1>3. SumFunctionOnSet(Usages(j), S) <= Booked(j)
  BY <1>1, SumPart DEF Booked
<1>4. SumFunctionOnSet(Usages(j), S) \in Nat
  <2>1. IsFiniteSet(S)
    BY <1>1, FS_Subset
  <2> QED
    BY <1>1, <2>1, SumNat
<1>5. Predicted(j)' = h + SumFunctionOnSet(Usages(j), S)
  BY <1>2, PredictedNext
<1>6. Predicted(j) <= l + Slack
  BY DEF NotOverbooked, Slack
<1>7. h \in Int /\ l \in Int
  <2>1. \A a, b \in Nat : a * b \in Int
    OBVIOUS
  <2>2. node.range[j] \in Nat /\ node.limit \in Nat /\ node.capacity \in Nat
    BY <1>0, RangeType
  <2> QED
    BY <2>1, <2>2
<1>8. Slack \in Int /\ Slack' \in Int /\ Slack <= Slack'
  BY SlackGrows
<1> HIDE DEF h, l
<1>9. h + SumFunctionOnSet(Usages(j), S) <= l + Slack'
  BY <1>1, <1>3, <1>4, <1>6, <1>7, <1>8
<1> QED
  BY <1>5, <1>9 DEF l

LEMMA OverbookingStep ==
    ASSUME AraTypeOK, AraTypeOK', Books, NotOverbooked, [AraNext]_araVars
    PROVE  NotOverbooked'
<1>0. TypeOK /\ UNCHANGED <<deploy, node>>
  BY DayFixed DEF AraTypeOK
<1>1. SUFFICES ASSUME Comparable, Placed' # {}, NEW j \in DOMAIN node.range
               PROVE  Predicted(j)' <= node.limit * node.capacity + Slack'
  BY <1>0, BookFixed DEF NotOverbooked, Slack
<1>2. ASSUME NEW p \in Pods, Schedule(p), Known(p)
      PROVE  Predicted(j)' <= node.limit * node.capacity + Slack'
  BY <1>1, <1>2, ScheduleFits
<1>3. CASE \A p \in Pods : Schedule(p) => ~ Known(p)
  <2>1. ASSUME NEW p \in Pods, pod[p] # "scheduled", pod'[p] = "scheduled"
        PROVE  Schedule(p)
    <3>1. ASSUME NEW q \in Pods, NEW s, PodChanges(q, s) PROVE q = p /\ s = "scheduled"
      BY <1>0, <2>1, <3>1 DEF PodChanges, TypeOK
    <3>2. pod' # pod
      BY <2>1
    <3>3. PICK q \in Pods : Schedule(q) \/ DeletePod(q) \/ RemovePod(q)
      BY <3>2 DEF AraNext, araVars, vars, podVars, ObserveView, Controller, ControllerFails, ObservePod,
         ObserveNode, handleUpdateEvent, Reconcile, SkipPolicy, PatchNodeAnnotation, PatchFails, Restart
    <3> QED
      BY <3>1, <3>3 DEF Schedule, DeletePod, RemovePod
  <2>2. Placed' \subseteq Placed
    <3> SUFFICES ASSUME NEW p \in Placed' PROVE p \in Placed
      OBVIOUS
    <3>1. p \in Pods /\ pod'[p] = "scheduled" /\ Known(p)
      BY <1>0, BookFixed DEF Placed
    <3> QED
      BY <1>3, <2>1, <3>1 DEF Placed
  <2> QED
    BY <1>1, <2>2, NoneAdded
<1> QED
  BY <1>2, <1>3

(* At midnight nothing is claimed, and nothing is shown.                   *)
LEMMA BooksInit ==
    ASSUME AraInit, AraTypeOK
    PROVE  Books /\ NotOverbooked
<1>0. TypeOK /\ ViewTypes
  BY DEF AraTypeOK, ViewTypes
<1>1. /\ \A p \in Pods : pod[p] = "pending" /\ podSeen[p] = "pending"
      /\ notes = <<>> /\ queue = {} /\ Busy = {} /\ watch = <<>> /\ pending = <<>>
      /\ seen = anno /\ view = anno /\ anno[Metric1] = Absent
  BY NodeAssumption DEF AraInit, Init, Busy, NoAnnotations
<1>2. Bookkeeping
  BY <1>1 DEF Bookkeeping, ListerTrue, NotesMatter, CopiesFollow, Ends, JobsTrue
<1>3. Copies = {Absent}
  BY <1>1 DEF Copies
<1>4. LengthsMatch
  BY <1>3 DEF LengthsMatch, UsageRange
<1>5. ASSUME Comparable, NEW j \in DOMAIN node.range PROVE Shortfall(j)
  <2>1. Unsettled = {}
    BY <1>1 DEF Unsettled, Noted, Tasks
  <2>2. Claimed(j) = 0
    <3>1. \A p \in Pods : Claim(j)[p] = 0
      BY <1>1 DEF Claim, Claims
    <3> QED
      BY <3>1, PodsAssumption, SumZero DEF Claimed
  <2>3. DeltaAt(Absent, j) = 0
    BY <1>0, <1>5, RangeType DEF DeltaAt, UsageRange
  <2>4. Shown(j) = {0} /\ DeltaAt(anno[Metric1], j) = 0
    BY <1>1, <1>3, <2>3 DEF Shown
  <2>5. Slack \in Nat
    <3>1. \A a, b \in Nat : a * b \in Nat
      OBVIOUS
    <3> QED
      BY <3>1, SlackType, RangeAssumption DEF Slack
  <2> QED
    BY <2>1, <2>2, <2>4, <2>5, RangeAssumption DEF Shortfall, Within
<1>6. NotOverbooked
  BY <1>1 DEF NotOverbooked, Placed
<1> QED
  BY <1>2, <1>4, <1>5, <1>6 DEF Books

(* Filter's promise, for every cluster whose controller keeps a delta for  *)
(* the metric that the plugin reads: the pods let onto the node are not    *)
(* expected to take it over the limit by more than a pod for each lapse,   *)
(* however the watches, the workers and the scheduler interleave.          *)
THEOREM FilterNotOverbooks ==
    ASSUME Listed
    PROVE  AraSpec => []NotOverbooked
<1>1. AraInit /\ AraTypeOK => Books /\ NotOverbooked
  BY BooksInit
<1>2. AraTypeOK /\ AraTypeOK' /\ Books /\ NotOverbooked /\ [AraNext]_araVars => Books' /\ NotOverbooked'
  <2> SUFFICES ASSUME AraTypeOK, AraTypeOK', Books, NotOverbooked, [AraNext]_araVars
               PROVE  Books' /\ NotOverbooked'
    OBVIOUS
  <2>1. TypeOK'
    BY DEF AraTypeOK
  <2> QED
    BY <2>1, BooksStep, OverbookingStep
<1> QED
  BY <1>1, <1>2, AraTypeCorrect, PTL DEF AraSpec
=============================================================================
