-------------------------- MODULE DeploymentLoad ----------------------------
(***************************************************************************)
(* The deployment controller of the annotator (annotator/deployment.go):   *)
(* ten minutes after every midnight a cron job puts a key for every        *)
(* namespace into the queue, and workers annotate the deployments of a     *)
(* namespace with the usage that Prometheus has for them, one by one.  The *)
(* first one that fails ends the round; the key is then tried again, with  *)
(* a growing delay, from the start.                                        *)
(*                                                                         *)
(* One metric (keys of other metrics do not meet these); time is counted   *)
(* in days.  Prometheus knows a deployment by its name only.               *)
(***************************************************************************)
EXTENDS Integers, FiniteSets

CONSTANTS
    Deploy, Namespace,
    NamespaceOf,  \* a function of Deploy
    Namesake,     \* deployments that may have a namesake in another namespace
    Broken,       \* deployments whose queries always end in an error
    Workers,
    Idle, Blank, Other,
    MaxDay, MaxChanges, MaxRestarts  \* bounds

ASSUME DeployAssumption ==
    /\ NamespaceOf \in [Deploy -> Namespace]
    /\ Broken \subseteq Deploy /\ Namesake \subseteq Deploy
    /\ MaxDay \in Nat /\ MaxChanges \in Nat /\ MaxRestarts \in Nat
    /\ Blank \notin Deploy /\ Other \notin Deploy

VARIABLES
    ranged,    \* the metric has the prefix range_
    day,
    history,   \* deployments with samples of yesterday that can be read
    api,       \* the deployments in the API server
    anno,      \* their annotations
    seen,      \* the deployment lister
    fired,     \* the cron job has run today
    queue,     \* keys waiting
    delayed,   \* keys in AddRateLimited
    worker,    \* the round of each goroutine
    due,       \* history: deployments that a run of the cron job found and
               \* that no round has dealt with since
    changes, restarts

envVars == <<ranged, day, history, fired, changes, restarts>>
queueVars == <<queue, delayed>>
vars == <<envVars, api, anno, seen, queueVars, worker, due>>

(* The annotation: whose samples it is made of, or Blank, and their day.   *)
None == [of |-> Blank, day |-> -1]
Annotation == [of : Deploy \cup {Other, Blank}, day : -1..MaxDay]
Object == [exists : BOOLEAN, replicas : {0, 1}, annotated : BOOLEAN]

(* A round: the deployments that List returned and it has still to come    *)
(* to, those of them that then had no replicas or the annotation, and the  *)
(* value read from Prometheus that is to be patched next.                  *)
Round == [key : Namespace, left : SUBSET Deploy, idle : SUBSET Deploy, annotated : SUBSET Deploy,
          value : Annotation, target : Deploy \cup {Blank}]

ASSUME IdleAssumption == Idle \notin Round

DeploymentTypeOK ==
    /\ ranged \in BOOLEAN /\ fired \in BOOLEAN
    /\ day \in 0..MaxDay
    /\ api \in [Deploy -> Object]
    /\ seen \in [Deploy -> Object]
    /\ anno \in [Deploy -> Annotation]
    /\ queue \subseteq Namespace /\ delayed \subseteq Namespace
    /\ worker \in [Workers -> Round \cup {Idle}]
    /\ history \subseteq Deploy /\ due \subseteq Deploy
    /\ ranged => \A d \in Deploy : anno[d] = None \/ anno[d].of # Blank

NewDeploy == [exists |-> TRUE, replicas |-> 1, annotated |-> FALSE]

Init ==
    /\ ranged \in BOOLEAN
    /\ day = 0
    /\ api = [d \in Deploy |-> NewDeploy]
    /\ seen = api
    /\ anno = [d \in Deploy |-> None]
    /\ history \in SUBSET (Deploy \ Broken)
    /\ fired = FALSE
    /\ queue = {} /\ delayed = {}
    /\ worker = [w \in Workers |-> Idle]
    /\ due = {}
    /\ changes = 0 /\ restarts = 0

-----------------------------------------------------------------------------
(* Users, the API server and the informer.                                 *)

Changing == changes < MaxChanges /\ changes' = changes + 1

DeployCreated(d) ==
    /\ Changing /\ ~api[d].exists
    /\ api' = [api EXCEPT ![d] = NewDeploy]
    /\ UNCHANGED <<anno, ranged, day, history, fired, restarts, seen, queueVars, worker, due>>

DeployDeleted(d) ==
    /\ Changing /\ api[d].exists
    /\ api' = [api EXCEPT ![d].exists = FALSE, ![d].annotated = FALSE]
    /\ anno' = [anno EXCEPT ![d] = None]
    /\ due' = due \ {d}
    /\ UNCHANGED <<ranged, day, history, fired, restarts, seen, queueVars, worker>>

Scaled(d) ==
    /\ Changing /\ api[d].exists
    /\ api' = [api EXCEPT ![d].replicas = 1 - @]
    /\ UNCHANGED <<anno, ranged, day, history, fired, restarts, seen, queueVars, worker, due>>

ObserveDeploy(d) ==
    /\ seen[d] # api[d]
    /\ seen' = [seen EXCEPT ![d] = api[d]]
    /\ UNCHANGED <<envVars, api, anno, queueVars, worker, due>>

(* Midnight: what runs then has samples of the day that is over, and so    *)
(* may have what was scaled down or deleted earlier that day.              *)
NextDay ==
    /\ day < MaxDay
    /\ day' = day + 1
    /\ fired' = FALSE
    /\ \E earlier \in SUBSET (Deploy \ Broken) :
          history' = earlier \cup {d \in Deploy \ Broken : api[d].exists /\ api[d].replicas = 1}
    /\ UNCHANGED <<ranged, changes, restarts, api, anno, seen, queueVars, worker, due>>

-----------------------------------------------------------------------------
(* The queue and its workers.                                              *)

Busy == {w \in Workers : worker[w] # Idle}
Processing == {worker[w].key : w \in Busy}

Listed(k) == {d \in Deploy : seen[d].exists /\ NamespaceOf[d] = k}

NewRound(k) ==
    [key |-> k, left |-> Listed(k), value |-> None, target |-> Blank,
     idle |-> {d \in Listed(k) : seen[d].replicas = 0},
     annotated |-> {d \in Listed(k) : seen[d].annotated}]

Without(round, d) ==
    [round EXCEPT !.left = @ \ {d}, !.idle = @ \ {d}, !.annotated = @ \ {d},
                  !.target = Blank, !.value = None]

(* deploymentJob.Run: the namespaces always exist here, with or without    *)
(* deployments.                                                            *)
CronJob ==
    /\ ~fired /\ fired' = TRUE
    /\ queue' = queue \cup Namespace
    /\ due' = due \cup {d \in Deploy : seen[d].exists /\ api[d].exists}
    /\ UNCHANGED <<ranged, day, history, changes, restarts, delayed, api, anno, seen, worker>>

(* The delay of AddRateLimited is over.                                    *)
Requeue(k) ==
    /\ k \in delayed
    /\ delayed' = delayed \ {k}
    /\ queue' = queue \cup {k}
    /\ UNCHANGED <<envVars, api, anno, seen, worker, due>>

(* Mutant: a key that another worker is processing is handed out.          *)
GetAnyKey(w) ==
    /\ worker[w] = Idle
    /\ \E k \in queue :
          /\ queue' = queue \ {k}
          /\ worker' = [worker EXCEPT ![w] = NewRound(k)]
    /\ UNCHANGED <<envVars, delayed, api, anno, seen, due>>

(* processNextWorkItem takes a key, and syncDeployment lists its namespace. *)
SyncDeployment(w) ==
    /\ worker[w] = Idle
    /\ \E k \in queue \ Processing :
          /\ queue' = queue \ {k}
          /\ worker' = [worker EXCEPT ![w] = NewRound(k)]
    /\ UNCHANGED <<envVars, delayed, api, anno, seen, due>>

(* Mutant: the failed key is forgotten.                                    *)
SyncFailsForGood(w) ==
    /\ worker' = [worker EXCEPT ![w] = Idle]
    /\ UNCHANGED queueVars

(* The round ends with an error and its key is tried again.                *)
SyncFails(w) ==
    /\ worker' = [worker EXCEPT ![w] = Idle]
    /\ delayed' = delayed \cup {worker[w].key}
    /\ UNCHANGED queue

(* Every deployment has been dealt with: the key is forgotten.             *)
SyncDone(w) ==
    /\ w \in Busy /\ worker[w].left = {}
    /\ worker' = [worker EXCEPT ![w] = Idle]
    /\ UNCHANGED <<envVars, queueVars, api, anno, seen, due>>

-----------------------------------------------------------------------------
(* annotateDeploymentLoad.                                                 *)

(* Mutant: the lister has an order of its own.                             *)
NextInOrder(S) == {d \in S : S \cap Broken # {} => d \in Broken}

(* List goes over a Go map: any deployment may be the next.                *)
NextOf(S) == S

(* Whose samples the selector {deployment="name"} may give, those of the   *)
(* day before in queryRange and of the present in query; Blank: nobody's.  *)
(* Of several series queryRange keeps the first, query the last.           *)
HasSamples(d) == IF ranged THEN d \in history ELSE api[d].exists /\ api[d].replicas = 1
Series(d) == {d, Blank, Other} \ ({IF HasSamples(d) THEN Blank ELSE d} \cup {s \in {Other} : d \notin Namesake})

(* Mutant: queryRange without the check for an empty result.               *)
AnswersUnchecked(d) == {[of |-> s, day |-> day] : s \in Series(d)}

(* What QueryByDeployment and QueryRangeByDeployment return without an     *)
(* error: query has an empty string when there are no samples, queryRange  *)
(* the error ErrEmptyMsg.                                                  *)
Answers(d) == {[of |-> s, day |-> day] : s \in {t \in Series(d) : ranged => t # Blank}}

Begun(w) == w \in Busy /\ worker[w].target = Blank

QueryByDeployment(w, d) ==
    /\ Begun(w) /\ d \in NextOf(worker[w].left) \ Broken
    /\ \E v \in Answers(d) :
          worker' = [worker EXCEPT ![w].value = v, ![w].target = d]
    /\ UNCHANGED <<envVars, queueVars, api, anno, seen, due>>

(* No samples are no reason to fail, nor is any error for a deployment     *)
(* without replicas.                                                       *)
SkipDeployment(w, d) ==
    /\ Begun(w) /\ d \in NextOf(worker[w].left)
    /\ \/ d \notin Broken /\ ranged /\ Blank \in Series(d)
       \/ d \in worker[w].idle
    /\ worker' = [worker EXCEPT ![w] = Without(worker[w], d)]
    /\ due' = due \ {d}
    /\ UNCHANGED <<envVars, queueVars, api, anno, seen>>

QueryFails(w, d) ==
    /\ Begun(w) /\ d \in NextOf(worker[w].left)
    /\ d \notin worker[w].idle
    /\ SyncFails(w)
    /\ UNCHANGED <<envVars, api, anno, seen, due>>

(* The JSON patch says "replace" when the copy that List returned has the  *)
(* annotation.                                                             *)
Patchable(w, d) ==
    /\ api[d].exists
    /\ d \in worker[w].annotated => api[d].annotated

patchDeploymentAnnotation(w, d) ==
    /\ w \in Busy /\ worker[w].target = d
    /\ Patchable(w, d)
    /\ anno' = [anno EXCEPT ![d] = worker[w].value]
    /\ api' = [api EXCEPT ![d].annotated = TRUE]
    /\ worker' = [worker EXCEPT ![w] = Without(worker[w], d)]
    /\ due' = due \ {d}
    /\ UNCHANGED <<envVars, queueVars, seen>>

PatchFails(w) ==
    /\ w \in Busy /\ worker[w].target # Blank
    /\ SyncFails(w)
    /\ UNCHANGED <<envVars, api, anno, seen, due>>

(* A new leader: the queue is lost and nothing is due before the next run. *)
Restart ==
    /\ restarts < MaxRestarts /\ restarts' = restarts + 1
    /\ queue' = {} /\ delayed' = {}
    /\ worker' = [w \in Workers |-> Idle]
    /\ seen' = api
    /\ due' = {}
    /\ UNCHANGED <<ranged, day, history, fired, changes, api, anno>>

(* Whatever a worker does next in its round.                               *)
RoundStep(w) ==
    \/ SyncDone(w)
    \/ PatchFails(w)
    \/ \E d \in Deploy :
          \/ QueryByDeployment(w, d)
          \/ SkipDeployment(w, d)
          \/ QueryFails(w, d)
          \/ patchDeploymentAnnotation(w, d)

Next ==
    \/ \E d \in Deploy : DeployCreated(d) \/ DeployDeleted(d) \/ Scaled(d) \/ ObserveDeploy(d)
    \/ NextDay
    \/ CronJob
    \/ \E k \in Namespace : Requeue(k)
    \/ \E w \in Workers : SyncDeployment(w) \/ RoundStep(w)
    \/ Restart

(* Workers run (queries have a timeout) and delays end; neither Prometheus *)
(* nor the API server fails for ever, and the random order of a Go map     *)
(* puts every deployment first now and then.                               *)
Fairness ==
    /\ \A k \in Namespace :
          /\ WF_vars(Requeue(k))
          /\ SF_vars(\E w \in Workers : SyncDeployment(w) /\ worker'[w].key = k)
    /\ \A w \in Workers : WF_vars(RoundStep(w))
    /\ \A d \in Deploy : WF_vars(ObserveDeploy(d))
    /\ \A d \in Deploy \ Broken :
          /\ SF_vars(\E w \in Workers : QueryByDeployment(w, d) \/ SkipDeployment(w, d))
          /\ SF_vars(\E w \in Workers : patchDeploymentAnnotation(w, d))

Spec == Init /\ [][Next]_vars /\ Fairness

-----------------------------------------------------------------------------

(* Whatever fails first, no deployment is forgotten: as long as one has    *)
(* not been dealt with since the cron job found it, its namespace is in    *)
(* the queue or delayed, or a round has it still ahead.                    *)
DueMeansPending ==
    \A d \in due :
        \/ NamespaceOf[d] \in queue \cup delayed
        \/ \E w \in Busy : worker[w].key = NamespaceOf[d] /\ d \in worker[w].left

(* A day's usage is never overwritten by that of an earlier day, although  *)
(* rounds drag on past the next midnight and start over.                   *)
UsageNotOutdated ==
    [][\A d \in Deploy : api'[d].exists /\ api[d].exists
          => anno'[d].day >= anno[d].day]_vars

(* Every deployment that the cron job found is dealt with in the end, even *)
(* beside one in its namespace whose query fails each time.                *)
DeploymentsServed == \A d \in Deploy \ Broken : d \in due ~> d \notin due
=============================================================================
