------------------------ MODULE DeploymentLoad_proofs ------------------------
(***************************************************************************)
(* Proofs about DeploymentLoad, for any deployments, namespaces, workers,  *)
(* days, changes and restarts.                                             *)
(***************************************************************************)
EXTENDS DeploymentLoad, TLAPS

-----------------------------------------------------------------------------
(* What a round is made of.                                                *)

(* A round under way has its fields.                                       *)
LEMMA RoundTypes ==
    ASSUME DeploymentTypeOK, NEW w \in Workers, worker[w] # Idle
    PROVE  /\ worker[w] \in Round /\ w \in Busy
           /\ worker[w].key \in Namespace /\ worker[w].left \subseteq Deploy
           /\ worker[w].target \in Deploy \cup {Blank} /\ worker[w].value \in Annotation
BY DEF DeploymentTypeOK, Round, Busy

(* A round begins with the deployments of its namespace, and no value.     *)
LEMMA NewRoundType ==
    ASSUME DeploymentTypeOK, NEW k \in Namespace
    PROVE  /\ NewRound(k) \in Round
           /\ NewRound(k).key = k /\ NewRound(k).target = Blank /\ NewRound(k).left = Listed(k)
<1>1. None \in Annotation
  BY DeployAssumption DEF None, Annotation
<1> QED
  BY <1>1 DEF NewRound, Round, Listed

(* A deployment that was dealt with leaves the round, and so does the value. *)
LEMMA WithoutType ==
    ASSUME NEW round \in Round, NEW d
    PROVE  /\ Without(round, d) \in Round
           /\ Without(round, d).key = round.key /\ Without(round, d).target = Blank
           /\ Without(round, d).left = round.left \ {d}
<1>1. None \in Annotation
  BY DeployAssumption DEF None, Annotation
<1> QED
  BY <1>1 DEF Without, Round

(* An answer of Prometheus is of today, and never empty for a range.       *)
LEMMA AnswerType ==
    ASSUME DeploymentTypeOK, NEW d \in Deploy, NEW v \in Answers(d)
    PROVE  v \in Annotation /\ v.day = day /\ (ranged => v.of # Blank)
<1>1. day \in 0..MaxDay /\ MaxDay \in Nat
  BY DeployAssumption DEF DeploymentTypeOK
<1>2. PICK s \in Series(d) : v = [of |-> s, day |-> day] /\ (ranged => s # Blank)
  BY DEF Answers
<1>3. s \in {d, Blank, Other}
  BY <1>2 DEF Series
<1>4. day \in -1..MaxDay
  BY <1>1
<1> QED
  BY <1>2, <1>3, <1>4 DEF Annotation

(* What a step of a round may do: end it, take up a deployment with a      *)
(* value for it, or leave one behind.                                      *)
LEMMA RoundChange ==
    ASSUME DeploymentTypeOK, NEW w \in Workers, RoundStep(w)
    PROVE  /\ worker[w] # Idle /\ DOMAIN worker' = Workers
           /\ \A v \in Workers \ {w} : worker'[v] = worker[v]
           /\ UNCHANGED <<ranged, day, history, fired, changes, restarts, seen, queue>>
           /\ \/ worker'[w] = Idle
              \/ /\ worker'[w] \in Round /\ worker'[w].key = worker[w].key
                 /\ worker'[w].left \subseteq worker[w].left
                 /\ \/ worker'[w].target = Blank
                    \/ /\ worker'[w].target \in worker'[w].left
                       /\ worker'[w].value \in Answers(worker'[w].target)
                       /\ UNCHANGED <<anno, api, due>>
<1> USE DEF envVars, queueVars
<1>0. DOMAIN worker = Workers
  BY DEF DeploymentTypeOK
<1>1. ASSUME SyncDone(w) \/ PatchFails(w) \/ \E d \in Deploy : QueryFails(w, d)
      PROVE  /\ worker[w] # Idle /\ worker' = [worker EXCEPT ![w] = Idle]
             /\ UNCHANGED <<ranged, day, history, fired, changes, restarts, seen, queue>>
  BY <1>1 DEF SyncDone, PatchFails, QueryFails, SyncFails, Begun, Busy
<1>2. ASSUME NEW d \in Deploy, SkipDeployment(w, d) \/ patchDeploymentAnnotation(w, d)
      PROVE  /\ worker[w] # Idle /\ worker' = [worker EXCEPT ![w] = Without(worker[w], d)]
             /\ UNCHANGED <<ranged, day, history, fired, changes, restarts, seen, queue>>
  BY <1>2 DEF SkipDeployment, patchDeploymentAnnotation, Begun, Busy
<1>3. ASSUME NEW d \in Deploy, QueryByDeployment(w, d)
      PROVE  /\ worker[w] # Idle /\ DOMAIN worker' = Workers
             /\ \A v \in Workers \ {w} : worker'[v] = worker[v]
             /\ UNCHANGED <<ranged, day, history, fired, changes, restarts, seen, queue, anno, api, due>>
             /\ worker'[w] \in Round /\ worker'[w].key = worker[w].key
             /\ worker'[w].left = worker[w].left
             /\ worker'[w].target \in worker'[w].left
             /\ worker'[w].value \in Answers(worker'[w].target)
  <2>1. worker[w] # Idle /\ d \in worker[w].left
        /\ UNCHANGED <<ranged, day, history, fired, changes, restarts, seen, queue, anno, api, due>>
    BY <1>3 DEF QueryByDeployment, Begun, Busy, NextOf
  <2>2. PICK v \in Answers(d) : worker' = [worker EXCEPT ![w].value = v, ![w].target = d]
    BY <1>3 DEF QueryByDeployment
  <2>3. worker[w] \in Round /\ v \in Annotation
    BY <2>1, AnswerType, RoundTypes
  <2>4. /\ worker'[w] \in Round /\ worker'[w].key = worker[w].key /\ worker'[w].left = worker[w].left
        /\ worker'[w].target = d /\ worker'[w].value = v
    BY <1>0, <2>2, <2>3 DEF Round
  <2>5. DOMAIN worker' = Workers /\ \A u \in Workers \ {w} : worker'[u] = worker[u]
    BY <1>0, <2>2
  <2> QED
    BY <2>1, <2>4, <2>5
<1>4. CASE SyncDone(w) \/ PatchFails(w) \/ \E d \in Deploy : QueryFails(w, d)
  BY <1>0, <1>1, <1>4
<1>5. ASSUME NEW d \in Deploy, SkipDeployment(w, d) \/ patchDeploymentAnnotation(w, d)
      PROVE  /\ worker[w] # Idle /\ DOMAIN worker' = Workers
             /\ \A v \in Workers \ {w} : worker'[v] = worker[v]
             /\ UNCHANGED <<ranged, day, history, fired, changes, restarts, seen, queue>>
             /\ worker'[w] \in Round /\ worker'[w].key = worker[w].key
             /\ worker'[w].left \subseteq worker[w].left /\ worker'[w].target = Blank
  BY <1>0, <1>2, <1>5, RoundTypes, WithoutType
<1> QED
  BY <1>3, <1>4, <1>5 DEF RoundStep

-----------------------------------------------------------------------------
(* Types.                                                                  *)

(* In a round over a range, the value at hand is not empty.                *)
ValuesFound == ranged => \A w \in Busy : worker[w].target # Blank => worker[w].value.of # Blank

(* A round step keeps workers and annotations in their types.              *)
LEMMA RoundTypeStep ==
    ASSUME DeploymentTypeOK, ValuesFound, NEW w \in Workers, RoundStep(w)
    PROVE  DeploymentTypeOK' /\ ValuesFound'
<1> USE DEF envVars, queueVars
<1>1. worker[w] # Idle /\ UNCHANGED <<ranged, day, history, fired, changes, restarts, seen, queue>>
  BY RoundChange
<1>2. worker' \in [Workers -> Round \cup {Idle}]
  <2>1. DOMAIN worker' = Workers /\ \A v \in Workers : worker'[v] \in Round \cup {Idle}
    BY RoundChange DEF DeploymentTypeOK
  <2>2. worker' = [v \in DOMAIN worker' |-> worker'[v]]
    BY DEF RoundStep, SyncDone, PatchFails, QueryByDeployment, SkipDeployment, QueryFails, SyncFails,
           patchDeploymentAnnotation, DeploymentTypeOK
  <2> QED
    BY <2>1, <2>2
<1>3. ValuesFound'
  <2> SUFFICES ASSUME ranged', NEW v \in Busy', worker'[v].target # Blank
               PROVE  worker'[v].value.of # Blank
    BY DEF ValuesFound
  <2>1. v \in Workers /\ worker'[v] # Idle
    BY DEF Busy
  <2>2. CASE v = w
    <3>1. /\ worker'[w].target \in worker[w].left
          /\ worker'[w].value \in Answers(worker'[w].target)
      BY <2>1, <2>2, RoundChange
    <3>2. worker'[w].target \in Deploy
      BY <1>1, <3>1, RoundTypes
    <3> QED
      BY <1>1, <2>2, <3>1, <3>2, AnswerType
  <2>3. CASE v # w
    <3>1. worker'[v] = worker[v]
      BY <2>1, <2>3, RoundChange
    <3> QED
      BY <1>1, <2>1, <3>1 DEF ValuesFound, Busy
  <2> QED
    BY <2>2, <2>3
<1>4. /\ api' \in [Deploy -> Object] /\ anno' \in [Deploy -> Annotation] /\ delayed' \subseteq Namespace
      /\ due' \subseteq Deploy
      /\ ranged' => \A d \in Deploy : anno'[d] = None \/ anno'[d].of # Blank
  <2>1. ASSUME NEW d \in Deploy, patchDeploymentAnnotation(w, d)
        PROVE  /\ api' \in [Deploy -> Object] /\ anno' \in [Deploy -> Annotation] /\ UNCHANGED delayed
               /\ due' \subseteq Deploy
               /\ ranged' => \A e \in Deploy : anno'[e] = None \/ anno'[e].of # Blank
    <3>1. /\ worker[w].target = d /\ anno' = [anno EXCEPT ![d] = worker[w].value]
          /\ api' = [api EXCEPT ![d].annotated = TRUE] /\ due' = due \ {d} /\ UNCHANGED delayed
      BY <2>1 DEF patchDeploymentAnnotation
    <3>2. worker[w].value \in Annotation /\ d # Blank
      BY <1>1, RoundTypes, DeployAssumption
    <3>3. ranged => worker[w].value.of # Blank
      BY <1>1, <3>1, <3>2 DEF ValuesFound, Busy
    <3>4. api' \in [Deploy -> Object]
      BY <3>1, ZenonT(30) DEF DeploymentTypeOK, Object
    <3>5. anno' \in [Deploy -> Annotation]
      BY <3>1, <3>2 DEF DeploymentTypeOK
    <3>6. ranged' => \A e \in Deploy : anno'[e] = None \/ anno'[e].of # Blank
      BY <1>1, <3>1, <3>3 DEF DeploymentTypeOK
    <3> QED
      BY <3>1, <3>4, <3>5, <3>6 DEF DeploymentTypeOK
  <2>2. CASE \A d \in Deploy : ~ patchDeploymentAnnotation(w, d)
    <3>1. UNCHANGED <<api, anno>> /\ due' \subseteq due
      BY <2>2 DEF RoundStep, SyncDone, PatchFails, QueryByDeployment, SkipDeployment, QueryFails
    <3>2. delayed' = delayed \/ delayed' = delayed \cup {worker[w].key}
      BY <2>2 DEF RoundStep, SyncDone, PatchFails, QueryByDeployment, SkipDeployment, QueryFails, SyncFails
    <3>3. worker[w].key \in Namespace
      BY <1>1, RoundTypes
    <3> QED
      BY <1>1, <3>1, <3>2, <3>3 DEF DeploymentTypeOK
  <2> QED
    BY <1>1, <2>1, <2>2 DEF DeploymentTypeOK
<1>5. DeploymentTypeOK'
  BY <1>1, <1>2, <1>4 DEF DeploymentTypeOK
<1> QED
  BY <1>3, <1>5

(* Every step keeps every variable in its type.                            *)
LEMMA TypeStep ==
    ASSUME DeploymentTypeOK, ValuesFound, [Next]_vars
    PROVE  DeploymentTypeOK' /\ ValuesFound'
<1> USE DEF envVars, queueVars
<1>1. ASSUME NEW d \in Deploy, DeployCreated(d) \/ DeployDeleted(d) \/ Scaled(d) \/ ObserveDeploy(d)
      PROVE  DeploymentTypeOK' /\ ValuesFound'
  <2>1. /\ UNCHANGED <<ranged, day, history, fired, restarts, queue, delayed, worker>>
        /\ due' \subseteq due
    BY <1>1 DEF DeployCreated, DeployDeleted, Scaled, ObserveDeploy
  <2>2. api[d] \in Object
    BY DEF DeploymentTypeOK
  <2>3. api' \in [Deploy -> Object]
    <3>1. CASE DeployCreated(d)
      BY <3>1 DEF DeployCreated, DeploymentTypeOK, NewDeploy, Object
    <3>2. CASE DeployDeleted(d)
      BY <2>2, <3>2 DEF DeployDeleted, DeploymentTypeOK, Object
    <3>3. CASE Scaled(d)
      <4>1. api[d].replicas \in {0, 1} /\ 1 - api[d].replicas \in {0, 1}
        BY <2>2 DEF Object
      <4>2. api' = [api EXCEPT ![d].replicas = 1 - api[d].replicas]
        BY <3>3 DEF Scaled, DeploymentTypeOK
      <4> QED
        BY <2>2, <4>1, <4>2 DEF DeploymentTypeOK, Object
    <3>4. CASE ObserveDeploy(d)
      BY <3>4 DEF ObserveDeploy, DeploymentTypeOK
    <3> QED
      BY <1>1, <3>1, <3>2, <3>3, <3>4
  <2>4. seen' \in [Deploy -> Object]
    BY <1>1, <2>2 DEF DeployCreated, DeployDeleted, Scaled, ObserveDeploy, DeploymentTypeOK
  <2>5. anno' = anno \/ anno' = [anno EXCEPT ![d] = None]
    BY <1>1 DEF DeployCreated, DeployDeleted, Scaled, ObserveDeploy
  <2>6. None \in Annotation
    BY DeployAssumption DEF None, Annotation
  <2>7. /\ anno' \in [Deploy -> Annotation]
        /\ ranged' => \A e \in Deploy : anno'[e] = None \/ anno'[e].of # Blank
    <3>1. CASE anno' = anno
      BY <2>1, <3>1 DEF DeploymentTypeOK
    <3>2. CASE anno' = [anno EXCEPT ![d] = None]
      BY <2>1, <2>6, <3>2 DEF DeploymentTypeOK
    <3> QED
      BY <2>5, <3>1, <3>2
  <2>8. ValuesFound'
    BY <2>1 DEF ValuesFound, Busy
  <2>9. DeploymentTypeOK'
    BY <2>1, <2>3, <2>4, <2>7 DEF DeploymentTypeOK
  <2> QED
    BY <2>8, <2>9
<1>2. CASE NextDay
  <2>1. day' \in 0..MaxDay
    BY <1>2, DeployAssumption DEF NextDay, DeploymentTypeOK
  <2>2. /\ UNCHANGED <<ranged, api, anno, seen, queue, delayed, worker, due>> /\ fired' = FALSE
        /\ history' \subseteq Deploy
    BY <1>2 DEF NextDay
  <2>3. DeploymentTypeOK'
    BY <2>1, <2>2 DEF DeploymentTypeOK
  <2> QED
    BY <2>2, <2>3 DEF ValuesFound, Busy
<1>3. CASE CronJob
  <2>1. /\ UNCHANGED <<ranged, day, history, api, anno, seen, delayed, worker>> /\ fired' = TRUE
        /\ queue' = queue \cup Namespace /\ due' \subseteq Deploy
    BY <1>3 DEF CronJob, DeploymentTypeOK
  <2>2. DeploymentTypeOK'
    BY <2>1 DEF DeploymentTypeOK
  <2> QED
    BY <2>1, <2>2 DEF ValuesFound, Busy
<1>4. ASSUME NEW k \in Namespace, Requeue(k) PROVE DeploymentTypeOK' /\ ValuesFound'
  <2>1. DeploymentTypeOK'
    BY <1>4 DEF Requeue, DeploymentTypeOK
  <2> QED
    BY <1>4, <2>1 DEF Requeue, ValuesFound, Busy
<1>5. ASSUME NEW w \in Workers, SyncDeployment(w) PROVE DeploymentTypeOK' /\ ValuesFound'
  <2>1. PICK k \in queue : queue' = queue \ {k} /\ worker' = [worker EXCEPT ![w] = NewRound(k)]
    BY <1>5 DEF SyncDeployment
  <2>2. /\ k \in Namespace
        /\ UNCHANGED <<ranged, day, history, fired, changes, restarts, delayed, api, anno, seen, due>>
    BY <1>5 DEF SyncDeployment, DeploymentTypeOK
  <2>3. NewRound(k) \in Round /\ NewRound(k).target = Blank
    BY <2>2, NewRoundType
  <2>4. worker' \in [Workers -> Round \cup {Idle}]
    BY <2>1, <2>3 DEF DeploymentTypeOK
  <2>5. DeploymentTypeOK'
    BY <2>1, <2>2, <2>4 DEF DeploymentTypeOK
  <2>6. \A v \in Busy' : worker'[v].target # Blank => v \in Busy /\ worker'[v] = worker[v]
    BY <2>1, <2>3 DEF Busy, DeploymentTypeOK
  <2>7. ValuesFound'
    BY <2>2, <2>6 DEF ValuesFound
  <2> QED
    BY <2>5, <2>7
<1>6. ASSUME NEW w \in Workers, RoundStep(w) PROVE DeploymentTypeOK' /\ ValuesFound'
  BY <1>6, RoundTypeStep
<1>7. CASE Restart
  <2>1. /\ UNCHANGED <<ranged, day, history, fired, changes, api, anno>> /\ queue' = {} /\ delayed' = {}
        /\ worker' = [w \in Workers |-> Idle] /\ seen' = api /\ due' = {}
    BY <1>7 DEF Restart
  <2>2. Busy' = {}
    BY <2>1 DEF Busy
  <2>3. DeploymentTypeOK'
    BY <2>1 DEF DeploymentTypeOK
  <2> QED
    BY <2>2, <2>3 DEF ValuesFound
<1>8. CASE UNCHANGED vars
  <2>1. DeploymentTypeOK'
    BY <1>8 DEF vars, DeploymentTypeOK
  <2> QED
    BY <1>8, <2>1 DEF vars, ValuesFound, Busy
<1> QED
  BY <1>1, <1>2, <1>3, <1>4, <1>5, <1>6, <1>7, <1>8 DEF Next

(* The initial state is of the type.                                       *)
LEMMA TypeInit == Init => DeploymentTypeOK /\ ValuesFound
<1> SUFFICES ASSUME Init
             PROVE  DeploymentTypeOK /\ ValuesFound
  OBVIOUS
<1>1. Busy = {}
  BY DEF Init, Busy
<1>2. NewDeploy \in Object /\ None \in Annotation
  BY DeployAssumption DEF NewDeploy, Object, None, Annotation
<1>3. /\ api \in [Deploy -> Object] /\ seen \in [Deploy -> Object] /\ anno \in [Deploy -> Annotation]
      /\ \A d \in Deploy : anno[d] = None
  BY <1>2 DEF Init
<1>4. /\ ranged \in BOOLEAN /\ fired = FALSE /\ day \in 0..MaxDay /\ queue = {} /\ delayed = {}
      /\ history \subseteq Deploy /\ due = {} /\ worker \in [Workers -> Round \cup {Idle}]
  BY DeployAssumption DEF Init
<1>5. DeploymentTypeOK
  BY <1>3, <1>4 DEF DeploymentTypeOK
<1> QED
  BY <1>1, <1>5 DEF ValuesFound

(* Every variable stays in its type; in particular an annotation of a      *)
(* range is never written without samples, which queryRange reports as an  *)
(* error and query does not.                                               *)
THEOREM TypeCorrect == Spec => []DeploymentTypeOK
<1>1. DeploymentTypeOK /\ ValuesFound /\ [Next]_vars => DeploymentTypeOK' /\ ValuesFound'
  BY TypeStep
<1> QED
  BY <1>1, TypeInit, PTL DEF Spec

-----------------------------------------------------------------------------
(* No deployment is forgotten.                                             *)

(* What is due exists, for the API server and for the lister: a round that *)
(* begins has it in its list.                                              *)
DueExists == \A d \in due : api[d].exists /\ seen[d].exists

(* Every step keeps what is due in the queue, among the delayed keys or    *)
(* ahead of a round.                                                       *)
LEMMA PendingStep ==
    ASSUME DeploymentTypeOK, DueExists, DueMeansPending, [Next]_vars
    PROVE  DueExists' /\ DueMeansPending'
<1> USE DEF envVars, queueVars
<1>1. ASSUME NEW d \in Deploy, DeployCreated(d) \/ DeployDeleted(d) \/ Scaled(d) \/ ObserveDeploy(d)
      PROVE  DueExists' /\ DueMeansPending'
  <2>1. UNCHANGED <<queue, delayed, worker>> /\ due' \subseteq due
    BY <1>1 DEF DeployCreated, DeployDeleted, Scaled, ObserveDeploy
  <2>2. DueMeansPending'
    BY <2>1 DEF DueMeansPending, Busy
  <2>3. ASSUME NEW e \in due' PROVE api'[e].exists /\ seen'[e].exists
    <3>1. e \in due /\ e \in Deploy /\ api[e].exists /\ seen[e].exists
      BY <2>1 DEF DueExists, DeploymentTypeOK
    <3>2. CASE DeployCreated(d)
      BY <3>1, <3>2 DEF DeployCreated, DeploymentTypeOK
    <3>3. CASE DeployDeleted(d)
      BY <2>3, <3>1, <3>3 DEF DeployDeleted, DeploymentTypeOK
    <3>4. CASE Scaled(d)
      <4>1. \A f \in Deploy : api'[f].exists = api[f].exists
        BY <3>4 DEF Scaled, DeploymentTypeOK, Object
      <4> QED
        BY <3>1, <3>4, <4>1 DEF Scaled
    <3>5. CASE ObserveDeploy(d)
      BY <3>1, <3>5 DEF ObserveDeploy, DeploymentTypeOK
    <3> QED
      BY <1>1, <3>2, <3>3, <3>4, <3>5
  <2> QED
    BY <2>2, <2>3 DEF DueExists
<1>2. CASE NextDay \/ UNCHANGED vars
  BY <1>2 DEF NextDay, vars, DueExists, DueMeansPending, Busy
<1>3. CASE CronJob
  <2>1. /\ UNCHANGED <<api, seen>> /\ queue' = queue \cup Namespace
        /\ due' = due \cup {d \in Deploy : seen[d].exists /\ api[d].exists}
    BY <1>3 DEF CronJob
  <2>2. \A d \in due' : d \in Deploy /\ NamespaceOf[d] \in Namespace
    BY <2>1, DeployAssumption DEF DeploymentTypeOK
  <2> QED
    BY <2>1, <2>2 DEF DueExists, DueMeansPending
<1>4. ASSUME NEW k \in Namespace, Requeue(k) PROVE DueExists' /\ DueMeansPending'
  <2>1. UNCHANGED <<api, seen, worker, due>> /\ queue' \cup delayed' = queue \cup delayed
    BY <1>4 DEF Requeue
  <2> QED
    BY <2>1 DEF DueExists, DueMeansPending, Busy
<1>5. ASSUME NEW w \in Workers, SyncDeployment(w) PROVE DueExists' /\ DueMeansPending'
  <2>1. PICK k \in queue : queue' = queue \ {k} /\ worker' = [worker EXCEPT ![w] = NewRound(k)]
    BY <1>5 DEF SyncDeployment
  <2>2. k \in Namespace /\ worker[w] = Idle /\ UNCHANGED <<delayed, api, seen, due>>
    BY <1>5 DEF SyncDeployment, DeploymentTypeOK
  <2>3. NewRound(k) \in Round /\ NewRound(k).key = k /\ NewRound(k).left = Listed(k)
    BY <2>2, NewRoundType
  <2>4. worker'[w] = NewRound(k) /\ \A v \in Workers \ {w} : worker'[v] = worker[v]
    BY <2>1 DEF DeploymentTypeOK
  <2>5. ASSUME NEW d \in due, NamespaceOf[d] \notin queue' \cup delayed'
        PROVE  \E v \in Busy' : worker'[v].key = NamespaceOf[d] /\ d \in worker'[v].left
    <3>1. CASE NamespaceOf[d] = k
      <4>1. d \in Listed(k)
        BY <3>1 DEF Listed, DueExists, DeploymentTypeOK
      <4>2. NewRound(k) # Idle
        BY <2>3, IdleAssumption
      <4> QED
        BY <2>3, <2>4, <3>1, <4>1, <4>2 DEF Busy
    <3>2. CASE NamespaceOf[d] # k
      <4>1. PICK v \in Busy : worker[v].key = NamespaceOf[d] /\ d \in worker[v].left
        BY <2>1, <2>2, <2>5, <3>2 DEF DueMeansPending
      <4>2. v # w
        BY <2>2 DEF Busy
      <4> QED
        BY <2>4, <4>1, <4>2 DEF Busy
    <3> QED
      BY <3>1, <3>2
  <2> QED
    BY <2>2, <2>5 DEF DueExists, DueMeansPending
<1>6. ASSUME NEW w \in Workers, RoundStep(w) PROVE DueExists' /\ DueMeansPending'
  <2>1. /\ worker[w] # Idle /\ worker[w] \in Round /\ UNCHANGED <<seen, queue>>
        /\ \A v \in Workers \ {w} : worker'[v] = worker[v]
    BY <1>6, RoundChange, RoundTypes
  <2>2. DueExists'
    <3>1. due' \subseteq due
      BY <1>6 DEF RoundStep, SyncDone, PatchFails, QueryByDeployment, SkipDeployment, QueryFails,
                  patchDeploymentAnnotation
    <3>2. \A d \in Deploy : api'[d].exists = api[d].exists
      <4>1. ASSUME NEW d \in Deploy, patchDeploymentAnnotation(w, d)
            PROVE  \A e \in Deploy : api'[e].exists = api[e].exists
        BY <4>1 DEF patchDeploymentAnnotation, DeploymentTypeOK, Object
      <4>2. CASE \A d \in Deploy : ~ patchDeploymentAnnotation(w, d)
        BY <1>6, <4>2 DEF RoundStep, SyncDone, PatchFails, QueryByDeployment, SkipDeployment, QueryFails
      <4> QED
        BY <4>1, <4>2
    <3> QED
      BY <2>1, <3>1, <3>2 DEF DueExists, DeploymentTypeOK
  <2>3. DueMeansPending'
    <3> SUFFICES ASSUME NEW d \in due', NamespaceOf[d] \notin queue' \cup delayed'
                 PROVE  \E v \in Busy' : worker'[v].key = NamespaceOf[d] /\ d \in worker'[v].left
      BY DEF DueMeansPending
    <3>1. due' \subseteq due /\ delayed \subseteq delayed'
      BY <1>6 DEF RoundStep, SyncDone, PatchFails, QueryByDeployment, SkipDeployment, QueryFails, SyncFails,
                  patchDeploymentAnnotation
    <3>2. PICK v \in Busy : worker[v].key = NamespaceOf[d] /\ d \in worker[v].left
      BY <2>1, <3>1 DEF DueMeansPending
    <3>3. CASE v # w
      BY <2>1, <3>2, <3>3 DEF Busy
    <3>4. CASE v = w
      <4>1. ~ SyncDone(w)
        BY <3>2, <3>4 DEF SyncDone
      <4>2. ~ PatchFails(w) /\ \A e \in Deploy : ~ QueryFails(w, e)
        BY <3>2, <3>4 DEF PatchFails, QueryFails, SyncFails
      <4>3. ASSUME NEW e \in Deploy, QueryByDeployment(w, e)
            PROVE  worker'[w] \in Round /\ worker'[w].key = worker[w].key /\ worker'[w].left = worker[w].left
        <5>1. PICK a \in Answers(e) : worker' = [worker EXCEPT ![w].value = a, ![w].target = e]
          BY <4>3 DEF QueryByDeployment
        <5>2. a \in Annotation
          BY AnswerType
        <5> QED
          BY <2>1, <5>1, <5>2 DEF DeploymentTypeOK, Round
      <4>4. ASSUME NEW e \in Deploy, SkipDeployment(w, e) \/ patchDeploymentAnnotation(w, e)
            PROVE  worker'[w] \in Round /\ worker'[w].key = worker[w].key /\ d \in worker'[w].left
        <5>1. worker' = [worker EXCEPT ![w] = Without(worker[w], e)] /\ due' = due \ {e}
          BY <4>4 DEF SkipDeployment, patchDeploymentAnnotation
        <5>2. worker'[w] = Without(worker[w], e) /\ d # e
          BY <5>1 DEF DeploymentTypeOK
        <5> QED
          BY <2>1, <3>2, <3>4, <5>2, WithoutType
      <4>5. worker'[w] \in Round /\ worker'[w].key = worker[w].key /\ d \in worker'[w].left
        BY <1>6, <3>2, <3>4, <4>1, <4>2, <4>3, <4>4 DEF RoundStep
      <4>6. w \in Busy'
        BY <4>5, IdleAssumption DEF Busy
      <4> QED
        BY <3>2, <3>4, <4>5, <4>6
    <3> QED
      BY <3>3, <3>4
  <2> QED
    BY <2>2, <2>3
<1>7. CASE Restart
  BY <1>7 DEF Restart, DueExists, DueMeansPending
<1> QED
  BY <1>1, <1>2, <1>3, <1>4, <1>5, <1>6, <1>7 DEF Next

(* As long as a deployment that the cron job found is not dealt with, its  *)
(* namespace is queued or delayed or a round has it ahead, whichever query *)
(* or patch fails first: the first failure ends the round, and the key is  *)
(* what brings back the deployments behind it.                             *)
THEOREM NoDeploymentForgotten == Spec => []DueMeansPending
<1>1. Init => DueExists /\ DueMeansPending
  BY DEF Init, DueExists, DueMeansPending
<1>2. DeploymentTypeOK /\ DueExists /\ DueMeansPending /\ [Next]_vars => DueExists' /\ DueMeansPending'
  BY PendingStep
<1> QED
  BY <1>1, <1>2, TypeCorrect, PTL DEF Spec

-----------------------------------------------------------------------------
(* A day's usage is not overwritten by that of an earlier day.             *)

(* The queue hands out no key that is being processed, and a round stays   *)
(* within the deployments of its namespace.                                *)
RoundsApart ==
    /\ \A v, w \in Busy : worker[v].key = worker[w].key => v = w
    /\ \A w \in Busy :
          /\ \A d \in worker[w].left : NamespaceOf[d] = worker[w].key
          /\ worker[w].target # Blank => worker[w].target \in worker[w].left

(* No annotation is of the future, and none is younger than the value that *)
(* a round is about to put in its place.                                   *)
DaysInOrder ==
    /\ \A d \in Deploy : anno[d].day <= day
    /\ \A w \in Busy : worker[w].target # Blank =>
          anno[worker[w].target].day <= worker[w].value.day /\ worker[w].value.day <= day

(* Steps that begin no round and leave the others alone keep them apart.   *)
LEMMA ApartStep ==
    ASSUME DeploymentTypeOK, RoundsApart, [Next]_vars
    PROVE  RoundsApart'
<1> USE DEF envVars, queueVars
<1>1. ASSUME NEW w \in Workers, SyncDeployment(w) PROVE RoundsApart'
  <2>1. PICK k \in queue \ Processing : worker' = [worker EXCEPT ![w] = NewRound(k)]
    BY <1>1 DEF SyncDeployment
  <2>2. k \in Namespace
    BY DEF DeploymentTypeOK
  <2>3. NewRound(k).key = k /\ NewRound(k).target = Blank /\ NewRound(k).left = Listed(k)
    BY <2>2, NewRoundType
  <2>4. worker'[w] = NewRound(k) /\ \A v \in Workers \ {w} : worker'[v] = worker[v]
    BY <2>1 DEF DeploymentTypeOK
  <2>5. \A v \in Busy : worker[v].key # k
    BY <2>1 DEF Processing
  <2>6. \A v \in Busy' : v = w \/ (v # w /\ v \in Busy /\ worker'[v] = worker[v])
    BY <2>4 DEF Busy
  <2>7. \A u, v \in Busy' : worker'[u].key = worker'[v].key => u = v
    BY <2>3, <2>4, <2>5, <2>6 DEF RoundsApart
  <2>8. ASSUME NEW v \in Busy'
        PROVE  /\ \A d \in worker'[v].left : NamespaceOf[d] = worker'[v].key
               /\ worker'[v].target # Blank => worker'[v].target \in worker'[v].left
    <3>1. CASE v = w
      BY <2>3, <2>4, <3>1 DEF Listed
    <3>2. CASE v # w
      BY <2>6, <3>2 DEF RoundsApart
    <3> QED
      BY <3>1, <3>2
  <2> QED
    BY <2>7, <2>8 DEF RoundsApart
<1>2. ASSUME NEW w \in Workers, RoundStep(w) PROVE RoundsApart'
  <2>1. worker[w] # Idle /\ \A v \in Workers \ {w} : worker'[v] = worker[v]
    BY <1>2, RoundChange
  <2>2. \/ worker'[w] = Idle
        \/ /\ worker'[w].key = worker[w].key /\ worker'[w].left \subseteq worker[w].left
           /\ worker'[w].target # Blank => worker'[w].target \in worker'[w].left
    BY <1>2, RoundChange
  <2>3. \A v \in Busy' : v \in Busy /\ worker'[v].key = worker[v].key
    BY <2>1, <2>2 DEF Busy
  <2>4. \A u, v \in Busy' : worker'[u].key = worker'[v].key => u = v
    BY <2>3 DEF RoundsApart
  <2>5. ASSUME NEW v \in Busy'
        PROVE  /\ \A d \in worker'[v].left : NamespaceOf[d] = worker'[v].key
               /\ worker'[v].target # Blank => worker'[v].target \in worker'[v].left
    <3>1. CASE v = w
      BY <2>2, <2>3, <3>1 DEF RoundsApart, Busy
    <3>2. CASE v # w
      BY <2>1, <2>3, <3>2 DEF RoundsApart, Busy
    <3> QED
      BY <3>1, <3>2
  <2> QED
    BY <2>4, <2>5 DEF RoundsApart
<1>3. CASE Restart
  <2>1. Busy' = {}
    BY <1>3 DEF Restart, Busy
  <2> QED
    BY <2>1 DEF RoundsApart
<1>4. CASE ~ Restart /\ \A w \in Workers : ~ SyncDeployment(w) /\ ~ RoundStep(w)
  <2>1. UNCHANGED worker
    BY <1>4 DEF Next, vars, DeployCreated, DeployDeleted, Scaled, ObserveDeploy, NextDay, CronJob, Requeue
  <2> QED
    BY <2>1 DEF RoundsApart, Busy
<1> QED
  BY <1>1, <1>2, <1>3, <1>4

(* The days of the annotations and of the types are numbers.               *)
LEMMA DayTypes ==
    ASSUME DeploymentTypeOK
    PROVE  day \in Int /\ (\A d \in Deploy : anno[d].day \in Int) /\ None.day = -1
<1>1. \A a \in Annotation : a.day \in Int
  BY DEF Annotation
<1> QED
  BY <1>1 DEF DeploymentTypeOK, None

(* A patch writes a value that is no older than what it replaces, and only *)
(* for the deployment that the round has taken up.                         *)
LEMMA PatchNewer ==
    ASSUME DeploymentTypeOK, DaysInOrder, NEW w \in Workers, NEW d \in Deploy, patchDeploymentAnnotation(w, d)
    PROVE  /\ \A e \in Deploy \ {d} : anno'[e] = anno[e]
           /\ anno[d].day <= anno'[d].day /\ anno'[d].day <= day
<1>1. w \in Busy /\ worker[w].target = d /\ anno' = [anno EXCEPT ![d] = worker[w].value] /\ d # Blank
  BY DeployAssumption DEF patchDeploymentAnnotation
<1> QED
  BY <1>1 DEF DaysInOrder, DeploymentTypeOK

(* Every step keeps the days in order.                                     *)
LEMMA DaysStep ==
    ASSUME DeploymentTypeOK, DeploymentTypeOK', RoundsApart, DaysInOrder, [Next]_vars
    PROVE  DaysInOrder'
<1> USE DEF envVars, queueVars
<1>0. day \in Int /\ (\A d \in Deploy : anno[d].day \in Int) /\ None.day = -1 /\ -1 <= day
  BY DayTypes, DeployAssumption DEF DeploymentTypeOK
<1>1. ASSUME NEW d \in Deploy, DeployCreated(d) \/ DeployDeleted(d) \/ Scaled(d) \/ ObserveDeploy(d)
      PROVE  DaysInOrder'
  <2>1. UNCHANGED <<day, worker>> /\ (anno' = anno \/ anno' = [anno EXCEPT ![d] = None])
    BY <1>1 DEF DeployCreated, DeployDeleted, Scaled, ObserveDeploy
  <2>2. \A e \in Deploy : anno'[e] = anno[e] \/ anno'[e].day = -1
    BY <1>0, <2>1 DEF DeploymentTypeOK
  <2>3. \A e \in Deploy : anno'[e].day <= day'
    BY <1>0, <2>1, <2>2 DEF DaysInOrder
  <2>4. ASSUME NEW w \in Busy', worker'[w].target # Blank
        PROVE  anno'[worker'[w].target].day <= worker'[w].value.day /\ worker'[w].value.day <= day'
    <3>1. w \in Busy /\ w \in Workers /\ worker[w].target # Blank
      BY <2>1, <2>4 DEF Busy
    <3>2. worker[w].target \in Deploy /\ worker[w].value \in Annotation
      BY <3>1, RoundTypes DEF Busy
    <3>3. anno[worker[w].target].day <= worker[w].value.day /\ worker[w].value.day <= day
      BY <3>1 DEF DaysInOrder
    <3>4. worker[w].value.day \in Int /\ -1 <= worker[w].value.day
      BY <3>2 DEF Annotation
    <3>5. anno'[worker[w].target].day <= worker[w].value.day
      BY <2>2, <3>2, <3>3, <3>4
    <3> QED
      BY <2>1, <3>3, <3>5
  <2> QED
    BY <2>3, <2>4 DEF DaysInOrder
<1>2. CASE NextDay
  <2>1. UNCHANGED <<anno, worker>> /\ day' = day + 1
    BY <1>2 DEF NextDay
  <2>2. \A x \in Int : x <= day => x <= day'
    BY <1>0, <2>1
  <2>3. \A e \in Deploy : anno'[e].day <= day'
    BY <1>0, <2>1, <2>2 DEF DaysInOrder
  <2>4. ASSUME NEW w \in Busy', worker'[w].target # Blank
        PROVE  anno'[worker'[w].target].day <= worker'[w].value.day /\ worker'[w].value.day <= day'
    <3>1. w \in Busy /\ w \in Workers /\ worker[w].target # Blank
      BY <2>1, <2>4 DEF Busy
    <3>2. worker[w].value.day \in Int
      BY <3>1, RoundTypes DEF Busy, Annotation
    <3> QED
      BY <2>1, <2>2, <3>1, <3>2 DEF DaysInOrder
  <2> QED
    BY <2>3, <2>4 DEF DaysInOrder
<1>3. ASSUME NEW w \in Workers, SyncDeployment(w) PROVE DaysInOrder'
  <2>1. PICK k \in queue \ Processing : worker' = [worker EXCEPT ![w] = NewRound(k)]
    BY <1>3 DEF SyncDeployment
  <2>2. k \in Namespace /\ UNCHANGED <<day, anno>>
    BY <1>3 DEF SyncDeployment, DeploymentTypeOK
  <2>3. NewRound(k).target = Blank
    BY <2>2, NewRoundType
  <2>4. \A v \in Busy' : worker'[v].target # Blank => v \in Busy /\ worker'[v] = worker[v]
    BY <2>1, <2>3 DEF Busy, DeploymentTypeOK
  <2> QED
    BY <2>2, <2>4 DEF DaysInOrder
<1>4. ASSUME NEW w \in Workers, RoundStep(w) PROVE DaysInOrder'
  <2>1. worker[w] # Idle /\ UNCHANGED day /\ \A v \in Workers \ {w} : worker'[v] = worker[v]
    BY <1>4, RoundChange
  <2>2. ASSUME NEW d \in Deploy, patchDeploymentAnnotation(w, d) PROVE DaysInOrder'
    <3>1. w \in Busy /\ worker[w].target = d /\ worker' = [worker EXCEPT ![w] = Without(worker[w], d)] /\ d # Blank
      BY <2>2, DeployAssumption DEF patchDeploymentAnnotation
    <3>2. worker'[w].target = Blank
      BY <2>1, <3>1, RoundTypes, WithoutType DEF DeploymentTypeOK
    <3>3. \A e \in Deploy : anno'[e].day <= day'
      BY <2>1, <2>2, PatchNewer DEF DaysInOrder
    <3>4. ASSUME NEW v \in Busy', worker'[v].target # Blank
          PROVE  anno'[worker'[v].target].day <= worker'[v].value.day /\ worker'[v].value.day <= day'
      <4>1. v # w /\ v \in Workers /\ v \in Busy /\ worker'[v] = worker[v]
        BY <2>1, <3>2, <3>4 DEF Busy
      <4>2. worker[v].target \in Deploy /\ worker[v].target # Blank
        BY <3>4, <4>1, RoundTypes DEF Busy
      <4>3. worker[v].target # d
        BY <3>1, <4>1, <4>2 DEF RoundsApart
      <4>4. anno'[worker[v].target] = anno[worker[v].target]
        BY <2>2, <4>2, <4>3, PatchNewer
      <4> QED
        BY <2>1, <4>1, <4>2, <4>4 DEF DaysInOrder
    <3> QED
      BY <3>3, <3>4 DEF DaysInOrder
  <2>3. CASE \A d \in Deploy : ~ patchDeploymentAnnotation(w, d)
    <3>1. UNCHANGED anno
      BY <1>4, <2>3 DEF RoundStep, SyncDone, PatchFails, QueryByDeployment, SkipDeployment, QueryFails
    <3>2. ASSUME NEW v \in Busy', worker'[v].target # Blank
          PROVE  anno'[worker'[v].target].day <= worker'[v].value.day /\ worker'[v].value.day <= day'
      <4>1. v \in Workers /\ worker'[v] # Idle
        BY DEF Busy
      <4>2. CASE v = w
        <5>1. worker'[w].target \in worker[w].left /\ worker'[w].value \in Answers(worker'[w].target)
          BY <1>4, <3>2, <4>1, <4>2, RoundChange
        <5>2. worker'[w].target \in Deploy
          BY <2>1, <5>1, RoundTypes
        <5>3. worker'[w].value.day = day
          BY <5>1, <5>2, AnswerType
        <5>4. anno[worker'[w].target].day <= day
          BY <5>2 DEF DaysInOrder
        <5>5. day <= day
          BY <1>0
        <5> QED
          BY <2>1, <3>1, <4>2, <5>3, <5>4, <5>5, Zenon
      <4>3. CASE v # w
        BY <2>1, <3>1, <3>2, <4>1, <4>3 DEF DaysInOrder, Busy
      <4> QED
        BY <4>2, <4>3
    <3> QED
      BY <2>1, <3>1, <3>2 DEF DaysInOrder
  <2> QED
    BY <2>2, <2>3
<1>5. CASE Restart
  <2>1. Busy' = {} /\ UNCHANGED <<anno, day>>
    BY <1>5 DEF Restart, Busy
  <2> QED
    BY <2>1 DEF DaysInOrder
<1>6. CASE CronJob \/ UNCHANGED vars \/ \E k \in Namespace : Requeue(k)
  <2>1. UNCHANGED <<anno, day, worker>>
    BY <1>6 DEF CronJob, Requeue, vars
  <2> QED
    BY <2>1 DEF DaysInOrder, Busy
<1> QED
  BY <1>1, <1>2, <1>3, <1>4, <1>5, <1>6 DEF Next

(* No step gives a deployment the usage of an earlier day.                 *)
LEMMA NewerStep ==
    ASSUME DeploymentTypeOK, DaysInOrder, [Next]_vars, NEW d \in Deploy, api'[d].exists, api[d].exists
    PROVE  anno'[d].day >= anno[d].day
<1> USE DEF envVars, queueVars
<1>0. anno[d].day \in Int
  BY DayTypes
<1>1. ASSUME NEW w \in Workers, NEW e \in Deploy, patchDeploymentAnnotation(w, e)
      PROVE  anno'[d].day >= anno[d].day
  <2>1. CASE d = e
    <3>1. anno[d].day <= anno'[d].day
      BY <1>1, <2>1, PatchNewer
    <3> QED
      BY <3>1
  <2>2. CASE d # e
    BY <1>0, <1>1, <2>2, PatchNewer
  <2> QED
    BY <2>1, <2>2
<1>2. ASSUME NEW e \in Deploy, DeployDeleted(e)
      PROVE  anno'[d].day >= anno[d].day
  <2>1. d # e
    BY <1>2 DEF DeployDeleted, DeploymentTypeOK, Object
  <2> QED
    BY <1>0, <1>2, <2>1 DEF DeployDeleted, DeploymentTypeOK
<1>3. CASE \A e \in Deploy : ~ DeployDeleted(e) /\ \A w \in Workers : ~ patchDeploymentAnnotation(w, e)
  <2>1. UNCHANGED anno
    BY <1>3 DEF Next, vars, DeployCreated, Scaled, ObserveDeploy, NextDay, CronJob, Requeue, SyncDeployment,
                RoundStep, SyncDone, PatchFails, QueryByDeployment, SkipDeployment, QueryFails, Restart
  <2> QED
    BY <1>0, <2>1
<1> QED
  BY <1>1, <1>2, <1>3

(* While a deployment exists, its usage is never replaced by that of an    *)
(* earlier day: the queue gives a namespace to one worker at a time, so    *)
(* that no round overtakes another between its query and its patch, even   *)
(* when it drags on past midnight.                                         *)
THEOREM UsageStaysFresh == Spec => UsageNotOutdated
<1>1. Init => RoundsApart /\ DaysInOrder
  <2> SUFFICES ASSUME Init
               PROVE  RoundsApart /\ DaysInOrder
    OBVIOUS
  <2>1. Busy = {} /\ day = 0 /\ \A d \in Deploy : anno[d].day = -1
    BY DEF Init, Busy, None
  <2> QED
    BY <2>1 DEF RoundsApart, DaysInOrder
<1>2. DeploymentTypeOK /\ RoundsApart /\ [Next]_vars => RoundsApart'
  BY ApartStep
<1>3. DeploymentTypeOK /\ DeploymentTypeOK' /\ RoundsApart /\ DaysInOrder /\ [Next]_vars => DaysInOrder'
  BY DaysStep
<1>4. DeploymentTypeOK /\ DaysInOrder /\ [Next]_vars =>
          [\A d \in Deploy : api'[d].exists /\ api[d].exists => anno'[d].day >= anno[d].day]_vars
  BY NewerStep
<1> QED
  BY <1>1, <1>2, <1>3, <1>4, TypeCorrect, PTL DEF Spec, UsageNotOutdated
=============================================================================
