---------------------------- MODULE DynamicLoad -----------------------------
(***************************************************************************)
(* How the load of a node reaches the Dynamic plugin's Filter: the node    *)
(* controller of the annotator (annotator/node.go) asks Prometheus once    *)
(* per period and metric, tries again with a growing delay when that       *)
(* fails, and writes the usage with a timestamp into an annotation, which  *)
(* Filter (plugins/dynamic) believes for the period and some extra time.   *)
(*                                                                         *)
(* One node: nodes do not interact, but for the workers, whose delay is    *)
(* bounded by MaxDelay.  Time is discrete.                                 *)
(***************************************************************************)
EXTENDS Integers, FiniteSets

CONSTANTS
    Metrics,      \* metrics with a sync period and a predicate policy
    Period,       \* Period[m]: the sync period
    Extra,        \* ExtraActivePeriod, 5 minutes
    Limit,        \* Limit[m]: MaxLimitPecent
    Usages,       \* the values of a metric
    NoUsage,      \* an annotation without a number: absent or empty
    BackOff,      \* DefaultBackOff, 10 seconds
    MaxBackOff,   \* 360 seconds
    MaxDelay,     \* longest time a key waits for a worker
    MaxOutage,    \* longest time for which Prometheus or the API server fails
    ShortOutage   \* longest outage that Extra is meant to cover

ASSUME PeriodAssumption ==
    /\ Period \in [Metrics -> Nat \ {0}]
    /\ Extra \in Nat /\ MaxDelay \in Nat /\ MaxOutage \in Nat
    /\ ShortOutage \in Nat
    /\ BackOff \in Nat \ {0} /\ MaxBackOff \in Nat /\ BackOff <= MaxBackOff
ASSUME UsageAssumption ==
    Usages \subseteq Nat /\ Limit \in [Metrics -> Nat] /\ NoUsage \notin Nat

VARIABLES
    ranged,    \* metrics with the prefix range_: the usage over the day before,
               \* of which the peak is what counts
    load,      \* load[m]: the usage in truth
    up,        \* Prometheus and the API server answer
    outage,    \* how long they have not
    timer,     \* time until the ticker of the metric fires
    waiting,   \* how long the key waits in the queue, or Never
    delayed,   \* time until AddRateLimited puts the key back, or Never
    failures,  \* what the rate limiter has counted for the key
    usage,     \* the annotation: its value,
    age,       \* and the time since its timestamp
    over,      \* history: how long the load has been above the limit, or Never
    under,     \* history: how long it has not been
    blind      \* history: metrics lost to a long outage or an empty answer

envVars  == <<ranged, load, up, outage, over, under, blind>>
syncVars == <<timer, waiting, delayed, failures>>
annoVars == <<usage, age>>
vars == <<envVars, syncVars, annoVars>>

Never == -1

(* GetActiveDuration                                                       *)
ActiveDuration(m) == Period[m] + Extra

Cap(m) == ActiveDuration(m) + 1
UpTo(x, max) == IF x < max THEN x ELSE max

LoadTypeOK ==
    /\ ranged \subseteq Metrics
    /\ load \in [Metrics -> Usages]
    /\ up \in BOOLEAN
    /\ outage \in 0..MaxOutage
    /\ blind \subseteq Metrics
    /\ \A m \in Metrics :
        /\ timer[m] \in 0..Period[m]
        /\ waiting[m] \in {Never} \cup 0..MaxDelay
        /\ delayed[m] \in {Never} \cup 0..MaxBackOff
        /\ failures[m] \in Nat
        /\ usage[m] \in Usages \cup {NoUsage}
        /\ age[m] \in 0..Cap(m)
        /\ over[m] \in {Never} \cup 0..Cap(m)
        /\ under[m] \in {Never} \cup 0..Cap(m)

(* CreateMetricSyncTicker enqueues every key at once and starts the timer. *)
(* Nothing has been annotated before.                                      *)
Init ==
    /\ ranged \in SUBSET Metrics
    /\ load \in [Metrics -> Usages]
    /\ up = TRUE
    /\ outage = 0
    /\ timer = Period
    /\ waiting = [m \in Metrics |-> 0]
    /\ delayed = [m \in Metrics |-> Never]
    /\ failures = [m \in Metrics |-> 0]
    /\ usage = [m \in Metrics |-> NoUsage]
    /\ age = [m \in Metrics |-> 0]
    /\ over = [m \in Metrics |-> IF load[m] > Limit[m] THEN 0 ELSE Never]
    /\ under = [m \in Metrics |-> IF load[m] > Limit[m] THEN Never ELSE Cap(m)]
    /\ blind = {}

-----------------------------------------------------------------------------
(* The plugin.                                                             *)

InActivePeriod(m) == age[m] < ActiveDuration(m)

(* Mutant: the timestamp is not looked at.                                 *)
GetResourceUsageOfAnyAge(m) == usage[m]

(* GetResourceUsage; NoUsage is its error.                                 *)
GetResourceUsage(m) == IF InActivePeriod(m) THEN usage[m] ELSE NoUsage

isOverLoad(m) ==
    /\ GetResourceUsage(m) # NoUsage
    /\ Limit[m] # 0
    /\ GetResourceUsage(m) > Limit[m]

(* Filter of Dynamic passes over the policies with the prefix range_.      *)
(* (The pod is not of a daemon set: for those all nodes pass.)             *)
FilterDynamic == \A m \in Metrics \ ranged : ~isOverLoad(m)

(* predictingOverLoad for these: the peak of the node's range, with a pod  *)
(* that adds nothing and no delta.  An expired range is passed over before *)
(* it, one without a number inside.                                        *)
predictingOverLoad(m) ==
    /\ InActivePeriod(m)
    /\ Limit[m] # 0
    /\ usage[m] # NoUsage
    /\ usage[m] > Limit[m]

(* Filter of ApplicationResourceAware, for such a pod.                     *)
FilterApplication == \A m \in ranged : ~predictingOverLoad(m)

(* The node passes the filters of both plugins.                            *)
Filter == FilterDynamic /\ FilterApplication

-----------------------------------------------------------------------------
(* The node controller.                                                    *)

Enqueue(S) == waiting' = [m \in Metrics |-> IF m \in S /\ waiting[m] = Never THEN 0 ELSE waiting[m]]

Ticker(m) ==
    /\ timer[m] = 0
    /\ timer' = [timer EXCEPT ![m] = Period[m]]
    /\ Enqueue({m})
    /\ UNCHANGED <<envVars, delayed, failures, annoVars>>

(* The delay of AddRateLimited is over.                                    *)
Retry(m) ==
    /\ delayed[m] = 0
    /\ delayed' = [delayed EXCEPT ![m] = Never]
    /\ Enqueue({m})
    /\ UNCHANGED <<envVars, timer, failures, annoVars>>

(* What query and queryRange may return without an error: for an empty     *)
(* vector the former has the empty string.                                 *)
query(m) == {load[m], NoUsage}
queryRange(m) == {load[m]}

(* Whichever of the selectors by IP, by IP and port or by name finds it.   *)
QueryRangeByNode(m) == queryRange(m)

(* The query by IP and port is made when the one by IP found nothing.      *)
QueryByNodeIP(m) ==
    {IF byIP # NoUsage THEN byIP ELSE byPort : byIP \in query(m), byPort \in query(m)}

(* An empty result of QueryByNodeIP is no error, so it is annotated as it  *)
(* is and the query by name is not made.                                   *)
annotateNodeLoad(m) ==
    /\ \E value \in IF m \in ranged THEN QueryRangeByNode(m) ELSE QueryByNodeIP(m) :
          /\ usage' = [usage EXCEPT ![m] = value]
          /\ blind' = IF value = NoUsage THEN blind \cup {m} ELSE blind \ {m}
    /\ age' = [age EXCEPT ![m] = 0]

(* syncNode succeeds: load and hot value are annotated, Forget(key).       *)
SyncNode(m) ==
    /\ waiting[m] # Never
    /\ up
    /\ annotateNodeLoad(m)
    /\ waiting' = [waiting EXCEPT ![m] = Never]
    /\ failures' = [failures EXCEPT ![m] = 0]
    /\ UNCHANGED <<ranged, load, up, outage, over, under, timer, delayed>>

(* 2^n by a function.                                                      *)
Pow2[n \in Nat] == IF n = 0 THEN 1 ELSE 2 * Pow2[n - 1]

(* Mutant: the delay grows without end.                                    *)
AddRateLimitedUncapped(m) ==
    /\ delayed' = [delayed EXCEPT ![m] = BackOff * Pow2[failures[m]]]
    /\ failures' = [failures EXCEPT ![m] = UpTo(@ + 1, MaxBackOff)]

(* AddRateLimited: the exponential delay; an earlier one of the same key   *)
(* that is still running counts.                                           *)
AddRateLimited(m) ==
    LET delay == UpTo(BackOff * Pow2[failures[m]], MaxBackOff)
    IN  /\ delayed' = [delayed EXCEPT ![m] = IF @ = Never THEN delay ELSE UpTo(@, delay)]
        /\ failures' = [failures EXCEPT ![m] = UpTo(@ + 1, MaxBackOff)]

(* Mutant: the key is not put back.                                        *)
SyncNodeFailsForGood(m) ==
    /\ waiting[m] # Never
    /\ ~up
    /\ waiting' = [waiting EXCEPT ![m] = Never]
    /\ UNCHANGED <<envVars, timer, delayed, failures, annoVars>>

(* In an outage, or when there is no range by IP or by name: then the      *)
(* empty result is an error.                                               *)
SyncNodeFails(m) ==
    /\ waiting[m] # Never
    /\ ~up \/ m \in ranged
    /\ waiting' = [waiting EXCEPT ![m] = Never]
    /\ AddRateLimited(m)
    /\ blind' = IF up THEN blind \cup {m} ELSE blind
    /\ UNCHANGED <<ranged, load, up, outage, over, under, timer, annoVars>>

Recovered == \A m \in Metrics : failures[m] = 0 /\ delayed[m] = Never

(* Outages are rare: one begins when the last one's failures are made up.  *)
OutageBegins ==
    /\ up /\ Recovered
    /\ up' = FALSE
    /\ outage' = 0
    /\ UNCHANGED <<ranged, load, over, under, blind, syncVars, annoVars>>

(* An outage begins between the two patches of syncNode: the load is       *)
(* annotated, the hot value is not.                                        *)
annotateNodeHotValueFails(m) ==
    /\ waiting[m] # Never
    /\ up /\ Recovered
    /\ annotateNodeLoad(m)
    /\ waiting' = [waiting EXCEPT ![m] = Never]
    /\ AddRateLimited(m)
    /\ up' = FALSE
    /\ outage' = 0
    /\ UNCHANGED <<ranged, load, over, under, timer>>

OutageEnds ==
    /\ ~up
    /\ up' = TRUE
    /\ outage' = 0
    /\ UNCHANGED <<ranged, load, over, under, blind, syncVars, annoVars>>

LoadChanges(m, v) ==
    /\ v # load[m]
    /\ load' = [load EXCEPT ![m] = v]
    /\ over' = [over EXCEPT ![m] = IF v <= Limit[m] THEN Never ELSE IF @ = Never THEN 0 ELSE @]
    /\ under' = [under EXCEPT ![m] = IF v > Limit[m] THEN Never ELSE IF @ = Never THEN 0 ELSE @]
    /\ UNCHANGED <<ranged, up, outage, blind, syncVars, annoVars>>

Aged(x, m) == IF x = Never THEN Never ELSE UpTo(x + 1, Cap(m))

Tick ==
    /\ \A m \in Metrics : timer[m] > 0 /\ delayed[m] # 0 /\ waiting[m] < MaxDelay
    /\ ~up => outage < MaxOutage
    /\ outage' = IF up THEN outage ELSE outage + 1
    /\ timer' = [m \in Metrics |-> timer[m] - 1]
    /\ waiting' = [m \in Metrics |-> IF waiting[m] = Never THEN Never ELSE waiting[m] + 1]
    /\ delayed' = [m \in Metrics |-> IF delayed[m] = Never THEN Never ELSE delayed[m] - 1]
    /\ age' = [m \in Metrics |-> Aged(age[m], m)]
    /\ over' = [m \in Metrics |-> Aged(over[m], m)]
    /\ under' = [m \in Metrics |-> Aged(under[m], m)]
    /\ blind' = IF outage' > ShortOutage THEN Metrics ELSE blind
    /\ UNCHANGED <<ranged, load, up, failures, usage>>

Next ==
    \/ \E m \in Metrics :
          \/ Ticker(m)
          \/ Retry(m)
          \/ SyncNode(m)
          \/ SyncNodeFails(m)
          \/ annotateNodeHotValueFails(m)
          \/ \E v \in Usages : LoadChanges(m, v)
    \/ OutageBegins
    \/ OutageEnds
    \/ Tick

Spec == Init /\ [][Next]_vars

-----------------------------------------------------------------------------

(* A node whose load has been above a limit for the active duration is     *)
(* filtered out, whatever failed meanwhile: the annotation is renewed, at  *)
(* the latest by the retries, before it expires.  Excepted is a metric     *)
(* from an outage longer than ShortOutage, or from an empty answer of      *)
(* Prometheus, to its next usage.                                          *)
OverloadNoticed ==
    \A m \in Metrics \ blind : Limit[m] # 0 /\ over[m] >= ActiveDuration(m) => ~Filter

(* A node that is filtered out was above a limit within the active         *)
(* duration: an annotation nobody renews is not believed for longer.       *)
RejectionJustified ==
    ~Filter => \E m \in Metrics :
        /\ Limit[m] # 0
        /\ load[m] > Limit[m] \/ under[m] \in 0..(ActiveDuration(m) - 1)
=============================================================================
