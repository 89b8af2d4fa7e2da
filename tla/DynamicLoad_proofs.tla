------------------------- MODULE DynamicLoad_proofs -------------------------
(***************************************************************************)
(* Proofs about DynamicLoad, for any metrics, periods, limits, usages,     *)
(* delays and outages: what Filter concludes from the annotations is true  *)
(* of the load.  The arithmetic is about one metric at a time and is       *)
(* stated of its values alone:                                             *)
(*   p its period, t timer, w waiting, d delayed, k failures, a age,       *)
(*   o the length of the outage.                                           *)
(***************************************************************************)
EXTENDS DynamicLoad, SumTheorems

(* Two attempts of a key that an outage makes fail can be this far apart:  *)
(* then ExtraActivePeriod covers outages up to ShortOutage.                *)
ExtraSuffices == 3 * ShortOutage + 2 * BackOff + 2 * MaxDelay < Extra

(* At most one tick of a metric falls into a short outage.                 *)
PeriodsLonger == \A m \in Metrics : ShortOutage < Period[m]

(* The delay that AddRateLimited gives after k failures.                   *)
Delay(k) == UpTo(BackOff * Pow2[k], MaxBackOff)

(* A key without failures was annotated when its period began, or later.   *)
Fresh(p, t, w, k, a) ==
    k = 0 => IF w = Never THEN a + t <= p ELSE a <= p + w

(* The next attempt comes before the annotation expires.                   *)
Due(p, t, w, d, a) ==
    IF w # Never
    THEN a + MaxDelay - w < p + Extra
    ELSE \/ a + t + MaxDelay < p + Extra
         \/ d # Never /\ a + d + MaxDelay < p + Extra

Pending(d) == IF d = Never THEN 0 ELSE d

(* In a short outage, what is left of the delay and what it will be next   *)
(* are bounded by the length of the outage so far.  One attempt of the     *)
(* ticker beside the retries doubles the bound.                            *)
Paced(p, t, w, d, k, a, o) ==
    /\ o <= ShortOutage
    /\ a <= p + MaxDelay + o
    /\ Pending(d) <= 2 * (BackOff + o)
    /\ w # Never /\ d # Never => t + o > ShortOutage
    /\ \/ Delay(k) <= BackOff + o + Pending(d)
       \/ /\ Delay(k) <= 2 * (BackOff + o + Pending(d))
          /\ t + o > ShortOutage
          /\ w = Never \/ d = Never

KeysFresh == \A m \in Metrics : Fresh(Period[m], timer[m], waiting[m], failures[m], age[m])

SyncsDue == \A m \in Metrics \ blind : Due(Period[m], timer[m], waiting[m], delayed[m], age[m])

RetriesPaced ==
    ~up => \A m \in Metrics :
              \/ outage > ShortOutage /\ m \in blind
              \/ Paced(Period[m], timer[m], waiting[m], delayed[m], failures[m], age[m], outage)

(* over and under say how long the load has been on which side.            *)
SidesTold ==
    \A m \in Metrics :
        /\ over[m] # Never <=> load[m] > Limit[m]
        /\ under[m] # Never <=> ~(load[m] > Limit[m])

(* An annotation tells the side on which the load was when it was written. *)
UsageTold ==
    \A m \in Metrics :
        /\ usage[m] # NoUsage /\ age[m] < over[m] => usage[m] > Limit[m]
        /\ usage[m] # NoUsage /\ age[m] < under[m] => ~(usage[m] > Limit[m])
        /\ usage[m] = NoUsage /\ m \notin blind => over[m] <= age[m]

(* The state is made of functions on the metrics, and the rate limiter's   *)
(* counter of the model keeps its bound.                                   *)
Shape ==
    /\ timer \in [Metrics -> Int] /\ waiting \in [Metrics -> Int]
    /\ delayed \in [Metrics -> Int] /\ failures \in [Metrics -> 0..MaxBackOff]
    /\ usage \in [Metrics -> Usages \cup {NoUsage}] /\ age \in [Metrics -> Int]
    /\ over \in [Metrics -> Int] /\ under \in [Metrics -> Int]

-----------------------------------------------------------------------------
(* The powers of two.                                                      *)

(* g is a table of the powers of two up to the n-th.                       *)
Table(g, n) ==
    /\ g \in [0..n -> Nat]
    /\ g[0] = 1
    /\ \A i \in 1..n : g[i] = 2 * g[i - 1]

(* There is a table of every length.                                       *)
LEMMA TableExists == \A n \in Nat : \E g : Table(g, n)
<1> DEFINE S == {n \in Nat : \E g : Table(g, n)}
<1>1. 0 \in S
  <2>1. Table([i \in 0..0 |-> 1], 0)
    BY DEF Table
  <2> QED
    BY <2>1
<1>2. ASSUME NEW n \in Nat, n \in S PROVE n + 1 \in S
  <2>1. PICK g : Table(g, n)
    BY <1>2
  <2> DEFINE h == [i \in 0..(n + 1) |-> IF i = n + 1 THEN 2 * g[n] ELSE g[i]]
  <2>2. h \in [0..(n + 1) -> Nat]
    BY <2>1 DEF Table
  <2>3. h[0] = 1
    BY <2>1 DEF Table
  <2>4. ASSUME NEW i \in 1..(n + 1) PROVE h[i] = 2 * h[i - 1]
    BY <2>1 DEF Table
  <2>5. Table(h, n + 1)
    BY <2>2, <2>3, <2>4 DEF Table
  <2> QED
    BY <2>5
<1> HIDE DEF S
<1>3. Nat \subseteq S
  BY <1>1, <1>2, SetInduction
<1> QED
  BY <1>3 DEF S

(* Tables agree where both are defined.                                    *)
LEMMA TableUnique ==
    ASSUME NEW n \in Nat, NEW m \in Nat, NEW g, NEW h, Table(g, n), Table(h, m)
    PROVE  \A i \in Nat : i <= n /\ i <= m => g[i] = h[i]
<1> DEFINE S == {i \in Nat : i <= n /\ i <= m => g[i] = h[i]}
<1>1. 0 \in S
  BY DEF Table
<1>2. ASSUME NEW i \in Nat, i \in S PROVE i + 1 \in S
  <2>1. CASE i + 1 <= n /\ i + 1 <= m
    <3>1. g[i + 1] = 2 * g[i]
      BY <2>1 DEF Table
    <3>2. h[i + 1] = 2 * h[i]
      BY <2>1 DEF Table
    <3> QED
      BY <1>2, <2>1, <3>1, <3>2
  <2> QED
    BY <2>1
<1> HIDE DEF S
<1>3. Nat \subseteq S
  BY <1>1, <1>2, SetInduction
<1> QED
  BY <1>3 DEF S

(* So there is a function that satisfies the recursion of Pow2.            *)
LEMMA Pow2Equation == Pow2 = [n \in Nat |-> IF n = 0 THEN 1 ELSE 2 * Pow2[n - 1]]
<1> DEFINE t(n) == CHOOSE g : Table(g, n)
           f == [n \in Nat |-> t(n)[n]]
<1>1. \A n \in Nat : Table(t(n), n)
  BY TableExists
<1> HIDE DEF t
<1>2. ASSUME NEW n \in Nat PROVE f[n] = IF n = 0 THEN 1 ELSE 2 * f[n - 1]
  <2>1. CASE n = 0
    BY <1>1, <2>1 DEF Table
  <2>2. CASE n # 0
    <3>1. n - 1 \in Nat
      BY <2>2
    <3>2. t(n)[n] = 2 * t(n)[n - 1]
      BY <1>1, <2>2 DEF Table
    <3>3. Table(t(n), n) /\ Table(t(n - 1), n - 1) /\ n - 1 <= n
      BY <1>1, <3>1
    <3>4. t(n)[n - 1] = t(n - 1)[n - 1]
      BY <3>1, <3>3, TableUnique
    <3> QED
      BY <2>2, <3>1, <3>2, <3>4
  <2> QED
    BY <2>1, <2>2
<1>3. f = [n \in Nat |-> IF n = 0 THEN 1 ELSE 2 * f[n - 1]]
  BY <1>2
<1> HIDE DEF f
<1>4. \E h : h = [n \in Nat |-> IF n = 0 THEN 1 ELSE 2 * h[n - 1]]
  BY <1>3
<1> QED
  BY <1>4, Zenon DEF Pow2

(* Pow2 doubles, and its values are numbers.                               *)
LEMMA Pow2Doubles ==
    /\ Pow2[0] = 1
    /\ \A n \in Nat : Pow2[n] \in Nat /\ Pow2[n + 1] = 2 * Pow2[n]
<1>1. Pow2[0] = 1
  BY Pow2Equation
<1>2. \A n \in Nat : Pow2[n + 1] = 2 * Pow2[n]
  BY Pow2Equation
<1> DEFINE S == {n \in Nat : Pow2[n] \in Nat}
<1>3. 0 \in S /\ \A n \in Nat : n \in S => n + 1 \in S
  BY <1>1, <1>2
<1> HIDE DEF S
<1>4. Nat \subseteq S
  BY <1>3, SetInduction
<1> QED
  BY <1>1, <1>2, <1>4 DEF S

(* The delay starts with BackOff, at most doubles from one failure to the  *)
(* next, and is capped.                                                    *)
LEMMA Delays ==
    /\ Delay(0) <= BackOff
    /\ \A k \in 0..MaxBackOff :
          /\ Delay(k) \in 0..MaxBackOff
          /\ UpTo(k + 1, MaxBackOff) \in 0..MaxBackOff
          /\ Delay(UpTo(k + 1, MaxBackOff)) <= 2 * Delay(k)
<1>1. BackOff \in Nat /\ MaxBackOff \in Nat
  BY PeriodAssumption
<1>2. Delay(0) <= BackOff
  <2>1. BackOff * Pow2[0] = BackOff
    BY <1>1, Pow2Doubles
  <2> QED
    BY <1>1, <2>1 DEF Delay, UpTo
<1>3. ASSUME NEW k \in 0..MaxBackOff
      PROVE  /\ Delay(k) \in 0..MaxBackOff
             /\ UpTo(k + 1, MaxBackOff) \in 0..MaxBackOff
             /\ Delay(UpTo(k + 1, MaxBackOff)) <= 2 * Delay(k)
  <2>1. PICK q \in Nat : q = BackOff * Pow2[k]
    BY <1>1, <1>3, Pow2Doubles
  <2>2. Delay(k) \in 0..MaxBackOff /\ Delay(k) = UpTo(q, MaxBackOff)
    BY <1>1, <2>1 DEF Delay, UpTo
  <2>3. CASE k = MaxBackOff
    <3>1. UpTo(k + 1, MaxBackOff) = k
      BY <1>1, <2>3 DEF UpTo
    <3> QED
      BY <1>1, <2>2, <3>1
  <2>4. CASE k # MaxBackOff
    <3>1. UpTo(k + 1, MaxBackOff) = k + 1
      BY <1>1, <2>4 DEF UpTo
    <3>2. BackOff * Pow2[k + 1] = 2 * q
      <4>1. Pow2[k + 1] = 2 * Pow2[k] /\ Pow2[k] \in Nat
        BY <1>1, Pow2Doubles
      <4>2. \A x, y \in Nat : x * (2 * y) = 2 * (x * y)
        OBVIOUS
      <4> QED
        BY <1>1, <2>1, <4>1, <4>2
    <3>3. Delay(k + 1) <= 2 * UpTo(q, MaxBackOff)
      BY <1>1, <3>2 DEF Delay, UpTo
    <3> QED
      BY <1>1, <2>2, <2>4, <3>1, <3>3
  <2> QED
    BY <2>3, <2>4
<1> QED
  BY <1>2, <1>3

-----------------------------------------------------------------------------
(* A step, as the metric m sees it.                                        *)

LoadKept(m) == load'[m] = load[m] /\ over'[m] = over[m] /\ under'[m] = under[m]
AnnoKept(m) == usage'[m] = usage[m] /\ age'[m] = age[m] /\ (m \in blind' <=> m \in blind)
KeyKept(m) ==
    /\ timer'[m] = timer[m] /\ waiting'[m] = waiting[m]
    /\ delayed'[m] = delayed[m] /\ failures'[m] = failures[m]
UpKept == up' = up /\ outage' = outage

Queued(m) == waiting'[m] = IF waiting[m] = Never THEN 0 ELSE waiting[m]
Told(m) ==
    /\ age'[m] = 0
    /\ \/ usage'[m] = load[m] /\ m \notin blind'
       \/ usage'[m] = NoUsage /\ m \in blind'
Limited(m) ==
    /\ delayed'[m] = IF delayed[m] = Never THEN Delay(failures[m])
                     ELSE UpTo(delayed[m], Delay(failures[m]))
    /\ failures'[m] = UpTo(failures[m] + 1, MaxBackOff)

MIdle(m) == LoadKept(m) /\ AnnoKept(m) /\ KeyKept(m) /\ UpKept
MTicker(m) ==
    /\ timer[m] = 0 /\ timer'[m] = Period[m] /\ Queued(m)
    /\ delayed'[m] = delayed[m] /\ failures'[m] = failures[m]
    /\ LoadKept(m) /\ AnnoKept(m) /\ UpKept
MRetry(m) ==
    /\ delayed[m] = 0 /\ delayed'[m] = Never /\ Queued(m)
    /\ timer'[m] = timer[m] /\ failures'[m] = failures[m]
    /\ LoadKept(m) /\ AnnoKept(m) /\ UpKept
MSynced(m) ==
    /\ up /\ waiting'[m] = Never /\ failures'[m] = 0 /\ Told(m)
    /\ timer'[m] = timer[m] /\ delayed'[m] = delayed[m]
    /\ LoadKept(m) /\ UpKept
MFailed(m) ==
    /\ waiting[m] # Never /\ waiting'[m] = Never /\ Limited(m)
    /\ usage'[m] = usage[m] /\ age'[m] = age[m]
    /\ \/ up /\ m \in blind'
       \/ ~up /\ (m \in blind' <=> m \in blind)
    /\ timer'[m] = timer[m]
    /\ LoadKept(m) /\ UpKept
Begins(m) == up /\ failures[m] = 0 /\ delayed[m] = Never /\ ~up' /\ outage' = 0
MHotValueFails(m) ==
    /\ Begins(m) /\ waiting'[m] = Never /\ Limited(m) /\ Told(m)
    /\ timer'[m] = timer[m]
    /\ LoadKept(m)
MBegins(m) == Begins(m) /\ LoadKept(m) /\ AnnoKept(m) /\ KeyKept(m)
MEnds(m) == up' /\ outage' = 0 /\ LoadKept(m) /\ AnnoKept(m) /\ KeyKept(m)
MLoad(m) ==
    /\ load'[m] \in Usages
    /\ over'[m] = IF load'[m] <= Limit[m] THEN Never ELSE IF over[m] = Never THEN 0 ELSE over[m]
    /\ under'[m] = IF load'[m] > Limit[m] THEN Never ELSE IF under[m] = Never THEN 0 ELSE under[m]
    /\ AnnoKept(m) /\ KeyKept(m) /\ UpKept
MTick(m) ==
    /\ timer[m] > 0 /\ timer'[m] = timer[m] - 1
    /\ waiting[m] < MaxDelay /\ waiting'[m] = IF waiting[m] = Never THEN Never ELSE waiting[m] + 1
    /\ delayed[m] # 0 /\ delayed'[m] = IF delayed[m] = Never THEN Never ELSE delayed[m] - 1
    /\ age'[m] = Aged(age[m], m) /\ over'[m] = Aged(over[m], m) /\ under'[m] = Aged(under[m], m)
    /\ load'[m] = load[m] /\ usage'[m] = usage[m] /\ failures'[m] = failures[m]
    /\ up' = up /\ outage' = IF up THEN outage ELSE outage + 1
    /\ m \in blind => m \in blind'
    /\ outage' > ShortOutage => m \in blind'
    /\ ~(outage' > ShortOutage) /\ m \in blind' => m \in blind

MStep(m) ==
    \/ MIdle(m) \/ MTicker(m) \/ MRetry(m) \/ MSynced(m) \/ MFailed(m) \/ MHotValueFails(m)
    \/ MBegins(m) \/ MEnds(m) \/ MLoad(m) \/ MTick(m)

(* annotateNodeLoad writes the load of its metric, or nothing.             *)
LEMMA Annotated ==
    ASSUME LoadTypeOK, Shape, NEW n \in Metrics, annotateNodeLoad(n)
    PROVE  /\ usage' \in [Metrics -> Usages \cup {NoUsage}] /\ age' \in [Metrics -> Int]
           /\ Told(n) /\ \A m \in Metrics \ {n} : AnnoKept(m)
           /\ blind' \subseteq Metrics
<1>1. load[n] \in Usages /\ load[n] # NoUsage
  BY UsageAssumption DEF LoadTypeOK
<1>2. (IF n \in ranged THEN QueryRangeByNode(n) ELSE QueryByNodeIP(n)) \subseteq {load[n], NoUsage}
  BY DEF QueryRangeByNode, queryRange, QueryByNodeIP, query
<1>3. PICK value \in {load[n], NoUsage} :
         /\ usage' = [usage EXCEPT ![n] = value]
         /\ blind' = IF value = NoUsage THEN blind \cup {n} ELSE blind \ {n}
         /\ age' = [age EXCEPT ![n] = 0]
  BY <1>2 DEF annotateNodeLoad
<1>4. usage' \in [Metrics -> Usages \cup {NoUsage}] /\ age' \in [Metrics -> Int]
  BY <1>1, <1>3 DEF Shape
<1>5. Told(n)
  BY <1>1, <1>3 DEF Told, Shape
<1>6. ASSUME NEW m \in Metrics \ {n} PROVE AnnoKept(m)
  BY <1>3 DEF AnnoKept, Shape
<1>7. blind' \subseteq Metrics
  BY <1>3 DEF LoadTypeOK
<1> QED
  BY <1>4, <1>5, <1>6, <1>7

(* AddRateLimited is about one key.                                        *)
LEMMA RateLimited ==
    ASSUME Shape, NEW n \in Metrics, AddRateLimited(n)
    PROVE  /\ delayed' \in [Metrics -> Int] /\ failures' \in [Metrics -> 0..MaxBackOff]
           /\ Limited(n)
           /\ \A m \in Metrics \ {n} : delayed'[m] = delayed[m] /\ failures'[m] = failures[m]
<1>1. failures[n] \in 0..MaxBackOff /\ delayed[n] \in Int
  BY DEF Shape
<1>2. PICK d \in Int : d = IF delayed[n] = Never THEN Delay(failures[n])
                           ELSE UpTo(delayed[n], Delay(failures[n]))
  <2>1. Delay(failures[n]) \in Int
    BY <1>1, Delays, PeriodAssumption
  <2> QED
    BY <1>1, <2>1 DEF UpTo
<1>3. PICK k \in 0..MaxBackOff : k = UpTo(failures[n] + 1, MaxBackOff)
  BY <1>1, Delays
<1>4. delayed' = [delayed EXCEPT ![n] = d] /\ failures' = [failures EXCEPT ![n] = k]
  BY <1>2, <1>3 DEF AddRateLimited, Delay
<1> QED
  BY <1>2, <1>3, <1>4 DEF Shape, Limited

(* Every metric sees every step as one of these, and the state stays a     *)
(* state of functions on the metrics.                                      *)
LEMMA Seen ==
    ASSUME LoadTypeOK, Shape, [Next]_vars
    PROVE  Shape' /\ \A m \in Metrics : MStep(m)
<1> USE DEF LoadKept, AnnoKept, KeyKept, UpKept
<1>1. ASSUME NEW n \in Metrics, Ticker(n) PROVE Shape' /\ \A m \in Metrics : MStep(m)
  <2>1. /\ timer' = [timer EXCEPT ![n] = Period[n]] /\ timer[n] = 0
        /\ waiting' = [m \in Metrics |-> IF m \in {n} /\ waiting[m] = Never THEN 0 ELSE waiting[m]]
        /\ UNCHANGED <<load, over, under, usage, age, blind, delayed, failures, up, outage>>
    BY <1>1 DEF Ticker, Enqueue, envVars, annoVars
  <2>2. Period[n] \in Int
    BY PeriodAssumption
  <2>3. Shape'
    BY <2>1, <2>2 DEF Shape
  <2>4. ASSUME NEW m \in Metrics PROVE MIdle(m) \/ MTicker(m)
    <3>1. CASE m = n
      BY <2>1, <3>1 DEF MTicker, Queued, Shape
    <3>2. CASE m # n
      BY <2>1, <3>2 DEF MIdle, Shape
    <3> QED
      BY <3>1, <3>2
  <2> QED
    BY <2>3, <2>4 DEF MStep
<1>2. ASSUME NEW n \in Metrics, Retry(n) PROVE Shape' /\ \A m \in Metrics : MStep(m)
  <2>1. /\ delayed' = [delayed EXCEPT ![n] = Never] /\ delayed[n] = 0
        /\ waiting' = [m \in Metrics |-> IF m \in {n} /\ waiting[m] = Never THEN 0 ELSE waiting[m]]
        /\ UNCHANGED <<load, over, under, usage, age, blind, timer, failures, up, outage>>
    BY <1>2 DEF Retry, Enqueue, envVars, annoVars
  <2>2. Shape'
    BY <2>1 DEF Shape, Never
  <2>3. ASSUME NEW m \in Metrics PROVE MIdle(m) \/ MRetry(m)
    <3>1. CASE m = n
      BY <2>1, <3>1 DEF MRetry, Queued, Shape
    <3>2. CASE m # n
      BY <2>1, <3>2 DEF MIdle, Shape
    <3> QED
      BY <3>1, <3>2
  <2> QED
    BY <2>2, <2>3 DEF MStep
<1>3. ASSUME NEW n \in Metrics, SyncNode(n) PROVE Shape' /\ \A m \in Metrics : MStep(m)
  <2>1. /\ up /\ annotateNodeLoad(n)
        /\ waiting' = [waiting EXCEPT ![n] = Never]
        /\ failures' = [failures EXCEPT ![n] = 0]
        /\ UNCHANGED <<load, over, under, timer, delayed, up, outage>>
    BY <1>3 DEF SyncNode
  <2>2. 0 \in 0..MaxBackOff
    BY PeriodAssumption
  <2>3. Shape'
    BY <2>1, <2>2, Annotated DEF Shape, Never
  <2>4. ASSUME NEW m \in Metrics PROVE MIdle(m) \/ MSynced(m)
    <3>1. CASE m = n
      BY <2>1, <3>1, Annotated DEF MSynced, Shape
    <3>2. CASE m # n
      <4>1. AnnoKept(m)
        BY <2>1, <3>2, Annotated
      <4> QED
        BY <2>1, <3>2, <4>1 DEF MIdle, Shape
    <3> QED
      BY <3>1, <3>2
  <2> QED
    BY <2>3, <2>4 DEF MStep
<1>4. ASSUME NEW n \in Metrics, SyncNodeFails(n) PROVE Shape' /\ \A m \in Metrics : MStep(m)
  <2>1. /\ waiting[n] # Never /\ AddRateLimited(n)
        /\ waiting' = [waiting EXCEPT ![n] = Never]
        /\ blind' = IF up THEN blind \cup {n} ELSE blind
        /\ UNCHANGED <<load, over, under, timer, usage, age, up, outage>>
    BY <1>4 DEF SyncNodeFails, annoVars
  <2>2. Shape'
    BY <2>1, RateLimited DEF Shape, Never
  <2>3. ASSUME NEW m \in Metrics PROVE MIdle(m) \/ MFailed(m)
    <3>1. CASE m = n
      BY <2>1, <3>1, RateLimited DEF MFailed, Shape
    <3>2. CASE m # n
      BY <2>1, <3>2, RateLimited DEF MIdle, Shape
    <3> QED
      BY <3>1, <3>2
  <2> QED
    BY <2>2, <2>3 DEF MStep
<1>5. ASSUME NEW n \in Metrics, annotateNodeHotValueFails(n)
      PROVE  Shape' /\ \A m \in Metrics : MStep(m)
  <2>1. /\ up /\ annotateNodeLoad(n) /\ AddRateLimited(n)
        /\ waiting' = [waiting EXCEPT ![n] = Never]
        /\ ~up' /\ outage' = 0
        /\ UNCHANGED <<load, over, under, timer>>
        /\ \A m \in Metrics : failures[m] = 0 /\ delayed[m] = Never
    BY <1>5 DEF annotateNodeHotValueFails, Recovered
  <2>2. Shape'
    BY <2>1, RateLimited, Annotated DEF Shape, Never
  <2>3. ASSUME NEW m \in Metrics PROVE MBegins(m) \/ MHotValueFails(m)
    <3>1. CASE m = n
      BY <2>1, <3>1, RateLimited, Annotated DEF MHotValueFails, Begins, Shape
    <3>2. CASE m # n
      <4>1. AnnoKept(m) /\ delayed'[m] = delayed[m] /\ failures'[m] = failures[m]
        BY <2>1, <3>2, Annotated, RateLimited
      <4> QED
        BY <2>1, <3>2, <4>1 DEF MBegins, Begins, Shape
    <3> QED
      BY <3>1, <3>2
  <2> QED
    BY <2>2, <2>3 DEF MStep
<1>6. ASSUME NEW n \in Metrics, NEW v \in Usages, LoadChanges(n, v)
      PROVE  Shape' /\ \A m \in Metrics : MStep(m)
  <2>1. /\ load' = [load EXCEPT ![n] = v]
        /\ over' = [over EXCEPT ![n] = IF v <= Limit[n] THEN Never ELSE IF over[n] = Never THEN 0 ELSE over[n]]
        /\ under' = [under EXCEPT ![n] = IF v > Limit[n] THEN Never ELSE IF under[n] = Never THEN 0 ELSE under[n]]
        /\ UNCHANGED <<timer, waiting, delayed, failures, usage, age, blind, up, outage>>
    BY <1>6 DEF LoadChanges, syncVars, annoVars
  <2>2. Shape'
    BY <2>1 DEF Shape, Never
  <2>3. ASSUME NEW m \in Metrics PROVE MIdle(m) \/ MLoad(m)
    <3>1. CASE m = n
      BY <2>1, <3>1 DEF MLoad, Shape, LoadTypeOK
    <3>2. CASE m # n
      BY <2>1, <3>2 DEF MIdle, Shape, LoadTypeOK
    <3> QED
      BY <3>1, <3>2
  <2> QED
    BY <2>2, <2>3 DEF MStep
<1>7. CASE OutageBegins
  <2>1. Shape'
    BY <1>7 DEF OutageBegins, syncVars, annoVars, Shape
  <2>2. ASSUME NEW m \in Metrics PROVE MBegins(m)
    BY <1>7 DEF OutageBegins, Recovered, syncVars, annoVars, MBegins, Begins
  <2> QED
    BY <2>1, <2>2 DEF MStep
<1>8. CASE OutageEnds
  <2>1. Shape'
    BY <1>8 DEF OutageEnds, syncVars, annoVars, Shape
  <2>2. ASSUME NEW m \in Metrics PROVE MEnds(m)
    BY <1>8 DEF OutageEnds, syncVars, annoVars, MEnds
  <2> QED
    BY <2>1, <2>2 DEF MStep
<1>9. CASE Tick
  <2>1. /\ timer' = [m \in Metrics |-> timer[m] - 1]
        /\ waiting' = [m \in Metrics |-> IF waiting[m] = Never THEN Never ELSE waiting[m] + 1]
        /\ delayed' = [m \in Metrics |-> IF delayed[m] = Never THEN Never ELSE delayed[m] - 1]
        /\ age' = [m \in Metrics |-> Aged(age[m], m)]
        /\ over' = [m \in Metrics |-> Aged(over[m], m)]
        /\ under' = [m \in Metrics |-> Aged(under[m], m)]
        /\ UNCHANGED <<load, up, failures, usage>>
    BY <1>9 DEF Tick
  <2>2. ASSUME NEW m \in Metrics, NEW x \in Int PROVE Aged(x, m) \in Int
    BY <2>2, PeriodAssumption DEF Aged, UpTo, Cap, ActiveDuration, Never
  <2>3. Shape'
    BY <2>1, <2>2 DEF Shape, Never
  <2>4. ASSUME NEW m \in Metrics PROVE MTick(m)
    <3>1. blind' = IF outage' > ShortOutage THEN Metrics ELSE blind
      BY <1>9 DEF Tick
    <3>2. /\ m \in blind => m \in blind'
          /\ outage' > ShortOutage => m \in blind'
          /\ ~(outage' > ShortOutage) /\ m \in blind' => m \in blind
      BY <3>1, Zenon
    <3>3. /\ timer[m] > 0 /\ delayed[m] # 0 /\ waiting[m] < MaxDelay
          /\ outage' = IF up THEN outage ELSE outage + 1
      BY <1>9 DEF Tick
    <3> QED
      BY <2>1, <3>2, <3>3 DEF MTick
  <2> QED
    BY <2>3, <2>4 DEF MStep
<1>10. CASE UNCHANGED vars
  <2>1. Shape'
    BY <1>10 DEF vars, envVars, syncVars, annoVars, Shape
  <2>2. ASSUME NEW m \in Metrics PROVE MIdle(m)
    BY <1>10 DEF vars, envVars, syncVars, annoVars, MIdle
  <2> QED
    BY <2>1, <2>2 DEF MStep
<1> QED
  BY <1>1, <1>2, <1>3, <1>4, <1>5, <1>6, <1>7, <1>8, <1>9, <1>10 DEF Next

-----------------------------------------------------------------------------
(* The types.                                                              *)

MetricTypeOK(m) ==
    /\ timer[m] \in 0..Period[m]
    /\ waiting[m] \in {Never} \cup 0..MaxDelay
    /\ delayed[m] \in {Never} \cup 0..MaxBackOff
    /\ failures[m] \in Nat
    /\ usage[m] \in Usages \cup {NoUsage}
    /\ age[m] \in 0..Cap(m)
    /\ over[m] \in {Never} \cup 0..Cap(m)
    /\ under[m] \in {Never} \cup 0..Cap(m)

(* The numbers that a metric is about.                                     *)
LEMMA MetricNumbers ==
    ASSUME NEW m \in Metrics
    PROVE  /\ Period[m] \in Nat /\ Extra \in Nat /\ MaxDelay \in Nat /\ MaxBackOff \in Nat
           /\ Cap(m) \in Nat /\ Cap(m) = Period[m] + Extra + 1
           /\ Limit[m] \in Nat /\ Usages \subseteq Nat /\ NoUsage \notin Nat
BY PeriodAssumption, UsageAssumption DEF Cap, ActiveDuration

(* What ages stays between 0 and its cap.                                  *)
LEMMA AgedType ==
    ASSUME NEW m \in Metrics, NEW x \in {Never} \cup 0..Cap(m)
    PROVE  /\ Aged(x, m) \in {Never} \cup 0..Cap(m)
           /\ x # Never => Aged(x, m) \in 0..Cap(m)
           /\ x = Never <=> Aged(x, m) = Never
BY MetricNumbers DEF Aged, UpTo, Never

(* No step takes a value of a metric out of its type.                      *)
LEMMA MetricTypeStep ==
    ASSUME NEW m \in Metrics, MetricTypeOK(m), failures[m] \in 0..MaxBackOff,
           load[m] \in Usages, MStep(m)
    PROVE  MetricTypeOK(m)'
<1> USE MetricNumbers DEF LoadKept, AnnoKept, KeyKept
<1>1. CASE MIdle(m) \/ MBegins(m) \/ MEnds(m)
  BY <1>1 DEF MIdle, MBegins, MEnds, MetricTypeOK
<1>2. CASE MTicker(m) \/ MRetry(m)
  BY <1>2 DEF MTicker, MRetry, Queued, MetricTypeOK, Never
<1>3. CASE MSynced(m)
  BY <1>3 DEF MSynced, Told, MetricTypeOK, Never
<1>4. PICK d : d = Delay(failures[m])
  OBVIOUS
<1>5. PICK k : k = UpTo(failures[m] + 1, MaxBackOff)
  OBVIOUS
<1>6. d \in 0..MaxBackOff /\ k \in Nat
  BY <1>4, <1>5, Delays
<1>7. ASSUME Limited(m) PROVE delayed'[m] \in {Never} \cup 0..MaxBackOff /\ failures'[m] \in Nat
  <2>1. (IF delayed[m] = Never THEN d ELSE UpTo(delayed[m], d)) \in {Never} \cup 0..MaxBackOff
    BY <1>6 DEF MetricTypeOK, UpTo
  <2> QED
    BY <1>4, <1>5, <1>6, <1>7, <2>1 DEF Limited
<1>8. CASE MFailed(m)
  BY <1>7, <1>8 DEF MFailed, MetricTypeOK, Never
<1>9. CASE MHotValueFails(m)
  BY <1>7, <1>9 DEF MHotValueFails, Told, MetricTypeOK, Never
<1>10. CASE MLoad(m)
  BY <1>10 DEF MLoad, MetricTypeOK, Never
<1>11. CASE MTick(m)
  <2>1. /\ Aged(age[m], m) \in 0..Cap(m)
        /\ Aged(over[m], m) \in {Never} \cup 0..Cap(m)
        /\ Aged(under[m], m) \in {Never} \cup 0..Cap(m)
    BY AgedType DEF MetricTypeOK, Never
  <2>2. /\ timer[m] - 1 \in 0..Period[m]
        /\ (IF waiting[m] = Never THEN Never ELSE waiting[m] + 1) \in {Never} \cup 0..MaxDelay
        /\ (IF delayed[m] = Never THEN Never ELSE delayed[m] - 1) \in {Never} \cup 0..MaxBackOff
    BY <1>11 DEF MTick, MetricTypeOK, Never
  <2> QED
    BY <1>11, <2>1, <2>2 DEF MTick, MetricTypeOK
<1> QED
  BY <1>1, <1>2, <1>3, <1>8, <1>9, <1>10, <1>11 DEF MStep

(* No step breaks the types.                                               *)
LEMMA TypeStep ==
    ASSUME LoadTypeOK, Shape, [Next]_vars
    PROVE  LoadTypeOK' /\ Shape'
<1>1. ASSUME NEW m \in Metrics PROVE MetricTypeOK(m)'
  <2>1. MetricTypeOK(m) /\ load[m] \in Usages /\ failures[m] \in 0..MaxBackOff
    BY DEF LoadTypeOK, MetricTypeOK, Shape
  <2> QED
    BY <2>1, Seen, MetricTypeStep
<1>2. outage \in 0..MaxOutage /\ MaxOutage \in Nat /\ 0 \in 0..MaxOutage
  BY PeriodAssumption DEF LoadTypeOK
<1>3. /\ ranged' \subseteq Metrics /\ load' \in [Metrics -> Usages] /\ up' \in BOOLEAN
      /\ outage' \in 0..MaxOutage /\ blind' \subseteq Metrics
  <2>1. ASSUME NEW n \in Metrics, annotateNodeLoad(n) PROVE blind' \subseteq Metrics
    BY <2>1, Annotated
  <2>2. CASE \E n \in Metrics : SyncNode(n)
    BY <2>1, <2>2 DEF SyncNode, LoadTypeOK
  <2>3. CASE \E n \in Metrics : annotateNodeHotValueFails(n)
    <3>1. up' = FALSE /\ outage' = 0 /\ ranged' = ranged /\ load' = load
      BY <2>3 DEF annotateNodeHotValueFails
    <3>2. blind' \subseteq Metrics
      BY <2>1, <2>3 DEF annotateNodeHotValueFails
    <3> QED
      BY <1>2, <3>1, <3>2, Zenon DEF LoadTypeOK
  <2>4. CASE \E n \in Metrics : Ticker(n) \/ Retry(n)
    BY <2>4 DEF Ticker, Retry, envVars, LoadTypeOK
  <2>5. CASE \E n \in Metrics : SyncNodeFails(n)
    BY <2>5 DEF SyncNodeFails, LoadTypeOK
  <2>6. CASE \E n \in Metrics, v \in Usages : LoadChanges(n, v)
    BY <2>6 DEF LoadChanges, LoadTypeOK
  <2>7. CASE OutageBegins \/ OutageEnds
    <3>1. up' \in BOOLEAN /\ outage' = 0 /\ UNCHANGED <<ranged, load, blind>>
      BY <2>7 DEF OutageBegins, OutageEnds
    <3> QED
      BY <1>2, <3>1, Zenon DEF LoadTypeOK
  <2>8. CASE Tick
    <3>1. ranged' \subseteq Metrics /\ load' \in [Metrics -> Usages] /\ up' \in BOOLEAN
      BY <2>8 DEF Tick, LoadTypeOK
    <3>2. (IF up THEN outage ELSE outage + 1) \in 0..MaxOutage
      BY <1>2, <2>8 DEF Tick
    <3>3. outage' \in 0..MaxOutage
      BY <2>8, <3>2 DEF Tick
    <3>4. blind' \subseteq Metrics
      BY <2>8, Zenon DEF Tick, LoadTypeOK
    <3> QED
      BY <3>1, <3>3, <3>4
  <2>9. CASE UNCHANGED vars
    BY <2>9 DEF vars, envVars, LoadTypeOK
  <2> QED
    BY <2>2, <2>3, <2>4, <2>5, <2>6, <2>7, <2>8, <2>9 DEF Next
<1> QED
  BY <1>1, <1>3, Seen DEF LoadTypeOK, MetricTypeOK

-----------------------------------------------------------------------------
(* The invariants of a metric.                                             *)

FreshOK(m) == Fresh(Period[m], timer[m], waiting[m], failures[m], age[m])
DueOK(m) == m \in blind \/ Due(Period[m], timer[m], waiting[m], delayed[m], age[m])
PacedOK(m) ==
    \/ outage > ShortOutage /\ m \in blind
    \/ Paced(Period[m], timer[m], waiting[m], delayed[m], failures[m], age[m], outage)

(* The numbers of a metric.                                                *)
MetricOK(m) == MetricTypeOK(m) /\ failures[m] \in 0..MaxBackOff /\ load[m] \in Usages

(* A tick adds at most one.                                                *)
LEMMA AgedBound ==
    ASSUME NEW m \in Metrics, NEW x \in Nat
    PROVE  Aged(x, m) \in Nat /\ Aged(x, m) <= x + 1
BY MetricNumbers DEF Aged, UpTo, Never

(* Failures are counted.                                                   *)
LEMMA Counted == ASSUME NEW k \in 0..MaxBackOff PROVE UpTo(k + 1, MaxBackOff) # 0
BY PeriodAssumption DEF UpTo

(* A key is fresh again after every sync that succeeds.                    *)
LEMMA FreshStep ==
    ASSUME NEW m \in Metrics, MetricOK(m), FreshOK(m), MStep(m)
    PROVE  FreshOK(m)'
<1> DEFINE p == Period[m]
<1>1. PICK t \in Int, w \in Int, k \in 0..MaxBackOff, a \in Nat :
         /\ t = timer[m] /\ w = waiting[m] /\ k = failures[m] /\ a = age[m]
  BY MetricNumbers DEF MetricOK, MetricTypeOK, Never
<1>2. t >= 0 /\ t <= p /\ (w = Never \/ w \in Nat) /\ p \in Nat /\ Fresh(p, t, w, k, a)
  BY <1>1, MetricNumbers DEF MetricOK, MetricTypeOK, FreshOK
<1>3. ASSUME NEW t1, NEW w1, NEW k1, NEW a1, Fresh(p, t1, w1, k1, a1),
             t1 = timer'[m], w1 = waiting'[m], k1 = failures'[m], a1 = age'[m]
      PROVE  FreshOK(m)'
  BY <1>3 DEF FreshOK
<1> HIDE DEF p
<1>4. CASE MIdle(m) \/ MBegins(m) \/ MEnds(m) \/ MLoad(m)
  BY <1>1, <1>2, <1>3, <1>4 DEF MIdle, MBegins, MEnds, MLoad, KeyKept, AnnoKept
<1>5. Fresh(p, t, IF w = Never THEN 0 ELSE w, k, a)
  BY <1>2 DEF Fresh, Never
<1>6. CASE MTicker(m)
  <2>1. t = 0 => Fresh(p, p, IF w = Never THEN 0 ELSE w, k, a)
    BY <1>2 DEF Fresh, Never
  <2> QED
    BY <1>1, <1>3, <1>6, <2>1 DEF MTicker, Queued, AnnoKept, p
<1>7. CASE MRetry(m)
  BY <1>1, <1>3, <1>5, <1>7 DEF MRetry, Queued, AnnoKept
<1>8. CASE MSynced(m)
  <2>1. Fresh(p, t, Never, 0, 0)
    BY <1>2 DEF Fresh, Never
  <2> QED
    BY <1>1, <1>3, <1>8, <2>1 DEF MSynced, Told
<1>9. CASE MFailed(m) \/ MHotValueFails(m)
  <2>1. failures'[m] # 0
    BY <1>1, <1>9, Counted DEF MFailed, MHotValueFails, Limited
  <2> QED
    BY <2>1 DEF FreshOK, Fresh
<1>10. CASE MTick(m)
  <2>1. PICK a1 \in Nat : a1 = Aged(a, m) /\ a1 <= a + 1
    BY <1>1, AgedBound
  <2>2. Fresh(p, t - 1, IF w = Never THEN Never ELSE w + 1, k, a1)
    BY <1>2, <2>1 DEF Fresh, Never
  <2> QED
    BY <1>1, <1>3, <1>10, <2>1, <2>2 DEF MTick
<1> QED
  BY <1>4, <1>6, <1>7, <1>8, <1>9, <1>10 DEF MStep

(* An attempt that comes in time is followed by one that comes in time:    *)
(* after a success in a period, after a failure of a short outage by the   *)
(* bounds on its length and on the delay.                                  *)
LEMMA DueStep ==
    ASSUME ExtraSuffices, NEW m \in Metrics, MetricOK(m), outage \in Nat,
           DueOK(m), FreshOK(m), ~up => PacedOK(m), MStep(m)
    PROVE  DueOK(m)'
<1> DEFINE p == Period[m]
<1>1. PICK t \in Int, w \in Int, d \in Int, k \in 0..MaxBackOff, a \in Nat :
         /\ t = timer[m] /\ w = waiting[m] /\ d = delayed[m] /\ k = failures[m] /\ a = age[m]
  BY MetricNumbers DEF MetricOK, MetricTypeOK, Never
<1>2. /\ t >= 0 /\ t <= p
      /\ w = Never \/ (w \in Nat /\ w <= MaxDelay)
      /\ d = Never \/ d \in Nat
      /\ p \in Nat /\ MaxDelay \in Nat /\ Extra \in Nat /\ BackOff \in Nat /\ ShortOutage \in Nat
  BY <1>1, MetricNumbers, PeriodAssumption DEF MetricOK, MetricTypeOK
<1>3. ASSUME NEW t1, NEW w1, NEW d1, NEW a1, Due(p, t1, w1, d1, a1),
             t1 = timer'[m], w1 = waiting'[m], d1 = delayed'[m], a1 = age'[m]
      PROVE  DueOK(m)'
  BY <1>3 DEF DueOK
<1>4. CASE m \in blind'
  BY <1>4 DEF DueOK
<1> HIDE DEF p
<1>5. ASSUME m \notin blind, MIdle(m) \/ MBegins(m) \/ MEnds(m) \/ MLoad(m)
      PROVE  DueOK(m)'
  <2>1. Due(p, t, w, d, a)
    BY <1>1, <1>5 DEF DueOK, p
  <2> QED
    BY <1>1, <1>3, <1>5, <2>1 DEF MIdle, MBegins, MEnds, MLoad, KeyKept, AnnoKept
<1>6. ASSUME m \notin blind, MTicker(m) PROVE DueOK(m)'
  <2>1. Due(p, t, w, d, a) /\ t = 0
    BY <1>1, <1>6 DEF DueOK, MTicker, p
  <2>2. Due(p, p, IF w = Never THEN 0 ELSE w, d, a)
    BY <1>2, <2>1 DEF Due, Never
  <2> QED
    BY <1>1, <1>3, <1>6, <2>2 DEF MTicker, Queued, AnnoKept, p
<1>7. ASSUME m \notin blind, MRetry(m) PROVE DueOK(m)'
  <2>1. Due(p, t, w, d, a) /\ d = 0
    BY <1>1, <1>7 DEF DueOK, MRetry, p
  <2>2. Due(p, t, IF w = Never THEN 0 ELSE w, Never, a)
    BY <1>2, <2>1 DEF Due, Never
  <2> QED
    BY <1>1, <1>3, <1>7, <2>2 DEF MRetry, Queued, AnnoKept
<1>8. CASE MSynced(m) \/ MHotValueFails(m)
  <2>1. MaxDelay < Extra
    BY <1>2 DEF ExtraSuffices
  <2>2. \A d1 : Due(p, t, Never, d1, 0)
    BY <1>2, <2>1 DEF Due
  <2> QED
    BY <1>1, <1>3, <1>8, <2>2 DEF MSynced, MHotValueFails, Told
<1>9. ASSUME m \notin blind', MFailed(m) PROVE DueOK(m)'
  <2>1. ~up /\ m \notin blind
    BY <1>9 DEF MFailed
  <2>2. PICK o \in Nat : o = outage
    OBVIOUS
  <2>3. Paced(p, t, w, d, k, a, o) /\ w # Never
    BY <1>1, <1>9, <2>1, <2>2 DEF PacedOK, MFailed, p
  <2>4. PICK d1 \in Int : d1 = IF d = Never THEN Delay(k) ELSE UpTo(d, Delay(k))
    BY <1>2, Delays, MetricNumbers DEF UpTo
  <2>5. d1 <= 2 * (BackOff + o) /\ d1 \in Nat
    <3>1. Delay(k) \in Nat
      BY Delays, MetricNumbers
    <3>2. CASE d = Never
      BY <1>2, <2>3, <2>4, <3>1, <3>2 DEF Paced, Pending
    <3>3. CASE d # Never
      BY <1>2, <2>3, <2>4, <3>1, <3>3 DEF Paced, Pending, UpTo
    <3> QED
      BY <3>2, <3>3
  <2>6. Due(p, t, Never, d1, a)
    BY <1>2, <2>3, <2>5 DEF Paced, Due, ExtraSuffices, Never
  <2> QED
    BY <1>1, <1>3, <1>9, <2>4, <2>6 DEF MFailed, Limited
<1>10. ASSUME m \notin blind, MTick(m) PROVE DueOK(m)'
  <2>1. PICK a1 \in Nat : a1 = Aged(a, m) /\ a1 <= a + 1
    BY <1>1, AgedBound
  <2>2. Due(p, t, w, d, a) /\ d # 0 /\ t > 0
    BY <1>1, <1>10 DEF DueOK, MTick, p
  <2>3. Due(p, t - 1, IF w = Never THEN Never ELSE w + 1, IF d = Never THEN Never ELSE d - 1, a1)
    BY <1>2, <2>1, <2>2 DEF Due, Never
  <2> QED
    BY <1>1, <1>3, <1>10, <2>1, <2>3 DEF MTick
<1>11. CASE m \in blind /\ m \notin blind'
  <2>1. MSynced(m) \/ MHotValueFails(m)
    BY <1>11 DEF MStep, MIdle, MTicker, MRetry, MFailed, MBegins, MEnds, MLoad, MTick, AnnoKept
  <2> QED
    BY <1>8, <2>1
<1> QED
  BY <1>4, <1>5, <1>6, <1>7, <1>8, <1>9, <1>10, <1>11 DEF MStep

(* In an outage the delays grow with its length, until it is a long one.   *)
LEMMA PacedStep ==
    ASSUME PeriodsLonger, NEW m \in Metrics, MetricOK(m), outage \in Nat,
           FreshOK(m), ~up => PacedOK(m), MStep(m), ~up'
    PROVE  PacedOK(m)'
<1> DEFINE p == Period[m]
<1>0. /\ timer[m] \in Int /\ waiting[m] \in Int /\ delayed[m] \in Int
      /\ failures[m] \in 0..MaxBackOff /\ age[m] \in Nat
  BY MetricNumbers DEF MetricOK, MetricTypeOK, Never
<1>1. PICK t \in Int, w \in Int, d \in Int, k \in 0..MaxBackOff, a \in Nat, o \in Nat :
         /\ t = timer[m] /\ w = waiting[m] /\ d = delayed[m] /\ k = failures[m] /\ a = age[m]
         /\ o = outage
  BY <1>0
<1>2. /\ t >= 0 /\ t <= p
      /\ w = Never \/ (w \in Nat /\ w <= MaxDelay)
      /\ d = Never \/ d \in Nat
      /\ p \in Nat /\ MaxDelay \in Nat /\ BackOff \in Nat /\ ShortOutage \in Nat /\ ShortOutage < p
  BY <1>1, MetricNumbers, PeriodAssumption DEF MetricOK, MetricTypeOK, PeriodsLonger
<1>3. ASSUME NEW t1, NEW w1, NEW d1, NEW k1, NEW a1, NEW o1, Paced(p, t1, w1, d1, k1, a1, o1),
             t1 = timer'[m], w1 = waiting'[m], d1 = delayed'[m], k1 = failures'[m], a1 = age'[m],
             o1 = outage'
      PROVE  PacedOK(m)'
  BY <1>3 DEF PacedOK
<1>4. ASSUME ~up PROVE (o > ShortOutage /\ m \in blind) \/ Paced(p, t, w, d, k, a, o)
  BY <1>1, <1>4 DEF PacedOK
<1> HIDE DEF p
<1>5. PICK k1 \in 0..MaxBackOff : k1 = UpTo(k + 1, MaxBackOff)
  BY Delays
<1>6. PICK e \in Nat, e1 \in Nat : e = Delay(k) /\ e1 = Delay(k1) /\ e1 <= 2 * e
  BY <1>5, Delays, MetricNumbers
<1>7. CASE o > ShortOutage /\ m \in blind /\ ~up
  <2>1. MIdle(m) \/ MTicker(m) \/ MRetry(m) \/ MFailed(m) \/ MLoad(m) \/ MTick(m)
    BY <1>7 DEF MStep, MSynced, MHotValueFails, MBegins, Begins, MEnds
  <2>2. CASE MTick(m)
    <3>1. outage' = o + 1 /\ m \in blind'
      BY <1>1, <1>7, <2>2 DEF MTick
    <3> QED
      BY <1>2, <1>7, <3>1 DEF PacedOK
  <2>3. CASE ~MTick(m)
    <3>1. outage' = o /\ m \in blind'
      BY <1>1, <1>7, <2>1, <2>3 DEF MIdle, MTicker, MRetry, MFailed, MLoad, AnnoKept, UpKept
    <3> QED
      BY <1>7, <3>1 DEF PacedOK
  <2> QED
    BY <2>2, <2>3
<1>8. ASSUME ~up, MIdle(m) \/ MLoad(m), Paced(p, t, w, d, k, a, o)
      PROVE  PacedOK(m)'
  BY <1>1, <1>3, <1>8 DEF MIdle, MLoad, KeyKept, AnnoKept, UpKept
<1>9. ASSUME MTicker(m), Paced(p, t, w, d, k, a, o)
      PROVE  PacedOK(m)'
  <2>1. t = 0
    BY <1>1, <1>9 DEF MTicker
  <2>2. Paced(p, p, IF w = Never THEN 0 ELSE w, d, k, a, o)
    BY <1>2, <1>6, <1>9, <2>1 DEF Paced, Pending, Never
  <2> QED
    BY <1>1, <1>3, <1>9, <2>2 DEF MTicker, Queued, AnnoKept, UpKept, p
<1>10. ASSUME MRetry(m), Paced(p, t, w, d, k, a, o)
       PROVE  PacedOK(m)'
  <2>1. d = 0
    BY <1>1, <1>10 DEF MRetry
  <2>2. Paced(p, t, IF w = Never THEN 0 ELSE w, Never, k, a, o)
    BY <1>2, <1>6, <1>10, <2>1 DEF Paced, Pending, Never
  <2> QED
    BY <1>1, <1>3, <1>10, <2>2 DEF MRetry, Queued, AnnoKept, UpKept
<1>11. ASSUME MFailed(m), Paced(p, t, w, d, k, a, o)
       PROVE  PacedOK(m)'
  <2>1. w # Never
    BY <1>1, <1>11 DEF MFailed
  <2>2. PICK d1 \in Int : d1 = IF d = Never THEN e ELSE UpTo(d, e)
    BY <1>2, <1>6 DEF UpTo
  <2>3. Paced(p, t, Never, d1, k1, a, o)
    <3>1. CASE d = Never
      BY <1>2, <1>6, <1>11, <2>1, <2>2, <3>1 DEF Paced, Pending, Never
    <3>2. CASE d # Never
      BY <1>2, <1>6, <1>11, <2>1, <2>2, <3>2 DEF Paced, Pending, Never, UpTo
    <3> QED
      BY <3>1, <3>2
  <2> QED
    BY <1>1, <1>3, <1>5, <1>6, <1>11, <2>2, <2>3 DEF MFailed, Limited, UpKept
<1>12. ASSUME ~up, MTick(m), Paced(p, t, w, d, k, a, o)
       PROVE  PacedOK(m)'
  <2>1. PICK a1 \in Nat : a1 = Aged(a, m) /\ a1 <= a + 1
    BY <1>1, AgedBound
  <2>2. outage' = o + 1 /\ d # 0 /\ t > 0
    BY <1>1, <1>12 DEF MTick
  <2>3. CASE o + 1 > ShortOutage
    BY <1>12, <2>2, <2>3 DEF MTick, PacedOK
  <2>4. CASE ~(o + 1 > ShortOutage)
    <3>1. Paced(p, t - 1, IF w = Never THEN Never ELSE w + 1, IF d = Never THEN Never ELSE d - 1, k, a1, o + 1)
      BY <1>2, <1>6, <1>12, <2>1, <2>2, <2>4 DEF Paced, Pending, Never
    <3> QED
      BY <1>1, <1>3, <1>12, <2>1, <2>2, <3>1 DEF MTick
  <2> QED
    BY <2>3, <2>4
<1>13. ASSUME Begins(m) PROVE k = 0 /\ d = Never /\ a <= p + MaxDelay /\ e <= BackOff
  <2>1. k = 0 /\ d = Never
    BY <1>1, <1>13 DEF Begins
  <2>2. Fresh(p, t, w, k, a)
    BY <1>1 DEF FreshOK, p
  <2> QED
    BY <1>2, <1>6, <2>1, <2>2, Delays DEF Fresh
<1>14. CASE MBegins(m)
  <2>1. Paced(p, t, w, d, k, a, 0)
    BY <1>2, <1>6, <1>13, <1>14 DEF MBegins, Paced, Pending, Never
  <2> QED
    BY <1>1, <1>3, <1>14, <2>1 DEF MBegins, Begins, KeyKept, AnnoKept
<1>15. CASE MHotValueFails(m)
  <2>1. Paced(p, t, Never, e, k1, 0, 0)
    BY <1>2, <1>6, <1>13, <1>15 DEF MHotValueFails, Paced, Pending, Never
  <2>2. delayed'[m] = e /\ failures'[m] = k1
    BY <1>1, <1>5, <1>6, <1>13, <1>15 DEF MHotValueFails, Limited
  <2> QED
    BY <1>1, <1>3, <1>15, <2>1, <2>2 DEF MHotValueFails, Begins, Told
<1>16. CASE up
  <2>1. MBegins(m) \/ MHotValueFails(m)
    BY <1>16 DEF MStep, MIdle, MTicker, MRetry, MSynced, MFailed, MEnds, MLoad, MTick, UpKept
  <2> QED
    BY <1>14, <1>15, <2>1
<1>17. CASE ~up
  <2>1. MIdle(m) \/ MTicker(m) \/ MRetry(m) \/ MFailed(m) \/ MLoad(m) \/ MTick(m)
    BY <1>17 DEF MStep, MSynced, MHotValueFails, MBegins, Begins, MEnds
  <2> QED
    BY <1>4, <1>7, <1>8, <1>9, <1>10, <1>11, <1>12, <1>17, <2>1
<1> QED
  BY <1>16, <1>17

-----------------------------------------------------------------------------
(* The annotation and the load.                                            *)

SidesOK(m) ==
    /\ over[m] # Never <=> load[m] > Limit[m]
    /\ under[m] # Never <=> ~(load[m] > Limit[m])
UsageOK(m) ==
    /\ usage[m] # NoUsage /\ age[m] < over[m] => usage[m] > Limit[m]
    /\ usage[m] # NoUsage /\ age[m] < under[m] => ~(usage[m] > Limit[m])
    /\ usage[m] = NoUsage /\ m \notin blind => over[m] <= age[m]

(* Aging keeps the order.                                                  *)
LEMMA AgedOrder ==
    ASSUME NEW m \in Metrics, NEW x \in 0..Cap(m), NEW y \in {Never} \cup 0..Cap(m)
    PROVE  /\ Aged(x, m) < Aged(y, m) => x < y
           /\ y <= x => Aged(y, m) <= Aged(x, m)
BY MetricNumbers DEF Aged, UpTo, Never

(* over and under follow the load.                                         *)
LEMMA SidesStep ==
    ASSUME NEW m \in Metrics, MetricOK(m), SidesOK(m), MStep(m)
    PROVE  SidesOK(m)'
<1>1. CASE LoadKept(m)
  BY <1>1 DEF LoadKept, SidesOK
<1>2. CASE MLoad(m)
  <2>1. PICK v \in Nat : v = load'[m]
    BY <1>2, MetricNumbers DEF MLoad
  <2>2. /\ over'[m] = IF v <= Limit[m] THEN Never ELSE IF over[m] = Never THEN 0 ELSE over[m]
        /\ under'[m] = IF v > Limit[m] THEN Never ELSE IF under[m] = Never THEN 0 ELSE under[m]
    BY <1>2, <2>1 DEF MLoad
  <2>3. (v <= Limit[m] <=> ~(v > Limit[m])) /\ Never # 0
    BY MetricNumbers DEF Never
  <2> QED
    BY <2>1, <2>2, <2>3, Zenon DEF SidesOK
<1>3. CASE MTick(m)
  <2>1. (Aged(over[m], m) = Never <=> over[m] = Never) /\ (Aged(under[m], m) = Never <=> under[m] = Never)
    BY AgedType DEF MetricOK, MetricTypeOK
  <2> QED
    BY <1>3, <2>1 DEF MTick, SidesOK
<1> QED
  BY <1>1, <1>2, <1>3 DEF MStep, MIdle, MTicker, MRetry, MSynced, MFailed, MHotValueFails, MBegins, MEnds

(* What an annotation tells stays true of the time at which it was written. *)
LEMMA UsageStep ==
    ASSUME NEW m \in Metrics, MetricOK(m), SidesOK(m), UsageOK(m), MStep(m)
    PROVE  UsageOK(m)'
<1>1. /\ age[m] \in 0..Cap(m) /\ age[m] \in Nat
      /\ over[m] \in {Never} \cup 0..Cap(m) /\ over[m] \in Int
      /\ under[m] \in {Never} \cup 0..Cap(m) /\ under[m] \in Int
      /\ load[m] \in Usages /\ load[m] \in Nat /\ Limit[m] \in Nat /\ load[m] # NoUsage
  BY MetricNumbers DEF MetricOK, MetricTypeOK, Never
<1>2. ASSUME LoadKept(m), usage'[m] = usage[m], age'[m] = age[m], m \in blind => m \in blind'
      PROVE  UsageOK(m)'
  BY <1>2 DEF LoadKept, UsageOK
<1>3. ASSUME LoadKept(m), Told(m) PROVE UsageOK(m)'
  <2>1. (0 < over[m] => load[m] > Limit[m]) /\ (0 < under[m] => ~(load[m] > Limit[m]))
    BY <1>1 DEF SidesOK, Never
  <2> QED
    BY <1>1, <1>3, <2>1 DEF LoadKept, Told, UsageOK
<1>4. CASE MLoad(m)
  <2>1. /\ over'[m] = Never \/ over'[m] = 0 \/ over'[m] = over[m]
        /\ under'[m] = Never \/ under'[m] = 0 \/ under'[m] = under[m]
    BY <1>4 DEF MLoad
  <2>2. PICK x \in Int, y \in Int : x = over'[m] /\ y = under'[m]
    BY <1>1, <2>1 DEF Never
  <2>3. /\ age[m] < x => age[m] < over[m]
        /\ age[m] < y => age[m] < under[m]
        /\ over[m] <= age[m] => x <= age[m]
    BY <1>1, <2>1, <2>2 DEF Never
  <2>4. usage'[m] = usage[m] /\ age'[m] = age[m] /\ (m \in blind' <=> m \in blind)
    BY <1>4 DEF MLoad, AnnoKept
  <2> QED
    BY <2>2, <2>3, <2>4 DEF UsageOK
<1>5. CASE MTick(m)
  <2>1. /\ Aged(age[m], m) < Aged(over[m], m) => age[m] < over[m]
        /\ Aged(age[m], m) < Aged(under[m], m) => age[m] < under[m]
        /\ over[m] <= age[m] => Aged(over[m], m) <= Aged(age[m], m)
    BY <1>1, AgedOrder
  <2> QED
    BY <1>5, <2>1 DEF MTick, UsageOK
<1> QED
  BY <1>2, <1>3, <1>4, <1>5
     DEF MStep, MIdle, MTicker, MRetry, MSynced, MFailed, MHotValueFails, MBegins, MEnds, AnnoKept

-----------------------------------------------------------------------------
(* The theorems.                                                           *)

(* The invariants hold at the start.                                       *)
LEMMA InitOK ==
    ASSUME Init
    PROVE  LoadTypeOK /\ Shape /\ KeysFresh /\ (ExtraSuffices => SyncsDue) /\ RetriesPaced /\ SidesTold /\ UsageTold
<1>1. Shape
  BY PeriodAssumption, MetricNumbers DEF Init, Shape, Never
<1>2. LoadTypeOK
  <2>1. ASSUME NEW m \in Metrics PROVE MetricTypeOK(m)
    BY MetricNumbers DEF Init, MetricTypeOK
  <2> QED
    BY <2>1, PeriodAssumption DEF Init, LoadTypeOK, MetricTypeOK
<1>3. SidesTold
  <2>1. Never # 0 /\ \A m \in Metrics : Cap(m) # Never
    BY MetricNumbers DEF Never
  <2> QED
    BY <2>1, Zenon DEF Init, SidesTold
<1>4. ASSUME NEW m \in Metrics
      PROVE  /\ FreshOK(m)
             /\ ExtraSuffices => DueOK(m)
             /\ UsageOK(m)
  <2>1. /\ timer[m] = Period[m] /\ waiting[m] = 0 /\ age[m] = 0 /\ failures[m] = 0 /\ usage[m] = NoUsage
        /\ over[m] = 0 \/ over[m] = Never
    BY DEF Init
  <2>2. FreshOK(m) /\ UsageOK(m)
    BY <2>1, MetricNumbers DEF FreshOK, Fresh, UsageOK, Never
  <2>3. ExtraSuffices => DueOK(m)
    BY <2>1, MetricNumbers, PeriodAssumption DEF DueOK, Due, ExtraSuffices, Never
  <2> QED
    BY <2>2, <2>3
<1> QED
  BY <1>1, <1>2, <1>3, <1>4 DEF KeysFresh, SyncsDue, RetriesPaced, UsageTold, FreshOK, DueOK, UsageOK, Init

(* Timers, delays, failures, ages and usages stay in their ranges: the     *)
(* delay of AddRateLimited never passes its maximum.                       *)
THEOREM TypeCorrect == Spec => []LoadTypeOK
<1>1. Init => LoadTypeOK /\ Shape
  BY InitOK
<1>2. LoadTypeOK /\ Shape /\ [Next]_vars => LoadTypeOK' /\ Shape'
  BY TypeStep
<1> QED
  BY <1>1, <1>2, PTL DEF Spec

(* The type invariant in terms of a metric.                                *)
LEMMA TypesOfMetric == ASSUME LoadTypeOK, Shape, NEW m \in Metrics PROVE MetricOK(m)
BY DEF LoadTypeOK, Shape, MetricOK, MetricTypeOK

(* Every step keeps what the annotations tell.                             *)
LEMMA ToldStep ==
    ASSUME LoadTypeOK, Shape, SidesTold, UsageTold, [Next]_vars
    PROVE  SidesTold' /\ UsageTold'
<1>1. ASSUME NEW m \in Metrics PROVE SidesOK(m)' /\ UsageOK(m)'
  <2>1. SidesOK(m) /\ UsageOK(m) /\ MetricOK(m) /\ MStep(m)
    BY Seen, TypesOfMetric DEF SidesTold, UsageTold, SidesOK, UsageOK
  <2> QED
    BY <2>1, SidesStep, UsageStep
<1> QED
  BY <1>1 DEF SidesTold, UsageTold, SidesOK, UsageOK

(* Filter turns a node away only if its load was above a limit within the  *)
(* active duration, whatever outages, delays, retries and changes of load  *)
(* happened: no annotation is believed for longer than that.               *)
THEOREM RejectionsJustified == Spec => []RejectionJustified
<1>1. Init => LoadTypeOK /\ Shape /\ SidesTold /\ UsageTold
  BY InitOK
<1>2. LoadTypeOK /\ Shape /\ SidesTold /\ UsageTold /\ [Next]_vars
        => LoadTypeOK' /\ Shape' /\ SidesTold' /\ UsageTold'
  BY TypeStep, ToldStep
<1>3. ASSUME LoadTypeOK, Shape, SidesTold, UsageTold, ~Filter
      PROVE  \E m \in Metrics :
                /\ Limit[m] # 0
                /\ load[m] > Limit[m] \/ under[m] \in 0..(ActiveDuration(m) - 1)
  <2>1. PICK m \in Metrics : isOverLoad(m) \/ predictingOverLoad(m)
    BY <1>3 DEF Filter, FilterDynamic, FilterApplication, LoadTypeOK
  <2>2. /\ Limit[m] # 0 /\ age[m] < ActiveDuration(m)
        /\ usage[m] # NoUsage /\ usage[m] > Limit[m]
    BY <2>1 DEF isOverLoad, predictingOverLoad, GetResourceUsage, InActivePeriod
  <2>3. SidesOK(m) /\ UsageOK(m) /\ MetricOK(m)
    BY <1>3, TypesOfMetric DEF SidesTold, UsageTold, SidesOK, UsageOK
  <2>4. CASE ~(load[m] > Limit[m])
    <3>1. under[m] # Never /\ ~(age[m] < under[m])
      BY <2>2, <2>3, <2>4 DEF SidesOK, UsageOK
    <3>2. under[m] \in 0..(ActiveDuration(m) - 1)
      BY <2>2, <2>3, <3>1, MetricNumbers, PeriodAssumption DEF MetricOK, MetricTypeOK, ActiveDuration
    <3> QED
      BY <2>2, <3>2
  <2> QED
    BY <2>2, <2>4
<1>4. LoadTypeOK /\ Shape /\ SidesTold /\ UsageTold => RejectionJustified
  BY <1>3 DEF RejectionJustified
<1> QED
  BY <1>1, <1>2, <1>4, PTL DEF Spec

(* Every step keeps the next attempts in time.                             *)
LEMMA TimingStep ==
    ASSUME ExtraSuffices, PeriodsLonger,
           LoadTypeOK, Shape, KeysFresh, SyncsDue, RetriesPaced, [Next]_vars
    PROVE  KeysFresh' /\ SyncsDue' /\ RetriesPaced'
<1>1. outage \in Nat
  BY PeriodAssumption DEF LoadTypeOK
<1>2. ASSUME NEW m \in Metrics PROVE FreshOK(m)' /\ DueOK(m)' /\ (~up' => PacedOK(m)')
  <2>1. FreshOK(m) /\ DueOK(m) /\ (~up => PacedOK(m)) /\ MetricOK(m) /\ MStep(m)
    BY Seen, TypesOfMetric DEF KeysFresh, SyncsDue, RetriesPaced, FreshOK, DueOK, PacedOK
  <2> QED
    BY <1>1, <2>1, FreshStep, DueStep, PacedStep
<1> QED
  BY <1>2 DEF KeysFresh, SyncsDue, RetriesPaced, FreshOK, DueOK, PacedOK

(* An annotation of a metric that is not blind is in its active period.    *)
LEMMA NeverExpires ==
    ASSUME LoadTypeOK, Shape, SyncsDue, NEW m \in Metrics \ blind
    PROVE  InActivePeriod(m)
<1>1. MetricOK(m) /\ Due(Period[m], timer[m], waiting[m], delayed[m], age[m])
  BY TypesOfMetric DEF SyncsDue
<1> QED
  BY <1>1, MetricNumbers DEF MetricOK, MetricTypeOK, Due, InActivePeriod, ActiveDuration, Never

(* If the extra period covers an outage of the length ShortOutage, with    *)
(* the delays of the retries after it and of the workers, then a node that *)
(* has been above a limit for the active duration is filtered out, however *)
(* short outages, failing patches, ticks and retries interleave.           *)
THEOREM OverloadsNoticed ==
    ASSUME ExtraSuffices, PeriodsLonger
    PROVE  Spec => []OverloadNoticed
<1> DEFINE Inv == /\ LoadTypeOK /\ Shape /\ SidesTold /\ UsageTold
                  /\ KeysFresh /\ SyncsDue /\ RetriesPaced
<1>1. Init => Inv
  BY InitOK
<1>2. Inv /\ [Next]_vars => Inv'
  BY TypeStep, ToldStep, TimingStep
<1>3. ASSUME Inv, NEW m \in Metrics \ blind, Limit[m] # 0, over[m] >= ActiveDuration(m)
      PROVE  ~Filter
  <2>1. age[m] < ActiveDuration(m)
    BY <1>3, NeverExpires DEF InActivePeriod
  <2>2. UsageOK(m) /\ MetricOK(m)
    BY <1>3, TypesOfMetric DEF UsageTold, UsageOK
  <2>3. age[m] < over[m]
    BY <1>3, <2>1, <2>2, MetricNumbers DEF MetricOK, MetricTypeOK, ActiveDuration, Never
  <2>4. ~(over[m] <= age[m])
    BY <2>2, <2>3, MetricNumbers DEF MetricOK, MetricTypeOK, Never
  <2>5. usage[m] # NoUsage /\ usage[m] > Limit[m]
    BY <2>2, <2>3, <2>4 DEF UsageOK
  <2>6. isOverLoad(m) /\ predictingOverLoad(m)
    BY <1>3, <2>1, <2>5 DEF isOverLoad, predictingOverLoad, GetResourceUsage, InActivePeriod
  <2> QED
    BY <2>6 DEF Filter, FilterDynamic, FilterApplication
<1>4. Inv => OverloadNoticed
  BY <1>3 DEF OverloadNoticed
<1> QED
  BY <1>1, <1>2, <1>4, PTL DEF Spec
=============================================================================
