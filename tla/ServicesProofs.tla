---------------------------- MODULE ServicesProofs ----------------------------
(***************************************************************************)
(* The firewall, what zhio_system_init starts, the UART ring, the cloud    *)
(* and the console, and all services side by side, for every value of      *)
(* their constants.                                                        *)
(***************************************************************************)
EXTENDS Services, MessageBusProofs

-----------------------------------------------------------------------------
(* The firewall.                                                           *)

FirewallInv == FirewallTypes /\ RateBounded

(* What % leaves is a value of the word and never more than there was.     *)
LEMMA Cut ==
  ASSUME NEW n \in Nat
  PROVE  /\ n % FwWord \in Nat
         /\ n % FwWord < FwWord
         /\ n % FwWord <= n
<1>1. FwWord \in Nat /\ FwWord > 0
  BY FirewallAssumption
<1> QED
  BY <1>1, Z3

LEMMA Product ==
  ASSUME NEW a \in Nat, NEW b \in Nat
  PROVE  a * b \in Nat
  BY Z3

LEMMA Monotone ==
  ASSUME NEW r \in Nat, NEW a \in Nat, NEW b \in Nat, a <= b
  PROVE  r * a <= r * b
  BY Z3

LEMMA Distributes ==
  ASSUME NEW r \in Nat, NEW a \in Int, NEW b \in Int, NEW c \in Int
  PROVE  r * (c - a) = r * (b - a) + r * (c - b)
  BY Z3

(* The bucket an application or the start sets is full and within a word.  *)
LEMMA FullBucketTypes ==
  ASSUME NEW rate \in Nat, NEW burst \in Nat, fwNow \in Nat
  PROVE  /\ FullBucket(rate, burst) \in
              [enabled : BOOLEAN, rate : Nat, capacity : Nat, tokens : Nat, last : Nat]
         /\ FullBucket(rate, burst).tokens = FullBucket(rate, burst).capacity
         /\ FullBucket(rate, burst).capacity < FwWord
         /\ FullBucket(rate, burst).last = fwNow
         /\ FullBucket(rate, burst).rate = rate
<1>1. burst * FwUnit \in Nat
  BY Product, FirewallAssumption
<1>2. (burst * FwUnit) % FwWord \in Nat /\ (burst * FwUnit) % FwWord < FwWord
  BY <1>1, Cut
<1> QED
  BY <1>2 DEF FullBucket

(* A refill gives no more than the elapsed time earns, whatever wraps, and *)
(* no more than fits.                                                      *)
LEMMA RefillEarned ==
  ASSUME FirewallTypes
  PROVE  /\ Refilled \in Nat
         /\ Refilled <= bucket.capacity
         /\ Refilled <= bucket.tokens + bucket.rate * (fwNow - bucket.last)
<1> DEFINE elapsed == (fwNow - bucket.last) % FwWord
           add == (bucket.rate * elapsed) % FwWord
           sum == (bucket.tokens + add) % FwWord
<1>1. /\ fwNow - bucket.last \in Nat /\ bucket.tokens \in Nat /\ bucket.rate \in Nat
      /\ bucket.capacity \in Nat
  BY DEF FirewallTypes
<1>2. elapsed \in Nat /\ elapsed <= fwNow - bucket.last
  BY <1>1, Cut
<1>3. bucket.rate * elapsed \in Nat
  BY <1>1, <1>2, Product
<1>4. bucket.rate * (fwNow - bucket.last) \in Nat
  BY <1>1, Product
<1>5. bucket.rate * elapsed <= bucket.rate * (fwNow - bucket.last)
  BY <1>1, <1>2, Monotone
<1>6. add \in Nat /\ add <= bucket.rate * elapsed
  BY <1>3, Cut
<1> HIDE DEF add
<1>7. bucket.tokens + add \in Nat
  BY <1>1, <1>6
<1>8. sum \in Nat /\ sum <= bucket.tokens + add
  BY <1>7, Cut
<1>9. Refilled = IF sum > bucket.capacity THEN bucket.capacity ELSE sum
  BY DEF Refilled, add
<1> HIDE DEF sum, elapsed
<1>10. add <= bucket.rate * (fwNow - bucket.last)
  BY <1>3, <1>4, <1>5, <1>6
<1>11. sum <= bucket.tokens + bucket.rate * (fwNow - bucket.last)
  BY <1>1, <1>4, <1>6, <1>8, <1>10
<1> QED
  BY <1>1, <1>4, <1>8, <1>9, <1>11
-----------------------------------------------------------------------------

(* A bucket that has just been set keeps the limit with nothing spent.     *)
LEMMA FreshBucketBounded ==
  ASSUME NEW b, b.tokens = b.capacity, b.capacity \in Nat, b.rate \in Nat, b.last \in Nat
  PROVE  FwUnit * 0 + b.tokens <= b.capacity + b.rate * (b.last - b.last)
<1>1. FwUnit * 0 = 0 /\ b.last - b.last = 0 /\ b.rate * 0 = 0
  BY FirewallAssumption, Z3
<1> QED
  BY <1>1

(* The bucket of a packet: after the refill the limit still holds.         *)
LEMMA RefilledBounded ==
  ASSUME FirewallTypes, RateBounded, bucket.enabled
  PROVE  /\ RefilledBucket \in
              [enabled : BOOLEAN, rate : Nat, capacity : Nat, tokens : Nat, last : Nat]
         /\ RefilledBucket.enabled
         /\ RefilledBucket.tokens <= RefilledBucket.capacity
         /\ RefilledBucket.capacity = bucket.capacity
         /\ RefilledBucket.last = fwNow
         /\ FwUnit * fwHistory.spent + RefilledBucket.tokens
              <= RefilledBucket.capacity
                   + RefilledBucket.rate * (RefilledBucket.last - fwHistory.setAt)
<1>1. RefilledBucket = [bucket EXCEPT !.tokens = Refilled, !.last = fwNow]
  BY DEF RefilledBucket
<1>2. Refilled \in Nat /\ Refilled <= bucket.capacity
  BY RefillEarned
<1>3. /\ RefilledBucket \in
           [enabled : BOOLEAN, rate : Nat, capacity : Nat, tokens : Nat, last : Nat]
      /\ RefilledBucket.enabled = bucket.enabled
      /\ RefilledBucket.rate = bucket.rate
      /\ RefilledBucket.capacity = bucket.capacity
      /\ RefilledBucket.tokens = Refilled
      /\ RefilledBucket.last = fwNow
  BY <1>1, <1>2 DEF FirewallTypes
<1> DEFINE spent == FwUnit * fwHistory.spent
           before == bucket.rate * (bucket.last - fwHistory.setAt)
           since == bucket.rate * (fwNow - bucket.last)
           whole == bucket.rate * (fwNow - fwHistory.setAt)
<1>4. /\ fwHistory.spent \in Nat /\ fwHistory.setAt \in Nat /\ bucket.last \in Nat
      /\ fwNow \in Nat /\ bucket.rate \in Nat /\ bucket.tokens \in Nat
      /\ bucket.capacity \in Nat
      /\ bucket.last - fwHistory.setAt \in Nat /\ fwNow - bucket.last \in Nat
  BY DEF FirewallTypes
<1>5. spent \in Nat /\ before \in Nat /\ since \in Nat
  BY <1>4, Product, FirewallAssumption
<1>6. whole = before + since
  BY <1>4, Distributes
<1>7. spent + bucket.tokens <= bucket.capacity + before
  BY DEF RateBounded
<1>8. Refilled <= bucket.tokens + since
  BY RefillEarned
<1> HIDE DEF spent, before, since, whole
<1>9. spent + Refilled <= bucket.capacity + whole
  BY <1>2, <1>4, <1>5, <1>6, <1>7, <1>8
<1> QED
  BY <1>2, <1>3, <1>9 DEF spent, whole
-----------------------------------------------------------------------------

LEMMA FirewallStartHolds == FirewallStart => FirewallInv
<1> SUFFICES ASSUME FirewallStart PROVE FirewallInv
  OBVIOUS
<1> USE DEF FirewallStart
<1>1. FwDefaultRate \in Nat /\ FwDefaultBurst \in Nat /\ fwNow \in Nat
  BY FirewallAssumption
<1>2. /\ bucket \in [enabled : BOOLEAN, rate : Nat, capacity : Nat, tokens : Nat, last : Nat]
      /\ bucket.tokens = bucket.capacity /\ bucket.capacity < FwWord /\ bucket.last = 0
  BY <1>1, FullBucketTypes
<1>3. FirewallTypes
  BY <1>2 DEF FirewallTypes, NoRules, NoStats
<1>4. FwUnit * 0 + bucket.tokens <= bucket.capacity + bucket.rate * (bucket.last - bucket.last)
  BY <1>2, FreshBucketBounded
<1>5. RateBounded
  BY <1>2, <1>4 DEF RateBounded
<1> QED
  BY <1>3, <1>5 DEF FirewallInv

LEMMA CountsAreNumbers ==
  ASSUME FirewallTypes, NEW verdict
  PROVE  Count(verdict) \in [allowed : Nat, blocked : Nat, dropped : Nat]
<1>1. fwStats \in [allowed : Nat, blocked : Nat, dropped : Nat]
  BY DEF FirewallTypes
<1> DEFINE allowed == [fwStats EXCEPT !.allowed = @ + 1]
           refused == [allowed EXCEPT !.allowed = @ - 1]
<1>2. /\ allowed \in [allowed : Nat, blocked : Nat, dropped : Nat]
      /\ allowed.allowed = fwStats.allowed + 1
  BY <1>1
<1>3. allowed.allowed - 1 \in Nat
  BY <1>1, <1>2
<1> HIDE DEF allowed
<1>4. refused \in [allowed : Nat, blocked : Nat, dropped : Nat]
  BY <1>2, <1>3
<1>5. /\ [refused EXCEPT !.dropped = @ + 1] \in [allowed : Nat, blocked : Nat, dropped : Nat]
      /\ [refused EXCEPT !.blocked = @ + 1] \in [allowed : Nat, blocked : Nat, dropped : Nat]
  <2> HIDE DEF refused
  <2> QED
    BY <1>4
<1> QED
  BY <1>2, <1>4, <1>5 DEF Count, allowed

LEMMA FirewallStepHolds == FirewallInv /\ [FirewallNext]_fwVars => FirewallInv'
<1> SUFFICES ASSUME FirewallInv, [FirewallNext]_fwVars PROVE FirewallInv'
  OBVIOUS
<1> USE DEF FirewallInv
<1> DEFINE Buckets == [enabled : BOOLEAN, rate : Nat, capacity : Nat, tokens : Nat, last : Nat]
           Stats == [allowed : Nat, blocked : Nat, dropped : Nat]
           Histories == [checked : Nat, spent : Nat, setAt : Nat]
<1>0. /\ fwNow \in Nat /\ bucket \in Buckets /\ fwStats \in Stats /\ fwHistory \in Histories
      /\ bucket.tokens <= bucket.capacity /\ bucket.capacity < FwWord
      /\ fwHistory.setAt <= bucket.last /\ bucket.last <= fwNow
      /\ FwUnit \in Nat /\ FwUnit > 0
  BY FirewallAssumption DEF FirewallTypes
<1>1. CASE FirewallInit
  <2>1. fwNow' = fwNow /\ bucket' = FullBucket(FwDefaultRate, FwDefaultBurst)
    BY <1>1 DEF FirewallInit
  <2>2. /\ bucket' \in Buckets /\ bucket'.tokens = bucket'.capacity
        /\ bucket'.capacity < FwWord /\ bucket'.last = fwNow
    BY <1>0, <2>1, FullBucketTypes, FirewallAssumption, SMTT(20)
  <2>3. FirewallTypes'
    BY <1>0, <1>1, <2>2 DEF FirewallInit, FirewallTypes, NoRules, NoStats
  <2>4. FwUnit * 0 + bucket'.tokens <= bucket'.capacity + bucket'.rate * (bucket'.last - bucket'.last)
    BY <2>2, FreshBucketBounded
  <2>5. RateBounded'
    BY <1>1, <2>2, <2>4 DEF FirewallInit, RateBounded
  <2> QED
    BY <2>3, <2>5
<1>2. CASE FirewallDeinit
  <2>1. FirewallTypes'
    BY <1>0, <1>2, FirewallAssumption DEF FirewallDeinit, FirewallTypes, NoRules, NoStats
  <2>2. RateBounded'
    BY <1>2 DEF FirewallDeinit, RateBounded
  <2> QED
    BY <2>1, <2>2
<1>3. ASSUME NEW rate \in FwRates \cup {0}, NEW burst \in FwBursts, FirewallSetRate(rate, burst)
      PROVE  FirewallInv'
  <2>2. CASE rate = 0
    <3>1. bucket' = [bucket EXCEPT !.enabled = FALSE] /\ fwHistory' = fwHistory /\ fwNow' = fwNow
          /\ fwRules' = fwRules /\ fwStats' = fwStats
      BY <1>3, <2>2 DEF FirewallSetRate
    <3>2. bucket'.enabled = FALSE
      BY <3>1, <1>0
    <3>3. FirewallTypes'
      BY <1>0, <3>1 DEF FirewallTypes
    <3> QED
      BY <3>2, <3>3 DEF RateBounded
  <2>3. CASE rate # 0
    <3> DEFINE size == IF burst = 0 THEN 1 ELSE burst
    <3>1. rate \in Nat /\ size \in Nat
      BY <2>3, FirewallAssumption
    <3>2. /\ bucket' = FullBucket(rate, size) /\ fwNow' = fwNow /\ fwRules' = fwRules
          /\ fwStats' = fwStats
          /\ fwHistory' = [fwHistory EXCEPT !.spent = 0, !.setAt = fwNow]
      BY <1>3, <2>3 DEF FirewallSetRate
    <3> HIDE DEF size
    <3>3. /\ bucket' \in Buckets /\ bucket'.tokens = bucket'.capacity
          /\ bucket'.capacity < FwWord /\ bucket'.last = fwNow
      BY <1>0, <3>1, <3>2, FullBucketTypes
    <3>4. fwHistory' \in Histories /\ fwHistory'.spent = 0 /\ fwHistory'.setAt = fwNow
      BY <1>0, <3>2
    <3>5. FirewallTypes'
      BY <1>0, <3>2, <3>3, <3>4 DEF FirewallTypes
    <3>6. FwUnit * 0 + bucket'.tokens
            <= bucket'.capacity + bucket'.rate * (bucket'.last - bucket'.last)
      BY <3>3, FreshBucketBounded
    <3>7. RateBounded'
      BY <3>3, <3>4, <3>6 DEF RateBounded
    <3> QED
      BY <3>5, <3>7
  <2> QED
    BY <2>2, <2>3
<1>4. ASSUME NEW rules, fwRules' = rules, UNCHANGED <<fwNow, bucket, fwStats, fwHistory>>,
             rules \in [cmds : SUBSET FwCmds, srcs : SUBSET FwSrcs, max : FwLens \cup {0}]
      PROVE  FirewallInv'
  BY <1>4 DEF FirewallTypes, RateBounded
<1>5. ASSUME NEW c \in FwCmds, FirewallAllowCmd(c)
      PROVE  FirewallInv'
  BY <1>4, <1>5 DEF FirewallAllowCmd, WithRule, FirewallTypes
<1>6. ASSUME NEW s \in FwSrcs, FirewallAllowSrc(s)
      PROVE  FirewallInv'
  BY <1>4, <1>6 DEF FirewallAllowSrc, WithRule, FirewallTypes
<1>7. ASSUME NEW n \in FwLens, FirewallSetMaxPayload(n)
      PROVE  FirewallInv'
  BY <1>4, <1>7 DEF FirewallSetMaxPayload, FirewallTypes
<1>8. ASSUME NEW c \in FwCmds, NEW s \in FwSrcs, NEW n \in FwLens, FirewallCheck(c, s, n)
      PROVE  FirewallInv'
  <2> DEFINE v == RuleVerdict(c, s, n)
  <2>1. fwNow' = fwNow /\ fwRules' = fwRules
    BY <1>8 DEF FirewallCheck
  <2>2. CASE v # "ALLOW"
    <3>1. /\ fwStats' = Count(v) /\ bucket' = bucket
          /\ fwHistory' = [fwHistory EXCEPT !.checked = @ + 1]
      BY <1>8, <2>2 DEF FirewallCheck
    <3>3. fwStats' \in Stats
      BY <3>1, CountsAreNumbers
    <3>4. /\ fwHistory' \in Histories /\ fwHistory'.checked = fwHistory.checked + 1
          /\ fwHistory'.spent = fwHistory.spent /\ fwHistory'.setAt = fwHistory.setAt
      BY <1>0, <3>1
    <3>5. FirewallTypes'
      BY <1>0, <2>1, <3>1, <3>3, <3>4 DEF FirewallTypes
    <3>6. RateBounded'
      BY <3>1, <3>4 DEF RateBounded
    <3> QED
      BY <3>5, <3>6
  <2>3. CASE v = "ALLOW" /\ ~bucket.enabled
    <3>1. /\ fwStats' = Count("ALLOW") /\ bucket' = bucket
          /\ fwHistory' = [fwHistory EXCEPT !.checked = @ + 1]
      BY <1>8, <2>3 DEF FirewallCheck, RefilledBucket
    <3>2. fwStats' \in Stats
      BY <3>1, CountsAreNumbers
    <3>3. fwHistory' \in Histories /\ fwHistory'.checked = fwHistory.checked + 1
          /\ fwHistory'.setAt = fwHistory.setAt
      BY <1>0, <3>1
    <3>4. FirewallTypes'
      BY <1>0, <2>1, <3>1, <3>2, <3>3 DEF FirewallTypes
    <3> QED
      BY <2>3, <3>1, <3>4 DEF RateBounded
  <2>4. CASE v = "ALLOW" /\ bucket.enabled
    <3> DEFINE spent == FwUnit * fwHistory.spent
               earned == RefilledBucket.rate * (RefilledBucket.last - fwHistory.setAt)
    <3>0. /\ RefilledBucket \in Buckets /\ RefilledBucket.enabled
          /\ RefilledBucket.tokens <= RefilledBucket.capacity
          /\ RefilledBucket.capacity < FwWord
          /\ RefilledBucket.last = fwNow
          /\ spent + RefilledBucket.tokens <= RefilledBucket.capacity + earned
      BY <1>0, <2>4, RefilledBounded
    <3>1. spent \in Nat /\ FwUnit * (fwHistory.spent + 1) = spent + FwUnit
      BY <1>0, Product, Z3
    <3>2. earned \in Nat
      <4>1. RefilledBucket.last - fwHistory.setAt \in Nat /\ RefilledBucket.rate \in Nat
        BY <1>0, <3>0
      <4> QED
        BY <4>1, Product
    <3>3. CASE RefilledBucket.tokens < FwUnit
      <4>1. /\ bucket' = RefilledBucket /\ fwStats' = Count("BLOCK_RATE")
            /\ fwHistory' = [fwHistory EXCEPT !.checked = @ + 1]
        BY <1>0, <1>8, <2>4, <3>0, <3>3 DEF FirewallCheck
      <4>2. fwStats' \in Stats
        BY <4>1, CountsAreNumbers
      <4>3. /\ fwHistory' \in Histories /\ fwHistory'.checked = fwHistory.checked + 1
            /\ fwHistory'.spent = fwHistory.spent /\ fwHistory'.setAt = fwHistory.setAt
        BY <1>0, <4>1
      <4>4. FirewallTypes'
        BY <1>0, <2>1, <3>0, <4>1, <4>2, <4>3 DEF FirewallTypes
      <4>5. RateBounded'
        BY <3>0, <4>1, <4>3 DEF RateBounded
      <4> QED
        BY <4>4, <4>5
    <3>4. CASE RefilledBucket.tokens >= FwUnit
      <4>1. /\ bucket' = [RefilledBucket EXCEPT !.tokens = @ - FwUnit]
            /\ fwStats' = Count("ALLOW")
            /\ fwHistory' = [fwHistory EXCEPT !.checked = @ + 1, !.spent = @ + 1]
        BY <1>0, <1>8, <2>4, <3>0, <3>4 DEF FirewallCheck
      <4>2. fwStats' \in Stats
        BY <4>1, CountsAreNumbers
      <4>3. /\ fwHistory' \in Histories /\ fwHistory'.checked = fwHistory.checked + 1
            /\ fwHistory'.spent = fwHistory.spent + 1 /\ fwHistory'.setAt = fwHistory.setAt
        <5>1. /\ fwHistory.checked + 1 \in Nat /\ fwHistory.spent + 1 \in Nat
              /\ fwHistory.setAt \in Nat
          BY <1>0
        <5>2. fwHistory' = [checked |-> fwHistory.checked + 1, spent |-> fwHistory.spent + 1,
                            setAt |-> fwHistory.setAt]
          BY <1>0, <4>1
        <5> QED
          BY <5>1, <5>2
      <4>4. /\ bucket' \in Buckets /\ bucket'.tokens = RefilledBucket.tokens - FwUnit
            /\ bucket'.capacity = RefilledBucket.capacity /\ bucket'.last = fwNow
            /\ bucket'.rate = RefilledBucket.rate
        BY <1>0, <3>0, <3>4, <4>1
      <4>5. FirewallTypes'
        BY <1>0, <2>1, <3>0, <4>2, <4>3, <4>4 DEF FirewallTypes
      <4>6. /\ FwUnit * fwHistory'.spent = spent + FwUnit
            /\ bucket'.rate * (bucket'.last - fwHistory'.setAt) = earned
        BY <3>0, <3>1, <4>3, <4>4
      <4> HIDE DEF spent, earned
      <4>7. FwUnit * fwHistory'.spent + bucket'.tokens
              <= bucket'.capacity + bucket'.rate * (bucket'.last - fwHistory'.setAt)
        BY <1>0, <3>0, <3>1, <3>2, <4>4, <4>6
      <4>8. RateBounded'
        BY <4>7 DEF RateBounded
      <4> QED
        BY <4>5, <4>8
    <3> QED
      BY <1>0, <3>0, <3>3, <3>4
  <2> QED
    BY <2>2, <2>3, <2>4
<1>9. CASE FirewallTick
  BY <1>0, <1>9 DEF FirewallTick, FirewallTypes, RateBounded
<1>10. CASE UNCHANGED fwVars
  BY <1>10 DEF fwVars, FirewallTypes, RateBounded
<1> QED
  BY <1>1, <1>2, <1>3, <1>5, <1>6, <1>7, <1>8, <1>9, <1>10 DEF FirewallNext

(* The types of the firewall's state, the tokens within the capacity among *)
(* them, hold in every run.                                                *)
THEOREM FirewallTypeCorrect == FirewallSpec => []FirewallTypes
<1>1. FirewallInv => FirewallTypes
  BY DEF FirewallInv
<1> QED
  BY FirewallStartHolds, FirewallStepHolds, <1>1, PTL DEF FirewallSpec

(* The rate limit holds for every rate, burst and width of the tick.       *)
THEOREM RateLimit == FirewallSpec => []RateBounded
<1>1. FirewallInv => RateBounded
  BY DEF FirewallInv
<1> QED
  BY FirewallStartHolds, FirewallStepHolds, <1>1, PTL DEF FirewallSpec

-----------------------------------------------------------------------------
(* Watchdogs of models.                                                    *)

Entries == [model : WdModels, period : Nat, fed : Nat]

FirstOfItsModel(i) == \A j \in 1..(i - 1) : watchdogs[j].model # watchdogs[i].model

WatchdogTypes ==
  /\ fwNow \in Nat
  /\ watchdogs \in Seq(Entries)
  /\ \A i \in 1..Len(watchdogs) : watchdogs[i].fed <= fwNow
  /\ fedAt \in [WdModels -> [period : Nat, fed : Nat]]

(* The first entry of a model, the one that decides, says when the model   *)
(* was last fed and the period it was first watched with.                  *)
FirstEntryDecides ==
  \A i \in 1..Len(watchdogs) :
    FirstOfItsModel(i) =>
      /\ watchdogs[i].fed = fedAt[watchdogs[i].model].fed
      /\ watchdogs[i].period = fedAt[watchdogs[i].model].period

WatchdogInv == WatchdogTypes /\ FirstEntryDecides

LEMMA NoEntries ==
  ASSUME fwNow \in Nat, watchdogs = <<>>, fedAt = [m \in WdModels |-> Never]
  PROVE  WatchdogInv
<1>1. watchdogs \in Seq(Entries) /\ Len(watchdogs) = 0
  OBVIOUS
<1>2. fedAt \in [WdModels -> [period : Nat, fed : Nat]]
  BY DEF Never
<1> QED
  BY <1>1, <1>2 DEF WatchdogInv, WatchdogTypes, FirstEntryDecides

LEMMA StartKeepsFirst ==
  ASSUME WatchdogInv, NEW m \in WdModels, NEW period \in WdPeriods,
         InferenceWatchdogStart(m, period)
  PROVE  WatchdogInv'
<1> DEFINE new == [model |-> m, period |-> period, fed |-> fwNow]
           n   == Len(watchdogs)
<1>1. /\ period \in Nat /\ fwNow \in Nat /\ fwNow' = fwNow
      /\ watchdogs \in Seq(Entries)
      /\ watchdogs' = Append(watchdogs, new)
  BY KernelAssumption DEF WatchdogInv, WatchdogTypes, InferenceWatchdogStart, fwVars
<1>2. new \in Entries /\ new.fed <= fwNow
  BY <1>1 DEF Entries
<1>3. /\ watchdogs' \in Seq(Entries)
      /\ n \in Nat /\ Len(watchdogs') = n + 1
      /\ \A i \in 1..n : watchdogs'[i] = watchdogs[i]
      /\ watchdogs'[n + 1] = new
      /\ DOMAIN watchdogs = 1..n
  <2> HIDE DEF new
  <2> QED
    BY <1>1, <1>2
<1>4. \A i \in 1..(n + 1) : i \in 1..n \/ i = n + 1
  BY <1>3
<1>5. \A i \in 1..Len(watchdogs') : watchdogs'[i].fed <= fwNow'
  BY <1>1, <1>2, <1>3, <1>4 DEF WatchdogInv, WatchdogTypes
<1>6. fedAt' \in [WdModels -> [period : Nat, fed : Nat]]
  BY <1>1 DEF InferenceWatchdogStart, WatchdogInv, WatchdogTypes
<1>7. ASSUME NEW i \in 1..(n + 1), FirstOfItsModel(i)'
      PROVE  /\ watchdogs'[i].fed = fedAt'[watchdogs'[i].model].fed
             /\ watchdogs'[i].period = fedAt'[watchdogs'[i].model].period
  <2>1. CASE i \in 1..n
    <3> DEFINE k == watchdogs[i].model
    <3>1. k \in WdModels /\ IsWatched(k)
      <4>1. watchdogs[i] \in Entries
        BY <1>1, <1>3, <2>1
      <4>2. watchdogs[i].model \in WdModels
        BY <4>1 DEF Entries
      <4> QED
        BY <1>3, <2>1, <4>2 DEF IsWatched
    <3>2. FirstOfItsModel(i)
      <4>1. \A j \in 1..(i - 1) : j \in 1..n
        BY <1>3, <2>1
      <4> QED
        BY <1>3, <1>7, <2>1, <4>1 DEF FirstOfItsModel
    <3>3. watchdogs[i].fed = fedAt[k].fed /\ watchdogs[i].period = fedAt[k].period
      BY <2>1, <3>2 DEF WatchdogInv, FirstEntryDecides
    <3>4. fedAt'[k] = fedAt[k]
      <4>1. CASE IsWatched(m)
        BY <4>1 DEF InferenceWatchdogStart
      <4>2. CASE ~IsWatched(m)
        <5>1. k # m
          BY <3>1, <4>2
        <5> HIDE DEF k
        <5> QED
          BY <3>1, <4>2, <5>1 DEF InferenceWatchdogStart, WatchdogInv, WatchdogTypes
      <4> QED
        BY <4>1, <4>2
    <3> QED
      BY <1>3, <2>1, <3>3, <3>4
  <2>2. CASE i = n + 1
    <3>1. \A j \in 1..n : watchdogs[j].model # m
      <4>1. \A j \in 1..n : j \in 1..(i - 1)
        BY <1>3, <2>2
      <4> QED
        BY <1>3, <1>7, <2>2, <4>1 DEF FirstOfItsModel
    <3>2. ~IsWatched(m)
      BY <1>3, <3>1 DEF IsWatched
    <3>3. fedAt'[m] = [period |-> period, fed |-> fwNow]
      BY <3>2 DEF InferenceWatchdogStart, WatchdogInv, WatchdogTypes
    <3> QED
      BY <1>3, <2>2, <3>3
  <2> QED
    BY <1>4, <2>1, <2>2
<1> QED
  BY <1>1, <1>3, <1>5, <1>6, <1>7 DEF WatchdogInv, WatchdogTypes, FirstEntryDecides

LEMMA FeedKeepsFirst ==
  ASSUME WatchdogInv, NEW m \in WdModels, InferenceWatchdogFeed(m)
  PROVE  WatchdogInv'
<1> DEFINE n == Len(watchdogs)
<1>1. /\ fwNow \in Nat /\ fwNow' = fwNow /\ watchdogs \in Seq(Entries)
      /\ n \in Nat /\ DOMAIN watchdogs = 1..n
      /\ \A i \in 1..n : watchdogs[i] \in Entries
  BY DEF WatchdogInv, WatchdogTypes, InferenceWatchdogFeed, fwVars
<1>2. watchdogs' = [i \in 1..n |->
        IF watchdogs[i].model = m THEN [watchdogs[i] EXCEPT !.fed = fwNow] ELSE watchdogs[i]]
  BY <1>1 DEF InferenceWatchdogFeed
<1>3. ASSUME NEW i \in 1..n
      PROVE  /\ watchdogs'[i] \in Entries
             /\ watchdogs'[i].model = watchdogs[i].model
             /\ watchdogs'[i].period = watchdogs[i].period
             /\ watchdogs'[i].fed = IF watchdogs[i].model = m THEN fwNow ELSE watchdogs[i].fed
  <2>1. watchdogs[i] \in Entries
    BY <1>1
  <2> QED
    BY <1>1, <1>2, <2>1 DEF Entries
<1>4. watchdogs' \in Seq(Entries) /\ Len(watchdogs') = n
  <2>1. watchdogs' \in [1..n -> Entries]
    BY <1>2, <1>3
  <2> QED
    BY <1>1, <2>1
<1>5. /\ fedAt' \in [WdModels -> [period : Nat, fed : Nat]]
      /\ \A k \in WdModels : /\ fedAt'[k].period = fedAt[k].period
                             /\ fedAt'[k].fed = IF k = m THEN fwNow ELSE fedAt[k].fed
  BY <1>1 DEF InferenceWatchdogFeed, WatchdogInv, WatchdogTypes
<1>6. \A i \in 1..n : watchdogs'[i].fed <= fwNow'
  BY <1>1, <1>3, SMTT(20) DEF WatchdogInv, WatchdogTypes
<1>7. ASSUME NEW i \in 1..n, FirstOfItsModel(i)'
      PROVE  /\ watchdogs'[i].fed = fedAt'[watchdogs'[i].model].fed
             /\ watchdogs'[i].period = fedAt'[watchdogs'[i].model].period
  <2>1. \A j \in 1..(i - 1) : j \in 1..n
    BY <1>1
  <2>2. FirstOfItsModel(i)
    BY <1>3, <1>7, <2>1 DEF FirstOfItsModel
  <2>3. /\ watchdogs[i].fed = fedAt[watchdogs[i].model].fed
        /\ watchdogs[i].period = fedAt[watchdogs[i].model].period
    BY <2>2 DEF WatchdogInv, FirstEntryDecides
  <2>4. watchdogs[i].model \in WdModels
    BY <1>1 DEF Entries
  <2> QED
    BY <1>3, <1>5, <2>3, <2>4
<1> QED
  BY <1>1, <1>4, <1>5, <1>6, <1>7 DEF WatchdogInv, WatchdogTypes, FirstEntryDecides

LEMMA WatchdogStepHolds ==
  ASSUME WatchdogInv, [KernelNext]_<<fwVars, kernelVars>>
  PROVE  WatchdogInv'
<1>1. CASE SystemInit
  <2>1. fwNow' \in Nat /\ watchdogs' = <<>> /\ fedAt' = [m \in WdModels |-> Never]
    BY <1>1 DEF SystemInit, WatchdogInv, WatchdogTypes
  <2>2. (fwNow \in Nat /\ watchdogs = <<>> /\ fedAt = [m \in WdModels |-> Never]
           => WatchdogInv)'
    BY NoEntries, PTL
  <2> QED
    BY <2>1, <2>2 DEF Never
<1>2. ASSUME UNCHANGED <<fwNow, watchdogs, fedAt>>
      PROVE  WatchdogInv'
  BY <1>2 DEF WatchdogInv, WatchdogTypes, FirstEntryDecides, FirstOfItsModel
<1>3. CASE DevicesNext /\ ~SystemInit
  BY <1>2, <1>3 DEF DevicesNext, NPUUnregisterAll, RegisterNPUDevice, fwVars
<1>4. CASE FirewallTick /\ UNCHANGED kernelVars
  <2>1. fwNow' = fwNow + 1 /\ watchdogs' = watchdogs /\ fedAt' = fedAt
    BY <1>4 DEF FirewallTick, kernelVars
  <2>2. \A i \in 1..Len(watchdogs) : watchdogs[i].fed \in Nat /\ watchdogs[i].fed <= fwNow
    <3>1. watchdogs \in Seq(Entries)
      BY DEF WatchdogInv, WatchdogTypes
    <3>2. \A i \in 1..Len(watchdogs) : watchdogs[i] \in Entries
      BY <3>1
    <3> QED
      BY <3>2 DEF WatchdogInv, WatchdogTypes, Entries
  <2>3. fwNow \in Nat /\ fwNow' \in Nat
        /\ \A i \in 1..Len(watchdogs) : watchdogs[i].fed <= fwNow'
    BY <2>1, <2>2 DEF WatchdogInv, WatchdogTypes
  <2> QED
    BY <2>1, <2>3 DEF WatchdogInv, WatchdogTypes, FirstEntryDecides, FirstOfItsModel
<1>5. CASE FirewallNext /\ ~FirewallTick /\ UNCHANGED kernelVars
  <2>1. fwNow' = fwNow
    BY <1>5 DEF FirewallNext, FirewallInit, FirewallDeinit, FirewallSetRate, FirewallAllowCmd,
                FirewallAllowSrc, FirewallSetMaxPayload, FirewallCheck
  <2> QED
    BY <1>2, <1>5, <2>1 DEF kernelVars
<1>6. CASE UNCHANGED <<fwVars, kernelVars>>
  BY <1>2, <1>6 DEF fwVars, kernelVars
<1> QED
  BY <1>1, <1>3, <1>4, <1>5, <1>6, StartKeepsFirst, FeedKeepsFirst
  DEF KernelNext, DevicesNext, WatchdogsNext

-----------------------------------------------------------------------------
(* The accelerators, and all of it together.                               *)

DeviceList(list) ==
  /\ list \in Seq(Accelerators \cup {HostSim})
  /\ Len(list) <= NpuSlots /\ IsInjective(list)

KernelInv ==
  FirewallInv /\ WatchdogInv /\ Len(watchdogs) <= WdSlots /\ DeviceList(devices)

LEMMA NoDevices == DeviceList(<<>>)
BY KernelAssumption DEF DeviceList, IsInjective

LEMMA DeviceJoins ==
  ASSUME NEW list, DeviceList(list), NEW d \in Accelerators \cup {HostSim}
  PROVE  DeviceList(WithDevice(list, d))
<1> DEFINE D == Accelerators \cup {HostSim}
           longer == Append(list, d)
<1>1. list \in Seq(D) /\ IsInjective(list) /\ Len(list) <= NpuSlots /\ NpuSlots \in Nat
  BY KernelAssumption DEF DeviceList
<1>2. CASE Len(list) >= NpuSlots \/ d \in ToSet(list)
  BY <1>2 DEF WithDevice
<1>3. CASE ~(Len(list) >= NpuSlots \/ d \in ToSet(list))
  <2>1. WithDevice(list, d) = longer
    BY <1>3 DEF WithDevice
  <2>2. /\ longer \in Seq(D) /\ Len(longer) = Len(list) + 1 /\ Len(longer) <= NpuSlots
        /\ DOMAIN longer = 1..(Len(list) + 1) /\ DOMAIN list = 1..Len(list)
        /\ \A i \in 1..Len(list) : longer[i] = list[i]
        /\ longer[Len(list) + 1] = d /\ Len(list) \in Nat
    <3> HIDE DEF D
    <3> QED
      BY <1>1, <1>3 DEF D
  <2>3. \A i \in 1..Len(list) : list[i] # d
    BY <1>3, <2>2 DEF ToSet
  <2>4. \A i \in 1..(Len(list) + 1) : i \in 1..Len(list) \/ i = Len(list) + 1
    BY <2>2
  <2> HIDE DEF longer, D
  <2>5. IsInjective(longer)
    BY <1>1, <2>2, <2>3, <2>4 DEF IsInjective
  <2> QED
    BY <2>1, <2>2, <2>5 DEF DeviceList, D
<1> QED
  BY <1>2, <1>3

(* The start sets the firewall up and allows its commands.                 *)
LEMMA BootHolds ==
  ASSUME KernelInv, SystemInit
  PROVE  KernelInv'
<1>1. WatchdogInv'
  BY WatchdogStepHolds DEF KernelInv, KernelNext, DevicesNext
<1>2. Len(watchdogs') <= WdSlots
  BY KernelAssumption DEF SystemInit
<1>3. DeviceList(devices')
  BY NoDevices, DeviceJoins DEF SystemInit
<1>4. fwNow' = fwNow /\ fwNow \in Nat /\ bucket' = FullBucket(FwDefaultRate, FwDefaultBurst)
  BY DEF SystemInit, KernelInv, FirewallInv, FirewallTypes
<1>5. /\ bucket' \in [enabled : BOOLEAN, rate : Nat, capacity : Nat, tokens : Nat, last : Nat]
      /\ bucket'.tokens = bucket'.capacity
      /\ bucket'.capacity < FwWord /\ bucket'.last = fwNow
  BY <1>4, FullBucketTypes, FirewallAssumption
<1>6. FirewallTypes'
  <2>1. fwRules' \in [cmds : SUBSET FwCmds, srcs : SUBSET FwSrcs, max : FwLens \cup {0}]
    BY KernelAssumption DEF SystemInit
  <2>2. fwStats' \in [allowed : Nat, blocked : Nat, dropped : Nat]
    BY DEF SystemInit, NoStats
  <2>3. /\ fwHistory' \in [checked : Nat, spent : Nat, setAt : Nat]
        /\ fwHistory'.setAt = fwNow
    BY <1>4 DEF SystemInit
  <2>4. bucket'.capacity \in Nat
    BY <1>5
  <2> QED
    BY <1>4, <1>5, <2>1, <2>2, <2>3, <2>4 DEF FirewallTypes
<1>7. FwUnit * 0 + bucket'.tokens <= bucket'.capacity + bucket'.rate * (bucket'.last - bucket'.last)
  BY <1>5, FreshBucketBounded
<1>8. RateBounded'
  BY <1>5, <1>7 DEF SystemInit, RateBounded
<1> QED
  BY <1>1, <1>2, <1>3, <1>6, <1>8 DEF KernelInv, FirewallInv

LEMMA KernelStepHolds == KernelInv /\ [KernelNext]_<<fwVars, kernelVars>> => KernelInv'
<1> SUFFICES ASSUME KernelInv, [KernelNext]_<<fwVars, kernelVars>> PROVE KernelInv'
  OBVIOUS
<1>1. WatchdogInv'
  BY WatchdogStepHolds DEF KernelInv
<1>2. CASE SystemInit
  BY <1>2, BootHolds
<1>3. ASSUME [FirewallNext]_fwVars, UNCHANGED <<devices, watchdogs>>
      PROVE  KernelInv'
  BY <1>1, <1>3, FirewallStepHolds DEF KernelInv
<1>4. ASSUME UNCHANGED <<fwVars, watchdogs>>, DeviceList(devices')
      PROVE  KernelInv'
  BY <1>1, <1>4, FirewallStepHolds DEF KernelInv
<1>5. ASSUME UNCHANGED <<fwVars, devices>>, Len(watchdogs') <= WdSlots
      PROVE  KernelInv'
  BY <1>1, <1>5, FirewallStepHolds DEF KernelInv
<1>6. CASE NPUUnregisterAll
  BY <1>4, <1>6, NoDevices DEF NPUUnregisterAll
<1>7. ASSUME NEW d \in Accelerators \cup {HostSim}, RegisterNPUDevice(d) PROVE KernelInv'
  BY <1>4, <1>7, DeviceJoins DEF RegisterNPUDevice, KernelInv
<1>8. ASSUME NEW m \in WdModels, InferenceWatchdogFeed(m) PROVE KernelInv'
  <2>1. UNCHANGED <<fwVars, devices>>
    BY <1>8 DEF InferenceWatchdogFeed
  <2>2. Len(watchdogs') = Len(watchdogs)
    <3>1. DOMAIN watchdogs' = DOMAIN watchdogs
      BY <1>8 DEF InferenceWatchdogFeed
    <3>2. watchdogs \in Seq(Entries) /\ watchdogs' \in Seq(Entries)
      BY <1>1 DEF KernelInv, WatchdogInv, WatchdogTypes
    <3> QED
      BY <3>1, <3>2
  <2> QED
    BY <1>5, <2>1, <2>2 DEF KernelInv
<1>9. ASSUME NEW m \in WdModels, NEW period \in WdPeriods, InferenceWatchdogStart(m, period)
      PROVE  KernelInv'
  <2>1. UNCHANGED <<fwVars, devices>> /\ Len(watchdogs) < WdSlots
    BY <1>9 DEF InferenceWatchdogStart
  <2>2. Len(watchdogs') = Len(watchdogs) + 1 /\ Len(watchdogs) \in Nat
    BY <1>9 DEF InferenceWatchdogStart, KernelInv, WatchdogInv, WatchdogTypes
  <2> QED
    BY <1>5, <2>1, <2>2, KernelAssumption
<1>10. CASE FirewallNext /\ UNCHANGED kernelVars
  BY <1>3, <1>10 DEF kernelVars
<1>11. CASE FirewallTick /\ UNCHANGED kernelVars
  BY <1>3, <1>11 DEF kernelVars, FirewallNext
<1>12. CASE UNCHANGED <<fwVars, kernelVars>>
  BY <1>3, <1>12 DEF kernelVars
<1> QED
  BY <1>2, <1>6, <1>7, <1>8, <1>9, <1>10, <1>11, <1>12
  DEF KernelNext, DevicesNext, WatchdogsNext

LEMMA KernelStartHolds == FirewallStart /\ KernelStart => KernelInv
<1> SUFFICES ASSUME FirewallStart, KernelStart PROVE KernelInv
  OBVIOUS
<1>1. WatchdogInv
  BY NoEntries DEF FirewallStart, KernelStart
<1>2. Len(watchdogs) <= WdSlots /\ DeviceList(devices)
  BY NoDevices, KernelAssumption DEF KernelStart
<1> QED
  BY <1>1, <1>2, FirewallStartHolds DEF KernelInv

LEMMA KernelAlways == KernelSpec => []KernelInv
BY KernelStartHolds, KernelStepHolds, PTL DEF KernelSpec

LEMMA KernelTyped == KernelInv => FirewallTypes /\ KernelTypes
<1> SUFFICES ASSUME KernelInv PROVE KernelTypes
  BY DEF KernelInv, FirewallInv
<1>1. ToSet(devices) \subseteq Accelerators \cup {HostSim}
  BY DEF KernelInv, DeviceList, ToSet
<1>2. DOMAIN watchdogs = 1..Len(watchdogs)
  BY DEF KernelInv, WatchdogInv, WatchdogTypes
<1> QED
  BY <1>1, <1>2 DEF KernelInv, DeviceList, WatchdogInv, WatchdogTypes, KernelTypes

(* However often the system is started and whatever is registered, started *)
(* and fed meanwhile, lists stay within their slots, no accelerator is     *)
(* listed twice, and clocks and tokens are in order (zhio_system_init,     *)
(* npu_dsp.c, firewall.c).                                                 *)
THEOREM KernelIsTyped == KernelSpec => [](FirewallTypes /\ KernelTypes)
BY KernelAlways, KernelTyped, PTL

(* A start of the system, which rewrites the firewall from outside, leaves *)
(* the limit on the rate as it is, at whatever time it comes               *)
(* (zhio_system_init, iFirewallCheck).                                     *)
THEOREM RateLimitAcrossStarts == KernelSpec => []RateBounded
<1>1. KernelInv => RateBounded
  BY DEF KernelInv, FirewallInv
<1> QED
  BY <1>1, KernelAlways, PTL

(* For any number of entries and models and any width of the tick, a       *)
(* watchdog that has expired is one of a model that was not fed for more   *)
(* than its period, however often it was started again.                    *)
THEOREM ExpiryIsJust == KernelSpec => []ExpiredWasUnfed
<1>1. WatchdogInv => ExpiredWasUnfed
  <2> SUFFICES ASSUME WatchdogInv, NEW m \in WdModels, WatchdogExpired(m)
               PROVE  fwNow - fedAt[m].fed > fedAt[m].period
    BY DEF ExpiredWasUnfed
  <2>1. PICK i \in DOMAIN watchdogs :
          /\ watchdogs[i].model = m
          /\ \A j \in 1..(i - 1) : watchdogs[j].model # m
          /\ (fwNow - watchdogs[i].fed) % FwWord > watchdogs[i].period
    BY DEF WatchdogExpired
  <2>2. i \in 1..Len(watchdogs) /\ watchdogs[i] \in Entries
    BY <2>1 DEF WatchdogInv, WatchdogTypes
  <2>3. watchdogs[i].fed = fedAt[m].fed /\ watchdogs[i].period = fedAt[m].period
    BY <2>1, <2>2 DEF WatchdogInv, FirstEntryDecides, FirstOfItsModel
  <2>4. /\ fwNow \in Nat /\ watchdogs[i].fed \in Nat /\ watchdogs[i].period \in Nat
        /\ watchdogs[i].fed <= fwNow /\ FwWord \in Nat \ {0}
    BY <2>2, FirewallAssumption DEF WatchdogInv, WatchdogTypes, Entries
  <2> DEFINE d == fwNow - watchdogs[i].fed
  <2>5. d \in Nat /\ d % FwWord > watchdogs[i].period
    BY <2>1, <2>4
  <2>6. d % FwWord <= d /\ d % FwWord \in Int
    <3> HIDE DEF d
    <3> QED
      BY <2>4, <2>5, Cut
  <2>7. d > watchdogs[i].period
    <3> HIDE DEF d
    <3> QED
      BY <2>4, <2>5, <2>6
  <2> QED
    BY <2>3, <2>7
<1>2. KernelInv => WatchdogInv
  BY DEF KernelInv
<1> QED
  BY <1>1, <1>2, KernelAlways, PTL

-----------------------------------------------------------------------------
(* The receive ring of a UART.                                             *)

Wrapped(n) == n % UartSize

Places == 0..(UartSize - 1)

RingTypes ==
  /\ ring \in [buf : [Places -> UartBytes \cup {NoByte}], head : Places, tail : Places]
  /\ input \in [pc : {"rest", "check", "write", "publish"}, left : Seq(UartBytes), lost : BOOLEAN]
  /\ input.pc # "rest" => input.left # <<>>
  /\ reader \in [pc : {"rest", "check", "read", "advance"}, want : Nat,
                 byte : UartBytes \cup {NoByte}, last : UartBytes \cup {NoByte}]
  /\ reader.pc # "rest" => reader.want > 0

(* The writer has seen a place that the reader does not hold, and has      *)
(* filled it before it shows it.                                           *)
WriterOK ==
  /\ input.pc \in {"write", "publish"} => Wrapped(ring.head + 1) # ring.tail
  /\ input.pc = "publish" => ring.buf[ring.head] = Head(input.left)

(* The reader has seen a byte, and holds the one at the tail.              *)
ReaderOK ==
  /\ reader.pc \in {"read", "advance"} => ring.head # ring.tail
  /\ reader.pc = "advance" => reader.byte = ring.buf[ring.tail]

UartInv == RingTypes /\ WriterOK /\ ReaderOK

-----------------------------------------------------------------------------
(* Arithmetic of the ring.                                                 *)
LEMMA SizeIsPositive == UartSize \in Nat /\ UartSize > 0
BY UartAssumption

LEMMA WrappedOnce ==
  ASSUME NEW n \in Nat, n < 2 * UartSize
  PROVE  Wrapped(n) = IF n < UartSize THEN n ELSE n - UartSize
BY SizeIsPositive, Z3 DEF Wrapped

LEMMA UsedIs ==
  ASSUME ring.head \in Places, ring.tail \in Places
  PROVE  /\ UartUsed = IF ring.head >= ring.tail THEN ring.head - ring.tail
                       ELSE ring.head - ring.tail + UartSize
         /\ UartUsed \in Nat /\ UartUsed < UartSize
<1> DEFINE h == ring.head
           t == ring.tail
<1>1. h \in Nat /\ t \in Nat /\ h < UartSize /\ t < UartSize
  BY SizeIsPositive DEF Places
<1>2. (h - t) % UartSize = IF h >= t THEN h - t ELSE h - t + UartSize
  <2> HIDE DEF h, t
  <2> QED
    BY <1>1, SizeIsPositive, Z3
<1>3. UartUsed = (h - t) % UartSize
  BY DEF UartUsed
<1> HIDE DEF h, t
<1>4. /\ UartUsed = IF h >= t THEN h - t ELSE h - t + UartSize
      /\ UartUsed \in Nat /\ UartUsed < UartSize
  BY <1>1, <1>2, <1>3, SizeIsPositive
<1> QED
  BY <1>4 DEF h, t

(* The next place, from either end.                                        *)
LEMMA NextPlace ==
  ASSUME NEW n \in Places
  PROVE  /\ Next1(n) = Wrapped(n + 1) /\ Next1(n) \in Places
         /\ Next1(n) = IF n + 1 < UartSize THEN n + 1 ELSE 0
<1>1. n \in Nat /\ n + 1 \in Nat /\ n < UartSize /\ n + 1 < 2 * UartSize
  BY SizeIsPositive DEF Places
<1>2. Next1(n) = Wrapped(n + 1)
  BY DEF Next1, Wrapped
<1>3. Wrapped(n + 1) = IF n + 1 < UartSize THEN n + 1 ELSE n + 1 - UartSize
  BY <1>1, SizeIsPositive, WrappedOnce
<1> QED
  BY <1>1, <1>2, <1>3, SizeIsPositive DEF Places

(* The place of the i-th byte in the ring.                                 *)
LEMMA PlaceIs ==
  ASSUME NEW t \in Places, NEW i \in 1..UartSize
  PROVE  /\ Wrapped(t + i - 1) \in Places
         /\ Wrapped(t + i - 1) = IF t + i - 1 < UartSize THEN t + i - 1
                                 ELSE t + i - 1 - UartSize
<1> DEFINE k == t + i - 1
<1>1. k \in Nat /\ k < 2 * UartSize
  BY SizeIsPositive DEF Places
<1>2. Wrapped(k) = IF k < UartSize THEN k ELSE k - UartSize
  <2> HIDE DEF k
  <2> QED
    BY <1>1, SizeIsPositive, WrappedOnce
<1>3. Wrapped(k) \in Places
  <2> HIDE DEF k
  <2> QED
    BY <1>1, <1>2, SizeIsPositive DEF Places
<1>4. t \in Int /\ i \in Int /\ UartSize \in Int
  BY SizeIsPositive DEF Places
<1> QED
  BY <1>2, <1>3, <1>4

-----------------------------------------------------------------------------
(* The invariant.                                                          *)
LEMMA UartStartHolds == UartStart => UartInv
<1> SUFFICES ASSUME UartStart PROVE UartInv
  OBVIOUS
<1>1. EmptyRing \in [buf : [Places -> UartBytes \cup {NoByte}], head : Places, tail : Places]
  BY SizeIsPositive DEF EmptyRing, Places
<1> QED
  BY <1>1 DEF UartStart, UartInv, RingTypes, WriterOK, ReaderOK

(* A byte that was dealt with leaves the others to come.                   *)
LEMMA NextByteTypes ==
  ASSUME RingTypes, input.pc # "rest", NEW d \in BOOLEAN, NextByte(d)
  PROVE  /\ input' \in [pc : {"rest", "check", "write", "publish"}, left : Seq(UartBytes),
                        lost : BOOLEAN]
         /\ input'.pc # "rest" => input'.left # <<>>
         /\ input'.pc \in {"rest", "check"}
<1>1. input.left \in Seq(UartBytes) /\ input.left # <<>> /\ input.lost \in BOOLEAN
  BY DEF RingTypes
<1>2. Tail(input.left) \in Seq(UartBytes)
  BY <1>1
<1>3. Len(input.left) > 1 => Tail(input.left) # <<>>
  <2> SUFFICES ASSUME NEW s \in Seq(UartBytes), Len(s) > 1
               PROVE  Tail(s) # <<>>
    BY <1>1
  <2>1. Tail(s) \in Seq(UartBytes) /\ Len(Tail(s)) = Len(s) - 1 /\ Len(s) \in Nat
    OBVIOUS
  <2>2. Len(Tail(s)) > 0
    BY <2>1
  <2>3. ASSUME NEW q, q = <<>>
        PROVE  ~(Len(q) > 0)
    BY <2>3
  <2> QED
    BY <2>2, <2>3
<1> QED
  BY <1>1, <1>2, <1>3 DEF NextByte

LEMMA UartStepHolds == UartInv /\ [UartNext]_uartVars => UartInv'
<1> SUFFICES ASSUME UartInv, [UartNext]_uartVars PROVE UartInv'
  OBVIOUS
<1> USE DEF UartInv
<1>1. CASE UartInit
  <2>1. EmptyRing \in [buf : [Places -> UartBytes \cup {NoByte}], head : Places, tail : Places]
    BY SizeIsPositive DEF EmptyRing, Places
  <2> QED
    BY <1>1, <2>1 DEF UartInit, RingTypes, WriterOK, ReaderOK
<1>2. ASSUME NEW n \in 1..UartMaxLen, Receive(n)
      PROVE  UartInv'
  <2>1. n \in Nat /\ n > 0
    BY UartAssumption
  <2> QED
    BY <1>2, <2>1 DEF Receive, RingTypes, WriterOK, ReaderOK
<1>3. ASSUME NEW n \in 1..UartMaxLen, NEW bytes \in [1..n -> UartBytes], Inject(bytes)
      PROVE  UartInv'
  <2>1. n \in Nat /\ n > 0
    BY UartAssumption
  <2>2. bytes \in Seq(UartBytes) /\ Len(bytes) = n
    BY <2>1
  <2>3. bytes # <<>>
    BY <2>1, <2>2
  <2> QED
    BY <1>3, <2>2, <2>3 DEF Inject, RingTypes, WriterOK, ReaderOK
<1>4. CASE PushCheck
  <2>1. CASE Next1(ring.head) = ring.tail
    <3>1. NextByte(TRUE) /\ UNCHANGED <<ring, reader>> /\ input.pc # "rest"
      BY <1>4, <2>1 DEF PushCheck
    <3> QED
      BY <3>1, NextByteTypes DEF RingTypes, WriterOK, ReaderOK
  <2>2. CASE Next1(ring.head) # ring.tail
    <3>1. Wrapped(ring.head + 1) # ring.tail
      BY <2>2 DEF Next1, Wrapped
    <3> QED
      BY <1>4, <2>2, <3>1 DEF PushCheck, RingTypes, WriterOK, ReaderOK
  <2> QED
    BY <2>1, <2>2
<1>5. CASE PushWrite
  <2>1. Head(input.left) \in UartBytes
    BY <1>5 DEF PushWrite, RingTypes
  <2>2. reader.pc = "advance" => reader.byte = ring'.buf[ring.tail]
    BY <1>5 DEF PushWrite, RingTypes, ReaderOK
  <2> QED
    BY <1>5, <2>1, <2>2 DEF PushWrite, RingTypes, WriterOK, ReaderOK
<1>6. CASE PushPublish
  <2>1. NextByte(FALSE) /\ UNCHANGED reader /\ input.pc # "rest"
        /\ ring' = [ring EXCEPT !.head = Next1(@)]
    BY <1>6 DEF PushPublish
  <2>2. Next1(ring.head) \in Places /\ Next1(ring.head) # ring.tail
    BY <1>6, NextPlace DEF PushPublish, RingTypes, WriterOK
  <2>3. /\ ring' \in [buf : [Places -> UartBytes \cup {NoByte}], head : Places, tail : Places]
        /\ ring'.buf = ring.buf /\ ring'.tail = ring.tail /\ ring'.head # ring'.tail
    BY <2>1, <2>2 DEF RingTypes
  <2> QED
    BY <2>1, <2>3, NextByteTypes DEF RingTypes, WriterOK, ReaderOK
<1>7. CASE PopCheck
  BY <1>7 DEF PopCheck, RingTypes, WriterOK, ReaderOK
<1>8. CASE PopRead
  BY <1>8 DEF PopRead, RingTypes, WriterOK, ReaderOK
<1>9. CASE PopAdvance
  <2>1. /\ ring' = [ring EXCEPT !.tail = Next1(@)] /\ UNCHANGED input
        /\ reader.pc = "advance" /\ ring.head # ring.tail
    BY <1>9 DEF PopAdvance, ReaderOK
  <2>2. /\ Next1(ring.tail) \in Places
        /\ Next1(ring.tail) = IF ring.tail + 1 < UartSize THEN ring.tail + 1 ELSE 0
        /\ Next1(ring.head) = Wrapped(ring.head + 1)
        /\ Next1(ring.head) = IF ring.head + 1 < UartSize THEN ring.head + 1 ELSE 0
    BY NextPlace DEF RingTypes
  <2>3. /\ ring' \in [buf : [Places -> UartBytes \cup {NoByte}], head : Places, tail : Places]
        /\ ring'.buf = ring.buf /\ ring'.head = ring.head /\ ring'.tail = Next1(ring.tail)
    BY <2>1, <2>2 DEF RingTypes
  <2>4. ring.head \in Nat /\ ring.tail \in Nat /\ ring.head < UartSize /\ ring.tail < UartSize
    BY SizeIsPositive DEF RingTypes, Places
  <2>5. Next1(ring.head) # Next1(ring.tail)
    BY <2>1, <2>2, <2>4, SizeIsPositive
  <2>6. WriterOK'
    BY <2>1, <2>2, <2>3, <2>5 DEF WriterOK
  <2>7. /\ reader' \in [pc : {"rest", "check", "read", "advance"}, want : Nat,
                        byte : UartBytes \cup {NoByte}, last : UartBytes \cup {NoByte}]
        /\ reader'.pc # "rest" => reader'.want > 0
        /\ reader'.pc \in {"rest", "check"}
    <3>1. /\ reader.want \in Nat /\ reader.want > 0
          /\ reader.byte \in UartBytes \cup {NoByte}
      BY <2>1 DEF RingTypes
    <3>2. /\ reader.want - 1 \in Nat
          /\ reader.want > 1 => reader.want - 1 > 0
      BY <3>1
    <3>3. reader' = [pc   |-> IF reader.want > 1 THEN "check" ELSE "rest",
                     want |-> reader.want - 1, byte |-> NoByte, last |-> reader.byte]
      BY <1>9 DEF PopAdvance, RingTypes
    <3> QED
      BY <3>1, <3>2, <3>3
  <2> QED
    BY <2>1, <2>3, <2>6, <2>7 DEF RingTypes, ReaderOK
<1>10. CASE ReceiveTimeout
  BY <1>10 DEF ReceiveTimeout, RingTypes, WriterOK, ReaderOK
<1>11. CASE UNCHANGED uartVars
  BY <1>11 DEF uartVars, RingTypes, WriterOK, ReaderOK
<1> QED
  BY <1>1, <1>2, <1>3, <1>4, <1>5, <1>6, <1>7, <1>8, <1>9, <1>10, <1>11 DEF UartNext

LEMMA UartAlways == UartSpec => []UartInv
BY UartStartHolds, UartStepHolds, PTL DEF UartSpec

-----------------------------------------------------------------------------
(* What the ring shows to the outside.                                     *)
LEMMA ContentsType ==
  ASSUME UartInv
  PROVE  /\ UartContents \in Seq(UartBytes \cup {NoByte})
         /\ Len(UartContents) = UartUsed
         /\ \A i \in 1..UartUsed : UartContents[i] = ring.buf[Wrapped(ring.tail + i - 1)]
<1>1. /\ ring.head \in Places /\ ring.tail \in Places
      /\ ring.buf \in [Places -> UartBytes \cup {NoByte}]
  BY DEF UartInv, RingTypes
<1>2. UartUsed \in Nat /\ UartUsed < UartSize
  BY <1>1, UsedIs
<1>3. ASSUME NEW i \in 1..UartUsed
      PROVE  ring.buf[Wrapped(ring.tail + i - 1)] \in UartBytes \cup {NoByte}
  <2>1. i \in 1..UartSize
    BY <1>2, SizeIsPositive
  <2>2. Wrapped(ring.tail + i - 1) \in Places
    BY <1>1, <2>1, PlaceIs
  <2> QED
    BY <1>1, <2>2
<1>4. UartContents = [i \in 1..UartUsed |-> ring.buf[Wrapped(ring.tail + i - 1)]]
  BY DEF UartContents, Wrapped
<1> QED
  BY <1>2, <1>3, <1>4

(* No byte that waits is where the writer writes.                          *)
LEMMA HeadIsFree ==
  ASSUME UartInv, NEW i \in 1..UartUsed
  PROVE  Wrapped(ring.tail + i - 1) \in Places /\ Wrapped(ring.tail + i - 1) # ring.head
<1> DEFINE h == ring.head
           t == ring.tail
<1>1. h \in Places /\ t \in Places
  BY DEF UartInv, RingTypes
<1>2. /\ UartUsed = IF h >= t THEN h - t ELSE h - t + UartSize
      /\ UartUsed \in Nat /\ UartUsed < UartSize
  BY <1>1, UsedIs
<1>3. i \in Nat /\ i >= 1 /\ i <= UartUsed /\ i \in 1..UartSize
  BY <1>2, SizeIsPositive
<1>4. /\ Wrapped(t + i - 1) \in Places
      /\ Wrapped(t + i - 1) = IF t + i - 1 < UartSize THEN t + i - 1
                              ELSE t + i - 1 - UartSize
  BY <1>1, <1>3, PlaceIs
<1> HIDE DEF h, t
<1>5. Wrapped(t + i - 1) # h
  BY <1>1, <1>2, <1>3, <1>4, SizeIsPositive DEF Places
<1> QED
  BY <1>4, <1>5 DEF h, t

LEMMA PublishPuts ==
  ASSUME UartInv, UartInv', PushPublish
  PROVE  \E v \in UartBytes : Ring!Put(v)
<1> DEFINE h == ring.head
           t == ring.tail
           v == Head(input.left)
<1>1. /\ ring'.buf = ring.buf /\ ring'.tail = t /\ ring'.head = Next1(h)
      /\ reader' = reader /\ input.pc = "publish"
  BY DEF PushPublish, UartInv, RingTypes
<1>2. v \in UartBytes /\ ring.buf[h] = v /\ Next1(h) # t /\ h \in Places /\ t \in Places
  BY <1>1, NextPlace DEF UartInv, RingTypes, WriterOK
<1>3. /\ UartUsed = IF h >= t THEN h - t ELSE h - t + UartSize
      /\ UartUsed \in Nat /\ UartUsed < UartSize
  BY <1>2, UsedIs
<1>4. UartUsed' = IF Next1(h) >= t THEN Next1(h) - t ELSE Next1(h) - t + UartSize
  <2>1. (ring.head \in Places /\ ring.tail \in Places =>
           UartUsed = IF ring.head >= ring.tail THEN ring.head - ring.tail
                      ELSE ring.head - ring.tail + UartSize)'
    BY UsedIs, PTL
  <2> QED
    BY <1>1, <1>2, <2>1, NextPlace DEF Places
<1>5. Next1(h) = IF h + 1 < UartSize THEN h + 1 ELSE 0
  BY <1>2, NextPlace
<1>6. UartUsed' = UartUsed + 1 /\ UartUsed < UartSize - 1
  <2> HIDE DEF h, t
  <2> QED
    BY <1>2, <1>3, <1>4, <1>5, SizeIsPositive DEF Places
<1>7. /\ UartContents' \in Seq(UartBytes \cup {NoByte})
      /\ Len(UartContents') = UartUsed'
      /\ \A i \in 1..UartUsed' : UartContents'[i] = ring'.buf[Wrapped(ring'.tail + i - 1)]
  <2>1. (UartInv => /\ UartContents \in Seq(UartBytes \cup {NoByte})
                    /\ Len(UartContents) = UartUsed
                    /\ \A i \in 1..UartUsed :
                         UartContents[i] = ring.buf[Wrapped(ring.tail + i - 1)])'
    BY ContentsType, PTL
  <2> QED
    BY <2>1 DEF Wrapped
<1>8. ASSUME NEW i \in 1..UartUsed
      PROVE  UartContents'[i] = UartContents[i]
  <2>1. i \in 1..UartUsed'
    BY <1>3, <1>6
  <2> QED
    BY <1>1, <1>7, <2>1, ContentsType
<1>9. UartContents'[UartUsed + 1] = v
  <2>1. t + (UartUsed + 1) - 1 = t + UartUsed /\ UartUsed + 1 \in 1..UartUsed'
    BY <1>2, <1>3, <1>6 DEF Places
  <2>2. Wrapped(t + UartUsed) = h
    <3>1. UartUsed + 1 \in 1..UartSize
      BY <1>3, SizeIsPositive
    <3>2. Wrapped(t + (UartUsed + 1) - 1) =
            IF t + (UartUsed + 1) - 1 < UartSize THEN t + (UartUsed + 1) - 1
            ELSE t + (UartUsed + 1) - 1 - UartSize
      BY <1>2, <3>1, PlaceIs
    <3>3. Wrapped(t + UartUsed) = IF t + UartUsed < UartSize THEN t + UartUsed
                                  ELSE t + UartUsed - UartSize
      <4> HIDE DEF h, t
      <4> QED
        BY <1>2, <1>3, <2>1, <3>2, SizeIsPositive DEF Places
    <3> HIDE DEF h, t
    <3> QED
      BY <1>2, <1>3, <3>3, SizeIsPositive DEF Places
  <2> QED
    BY <1>1, <1>2, <1>7, <2>1, <2>2
<1>10. UartContents' = Append(UartContents, v)
  BY <1>3, <1>6, <1>7, <1>8, <1>9, ContentsType
<1>11. Len(UartContents) < UartSize - 1
  BY <1>6, ContentsType
<1> QED
  BY <1>1, <1>2, <1>10, <1>11 DEF Ring!Put

LEMMA AdvanceGets ==
  ASSUME UartInv, UartInv', PopAdvance
  PROVE  Ring!Get
<1> DEFINE h == ring.head
           t == ring.tail
<1>1. /\ ring'.buf = ring.buf /\ ring'.tail = Next1(t) /\ ring'.head = h
      /\ reader'.last = ring.buf[t] /\ h # t
  BY DEF PopAdvance, UartInv, RingTypes, ReaderOK
<1>2. h \in Places /\ t \in Places
  BY DEF UartInv, RingTypes
<1>3. /\ UartUsed = IF h >= t THEN h - t ELSE h - t + UartSize
      /\ UartUsed \in Nat /\ UartUsed < UartSize
  BY <1>2, UsedIs
<1>4. UartUsed' = IF h >= Next1(t) THEN h - Next1(t) ELSE h - Next1(t) + UartSize
  <2>1. (ring.head \in Places /\ ring.tail \in Places =>
           UartUsed = IF ring.head >= ring.tail THEN ring.head - ring.tail
                      ELSE ring.head - ring.tail + UartSize)'
    BY UsedIs, PTL
  <2> QED
    BY <1>1, <1>2, <2>1, NextPlace DEF Places
<1>5. Next1(t) \in Places /\ Next1(t) = IF t + 1 < UartSize THEN t + 1 ELSE 0
  BY <1>2, NextPlace
<1>6. UartUsed' = UartUsed - 1 /\ UartUsed # 0
  <2>1. h # t
    BY <1>1
  <2> HIDE DEF h, t
  <2> QED
    BY <1>2, <1>3, <1>4, <1>5, <2>1, SizeIsPositive DEF Places
<1>7. /\ UartContents' \in Seq(UartBytes \cup {NoByte})
      /\ Len(UartContents') = UartUsed'
      /\ \A i \in 1..UartUsed' : UartContents'[i] = ring'.buf[Wrapped(ring'.tail + i - 1)]
  <2>1. (UartInv => /\ UartContents \in Seq(UartBytes \cup {NoByte})
                    /\ Len(UartContents) = UartUsed
                    /\ \A i \in 1..UartUsed :
                         UartContents[i] = ring.buf[Wrapped(ring.tail + i - 1)])'
    BY ContentsType, PTL
  <2> QED
    BY <2>1 DEF Wrapped
<1>8. ASSUME NEW i \in 1..(UartUsed - 1)
      PROVE  UartContents'[i] = UartContents[i + 1]
  <2>1. /\ i \in 1..UartUsed' /\ i + 1 \in 1..UartUsed
        /\ i \in 1..UartSize /\ i + 1 \in 1..UartSize
    BY <1>3, <1>6, SizeIsPositive
  <2>2. Wrapped(Next1(t) + i - 1) =
          IF Next1(t) + i - 1 < UartSize THEN Next1(t) + i - 1
          ELSE Next1(t) + i - 1 - UartSize
    BY <1>5, <2>1, PlaceIs
  <2>3. Wrapped(t + (i + 1) - 1) =
          IF t + (i + 1) - 1 < UartSize THEN t + (i + 1) - 1
          ELSE t + (i + 1) - 1 - UartSize
    BY <1>2, <2>1, PlaceIs
  <2>4. Wrapped(Next1(t) + i - 1) = Wrapped(t + (i + 1) - 1)
    <3>1. i \in Nat /\ i < UartSize
      BY <1>3, SizeIsPositive
    <3> HIDE DEF h, t
    <3> QED
      BY <1>2, <1>5, <2>2, <2>3, <3>1, SizeIsPositive DEF Places
  <2> QED
    BY <1>1, <1>7, <2>1, <2>4, ContentsType
<1>9. UartContents' = Tail(UartContents)
  BY <1>3, <1>6, <1>7, <1>8, ContentsType, SMTT(30)
<1>10. UartContents # <<>> /\ Head(UartContents) = ring.buf[t]
  <2>1. t + 1 - 1 = t /\ 1 \in 1..UartUsed /\ t \in Nat /\ t < UartSize /\ t < 2 * UartSize
    BY <1>2, <1>3, <1>6, SizeIsPositive DEF Places
  <2>2. Wrapped(t) = t
    BY <2>1, WrappedOnce
  <2>3. UartContents[1] = ring.buf[t]
    BY <2>1, <2>2, ContentsType
  <2> QED
    BY <1>3, <1>6, <2>3, ContentsType
<1> QED
  BY <1>1, <1>9, <1>10 DEF Ring!Get

(* The byte is written before it is shown: nobody sees the store.          *)
LEMMA WriteStutters ==
  ASSUME UartInv, PushWrite
  PROVE  UNCHANGED Ring!vars
<1>1. /\ ring' = [ring EXCEPT !.buf[ring.head] = Head(input.left)]
      /\ ring'.head = ring.head /\ ring'.tail = ring.tail /\ reader' = reader
  BY DEF PushWrite, UartInv, RingTypes
<1>2. UartUsed' = UartUsed
  BY <1>1 DEF UartUsed
<1>3. ASSUME NEW i \in 1..UartUsed
      PROVE  ring'.buf[Wrapped(ring.tail + i - 1)] = ring.buf[Wrapped(ring.tail + i - 1)]
  BY <1>1, HeadIsFree DEF UartInv, RingTypes
<1>4. UartContents' = UartContents
  <2>1. UartContents' = [i \in 1..UartUsed |-> ring'.buf[Wrapped(ring.tail + i - 1)]]
    BY <1>1, <1>2 DEF UartContents, Wrapped
  <2>2. UartContents = [i \in 1..UartUsed |-> ring.buf[Wrapped(ring.tail + i - 1)]]
    BY DEF UartContents, Wrapped
  <2> QED
    BY <1>3, <2>1, <2>2
<1> QED
  BY <1>1, <1>4 DEF Ring!vars

LEMMA RingStutters ==
  ASSUME UNCHANGED ring, reader'.last = reader.last
  PROVE  UNCHANGED Ring!vars
BY DEF UartContents, UartUsed, Ring!vars

(* Bytes come out of the ring in the order in which they went in, once     *)
(* each and whole, for any size of the ring and any calls, whatever is     *)
(* dropped, times out or is initialised again.                             *)
THEOREM RingIsQueue == UartSpec => RingIsFifo
<1>1. UartStart => Ring!Init
  <2> SUFFICES ASSUME UartStart PROVE UartContents = <<>> /\ reader.last = NoByte
    BY DEF Ring!Init
  <2>1. UartInv /\ ring.head = 0 /\ ring.tail = 0
    BY UartStartHolds DEF UartStart, EmptyRing
  <2>2. UartUsed = 0
    BY <2>1, UsedIs DEF UartInv, RingTypes
  <2> QED
    BY <2>1, <2>2, ContentsType DEF UartStart
<1>2. UartInv /\ UartInv' /\ [UartNext]_uartVars => [Ring!Next]_(Ring!vars)
  <2> SUFFICES ASSUME UartInv, UartInv', [UartNext]_uartVars
               PROVE  [Ring!Next]_(Ring!vars)
    OBVIOUS
  <2>1. CASE UartInit
    <3>1. ring'.head = 0 /\ ring'.tail = 0 /\ reader' = reader
      BY <2>1 DEF UartInit, EmptyRing
    <3>2. (ring.head \in Places /\ ring.tail \in Places =>
             UartUsed = IF ring.head >= ring.tail THEN ring.head - ring.tail
                        ELSE ring.head - ring.tail + UartSize)'
      BY UsedIs, PTL
    <3>3. UartUsed' = 0
      BY <3>1, <3>2, SizeIsPositive DEF Places
    <3>4. (UartInv => UartContents \in Seq(UartBytes \cup {NoByte})
                      /\ Len(UartContents) = UartUsed)'
      BY ContentsType, PTL
    <3>5. UartContents' = <<>>
      BY <3>3, <3>4
    <3> QED
      BY <3>1, <3>5 DEF Ring!Next, Ring!Clear
  <2>2. CASE PushPublish
    BY <2>2, PublishPuts DEF Ring!Next
  <2>3. CASE PopAdvance
    BY <2>3, AdvanceGets DEF Ring!Next
  <2>4. CASE PushWrite
    BY <2>4, WriteStutters
  <2>5. ASSUME NEW n \in 1..UartMaxLen,
               Receive(n) \/ \E bytes \in [1..n -> UartBytes] : Inject(bytes)
        PROVE  UNCHANGED Ring!vars
    <3>1. UNCHANGED ring /\ reader'.last = reader.last
      BY <2>5 DEF Receive, Inject, UartInv, RingTypes
    <3> QED
      BY <3>1, RingStutters
  <2>6. CASE PushCheck \/ PopCheck \/ PopRead \/ ReceiveTimeout
    <3>1. UNCHANGED ring /\ reader'.last = reader.last
      BY <2>6 DEF PushCheck, PopCheck, PopRead, ReceiveTimeout, UartInv, RingTypes
    <3> QED
      BY <3>1, RingStutters
  <2>7. CASE UNCHANGED uartVars
    <3>1. UNCHANGED ring /\ reader'.last = reader.last
      BY <2>7 DEF uartVars
    <3> QED
      BY <3>1, RingStutters
  <2> QED
    BY <2>1, <2>2, <2>3, <2>4, <2>5, <2>6, <2>7 DEF UartNext
<1> QED
  BY <1>1, <1>2, UartAlways, PTL DEF UartSpec, RingIsFifo, Ring!Spec

LEMMA UartTyped == UartInv => UartTypes
BY DEF UartInv, RingTypes, UartTypes, Places

(* The two ends of the ring stay within it, and a side that is busy has    *)
(* something to do, for every size of the ring (hal_host.c).               *)
THEOREM UartIsTyped == UartSpec => []UartTypes
BY UartAlways, UartTyped, PTL

-----------------------------------------------------------------------------
(* Frames on a line.                                                       *)

Octets == SUBSET (0..7)

Digit(n, i) == (n \div 2^i) % 2

LEMMA DigitsAre ==
  ASSUME NEW n, NEW i, NEW width, i \in 0..(width - 1)
  PROVE  i \in Bits(n, width) <=> Digit(n, i) = 1
BY Zenon DEF Bits, Digit

(* A number of 8 bits is the sum of its bits, so its bits determine it.    *)
SumOfBits(n) ==
  (n % 2) + 2 * ((n \div 2) % 2) + 4 * ((n \div 4) % 2) + 8 * ((n \div 8) % 2)
    + 16 * ((n \div 16) % 2) + 32 * ((n \div 32) % 2) + 64 * ((n \div 64) % 2)
    + 128 * ((n \div 128) % 2)

LEMMA IsSumOfBits ==
  ASSUME NEW n \in 0..255
  PROVE  n = SumOfBits(n)
BY Z3 DEF SumOfBits

LEMMA SameBits ==
  ASSUME NEW n \in 0..255, NEW m \in 0..255, Bits(n, 8) = Bits(m, 8)
  PROVE  n = m
<1>1. ASSUME NEW i \in 0..7
      PROVE  (n \div 2^i) % 2 = 1 <=> (m \div 2^i) % 2 = 1
  <2>1. i \in Bits(n, 8) <=> i \in Bits(m, 8)
    OBVIOUS
  <2> QED
    BY <2>1 DEF Bits
<1>2. ASSUME NEW x \in Int, NEW y \in Int, x % 2 = 1 <=> y % 2 = 1
      PROVE  x % 2 = y % 2
  BY <1>2, Z3
<1>3. /\ n % 2 = m % 2 /\ (n \div 2) % 2 = (m \div 2) % 2
      /\ (n \div 4) % 2 = (m \div 4) % 2 /\ (n \div 8) % 2 = (m \div 8) % 2
      /\ (n \div 16) % 2 = (m \div 16) % 2 /\ (n \div 32) % 2 = (m \div 32) % 2
      /\ (n \div 64) % 2 = (m \div 64) % 2 /\ (n \div 128) % 2 = (m \div 128) % 2
  <2>0. (n \div 2^0) % 2 = 1 <=> (m \div 2^0) % 2 = 1
    BY <1>1
  <2>1. (n \div 2^1) % 2 = 1 <=> (m \div 2^1) % 2 = 1
    BY <1>1
  <2>2. (n \div 2^2) % 2 = 1 <=> (m \div 2^2) % 2 = 1
    BY <1>1
  <2>3. (n \div 2^3) % 2 = 1 <=> (m \div 2^3) % 2 = 1
    BY <1>1
  <2>4. (n \div 2^4) % 2 = 1 <=> (m \div 2^4) % 2 = 1
    BY <1>1
  <2>5. (n \div 2^5) % 2 = 1 <=> (m \div 2^5) % 2 = 1
    BY <1>1
  <2>6. (n \div 2^6) % 2 = 1 <=> (m \div 2^6) % 2 = 1
    BY <1>1
  <2>7. (n \div 2^7) % 2 = 1 <=> (m \div 2^7) % 2 = 1
    BY <1>1
  <2> QED
    BY <1>2, <2>0, <2>1, <2>2, <2>3, <2>4, <2>5, <2>6, <2>7
<1>4. SumOfBits(n) = SumOfBits(m)
  BY <1>3 DEF SumOfBits
<1> QED
  BY <1>4, IsSumOfBits

ByteValues == 0..255
WordValues == {n \in Nat : n <= 65535}

LEMMA ValueOfBits ==
  ASSUME NEW n \in ByteValues
  PROVE  Value(Bits(n, 8)) = n
<1>1. \A m \in 0..255 : Bits(m, 8) = Bits(n, 8) => m = n
  BY SameBits, Zenon DEF ByteValues
<1>2. n \in 0..255
  BY DEF ByteValues
<1> QED
  BY <1>1, <1>2, Zenon DEF Value

Joined(q, r) == 256 * q + r

(* The bits of a number of 16 bits are those of its two bytes.             *)
LEMMA LowBits ==
  ASSUME NEW q \in Nat, NEW r \in 0..255, NEW i \in 0..7
  PROVE  Digit(Joined(q, r), i) = Digit(r, i)
<1>0. CASE i = 0
  <2>1. 2^i = 1
    BY <1>0
  <2>2. (256 * q + r) \div 1 = 256 * q + r \div 1 /\ r \div 1 \in Nat
    BY Z3
  <2>3. ASSUME NEW k \in Nat PROVE (256 * q + k) % 2 = k % 2
    BY Z3
  <2> QED
    BY <2>1, <2>2, <2>3 DEF Digit, Joined
<1>1. CASE i = 1
  <2>1. 2^i = 2
    BY <1>1
  <2>2. (256 * q + r) \div 2 = 128 * q + r \div 2 /\ r \div 2 \in Nat
    BY Z3
  <2>3. ASSUME NEW k \in Nat PROVE (128 * q + k) % 2 = k % 2
    BY Z3
  <2> QED
    BY <2>1, <2>2, <2>3 DEF Digit, Joined
<1>2. CASE i = 2
  <2>1. 2^i = 4
    BY <1>2
  <2>2. (256 * q + r) \div 4 = 64 * q + r \div 4 /\ r \div 4 \in Nat
    BY Z3
  <2>3. ASSUME NEW k \in Nat PROVE (64 * q + k) % 2 = k % 2
    BY Z3
  <2> QED
    BY <2>1, <2>2, <2>3 DEF Digit, Joined
<1>3. CASE i = 3
  <2>1. 2^i = 8
    BY <1>3
  <2>2. (256 * q + r) \div 8 = 32 * q + r \div 8 /\ r \div 8 \in Nat
    BY Z3
  <2>3. ASSUME NEW k \in Nat PROVE (32 * q + k) % 2 = k % 2
    BY Z3
  <2> QED
    BY <2>1, <2>2, <2>3 DEF Digit, Joined
<1>4. CASE i = 4
  <2>1. 2^i = 16
    BY <1>4
  <2>2. (256 * q + r) \div 16 = 16 * q + r \div 16 /\ r \div 16 \in Nat
    BY Z3
  <2>3. ASSUME NEW k \in Nat PROVE (16 * q + k) % 2 = k % 2
    BY Z3
  <2> QED
    BY <2>1, <2>2, <2>3 DEF Digit, Joined
<1>5. CASE i = 5
  <2>1. 2^i = 32
    BY <1>5
  <2>2. (256 * q + r) \div 32 = 8 * q + r \div 32 /\ r \div 32 \in Nat
    BY Z3
  <2>3. ASSUME NEW k \in Nat PROVE (8 * q + k) % 2 = k % 2
    BY Z3
  <2> QED
    BY <2>1, <2>2, <2>3 DEF Digit, Joined
<1>6. CASE i = 6
  <2>1. 2^i = 64
    BY <1>6
  <2>2. (256 * q + r) \div 64 = 4 * q + r \div 64 /\ r \div 64 \in Nat
    BY Z3
  <2>3. ASSUME NEW k \in Nat PROVE (4 * q + k) % 2 = k % 2
    BY Z3
  <2> QED
    BY <2>1, <2>2, <2>3 DEF Digit, Joined
<1>7. CASE i = 7
  <2>1. 2^i = 128
    BY <1>7
  <2>2. (256 * q + r) \div 128 = 2 * q + r \div 128 /\ r \div 128 \in Nat
    BY Z3
  <2>3. ASSUME NEW k \in Nat PROVE (2 * q + k) % 2 = k % 2
    BY Z3
  <2> QED
    BY <2>1, <2>2, <2>3 DEF Digit, Joined
<1> QED
  BY <1>0, <1>1, <1>2, <1>3, <1>4, <1>5, <1>6, <1>7

LEMMA HighBits ==
  ASSUME NEW q \in Nat, NEW r \in 0..255, NEW i \in 0..7
  PROVE  Digit(Joined(q, r), i + 8) = Digit(q, i)
<1>0. CASE i = 0
  <2>1. 2^i = 1
    BY <1>0
  <2>2. 2^(i + 8) = 256
    BY <1>0
  <2>3. (256 * q + r) \div 256 = q \div 1
    BY Z3
  <2> QED
    BY <2>1, <2>2, <2>3 DEF Digit, Joined
<1>1. CASE i = 1
  <2>1. 2^i = 2
    BY <1>1
  <2>2. 2^(i + 8) = 512
    BY <1>1
  <2>3. (256 * q + r) \div 512 = q \div 2
    BY Z3
  <2> QED
    BY <2>1, <2>2, <2>3 DEF Digit, Joined
<1>2. CASE i = 2
  <2>1. 2^i = 4
    BY <1>2
  <2>2. 2^(i + 8) = 1024
    BY <1>2
  <2>3. (256 * q + r) \div 1024 = q \div 4
    BY Z3
  <2> QED
    BY <2>1, <2>2, <2>3 DEF Digit, Joined
<1>3. CASE i = 3
  <2>1. 2^i = 8
    BY <1>3
  <2>2. 2^(i + 8) = 2048
    BY <1>3
  <2>3. (256 * q + r) \div 2048 = q \div 8
    BY Z3
  <2> QED
    BY <2>1, <2>2, <2>3 DEF Digit, Joined
<1>4. CASE i = 4
  <2>1. 2^i = 16
    BY <1>4
  <2>2. 2^(i + 8) = 4096
    BY <1>4
  <2>3. (256 * q + r) \div 4096 = q \div 16
    BY Z3
  <2> QED
    BY <2>1, <2>2, <2>3 DEF Digit, Joined
<1>5. CASE i = 5
  <2>1. 2^i = 32
    BY <1>5
  <2>2. 2^(i + 8) = 8192
    BY <1>5
  <2>3. (256 * q + r) \div 8192 = q \div 32
    BY Z3
  <2> QED
    BY <2>1, <2>2, <2>3 DEF Digit, Joined
<1>6. CASE i = 6
  <2>1. 2^i = 64
    BY <1>6
  <2>2. 2^(i + 8) = 16384
    BY <1>6
  <2>3. (256 * q + r) \div 16384 = q \div 64
    BY Z3
  <2> QED
    BY <2>1, <2>2, <2>3 DEF Digit, Joined
<1>7. CASE i = 7
  <2>1. 2^i = 128
    BY <1>7
  <2>2. 2^(i + 8) = 32768
    BY <1>7
  <2>3. (256 * q + r) \div 32768 = q \div 128
    BY Z3
  <2> QED
    BY <2>1, <2>2, <2>3 DEF Digit, Joined
<1> QED
  BY <1>0, <1>1, <1>2, <1>3, <1>4, <1>5, <1>6, <1>7

(* So the length is read as it was written.                                *)
LEMMA BytesOfSum ==
  ASSUME NEW q \in ByteValues, NEW r \in ByteValues
  PROVE  /\ Bytes(Bits(Joined(q, r), 16), 2)[1] = Bits(r, 8)
         /\ Bytes(Bits(Joined(q, r), 16), 2)[2] = Bits(q, 8)
<1>1. q \in Nat /\ r \in 0..255
  BY DEF ByteValues
<1>3. Bytes(Bits(Joined(q, r), 16), 2)[1] = {i \in 0..7 : i \in Bits(Joined(q, r), 16)}
  BY DEF Bytes
<1>4. Bytes(Bits(Joined(q, r), 16), 2)[2] = {i \in 0..7 : i + 8 \in Bits(Joined(q, r), 16)}
  BY DEF Bytes
<1>5. ASSUME NEW i \in 0..7
      PROVE  i \in Bits(Joined(q, r), 16) <=> i \in Bits(r, 8)
  <2>1. i \in 0..(8 - 1) /\ i \in 0..(16 - 1)
    OBVIOUS
  <2>2. i \in Bits(r, 8) <=> Digit(r, i) = 1
    BY <2>1, DigitsAre
  <2>3. i \in Bits(Joined(q, r), 16) <=> Digit(Joined(q, r), i) = 1
    BY <2>1, DigitsAre
  <2>4. Digit(Joined(q, r), i) = Digit(r, i)
    BY <1>1, LowBits
  <2> QED
    BY <2>2, <2>3, <2>4
<1>6. ASSUME NEW i \in 0..7
      PROVE  i + 8 \in Bits(Joined(q, r), 16) <=> i \in Bits(q, 8)
  <2>1. i \in 0..(8 - 1) /\ i + 8 \in 0..(16 - 1)
    OBVIOUS
  <2>2. i \in Bits(q, 8) <=> Digit(q, i) = 1
    BY <2>1, DigitsAre
  <2>3. i + 8 \in Bits(Joined(q, r), 16) <=> Digit(Joined(q, r), i + 8) = 1
    BY <2>1, DigitsAre, Zenon
  <2>4. Digit(Joined(q, r), i + 8) = Digit(q, i)
    BY <1>1, HighBits, Zenon
  <2> QED
    BY <2>2, <2>3, <2>4, Zenon
<1>7. Bits(r, 8) \subseteq 0..7 /\ Bits(q, 8) \subseteq 0..7
  BY DEF Bits
<1>8. /\ Bytes(Bits(Joined(q, r), 16), 2)[1] = Bits(r, 8)
      /\ Bytes(Bits(Joined(q, r), 16), 2)[2] = Bits(q, 8)
  <2>1. Bytes(Bits(Joined(q, r), 16), 2)[1] = Bits(r, 8)
    BY <1>3, <1>5, <1>7, Zenon
  <2>2. Bytes(Bits(Joined(q, r), 16), 2)[2] = Bits(q, 8)
    BY <1>4, <1>6, <1>7, Zenon
  <2> QED
    BY <2>1, <2>2
<1> QED
  BY <1>8

LEMMA Halves ==
  ASSUME NEW n \in Int, 0 <= n, n <= 65535
  PROVE  n % 256 \in 0..255 /\ n \div 256 \in 0..255 /\ n = (n % 256) + 256 * (n \div 256)
OBVIOUS

LEMMA IsJoined ==
  ASSUME NEW n \in WordValues
  PROVE  \E q, r \in ByteValues : Joined(q, r) = n
<1>0. n \in Int /\ 0 <= n /\ n <= 65535
  BY DEF WordValues
<1>1. n % 256 \in 0..255 /\ n \div 256 \in 0..255 /\ n = (n % 256) + 256 * (n \div 256)
  BY <1>0, Halves
<1> DEFINE high == n \div 256
           low  == n % 256
<1>2. Joined(high, low) = n
  BY <1>0, <1>1, SMTT(30) DEF Joined
<1>3. high \in ByteValues /\ low \in ByteValues
  BY <1>1 DEF ByteValues
<1> HIDE DEF high, low
<1> QED
  BY <1>2, <1>3

LEMMA TwoBytes ==
  ASSUME NEW n, NEW q \in ByteValues, NEW r \in ByteValues, Joined(q, r) = n
  PROVE  Bytes(Bits(n, 16), 2)[1] = Bits(r, 8) /\ Bytes(Bits(n, 16), 2)[2] = Bits(q, 8)
<1> DEFINE x == Joined(q, r)
<1>1. /\ x = n
      /\ Bytes(Bits(x, 16), 2)[1] = Bits(r, 8) /\ Bytes(Bits(x, 16), 2)[2] = Bits(q, 8)
  BY BytesOfSum
<1> HIDE DEF x
<1> QED
  BY <1>1

LEMMA LengthIsRead ==
  ASSUME NEW n \in WordValues
  PROVE  Value(Bytes(Bits(n, 16), 2)[1]) + 256 * Value(Bytes(Bits(n, 16), 2)[2]) = n
<1>1. PICK q, r \in ByteValues : Joined(q, r) = n
  BY IsJoined
<1>2. Bytes(Bits(n, 16), 2)[1] = Bits(r, 8) /\ Bytes(Bits(n, 16), 2)[2] = Bits(q, 8)
  BY <1>1, TwoBytes
<1>3. Value(Bits(r, 8)) = r /\ Value(Bits(q, 8)) = q
  BY ValueOfBits
<1>4. r + 256 * q = 256 * q + r
  <2>1. q \in Int /\ r \in Int
    BY DEF ByteValues
  <2> QED
    BY <2>1, SMTT(30)
<1> QED
  BY <1>1, <1>2, <1>3, <1>4 DEF Joined

(* Parts of sequences.                                                     *)
LEMMA SameItems ==
  ASSUME NEW n, NEW f, NEW g,
         f = [i \in 1..n |-> f[i]], g = [i \in 1..n |-> g[i]], \A i \in 1..n : f[i] = g[i]
  PROVE  f = g
OBVIOUS

LEMMA PartIs ==
  ASSUME NEW S, NEW s \in Seq(S), NEW q \in Seq(S), NEW k \in Nat,
         k + Len(q) <= Len(s), \A i \in 1..Len(q) : s[i + k] = q[i]
  PROVE  SubSeq(s, k + 1, k + Len(q)) = q
<1> DEFINE n == Len(q)
           w == SubSeq(s, k + 1, k + n)
<1>1. q = [i \in 1..n |-> q[i]] /\ n \in Nat
  OBVIOUS
<1>2. w = [i \in 1..n |-> s[i + k]]
  <2>1. w = [i \in 1..((k + n) - (k + 1) + 1) |-> s[(k + 1) + i - 1]]
    OBVIOUS
  <2>2. (k + n) - (k + 1) + 1 = n
    OBVIOUS
  <2>3. \A i \in 1..n : (k + 1) + i - 1 = i + k
    OBVIOUS
  <2> HIDE DEF w
  <2> QED
    BY <2>1, <2>2, <2>3
<1>3. \A i \in 1..n : s[i + k] = q[i]
  OBVIOUS
<1>w. w = SubSeq(s, k + 1, k + Len(q))
  OBVIOUS
<1> HIDE DEF w, n
<1>4. w = [i \in 1..n |-> w[i]] /\ \A i \in 1..n : w[i] = q[i]
  BY <1>2, <1>3
<1> QED
  BY <1>1, <1>4, <1>w, SameItems

(* Two sequences one behind the other.                                     *)
LEMMA JoinIs ==
  ASSUME NEW S, NEW s \in Seq(S), NEW t \in Seq(S)
  PROVE  /\ s \o t \in Seq(S) /\ Len(s \o t) = Len(s) + Len(t)
         /\ \A i \in 1..Len(s) : (s \o t)[i] = s[i]
         /\ \A i \in 1..Len(t) : (s \o t)[i + Len(s)] = t[i]
OBVIOUS

LEMMA JoinOne ==
  ASSUME NEW S, NEW s \in Seq(S), NEW x \in S
  PROVE  /\ s \o <<x>> \in Seq(S) /\ Len(s \o <<x>>) = Len(s) + 1
         /\ (s \o <<x>>)[Len(s) + 1] = x
         /\ \A i \in 1..Len(s) : (s \o <<x>>)[i] = s[i]
OBVIOUS

(* The places of a frame: a byte, what is checked, four bytes, a byte, and *)
(* whatever comes behind it.                                               *)
FrameOf(x, c, four, y) == <<x>> \o c \o four \o <<y>>

Placed(S, x, c, four, y, more, wire, buf) ==
  /\ wire \in Seq(S) /\ Len(wire) = Len(c) + Len(four) + 2
  /\ buf \in Seq(S) /\ Len(buf) = Len(wire) + Len(more)
  /\ buf[1] = x /\ buf[Len(wire)] = y
  /\ \A i \in 1..Len(c) : buf[i + 1] = c[i]
  /\ \A i \in 1..Len(four) : buf[i + (Len(c) + 1)] = four[i]

LEMMA FramePlaces ==
  ASSUME NEW S, NEW x \in S, NEW c \in Seq(S), NEW four \in Seq(S), NEW y \in S,
         NEW more \in Seq(S)
  PROVE  Placed(S, x, c, four, y, more, FrameOf(x, c, four, y), FrameOf(x, c, four, y) \o more)
<1> DEFINE b    == <<x>> \o c
           d    == b \o four
           wire == d \o <<y>>
           buf  == wire \o more
<1>1. b \in Seq(S) /\ Len(b) = Len(c) + 1 /\ b[1] = x /\ \A i \in 1..Len(c) : b[i + 1] = c[i]
  OBVIOUS
<1>w. wire = FrameOf(x, c, four, y)
  BY DEF FrameOf
<1> HIDE DEF b
<1>2. b \in Seq(S)
  BY <1>1
<1>3. d \in Seq(S) /\ Len(d) = Len(b) + Len(four) /\ (\A i \in 1..Len(b) : d[i] = b[i])
      /\ (\A i \in 1..Len(four) : d[i + Len(b)] = four[i])
  BY <1>2, JoinIs
<1> HIDE DEF d
<1>4. d \in Seq(S)
  BY <1>3
<1>5. wire \in Seq(S) /\ Len(wire) = Len(d) + 1 /\ wire[Len(d) + 1] = y
      /\ \A i \in 1..Len(d) : wire[i] = d[i]
  BY <1>4, JoinOne
<1>b. buf = wire \o more
  OBVIOUS
<1> HIDE DEF wire
<1>6. wire \in Seq(S)
  BY <1>5
<1>7. buf \in Seq(S) /\ Len(buf) = Len(wire) + Len(more) /\ \A i \in 1..Len(wire) : buf[i] = wire[i]
  BY <1>6, JoinIs
<1> HIDE DEF buf
<1>8. /\ Len(c) \in Nat /\ Len(b) \in Nat /\ Len(d) \in Nat /\ Len(wire) \in Nat /\ Len(four) \in Nat
  BY <1>2, <1>4, <1>6
<1>9. Len(wire) = Len(c) + Len(four) + 2
  BY <1>1, <1>3, <1>5, <1>8
<1>10. ASSUME NEW i \in 1..Len(b) PROVE buf[i] = b[i]
  <2>1. i \in 1..Len(d) /\ i \in 1..Len(wire)
    BY <1>3, <1>5, <1>8
  <2> QED
    BY <2>1, <1>3, <1>5, <1>7, Zenon
<1>11. buf[1] = x
  <2>1. 1 \in 1..Len(b)
    BY <1>1, <1>8
  <2> QED
    BY <2>1, <1>1, <1>10, Zenon
<1>12. buf[Len(wire)] = y
  <2>1. Len(wire) \in 1..Len(wire)
    BY <1>5, <1>8
  <2> QED
    BY <2>1, <1>5, <1>7, Zenon
<1>13. ASSUME NEW i \in 1..Len(c) PROVE buf[i + 1] = c[i]
  <2>1. i + 1 \in 1..Len(b)
    BY <1>1, <1>8
  <2> QED
    BY <2>1, <1>1, <1>10, Zenon
<1>14. ASSUME NEW i \in 1..Len(four) PROVE buf[i + (Len(c) + 1)] = four[i]
  <2>1. i + Len(b) \in 1..Len(d) /\ i + Len(b) \in 1..Len(wire)
    BY <1>3, <1>5, <1>8
  <2>2. buf[i + Len(b)] = four[i]
    BY <2>1, <1>3, <1>5, <1>7, Zenon
  <2> QED
    BY <2>2, <1>1, Zenon
<1> QED
  BY <1>w, <1>b, <1>5, <1>7, <1>9, <1>11, <1>12, <1>13, <1>14, Zenon DEF Placed

LEMMA BytesAre ==
  ASSUME NEW word, NEW k \in Nat
  PROVE  Bytes(word, k) \in Seq(Octets) /\ Len(Bytes(word, k)) = k
BY DEF Bytes, Octets

LEMMA SignsAre == SOF \in Octets /\ EOF \in Octets
BY DEF SOF, EOF, Bits, Octets

(* A frame is decoded to what it was encoded from.                         *)
LengthOf(buf) == Value(buf[2]) + 256 * Value(buf[3])

IsFrame(buf, n) ==
  /\ Value(buf[2]) + 256 * Value(buf[3]) = n
  /\ Len(buf) \in Nat /\ Len(buf) >= n + 9
  /\ buf[1] = SOF /\ buf[n + 9] = EOF
  /\ Bytes(Crc32(SubSeq(buf, 2, 4 + n)), 4) = SubSeq(buf, 5 + n, 8 + n)

Contents(buf, n) == [rc |-> "OK", type |-> buf[4], payload |-> SubSeq(buf, 5, 4 + n)]

LEMMA DecodeParts ==
  ASSUME NEW buf, NEW n \in Nat, n <= FrameMaxPayload, IsFrame(buf, n)
  PROVE  Decode(buf) = Contents(buf, n)
<1>1. FrameMaxPayload \in Nat
  BY FramesAssumption
<1>2. Value(buf[2]) + 256 * Value(buf[3]) = n
  BY Zenon DEF IsFrame
<1>3. ~(Len(buf) < 8 \/ buf[1] # SOF)
  BY DEF IsFrame
<1>4. ~(n > FrameMaxPayload \/ Len(buf) < n + 9 \/ buf[n + 9] # EOF)
  BY <1>1 DEF IsFrame
<1>5. Bytes(Crc32(SubSeq(buf, 2, 4 + n)), 4) = SubSeq(buf, 5 + n, 8 + n)
  BY Zenon DEF IsFrame
<1> QED
  BY <1>2, <1>3, <1>4, <1>5, ZenonT(40) DEF Decode, Contents

LEMMA DecodeShort ==
  ASSUME NEW buf, NEW n \in Nat, Value(buf[2]) + 256 * Value(buf[3]) = n,
         NEW l \in Nat, Len(buf) = l, l < n + 9
  PROVE  Decode(buf) = NoFrame
<1>1. Len(buf) < n + 9
  OBVIOUS
<1> QED
  BY <1>1 DEF Decode

CheckedOf(two, t, p) == two \o <<t>> \o p

CheckedPlaced(S, two, t, p, c) ==
  /\ c \in Seq(S) /\ Len(c) = Len(two) + 1 + Len(p)
  /\ \A i \in 1..Len(two) : c[i] = two[i]
  /\ c[Len(two) + 1] = t
  /\ \A i \in 1..Len(p) : c[i + (Len(two) + 1)] = p[i]

LEMMA CheckedIs ==
  ASSUME NEW S, NEW two \in Seq(S), NEW t \in S, NEW p \in Seq(S)
  PROVE  CheckedPlaced(S, two, t, p, CheckedOf(two, t, p))
<1> DEFINE a == two \o <<t>>
           c == a \o p
<1>1. a \in Seq(S) /\ Len(a) = Len(two) + 1 /\ a[Len(two) + 1] = t
      /\ \A i \in 1..Len(two) : a[i] = two[i]
  BY JoinOne
<1>c. c = CheckedOf(two, t, p)
  BY DEF CheckedOf
<1> HIDE DEF a
<1>2. a \in Seq(S)
  BY <1>1
<1>3. c \in Seq(S) /\ Len(c) = Len(a) + Len(p) /\ (\A i \in 1..Len(a) : c[i] = a[i])
      /\ (\A i \in 1..Len(p) : c[i + Len(a)] = p[i])
  BY <1>2, JoinIs
<1> HIDE DEF c
<1>4. Len(two) + 1 \in 1..Len(a) /\ \A i \in 1..Len(two) : i \in 1..Len(a)
  BY <1>1
<1>5. c[Len(two) + 1] = t /\ \A i \in 1..Len(two) : c[i] = two[i]
  BY <1>1, <1>3, <1>4, Zenon
<1>6. Len(c) = Len(two) + 1 + Len(p) /\ \A i \in 1..Len(p) : c[i + (Len(two) + 1)] = p[i]
  BY <1>1, <1>3, Zenon
<1>7. CheckedPlaced(S, two, t, p, c)
  BY <1>3, <1>5, <1>6, Zenon DEF CheckedPlaced
<1> QED
  BY <1>c, <1>7, Zenon

Laid(buf, c, p, four) ==
  /\ \A i \in 1..Len(c) : buf[i + 1] = c[i]
  /\ \A i \in 1..Len(p) : c[i + 3] = p[i]
  /\ \A i \in 1..Len(four) : buf[i + (Len(c) + 1)] = four[i]

ReadBack(buf, c, p, four) ==
  Len(c) = Len(p) + 3 /\ Len(four) = 4 /\ Len(p) + 9 <= Len(buf) =>
    /\ buf[2] = c[1] /\ buf[3] = c[2] /\ buf[4] = c[3]
    /\ SubSeq(buf, 2, 4 + Len(p)) = c
    /\ SubSeq(buf, 5, 4 + Len(p)) = p
    /\ SubSeq(buf, 5 + Len(p), 8 + Len(p)) = four

LEMMA FrameItems ==
  ASSUME NEW S, NEW p \in Seq(S), NEW c \in Seq(S), NEW four \in Seq(S), NEW buf \in Seq(S),
         Laid(buf, c, p, four)
  PROVE  ReadBack(buf, c, p, four)
<1>0. SUFFICES ASSUME Len(c) = Len(p) + 3, Len(four) = 4, Len(p) + 9 <= Len(buf)
               PROVE  /\ buf[2] = c[1] /\ buf[3] = c[2] /\ buf[4] = c[3]
                      /\ SubSeq(buf, 2, 4 + Len(p)) = c
                      /\ SubSeq(buf, 5, 4 + Len(p)) = p
                      /\ SubSeq(buf, 5 + Len(p), 8 + Len(p)) = four
  BY DEF ReadBack
<1>l. /\ \A i \in 1..Len(c) : buf[i + 1] = c[i]
      /\ \A i \in 1..Len(p) : c[i + 3] = p[i]
      /\ \A i \in 1..Len(four) : buf[i + (Len(c) + 1)] = four[i]
  BY DEF Laid
<1> DEFINE k == 4
           j == Len(c) + 1
<1>1. Len(p) \in Nat /\ Len(c) \in Nat /\ Len(buf) \in Nat
  OBVIOUS
<1>2. /\ 1 + Len(c) <= Len(buf) /\ k + Len(p) <= Len(buf) /\ j + Len(four) <= Len(buf)
      /\ k \in Nat /\ j \in Nat /\ 1 + 1 = 2 /\ 1 + Len(c) = 4 + Len(p)
      /\ k + 1 = 5 /\ k + Len(p) = 4 + Len(p) /\ j + 1 = 5 + Len(p) /\ j + Len(four) = 8 + Len(p)
  BY <1>0, <1>1
<1>3. buf[2] = c[1] /\ buf[3] = c[2] /\ buf[4] = c[3]
  <2>1. /\ 1 \in 1..Len(c) /\ 2 \in 1..Len(c) /\ 3 \in 1..Len(c)
        /\ 1 + 1 = 2 /\ 2 + 1 = 3 /\ 3 + 1 = 4
    BY <1>0, <1>1
  <2>2. buf[1 + 1] = c[1] /\ buf[2 + 1] = c[2] /\ buf[3 + 1] = c[3]
    BY <2>1, <1>l, Zenon
  <2> QED
    BY <2>1, <2>2
<1>4. \A i \in 1..Len(p) : buf[i + k] = p[i]
  <2>1. ASSUME NEW i \in 1..Len(p) PROVE buf[i + k] = p[i]
    <3>1. i + 3 \in 1..Len(c) /\ (i + 3) + 1 = i + k
      BY <1>0, <1>1
    <3>2. buf[(i + 3) + 1] = c[i + 3] /\ c[i + 3] = p[i]
      BY <3>1, <1>l, Zenon
    <3> QED
      BY <3>1, <3>2
  <2> QED
    BY <2>1
<1>5. \A i \in 1..Len(four) : buf[i + j] = four[i]
  BY <1>l
<1> HIDE DEF k, j
<1>6. 1 \in Nat
  OBVIOUS
<1>7. SubSeq(buf, 1 + 1, 1 + Len(c)) = c
  BY <1>2, <1>6, <1>l, PartIs
<1>8. k \in Nat /\ j \in Nat /\ k + Len(p) <= Len(buf) /\ j + Len(four) <= Len(buf)
  BY <1>2
<1>9. SubSeq(buf, k + 1, k + Len(p)) = p
  BY <1>4, <1>8, PartIs
<1>10. SubSeq(buf, j + 1, j + Len(four)) = four
  BY <1>5, <1>8, PartIs
<1> QED
  BY <1>2, <1>3, <1>7, <1>9, <1>10, Zenon

(* The checksum.  A word is shifted by a bit at a time; what two words     *)
(* differ in is shifted the same way, and the top bit after a shift tells  *)
(* the bottom bit before it.                                               *)
Words == SUBSET (0..31)

Raised(word, n) == {i + n : i \in word}

LEMMA Differ ==
  ASSUME NEW A, NEW B
  PROVE  \A i : i \in SymDiff(A, B) <=> ~(i \in A <=> i \in B)
BY Zenon DEF SymDiff

LEMMA DifferNowhere ==
  ASSUME NEW A, NEW B, SymDiff(A, B) = {}
  PROVE  A = B
BY Zenon DEF SymDiff

LEMMA DifferInWords ==
  ASSUME NEW A \in Words, NEW B \in Words
  PROVE  SymDiff(A, B) \in Words
BY DEF SymDiff, Words

LEMMA OctetIsWord == Octets \subseteq Words
BY DEF Octets, Words

LEMMA ShiftedIs ==
  ASSUME NEW x \in Words, NEW i \in 0..31
  PROVE  i \in CrcBit(x) <=> ~(i + 1 \in x <=> 0 \in x /\ i \in Poly)
<1> DEFINE shifted == {k - 1 : k \in x \ {0}}
<1>1. i \in shifted <=> i + 1 \in x
  BY DEF Words
<1>2. CrcBit(x) = IF 0 \in x THEN SymDiff(shifted, Poly) ELSE shifted
  BY DEF CrcBit
<1> HIDE DEF shifted
<1>3. i \in SymDiff(shifted, Poly) <=> ~(i \in shifted <=> i \in Poly)
  BY Differ
<1> QED
  BY <1>1, <1>2, <1>3

LEMMA ShiftedIsWord ==
  ASSUME NEW x \in Words
  PROVE  CrcBit(x) \in Words
<1>1. {k - 1 : k \in x \ {0}} \in Words
  BY DEF Words
<1>2. Poly \in Words
  BY DEF Poly, Words
<1> QED
  BY <1>1, <1>2, DifferInWords DEF CrcBit

LEMMA ShiftsDiffer ==
  ASSUME NEW x \in Words, NEW y \in Words
  PROVE  SymDiff(CrcBit(x), CrcBit(y)) = CrcBit(SymDiff(x, y))
<1>1. SymDiff(x, y) \in Words /\ CrcBit(x) \in Words /\ CrcBit(y) \in Words
  BY DifferInWords, ShiftedIsWord
<1>2. CrcBit(SymDiff(x, y)) \in Words /\ SymDiff(CrcBit(x), CrcBit(y)) \in Words
  BY <1>1, DifferInWords, ShiftedIsWord
<1>3. ASSUME NEW i \in 0..31
      PROVE  i \in SymDiff(CrcBit(x), CrcBit(y)) <=> i \in CrcBit(SymDiff(x, y))
  <2>1. /\ i \in CrcBit(x) <=> ~(i + 1 \in x <=> 0 \in x /\ i \in Poly)
        /\ i \in CrcBit(y) <=> ~(i + 1 \in y <=> 0 \in y /\ i \in Poly)
        /\ i \in CrcBit(SymDiff(x, y))
             <=> ~(i + 1 \in SymDiff(x, y) <=> 0 \in SymDiff(x, y) /\ i \in Poly)
    BY <1>1, ShiftedIs
  <2>2. /\ i \in SymDiff(CrcBit(x), CrcBit(y)) <=> ~(i \in CrcBit(x) <=> i \in CrcBit(y))
        /\ i + 1 \in SymDiff(x, y) <=> ~(i + 1 \in x <=> i + 1 \in y)
        /\ 0 \in SymDiff(x, y) <=> ~(0 \in x <=> 0 \in y)
    BY Differ
  <2> QED
    BY <2>1, <2>2
<1> QED
  BY <1>2, <1>3, Zenon DEF Words

LEMMA ShiftedBack ==
  ASSUME NEW x \in Words, 31 \notin CrcBit(x)
  PROVE  x = Raised(CrcBit(x), 1)
<1>1. 0 \notin x
  <2>1. 31 \in CrcBit(x) <=> ~(31 + 1 \in x <=> 0 \in x /\ 31 \in Poly)
    BY ShiftedIs
  <2>2. 31 \in Poly /\ 31 + 1 \notin x
    BY DEF Poly, Words
  <2> QED
    BY <2>1, <2>2
<1>2. CrcBit(x) = {k - 1 : k \in x \ {0}}
  BY <1>1 DEF CrcBit
<1>3. ASSUME NEW i \in x PROVE i \in Raised(CrcBit(x), 1)
  <2>1. i \in 0..31 /\ i # 0
    BY <1>1 DEF Words
  <2>2. i - 1 \in CrcBit(x) /\ i = (i - 1) + 1
    BY <1>2, <2>1
  <2> HIDE DEF Words
  <2> QED
    BY <2>2, Zenon DEF Raised
<1>4. ASSUME NEW i \in Raised(CrcBit(x), 1) PROVE i \in x
  BY <1>1, <1>2, <1>4 DEF Raised, Words
<1> QED
  BY <1>3, <1>4

(* What a byte makes of the checksum, a bit at a time.                     *)
ByBits(g, word) ==
  g \in [0..8 -> Words] /\ g[0] = word /\ \A n \in 1..8 : g[n] = CrcBit(g[n - 1])

LEMMA CrcByteIs ==
  ASSUME NEW crc \in Words, NEW byte \in Octets
  PROVE  \E g : ByBits(g, SymDiff(crc, byte)) /\ CrcByte(crc, byte) = g[8]
<1> DEFINE base == SymDiff(crc, byte)
           step == [x \in Words \X (1..8) |-> CrcBit(x[1])]
           Is(f) == f = [bits \in 0..8 |-> IF bits = 0 THEN base ELSE CrcBit(f[bits - 1])]
           h == CHOOSE f : Is(f)
<1>1. base \in Words
  BY OctetIsWord, DifferInWords
<1>2. CrcByte(crc, byte) = h[8]
  BY Zenon DEF CrcByte
<1>b. base = SymDiff(crc, byte)
  OBVIOUS
<1> HIDE DEF base
<1>3. step \in [Words \X (1..8) -> Words]
  BY ShiftedIsWord
<1>4. PICK g : /\ g \in [0..8 -> Words] /\ g[0] = base
               /\ \A n \in 1..8 : g[n] = step[<<g[n - 1], n>>]
  <2> HIDE DEF step
  <2>1. 8 \in Nat
    OBVIOUS
  <2>2. \E g : Iterates(g, 8, Words, base, step)
    BY <1>1, <1>3, <2>1, Recursion
  <2> QED
    BY <2>2 DEF Iterates
<1>5. ASSUME NEW n \in 1..8 PROVE g[n] = CrcBit(g[n - 1])
  <2>1. g[n - 1] \in Words
    BY <1>4
  <2>2. step[<<g[n - 1], n>>] = CrcBit(g[n - 1])
    BY <2>1
  <2> QED
    BY <1>4, <2>2, Zenon
<1>6. Is(g)
  <2>1. ASSUME NEW n \in 0..8
        PROVE  g[n] = IF n = 0 THEN base ELSE CrcBit(g[n - 1])
    BY <1>4, <1>5
  <2> HIDE DEF step
  <2> QED
    BY <1>4, <2>1
<1>7. Is(h)
  <2> HIDE DEF Is
  <2> QED
    BY <1>6, Zenon
<1> HIDE DEF h
<1>8. /\ h[0] = base /\ DOMAIN h = 0..8
      /\ \A n \in 1..8 : h[n] = CrcBit(h[n - 1])
  BY <1>7
<1> DEFINE T == {n \in 0..8 : h[n] \in Words}
<1>9. 0 \in T
  BY <1>1, <1>8
<1>10. ASSUME NEW n \in 1..8, n - 1 \in T PROVE n \in T
  BY <1>8, <1>10, ShiftedIsWord
<1>11. 0..8 \subseteq T
  <2> HIDE DEF T
  <2>1. 8 \in Nat
    OBVIOUS
  <2> QED
    BY <1>9, <1>10, <2>1, Induction
<1>12. h \in [0..8 -> Words]
  <2>1. h = [n \in 0..8 |-> h[n]]
    BY <1>7
  <2> QED
    BY <1>11, <2>1
<1>13. ByBits(h, base)
  BY <1>8, <1>12 DEF ByBits
<1> QED
  BY <1>2, <1>b, <1>13, Zenon

LEMMA CrcByteIsWord ==
  ASSUME NEW crc \in Words, NEW byte \in Octets
  PROVE  CrcByte(crc, byte) \in Words
<1>1. PICK g : ByBits(g, SymDiff(crc, byte)) /\ CrcByte(crc, byte) = g[8]
  BY CrcByteIs
<1> QED
  BY <1>1 DEF ByBits

LEMMA RaisedTwice ==
  ASSUME NEW word, word \subseteq Int, NEW n \in Int
  PROVE  Raised(word, 0) = word /\ Raised(Raised(word, n - 1), 1) = Raised(word, n)
<1>1. ASSUME NEW i \in word PROVE i \in Raised(word, 0)
  <2>1. i = i + 0
    OBVIOUS
  <2> QED
    BY <2>1, Zenon DEF Raised
<1>2. ASSUME NEW i \in Raised(word, 0) PROVE i \in word
  BY <1>2 DEF Raised
<1>3. ASSUME NEW i \in Raised(word, n) PROVE i \in Raised(Raised(word, n - 1), 1)
  <2>1. PICK k \in word : i = k + n
    BY Zenon DEF Raised
  <2>2. i = (k + (n - 1)) + 1
    BY <2>1
  <2> QED
    BY <2>2, Zenon DEF Raised
<1>4. ASSUME NEW i \in Raised(Raised(word, n - 1), 1) PROVE i \in Raised(word, n)
  <2>1. PICK k \in word : i = (k + (n - 1)) + 1
    BY Zenon DEF Raised
  <2>2. i = k + n
    BY <2>1
  <2> QED
    BY <2>2, Zenon DEF Raised
<1> QED
  BY <1>1, <1>2, <1>3, <1>4

(* What two words differ in after a byte tells what they differed in with  *)
(* the byte before it, when they agree in the top byte.                    *)
LEMMA CrcByteBack ==
  ASSUME NEW r \in Words, NEW s \in Words, NEW b \in Octets, NEW c \in Octets,
         SymDiff(CrcByte(r, b), CrcByte(s, c)) \subseteq 0..23
  PROVE  SymDiff(SymDiff(r, b), SymDiff(s, c))
           = Raised(SymDiff(CrcByte(r, b), CrcByte(s, c)), 8)
<1>1. PICK g : ByBits(g, SymDiff(r, b)) /\ CrcByte(r, b) = g[8]
  BY CrcByteIs
<1>2. PICK h : ByBits(h, SymDiff(s, c)) /\ CrcByte(s, c) = h[8]
  BY CrcByteIs
<1> DEFINE e(n) == SymDiff(g[n], h[n])
           last == e(8)
           T == {n \in 0..8 : e(8 - n) = Raised(last, n)}
<1>l. last = SymDiff(CrcByte(r, b), CrcByte(s, c)) /\ e(0) = SymDiff(SymDiff(r, b), SymDiff(s, c))
      /\ last = e(8)
  BY <1>1, <1>2 DEF ByBits
<1>3. last \subseteq 0..23
  BY <1>l
<1>4. ASSUME NEW n \in 0..8 PROVE e(n) \in Words
  BY <1>1, <1>2, DifferInWords DEF ByBits
<1>5. ASSUME NEW n \in 1..8 PROVE e(n) = CrcBit(e(n - 1))
  <2>1. g[n - 1] \in Words /\ h[n - 1] \in Words /\ g[n] = CrcBit(g[n - 1]) /\ h[n] = CrcBit(h[n - 1])
    BY <1>1, <1>2 DEF ByBits
  <2> QED
    BY <2>1, ShiftsDiffer
<1> HIDE DEF e, last
<1>6. 0 \in T
  <2>1. Raised(last, 0) = last
    <3>1. last \subseteq Int /\ 0 \in Int
      BY <1>3
    <3> QED
      BY <3>1, RaisedTwice
  <2> QED
    BY <1>l, <2>1
<1>7. ASSUME NEW n \in 1..8, n - 1 \in T PROVE n \in T
  <2>1. n \in 0..8 /\ 8 - n \in 0..8 /\ 9 - n \in 1..8 /\ 8 - (n - 1) = 9 - n /\ (9 - n) - 1 = 8 - n
    OBVIOUS
  <2>2. e(9 - n) = Raised(last, n - 1)
    BY <1>7, <2>1
  <2>3. e(9 - n) = CrcBit(e(8 - n))
    BY <1>5, <2>1
  <2>4. 31 \notin Raised(last, n - 1)
    BY <1>3 DEF Raised
  <2>5. e(8 - n) = Raised(Raised(last, n - 1), 1)
    <3>1. e(8 - n) \in Words /\ 31 \notin CrcBit(e(8 - n))
      BY <1>4, <2>1, <2>2, <2>3, <2>4
    <3> QED
      BY <2>2, <2>3, <3>1, ShiftedBack
  <2>6. Raised(Raised(last, n - 1), 1) = Raised(last, n)
    <3>1. last \subseteq Int /\ n \in Int
      BY <1>3
    <3> QED
      BY <3>1, RaisedTwice
  <2> QED
    BY <2>1, <2>5, <2>6
<1>8. 8 \in T
  <2> HIDE DEF T
  <2>1. 8 \in Nat /\ 8 \in 0..8
    OBVIOUS
  <2>2. 0..8 \subseteq T
    BY <1>6, <1>7, <2>1, Induction
  <2> QED
    BY <2>1, <2>2
<1>9. e(0) = Raised(last, 8)
  BY <1>8
<1> QED
  BY <1>l, <1>9, Zenon

(* The checksum of a sequence of bytes, a byte at a time.                  *)
ByBytes(g, bytes, n) ==
  g \in [0..n -> Words] /\ g[0] = 0..31 /\ \A k \in 1..n : g[k] = CrcByte(g[k - 1], bytes[k])

LEMMA Crc32Is ==
  ASSUME NEW bytes \in Seq(Octets), NEW N \in Nat, N = Len(bytes)
  PROVE  \E g : ByBytes(g, bytes, N) /\ Crc32(bytes) = (0..31) \ g[N]
<1> DEFINE ones == 0..31
           step == [x \in Words \X (1..N) |-> CrcByte(x[1], bytes[x[2]])]
           Is(f) == f = [n \in 0..N |-> IF n = 0 THEN ones ELSE CrcByte(f[n - 1], bytes[n])]
           h == CHOOSE f : Is(f)
<1>1. ones \in Words
  BY DEF Words
<1>2. Crc32(bytes) = (0..31) \ h[N]
  BY Zenon DEF Crc32
<1>o. ones = 0..31
  OBVIOUS
<1> HIDE DEF ones
<1>3. ASSUME NEW n \in 1..N PROVE bytes[n] \in Octets
  OBVIOUS
<1>4. step \in [Words \X (1..N) -> Words]
  BY <1>3, CrcByteIsWord
<1>5. PICK g : /\ g \in [0..N -> Words] /\ g[0] = ones
               /\ \A n \in 1..N : g[n] = step[<<g[n - 1], n>>]
  <2> HIDE DEF step
  <2>1. \E g : Iterates(g, N, Words, ones, step)
    BY <1>1, <1>4, Recursion
  <2> QED
    BY <2>1 DEF Iterates
<1>6. ASSUME NEW n \in 1..N PROVE g[n] = CrcByte(g[n - 1], bytes[n])
  <2>1. g[n - 1] \in Words
    BY <1>5
  <2>2. step[<<g[n - 1], n>>] = CrcByte(g[n - 1], bytes[n])
    BY <2>1
  <2> QED
    BY <1>5, <2>2, Zenon
<1>7. Is(g)
  <2>1. ASSUME NEW n \in 0..N
        PROVE  g[n] = IF n = 0 THEN ones ELSE CrcByte(g[n - 1], bytes[n])
    BY <1>5, <1>6
  <2> HIDE DEF step
  <2> QED
    BY <1>5, <2>1
<1>8. Is(h)
  <2> HIDE DEF Is
  <2> QED
    BY <1>7, Zenon
<1> HIDE DEF h
<1>9. /\ h[0] = ones /\ DOMAIN h = 0..N
      /\ \A n \in 1..N : h[n] = CrcByte(h[n - 1], bytes[n])
  BY <1>8
<1> DEFINE T == {n \in 0..N : h[n] \in Words}
<1>10. 0 \in T
  BY <1>1, <1>9
<1>11. ASSUME NEW n \in 1..N, n - 1 \in T PROVE n \in T
  BY <1>3, <1>9, <1>11, CrcByteIsWord
<1>12. 0..N \subseteq T
  <2> HIDE DEF T
  <2> QED
    BY <1>10, <1>11, Induction
<1>13. h \in [0..N -> Words]
  <2>1. h = [n \in 0..N |-> h[n]]
    BY <1>8
  <2> QED
    BY <1>12, <2>1
<1>14. ByBytes(h, bytes, N)
  BY <1>o, <1>9, <1>13, Zenon DEF ByBytes
<1> QED
  BY <1>2, <1>14, Zenon

(* Where the checksums of two sequences differ, their bytes do.            *)
LEMMA SumsDiffer ==
  ASSUME NEW x \in Words, NEW y \in Words, NEW j \in 1..4, NEW i \in SymDiff(x, y),
         i - 8 * (j - 1) \in 0..7
  PROVE  Bytes((0..31) \ x, 4)[j] # Bytes((0..31) \ y, 4)[j]
<1> DEFINE k == i - 8 * (j - 1)
<1>1. k \in 0..7 /\ k + 8 * (j - 1) = i
  BY DEF SymDiff, Words
<1>2. i \in (0..31) \ x <=> ~(i \in (0..31) \ y)
  BY DEF SymDiff, Words
<1>3. /\ Bytes((0..31) \ x, 4)[j] = {n \in 0..7 : n + 8 * (j - 1) \in (0..31) \ x}
      /\ Bytes((0..31) \ y, 4)[j] = {n \in 0..7 : n + 8 * (j - 1) \in (0..31) \ y}
  BY Zenon DEF Bytes
<1> HIDE DEF k
<1>4. k \in Bytes((0..31) \ x, 4)[j] <=> ~(k \in Bytes((0..31) \ y, 4)[j])
  BY <1>1, <1>2, <1>3
<1> QED
  BY <1>4, Zenon

LEMMA BitBelow ==
  ASSUME NEW i \in 0..31, NEW j \in 1..4, NEW N \in Nat, NEW a \in Nat,
         i - 8 * (j - 1) \in 0..7, N + j <= a + 3
  PROVE  i < 8 * (a + 3 - N)
OBVIOUS

LEMMA RoomLeft ==
  ASSUME NEW S, NEW a \in Nat, NEW k \in Nat, k >= a,
         \A i \in S : i \in 0..31 /\ i < 8 * (a + 3 - k)
  PROVE  S \subseteq 0..23
<1> SUFFICES ASSUME NEW i \in S PROVE i \in 0..23
  OBVIOUS
<1>1. i \in 0..31 /\ i < 8 * (a + 3 - k)
  OBVIOUS
<1> QED
  BY <1>1

(* Two sequences of bytes that with their checksums behind them differ     *)
(* within four neighbouring bytes only do not differ at all.               *)
Near(a, k) == k >= a /\ k <= a + 3

DifferNear(m, r, N, a) ==
  /\ \A k \in 1..N : m[k] # r[k] => Near(a, k)
  /\ \A j \in 1..4 : Bytes(Crc32(m), 4)[j] # Bytes(Crc32(r), 4)[j] => Near(a, N + j)

LEMMA BurstSeen ==
  ASSUME NEW m \in Seq(Octets), NEW r \in Seq(Octets), NEW N \in Nat,
         Len(m) = N, Len(r) = N, NEW a \in Nat, a # 0, DifferNear(m, r, N, a)
  PROVE  m = r
<1>1. PICK g : ByBytes(g, m, N) /\ Crc32(m) = (0..31) \ g[N]
  BY Crc32Is
<1>2. PICK h : ByBytes(h, r, N) /\ Crc32(r) = (0..31) \ h[N]
  BY Crc32Is
<1> DEFINE e(k) == SymDiff(g[k], h[k])
<1>3. ASSUME NEW k \in 0..N PROVE g[k] \in Words /\ h[k] \in Words /\ e(k) \in Words
  BY <1>1, <1>2, DifferInWords DEF ByBytes
<1>4. ASSUME NEW k \in 1..N
      PROVE  /\ k - 1 \in 0..N /\ k \in 0..N /\ m[k] \in Octets /\ r[k] \in Octets
             /\ g[k] = CrcByte(g[k - 1], m[k]) /\ h[k] = CrcByte(h[k - 1], r[k])
  BY <1>1, <1>2 DEF ByBytes
<1>5. ASSUME NEW k \in 1..N, e(k) \subseteq 0..23
      PROVE  SymDiff(SymDiff(g[k - 1], m[k]), SymDiff(h[k - 1], r[k])) = Raised(e(k), 8)
  BY <1>3, <1>4, <1>5, CrcByteBack
(* Before the last byte of the window a word has room for what is missing. *)
<1> DEFINE Small(k) == \A i \in e(k) : i < 8 * (a + 3 - k)
<1>6. Small(N)
  <2> SUFFICES ASSUME NEW i \in e(N) PROVE i < 8 * (a + 3 - N)
    OBVIOUS
  <2>1. N \in 0..N
    OBVIOUS
  <2>2. i \in 0..31 /\ g[N] \in Words /\ h[N] \in Words
    BY <1>3, <2>1 DEF Words
  <2>3. PICK j \in 1..4 : i - 8 * (j - 1) \in 0..7
    <3>1. CASE i \in 0..7
      <4>1. i - 8 * (1 - 1) \in 0..7 /\ 1 \in 1..4
        BY <3>1
      <4> QED
        BY <4>1
    <3>2. CASE i \in 8..15
      <4>1. i - 8 * (2 - 1) \in 0..7 /\ 2 \in 1..4
        BY <3>2
      <4> QED
        BY <4>1
    <3>3. CASE i \in 16..23
      <4>1. i - 8 * (3 - 1) \in 0..7 /\ 3 \in 1..4
        BY <3>3
      <4> QED
        BY <4>1
    <3>4. CASE i \in 24..31
      <4>1. i - 8 * (4 - 1) \in 0..7 /\ 4 \in 1..4
        BY <3>4
      <4> QED
        BY <4>1
    <3> QED
      BY <2>2, <3>1, <3>2, <3>3, <3>4
  <2>4. Bytes(Crc32(m), 4)[j] # Bytes(Crc32(r), 4)[j]
    BY <1>1, <1>2, <2>2, <2>3, SumsDiffer
  <2>5. N + j <= a + 3
    BY <2>4 DEF DifferNear, Near
  <2> QED
    BY <2>2, <2>3, <2>5, BitBelow
<1> DEFINE B == {n \in 0..N : N - n >= a => Small(N - n)}
<1>7. 0 \in B
  BY <1>6
<1>8. ASSUME NEW n \in 1..N, n - 1 \in B PROVE n \in B
  <2> DEFINE k == N - n + 1
  <2> SUFFICES ASSUME N - n >= a PROVE Small(N - n)
    BY <1>8
  <2>1. k \in 1..N /\ k > a /\ k - 1 = N - n /\ N - (n - 1) = k
    OBVIOUS
  <2>2. Small(k)
    <3>1. N - (n - 1) >= a
      OBVIOUS
    <3> HIDE DEF Small, k
    <3> QED
      BY <1>8, <2>1, <3>1
  <2> HIDE DEF k
  <2>3. e(k) \subseteq 0..23
    <3>1. \A i \in e(k) : i \in 0..31
      BY <1>3, <1>4, <2>1 DEF Words
    <3>2. \A i \in e(k) : i \in 0..31 /\ i < 8 * (a + 3 - k)
      BY <2>2, <3>1
    <3>3. k \in Nat /\ k >= a
      BY <2>1
    <3> HIDE DEF e, Small
    <3> QED
      BY <3>2, <3>3, RoomLeft
  <2>4. SymDiff(SymDiff(g[k - 1], m[k]), SymDiff(h[k - 1], r[k])) = Raised(e(k), 8)
    BY <1>5, <2>1, <2>3
  <2>5. ASSUME NEW i \in e(k - 1) PROVE i < 8 * (a + 3 - (k - 1))
    <3>0. i \in 0..31
      BY <1>3, <1>4, <2>1 DEF Words
    <3>1. CASE i \in Raised(e(k), 8)
      <4>1. PICK q \in e(k) : i = q + 8
        BY <3>1, Zenon DEF Raised
      <4>2. q \in 0..23 /\ q < 8 * (a + 3 - k)
        BY <2>2, <2>3
      <4> HIDE DEF e
      <4> QED
        BY <2>1, <4>1, <4>2
    <3>2. CASE i \notin Raised(e(k), 8)
      <4>1. i \in m[k] \/ i \in r[k]
        BY <2>4, <3>2, Differ
      <4>2. m[k] # r[k]
        BY <2>4, <3>2, Differ
      <4>3. i \in 0..7
        BY <1>4, <2>1, <4>1 DEF Octets
      <4>4. k <= a + 3
        BY <2>1, <4>2 DEF DifferNear, Near
      <4> HIDE DEF e
      <4> QED
        BY <2>1, <4>3, <4>4
    <3> QED
      BY <3>1, <3>2
  <2> QED
    BY <2>1, <2>5
<1>9. ASSUME NEW k \in 1..N, k >= a PROVE Small(k)
  <2>1. 0..N \subseteq B
    <3> HIDE DEF B
    <3> QED
      BY <1>7, <1>8, Induction
  <2>2. N - k \in 0..N /\ N - (N - k) = k
    OBVIOUS
  <2> HIDE DEF Small
  <2> QED
    BY <1>9, <2>1, <2>2
<1> HIDE DEF B
(* So a byte that differs would leave the words different to the end.      *)
<1> DEFINE T == {k \in 0..N : e(k) = {} /\ (k # 0 => m[k] = r[k])}
<1>10. 0 \in T
  BY <1>1, <1>2 DEF ByBytes, SymDiff
<1>11. ASSUME NEW k \in 1..N, k - 1 \in T PROVE k \in T
  <2>1. g[k - 1] = h[k - 1]
    BY <1>11, DifferNowhere
  <2>2. CASE k < a
    <3>1. m[k] = r[k]
      BY <2>2 DEF DifferNear, Near
    <3>2. g[k] = h[k]
      BY <1>4, <2>1, <3>1
    <3>3. e(k) = {}
      BY <3>2 DEF SymDiff
    <3> QED
      BY <3>1, <3>3
  <2>3. CASE k >= a
    <3>1. \A i \in e(k) : i \in 0..31 /\ i < 8 * (a + 3 - k)
      BY <1>3, <1>4, <1>9, <2>3 DEF Words
    <3>2. e(k) \subseteq 0..23
      <4>1. k \in Nat
        OBVIOUS
      <4> HIDE DEF e, Small
      <4> QED
        BY <2>3, <3>1, <4>1, RoomLeft
    <3>3. SymDiff(SymDiff(g[k - 1], m[k]), SymDiff(g[k - 1], r[k])) = Raised(e(k), 8)
      BY <1>5, <2>1, <3>2
    <3>4. \A i : i \in Raised(e(k), 8) <=> ~(i \in m[k] <=> i \in r[k])
      BY <3>3, Differ
    <3>5. \A i \in Raised(e(k), 8) : i \in 0..7
      BY <1>4, <3>4 DEF Octets
    <3>6. e(k) = {}
      <4>1. ASSUME NEW i \in e(k) PROVE FALSE
        <5>1. i + 8 \in Raised(e(k), 8)
          BY Zenon DEF Raised
        <5>2. i \in 0..23 /\ i + 8 \in 0..7
          <6> HIDE DEF e
          <6> QED
            BY <3>2, <3>5, <5>1
        <5> QED
          BY <5>2
      <4> QED
        BY <4>1
    <3>7. Raised(e(k), 8) = {}
      BY <3>6 DEF Raised
    <3>8. m[k] = r[k]
      BY <3>4, <3>7
    <3> QED
      BY <3>6, <3>8
  <2> QED
    BY <2>2, <2>3
<1>12. 0..N \subseteq T
  <2> HIDE DEF T
  <2> QED
    BY <1>10, <1>11, Induction
<1>13. ASSUME NEW k \in 1..N PROVE m[k] = r[k]
  <2>1. k \in 0..N /\ k # 0
    OBVIOUS
  <2> HIDE DEF e
  <2> QED
    BY <1>12, <2>1
<1> QED
  BY <1>13

(* What a frame is encoded to: the bytes that are checked, their checksum  *)
(* and the signs around them.                                              *)
EncodedAs(t, p, c, e) ==
  /\ c \in Seq(Octets) /\ Len(c) = Len(p) + 3
  /\ Value(c[1]) + 256 * Value(c[2]) = Len(p)
  /\ c[3] = t /\ \A i \in 1..Len(p) : c[i + 3] = p[i]
  /\ e \in Seq(Octets) /\ Len(e) = Len(p) + 9
  /\ e[1] = SOF /\ e[Len(p) + 9] = EOF
  /\ \A i \in 1..Len(c) : e[i + 1] = c[i]
  /\ \A i \in 1..4 : e[i + (Len(c) + 1)] = Bytes(Crc32(c), 4)[i]

LEMMA EncodeIs ==
  ASSUME NEW t \in Octets, NEW p \in Seq(Octets), Len(p) <= FrameMaxPayload
  PROVE  \E c : EncodedAs(t, p, c, Encode(t, p))
<1> DEFINE n    == Len(p)
           two  == Bytes(Bits(n, 16), 2)
<1>1. n \in Nat /\ n \in WordValues
  <2>1. n \in Nat /\ n <= FrameMaxPayload
    OBVIOUS
  <2> HIDE DEF n
  <2>2. FrameMaxPayload \in Nat /\ FrameMaxPayload <= 65535
    BY FramesAssumption
  <2>3. n \in WordValues
    BY <2>1, <2>2 DEF WordValues
  <2> QED
    BY <2>1, <2>3
<1>2. two \in Seq(Octets) /\ Len(two) = 2
  BY BytesAre
<1>3. Value(two[1]) + 256 * Value(two[2]) = n
  BY <1>1, LengthIsRead
<1>e. Encode(t, p) = LET c == two \o <<t>> \o p
                     IN  <<SOF>> \o c \o Bytes(Crc32(c), 4) \o <<EOF>>
  BY DEF Encode
<1>n. Len(p) = n /\ n = Len(p)
  OBVIOUS
<1> HIDE DEF n, two
<1> DEFINE c == CheckedOf(two, t, p)
<1>c. c = two \o <<t>> \o p
  BY DEF CheckedOf
<1>4. CheckedPlaced(Octets, two, t, p, c)
  <2>1. two \in Seq(Octets)
    BY <1>2
  <2> QED
    BY <2>1, CheckedIs
<1> HIDE DEF c
<1>5. /\ Len(c) = Len(p) + 3 /\ c[1] = two[1] /\ c[2] = two[2] /\ c[3] = t
      /\ \A i \in 1..Len(p) : c[i + 3] = p[i]
  <2>1. Len(two) + 1 = 3 /\ 1 \in 1..Len(two) /\ 2 \in 1..Len(two)
    BY <1>2
  <2>2. c[1] = two[1] /\ c[2] = two[2] /\ c[3] = t /\ \A i \in 1..Len(p) : c[i + 3] = p[i]
    BY <1>4, <2>1, Zenon DEF CheckedPlaced
  <2>3. Len(c) = 3 + Len(p)
    BY <1>4, <2>1, Zenon DEF CheckedPlaced
  <2> QED
    BY <2>2, <2>3
<1> DEFINE four == Bytes(Crc32(c), 4)
<1>6. four \in Seq(Octets) /\ Len(four) = 4
  BY BytesAre
<1> DEFINE wire == FrameOf(SOF, c, four, EOF)
<1>7. Encode(t, p) = wire
  BY <1>e, <1>c, Zenon DEF FrameOf
<1>f. four = Bytes(Crc32(c), 4)
  OBVIOUS
<1> HIDE DEF four
<1>8. Placed(Octets, SOF, c, four, EOF, <<>>, wire, wire \o <<>>)
  <2>1. four \in Seq(Octets) /\ c \in Seq(Octets) /\ <<>> \in Seq(Octets)
    BY <1>4, <1>6 DEF CheckedPlaced
  <2> QED
    BY <2>1, SignsAre, FramePlaces
<1> HIDE DEF wire
<1>9. wire \o <<>> = wire
  <2>1. wire \in Seq(Octets)
    BY <1>8, Zenon DEF Placed
  <2> QED
    BY <2>1
<1>10. Len(wire) = n + 9
  <2>1. Len(wire) = Len(c) + Len(four) + 2
    BY <1>8, Zenon DEF Placed
  <2> QED
    BY <2>1, <1>1, <1>n, <1>5, <1>6, SMTT(20)
<1>11. EncodedAs(t, p, c, wire)
  <2>1. c \in Seq(Octets)
    BY <1>4 DEF CheckedPlaced
  <2>2. Len(wire) = Len(p) + 9 /\ Value(c[1]) + 256 * Value(c[2]) = Len(p)
    BY <1>3, <1>5, <1>10, <1>n, Zenon
  <2>3. /\ wire \in Seq(Octets) /\ wire[1] = SOF /\ wire[Len(p) + 9] = EOF
        /\ \A i \in 1..Len(c) : wire[i + 1] = c[i]
        /\ \A i \in 1..4 : wire[i + (Len(c) + 1)] = four[i]
    BY <1>6, <1>8, <1>9, <2>2, Zenon DEF Placed
  <2> QED
    BY <2>1, <2>2, <2>3, <1>5, <1>f, Zenon DEF EncodedAs
<1> QED
  BY <1>7, <1>11, Zenon

(* A frame that arrives undamaged is decoded to what it was encoded from,  *)
(* whatever comes behind it.                                               *)
LEMMA DecodeWhole ==
  ASSUME NEW t \in Octets, NEW p \in Seq(Octets), Len(p) <= FrameMaxPayload,
         NEW more \in Seq(Octets)
  PROVE  Decode(Encode(t, p) \o more) = [rc |-> "OK", type |-> t, payload |-> p]
<1>1. PICK c : EncodedAs(t, p, c, Encode(t, p))
  BY EncodeIs
<1> DEFINE n    == Len(p)
           e    == Encode(t, p)
           buf  == e \o more
           four == Bytes(Crc32(c), 4)
<1>2. n \in Nat /\ n <= FrameMaxPayload /\ e \in Seq(Octets) /\ Len(e) = n + 9
      /\ c \in Seq(Octets) /\ Len(c) = n + 3
  BY <1>1 DEF EncodedAs
<1>3. four \in Seq(Octets) /\ Len(four) = 4
  BY BytesAre
<1>a. EncodedAs(t, p, c, e)
  BY <1>1
<1>b. Len(p) = n /\ four = Bytes(Crc32(c), 4) /\ buf = Encode(t, p) \o more
  OBVIOUS
<1> HIDE DEF e
<1>4. buf \in Seq(Octets) /\ Len(buf) = Len(e) + Len(more) /\ \A i \in 1..Len(e) : buf[i] = e[i]
  BY <1>2, JoinIs
<1>m. Len(more) \in Nat
  OBVIOUS
<1> HIDE DEF n, buf, four
<1>5. Len(buf) \in Nat /\ Len(buf) >= n + 9 /\ n + 9 <= Len(buf)
  BY <1>2, <1>4, <1>m
<1>6. buf[1] = SOF /\ buf[n + 9] = EOF
  <2>1. 1 \in 1..Len(e) /\ n + 9 \in 1..Len(e)
    BY <1>2
  <2> QED
    BY <1>a, <1>b, <1>4, <2>1, Zenon DEF EncodedAs
<1>7. Laid(buf, c, p, four)
  <2>1. \A i \in 1..Len(c) : i + 1 \in 1..Len(e)
    BY <1>2
  <2>2. \A i \in 1..4 : i + (Len(c) + 1) \in 1..Len(e)
    BY <1>2
  <2> QED
    BY <1>a, <1>b, <1>3, <1>4, <2>1, <2>2, Zenon DEF EncodedAs, Laid
<1>8. /\ buf[2] = c[1] /\ buf[3] = c[2] /\ buf[4] = c[3]
      /\ SubSeq(buf, 2, 4 + n) = c
      /\ SubSeq(buf, 5, 4 + n) = p
      /\ SubSeq(buf, 5 + n, 8 + n) = four
  <2>1. buf \in Seq(Octets) /\ c \in Seq(Octets) /\ four \in Seq(Octets)
    BY <1>2, <1>3, <1>4
  <2>2. ReadBack(buf, c, p, four)
    BY <2>1, <1>7, FrameItems, Zenon
  <2> QED
    BY <2>2, <1>b, <1>2, <1>3, <1>5, ZenonT(40) DEF ReadBack
<1>9. IsFrame(buf, n)
  <2>1. Value(buf[2]) + 256 * Value(buf[3]) = n
    BY <1>a, <1>b, <1>8, Zenon DEF EncodedAs
  <2>2. Bytes(Crc32(SubSeq(buf, 2, 4 + n)), 4) = SubSeq(buf, 5 + n, 8 + n)
    BY <1>8, <1>b, Zenon
  <2> QED
    BY <1>5, <1>6, <2>1, <2>2, Zenon DEF IsFrame
<1>10. Decode(buf) = Contents(buf, n)
  BY <1>2, <1>9, DecodeParts, Zenon
<1> QED
  BY <1>a, <1>b, <1>8, <1>10, Zenon DEF EncodedAs, Contents

(* What arrives of a frame in which only the bytes of some flips changed.  *)
Carried(w, e, F) ==
  /\ w \in Seq(Octets) /\ Len(w) = Len(e)
  /\ \A i \in 1..Len(e) : w[i] # e[i] => \E f \in F : f[1] = i

Intact(F) == \A f \in F : f[1] \in Nat /\ f[1] \notin {2, 3}
Burst(F) == \A f, g \in F : f[1] - g[1] \in -3..3

LEMMA CarriedLength ==
  ASSUME NEW t \in Octets, NEW p \in Seq(Octets), Len(p) <= FrameMaxPayload,
         NEW w, NEW F, Carried(w, Encode(t, p), F), Intact(F)
  PROVE  LengthOf(w) = Len(p) /\ Len(w) = Len(p) + 9
<1>1. PICK c : EncodedAs(t, p, c, Encode(t, p))
  BY EncodeIs
<1> DEFINE e == Encode(t, p)
<1>2. /\ Len(e) = Len(p) + 9 /\ Len(c) = Len(p) + 3
      /\ Value(c[1]) + 256 * Value(c[2]) = Len(p)
      /\ \A i \in 1..Len(c) : e[i + 1] = c[i]
  BY <1>1 DEF EncodedAs
<1>3. Carried(w, e, F)
  OBVIOUS
<1> HIDE DEF e
<1>4. 1 \in 1..Len(c) /\ 2 \in 1..Len(c) /\ 2 \in 1..Len(e) /\ 3 \in 1..Len(e)
  BY <1>2
<1>5. e[2] = c[1] /\ e[3] = c[2]
  <2>1. e[1 + 1] = c[1] /\ e[2 + 1] = c[2]
    BY <1>2, <1>4, Zenon
  <2> QED
    BY <2>1
<1>6. w[2] = e[2] /\ w[3] = e[3]
  BY <1>3, <1>4 DEF Carried, Intact
<1> QED
  BY <1>2, <1>3, <1>5, <1>6, Zenon DEF Carried, LengthOf

(* A frame without its last byte is refused.                               *)
LEMMA DecodeCut ==
  ASSUME NEW t \in Octets, NEW p \in Seq(Octets), Len(p) <= FrameMaxPayload,
         NEW w, NEW F, Carried(w, Encode(t, p), F), Intact(F)
  PROVE  Decode(Front(w)) = NoFrame /\ Len(Front(w)) = Len(p) + 8
<1> DEFINE f == Front(w)
<1>1. Len(p) \in Nat /\ w \in Seq(Octets) /\ Len(w) = Len(p) + 9 /\ LengthOf(w) = Len(p)
  BY CarriedLength DEF Carried
<1>2. f = SubSeq(w, 1, Len(w) - 1)
  BY DEF Front
<1>3. Len(f) = Len(w) - 1 /\ f[2] = w[2] /\ f[3] = w[3]
  BY <1>1, <1>2
<1>4. Len(f) = Len(p) + 8
  BY <1>1, <1>3
<1> HIDE DEF f
<1>5. Value(f[2]) + 256 * Value(f[3]) = Len(p)
  BY <1>1, <1>3, Zenon DEF LengthOf
<1>6. Len(f) \in Nat /\ Len(f) = Len(f) /\ Len(f) < Len(p) + 9
  BY <1>1, <1>4
<1>7. Decode(f) = NoFrame
  BY <1>1, <1>5, <1>6, DecodeShort
<1> QED
  BY <1>4, <1>7 DEF f

(* Damage in one burst is near one place of what is checked, or at the     *)
(* start of the frame.                                                     *)
LEMMA DamageNear ==
  ASSUME NEW F, Intact(F), Burst(F)
  PROVE  \E a \in Nat : a # 0 /\ \A f \in F : f[1] <= 1 \/ Near(a, f[1] - 1)
<1>1. CASE F = {}
  <2>1. 1 \in Nat /\ 1 # 0
    OBVIOUS
  <2> QED
    BY <1>1, <2>1
<1>2. CASE F # {}
  <2> DEFINE P == {f[1] : f \in F}
  <2>1. P \subseteq Nat /\ P # {}
    BY <1>2 DEF Intact
  <2>2. PICK q \in P : \A m \in P : q <= m
    <3> HIDE DEF P
    <3> QED
      BY <2>1, Least
  <2>3. \A f \in F : f[1] \in Nat /\ q <= f[1] /\ f[1] - q \in -3..3
    BY <2>2 DEF Intact, Burst
  <2>4. q \in Nat
    BY <2>1
  <2> HIDE DEF P
  <2> DEFINE a == IF q <= 1 THEN 1 ELSE q - 1
  <2>5. a \in Nat /\ a # 0
    BY <2>4
  <2>6. ASSUME NEW f \in F PROVE f[1] <= 1 \/ Near(a, f[1] - 1)
    <3>1. f[1] \in Nat /\ q <= f[1] /\ f[1] <= q + 3
      BY <2>3, <2>4
    <3> QED
      BY <2>4, <3>1 DEF Near
  <2> HIDE DEF a
  <2> QED
    BY <2>5, <2>6
<1> QED
  BY <1>1, <1>2

(* What acceptance tells of the bytes in the buffer.                       *)
LEMMA DecodeAccepts ==
  ASSUME NEW buf, NEW n \in Nat, LengthOf(buf) = n, Decode(buf).rc = "OK"
  PROVE  /\ Bytes(Crc32(SubSeq(buf, 2, 4 + n)), 4) = SubSeq(buf, 5 + n, 8 + n)
         /\ Decode(buf).type = buf[4] /\ Decode(buf).payload = SubSeq(buf, 5, 4 + n)
<1> DEFINE sums == Bytes(Crc32(SubSeq(buf, 2, 4 + n)), 4) = SubSeq(buf, 5 + n, 8 + n)
           got  == [rc |-> IF sums THEN "OK" ELSE "UNKNOWN", type |-> buf[4],
                    payload |-> SubSeq(buf, 5, 4 + n)]
<1>1. Value(buf[2]) + 256 * Value(buf[3]) = n
  BY Zenon DEF LengthOf
<1>2. Decode(buf) = NoFrame \/ Decode(buf) = got
  BY <1>1, ZenonT(40) DEF Decode
<1>3. NoFrame.rc # "OK"
  BY DEF NoFrame
<1>4. Decode(buf) = got
  BY <1>2, <1>3, Zenon
<1>5. got.type = buf[4] /\ got.payload = SubSeq(buf, 5, 4 + n) /\ (got.rc = "OK" => sums)
  <2> HIDE DEF sums
  <2> QED
    OBVIOUS
<1>6. sums
  BY <1>4, <1>5, Zenon
<1> HIDE DEF got
<1> QED
  BY <1>4, <1>5, <1>6, Zenon

(* A frame in which a burst of bits was flipped beside the length is       *)
(* refused, or what is read from it is what was sent.                      *)
LEMMA DecodeDamaged ==
  ASSUME NEW t \in Octets, NEW p \in Seq(Octets), Len(p) <= FrameMaxPayload,
         NEW w, NEW F, Carried(w, Encode(t, p), F), Intact(F), Burst(F),
         NEW more \in Seq(Octets), Decode(w \o more).rc = "OK"
  PROVE  Decode(w \o more).type = t /\ Decode(w \o more).payload = p
<1>1. PICK c : EncodedAs(t, p, c, Encode(t, p))
  BY EncodeIs
<1>2. PICK a \in Nat : a # 0 /\ \A f \in F : f[1] <= 1 \/ Near(a, f[1] - 1)
  BY DamageNear
<1> DEFINE n   == Len(p)
           e   == Encode(t, p)
           buf == w \o more
           r   == SubSeq(buf, 2, 4 + n)
           sum == SubSeq(buf, 5 + n, 8 + n)
           N   == n + 3
<1>3. LengthOf(w) = n /\ Len(w) = n + 9 /\ n \in Nat /\ w \in Seq(Octets) /\ Len(e) = n + 9
  <2>1. LengthOf(w) = n /\ Len(w) = n + 9
    BY CarriedLength, Zenon
  <2>2. n \in Nat
    OBVIOUS
  <2>3. w \in Seq(Octets) /\ Len(w) = Len(e)
    BY DEF Carried
  <2> QED
    BY <2>1, <2>2, <2>3, Zenon
<1>4. Carried(w, e, F) /\ EncodedAs(t, p, c, e) /\ Decode(buf).rc = "OK" /\ n = Len(p)
  BY <1>1
<1>b. buf = w \o more
  OBVIOUS
<1> HIDE DEF n, e
<1>5. buf \in Seq(Octets) /\ Len(buf) = Len(w) + Len(more) /\ \A i \in 1..Len(w) : buf[i] = w[i]
  BY <1>3, JoinIs
<1>6. LengthOf(buf) = n
  <2>1. 2 \in 1..Len(w) /\ 3 \in 1..Len(w)
    BY <1>3
  <2> QED
    BY <1>3, <1>5, <2>1 DEF LengthOf
<1>m. Len(more) \in Nat
  OBVIOUS
<1> HIDE DEF buf
<1>l. Len(buf) \in Nat /\ n + 9 <= Len(buf)
  BY <1>3, <1>5, <1>m
<1>7. Bytes(Crc32(r), 4) = sum /\ Decode(buf).type = buf[4] /\ Decode(buf).payload = SubSeq(buf, 5, 4 + n)
  BY <1>3, <1>4, <1>6, DecodeAccepts
<1>8. r \in Seq(Octets) /\ Len(r) = N /\ \A k \in 1..N : r[k] = buf[k + 1]
  BY <1>3, <1>5, <1>l
<1>9. \A j \in 1..4 : sum[j] = buf[j + (N + 1)]
  BY <1>3, <1>5, <1>l
<1>10. N \in Nat /\ Len(c) = N /\ c \in Seq(Octets)
  BY <1>3, <1>4 DEF EncodedAs
<1> HIDE DEF r, sum
<1>11. ASSUME NEW i \in 2..(n + 8), w[i] # e[i] PROVE Near(a, i - 1)
  <2>1. i \in 1..Len(e) /\ i > 1
    BY <1>3
  <2>2. PICK f \in F : f[1] = i
    BY <1>4, <1>11, <2>1 DEF Carried
  <2>3. f[1] <= 1 \/ Near(a, f[1] - 1)
    BY <1>2
  <2> QED
    BY <2>1, <2>2, <2>3
<1>12. ASSUME NEW k \in 1..N, c[k] # r[k] PROVE Near(a, k)
  <2>1. k + 1 \in 2..(n + 8) /\ k + 1 \in 1..Len(w) /\ (k + 1) - 1 = k /\ k \in 1..Len(c)
    BY <1>3, <1>10
  <2>2. r[k] = w[k + 1] /\ c[k] = e[k + 1]
    BY <1>4, <1>5, <1>8, <2>1, Zenon DEF EncodedAs
  <2>3. Near(a, (k + 1) - 1)
    BY <1>11, <1>12, <2>1, <2>2
  <2> QED
    BY <2>1, <2>3
<1>13. ASSUME NEW j \in 1..4, Bytes(Crc32(c), 4)[j] # Bytes(Crc32(r), 4)[j] PROVE Near(a, N + j)
  <2>1. /\ j + (N + 1) \in 2..(n + 8) /\ j + (N + 1) \in 1..Len(w)
        /\ (j + (N + 1)) - 1 = N + j
    BY <1>3
  <2>2. Bytes(Crc32(r), 4)[j] = w[j + (N + 1)]
    BY <1>5, <1>7, <1>9, <2>1, Zenon
  <2>3. Bytes(Crc32(c), 4)[j] = e[j + (N + 1)]
    BY <1>4, <1>10, Zenon DEF EncodedAs
  <2>4. Near(a, (j + (N + 1)) - 1)
    BY <1>11, <1>13, <2>1, <2>2, <2>3
  <2> QED
    BY <2>1, <2>4
<1> HIDE DEF N
<1>14. c = r
  <2>1. DifferNear(c, r, N, a)
    BY <1>12, <1>13 DEF DifferNear
  <2> QED
    BY <1>2, <1>8, <1>10, <2>1, BurstSeen
<1>15. N = n + 3
  BY DEF N
<1>16. buf[4] = t
  <2>1. 3 \in 1..N /\ 3 + 1 = 4
    BY <1>3, <1>15
  <2>2. r[3] = buf[3 + 1] /\ c[3] = t
    BY <1>4, <1>8, <2>1, Zenon DEF EncodedAs
  <2> QED
    BY <1>14, <2>1, <2>2
<1>17. SubSeq(buf, 5, 4 + n) = p
  <2>1. ASSUME NEW i \in 1..Len(p) PROVE buf[i + 4] = p[i]
    <3>1. i + 3 \in 1..N /\ (i + 3) + 1 = i + 4
      BY <1>3, <1>4, <1>15
    <3>2. r[i + 3] = buf[(i + 3) + 1] /\ c[i + 3] = p[i]
      BY <1>4, <1>8, <3>1, Zenon DEF EncodedAs
    <3> QED
      BY <1>14, <3>1, <3>2
  <2>2. 4 \in Nat /\ 4 + Len(p) <= Len(buf) /\ 4 + 1 = 5
    BY <1>3, <1>4, <1>l
  <2>3. SubSeq(buf, 4 + 1, 4 + Len(p)) = p
    BY <1>5, <2>1, <2>2, PartIs
  <2> QED
    BY <1>4, <2>2, <2>3
<1> QED
  BY <1>b, <1>7, <1>16, <1>17, Zenon

(* What is on the line is what was encoded, but for the bytes of the       *)
(* flipped bits; and what was decoded is what the frame allows.            *)
OnTheLine ==
  /\ link.type \in Octets /\ link.payload \in Seq(Octets)
  /\ Len(link.payload) <= FrameMaxPayload
  /\ Carried(link.wire, Encode(link.type, link.payload), link.flips)

FrameInv ==
  /\ link = [pc |-> link.pc, type |-> link.type, payload |-> link.payload,
             wire |-> link.wire, flips |-> link.flips, got |-> link.got]
  /\ \A f \in link.flips : f[1] \in Nat
  /\ link.pc = "idle" => link.flips = {}
  /\ link.pc = "line" => OnTheLine
  /\ FramesSurvive

LEMMA FrameInvInit == FramesStart => FrameInv
BY DEF FramesStart, FrameInv, FramesSurvive, Accepted

LEMMA SendKeeps ==
  ASSUME FrameInv, NEW t \in FrameTypes, NEW p \in FramePayloads, FrameSend(t, p)
  PROVE  FrameInv'
<1>1. t \in Octets /\ p \in Seq(Octets) /\ Len(p) <= FrameMaxPayload
  BY FramesAssumption DEF Octets, FrameSend
<1> DEFINE e == Encode(t, p)
<1>2. link' = [pc |-> "line", type |-> t, payload |-> p, wire |-> e,
               flips |-> {}, got |-> link.got]
  BY DEF FrameInv, FrameSend
<1>e. e = Encode(t, p)
  OBVIOUS
<1> HIDE DEF e
<1>3. /\ link'.pc = "line" /\ link'.type = t /\ link'.payload = p /\ link'.wire = e
      /\ link'.flips = {} /\ link'.got = link.got
  BY <1>2
<1>4. OnTheLine'
  <2>1. PICK c : EncodedAs(t, p, c, Encode(t, p))
    BY <1>1, EncodeIs
  <2>2. Carried(e, e, {})
    BY <1>e, <2>1, Zenon DEF EncodedAs, Carried
  <2> QED
    BY <1>1, <1>3, <1>e, <2>2, Zenon DEF OnTheLine
<1>5. FramesSurvive'
  BY <1>3 DEF FramesSurvive, Accepted
<1>6. link' = [pc |-> link'.pc, type |-> link'.type, payload |-> link'.payload,
               wire |-> link'.wire, flips |-> link'.flips, got |-> link'.got]
  BY <1>2, <1>3, Zenon
<1> QED
  BY <1>3, <1>4, <1>5, <1>6, Zenon DEF FrameInv

LEMMA FlipCarries ==
  ASSUME NEW w, NEW e, NEW F, Carried(w, e, F), NEW i \in DOMAIN w, NEW bit \in 0..7
  PROVE  /\ Carried([w EXCEPT ![i] = SymDiff(@, {bit})], e, F \cup {<<i, bit>>})
         /\ i \in Nat
<1> DEFINE b == SymDiff(w[i], {bit})
           v == [w EXCEPT ![i] = b]
<1>1. w \in Seq(Octets) /\ i \in 1..Len(w) /\ w[i] \in Octets
  BY DEF Carried
<1>2. b \in Octets
  BY <1>1 DEF SymDiff, Octets
<1>v. v = [w EXCEPT ![i] = SymDiff(@, {bit})]
  OBVIOUS
<1> HIDE DEF b
<1>3. v \in Seq(Octets) /\ Len(v) = Len(w) /\ \A k \in 1..Len(w) : k # i => v[k] = w[k]
  BY <1>1, <1>2
<1> HIDE DEF v
<1>4. ASSUME NEW k \in 1..Len(e), v[k] # e[k] PROVE \E f \in F \cup {<<i, bit>>} : f[1] = k
  <2>1. CASE k = i
    <3>1. <<i, bit>>[1] = k
      BY <2>1
    <3> QED
      BY <3>1
  <2>2. CASE k # i
    <3>1. w[k] # e[k]
      BY <1>3, <1>4, <2>2 DEF Carried
    <3> QED
      BY <3>1 DEF Carried
  <2> QED
    BY <2>1, <2>2
<1>5. Carried(v, e, F \cup {<<i, bit>>})
  BY <1>3, <1>4 DEF Carried
<1> QED
  BY <1>1, <1>5, <1>v

LEMMA FlipsKeep ==
  ASSUME FrameInv, NEW i \in DOMAIN link.wire, NEW bit \in 0..7, LineFlips(i, bit)
  PROVE  FrameInv'
<1> DEFINE w == [link.wire EXCEPT ![i] = SymDiff(@, {bit})]
           f == link.flips \cup {<<i, bit>>}
<1>1. link' = [link EXCEPT !.wire = w, !.flips = f]
  BY DEF LineFlips
<1>2. OnTheLine /\ link.pc = "line"
  BY DEF FrameInv, LineFlips
<1>3. Carried(w, Encode(link.type, link.payload), f) /\ i \in Nat
  BY <1>2, FlipCarries DEF OnTheLine
<1>4. \A g \in f : g[1] \in Nat
  BY <1>3 DEF FrameInv
<1> HIDE DEF w, f
<1>5. link' = [pc |-> link.pc, type |-> link.type, payload |-> link.payload,
               wire |-> w, flips |-> f, got |-> link.got]
  BY <1>1 DEF FrameInv
<1>6. link'.pc = link.pc /\ link'.type = link.type /\ link'.payload = link.payload
      /\ link'.wire = w /\ link'.flips = f /\ link'.got = link.got
  BY <1>5
<1>7. link' = [pc |-> link'.pc, type |-> link'.type, payload |-> link'.payload,
               wire |-> link'.wire, flips |-> link'.flips, got |-> link'.got]
  BY <1>5, <1>6, Zenon
<1>8. OnTheLine'
  BY <1>2, <1>3, <1>6, Zenon DEF OnTheLine
<1>9. FramesSurvive'
  BY <1>2, <1>6 DEF FramesSurvive, Accepted
<1> QED
  BY <1>2, <1>4, <1>6, <1>7, <1>8, <1>9 DEF FrameInv

(* A buffer holds what the line carried and more, or not the last byte.    *)
Received(buf, w) == (\E more \in Seq(Octets) : buf = w \o more) \/ buf = Front(w)

LEMMA ReceivedIsDecoded ==
  ASSUME NEW t \in Octets, NEW p \in Seq(Octets), Len(p) <= FrameMaxPayload,
         NEW w, NEW F, Carried(w, Encode(t, p), F), \A f \in F : f[1] \in Nat,
         NEW buf, Received(buf, w)
  PROVE  /\ F = {} /\ Len(buf) >= Len(p) + 9 => Decode(buf).rc = "OK"
         /\ Decode(buf).rc = "OK" /\ (\A f \in F : f[1] \notin {2, 3}) /\ Burst(F)
              => Decode(buf).type = t /\ Decode(buf).payload = p
<1>1. CASE buf = Front(w)
  <2> SUFFICES ASSUME \A f \in F : f[1] \notin {2, 3}
               PROVE  Decode(buf).rc # "OK" /\ ~(Len(buf) >= Len(p) + 9)
    OBVIOUS
  <2>1. Intact(F)
    BY DEF Intact
  <2>2. Decode(buf) = NoFrame /\ Len(buf) = Len(p) + 8
    BY <1>1, <2>1, DecodeCut
  <2>3. Len(p) \in Nat /\ NoFrame.rc # "OK"
    BY DEF NoFrame
  <2> QED
    BY <2>2, <2>3
<1>2. ASSUME NEW more \in Seq(Octets), buf = w \o more
      PROVE  /\ F = {} => Decode(buf).rc = "OK"
             /\ Decode(buf).rc = "OK" /\ (\A f \in F : f[1] \notin {2, 3}) /\ Burst(F)
                  => Decode(buf).type = t /\ Decode(buf).payload = p
  <2>1. ASSUME F = {} PROVE Decode(buf).rc = "OK"
    <3> DEFINE e == Encode(t, p)
    <3>1. PICK c : EncodedAs(t, p, c, e)
      BY EncodeIs
    <3>2. e \in Seq(Octets)
      BY <3>1 DEF EncodedAs
    <3>3. Carried(w, e, {})
      BY <2>1
    <3>4. Decode(e \o more) = [rc |-> "OK", type |-> t, payload |-> p]
      BY DecodeWhole
    <3> HIDE DEF e
    <3>5. w = e
      BY <3>2, <3>3 DEF Carried
    <3> QED
      BY <1>2, <3>4, <3>5
  <2>2. ASSUME Decode(buf).rc = "OK", \A f \in F : f[1] \notin {2, 3}, Burst(F)
        PROVE  Decode(buf).type = t /\ Decode(buf).payload = p
    <3>1. Intact(F)
      BY <2>2 DEF Intact
    <3>2. Decode(w \o more).rc = "OK"
      BY <1>2, <2>2
    <3>3. Decode(w \o more).type = t /\ Decode(w \o more).payload = p
      BY <2>2, <3>1, <3>2, DecodeDamaged
    <3> QED
      BY <1>2, <3>3
  <2> QED
    BY <2>1, <2>2
<1> QED
  BY <1>1, <1>2, Zenon DEF Received

LEMMA ReceiveKeeps ==
  ASSUME FrameInv, NEW buf, FrameReceive(buf), Received(buf, link.wire)
  PROVE  FrameInv'
<1> DEFINE d == Decode(buf)
<1>0. link.pc = "line" /\ OnTheLine /\ \A f \in link.flips : f[1] \in Nat
  BY DEF FrameReceive, FrameInv
<1>1. link' = [link EXCEPT !.pc = "done", !.wire = buf, !.got = d]
  BY DEF FrameReceive
<1>d. /\ link.flips = {} /\ Len(buf) >= Len(link.payload) + 9 => d.rc = "OK"
      /\ d.rc = "OK" /\ (\A f \in link.flips : f[1] \notin {2, 3}) /\ Burst(link.flips)
           => d.type = link.type /\ d.payload = link.payload
  BY <1>0, ReceivedIsDecoded DEF OnTheLine
<1> HIDE DEF d
<1>2. link' = [pc |-> "done", type |-> link.type, payload |-> link.payload,
               wire |-> buf, flips |-> link.flips, got |-> d]
  BY <1>1 DEF FrameInv
<1>3. link'.pc = "done" /\ link'.type = link.type /\ link'.payload = link.payload
      /\ link'.wire = buf /\ link'.flips = link.flips /\ link'.got = d
  BY <1>2
<1>4. link' = [pc |-> link'.pc, type |-> link'.type, payload |-> link'.payload,
               wire |-> link'.wire, flips |-> link'.flips, got |-> link'.got]
  BY <1>2, <1>3, Zenon
<1>5. FramesSurvive'
  BY <1>3, <1>d, Zenon DEF FramesSurvive, Accepted, AsSent, LengthIntact, OneBurst, Burst
<1>6. link'.pc # "line" /\ link'.pc # "idle"
  BY <1>3
<1> QED
  BY <1>0, <1>3, <1>4, <1>5, <1>6, Zenon DEF FrameInv

LEMMA FrameInvNext == FrameInv /\ [FramesNext]_link => FrameInv'
<1> SUFFICES ASSUME FrameInv, [FramesNext]_link
             PROVE  FrameInv'
  OBVIOUS
<1>w. ASSUME link.pc = "line" PROVE link.wire \in Seq(Octets)
  BY <1>w DEF FrameInv, OnTheLine, Carried
<1>1. ASSUME NEW type \in FrameTypes, NEW payload \in FramePayloads, FrameSend(type, payload)
      PROVE  FrameInv'
  BY <1>1, SendKeeps
<1>2. ASSUME NEW i \in DOMAIN link.wire, NEW bit \in 0..7, LineFlips(i, bit)
      PROVE  FrameInv'
  BY <1>2, FlipsKeep
<1>3. CASE FrameReceive(link.wire)
  <2>1. link.wire \in Seq(Octets)
    BY <1>3, <1>w DEF FrameReceive
  <2>2. ASSUME NEW w \in Seq(Octets) PROVE w = w \o <<>> /\ <<>> \in Seq(Octets)
    OBVIOUS
  <2>3. Received(link.wire, link.wire)
    BY <2>1, <2>2, Zenon DEF Received
  <2> QED
    BY <1>3, <2>3, ReceiveKeeps
<1>4. CASE FrameReceive(Front(link.wire))
  BY <1>4, ReceiveKeeps DEF Received
<1>5. CASE FrameReceive(link.wire \o <<EOF, SOF, EOF, EOF>>)
  <2>1. <<EOF, SOF, EOF, EOF>> \in Seq(Octets)
    BY SignsAre
  <2>2. Received(link.wire \o <<EOF, SOF, EOF, EOF>>, link.wire)
    BY <2>1, Zenon DEF Received
  <2> QED
    BY <1>5, <2>2, ReceiveKeeps
<1>6. CASE UNCHANGED link
  BY <1>6 DEF FrameInv, OnTheLine, FramesSurvive, Accepted, AsSent, LengthIntact, OneBurst
<1> QED
  BY <1>1, <1>2, <1>3, <1>4, <1>5, <1>6 DEF FramesNext

(* A frame that arrives whole and undamaged is accepted, whatever comes    *)
(* behind it in the buffer, and what is accepted is what was sent, for     *)
(* payloads of any bytes up to the limit, wherever the buffer ends and     *)
(* whatever is flipped within four neighbouring bytes that are not the     *)
(* length: the checksum sees every such burst (comm_frame_encode,          *)
(* comm_frame_decode, comm_crc32).                                         *)
THEOREM FramesAlwaysSurvive == FramesSpec => []FramesSurvive
<1>1. FrameInv => FramesSurvive
  BY DEF FrameInv
<1> QED
  BY <1>1, FrameInvInit, FrameInvNext, PTL DEF FramesSpec

-----------------------------------------------------------------------------
(* Cloud adapters and routing.                                             *)

Contexts ==
  [endpoint : BOOLEAN, model : Nat, tokens : {0, 256}, init : {"never", "OK", "INVAL"}]

ContextsOK ==
  /\ contexts = [a \in Adapters |-> contexts[a]]
  /\ \A a \in Adapters : contexts[a] \in Contexts

(* A request is refused, or it is a body that was printed whole, within    *)
(* the buffers.                                                            *)
Fits(sent) ==
  /\ sent \in [rc : {"INVAL", "POST"}, body : 0..(BodySize - 1), printed : 0..(BodySize - 1),
               copied : 0..BodySize]
  /\ sent.body = sent.printed

LEMMA FittingStays ==
  ASSUME NEW sent, Fits(sent)
  PROVE  /\ sent.body \in Nat /\ sent.body < BodySize
         /\ sent.copied \in Nat /\ sent.copied <= BodySize
         /\ sent.body = sent.printed
<1>1. sent.body \in 0..511 /\ sent.copied \in 0..512
  BY DEF Fits, BodySize
<1> QED
  BY <1>1 DEF Fits, BodySize

LEMMA BodyFits ==
  ASSUME NEW n \in Nat
  PROVE  Fits(Body(n))
BY DEF Fits, Body, Printed, Stored, BodySize, Refused

LEMMA NamesAreNumbers ==
  ASSUME NEW c \in Contexts
  PROVE  Name(c) \in Nat /\ Digits(c.tokens) \in 1..3
BY DEF Contexts, Name, Digits

LEMMA PayloadFits ==
  ASSUME NEW text, text.len \in Nat, NEW sent, Fits(sent)
  PROVE  Fits(Payload(text, sent))
BY DEF Fits, Payload, BodySize, Refused

(* Every adapter and kind of request.                                      *)
LEMMA ChatFits ==
  ASSUME NEW c \in Contexts, NEW text, text.nul \in Nat, NEW a \in Adapters
  PROVE  Fits(ChatBody(a, c, text))
<1> DEFINE n1 == 54 + Name(c) + text.nul
           n2 == 68 + Name(c) + Digits(c.tokens) + text.nul
           n3 == 107 + text.nul
           n4 == 75 + 4 + text.nul
<1>1. n1 \in Nat /\ n2 \in Nat /\ n3 \in Nat /\ n4 \in Nat
  BY NamesAreNumbers
<1>2. ChatBody(a, c, text) \in {Body(n1), Body(n2), Body(n3), Body(n4)}
  <2> HIDE DEF n1, n2, n3, n4
  <2> QED
    BY DEF Adapters, ChatBody, OpenAIChat, ClaudeChat, A2AChat, MCPChat,
           OpenAIBody, ClaudeBody, A2ABody, MCPBody, n1, n2, n3, n4
<1> HIDE DEF n1, n2, n3, n4
<1> QED
  BY <1>1, <1>2, BodyFits

LEMMA AgentRunFits ==
  ASSUME NEW c \in Contexts, NEW text, text.len \in Nat, text.nul \in Nat, NEW a \in Adapters
  PROVE  Fits(AgentRunBody(a, c, text))
<1> DEFINE n1 == 54 + Name(c) + text.nul
           n2 == 68 + Name(c) + Digits(c.tokens) + text.nul
           n3 == 107 + text.nul
           n4 == 75 + 9 + text.nul
<1>1. n1 \in Nat /\ n2 \in Nat /\ n3 \in Nat /\ n4 \in Nat
  BY NamesAreNumbers
<1>2. \/ AgentRunBody(a, c, text) = Payload(text, Body(n1))
      \/ AgentRunBody(a, c, text) = Payload(text, Body(n2))
      \/ AgentRunBody(a, c, text) = Payload(text, Body(n3))
      \/ AgentRunBody(a, c, text) = Payload(text, Body(n4))
  <2> HIDE DEF n1, n2, n3, n4
  <2> QED
    BY DEF Adapters, AgentRunBody, OpenAIAgentRun, ClaudeAgentRun, A2AAgentRun,
           MCPAgentRun, OpenAIBody, ClaudeBody, A2ABody, MCPBody, n1, n2, n3, n4
<1> HIDE DEF n1, n2, n3, n4
<1> QED
  BY <1>1, <1>2, BodyFits, PayloadFits

LEMMA ToolCallFits ==
  ASSUME NEW c \in Contexts, NEW text, text.len \in Nat, text.nul \in Nat, NEW a \in Adapters,
         NEW tool \in Nat
  PROVE  Fits(ToolCallBody(a, c, tool, text))
<1> DEFINE n1 == 54 + 21 + Name(c) + tool + text.nul
           n2 == 68 + 21 + Name(c) + Digits(c.tokens) + tool + text.nul
           n3 == 107 + text.nul
           n4 == 75 + tool + text.nul
<1>1. n1 \in Nat /\ n2 \in Nat /\ n3 \in Nat /\ n4 \in Nat
  BY NamesAreNumbers
<1>2. \/ ToolCallBody(a, c, tool, text) = Payload(text, Body(n1))
      \/ ToolCallBody(a, c, tool, text) = Payload(text, Body(n2))
      \/ ToolCallBody(a, c, tool, text) = Payload(text, Body(n3))
      \/ ToolCallBody(a, c, tool, text) = Payload(text, Body(n4))
  <2> HIDE DEF n1, n2, n3, n4
  <2> QED
    BY DEF Adapters, ToolCallBody, OpenAIToolCall, ClaudeToolCall, A2AToolCall, MCPToolCall,
           A2ABody, MCPBody, n1, n2, n3, n4
<1> HIDE DEF n1, n2, n3, n4
<1> QED
  BY <1>1, <1>2, BodyFits, PayloadFits

-----------------------------------------------------------------------------
PostedOK ==
  /\ posted = [adapter |-> posted.adapter, text |-> posted.text, sent |-> posted.sent]
  /\ Fits(posted.sent)

(* A routed inference between its two steps has a local output that will   *)
(* not do, and an adapter to ask.                                          *)
RouteOK ==
  /\ route \in [pc : {"rest", "cloud", "done"}, mode : Modes, adapter : Adapters \cup {NoAdapter},
                byte : 0..255, from : {"before", "local", "cloud"}, posted : BOOLEAN,
                rc : {"OK", "FAIL", "INVAL", "NOCLOUD", "TIMEOUT"}]
  /\ route.pc # "done" => ~route.posted
  /\ route.pc = "cloud" => /\ route.rc = "OK" /\ route.from = "local"
                           /\ route.mode \notin {"LOCAL_ONLY", "UNKNOWN"}
                           /\ route.adapter # NoAdapter
  /\ RouteHonoursMode

CloudInv ==
  /\ registry \in Seq(Adapters) /\ Len(registry) <= CloudSlots
  /\ transport \in {"hal", "application"}
  /\ ContextsOK /\ PostedOK /\ RouteOK

LEMMA CloudStartHolds == CloudStart => CloudInv
<1> SUFFICES ASSUME CloudStart PROVE CloudInv
  OBVIOUS
<1>1. registry \in Seq(Adapters) /\ Len(registry) <= CloudSlots
  BY CloudAssumption DEF CloudStart
<1>2. ContextsOK
  <2>1. DefaultContext \in Contexts /\ ClaudeContext \in Contexts
    BY DEF Contexts, DefaultContext, ClaudeContext
  <2> DEFINE C == AdapterContext
  <2>2. C = [a \in Adapters |-> C[a]]
    BY DEF AdapterContext, Adapters
  <2>3. \A a \in Adapters : C[a] = DefaultContext \/ C[a] = ClaudeContext
    BY DEF AdapterContext, Adapters, OpenAIContext, A2AContext, MCPContext
  <2> HIDE DEF C
  <2>4. contexts = C
    BY DEF CloudStart, C
  <2> QED
    BY <2>1, <2>2, <2>3, <2>4 DEF ContextsOK
<1>3. PostedOK
  BY DEF CloudStart, PostedOK, Fits, Refused, BodySize
<1>4. RouteOK
  BY DEF CloudStart, RouteOK, RouteHonoursMode, NoRoute, Modes
<1> QED
  BY <1>1, <1>2, <1>3, <1>4 DEF CloudInv, CloudStart

LEMMA RegistryHolds ==
  ASSUME CloudInv, RegistryNext
  PROVE  CloudInv'
<1>1. /\ UNCHANGED <<contexts, transport, posted, route>>
      /\ registry' = <<>> \/ /\ Len(registry) < CloudSlots
                             /\ \E a \in Adapters : registry' = Append(registry, a)
  BY DEF RegistryNext, AIServiceInit, RegisterCloudAdapter
<1>2. registry' \in Seq(Adapters) /\ Len(registry') <= CloudSlots
  <2>1. <<>> \in Seq(Adapters) /\ Len(<<>>) <= CloudSlots
    BY CloudAssumption
  <2>2. ASSUME NEW a \in Adapters, Len(registry) < CloudSlots, registry' = Append(registry, a)
        PROVE  registry' \in Seq(Adapters) /\ Len(registry') <= CloudSlots
    BY <2>2, CloudAssumption DEF CloudInv
  <2> QED
    BY <1>1, <2>1, <2>2
<1> QED
  BY <1>1, <1>2 DEF CloudInv, ContextsOK, PostedOK, RouteOK, RouteHonoursMode

LEMMA ConfigureHolds ==
  ASSUME CloudInv, NEW a \in Adapters, NEW config \in Configs, CloudAdapterInit(a, config)
  PROVE  CloudInv'
<1> DEFINE c == [config EXCEPT !.init = AdapterInit(a, config)]
<1>1. AdapterInit(a, config) \in {"OK", "INVAL"}
  BY DEF Adapters, AdapterInit, OpenAIInit, ClaudeInit, A2AInit, MCPInit
<1>2. c \in Contexts
  <2> DEFINE init == AdapterInit(a, config)
  <2> HIDE DEF init
  <2>1. [config EXCEPT !.init = init] \in Contexts
    BY <1>1, CloudAssumption DEF Configs, Contexts, init
  <2> QED
    BY <2>1 DEF init
<1>3. contexts' = [contexts EXCEPT ![a] = c] /\ UNCHANGED <<registry, transport, posted, route>>
  BY DEF CloudAdapterInit
<1> HIDE DEF c
<1>4. ContextsOK'
  BY <1>2, <1>3 DEF CloudInv, ContextsOK
<1> QED
  BY <1>3, <1>4 DEF CloudInv, PostedOK, RouteOK, RouteHonoursMode

LEMMA CallHolds ==
  ASSUME CloudInv, NEW a \in Adapters, NEW text \in Texts, NEW tool \in {0, 8},
         CloudCall(a, text, tool)
  PROVE  CloudInv'
<1>1. /\ text.len \in Nat /\ text.nul \in Nat
      /\ contexts[a] \in Contexts /\ tool \in Nat
  BY CloudAssumption DEF Texts, CloudInv, ContextsOK
<1>2. PICK sent \in {ChatBody(a, contexts[a], text), AgentRunBody(a, contexts[a], text),
                     ToolCallBody(a, contexts[a], tool, text)} :
        posted' = [adapter |-> a, text |-> text, sent |-> sent]
  BY DEF CloudCall
<1>3. Fits(sent)
  BY <1>1, <1>2, ChatFits, AgentRunFits, ToolCallFits
<1>4. PostedOK'
  BY <1>2, <1>3 DEF PostedOK
<1> QED
  BY <1>4 DEF CloudCall, CloudInv, ContextsOK, RouteOK, RouteHonoursMode

LEMMA TransportHolds ==
  ASSUME CloudInv, NEW t \in {"hal", "application"}, SetTransport(t)
  PROVE  CloudInv'
BY DEF CloudInv, SetTransport, ContextsOK, PostedOK, RouteOK, RouteHonoursMode

LEMMA LocalHolds ==
  ASSUME CloudInv, NEW mode \in Modes, NEW a \in Adapters \cup {NoAdapter},
         NEW rc \in {"OK", "FAIL"}, NEW byte \in 0..255, NEW slow \in BOOLEAN,
         RouteLocal(mode, a, rc, byte, slow)
  PROVE  CloudInv'
<1> DEFINE outcome == LocalOutcome(mode, a, rc, byte, slow)
           from    == IF rc = "OK" THEN "local" ELSE "before"
           pc      == IF outcome = "ASK" THEN "cloud" ELSE "done"
           result  == IF outcome = "ASK" THEN "OK" ELSE outcome
<1>1. UNCHANGED <<registry, contexts, transport, posted>>
  BY DEF RouteLocal
<1>2. route' = [pc |-> pc, mode |-> mode, adapter |-> a, byte |-> byte, from |-> from,
                posted |-> FALSE, rc |-> result]
  <2> HIDE DEF outcome
  <2> QED
    BY DEF RouteLocal, NoRoute, outcome
<1>3. /\ outcome \in {"OK", "FAIL", "INVAL", "NOCLOUD", "ASK"}
      /\ outcome = "OK" => /\ mode = "LOCAL_FIRST" => Confident(byte, 70)
                           /\ mode \notin {"CLOUD_FIRST", "CLOUD_ONLY", "UNKNOWN"}
      /\ outcome = "ASK" => /\ rc = "OK" /\ a # NoAdapter
                            /\ mode \notin {"LOCAL_ONLY", "UNKNOWN"}
  BY DEF LocalOutcome, LocalWillDo
<1> HIDE DEF outcome
<1>4. RouteOK'
  <2>1. route' \in [pc : {"rest", "cloud", "done"}, mode : Modes,
                    adapter : Adapters \cup {NoAdapter}, byte : 0..255,
                    from : {"before", "local", "cloud"}, posted : BOOLEAN,
                    rc : {"OK", "FAIL", "INVAL", "NOCLOUD", "TIMEOUT"}]
    BY <1>2, <1>3
  <2>2. /\ route'.pc = pc /\ route'.mode = mode /\ route'.adapter = a /\ route'.byte = byte
        /\ route'.from = from /\ route'.posted = FALSE /\ route'.rc = result
    BY <1>2
  <2> QED
    BY <1>3, <2>1, <2>2 DEF RouteOK, RouteHonoursMode
<1> QED
  BY <1>1, <1>4 DEF CloudInv, ContextsOK, PostedOK

LEMMA CloudHolds ==
  ASSUME CloudInv, NEW answer \in {"OK", "NOCLOUD", "BUSY"}, NEW length \in AnswerLens,
         RouteCloud(answer, length)
  PROVE  CloudInv'
<1> DEFINE sent == ChatBody(route.adapter, contexts[route.adapter], Prompt(route.mode))
           R == [pc : {"rest", "cloud", "done"}, mode : Modes,
                 adapter : Adapters \cup {NoAdapter}, byte : 0..255,
                 from : {"before", "local", "cloud"}, posted : BOOLEAN,
                 rc : {"OK", "FAIL", "INVAL", "NOCLOUD", "TIMEOUT"}]
           b == length % 256
<1>1. /\ UNCHANGED <<registry, contexts, transport, posted>>
      /\ route \in R /\ ~route.posted /\ route.rc = "OK" /\ route.from = "local"
      /\ route.mode \notin {"LOCAL_ONLY", "UNKNOWN"}
  BY DEF RouteCloud, CloudInv, RouteOK
<1>2. b \in 0..255
  <2>1. length \in Nat
    BY CloudAssumption
  <2> QED
    BY <2>1, Z3
<1> HIDE DEF b
<1>3. CASE sent.rc = "INVAL"
  <2>1. route' = [route EXCEPT !.pc = "done", !.rc = "TIMEOUT"]
    BY <1>3 DEF RouteCloud
  <2>2. /\ route' \in R /\ route'.rc = "TIMEOUT" /\ route'.from = "local" /\ ~route'.posted
    BY <1>1, <2>1
  <2>3. RouteOK'
    <3>1. route'.mode = route.mode /\ route'.pc = "done" /\ "cloud" # "local"
      BY <1>1, <2>1
    <3> QED
      BY <1>1, <2>2, <3>1 DEF RouteOK, RouteHonoursMode
  <2> QED
    BY <1>1, <2>3 DEF CloudInv, ContextsOK, PostedOK
<1>4. CASE sent.rc # "INVAL"
  <2> DEFINE rc   == IF answer = "OK" \/ answer = "NOCLOUD" THEN answer ELSE "TIMEOUT"
             byte == IF answer = "OK" THEN b ELSE route.byte
             from == IF answer = "OK" THEN "cloud" ELSE route.from
  <2>1. route' = [route EXCEPT !.pc = "done", !.posted = TRUE, !.rc = rc, !.byte = byte,
                               !.from = from]
    BY <1>4 DEF RouteCloud, b
  <2>2. /\ rc \in {"OK", "NOCLOUD", "TIMEOUT"} /\ byte \in 0..255
        /\ from \in {"local", "cloud"} /\ (rc = "OK" <=> from = "cloud")
    BY <1>1, <1>2
  <2> HIDE DEF rc, byte, from
  <2>3. /\ route' \in R /\ route'.rc = rc /\ route'.from = from /\ route'.posted
        /\ route'.mode = route.mode /\ route'.pc = "done"
    BY <1>1, <2>1, <2>2
  <2>4. RouteOK'
    BY <1>1, <2>2, <2>3 DEF RouteOK, RouteHonoursMode
  <2> QED
    BY <1>1, <2>4 DEF CloudInv, ContextsOK, PostedOK
<1> QED
  BY <1>3, <1>4

LEMMA CloudStepHolds == CloudInv /\ [CloudNext]_cloudVars => CloudInv'
<1> SUFFICES ASSUME CloudInv, [CloudNext]_cloudVars PROVE CloudInv'
  OBVIOUS
<1>1. CASE UNCHANGED cloudVars
  BY <1>1 DEF cloudVars, CloudInv, ContextsOK, PostedOK, RouteOK, RouteHonoursMode
<1>2. CASE ConfigureNext
  BY <1>2, ConfigureHolds DEF ConfigureNext
<1>3. CASE CallNext
  BY <1>2, <1>3, CallHolds DEF CallNext
<1>4. CASE RouteNext
  <2>1. ASSUME NEW mode \in Modes, NEW a \in Adapters \cup {NoAdapter},
               \/ RouteLocal(mode, a, "FAIL", 0, FALSE)
               \/ \E byte \in LocalBytes, slow \in BOOLEAN : RouteLocal(mode, a, "OK", byte, slow)
        PROVE  CloudInv'
    <3>1. 0 \in 0..255 /\ LocalBytes \subseteq 0..255
      BY CloudAssumption
    <3> QED
      BY <2>1, <3>1, LocalHolds
  <2>2. ASSUME NEW answer \in Answers, NEW length \in AnswerLens, RouteCloud(answer, length)
        PROVE  CloudInv'
    <3>1. answer \in {"OK", "NOCLOUD", "BUSY"}
      BY DEF Answers
    <3> QED
      BY <2>2, <3>1, CloudHolds
  <2> QED
    BY <1>2, <1>4, <2>1, <2>2, TransportHolds DEF RouteNext
<1> QED
  BY <1>1, <1>3, <1>4, RegistryHolds DEF CloudNext

LEMMA CloudAlways == CloudSpec => []CloudInv
BY CloudStartHolds, CloudStepHolds, PTL DEF CloudSpec

LEMMA CloudTyped == CloudInv => CloudTypes
<1> SUFFICES ASSUME CloudInv PROVE CloudTypes
  OBVIOUS
<1>1. ToSet(registry) \subseteq Adapters
  BY DEF CloudInv, ToSet
<1>2. posted.sent.body < BodySize
  BY FittingStays DEF CloudInv, PostedOK
<1>3. route.pc \in {"rest", "cloud", "done"} /\ route.byte \in 0..255
  BY DEF CloudInv, RouteOK
<1> QED
  BY <1>1, <1>2, <1>3 DEF CloudInv, CloudTypes

(* The registry stays within its size and names adapters, for every number *)
(* of slots and every text, name and answer (ai_service.c, the adapters).  *)
THEOREM CloudIsTyped == CloudSpec => []CloudTypes
BY CloudAlways, CloudTyped, PTL

(* For texts, payloads and names of any length and every adapter and kind  *)
(* of request, copies and bodies stay in their buffers and a body is       *)
(* posted whole (chat_completion, agent_run and tool_call of the adapters).*)
THEOREM PostsFit == CloudSpec => []PostsFitBuffers
<1>1. CloudInv => PostsFitBuffers
  BY FittingStays DEF CloudInv, PostedOK, PostsFitBuffers
<1> QED
  BY <1>1, CloudAlways, PTL

(* For every confidence, answer and prompt, and any change of adapters and *)
(* transport between the local run and the post, a routed inference keeps  *)
(* to its mode (xRouteInference).                                          *)
THEOREM RoutesHonourModes == CloudSpec => []RouteHonoursMode
<1>1. CloudInv => RouteHonoursMode
  BY DEF CloudInv, RouteOK
<1> QED
  BY <1>1, CloudAlways, PTL

(* A prompt fits beside a name of at most 390 bytes.                       *)
LEMMA PromptFits ==
  ASSUME NEW c \in Contexts, c.model <= 390, NEW a \in Adapters, NEW mode
  PROVE  ChatBody(a, c, Prompt(mode)).rc = "POST"
<1> DEFINE p == Prompt(mode)
           m == Name(c)
           d == Digits(c.tokens)
<1>1. m \in 0..390 /\ d \in 1..3
  BY DEF Name, Digits, Contexts
<1>2. p.nul \in 0..50
  <2>1. p.nul = 33 + 6 + RoutingNameLen(mode)
    BY DEF Prompt
  <2>2. RoutingNameLen(mode) \in {4, 10, 11}
    BY DEF RoutingNameLen
  <2> HIDE DEF p
  <2> QED
    BY <2>1, <2>2
<1> DEFINE t == p.nul
<1>3. /\ 54 + m + t < 512 /\ 68 + m + d + t < 512 /\ 107 + t < 512 /\ 75 + 4 + t < 512
  <2> HIDE DEF p, m, d, t
  <2>1. t \in 0..50
    BY <1>2 DEF t
  <2> QED
    BY <1>1, <2>1
<1>4. ChatBody(a, c, p) \in {Body(54 + m + t), Body(68 + m + d + t), Body(107 + t),
                             Body(75 + 4 + t)}
  <2> HIDE DEF p
  <2> QED
    BY DEF Adapters, ChatBody, OpenAIChat, ClaudeChat, A2AChat, MCPChat,
           OpenAIBody, ClaudeBody, A2ABody, MCPBody
<1> DEFINE n1 == 54 + m + t
           n2 == 68 + m + d + t
           n3 == 107 + t
           n4 == 75 + 4 + t
<1>6. n1 \in Nat /\ n2 \in Nat /\ n3 \in Nat /\ n4 \in Nat
  <2> HIDE DEF p, m, d, t
  <2>1. t \in 0..50
    BY <1>2 DEF t
  <2> QED
    BY <1>1, <2>1
<1>7. ASSUME NEW n \in Nat, n < 512 PROVE Body(n).rc = "POST"
  BY <1>7 DEF Body, Printed, BodySize
<1>8. /\ n1 < 512 /\ n2 < 512 /\ n3 < 512 /\ n4 < 512
      /\ ChatBody(a, c, p) \in {Body(n1), Body(n2), Body(n3), Body(n4)}
  BY <1>3, <1>4
<1> HIDE DEF n1, n2, n3, n4, t, p
<1>9. ChatBody(a, c, p).rc = "POST"
  BY <1>6, <1>7, <1>8
<1> QED
  BY <1>9 DEF p

(* With model names of at most 390 bytes the prompt of a routed inference  *)
(* fits beside every name, and a timeout is one of a request that was      *)
(* posted.  Longer names are kept as they are by iCloudAdapterInit, and    *)
(* the inference is then said to have timed out without a post.            *)
THEOREM TimeoutsWerePosted ==
  ASSUME \A n \in CloudModels : n <= 390
  PROVE  CloudSpec => [](route.rc = "TIMEOUT" => route.posted)
<1> DEFINE NamesFit == \A a \in Adapters : contexts[a].model <= 390
           Timely   == route.rc = "TIMEOUT" => route.posted
           Inv      == CloudInv /\ NamesFit /\ Timely
<1>1. CloudStart => Inv
  <2> SUFFICES ASSUME CloudStart PROVE Inv
    OBVIOUS
  <2>1. NamesFit
    BY DEF CloudStart, Adapters, AdapterContext, DefaultContext, OpenAIContext, ClaudeContext,
           A2AContext, MCPContext
  <2>2. Timely
    BY DEF CloudStart, NoRoute
  <2> QED
    BY <2>1, <2>2, CloudStartHolds
<1>2. Inv /\ [CloudNext]_cloudVars => Inv'
  <2> SUFFICES ASSUME Inv, [CloudNext]_cloudVars PROVE Inv'
    OBVIOUS
  <2>1. CloudInv'
    BY CloudStepHolds
  <2> SUFFICES NamesFit' /\ Timely'
    BY <2>1
  <2>2. ASSUME UNCHANGED <<contexts, route>>
        PROVE  NamesFit' /\ Timely'
    BY <2>2
  <2>3. ASSUME NEW a \in Adapters, NEW config \in Configs, CloudAdapterInit(a, config)
        PROVE  NamesFit' /\ Timely'
    <3>1. config.model <= 390
      BY DEF Configs
    <3> DEFINE c == [config EXCEPT !.init = AdapterInit(a, config)]
    <3>2. c.model <= 390
      BY <3>1 DEF Configs
    <3>3. contexts' = [contexts EXCEPT ![a] = c] /\ route' = route
      BY <2>3 DEF CloudAdapterInit
    <3> HIDE DEF c
    <3>4. NamesFit'
      BY <3>2, <3>3 DEF CloudInv, ContextsOK
    <3> QED
      BY <3>3, <3>4
  <2>4. CASE ConfigureNext
    BY <2>3, <2>4 DEF ConfigureNext
  <2>5. CASE CallNext
    <3>1. ConfigureNext \/ UNCHANGED <<contexts, route>>
      BY <2>5 DEF CallNext, CloudCall
    <3> QED
      BY <2>2, <2>4, <3>1
  <2>6. CASE RegistryNext
    <3>1. UNCHANGED <<contexts, route>>
      BY <2>6 DEF RegistryNext, AIServiceInit, RegisterCloudAdapter
    <3> QED
      BY <2>2, <3>1
  <2>7. ASSUME NEW mode, NEW a, NEW rc \in {"OK", "FAIL"}, NEW byte, NEW slow,
               RouteLocal(mode, a, rc, byte, slow)
        PROVE  NamesFit' /\ Timely'
    <3>1. contexts' = contexts /\ route'.rc # "TIMEOUT"
      <4> DEFINE outcome == LocalOutcome(mode, a, rc, byte, slow)
      <4>1. outcome # "TIMEOUT"
        BY DEF LocalOutcome
      <4> HIDE DEF outcome
      <4> QED
        BY <2>7, <4>1 DEF RouteLocal, NoRoute, outcome
    <3> QED
      BY <3>1
  <2>8. ASSUME NEW answer, NEW length, RouteCloud(answer, length)
        PROVE  NamesFit' /\ Timely'
    <3>1. /\ route.adapter \in Adapters /\ contexts[route.adapter] \in Contexts
          /\ contexts[route.adapter].model <= 390
      BY <2>8 DEF RouteCloud, CloudInv, RouteOK, ContextsOK
    <3>2. ChatBody(route.adapter, contexts[route.adapter], Prompt(route.mode)).rc = "POST"
      BY <3>1, PromptFits
    <3> DEFINE rc   == IF answer = "OK" \/ answer = "NOCLOUD" THEN answer ELSE "TIMEOUT"
               byte == IF answer = "OK" THEN length % 256 ELSE route.byte
               from == IF answer = "OK" THEN "cloud" ELSE route.from
    <3>3. /\ contexts' = contexts
          /\ route' = [route EXCEPT !.pc = "done", !.posted = TRUE, !.rc = rc, !.byte = byte,
                                    !.from = from]
      BY <2>8, <3>2 DEF RouteCloud
    <3> HIDE DEF rc, byte, from
    <3>4. route'.posted
      BY <3>3 DEF CloudInv, RouteOK
    <3> QED
      BY <3>3, <3>4
  <2>9. CASE RouteNext
    <3>1. ASSUME NEW t, SetTransport(t) PROVE UNCHANGED <<contexts, route>>
      BY <3>1 DEF SetTransport
    <3> QED
      BY <2>2, <2>4, <2>7, <2>8, <2>9, <3>1 DEF RouteNext
  <2>10. CASE UNCHANGED cloudVars
    BY <2>2, <2>10 DEF cloudVars
  <2> QED
    BY <2>5, <2>6, <2>9, <2>10 DEF CloudNext
<1>3. Inv => Timely
  OBVIOUS
<1> QED
  BY <1>1, <1>2, <1>3, PTL DEF CloudSpec

-----------------------------------------------------------------------------
(* The console.                                                            *)

Request(q) == q = [pc |-> q.pc, agent |-> q.agent, name |-> q.name, row |-> q.row]

RowsOK(rows) ==
  /\ \E S : rows \in Seq(S)
  /\ \A r \in 1..Len(rows) : rows[r] = [agent |-> rows[r].agent, status |-> rows[r].status]

RequestsOK ==
  /\ requests = [t \in ConsoleThreads |-> requests[t]]
  /\ \A t \in ConsoleThreads : Request(requests[t])

(* A request that trains has the row it made, of the agent it read.        *)
TrainsItsRow ==
  \A t \in ConsoleThreads :
    requests[t].pc = "training" =>
      /\ requests[t].row \in 1..Len(runRows)
      /\ runRows[requests[t].row].agent = requests[t].agent

ConsoleInv == RowsOK(runRows) /\ RequestsOK /\ TrainsItsRow /\ NoOrphanRun

LEMMA RowsDomain ==
  ASSUME NEW rows, RowsOK(rows)
  PROVE  Len(rows) \in Nat /\ DOMAIN rows = 1..Len(rows)
<1>1. PICK S : rows \in Seq(S)
  BY DEF RowsOK
<1> QED
  BY <1>1

LEMMA FreeIsRequest == Request(Free) /\ Free.pc = "free" /\ Free.row = 0
BY DEF Request, Free

LEMMA SelectedRequest ==
  ASSUME NEW pc, NEW agent, NEW name
  PROVE  /\ Request([Free EXCEPT !.pc = pc, !.agent = agent, !.name = name])
         /\ [Free EXCEPT !.pc = pc, !.agent = agent, !.name = name].pc = pc
<1> DEFINE q1 == [Free EXCEPT !.pc = pc]
           q2 == [q1 EXCEPT !.agent = agent]
           q3 == [q2 EXCEPT !.name = name]
<1>1. [Free EXCEPT !.pc = pc, !.agent = agent, !.name = name] = q3
  OBVIOUS
<1>2. Request(q1) /\ q1.pc = pc
  BY FreeIsRequest DEF Request
<1>3. Request(q2) /\ q2.pc = pc
  <2> HIDE DEF q1
  <2> QED
    BY <1>2 DEF Request
<1>4. Request(q3) /\ q3.pc = pc
  <2> HIDE DEF q2
  <2> QED
    BY <1>3 DEF Request
<1> HIDE DEF q3
<1> QED
  BY <1>1, <1>4

LEMMA TrainRequest ==
  ASSUME NEW agent, NEW name
  PROVE  LET q == [Free EXCEPT !.pc = "train", !.agent = agent, !.name = name]
         IN  Request(q) /\ q.pc = "train" /\ q.row = 0
<1> DEFINE train == "train"
           r     == [Free EXCEPT !.pc = train, !.agent = agent, !.name = name]
<1>1. Request(r) /\ r.pc = train /\ r.row = 0
  <2> HIDE DEF train
  <2>1. Request(r) /\ r.pc = train
    BY SelectedRequest
  <2>2. r.row = 0
    BY DEF Free
  <2> QED
    BY <2>1, <2>2
<1> QED
  BY <1>1

LEMMA PcRequest ==
  ASSUME NEW q, Request(q), NEW pc
  PROVE  /\ Request([q EXCEPT !.pc = pc])
         /\ [q EXCEPT !.pc = pc].pc = pc /\ [q EXCEPT !.pc = pc].agent = q.agent
BY DEF Request

LEMMA RowRequest ==
  ASSUME NEW q, Request(q), NEW row
  PROVE  /\ Request([q EXCEPT !.row = row])
         /\ [q EXCEPT !.row = row].pc = q.pc /\ [q EXCEPT !.row = row].row = row
         /\ [q EXCEPT !.row = row].agent = q.agent
BY DEF Request

LEMMA InsertedRequest ==
  ASSUME NEW q, Request(q), NEW row
  PROVE  /\ Request([q EXCEPT !.pc = "training", !.row = row])
         /\ [q EXCEPT !.pc = "training", !.row = row].pc = "training"
         /\ [q EXCEPT !.pc = "training", !.row = row].row = row
         /\ [q EXCEPT !.pc = "training", !.row = row].agent = q.agent
<1> DEFINE training == "training"
           q1       == [q EXCEPT !.pc = training]
           q2       == [q1 EXCEPT !.row = row]
<1>1. [q EXCEPT !.pc = training, !.row = row] = q2
  <2> HIDE DEF training
  <2> QED
    OBVIOUS
<1>2. Request(q1) /\ q1.pc = training /\ q1.agent = q.agent
  <2> HIDE DEF training
  <2> QED
    BY PcRequest
<1>3. Request(q2) /\ q2.pc = training /\ q2.row = row /\ q2.agent = q.agent
  <2> HIDE DEF training, q1
  <2> QED
    BY <1>2, RowRequest
<1>4. /\ Request([q EXCEPT !.pc = training, !.row = row])
      /\ [q EXCEPT !.pc = training, !.row = row].pc = training
      /\ [q EXCEPT !.pc = training, !.row = row].row = row
      /\ [q EXCEPT !.pc = training, !.row = row].agent = q.agent
  <2> HIDE DEF training, q2
  <2> QED
    BY <1>1, <1>3
<1> QED
  BY <1>4

(* A step of one thread.                                                   *)
LEMMA OneRequest ==
  ASSUME RequestsOK, NEW t \in ConsoleThreads, NEW q, Request(q),
         requests' = [requests EXCEPT ![t] = q]
  PROVE  /\ RequestsOK' /\ requests'[t] = q
         /\ \A u \in ConsoleThreads : u # t => requests'[u] = requests[u]
BY DEF RequestsOK

(* A thread that does not train, and will not, touches no row.             *)
LEMMA QuietStep ==
  ASSUME ConsoleInv, NEW t \in ConsoleThreads, NEW q, Request(q), q.pc # "training",
         requests[t].pc # "training",
         requests' = [requests EXCEPT ![t] = q], UNCHANGED <<runRows, failed>>
  PROVE  ConsoleInv'
<1>1. /\ RequestsOK' /\ requests'[t] = q
      /\ \A u \in ConsoleThreads : u # t => requests'[u] = requests[u]
  BY OneRequest DEF ConsoleInv
<1>2. TrainsItsRow'
  BY <1>1 DEF ConsoleInv, TrainsItsRow
<1>3. NoOrphanRun'
  BY <1>1 DEF ConsoleInv, NoOrphanRun
<1> QED
  BY <1>1, <1>2, <1>3 DEF ConsoleInv

LEMMA InsertKeeps ==
  ASSUME ConsoleInv, NEW t \in ConsoleThreads, TrainInsert(t)
  PROVE  ConsoleInv'
<1>1. requests[t].pc = "train" /\ UNCHANGED failed
  BY DEF TrainInsert
<1>2. CASE ~Exists(requests[t].agent)
  <2>1. requests' = [requests EXCEPT ![t] = Free] /\ UNCHANGED runRows
    BY <1>2 DEF TrainInsert
  <2> QED
    BY <1>1, <2>1, FreeIsRequest, QuietStep
<1>3. CASE Exists(requests[t].agent)
  <2> DEFINE n   == Len(runRows)
             new == [agent |-> requests[t].agent, status |-> "running"]
             q   == [requests[t] EXCEPT !.pc = "training", !.row = n + 1]
  <2>1. Request(requests[t]) /\ RequestsOK
    BY DEF ConsoleInv, RequestsOK
  <2>2. Request(q) /\ q.pc = "training" /\ q.row = n + 1 /\ q.agent = requests[t].agent
    <3> DEFINE last == n + 1
               old  == requests[t]
    <3>1. Request(old)
      BY <2>1
    <3> HIDE DEF last, old
    <3>2. LET s == [old EXCEPT !.pc = "training", !.row = last]
          IN  Request(s) /\ s.pc = "training" /\ s.row = last /\ s.agent = old.agent
      BY <3>1, InsertedRequest
    <3> QED
      BY <3>2 DEF last, old
  <2>3. requests' = [requests EXCEPT ![t] = q] /\ runRows' = Append(runRows, new)
    BY <1>3, <2>1 DEF TrainInsert, RequestsOK
  <2> HIDE DEF q
  <2>4. /\ RequestsOK' /\ requests'[t] = q
        /\ \A u \in ConsoleThreads : u # t => requests'[u] = requests[u]
    BY <2>1, <2>2, <2>3, OneRequest
  <2>5. PICK S : runRows \in Seq(S)
    BY DEF ConsoleInv, RowsOK
  <2>6. /\ runRows' \in Seq(S \cup {new}) /\ n \in Nat /\ Len(runRows') = n + 1
        /\ \A r \in 1..n : runRows'[r] = runRows[r]
        /\ runRows'[n + 1] = new /\ DOMAIN runRows = 1..n /\ DOMAIN runRows' = 1..(n + 1)
    <3> HIDE DEF new
    <3> QED
      BY <2>3, <2>5
  <2>7. \A r \in 1..(n + 1) : r \in 1..n \/ r = n + 1
    BY <2>6
  <2>8. RowsOK(runRows)'
    BY <2>6, <2>7 DEF ConsoleInv, RowsOK
  <2>9. TrainsItsRow'
    <3> SUFFICES ASSUME NEW u \in ConsoleThreads, requests'[u].pc = "training"
                 PROVE  /\ requests'[u].row \in 1..(n + 1)
                        /\ runRows'[requests'[u].row].agent = requests'[u].agent
      BY <2>6 DEF TrainsItsRow
    <3>1. CASE u = t
      BY <2>2, <2>4, <2>6, <3>1
    <3>2. CASE u # t
      <4>1. /\ requests[u].row \in 1..n
            /\ runRows[requests[u].row].agent = requests[u].agent
        BY <2>4, <3>2 DEF ConsoleInv, TrainsItsRow
      <4> QED
        BY <2>4, <2>6, <3>2, <4>1
    <3> QED
      BY <3>1, <3>2
  <2>10. NoOrphanRun'
    <3> SUFFICES ASSUME NEW r \in 1..(n + 1), runRows'[r].status = "running", r \notin failed
                 PROVE  \E u \in ConsoleThreads :
                          requests'[u].pc = "training" /\ requests'[u].row = r
      BY <1>1, <2>6 DEF NoOrphanRun
    <3>1. CASE r = n + 1
      BY <2>2, <2>4, <3>1
    <3>2. CASE r \in 1..n
      <4>1. PICK u \in ConsoleThreads : requests[u].pc = "training" /\ requests[u].row = r
        BY <2>6, <3>2 DEF ConsoleInv, NoOrphanRun
      <4> QED
        BY <1>1, <2>4, <4>1
    <3> QED
      BY <2>7, <3>1, <3>2
  <2> QED
    BY <2>4, <2>8, <2>9, <2>10 DEF ConsoleInv
<1> QED
  BY <1>2, <1>3

LEMMA FinishKeeps ==
  ASSUME ConsoleInv, NEW t \in ConsoleThreads, TrainFinish(t)
  PROVE  ConsoleInv'
<1> DEFINE n == Len(runRows)
           done(r) == IF runRows[r].agent = requests[t].agent
                        THEN [runRows[r] EXCEPT !.status = "done"] ELSE runRows[r]
<1>1. n \in Nat /\ DOMAIN runRows = 1..n
  BY RowsDomain DEF ConsoleInv
<1>2. /\ requests[t].pc = "training" /\ UNCHANGED failed
      /\ runRows' = [r \in 1..n |-> done(r)]
      /\ requests' = [requests EXCEPT ![t] = Free]
  BY <1>1 DEF TrainFinish
<1>3. ASSUME NEW r \in 1..n
      PROVE  /\ done(r) = [agent |-> done(r).agent, status |-> done(r).status]
             /\ done(r).agent = runRows[r].agent
             /\ done(r).status = IF runRows[r].agent = requests[t].agent THEN "done"
                                 ELSE runRows[r].status
  <2>1. runRows[r] = [agent |-> runRows[r].agent, status |-> runRows[r].status]
    BY DEF ConsoleInv, RowsOK
  <2> QED
    BY <2>1
<1>4. /\ runRows' \in Seq({done(r) : r \in 1..n}) /\ Len(runRows') = n
      /\ DOMAIN runRows' = 1..n /\ \A r \in 1..n : runRows'[r] = done(r)
  <2> HIDE DEF done
  <2>1. runRows' \in [1..n -> {done(r) : r \in 1..n}]
    BY <1>2
  <2> QED
    BY <1>1, <1>2, <2>1
<1> HIDE DEF done
<1>5. RowsOK(runRows)'
  BY <1>3, <1>4 DEF RowsOK
<1>6. /\ RequestsOK' /\ requests'[t] = Free
      /\ \A u \in ConsoleThreads : u # t => requests'[u] = requests[u]
  BY <1>2, FreeIsRequest, OneRequest DEF ConsoleInv
<1>7. TrainsItsRow'
  <2> SUFFICES ASSUME NEW u \in ConsoleThreads, requests'[u].pc = "training"
               PROVE  /\ requests'[u].row \in 1..n
                      /\ runRows'[requests'[u].row].agent = requests'[u].agent
    BY <1>4 DEF TrainsItsRow
  <2>1. u # t
    BY <1>6, FreeIsRequest
  <2>2. requests[u].row \in 1..n /\ runRows[requests[u].row].agent = requests[u].agent
    BY <1>6, <2>1 DEF ConsoleInv, TrainsItsRow
  <2> QED
    BY <1>3, <1>4, <1>6, <2>1, <2>2
<1>8. NoOrphanRun'
  <2> SUFFICES ASSUME NEW r \in 1..n, runRows'[r].status = "running", r \notin failed
               PROVE  \E u \in ConsoleThreads :
                        requests'[u].pc = "training" /\ requests'[u].row = r
    BY <1>2, <1>4 DEF NoOrphanRun
  <2>1. runRows[r].agent # requests[t].agent /\ runRows[r].status = "running"
    BY <1>3, <1>4
  <2>2. PICK u \in ConsoleThreads : requests[u].pc = "training" /\ requests[u].row = r
    BY <1>1, <2>1 DEF ConsoleInv, NoOrphanRun
  <2>3. u # t
    BY <2>1, <2>2 DEF ConsoleInv, TrainsItsRow
  <2> QED
    BY <1>6, <2>2, <2>3
<1> QED
  BY <1>5, <1>6, <1>7, <1>8 DEF ConsoleInv

LEMMA FailKeeps ==
  ASSUME ConsoleInv, NEW t \in ConsoleThreads, TrainFail(t)
  PROVE  ConsoleInv'
<1>1. /\ UNCHANGED runRows /\ failed' = failed \cup {requests[t].row}
      /\ requests' = [requests EXCEPT ![t] = Free]
  BY DEF TrainFail
<1>2. /\ RequestsOK' /\ requests'[t] = Free
      /\ \A u \in ConsoleThreads : u # t => requests'[u] = requests[u]
  BY <1>1, FreeIsRequest, OneRequest DEF ConsoleInv
<1>3. TrainsItsRow'
  BY <1>1, <1>2, FreeIsRequest DEF ConsoleInv, TrainsItsRow
<1>4. NoOrphanRun'
  BY <1>1, <1>2 DEF ConsoleInv, NoOrphanRun
<1> QED
  BY <1>1, <1>2, <1>3, <1>4 DEF ConsoleInv

LEMMA RestartKeeps ==
  ASSUME ConsoleInv, NEW seed \in BOOLEAN, ConsoleRestart(seed)
  PROVE  ConsoleInv'
<1>1. /\ UNCHANGED runRows /\ requests' = [t \in ConsoleThreads |-> Free]
      /\ failed' = failed \cup {requests[t].row : t \in {u \in ConsoleThreads :
                                                           requests[u].row # 0}}
  BY DEF ConsoleRestart
<1>2. RequestsOK' /\ \A t \in ConsoleThreads : requests'[t].pc # "training"
  BY <1>1, FreeIsRequest DEF RequestsOK
<1>3. NoOrphanRun'
  <2> SUFFICES ASSUME NEW r \in 1..Len(runRows), runRows[r].status = "running", r \notin failed
               PROVE  r \in failed'
    BY <1>1, RowsDomain DEF ConsoleInv, NoOrphanRun
  <2>1. PICK u \in ConsoleThreads : requests[u].pc = "training" /\ requests[u].row = r
    BY RowsDomain DEF ConsoleInv, NoOrphanRun
  <2>2. requests[u].row # 0
    BY <2>1, RowsDomain DEF ConsoleInv
  <2> QED
    BY <1>1, <2>1, <2>2
<1> QED
  BY <1>1, <1>2, <1>3 DEF ConsoleInv, TrainsItsRow

LEMMA ConsoleStartHolds == ConsoleStart => ConsoleInv
<1> SUFFICES ASSUME ConsoleStart PROVE ConsoleInv
  OBVIOUS
<1>1. runRows = <<>> /\ <<>> \in Seq({}) /\ Len(<<>>) = 0 /\ DOMAIN <<>> = {}
  BY DEF ConsoleStart
<1>2. RowsOK(runRows)
  BY <1>1 DEF RowsOK
<1>3. RequestsOK /\ \A t \in ConsoleThreads : requests[t].pc # "training"
  BY FreeIsRequest DEF ConsoleStart, RequestsOK
<1> QED
  BY <1>1, <1>2, <1>3 DEF ConsoleInv, TrainsItsRow, NoOrphanRun

LEMMA ConsoleStepHolds == ConsoleInv /\ [ConsoleNext]_consoleVars => ConsoleInv'
<1> SUFFICES ASSUME ConsoleInv, [ConsoleNext]_consoleVars PROVE ConsoleInv'
  OBVIOUS
<1>1. ASSUME UNCHANGED <<runRows, requests, failed>>
      PROVE  ConsoleInv'
  BY <1>1 DEF ConsoleInv, RowsOK, RequestsOK, TrainsItsRow, NoOrphanRun
<1>2. ASSUME NEW name \in ConsoleNames,
             \/ ConsoleCreate(name)
             \/ \E a \in DOMAIN agentRows : ConsoleRename(a, name)
      PROVE  ConsoleInv'
  BY <1>1, <1>2 DEF ConsoleCreate, ConsoleRename
<1>3. ASSUME NEW a \in DOMAIN agentRows, ConsoleDelete(a)
      PROVE  ConsoleInv'
  BY <1>1, <1>3 DEF ConsoleDelete
<1>4. ASSUME NEW a, NEW t \in ConsoleThreads, TrainSelect(t, a)
      PROVE  ConsoleInv'
  <2> DEFINE q == [Free EXCEPT !.pc = "train", !.agent = a, !.name = agentRows[a]]
  <2>1. Request(q) /\ q.pc = "train"
    BY TrainRequest
  <2>2. /\ requests[t].pc = "free" /\ UNCHANGED <<runRows, failed>>
        /\ requests' = [requests EXCEPT ![t] = q]
    BY <1>4 DEF TrainSelect
  <2> HIDE DEF q
  <2> QED
    BY <2>1, <2>2, QuietStep
<1>5. ASSUME NEW t \in ConsoleThreads, DatasetRead(t)
      PROVE  ConsoleInv'
  <2> DEFINE q == [requests[t] EXCEPT !.pc = "populate"]
  <2>1. Request(q) /\ q.pc = "populate"
    BY DEF ConsoleInv, RequestsOK, Request
  <2>2. /\ requests[t].pc = "free" /\ UNCHANGED <<runRows, failed>>
        /\ requests' = [requests EXCEPT ![t] = q]
    BY <1>5 DEF DatasetRead
  <2> HIDE DEF q
  <2> QED
    BY <2>1, <2>2, QuietStep
<1>6. ASSUME NEW t \in ConsoleThreads, PopulateSamples(t)
      PROVE  ConsoleInv'
  <2>1. /\ requests[t].pc = "populate" /\ UNCHANGED <<runRows, failed>>
        /\ requests' = [requests EXCEPT ![t] = Free]
    BY <1>6 DEF PopulateSamples
  <2> QED
    BY <2>1, FreeIsRequest, QuietStep
<1>7. CASE UNCHANGED consoleVars
  BY <1>1, <1>7 DEF consoleVars
<1> QED
  BY <1>2, <1>3, <1>4, <1>5, <1>6, <1>7, InsertKeeps, FinishKeeps, FailKeeps, RestartKeeps
  DEF ConsoleNext

-----------------------------------------------------------------------------
(* The tables.                                                             *)

Names(rows) == rows \in Seq(ConsoleNames \cup {NoName})

Distinct(rows) ==
  \A a, b \in DOMAIN rows : rows[a] = rows[b] => a = b \/ rows[a] = NoName

(* Every run is one of an agent that is there.                             *)
ForeignKey == \A r \in DOMAIN runRows : Exists(runRows[r].agent)

RequestsInOrder ==
  \A t \in ConsoleThreads :
    /\ requests[t].pc \in {"free", "train", "training", "populate"}
    /\ requests[t].pc # "training" => requests[t].row = 0

TablesOK ==
  /\ Names(agentRows) /\ Distinct(agentRows) /\ ForeignKey
  /\ RequestsInOrder /\ failed \subseteq DOMAIN runRows

TablesInv == ConsoleInv /\ TablesOK

LEMMA SetToSeqIs ==
  ASSUME NEW S, IsFiniteSet(S)
  PROVE  SetToSeq(S) \in Seq(S) /\ IsInjective(SetToSeq(S))
<1> DEFINE n == Cardinality(S)
<1>1. n \in Nat /\ ExistsBijection(1..n, S)
  BY FS_CardinalityType
<1>2. PICK f : f \in Bijection(1..n, S)
  BY <1>1 DEF ExistsBijection
<1>3. f \in [1..n -> S] /\ IsInjective(f)
  <2> HIDE DEF n
  <2> QED
    BY <1>2 DEF Bijection, Injection, IsInjective
<1>4. SetToSeq(S) \in [1..n -> S] /\ IsInjective(SetToSeq(S))
  <2> HIDE DEF n
  <2> DEFINE P(g) == g \in [1..n -> S] /\ IsInjective(g)
  <2>1. SetToSeq(S) = CHOOSE g \in [1..n -> S] : IsInjective(g)
    BY DEF SetToSeq, n
  <2> QED
    BY <1>3, <2>1, Zenon
<1> QED
  BY <1>1, <1>4

(* Adding names that are not there yet leaves the names distinct, and      *)
(* every agent where it was.                                               *)
LEMMA NamesJoin ==
  ASSUME NEW rows, Names(rows), Distinct(rows), NEW more \in Seq(ConsoleNames),
         IsInjective(more), \A i \in DOMAIN more : more[i] \notin ToSet(rows)
  PROVE  /\ Names(rows \o more) /\ Distinct(rows \o more)
         /\ \A a \in DOMAIN rows : a \in DOMAIN (rows \o more) /\ (rows \o more)[a] = rows[a]
<1> DEFINE all == rows \o more
           n   == Len(rows)
           k   == Len(more)
<1>1. /\ n \in Nat /\ k \in Nat /\ DOMAIN rows = 1..n /\ DOMAIN more = 1..k
      /\ rows \in Seq(ConsoleNames \cup {NoName}) /\ more \in Seq(ConsoleNames \cup {NoName})
  BY DEF Names
<1>2. /\ all \in Seq(ConsoleNames \cup {NoName}) /\ DOMAIN all = 1..(n + k)
      /\ \A i \in 1..(n + k) : all[i] = IF i <= n THEN rows[i] ELSE more[i - n]
  BY <1>1
<1> HIDE DEF all
<1>3. ASSUME NEW a \in 1..(n + k), NEW b \in 1..(n + k), all[a] = all[b]
      PROVE  a = b \/ all[a] = NoName
  <2>1. CASE a <= n /\ b <= n
    BY <1>1, <1>2, <1>3, <2>1 DEF Distinct
  <2>2. CASE a > n /\ b > n
    <3>1. a - n \in 1..k /\ b - n \in 1..k /\ more[a - n] = more[b - n]
      BY <1>1, <1>2, <1>3, <2>2
    <3>2. a - n = b - n
      BY <1>1, <3>1 DEF IsInjective
    <3> QED
      BY <1>1, <3>2
  <2>3. ASSUME NEW i \in 1..(n + k), NEW j \in 1..(n + k), i <= n, j > n
        PROVE  all[i] # all[j]
    <3>1. j - n \in 1..k /\ all[j] = more[j - n] /\ all[i] = rows[i] /\ i \in 1..n
      BY <1>1, <1>2, <2>3
    <3>2. rows[i] \in ToSet(rows)
      BY <1>1, <3>1 DEF ToSet
    <3> QED
      BY <1>1, <3>1, <3>2
  <2> QED
    BY <1>1, <1>3, <2>1, <2>2, <2>3
<1>4. \A a \in DOMAIN rows : a \in DOMAIN all /\ all[a] = rows[a]
  BY <1>1, <1>2
<1>5. Names(all) /\ Distinct(all)
  BY <1>2, <1>3 DEF Names, Distinct
<1> QED
  BY <1>4, <1>5 DEF all

(* A step that leaves runs and requests alone and every agent with a run   *)
(* in its place.                                                           *)
LEMMA AgentRowsHold ==
  ASSUME TablesInv, UNCHANGED <<runRows, requests, failed>>, ConsoleInv',
         Names(agentRows'), Distinct(agentRows'),
         \A a \in DOMAIN agentRows : Exists(a) =>
           \/ a \in DOMAIN agentRows' /\ agentRows'[a] # NoName
           \/ \A r \in DOMAIN runRows : runRows[r].agent # a
  PROVE  TablesInv'
<1>1. ForeignKey'
  BY DEF TablesInv, TablesOK, ForeignKey, Exists
<1> QED
  BY <1>1 DEF TablesInv, TablesOK, RequestsInOrder

(* A step of one thread that leaves the agents alone and keeps the runs.   *)
LEMMA RequestHolds ==
  ASSUME TablesInv, UNCHANGED agentRows, ConsoleInv', NEW t \in ConsoleThreads, NEW q,
         requests' = [requests EXCEPT ![t] = q],
         q.pc \in {"free", "train", "training", "populate"}, q.pc # "training" => q.row = 0,
         DOMAIN runRows \subseteq DOMAIN runRows',
         \A r \in DOMAIN runRows' : Exists(runRows'[r].agent),
         failed' \subseteq DOMAIN runRows'
  PROVE  TablesInv'
<1>1. ForeignKey'
  BY DEF ForeignKey, Exists
<1>2. RequestsInOrder'
  BY DEF TablesInv, TablesOK, RequestsInOrder, ConsoleInv, RequestsOK
<1> QED
  BY <1>1, <1>2 DEF TablesInv, TablesOK

LEMMA TablesStartHold == ConsoleStart => TablesInv
<1> SUFFICES ASSUME ConsoleStart PROVE TablesInv
  OBVIOUS
<1>1. /\ agentRows = <<>> /\ runRows = <<>> /\ failed = {} /\ DOMAIN <<>> = {}
      /\ <<>> \in Seq(ConsoleNames \cup {NoName})
      /\ \A t \in ConsoleThreads : requests[t] = Free
  BY DEF ConsoleStart
<1>2. Names(agentRows) /\ Distinct(agentRows) /\ ForeignKey /\ failed \subseteq DOMAIN runRows
  BY <1>1 DEF Names, Distinct, ForeignKey
<1>3. RequestsInOrder
  BY <1>1, FreeIsRequest DEF RequestsInOrder
<1> QED
  BY <1>2, <1>3, ConsoleStartHolds DEF TablesInv, TablesOK

LEMMA CreateHolds ==
  ASSUME TablesInv, ConsoleInv', NEW name \in ConsoleNames, ConsoleCreate(name)
  PROVE  TablesInv'
<1>1. /\ name \notin ToSet(agentRows) /\ agentRows' = Append(agentRows, name)
      /\ UNCHANGED <<runRows, requests, failed>>
  BY DEF ConsoleCreate
<1>2. Names(agentRows) /\ Distinct(agentRows) /\ agentRows \in Seq(ConsoleNames \cup {NoName})
  BY DEF TablesInv, TablesOK, Names
<1>3. /\ <<name>> \in Seq(ConsoleNames) /\ IsInjective(<<name>>)
      /\ \A i \in DOMAIN <<name>> : <<name>>[i] \notin ToSet(agentRows)
  BY <1>1 DEF IsInjective
<1>4. Append(agentRows, name) = agentRows \o <<name>>
  BY <1>2
<1>5. /\ Names(agentRows') /\ Distinct(agentRows')
      /\ \A a \in DOMAIN agentRows : a \in DOMAIN agentRows' /\ agentRows'[a] = agentRows[a]
  BY <1>1, <1>2, <1>3, <1>4, NamesJoin
<1> QED
  BY <1>1, <1>5, AgentRowsHold DEF Exists

LEMMA RenameHolds ==
  ASSUME TablesInv, ConsoleInv', NEW name \in ConsoleNames, NEW a \in DOMAIN agentRows,
         ConsoleRename(a, name)
  PROVE  TablesInv'
<1>1. /\ name \notin ToSet(agentRows) /\ agentRows' = [agentRows EXCEPT ![a] = name]
      /\ UNCHANGED <<runRows, requests, failed>>
  BY DEF ConsoleRename
<1>2. Names(agentRows) /\ Distinct(agentRows) /\ agentRows \in Seq(ConsoleNames \cup {NoName})
  BY DEF TablesInv, TablesOK, Names
<1>3. /\ agentRows' \in Seq(ConsoleNames \cup {NoName}) /\ DOMAIN agentRows' = DOMAIN agentRows
      /\ \A b \in DOMAIN agentRows : agentRows'[b] = IF b = a THEN name ELSE agentRows[b]
  BY <1>1, <1>2
<1>4. \A b \in DOMAIN agentRows : agentRows[b] # name
  BY <1>1 DEF ToSet
<1>5. Names(agentRows') /\ Distinct(agentRows')
  BY <1>2, <1>3, <1>4 DEF Names, Distinct
<1>6. \A b \in DOMAIN agentRows : Exists(b) => b \in DOMAIN agentRows' /\ agentRows'[b] # NoName
  BY <1>3, ConsoleAssumption DEF Exists
<1> QED
  BY <1>1, <1>5, <1>6, AgentRowsHold

LEMMA DeleteHolds ==
  ASSUME TablesInv, ConsoleInv', NEW a \in DOMAIN agentRows, ConsoleDelete(a)
  PROVE  TablesInv'
<1>1. /\ agentRows' = [agentRows EXCEPT ![a] = NoName]
      /\ \A r \in DOMAIN runRows : runRows[r].agent # a
      /\ UNCHANGED <<runRows, requests, failed>>
  BY DEF ConsoleDelete
<1>2. Names(agentRows) /\ Distinct(agentRows) /\ agentRows \in Seq(ConsoleNames \cup {NoName})
  BY DEF TablesInv, TablesOK, Names
<1>3. /\ agentRows' \in Seq(ConsoleNames \cup {NoName}) /\ DOMAIN agentRows' = DOMAIN agentRows
      /\ \A b \in DOMAIN agentRows : agentRows'[b] = IF b = a THEN NoName ELSE agentRows[b]
  BY <1>1, <1>2
<1>4. Names(agentRows') /\ Distinct(agentRows')
  BY <1>2, <1>3 DEF Names, Distinct
<1>5. \A b \in DOMAIN agentRows : Exists(b) =>
        \/ b \in DOMAIN agentRows' /\ agentRows'[b] # NoName
        \/ \A r \in DOMAIN runRows : runRows[r].agent # b
  BY <1>1, <1>3 DEF Exists
<1> QED
  BY <1>1, <1>4, <1>5, AgentRowsHold

(* The first steps of a request, and those that end one, write no table    *)
(* that a key refers to.                                                   *)
LEMMA PlainRequestHolds ==
  ASSUME TablesInv, ConsoleInv', NEW t \in ConsoleThreads, NEW q,
         requests' = [requests EXCEPT ![t] = q], UNCHANGED <<agentRows, runRows, failed>>,
         q.pc \in {"free", "train", "populate"}, q.row = 0
  PROVE  TablesInv'
<1>1. /\ q.pc \in {"free", "train", "training", "populate"} /\ (q.pc # "training" => q.row = 0)
      /\ DOMAIN runRows \subseteq DOMAIN runRows' /\ failed' \subseteq DOMAIN runRows'
      /\ \A r \in DOMAIN runRows' : Exists(runRows'[r].agent)
  BY DEF TablesInv, TablesOK, ForeignKey
<1> QED
  BY <1>1, RequestHolds

LEMMA InsertHolds ==
  ASSUME TablesInv, ConsoleInv', NEW t \in ConsoleThreads, TrainInsert(t)
  PROVE  TablesInv'
<1>1. UNCHANGED <<agentRows, failed>> /\ requests[t] = requests[t]
  BY DEF TrainInsert
<1>2. CASE ~Exists(requests[t].agent)
  <2>1. requests' = [requests EXCEPT ![t] = Free] /\ UNCHANGED runRows
    BY <1>2 DEF TrainInsert
  <2> QED
    BY <1>1, <2>1, FreeIsRequest, PlainRequestHolds
<1>3. CASE Exists(requests[t].agent)
  <2> DEFINE n   == Len(runRows)
             new == [agent |-> requests[t].agent, status |-> "running"]
             q   == [requests[t] EXCEPT !.pc = "training", !.row = n + 1]
  <2>1. Request(requests[t]) /\ RequestsOK
    BY DEF TablesInv, ConsoleInv, RequestsOK
  <2>2. q.pc = "training"
    <3> DEFINE last == n + 1
               old  == requests[t]
    <3>1. Request(old)
      BY <2>1
    <3> HIDE DEF last, old
    <3>2. [old EXCEPT !.pc = "training", !.row = last].pc = "training"
      BY <3>1, InsertedRequest
    <3> QED
      BY <3>2 DEF last, old
  <2>3. requests' = [requests EXCEPT ![t] = q] /\ runRows' = Append(runRows, new)
    BY <1>3, <2>1 DEF TrainInsert, RequestsOK
  <2> HIDE DEF q
  <2>4. PICK S : runRows \in Seq(S)
    BY DEF TablesInv, ConsoleInv, RowsOK
  <2>5. /\ DOMAIN runRows \subseteq DOMAIN runRows'
        /\ \A r \in DOMAIN runRows' :
             \/ r \in DOMAIN runRows /\ runRows'[r] = runRows[r]
             \/ runRows'[r] = new
    <3>1. /\ n \in Nat /\ DOMAIN runRows = 1..n /\ DOMAIN runRows' = 1..(n + 1)
          /\ \A r \in 1..n : runRows'[r] = runRows[r]
          /\ runRows'[n + 1] = new
      <4> HIDE DEF new
      <4> QED
        BY <2>3, <2>4
    <3>2. \A r \in 1..(n + 1) : r \in 1..n \/ r = n + 1
      BY <3>1
    <3> QED
      BY <3>1, <3>2
  <2>6. new.agent = requests[t].agent
    OBVIOUS
  <2> HIDE DEF new
  <2>7. \A r \in DOMAIN runRows' : Exists(runRows'[r].agent)
    BY <1>3, <2>5, <2>6 DEF TablesInv, TablesOK, ForeignKey
  <2>8. failed' \subseteq DOMAIN runRows'
    BY <1>1, <2>5 DEF TablesInv, TablesOK
  <2>9. q.pc \in {"free", "train", "training", "populate"} /\ (q.pc # "training" => q.row = 0)
    BY <2>2
  <2> QED
    BY <1>1, <2>3, <2>5, <2>7, <2>8, <2>9, RequestHolds
<1> QED
  BY <1>2, <1>3

LEMMA FinishHolds ==
  ASSUME TablesInv, ConsoleInv', NEW t \in ConsoleThreads, TrainFinish(t)
  PROVE  TablesInv'
<1> DEFINE done(r) == IF runRows[r].agent = requests[t].agent
                        THEN [runRows[r] EXCEPT !.status = "done"] ELSE runRows[r]
<1>1. /\ UNCHANGED <<agentRows, failed>> /\ requests' = [requests EXCEPT ![t] = Free]
      /\ runRows' = [r \in DOMAIN runRows |-> done(r)]
  BY DEF TrainFinish
<1>2. ASSUME NEW r \in DOMAIN runRows
      PROVE  done(r).agent = runRows[r].agent
  <2>1. runRows[r] = [agent |-> runRows[r].agent, status |-> runRows[r].status]
    BY RowsDomain DEF TablesInv, ConsoleInv, RowsOK
  <2> QED
    BY <2>1
<1>3. /\ DOMAIN runRows' = DOMAIN runRows
      /\ \A r \in DOMAIN runRows : runRows'[r].agent = runRows[r].agent
  <2> HIDE DEF done
  <2> QED
    BY <1>1, <1>2
<1>4. /\ DOMAIN runRows \subseteq DOMAIN runRows' /\ failed' \subseteq DOMAIN runRows'
      /\ \A r \in DOMAIN runRows' : Exists(runRows'[r].agent)
  BY <1>1, <1>3 DEF TablesInv, TablesOK, ForeignKey
<1>5. Free.pc \in {"free", "train", "training", "populate"} /\ (Free.pc # "training" => Free.row = 0)
  BY FreeIsRequest
<1> QED
  BY <1>1, <1>4, <1>5, RequestHolds

LEMMA FailHolds ==
  ASSUME TablesInv, ConsoleInv', NEW t \in ConsoleThreads, TrainFail(t)
  PROVE  TablesInv'
<1>1. /\ UNCHANGED <<agentRows, runRows>> /\ failed' = failed \cup {requests[t].row}
      /\ requests' = [requests EXCEPT ![t] = Free] /\ requests[t].pc = "training"
  BY DEF TrainFail
<1>2. requests[t].row \in DOMAIN runRows
  BY <1>1, RowsDomain DEF TablesInv, ConsoleInv, TrainsItsRow
<1>3. /\ DOMAIN runRows \subseteq DOMAIN runRows' /\ failed' \subseteq DOMAIN runRows'
      /\ \A r \in DOMAIN runRows' : Exists(runRows'[r].agent)
  BY <1>1, <1>2 DEF TablesInv, TablesOK, ForeignKey
<1>4. Free.pc \in {"free", "train", "training", "populate"} /\ (Free.pc # "training" => Free.row = 0)
  BY FreeIsRequest
<1> QED
  BY <1>1, <1>3, <1>4, RequestHolds

LEMMA RestartHolds ==
  ASSUME TablesInv, ConsoleInv', NEW seed \in BOOLEAN, ConsoleRestart(seed)
  PROVE  TablesInv'
<1> DEFINE missing == TrainerAgents \ ToSet(agentRows)
<1>1. /\ UNCHANGED runRows /\ requests' = [t \in ConsoleThreads |-> Free]
      /\ failed' = failed \cup {requests[t].row : t \in {u \in ConsoleThreads :
                                                           requests[u].row # 0}}
      /\ agentRows' = agentRows \/ agentRows' = agentRows \o SetToSeq(missing)
  BY DEF ConsoleRestart
<1>2. failed' \subseteq DOMAIN runRows'
  <2>1. \A u \in ConsoleThreads : requests[u].row # 0 => requests[u].row \in DOMAIN runRows
    BY RowsDomain DEF TablesInv, TablesOK, RequestsInOrder, ConsoleInv, TrainsItsRow
  <2> QED
    BY <1>1, <2>1 DEF TablesInv, TablesOK
<1>3. Names(agentRows) /\ Distinct(agentRows)
  BY DEF TablesInv, TablesOK
<1>4. /\ SetToSeq(missing) \in Seq(ConsoleNames) /\ IsInjective(SetToSeq(missing))
      /\ \A i \in DOMAIN SetToSeq(missing) : SetToSeq(missing)[i] \notin ToSet(agentRows)
  <2>1. IsFiniteSet(missing)
    BY ConsoleAssumption, FS_Subset
  <2>2. SetToSeq(missing) \in Seq(missing) /\ IsInjective(SetToSeq(missing))
    <3> HIDE DEF missing
    <3> QED
      BY <2>1, SetToSeqIs
  <2> DEFINE more == SetToSeq(missing)
  <2>3. more \in Seq(missing) /\ IsInjective(more)
    BY <2>2
  <2> HIDE DEF more
  <2>4. \A i \in DOMAIN more : more[i] \in missing
    <3> HIDE DEF missing
    <3> QED
      BY <2>3
  <2>5. more \in Seq(ConsoleNames)
    <3>1. missing \subseteq ConsoleNames
      BY ConsoleAssumption
    <3> HIDE DEF missing
    <3> QED
      BY <2>3, <3>1
  <2>6. \A i \in DOMAIN more : more[i] \notin ToSet(agentRows)
    BY <2>4
  <2> QED
    BY <2>3, <2>5, <2>6 DEF more
<1>5. /\ Names(agentRows') /\ Distinct(agentRows')
      /\ \A a \in DOMAIN agentRows : a \in DOMAIN agentRows' /\ agentRows'[a] = agentRows[a]
  <2> DEFINE more == SetToSeq(missing)
  <2>1. /\ more \in Seq(ConsoleNames) /\ IsInjective(more)
        /\ \A i \in DOMAIN more : more[i] \notin ToSet(agentRows)
        /\ agentRows' = agentRows \/ agentRows' = agentRows \o more
    BY <1>1, <1>4
  <2> HIDE DEF more
  <2>2. CASE agentRows' = agentRows
    BY <1>3, <2>2
  <2>3. CASE agentRows' = agentRows \o more
    BY <1>3, <2>1, <2>3, NamesJoin
  <2> QED
    BY <2>1, <2>2, <2>3
<1>6. ForeignKey'
  BY <1>1, <1>5 DEF TablesInv, TablesOK, ForeignKey, Exists
<1>7. RequestsInOrder'
  BY <1>1, FreeIsRequest DEF RequestsInOrder
<1> QED
  BY <1>2, <1>5, <1>6, <1>7 DEF TablesInv, TablesOK

LEMMA TablesStepHolds == TablesInv /\ [ConsoleNext]_consoleVars => TablesInv'
<1> SUFFICES ASSUME TablesInv, [ConsoleNext]_consoleVars PROVE TablesInv'
  OBVIOUS
<1>1. ConsoleInv'
  BY ConsoleStepHolds DEF TablesInv
<1>2. ASSUME NEW a, NEW t \in ConsoleThreads, TrainSelect(t, a)
      PROVE  TablesInv'
  <2> DEFINE q == [Free EXCEPT !.pc = "train", !.agent = a, !.name = agentRows[a]]
  <2>1. q.pc = "train" /\ q.row = 0
    BY TrainRequest
  <2>2. UNCHANGED <<agentRows, runRows, failed>> /\ requests' = [requests EXCEPT ![t] = q]
    BY <1>2 DEF TrainSelect
  <2> HIDE DEF q
  <2> QED
    BY <1>1, <2>1, <2>2, PlainRequestHolds
<1>3. ASSUME NEW t \in ConsoleThreads, DatasetRead(t)
      PROVE  TablesInv'
  <2> DEFINE q == [requests[t] EXCEPT !.pc = "populate"]
  <2>1. /\ UNCHANGED <<agentRows, runRows, failed>> /\ requests[t].pc = "free"
        /\ requests' = [requests EXCEPT ![t] = q]
    BY <1>3 DEF DatasetRead
  <2>2. q.pc = "populate" /\ q.row = 0
    BY <2>1 DEF TablesInv, TablesOK, RequestsInOrder, ConsoleInv, RequestsOK, Request
  <2> HIDE DEF q
  <2> QED
    BY <1>1, <2>1, <2>2, PlainRequestHolds
<1>4. ASSUME NEW t \in ConsoleThreads, PopulateSamples(t)
      PROVE  TablesInv'
  <2>1. UNCHANGED <<agentRows, runRows, failed>> /\ requests' = [requests EXCEPT ![t] = Free]
    BY <1>4 DEF PopulateSamples
  <2> QED
    BY <1>1, <2>1, FreeIsRequest, PlainRequestHolds
<1>5. CASE UNCHANGED consoleVars
  BY <1>1, <1>5 DEF consoleVars, TablesInv, TablesOK, ForeignKey, Exists, RequestsInOrder
<1> QED
  BY <1>1, <1>2, <1>3, <1>4, <1>5, CreateHolds, RenameHolds, DeleteHolds, InsertHolds,
     FinishHolds, FailHolds, RestartHolds
  DEF ConsoleNext

LEMMA TablesAlways == ConsoleSpec => []TablesInv
<1> QED
  BY TablesStartHold, TablesStepHolds, PTL DEF ConsoleSpec

LEMMA TablesTyped == TablesInv => ConsoleTypes
BY DEF TablesInv, TablesOK, ConsoleTypes, Distinct, ForeignKey, RequestsInOrder

(* However the requests interleave and wherever the server stops, no two   *)
(* agents have one name, and every run is one of an agent that is there:   *)
(* also when it was renamed, or deleted, between the request's read of it  *)
(* and its insert (app.py, _train_agent).                                  *)
THEOREM ConsoleIsTyped == ConsoleSpec => []ConsoleTypes
BY TablesAlways, TablesTyped, PTL

(* For any threads, agents and runs, and wherever the server stops, a row  *)
(* that says running is one of a training that runs or that was cut short. *)
THEOREM RunsAreOwned == ConsoleSpec => []NoOrphanRun
<1>1. TablesInv => NoOrphanRun
  BY DEF TablesInv, ConsoleInv
<1> QED
  BY <1>1, TablesAlways, PTL

-----------------------------------------------------------------------------
(* All services side by side.                                              *)

(* What each of the others does, the agents and the bus do not see.        *)
LEMMA BusInServices == ServicesSpec => BusSpec
<1>1. ServicesInit => AgentStart /\ BusStart
  BY DEF ServicesInit
<1>2. [ServicesNext]_servicesVars =>
        [MessageBusNext \/ (AgentNext /\ UNCHANGED busVars)]_<<agVars, busVars>>
  <2> SUFFICES ASSUME [ServicesNext]_servicesVars
               PROVE  [MessageBusNext \/ (AgentNext /\ UNCHANGED busVars)]_<<agVars, busVars>>
    OBVIOUS
  <2>1. CASE AgentsNext
    <3>1. CreateAutoAgent => TeamNext
      BY DEF TeamNext, CreateOrDelete
    <3> QED
      BY <2>1, <3>1 DEF AgentsNext, AgentNext
  <2>2. CASE CloudsNext
    BY <2>2 DEF CloudsNext
  <2>3. CASE LinesNext
    BY <2>3 DEF LinesNext
  <2>4. CASE SystemNext
    BY <2>4 DEF SystemNext
  <2>5. CASE ConsolesNext
    BY <2>5 DEF ConsolesNext
  <2>6. CASE UNCHANGED servicesVars
    BY <2>6 DEF servicesVars
  <2> QED
    BY <2>1, <2>2, <2>3, <2>4, <2>5, <2>6 DEF ServicesNext
<1> QED
  BY <1>1, <1>2, PTL DEF ServicesSpec, BusSpec

LEMMA CloudInServices == ServicesSpec => CloudSpec
<1>1. ServicesInit => CloudStart
  BY DEF ServicesInit
<1>2. [ServicesNext]_servicesVars => [CloudNext]_cloudVars
  <2> SUFFICES ASSUME [ServicesNext]_servicesVars PROVE [CloudNext]_cloudVars
    OBVIOUS
  <2>1. CASE AgentsNext
    BY <2>1 DEF AgentsNext
  <2>2. CASE CloudsNext
    BY <2>2 DEF CloudsNext, CloudNext
  <2>3. CASE LinesNext
    BY <2>3 DEF LinesNext
  <2>4. CASE SystemNext
    BY <2>4 DEF SystemNext
  <2>5. CASE ConsolesNext
    BY <2>5 DEF ConsolesNext
  <2>6. CASE UNCHANGED servicesVars
    BY <2>6 DEF servicesVars
  <2> QED
    BY <2>1, <2>2, <2>3, <2>4, <2>5, <2>6 DEF ServicesNext
<1> QED
  BY <1>1, <1>2, PTL DEF ServicesSpec, CloudSpec

LEMMA UartInServices == ServicesSpec => UartSpec
<1>1. ServicesInit => UartStart
  BY DEF ServicesInit
<1>2. [ServicesNext]_servicesVars => [UartNext]_uartVars
  <2> SUFFICES ASSUME [ServicesNext]_servicesVars PROVE [UartNext]_uartVars
    OBVIOUS
  <2>1. CASE AgentsNext
    BY <2>1 DEF AgentsNext
  <2>2. CASE CloudsNext
    BY <2>2 DEF CloudsNext
  <2>3. CASE LinesNext
    BY <2>3 DEF LinesNext
  <2>4. CASE SystemNext
    BY <2>4 DEF SystemNext
  <2>5. CASE ConsolesNext
    BY <2>5 DEF ConsolesNext
  <2>6. CASE UNCHANGED servicesVars
    BY <2>6 DEF servicesVars
  <2> QED
    BY <2>1, <2>2, <2>3, <2>4, <2>5, <2>6 DEF ServicesNext
<1> QED
  BY <1>1, <1>2, PTL DEF ServicesSpec, UartSpec

LEMMA FramesInServices == ServicesSpec => FramesSpec
<1>1. ServicesInit => FramesStart
  BY DEF ServicesInit
<1>2. [ServicesNext]_servicesVars => [FramesNext]_link
  <2> SUFFICES ASSUME [ServicesNext]_servicesVars PROVE [FramesNext]_link
    OBVIOUS
  <2>1. CASE AgentsNext
    BY <2>1 DEF AgentsNext
  <2>2. CASE CloudsNext
    BY <2>2 DEF CloudsNext
  <2>3. CASE LinesNext
    BY <2>3 DEF LinesNext
  <2>4. CASE SystemNext
    BY <2>4 DEF SystemNext
  <2>5. CASE ConsolesNext
    BY <2>5 DEF ConsolesNext
  <2>6. CASE UNCHANGED servicesVars
    BY <2>6 DEF servicesVars
  <2> QED
    BY <2>1, <2>2, <2>3, <2>4, <2>5, <2>6 DEF ServicesNext
<1> QED
  BY <1>1, <1>2, PTL DEF ServicesSpec, FramesSpec

LEMMA KernelInServices == ServicesSpec => KernelSpec
<1>1. ServicesInit => FirewallStart /\ KernelStart
  BY DEF ServicesInit
<1>2. [ServicesNext]_servicesVars => [KernelNext]_<<fwVars, kernelVars>>
  <2> SUFFICES ASSUME [ServicesNext]_servicesVars
               PROVE  [KernelNext]_<<fwVars, kernelVars>>
    OBVIOUS
  <2>1. CASE AgentsNext
    BY <2>1 DEF AgentsNext
  <2>2. CASE CloudsNext
    BY <2>2 DEF CloudsNext
  <2>3. CASE LinesNext
    BY <2>3 DEF LinesNext
  <2>4. CASE SystemNext
    <3>1. SystemInit => DevicesNext
      BY DEF DevicesNext
    <3> QED
      BY <2>4, <3>1 DEF SystemNext, KernelNext
  <2>5. CASE ConsolesNext
    BY <2>5 DEF ConsolesNext
  <2>6. CASE UNCHANGED servicesVars
    BY <2>6 DEF servicesVars
  <2> QED
    BY <2>1, <2>2, <2>3, <2>4, <2>5, <2>6 DEF ServicesNext
<1> QED
  BY <1>1, <1>2, PTL DEF ServicesSpec, KernelSpec

LEMMA ConsoleInServices == ServicesSpec => ConsoleSpec
<1>1. ServicesInit => ConsoleStart
  BY DEF ServicesInit
<1>2. [ServicesNext]_servicesVars => [ConsoleNext]_consoleVars
  <2> SUFFICES ASSUME [ServicesNext]_servicesVars PROVE [ConsoleNext]_consoleVars
    OBVIOUS
  <2>1. CASE AgentsNext
    BY <2>1 DEF AgentsNext
  <2>2. CASE CloudsNext
    BY <2>2 DEF CloudsNext
  <2>3. CASE LinesNext
    BY <2>3 DEF LinesNext
  <2>4. CASE SystemNext
    BY <2>4 DEF SystemNext
  <2>5. CASE ConsolesNext
    BY <2>5 DEF ConsolesNext
  <2>6. CASE UNCHANGED servicesVars
    BY <2>6 DEF servicesVars
  <2> QED
    BY <2>1, <2>2, <2>3, <2>4, <2>5, <2>6 DEF ServicesNext
<1> QED
  BY <1>1, <1>2, PTL DEF ServicesSpec, ConsoleSpec

LEMMA UnitsStay == ServicesSpec => [](unit \in Units)
<1>1. ServicesInit => unit \in Units
  BY DEF ServicesInit
<1>2. unit \in Units /\ [ServicesNext]_servicesVars => (unit \in Units)'
  BY DEF ServicesNext, AgentsNext, CloudsNext, LinesNext, SystemNext, ConsolesNext, servicesVars
<1> QED
  BY <1>1, <1>2, PTL DEF ServicesSpec

(* In every state of the services, side by side, each holds what its code  *)
(* can hold: slots, inboxes, senders, adapters, ring, bucket, devices,     *)
(* watchdogs and tables, for every value of the constants.                 *)
THEOREM ServicesTyped == ServicesSpec => []ServicesTypes
<1>1. ServicesSpec => [](AgentTypes /\ BusTypes)
  <2>1. BusSpec => [](AgentTypes /\ BusTypes)
    BY AgentsBesideSenders, BusIsTyped, PTL
  <2> QED
    BY <2>1, BusInServices
<1>2. ServicesSpec => []CloudTypes
  BY CloudInServices, CloudIsTyped
<1>3. ServicesSpec => []UartTypes
  BY UartInServices, UartIsTyped
<1>4. ServicesSpec => [](FirewallTypes /\ KernelTypes)
  BY KernelInServices, KernelIsTyped
<1>5. ServicesSpec => []ConsoleTypes
  BY ConsoleInServices, ConsoleIsTyped
<1>6. (unit \in Units) /\ (AgentTypes /\ BusTypes) /\ CloudTypes /\ UartTypes
        /\ (FirewallTypes /\ KernelTypes) /\ ConsoleTypes => ServicesTypes
  BY DEF ServicesTypes
<1> QED
  BY <1>1, <1>2, <1>3, <1>4, <1>5, <1>6, UnitsStay, PTL

(* Side by side the services keep their promises: those of agents, bus and *)
(* routing ...                                                             *)
THEOREM TeamKeepsPromises ==
  ServicesSpec =>
    /\ [](SubsWellFormed /\ ExecutingHasRunner /\ StalledIsNoticed /\ LastKeywordWins)
    /\ [](StatsNeverAhead /\ BroadcastPrefix /\ RouteHonoursMode)
<1>1. BusSpec => []( /\ SubsWellFormed /\ ExecutingHasRunner /\ StalledIsNoticed
                     /\ LastKeywordWins /\ StatsNeverAhead /\ BroadcastPrefix )
  BY AgentsBesideSenders, StatsHonest, BroadcastReached, PTL
<1>2. CloudSpec => []RouteHonoursMode
  BY RoutesHonourModes
<1> QED
  BY <1>1, <1>2, BusInServices, CloudInServices, PTL

(* ... and those of ring, frames, firewall, watchdogs and console.         *)
THEOREM SystemKeepsPromises ==
  ServicesSpec => /\ RingIsFifo
                  /\ [](RateBounded /\ ExpiredWasUnfed)
                  /\ [](FramesSurvive /\ NoOrphanRun)
<1>1. KernelSpec => [](RateBounded /\ ExpiredWasUnfed)
  BY RateLimitAcrossStarts, ExpiryIsJust, PTL
<1>2. ServicesSpec => RingIsFifo
  BY UartInServices, RingIsQueue
<1>3. ServicesSpec => []NoOrphanRun
  BY ConsoleInServices, RunsAreOwned
<1>4. ServicesSpec => []FramesSurvive
  BY FramesInServices, FramesAlwaysSurvive
<1> QED
  BY <1>1, <1>2, <1>3, <1>4, KernelInServices, PTL
=============================================================================
