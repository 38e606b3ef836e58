------------------------------- MODULE Firewall -------------------------------
(***************************************************************************)
(* The communication firewall: a list of commands and one of sources, a    *)
(* limit on the payload, a token bucket, and the counters of what became   *)
(* of the packets.                                                         *)
(*                                                                         *)
(* Time is kept as it really passes; the 32-bit tick the code reads is     *)
(* this time modulo FwWord, so that the difference of two ticks is the     *)
(* time that passed modulo FwWord.                                         *)
(***************************************************************************)
EXTENDS Integers, FiniteSets

CONSTANTS
  FwCmds, FwSrcs, FwLens,  \* commands, sources and payload lengths of packets
  FwRates,        \* rates an application sets, in tokens per unit of time
  FwBursts,       \* burst sizes it sets
  FwDefaultRate, FwDefaultBurst,  \* those of iFirewallInit, 100 and 10
  FwRuleSlots,    \* ZHIO_FW_MAX_ALLOWED
  FwUnit,         \* the fixed-point scale of a token, 1000
  FwWord,         \* 2^32: the values of a uint32_t
  FwMaxTime, FwMaxChecks  \* bounds of a run: time, and packets since a start

ASSUME FirewallAssumption ==
  /\ FwRates \subseteq Nat \ {0} /\ FwBursts \subseteq Nat /\ FwLens \subseteq Nat
  /\ FwDefaultRate \in Nat \ {0} /\ FwDefaultBurst \in Nat \ {0}
  /\ FwUnit \in Nat \ {0} /\ FwWord \in Nat \ {0} /\ FwRuleSlots \in Nat
  /\ FwMaxTime \in Nat /\ FwMaxChecks \in Nat

VARIABLES
  fwNow,     \* the time
  fwRules,   \* the valid entries of cmds and srcs, and max_payload
  bucket,    \* g_fw.bucket; last is the time of last_tick
  fwStats,   \* allowed, blocked and dropped
  fwHistory  \* history: packets checked since the start, tokens spent and
             \* the time since the bucket was set

fwVars == <<fwNow, fwRules, bucket, fwStats, fwHistory>>

NoRules == [cmds |-> {}, srcs |-> {}, max |-> 0]
NoStats == [allowed |-> 0, blocked |-> 0, dropped |-> 0]
FullBucket(rate, burst) ==
  LET size == (burst * FwUnit) % FwWord
  IN  [enabled |-> TRUE, rate |-> rate, capacity |-> size, tokens |-> size, last |-> fwNow]

Verdicts == {"ALLOW", "BLOCK_CMD", "BLOCK_SRC", "BLOCK_LEN", "BLOCK_RATE"}

FirewallTypes ==
  /\ fwNow \in Nat
  /\ fwRules \in [cmds : SUBSET FwCmds, srcs : SUBSET FwSrcs, max : FwLens \cup {0}]
  /\ bucket \in [enabled : BOOLEAN, rate : Nat, capacity : Nat, tokens : Nat, last : Nat]
  /\ bucket.tokens <= bucket.capacity /\ bucket.capacity < FwWord
  /\ fwStats \in [allowed : Nat, blocked : Nat, dropped : Nat]
  /\ fwHistory \in [checked : Nat, spent : Nat, setAt : Nat]
  /\ fwHistory.setAt <= bucket.last /\ bucket.last <= fwNow

-----------------------------------------------------------------------------

FirewallInit ==
  /\ fwRules' = NoRules
  /\ bucket' = FullBucket(FwDefaultRate, FwDefaultBurst)
  /\ fwStats' = NoStats
  /\ fwHistory' = [checked |-> 0, spent |-> 0, setAt |-> fwNow]
  /\ UNCHANGED fwNow

(* Everything is zero again, the switch of the bucket too. *)
FirewallDeinit ==
  /\ fwRules' = NoRules
  /\ bucket' = [enabled |-> FALSE, rate |-> 0, capacity |-> 0, tokens |-> 0, last |-> fwNow]
  /\ fwStats' = NoStats
  /\ fwHistory' = [checked |-> 0, spent |-> 0, setAt |-> fwNow]
  /\ UNCHANGED fwNow

FirewallSetRate(rate, burst) ==
  /\ IF rate = 0
       THEN /\ bucket' = [bucket EXCEPT !.enabled = FALSE]
            /\ UNCHANGED fwHistory
       ELSE /\ bucket' = FullBucket(rate, IF burst = 0 THEN 1 ELSE burst)
            /\ fwHistory' = [fwHistory EXCEPT !.spent = 0, !.setAt = fwNow]
  /\ UNCHANGED <<fwNow, fwRules, fwStats>>

(* Entries are never removed, so the valid ones come first and a rule that *)
(* is there is found before a free entry is.                               *)
WithRule(rules, r) == IF Cardinality(rules) < FwRuleSlots THEN rules \cup {r} ELSE rules

FirewallAllowCmd(c) ==
  /\ fwRules' = [fwRules EXCEPT !.cmds = WithRule(@, c)]
  /\ UNCHANGED <<fwNow, bucket, fwStats, fwHistory>>

FirewallAllowSrc(s) ==
  /\ fwRules' = [fwRules EXCEPT !.srcs = WithRule(@, s)]
  /\ UNCHANGED <<fwNow, bucket, fwStats, fwHistory>>

FirewallSetMaxPayload(n) ==
  /\ fwRules' = [fwRules EXCEPT !.max = n]
  /\ UNCHANGED <<fwNow, bucket, fwStats, fwHistory>>

(* The tokens after bucket_refill: rate times the milliseconds since the   *)
(* last packet, cut to 32 bits and added in 32 bits, then limited.         *)
Refilled ==
  LET elapsed == (fwNow - bucket.last) % FwWord
      sum == (bucket.tokens + ((bucket.rate * elapsed) % FwWord)) % FwWord
  IN  IF sum > bucket.capacity THEN bucket.capacity ELSE sum

(* As RefilledBucket, keeping the time of the last packet.                 *)
RefilledBucketKeepsLast ==
  IF bucket.enabled THEN [bucket EXCEPT !.tokens = Refilled] ELSE bucket

RefilledBucket ==
  IF bucket.enabled THEN [bucket EXCEPT !.tokens = Refilled, !.last = fwNow] ELSE bucket

(* A packet is counted as allowed first, which every other exit takes back.*)
Count(verdict) ==
  LET allowed == [fwStats EXCEPT !.allowed = @ + 1]
      refused == [allowed EXCEPT !.allowed = @ - 1]
  IN  IF verdict = "ALLOW" THEN allowed
      ELSE IF verdict = "BLOCK_RATE" THEN [refused EXCEPT !.dropped = @ + 1]
      ELSE [refused EXCEPT !.blocked = @ + 1]

(* What the lists and the limit say of a packet, before the bucket. *)
RuleVerdict(cmd, src, len) ==
  IF cmd \notin fwRules.cmds THEN "BLOCK_CMD"
  ELSE IF fwRules.srcs # {} /\ src \notin fwRules.srcs THEN "BLOCK_SRC"
  ELSE IF fwRules.max # 0 /\ len > fwRules.max THEN "BLOCK_LEN"
  ELSE "ALLOW"

FirewallCheck(cmd, src, len) ==
  /\ fwHistory.checked < FwMaxChecks
  /\ \/ /\ RuleVerdict(cmd, src, len) # "ALLOW"
        /\ fwStats' = Count(RuleVerdict(cmd, src, len))
        /\ fwHistory' = [fwHistory EXCEPT !.checked = @ + 1]
        /\ UNCHANGED bucket
     \/ /\ RuleVerdict(cmd, src, len) = "ALLOW"
        /\ RefilledBucket.enabled /\ RefilledBucket.tokens < FwUnit
        /\ bucket' = RefilledBucket
        /\ fwStats' = Count("BLOCK_RATE")
        /\ fwHistory' = [fwHistory EXCEPT !.checked = @ + 1]
     \/ /\ RuleVerdict(cmd, src, len) = "ALLOW"
        /\ RefilledBucket.enabled /\ RefilledBucket.tokens >= FwUnit
        /\ bucket' = [RefilledBucket EXCEPT !.tokens = @ - FwUnit]
        /\ fwStats' = Count("ALLOW")
        /\ fwHistory' = [fwHistory EXCEPT !.checked = @ + 1, !.spent = @ + 1]
     \/ /\ RuleVerdict(cmd, src, len) = "ALLOW"
        /\ ~bucket.enabled
        /\ fwStats' = Count("ALLOW")
        /\ fwHistory' = [fwHistory EXCEPT !.checked = @ + 1]
        /\ UNCHANGED bucket
  /\ UNCHANGED <<fwNow, fwRules>>

FirewallTick ==
  /\ fwNow < FwMaxTime
  /\ fwNow' = fwNow + 1
  /\ UNCHANGED <<fwRules, bucket, fwStats, fwHistory>>

(* The firewall as zhio_system_init leaves it, before the rules. *)
FirewallStart ==
  /\ fwNow = 0
  /\ fwRules = NoRules
  /\ bucket = FullBucket(FwDefaultRate, FwDefaultBurst)
  /\ fwStats = NoStats
  /\ fwHistory = [checked |-> 0, spent |-> 0, setAt |-> 0]

FirewallNext ==
  \/ FirewallInit
  \/ FirewallDeinit
  \/ \E rate \in FwRates \cup {0}, burst \in FwBursts : FirewallSetRate(rate, burst)
  \/ \E c \in FwCmds : FirewallAllowCmd(c)
  \/ \E s \in FwSrcs : FirewallAllowSrc(s)
  \/ \E n \in FwLens : FirewallSetMaxPayload(n)
  \/ \E c \in FwCmds, s \in FwSrcs, n \in FwLens : FirewallCheck(c, s, n)
  \/ FirewallTick

FirewallSpec == FirewallStart /\ [][FirewallNext]_fwVars

-----------------------------------------------------------------------------
(* The rate limit holds whatever the packets, the pauses and the wraps of  *)
(* the tick and of the fixed-point sums (xFirewallCheck, bucket_refill):   *)
(* since the bucket was set, the packets it let through and the tokens it  *)
(* still has come to no more than the burst and what the elapsed time      *)
(* earns.                                                                  *)
RateBounded ==
  bucket.enabled =>
    FwUnit * fwHistory.spent + bucket.tokens
      <= bucket.capacity + bucket.rate * (bucket.last - fwHistory.setAt)

(* The tokens the elapsed time is due, rate * el (firewall.c:120), beside  *)
(* those that are left, limited to the capacity.                           *)
DueTokens ==
  LET sum == bucket.tokens + bucket.rate * ((fwNow - bucket.last) % FwWord)
  IN  IF sum > bucket.capacity THEN bucket.capacity ELSE sum

(* A packet that comes to the bucket finds the tokens that are due there,  *)
(* however long the pause before it was (bucket_refill).                   *)
RefillsWhatIsDue ==
  [][bucket.enabled /\ bucket'.last # bucket.last /\ fwHistory'.checked = fwHistory.checked + 1
       => bucket'.tokens + FwUnit * (fwHistory'.spent - fwHistory.spent) = DueTokens]_fwVars
=============================================================================
