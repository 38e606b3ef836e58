--------------------------- MODULE MessageBusProofs ---------------------------
(***************************************************************************)
(* The message bus beside the agents, for any number of senders, inboxes   *)
(* and messages.                                                           *)
(***************************************************************************)
EXTENDS MessageBus, AgentsProofs

-----------------------------------------------------------------------------
(* The bus.                                                                *)

Has(s, accepted) == {i \in DOMAIN s.targets : <<s.msg, s.targets[i]>> \in accepted}

Sends(len, messages) ==
  [pc : {"rest", "resolved", "put", "load", "store"}, msg : 0..messages, prio : Nat,
   slot : AgSlots \cup {NoAgent}, targets : Seq(0..len), at : Nat \ {0},
   count : {"sent", "dropped"}, value : Nat, rc : {"OK", "NOAGENT", "INVAL", "FULL"}]

(* How far a thread is with its message, and which inboxes of its list     *)
(* have it by then.                                                        *)
SendOK(s, len, messages, accepted) ==
  /\ s \in Sends(len, messages)
  /\ IsInjective(s.targets)
  /\ s.pc # "rest" => s.msg # 0
  /\ s.pc = "resolved" =>
       s.slot \in AgSlots /\ s.at = 1 /\ \A i : <<s.msg, i>> \notin accepted
  /\ s.pc \in {"put", "load", "store"} => s.at \in DOMAIN s.targets
  /\ s.pc = "put" => Has(s, accepted) = 1..(s.at - 1)
  /\ s.pc \in {"load", "store"} =>
       Has(s, accepted) = IF s.count = "sent" THEN 1..s.at ELSE 1..(s.at - 1)
  /\ s.pc = "rest" /\ s.targets # <<>> =>
       Has(s, accepted) = IF s.rc = "OK" THEN DOMAIN s.targets ELSE 1..(s.at - 1)

LogOK(log, len) ==
  /\ log \in [messages : Nat, accepted : SUBSET (Nat \X Nat), refused : Nat]
  /\ log.messages <= BusMaxMessages
  /\ log.accepted \subseteq (1..log.messages) \X (1..len)
  /\ IsFiniteSet(log.accepted)

BusShape ==
  /\ counters \in [{"sent", "dropped"} -> Nat]
  /\ LogOK(busLog, Len(queues))
  /\ sends = [t \in BusThreads |-> sends[t]]
  /\ \A t \in BusThreads : SendOK(sends[t], Len(queues), busLog.messages, busLog.accepted)
  /\ \A t, u \in BusThreads : t # u /\ sends[t].msg = sends[u].msg => sends[t].msg = 0

(* The threads that still owe a counter an increment, and what there is    *)
(* to count.                                                               *)
Pending(c) == {t \in BusThreads : sends[t].pc \in {"load", "store"} /\ sends[t].count = c}

Tally(c) == IF c = "sent" THEN Cardinality(busLog.accepted) ELSE busLog.refused

Counted(c) ==
  /\ counters[c] + Cardinality(Pending(c)) <= Tally(c)
  /\ \A t \in Pending(c) :
       sends[t].pc = "store" => sends[t].value + Cardinality(Pending(c)) <= Tally(c)

BusInv == SlotsInv /\ BusShape /\ Counted("sent") /\ Counted("dropped")

LEMMA HasKept ==
  ASSUME NEW s, NEW accepted, NEW more, accepted \subseteq more,
         \A m, i : <<m, i>> \in more => <<m, i>> \in accepted \/ m # s.msg
  PROVE  Has(s, more) = Has(s, accepted)
BY DEF Has

LEMMA SendKept ==
  ASSUME NEW s, NEW len \in Nat, NEW longer \in Nat, len <= longer,
         NEW messages \in Nat, NEW later \in Nat, messages <= later,
         NEW accepted, NEW more, accepted \subseteq more,
         \A m, i : <<m, i>> \in more => <<m, i>> \in accepted \/ m # s.msg,
         SendOK(s, len, messages, accepted)
  PROVE  SendOK(s, longer, later, more)
<1>1. Has(s, more) = Has(s, accepted)
  BY HasKept
<1>2. s \in Sends(longer, later)
  <2>1. s \in Sends(len, messages)
    BY DEF SendOK
  <2>2. 0..len \subseteq 0..longer /\ 0..messages \subseteq 0..later
    OBVIOUS
  <2>3. s.targets \in Seq(0..longer)
    BY <2>1, <2>2 DEF Sends
  <2> QED
    BY <2>1, <2>2, <2>3 DEF Sends
<1>3. \A i : <<s.msg, i>> \in more => <<s.msg, i>> \in accepted
  OBVIOUS
<1> QED
  BY <1>1, <1>2, <1>3 DEF SendOK

(* A step of one thread.                                                   *)
LEMMA ShapeHolds ==
  ASSUME BusShape, Len(queues) \in Nat, Len(queues') \in Nat, Len(queues) <= Len(queues'),
         counters' \in [{"sent", "dropped"} -> Nat], LogOK(busLog', Len(queues')),
         busLog.messages <= busLog'.messages, busLog.accepted \subseteq busLog'.accepted,
         NEW t \in BusThreads, NEW q, sends' = [sends EXCEPT ![t] = q],
         SendOK(q, Len(queues'), busLog'.messages, busLog'.accepted),
         q.msg = sends[t].msg \/ q.msg > busLog.messages,
         \A m, i : <<m, i>> \in busLog'.accepted =>
           <<m, i>> \in busLog.accepted \/ (m = sends[t].msg /\ m # 0)
  PROVE  BusShape'
<1>1. \A u \in BusThreads : sends'[u] = IF u = t THEN q ELSE sends[u]
  BY DEF BusShape
<1>2. sends' = [u \in BusThreads |-> sends'[u]]
  BY DEF BusShape
<1>3. \A u \in BusThreads : sends[u].msg \in 0..busLog.messages
  BY DEF BusShape, SendOK, Sends
<1>4. busLog.messages \in Nat /\ busLog'.messages \in Nat
  BY DEF BusShape, LogOK
<1>5. \A u \in BusThreads : SendOK(sends'[u], Len(queues'), busLog'.messages, busLog'.accepted)
  <2> SUFFICES ASSUME NEW u \in BusThreads, u # t
               PROVE  SendOK(sends[u], Len(queues'), busLog'.messages, busLog'.accepted)
    BY <1>1
  <2>1. \A m, i : <<m, i>> \in busLog'.accepted => <<m, i>> \in busLog.accepted \/ m # sends[u].msg
    <3>1. sends[t].msg = sends[u].msg => sends[t].msg = 0
      BY DEF BusShape
    <3> QED
      BY <3>1
  <2>2. SendOK(sends[u], Len(queues), busLog.messages, busLog.accepted)
    BY DEF BusShape
  <2> QED
    BY <1>4, <2>1, <2>2, SendKept
<1>6. \A u, v \in BusThreads : u # v /\ sends'[u].msg = sends'[v].msg => sends'[u].msg = 0
  <2>1. \A u, v \in BusThreads : u # v /\ sends[u].msg = sends[v].msg => sends[u].msg = 0
    BY DEF BusShape
  <2>2. q.msg = sends[t].msg \/ \A u \in BusThreads : q.msg # sends[u].msg
    BY <1>3, <1>4
  <2> QED
    BY <1>1, <2>1, <2>2
<1> QED
  BY <1>2, <1>5, <1>6 DEF BusShape

LEMMA LogGrows ==
  ASSUME NEW log, NEW len \in Nat, NEW longer \in Nat, len <= longer, LogOK(log, len)
  PROVE  LogOK(log, longer)
BY DEF LogOK

(* A step that leaves the bus alone.                                       *)
LEMMA ShapeStays ==
  ASSUME BusShape, Len(queues) \in Nat, Len(queues') \in Nat, Len(queues) <= Len(queues'),
         counters' \in [{"sent", "dropped"} -> Nat], UNCHANGED <<sends, busLog>>
  PROVE  BusShape'
<1>1. LogOK(busLog', Len(queues'))
  BY LogGrows DEF BusShape
<1>2. \A u \in BusThreads : SendOK(sends'[u], Len(queues'), busLog'.messages, busLog'.accepted)
  <2> SUFFICES ASSUME NEW u \in BusThreads
               PROVE  SendOK(sends[u], Len(queues'), busLog.messages, busLog.accepted)
    OBVIOUS
  <2>1. SendOK(sends[u], Len(queues), busLog.messages, busLog.accepted)
    BY DEF BusShape
  <2>2. busLog.messages \in Nat /\ busLog.messages <= busLog.messages
    BY DEF BusShape, LogOK
  <2> QED
    BY <2>1, <2>2, SendKept
<1> QED
  BY <1>1, <1>2 DEF BusShape

-----------------------------------------------------------------------------
LEMMA RestingIs ==
  /\ Resting.pc = "rest" /\ Resting.msg = 0 /\ Resting.prio = 5 /\ Resting.slot = NoAgent
  /\ Resting.targets = <<>> /\ Resting.at = 1 /\ Resting.count = "sent" /\ Resting.value = 0
  /\ Resting.rc = "OK"
BY DEF Resting

LEMMA EmptyTargets ==
  ASSUME NEW len
  PROVE  <<>> \in Seq(0..len) /\ IsInjective(<<>>)
BY DEF IsInjective

LEMMA RestingOK ==
  ASSUME NEW len \in Nat, NEW messages \in Nat, NEW accepted
  PROVE  SendOK(Resting, len, messages, accepted)
<1>1. Resting \in Sends(len, messages)
  BY EmptyTargets DEF Resting, Sends
<1> QED
  BY <1>1, RestingIs, EmptyTargets DEF SendOK

LEMMA PendingFinite ==
  ASSUME NEW c
  PROVE  IsFiniteSet(Pending(c)) /\ Cardinality(Pending(c)) \in Nat
BY MessageBusAssumption, FS_Subset, FS_CardinalityType DEF Pending

LEMMA TallyNat ==
  ASSUME BusShape, NEW c
  PROVE  Tally(c) \in Nat
BY FS_CardinalityType DEF BusShape, LogOK, Tally

LEMMA BusStartHolds == AgentStart /\ BusStart => BusInv
<1> SUFFICES ASSUME AgentStart, BusStart PROVE BusInv
  OBVIOUS
<1>1. SlotsInv /\ queues = <<>>
  BY SlotsStart DEF AgentStart
<1>2. BusShape
  <2>1. LogOK(busLog, Len(queues))
    <3>1. IsFiniteSet({})
      BY FS_EmptySet
    <3> QED
      BY <1>1, <3>1, MessageBusAssumption DEF BusStart, LogOK
  <2>2. /\ sends = [t \in BusThreads |-> sends[t]]
        /\ \A t \in BusThreads : sends[t] = Resting
    BY DEF BusStart
  <2>3. Len(queues) \in Nat /\ busLog.messages \in Nat
    BY <1>1 DEF BusStart
  <2>4. SendOK(Resting, Len(queues), busLog.messages, busLog.accepted)
    BY <2>3, RestingOK
  <2>5. counters \in [{"sent", "dropped"} -> Nat]
    BY DEF BusStart
  <2> QED
    BY <2>1, <2>2, <2>4, <2>5, RestingIs DEF BusShape
<1>3. ASSUME NEW c \in {"sent", "dropped"} PROVE Counted(c)
  <2>1. Pending(c) = {}
    BY RestingIs DEF BusStart, Pending
  <2>2. Cardinality(Pending(c)) = 0 /\ counters[c] = 0 /\ Tally(c) = 0
    BY <2>1, FS_EmptySet DEF BusStart, Tally
  <2> QED
    BY <2>1, <2>2 DEF Counted
<1> QED
  BY <1>1, <1>2, <1>3 DEF BusInv

(* Steps that leave the pending increments as they are.                    *)
LEMMA CountedStays ==
  ASSUME BusShape, NEW c \in {"sent", "dropped"}, Counted(c),
         counters'[c] = counters[c] \/ counters'[c] = 0,
         Pending(c)' = Pending(c), Tally(c)' = Tally(c),
         \A t \in Pending(c) : sends'[t].pc = "store" =>
           \/ sends[t].pc = "store" /\ sends'[t].value = sends[t].value
           \/ sends'[t].value = counters[c]
  PROVE  Counted(c)'
<1>1. counters[c] \in Nat /\ Tally(c) \in Nat /\ Cardinality(Pending(c)) \in Nat
  BY TallyNat, PendingFinite DEF BusShape
<1>2. counters'[c] + Cardinality(Pending(c)) <= Tally(c)
  BY <1>1 DEF Counted
<1>3. \A t \in Pending(c) : sends'[t].pc = "store" =>
        sends'[t].value + Cardinality(Pending(c)) <= Tally(c)
  BY DEF Counted
<1> QED
  BY <1>2, <1>3 DEF Counted

(* A thread whose message went to the queue, or was refused by it, has a   *)
(* counter to increment.                                                   *)
LEMMA CountedJoins ==
  ASSUME BusShape, NEW t \in BusThreads, NEW q, sends' = [sends EXCEPT ![t] = q],
         sends[t].pc = "put", q.pc = "load", UNCHANGED counters,
         NEW c \in {"sent", "dropped"}, Counted(c),
         Tally(c)' = IF q.count = c THEN Tally(c) + 1 ELSE Tally(c)
  PROVE  Counted(c)'
<1>1. \A u \in BusThreads : sends'[u] = IF u = t THEN q ELSE sends[u]
  BY DEF BusShape
<1>2. t \notin Pending(c)
  BY DEF Pending
<1>3. counters[c] \in Nat /\ Tally(c) \in Nat
  BY TallyNat DEF BusShape
<1>4. IsFiniteSet(Pending(c)) /\ Cardinality(Pending(c)) \in Nat
  BY PendingFinite
<1>5. CASE q.count = c
  <2>1. Pending(c)' = Pending(c) \cup {t}
    BY <1>1, <1>5 DEF Pending
  <2>2. Cardinality(Pending(c) \cup {t}) = Cardinality(Pending(c)) + 1
    BY <1>2, <1>4, FS_AddElement
  <2>3. counters'[c] + Cardinality(Pending(c)') <= Tally(c)'
    BY <1>3, <1>4, <1>5, <2>1, <2>2 DEF Counted
  <2>4. ASSUME NEW u \in Pending(c)', sends'[u].pc = "store"
        PROVE  sends'[u].value + Cardinality(Pending(c)') <= Tally(c)'
    <3>1. u # t
      BY <1>1, <2>4
    <3>2. u \in Pending(c) /\ sends'[u] = sends[u]
      BY <1>1, <2>1, <3>1 DEF Pending
    <3>3. sends[u].value + Cardinality(Pending(c)) <= Tally(c) /\ sends[u].value \in Nat
      BY <2>4, <3>2 DEF Counted, BusShape, SendOK, Sends, Pending
    <3> QED
      BY <1>3, <1>4, <1>5, <2>1, <2>2, <3>2, <3>3
  <2> QED
    BY <2>3, <2>4 DEF Counted
<1>6. CASE q.count # c
  <2>1. Pending(c)' = Pending(c)
    BY <1>1, <1>2, <1>6 DEF Pending
  <2>2. \A u \in Pending(c) : sends'[u] = sends[u]
    BY <1>1, <1>2 DEF Pending
  <2> QED
    BY <1>6, <2>1, <2>2, CountedStays
<1> QED
  BY <1>5, <1>6

(* Writing a counter back: the value is what was read and one more.        *)
LEMMA CountedLeaves ==
  ASSUME BusShape, NEW t \in BusThreads, NEW q, sends' = [sends EXCEPT ![t] = q],
         sends[t].pc = "store", q.pc \in {"put", "rest"}, UNCHANGED busLog,
         counters' = [counters EXCEPT ![sends[t].count] = sends[t].value + 1],
         NEW c \in {"sent", "dropped"}, Counted(c)
  PROVE  Counted(c)'
<1>1. \A u \in BusThreads : sends'[u] = IF u = t THEN q ELSE sends[u]
  BY DEF BusShape
<1>2. counters[c] \in Nat /\ Tally(c) \in Nat /\ Tally(c)' = Tally(c)
  BY TallyNat DEF BusShape, Tally
<1>3. IsFiniteSet(Pending(c)) /\ Cardinality(Pending(c)) \in Nat
  BY PendingFinite
<1>4. sends[t].value \in Nat /\ sends[t].count \in {"sent", "dropped"}
  BY DEF BusShape, SendOK, Sends
<1>5. CASE sends[t].count = c
  <2>1. Pending(c)' = Pending(c) \ {t} /\ t \in Pending(c)
    BY <1>1, <1>5 DEF Pending
  <2>2. Cardinality(Pending(c) \ {t}) = Cardinality(Pending(c)) - 1
    BY <1>3, <2>1, FS_RemoveElement
  <2>3. sends[t].value + Cardinality(Pending(c)) <= Tally(c)
    BY <2>1 DEF Counted
  <2>4. counters'[c] = sends[t].value + 1
    BY <1>5 DEF BusShape
  <2>5. counters'[c] + Cardinality(Pending(c)') <= Tally(c)'
    BY <1>2, <1>3, <1>4, <2>1, <2>2, <2>3, <2>4
  <2>6. ASSUME NEW u \in Pending(c)', sends'[u].pc = "store"
        PROVE  sends'[u].value + Cardinality(Pending(c)') <= Tally(c)'
    <3>1. u \in Pending(c) /\ sends'[u] = sends[u]
      BY <1>1, <2>1 DEF Pending
    <3>2. sends[u].value + Cardinality(Pending(c)) <= Tally(c) /\ sends[u].value \in Nat
      BY <2>6, <3>1 DEF Counted, BusShape, SendOK, Sends, Pending
    <3> QED
      BY <1>2, <1>3, <2>1, <2>2, <3>1, <3>2
  <2> QED
    BY <2>5, <2>6 DEF Counted
<1>6. CASE sends[t].count # c
  <2>1. Pending(c)' = Pending(c) /\ t \notin Pending(c)
    BY <1>1, <1>6 DEF Pending
  <2>2. \A u \in Pending(c) : sends'[u] = sends[u]
    BY <1>1, <2>1 DEF Pending
  <2>3. counters'[c] = counters[c]
    BY <1>4, <1>6 DEF BusShape
  <2> QED
    BY <1>2, <2>1, <2>2, <2>3, CountedStays
<1> QED
  BY <1>5, <1>6

(* A thread that is neither pending before nor after its step.             *)
LEMMA CountedIdle ==
  ASSUME BusShape, NEW t \in BusThreads, NEW q, sends' = [sends EXCEPT ![t] = q],
         sends[t].pc \notin {"load", "store"}, q.pc \notin {"load", "store"},
         UNCHANGED counters, busLog'.accepted = busLog.accepted, busLog'.refused = busLog.refused,
         NEW c \in {"sent", "dropped"}, Counted(c)
  PROVE  Counted(c)'
<1>1. \A u \in BusThreads : sends'[u] = IF u = t THEN q ELSE sends[u]
  BY DEF BusShape
<1>2. Pending(c)' = Pending(c) /\ \A u \in Pending(c) : sends'[u] = sends[u]
  BY <1>1 DEF Pending
<1>3. Tally(c)' = Tally(c)
  BY DEF Tally
<1> QED
  BY <1>2, <1>3, CountedStays

-----------------------------------------------------------------------------
(* What a thread may start to send.                                        *)
Sendable(s, len) ==
  /\ s \in Sends(len, 0)
  /\ s.at = 1 /\ IsInjective(s.targets)
  /\ \/ s.pc = "rest" /\ s.targets = <<>>
     \/ s.pc = "resolved" /\ s.slot \in AgSlots
     \/ s.pc = "put" /\ 1 \in DOMAIN s.targets

LEMMA NewMessageHolds ==
  ASSUME BusInv, NEW t \in BusThreads, NEW send, Sendable(send, Len(queues)), NewMessage(t, send)
  PROVE  BusInv'
<1> DEFINE q == [send EXCEPT !.msg = busLog.messages + 1]
           M == busLog.messages
           A == busLog.accepted
<1>1. /\ sends[t].pc = "rest" /\ M < BusMaxMessages
      /\ busLog' = [busLog EXCEPT !.messages = M + 1]
      /\ sends' = [sends EXCEPT ![t] = q]
      /\ UNCHANGED <<agVars, counters>>
  BY DEF NewMessage
<1>2. LogOK(busLog, Len(queues)) /\ M \in Nat /\ Len(queues) \in Nat
  BY QueueFacts DEF BusInv, BusShape, LogOK
<1>3. busLog'.messages = M + 1 /\ busLog'.accepted = A /\ busLog'.refused = busLog.refused
  BY <1>1, <1>2 DEF LogOK
<1>4. LogOK(busLog', Len(queues))
  <2>1. A \subseteq (1..(M + 1)) \X (1..Len(queues))
    BY <1>2 DEF LogOK
  <2>2. busLog' \in [messages : Nat, accepted : SUBSET (Nat \X Nat), refused : Nat]
    BY <1>1, <1>2 DEF LogOK
  <2>3. M + 1 <= BusMaxMessages
    BY <1>1, <1>2, MessageBusAssumption
  <2> QED
    BY <1>2, <1>3, <2>1, <2>2, <2>3 DEF LogOK
<1>5. \A i : <<M + 1, i>> \notin A
  BY <1>2 DEF LogOK
<1>6. /\ q \in Sends(Len(queues), M + 1)
      /\ q.msg = M + 1 /\ q.pc = send.pc /\ q.slot = send.slot /\ q.targets = send.targets
      /\ q.at = 1
  BY <1>2 DEF Sendable, Sends
<1>7. SendOK(q, Len(queues), M + 1, A)
  <2>1. Has(q, A) = {}
    BY <1>5, <1>6 DEF Has
  <2>2. 1..(q.at - 1) = {} /\ q.msg # 0
    BY <1>2, <1>6
  <2> HIDE DEF q
  <2> QED
    BY <1>5, <1>6, <2>1, <2>2 DEF SendOK, Sendable
<1> HIDE DEF q
<1>8. BusShape'
  <2>1. q.msg > M /\ M <= M + 1
    BY <1>2, <1>6
  <2> QED
    BY <1>1, <1>2, <1>3, <1>4, <1>7, <2>1, ShapeHolds DEF BusInv, agVars, BusShape
<1>9. Counted("sent")' /\ Counted("dropped")'
  <2>1. q.pc \notin {"load", "store"}
    BY <1>6 DEF Sendable
  <2> QED
    BY <1>1, <1>3, <2>1, CountedIdle DEF BusInv
<1>10. SlotsInv'
  BY <1>1, <1>2, SlotsStep DEF BusInv
<1> QED
  BY <1>8, <1>9, <1>10 DEF BusInv

(* The bus without its actions of agents and queues.                       *)
LEMMA OnlyBus ==
  ASSUME SlotsInv, UNCHANGED agVars
  PROVE  SlotsInv' /\ Len(queues) \in Nat /\ Len(queues') = Len(queues)
BY SlotsStep, QueueFacts DEF agVars

LEMMA SendFacts ==
  ASSUME BusInv, NEW t \in BusThreads
  PROVE  /\ SendOK(sends[t], Len(queues), busLog.messages, busLog.accepted)
         /\ sends[t] \in Sends(Len(queues), busLog.messages)
         /\ busLog.messages \in Nat /\ Len(queues) \in Nat /\ LogOK(busLog, Len(queues))
         /\ sends = [u \in BusThreads |-> sends[u]]
         /\ counters \in [{"sent", "dropped"} -> Nat]
BY QueueFacts DEF BusInv, BusShape, LogOK, SendOK

(* A step of a thread that changes neither agents nor the log.             *)
LEMMA ThreadHolds ==
  ASSUME BusInv, NEW t \in BusThreads, NEW q, sends' = [sends EXCEPT ![t] = q],
         SendOK(q, Len(queues), busLog.messages, busLog.accepted), q.msg = sends[t].msg,
         UNCHANGED <<agVars, busLog>>, counters' \in [{"sent", "dropped"} -> Nat],
         Counted("sent")', Counted("dropped")'
  PROVE  BusInv'
<1>1. SlotsInv' /\ Len(queues) \in Nat /\ Len(queues') = Len(queues) /\ BusShape
  BY OnlyBus DEF BusInv
<1>2. Len(queues) <= Len(queues') /\ busLog.messages <= busLog'.messages
      /\ LogOK(busLog', Len(queues'))
  BY <1>1, SendFacts
<1>3. BusShape'
  BY <1>1, <1>2, ShapeHolds
<1> QED
  BY <1>1, <1>3 DEF BusInv

LEMMA RestingSends ==
  ASSUME NEW len \in Nat
  PROVE  Resting \in Sends(len, 0)
BY RestingOK DEF SendOK

LEMMA SendAgentMessageHolds ==
  ASSUME BusInv, NEW t \in BusThreads, NEW a \in AgSlots, SendAgentMessage(t, a)
  PROVE  BusInv'
<1> DEFINE found == [Resting EXCEPT !.pc = "resolved", !.slot = a]
           lost  == [Resting EXCEPT !.rc = "NOAGENT"]
<1>1. Len(queues) \in Nat
  BY SendFacts
<1>2. Sendable(found, Len(queues))
  <2>1. found \in Sends(Len(queues), 0)
    <3> DEFINE r == [Resting EXCEPT !.pc = "resolved"]
    <3>1. Resting \in Sends(Len(queues), 0)
      BY <1>1, RestingSends
    <3>2. r \in Sends(Len(queues), 0) /\ found = [r EXCEPT !.slot = a]
      BY <3>1 DEF Sends, Resting
    <3> HIDE DEF r, found
    <3> QED
      BY <3>2 DEF Sends
  <2>2. found.pc = "resolved" /\ found.slot = a /\ found.at = 1 /\ found.targets = <<>>
    BY DEF Resting
  <2> HIDE DEF found
  <2> QED
    BY <2>1, <2>2, EmptyTargets DEF Sendable
<1>3. Sendable(lost, Len(queues))
  <2>1. lost \in Sends(Len(queues), 0)
    <3>1. Resting \in Sends(Len(queues), 0)
      BY <1>1, RestingSends
    <3> QED
      BY <3>1 DEF Sends
  <2>2. lost.pc = "rest" /\ lost.at = 1 /\ lost.targets = <<>>
    BY DEF Resting
  <2> HIDE DEF lost
  <2> QED
    BY <2>1, <2>2, EmptyTargets DEF Sendable
<1>4. NewMessage(t, found) \/ NewMessage(t, lost)
  BY DEF SendAgentMessage
<1> HIDE DEF found, lost
<1> QED
  BY <1>2, <1>3, <1>4, NewMessageHolds

LEMMA BroadcastHolds ==
  ASSUME BusInv, NEW t \in BusThreads, NEW prio \in Nat,
         Broadcast(t, [i \in DOMAIN queues |-> i], prio)
  PROVE  BusInv'
<1> DEFINE list == [i \in DOMAIN queues |-> i]
           new  == [Resting EXCEPT !.pc = "put", !.targets = list, !.prio = prio]
           bad  == [Resting EXCEPT !.rc = "INVAL"]
           len  == Len(queues)
<1>1. len \in Nat /\ DOMAIN queues = 1..len
  BY QueueFacts DEF BusInv
<1>2. list \in Seq(0..len) /\ IsInjective(list) /\ DOMAIN list = 1..len
  <2>1. list \in [1..len -> 0..len]
    BY <1>1
  <2> QED
    BY <1>1, <2>1 DEF IsInjective
<1>3. ASSUME list # <<>> PROVE Sendable(new, len)
  <2>1. new \in Sends(len, 0)
    <3> DEFINE r == [Resting EXCEPT !.pc = "put"]
               q == [r EXCEPT !.targets = list]
    <3>1. Resting \in Sends(len, 0)
      BY <1>1, RestingSends
    <3>2. r \in Sends(len, 0) /\ new = [q EXCEPT !.prio = prio]
      BY <3>1 DEF Sends, Resting
    <3> HIDE DEF r, new, list, len
    <3>3. q \in Sends(len, 0)
      BY <1>2, <3>2 DEF Sends
    <3> HIDE DEF q
    <3> QED
      BY <3>2, <3>3 DEF Sends
  <2>2. new.pc = "put" /\ new.at = 1 /\ new.targets = list
    BY DEF Resting
  <2>3. 1 \in DOMAIN list
    <3>1. len # 0
      BY <1>2, <1>3
    <3> QED
      BY <1>1, <1>2, <3>1
  <2> HIDE DEF new, list
  <2> QED
    BY <1>2, <2>1, <2>2, <2>3 DEF Sendable
<1>4. Sendable(bad, len)
  <2>1. bad \in Sends(len, 0)
    <3>1. Resting \in Sends(len, 0)
      BY <1>1, RestingSends
    <3> QED
      BY <3>1 DEF Sends
  <2>2. bad.pc = "rest" /\ bad.at = 1 /\ bad.targets = <<>>
    BY DEF Resting
  <2> HIDE DEF bad
  <2> QED
    BY <2>1, <2>2, EmptyTargets DEF Sendable
<1>5. NewMessage(t, bad) \/ (list # <<>> /\ NewMessage(t, new))
  BY DEF Broadcast
<1> HIDE DEF new, bad, list
<1> QED
  BY <1>3, <1>4, <1>5, NewMessageHolds

LEMMA TakeInboxHolds ==
  ASSUME BusInv, NEW t \in BusThreads, TakeInbox(t)
  PROVE  BusInv'
<1> DEFINE s     == sends[t]
           inbox == agents[s.slot].inbox
           list  == <<inbox>>
           q     == [s EXCEPT !.pc = "put", !.slot = NoAgent, !.targets = list]
           len   == Len(queues)
           M     == busLog.messages
           A     == busLog.accepted
<1>1. SendOK(s, len, M, A) /\ s \in Sends(len, M) /\ M \in Nat /\ len \in Nat
  BY SendFacts
<1>2. /\ s.pc = "resolved" /\ sends' = [sends EXCEPT ![t] = q]
      /\ UNCHANGED <<agVars, counters, busLog>>
  BY SendFacts DEF TakeInbox
<1>3. s.slot \in AgSlots /\ s.at = 1 /\ s.msg # 0 /\ \A i : <<s.msg, i>> \notin A
  BY <1>1, <1>2 DEF SendOK
<1>4. inbox \in 0..len
  BY <1>3 DEF BusInv, SlotsInv, PoolTyped, Pool, SlotOK
<1>5. list \in Seq(0..len) /\ DOMAIN list = {1} /\ IsInjective(list)
  <2> HIDE DEF inbox
  <2> QED
    BY <1>4 DEF IsInjective
<1>6. q \in Sends(len, M) /\ q.pc = "put" /\ q.targets = list /\ q.msg = s.msg /\ q.at = 1
  <2> HIDE DEF list, s
  <2> QED
    BY <1>1, <1>3, <1>5 DEF Sends
<1>7. SendOK(q, len, M, A)
  <2>1. Has(q, A) = {} /\ 1..(q.at - 1) = {}
    BY <1>3, <1>6 DEF Has
  <2> HIDE DEF q, list
  <2> QED
    BY <1>3, <1>5, <1>6, <2>1 DEF SendOK
<1> HIDE DEF q
<1>8. Counted("sent")' /\ Counted("dropped")'
  BY <1>2, <1>6, CountedIdle DEF BusInv
<1>9. counters' \in [{"sent", "dropped"} -> Nat]
  BY <1>2, SendFacts
<1> QED
  BY <1>2, <1>6, <1>7, <1>8, <1>9, ThreadHolds

(* One target was dealt with: what it leaves is in order.                  *)
LEMMA TargetDoneOK ==
  ASSUME BusInv, NEW t \in BusThreads, NEW rc \in {"OK", "INVAL", "FULL"},
         sends[t].pc \in {"put", "store"}, TargetDone(t, rc),
         Has(sends[t], busLog.accepted) =
           IF rc = "OK" THEN 1..sends[t].at ELSE 1..(sends[t].at - 1)
  PROVE  \E q : /\ sends' = [sends EXCEPT ![t] = q]
                /\ SendOK(q, Len(queues), busLog.messages, busLog.accepted)
                /\ q.msg = sends[t].msg /\ q.pc \in {"put", "rest"}
<1> DEFINE s    == sends[t]
           len  == Len(queues)
           M    == busLog.messages
           A    == busLog.accepted
           next == [s EXCEPT !.pc = "put", !.at = s.at + 1]
           done == [Resting EXCEPT !.msg = s.msg, !.targets = s.targets, !.at = s.at, !.rc = rc]
<1>1. SendOK(s, len, M, A) /\ s \in Sends(len, M) /\ M \in Nat /\ len \in Nat
  BY SendFacts
<1>2. /\ s.msg \in 0..M /\ s.msg # 0 /\ s.at \in DOMAIN s.targets /\ IsInjective(s.targets)
      /\ s.targets \in Seq(0..len) /\ s.at \in Nat /\ s.at \in 1..Len(s.targets)
      /\ Len(s.targets) \in Nat /\ DOMAIN s.targets = 1..Len(s.targets)
  BY <1>1 DEF SendOK, Sends
<1>3. ASSUME rc = "OK", s.at < Len(s.targets) PROVE SendOK(next, len, M, A)
  <2>1. [s EXCEPT !.pc = "put"] \in Sends(len, M) /\ s.at + 1 \in Nat \ {0}
    <3>1. s.at + 1 \in Nat \ {0}
      <4> HIDE DEF s
      <4> QED
        BY <1>2
    <3>2. [s EXCEPT !.pc = "put"] \in Sends(len, M)
      <4> HIDE DEF s, M, len
      <4> QED
        BY <1>1 DEF Sends
    <3> QED
      BY <3>1, <3>2
  <2>2. next = [[s EXCEPT !.pc = "put"] EXCEPT !.at = s.at + 1]
    <3> HIDE DEF s
    <3> QED
      BY <1>1 DEF Sends
  <2>3. /\ next \in Sends(len, M) /\ next.pc = "put" /\ next.targets = s.targets
        /\ next.msg = s.msg /\ next.at = s.at + 1
    <3> HIDE DEF s
    <3> QED
      BY <1>1, <2>1, <2>2 DEF Sends
  <2>4. Has(next, A) = Has(s, A)
    <3> HIDE DEF next, s
    <3> QED
      BY <2>3 DEF Has
  <2>5. Has(s, A) = 1..s.at
    BY <1>3
  <2>6. s.at + 1 \in DOMAIN s.targets /\ (s.at + 1) - 1 = s.at
    <3> HIDE DEF s
    <3> QED
      BY <1>2, <1>3
  <2> HIDE DEF next, s
  <2> QED
    BY <1>2, <2>3, <2>4, <2>5, <2>6 DEF SendOK
<1>4. ASSUME ~(rc = "OK" /\ s.at < Len(s.targets)) PROVE SendOK(done, len, M, A)
  <2>1. /\ done \in Sends(len, M) /\ done.pc = "rest" /\ done.targets = s.targets
        /\ done.msg = s.msg /\ done.at = s.at /\ done.rc = rc
    <3> DEFINE d1 == [Resting EXCEPT !.msg = s.msg]
               d2 == [d1 EXCEPT !.targets = s.targets]
               d3 == [d2 EXCEPT !.at = s.at]
               d4 == [d3 EXCEPT !.rc = rc]
    <3>1. done = d4
      BY DEF Resting
    <3>2. Resting \in Sends(len, M)
      BY <1>1, RestingOK DEF SendOK
    <3>3. d1 \in Sends(len, M) /\ d1.msg = s.msg /\ d1.pc = "rest"
      <4> HIDE DEF s
      <4> QED
        BY <1>2, <3>2, RestingIs DEF Sends
    <3>4. /\ d2 \in Sends(len, M) /\ d2.msg = s.msg /\ d2.pc = "rest"
          /\ d2.targets = s.targets
      <4> HIDE DEF s, d1
      <4> QED
        BY <1>2, <3>3 DEF Sends
    <3>5. /\ d3 \in Sends(len, M) /\ d3.msg = s.msg /\ d3.pc = "rest"
          /\ d3.targets = s.targets /\ d3.at = s.at
      <4>1. s.at \in Nat \ {0}
        <5> HIDE DEF s
        <5> QED
          BY <1>1 DEF Sends
      <4> HIDE DEF s, d2
      <4> QED
        BY <3>4, <4>1 DEF Sends
    <3>6. /\ d4 \in Sends(len, M) /\ d4.msg = s.msg /\ d4.pc = "rest"
          /\ d4.targets = s.targets /\ d4.at = s.at /\ d4.rc = rc
      <4> HIDE DEF s, d3
      <4> QED
        BY <3>5 DEF Sends
    <3> HIDE DEF done, d1, d2, d3, d4, s
    <3> QED
      BY <3>1, <3>6
  <2>2. Has(done, A) = Has(s, A)
    <3> HIDE DEF done, s
    <3> QED
      BY <2>1 DEF Has
  <2>3. rc = "OK" => 1..s.at = DOMAIN s.targets
    <3> HIDE DEF s
    <3> QED
      BY <1>2, <1>4
  <2>4. Has(done, A) = IF done.rc = "OK" THEN DOMAIN done.targets ELSE 1..(done.at - 1)
    <3>1. Has(s, A) = IF rc = "OK" THEN 1..s.at ELSE 1..(s.at - 1)
      OBVIOUS
    <3> HIDE DEF done, s
    <3> QED
      BY <2>1, <2>2, <2>3, <3>1
  <2> HIDE DEF done, s
  <2> QED
    BY <1>2, <2>1, <2>4 DEF SendOK
<1>5. next.msg = s.msg /\ next.pc = "put" /\ done.msg = s.msg /\ done.pc = "rest"
  <2>1. next.msg = s.msg /\ next.pc = "put"
    <3> HIDE DEF s
    <3> QED
      BY <1>1 DEF Sends
  <2>2. done.msg = s.msg /\ done.pc = "rest"
    BY DEF Resting
  <2> QED
    BY <2>1, <2>2
<1>6. sends' = [sends EXCEPT ![t] = IF rc = "OK" /\ s.at < Len(s.targets) THEN next ELSE done]
  BY SendFacts DEF TargetDone
<1> HIDE DEF next, done, s
<1>7. CASE rc = "OK" /\ s.at < Len(s.targets)
  BY <1>3, <1>5, <1>6, <1>7 DEF s
<1>8. CASE ~(rc = "OK" /\ s.at < Len(s.targets))
  BY <1>4, <1>5, <1>6, <1>8 DEF s
<1> QED
  BY <1>7, <1>8

LEMMA SendRefusedHolds ==
  ASSUME BusInv, NEW t \in BusThreads, SendRefused(t)
  PROVE  BusInv'
<1>1. /\ sends[t].pc = "put" /\ TargetDone(t, "INVAL")
      /\ UNCHANGED <<agVars, counters, busLog>>
  BY DEF SendRefused
<1>2. Has(sends[t], busLog.accepted) = 1..(sends[t].at - 1)
  BY <1>1, SendFacts DEF SendOK
<1>3. PICK q : /\ sends' = [sends EXCEPT ![t] = q]
               /\ SendOK(q, Len(queues), busLog.messages, busLog.accepted)
               /\ q.msg = sends[t].msg /\ q.pc \in {"put", "rest"}
  BY <1>1, <1>2, TargetDoneOK
<1>4. Counted("sent")' /\ Counted("dropped")'
  BY <1>1, <1>3, CountedIdle DEF BusInv
<1>5. counters' \in [{"sent", "dropped"} -> Nat]
  BY <1>1, SendFacts
<1> QED
  BY <1>1, <1>3, <1>4, <1>5, ThreadHolds

LEMMA CountLoadHolds ==
  ASSUME BusInv, NEW t \in BusThreads, CountLoad(t)
  PROVE  BusInv'
<1> DEFINE s == sends[t]
           v == counters[s.count]
           q == [s EXCEPT !.pc = "store", !.value = v]
           len == Len(queues)
           M   == busLog.messages
           A   == busLog.accepted
<1>1. SendOK(s, len, M, A) /\ s \in Sends(len, M) /\ s.pc = "load"
  BY SendFacts DEF CountLoad
<1>2. v \in Nat
  BY <1>1, SendFacts DEF Sends
<1>3. sends' = [sends EXCEPT ![t] = q] /\ UNCHANGED <<agVars, counters, busLog>>
  BY SendFacts DEF CountLoad
<1>4. /\ q \in Sends(len, M) /\ q.pc = "store" /\ q.value = v /\ q.msg = s.msg
      /\ q.targets = s.targets /\ q.at = s.at /\ q.count = s.count
  <2> HIDE DEF s, v
  <2> QED
    BY <1>1, <1>2 DEF Sends
<1>5. SendOK(q, len, M, A)
  <2>1. Has(q, A) = Has(s, A)
    BY <1>4 DEF Has
  <2> HIDE DEF q, s
  <2> QED
    BY <1>1, <1>4, <2>1 DEF SendOK
<1> HIDE DEF q
<1>6. ASSUME NEW c \in {"sent", "dropped"}, Counted(c) PROVE Counted(c)'
  <2>1. \A u \in BusThreads : sends'[u] = IF u = t THEN q ELSE sends[u]
    BY <1>3, SendFacts
  <2>2. Pending(c)' = Pending(c)
    BY <1>1, <1>4, <2>1 DEF Pending
  <2>3. Tally(c)' = Tally(c)
    BY <1>3 DEF Tally
  <2>4. \A u \in Pending(c) : sends'[u].pc = "store" =>
          \/ sends[u].pc = "store" /\ sends'[u].value = sends[u].value
          \/ sends'[u].value = counters[c]
    BY <1>4, <2>1 DEF Pending
  <2> QED
    BY <1>3, <1>6, <2>2, <2>3, <2>4, CountedStays DEF BusInv
<1>7. Counted("sent")' /\ Counted("dropped")'
  BY <1>6 DEF BusInv
<1>8. counters' \in [{"sent", "dropped"} -> Nat]
  BY <1>3, SendFacts
<1> QED
  BY <1>3, <1>4, <1>5, <1>7, <1>8, ThreadHolds

LEMMA CountStoreHolds ==
  ASSUME BusInv, NEW t \in BusThreads, CountStore(t)
  PROVE  BusInv'
<1> DEFINE rc == IF sends[t].count = "sent" THEN "OK" ELSE "FULL"
<1>1. /\ sends[t].pc = "store" /\ TargetDone(t, rc)
      /\ counters' = [counters EXCEPT ![sends[t].count] = sends[t].value + 1]
      /\ UNCHANGED <<agVars, busLog>>
  BY DEF CountStore
<1>2. sends[t].count \in {"sent", "dropped"} /\ sends[t].value \in Nat
  BY SendFacts DEF Sends
<1>3. Has(sends[t], busLog.accepted) = IF rc = "OK" THEN 1..sends[t].at ELSE 1..(sends[t].at - 1)
  BY <1>1, SendFacts DEF SendOK
<1>4. PICK q : /\ sends' = [sends EXCEPT ![t] = q]
               /\ SendOK(q, Len(queues), busLog.messages, busLog.accepted)
               /\ q.msg = sends[t].msg /\ q.pc \in {"put", "rest"}
  <2>1. rc \in {"OK", "INVAL", "FULL"}
    OBVIOUS
  <2> HIDE DEF rc
  <2> QED
    BY <1>1, <1>3, <2>1, TargetDoneOK
<1>5. Counted("sent")' /\ Counted("dropped")'
  BY <1>1, <1>4, CountedLeaves DEF BusInv
<1>6. counters' \in [{"sent", "dropped"} -> Nat]
  BY <1>1, <1>2, SendFacts
<1> QED
  BY <1>1, <1>4, <1>5, <1>6, ThreadHolds

(* A step that leaves the threads and the log alone.                       *)
LEMMA QuietHolds ==
  ASSUME BusInv, SlotsInv', Len(queues) <= Len(queues'), UNCHANGED <<sends, busLog>>,
         UNCHANGED counters \/ counters' = [sent |-> 0, dropped |-> 0]
  PROVE  BusInv'
<1>1. Len(queues) \in Nat /\ Len(queues') \in Nat
  <2>1. Len(queues') \in Nat
    BY DEF SlotsInv, PoolTyped, Pool, QueuesOK
  <2> QED
    BY <2>1, QueueFacts DEF BusInv
<1>2. counters' \in [{"sent", "dropped"} -> Nat]
  BY DEF BusInv, BusShape
<1>3. BusShape'
  BY <1>1, <1>2, ShapeStays DEF BusInv
<1>4. ASSUME NEW c \in {"sent", "dropped"}, Counted(c) PROVE Counted(c)'
  <2>1. Pending(c)' = Pending(c) /\ Tally(c)' = Tally(c)
    BY DEF Pending, Tally
  <2>2. counters'[c] = counters[c] \/ counters'[c] = 0
    OBVIOUS
  <2> QED
    BY <1>4, <2>1, <2>2, CountedStays DEF BusInv
<1> QED
  BY <1>3, <1>4 DEF BusInv

LEMMA QueueSendHolds ==
  ASSUME BusInv, NEW t \in BusThreads, QueueSend(t)
  PROVE  BusInv'
<1> DEFINE s     == sends[t]
           inbox == s.targets[s.at]
           len   == Len(queues)
           M     == busLog.messages
           A     == busLog.accepted
           q(c)  == [[s EXCEPT !.pc = "load"] EXCEPT !.count = c]
<1>1. /\ SendOK(s, len, M, A) /\ s \in Sends(len, M) /\ M \in Nat /\ len \in Nat
      /\ LogOK(busLog, len) /\ s.pc = "put" /\ QueuesOK(queues) /\ queues \in Seq(Seq(Nat))
      /\ DOMAIN queues = 1..len
  BY SendFacts, QueueFacts DEF QueueSend, BusInv
<1>2. /\ s.at \in DOMAIN s.targets /\ IsInjective(s.targets) /\ s.msg \in 0..M /\ s.msg # 0
      /\ Has(s, A) = 1..(s.at - 1) /\ s.at \in Nat \ {0} /\ s.targets \in Seq(0..len)
  BY <1>1 DEF SendOK, Sends
<1>3. inbox \in 1..len
  <2>1. inbox # 0
    BY DEF QueueSend
  <2>2. inbox \in 0..len
    <3> HIDE DEF s
    <3> QED
      BY <1>2
  <2> HIDE DEF inbox
  <2> QED
    BY <1>1, <2>1, <2>2
<1>4. ASSUME NEW c \in {"sent", "dropped"}
      PROVE  /\ q(c) \in Sends(len, M) /\ q(c).pc = "load" /\ q(c).count = c
             /\ q(c).msg = s.msg /\ q(c).targets = s.targets /\ q(c).at = s.at
  <2> DEFINE r == [s EXCEPT !.pc = "load"]
  <2>1. /\ r \in Sends(len, M) /\ r.pc = "load" /\ r.msg = s.msg /\ r.targets = s.targets
        /\ r.at = s.at
    <3> HIDE DEF s, len, M
    <3> QED
      BY <1>1 DEF Sends
  <2> HIDE DEF r, s, len, M
  <2> QED
    BY <2>1 DEF Sends, r
<1>5. UNCHANGED <<agents, agNow, patrol, starting, runs, words, counters>>
  BY DEF QueueSend
<1>6. CASE /\ Len(queues[inbox]) < AgDepth
           /\ queues' = [queues EXCEPT ![inbox] = Append(queues[inbox], s.msg)]
           /\ busLog' = [busLog EXCEPT !.accepted = A \cup {<<s.msg, inbox>>}]
           /\ sends' = [sends EXCEPT ![t] = q("sent")]
  <2> DEFINE B   == A \cup {<<s.msg, inbox>>}
             new == q("sent")
  <2>1. /\ new \in Sends(len, M) /\ new.pc = "load" /\ new.count = "sent"
        /\ new.msg = s.msg /\ new.targets = s.targets /\ new.at = s.at
    BY <1>4
  <2>2. <<s.msg, inbox>> \notin A
    BY <1>2 DEF Has
  <2>3. busLog'.accepted = B /\ busLog'.messages = M /\ busLog'.refused = busLog.refused
    <3>1. busLog' = [busLog EXCEPT !.accepted = B]
      BY <1>6
    <3> HIDE DEF B
    <3> QED
      BY <1>1, <3>1 DEF LogOK
  <2>4. IsFiniteSet(B) /\ Cardinality(B) = Cardinality(A) + 1
    <3> HIDE DEF inbox, s
    <3> QED
      BY <1>1, <2>2, FS_AddElement DEF LogOK
  <2>5. s.msg \in 1..M /\ inbox \in 1..len
    <3> HIDE DEF inbox, s
    <3> QED
      BY <1>1, <1>2, <1>3
  <2>6. LogOK(busLog', len)
    <3> HIDE DEF inbox, s, len
    <3>1. B \subseteq (1..M) \X (1..len)
      BY <1>1, <2>5 DEF LogOK
    <3> HIDE DEF B
    <3>2. B \in SUBSET (Nat \X Nat)
      BY <1>1, <3>1
    <3>3. busLog' \in [messages : Nat, accepted : SUBSET (Nat \X Nat), refused : Nat]
      <4> HIDE DEF A
      <4>1. busLog' = [busLog EXCEPT !.accepted = B]
        BY <1>6 DEF B, s, inbox
      <4> QED
        BY <1>1, <3>2, <4>1 DEF LogOK
    <3> QED
      BY <1>1, <2>3, <2>4, <3>1, <3>3 DEF LogOK
  <2>7. Has(new, B) = 1..s.at
    <3>1. \A j \in DOMAIN s.targets : s.targets[j] = inbox <=> j = s.at
      BY <1>2 DEF IsInjective
    <3>2. Has(new, B) = Has(s, A) \cup {s.at}
      <4> HIDE DEF new
      <4> QED
        BY <1>2, <2>1, <3>1 DEF Has
    <3> HIDE DEF new, B, s
    <3> QED
      BY <1>2, <3>2
  <2>8. SendOK(new, len, M, B)
    <3> HIDE DEF new, B, s
    <3> QED
      BY <1>2, <2>1, <2>7 DEF SendOK
  <2>9. QueuesOK(queues') /\ Len(queues') = len
    <3>1. queues[inbox] \in Seq(Nat) /\ s.msg \in Nat
      <4> HIDE DEF inbox, s
      <4> QED
        BY <1>1, <2>5
    <3>2. /\ Append(queues[inbox], s.msg) \in Seq(Nat)
          /\ Len(Append(queues[inbox], s.msg)) <= AgDepth
      <4> HIDE DEF inbox, s
      <4> QED
        BY <1>6, <3>1, AgentsAssumption
    <3> DEFINE longer == Append(queues[inbox], s.msg)
    <3>3. queues' = [queues EXCEPT ![inbox] = longer]
      BY <1>6
    <3> HIDE DEF longer, inbox, s
    <3>4. queues' \in Seq(Seq(Nat)) /\ Len(queues') = len
      BY <1>1, <2>5, <3>2, <3>3 DEF longer
    <3>5. \A j \in DOMAIN queues' : Len(queues'[j]) <= AgDepth
      BY <1>1, <2>5, <3>2, <3>3 DEF longer, QueuesOK
    <3> QED
      BY <1>1, <3>4, <3>5 DEF QueuesOK
  <2> HIDE DEF new, B
  <2>10. SlotsInv'
    BY <1>5, <2>9, TrafficHolds DEF BusInv
  <2>11. BusShape'
    <3>1. sends' = [sends EXCEPT ![t] = new]
      BY <1>6 DEF new
    <3>2. A \subseteq B /\ \A m, i : <<m, i>> \in B => <<m, i>> \in A \/ (m = s.msg /\ m # 0)
      <4> HIDE DEF s, A
      <4> QED
        BY <1>2 DEF B
    <3>3. counters' \in [{"sent", "dropped"} -> Nat]
      BY <1>5, SendFacts
    <3>4. /\ Len(queues') \in Nat /\ Len(queues) <= Len(queues') /\ BusShape
          /\ LogOK(busLog', Len(queues')) /\ busLog.messages <= busLog'.messages
          /\ busLog.accepted \subseteq busLog'.accepted
          /\ SendOK(new, Len(queues'), busLog'.messages, busLog'.accepted)
      BY <1>1, <2>3, <2>6, <2>8, <2>9, <3>2 DEF BusInv
    <3>5. \A m, i : <<m, i>> \in busLog'.accepted =>
            <<m, i>> \in busLog.accepted \/ (m = sends[t].msg /\ m # 0)
      BY <2>3, <3>2
    <3> QED
      BY <1>1, <2>1, <3>1, <3>3, <3>4, <3>5, ShapeHolds
  <2>12. Counted("sent")' /\ Counted("dropped")'
    <3>1. Tally("sent")' = Tally("sent") + 1 /\ Tally("dropped")' = Tally("dropped")
      BY <2>3, <2>4 DEF Tally
    <3>2. sends' = [sends EXCEPT ![t] = new]
      BY <1>6 DEF new
    <3>3. Counted("sent")'
      BY <1>1, <1>5, <2>1, <3>1, <3>2, CountedJoins DEF BusInv
    <3>4. Counted("dropped")'
      BY <1>1, <1>5, <2>1, <3>1, <3>2, CountedJoins DEF BusInv
    <3> QED
      BY <3>3, <3>4
  <2> QED
    BY <2>10, <2>11, <2>12 DEF BusInv
<1>7. CASE /\ busLog' = [busLog EXCEPT !.refused = busLog.refused + 1]
           /\ sends' = [sends EXCEPT ![t] = q("dropped")]
           /\ UNCHANGED queues
  <2> DEFINE new == q("dropped")
  <2>1. /\ new \in Sends(len, M) /\ new.pc = "load" /\ new.count = "dropped"
        /\ new.msg = s.msg /\ new.targets = s.targets /\ new.at = s.at
    BY <1>4
  <2>2. /\ busLog'.accepted = A /\ busLog'.messages = M
        /\ busLog'.refused = busLog.refused + 1
    BY <1>1, <1>7 DEF LogOK
  <2>3. LogOK(busLog', len)
    BY <1>1, <1>7 DEF LogOK
  <2>4. Has(new, A) = Has(s, A)
    <3> HIDE DEF new, s
    <3> QED
      BY <2>1 DEF Has
  <2>5. SendOK(new, len, M, A)
    <3> HIDE DEF new, s
    <3> QED
      BY <1>2, <2>1, <2>4 DEF SendOK
  <2>6. sends' = [sends EXCEPT ![t] = new]
    BY <1>7
  <2> HIDE DEF new
  <2>7. SlotsInv'
    BY <1>1, <1>5, <1>7, TrafficHolds DEF BusInv
  <2>8. BusShape'
    <3>1. counters' \in [{"sent", "dropped"} -> Nat]
      BY <1>5, SendFacts
    <3>2. /\ Len(queues') \in Nat /\ Len(queues) <= Len(queues') /\ BusShape
          /\ LogOK(busLog', Len(queues')) /\ busLog.messages <= busLog'.messages
          /\ busLog.accepted \subseteq busLog'.accepted
          /\ SendOK(new, Len(queues'), busLog'.messages, busLog'.accepted)
      BY <1>1, <1>7, <2>2, <2>3, <2>5 DEF BusInv
    <3> QED
      BY <1>1, <2>1, <2>2, <2>6, <3>1, <3>2, ShapeHolds
  <2>9. Counted("sent")' /\ Counted("dropped")'
    <3>1. Tally("dropped")' = Tally("dropped") + 1 /\ Tally("sent")' = Tally("sent")
      BY <2>2 DEF Tally
    <3>2. Counted("sent")'
      BY <1>1, <1>5, <2>1, <2>6, <3>1, CountedJoins DEF BusInv
    <3>3. Counted("dropped")'
      BY <1>1, <1>5, <2>1, <2>6, <3>1, CountedJoins DEF BusInv
    <3> QED
      BY <3>2, <3>3
  <2> QED
    BY <2>7, <2>8, <2>9 DEF BusInv
<1>8. \/ /\ Len(queues[inbox]) < AgDepth
         /\ queues' = [queues EXCEPT ![inbox] = Append(queues[inbox], s.msg)]
         /\ busLog' = [busLog EXCEPT !.accepted = A \cup {<<s.msg, inbox>>}]
         /\ sends' = [sends EXCEPT ![t].pc = "load", ![t].count = "sent"]
      \/ /\ busLog' = [busLog EXCEPT !.refused = busLog.refused + 1]
         /\ sends' = [sends EXCEPT ![t].pc = "load", ![t].count = "dropped"]
         /\ UNCHANGED queues
  BY DEF QueueSend
<1>9. ASSUME NEW c, sends' = [sends EXCEPT ![t].pc = "load", ![t].count = c]
      PROVE  sends' = [sends EXCEPT ![t] = q(c)]
  BY <1>9, SendFacts
<1> QED
  BY <1>6, <1>7, <1>8, <1>9

LEMMA ReceiveHolds ==
  ASSUME BusInv, NEW a \in AgSlots, ReceiveAgentMessage(a)
  PROVE  BusInv'
<1> DEFINE inbox == agents[a].inbox
           rest  == Tail(queues[inbox])
           len   == Len(queues)
<1>1. /\ len \in Nat /\ QueuesOK(queues) /\ queues \in Seq(Seq(Nat))
      /\ DOMAIN queues = 1..len
  BY QueueFacts DEF BusInv
<1>2. /\ queues' = [queues EXCEPT ![inbox] = rest]
      /\ UNCHANGED <<agents, agNow, patrol, starting, runs, words, counters, sends, busLog>>
  BY <1>1 DEF ReceiveAgentMessage
<1>3. QueuesOK(queues') /\ Len(queues') = len
  <2>1. CASE inbox \in 1..len
    <3>1. queues[inbox] \in Seq(Nat) /\ queues[inbox] # <<>>
      BY <1>1, <2>1 DEF ReceiveAgentMessage
    <3>2. rest \in Seq(Nat) /\ Len(rest) <= Len(queues[inbox])
      <4> HIDE DEF inbox
      <4> QED
        BY <3>1
    <3>3. Len(queues[inbox]) <= AgDepth /\ AgDepth \in Nat /\ Len(queues[inbox]) \in Nat
          /\ Len(rest) \in Nat
      <4>1. Len(queues[inbox]) <= AgDepth
        BY <1>1, <2>1 DEF QueuesOK
      <4> HIDE DEF inbox, rest
      <4> QED
        BY <3>1, <3>2, <4>1, AgentsAssumption
    <3> HIDE DEF rest, inbox
    <3> QED
      BY <1>1, <1>2, <2>1, <3>2, <3>3 DEF QueuesOK
  <2>2. CASE inbox \notin 1..len
    <3>1. queues' = queues
      <4> HIDE DEF rest, inbox
      <4> QED
        BY <1>1, <1>2, <2>2
    <3> QED
      BY <1>1, <3>1
  <2> QED
    BY <2>1, <2>2
<1>4. SlotsInv'
  BY <1>2, <1>3, TrafficHolds DEF BusInv
<1> QED
  BY <1>1, <1>2, <1>3, <1>4, QuietHolds

LEMMA AgentsBesideBus ==
  ASSUME BusInv, [AgentNext]_agVars, UNCHANGED busVars
  PROVE  BusInv'
<1>1. SlotsInv' /\ Len(queues) <= Len(queues')
  BY SlotsStep DEF BusInv
<1> QED
  BY <1>1, QuietHolds DEF busVars

LEMMA MessageBusInitHolds ==
  ASSUME BusInv, MessageBusInit
  PROVE  BusInv'
<1>1. SlotsInv' /\ Len(queues) <= Len(queues')
  BY OnlyBus DEF MessageBusInit, BusInv
<1> QED
  BY <1>1, QuietHolds DEF MessageBusInit

LEMMA MessageBusHolds ==
  ASSUME BusInv, MessageBusNext
  PROVE  BusInv'
<1>1. CASE MessageBusInit
  BY <1>1, MessageBusInitHolds
<1>2. ASSUME NEW t \in BusThreads,
             \/ \E a \in AgSlots : SendAgentMessage(t, a)
             \/ \E prio \in {7, 8} : Broadcast(t, [i \in DOMAIN queues |-> i], prio)
             \/ TakeInbox(t) \/ SendRefused(t) \/ QueueSend(t) \/ CountLoad(t) \/ CountStore(t)
      PROVE  BusInv'
  <2>1. CASE \E a \in AgSlots : SendAgentMessage(t, a)
    BY <2>1, SendAgentMessageHolds
  <2>2. CASE \E prio \in {7, 8} : Broadcast(t, [i \in DOMAIN queues |-> i], prio)
    BY <2>2, BroadcastHolds
  <2>3. CASE TakeInbox(t)
    BY <2>3, TakeInboxHolds
  <2>4. CASE SendRefused(t)
    BY <2>4, SendRefusedHolds
  <2>5. CASE QueueSend(t)
    BY <2>5, QueueSendHolds
  <2>6. CASE CountLoad(t)
    BY <2>6, CountLoadHolds
  <2>7. CASE CountStore(t)
    BY <2>7, CountStoreHolds
  <2> QED
    BY <1>2, <2>1, <2>2, <2>3, <2>4, <2>5, <2>6, <2>7
<1>3. CASE \E a \in AgSlots : ReceiveAgentMessage(a)
  BY <1>3, ReceiveHolds
<1>4. CASE UNCHANGED busVars /\ (CreateAutoAgent \/ \E a \in AgSlots : DeleteAgent(a))
  <2>1. [AgentNext]_agVars
    BY <1>4 DEF AgentNext, TeamNext, CreateOrDelete
  <2> QED
    BY <1>4, <2>1, AgentsBesideBus
<1> QED
  BY <1>1, <1>2, <1>3, <1>4 DEF MessageBusNext

LEMMA BusStepHolds ==
  BusInv /\ [MessageBusNext \/ (AgentNext /\ UNCHANGED busVars)]_<<agVars, busVars>> => BusInv'
BY MessageBusHolds, AgentsBesideBus

LEMMA BusAlways == BusSpec => []BusInv
<1>1. AgentStart /\ BusStart => BusInv
  BY BusStartHolds
<1> QED
  BY <1>1, BusStepHolds, PTL DEF BusSpec

LEMMA BusTyped == BusInv => BusTypes
<1> SUFFICES ASSUME BusInv PROVE BusTypes
  OBVIOUS
<1> DEFINE len == Len(queues)
<1>1. len \in Nat /\ DOMAIN queues = 1..len /\ LogOK(busLog, len)
  BY QueueFacts DEF BusInv, BusShape
<1>2. ASSUME NEW t \in BusThreads
      PROVE  /\ sends[t].pc \in {"rest", "resolved", "put", "load", "store"}
             /\ sends[t].pc \in {"put", "load", "store"} => sends[t].at \in DOMAIN sends[t].targets
             /\ ToSet(sends[t].targets) \subseteq DOMAIN queues \cup {0}
  <2> DEFINE s == sends[t]
  <2>1. SendOK(s, len, busLog.messages, busLog.accepted) /\ s \in Sends(len, busLog.messages)
    BY SendFacts
  <2>2. s.targets \in Seq(0..len)
    BY <2>1 DEF Sends
  <2>3. ToSet(s.targets) \subseteq 0..len
    <3> HIDE DEF s
    <3> QED
      BY <2>2 DEF ToSet
  <2>4. ToSet(s.targets) \subseteq DOMAIN queues \cup {0}
    <3> HIDE DEF s, len
    <3> QED
      BY <1>1, <2>3
  <2> QED
    BY <2>1, <2>4 DEF SendOK, Sends
<1>3. busLog.accepted \subseteq (1..BusMaxMessages) \X DOMAIN queues
  <2>1. 1..busLog.messages \subseteq 1..BusMaxMessages
    BY <1>1, MessageBusAssumption DEF LogOK
  <2> QED
    BY <1>1, <2>1 DEF LogOK
<1> QED
  BY <1>1, <1>2, <1>3 DEF BusTypes, BusInv, BusShape, LogOK

(* The counters are numbers, a thread that sends has an inbox to send to,  *)
(* and what was accepted are messages that were made and inboxes that      *)
(* exist, for any number of threads, slots and messages (message_bus.c).   *)
THEOREM BusIsTyped == BusSpec => []BusTypes
BY BusAlways, BusTyped, PTL

(* For any number of threads whose increments overlap in any way, and any  *)
(* restarts of the bus between them, the statistics stay within what the   *)
(* queues took and refused (iMessageBusStats).                             *)
THEOREM StatsHonest == BusSpec => []StatsNeverAhead
<1>1. BusInv => StatsNeverAhead
  <2> SUFFICES ASSUME BusInv PROVE StatsNeverAhead
    OBVIOUS
  <2>1. ASSUME NEW c \in {"sent", "dropped"}, Counted(c) PROVE counters[c] <= Tally(c)
    <3>1. counters[c] \in Nat /\ Tally(c) \in Nat /\ Cardinality(Pending(c)) \in Nat
      BY TallyNat, PendingFinite DEF BusInv, BusShape
    <3> QED
      BY <2>1, <3>1 DEF Counted
  <2> QED
    BY <2>1 DEF BusInv, StatsNeverAhead, Tally
<1> QED
  BY <1>1, BusAlways, PTL

(* For lists of any length, any number of senders and receivers, and       *)
(* agents that come and go meanwhile, the inboxes that took a broadcast    *)
(* are the first of its list, and the result tells whether they are all    *)
(* of it (iMessageBusBroadcast).                                           *)
THEOREM BroadcastReached == BusSpec => []BroadcastPrefix
<1>1. BusInv => BroadcastPrefix
  BY SendFacts DEF SendOK, Has, BroadcastPrefix
<1> QED
  BY <1>1, BusAlways, PTL

(* The senders and receivers leave the agents' own properties alone.       *)
THEOREM AgentsBesideSenders ==
  BusSpec => [](/\ AgentTypes /\ ExecutingHasRunner /\ StalledIsNoticed
                /\ SubsWellFormed /\ LastKeywordWins)
<1>1. BusInv => /\ AgentTypes /\ ExecutingHasRunner /\ StalledIsNoticed
                /\ SubsWellFormed /\ LastKeywordWins
  <2>1. SlotsInv => ExecutingHasRunner
    BY DEF SlotsInv, AgentInv
  <2>2. SlotsInv => SubsWellFormed
    BY DEF SlotsInv, AgentInv, PoolOK, Pool, AgentOK, ListOK, SubsWellFormed
  <2>3. SlotsInv => LastKeywordWins
    BY DEF SlotsInv, WordsOK, LastKeywordWins
  <2>4. SlotsInv => StalledIsNoticed
    BY NoticedInTime DEF SlotsInv
  <2> QED
    BY <2>1, <2>2, <2>3, <2>4, SlotsTyped DEF BusInv
<1> QED
  BY <1>1, BusAlways, PTL
=============================================================================
