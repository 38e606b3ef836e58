------------------------------ MODULE MessageBus ------------------------------
(***************************************************************************)
(* Messages between agents: sending to one, to a list of inboxes, and      *)
(* receiving, by threads that nothing keeps apart.  The RTOS queue takes   *)
(* or refuses a message in one step (HostQueue is what it does inside); a  *)
(* sender with a time limit takes this step later.  The two counters are   *)
(* plain variables: an increment reads and then writes.                    *)
(***************************************************************************)
EXTENDS Agents

CONSTANTS
  BusThreads,     \* threads that send and receive
  BusMaxMessages  \* bound of a run: messages sent

ASSUME MessageBusAssumption == IsFiniteSet(BusThreads) /\ BusMaxMessages \in Nat

VARIABLES
  counters,  \* g_sent and g_dropped
  sends,     \* what each thread is sending, and how far it is
  busLog     \* history: messages so far, what each inbox accepted, refusals

busVars == <<counters, sends, busLog>>

Resting == [pc |-> "rest", msg |-> 0, prio |-> 5, slot |-> NoAgent, targets |-> <<>>, at |-> 1,
            count |-> "sent", value |-> 0, rc |-> "OK"]

BusTypes ==
  /\ counters \in [{"sent", "dropped"} -> Nat]
  /\ \A t \in BusThreads :
       /\ sends[t].pc \in {"rest", "resolved", "put", "load", "store"}
       /\ sends[t].pc \in {"put", "load", "store"} => sends[t].at \in DOMAIN sends[t].targets
       /\ ToSet(sends[t].targets) \subseteq DOMAIN queues \cup {0}
  /\ busLog.accepted \subseteq (1..BusMaxMessages) \X DOMAIN queues
  /\ busLog.refused \in Nat

BusStart ==
  /\ counters = [sent |-> 0, dropped |-> 0]
  /\ sends = [t \in BusThreads |-> Resting]
  /\ busLog = [messages |-> 0, accepted |-> {}, refused |-> 0]

-----------------------------------------------------------------------------
MessageBusInit ==
  /\ counters' = [sent |-> 0, dropped |-> 0]
  /\ UNCHANGED <<agVars, sends, busLog>>

NewMessage(t, send) ==
  /\ sends[t].pc = "rest"
  /\ busLog.messages < BusMaxMessages
  /\ busLog' = [busLog EXCEPT !.messages = @ + 1]
  /\ sends' = [sends EXCEPT ![t] = [send EXCEPT !.msg = busLog.messages + 1]]
  /\ UNCHANGED <<agVars, counters>>

(* xSendAgentMessage looks the agent up, and reads its inbox afterwards.   *)
SendAgentMessage(t, a) ==
  NewMessage(t, IF Resolves(a) THEN [Resting EXCEPT !.pc = "resolved", !.slot = a]
                ELSE [Resting EXCEPT !.rc = "NOAGENT"])

TakeInbox(t) ==
  /\ sends[t].pc = "resolved"
  /\ sends' = [sends EXCEPT ![t].pc = "put", ![t].slot = NoAgent,
                            ![t].targets = <<agents[sends[t].slot].inbox>>]
  /\ UNCHANGED <<agVars, counters, busLog>>

(* iMessageBusBroadcast, and iMessageBusSend for a list of one.            *)
Broadcast(t, targets, prio) ==
  NewMessage(t, IF targets = <<>> THEN [Resting EXCEPT !.rc = "INVAL"]
                ELSE [Resting EXCEPT !.pc = "put", !.targets = targets, !.prio = prio])

(* As TargetDone, going on after a failure.                                *)
TargetDoneGoesOn(t, rc) ==
  LET s == sends[t]
  IN  sends' = [sends EXCEPT
        ![t] = IF s.at < Len(s.targets) THEN [s EXCEPT !.pc = "put", !.at = s.at + 1]
               ELSE [Resting EXCEPT !.msg = s.msg, !.targets = s.targets, !.at = s.at, !.rc = rc]]

(* One target was dealt with, with the result rc: the next one's turn, or  *)
(* the end.                                                                *)
TargetDone(t, rc) ==
  LET s == sends[t]
  IN  sends' = [sends EXCEPT
        ![t] = IF rc = "OK" /\ s.at < Len(s.targets)
               THEN [s EXCEPT !.pc = "put", !.at = s.at + 1]
               ELSE [Resting EXCEPT !.msg = s.msg, !.targets = s.targets, !.at = s.at, !.rc = rc]]

(* iMessageBusSend: a message that is not sendable is not counted ...      *)
SendRefused(t) ==
  /\ sends[t].pc = "put"
  /\ sends[t].targets[sends[t].at] = 0 \/ sends[t].prio > 7
  /\ TargetDone(t, "INVAL")
  /\ UNCHANGED <<agVars, counters, busLog>>

(* As QueueSend, counting a message as sent before the queue has it.       *)
QueueSendCountsFirst(t) ==
  LET inbox == sends[t].targets[sends[t].at]
  IN  /\ sends[t].pc = "put"
      /\ inbox # 0 /\ sends[t].prio <= 7
      /\ sends' = [sends EXCEPT ![t].pc = "load", ![t].count = "sent"]
      /\ IF Len(queues[inbox]) = AgDepth THEN UNCHANGED <<queues, busLog>>
         ELSE /\ queues' = [queues EXCEPT ![inbox] = Append(@, sends[t].msg)]
              /\ busLog' = [busLog EXCEPT !.accepted = @ \cup {<<sends[t].msg, inbox>>}]
      /\ UNCHANGED <<agents, agNow, patrol, starting, runs, words, counters>>

(* ... another goes to the queue, which takes it or not ...                *)
QueueSend(t) ==
  LET inbox == sends[t].targets[sends[t].at]
  IN  /\ sends[t].pc = "put"
      /\ inbox # 0 /\ sends[t].prio <= 7
      /\ \/ /\ Len(queues[inbox]) < AgDepth
            /\ queues' = [queues EXCEPT ![inbox] = Append(@, sends[t].msg)]
            /\ busLog' = [busLog EXCEPT !.accepted = @ \cup {<<sends[t].msg, inbox>>}]
            /\ sends' = [sends EXCEPT ![t].pc = "load", ![t].count = "sent"]
         \/ /\ Len(queues[inbox]) = AgDepth
            /\ busLog' = [busLog EXCEPT !.refused = @ + 1]
            /\ sends' = [sends EXCEPT ![t].pc = "load", ![t].count = "dropped"]
            /\ UNCHANGED queues
      /\ UNCHANGED <<agents, agNow, patrol, starting, runs, words, counters>>

(* ... and its counter is incremented.                                     *)
CountLoad(t) ==
  /\ sends[t].pc = "load"
  /\ sends' = [sends EXCEPT ![t].pc = "store", ![t].value = counters[sends[t].count]]
  /\ UNCHANGED <<agVars, counters, busLog>>

CountStore(t) ==
  /\ sends[t].pc = "store"
  /\ counters' = [counters EXCEPT ![sends[t].count] = sends[t].value + 1]
  /\ TargetDone(t, IF sends[t].count = "sent" THEN "OK" ELSE "FULL")
  /\ UNCHANGED <<agVars, busLog>>

(* iMessageBusReceive: the message is off the queue before the receiver's  *)
(* buffer proves to be too short for it.                                   *)
ReceiveAgentMessage(a) ==
  /\ Resolves(a)
  /\ queues[agents[a].inbox] # <<>>
  /\ queues' = [queues EXCEPT ![agents[a].inbox] = Tail(@)]
  /\ UNCHANGED <<agents, agNow, patrol, starting, runs, words, counters, sends, busLog>>

MessageBusNext ==
  \/ MessageBusInit
  \/ \E t \in BusThreads :
       \/ \E a \in AgSlots : SendAgentMessage(t, a)
       \/ \E prio \in {7, 8} : Broadcast(t, [i \in DOMAIN queues |-> i], prio)
       \/ TakeInbox(t) \/ SendRefused(t) \/ QueueSend(t) \/ CountLoad(t) \/ CountStore(t)
  \/ \E a \in AgSlots : ReceiveAgentMessage(a)
  \/ UNCHANGED busVars /\ (CreateAutoAgent \/ \E a \in AgSlots : DeleteAgent(a))

(* Agents and bus together: whatever happens to agents may happen at any   *)
(* time, also in the middle of a send.                                     *)
BusSpec ==
  /\ AgentStart /\ BusStart
  /\ [][MessageBusNext \/ (AgentNext /\ UNCHANGED busVars)]_<<agVars, busVars>>

-----------------------------------------------------------------------------
(* An increment that overlaps another, or a restart of the bus, may lose a *)
(* count but never invents one: g_sent and g_dropped stay within what the  *)
(* queues took and refused (iMessageBusSend, iMessageBusStats).            *)
StatsNeverAhead ==
  /\ counters.sent <= Cardinality(busLog.accepted)
  /\ counters.dropped <= busLog.refused

(* Whatever deletions and other senders come between, the inboxes that     *)
(* have a broadcast are the first of its list: all of them when it reports *)
(* success, and when it fails those before the one that refused            *)
(* (iMessageBusBroadcast).                                                 *)
BroadcastPrefix ==
  \A t \in BusThreads :
    LET s   == sends[t]
        has == {i \in DOMAIN s.targets : <<s.msg, s.targets[i]>> \in busLog.accepted}
    IN  s.pc = "rest" /\ s.targets # <<>> =>
          has = IF s.rc = "OK" THEN DOMAIN s.targets ELSE 1..(s.at - 1)
=============================================================================
