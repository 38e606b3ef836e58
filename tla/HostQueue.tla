----------------------------- MODULE HostQueue -----------------------------
(***************************************************************************)
(* The message queue of the host port: a ring guarded by a mutex, with the *)
(* condition variables not_empty and not_full on which receivers and       *)
(* senders wait until a time they compute before each wait.                *)
(*                                                                         *)
(* What a thread does between taking the mutex and giving it up, in        *)
(* pthread_cond_timedwait or for good, is one step.  A call with timeout 0 *)
(* that finds the queue full or empty changes nothing and is no step.      *)
(***************************************************************************)
EXTENDS Integers, FiniteSets

CONSTANTS
  Threads,   \* the threads that send and receive
  Messages,  \* what they send
  Max,       \* the number of items the queue was created for
  None       \* a place of the ring, or a thread, without a message

ASSUME QueueAssumption ==
  /\ IsFiniteSet(Threads)
  /\ Max \in Nat \ {0}
  /\ None \notin Messages

Places == 0..(Max - 1)

VARIABLES
  items,     \* the ring
  head,      \* the place of the oldest item
  tail,      \* the place of the next item
  count,     \* the number of items
  notFull,   \* senders that wait on not_full
  notEmpty,  \* receivers that wait on not_empty
  wokenS,    \* senders that were woken and have not got the mutex yet
  wokenR,    \* receivers that were woken and have not got the mutex yet
  msg,       \* the message of every sender that is inside a call
  out,       \* history: the item that was received last
  late       \* history: a woken thread has returned ZHIO_E_TIMEOUT

ring    == <<items, head, tail, count>>
senders == <<notFull, wokenS, msg>>
readers == <<notEmpty, wokenR>>
vars    == <<ring, senders, readers, out, late>>

(* The range of every variable; a thread is inside one call at a time, and *)
(* a sender that waits has a message.                                      *)
TypeOK ==
  /\ items \in [Places -> Messages \cup {None}]
  /\ head \in Places
  /\ tail \in Places
  /\ count \in 0..Max
  /\ notFull \subseteq Threads
  /\ notEmpty \subseteq Threads
  /\ wokenS \subseteq Threads
  /\ wokenR \subseteq Threads
  /\ msg \in [Threads -> Messages \cup {None}]
  /\ \A t \in notFull \cup wokenS : msg[t] \in Messages
  /\ out \in Messages \cup {None}
  /\ late \in BOOLEAN

Init ==
  /\ items = [p \in Places |-> None]
  /\ head = 0
  /\ tail = 0
  /\ count = 0
  /\ notFull = {}
  /\ notEmpty = {}
  /\ wokenS = {}
  /\ wokenR = {}
  /\ msg = [t \in Threads |-> None]
  /\ out = None
  /\ late = FALSE

Idle(t) == t \notin notFull \cup notEmpty \cup wokenS \cup wokenR

-----------------------------------------------------------------------------
(* pthread_cond_signal and pthread_cond_broadcast. *)

(* At least one waiting receiver is woken; of several, any. *)
SignalNotEmpty ==
  \/ notEmpty = {} /\ UNCHANGED readers
  \/ \E t \in notEmpty :
       /\ notEmpty' = notEmpty \ {t}
       /\ wokenR' = wokenR \cup {t}

(* The senders that wait on not_full or go there in this very step. *)
SignalNotFull ==
  \/ notFull = {} /\ UNCHANGED <<notFull, wokenS>>
  \/ \E t \in notFull :
       /\ notFull' = notFull \ {t}
       /\ wokenS' = wokenS \cup {t}

-----------------------------------------------------------------------------
(* Sending. *)

InsertForgetsWrap(v) ==
  /\ count < Max
  /\ items' = [items EXCEPT ![tail] = v]
  /\ tail' = tail + 1
  /\ count' = count + 1
  /\ SignalNotEmpty
  /\ UNCHANGED <<head, out, late>>

InsertWithoutSignal(v) ==
  /\ count < Max
  /\ items' = [items EXCEPT ![tail] = v]
  /\ tail' = (tail + 1) % Max
  /\ count' = count + 1
  /\ UNCHANGED <<readers, head, out, late>>

(* The end of zhio_queue_send and of zhio_queue_send_isr. *)
Insert(v) ==
  /\ count < Max
  /\ items' = [items EXCEPT ![tail] = v]
  /\ tail' = (tail + 1) % Max
  /\ count' = count + 1
  /\ SignalNotEmpty
  /\ UNCHANGED <<head, out, late>>

zhio_queue_send(t, v) ==
  /\ Idle(t)
  /\ Insert(v)
  /\ UNCHANGED senders

zhio_queue_send_isr(v) == Insert(v) /\ UNCHANGED senders

SendBlocks(t, v) ==
  /\ Idle(t)
  /\ count >= Max
  /\ notFull' = notFull \cup {t}
  /\ msg' = [msg EXCEPT ![t] = v]
  /\ UNCHANGED <<ring, wokenS, readers, out, late>>

(* A woken sender looks again, and may have to wait once more. *)
SendAgain(t) ==
  /\ t \in wokenS
  /\ wokenS' = wokenS \ {t}
  /\ \/ /\ Insert(msg[t])
        /\ msg' = [msg EXCEPT ![t] = None]
        /\ UNCHANGED notFull
     \/ /\ count >= Max
        /\ notFull' = notFull \cup {t}
        /\ UNCHANGED <<ring, msg, readers, out, late>>

(* pthread_cond_timedwait fails and the call returns without another look  *)
(* at the queue.  A thread that has been woken may time out as well, with  *)
(* the signal that woke it spent.                                          *)
SendTimesOut(t) ==
  /\ t \in notFull \cup wokenS
  /\ notFull' = notFull \ {t}
  /\ wokenS' = wokenS \ {t}
  /\ msg' = [msg EXCEPT ![t] = None]
  /\ late' = (late \/ t \in wokenS)
  /\ UNCHANGED <<ring, readers, out>>

-----------------------------------------------------------------------------
(* Receiving. *)

(* The end of zhio_queue_receive. *)
Remove ==
  /\ count # 0
  /\ out' = items[head]
  /\ head' = (head + 1) % Max
  /\ count' = count - 1
  /\ SignalNotFull
  /\ UNCHANGED <<items, tail, msg, late>>

zhio_queue_receive(t) ==
  /\ Idle(t)
  /\ Remove
  /\ UNCHANGED readers

ReceiveBlocks(t) ==
  /\ Idle(t)
  /\ count = 0
  /\ notEmpty' = notEmpty \cup {t}
  /\ UNCHANGED <<ring, wokenR, senders, out, late>>

ReceiveAgain(t) ==
  /\ t \in wokenR
  /\ wokenR' = wokenR \ {t}
  /\ \/ Remove /\ UNCHANGED notEmpty
     \/ /\ count = 0
        /\ notEmpty' = notEmpty \cup {t}
        /\ UNCHANGED <<ring, senders, out, late>>

ReceiveTimesOut(t) ==
  /\ t \in notEmpty \cup wokenR
  /\ notEmpty' = notEmpty \ {t}
  /\ wokenR' = wokenR \ {t}
  /\ late' = (late \/ t \in wokenR)
  /\ UNCHANGED <<ring, senders, out>>

-----------------------------------------------------------------------------

(* A condition variable may wake a thread without a signal. *)
SpuriousWake(t) ==
  /\ \/ /\ t \in notFull
        /\ notFull' = notFull \ {t}
        /\ wokenS' = wokenS \cup {t}
        /\ UNCHANGED readers
     \/ /\ t \in notEmpty
        /\ notEmpty' = notEmpty \ {t}
        /\ wokenR' = wokenR \cup {t}
        /\ UNCHANGED <<notFull, wokenS>>
  /\ UNCHANGED <<ring, msg, out, late>>

zhio_queue_resetKeepsTail ==
  /\ count' = 0
  /\ head' = 0
  /\ notFull' = {}
  /\ wokenS' = wokenS \cup notFull
  /\ UNCHANGED <<items, tail, msg, readers, out, late>>

(* zhio_queue_reset empties the ring and wakes every sender. *)
zhio_queue_reset ==
  /\ count' = 0
  /\ head' = 0
  /\ tail' = 0
  /\ notFull' = {}
  /\ wokenS' = wokenS \cup notFull
  /\ UNCHANGED <<items, msg, readers, out, late>>

Next ==
  \/ \E v \in Messages : zhio_queue_send_isr(v)
  \/ zhio_queue_reset
  \/ \E t \in Threads :
       \/ \E v \in Messages : zhio_queue_send(t, v) \/ SendBlocks(t, v)
       \/ SendAgain(t)
       \/ SendTimesOut(t)
       \/ zhio_queue_receive(t)
       \/ ReceiveBlocks(t)
       \/ ReceiveAgain(t)
       \/ ReceiveTimesOut(t)
       \/ SpuriousWake(t)

Spec == Init /\ [][Next]_vars

-----------------------------------------------------------------------------

(* Nobody sleeps on what could be done: while receivers wait, every item   *)
(* in the queue is owed to a receiver that has been woken, and while       *)
(* senders wait, so is every free place to a sender.  A thread that was    *)
(* woken and returns ZHIO_E_TIMEOUT all the same spends a signal, and      *)
(* voids this: from then on an item may lie there while a receiver waits.  *)
NoLostWakeup ==
  ~late =>
    /\ notEmpty # {} => count <= Cardinality(wokenR)
    /\ notFull # {} => Max - count <= Cardinality(wokenS)

(* The messages in the ring, the oldest first. *)
Contents == [i \in 1..count |-> items[(head + i - 1) % Max]]

(* The queue is the FIFO queue that message_bus.c:14 says it is, for any   *)
(* number of senders and receivers, timeouts and resets.                   *)
Channel == INSTANCE Fifo
  WITH Capacity <- Max,
       contents <- Contents

ImplementsFifo == Channel!Spec
=============================================================================
