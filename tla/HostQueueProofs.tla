-------------------------- MODULE HostQueueProofs --------------------------
(***************************************************************************)
(* Proofs about module HostQueue, for any finite set of threads, any       *)
(* messages and a ring of any size.                                        *)
(***************************************************************************)
EXTENDS HostQueue, Sequences, SequenceTheorems, FiniteSetTheorems, TLAPS

(* The remainder for the sums of a place and a length that occur here. *)
Wrapped(n) == n % Max

LEMMA WrappedOnce ==
  ASSUME NEW n \in Nat, n < 2 * Max
  PROVE  Wrapped(n) = IF n < Max THEN n ELSE n - Max
<1>1. Max \in Nat \ {0}
  BY QueueAssumption
<1> QED
  BY <1>1, Z3 DEF Wrapped

(* The place after the last item is the one that tail names. *)
RingOK == tail = (head + count) % Max

(* A thread that waits has not been woken, and one that was woken does not *)
(* wait.                                                                   *)
Apart == notFull \cap wokenS = {} /\ notEmpty \cap wokenR = {}

RingInv == TypeOK /\ RingOK /\ Apart

LEMMA InsertFacts ==
  ASSUME RingInv, NEW v \in Messages, Insert(v)
  PROVE  /\ items' \in [Places -> Messages \cup {None}]
         /\ head' \in Places /\ tail' \in Places /\ count' \in 0..Max
         /\ RingOK'
         /\ notEmpty' \subseteq notEmpty /\ wokenR' \subseteq wokenR \cup notEmpty
         /\ notEmpty' \cap wokenR' = {}
<1>1. /\ Max \in Nat \ {0} /\ head \in 0..(Max - 1) /\ tail \in 0..(Max - 1)
      /\ count \in Nat /\ count < Max
  BY QueueAssumption DEF RingInv, TypeOK, Places, Insert
<1>2. Wrapped(tail + 1) = IF tail + 1 < Max THEN tail + 1 ELSE tail + 1 - Max
  <2>1. tail + 1 \in Nat /\ tail + 1 < 2 * Max
    BY <1>1
  <2> QED
    BY <1>1, <2>1, WrappedOnce
<1>8. Wrapped(head + count) =
        IF head + count < Max THEN head + count ELSE head + count - Max
  <2>1. head + count \in Nat /\ head + count < 2 * Max
    BY <1>1
  <2> QED
    BY <1>1, <2>1, WrappedOnce
<1>9. Wrapped(head + count + 1) =
        IF head + count + 1 < Max THEN head + count + 1 ELSE head + count + 1 - Max
  <2>1. head + count + 1 \in Nat /\ head + count + 1 < 2 * Max
    BY <1>1
  <2> QED
    BY <1>1, <2>1, WrappedOnce
<1>3. head' = head /\ tail' = Wrapped(tail + 1) /\ count' = count + 1
  BY DEF Insert, Wrapped
<1>4. tail' \in Places /\ count' \in 0..Max /\ head' \in Places
  BY <1>1, <1>2, <1>3 DEF Places
<1>5. RingOK'
  <2>1. tail = Wrapped(head + count)
    BY DEF RingInv, RingOK, Wrapped
  <2>2. tail' = Wrapped(head + count + 1)
    BY <1>1, <1>2, <1>3, <1>8, <1>9, <2>1
  <2>3. head' + count' = head + count + 1
    BY <1>1, <1>3
  <2> QED
    BY <2>2, <2>3 DEF RingOK, Wrapped
<1>6. items' \in [Places -> Messages \cup {None}]
  BY DEF RingInv, TypeOK, Insert
<1>7. /\ notEmpty' \subseteq notEmpty /\ wokenR' \subseteq wokenR \cup notEmpty
      /\ notEmpty' \cap wokenR' = {}
  BY DEF RingInv, Apart, Insert, SignalNotEmpty, readers
<1> QED
  BY <1>4, <1>5, <1>6, <1>7

LEMMA RemoveFacts ==
  ASSUME RingInv, Remove
  PROVE  /\ head' \in Places /\ tail' \in Places /\ count' \in 0..Max
         /\ out' \in Messages \cup {None}
         /\ RingOK'
         /\ notFull' \subseteq notFull /\ wokenS' \subseteq wokenS \cup notFull
         /\ notFull' \cap wokenS' = {}
<1>1. /\ Max \in Nat \ {0} /\ head \in 0..(Max - 1) /\ tail \in 0..(Max - 1)
      /\ count \in Nat /\ count # 0 /\ count <= Max
  BY QueueAssumption DEF RingInv, TypeOK, Places, Remove
<1>2. Wrapped(head + 1) = IF head + 1 < Max THEN head + 1 ELSE head + 1 - Max
  <2>1. head + 1 \in Nat /\ head + 1 < 2 * Max
    BY <1>1
  <2> QED
    BY <1>1, <2>1, WrappedOnce
<1>10. Wrapped(head + count) =
        IF head + count < Max THEN head + count ELSE head + count - Max
  <2>1. head + count \in Nat /\ head + count < 2 * Max
    BY <1>1
  <2> QED
    BY <1>1, <2>1, WrappedOnce
<1>3. tail' = tail /\ head' = Wrapped(head + 1) /\ count' = count - 1
  BY DEF Remove, Wrapped
<1>4. head' \in 0..(Max - 1) /\ count' \in 0..Max
  BY <1>1, <1>2, <1>3
<1>5. Wrapped(count - 1) = count - 1
  <2>1. count - 1 \in Nat /\ count - 1 < Max
    BY <1>1
  <2> QED
    BY <1>1, <2>1, WrappedOnce
<1>6. RingOK'
  <2>1. tail = Wrapped(head + count)
    BY DEF RingInv, RingOK, Wrapped
  <2>2. CASE head + 1 < Max
    <3>1. head' + count' = head + count
      BY <1>1, <1>2, <1>3, <2>2
    <3> QED
      BY <1>3, <2>1, <3>1 DEF RingOK, Wrapped
  <2>3. CASE ~(head + 1 < Max)
    <3>1. head' + count' = count - 1 /\ tail = count - 1
      BY <1>1, <1>2, <1>3, <1>10, <2>1, <2>3
    <3> QED
      BY <1>3, <1>5, <3>1 DEF RingOK, Wrapped
  <2> QED
    BY <2>2, <2>3
<1>7. out' \in Messages \cup {None}
  BY <1>1 DEF RingInv, TypeOK, Remove, Places
<1>8. /\ notFull' \subseteq notFull /\ wokenS' \subseteq wokenS \cup notFull
      /\ notFull' \cap wokenS' = {}
  BY DEF RingInv, Apart, Remove, SignalNotFull
<1>9. tail' \in Places /\ head' \in Places
  BY <1>1, <1>3, <1>4 DEF Places
<1> QED
  BY <1>4, <1>6, <1>7, <1>8, <1>9

-----------------------------------------------------------------------------
(* The ranges of the variables, and the ring. *)

LEMMA InitRing == Init => RingInv
<1> SUFFICES ASSUME Init PROVE RingInv
  OBVIOUS
<1>1. Max \in Nat \ {0}
  BY QueueAssumption
<1>2. Wrapped(0) = 0
  BY <1>1, WrappedOnce
<1>3. TypeOK
  <2>1. items \in [Places -> Messages \cup {None}] /\ msg \in [Threads -> Messages \cup {None}]
    BY DEF Init
  <2>2. head \in Places /\ tail \in Places /\ count \in 0..Max
    BY <1>1 DEF Init, Places
  <2>3. /\ notFull \subseteq Threads /\ notEmpty \subseteq Threads
        /\ wokenS \subseteq Threads /\ wokenR \subseteq Threads
        /\ \A t \in notFull \cup wokenS : msg[t] \in Messages
        /\ out \in Messages \cup {None} /\ late \in BOOLEAN
    BY DEF Init
  <2> QED
    BY <2>1, <2>2, <2>3 DEF TypeOK
<1>4. RingOK
  <2>1. tail = 0 /\ head + count = 0
    BY DEF Init
  <2> QED
    BY <1>2, <2>1 DEF RingOK, Wrapped
<1> QED
  BY <1>3, <1>4 DEF RingInv, Init, Apart

LEMMA NextRing == RingInv /\ [Next]_vars => RingInv'
<1> SUFFICES ASSUME RingInv, [Next]_vars
             PROVE  RingInv'
  OBVIOUS
<1> USE DEF RingInv, Apart
<1>0. Max \in Nat \ {0} /\ 0 \in Places
  BY QueueAssumption DEF Places
<1>1. CASE \E v \in Messages : zhio_queue_send_isr(v)
  <2> PICK v \in Messages : zhio_queue_send_isr(v)
    BY <1>1
  <2> Insert(v) /\ UNCHANGED senders
    BY DEF zhio_queue_send_isr
  <2> QED
    BY InsertFacts DEF TypeOK, Insert, senders
<1>2. CASE zhio_queue_reset
  <2>1. Wrapped(0) = 0
    <3>1. 0 \in Nat /\ 0 < 2 * Max /\ 0 < Max
      BY <1>0
    <3> QED
      BY <3>1, WrappedOnce
  <2>2. RingOK'
    <3>1. tail' = 0 /\ head' + count' = 0
      BY <1>2 DEF zhio_queue_reset
    <3> QED
      BY <2>1, <3>1 DEF RingOK, Wrapped
  <2>3. TypeOK' /\ Apart'
    BY <1>0, <1>2 DEF zhio_queue_reset, TypeOK, readers
  <2> QED
    BY <2>2, <2>3
<1>3. ASSUME NEW t \in Threads, NEW v \in Messages, zhio_queue_send(t, v)
      PROVE  RingInv'
  <2> Insert(v) /\ UNCHANGED senders
    BY <1>3 DEF zhio_queue_send
  <2> QED
    BY InsertFacts DEF TypeOK, Insert, senders
<1>4. ASSUME NEW t \in Threads, NEW v \in Messages, SendBlocks(t, v)
      PROVE  RingInv'
  BY <1>4 DEF SendBlocks, Idle, TypeOK, RingOK, ring, readers
<1>5. ASSUME NEW t \in Threads, SendAgain(t)
      PROVE  RingInv'
  <2>1. CASE Insert(msg[t]) /\ msg' = [msg EXCEPT ![t] = None] /\ UNCHANGED notFull
    <3>1. msg[t] \in Messages
      BY <1>5 DEF SendAgain, TypeOK
    <3>2. /\ items' \in [Places -> Messages \cup {None}]
          /\ head' \in Places /\ tail' \in Places /\ count' \in 0..Max
          /\ RingOK'
          /\ notEmpty' \subseteq Threads /\ wokenR' \subseteq Threads
          /\ notEmpty' \cap wokenR' = {}
      BY <2>1, <3>1, InsertFacts DEF TypeOK
    <3>3. /\ notFull' \subseteq Threads /\ wokenS' \subseteq Threads
          /\ notFull' \cap wokenS' = {}
          /\ msg' \in [Threads -> Messages \cup {None}]
          /\ out' \in Messages \cup {None} /\ late' \in BOOLEAN
      BY <1>5, <2>1 DEF SendAgain, TypeOK, Insert
    <3>4. \A r \in notFull' \cup wokenS' : msg'[r] \in Messages
      BY <1>5, <2>1 DEF SendAgain, TypeOK
    <3> QED
      BY <3>2, <3>3, <3>4 DEF TypeOK
  <2>2. CASE notFull' = notFull \cup {t} /\ UNCHANGED <<ring, msg, readers, out, late>>
    BY <1>5, <2>2 DEF SendAgain, TypeOK, RingOK, ring, readers
  <2> QED
    BY <1>5, <2>1, <2>2 DEF SendAgain
<1>6. ASSUME NEW t \in Threads, SendTimesOut(t)
      PROVE  RingInv'
  BY <1>6 DEF SendTimesOut, TypeOK, RingOK, ring, readers
<1>7. ASSUME NEW t \in Threads, zhio_queue_receive(t)
      PROVE  RingInv'
  <2> Remove /\ UNCHANGED readers
    BY <1>7 DEF zhio_queue_receive
  <2> QED
    BY RemoveFacts DEF TypeOK, Remove, readers
<1>8. ASSUME NEW t \in Threads, ReceiveBlocks(t)
      PROVE  RingInv'
  BY <1>8 DEF ReceiveBlocks, Idle, TypeOK, RingOK, ring, senders
<1>9. ASSUME NEW t \in Threads, ReceiveAgain(t)
      PROVE  RingInv'
  <2>1. CASE Remove /\ UNCHANGED notEmpty
    BY <1>9, <2>1, RemoveFacts DEF ReceiveAgain, TypeOK, Remove
  <2>2. CASE notEmpty' = notEmpty \cup {t} /\ UNCHANGED <<ring, senders, out, late>>
    BY <1>9, <2>2 DEF ReceiveAgain, TypeOK, RingOK, ring, senders
  <2> QED
    BY <1>9, <2>1, <2>2 DEF ReceiveAgain
<1>10. ASSUME NEW t \in Threads, ReceiveTimesOut(t)
       PROVE  RingInv'
  BY <1>10 DEF ReceiveTimesOut, TypeOK, RingOK, ring, senders
<1>11. ASSUME NEW t \in Threads, SpuriousWake(t)
       PROVE  RingInv'
  BY <1>11 DEF SpuriousWake, TypeOK, RingOK, ring, readers
<1>12. CASE UNCHANGED vars
  BY <1>12 DEF vars, ring, senders, readers, TypeOK, RingOK
<1> QED
  BY <1>1, <1>2, <1>3, <1>4, <1>5, <1>6, <1>7, <1>8, <1>9, <1>10, <1>11, <1>12
  DEF Next

LEMMA AlwaysRing == Spec => []RingInv
BY InitRing, NextRing, PTL DEF Spec

(* Every variable keeps its range; in particular head and tail never leave *)
(* the ring, and the count never exceeds it.                               *)
THEOREM TypeCorrect == Spec => []TypeOK
<1>1. RingInv => TypeOK
  BY DEF RingInv
<1> QED
  BY <1>1, AlwaysRing, PTL

-----------------------------------------------------------------------------
(* Signals.  Every item that a waiting receiver could take is owed to a    *)
(* woken one, and an insertion either wakes another receiver or finds none *)
(* that waits; the same holds for places and senders.                      *)

ReadersOwed == notEmpty # {} => count <= Cardinality(wokenR)
SendersOwed == notFull # {} => Max - count <= Cardinality(wokenS)

LEMMA WokenFinite ==
  ASSUME TypeOK
  PROVE  /\ IsFiniteSet(wokenR) /\ Cardinality(wokenR) \in Nat
         /\ IsFiniteSet(wokenS) /\ Cardinality(wokenS) \in Nat
BY QueueAssumption, FS_Subset, FS_CardinalityType DEF TypeOK

(* An insertion leaves the readers owed what they can take. *)
LEMMA InsertOwes ==
  ASSUME RingInv, NEW v, Insert(v), ReadersOwed
  PROVE  ReadersOwed'
<1>1. count \in Nat /\ count' = count + 1
  BY DEF RingInv, TypeOK, Insert
<1>2. CASE notEmpty = {} /\ UNCHANGED readers
  BY <1>2 DEF ReadersOwed, readers
<1>3. ASSUME NEW t \in notEmpty, wokenR' = wokenR \cup {t}
      PROVE  ReadersOwed'
  <2>1. t \notin wokenR
    BY DEF RingInv, Apart
  <2>2. Cardinality(wokenR \cup {t}) = Cardinality(wokenR) + 1
    BY <2>1, WokenFinite, FS_AddElement DEF RingInv
  <2>3. Cardinality(wokenR') = Cardinality(wokenR) + 1
    BY <1>3, <2>2
  <2>4. count <= Cardinality(wokenR) /\ Cardinality(wokenR) \in Nat
    BY <1>3, WokenFinite DEF ReadersOwed, RingInv
  <2> QED
    BY <1>1, <2>3, <2>4 DEF ReadersOwed
<1> QED
  BY <1>2, <1>3 DEF Insert, SignalNotEmpty

(* A removal leaves the senders owed what they can fill. *)
LEMMA RemoveOwes ==
  ASSUME RingInv, Remove, SendersOwed
  PROVE  SendersOwed'
<1>1. count \in Nat /\ Max \in Nat /\ count' = count - 1
  BY QueueAssumption DEF RingInv, TypeOK, Remove
<1>2. CASE notFull = {} /\ UNCHANGED <<notFull, wokenS>>
  BY <1>2 DEF SendersOwed
<1>3. ASSUME NEW t \in notFull, wokenS' = wokenS \cup {t}
      PROVE  SendersOwed'
  <2>1. t \notin wokenS
    BY DEF RingInv, Apart
  <2>2. Cardinality(wokenS \cup {t}) = Cardinality(wokenS) + 1
    BY <2>1, WokenFinite, FS_AddElement DEF RingInv
  <2>3. Cardinality(wokenS') = Cardinality(wokenS) + 1
    BY <1>3, <2>2
  <2>4. Max - count <= Cardinality(wokenS) /\ Cardinality(wokenS) \in Nat
    BY <1>3, WokenFinite DEF SendersOwed, RingInv
  <2> QED
    BY <1>1, <2>3, <2>4 DEF SendersOwed
<1> QED
  BY <1>2, <1>3 DEF Remove, SignalNotFull

LEMMA OneLess ==
  ASSUME NEW S, IsFiniteSet(S), NEW t \in S
  PROVE  Cardinality(S \ {t}) = Cardinality(S) - 1
BY FS_RemoveElement

(* One step of any thread keeps the promise, or a woken thread times out.  *)
LEMMA NextOwed ==
  ASSUME RingInv, RingInv', [Next]_vars, ~late', ~late => ReadersOwed /\ SendersOwed
  PROVE  ReadersOwed' /\ SendersOwed'
<1>1. ~late /\ ReadersOwed /\ SendersOwed
  <2>1. late \in BOOLEAN /\ (late => late')
    BY DEF RingInv, TypeOK, Next, vars, zhio_queue_send_isr, zhio_queue_reset,
           zhio_queue_send, SendBlocks, SendAgain, SendTimesOut, zhio_queue_receive,
           ReceiveBlocks, ReceiveAgain, ReceiveTimesOut, SpuriousWake, Insert, Remove
  <2> QED
    BY <2>1
<1>2. /\ count \in Nat /\ Max \in Nat /\ count' \in Nat
      /\ IsFiniteSet(wokenR) /\ Cardinality(wokenR) \in Nat
      /\ IsFiniteSet(wokenS) /\ Cardinality(wokenS) \in Nat
      /\ IsFiniteSet(wokenR') /\ Cardinality(wokenR') \in Nat
      /\ IsFiniteSet(wokenS') /\ Cardinality(wokenS') \in Nat
  <2>1. (TypeOK => IsFiniteSet(wokenR) /\ IsFiniteSet(wokenS))'
    BY QueueAssumption, FS_Subset DEF TypeOK
  <2> QED
    BY <2>1, QueueAssumption, WokenFinite, FS_CardinalityType DEF RingInv, TypeOK
<1>3. ASSUME NEW v, Insert(v), UNCHANGED senders
      PROVE  ReadersOwed' /\ SendersOwed'
  <2>1. ReadersOwed'
    BY <1>1, <1>3, InsertOwes
  <2>2. count' = count + 1 /\ notFull' = notFull /\ wokenS' = wokenS
    BY <1>3 DEF Insert, senders
  <2> QED
    BY <1>1, <1>2, <2>1, <2>2 DEF SendersOwed
<1>4. CASE zhio_queue_reset
  BY <1>2, <1>4 DEF zhio_queue_reset, ReadersOwed, SendersOwed, readers
<1>5. ASSUME NEW t \in Threads, NEW v \in Messages, SendBlocks(t, v)
      PROVE  ReadersOwed' /\ SendersOwed'
  BY <1>1, <1>2, <1>5 DEF SendBlocks, ReadersOwed, SendersOwed, ring, readers
<1>6. ASSUME NEW t \in Threads, SendAgain(t)
      PROVE  ReadersOwed' /\ SendersOwed'
  <2>1. CASE Insert(msg[t]) /\ UNCHANGED notFull
    <3>1. ReadersOwed'
      BY <1>1, <2>1, InsertOwes
    <3>2. Cardinality(wokenS') = Cardinality(wokenS) - 1
      BY <1>2, <1>6, OneLess DEF SendAgain
    <3>3. count' = count + 1
      BY <2>1 DEF Insert
    <3> QED
      BY <1>1, <1>2, <2>1, <3>1, <3>2, <3>3 DEF SendersOwed
  <2>2. CASE count >= Max /\ UNCHANGED <<ring, msg, readers, out, late>>
    BY <1>1, <1>2, <2>2 DEF ReadersOwed, SendersOwed, ring, readers
  <2> QED
    BY <1>6, <2>1, <2>2 DEF SendAgain
<1>7. ASSUME NEW t \in Threads, SendTimesOut(t)
      PROVE  ReadersOwed' /\ SendersOwed'
  <2>1. t \notin wokenS /\ wokenS' = wokenS
    BY <1>7 DEF SendTimesOut
  <2> QED
    BY <1>1, <1>7, <2>1 DEF SendTimesOut, ReadersOwed, SendersOwed, ring, readers
<1>8. ASSUME NEW t \in Threads, zhio_queue_receive(t)
      PROVE  ReadersOwed' /\ SendersOwed'
  <2>1. SendersOwed'
    BY <1>1, <1>8, RemoveOwes DEF zhio_queue_receive
  <2>2. count' = count - 1 /\ notEmpty' = notEmpty /\ wokenR' = wokenR
    BY <1>8 DEF zhio_queue_receive, Remove, readers
  <2> QED
    BY <1>1, <1>2, <2>1, <2>2 DEF ReadersOwed
<1>9. ASSUME NEW t \in Threads, ReceiveBlocks(t)
      PROVE  ReadersOwed' /\ SendersOwed'
  BY <1>1, <1>2, <1>9 DEF ReceiveBlocks, ReadersOwed, SendersOwed, ring, senders
<1>10. ASSUME NEW t \in Threads, ReceiveAgain(t)
       PROVE  ReadersOwed' /\ SendersOwed'
  <2>1. CASE Remove /\ UNCHANGED notEmpty
    <3>1. SendersOwed'
      BY <1>1, <2>1, RemoveOwes
    <3>2. Cardinality(wokenR') = Cardinality(wokenR) - 1
      BY <1>2, <1>10, OneLess DEF ReceiveAgain
    <3>3. count' = count - 1
      BY <2>1 DEF Remove
    <3> QED
      BY <1>1, <1>2, <2>1, <3>1, <3>2, <3>3 DEF ReadersOwed
  <2>2. CASE count = 0 /\ UNCHANGED <<ring, senders, out, late>>
    BY <1>1, <1>2, <2>2 DEF ReadersOwed, SendersOwed, ring, senders
  <2> QED
    BY <1>10, <2>1, <2>2 DEF ReceiveAgain
<1>11. ASSUME NEW t \in Threads, ReceiveTimesOut(t)
       PROVE  ReadersOwed' /\ SendersOwed'
  <2>1. t \notin wokenR /\ wokenR' = wokenR
    BY <1>11 DEF ReceiveTimesOut
  <2> QED
    BY <1>1, <1>11, <2>1 DEF ReceiveTimesOut, ReadersOwed, SendersOwed, ring, senders
<1>12. ASSUME NEW t \in Threads, SpuriousWake(t)
       PROVE  ReadersOwed' /\ SendersOwed'
  <2>1. wokenR \subseteq wokenR' /\ wokenS \subseteq wokenS'
    BY <1>12 DEF SpuriousWake, readers
  <2>2. /\ Cardinality(wokenR) <= Cardinality(wokenR')
        /\ Cardinality(wokenS) <= Cardinality(wokenS')
    BY <1>2, <2>1, FS_Subset
  <2>3. /\ count' = count
        /\ notEmpty' \subseteq notEmpty /\ notFull' \subseteq notFull
    BY <1>12 DEF SpuriousWake, readers, ring
  <2> QED
    BY <1>1, <1>2, <2>2, <2>3 DEF ReadersOwed, SendersOwed
<1>13. CASE UNCHANGED vars
  BY <1>1, <1>13 DEF vars, ring, senders, readers, ReadersOwed, SendersOwed
<1> QED
  BY <1>3, <1>4, <1>5, <1>6, <1>7, <1>8, <1>9, <1>10, <1>11, <1>12, <1>13
  DEF Next, zhio_queue_send, zhio_queue_send_isr

(* No wake-up is lost in a queue of any size with any number of threads,   *)
(* until a thread that has been woken returns ZHIO_E_TIMEOUT.              *)
THEOREM WakeupsKept == Spec => []NoLostWakeup
<1>1. Init => NoLostWakeup
  BY DEF Init, NoLostWakeup
<1>2. RingInv /\ RingInv' /\ NoLostWakeup /\ [Next]_vars => NoLostWakeup'
  <2> SUFFICES ASSUME RingInv, RingInv', NoLostWakeup, [Next]_vars, ~late'
               PROVE  ReadersOwed' /\ SendersOwed'
    BY DEF NoLostWakeup, ReadersOwed, SendersOwed
  <2>1. ~late => ReadersOwed /\ SendersOwed
    BY DEF NoLostWakeup, ReadersOwed, SendersOwed
  <2> QED
    BY <2>1, NextOwed
<1> QED
  BY <1>1, <1>2, AlwaysRing, PTL DEF Spec

-----------------------------------------------------------------------------
(* The ring implements the FIFO queue. *)

LEMMA ContentsType ==
  ASSUME RingInv
  PROVE  /\ Contents \in Seq(Messages \cup {None})
         /\ Len(Contents) = count
         /\ count \in Nat
         /\ \A i \in 1..count : Wrapped(head + i - 1) \in Places
         /\ \A i \in 1..count : Contents[i] = items[Wrapped(head + i - 1)]
<1>1. Max \in Nat \ {0} /\ head \in 0..(Max - 1) /\ count \in Nat /\ count <= Max
  BY QueueAssumption DEF RingInv, TypeOK, Places
<1>2. ASSUME NEW i \in 1..count
      PROVE  Wrapped(head + i - 1) \in Places
  <2>1. head + i - 1 \in Nat /\ head + i - 1 < 2 * Max
    BY <1>1
  <2>2. Wrapped(head + i - 1) =
          IF head + i - 1 < Max THEN head + i - 1 ELSE head + i - 1 - Max
    BY <1>1, <2>1, WrappedOnce
  <2> QED
    BY <1>1, <2>1, <2>2 DEF Places
<1>3. Contents = [i \in 1..count |-> items[Wrapped(head + i - 1)]]
  BY DEF Contents, Wrapped
<1>4. \A i \in 1..count : items[Wrapped(head + i - 1)] \in Messages \cup {None}
  BY <1>2 DEF RingInv, TypeOK
<1> QED
  BY <1>1, <1>2, <1>3, <1>4

(* The places of the items in the ring are not the one that is written.    *)
LEMMA TailIsFree ==
  ASSUME RingInv, count < Max, NEW i \in 1..count
  PROVE  Wrapped(head + i - 1) # tail
<1>1. Max \in Nat \ {0} /\ head \in 0..(Max - 1) /\ count \in Nat
  BY QueueAssumption DEF RingInv, TypeOK, Places
<1>2. head + i - 1 \in Nat /\ head + i - 1 < 2 * Max
  BY <1>1
<1>3. head + count \in Nat /\ head + count < 2 * Max
  BY <1>1
<1>4. Wrapped(head + i - 1) =
        IF head + i - 1 < Max THEN head + i - 1 ELSE head + i - 1 - Max
  BY <1>1, <1>2, WrappedOnce
<1>5. Wrapped(head + count) =
        IF head + count < Max THEN head + count ELSE head + count - Max
  BY <1>1, <1>3, WrappedOnce
<1>6. tail = Wrapped(head + count)
  BY DEF RingInv, RingOK, Wrapped
<1> QED
  BY <1>1, <1>4, <1>5, <1>6

LEMMA InsertPuts ==
  ASSUME RingInv, RingInv', NEW v \in Messages, Insert(v)
  PROVE  Channel!Put(v)
<1>1. /\ count < Max /\ count' = count + 1 /\ head' = head /\ out' = out
      /\ items' = [items EXCEPT ![tail] = v]
  BY DEF Insert
<1>2. /\ Contents' \in Seq(Messages \cup {None})
      /\ Len(Contents') = count'
      /\ \A i \in 1..count' : Contents'[i] = items'[Wrapped(head' + i - 1)]
  <2>1. (RingInv => /\ Contents \in Seq(Messages \cup {None})
                    /\ Len(Contents) = count
                    /\ \A i \in 1..count : Contents[i] = items[Wrapped(head + i - 1)])'
    BY ContentsType, PTL
  <2> QED
    BY <2>1 DEF Wrapped
<1>3. ASSUME NEW i \in 1..count
      PROVE  Contents'[i] = Contents[i]
  <2>1. Wrapped(head + i - 1) \in Places /\ Wrapped(head + i - 1) # tail
    BY <1>1, ContentsType, TailIsFree
  <2>2. items'[Wrapped(head + i - 1)] = items[Wrapped(head + i - 1)]
    BY <1>1, <2>1 DEF RingInv, TypeOK
  <2>3. i \in 1..count'
    BY <1>1, ContentsType
  <2> QED
    BY <1>1, <1>2, <2>2, <2>3, ContentsType
<1>4. Contents'[count + 1] = v
  <2>1. head + (count + 1) - 1 = head + count /\ count + 1 \in 1..count'
    BY <1>1, ContentsType DEF RingInv, TypeOK, Places
  <2>2. tail = Wrapped(head + count)
    BY DEF RingInv, RingOK, Wrapped
  <2>3. items'[tail] = v
    BY <1>1 DEF RingInv, TypeOK
  <2> QED
    BY <1>1, <1>2, <2>1, <2>2, <2>3
<1>5. Contents' = Append(Contents, v)
  BY <1>1, <1>2, <1>3, <1>4, ContentsType
<1> QED
  BY <1>1, <1>5, ContentsType DEF Channel!Put

LEMMA RemoveGets ==
  ASSUME RingInv, RingInv', Remove
  PROVE  Channel!Get
<1>1. /\ count # 0 /\ count' = count - 1 /\ out' = items[head] /\ items' = items
      /\ head' = Wrapped(head + 1)
  BY DEF Remove, Wrapped
<1>2. Max \in Nat \ {0} /\ head \in 0..(Max - 1) /\ count \in Nat /\ count <= Max
  BY QueueAssumption DEF RingInv, TypeOK, Places
<1>3. /\ Contents' \in Seq(Messages \cup {None})
      /\ Len(Contents') = count'
      /\ \A i \in 1..count' : Contents'[i] = items'[Wrapped(head' + i - 1)]
  <2>1. (RingInv => /\ Contents \in Seq(Messages \cup {None})
                    /\ Len(Contents) = count
                    /\ \A i \in 1..count : Contents[i] = items[Wrapped(head + i - 1)])'
    BY ContentsType, PTL
  <2> QED
    BY <2>1 DEF Wrapped
<1>4. ASSUME NEW i \in 1..(count - 1)
      PROVE  Contents'[i] = Contents[i + 1]
  <2>1. Wrapped(head' + i - 1) = Wrapped(head + (i + 1) - 1)
    <3>1. Wrapped(head + 1) = IF head + 1 < Max THEN head + 1 ELSE head + 1 - Max
      <4>1. head + 1 \in Nat /\ head + 1 < 2 * Max
        BY <1>2
      <4> QED
        BY <1>2, <4>1, WrappedOnce
    <3>2. CASE head + 1 < Max
      <4>1. head' + i - 1 = head + (i + 1) - 1
        BY <1>1, <1>2, <3>1, <3>2
      <4> QED
        BY <4>1
    <3>3. CASE ~(head + 1 < Max)
      <4>1. head' + i - 1 = i - 1 /\ head + (i + 1) - 1 = Max + i - 1
        BY <1>1, <1>2, <3>1, <3>3
      <4>2. /\ i - 1 \in Nat /\ i - 1 < Max
            /\ Max + i - 1 \in Nat /\ Max + i - 1 < 2 * Max /\ ~(Max + i - 1 < Max)
        BY <1>2
      <4>3. Wrapped(i - 1) = i - 1
        BY <1>2, <4>2, WrappedOnce
      <4>4. Wrapped(Max + i - 1) = i - 1
        BY <1>2, <4>2, WrappedOnce
      <4> QED
        BY <4>1, <4>3, <4>4
    <3> QED
      BY <3>2, <3>3
  <2>2. i \in 1..count' /\ i + 1 \in 1..count
    BY <1>1, <1>2
  <2> QED
    BY <1>1, <1>3, <2>1, <2>2, ContentsType
<1>5. Contents' = Tail(Contents)
  BY <1>1, <1>2, <1>3, <1>4, ContentsType
<1>6. Contents # <<>> /\ Head(Contents) = items[head]
  <2>1. head + 1 - 1 = head /\ 1 \in 1..count
    BY <1>1, <1>2
  <2>2. Wrapped(head) = head
    BY <1>2, WrappedOnce
  <2>3. Contents[1] = items[head]
    BY <2>1, <2>2, ContentsType
  <2> QED
    BY <1>1, <1>2, <2>3, ContentsType
<1> QED
  BY <1>1, <1>5, <1>6 DEF Channel!Get

LEMMA ChannelStutters ==
  ASSUME UNCHANGED ring, UNCHANGED out
  PROVE  UNCHANGED Channel!vars
BY DEF ring, Contents, Channel!vars

(* What goes into the host's queue comes out in the same order and once,   *)
(* for any size of the ring, any number of threads and messages, and       *)
(* whatever times out or is reset.                                         *)
THEOREM QueueIsFifo == Spec => ImplementsFifo
<1>1. Init => Channel!Init
  <2> SUFFICES ASSUME Init PROVE Contents = <<>>
    BY DEF Init, Channel!Init
  <2>1. RingInv /\ count = 0
    BY InitRing DEF Init
  <2> QED
    BY <2>1, ContentsType
<1>2. RingInv /\ RingInv' /\ [Next]_vars => [Channel!Next]_(Channel!vars)
  <2> SUFFICES ASSUME RingInv, RingInv', [Next]_vars
               PROVE  [Channel!Next]_(Channel!vars)
    OBVIOUS
  <2>1. ASSUME NEW v \in Messages, Insert(v)
        PROVE  Channel!Next
    BY <2>1, InsertPuts DEF Channel!Next
  <2>2. ASSUME Remove
        PROVE  Channel!Next
    BY <2>2, RemoveGets DEF Channel!Next
  <2>3. CASE zhio_queue_reset
    <3>1. count' = 0 /\ out' = out
      BY <2>3 DEF zhio_queue_reset
    <3>2. (RingInv => Contents \in Seq(Messages \cup {None}) /\ Len(Contents) = count)'
      BY ContentsType, PTL
    <3>3. Contents' = <<>>
      BY <3>1, <3>2
    <3> QED
      BY <3>1, <3>3 DEF Channel!Next, Channel!Clear
  <2>4. ASSUME NEW t \in Threads, SendAgain(t)
        PROVE  [Channel!Next]_(Channel!vars)
    <3>1. CASE Insert(msg[t])
      <4>1. msg[t] \in Messages
        BY <2>4 DEF SendAgain, RingInv, TypeOK
      <4> QED
        BY <2>1, <3>1, <4>1
    <3>2. CASE UNCHANGED ring /\ UNCHANGED out
      BY <3>2, ChannelStutters
    <3> QED
      BY <2>4, <3>1, <3>2 DEF SendAgain
  <2>5. ASSUME NEW t \in Threads, ReceiveAgain(t)
        PROVE  [Channel!Next]_(Channel!vars)
    <3>1. Remove \/ (UNCHANGED ring /\ UNCHANGED out)
      BY <2>5 DEF ReceiveAgain
    <3> QED
      BY <2>2, <3>1, ChannelStutters
  <2>6. ASSUME NEW t \in Threads,
               \/ \E v \in Messages : SendBlocks(t, v)
               \/ SendTimesOut(t)
               \/ ReceiveBlocks(t)
               \/ ReceiveTimesOut(t)
               \/ SpuriousWake(t)
        PROVE  UNCHANGED Channel!vars
    <3>1. UNCHANGED ring /\ UNCHANGED out
      BY <2>6 DEF SendBlocks, SendTimesOut, ReceiveBlocks, ReceiveTimesOut, SpuriousWake
    <3> QED
      BY <3>1, ChannelStutters
  <2>7. CASE UNCHANGED vars
    <3>1. UNCHANGED ring /\ UNCHANGED out
      BY <2>7 DEF vars
    <3> QED
      BY <3>1, ChannelStutters
  <2> QED
    BY <2>1, <2>2, <2>3, <2>4, <2>5, <2>6, <2>7
    DEF Next, zhio_queue_send, zhio_queue_send_isr, zhio_queue_receive
<1> QED
  BY <1>1, <1>2, AlwaysRing, PTL DEF Spec, ImplementsFifo, Channel!Spec
=============================================================================
