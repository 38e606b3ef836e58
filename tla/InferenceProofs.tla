-------------------------- MODULE InferenceProofs --------------------------
(***************************************************************************)
(* Proofs about module Inference, for any finite sets of threads, any set  *)
(* of models, any size of the gate and of the table of marks, and any      *)
(* number of restarts.                                                     *)
(***************************************************************************)
EXTENDS Inference, FiniteSetTheorems, TLAPS

(* What the ranges of the variables do not say: a canceller that has       *)
(* picked a slot is a canceller, and its slot exists; before the first     *)
(* shutdown there is a gate, it has got its permits, and nobody waits on   *)
(* one that was freed.                                                     *)
CancellerOK ==
  \A t \in Threads : pc[t] \in {"valid", "name"} =>
                       t \in Cancellers /\ idx[t] \in Slots

GateOK == restarts = 0 => giving = 0 /\ gate # NoGate

FreedOK == \A t \in Threads : pc[t] = "freed" => restarts # 0

TypeInv == TypeOK /\ CancellerOK /\ GateOK /\ FreedOK

LEMMA FullGateType ==
  FullGate \in Nat /\ FullGate <= GateCapacity /\ FullGate <= MaxAsync
BY SizesAssumption DEF FullGate

(* A step of a run either moves its thread to another step of the run, or  *)
(* ends the run.                                                           *)
LEMMA RunStepMoves ==
  ASSUME NEW t, RunStep(t)
  PROVE  /\ pc[t] \in RunSteps
         /\ \/ \E l \in RunSteps : Goto(t, l) /\ UNCHANGED on
            \/ FinishRun(t)
         /\ UNCHANGED <<gate, restarts, giving, handle, idx>>
<1>1. CASE CheckCancelled(t)
  <2>1. Goto(t, "clear") \/ Goto(t, "validate")
    <3>1. CASE Marked(on[t]) # {}
      BY <1>1, <3>1 DEF CheckCancelled
    <3>2. CASE Marked(on[t]) = {}
      BY <1>1, <3>2 DEF CheckCancelled
    <3> QED BY <3>1, <3>2
  <2> QED BY <1>1, <2>1 DEF CheckCancelled, RunSteps
<1>2. CASE ClearMarks(t)
  BY <1>2 DEF ClearMarks, RunSteps
<1>3. CASE Validate(t)
  BY <1>3 DEF Validate, RunSteps
<1>4. CASE ExecuteCheck(t)
  BY <1>4 DEF ExecuteCheck, RunSteps
<1>5. CASE ExecuteEnter(t)
  BY <1>5 DEF ExecuteEnter, RunSteps
<1>6. CASE ExecuteFinish(t)
  BY <1>6 DEF ExecuteFinish, RunSteps
<1> QED
  BY <1>1, <1>2, <1>3, <1>4, <1>5, <1>6 DEF RunStep

(* The ranges of the variables that are not about threads. *)
SharedOK ==
  /\ gate \in Nat \cup {NoGate}
  /\ restarts \in 0..MaxRestarts
  /\ valid \subseteq Slots
  /\ handle \in [Slots -> Models \cup {NoModel}]
  /\ mstate \in [Models -> ModelStates]
  /\ asked \subseteq Models
  /\ giving \in 0..MaxAsync
  /\ GateOK

LEMMA GivePermitType ==
  ASSUME TypeInv, GivePermit
  PROVE  /\ gate' \in Nat \cup {NoGate}
         /\ gate # NoGate => gate' # NoGate
BY SizesAssumption, NullAssumption DEF TypeInv, TypeOK, GivePermit

(* A step that moves one thread to label l with model m keeps the types.   *)
LEMMA MoveType ==
  ASSUME TypeInv, SharedOK', NEW t \in Threads, NEW l,
         NEW m \in Models \cup {NoModel},
         pc' = [pc EXCEPT ![t] = l],
         on' = [on EXCEPT ![t] = m],
         t \in Callers => l \in CallerSteps,
         t \in Workers => l \in WorkerSteps \cup {"ended"},
         l \notin {"idle", "ended"} => m \in Models,
         l # "freed", UNCHANGED restarts,
         l \in {"valid", "name"} => t \in Cancellers /\ idx'[t] \in Slots,
         idx' \in [Cancellers -> Slots \cup {0}],
         \A u \in Cancellers \ {t} : idx'[u] = idx[u]
  PROVE  TypeInv'
<1>1. pc' \in [Threads -> WorkerSteps \cup CallerSteps \cup {"unused", "ended"}]
  BY DEF TypeInv, TypeOK, Threads
<1>2. \A u \in Callers : pc'[u] \in CallerSteps
  BY DEF TypeInv, TypeOK, Threads
<1>3. \A w \in Workers : pc'[w] \in WorkerSteps \cup {"unused", "ended"}
  BY DEF TypeInv, TypeOK, Threads
<1>4. on' \in [Threads -> Models \cup {NoModel}]
  BY DEF TypeInv, TypeOK
<1>5. \A u \in Threads : pc'[u] \notin {"idle", "unused", "ended"} => on'[u] \in Models
  BY DEF TypeInv, TypeOK
<1>6. CancellerOK'
  <2> SUFFICES ASSUME NEW u \in Threads, pc'[u] \in {"valid", "name"}
               PROVE  u \in Cancellers /\ idx'[u] \in Slots
    BY DEF CancellerOK
  <2>1. CASE u = t
    BY <2>1 DEF TypeInv, TypeOK
  <2>2. CASE u # t
    <3>1. pc[u] \in {"valid", "name"}
      BY <2>2 DEF TypeInv, TypeOK
    <3> QED BY <2>2, <3>1 DEF TypeInv, CancellerOK
  <2> QED BY <2>1, <2>2
<1>7. FreedOK'
  BY DEF TypeInv, TypeOK, FreedOK
<1> QED
  BY <1>1, <1>2, <1>3, <1>4, <1>5, <1>6, <1>7 DEF SharedOK, TypeInv, TypeOK

(* A thread inside an operation that leaves on alone. *)
LEMMA GotoType ==
  ASSUME TypeInv, SharedOK', NEW t \in Threads, NEW l, Goto(t, l),
         t \in Callers => l \in CallerSteps,
         t \in Workers => l \in WorkerSteps,
         l \notin {"idle", "valid", "name", "freed"},
         pc[t] \notin {"idle", "unused", "ended"},
         UNCHANGED <<idx, on, restarts>>
  PROVE  TypeInv'
<1>1. on' = [on EXCEPT ![t] = on[t]] /\ on[t] \in Models
  BY DEF TypeInv, TypeOK
<1>2. l # "ended"
  BY DEF Threads, CallerSteps, WorkerSteps, RunSteps
<1> QED
  BY <1>1, <1>2, MoveType DEF Goto, TypeInv, TypeOK

LEMMA ReturnType ==
  ASSUME TypeInv, SharedOK', NEW t \in Callers, Return(t), UNCHANGED restarts,
         idx' \in [Cancellers -> Slots \cup {0}],
         \A u \in Cancellers \ {t} : idx'[u] = idx[u]
  PROVE  TypeInv'
<1>1. t \in Threads /\ t \notin Workers /\ "idle" \in CallerSteps
  BY ThreadsAssumption DEF Threads, CallerSteps
<1> QED
  BY <1>1, MoveType DEF Return, Goto

LEMMA StartType ==
  ASSUME TypeInv, SharedOK', NEW t \in Callers, NEW m \in Models, NEW l,
         Start(t, m, l), l \in CallerSteps \ {"freed"}, UNCHANGED restarts,
         l \in {"valid", "name"} => t \in Cancellers /\ idx'[t] \in Slots,
         idx' \in [Cancellers -> Slots \cup {0}],
         \A u \in Cancellers \ {t} : idx'[u] = idx[u]
  PROVE  TypeInv'
<1>1. t \in Threads /\ t \notin Workers
  BY ThreadsAssumption DEF Threads
<1> QED
  BY <1>1, MoveType DEF Start, Goto

(* Every step of a run keeps the shared variables in their ranges, and     *)
(* with them all the types.                                                *)
LEMMA RunStepType ==
  ASSUME TypeInv, NEW t \in Threads, RunStep(t)
  PROVE  TypeInv'
<1>1. on[t] \in Models /\ pc[t] \notin {"idle", "unused", "ended", "valid", "name"}
  BY RunStepMoves DEF TypeInv, TypeOK, RunSteps
<1>2. valid' \subseteq Slots /\ asked' \subseteq Models
  BY DEF TypeInv, TypeOK, RunStep, CheckCancelled, ClearMarks, Validate,
         ExecuteCheck, ExecuteEnter, ExecuteFinish
<1>3. mstate' \in [Models -> ModelStates]
  <2>1. CASE UNCHANGED mstate
    BY <2>1 DEF TypeInv, TypeOK
  <2>2. CASE \E st \in ModelStates : mstate' = [mstate EXCEPT ![on[t]] = st]
    BY <2>2 DEF TypeInv, TypeOK
  <2> QED
    BY <2>1, <2>2 DEF RunStep, CheckCancelled, ClearMarks, Validate,
         ExecuteCheck, ExecuteEnter, ExecuteFinish, ModelStates
<1>4. SharedOK'
  BY <1>2, <1>3, RunStepMoves DEF SharedOK, TypeInv, TypeOK, GateOK
<1>5. UNCHANGED <<idx, restarts>> /\ idx \in [Cancellers -> Slots \cup {0}]
  BY RunStepMoves DEF TypeInv, TypeOK
<1>6. CASE \E l \in RunSteps : Goto(t, l) /\ UNCHANGED on
  <2>1. PICK l \in RunSteps : Goto(t, l) /\ UNCHANGED on
    BY <1>6
  <2>2. l \in WorkerSteps /\ l \in CallerSteps /\ l \notin {"idle", "valid", "name", "freed"}
    BY DEF RunSteps, WorkerSteps, CallerSteps
  <2> QED
    BY <1>1, <1>4, <1>5, <2>1, <2>2, GotoType
<1>7. CASE FinishRun(t) /\ t \in Workers
  <2>1. Goto(t, "callback") /\ UNCHANGED on
    BY <1>7 DEF FinishRun
  <2>2. t \notin Callers /\ "callback" \in WorkerSteps
    BY <1>7, ThreadsAssumption DEF WorkerSteps
  <2> QED
    BY <1>1, <1>4, <1>5, <2>1, <2>2, GotoType
<1>8. CASE FinishRun(t) /\ t \notin Workers
  <2>1. Return(t) /\ t \in Callers
    BY <1>8 DEF FinishRun, Threads
  <2> QED
    BY <1>4, <1>5, <2>1, ReturnType
<1> QED
  BY <1>6, <1>7, <1>8, RunStepMoves

(* So does every call that an application thread may start. *)
LEMMA CallType ==
  ASSUME TypeInv, NEW t \in Callers, NEW m \in Models, Call(t, m)
  PROVE  TypeInv'
<1> USE DEF TypeInv, TypeOK, GateOK
<1>1. CASE AsyncTake(t, m)
  <2>1. SharedOK'
    BY <1>1, NullAssumption DEF AsyncTake, SharedOK
  <2> QED
    BY <1>1, <2>1, StartType DEF AsyncTake, CallerSteps
<1>2. CASE SyncCall(t, m)
  <2>1. SharedOK'
    BY <1>2 DEF SyncCall, SharedOK
  <2> QED
    BY <1>2, <2>1, StartType DEF SyncCall, CallerSteps, RunSteps
<1>3. CASE CancelScan(t, m)
  <2>1. SharedOK'
    BY <1>3 DEF CancelScan, SharedOK
  <2>2. PICK s \in Slots : idx' = [idx EXCEPT ![t] = s]
    BY <1>3 DEF CancelScan
  <2>3. t \in Cancellers /\ Start(t, m, "valid") /\ UNCHANGED restarts
    BY <1>3 DEF CancelScan
  <2> QED
    BY <2>1, <2>2, <2>3, StartType DEF CallerSteps
<1>4. CASE CancelDropped(t, m)
  BY <1>4 DEF CancelDropped, CancellerOK, FreedOK
<1>5. CASE LoadVerify(t, m)
  <2>1. SharedOK'
    BY <1>5 DEF LoadVerify, SharedOK, ModelStates
  <2>2. CASE Start(t, m, "device")
    BY <1>5, <2>1, <2>2, StartType DEF LoadVerify, CallerSteps
  <2>3. CASE UNCHANGED <<pc, on>>
    BY <1>5, <2>1, <2>3 DEF LoadVerify, SharedOK, CancellerOK, FreedOK
  <2> QED BY <1>5, <2>2, <2>3 DEF LoadVerify
<1>6. CASE UnloadCheck(t, m)
  <2>1. SharedOK'
    BY <1>6 DEF UnloadCheck, SharedOK
  <2> QED
    BY <1>6, <2>1, StartType DEF UnloadCheck, CallerSteps
<1>7. CASE SwapCheck(t, m)
  <2>1. SharedOK'
    BY <1>7 DEF SwapCheck, SharedOK
  <2> QED
    BY <1>7, <2>1, StartType DEF SwapCheck, CallerSteps
<1>8. CASE AsyncWait(t, m)
  <2>1. SharedOK'
    BY <1>8 DEF AsyncWait, SharedOK
  <2> QED
    BY <1>8, <2>1, StartType DEF AsyncWait, CallerSteps
<1> QED
  BY <1>1, <1>2, <1>3, <1>4, <1>5, <1>6, <1>7, <1>8 DEF Call

(* And so does every later step of an operation of an application thread. *)
LEMMA CallerStepType ==
  ASSUME TypeInv, NEW t \in Callers, CallerStep(t)
  PROVE  TypeInv'
<1> USE DEF TypeInv, TypeOK, GateOK
<1>0. t \in Threads
  BY DEF Threads
<1>1. CASE RunStep(t)
  BY <1>0, <1>1, RunStepType
<1>2. ASSUME NEW w \in Workers, AsyncSpawn(t, w)
      PROVE  TypeInv'
  <2>1. SharedOK'
    BY <1>2 DEF AsyncSpawn, SharedOK
  <2>2. t # w /\ w \in Threads /\ w \notin Callers
    BY ThreadsAssumption DEF Threads
  <2>3. on[t] \in Models
    BY <1>0, <1>2 DEF AsyncSpawn
  <2>4. /\ pc' = [pc EXCEPT ![t] = "idle", ![w] = "check"]
        /\ on' = [on EXCEPT ![t] = NoModel, ![w] = on[t]]
        /\ UNCHANGED idx
    BY <1>2 DEF AsyncSpawn
  <2>5. /\ \A u \in Callers : pc'[u] \in CallerSteps
        /\ \A u \in Workers : pc'[u] \in WorkerSteps \cup {"unused", "ended"}
    BY <1>0, <2>2, <2>4, ThreadsAssumption
       DEF CallerSteps, WorkerSteps, RunSteps, Threads
  <2>6. \A u \in Threads :
          pc'[u] \notin {"idle", "unused", "ended"} => on'[u] \in Models
    BY <1>0, <2>2, <2>3, <2>4
  <2>7. /\ pc' \in [Threads -> WorkerSteps \cup CallerSteps \cup {"unused", "ended"}]
        /\ on' \in [Threads -> Models \cup {NoModel}]
    BY <1>0, <2>2, <2>3, <2>4 DEF CallerSteps, WorkerSteps, RunSteps
  <2>8. CancellerOK'
    BY <1>0, <2>2, <2>4 DEF CancellerOK
  <2>9. FreedOK'
    BY <1>0, <1>2, <2>2, <2>4 DEF AsyncSpawn, FreedOK
  <2> QED
    BY <2>1, <2>4, <2>5, <2>6, <2>7, <2>8, <2>9 DEF SharedOK
<1>3. CASE AsyncSpawnFails(t)
  <2>1. SharedOK'
    BY <1>3, GivePermitType DEF AsyncSpawnFails, SharedOK
  <2> QED BY <1>3, <2>1, ReturnType DEF AsyncSpawnFails
<1>4. CASE CancelValid(t)
  <2>1. t \in Cancellers /\ idx[t] \in Slots /\ on[t] \in Models
    BY <1>0, <1>4 DEF CancelValid, CancellerOK
  <2>2. SharedOK'
    BY <1>4, <2>1 DEF CancelValid, SharedOK
  <2>3. on' = [on EXCEPT ![t] = on[t]] /\ pc' = [pc EXCEPT ![t] = "name"]
    BY <1>4 DEF CancelValid, Goto
  <2>4. UNCHANGED <<idx, restarts>> /\ t \notin Workers /\ "name" \in CallerSteps
    BY <1>4, ThreadsAssumption DEF CancelValid, CallerSteps
  <2> QED BY <1>0, <2>1, <2>2, <2>3, <2>4, MoveType
<1>5. CASE CancelName(t)
  <2>1. t \in Cancellers /\ idx[t] \in Slots /\ on[t] \in Models
    BY <1>0, <1>5 DEF CancelName, CancellerOK
  <2>2. SharedOK'
    BY <1>5, <2>1 DEF CancelName, SharedOK
  <2>3. Return(t) /\ UNCHANGED restarts /\ idx' = [idx EXCEPT ![t] = 0]
    BY <1>5 DEF CancelName
  <2> QED BY <2>1, <2>2, <2>3, ReturnType
<1>6. CASE LoadDevice(t) \/ UnloadWrite(t) \/ SwapCommit(t)
  <2>1. PICK st \in ModelStates : mstate' = [mstate EXCEPT ![on[t]] = st]
    BY <1>6 DEF LoadDevice, UnloadWrite, SwapCommit, ModelStates
  <2>2. SharedOK'
    BY <1>6, <2>1 DEF LoadDevice, UnloadWrite, SwapCommit, SharedOK
  <2> QED
    BY <1>6, <2>2, ReturnType DEF LoadDevice, UnloadWrite, SwapCommit
<1>7. CASE AsyncWaitTakes(t) \/ AsyncRefused(t) \/ AsyncWaitFreed(t)
  <2>1. SharedOK'
    BY <1>7, NullAssumption
       DEF AsyncWaitTakes, AsyncRefused, AsyncWaitFreed, SharedOK
  <2>2. CASE Return(t)
    BY <1>7, <2>1, <2>2, ReturnType
       DEF AsyncWaitTakes, AsyncRefused, AsyncWaitFreed
  <2>3. CASE Goto(t, "spawn") /\ UNCHANGED on
    <3>1. UNCHANGED <<idx, on, restarts>> /\ pc[t] \in {"wait", "freed"}
      BY <1>7, <2>3 DEF AsyncWaitTakes, AsyncRefused, AsyncWaitFreed
    <3>2. t \notin Workers /\ "spawn" \in CallerSteps
      BY ThreadsAssumption DEF CallerSteps
    <3> QED BY <1>0, <2>1, <2>3, <3>1, <3>2, GotoType
  <2> QED
    BY <1>7, <2>2, <2>3 DEF AsyncWaitTakes, AsyncRefused, AsyncWaitFreed
<1> QED
  BY <1>1, <1>2, <1>3, <1>4, <1>5, <1>6, <1>7 DEF CallerStep

LEMMA WorkerStepType ==
  ASSUME TypeInv, NEW w \in Workers, WorkerStep(w)
  PROVE  TypeInv'
<1> USE DEF TypeInv, TypeOK, GateOK
<1>0. w \in Threads /\ w \notin Callers
  BY ThreadsAssumption DEF Threads
<1>1. CASE RunStep(w)
  BY <1>0, <1>1, RunStepType
<1>2. CASE AsyncCallback(w)
  <2>1. SharedOK'
    BY <1>2 DEF AsyncCallback, SharedOK
  <2> QED BY <1>0, <1>2, <2>1, GotoType DEF AsyncCallback, WorkerSteps
<1>3. CASE AsyncRelease(w)
  <2>1. SharedOK'
    BY <1>3, GivePermitType DEF AsyncRelease, SharedOK
  <2> QED BY <1>0, <1>3, <2>1, MoveType DEF AsyncRelease, Goto
<1> QED
  BY <1>1, <1>2, <1>3 DEF WorkerStep

LEMMA InitType == Init => TypeInv
<1> SUFFICES ASSUME Init PROVE TypeInv
  OBVIOUS
<1>1. CancellerOK
  BY DEF Init, CancellerOK
<1>2. TypeOK
  BY FullGateType, SizesAssumption, ThreadsAssumption
     DEF Init, TypeOK, ModelStates, Threads, CallerSteps
<1>3. GateOK /\ FreedOK
  BY FullGateType, NullAssumption DEF Init, GateOK, FreedOK
<1> QED BY <1>1, <1>2, <1>3 DEF TypeInv

LEMMA NextType == TypeInv /\ [Next]_vars => TypeInv'
<1> SUFFICES ASSUME TypeInv, [Next]_vars PROVE TypeInv'
  OBVIOUS
<1>1. CASE SchedulerDeinit
  <2>1. /\ restarts' \in 0..MaxRestarts
        /\ restarts' # 0
    BY <1>1, SizesAssumption DEF SchedulerDeinit, TypeInv, TypeOK
  <2>2. /\ pc' \in [Threads -> WorkerSteps \cup CallerSteps \cup {"unused", "ended"}]
        /\ \A t \in Threads : pc'[t] = pc[t] \/ (pc[t] = "wait" /\ pc'[t] = "freed")
    <3>1. pc' = [t \in Threads |-> IF pc[t] = "wait" THEN "freed" ELSE pc[t]]
      BY <1>1 DEF SchedulerDeinit
    <3>2. "freed" \in CallerSteps
      BY DEF CallerSteps
    <3>3. \A t \in Threads : pc[t] \in WorkerSteps \cup CallerSteps \cup {"unused", "ended"}
      BY DEF TypeInv, TypeOK
    <3>4. \A t \in Threads : pc'[t] = IF pc[t] = "wait" THEN "freed" ELSE pc[t]
      BY <3>1
    <3>5. \A t \in Threads : pc'[t] = pc[t] \/ (pc[t] = "wait" /\ pc'[t] = "freed")
      BY <3>4
    <3>6. \A t \in Threads : (IF pc[t] = "wait" THEN "freed" ELSE pc[t])
                               \in WorkerSteps \cup CallerSteps \cup {"unused", "ended"}
      BY <3>2, <3>3
    <3> QED BY <3>1, <3>5, <3>6
  <2>3. \A t \in Callers : pc'[t] \in CallerSteps
    BY <2>2 DEF TypeInv, TypeOK, CallerSteps, Threads
  <2>4. \A w \in Workers : pc'[w] \in WorkerSteps \cup {"unused", "ended"}
    <3>1. "wait" \notin WorkerSteps
      BY DEF WorkerSteps, RunSteps
    <3> QED BY <2>2, <3>1 DEF TypeInv, TypeOK, Threads
  <2>5. TypeOK'
    BY <1>1, <2>1, <2>2, <2>3, <2>4 DEF SchedulerDeinit, TypeInv, TypeOK
  <2> QED
    BY <1>1, <2>1, <2>2, <2>5
       DEF SchedulerDeinit, TypeInv, CancellerOK, GateOK, FreedOK
<1>2. CASE SchedulerInit
  BY <1>2, SizesAssumption, NullAssumption
     DEF SchedulerInit, TypeInv, TypeOK, CancellerOK, GateOK, FreedOK
<1>7. CASE SchedulerGive
  <2>1. gate' \in Nat \cup {NoGate} /\ restarts # 0
    BY <1>7, GivePermitType DEF SchedulerGive, TypeInv, TypeOK, GateOK
  <2>2. giving' \in 0..MaxAsync
    BY <1>7, SizesAssumption DEF SchedulerGive, TypeInv, TypeOK
  <2> QED
    BY <1>7, <2>1, <2>2
       DEF SchedulerGive, TypeInv, TypeOK, CancellerOK, GateOK, FreedOK
<1>3. CASE \E t \in Callers, m \in Models : Call(t, m)
  BY <1>3, CallType
<1>4. CASE \E t \in Callers : CallerStep(t)
  BY <1>4, CallerStepType
<1>5. CASE \E w \in Workers : WorkerStep(w)
  BY <1>5, WorkerStepType
<1>6. CASE UNCHANGED vars
  BY <1>6 DEF vars, TypeInv, TypeOK, CancellerOK, GateOK, FreedOK
<1> QED
  BY <1>1, <1>2, <1>3, <1>4, <1>5, <1>6, <1>7 DEF Next

LEMMA AlwaysTyped == Spec => []TypeInv
BY InitType, NextType, PTL DEF Spec

(* Every variable of the execution path keeps its range (the statics       *)
(* g_async_gate and g_cancel, and ModelObj_t.state), for any number of     *)
(* threads, models, slots, permits and restarts.                           *)
THEOREM TypeCorrect == Spec => []TypeOK
<1>1. TypeInv => TypeOK
  BY DEF TypeInv
<1> QED BY <1>1, AlwaysTyped, PTL

-----------------------------------------------------------------------------
(* The permits of the gate. *)

LEMMA HoldersFinite ==
  /\ IsFiniteSet(Holders)
  /\ Cardinality(Holders) \in Nat
  /\ IsFiniteSet(InFlight)
  /\ Cardinality(InFlight) <= Cardinality(Holders)
<1>1. IsFiniteSet(Callers \cup Workers)
  BY ThreadsAssumption, FS_Union
<1>2. Holders \subseteq Callers \cup Workers /\ InFlight \subseteq Holders
  BY DEF Holders, InFlight
<1> QED
  BY <1>1, <1>2, FS_Subset, FS_CardinalityType

(* A step that moves one thread adds or removes that thread at most. *)
LEMMA HoldersMove ==
  ASSUME TypeInv, NEW t \in Threads, NEW l, Goto(t, l)
  PROVE  /\ (t \in Workers /\ l \in WorkerSteps) \/ (t \in Callers /\ l = "spawn")
              => Holders' = Holders \cup {t}
         /\ ~((t \in Workers /\ l \in WorkerSteps) \/ (t \in Callers /\ l = "spawn"))
              => Holders' = Holders \ {t}
<1>1. /\ t \in Threads => pc'[t] = l
      /\ \A u \in Threads \ {t} : pc'[u] = pc[u]
  BY DEF Goto, TypeInv, TypeOK
<1> QED
  BY <1>1, ThreadsAssumption DEF Holders, InFlight, Threads

(* What a step does to the permits when it changes the holders by one. *)
LEMMA PermitTaken ==
  ASSUME PermitConservation, NEW t, t \notin Holders,
         Holders' = Holders \cup {t}, restarts' = restarts,
         restarts = 0 => gate' = gate - 1 /\ gate > 0
  PROVE  PermitConservation'
<1>1. Cardinality(Holders') = Cardinality(Holders) + 1
  BY HoldersFinite, FS_AddElement
<1>2. FullGate \in Nat
  BY FullGateType
<1> QED
  BY <1>1, <1>2, HoldersFinite DEF PermitConservation

LEMMA PermitGiven ==
  ASSUME PermitConservation, NEW t, t \in Holders,
         Holders' = Holders \ {t}, restarts' = restarts, GivePermit
  PROVE  PermitConservation'
<1> SUFFICES ASSUME restarts = 0
             PROVE  gate' \in Nat /\ gate' + Cardinality(Holders') = FullGate
  BY DEF PermitConservation
<1>1. gate \in Nat /\ gate + Cardinality(Holders) = FullGate
  BY DEF PermitConservation
<1>2. Cardinality(Holders') = Cardinality(Holders) - 1 /\ Cardinality(Holders) > 0
  BY HoldersFinite, FS_RemoveElement, FS_EmptySet
<1>3. gate # NoGate /\ gate < GateCapacity
  BY <1>1, <1>2, FullGateType, HoldersFinite, NullAssumption, SizesAssumption
<1> QED
  BY <1>1, <1>2, <1>3, HoldersFinite DEF GivePermit

LEMMA PermitKept ==
  ASSUME PermitConservation, Holders' = Holders, restarts' = restarts, gate' = gate
  PROVE  PermitConservation'
BY DEF PermitConservation

LEMMA PermitsOfRunStep ==
  ASSUME TypeInv, PermitConservation, NEW t \in Threads, RunStep(t)
  PROVE  PermitConservation'
<1>1. UNCHANGED <<gate, restarts>> /\ pc[t] \in RunSteps
  BY RunStepMoves
<1>2. PICK l \in RunSteps \cup {"callback", "idle"} :
        /\ Goto(t, l)
        /\ t \in Workers => l # "idle"
  <2>1. CASE \E l \in RunSteps : Goto(t, l)
    BY <2>1 DEF RunSteps
  <2>2. CASE FinishRun(t) /\ t \in Workers
    BY <2>2 DEF FinishRun
  <2>3. CASE FinishRun(t) /\ t \notin Workers
    BY <2>3 DEF FinishRun, Return
  <2> QED BY <2>1, <2>2, <2>3, RunStepMoves
<1>3. CASE t \in Workers
  <2>1. t \in Holders
    BY <1>1, <1>3 DEF Holders, InFlight, WorkerSteps
  <2>2. l \in WorkerSteps
    BY <1>2, <1>3 DEF WorkerSteps
  <2> QED
    BY <1>1, <1>2, <1>3, <2>1, <2>2, HoldersMove, PermitKept
<1>4. CASE t \notin Workers
  <2>1. t \notin Holders
    BY <1>1, <1>4 DEF Holders, InFlight, RunSteps
  <2>2. l # "spawn"
    BY DEF RunSteps
  <2> QED
    BY <1>1, <1>2, <1>4, <2>1, <2>2, HoldersMove, PermitKept
<1> QED BY <1>3, <1>4

LEMMA PermitsOfCall ==
  ASSUME TypeInv, PermitConservation, NEW t \in Callers, NEW m \in Models,
         Call(t, m)
  PROVE  PermitConservation'
<1>0. t \in Threads /\ t \notin Workers
  BY ThreadsAssumption DEF Threads
<1>1. CASE AsyncTake(t, m)
  <2>1. pc[t] = "idle" /\ Goto(t, "spawn") /\ UNCHANGED restarts
    BY <1>1 DEF AsyncTake, Start
  <2>2. t \notin Holders /\ Holders' = Holders \cup {t}
    BY <1>0, <2>1, HoldersMove DEF Holders, InFlight
  <2>3. restarts = 0 => gate' = gate - 1 /\ gate > 0
    BY <1>1, NullAssumption DEF AsyncTake, PermitConservation
  <2> QED BY <2>1, <2>2, <2>3, PermitTaken
<1>2. CASE ~AsyncTake(t, m)
  <2>1. UNCHANGED <<gate, restarts>>
    BY <1>2 DEF Call, AsyncWait, SyncCall, CancelScan, CancelDropped, LoadVerify,
                UnloadCheck, SwapCheck
  <2>2. \/ UNCHANGED pc
        \/ pc[t] = "idle" /\ \E l \in {"wait", "check", "valid", "device", "unload", "swap"} : Goto(t, l)
    BY <1>2 DEF Call, AsyncWait, SyncCall, CancelScan, CancelDropped, LoadVerify,
                UnloadCheck, SwapCheck, Start
  <2>3. CASE UNCHANGED pc
    BY <2>1, <2>3, PermitKept DEF Holders, InFlight
  <2>4. CASE pc[t] = "idle" /\ \E l \in {"wait", "check", "valid", "device", "unload", "swap"} : Goto(t, l)
    <3>1. t \notin Holders
      BY <1>0, <2>4 DEF Holders, InFlight
    <3>2. Holders' = Holders \ {t}
      BY <1>0, <2>4, HoldersMove
    <3> QED BY <2>1, <3>1, <3>2, PermitKept
  <2> QED BY <2>2, <2>3, <2>4
<1> QED BY <1>1, <1>2

LEMMA PermitsOfCallerStep ==
  ASSUME TypeInv, PermitConservation, NEW t \in Callers, CallerStep(t)
  PROVE  PermitConservation'
<1>0. t \in Threads /\ t \notin Workers
  BY ThreadsAssumption DEF Threads
<1>1. CASE RunStep(t)
  BY <1>0, <1>1, PermitsOfRunStep
<1>2. ASSUME NEW w \in Workers, AsyncSpawn(t, w)
      PROVE  PermitConservation'
  <2>1. w \notin Holders /\ t \in Holders
    BY <1>2, ThreadsAssumption DEF AsyncSpawn, Holders, InFlight, WorkerSteps, RunSteps
  <2>2. /\ pc'[t] = "idle"
        /\ pc'[w] = "check"
        /\ \A u \in Threads \ {t, w} : pc'[u] = pc[u]
    BY <1>0, <1>2 DEF AsyncSpawn, TypeInv, TypeOK, Threads
  <2>3. Holders' = (Holders \ {t}) \cup {w}
    BY <1>0, <2>2, ThreadsAssumption
       DEF Holders, InFlight, Threads, WorkerSteps, RunSteps
  <2>4. Cardinality(Holders') = Cardinality(Holders)
    <3>1. /\ IsFiniteSet(Holders \ {t})
          /\ Cardinality(Holders \ {t}) = Cardinality(Holders) - 1
      BY <2>1, HoldersFinite, FS_RemoveElement
    <3>2. w \notin Holders \ {t}
      BY <2>1
    <3>3. Cardinality((Holders \ {t}) \cup {w}) = Cardinality(Holders) - 1 + 1
      BY <3>1, <3>2, FS_AddElement
    <3> QED BY <2>3, <3>3, HoldersFinite
  <2>5. UNCHANGED <<gate, restarts>>
    BY <1>2 DEF AsyncSpawn
  <2> QED BY <2>4, <2>5 DEF PermitConservation
<1>3. CASE AsyncSpawnFails(t)
  <2>1. pc[t] = "spawn" /\ Goto(t, "idle") /\ GivePermit /\ UNCHANGED restarts
    BY <1>3 DEF AsyncSpawnFails, Return
  <2>2. t \in Holders /\ Holders' = Holders \ {t}
    BY <1>0, <2>1, HoldersMove DEF Holders
  <2> QED BY <2>1, <2>2, PermitGiven
<1>4. CASE CancelValid(t) \/ CancelName(t) \/ LoadDevice(t) \/ UnloadWrite(t) \/ SwapCommit(t)
  <2>1. UNCHANGED <<gate, restarts>> /\ pc[t] # "spawn"
    BY <1>4 DEF CancelValid, CancelName, LoadDevice, UnloadWrite, SwapCommit
  <2>2. \E l \in {"name", "idle"} : Goto(t, l)
    BY <1>4 DEF CancelValid, CancelName, LoadDevice, UnloadWrite, SwapCommit, Return
  <2>3. t \notin Holders
    BY <1>0, <2>1 DEF Holders, InFlight
  <2>4. Holders' = Holders \ {t}
    BY <1>0, <2>2, HoldersMove
  <2> QED BY <2>1, <2>3, <2>4, PermitKept
<1>5. CASE AsyncWaitTakes(t)
  <2>1. /\ pc[t] = "wait" /\ Goto(t, "spawn") /\ UNCHANGED restarts
        /\ gate' = gate - 1 /\ gate # NoGate /\ gate > 0
    BY <1>5 DEF AsyncWaitTakes
  <2>2. t \notin Holders /\ Holders' = Holders \cup {t}
    BY <1>0, <2>1, HoldersMove DEF Holders, InFlight
  <2> QED BY <2>1, <2>2, PermitTaken
<1>6. CASE AsyncRefused(t)
  <2>1. pc[t] = "wait" /\ Goto(t, "idle") /\ UNCHANGED <<gate, restarts>>
    BY <1>6 DEF AsyncRefused, Return
  <2>2. t \notin Holders /\ Holders' = Holders \ {t}
    BY <1>0, <2>1, HoldersMove DEF Holders, InFlight
  <2> QED BY <2>1, <2>2, PermitKept
<1>7. CASE AsyncWaitFreed(t)
  <2>1. restarts # 0 /\ UNCHANGED restarts
    BY <1>0, <1>7 DEF AsyncWaitFreed, TypeInv, FreedOK
  <2> QED BY <2>1 DEF PermitConservation
<1> QED
  BY <1>1, <1>2, <1>3, <1>4, <1>5, <1>6, <1>7 DEF CallerStep

LEMMA PermitsOfWorkerStep ==
  ASSUME TypeInv, PermitConservation, NEW w \in Workers, WorkerStep(w)
  PROVE  PermitConservation'
<1>0. w \in Threads /\ w \notin Callers
  BY ThreadsAssumption DEF Threads
<1>1. CASE RunStep(w)
  BY <1>0, <1>1, PermitsOfRunStep
<1>2. CASE AsyncCallback(w)
  <2>1. w \in Holders /\ "release" \in WorkerSteps
    BY <1>2 DEF AsyncCallback, Holders, InFlight, WorkerSteps
  <2>2. Holders' = Holders
    BY <1>0, <1>2, <2>1, HoldersMove DEF AsyncCallback
  <2> QED BY <1>2, <2>2, PermitKept DEF AsyncCallback
<1>3. CASE AsyncRelease(w)
  <2>1. w \in Holders /\ "ended" \notin WorkerSteps
    BY <1>3 DEF AsyncRelease, Holders, InFlight, WorkerSteps, RunSteps
  <2>2. Holders' = Holders \ {w}
    BY <1>0, <1>3, <2>1, HoldersMove DEF AsyncRelease
  <2> QED BY <1>3, <2>1, <2>2, PermitGiven DEF AsyncRelease
<1> QED
  BY <1>1, <1>2, <1>3 DEF WorkerStep

(* No path through a request loses a permit of the gate or gives one       *)
(* twice: xRunInferenceAsync's two failure exits and async_infer_task.     *)
THEOREM PermitsConserved == Spec => []PermitConservation
<1>1. Init => PermitConservation
  <2> SUFFICES ASSUME Init PROVE PermitConservation
    OBVIOUS
  <2>1. Holders = {}
    BY ThreadsAssumption DEF Init, Holders, InFlight, WorkerSteps, RunSteps, Threads
  <2> QED BY <2>1, FullGateType, FS_EmptySet DEF Init, PermitConservation
<1>2. TypeInv /\ PermitConservation /\ [Next]_vars => PermitConservation'
  <2> SUFFICES ASSUME TypeInv, PermitConservation, [Next]_vars
               PROVE  PermitConservation'
    OBVIOUS
  <2>1. CASE SchedulerDeinit
    BY <2>1 DEF SchedulerDeinit, PermitConservation, TypeInv, TypeOK
  <2>2. CASE SchedulerInit \/ SchedulerGive
    <3>1. restarts # 0 /\ UNCHANGED restarts
      BY <2>2 DEF SchedulerInit, SchedulerGive, TypeInv, TypeOK, GateOK
    <3> QED BY <3>1 DEF PermitConservation
  <2>3. CASE \E t \in Callers, m \in Models : Call(t, m)
    BY <2>3, PermitsOfCall
  <2>4. CASE \E t \in Callers : CallerStep(t)
    BY <2>4, PermitsOfCallerStep
  <2>5. CASE \E w \in Workers : WorkerStep(w)
    BY <2>5, PermitsOfWorkerStep
  <2>6. CASE UNCHANGED vars
    BY <2>6, PermitKept DEF vars, Holders, InFlight
  <2> QED BY <2>1, <2>2, <2>3, <2>4, <2>5, <2>6 DEF Next
<1> QED BY <1>1, <1>2, AlwaysTyped, PTL DEF Spec

(* ZHIO_CFG_MAX_ASYNC_INFERENCE bounds the requests in flight as long as   *)
(* the scheduler is not shut down.                                         *)
THEOREM LimitUntilShutdown == Spec => []AsyncLimit
<1>1. PermitConservation => AsyncLimit
  BY HoldersFinite, FullGateType, SizesAssumption, FS_CardinalityType
     DEF PermitConservation, AsyncLimit
<1> QED BY <1>1, PermitsConserved, PTL

-----------------------------------------------------------------------------
(* The state of a model. *)

(* A step in which no thread leaves the back end and no model becomes      *)
(* RUNNING keeps the invariant.                                            *)
LEMMA ExecutorsStay ==
  ASSUME RunningHasExecutor,
         \A u \in Threads : pc[u] = "npu" => pc'[u] = "npu" /\ on'[u] = on[u],
         \A m \in Models : mstate'[m] = "RUNNING" => mstate[m] = "RUNNING"
  PROVE  RunningHasExecutor'
BY DEF RunningHasExecutor, Executors

(* The first premise of ExecutorsStay, for a step that moves one thread.   *)
LEMMA OthersStay ==
  ASSUME TypeInv, NEW t \in Threads, NEW l, NEW m, pc[t] # "npu", Goto(t, l),
         on' = on \/ on' = [on EXCEPT ![t] = m]
  PROVE  \A u \in Threads : pc[u] = "npu" => pc'[u] = "npu" /\ on'[u] = on[u]
BY DEF TypeInv, TypeOK, Goto

LEMMA ExecutorsOfRunStep ==
  ASSUME TypeInv, RunningHasExecutor, NEW t \in Threads, RunStep(t)
  PROVE  RunningHasExecutor'
<1>1. CASE CheckCancelled(t) \/ ClearMarks(t) \/ Validate(t) \/ ExecuteCheck(t)
  <2>1. pc[t] # "npu" /\ UNCHANGED mstate
    BY <1>1 DEF CheckCancelled, ClearMarks, Validate, ExecuteCheck
  <2>2. \E l : Goto(t, l)
    BY RunStepMoves DEF FinishRun, Return
  <2>3. on' = on \/ on' = [on EXCEPT ![t] = NoModel]
    BY RunStepMoves DEF FinishRun, Return
  <2> QED BY <2>1, <2>2, <2>3, OthersStay, ExecutorsStay
<1>2. CASE ExecuteEnter(t)
  <2>1. /\ mstate' = [mstate EXCEPT ![on[t]] = "RUNNING"]
        /\ pc' = [pc EXCEPT ![t] = "npu"]
        /\ on' = on
    BY <1>2 DEF ExecuteEnter, Goto
  <2> SUFFICES ASSUME NEW m \in Models, mstate'[m] = "RUNNING"
               PROVE  Executors(m)' # {}
    BY DEF RunningHasExecutor
  <2>2. CASE m = on[t]
    BY <2>1, <2>2 DEF Executors, TypeInv, TypeOK
  <2>3. CASE m # on[t]
    <3>1. PICK u \in Threads : pc[u] = "npu" /\ on[u] = m
      BY <2>1, <2>3 DEF RunningHasExecutor, Executors, TypeInv, TypeOK
    <3> QED BY <2>1, <3>1 DEF Executors, TypeInv, TypeOK
  <2> QED BY <2>2, <2>3
<1>3. CASE ExecuteFinish(t)
  <2>1. on[t] \in Models
    BY <1>3 DEF ExecuteFinish, TypeInv, TypeOK
  <2>2. \A u \in Threads \ {t} : pc'[u] = pc[u] /\ on'[u] = on[u]
    BY <1>3 DEF ExecuteFinish, FinishRun, Return, Goto, TypeInv, TypeOK
  <2>3. /\ mstate'[on[t]] # "RUNNING"
        /\ \A m \in Models \ {on[t]} : mstate'[m] = mstate[m]
    BY <1>3, <2>1 DEF ExecuteFinish, TypeInv, TypeOK
  <2> SUFFICES ASSUME NEW m \in Models, mstate'[m] = "RUNNING"
               PROVE  Executors(m)' # {}
    BY DEF RunningHasExecutor
  <2>4. PICK u \in Threads : pc[u] = "npu" /\ on[u] = m
    BY <2>3 DEF RunningHasExecutor, Executors
  <2>5. u # t
    BY <2>3, <2>4
  <2> QED BY <2>2, <2>4, <2>5 DEF Executors
<1> QED BY <1>1, <1>2, <1>3 DEF RunStep

LEMMA ExecutorsOfCall ==
  ASSUME TypeInv, RunningHasExecutor, NEW t \in Callers, NEW m \in Models,
         Call(t, m)
  PROVE  RunningHasExecutor'
<1>1. t \in Threads
  BY DEF Threads
<1>2. \A k \in Models : mstate'[k] = "RUNNING" => mstate[k] = "RUNNING"
  BY DEF Call, AsyncTake, AsyncWait, SyncCall, CancelScan, CancelDropped, LoadVerify,
         UnloadCheck, SwapCheck, TypeInv, TypeOK
<1>3. \/ UNCHANGED <<pc, on>>
      \/ pc[t] = "idle" /\ (\E l : Goto(t, l)) /\ on' = [on EXCEPT ![t] = m]
  BY DEF Call, AsyncTake, AsyncWait, SyncCall, CancelScan, CancelDropped, LoadVerify,
         UnloadCheck, SwapCheck, Start
<1>4. CASE UNCHANGED <<pc, on>>
  BY <1>2, <1>4, ExecutorsStay
<1>5. CASE pc[t] = "idle" /\ (\E l : Goto(t, l)) /\ on' = [on EXCEPT ![t] = m]
  BY <1>1, <1>2, <1>5, OthersStay, ExecutorsStay
<1> QED BY <1>3, <1>4, <1>5

LEMMA ExecutorsOfCallerStep ==
  ASSUME TypeInv, RunningHasExecutor, NEW t \in Callers, CallerStep(t)
  PROVE  RunningHasExecutor'
<1>0. t \in Threads
  BY DEF Threads
<1>1. CASE RunStep(t)
  BY <1>0, <1>1, ExecutorsOfRunStep
<1>2. ASSUME NEW w \in Workers, AsyncSpawn(t, w)
      PROVE  RunningHasExecutor'
  <2>1. \A u \in Threads : pc[u] = "npu" => pc'[u] = "npu" /\ on'[u] = on[u]
    BY <1>0, <1>2 DEF AsyncSpawn, TypeInv, TypeOK, Threads
  <2> QED BY <1>2, <2>1, ExecutorsStay DEF AsyncSpawn
<1>3. CASE AsyncSpawnFails(t) \/ CancelValid(t) \/ CancelName(t)
  <2>1. /\ pc[t] # "npu"
        /\ \E l : Goto(t, l)
        /\ on' = on \/ on' = [on EXCEPT ![t] = NoModel]
        /\ UNCHANGED mstate
    BY <1>3 DEF AsyncSpawnFails, CancelValid, CancelName, Return
  <2> QED BY <1>0, <2>1, OthersStay, ExecutorsStay
<1>5. CASE AsyncWaitTakes(t) \/ AsyncRefused(t) \/ AsyncWaitFreed(t)
  <2>1. /\ pc[t] # "npu"
        /\ \E l : Goto(t, l)
        /\ on' = on \/ on' = [on EXCEPT ![t] = NoModel]
        /\ UNCHANGED mstate
    BY <1>5 DEF AsyncWaitTakes, AsyncRefused, AsyncWaitFreed, Return
  <2> QED BY <1>0, <2>1, OthersStay, ExecutorsStay
<1>4. CASE LoadDevice(t) \/ UnloadWrite(t) \/ SwapCommit(t)
  <2>1. /\ pc[t] # "npu"
        /\ Goto(t, "idle")
        /\ on' = [on EXCEPT ![t] = NoModel]
    BY <1>4 DEF LoadDevice, UnloadWrite, SwapCommit, Return
  <2>2. \A k \in Models : mstate'[k] = "RUNNING" => mstate[k] = "RUNNING"
    BY <1>4 DEF LoadDevice, UnloadWrite, SwapCommit, TypeInv, TypeOK
  <2> QED BY <1>0, <2>1, <2>2, OthersStay, ExecutorsStay
<1> QED
  BY <1>1, <1>2, <1>3, <1>4, <1>5 DEF CallerStep

(* A model that refuses to be unloaded or swapped is being run: no exit of *)
(* xModelExecute, and no race of loads, unloads, swaps and runs, leaves    *)
(* the state RUNNING behind.                                               *)
THEOREM BusyHasReason == Spec => []RunningHasExecutor
<1>1. Init => RunningHasExecutor
  BY DEF Init, RunningHasExecutor
<1>2. TypeInv /\ RunningHasExecutor /\ [Next]_vars => RunningHasExecutor'
  <2> SUFFICES ASSUME TypeInv, RunningHasExecutor, [Next]_vars
               PROVE  RunningHasExecutor'
    OBVIOUS
  <2>1. CASE SchedulerInit \/ SchedulerGive \/ UNCHANGED vars
    BY <2>1 DEF SchedulerInit, SchedulerGive, vars, RunningHasExecutor, Executors
  <2>5. CASE SchedulerDeinit
    <3>1. \A u \in Threads : pc[u] = "npu" => pc'[u] = "npu" /\ on'[u] = on[u]
      BY <2>5 DEF SchedulerDeinit, TypeInv, TypeOK
    <3> QED BY <2>5, <3>1, ExecutorsStay DEF SchedulerDeinit
  <2>2. CASE \E t \in Callers, m \in Models : Call(t, m)
    BY <2>2, ExecutorsOfCall
  <2>3. CASE \E t \in Callers : CallerStep(t)
    BY <2>3, ExecutorsOfCallerStep
  <2>4. ASSUME NEW w \in Workers, WorkerStep(w)
        PROVE  RunningHasExecutor'
    <3>1. w \in Threads
      BY DEF Threads
    <3>2. CASE RunStep(w)
      BY <3>1, <3>2, ExecutorsOfRunStep
    <3>3. CASE AsyncCallback(w) \/ AsyncRelease(w)
      <4>1. /\ pc[w] # "npu"
            /\ \E l : Goto(w, l)
            /\ on' = on \/ on' = [on EXCEPT ![w] = NoModel]
            /\ UNCHANGED mstate
        BY <3>3 DEF AsyncCallback, AsyncRelease
      <4> QED BY <3>1, <4>1, OthersStay, ExecutorsStay
    <3> QED BY <2>4, <3>2, <3>3 DEF WorkerStep
  <2> QED BY <2>1, <2>2, <2>3, <2>4, <2>5 DEF Next
<1> QED BY <1>1, <1>2, AlwaysTyped, PTL DEF Spec

-----------------------------------------------------------------------------
(* The marks of the cancellation table. *)

(* MarksAsked is not inductive as it stands: a canceller that starts again *)
(* must not leave a slot behind that only it was excused for.              *)
SlotOwned ==
  \A c \in Cancellers : idx[c] # 0 => pc[c] \in {"valid", "name"}

MarkInv == MarksAsked /\ SlotOwned

(* A step that sets no mark, drops no request and changes no slot, and     *)
(* whose thread is not cancelling.                                         *)
LEMMA MarksStay ==
  ASSUME TypeInv, MarkInv, NEW t \in Threads,
         UNCHANGED <<handle, idx, valid>>, asked \subseteq asked',
         \/ UNCHANGED pc
         \/ pc[t] \notin {"valid", "name"} /\ \E l : Goto(t, l)
  PROVE  MarkInv'
<1>1. MarksAsked'
  BY DEF MarkInv, MarksAsked
<1>2. CASE UNCHANGED pc
  BY <1>1, <1>2 DEF MarkInv, SlotOwned
<1>3. CASE pc[t] \notin {"valid", "name"} /\ \E l : Goto(t, l)
  <2>1. \A u \in Threads \ {t} : pc'[u] = pc[u]
    BY <1>3 DEF Goto, TypeInv, TypeOK
  <2>2. ASSUME NEW c \in Cancellers, idx'[c] # 0
        PROVE  pc'[c] \in {"valid", "name"}
    <3>1. pc[c] \in {"valid", "name"}
      BY <2>2 DEF MarkInv, SlotOwned
    <3>2. c \in Threads \ {t}
      BY <1>3, <3>1 DEF Threads, Callers
    <3> QED BY <2>1, <3>1, <3>2
  <2>3. SlotOwned'
    BY <2>2 DEF SlotOwned
  <2> QED BY <1>1, <2>3 DEF MarkInv
<1> QED BY <1>2, <1>3

LEMMA MarksOfRunStep ==
  ASSUME TypeInv, MarkInv, NEW t \in Threads, RunStep(t)
  PROVE  MarkInv'
<1>0. pc[t] \notin {"valid", "name"} /\ \E l : Goto(t, l)
  BY RunStepMoves DEF FinishRun, Return, RunSteps
<1>1. CASE ClearMarks(t)
  <2>1. UNCHANGED <<handle, idx>>
    BY <1>1 DEF ClearMarks
  <2>2. valid' = {s \in valid : handle[s] # on[t]} /\ asked' = asked \ {on[t]}
    BY <1>1 DEF ClearMarks, Marked
  <2>3. MarksAsked'
    BY <2>1, <2>2 DEF MarkInv, MarksAsked
  <2>4. SlotOwned'
    BY <1>0, <2>1 DEF MarkInv, SlotOwned, Goto, TypeInv, TypeOK
  <2> QED BY <2>3, <2>4 DEF MarkInv
<1>2. CASE ~ClearMarks(t)
  <2>1. UNCHANGED <<valid, asked>>
    BY <1>2 DEF RunStep, CheckCancelled, Validate, ExecuteCheck,
                ExecuteEnter, ExecuteFinish
  <2> QED BY <1>0, <2>1, RunStepMoves, MarksStay
<1> QED BY <1>1, <1>2

LEMMA MarksOfCall ==
  ASSUME TypeInv, MarkInv, NEW t \in Callers, NEW m \in Models, Call(t, m)
  PROVE  MarkInv'
<1>0. t \in Threads
  BY DEF Threads
<1>1. CASE CancelScan(t, m)
  <2>1. PICK r \in Slots : r \notin valid /\ idx' = [idx EXCEPT ![t] = r]
    BY <1>1 DEF CancelScan
  <2>2. /\ t \in Cancellers
        /\ pc[t] = "idle"
        /\ pc' = [pc EXCEPT ![t] = "valid"]
        /\ UNCHANGED <<valid, handle, asked>>
    BY <1>1 DEF CancelScan, Start, Goto
  <2>3. /\ idx \in [Cancellers -> Slots \cup {0}]
        /\ idx[t] = 0
    BY <2>2 DEF MarkInv, SlotOwned, TypeInv, TypeOK
  <2>4. ASSUME NEW s \in valid, \A u \in Cancellers : idx'[u] # s
        PROVE  handle[s] \in asked
    <3>1. s # 0
      BY SizesAssumption DEF TypeInv, TypeOK, Slots
    <3>2. \A u \in Cancellers : idx[u] # s
      BY <2>1, <2>2, <2>3, <2>4, <3>1
    <3> QED BY <3>2 DEF MarkInv, MarksAsked
  <2>5. MarksAsked'
    BY <2>2, <2>4 DEF MarksAsked
  <2>6. SlotOwned'
    BY <1>0, <2>1, <2>2, <2>3 DEF MarkInv, SlotOwned, TypeInv, TypeOK
  <2> QED BY <2>5, <2>6 DEF MarkInv
<1>2. CASE ~CancelScan(t, m)
  <2>1. /\ UNCHANGED <<handle, idx, valid>>
        /\ asked \subseteq asked'
        /\ UNCHANGED pc \/ (pc[t] = "idle" /\ \E l : Goto(t, l))
    BY <1>2 DEF Call, AsyncTake, AsyncWait, SyncCall, CancelDropped, LoadVerify,
                UnloadCheck, SwapCheck, Start
  <2> QED BY <1>0, <2>1, MarksStay
<1> QED BY <1>1, <1>2

LEMMA MarksOfCallerStep ==
  ASSUME TypeInv, MarkInv, NEW t \in Callers, CallerStep(t)
  PROVE  MarkInv'
<1>0. t \in Threads
  BY DEF Threads
<1>1. CASE RunStep(t)
  BY <1>0, <1>1, MarksOfRunStep
<1>2. ASSUME NEW w \in Workers, AsyncSpawn(t, w)
      PROVE  MarkInv'
  <2>1. /\ pc[t] = "spawn"
        /\ \A u \in Threads \ {t, w} : pc'[u] = pc[u]
        /\ UNCHANGED <<valid, handle, asked, idx>>
    BY <1>2 DEF AsyncSpawn, TypeInv, TypeOK, Threads
  <2>2. Cancellers \subseteq Threads /\ w \notin Cancellers
    BY ThreadsAssumption DEF Threads, Callers
  <2>3. ASSUME NEW c \in Cancellers, idx'[c] # 0
        PROVE  pc'[c] \in {"valid", "name"}
    <3>1. pc[c] \in {"valid", "name"}
      BY <2>1, <2>3 DEF MarkInv, SlotOwned
    <3>2. c \in Threads \ {t, w}
      BY <2>1, <2>2, <3>1
    <3> QED BY <2>1, <3>1, <3>2
  <2>4. MarksAsked'
    BY <2>1 DEF MarkInv, MarksAsked
  <2>5. SlotOwned'
    BY <2>3 DEF SlotOwned
  <2> QED BY <2>5, <2>4 DEF MarkInv
<1>3. CASE \/ AsyncSpawnFails(t) \/ LoadDevice(t) \/ UnloadWrite(t) \/ SwapCommit(t)
           \/ AsyncWaitTakes(t) \/ AsyncRefused(t) \/ AsyncWaitFreed(t)
  <2>1. /\ UNCHANGED <<handle, idx, valid, asked>>
        /\ pc[t] \notin {"valid", "name"}
        /\ \E l : Goto(t, l)
    BY <1>3 DEF AsyncSpawnFails, LoadDevice, UnloadWrite, SwapCommit, Return,
                AsyncWaitTakes, AsyncRefused, AsyncWaitFreed
  <2> QED BY <1>0, <2>1, MarksStay
<1>4. CASE CancelValid(t)
  <2>1. t \in Cancellers
    BY <1>0, <1>4 DEF CancelValid, TypeInv, CancellerOK
  <2>2. /\ valid' = valid \cup {idx[t]}
        /\ pc' = [pc EXCEPT ![t] = "name"]
        /\ UNCHANGED <<handle, asked, idx>>
    BY <1>4 DEF CancelValid, Goto
  <2>3. MarksAsked'
    BY <2>1, <2>2 DEF MarkInv, MarksAsked
  <2>4. SlotOwned'
    BY <1>0, <2>2 DEF MarkInv, SlotOwned, TypeInv, TypeOK
  <2> QED BY <2>3, <2>4 DEF MarkInv
<1>5. CASE CancelName(t)
  <2>1. t \in Cancellers /\ idx[t] \in Slots
    BY <1>0, <1>5 DEF CancelName, TypeInv, CancellerOK
  <2>2. /\ handle' = [handle EXCEPT ![idx[t]] = on[t]]
        /\ idx' = [idx EXCEPT ![t] = 0]
        /\ asked' = asked \cup {on[t]}
        /\ pc' = [pc EXCEPT ![t] = "idle"]
        /\ UNCHANGED valid
    BY <1>5 DEF CancelName, Return, Goto
  <2>3. ASSUME NEW s \in valid, \A u \in Cancellers : idx'[u] # s
        PROVE  handle'[s] \in asked'
    <3>1. s \in Slots
      BY DEF TypeInv, TypeOK
    <3>2. CASE s = idx[t]
      BY <2>1, <2>2, <3>2 DEF TypeInv, TypeOK
    <3>3. CASE s # idx[t]
      <4>1. \A u \in Cancellers : idx[u] # s
        BY <2>1, <2>2, <2>3, <3>3 DEF TypeInv, TypeOK
      <4> QED BY <2>1, <2>2, <3>1, <3>3, <4>1 DEF MarkInv, MarksAsked, TypeInv, TypeOK
    <3> QED BY <3>2, <3>3
  <2>4. MarksAsked'
    BY <2>2, <2>3 DEF MarksAsked
  <2>5. SlotOwned'
    BY <1>0, <2>1, <2>2 DEF MarkInv, SlotOwned, TypeInv, TypeOK
  <2> QED BY <2>4, <2>5 DEF MarkInv
<1> QED
  BY <1>1, <1>2, <1>3, <1>4, <1>5 DEF CallerStep

(* Whatever cancellers and runs do to g_cancel at the same time, a mark    *)
(* that is complete belongs to a cancellation no run has answered: is_cancelled *)
(* never sees what is left of one that was answered.                       *)
THEOREM MarksAreAsked == Spec => []MarksAsked
<1>1. Init => MarkInv
  BY DEF Init, MarkInv, MarksAsked, SlotOwned
<1>2. TypeInv /\ MarkInv /\ [Next]_vars => MarkInv'
  <2> SUFFICES ASSUME TypeInv, MarkInv, [Next]_vars PROVE MarkInv'
    OBVIOUS
  <2>1. CASE SchedulerInit \/ SchedulerGive \/ UNCHANGED vars
    BY <2>1 DEF SchedulerInit, SchedulerGive, vars, MarkInv, MarksAsked, SlotOwned
  <2>5. CASE SchedulerDeinit
    <3>1. \A c \in Cancellers : pc[c] \in {"valid", "name"} => pc'[c] = pc[c]
      BY <2>5 DEF SchedulerDeinit, TypeInv, TypeOK, Threads, Callers
    <3> QED
      BY <2>5, <3>1 DEF SchedulerDeinit, MarkInv, MarksAsked, SlotOwned
  <2>2. CASE \E t \in Callers, m \in Models : Call(t, m)
    BY <2>2, MarksOfCall
  <2>3. CASE \E t \in Callers : CallerStep(t)
    BY <2>3, MarksOfCallerStep
  <2>4. ASSUME NEW w \in Workers, WorkerStep(w)
        PROVE  MarkInv'
    <3>1. w \in Threads
      BY DEF Threads
    <3>2. CASE RunStep(w)
      BY <3>1, <3>2, MarksOfRunStep
    <3>3. CASE AsyncCallback(w) \/ AsyncRelease(w)
      <4>1. /\ UNCHANGED <<handle, idx, valid, asked>>
            /\ pc[w] \notin {"valid", "name"}
            /\ \E l : Goto(w, l)
        BY <3>3 DEF AsyncCallback, AsyncRelease
      <4> QED BY <3>1, <4>1, MarksStay
    <3> QED BY <2>4, <3>2, <3>3 DEF WorkerStep
  <2> QED BY <2>1, <2>2, <2>3, <2>4, <2>5 DEF Next
<1>3. MarkInv => MarksAsked
  BY DEF MarkInv
<1> QED BY <1>1, <1>2, <1>3, AlwaysTyped, PTL DEF Spec

-----------------------------------------------------------------------------
(* The path implements the service. *)

Ended == {w \in Workers : pc[w] = "ended"}

LEMMA ServiceStutters ==
  ASSUME InFlight' = InFlight, Ended' = Ended, UNCHANGED restarts
  PROVE  [Service!Next]_(Service!vars)
BY DEF Service!Next, Service!vars, Ended

(* A step of one thread that neither starts nor ends a request. *)
LEMMA ThreadStutters ==
  ASSUME TypeInv, NEW t \in Threads, NEW l, Goto(t, l),
         t \in Workers => pc[t] \in WorkerSteps /\ l \in WorkerSteps
  PROVE  InFlight' = InFlight /\ Ended' = Ended
<1>1. \A u \in Threads \ {t} : pc'[u] = pc[u]
  BY DEF Goto, TypeInv, TypeOK
<1>2. pc'[t] = l
  BY DEF Goto, TypeInv, TypeOK
<1>3. "ended" \notin WorkerSteps
  BY DEF WorkerSteps, RunSteps
<1> QED BY <1>1, <1>2, <1>3 DEF InFlight, Ended, Threads

LEMMA RunStutters ==
  ASSUME TypeInv, NEW t \in Threads, RunStep(t)
  PROVE  InFlight' = InFlight /\ Ended' = Ended
<1>1. CASE t \in Workers
  <2>1. pc[t] \in WorkerSteps
    BY RunStepMoves DEF WorkerSteps
  <2>2. PICK l \in WorkerSteps : Goto(t, l)
    <3>1. CASE \E l \in RunSteps : Goto(t, l)
      BY <3>1 DEF WorkerSteps
    <3>2. CASE FinishRun(t)
      BY <1>1, <3>2 DEF FinishRun, WorkerSteps
    <3> QED BY <3>1, <3>2, RunStepMoves
  <2> QED BY <2>1, <2>2, ThreadStutters
<1>2. CASE t \notin Workers
  <2>1. \E l : Goto(t, l)
    BY RunStepMoves DEF FinishRun, Return
  <2> QED BY <1>2, <2>1, ThreadStutters
<1> QED BY <1>1, <1>2

LEMMA RunKeepsRestarts ==
  ASSUME NEW t \in Threads, RunStep(t)
  PROVE  UNCHANGED restarts
BY DEF RunStep, CheckCancelled, ClearMarks, Validate, ExecuteCheck, ExecuteEnter, ExecuteFinish

(* A worker that starts is a request accepted, within the limit while it   *)
(* holds.                                                                  *)
LEMMA SpawnAccepts ==
  ASSUME TypeInv, PermitConservation,
         NEW t \in Callers, NEW w \in Workers, AsyncSpawn(t, w)
  PROVE  Service!Accept(w)
<1>0. t \in Threads /\ w \in Threads /\ t # w /\ t \notin Workers
  BY ThreadsAssumption DEF Threads
<1>1. /\ pc[w] = "unused"
      /\ pc'[w] = "check"
      /\ \A u \in Workers \ {w} : pc'[u] = pc[u]
  BY <1>0 DEF AsyncSpawn, TypeInv, TypeOK, Threads
<1>2. w \notin InFlight \cup Ended
  BY <1>1 DEF InFlight, Ended, WorkerSteps, RunSteps
<1>3. InFlight' = InFlight \cup {w} /\ Ended' = Ended
  BY <1>1 DEF InFlight, Ended, WorkerSteps, RunSteps
<1>4. ASSUME restarts = 0
      PROVE  Cardinality(InFlight) < MaxAsync
  <2>1. t \in Holders /\ InFlight \subseteq Holders \ {t}
    BY <1>0 DEF AsyncSpawn, Holders, InFlight
  <2>2. /\ IsFiniteSet(Holders \ {t})
        /\ Cardinality(Holders \ {t}) = Cardinality(Holders) - 1
    BY <2>1, HoldersFinite, FS_RemoveElement
  <2>3. Cardinality(InFlight) <= Cardinality(Holders) - 1
    BY <2>1, <2>2, FS_Subset
  <2>4. Cardinality(Holders) <= MaxAsync /\ Cardinality(InFlight) \in Nat
    BY <1>4, HoldersFinite, FullGateType, SizesAssumption, FS_CardinalityType
       DEF PermitConservation
  <2> QED BY <2>3, <2>4, HoldersFinite, SizesAssumption
<1>5. Service!Cardinality(InFlight) = Cardinality(InFlight)
  BY DEF Service!Cardinality, Cardinality
<1>6. UNCHANGED restarts
  BY DEF AsyncSpawn
<1> QED BY <1>2, <1>3, <1>4, <1>5, <1>6 DEF Service!Accept, Ended

LEMMA ReleaseAnswers ==
  ASSUME TypeInv, NEW w \in Workers, AsyncRelease(w)
  PROVE  Service!Answer(w)
<1>1. /\ pc[w] = "release"
      /\ pc'[w] = "ended"
      /\ \A u \in Workers \ {w} : pc'[u] = pc[u]
  BY DEF AsyncRelease, Goto, TypeInv, TypeOK, Threads
<1>2. w \in InFlight
  BY <1>1 DEF InFlight, WorkerSteps
<1>3. InFlight' = InFlight \ {w} /\ Ended' = Ended \cup {w}
  BY <1>1 DEF InFlight, Ended, WorkerSteps, RunSteps
<1>4. UNCHANGED restarts
  BY DEF AsyncRelease
<1> QED BY <1>2, <1>3, <1>4 DEF Service!Answer, Ended

LEMMA DeinitShutsDown ==
  ASSUME TypeInv, SchedulerDeinit
  PROVE  Service!Shutdown
<1>1. restarts' # 0
  BY DEF SchedulerDeinit, TypeInv, TypeOK
<1>2. \A w \in Workers : pc'[w] = pc[w]
  <2>1. \A w \in Workers : pc[w] # "wait"
    BY DEF TypeInv, TypeOK, WorkerSteps, RunSteps
  <2> QED BY <2>1 DEF SchedulerDeinit, TypeInv, TypeOK, Threads
<1>3. InFlight' = InFlight /\ Ended' = Ended
  BY <1>2 DEF InFlight, Ended
<1> QED BY <1>1, <1>3 DEF Service!Shutdown, Ended

(* Every behaviour of the path is one of the service: until the scheduler  *)
(* is first shut down it accepts only within ZHIO_CFG_MAX_ASYNC_INFERENCE, *)
(* and what it accepted it answers once, across any number of shutdowns    *)
(* and starts.  (That it does answer is liveness, and is left to the model *)
(* checker.)                                                               *)
THEOREM PathImplementsService ==
  Spec => Service!Init /\ [][Service!Next]_(Service!vars)
<1>1. Init => Service!Init
  BY ThreadsAssumption
     DEF Init, Service!Init, InFlight, WorkerSteps, RunSteps, Threads
<1>2. TypeInv /\ PermitConservation /\ [Next]_vars
        => [Service!Next]_(Service!vars)
  <2> SUFFICES ASSUME TypeInv, PermitConservation, [Next]_vars
               PROVE  [Service!Next]_(Service!vars)
    OBVIOUS
  <2>0. Callers \subseteq Threads /\ Workers \subseteq Threads
    BY DEF Threads
  <2>1. CASE SchedulerInit \/ SchedulerGive \/ UNCHANGED vars
    BY <2>1, ServiceStutters DEF SchedulerInit, SchedulerGive, vars, InFlight, Ended
  <2>5. CASE SchedulerDeinit
    BY <2>5, DeinitShutsDown DEF Service!Next
  <2>2. ASSUME NEW t \in Callers, NEW m \in Models, Call(t, m)
        PROVE  [Service!Next]_(Service!vars)
    <3>1. UNCHANGED pc \/ \E l : Goto(t, l)
      BY <2>2 DEF Call, AsyncTake, AsyncWait, SyncCall, CancelScan, CancelDropped,
                  LoadVerify, UnloadCheck, SwapCheck, Start
    <3>2. t \notin Workers
      BY ThreadsAssumption
    <3>4. UNCHANGED restarts
      BY <2>2 DEF Call, AsyncTake, AsyncWait, SyncCall, CancelScan, CancelDropped,
                  LoadVerify, UnloadCheck, SwapCheck
    <3>3. InFlight' = InFlight /\ Ended' = Ended
      <4>1. CASE UNCHANGED pc
        BY <4>1 DEF InFlight, Ended
      <4>2. CASE \E l : Goto(t, l)
        BY <2>0, <3>2, <4>2, ThreadStutters
      <4> QED BY <3>1, <4>1, <4>2
    <3> QED BY <3>3, <3>4, ServiceStutters
  <2>3. ASSUME NEW t \in Callers, CallerStep(t)
        PROVE  [Service!Next]_(Service!vars)
    <3>1. CASE RunStep(t)
      BY <2>0, <3>1, RunStutters, RunKeepsRestarts, ServiceStutters
    <3>2. ASSUME NEW w \in Workers, AsyncSpawn(t, w)
          PROVE  Service!Next
      BY <2>0, <3>2, SpawnAccepts DEF Service!Next
    <3>3. CASE \/ AsyncSpawnFails(t) \/ CancelValid(t) \/ CancelName(t)
               \/ LoadDevice(t) \/ UnloadWrite(t) \/ SwapCommit(t)
               \/ AsyncWaitTakes(t) \/ AsyncRefused(t) \/ AsyncWaitFreed(t)
      <4>1. \E l : Goto(t, l)
        BY <3>3 DEF AsyncSpawnFails, CancelValid, CancelName, LoadDevice,
                    UnloadWrite, SwapCommit, Return,
                    AsyncWaitTakes, AsyncRefused, AsyncWaitFreed
      <4>2. t \notin Workers
        BY ThreadsAssumption
      <4>3. UNCHANGED restarts
        BY <3>3 DEF AsyncSpawnFails, CancelValid, CancelName, LoadDevice,
                    UnloadWrite, SwapCommit,
                    AsyncWaitTakes, AsyncRefused, AsyncWaitFreed
      <4> QED BY <2>0, <4>1, <4>2, <4>3, ThreadStutters, ServiceStutters
    <3> QED BY <2>3, <3>1, <3>2, <3>3 DEF CallerStep
  <2>4. ASSUME NEW w \in Workers, WorkerStep(w)
        PROVE  [Service!Next]_(Service!vars)
    <3>1. CASE RunStep(w)
      BY <2>0, <3>1, RunStutters, RunKeepsRestarts, ServiceStutters
    <3>2. CASE AsyncCallback(w)
      <4>1. Goto(w, "release") /\ pc[w] \in WorkerSteps /\ "release" \in WorkerSteps
        BY <3>2 DEF AsyncCallback, WorkerSteps
      <4> QED BY <2>0, <3>2, <4>1, ThreadStutters, ServiceStutters DEF AsyncCallback
    <3>3. CASE AsyncRelease(w)
      BY <3>3, ReleaseAnswers DEF Service!Next
    <3> QED BY <2>4, <3>1, <3>2, <3>3 DEF WorkerStep
  <2> QED BY <2>1, <2>2, <2>3, <2>4, <2>5 DEF Next
<1> QED
  BY <1>1, <1>2, AlwaysTyped, PermitsConserved, PTL DEF Spec
=============================================================================
