----------------------------- MODULE Inference -----------------------------
(***************************************************************************)
(* The execution path of an inference request: the asynchronous entry of   *)
(* the scheduler (a counting gate and one thread per request), the table   *)
(* of cancellation marks, the safety check, and the life cycle of the      *)
(* model the request runs on.                                              *)
(*                                                                         *)
(* Neither g_async_gate's users, g_cancel nor ModelObj_t.state are guarded *)
(* by a lock, so every read and every write of them that another thread    *)
(* can come between is a step of its own.  Only the operations of the      *)
(* semaphore, which hold its mutex, are atomic.                            *)
(*                                                                         *)
(* A thread may play several roles: the role sets may overlap, and a       *)
(* thread starts an operation only when it has finished the previous one.  *)
(***************************************************************************)
EXTENDS Integers, FiniteSets

CONSTANTS
  Models,        \* registered models (ModelHandle_t)
  Submitters,    \* application threads that call xRunInferenceAsync
  SyncCallers,   \* application threads that call xRunInference
  Cancellers,    \* application threads that call xCancelInference
  Admins,        \* application threads that load, unload and swap models
  Workers,       \* thread records the platform can allocate for "ainf" tasks
  MaxAsync,      \* ZHIO_CFG_MAX_ASYNC_INFERENCE
  GateCapacity,  \* the largest count the port's semaphore can hold
  CancelSlots,   \* ZHIO_MAX_CANCEL
  MaxRestarts,   \* how often the scheduler is shut down and started again
  NoModel,       \* the null handle
  NoGate         \* g_async_gate == NULL

Callers == Submitters \cup SyncCallers \cup Cancellers \cup Admins
Threads == Callers \cup Workers
Slots   == 1..CancelSlots

ASSUME ThreadsAssumption ==
  /\ Callers \cap Workers = {}
  /\ IsFiniteSet(Callers)
  /\ IsFiniteSet(Workers)

ASSUME SizesAssumption ==
  /\ MaxAsync \in Nat \ {0}
  /\ GateCapacity \in Nat \ {0}
  /\ CancelSlots \in Nat
  /\ MaxRestarts \in Nat

ASSUME NullAssumption == NoModel \notin Models /\ NoGate \notin Int

ModelStates == {"UNLOADED", "LOADING", "READY", "RUNNING",
                "ERROR_RECOVERABLE", "ERROR_FATAL"}

VARIABLES
  gate,      \* permits left in g_async_gate, or NoGate
  restarts,  \* completed calls of vInferenceSchedulerDeinit
  giving,    \* gives iInferenceSchedulerInit still owes the gate it made
  valid,     \* the slots of g_cancel whose flag is set
  handle,    \* the model written in every slot of g_cancel
  mstate,    \* ModelObj_t.state of every model
  pc,        \* where each thread is
  on,        \* the model each thread's current operation is about
  idx,       \* the slot a canceller has picked, 0 for none
  asked      \* history: models with a cancellation that returned ZHIO_OK and
             \* that no run has answered with ZHIO_E_CANCELED yet

vars == <<gate, restarts, giving, valid, handle, mstate, pc, on, idx, asked>>

RunSteps    == {"check", "clear", "validate", "ready", "enter", "npu"}
WorkerSteps == RunSteps \cup {"callback", "release"}
CallerSteps == RunSteps \cup {"idle", "wait", "freed", "spawn", "valid", "name",
                              "device", "unload", "swap"}

(* What the code promises of every variable: its range. *)
TypeOK ==
  /\ gate \in Nat \cup {NoGate}
  /\ restarts \in 0..MaxRestarts
  /\ giving \in 0..MaxAsync
  /\ valid \subseteq Slots
  /\ handle \in [Slots -> Models \cup {NoModel}]
  /\ mstate \in [Models -> ModelStates]
  /\ pc \in [Threads -> WorkerSteps \cup CallerSteps \cup {"unused", "ended"}]
  /\ \A t \in Callers : pc[t] \in CallerSteps
  /\ \A w \in Workers : pc[w] \in WorkerSteps \cup {"unused", "ended"}
  /\ on \in [Threads -> Models \cup {NoModel}]
  /\ \A t \in Threads : pc[t] \notin {"idle", "unused", "ended"} => on[t] \in Models
  /\ idx \in [Cancellers -> Slots \cup {0}]
  /\ asked \subseteq Models

-----------------------------------------------------------------------------

Goto(t, label) == pc' = [pc EXCEPT ![t] = label]

(* Thread t takes up an operation on model m. *)
Start(t, m, label) ==
  /\ pc[t] = "idle"
  /\ Goto(t, label)
  /\ on' = [on EXCEPT ![t] = m]

(* An operation of an application thread returns. *)
Return(t) ==
  /\ Goto(t, "idle")
  /\ on' = [on EXCEPT ![t] = NoModel]

(* xRunInference returns: a worker goes on to the callback. *)
FinishRun(t) ==
  IF t \in Workers THEN Goto(t, "callback") /\ UNCHANGED on ELSE Return(t)

(* zhio_sem_create followed by MaxAsync gives; a give beyond the capacity  *)
(* of the semaphore is lost.                                               *)
FullGate == IF MaxAsync <= GateCapacity THEN MaxAsync ELSE GateCapacity

(* if (g_async_gate) zhio_sem_give(g_async_gate): a give beyond the        *)
(* capacity fails and changes nothing.                                     *)
GivePermit ==
  gate' = IF gate # NoGate /\ gate < GateCapacity THEN gate + 1 ELSE gate

-----------------------------------------------------------------------------
(* The scheduler: start, stop, and the asynchronous entry.                 *)

Init ==
  /\ gate = FullGate
  /\ restarts = 0
  /\ giving = 0
  /\ valid = {}
  /\ handle = [s \in Slots |-> NoModel]
  /\ mstate = [m \in Models |-> "UNLOADED"]
  /\ pc = [t \in Threads |-> IF t \in Workers THEN "unused" ELSE "idle"]
  /\ on = [t \in Threads |-> NoModel]
  /\ idx = [t \in Cancellers |-> 0]
  /\ asked = {}

(* vInferenceSchedulerDeinit frees the gate under whoever waits on it;     *)
(* requests in flight go on.                                               *)
SchedulerDeinit ==
  /\ gate # NoGate /\ giving = 0
  /\ restarts < MaxRestarts
  /\ gate' = NoGate
  /\ restarts' = restarts + 1
  /\ pc' = [t \in Threads |-> IF pc[t] = "wait" THEN "freed" ELSE pc[t]]
  /\ UNCHANGED <<giving, valid, handle, mstate, on, idx, asked>>

(* iInferenceSchedulerInit makes a gate when there is none.  Others see it *)
(* from then on, and the permits come one by one.  The thread that starts  *)
(* the scheduler is the one that shuts it down.                            *)
SchedulerInit ==
  /\ gate = NoGate
  /\ gate' = 0
  /\ giving' = MaxAsync
  /\ UNCHANGED <<restarts, valid, handle, mstate, pc, on, idx, asked>>

SchedulerGive ==
  /\ giving > 0
  /\ giving' = giving - 1
  /\ GivePermit
  /\ UNCHANGED <<restarts, valid, handle, mstate, pc, on, idx, asked>>

AsyncTakeUnchecked(t, m) ==
  /\ t \in Submitters
  /\ Start(t, m, "spawn")
  /\ gate' = IF gate = NoGate THEN gate ELSE gate - 1
  /\ UNCHANGED <<restarts, giving, valid, handle, mstate, idx, asked>>

AsyncTakeOneTooMany(t, m) ==
  /\ t \in Submitters
  /\ Start(t, m, "spawn")
  /\ gate' = IF gate # NoGate /\ gate > 0 THEN gate - 1 ELSE gate
  /\ UNCHANGED <<restarts, giving, valid, handle, mstate, idx, asked>>

(* xRunInferenceAsync takes a permit; without a gate it just goes on.      *)
AsyncTake(t, m) ==
  /\ t \in Submitters
  /\ Start(t, m, "spawn")
  /\ \/ gate = NoGate /\ UNCHANGED gate
     \/ gate # NoGate /\ gate > 0 /\ gate' = gate - 1
  /\ UNCHANGED <<restarts, giving, valid, handle, mstate, idx, asked>>

(* Without a permit zhio_sem_take(g_async_gate, 1) waits for a tick.       *)
AsyncWait(t, m) ==
  /\ t \in Submitters
  /\ gate = 0
  /\ Start(t, m, "wait")
  /\ UNCHANGED <<gate, restarts, giving, valid, handle, mstate, idx, asked>>

(* A permit comes back in time, and no newcomer was faster ...             *)
AsyncWaitTakes(t) ==
  /\ pc[t] = "wait"
  /\ gate # NoGate /\ gate > 0
  /\ gate' = gate - 1
  /\ Goto(t, "spawn")
  /\ UNCHANGED <<restarts, giving, valid, handle, mstate, on, idx, asked>>

(* ... or the tick passes, and the request returns ZHIO_E_BUSY.            *)
AsyncRefused(t) ==
  /\ pc[t] = "wait"
  /\ Return(t)
  /\ UNCHANGED <<gate, restarts, giving, valid, handle, mstate, idx, asked>>

(* The semaphore was freed under the wait.  What is in its memory decides: *)
(* a timeout, a permit that is nobody's, or a permit of the gate that was  *)
(* given the same memory.                                                  *)
AsyncWaitFreed(t) ==
  /\ pc[t] = "freed"
  /\ \/ Return(t) /\ UNCHANGED gate
     \/ Goto(t, "spawn") /\ UNCHANGED <<gate, on>>
     \/ gate # NoGate /\ gate > 0 /\ gate' = gate - 1 /\ Goto(t, "spawn") /\ UNCHANGED on
  /\ UNCHANGED <<restarts, giving, valid, handle, mstate, idx, asked>>

(* The context is allocated and zhio_task_create starts the worker. *)
AsyncSpawn(t, w) ==
  /\ pc[t] = "spawn"
  /\ pc[w] = "unused"
  /\ pc' = [pc EXCEPT ![t] = "idle", ![w] = "check"]
  /\ on' = [on EXCEPT ![t] = NoModel, ![w] = on[t]]
  /\ UNCHANGED <<gate, restarts, giving, valid, handle, mstate, idx, asked>>

AsyncSpawnFailsKeepsPermit(t) ==
  /\ pc[t] = "spawn"
  /\ Return(t)
  /\ UNCHANGED <<gate, restarts, giving, valid, handle, mstate, idx, asked>>

(* No memory for the context or no thread: the permit goes back. *)
AsyncSpawnFails(t) ==
  /\ pc[t] = "spawn"
  /\ GivePermit
  /\ Return(t)
  /\ UNCHANGED <<restarts, giving, valid, handle, mstate, idx, asked>>

(* The user's callback runs before the permit is given back. *)
AsyncCallback(w) ==
  /\ pc[w] = "callback"
  /\ Goto(w, "release")
  /\ UNCHANGED <<gate, restarts, giving, valid, handle, mstate, on, idx, asked>>

AsyncReleaseKeepsPermit(w) ==
  /\ pc[w] = "release"
  /\ Goto(w, "ended")
  /\ on' = [on EXCEPT ![w] = NoModel]
  /\ UNCHANGED <<gate, restarts, giving, valid, handle, mstate, idx, asked>>

(* The worker gives its permit to the gate there is now and returns.  No   *)
(* code joins the thread or deletes its record, which stays allocated.     *)
AsyncRelease(w) ==
  /\ pc[w] = "release"
  /\ GivePermit
  /\ Goto(w, "ended")
  /\ on' = [on EXCEPT ![w] = NoModel]
  /\ UNCHANGED <<restarts, giving, valid, handle, mstate, idx, asked>>

-----------------------------------------------------------------------------
(* xRunInference and xModelExecute, run by callers and by workers.         *)

Marked(m) == {s \in valid : handle[s] = m}

(* A synchronous call, or the next element of a batch. *)
SyncCall(t, m) ==
  /\ t \in SyncCallers
  /\ Start(t, m, "check")
  /\ UNCHANGED <<gate, restarts, giving, valid, handle, mstate, idx, asked>>

(* is_cancelled *)
CheckCancelled(t) ==
  /\ pc[t] = "check"
  /\ Goto(t, IF Marked(on[t]) # {} THEN "clear" ELSE "validate")
  /\ UNCHANGED <<gate, restarts, giving, valid, handle, mstate, on, idx, asked>>

ClearFirstMark(t) ==
  /\ pc[t] = "clear"
  /\ \/ Marked(on[t]) = {} /\ UNCHANGED valid
     \/ \E s \in Marked(on[t]) :
          /\ \A r \in Marked(on[t]) : s <= r
          /\ valid' = valid \ {s}
  /\ asked' = asked \ {on[t]}
  /\ FinishRun(t)
  /\ UNCHANGED <<gate, restarts, giving, handle, mstate, idx>>

ClearMarksSkipsCallback(t) ==
  /\ pc[t] = "clear"
  /\ valid' = valid \ Marked(on[t])
  /\ asked' = asked \ {on[t]}
  /\ IF t \in Workers THEN Goto(t, "release") /\ UNCHANGED on ELSE Return(t)
  /\ UNCHANGED <<gate, restarts, giving, handle, mstate, idx>>

(* cancel_clear drops every mark of the model; the run is ZHIO_E_CANCELED. *)
ClearMarks(t) ==
  /\ pc[t] = "clear"
  /\ valid' = valid \ Marked(on[t])
  /\ asked' = asked \ {on[t]}
  /\ FinishRun(t)
  /\ UNCHANGED <<gate, restarts, giving, handle, mstate, idx>>

(* zhio_safety_check: the bound validator may reject (ZHIO_E_SAFETY). *)
Validate(t) ==
  /\ pc[t] = "validate"
  /\ \/ Goto(t, "ready") /\ UNCHANGED on
     \/ FinishRun(t)
  /\ UNCHANGED <<gate, restarts, giving, valid, handle, mstate, idx, asked>>

(* xModelExecute reads the state; any other than these is ZHIO_E_BADMODEL. *)
ExecuteCheck(t) ==
  /\ pc[t] = "ready"
  /\ IF mstate[on[t]] \in {"READY", "RUNNING"}
     THEN Goto(t, "enter") /\ UNCHANGED on
     ELSE FinishRun(t)
  /\ UNCHANGED <<gate, restarts, giving, valid, handle, mstate, idx, asked>>

(* xModelExecute marks the model RUNNING and calls the NPU back end. *)
ExecuteEnter(t) ==
  /\ pc[t] = "enter"
  /\ mstate' = [mstate EXCEPT ![on[t]] = "RUNNING"]
  /\ Goto(t, "npu")
  /\ UNCHANGED <<gate, restarts, giving, valid, handle, on, idx, asked>>

ExecuteFinishOnlyOnSuccess(t) ==
  /\ pc[t] = "npu"
  /\ \E st \in {"READY", "RUNNING"} :
       mstate' = [mstate EXCEPT ![on[t]] = st]
  /\ FinishRun(t)
  /\ UNCHANGED <<gate, restarts, giving, valid, handle, idx, asked>>

(* The back end returns; the state is overwritten whatever it is now.  The *)
(* elapsed time is compared with the timeout only after that.              *)
ExecuteFinish(t) ==
  /\ pc[t] = "npu"
  /\ \E st \in {"READY", "ERROR_RECOVERABLE"} :
       mstate' = [mstate EXCEPT ![on[t]] = st]
  /\ FinishRun(t)
  /\ UNCHANGED <<gate, restarts, giving, valid, handle, idx, asked>>

-----------------------------------------------------------------------------
(* xCancelInference: cancel_mark looks for a free slot, then makes it      *)
(* valid, then writes the handle.                                          *)

CancelScan(t, m) ==
  /\ t \in Cancellers
  /\ \E s \in Slots :
       /\ s \notin valid
       /\ 1..(s - 1) \subseteq valid
       /\ idx' = [idx EXCEPT ![t] = s]
  /\ Start(t, m, "valid")
  /\ UNCHANGED <<gate, restarts, giving, valid, handle, mstate, asked>>

CancelValid(t) ==
  /\ pc[t] = "valid"
  /\ valid' = valid \cup {idx[t]}
  /\ Goto(t, "name")
  /\ UNCHANGED <<gate, restarts, giving, handle, mstate, on, idx, asked>>

CancelName(t) ==
  /\ pc[t] = "name"
  /\ handle' = [handle EXCEPT ![idx[t]] = on[t]]
  /\ idx' = [idx EXCEPT ![t] = 0]
  /\ asked' = asked \cup {on[t]}
  /\ Return(t)
  /\ UNCHANGED <<gate, restarts, giving, valid, mstate>>

(* With every slot valid cancel_mark does nothing; the caller still gets   *)
(* ZHIO_OK.                                                                *)
CancelDropped(t, m) ==
  /\ t \in Cancellers
  /\ pc[t] = "idle"
  /\ valid = Slots
  /\ asked' = asked \cup {m}
  /\ UNCHANGED <<gate, restarts, giving, valid, handle, mstate, pc, on, idx>>

-----------------------------------------------------------------------------
(* Management of models: iLoadModel, iUnloadModel, iSwapModel.             *)

(* The checksum decides between LOADING and ERROR_FATAL, in any state. *)
LoadVerify(t, m) ==
  /\ t \in Admins
  /\ \/ /\ Start(t, m, "device")
        /\ mstate' = [mstate EXCEPT ![m] = "LOADING"]
     \/ /\ pc[t] = "idle"
        /\ mstate' = [mstate EXCEPT ![m] = "ERROR_FATAL"]
        /\ UNCHANGED <<pc, on>>
  /\ UNCHANGED <<gate, restarts, giving, valid, handle, idx, asked>>

(* The device's load_model succeeds or fails. *)
LoadDevice(t) ==
  /\ pc[t] = "device"
  /\ \E st \in {"READY", "ERROR_RECOVERABLE"} :
       mstate' = [mstate EXCEPT ![on[t]] = st]
  /\ Return(t)
  /\ UNCHANGED <<gate, restarts, giving, valid, handle, idx, asked>>

(* iUnloadModel and iSwapModel refuse (ZHIO_E_BUSY) a RUNNING model. *)
NotBusy(m) == mstate[m] # "RUNNING"

UnloadCheck(t, m) ==
  /\ t \in Admins
  /\ NotBusy(m)
  /\ Start(t, m, "unload")
  /\ UNCHANGED <<gate, restarts, giving, valid, handle, mstate, idx, asked>>

UnloadWrite(t) ==
  /\ pc[t] = "unload"
  /\ mstate' = [mstate EXCEPT ![on[t]] = "UNLOADED"]
  /\ Return(t)
  /\ UNCHANGED <<gate, restarts, giving, valid, handle, idx, asked>>

(* From here to SwapCommit the weights are being overwritten in place. *)
SwapCheck(t, m) ==
  /\ t \in Admins
  /\ NotBusy(m)
  /\ Start(t, m, "swap")
  /\ UNCHANGED <<gate, restarts, giving, valid, handle, mstate, idx, asked>>

SwapCommit(t) ==
  /\ pc[t] = "swap"
  /\ mstate' = [mstate EXCEPT ![on[t]] = "READY"]
  /\ Return(t)
  /\ UNCHANGED <<gate, restarts, giving, valid, handle, idx, asked>>

-----------------------------------------------------------------------------

(* What an application thread may start. *)
Call(t, m) ==
  \/ AsyncTake(t, m)
  \/ AsyncWait(t, m)
  \/ SyncCall(t, m)
  \/ CancelScan(t, m)
  \/ CancelDropped(t, m)
  \/ LoadVerify(t, m)
  \/ UnloadCheck(t, m)
  \/ SwapCheck(t, m)

(* The next step of the run a thread is in. *)
RunStep(t) ==
  \/ CheckCancelled(t)
  \/ ClearMarks(t)
  \/ Validate(t)
  \/ ExecuteCheck(t)
  \/ ExecuteEnter(t)
  \/ ExecuteFinish(t)

(* The next step of an operation an application thread has started. *)
CallerStep(t) ==
  \/ RunStep(t)
  \/ AsyncWaitTakes(t)
  \/ AsyncRefused(t)
  \/ AsyncWaitFreed(t)
  \/ \E w \in Workers : AsyncSpawn(t, w)
  \/ AsyncSpawnFails(t)
  \/ CancelValid(t)
  \/ CancelName(t)
  \/ LoadDevice(t)
  \/ UnloadWrite(t)
  \/ SwapCommit(t)

WorkerStep(w) == RunStep(w) \/ AsyncCallback(w) \/ AsyncRelease(w)

Next ==
  \/ SchedulerDeinit
  \/ SchedulerInit
  \/ SchedulerGive
  \/ \E t \in Callers, m \in Models : Call(t, m)
  \/ \E t \in Callers : CallerStep(t)
  \/ \E w \in Workers : WorkerStep(w)

Spec == Init /\ [][Next]_vars

(* A thread that is inside an operation goes on: both ports schedule       *)
(* preemptively, the back end, the validator and the callback return, and  *)
(* the one wait in the path ends after a tick.  Nobody is obliged to start *)
(* an operation.                                                           *)
Fairness ==
  /\ WF_vars(SchedulerGive)
  /\ \A t \in Callers : WF_vars(CallerStep(t))
  /\ \A w \in Workers : WF_vars(WorkerStep(w))

FairSpec == Spec /\ Fairness

-----------------------------------------------------------------------------
(* The asynchronous path. *)

InFlight == {w \in Workers : pc[w] \in WorkerSteps}
Holders  == InFlight \cup {t \in Callers : pc[t] = "spawn"}

(* A permit is either in the gate or held by exactly one request, from the *)
(* moment xRunInferenceAsync takes it to the worker's last step: no return *)
(* path (no memory, no thread, cancelled, rejected, failed, timed out)     *)
(* loses one or gives one twice.  A shutdown of the scheduler voids this.  *)
PermitConservation ==
  restarts = 0 =>
    gate \in Nat /\ gate + Cardinality(Holders) = FullGate

(* Never more than ZHIO_CFG_MAX_ASYNC_INFERENCE requests are in flight     *)
(* (README.md:123), until the scheduler is shut down for the first time:   *)
(* from then on a request may find no gate, or a second full one.          *)
AsyncLimit == restarts = 0 => Cardinality(InFlight) <= MaxAsync

(* An exhausted gate opens again: whatever becomes of the requests that    *)
(* hold the permits, one of them comes back.                               *)
PermitsReturn == gate = 0 ~> gate # 0

(* A request that got its thread reaches its callback, on every path of    *)
(* xRunInference: cancelled, rejected by the validator, without a model    *)
(* that is ready, failed in the back end, and done.                        *)
RequestsAnswered ==
  \A w \in Workers : pc[w] = "check" ~> pc[w] = "callback"

(* The path implements the promise of module AsyncService, shutdowns and   *)
(* starts of the scheduler under requests in flight included.              *)
Service == INSTANCE AsyncService
  WITH Requests <- Workers,
       Limit    <- MaxAsync,
       active   <- InFlight,
       answered <- {w \in Workers : pc[w] = "ended"},
       limited  <- restarts = 0

ImplementsService == Service!Spec

-----------------------------------------------------------------------------
(* The life cycle of a model. *)

Executors(m) == {t \in Threads : pc[t] = "npu" /\ on[t] = m}

(* RUNNING is never left behind: a model is in that state only while some  *)
(* thread is inside the back end with it, or iUnloadModel and iSwapModel   *)
(* would refuse it for ever.                                               *)
RunningHasExecutor ==
  \A m \in Models : mstate[m] = "RUNNING" => Executors(m) # {}

(* The refusal of iUnloadModel and iSwapModel is temporary. *)
BusyEnds ==
  \A m \in Models : mstate[m] = "RUNNING" ~> mstate[m] # "RUNNING"

(* The hot swap is double-buffered (model_runtime.c:6): the weights a      *)
(* thread is computing with are not overwritten under it.                  *)
SwapNeverTearsRun ==
  \A t \in Admins : pc[t] = "swap" => Executors(on[t]) = {}

(* UNLOADED, LOADING, READY, RUNNING, READY, UNLOADED (model_runtime.h:5): *)
(* the end of a run finds its model RUNNING, as the run left it, and takes *)
(* it out of no other state.                                               *)
RunEndsRunning ==
  [][\A t \in Threads : ExecuteFinish(t) => mstate[on[t]] = "RUNNING"]_vars

-----------------------------------------------------------------------------
(* Cancellation. *)

(* A mark that no canceller is still writing belongs to a cancellation     *)
(* that no run has answered yet: a run that answers one consumes all the   *)
(* marks of its model, the duplicates included, so that the next run of    *)
(* the model is not cancelled as well.                                     *)
MarksAsked ==
  \A s \in valid :
    (\A t \in Cancellers : idx[t] # s) => handle[s] \in asked

(* xCancelInference(model) cancels that model (inference_scheduler.h:94):  *)
(* a run is answered with ZHIO_E_CANCELED only when a cancellation of its  *)
(* own model is pending or under way.                                      *)
CancelHitsItsModel ==
  \A t \in Threads :
    pc[t] = "clear" =>
      \/ on[t] \in asked
      \/ \E c \in Cancellers : pc[c] \in {"valid", "name"} /\ on[c] = on[t]
=============================================================================
