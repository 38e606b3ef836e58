--------------------------- MODULE InferenceTasks ---------------------------
(***************************************************************************)
(* The task table of the inference scheduler and the choice of the next    *)
(* task: the highest effective priority, and among equals the earliest     *)
(* deadline.  xInferenceSchedulerGetNext is one step per slot, so that     *)
(* what its loop establishes is an invariant.                              *)
(*                                                                         *)
(* The functions of the table are called from one thread at a time: the    *)
(* table has no lock, and no code in the repository shares it.             *)
(***************************************************************************)
EXTENDS Integers

CONSTANTS
  TaskCount,   \* ZHIO_CFG_MAX_INFERENCE_TASKS
  Priorities,  \* priorities and boosts that are asked for
  Deadlines,   \* deadlines that are asked for
  MaxTick      \* 0xFFFFFFFF

ASSUME TaskTableAssumption == TaskCount \in Nat \ {0}

ASSUME RangesAssumption ==
  /\ MaxTick \in Nat
  /\ Priorities \subseteq Nat
  /\ Deadlines \subseteq 0..MaxTick

Ids == 0..(TaskCount - 1)

TaskStates == {"CREATED", "READY", "RUNNING", "COMPLETED"}

Task == [named    : BOOLEAN,
         base     : Nat,
         boost    : Nat,
         deadline : 0..MaxTick,
         state    : TaskStates]

(* A slot after memset: no name, and CREATED, which is 0. *)
Blank == [named |-> FALSE, base |-> 0, boost |-> 0, deadline |-> 0,
          state |-> "CREATED"]

VARIABLES
  schedInited,  \* g_sched_inited
  task,         \* g_tasks
  scanning,     \* inside xInferenceSchedulerGetNext
  slot,         \* its i
  best,         \* its best, -1 for none
  bestPrio,     \* its best_prio
  bestDl        \* its best_deadline

scan == <<scanning, slot, best, bestPrio, bestDl>>
taskVars == <<schedInited, task, scanning, slot, best, bestPrio, bestDl>>

(* The range of every variable. *)
TaskTypes ==
  /\ schedInited \in BOOLEAN
  /\ task \in [Ids -> Task]
  /\ scanning \in BOOLEAN
  /\ slot \in 0..TaskCount
  /\ best \in Ids \cup {-1}
  /\ bestPrio \in Nat
  /\ bestDl \in 0..MaxTick

TasksInit ==
  /\ schedInited = FALSE
  /\ task = [i \in Ids |-> Blank]
  /\ scanning = FALSE
  /\ slot = 0
  /\ best = -1
  /\ bestPrio = 0
  /\ bestDl = MaxTick

-----------------------------------------------------------------------------
(* The table. *)

iInferenceSchedulerInit ==
  /\ ~scanning
  /\ schedInited' = TRUE
  /\ task' = [i \in Ids |-> Blank]
  /\ UNCHANGED scan

vInferenceSchedulerDeinit ==
  /\ ~scanning
  /\ schedInited' = FALSE
  /\ task' = [i \in Ids |-> Blank]
  /\ UNCHANGED scan

(* The first slot without a name is filled.  A task created with the empty *)
(* name leaves its slot without one.                                       *)
xCreateInferenceTask(nonempty, p, d) ==
  /\ ~scanning
  /\ schedInited
  /\ \E i \in Ids :
       /\ ~task[i].named
       /\ \A k \in 0..(i - 1) : task[k].named
       /\ task' = [task EXCEPT ![i] =
                     [named |-> nonempty, base |-> p, boost |-> p,
                      deadline |-> d, state |-> "CREATED"]]
  /\ UNCHANGED <<schedInited, scan>>

xDeleteInferenceTask(i) ==
  /\ ~scanning
  /\ task[i].state # "RUNNING"
  /\ task' = [task EXCEPT ![i] = Blank]
  /\ UNCHANGED <<schedInited, scan>>

xInferenceTaskActivate(i) ==
  /\ ~scanning
  /\ task[i].named
  /\ task[i].state \in {"CREATED", "COMPLETED"}
  /\ task' = [task EXCEPT ![i].state = "READY"]
  /\ UNCHANGED <<schedInited, scan>>

(* Like the setters below, it asks nothing of the slot, which may have no  *)
(* task.                                                                   *)
xInferenceTaskComplete(i) ==
  /\ ~scanning
  /\ task' = [task EXCEPT ![i].state = "COMPLETED"]
  /\ UNCHANGED <<schedInited, scan>>

xInferenceTaskSetDeadline(i, d) ==
  /\ ~scanning
  /\ task' = [task EXCEPT ![i].deadline = d]
  /\ UNCHANGED <<schedInited, scan>>

xInferenceTaskSetBoost(i, p) ==
  /\ ~scanning
  /\ task' = [task EXCEPT ![i].boost = p]
  /\ UNCHANGED <<schedInited, scan>>

-----------------------------------------------------------------------------
(* xInferenceSchedulerGetNext *)

Ready(i) == task[i].named /\ task[i].state = "READY"

Effective(i) ==
  IF task[i].boost > task[i].base THEN task[i].boost ELSE task[i].base

GetNextStart ==
  /\ ~scanning
  /\ schedInited
  /\ scanning' = TRUE
  /\ UNCHANGED <<schedInited, task, slot, best, bestPrio, bestDl>>

Improves(i) ==
  /\ Ready(i)
  /\ \/ Effective(i) > bestPrio
     \/ Effective(i) = bestPrio /\ task[i].deadline < bestDl

GetNextSlotKeepsDeadline ==
  /\ scanning
  /\ slot < TaskCount
  /\ slot' = slot + 1
  /\ \/ /\ Improves(slot)
        /\ best' = slot
        /\ bestPrio' = Effective(slot)
        /\ bestDl' = IF Effective(slot) > bestPrio THEN bestDl ELSE task[slot].deadline
     \/ /\ ~Improves(slot)
        /\ UNCHANGED <<best, bestPrio, bestDl>>
  /\ UNCHANGED <<schedInited, task, scanning>>

(* The body of the loop. *)
GetNextSlot ==
  /\ scanning
  /\ slot < TaskCount
  /\ slot' = slot + 1
  /\ \/ /\ Improves(slot)
        /\ best' = slot
        /\ bestPrio' = Effective(slot)
        /\ bestDl' = task[slot].deadline
     \/ /\ ~Improves(slot)
        /\ UNCHANGED <<best, bestPrio, bestDl>>
  /\ UNCHANGED <<schedInited, task, scanning>>

(* The answer is best, or ZHIO_E_NOTFOUND for -1.  The variables of the    *)
(* loop get back the values that the next call starts from.                *)
GetNextReturn ==
  /\ scanning
  /\ slot = TaskCount
  /\ scanning' = FALSE
  /\ slot' = 0
  /\ best' = -1
  /\ bestPrio' = 0
  /\ bestDl' = MaxTick
  /\ UNCHANGED <<schedInited, task>>

TasksNext ==
  \/ iInferenceSchedulerInit
  \/ vInferenceSchedulerDeinit
  \/ \E nonempty \in BOOLEAN, p \in Priorities, d \in Deadlines :
       xCreateInferenceTask(nonempty, p, d)
  \/ \E i \in Ids :
       \/ xDeleteInferenceTask(i)
       \/ xInferenceTaskActivate(i)
       \/ xInferenceTaskComplete(i)
       \/ \E d \in Deadlines : xInferenceTaskSetDeadline(i, d)
       \/ \E p \in Priorities : xInferenceTaskSetBoost(i, p)
  \/ GetNextStart
  \/ GetNextSlot
  \/ GetNextReturn

TasksSpec == TasksInit /\ [][TasksNext]_taskVars

-----------------------------------------------------------------------------

(* The order the header promises: task k is to run before task j. *)
Before(k, j) ==
  \/ Effective(k) > Effective(j)
  \/ /\ Effective(k) = Effective(j)
     /\ task[k].deadline < task[j].deadline

(* The loop starts from priority 0 and the last tick, so a ready task that *)
(* has both is as good as none.                                            *)
Eligible(k) ==
  Ready(k) /\ (Effective(k) > 0 \/ task[k].deadline < MaxTick)

(* xInferenceSchedulerGetNext returns a ready task that no ready task is   *)
(* to run before, the first one of several, and answers ZHIO_E_NOTFOUND    *)
(* only when no task is eligible.                                          *)
ChosenIsBest ==
  scanning /\ slot = TaskCount =>
    IF best = -1
    THEN \A k \in Ids : ~Eligible(k)
    ELSE /\ Eligible(best)
         /\ \A k \in Ids : Ready(k) => ~Before(k, best)
         /\ \A k \in 0..(best - 1) : Ready(k) => Before(best, k)
=============================================================================
