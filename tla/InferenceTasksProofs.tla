------------------------ MODULE InferenceTasksProofs ------------------------
(***************************************************************************)
(* The choice of the next task is right for a table of any size and any    *)
(* priorities and deadlines: the invariant of the loop is inductive.       *)
(***************************************************************************)
EXTENDS InferenceTasks, TLAPS

(* What the loop knows of the slots before the one it looks at next. *)
NoneYet ==
  /\ best = -1
  /\ bestPrio = 0
  /\ bestDl = MaxTick
  /\ \A k \in 0..(slot - 1) : ~Eligible(k)

BestYet ==
  /\ best \in 0..(slot - 1)
  /\ Eligible(best)
  /\ bestPrio = Effective(best)
  /\ bestDl = task[best].deadline
  /\ \A k \in 0..(slot - 1) : Ready(k) => ~Before(k, best)
  /\ \A k \in 0..(best - 1) : Ready(k) => Before(best, k)

LoopInv ==
  IF scanning
  THEN NoneYet \/ BestYet
  ELSE slot = 0 /\ best = -1 /\ bestPrio = 0 /\ bestDl = MaxTick

TasksInv == TaskTypes /\ LoopInv

LEMMA EffectiveType ==
  ASSUME TaskTypes, NEW i \in Ids
  PROVE  /\ Effective(i) \in Nat
         /\ task[i].deadline \in 0..MaxTick
BY DEF TaskTypes, Task, Effective

LEMMA BlankType == Blank \in Task
BY RangesAssumption DEF Blank, Task, TaskStates

LEMMA InitInv == TasksInit => TasksInv
<1> SUFFICES ASSUME TasksInit PROVE TasksInv
  OBVIOUS
<1>1. TaskTypes
  <2>1. /\ slot \in 0..TaskCount
        /\ bestPrio \in Nat
        /\ bestDl \in 0..MaxTick
    BY TaskTableAssumption, RangesAssumption DEF TasksInit
  <2>2. best \in Ids \cup {-1}
    BY DEF TasksInit
  <2>3. task \in [Ids -> Task]
    BY BlankType DEF TasksInit
  <2>4. schedInited \in BOOLEAN /\ scanning \in BOOLEAN
    BY DEF TasksInit
  <2> QED BY <2>1, <2>2, <2>3, <2>4 DEF TaskTypes
<1>2. LoopInv
  BY DEF TasksInit, LoopInv
<1> QED BY <1>1, <1>2 DEF TasksInv

(* Outside the loop only the table changes. *)
LEMMA TableStep ==
  ASSUME TasksInv, [TasksNext]_taskVars, ~scanning, ~GetNextStart
  PROVE  TasksInv'
<1> USE DEF TasksInv, TaskTypes
<1>1. UNCHANGED scan
  BY DEF TasksNext, iInferenceSchedulerInit, vInferenceSchedulerDeinit,
         xCreateInferenceTask, xDeleteInferenceTask, xInferenceTaskActivate,
         xInferenceTaskComplete, xInferenceTaskSetDeadline,
         xInferenceTaskSetBoost, GetNextSlot, GetNextReturn, taskVars, scan
<1>2. Blank \in Task
  BY BlankType
<1>3. schedInited' \in BOOLEAN /\ task' \in [Ids -> Task]
  <2>1. CASE iInferenceSchedulerInit \/ vInferenceSchedulerDeinit
    BY <1>2, <2>1 DEF iInferenceSchedulerInit, vInferenceSchedulerDeinit
  <2>2. ASSUME NEW nonempty \in BOOLEAN, NEW p \in Priorities, NEW d \in Deadlines,
               xCreateInferenceTask(nonempty, p, d)
        PROVE  schedInited' \in BOOLEAN /\ task' \in [Ids -> Task]
    <3> DEFINE new == [named |-> nonempty, base |-> p, boost |-> p,
                       deadline |-> d, state |-> "CREATED"]
    <3>1. new \in Task
      BY RangesAssumption DEF Task, TaskStates
    <3>2. \E i \in Ids : task' = [task EXCEPT ![i] = new]
      BY <2>2 DEF xCreateInferenceTask
    <3> HIDE DEF new
    <3>3. schedInited' = schedInited
      BY <2>2 DEF xCreateInferenceTask
    <3> QED BY <3>1, <3>2, <3>3
  <2>3. ASSUME NEW i \in Ids, xDeleteInferenceTask(i)
        PROVE  schedInited' \in BOOLEAN /\ task' \in [Ids -> Task]
    BY <1>2, <2>3 DEF xDeleteInferenceTask
  <2>4. ASSUME NEW i \in Ids,
               xInferenceTaskActivate(i) \/ xInferenceTaskComplete(i)
        PROVE  schedInited' \in BOOLEAN /\ task' \in [Ids -> Task]
    BY <2>4 DEF xInferenceTaskActivate, xInferenceTaskComplete, Task, TaskStates
  <2>5. ASSUME NEW i \in Ids, NEW d \in Deadlines, xInferenceTaskSetDeadline(i, d)
        PROVE  schedInited' \in BOOLEAN /\ task' \in [Ids -> Task]
    BY <2>5, RangesAssumption DEF xInferenceTaskSetDeadline, Task
  <2>6. ASSUME NEW i \in Ids, NEW p \in Priorities, xInferenceTaskSetBoost(i, p)
        PROVE  schedInited' \in BOOLEAN /\ task' \in [Ids -> Task]
    BY <2>6, RangesAssumption DEF xInferenceTaskSetBoost, Task
  <2>7. CASE UNCHANGED taskVars
    BY <2>7 DEF taskVars
  <2> QED
    BY <2>1, <2>2, <2>3, <2>4, <2>5, <2>6, <2>7
       DEF TasksNext, GetNextSlot, GetNextReturn
<1> QED
  BY <1>1, <1>3 DEF LoopInv, scan

(* One turn of the loop. *)
LEMMA SlotStep ==
  ASSUME TasksInv, GetNextSlot
  PROVE  TasksInv'
<1> USE DEF TasksInv
<1>1. /\ slot \in Ids /\ slot' = slot + 1 /\ slot' \in 0..TaskCount
      /\ scanning /\ scanning' /\ task' = task /\ schedInited' = schedInited
      /\ TaskCount \in Nat
  BY TaskTableAssumption DEF GetNextSlot, TaskTypes, Ids
<1>2. /\ \A k : Effective(k)' = Effective(k)
      /\ \A k : Ready(k)' = Ready(k)
      /\ \A k : Eligible(k)' = Eligible(k)
      /\ \A k, j : Before(k, j)' = Before(k, j)
  BY <1>1 DEF Effective, Ready, Eligible, Before
<1>3. \A k \in 0..(slot' - 1) : k = slot \/ k \in 0..(slot - 1)
  BY <1>1 DEF Ids
<1>4. /\ Effective(slot) \in Nat /\ task[slot].deadline \in 0..MaxTick
      /\ bestPrio \in Nat /\ bestDl \in 0..MaxTick /\ MaxTick \in Nat
  BY <1>1, EffectiveType, RangesAssumption DEF TaskTypes
<1>5. CASE Improves(slot)
  <2>1. best' = slot /\ bestPrio' = Effective(slot) /\ bestDl' = task[slot].deadline
    BY <1>5 DEF GetNextSlot
  <2>2. Eligible(slot)
    BY <1>4, <1>5 DEF Improves, Eligible
  <2>3. \A k \in 0..(slot - 1) : Ready(k) => Before(slot, k)
    <3> SUFFICES ASSUME NEW k \in 0..(slot - 1), Ready(k)
                 PROVE  Before(slot, k)
      OBVIOUS
    <3>1. k \in Ids /\ Effective(k) \in Nat /\ task[k].deadline \in 0..MaxTick
      BY <1>1, EffectiveType DEF Ids
    <3>2. CASE NoneYet
      <4>1. Effective(k) = 0 /\ task[k].deadline = MaxTick
        BY <1>4, <3>1, <3>2 DEF NoneYet, Eligible
      <4> QED BY <1>4, <1>5, <3>2, <4>1 DEF NoneYet, Improves, Before
    <3>3. CASE BestYet
      <4>1. ~Before(k, best) /\ bestPrio = Effective(best) /\ bestDl = task[best].deadline
        BY <3>3 DEF BestYet
      <4> QED BY <1>4, <1>5, <3>1, <4>1 DEF Improves, Before
    <3> QED BY <1>1, <3>2, <3>3 DEF LoopInv
  <2>4. \A k \in 0..slot : Ready(k) => ~Before(k, slot)
    <3> SUFFICES ASSUME NEW k \in 0..slot, Ready(k)
                 PROVE  ~Before(k, slot)
      OBVIOUS
    <3>1. k \in Ids /\ Effective(k) \in Nat /\ task[k].deadline \in 0..MaxTick
      BY <1>1, EffectiveType DEF Ids
    <3>2. CASE k = slot
      BY <1>4, <3>2 DEF Before
    <3>3. CASE k # slot
      <4>1. Before(slot, k)
        BY <1>1, <2>3, <3>3 DEF Ids
      <4> QED BY <1>4, <3>1, <4>1 DEF Before
    <3> QED BY <3>2, <3>3
  <2>5. BestYet'
    BY <1>1, <1>2, <2>1, <2>2, <2>3, <2>4 DEF BestYet, Ids
  <2> QED
    BY <1>1, <1>4, <2>1, <2>5 DEF LoopInv, TaskTypes
<1>6. CASE ~Improves(slot)
  <2>1. UNCHANGED <<best, bestPrio, bestDl>>
    BY <1>6 DEF GetNextSlot
  <2>2. CASE NoneYet
    <3>1. ~Eligible(slot)
      BY <1>4, <1>6, <2>2 DEF NoneYet, Improves, Eligible
    <3>2. NoneYet'
      BY <1>1, <1>2, <1>3, <2>1, <2>2, <3>1 DEF NoneYet
    <3> QED BY <1>1, <2>1, <3>2 DEF LoopInv, TaskTypes
  <2>3. CASE BestYet
    <3>1. Ready(slot) => ~Before(slot, best)
      BY <1>4, <1>6, <2>3 DEF BestYet, Improves, Before
    <3>2. BestYet'
      BY <1>1, <1>2, <1>3, <2>1, <2>3, <3>1 DEF BestYet, Ids
    <3> QED BY <1>1, <2>1, <3>2 DEF LoopInv, TaskTypes
  <2> QED BY <1>1, <2>2, <2>3 DEF LoopInv
<1> QED BY <1>5, <1>6

LEMMA NextInv == TasksInv /\ [TasksNext]_taskVars => TasksInv'
<1> SUFFICES ASSUME TasksInv, [TasksNext]_taskVars PROVE TasksInv'
  OBVIOUS
<1>1. CASE GetNextStart
  BY <1>1, TaskTableAssumption
     DEF GetNextStart, TasksInv, TaskTypes, LoopInv, NoneYet, Eligible
<1>2. CASE GetNextSlot
  BY <1>2, SlotStep
<1>3. CASE GetNextReturn
  <2>1. /\ slot' \in 0..TaskCount
        /\ bestPrio' \in Nat
        /\ bestDl' \in 0..MaxTick
    BY <1>3, TaskTableAssumption, RangesAssumption DEF GetNextReturn
  <2>2. best' \in Ids \cup {-1}
    BY <1>3 DEF GetNextReturn
  <2> QED BY <1>3, <2>1, <2>2 DEF GetNextReturn, TasksInv, TaskTypes, LoopInv
<1>4. CASE ~scanning /\ ~GetNextStart
  BY <1>4, TableStep
<1>5. CASE UNCHANGED taskVars
  BY <1>5 DEF taskVars, TasksInv, TaskTypes, LoopInv, NoneYet, BestYet, Eligible, Ready,
              Effective, Before
<1> QED
  BY <1>1, <1>2, <1>3, <1>4, <1>5
     DEF TasksNext, iInferenceSchedulerInit, vInferenceSchedulerDeinit,
         xCreateInferenceTask, xDeleteInferenceTask, xInferenceTaskActivate,
         xInferenceTaskComplete, xInferenceTaskSetDeadline, xInferenceTaskSetBoost

LEMMA Inductive == TasksSpec => []TasksInv
BY InitInv, NextInv, PTL DEF TasksSpec

(* The variables of the table and of the loop keep their ranges. *)
THEOREM TypeCorrect == TasksSpec => []TaskTypes
<1>1. TasksInv => TaskTypes
  BY DEF TasksInv
<1> QED BY <1>1, Inductive, PTL

(* xInferenceSchedulerGetNext chooses by priority, then deadline, then     *)
(* slot, in a table of any size; what it can miss is a task of priority 0  *)
(* that has the last tick for a deadline.                                  *)
THEOREM ChoiceCorrect == TasksSpec => []ChosenIsBest
<1>1. TasksInv => ChosenIsBest
  <2> SUFFICES ASSUME TasksInv, scanning, slot = TaskCount
               PROVE  IF best = -1
                      THEN \A k \in Ids : ~Eligible(k)
                      ELSE /\ Eligible(best)
                           /\ \A k \in Ids : Ready(k) => ~Before(k, best)
                           /\ \A k \in 0..(best - 1) : Ready(k) => Before(best, k)
    BY DEF ChosenIsBest
  <2>1. CASE NoneYet
    BY <2>1 DEF NoneYet, Ids
  <2>2. CASE BestYet
    <3>1. best # -1
      BY <2>2, TaskTableAssumption DEF BestYet
    <3> QED BY <2>2, <3>1 DEF BestYet, Ids
  <2> QED BY <2>1, <2>2 DEF TasksInv, LoopInv
<1> QED BY <1>1, Inductive, PTL
=============================================================================
