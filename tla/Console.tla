-------------------------------- MODULE Console --------------------------------
(***************************************************************************)
(* The agent console: a server that gives every request a thread and every *)
(* request a connection to one SQLite database.  A transaction is a step;  *)
(* what a request read before it may be out of date by then.  The server   *)
(* may stop at any time and come up again on the same database.            *)
(***************************************************************************)
EXTENDS Integers, SequencesExt

CONSTANTS
  ConsoleThreads,    \* threads of requests that take more than one step
  ConsoleNames,      \* names of agents
  TrainerAgents,     \* trainer.AGENTS, those the trainer knows
  ConsoleMaxAgents,  \* bound of a run: agents ever created
  ConsoleMaxRuns,    \* bound of a run: rows of training_runs
  NoName             \* the name of an agent that is not there

ASSUME ConsoleAssumption ==
  /\ TrainerAgents \subseteq ConsoleNames /\ IsFiniteSet(TrainerAgents)
  /\ NoName \notin ConsoleNames
  /\ ConsoleMaxAgents \in Nat /\ ConsoleMaxRuns \in Nat

VARIABLES
  agentRows,  \* table agents: the name of every id that was given
  runRows,    \* table training_runs
  samples,    \* table samples: how often it was filled
  requests,   \* what each thread is doing
  failed      \* history: rows of requests that did not come to their end

consoleVars == <<agentRows, runRows, samples, requests, failed>>

Free == [pc |-> "free", agent |-> 0, name |-> NoName, row |-> 0]

Exists(a) == a \in DOMAIN agentRows /\ agentRows[a] # NoName

ConsoleTypes ==
  /\ \A a, b \in DOMAIN agentRows : agentRows[a] = agentRows[b] => a = b \/ agentRows[a] = NoName
  /\ \A r \in DOMAIN runRows : Exists(runRows[r].agent)
  /\ \A t \in ConsoleThreads : requests[t].pc \in {"free", "train", "training", "populate"}
  /\ failed \subseteq DOMAIN runRows

ConsoleStart ==
  /\ agentRows = <<>>
  /\ runRows = <<>>
  /\ samples = 0
  /\ requests = [t \in ConsoleThreads |-> Free]
  /\ failed = {}

-----------------------------------------------------------------------------
(* The name column is unique.                                              *)
ConsoleCreate(name) ==
  /\ name \notin ToSet(agentRows)
  /\ Len(agentRows) < ConsoleMaxAgents
  /\ agentRows' = Append(agentRows, name)
  /\ UNCHANGED <<runRows, samples, requests, failed>>

ConsoleRename(a, name) ==
  /\ Exists(a)
  /\ name \notin ToSet(agentRows)
  /\ agentRows' = [agentRows EXCEPT ![a] = name]
  /\ UNCHANGED <<runRows, samples, requests, failed>>

(* The foreign key keeps an agent that has a run.                          *)
ConsoleDelete(a) ==
  /\ Exists(a)
  /\ \A r \in DOMAIN runRows : runRows[r].agent # a
  /\ agentRows' = [agentRows EXCEPT ![a] = NoName]
  /\ UNCHANGED <<runRows, samples, requests, failed>>

-----------------------------------------------------------------------------
(* _train_agent: the agent is read ...                                     *)
TrainSelect(t, a) ==
  /\ requests[t].pc = "free"
  /\ Exists(a)
  /\ requests' = [requests EXCEPT ![t] = [Free EXCEPT !.pc = "train", !.agent = a,
                                                      !.name = agentRows[a]]]
  /\ UNCHANGED <<agentRows, runRows, samples, failed>>

(* ... a row says that the training runs, unless the agent is gone ...     *)
TrainInsert(t) ==
  /\ requests[t].pc = "train"
  /\ IF Exists(requests[t].agent)
       THEN /\ Len(runRows) < ConsoleMaxRuns
            /\ runRows' = Append(runRows, [agent |-> requests[t].agent, status |-> "running"])
            /\ requests' = [requests EXCEPT ![t].pc = "training", ![t].row = Len(runRows) + 1]
       ELSE /\ requests' = [requests EXCEPT ![t] = Free]
            /\ UNCHANGED runRows
  /\ UNCHANGED <<agentRows, samples, failed>>

(* As TrainFinish, closing only the newest row of the agent.               *)
TrainFinishNewest(t) ==
  /\ requests[t].pc = "training"
  /\ requests[t].name \in TrainerAgents
  /\ LET newest == CHOOSE r \in DOMAIN runRows :
                     /\ runRows[r].agent = requests[t].agent
                     /\ \A s \in DOMAIN runRows : runRows[s].agent = requests[t].agent => s <= r
     IN  runRows' = [runRows EXCEPT ![newest].status = "done"]
  /\ requests' = [requests EXCEPT ![t] = Free]
  /\ UNCHANGED <<agentRows, samples, failed>>

(* ... and at the end every running row of the agent is done.              *)
TrainFinish(t) ==
  /\ requests[t].pc = "training"
  /\ requests[t].name \in TrainerAgents
  /\ runRows' = [r \in DOMAIN runRows |->
       IF runRows[r].agent = requests[t].agent THEN [runRows[r] EXCEPT !.status = "done"]
       ELSE runRows[r]]
  /\ requests' = [requests EXCEPT ![t] = Free]
  /\ UNCHANGED <<agentRows, samples, failed>>

(* The trainer does not know the name, or the database stays locked: the   *)
(* request ends in an exception that nobody handles.                       *)
TrainFail(t) ==
  /\ requests[t].pc = "training"
  /\ requests' = [requests EXCEPT ![t] = Free]
  /\ failed' = failed \cup {requests[t].row}
  /\ UNCHANGED <<agentRows, runRows, samples>>

-----------------------------------------------------------------------------
(* _dataset finds the table empty, and fills it later.                     *)
DatasetRead(t) ==
  /\ requests[t].pc = "free"
  /\ samples = 0
  /\ requests' = [requests EXCEPT ![t].pc = "populate"]
  /\ UNCHANGED <<agentRows, runRows, samples, failed>>

PopulateSamples(t) ==
  /\ requests[t].pc = "populate"
  /\ samples' = samples + 1
  /\ requests' = [requests EXCEPT ![t] = Free]
  /\ UNCHANGED <<agentRows, runRows, failed>>

(* The server stops and comes up again; nothing looks at the rows that its *)
(* requests left.  It may seed the agents of the trainer.                  *)
ConsoleRestart(seed) ==
  /\ failed' = failed \cup {requests[t].row : t \in {u \in ConsoleThreads : requests[u].row # 0}}
  /\ requests' = [t \in ConsoleThreads |-> Free]
  /\ \/ ~seed /\ UNCHANGED agentRows
     \/ /\ seed
        /\ Len(agentRows) + Cardinality(TrainerAgents \ ToSet(agentRows)) <= ConsoleMaxAgents
        /\ agentRows' = agentRows \o SetToSeq(TrainerAgents \ ToSet(agentRows))
  /\ UNCHANGED <<runRows, samples>>

ConsoleNext ==
  \/ \E name \in ConsoleNames :
       ConsoleCreate(name) \/ \E a \in DOMAIN agentRows : ConsoleRename(a, name)
  \/ \E a \in DOMAIN agentRows : ConsoleDelete(a) \/ \E t \in ConsoleThreads : TrainSelect(t, a)
  \/ \E t \in ConsoleThreads :
       TrainInsert(t) \/ TrainFinish(t) \/ TrainFail(t) \/ DatasetRead(t) \/ PopulateSamples(t)
  \/ \E seed \in BOOLEAN : ConsoleRestart(seed)

ConsoleSpec == ConsoleStart /\ [][ConsoleNext]_consoleVars

-----------------------------------------------------------------------------
(* A row that says running belongs to a training that runs, or to one that *)
(* was cut short: by an exception or by the end of the server.  Several    *)
(* trainings of one agent, whose ends close each other's rows, leave none  *)
(* behind, nor does an agent that is renamed meanwhile (_train_agent).     *)
NoOrphanRun ==
  \A r \in DOMAIN runRows :
    runRows[r].status = "running" =>
      r \in failed \/ \E t \in ConsoleThreads : requests[t].pc = "training" /\ requests[t].row = r
=============================================================================
