-------------------------------- MODULE Agents --------------------------------
(***************************************************************************)
(* The pool of agents: creating, registering and deleting them, their      *)
(* preferences, their watchdogs, the steps threads run on them, and the    *)
(* patrol that puts stalled agents back to work.                           *)
(*                                                                         *)
(* A handle is the address of a slot, so a handle that outlives its agent  *)
(* is a handle of the agent that has the slot next; a step keeps the       *)
(* address through the behaviour it calls.  The patrol is a task of low    *)
(* priority: it reads the clock once and then visits slot after slot, and  *)
(* others run between any two of its accesses.  Time is kept as it passes; *)
(* a tick is this time modulo AgWord.  Reading the tick to feed an agent   *)
(* and storing it is one step.                                             *)
(***************************************************************************)
EXTENDS Preferences, FiniteSets

CONSTANTS
  AgMax,         \* ZHIO_CFG_MAX_AGENTS: sub-agents; there is one more slot
  AgMaxQueues,   \* inbox queues the heap has room for
  AgDepth,       \* ZHIO_CFG_AGENT_QUEUE_DEPTH
  AgPeriods,     \* periods of agent watchdogs
  AgRunners,     \* threads that call iAgentRunStep
  AgPatrolEvery, \* the application calls iAgentSupervise this often, in ticks
  AgWord,        \* 2^32: the values of a tick
  AgStart,       \* when the run begins, to have the tick wrap in it
  AgMaxTime,     \* bound of a run: the last time
  AgWords,       \* bound of a run: the lists of keywords that are sent
  NoAgent        \* the null handle

AgSlots == 0..AgMax

ASSUME AgentsAssumption ==
  /\ AgMax \in Nat /\ AgMaxQueues \in Nat /\ AgDepth \in Nat \ {0}
  /\ AgPeriods \subseteq Nat \ {0}
  /\ AgPatrolEvery \in Nat \ {0}
  /\ \A p \in AgPeriods : p + 2 * AgPatrolEvery < AgWord
  /\ AgWord \in Nat \ {0} /\ AgStart \in Nat /\ AgMaxTime \in Nat
  /\ AgWords \subseteq Seq(STRING)
  /\ NoAgent \notin AgSlots

VARIABLES
  agents,   \* g_agents; fed is the time of wd_last_feed
  queues,   \* the inbox queues that were created: none is ever freed
  agNow,    \* the time
  patrol,   \* iAgentSupervise: the slot it is at, what it does to it next, and
            \* the time it read
  starting, \* the slots with a watchdog that has its period, not its first feed
  runs,     \* the slot each thread is running a step of, or NoAgent
  words     \* history: the keywords an agent was last configured with

agVars == <<agents, queues, agNow, patrol, starting, runs, words>>

Zeroed == [valid |-> FALSE, state |-> "IDLE", period |-> 0, fed |-> 0, subs |-> <<>>,
           inbox |-> 0, pref |-> ZeroPreference]

PatrolStages == {"test", "reset", "feed"}

AgentTypes ==
  /\ \A a \in AgSlots :
       /\ agents[a].state \in {"IDLE", "READY", "EXECUTING"}
       /\ agents[a].valid => agents[a].inbox \in 1..Len(queues)
       /\ agents[a].pref.routing \in RoutingModes
       /\ agents[a].fed <= agNow
  /\ Len(queues) <= AgMaxQueues
  /\ \A q \in DOMAIN queues : Len(queues[q]) <= AgDepth
  /\ patrol.at \in 0..(AgMax + 1) /\ patrol.stage \in PatrolStages
  /\ patrol.now <= agNow
  /\ starting \subseteq AgSlots
  /\ runs \in [AgRunners -> AgSlots \cup {NoAgent}]

AgentStart ==
  /\ agents = [a \in AgSlots |-> Zeroed]
  /\ queues = <<>>
  /\ agNow = AgStart
  /\ patrol = [at |-> AgMax + 1, stage |-> "test", now |-> AgStart]
  /\ starting = {}
  /\ runs = [t \in AgRunners |-> NoAgent]
  /\ words = [a \in AgSlots |-> <<>>]

Resolves(a) == a \in AgSlots /\ agents[a].valid

-----------------------------------------------------------------------------
(* Creating and deleting.  A pool is the agents and the queues together.   *)

Pool == [agents |-> agents, queues |-> queues, made |-> NoAgent]

SetPool(pool) == agents' = pool.agents /\ queues' = pool.queues

(* slot_alloc: the first free slot, cleared and filled; valid only if the  *)
(* inbox could be created.                                                 *)
SlotAlloc(pool) ==
  LET free == {a \in AgSlots : ~pool.agents[a].valid}
      slot == CHOOSE a \in free : \A b \in free : a <= b
      room == Len(pool.queues) < AgMaxQueues
      new  == [Zeroed EXCEPT !.state = "READY", !.pref = Defaults, !.valid = room,
                             !.inbox = IF room THEN Len(pool.queues) + 1 ELSE 0]
  IN  IF free = {} THEN [pool EXCEPT !.made = NoAgent]
      ELSE [agents |-> [pool.agents EXCEPT ![slot] = new],
            queues |-> IF room THEN Append(pool.queues, <<>>) ELSE pool.queues,
            made   |-> IF room THEN slot ELSE NoAgent]

(* As Registered, without the search for the sub-agent.                    *)
RegisteredTwice(pool, parent, sub) ==
  IF Len(pool.agents[parent].subs) >= AgMax THEN pool
  ELSE [pool EXCEPT !.agents[parent].subs = Append(@, sub)]

(* iAgentRegisterSub on a pool, for two agents that are there.             *)
Registered(pool, parent, sub) ==
  LET subs == pool.agents[parent].subs
  IN  IF Len(subs) >= AgMax \/ \E i \in DOMAIN subs : subs[i] = sub
        THEN pool
        ELSE [pool EXCEPT !.agents[parent].subs = Append(@, sub)]

(* xCreateSubAgent: whether there is a parent is found out before the slot *)
(* is taken, and a list that is full does not undo the creation.           *)
WithSubAgent(pool, parent) ==
  LET made == SlotAlloc(pool)
  IN  IF made.made # NoAgent /\ parent # NoAgent /\ pool.agents[parent].valid
        THEN Registered(made, parent, made.made)
        ELSE made

(* One more member of the team, unless one before could not be created.    *)
TeamMember(pool, parent) ==
  IF pool.made = NoAgent THEN pool ELSE WithSubAgent(pool, parent)

(* iSubAgentsCreateTeam: vision, motion, safety, force and quality.  It    *)
(* stops at the first that cannot be created and keeps those that were.    *)
WithTeam(pool, parent) ==
  LET vision  == TeamMember([pool EXCEPT !.made = parent], parent)
      motion  == TeamMember(vision, parent)
      safety  == TeamMember(motion, parent)
      force   == TeamMember(safety, parent)
  IN  TeamMember(force, parent)

CreateAutoAgent ==
  /\ SetPool(SlotAlloc(Pool))
  /\ UNCHANGED <<agNow, patrol, starting, runs, words>>

CreateSubAgent(parent) ==
  /\ SetPool(WithSubAgent(Pool, parent))
  /\ UNCHANGED <<agNow, patrol, starting, runs, words>>

CreateTeam(parent) ==
  /\ SetPool(WithTeam(Pool, parent))
  /\ UNCHANGED <<agNow, patrol, starting, runs, words>>

RegisterSub(parent, sub) ==
  /\ Resolves(parent) /\ Resolves(sub)
  /\ SetPool(Registered(Pool, parent, sub))
  /\ UNCHANGED <<agNow, patrol, starting, runs, words>>

(* vDeleteAgent empties the inbox and clears the slot; the queue object    *)
(* and the lists of parents that name the slot stay.                       *)
DeleteAgent(a) ==
  /\ Resolves(a)
  /\ agents' = [agents EXCEPT ![a] = Zeroed]
  /\ queues' = [queues EXCEPT ![agents[a].inbox] = <<>>]
  /\ words' = [words EXCEPT ![a] = <<>>]
  /\ UNCHANGED <<agNow, patrol, starting, runs>>

ResetAllAgents ==
  /\ agents' = [a \in AgSlots |-> Zeroed]
  /\ queues' = [q \in DOMAIN queues |->
                  IF \E a \in AgSlots : agents[a].inbox = q THEN <<>> ELSE queues[q]]
  /\ words' = [a \in AgSlots |-> <<>>]
  /\ UNCHANGED <<agNow, patrol, starting, runs>>

-----------------------------------------------------------------------------
(* Preferences.                                                            *)

SetPreference(a, p, said) ==
  /\ Resolves(a)
  /\ agents' = [agents EXCEPT ![a].pref = p]
  /\ words' = [words EXCEPT ![a] = said]
  /\ UNCHANGED <<queues, agNow, patrol, starting, runs>>

(* comm_config_parse: without a keyword nothing is set.                    *)
ConfigCommand(a, sent) ==
  /\ ParsedWords(sent) # <<>>
  /\ SetPreference(a, ByKeywords(ParsedWords(sent)), ParsedWords(sent))

SetAgentPreference(a, mask) == SetPreference(a, ByMask(agents[a].pref, mask), <<>>)

SetAgentSafetyLevel(a, level) ==
  SetPreference(a, BySafetyLevel(agents[a].pref, level), <<>>)

-----------------------------------------------------------------------------
(* Watchdogs, steps and the patrol.                                        *)

Feed(a) == agents' = [agents EXCEPT ![a].fed = agNow]

(* iAgentWatchdogStart writes the period ...                               *)
WatchdogStart(a, period) ==
  /\ Resolves(a)
  /\ agents' = [agents EXCEPT ![a].period = period]
  /\ starting' = starting \cup {a}
  /\ UNCHANGED <<queues, agNow, patrol, runs, words>>

(* ... and then feeds the slot, whoever has it by now.                     *)
WatchdogStartFeeds(a) ==
  /\ a \in starting
  /\ Feed(a)
  /\ starting' = starting \ {a}
  /\ UNCHANGED <<queues, agNow, patrol, runs, words>>

WatchdogFeed(a) ==
  /\ Resolves(a)
  /\ Feed(a)
  /\ UNCHANGED <<queues, agNow, patrol, starting, runs, words>>

(* iAgentRunStep up to its behaviour: nothing keeps a second thread out.   *)
StepBegin(t, a) ==
  /\ runs[t] = NoAgent
  /\ Resolves(a)
  /\ agents' = [agents EXCEPT ![a].state = "EXECUTING"]
  /\ runs' = [runs EXCEPT ![t] = a]
  /\ UNCHANGED <<queues, agNow, patrol, starting, words>>

(* As StepEnd, returning early when the behaviour fails.                   *)
StepEndReturnsEarly(t) ==
  /\ runs[t] # NoAgent
  /\ runs' = [runs EXCEPT ![t] = NoAgent]
  /\ UNCHANGED <<agents, queues, agNow, patrol, starting, words>>

(* ... and from there on: the slot is written whoever has it by now, and   *)
(* fed if somebody has.                                                    *)
StepEnd(t) ==
  LET a == runs[t]
  IN  /\ a # NoAgent
      /\ agents' = [agents EXCEPT ![a].state = "READY",
                                  ![a].fed = IF agents[a].valid THEN agNow ELSE @]
      /\ runs' = [runs EXCEPT ![t] = NoAgent]
      /\ UNCHANGED <<queues, agNow, patrol, starting, words>>

(* zhio_agent_watchdog_expired and the test of the patrol, at the time now.*)
Overdue(a, now) == (now - agents[a].fed) % AgWord > agents[a].period
Watched(a) == agents[a].valid /\ agents[a].period # 0

Patrolling == patrol.at \in AgSlots

(* As PatrolBegin, leaving the first slot out.                             *)
PatrolBeginAtOne ==
  /\ ~Patrolling
  /\ patrol' = [at |-> 1, stage |-> "test", now |-> agNow]
  /\ UNCHANGED <<agents, queues, agNow, starting, runs, words>>

PatrolBegin ==
  /\ ~Patrolling
  /\ patrol' = [at |-> 0, stage |-> "test", now |-> agNow]
  /\ UNCHANGED <<agents, queues, agNow, starting, runs, words>>

NextSlot == [patrol EXCEPT !.at = @ + 1, !.stage = "test"]

(* The patrol tests a slot with the time it read ...                       *)
PatrolTest ==
  /\ Patrolling /\ patrol.stage = "test"
  /\ patrol' = IF Watched(patrol.at) /\ Overdue(patrol.at, patrol.now)
                 THEN [patrol EXCEPT !.stage = "reset"] ELSE NextSlot
  /\ UNCHANGED <<agents, queues, agNow, starting, runs, words>>

(* ... logs what it found, resets the agent ...                            *)
PatrolReset ==
  /\ Patrolling /\ patrol.stage = "reset"
  /\ agents' = [agents EXCEPT ![patrol.at].state = "READY"]
  /\ patrol' = [patrol EXCEPT !.stage = "feed"]
  /\ UNCHANGED <<queues, agNow, starting, runs, words>>

(* ... and feeds it with that time.                                        *)
PatrolFeed ==
  /\ Patrolling /\ patrol.stage = "feed"
  /\ agents' = [agents EXCEPT ![patrol.at].fed = patrol.now]
  /\ patrol' = NextSlot
  /\ UNCHANGED <<queues, agNow, starting, runs, words>>

(* The next round begins before AgPatrolEvery ticks have passed since the  *)
(* last one began.                                                         *)
AgentTick ==
  /\ agNow < AgMaxTime
  /\ agNow < patrol.now + AgPatrolEvery
  /\ agNow' = agNow + 1
  /\ UNCHANGED <<agents, queues, patrol, starting, runs, words>>

-----------------------------------------------------------------------------
CreateOrDelete ==
  \/ CreateAutoAgent
  \/ \E a \in AgSlots : DeleteAgent(a)
  \/ ResetAllAgents

TeamNext ==
  \/ CreateOrDelete
  \/ \E a \in AgSlots \cup {NoAgent} : CreateSubAgent(a)
  \/ \E a \in AgSlots : CreateTeam(a)
  \/ \E a, b \in AgSlots : RegisterSub(a, b)

PreferenceNext ==
  \E a \in AgSlots :
    \/ \E sent \in AgWords : ConfigCommand(a, sent)
    \/ \E mask \in SUBSET MaskBits : SetAgentPreference(a, mask)
    \/ \E i \in DOMAIN SafetyLevels : SetAgentSafetyLevel(a, SafetyLevels[i])

PatrolNext == PatrolBegin \/ PatrolTest \/ PatrolReset \/ PatrolFeed

WatchNext ==
  \/ CreateOrDelete
  \/ \E a \in AgSlots :
       \/ \E period \in AgPeriods \cup {0} : WatchdogStart(a, period)
       \/ WatchdogStartFeeds(a)
       \/ WatchdogFeed(a)
  \/ \E t \in AgRunners : StepEnd(t) \/ \E a \in AgSlots : StepBegin(t, a)
  \/ PatrolNext
  \/ AgentTick

AgentNext == TeamNext \/ PreferenceNext \/ WatchNext

AgentSpec == AgentStart /\ [][AgentNext]_agVars

-----------------------------------------------------------------------------
Stalled(a) == Watched(a) /\ agNow - agents[a].fed > agents[a].period

(* The patrol detects stalled agents (agent.c:228), by a test that is safe *)
(* against wraps (agent.c:236): an agent it decides to put back to READY,  *)
(* the start of its watchdog complete, has not been fed for more than its  *)
(* period.                                                                 *)
FoundIsStalled ==
  [][PatrolTest /\ patrol'.stage = "reset" /\ patrol.at \notin starting
       => Stalled(patrol.at)]_agVars

(* An agent that is not fed any more is noticed: with a round of the       *)
(* patrol every AgPatrolEvery ticks, the time since an agent was last fed, *)
(* by itself or by the patrol, stays within its period and two rounds,     *)
(* however the tick wraps and whatever else happens to the slot            *)
(* (iAgentSupervise).                                                      *)
StalledIsNoticed ==
  \A a \in AgSlots :
    Watched(a) /\ a \notin starting =>
      agNow - agents[a].fed <= agents[a].period + 2 * AgPatrolEvery

(* An agent is shown as executing only while some thread runs a step of    *)
(* it, whoever recovers, deletes or creates it meanwhile (iAgentRunStep).  *)
ExecutingHasRunner ==
  \A a \in AgSlots : agents[a].state = "EXECUTING" => \E t \in AgRunners : runs[t] = a

(* The list of a parent stays within its size and names no slot twice,     *)
(* also when deleted agents leave their slots on it and these are given to *)
(* new ones (iAgentRegisterSub, xCreateSubAgent, vDeleteAgent).            *)
SubsWellFormed ==
  \A a \in AgSlots : Len(agents[a].subs) <= AgMax /\ IsInjective(agents[a].subs)

(* The preference of an agent that was configured by keywords is what the  *)
(* last of them says of each field, and the default where none speaks      *)
(* (comm_config_parse, iConfigureAutoAgentByKeywords).                     *)
LastKeywordWins ==
  \A a \in AgSlots : words[a] # <<>> => agents[a].pref = MeaningOf(words[a])
=============================================================================
