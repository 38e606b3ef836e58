# ZhiOS-AF in TLA+

ZhiOS-AF is a small operating system layer for AI on microcontrollers: a
scheduler for inference requests, a static tensor pool, a model runtime with
hot swap, agents that talk over queues, and a routing layer to cloud models. It
runs on FreeRTOS and, for tests, on a host port built on pthreads.

This directory models the system in TLA+. Each module is translated from the C
source; `PROJECT.json` maps every definition to the lines it stands for. TLC
checks the modules on small instances, and TLAPS proves the main safety
properties for every value of the constants.

    tlc -config InferenceAsync.cfg Inference.tla      # one run
    tlapm InferenceProofs.tla                         # one module of proofs

## 1. The system

### Components

| Component (under `src/`) | State | Operations | What makes it hard |
|---|---|---|---|
| Inference execution, `ai_kernel/inference_scheduler` | `g_async_gate` (counting semaphore), `g_cancel[8]`, one thread per asynchronous request | run, run asynchronously, batch, with timeout, cancel, start, shut down | no lock anywhere but in the semaphore; permits that outlive the gate; marks written in two steps |
| Inference task table, same file | `g_tasks[]`: name, base and boosted priority, deadline, state | create, delete, activate, complete, set deadline and boost, get next | slots are free by their name being empty; sentinel values of the scan |
| Model runtime, `model_runtime` | `g_models[]`: state, weights, size, checksum | register, load, unload, swap, execute | states overwritten by racing threads; weights replaced in place |
| Tensor memory, `ai_kernel/tensor_mem` | persistent bump area, temporary stack, table of objects | init, deinit, allocate, free, persist allocate and reset, statistics | frees out of order; exhaustion; wrap-around; a reset under pointers into the area |
| Security, `ai_kernel/security/security.c` | bound validators, watchdog table | check, bind, watchdog start, feed, expired | entries never removed, several for one model |
| Firewall, `ai_kernel/security/firewall.c` | commands, sources, payload limit, token bucket, counters | init, deinit, allow, set rate, check | a tick that wraps, fixed-point sums that wrap |
| NPU and DSP, `ai_kernel/npu_dsp` | list of devices | register, default, load, run | the first registered is the default; may fail |
| RTOS ports, `rtos/host`, `rtos/freertos` | threads, queues, mutexes, semaphores | the usual ones, with timeouts | timed waits, lost wake-ups, task flags |
| Agents, `agent/auto_agent`, `agent/sub_agents` | slots: state, inbox, preference, sub-agents, watchdog | create, delete, register, run a step, feed, supervise | supervision races with feeding; handles that outlive their agent; partial creation of a team |
| Message bus, `agent/message_bus` | sent and dropped counters over the agents' queues | send, broadcast, receive | full queues, partial broadcast, short buffers |
| Capability, `capability` | defaults and per-agent preference | configure by keywords, set safety level | later rules undo earlier ones |
| AI service, `ai_service`, `ai_service/cloud` | registry, contexts of four adapters, transport | register, init, route, chat, run, call a tool | configuration and transport change under a call; bodies that do not fit |
| Communication, `comm` | - | encode, decode, parse a configuration command | damaged lengths, bytes behind the frame |
| HAL and UART ring, `hal`, `docker/driver` | rings with two indices | inject, receive with a time limit | writer and reader without a lock |
| Kernel, boards, `kernel`, `bsp` | - | ordered start | order, a second start |
| Agent console, `tools/agent_console` | SQLite tables | create, rename, delete, train, data set | a thread per request on shared rows, restarts |
| Simulator, gateway, `tools`, `docker` | files, sockets | demonstrations | - |

### How they interact

An application thread or an agent calls `xRunInferenceAsync`. The scheduler
takes a permit from the gate, waiting for it up to one tick
(`zhio_sem_take(g_async_gate, 1)`, `inference_scheduler.c:305`), and starts an
`ainf` thread (`zhio_task_create`). The thread runs `xRunInference`: it looks
for a cancellation mark, asks the validator bound in `security.c`, and calls
`xModelExecute`, which marks the model RUNNING, calls the NPU back end and
writes the state again. Then it calls the user's callback and gives the permit
back. `iLoadModel`, `iUnloadModel` and `iSwapModel` change the same states and
weights from other threads. The weights lie in the persistent area of the
tensor pool and the tensors a run reads and writes in its temporary area. The
task table is separate: it answers which periodic task is to run next, and
nothing in the execution path reads it.

### What makes each part correct

* Execution: a permit is neither lost nor duplicated on any exit; at most
  `ZHIO_CFG_MAX_ASYNC_INFERENCE` requests are in flight; every accepted request
  is answered; a cancellation cancels the model it names, once.
* Task table: the chosen task is the best one of those ready.
* Model runtime: RUNNING ends; weights and checksum agree; a swap does not
  disturb a run.
* Tensor memory: blocks in use are disjoint and inside the area; counts are
  right; what is freed can be used again.
* Agents and bus: a stalled agent is found in time, and what is found is stalled;
  an agent shown as executing has a runner; a broadcast reaches all, or a prefix it can
  tell; the statistics never count what did not happen.
* Ports: queues are FIFO and lose nothing but by a reset; nobody sleeps on an
  item or a place that is there.
* Firewall: no more packets than the bucket earns, and no fewer than are due.
* Capability and service: the last keyword decides; a routed inference honours
  its mode; what is copied and printed fits, and a request is posted as printed.
* UART and frames: bytes in order, once each; a frame that is accepted is the
  one that was sent.
* Start and console: what is registered is used; a run that is shown as running
  is running, or was cut short.

`PROJECT.json` lists the hazards behind these one by one, each at its line.

## 2. The modules

| Module | Models | Kind |
|---|---|---|
| `AsyncService` | what the asynchronous entry promises | abstract specification |
| `Inference` | gate, workers, marks, safety check, states of models | detailed specification |
| `InferenceProofs` | theorems about `Inference` | proofs |
| `InferenceTasks`, `InferenceTasksProofs` | the task table and the choice of the next task | specification, proofs |
| `TensorMem`, `TensorMemProofs` | temporary area and object table | specification, proofs |
| `ModelStore`, `ModelStoreProofs` | persistent area composed with the model table | specification, proofs |
| `Tables` | the three above side by side | composition, model checking |
| `Fifo` | what a queue promises | abstract specification |
| `HostQueue`, `HostQueueProofs` | the host port's queue: ring, mutex, condition variables | detailed specification, proofs |
| `Firewall` | lists, token bucket and counters | specification |
| `Preferences` | defaults, keywords, mask and safety levels as operators | pure operators |
| `Agents`, `AgentsProofs` | slots, teams, preferences over `Preferences`, steps, watchdogs, patrol | specification, proofs |
| `MessageBus`, `MessageBusProofs` | sending, broadcasting and receiving over the inboxes of `Agents` | specification, composed, proofs |
| `CloudRouting` | adapters, transport, registry and routing | specification |
| `UartRing` | the ring of a UART, implements `Fifo` | detailed specification |
| `Frames` | coding and decoding of frames on a line that flips bits | pure operators, specification |
| `Kernel` | start, devices and watchdogs over `Firewall` | specification, composed |
| `Console` | requests on the database | specification |
| `Services` | the eight from `Firewall` on, side by side | composition, model checking |
| `ServicesProofs` | firewall, start and watchdogs, ring, frames, cloud, console, and all services side by side | proofs |

A definition whose name ends in what a bug would do (`AsyncReleaseKeepsPermit`,
`AlignDown`, ...) is a faulty variant of the definition after it. No
specification uses these variants. Put in the place of the right definition,
each makes TLC report the property it is listed with under `mutants`, which
shows that the property can fail.

### Inference

One thread is one element of `Threads`, with a program counter `pc` and the
model `on` that its current operation is about. Each read and each write of
shared state that another thread can come between is a step:

| Code | Actions |
|---|---|
| `xRunInferenceAsync` | `AsyncTake`, or `AsyncWait` with `AsyncWaitTakes`, `AsyncRefused` or `AsyncWaitFreed` after it; then `AsyncSpawn` or `AsyncSpawnFails` |
| `async_infer_task` | run steps, `AsyncCallback`, `AsyncRelease` |
| `xRunInference`, batch and timeout entries | `SyncCall`, `CheckCancelled`, `ClearMarks`, `Validate` |
| `xModelExecute` | `ExecuteCheck`, `ExecuteEnter`, `ExecuteFinish` |
| `xCancelInference`, `cancel_mark` | `CancelScan`, `CancelValid`, `CancelName`, or `CancelDropped` |
| `iLoadModel` | `LoadVerify`, `LoadDevice` |
| `iUnloadModel` | `UnloadCheck`, `UnloadWrite` |
| `iSwapModel` | `SwapCheck`, `SwapCommit` |
| `iInferenceSchedulerInit`, `vInferenceSchedulerDeinit` | `SchedulerInit` publishes the empty gate, `SchedulerGive` is each of its gives; `SchedulerDeinit` |

Choices made:

* A refusal that changes nothing and waits for nothing (ZHIO_E_BUSY from unload
  and swap, bad arguments) is not a step. A refusal at the gate is the end of a
  wait. There is no clock: the tick of the wait may pass at any moment, and a
  newcomer may take the permit that a waiting thread was woken for.
* Result codes, elapsed time, `run_count` and cycle counters are left out: no
  branch that changes the modelled state reads them. The back end's verdict and
  the validator's are free choices.
* `is_cancelled` and `cancel_clear`, which loop over at most eight entries, are
  one step each. `cancel_mark` is three, since the order of its two writes is
  what matters.
* The callback does nothing to this state. It runs before the permit goes back,
  so a callback that submits a request at the limit finds the gate empty.
* `GateCapacity` is the port's: the host's semaphore counts, while FreeRTOS gets
  a binary one (`rtos/freertos/zhio_rtos_port.c:102`), that is capacity 1, and
  the loop of gives at `inference_scheduler.c:71` then leaves one permit. `FullGate`
  says so, and the
  theorems hold for every capacity.
* Thread records are not reused: the host port frees a record only in
  `zhio_task_delete`, which nobody calls for an `ainf` thread. `Workers` is
  therefore the supply of requests a run can have.
* A behaviour starts after a successful `iInferenceSchedulerInit`. When
  `zhio_sem_create` fails there is no gate, and no limit.
* A shutdown frees the gate under its users. A thread that waits for a permit
  then reads freed memory (`freed`), and its wait may end in any way: refused,
  with a permit that is nobody's, or with one of the gate that was given the same
  memory. The window between the test of `g_async_gate` and a give, where the code
  would write to freed memory, is not modelled.

### InferenceTasks

The table is a function from slots to records. `xInferenceSchedulerGetNext` is
modelled iteration by iteration, with the loop's own variables, so that its
invariant can be stated and proved. The table has no lock; the module models
its use by one thread, which is how `src/` uses it: no other operation happens
between two iterations. No code sets RUNNING, SUSPENDED or ERROR, so the
refusal of `xDeleteInferenceTask` never happens. `deadline_ticks` is compared
as a number, as the code does, and is not added to the clock.

### TensorMem

Offsets and sizes are numbers modulo `Word` (2^32 in the code). `live` is the
set of handles in use, `top` the stack pointer. `lifo` is a history variable:
TRUE as long as every free was of the topmost tensor. The area is used by one
thread at a time. Canary bytes, alignment statistics and the no-op
`xDefragmentPool` are left out.

### ModelStore

The bytes of the persistent area, a bump pointer and the table of models. Weights are
a size and a filling, the checksum is the filling it was taken of. `stale` is a
history variable: the models registered when the area was reset under them.
Models are not RUNNING here; the race of a swap with a run is in `Inference`.
A swap may bring zero bytes, which `model_runtime.c:125` lets through, a
registration may not.
Offset plus size stays below 2^32, as a size is that of a buffer that exists.

### HostQueue

What a thread does while it holds the queue's mutex is one step; the mutex is
released only by `pthread_cond_timedwait` and at the end of a call. A thread is
idle, waits on `not_full` or `not_empty`, or has been woken and wants the mutex
back (`wokenS`, `wokenR`). A signal wakes any one of the waiting threads. What
POSIX leaves open is left open: a thread may wake without a signal
(`SpuriousWake`), and one that has been signalled may report a time-out all the
same, which spends the signal. There is no clock: a wait may time out at any
moment, and a woken thread that finds nothing waits anew, as in the code, which
computes the time to give up inside the loop. Timeout 0 is a call that finds
nothing and changes nothing. `zhio_queue_send_isr` needs no thread.

### Firewall

Time (`fwNow`) never wraps; the code's tick is this time modulo `FwWord`, so the
difference of two ticks is the elapsed time modulo `FwWord`, and the tokens are
cut to the word where the code cuts them (`Refilled`). The rules are sets: an
entry is never removed, so the valid ones are the first and the loop finds a rule
that is there before it finds a free entry. That a full list refuses is
`WithRule`. `fwHistory` counts packets, tokens spent, and when the bucket was set.
`xFirewallCheck` is one step. No lock protects it, and `firewall.h:10` names five
channels whose packets it is to see; in `src/` one thread calls it, and two that
overlap in it are not modelled. `Count` follows the code: a packet is counted as
allowed first, and every refusing exit takes that back.

### Preferences and Agents

| Code | Actions |
|---|---|
| `slot_alloc`, `xCreateAutoAgent`, `xCreateSubAgent`, `iSubAgentsCreateTeam` | `CreateAutoAgent`, `CreateSubAgent`, `CreateTeam` over the operators `SlotAlloc`, `WithSubAgent`, `WithTeam` |
| `iAgentRegisterSub`, `vDeleteAgent`, `vAgentResetAll` | `RegisterSub`, `DeleteAgent`, `ResetAllAgents` |
| `comm_config_parse`, `iConfigureAutoAgentByKeywords` | `ConfigCommand` over `ParsedWords`, `ByKeywords` |
| `iSetAgentPreference`, `iSetAgentSafetyLevel` | `SetAgentPreference`, `SetAgentSafetyLevel` |
| `iAgentWatchdogStart`, `xAgentWatchdogFeed` | `WatchdogStart` writes the period, `WatchdogStartFeeds` feeds; `WatchdogFeed` |
| `iAgentRunStep` | `StepBegin`, then anything, then `StepEnd` |
| `iAgentSupervise` | `PatrolBegin` reads the clock; for each slot `PatrolTest`, and if it fails `PatrolReset` writes the state and `PatrolFeed` the feed |

Feeding reads the tick and stores it in one step. Between any two steps of the
patrol agents are fed, start and end steps, are deleted and created. The code
leaves it to the application to call `iAgentSupervise` periodically; `AgPatrolEvery`
is that period, and `AgentTick` lets time pass only so far that the next round begins
within it. Period and two rounds must be less than 2^32 ticks.

A handle is a slot number. `queues` only grows: `vDeleteAgent` resets the inbox
and drops the pointer, so the object is lost to the heap, whose room is
`AgMaxQueues`; a creation that gets no queue leaves a filled slot that is not
valid. A preference is a record with thresholds in hundredths; a keyword is the
set of fields it assigns (`Effects`), and `MeaningOf` is the reference definition.

### MessageBus

A thread that sends is a program counter over a list of inboxes. Looking the
agent up and reading its inbox are two steps, since the agent may be deleted in
between (it then sends to no inbox and is refused); `g_sent++` is a load and a
store. The queue takes a message or refuses it in one step, which `HostQueue`
shows to be what a caller sees. A receiver whose buffer is too short has taken the
message off the queue all the same, so receiving is one action for both ends.

### CloudRouting

A text is a length and the place of its first NUL. A request is refused, or has
the length told to the transport (`body`), what `snprintf` stored of it
(`printed`) and what was written to `msgbuf` (`copied`): a payload is copied whole
with a NUL behind it, and is a string from there on, so that a binary one is cut at
its first NUL. Lengths of the fixed parts are those
of the format strings in UTF-8 bytes. `xRouteInference` is `RouteLocal`, which
runs the model and decides, and `RouteCloud`, which builds the prompt and posts
it; adapters are configured and the transport is set in between. `NoAdapter` is a
null handle or an adapter without `chat_completion`, which the code treats alike.
A mode that is none of the five is found out after the local run
(`ai_service.c:111`). The thresholds are the ones in the code; it does not read
`local_confidence_threshold` of `capability.h:28`. Calls from
outside are a single step (`CloudCall`), their result being the transport's.

### UartRing and Frames

The ring's push is test, write of the byte, publication of the index; its pop is
test, read, advance. They take effect in program order: on one core, or on the
host with the thread that injects being the thread that reads. On several cores
the code has neither barriers nor `volatile`, and the result is open. What the
model shows is that no lock is needed beyond that. The refinement mapping reads the
bytes between
`tail` and `head` as the contents of a `Fifo` of size minus one.

Bytes and words are sets of bits, and the checksum is computed bit by bit as in
`comm_crc32`; a frame is sent, the line flips bits in it, and the receiver's
buffer holds the frame, a part of it, or bytes behind it. A payload over the
limit is refused by the encoder and never sent (`comm.c:40`). The two loops of
`comm_crc32` are recursive functions (`CrcByte`, `Crc32`) over `CrcBit`, one turn of
the inner one.

### Kernel and Console

`SystemInit` is a successful `zhio_system_init` over whatever was there before:
it resets firewall, devices and watchdogs. Watchdogs are the list of valid
entries, and the first entry of a model decides. `Console` takes one SQLite
transaction as a step; a request that trains selects, inserts, trains and
updates, and others run in between. A row whose agent is gone is refused by the
foreign key. `ConsoleRestart` is the end of the process and a new one on the same
file.

### Tables and Services

`Tables` puts the task table, the tensors and the models with their weights side by
side: none reads what another writes. `Services` does so for everything around
inference. Its units share no state except through the modules composed above: `MessageBus`
extends `Agents` extends `Preferences`, `Kernel` extends `Firewall`. A behaviour
of either picks a unit in its first state and stays with it, so the state
space is the sum of those of the units. An interleaving of two units that share
no variable projects to a behaviour of each, and no property relates two units,
so nothing is lost. Units of one module ("team", "preferences", "patrol", "bus")
do share state: they are four bounded views of the agents, each with the actions
its properties are about together with creation and deletion.

## 3. What is model-checked

| Run | Question | Bounds |
|---|---|---|
| `async` | Are permits conserved, requests answered, and the service implemented, and what survives a shutdown? | 2 application threads that submit, one of which cancels and the other manages the model; 2 workers, 1 permit in a semaphore that holds 2, 1 mark, 1 shutdown: one waits for the permit the other holds, a thread creation fails, the validator rejects, a worker ends cancelled, the shutdown comes under a wait and under requests in flight, which give to the next gate |
| `models` | Is RUNNING ever left behind, does a mark outlive its cancellations? | 2 models, 2 threads that run and cancel, one that also manages, 2 marks: duplicates, a full table, and both writers in one slot occur |
| `tables` | Does GetNext choose the best task; are tensors disjoint under any order of frees; do registrations and swaps keep weights intact? | tasks: 3 slots, 2 priorities, 2 deadlines with the last tick among them, so that ties, boosts, empty names and never-chosen tasks occur. Tensors: room for five and four objects, sizes 0, one unit, just over, three units: either resource runs out first. Weights: two models of up to half the area, swaps to nothing: the area and the table each run out first |
| `queue` | Is the queue FIFO, and is a wake-up ever lost? | 3 threads that send and receive, ring of 2: two wait for the same thing while the third acts, the indices wrap, resets hit waiting senders |
| `services` | Do the services around inference keep what they promise? | thirteen units, see below |
| `accelerator` | Does a registered accelerator run? | refuted: the start, then one registration |
| `swap_tears` | Is a swap double-buffered? | refuted: 1 runner, 1 manager |
| `late_run` | Does a run's end leave the documented machine of states intact? | refuted: 1 runner, 1 manager |
| `cancel_torn` | Does a cancellation hit its model? | refuted: 1 canceller, 1 runner, 2 models, 1 mark |
| `tensor_holes` | Is all memory free again when no tensor is in use? | refuted: frees in any order |
| `patrol` | Is an agent that the patrol resets stalled? | refuted: 2 slots, 1 runner, period 1, ticks of 3 bits |
| `refill` | Does a packet find the tokens that are due? | refuted: fixed-point sums of 3 bits |

Units of `services`:

| Unit | Bounds and what occurs in them |
|---|---|
| team | 3 slots, 3 inboxes ever: a team of five runs out of slots or inboxes in the middle, slots are given again and registered anew, lists are full |
| preferences | one agent, lists of two of eleven keywords and the empty one, every mask and level: each pair of keywords in both orders |
| patrol | 2 inboxes ever, 1 runner, period 1, a round in every tick, time 3 to 8 with ticks of 2 bits, so that they wrap twice: feeds, steps, deletions and creations come between the clock, the test and each write |
| bus | 2 threads, 2 messages, inboxes of one place: a broadcast fails at each target, the increments overlap, the bus restarts |
| registry, calls, routing | 2 places, lengths on both sides of every limit, names of models that are missing, usual, and so long that no prompt fits beside them, confidences on both sides of 70 and 85 hundredths |
| uart | ring of 4, calls of up to 2 of two bytes: full, empty and wrapped |
| frames | empty payload and two bytes, every two flipped bits, buffers that end early or late |
| firewall | ticks of 2 bits through one wrap, two bursts, a list of one place: tokens and tick wrap |
| devices, watchdogs | 2 places, 2 models, 2 periods: full tables, entries of one model twice |
| console | 2 threads, 2 names of which one the trainer knows, 2 agents, 2 rows: overlapping trainings, a rename under training, restarts |

Two runners are enough for the races on a model's state, because a step reads
and writes the state of one model and two threads give every order of two
operations. With one permit two submitters exhaust the gate, and a second worker
starts after a shutdown beside one of the old gate. A semaphore that holds more
than one and the binary one of FreeRTOS differ in `FullGate` only, and the theorems
hold for both. In any case the safety properties of the passing runs are proved for
all sizes (section 4), except `ScatteredFlipsSeen`.

The properties, in words:

* `PermitConservation`: permits in the gate plus requests that hold one equal the
  capacity, until a shutdown. Every early
  return of `xRunInferenceAsync` and of the worker counts, the cancelled one too.
* `AsyncLimit`: at most `MaxAsync` requests in flight **until the first
  shutdown**. After one, requests find no gate and run unlimited, or find a new
  full one while old ones still run; TLC finds this when the premise
  `restarts = 0` is dropped.
* `PermitsReturn`, `RequestsAnswered`: liveness of the gate and of requests,
  across shutdowns too, for requests that are cancelled as for all others.
* `ImplementsService`: `Inference` refines `AsyncService` (active = workers in
  flight, answered = workers that ended, limited = never shut down). The abstract
  service has a limit until its first shutdown and answers what it accepted across
  all of them; `async` checks it through one shutdown, `PathImplementsService`
  proves it for any number.
* `RunningHasExecutor`, `BusyEnds`: a model that refuses to be unloaded or
  swapped does so because a run is inside it, and only for a time. The converse
  is not true: the first of two runs to end makes the model READY while the
  other still runs.
* `RunEndsRunning`: the state machine documented at `model_runtime.h:5`, seen from
  the end of a run. It fails, even with one thread that runs the model: a load, an
  unload or a swap that comes in between is overwritten (run `late_run`).
* `MarksAsked`: a complete mark stands for a cancellation not yet answered. A
  run that answers one takes the duplicates with it.
* `ChosenIsBest`: higher effective priority first, then the earlier deadline,
  then the lower slot. A task of priority 0 with the deadline 0xFFFFFFFF is
  never chosen (`Eligible`).
* `LiveDisjoint`, `LiveBelowTop`, `CountIsLive`: see the module.
  `ZeroFragmentation` is what the header promises, under the LIFO discipline
  that `tensor_mem.c:188` says it does not enforce; `IdleAreaIsFree` is the
  promise without the discipline, and fails.
* `WeightsIntact`, `NoFalseAlarm`: weights and checksums agree unless the area is
  reset under the table, which a second `iTensorPoolInit` does.

* `NoLostWakeup`: while receivers wait, there are at most as many items as woken
  receivers, and the same for senders and places, until a woken thread times out
  (`late`). That exception is real: afterwards an item may lie in the queue while a
  receiver sleeps until its own timeout; TLC finds this when the premise is dropped.
* `ImplementsFifo`: `HostQueue` refines `Fifo`, with `Contents`, the ring read from
  `head` on, as the refinement mapping.

* `FoundIsStalled`: an agent that the patrol decides to reset, the start of its
  watchdog complete, has not been fed for more than its period. It fails (run
  `patrol`): the clock is read once, and for an agent fed after that the unsigned
  difference is huge. A second way, not needed for it: between the test and the
  writes the agent may be fed and begin a step, and is reset all the same.
* `StalledIsNoticed`: an agent with a watchdog has been fed, by itself or by the
  patrol, within its period and two rounds. It is a bound in time, and it supposes
  that the rounds come as often as `AgPatrolEvery` says.
* `ExecutingHasRunner`: no agent is left in EXECUTING by any order of steps,
  deletions, creations and patrols. The converse is false: a recovery, or the first
  of two steps on one agent to end, makes it READY while a step runs.
* `SubsWellFormed`: deleted agents stay on their parent's list, and slots are
  given again; a slot is still listed once.
* `LastKeywordWins`: the folded assignments agree with a meaning stated field by
  field.
* `StatsNeverAhead`: overlapping increments lose counts and never invent them.
* `BroadcastPrefix`: after a broadcast that failed, those that have the message
  are exactly those before the one that refused.
* `PostsFitBuffers`: for every adapter and kind of request a payload with its NUL
  stays inside `msgbuf`, and the length told to the transport is what `snprintf`
  stored, so no body is cut short and no byte behind it is sent. Nothing is claimed
  of a binary payload behind its first NUL: it is not sent.
* `RouteHonoursMode`: what a mode allows and demands of a routed inference, see the
  module. Its last part says that an answer of the cloud is there only if something
  was posted. TIMEOUT does not say so: a prompt that does not fit beside a long
  model name is not posted, and the inference is reported as TIMEOUT all the same
  (`RouteCloud` with a body that is refused).
* `RingIsFifo`: `UartRing` refines `Fifo`, as `HostQueue` does.
* `FramesSurvive`: an undamaged frame is accepted, and what is accepted is what was
  sent, through any damage within four neighbouring bytes; `ScatteredFlipsSeen` says
  the same of flips far apart, two of them in the run. Both leave out a damaged
  length (`LengthIntact`). `comm_frame_decode` uses the length before it has compared
  the checksum that covers it (`comm.c:62`), so that of a frame with a damaged one
  other bytes are checked against other bytes, and what they are is up to the
  payload and to what follows the frame. No property of the checksum excludes that
  they agree.
* `RateBounded`: proved as well, see section 4. It is an upper bound.
  `RefillsWhatIsDue` is the lower one, and fails (run `refill`): after a pause in
  which the tokens earned pass 2^32 the bucket may have fewer than before.
* `ExpiredWasUnfed`: with several entries for one model, feeding must reach all.
* `NoOrphanRun`: a row stays `running` only if its request was cut short.

### Disagreements between code and text

1. `iSwapModel` writes in place, in one buffer, after a test made earlier; the
   header of the file says it is double-buffered (run `swap_tears`).
2. The end of a run overwrites the state whatever it is by then: a model that was
   unloaded, is being loaded, or has a wrong checksum becomes READY
   (`model_runtime.c:192`, run `late_run`), though in the machine of
   `model_runtime.h:5` a run leads to READY from RUNNING alone.
3. `cancel_mark` sets the flag before the handle, so a run of the model that
   used the slot before is cancelled (run `cancel_torn`).
4. Out-of-order frees lose memory until the next init; the header promises
   fragmentation below one per cent (run `tensor_holes`).
5. `zhio_system_init` forgets all devices and registers the simulated one first,
   and the default is the first: an accelerator that is registered is not used,
   though `npu_dsp.c:17` says that registering it is all there is to do
   (run `accelerator`).
6. The patrol finds agents stalled that have just been fed: the clock is read once
   (`agent.c:232`), and the test at 237, said to be safe against wraps, takes a feed
   that is later for one that is nearly 2^32 ticks ago (run `patrol`).
7. After a long pause the tokens are cut to 32 bits before they are limited
   (`firewall.c:121`), so that fewer are added than the comment at 120 says are due
   (run `refill`).

Seen while modelling, without a run of their own: the limit of a swap is the
current size and not the reserved one, so it can only shrink
(`model_runtime.c:129`); `xCancelInference` returns ZHIO_OK when the table is
full and the mark is dropped (232); `align_up` maps the last seven sizes of
uint32_t to 0; `iModelRuntimeInit` forgets the models but not the space of their
weights (52); `iSetAgentSafetyLevel` can be undone by a later list of keywords.

Agents and bus: the inbox of a deleted
agent is never freed (102), so creations fail after enough deletions; a team of
five cannot be created with fewer slots and leaves what it created; a message too long for
the receiver is lost (`message_bus.c:61`). Level HIGH leaves the cloud allowed,
while the comment at `capability.c:82` says that high levels disable it.

Watchdogs: one started again keeps its
first period and uses up an entry (`security.c:59`).

Cloud: CLOUD_ONLY runs the model locally first and returns its failure
(`ai_service.c:90`); routing takes the adapter it is given and does not ask the
registry; the prompt (126) contains quotes that no adapter escapes, so the posted
body is not JSON; `iCloudAdapterInit` keeps a configuration that the adapter
refuses (49), and prints "(null)" for its model; the name of a model is not
checked there either, and a name that leaves no room for the prompt (391 bytes
for Claude) makes every routed inference end with ZHIO_E_TIMEOUT though nothing
was posted; a task, documented as binary at
`openai_adapter.c:151`, ends at its first NUL; the A2A tool call drops the tool's
name.

UART: bytes of a reception that times out are neither returned nor kept
(`hal_host.c:97`). Console: the training that ends first closes every running row
of its agent with its own results (`app.py:287`), so the result of the second is
in no row; a failed training, or one cut by the end of the server, says `running`
for ever although the schema names a status `failed` (`schema.sql:32`); two
requests that find the data set empty fill it twice (310). Start: the scheduler
is started before the pool, while the comment at `kernel.c:16` gives the opposite
order.

### Fairness

`FairSpec` has weak fairness for the steps of an operation a thread is inside
of and for the gives of a start, and none for starting one. Both ports schedule
preemptively. The one wait in the path is that for a permit, which ends after a
tick. The back end, the validator
and the callback are assumed to return: the code has no means to end a back end
that hangs, because its timeout is compared after the call. The fairness is per
thread. Each choice inside it (a creation that fails or not, a rejection or not)
stays free.

The services have no fairness. `StalledIsNoticed` rests on an assumption about time
instead: `README.md:121` and `RELEASE_NOTES.md:67` say that `iAgentSupervise` is
called periodically, and `agent.h:74` that the main loop or a task of low priority
does it. `AgentTick` lets no tick pass that would put the beginning of the next round
more than `AgPatrolEvery` after that of the last. `AgMaxTime` bounds the run alone, and
the theorem holds without a bound.

## 4. What is proved

All theorems assume only the named ASSUMEs of the modules, which TLC evaluates in
every run: sizes are naturals, sets of threads that are counted are finite
(`BusThreads`, `TrainerAgents`, and those of `Inference`), the null values are not
elements, and a frame's length fits its 16 bits (`FrameMaxPayload + 9 < 2^16`; the
code's limit is 256). Two kinds of theorem have a premise of their own: `NoWrap` on
sizes in `TensorMemProofs`, and a limit on names in `TimeoutsWerePosted`.

* **`InferenceProofs`**. `TypeCorrect`: `TypeOK` is not inductive by itself; a
  canceller in the middle of `cancel_mark` must be known to be a canceller with a
  slot (`CancellerOK`). `PermitsConserved`: `PermitConservation` with the type
  invariant, of which `GateOK` says that before a shutdown there is a gate and no
  start owes it a permit; the lemmas say what one step does to the set `Holders` and that its
  cardinality moves by one as the gate does. A give at a full gate would be lost;
  it cannot happen, since a holder who gives implies `gate < FullGate`.
  `LimitUntilShutdown` follows from that and `FullGate <= MaxAsync`.
  `BusyHasReason`: inductive, because a thread that leaves the back end
  overwrites RUNNING even when others remain inside. `MarksAreAsked`: needs
  `SlotOwned`, that only a canceller inside `cancel_mark` has a slot picked: one
  that has written its handle no longer excuses the slot. `PathImplementsService`:
  every step maps to `Accept`, `Answer`, `Shutdown` or a stutter, through any number
  of shutdowns and starts. Before the first one a request that gets its thread holds
  a permit, so that `PermitConservation` gives the guard of `Accept`; afterwards
  the abstract service asks for none.
* **`InferenceTasksProofs`**. `ChoiceCorrect`: the loop invariant says that what
  has been seen so far holds no eligible task (`NoneYet`), or that `best` is the
  best of it (`BestYet`); every other operation leaves the loop alone.
* **`TensorMemProofs`**. `Disjointness`: tensors in use are pairwise ordered by
  offset (`Apart`), each ends at or below the top (`Stacked`) and fits (`Fits`).
  The theorem has the premise `NoWrap`: no size is so near 2^32 that its aligned
  end wraps. Without it a request of 0xFFFFFFF9 bytes or more succeeds and reserves
  nothing. `CountCorrect` needs no premise.
* **`HostQueueProofs`**. `RingInv` is the inductive invariant: `TypeOK`, `tail` is
  `count` places after `head` (`RingOK`), and no thread both waits and has been
  woken (`Apart`, without which a sender could lose its message while it waits).
  `WakeupsKept`: an insertion either wakes one more reader or finds none that
  waits (`InsertOwes`), a removal does the same for senders (`RemoveOwes`), and a
  woken thread that leaves takes what it was owed. `QueueIsFifo`: an insertion is
  `Put`, since the place that `tail` names is none of those in use
  (`TailIsFree`), a removal is `Get`, a reset is `Clear`, and all else stutters.
* **`ModelStoreProofs`**. `WeightsKept`, `NoModelCondemned`: regions lie below the
  bump pointer (`Placed`) and are disjoint (`Apart`); a swap writes inside its own
  region since the limit is the current size; writing elsewhere leaves a checksum
  right.
* **`AgentsProofs`**. `AgentInv` is about the pool alone, `SlotsInv` adds types and
  what keywords mean. `ListsWellFormed`: `Registered` is the only operator that
  lengthens a list, and it looks for the slot before it appends; a creation in the
  middle of a team keeps this of the whole pool (`PoolOK`). `ExecutingIsRun`:
  EXECUTING is written by `StepBegin` alone, and whoever ends a step writes READY.
  `StallsAreNoticed`: when the patrol read its clock, a slot that the round has
  behind it had been fed within its period, and one that lies before it within its
  period and a round (`Noticed`). A visit takes a slot from the second kind to the
  first: as period and two rounds are less than the word, the unsigned difference of
  an overdue agent that nobody feeds is its true age, so that the test finds it, and
  what the patrol feeds has the time of the clock. An agent that is found by mistake
  (run `patrol`) is fed with that time too and is no older for it than the invariant
  allows. `AgentsTyped`: every creation, also one that fails half way, leaves
  slots and inboxes in range. `LastWordsMean`: the loops over keywords are
  recursive functions on the length of the list, and the field that results is that
  of the last keyword that assigns it, for lists of any length; the induction takes
  the least length that fails (the numbers are well founded, a fact of the library),
  as no prover here instantiates an induction theorem.
* **`MessageBusProofs`**. `BusInv` says of each sender what it owes. `StatsHonest`
  counts: what the queues took is at least the counter plus the threads between the
  delivery and the store of a stale value (`Counted`, `Pending`), so that
  increments that overlap only lose. `BroadcastReached`: a sender has visited a
  prefix of its list, and the inboxes in its log are those of the prefix (`SendOK`),
  also when an agent is deleted between the look-up and the read of its inbox.
  `BusIsTyped`, and `AgentsBesideSenders`: sending preserves all that `AgentsProofs`
  shows, as it touches nothing but the inboxes.
* **`ServicesProofs`**, by component:
  * Firewall. `FirewallInv` is `FirewallTypes` and `RateBounded` together. `RateLimit`:
    a refill adds at most rate times
    the time that really passed, because cutting to the word only makes numbers
    smaller (`Cut`), and a packet let through moves one token from the bucket to the
    tokens spent. It holds for every rate, burst, unit and word, so also where ticks
    and sums wrap.
  * Kernel. `RateLimitAcrossStarts`: a start rewrites the firewall from outside and
    keeps its invariant. `ExpiryIsJust`: the oldest entry of a model decides
    whatever later entries say, while a feed reaches every entry. `KernelIsTyped`.
  * Ring. `RingIsQueue`: `UartInv` says of each thread what it knows between two
    steps. A writer that has passed its test, and one that has written, has in hand a
    ring that was not full, since only the writer moves `head` and the reader only
    makes room. Hence the byte stored is none of those in use and the store stutters;
    the publication is `Put`, the advance is `Get`, the byte that the reader has read
    being still the oldest; an initialisation is `Clear`. `UartIsTyped`.
  * Frames. `FramesAlwaysSurvive`. `FrameInv` says that what is on the line is what
    was encoded but for the bytes in which a bit was flipped (`Carried`). What
    `comm_frame_decode` reads of an undamaged frame is what `comm_frame_encode` wrote
    (`DecodeWhole`): the bits of a 16-bit length are those of its two bytes, the bits
    determine a byte, and the places that decode reads are the parts of the sequence
    that encode put together. Of a damaged one it reads something that differs from
    what was sent within four neighbouring bytes, checksum included, and `BurstSeen`
    says that two sequences whose checksums are consistent do not differ so. Its
    argument: a turn of the inner loop maps the difference of two words to the
    difference of the results (`ShiftsDiffer`), and because the polynomial has the
    top bit, a result without it tells the word before (`ShiftedBack`); eight turns
    back, a difference without its top byte tells what there was before the byte
    (`CrcByteBack`). From the end of the window backwards the words differ in ever
    one byte more, never in a whole word (`Small`); before the window they are equal;
    so forwards no byte of it differs. It uses of the polynomial only its top bit,
    while `PolyRotates`, which has it as well, fails `ScatteredFlipsSeen`.
  * Cloud. `PostsFit`: the bounds of the buffers, by cases of adapter and kind of
    request. `RoutesHonourModes`: what is known of a routed inference after its local
    part, kept through changes of adapters and transport, a mode that is none
    included. `TimeoutsWerePosted`: with names of models of at most 390 bytes, TIMEOUT
    means that the request was posted; with longer ones it is false. `CloudIsTyped`.
  * Console. `RunsAreOwned`: the row that a request trains exists, and a request
    that ends closes its own row along with the others of its agent, renamed or not.
    `ConsoleIsTyped`: names stay distinct and no run is without its agent, though
    agents are renamed and deleted between a request's read and its insert.
  * All together. `ServicesTyped`, `TeamKeepsPromises`, `SystemKeepsPromises`: a
    behaviour of `Services` is one of each component's specification, because a step
    of a unit is a step of its component and a stutter of all others (`BusInServices`,
    `CloudInServices` and their like), so that what is proved of each part holds of
    the composition. The conclusions are properties of the run `services`:
    `TeamKeepsPromises` those of agents, bus and routing, `SystemKeepsPromises`
    those of firewall, watchdogs, ring, frames and console.

`TensorMemProofs` also holds `RoomBelowTop`, from `Stacked`, and `NothingLost`, where
under the LIFO discipline the topmost tensor ends exactly at the top
(`TopmostEndsAtTop`), so that a free gives back all of it and no byte below the top
is without an owner. Both have the premise `NoWrap`.

Only model-checked:

* the liveness properties (`PermitsReturn`, `RequestsAnswered`, `BusyEnds`), hence the
  liveness part of `ImplementsService`: the provers
  have no support for ENABLED, on which fairness rests;
* `ScatteredFlipsSeen`. It rests on the distance of the checksum's code, a matter of
  computing the order of this one polynomial, which the provers cannot do; and no
  checksum of 32 bits promises it for any number of flips.

No module has a RECURSIVE operator.

## 5. What is not modelled

Listed with reasons in `PROJECT.json`. In the parts that are modelled:

* writes to freed memory (`vInferenceSchedulerDeinit` against a give; weights that a
  model still points to after `vTensorPoolDeinit`), and two threads in the tensor
  pool, the task table or the firewall at once (no code in `src/` does it);
* canaries, formats, names and versions of models, `iModelSetState` (which
  nothing calls), logging and the audit counters;
* names, priorities, stack sizes and decision counts of agents; messages'
  contents; the time a send or a receive waits (see `HostQueue`);
* responses of the cloud beyond their length, API keys, the time-outs handed to
  the transport; the text that `comm_config_parse` writes, and its failing
  allocation (`comm.c:122`), which leaks the keywords before;
* a start that fails at the board or the pool, of which the application sees the
  result code;
* the console's configuration, monitoring and mirror of the firewall, and its
  static pages; GPIO, CAN, SPI, I2C and flash of the host HAL, which are stubs.

Not modelled as components: boards and start-up code (registers), the simulator
(a separate program in Python for demonstrations), the gateway (pure I/O), tests
and examples (read as documentation).

## 6. Plan

Done: every component with logic of its own has a module, every safety property
of a passing run is proved for all sizes, but for bits flipped far apart in one
frame, the path of a request implements its abstract service through shutdowns,
and the composition is proved to keep what its parts promise. What is left:

1. A model of freed memory, for the window between the test of the gate and the
   give, and of two threads in the tensor pool or in the firewall, should `src/`
   come to use them from two. `PROJECT.json` says of each hazard without a property why
   it has none.
2. The abstract service of a routed inference (what a mode promises its caller) as
   a module of its own, refined by `CloudRouting`.
