# SteelEagle: a TLA+ development

SteelEagle flies drones from a ground station through a backend. A commander's
RPC goes to the *Swarm Controller* in the cloudlet, over ZeroMQ to the *kernel*
of a vehicle, and from there to a driver, a mission or a compute service. The
kernel decides by a *control law* who may call what; frames and telemetry go to
*engines* in the cloudlet, which answer the missions and fill the database the
ground stations show. This directory models the parts of the repository in which
several coroutines, threads, processes or messages interact, checks them with
TLC, and proves the most important results with TLAPS. Every definition is
translated from the source; `PROJECT.json` names the lines (`map`), the runs, the
hazards each property is for, and the theorems.

Paths below are relative to `src/`.

## 1. Inventory

| Component | Source | State | Operations | Status |
|---|---|---|---|---|
| Law authority | `vehicle/kernel/laws/authority.py` | law in force, the law file in memory, reader-writer lock | `start`, `allows`, `match`, `set_law`, `get_law`, `failsafe`, `_send_commands` | modelled |
| Law interceptor | `vehicle/kernel/laws/interceptor.py` | none | `intercept` around every gRPC call | modelled |
| Command handler | `vehicle/kernel/handlers/command_handler.py` | time of the last message, DEALER socket | poll loop, DC_SERVER failsafe, a task per command | modelled |
| Kernel start-up | `vehicle/kernel/main.py` | | server, then law, then handler | partly |
| Report service | `vehicle/kernel/services/report_service.py` | the command socket | `SendReport` | modelled |
| Compute service | `vehicle/kernel/services/compute_service.py` | list of datasinks | `AddDatasinks`, `SetDatasinks`, `RemoveDatasinks` | modelled |
| Stream handler | `vehicle/kernel/handlers/stream_handler.py` | producers and their engines, result socket | `update_target_engines`, producers, `process` | partly |
| Swarm Controller | `backend/server/swarm_controller/swarm_controller.py` | sequence number, response map, ROUTER socket | `Command`, `_listen_for_responses`, `CompileMission` | modelled |
| Mission service | `vehicle/mission/mission_service.py` | uploaded mission | `Upload`, `Start`, `Stop` | modelled |
| Mission runtime | `sdk/src/steeleagle_sdk/dsl/runtime/__init__.py` | channel, store, FSM task, `_STARTED`, lock | `init`, `term` | modelled |
| Mission FSM | `sdk/src/steeleagle_sdk/dsl/runtime/fsm.py` | current state, its tasks, the queue of the winner | `start`, `run_state`, `_race` | modelled |
| Mission store | `sdk/src/steeleagle_sdk/api/mission_store.py` | table `latest`, two receiver tasks, the connection's thread | `start`, `stop`, `_receive_and_store`, `get_latest` | modelled |
| Actions, events, SDK API | `sdk/src/steeleagle_sdk/dsl/types/`, `sdk/src/steeleagle_sdk/api/` | the call in progress | `execute`, `check`, the RPC wrappers | modelled |
| DSL compiler | `sdk/src/steeleagle_sdk/dsl/compiler/` | mission IR, registries | transform, resolve, validate, load | modelled |
| Object engine | `backend/server/engines/detection/` | geospatial set, object hashes | `handle`, geofilter, garbage collection | modelled |
| Telemetry engine | `backend/server/engines/telemetry/` | Redis keys with a time to live, images | `handle`, `updateVehicle` | modelled |
| Avoidance engine | `backend/server/engines/avoidance/` | Redis stream of vectors | `handle` | modelled |
| Control page, overview | `gcs/streamlit/` | session of a user | callbacks, manual loop, reads of Redis | partly |
| Command-line station | `gcs/cli/` | key queue, terminal, tasks | key thread, prompts, a task per command | modelled |
| Launcher, flight log | `vehicle/launch.py`, `vehicle/logger/` | processes | start, wait, end; records | partly |
| Setup wizard | `backend/server/setup_wizard.py` | files of the backend | prompts, download, templates | modelled |
| Proxies, data types, partitioner, language server, SLAM, Gabriel server, other stations, local compute, test bench | | | | not modelled (section 6) |

How they interact, and what is hard about it:

* **Calls under a law.** Every call to the kernel passes the interceptor. It
  judges the call (`allows`) and matches it (`match`) in two separate critical
  sections and forwards it outside of both. A match may switch the law, which
  sends *enter commands* through the same server while the writer lock is held.
  Calls of missions, of the operator and of the authority itself interleave at
  every `await`. Correct means: the lock is a lock on every path out of it, a law
  is entered only when it could be, the operator is never shut out, a failsafe is
  not disturbed, nothing waits for ever.
* **Silence of the server.** The handler polls, measures, tests the law, awaits,
  and then asks for the writer lock; messages may arrive and laws may change at
  each of these points. Correct means: one failsafe for one silence, none
  without, none missed, no message lost.
* **A command and its answer.** Numbers are given by the Swarm Controller, the
  vehicle answers in any order, both processes restart, connections lose
  messages, the socket carries reports too. Correct means: an answer belongs to
  the command it is returned to, and arrives if it can.
* **A mission's life.** Start and Stop are RPCs that overlap and whose callers
  may hang up; the FSM ends the runtime from its own task; its actions and
  events race in a TaskGroup, fail, and are cancelled. Correct means: one
  mission at a time, no action left flying after its state or its mission,
  nothing of the runtime left behind, no RPC stuck.
* **What a mission reads and calls.** Two receivers and the racers share one
  connection to the store, whose file outlives the mission; a cancelled action
  leaves its call to the kernel behind, which learns of it later. Correct means:
  nobody reads a closed store or goes back to an older row, the vehicle works on
  one command, a state ends.
* **What a mission says.** A mission file passes a transformer, a resolver and a
  validator, and the FSM walks what is left. Correct means: well-formed missions
  and no others are accepted, and every step of the FSM is a rule of the file.
* **Frames and results.** Engines write to Redis and to files one command at a
  time, may be killed between any two and are started again three times; keys
  expire; pages read key by key. Correct means: no object stored twice or out of
  reach, no page that fails over half a vehicle, a vector a drone can follow.
* **Operators.** A page whose script every input interrupts, threads that share a
  request, a key thread beside a loop that prompts stop, a launcher that is told
  to end while it starts, a wizard that fails half way. Correct means: commands
  reach the vehicles they are for in the order they were given, no process is
  left behind, no record lost, no files of different runs.

The hazards, each at its line and with the properties it is covered by, are in
`PROJECT.json`.

## 2. Modules

```
WaitQueue          the queue of an asyncio or aiorwlock lock
  WaitQueueProofs  who is in it after one has asked, got the lock, or was cancelled
LawSpec            the law file as data; check_equal, allows, match as pure operators
  LawAuthority     authority + interceptor + start-up, one action per stretch between awaits
    LawControl     (abstract) what the authority promises its callers
    LawAuthorityProofs   the lock, the law, the failsafe; LawAuthority implements LawControl
    Kernel         composed with the command handler: socket, clock, failsafe
      KernelProofs     Kernel implements LawAuthority; one failsafe for one silence
LawFiles           the repository's law files and one a user could write, for TLC
  MCLawAuthority, MCKernel
RemoteCommand      Swarm Controller, sockets, vehicle tasks, reports
  RemoteControl    (abstract) what the Command RPC promises a commander
  RemoteCommandProofs    RemoteCommand implements RemoteControl
  MCRemoteCommand
MissionRuntime     mission service, runtime, FSM
  MissionControl   (abstract) what the Mission service promises its callers
  MissionRuntimeProofs   MissionRuntime implements MissionControl; nobody stuck at the lock
  MCMissionRuntime
MissionStore       the store, its receivers and readers
MissionActions     action and event classes, the calls they leave to the kernel
MissionCompiler    transformer, resolver, validator; the walk of the FSM over the result
  SdkProofs, MCSdk
Cloudlet           what the engines have in common
  ObjectEngine     detections in Redis
  TelemetryEngine  status, positions and images, with the pages that read them
  AvoidanceEngine  the actuation vector
ComputeDatasinks   compute service and update_target_engines
  EngineProofs, MCEngines
ControlPage, KeyCommander, Launcher, SetupWizard
  OperatorProofs, MCOperator
```

Every action is what one coroutine, thread or process does between two points at
which another may run: asyncio switches only at an `await` that waits, Redis
executes one command at a time. Faulty variants of some actions stand before the
actions they vary, marked as such; they are used by no specification, only to
show that the properties notice such a bug.

`MCSdk`, `MCEngines` and `MCOperator` hold several parts that share no state. In
each behaviour one of them moves, chosen at the beginning (`part`); interleaving
them would show nothing more.

### LawSpec, LawAuthority, LawControl

`law` is `_state`; `_law` is always the entry of `_spec` for it. `failsafes` is
the part of `_spec` that `failsafe()` changes in place. `readers`, `writer` and
`queue` are the aiorwlock lock, which is fair to writers in the order they ask.
`pc` says where each call, the start-up (`Boot`) and the handler is; `todo`,
`sent`, `ok` are the loop of `_send_commands`, which only the holder of the
writer lock or the start-up before it executes. A command is a record of
identity, service, method and the request's fields; a pattern name is a name or
`"*"`, which is all the use law files make of `fnmatch`. `MessageToDict` omits
fields with their default value, so a payload matcher of `0` matches nothing.

A command of the authority itself is one step (`SendCommand`): its own pass
through the interceptor, which asks nothing of the identity "authority", is not
modelled. `SendRaises` is a command that raises: one without a dot
always does, any other may, for its arguments or for a stream without a response.
`AllowsRaises` is `allows` before the first law (`None['rules']`). `Cancel` is a
caller that gives up; aiorwlock and `async with` release what it held. The law
file's `dc_server` is the only failsafe list: nothing in the code triggers the
others.

`LawControl` has no lock, no enter commands and no failsafe: a call is judged
once, matched once, and the law changes at the moment a call that asked for it
starts running. The refinement mapping reads the phase of a call off its `pc`
and its wish off `target`. The abstraction does not promise that a call runs
under a law that allows it, because the code does not (section 4).

### Kernel

Adds `inbox` (the DEALER socket) and `silence` (ticks since
`last_manual_command_ts`, capped at the timeout, or `Never`). A message is
received only when the handler is at its poll and becomes a call of its own;
`Expire` is the timer's test up to the `await` of `get_law`, `FinishFailsafe`
the reset behind the failsafe. `EndFailsafe` of LawAuthority occurs only with
that reset.

### RemoteCommand

`sequenceNumber`, `responseMap` and the `rpc` coroutines of the Swarm
Controller; FIFO channels `toVehicle` and `toServer`; the `tasks` of each
vehicle. Taking a number and sending is one step, because an `asyncio.Lock`
nobody holds does not yield; so are receiving and storing a response, between
which nobody can look at the map for that entry. A broken connection loses an
end of each channel. The vehicle's handler loop is taken to be alive; what ends
it is in LawAuthority (`dead`). The intermediate `IN_PROGRESS` responses are
left out.

`RemoteControl` has no numbers, messages, tasks or connections. A command is sent
once, to the vehicle it is for, and passes four stations: going, worked on,
coming back, stored. It may be lost at each but the last, and is never at two of
them or at one a second time; an RPC returns the answer to its own command. After
the first report, or restart of the Swarm Controller, it promises nothing
(`disturbed`): section 4 says why. In the refinement mapping a command is at a
station when a message in the queue, a task, or an entry of the map is about it
(`GoingTo`, `WorkedOn`, `ComingFrom`).

### MissionRuntime

`lock` and `queue` are `_LOCK` (an asyncio lock hands itself on in order).
`init` is `BeginInit` (up to the store's start) and `FinishInit`, or
`InitRaises` and `UndoInit`. `term` is `CancelFsm` or `BeginTerm`, `Join` and
`FinishTerm`; stopping the store and closing the channel are one step.
`stores` counts stores that were started and not stopped. The FSM is
`created` until its task first runs, `racing` at `q.get()`, `leaving` in the
exit of the TaskGroup, and in `term()` at the end of the mission (`lockTerm`,
`closing`). A racer may finish, raise, or raise while it is cancelled. A caller
that hangs up while it joins the FSM has its cancellation suppressed, as the
code's `suppress(CancelledError)` does. A transition to an action or event that
is not defined crashes the FSM: the compiler lets such missions through, and
mission `typo` has both.

`MissionControl` has no lock, store or task. A call is asked, takes effect at one
moment and is answered: a Start flies the mission that was uploaded when it was
asked, or finds the runtime started; a Stop is completed with nothing in the air
and the runtime stopped. A flight advances by the transitions of its mission,
returns at Terminate, which stops the runtime, or is broken off by an error or a
Stop, which leaves the runtime as it is. In the refinement mapping a mission is in
the air until its FSM has ended *and* all its tasks have (`Flown`), it is at the
FSM's state (`Place`), and a call is pending wherever it waits (`Phase`).

### MissionStore

`jobs` is the queue of the one aiosqlite thread, which does what it was asked in
order, also for a coroutine that was cancelled meanwhile. `file` are the
committed rows, `rows` those the connection sees; `commit` commits everything, so
a receiver commits what the other has written. A message is its number: drivers
and engines count on over all missions, and a message that does not parse leaves
a row with the value null under its number. `JoinFsm` is the wait of `term()` for
the FSM, whose racers read the store; `CloseDb` comes after it. The file is not
removed, so the next mission reads the rows of the last one (section 4);
`ReadsAdvance` is therefore about the readers of one mission.

### MissionActions

The classes by what `execute` and `check` amount to: one call, a streamed call,
an exception, `ElevateToAltitude`, a patrol of `Legs` waypoints, tracking; and
events that poll telemetry, poll results, or wait. A call is its number;
`working` are those the kernel works on, `dropped` those whose client has
cancelled and the kernel does not know yet. `EnterState` and `Quit` are one
`run_state`; MissionRuntime has it in full, with racers that only finish, raise
or go on.

Events that poll telemetry await at every round, so the rest of the loop has its
turn (`PollTelemetry`). `GlobalPositionReached` without a target does not: it tests
the target again and again and never awaits (`EnterBlocked`), and from then on
nothing in the mission moves, no Stop either. That is what an uploaded mission gets
that leaves the attribute out. The compiler does not leave it out, it writes a null,
which the class refuses when the state is run, so that the FSM of a compiled mission
crashes instead (`EnterRefused`).

### MissionCompiler

A program is what the parser delivers (`Text`, what the grammar lets a file say,
constructors inside constructors apart). `DataTypes`, `ActionTypes` and `EventTypes`
are the three registries, each asked for its own: a datum of a class that is
registered as an action is refused. A field is of a model type, a string (`Str`),
which takes any name as it stands, or `Plain`, which takes none. `ResolvedUpTo` and
`ResolvedUses` follow the resolver in the order of the file, with its inline
constructors; `Validated` is pydantic's look at the fields; `Transitions` is what is
left of the rules. `WellFormed` is the reference, said of the text and not of the
passes: every class is registered, every field gets what it wants, and a name stands
for a datum of the right type that is declared earlier or has no attribute itself.
`Walk` is `run_state` over the result.

### ObjectEngine, TelemetryEngine, AvoidanceEngine

`detections` is the geospatial set and `objects` the hashes, with the fields
written so far. Storing is `geoadd`, `hset` by `hset`, `expire`; what the radius
search finds is passed over (`LookOn`) or ends the search (`AlreadyFound`), and if
nothing is left the detection is new (`PassedAsNew`). All detections are stored
at one place, since the position is hard-coded (section 4), so the radius search
finds them all. The garbage collection deletes the set and writes what is alive
back; `cleared` remembers a kill between the two.

`stream` and `status` are the two keys of a drone, each with or without a time to
live; `temp` and `latest` its two image files, `latest` replaced by renaming. A
page asks for the keys and then reads them one by one. `torn` is history: the
last update of this drone was disturbed by a kill, an error or an expiry.

Three clocks for each drone count units of time: since `last_seen` was written
(`age`) and since EXPIRE of the two keys. A key expires when its clock has come to
`Ttl`, whoever reads it; a drone is active while its age is below `threshold`, the
Active Threshold of the page, which the operator sets (`SetThreshold`) and which may
be longer than the time to live. That an active drone keeps its keys is therefore a
result about the clocks, for thresholds below `Ttl`, and false above. Two things are
assumed of time (`Tick`): a key is gone at its time, and an update of a drone, once
the stream has its time to live, takes less than a unit, so the clocks turn at most
once in it.

The vector is a fraction; `Sight` is the width of a frame and the column of its
largest contour, its absence, or one without area.

### ComputeDatasinks

The list, and the engines that local and remote producers were last told.

### ControlPage

A run of the script is the callback of the button and then the manual loop. An
input ends the run at its next look at the session (`Interrupted` where `Looks`) and
starts the next, but never while the callback waits for an answer. The manual loop
looks at the session before it and, for the stub of each thread, between the vehicle
and its thread: `SetVehicle` and `StartThread` are two steps. `rounds` are the
manual loops: `to` is the vehicle in the request that all threads of a round share,
`started` those a thread was started for, and
a thread sends to whatever `to` is when it runs (`ThreadCalls`). An upload click
without a file sends nothing (`UploadNothing`), one with half of the files raises
(`UploadRaises`). A call that
failed may still be on its way (`CallFails`).

### KeyCommander

The key thread checks the pause and then reads, so that one key may slip past
the beginning of a prompt; `posted` are its `call_soon_threadsafe` calls, which
the loop takes only when it runs. Prompts stop the whole loop, tasks included.
`Drain` empties the queue behind a prompt, `Close` cancels the tasks that have
not begun.

### Launcher, SetupWizard

The launcher starts processes with pauses, then waits for them, and when it is
told to, ends them one after the other, both in the reverse of that order. A
signal may come at any time, `CtrlC` goes to the whole group, processes die by
themselves, and may take their time to end. The wizard's prompts matter by the
model and the passwords; every file carries the number of the run that wrote it.
Each of its steps may fail, and it is run again.

## 3. Runs

| Run | Distinct states | Instance | Shows |
|---|---|---|---|
| `LawSafety` | 59241 | a user's law file (failing enter commands, an unknown law, a payload matcher, one that does not parse, a failsafe entry that raises), 3 calls, 1 failsafe | lock, failsafe, switches, the operator's access, start-up; implements `LawControl` |
| `Kernel` | 36143 | the user's law file without an entry that always raises, 2 calls of the server, 1 of a mission, 2 in progress, 3 failsafes | one failsafe per silence; it fires, every message is received, every call ends |
| `Remote` | 582651 | 3 requests to 2 vehicles, one raising in its task, numbers up to 2, 1 broken connection, 1 restart, 1 report | implements `RemoteControl`; answers belong to their commands, also at the limit of the numbers; a command for a connected vehicle ends |
| `Mission` | 245508 | 2 Starts, 2 Stops, 1 caller that hangs up; a mission with two events and one with an undeclared action | implements `MissionControl`; nobody waits for himself at the lock, no stray racers, stores match the runtime while nobody hangs up; every RPC ends |
| `Sdk` | 657552 | store: 2 sources, 3 messages, 2 missions; actions: every action class with every event class, 4 calls, 3 states; compiler: all programs of two data, or of two actions with up to three rules | reads find the store and advance; one command; a state ends unless the loop is blocked; well-formed programs are accepted and no others, steps are rules |
| `Engines` | 3934311 | 2 drones (1 reporting), keys that live 2 units, thresholds of 1 and 3; 3 objects of 2 classes, 2 detections in a frame, widths 1, 4, 5, 6, 1 kill, 2 restarts; 2 engines, both clients | objects listed and stored once, pages raise rarely while the threshold is below the time to live, the vector in its range, producers follow |
| `Operator` | 131704 | 2 drones, 3 inputs; 5 keys; the shipped plans, 2 signals; 3 runs of the wizard | Uploads settled before a Start, rounds reach the vehicle they name if its thread was started, keys in order, records kept, the launcher ends all, one set of passwords |

`LawFailsafeGrows`, `RemoteReport`, `MissionCrashed`, `EventNeverFires` and
`ReturnHomeStands` find a violation; see section 4.

**Bounds.** `Call`, `StartCall`, `StopCall`, `Request`: each RPC is made once, so
their number bounds how many overlap, together with `MaxInFlight`. Three calls let
one judge, one switch and one wait at the same time, beside the start-up and the
handler; calls differ only in their commands. `MaxFailsafes` is 1 where the timer
may expire at any poll and one failsafe meets all calls; in `Kernel` it is 3, more
than the two messages can cause, so that it limits nothing there. `Timeout` is one
tick: the clock distinguishes only "not yet" and "too long". `NumberLimit` stands
for 2^32 and is one less than the number of requests in `Remote`, so that the limit
is reached. `MaxBreaks`, `MaxReports`, `MaxGone`, `MaxKills`, `MaxSignals` bound
faults; one fault meets every state of everything else. `MaxRestarts` is the number
of restarts of the Swarm Controller in RemoteCommand, and in the engines compose's
`on-failure:3`, of which two are enough to tell a further start from none.
`MaxMissions` is two, for a mission after a mission; three messages are a row, a
newer one and one behind it. Three objects of two classes are the fewest with two of
a kind and a stranger. `Ttl` is two units, the least with an age below it that is
not fresh; `Thresholds` are one below and one above it, `MaxAge` the larger, at
which a clock stands still (older is all the same to every comparison). The classes
of the programs in `Sdk` are four data (with a string, with a field for the first,
with one for the second, with a number), an action whose field for the second is
required, and an event, and a program may write each of them wherever a class is
written: a datum that names a later one is there, resolved and not. Widths 1, 4, 5
and 6 are the smallest with every rounding of the margin, an odd and an even middle.
Two vehicles are the fewest one loop can confuse; three inputs are an upload, a
start and one that interrupts; five keys are two before a prompt, one that opens it
and two behind. Three runs of the wizard are one that is torn, one that fails and
one that succeeds.

Symmetry over calls is used in `LawSafety`, `LawFailsafeGrows` and
`MissionCrashed` only, which check no liveness. Deadlock is not checked: calls,
inputs, keys and faults are used up, and then a model stops as the system does
when nothing more is asked of it. What must not get stuck is stated as liveness.

**Fairness.** In `Kernel`, `Remote` and `Mission`: weak fairness of every step that
a coroutine takes by itself, because the event loop runs whatever can run, asyncio
and aiorwlock hand locks on in order, services answer, ZeroMQ reconnects by itself,
the handler polls again and time passes. Nothing is assumed of commanders, of
missions, of actions that may fly for ever, of events that may never fire, and
nothing need fail. In `Sdk`: of the mission's loop (`LoopFairness`), as long as what
it runs awaits, so not of a loop that an event has blocked, where nothing is
enabled, and of the kernel's answers to the calls it works on (`KernelFairness`, a
driver ends what it was told); `EventNeverFires` has the first only. In `Operator`:
the launcher goes on, and a process that was told to end does (`LauncherFairness`);
signals and deaths are not assumed. `Engines` and the other properties of `Operator`
are safety and need none.

## 4. Where the code and its documentation differ

Five runs show it; `findings` in `PROJECT.json` quotes the lines.

* `LawFailsafeGrows`: `failsafe()` extends the law's own list in place
  (`authority.py:165`), so the second failsafe in that law sends the base
  commands twice.
* `RemoteReport`: a vehicle's report travels on the socket of the responses and
  is read as the answer to command 0 (`report_service.py:19`).
* `MissionCrashed`: an action that raises ends the FSM's task, and `term()` is
  not reached (`fsm.py:119`); the runtime stays started without an FSM.
* `EventNeverFires`: `fetch_telemetry` returns None (`dsl/types/utils.py:11`), so
  the events that poll telemetry loop for ever.
* `ReturnHomeStands`: the script of the control page runs to its end after the
  callback of a button (`control.py:666`), and an armed swarm gets a manual
  command behind "Return to last known home" (`control.py:535`).

The models have these too, without a run of their own; they are the reason why
the properties are as weak as they are. Each hazard in `PROJECT.json` that a property
covers in part, or none covers, is here.

Kernel and Swarm Controller:

* `match()` compares with the law in force outside the lock
  (`authority.py:150`): of two overlapping calls the one that matched first may
  have its law in force last.
* A call allowed by one law may run after another, which does not allow it, has
  come into force (`interceptor.py:41`). `LawControl` promises no more.
* The base rules override a rule of the law that matched (`authority.py:145`
  against the comment at `:135`); rule `.laws.toml:27` never has an effect.
* Failsafe commands are not sent again when they fail (`authority.py:168`
  against the comment at `:167`), and nobody looks at the result.
* The handler tests for REMOTE, awaits, and runs the failsafe in whatever law is
  then in force (`command_handler.py:76-78`), also when a message has arrived in
  the meantime; in LOCAL a silent server triggers nothing, though
  `.laws.toml:43` has a list for it.
* A restarted Swarm Controller numbers from 0 again (`swarm_controller.py:37`)
  and may take a late answer for a new one; hence `AnswersOwn`
  and `RemoteControl` hold up to the first restart or report.
* A command for a vehicle that is not connected is dropped without an error
  (`swarm_controller.py:81`), and a stream that ends without a response raises in a
  task of the vehicle nobody awaits (`rpc_helpers.py:25`): either way there is no
  answer, and the RPC polls without end (`swarm_controller.py:85`); hence the
  premise of `AnsweredIfConnected`.
* `set_law` sends commands to its own kernel while it holds the writer lock
  (`authority.py:182`). They get through because the interceptor lets the
  identity "authority" pass without `allows` and `match` (`interceptor.py:36`), which
  ask for the lock; the model takes that for granted, a sent command being one step,
  so `EveryCallEnds` does not speak of it.
* The response map is never cleaned (`swarm_controller.py:39`): entries of
  commands whose RPC has gone stay.

Missions:

* A Start that finds the runtime started answers COMPLETED and starts nothing
  (`runtime/__init__.py:43`).
* `except Exception` (`runtime/__init__.py:66`) lets the cancellation of a caller
  that hangs up during `init` pass, and the store stays open; hence the premise
  of `StoreMatchesRuntime`.
* A Start of a running mission is answered COMPLETED as well: `fsm_routine` is
  never assigned, so "Mission already running" (`mission_service.py:48-49`) is
  never said.
* `GlobalPositionReached` without a target never awaits (`singulars.py:202`): it has
  the whole loop of the mission, the action beside it, the answers of the kernel and
  a Stop, and nothing ends it. `StateEnds` names this as its exception, and the
  fairness of `Mission` is of missions that await.
* A cancelled call is dropped by its client at once, by the kernel later
  (`api/utils.py:84`): until then the vehicle may work on it beside the new one.
  `OneCommand` is about the calls that are not cancelled.
* An RPC error, a denied call among them, becomes a response no action looks at
  (`api/utils.py:59`): the action is done.
* `SetHome`, `ConfigureImagingSensorStream`, the datasink actions,
  and `PrePatrolSequence` always raise (`Raising` in MissionActions says why), and
  `ElevateToAltitude` raises whenever there is something to climb
  (`ActionRaises`).
* The rows of one mission are there for the next (`mission_store.py:138`) until
  new messages arrive.
* The compiler does not look for names nobody declared in rules
  (`transformer.py:97`); the FSM crashes at them. `structure.md` has optional
  fields, but `Optional[...]` without a default is a required one.

Engines:

* The local producers keep the last engines when the list has none left
  (`stream_handler.py:104`); hence the premise in `TargetsFollow`.
* Sockets of the stream handler buffer while no engine is targeted, so that the
  first frames an engine gets are old ones (`stream_handler.py`).
* Object engine: the position of a detection is a constant
  (`openscout_object_engine.py:375-376`); a frame with detections raises a
  TypeError after they are stored (`:305`); the hash has no `vehicle_id`
  (`:552`, `:557`), so that with a geofence a second detection of a class raises
  a KeyError; either ends the engine, which is then started again; a kill
  between `delete` and `zadd` (`:219`) loses the set, and with it all that was
  stored; hence the premises of `LiveListed` and `OnePerClass`.
* Pages: the Active Threshold may be 600000 minutes (`control.py:436-442`), the keys
  live for 7 days by default (`telemetry_engine.py:311-316`). Above the time to live a
  vehicle that counts as active may have lost its keys between `keys()` and the read,
  and the map raises (`control.py:264-268`); hence the premise of `PagesRaiseRarely`.
* The detection and avoidance engines save their `latest.jpg` in place, so that the
  web server may serve half of one; only the telemetry engine renames a whole one
  (`telemetry_engine.py:264`).
* Overview page: it reads `drone_id` (`overview.py:146`), which no hash has.
* Avoidance engine: with MiDaS a contour without area divides by zero (`:282`),
  which ends the engine.
* SLAM: `recv(24)` may return less (`terraslam.py:83`); all poses behind it are
  shifted, and the engine does not connect again.

Operators:

* Control page: an upload of a file that is not `.kml` leaves a variable unbound;
  a callback waits for ever for a vehicle that does not answer (`control.py:148`);
  an upload click without a file sends nothing, and the page goes on
  (`control.py:115`).
* An input that interrupts the loop over the vehicles of an upload (`control.py:127`)
  leaves some without the mission; the next Start goes to all of them
  (`control.py:142`). `UploadSettled` is about the vehicles that were sent both.
* The threads of the manual loop share one request, and may all send it to the last
  vehicle of the loop (`control.py:666-677`). The look at the session at `:675` comes
  after the vehicle is set (`:668`) and before its thread starts: a run interrupted
  there leaves a vehicle named and untold, also when it is the only one, and threads
  of the vehicles before it tell it instead of theirs. Hence `RoundReaches` promises
  that some vehicle is told, and the one that is named only if it has a thread.
* Key reader: a Hold hit right before `c` is not sent until the prompts have
  ended, keys hit during them are dropped, a Hold among them, and ESC cancels
  commands that were not yet sent (`cli.py:59`). When a mission does not compile or
  its files cannot be read nothing is uploaded (`cli.py:139-154`), and a later Start
  starts the mission of before. `CallsInOrder` is about the order in which commands
  leave; each is a task, and the vehicle may execute them in another.
* Launcher: a signal during the start, a second one while it waits, or a missing
  package leaves processes behind; a kernel that dies leaves the launcher
  waiting for the others. Hence the premises of `StopEnds` and `LogKept`.
* Flight log: a thread pool writes one file with a writer that is not made for
  threads (`flight_log_service.py`).
* Setup wizard: `template.env` wants `class_exclusions`, the wizard sets
  `exclusions`; the port of the web server is written as `8080.0`; a second run
  fails where the directory `redis` exists, so files of one run are what a
  backend has.

## 5. Proofs

| Theorem | Module | Says, for every value of the constants |
|---|---|---|
| `Typing`, `LockSafety`, `KernelOpening`, `OperatorIsNeverDenied` | `LawAuthorityProofs` | `TypeOK`, `LockSafe`, `KernelOpensWithLaw`, `OperatorNeverDenied` |
| `FailsafeIsUndisturbed`, `SwitchIsEarned` | `LawAuthorityProofs` | `FailsafeUndisturbed`, `SwitchEarned` |
| `Refinement` | `LawAuthorityProofs` | `Spec => ControlSpec`: the authority implements `LawControl` |
| `KernelIsAuthority` | `KernelProofs` | `KernelSpec => Spec`: all of the above holds of the kernel |
| `OneFailsafeForOneSilence` | `KernelProofs` | `OneFailsafePerSilence` |
| `CommandIsCarried` | `RemoteCommandProofs` | `Spec => CarrierSpec`: numbers, sockets and tasks implement `RemoteControl` |
| `AnswersAreCorrect`, `WrittenOnlyOnce` | `RemoteCommandProofs` | `AnswersOwn`; `WrittenOnce`, which no run checks beside `CarrierSpec` |
| `RuntimeIsControl` | `MissionRuntimeProofs` | `Spec => ServiceSpec`: the runtime implements `MissionControl` |
| `TermNeverStuck` | `MissionRuntimeProofs` | `NobodyStuck` |
| `RuntimeTyped`, `StoresFollowRuntime`, `StatesEndWhole` | `MissionRuntimeProofs` | `TypeOK`, `StoreMatchesRuntime`, `NoStrayRacer` |
| `OneMissionAtOnce`, `StopLeavesNothing` | `MissionRuntimeProofs` | `OneMission`, `StopStops`, which no run checks beside `ServiceSpec` |
| `CommandIsOne`, `ReadersFindTheStore`, `ReadsNeverGoBack` | `SdkProofs` | `OneCommand`, `NoReadAfterStop`, `ReadsAdvance` |
| `CompilerAccepts`, `WalkFollowsRules` | `SdkProofs` | `AcceptsWellFormed`, for every three registries; `StepsAreRules` |
| `StoreTypes` | `SdkProofs` | `StoreTypeOK` |
| `SdkTyped`, `TypesKept`, `GroundStationsTyped` | `SdkProofs`, `EngineProofs`, `OperatorProofs` | `TypesOK` of the merged runs |
| `ObjectInvariant`, `LiveIsListed`, `ClassStoredOnce` | `EngineProofs` | its invariant, `LiveListed`, `OnePerClass` |
| `TelemetryInvariant`, `PagesSeldomRaise` | `EngineProofs` | its invariant, `PagesRaiseRarely`, for every time to live and every threshold |
| `VectorStaysInRange`, `ProducersFollow` | `EngineProofs` | `VectorInRange`, `TargetsFollow` |
| `UploadBeforeStart`, `RoundsReach` | `OperatorProofs` | `UploadSettled`, `RoundReaches` |
| `KeysInOrder`, `RecordsKept`, `PasswordsAgree` | `OperatorProofs` | `CallsInOrder`, `LogKept`, `SamePasswords` |
| `TerminalRestored`, `PageWaitsForCalls` | `OperatorProofs` | `CliTypeOK`, `PageTypeOK` |

They rest on the named assumptions the modules make of their constants
(`LawFileAssumption`, `ProcAssumption`, `KernelAssumption`, `RemoteAssumption`,
`MissionAssumption`, `StoreAssumption`, `ActionsAssumption`, `NoClassAssumption`,
`CompilerAssumption`, `ProgramAssumption`,
`CloudletAssumption`, `ObjectAssumption`, `TelemetryAssumption`,
`AvoidanceAssumption`, `DatasinksAssumption`, `PageAssumption`, `KeysAssumption`,
`LauncherAssumption`, `PlansAssumption`, `WizardAssumption`), which TLC evaluates
in every run.

*LawAuthority.* `LockSafe` is `LockHeld` (a coroutine is inside a lock exactly
while it executes the block under it) and `QueueKept` (the queue of the writer
lock is, each once, those who wait for it). The inductive invariant is `IInv`,
the conjunction of `TypeOK`, `LockHeld`, `KernelOpensWithLaw` and
`TimerCounted`. None of them is inductive alone: that a writer is alone needs to
know who is inside the lock and that only the start-up sends without it, which
in turn needs to know where the start-up is when a law is in force; and that
`triggered` stays within its bound needs `TimerCounted` (a handler on its way to
a failsafe has not used up the bound). The proof has one step per action, and
under it one per conjunct. `QueueKept` is inductive relative to `IInv`: asking,
being granted and being cancelled are the three lemmas of `WaitQueueProofs`,
which `MissionRuntimeProofs` uses for its lock too. `OperatorNeverDenied` is
inductive relative to `IInv`: a call is denied only by the law in force, and
every law allows what the base law allows. `FailsafeUndisturbed` follows from
`IInv` for a single step. `SwitchEarned` and the refinement need `SwitchInv`
besides: while a coroutine enters a law, what was sent and what is still to send
make up that law's enter list, all is well as long as nothing was sent, and the
start-up enters the base law.

*Refinement.* Under `IInv` and `SwitchInv` each step maps to one abstract action
or to a stutter: acquiring the lock, sending and the failsafe stutter;
`CheckAllows` is `Admit` or `Close`, `KeepLaw` is `RunUnder`, `RequestSwitch` is
`Ask`, `CommitLaw` and `AbandonSwitch` are `RunAsked`, or `Open` for the start-up.

*Kernel.* Each of its steps is one of LawAuthority or leaves its variables
alone, which makes `IInv` an invariant of the kernel. `ClockInv` adds that the
socket holds messages of the server only (`Receivable`), that a handler on its
way to a failsafe has seen a silence of the timeout (`Clocked`), and `Counted`:
there were no more failsafes than messages, and fewer while the clock runs and
its silence has not had its own. Without `Counted` two failsafes for one message
could not be excluded; it needs the finite set of messages, hence
`IsFiniteSet(ServerCall)`.

*RemoteCommand.* The invariant says that every message, task and entry carries a
number below `sequenceNumber`, that the request it carries is the one sent with
that number, and that two requests have different numbers. `Once` adds that a
number is in one place: going, being worked on, coming back, or in the map, and
at most once in each queue. Lost and reordered messages only remove such entries.
`Once` is also what the refinement needs: the abstract command is at a station by
set membership, so taking it off a queue removes it there only because no second
message of the queue has its number (`HandleBegins`, `ListenDelivers`), and it is
new at the next station only because its number is nowhere else. A break, a
restart of the vehicle or a task that raises is `Lose` (`BreakLoses`); connecting
stutters.

*MissionRuntime.* `RuntimeInv` is `Typed`, `Held` (who holds the lock, by where
its calls are), `Queued` (who waits for it), `Flying` (when there is an FSM, and
racers) and `Stored` (stores by runtime and calls in `init`). The action
properties follow for a single step.

`term()` joins the FSM with the lock in its hand, and the FSM at the end of its
mission asks for the same lock: that they never wait for each other is
`NobodyStuck`, and needs `WaitInv`: the queue is, each once, the coroutines that
are at the lock, also after one of them was cancelled or has hung up, and whoever
joins has cancelled an FSM that is leaving or has ended.

`RuntimeIsControl` needs `FlightInv` besides: an FSM that is racing or leaves a
race is at an action with a successor for its winner, a race is left without an
error or a Stop only for a winner, and what runs is what was wanted. Then
`FinishInit` is `Fly`, or `Find` a call that meets a started runtime; the answer of
`term()` is `Land`; the end of a race is `Advance` or, if it is broken off,
`BreakOff` at the moment the last task has ended; the FSM's own `term()` is
`Return`; acquiring, joining, the store and the racers stutter.

*The SDK.* `StoreInv`: the connection is open while anybody could read it, the
jobs of the thread are those their receivers wait for, and rows, jobs, messages
and what was read are in the order of their numbers (`RowsFollow`); that a
read never goes back is the end of this chain. `ActionsInv` is the type
invariant and `OneCommand`.

*The compiler.* The tables of the resolver are a recursive function on
`0..Len(p.data)`; that it exists is proved by counting over a set of numbers (the
library's induction takes an operator as a parameter), and in the same way that
each table is the raw one with the declarations replaced that the loop has come to
(`TableAt`). Acceptance is then `WellFormed`: from left to right because an
accepted table names only instances, from right to left because the *first*
datum that is not accepted would have one before it. It holds for files of any
length, with names declared twice, too late or not at all, and for every three
registries, also where they share a class. `StepsAreRules` follows
from the last rule for an action and event.

*Side by side.* `SdkPartsApart`, `PartsApart` and `OperatorPartsApart` show that
each part of a merged module does only steps of its own or leaves its variables
alone, so that what is proved of a part holds of the merged run.

*The engines.* `ObjectInv` relates the place in `handle` to what is in hand
(`Handling`), and knows that what is looked at for storing has no equal
(`Unlike`); `OnePerClass` holds up to a kill that lost the set. `TelemetryInv`
has the clocks (`ClocksFollow`): EXPIRE of the stream is at most a unit before the
write of `last_seen`, EXPIRE of the status not before it. As a key is gone at `Ttl`
and not before, a vehicle whose age is below it has its status, and one whose age is
below it by more than a unit its stream, unless the update was disturbed
(`SeenIsStored`); a position that expires during the update makes that vehicle one
of the disturbed. `UpdateSoFar` says which fields an update has reached. A page that
raises then either reads an older vehicle, or one of these, or works with a threshold
that is not below `Ttl`, where nothing follows. The vector is arithmetic over the
columns between the margins.

*The operators.* `KeysInv`: what was called, the tasks, the queue and what was
posted are rising sequences, each before the next. `LaunchInv`: the logger is
first in the list and the last to be told, and while another process is
up it has not been told. `CallsInv` and `RoundsInv` say to whom the commands of a
callback and the threads of a round are going. That a round whose threads have run
has told the vehicle it names, if a thread was started for it, needs two more facts:
the vehicles left in the loop come once and have no thread yet (`Fresh`), so a vehicle
just named does not pass for one that was told before; and while the loop looks at the
session the request names the head of what is left. `WizardInv`: files are of the run
that made the directory, since no other gets past it.

**Only model-checked:** liveness (`FailsafeFires`, `EveryMessageReceived`,
`EveryCallEnds`, `AnsweredIfConnected`, `StateEnds`, `StopEnds`), which TLAPS
cannot prove (fairness and ENABLED are out of its reach), and the five runs that
find a violation. Every safety property of a passing run is a theorem. No
definition is RECURSIVE; where a proof needs induction, it is over a finite set
of numbers without an operator as a parameter.

## 6. Not modelled

* *Service proxies* forward a call unchanged and keep nothing. *DSL and API
  datatypes* are records: fields, defaults, conversions of messages.
* *Map partitioner, image and depth inference, SLAM*: floating-point geometry and
  closed external programs, for which TLC has no values.
* *Language server, Gabriel server, local compute, the dearpygui, eagleeye and
  VS Code stations*: start or wrap third-party programs, or show the same RPCs
  in another window. *Test bench*: read for what it expects of the kernel.
* Of modelled parts: logging, texts of responses, `IN_PROGRESS` responses, the
  building of requests from descriptors, time beyond the server's timeout; the
  grammar of missions and checks of numbers and strings; the images of
  detections and the HSV filter, which is commented out; the plan page and the
  layers of the map; `test_services` of the launcher; the thread pool of the
  flight log; what the stream handler's producers carry. `components` in
  `PROJECT.json` says it for each part.

## 7. If the code changes

The faulty variants beside the actions and `mutants` in `PROJECT.json` say which
property notices which bug; a repaired defect of section 4 allows to strengthen
the property whose premise names it. `MissionActions` and `MissionRuntime` could
be composed to give the racers of the latter their content; they are kept apart
because neither looks at what the other leaves out.
