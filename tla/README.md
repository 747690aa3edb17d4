# A TLA+ model of ai_nn_controller

This directory is the verification project of *ai_nn_controller*, a framework in
which control applications read measurements of network nodes and send them
commands. It models the parts of the Python code where several threads or
processes share state, checks them with TLC on small instances and proves with
TLAPS, for instances of any size, the safety properties and refinements of every
component.

Paths below are relative to the repository; `CC` stands for
`src/controller_components` and `AIC` for `CC/ai_nn_controller`.

## 1. Inventory of the system

The program has three planes. The **control plane** is one process: the REST and
MCP server, `AicController`, and one or more loop threads per application. The
**registration plane** is one process (`CC/register/register.py`) in front of
Redis. The **data plane** is a broker (`CC/node_msg_broker`) that forwards
measurements from nodes to the controller and commands from the controller to
nodes. **Node** processes (`CC/controlled_entity`) register, measure and apply
commands.

| Component | State it keeps | Operations | Interacts through | What is hard | What makes it correct |
|---|---|---|---|---|---|
| App runtime (`AIC/AicController.py`, `AIC/mcp/tool_generator.py`) | `app_states`, `stop_event`, `agent_requests` of each app, the fields of each `AgentRequest` | `update_app_state`, `__execute`, `process_agent_requests`, `_fail_pending_agent_requests`, the MCP handler, `shutdown` | deques and events shared by loop threads, API threads and the event loop | no locks; check and act are separate everywhere; restarts leave old loops; timeouts race answers | a request is in one place, handled at most once, always answered |
| Measurement feed (`read_message`, `collect_measurements`) | a bounded deque per topic and app | receive, evict, append, collect | deques shared by the reader and the loops | eviction races the drain; several loops drain one deque | oldest first, nothing twice, losses only of the oldest or of the one at hand |
| Command dispatch (`process_commands`, `send_manual_control`, `AIC/arbitration`, `AIC/safety`, `AIC/decorators/command_validator.py`, `AIC/registry.py`) | `send_commands` of each app, `last_command_ts` | queue, validate, arbitrate, send | deques, the arbitrator's dictionary, one socket | mitigator pops other apps' deques; read-compare-write in `allow` | a command is sent once or has a reason not to be; priority decides conflicts |
| Register (`CC/register`) | Redis: set of members, counter per node, published capabilities | register, publish, heartbeat, application access; checker | REQ/REP, Redis, two threads | operations of several Redis commands; restart between them; exceptions that skip the sleep | members are monitored; dead nodes leave; live ones stay; returning ones get in |
| Node runner (`CC/controlled_entity/NodeRunner.py`) | registration progress, cache of idempotency keys | register, publish, heartbeat, measure, apply | REQ, PUSH and SUB sockets | blocking `recv` without timeout; answers ignored; prefix subscription; the cache is in memory | commands in the order sent, none twice with one key |
| Broker (`CC/node_msg_broker`) | the message in hand and socket queues | forward | PULL, PUB | PUB drops for a slow or absent subscriber; a crash loses what it holds | order kept per sender, nothing repeated, nothing lost while all stay up |
| Bridge nodes (`src/network_nodes/twilight_nodes`) and command handlers (`control_application_v2_example/commands.py`) | session id, schema paths | set-up, poll, handle a command | REST calls to Twilight, two threads of NodeRunner | paths are set while commands read them; calls fail; other users of the device | a command changes only the field it means; reports resume |
| Handshake (`AIC/RegisterAicApp.py`) and template generator (`CC/register/generate_template_app.py`) | progress of a controller, what the generator has read | register, request access, generate | REQ/REP, Redis | node look-ups interleave with removals; kills half-way; the generator reads while nodes publish | granted nodes were there together; a generated application is let in; a restart succeeds |
| Start-up and REST server (`AicController.__init__`, `server.py`, `AicManager.py`, `Validator.py`, plugins) | registries filled at import, instances, states, deques | construct, refresh tools, `__aic_app_setup`, requests | REST, MCP, a background thread | requests before set-up is over; import order; a handler that blocks the event loop | tools have the registered schemas; set-up never undoes a request; every request is answered |
| MCP server and registry (`AIC/mcp`) | name -> tool | generate, refresh, list, call | HTTP, standard input | names collide; errors of several layers | a tool does what its name says |
| Clients (`src/fastapi_client`, `src/mcp_http_proxy.py`) | the request they work on | call, read lines | HTTP, standard input and output | timeouts that race the operation; bad lines | one answer per request, and a true one |
| Legacy broker, dummy and srsRAN nodes, envelope, decorators | — | — | — | — | — |

`PROJECT.json` lists every component with its status, and under `hazards` each
place in the code where a step can go wrong that a test would hardly reach, with
the properties that cover it.

## 2. Plan

In the order of importance. All modules of the plan are written:

1. **AppRuntime** (contract **AgentCall**, theorems **AppRuntimeProofs**): life cycle and
   agent requests of one application.
2. **MeasurementFeed** (contract **MeasurementLog**): one node's topic.
3. **CommandDispatch**: from an application's deque to the socket.
4. **Register**: nodes in the register.
5. **CommandDelivery** over **MessageBus** (contract **CommandLog**): from the socket to the
   node.
6. **BridgeNode** with **DeviceCommands**: from the node to the device.
7. **Northbound** with **ToolCatalogue**: start-up, REST and MCP requests.
8. **AppAccess**: applications and the generator in the register.
9. **ClientFronts** (contract AgentCall again): what clients of all this see.

A command thus passes ClientFronts, Northbound, AppRuntime (the contract of its call),
CommandDispatch, CommandDelivery (the contract of its way) and BridgeNode. The modules
meet at the contracts and not in one product, whose states TLC could not enumerate.

Each component has its theorems in a module of its own: **AppRuntimeProofs**,
**FeedProofs**, **DispatchProofs**, **DeliveryProofs**, **NorthProofs**, **AccessProofs** and
**FrontsProofs**; **NodeProofs** has those of Register and of BridgeNode (section 5).

Every safety property and every refinement that a passing run checks is a theorem, but for
`LossesBounded`, of which one is for the first subscriber. Left: larger instances of Northbound, and the measurements' way over MessageBus.

## 3. Modules

### AppRuntime

The state is that of one application; applications share nothing here. `appState`
is `app_states[app]`, `queue` is `agent_requests`, `response`, `error` and `event`
are the fields of `AgentRequest`, and `pc` says where each thread is. A step is one
read, write or deque operation that another thread can observe, because none of
the code holds a lock and the interpreter may switch threads between any two of
them. Three kinds of thread take steps:

* *API threads* (`Opers`): `ReadState`, `SetRunning`, `Spawn`, `SetState` and
  `StopDrain` are `update_app_state`. The set of states is that of the code; an
  invalid one raises and changes nothing.
* *Loop threads* (`Threads`): `LoopTop`, `LoopWake`, `RunProcess`, `AgentGate`,
  `PollRequests`, `TakeRequest`, `CallHandler`, `SignalRequest`, `SendCommands` and
  `LoopDrain` are `__execute` and what it calls. A slot in `Threads` is reused when
  its thread has ended. With `AppMayRaise` the application's code may raise, which
  ends the thread and leaves `appState` alone.
* *MCP coroutines* (`Requests`): `Precheck` to `TimedOut` are the handler that
  `_create_agent_handler` builds. Coroutines run one at a time up to the wait
  (`EventLoopFree`); the wait itself takes a worker of the default executor
  (`StartWait`, `PoolSize`).

`DrainTest` and `DrainPop` are `_fail_pending_agent_requests`, shared by all
callers; when another thread empties the deque in between, `popleft` raises and
the thread goes where its caller's exception handling sends it.
`WithdrawRaises` is `deque.remove` noticing that the deque changed while it
compared, which raises `IndexError`, not the `ValueError` the code catches. The
error text of a handler may be empty (`"blank"`), which the coroutine takes for
no error. An operation without a handler is an error and does not count as run
(`CallHandler`).

**AgentCall** is the contract of one call: the operation runs at most once, there is
exactly one answer, `"result"` is answered only for an operation that ran, `"refused"`
only for one that has not run and never will, and any other answer leaves open whether
the operation ran or still will. `ImplementsAgentCall` maps a request to it (`new`/`open`/`closed`, `handled`,
`reply`).

### MeasurementFeed

One node's topic. Measurements are numbers in the order of arrival. `Receive`,
`CheckState`, `CheckSize`, `DropOldest` and `AppendMeasurement` are the body of
`read_message` for each subscriber in the order of the dictionary; `Collect` is one
turn of the `popleft` loop of `collect_measurements`. An `IndexError` in `DropOldest`
goes to the handler around the whole message, so that neither this application nor
the later ones get it. A body that is not a dictionary (`NotDict`) ends the loop
that collects it. `UpdateState` is `update_app_state` in one step, because
AppRuntime has its interleavings; it spawns a loop exactly when the code does.

**MeasurementLog** says what applications may rely on: what a loop hands to
`process()` is oldest first and never older than what the same loop handed over
before, no measurement goes to two loops of an application, and only the oldest
or the newest may be lost. How many of the newest it leaves open: `lost` counts those an
application has missed in a row to the reader's `IndexError`, and `LossesBounded` bounds it. `ImplementsMeasurementLog` maps the deque, together with
the measurement in the reader's hand, to the set of measurements an application
can still get.

### CommandDispatch

Several applications, their mitigator (`ConflictMitigatorApp` of
`control_applications/control_application_v2_example/aic_app.py`) and manual
callers. `ProcessApp` queues commands one by one; `StartDrain`, `Drain`, `Winners` and
`Resolve` are the mitigator's `process()` (`pending` is the list it has drained, `Winners`
the positions in it that win; the code goes through them in the order of a dictionary, the
model in any order); `TestQueue` and `TakeCommand` are the head
of `process_commands`; `Call` begins `send_manual_control`. Both then take a command
through `Check` (validator and policy, a constant relation `Accepts`), `Stamp`,
`Compare` and `Record` (`CommandArbitrator.allow`, three steps because other threads
run in between), and `Send` (registry and socket). The mitigator has no validators of
its own, which `Accepts` of the instance reflects. Each application has one loop here,
which is never stopped: stopping and several loops of one application are AppRuntime's
subject. The clock is a counter that any
step may find advanced; a key never stamped counts as stamped at 0, and the clock
starts at `Gap`, because `time.time()` is far beyond the window.

### Register

Redis holds `members` (the set of nodes), `counter` (one key per node; a node not in
its domain has no key) and `published` (capabilities, never deleted by the code).
`ServeRequest` receives one request and makes the check that its handler begins
with; `AddMember`/`SetCounter`, `Publish` and `ReadCounter`/`PutCounter` are the Redis
commands that follow, one step each. `ListNodes`, `CheckExists`, `ReadAge`,
`WriteAge`, `DeleteCounter` and `RemoveMember` are the checker thread, which goes through
the members in any order, as `smembers` returns them; an exception
leads back to `ListNodes` without the sleep, as in the code. A node process starts,
sends its requests in the order of `run()`, ends when one is refused, and then sends
a heartbeat every `Tick`, whose answer it ignores. `Restart` is the register process
dying and coming back: Redis survives, requests may be lost, and a node that waits
for a lost answer waits for ever. `exists` and `sismember` at the beginning of a
handler are one step: only the second decides, and members are only added by the
thread that asks.

Simplifications: a node process is started again only when what its predecessor
had sent has been served; a heartbeat is answered within a period.
`CONFLATE` is set on the REP socket after `bind` and for a type that does not
support it; the model assumes no effect.

### MessageBus, CommandLog and CommandDelivery

**MessageBus** is one direction of the broker: `outbox` is what the PUSH socket of the
controller and the PULL socket of the broker hold, `relaying` the message between
`recv_string` and `send_string`, `inbox` the queue of each subscriber. `Push` blocks at
`SendLimit`; `BrokerPublish` skips a subscriber that has not joined, does not match or has
no room, as PUB does. A crash takes the message in hand and any prefix of `outbox` and
suffix of each `inbox`. These rules are ZeroMQ's and marked external.

**CommandDelivery** is `send_command` and NodeRunner's command loop around the bus. A
message is a call of `send_command`; `WireKey` is the key its envelope gets (`to_dict`
falls back to the correlation id, of which `send_command` draws a new one for every
call). `Receive` tests and remembers the key *before* `HandleCommand`, so that a node that
stops in between never applies the command; `StopNode` forgets the cache. A message
without an envelope (`Plain`) is applied without deduplication, one that cannot be decoded
(`Malformed`) is dropped.

**CommandLog** is the promise: the commands sent form a log, and each node handles those
that are addressed to it in the order of the log, each at most once, and may miss any. It
is kept through every crash, because a crash only loses messages. The addressee of a
message (`Addressee`) is one thing and the nodes whose filter lets it through (`Matches`)
another: `ImplementsCommandLog` is claimed of the nodes for which the two agree (`Exact`).
A node whose id begins another's does not keep the promise, since `_command_loop` does not
look at the target; of it only `HandledInOrder` is claimed.

### DeviceCommands and BridgeNode

**DeviceCommands** has the payloads the handlers of `commands.py` make and the updates the
nodes make of a payload. A schema field is its path (a sequence, whose last element is what
follows the last dot), the setting and, of an attenuator or a signal, the channel it is, and
the words in its path, because the nodes choose fields by words and see neither setting nor
channel. A ROADM keeps of an attenuator the base of a path (`BaseOf`) and writes to that base
and the channel of the command (`RoadmTarget`); the source terminal takes a power in two
formats (`SourceSignal`). What a command means is said without the nodes' code: `SettingOf`
and `ChannelOf` have the setting that `commands.py` documents and the channel the command
names, and `Meant` is the field of the device that is these.
`FieldWords`, `NameTells` and `ChannelTells` are what the nodes rely on in the names Twilight
gives its fields: of the words they look for, a name has just those of its setting, and what
goes by the base of an attenuator and the number of a channel is that attenuator's field for
this channel. **BridgeNode** runs the measurement
thread (`Poll`, which is also `setup()` the first time) and the command thread over the
same `session` and `paths`. `Patch` may be done although its answer is lost, or not done.
`BuildReport` waits while the measurement broker takes nothing (`room`).
`SetByOther`, `Outage` and `NewSession` are Twilight and its other users. `written` keeps what
was last set per field, `raced` where the source terminal's write may undo another's.

### ToolCatalogue and Northbound

**ToolCatalogue** makes the tools of an application in the order of the generator, with
names as keys of one dictionary for all applications (`Updated` stores entries over what is
there). A name is the application's and a suffix joined by `_`, so that "A" with `set_gain`
and "A_set" with `gain` share one tool. `GetCommandSchema` constrains `node_id` only in
schemas that have it. A request therefore asks for a name and gets what the tool under it
does (`Served`). **Northbound** is the constructor of `AicController`
(`LoadPluginEntrypoints` to `RegisterApps`), then the background thread (`Instantiate` to
`StartReader`) against requests (`Accept` to `Answer`). `launch` tells `python aic_app.py`,
`python -m` and `uvicorn server:app` apart (`"module"` differs from a script only in that the
second import succeeds, and is left out of the instance): run as a script the module is `__main__`, its second
import raises and is swallowed; with `server:app` the constructor runs while requests are
served. A hook that fails with one of two kinds of error is called once more without its
entry point (`Again`), and a bundle that fails has registered some of its commands and
applications. An MCP handler holds `eventLoop` until it answers, also while `send_string` waits
for `room`; a REST handler runs in the pool, but its answer needs the loop.

### AppAccess

`StartController`, `KillController` and `AfterReply` are RegisterAicApp for every application
of a controller in turn; `RegisterAiApp`, `CheckApp`, `CheckNode`, `CheckCaps` and
`StoreActions` are the handler of the register, one Redis command each where the checker
thread can interfere (`CheckCaps` is one step because capabilities are never withdrawn and
the thread that would add some is busy). Nodes register and publish through the same
thread, in one step here. `ListForTemplate`, `CollectCaps` and `WriteTemplate` are the
generator, `SwitchStack` is the change to the stack it wrote: Redis has no volume, and
nodes that are not in `NODE_SERVICE_MAP` have no service there. `left` has the nodes that
have been removed since the generator listed them and, after the switch, those that are not
back with all they offer (`NoteReturn`): `CollectedGetsIn` excuses a refusal by these only.

### ClientFronts

A request is a line for the proxy or the stdio server or a method call of `AicApiClient`.
Its form says what the front makes of it. The operation behind it is an instance of
AgentCall itself (`Serve`, `Operate`, `Reply`), and `ClientsRelyOnCall` says that what the
client sees, through timeouts, refused connections and translated errors, is AgentCall
again. `Shown` is the translation of an answer: an exception of a tool is HTTP 400 or 500
and therefore an exception of the client, but a result with an error for the proxy. The
stdio server is in `mcp/server.py`; nothing in the repository starts it.

## 4. Runs

| Run | Module, bounds | Question | Result |
|---|---|---|---|
| `runtime_safety` | MCAppRuntime: 2 loop threads, 1 API thread, 2 requests, 1 pool worker, exceptions on; symmetry | Is a request ever lost, handled twice, answered wrongly? | holds (1.8 M states) |
| `runtime_liveness` | 2 loop threads, 1 API thread, 1 request, no exceptions, no symmetry | Are calls answered, do old loops end? | holds |
| `feed` | MCMeasurementFeed: 2 apps, the first with 2 loops, deques of 2, 4 measurements, the third not a dictionary | Order and loss with two loops of one app, and for the app behind it | holds (1.05 M) |
| `dispatch` | MCCommandDispatch: 2 apps, mitigator, 1 caller, 4 commands for one target, `min_gap` | Are commands conserved and priorities kept? | holds |
| `register` | Register: 2 nodes, counters 3 and 2, 2 crashes, 1 restart | Are members monitored, dead ones removed, returning ones let in? | holds |
| `delivery` | MCCommandDelivery: nodes 1 and 10, 2 messages with one key, 1 other, 1 malformed, cache of 1, queues of 2, any number of crashes | Order, repetition, loss on the way to a node | holds (801 k) |
| `device` | MCBridgeNode: a node of each kind, 10 commands, 2 channels, 2 sessions | Does a command change another field or channel? Do reports resume? | holds (155 k) |
| `northbound` | MCNorthbound: 2 bundles with an app each whose tools share a name, 1 plugin, 1 REST and 1 MCP client | Requests against set-up; a blocked event loop; schemas | holds (229 k) |
| `access` | MCAppAccess: 2 nodes, 2 controllers, 3 applications, 1 kill, 1 restart, 1 removal | Are grants consistent? Does a generated application get in? Can a controller be started again? | holds (782 k) |
| `fronts` | MCClientFronts: 3 requests over 3 fronts | May clients rely on AgentCall? Are requests behind bad lines answered? | holds (448 k) |
| `loops_survive` | MCCommandDispatch | "interleave safely without a lock" | violated |
| `zero_gain` | MCBridgeNode: an amplifier, gains of 0 | "line amp: {"target_gain": value}" | violated |

The last two are disagreements between the code and its documentation; `PROJECT.json` quotes
the lines under `findings`. In `zero_gain` a `SET_GAIN` of 0, which the validator lets through,
reaches a line amplifier: `handle_command` takes one key *or* the other, 0 is falsy, and the
PATCH sets the gain to None. It is the only command and value that is changed on the way
(`NoStrayWrites` and `CommandsAsMeant`, section 5), and the `device` run leaves it out for
this reason; the zeros it has, of `AMPLIFIER_GAIN` and of an attenuator, arrive as zeros.

**Bounds and why they suffice.** Two loop threads are what a stop and start leaves
behind; in `feed` the second application has no loop, so that its deque fills and evicts
behind the first one's races (its own races with a loop are the first one's, and the
theorem is about any number of applications and loops); the races are between two of them, or one and an API thread. Two requests
give a queue in which one is behind another. A deque of two is the smallest with an
oldest and a newest that differ. Four commands include two of one application, one
that the mitigator and the application's own validator treat differently and whose
handler raises, one manual command, and one that is malformed. Counters of 3 and 2 make the checker's and the
heartbeat's writes distinguishable. Nodes 1 and 10 are the smallest ids of which one
begins the other: 10 is a node to which CommandLog applies, 1 one that overhears it; a cache of one key and three keys on the wire show eviction. One client
that starts and one that stops or commands, one over each front, meet every step of
set-up; the second bundle has an application that needs a plugin, and a command whose
schema the first one's tool needs, and its own tool has the name of one of the first's.
Two channels of an attenuator are the fewest of which the wrong one can be written. Three requests give each front one in hand, one behind
it and a late answer to an earlier one. A bound that only limits the run is a constant
named `Max...`.

**Deadlock.** It is checked except where the system may really stop: in `dispatch` every
loop may have died; in `northbound` set-up may have failed with no request open; in
`access` every controller may wait for an answer that died with the register; in `fronts`
all requests may have been answered. In the bounded feed the
applications' states can always be updated, so nothing stops.

**Fairness.** Weak fairness for each loop thread, for the two threads
of the register and for coroutines that have begun: the operating system and the
event loop schedule whatever can run. No fairness for API calls, shutdown, starts,
crashes or restarts, none of which anybody has to do.
In Register, `Tick` is weakly fair because time goes by, and serving a node's request
is strongly fair because a REP socket takes its peers' requests in turn; the same holds for
controllers in AppAccess. In Northbound a handler that waits for room in the socket, and an
answer that waits for the event loop, are strongly fair because ZeroMQ wakes the sender and
the loop takes what waits in turn. In ClientFronts the fronts are weakly fair, and so is a
call in the stdio server's own process; nothing is assumed of a controller behind HTTP,
and the fronts' timeouts are what answers then (a line longer than the limit of asyncio's
StreamReader, which ends the stdio server, is not modelled). In CommandDelivery the broker's and the
nodes' threads are weakly fair; `Delivered` asks the broker and the node to stay up and its
queue to have room, without which PUB drops.
`RunningAppServes` and `CommandsSettle` assume that a loop stays alive:
nothing in the code restarts one. `StoppedAppQuiesces` does not need `AppMayRaise`; the
run leaves exceptions out because they only end threads earlier. `EveryCallAnswered` is
checked with one request, so that nobody waits for a worker of the pool. In `feed` nothing is
assumed fair and no liveness claimed: a reader that is for ever faster than a loop keeps it
inside `collect_measurements`, which the bound on measurements would hide. `ReportsResume`
assumes that the measurement broker takes messages from some time on, `RequestsAnswered`
that the command broker does, for a control tool in the stdio server's own process.

`DeadNodeRemoved`, `RestartedNodeGetsIn` and `MembersMonitored` are about a register that
is not restarted. A restart between `sadd` and `set` leaves a member that can neither
register nor be removed, and every pass of the checker then ends at it without a
sleep; see `hazards`. `StartsAgain` likewise is about a
register that stays up, and a controller that is started whenever it has ended.

**What the models show besides.** The following are consequences of the code that one
meets in the modules. The guards of the named actions show them directly, so that no run
is spent on them; where a document says otherwise it is named.

* A quick stop and start leaves two loops running one application (`Spawn`), where
  `docs/user_guide/architecture.rst:52` says "Runs each application in its own thread";
  stopped -> paused -> running leaves none.
* A managed application's loop may dispatch before the mitigator drains it, where
  `docs/examples/conflict_mitigation.rst:259` says that the mitigator runs "while the managed
  apps' commands are still in their deques"; and two threads may pass one arbitration
  window (`Stamp`, `Compare`, `Record`).
* An exception in the checker skips its sleep; several in a row unregister a node that
  never missed a heartbeat, which is not told (`docs/api/register.rst:100`: "unregister if
  not").
* A command that is sent again has another key and is applied again, where
  `docs/user_guide/architecture.rst:348` and `docs/api/broker.rst:104` say that the key makes
  nodes drop retried commands.
* Node 1 also gets the commands of nodes 10 to 19 (`Matches`) and applies them, where
  `docs/api/broker.rst:118` says that the filter allows "Nodes to receive only commands addressed
  to them".
* Tools of two applications may have one name, and the later one silently takes the place of
  the other, which no client can then call (`Updated`, `RefreshControlTools`).
* A handler that raises with an empty text, such as a bare `assert`, is answered with result
  None (`Completed`), where `docs/user_guide/developing_apps.rst:460` says that an error is
  returned.
* A loop that empties a deque between the reader's test and its `popleft` costs the newest
  measurement for its application and for every one behind it in the dictionary (`DropOldest`).
* `SET_TILT` makes a payload no node understands, `LAUNCH_POWER` and `CHANNEL_ALLOCATION` have no
  node that takes them, and the source terminal's `SET_TX_POWER` has no handler in `commands.py`.
* A bridge node whose schema could not be read once never reads it again, and one whose
  session has gone keeps it.
* A running application may be without its plugins at its first turns, and applications
  of another bundle have no REST endpoints under `server:app`.
* A generated stack lacks the nodes outside `NODE_SERVICE_MAP`, so that the application
  generated with it is refused for ever if it reads one of these, where
  `docs/user_guide/developing_apps.rst:143` says "This brings up only the registered nodes and
  the new `template_app`".
* The proxy writes no answer to a line whose `params` are null.

## 5. Proofs

TLC answers for the instances of section 4, the theorems for every value of the constants
that satisfies the assumption named in the module (`...Assumption`), which TLC evaluates
on the runs. Every proof has the same shape: an inductive invariant, one lemma per action
or group of actions that it is preserved by, lemmas of their own about sequences,
dictionaries and message forms, and theorems that combine them. Each inductive invariant
was checked by TLC before it was proved.

| Module | Theorems | Inductive invariant |
|---|---|---|
| `AppRuntimeProofs` | `TypeCorrect`, `CustodyKept`, `HandlerRunsOnce`, `StopReleasesWaiters`, `RequestLifeKept`: `Spec => []...`; `RuntimeImplementsCall`: `Spec => ImplementsAgentCall` | `IInv` |
| `FeedProofs` | `TypeCorrect`; `FeedImplementsLog`: `FeedSpec => ImplementsMeasurementLog`; `FirstLosesOnce` | `FeedInv`, `OneLoss` |
| `DispatchProofs` | `TypeCorrect`; `CommandsInOnePlace`: `[]OnePlace`; `WinnersGoOn`: `[]PriorityWins` | `DispatchInv` |
| `NodeProofs` | `RegisterTypeCorrect`; `RegisteredIsMonitored`: `[]MembersMonitored` | `RegisterInv` |
| | `BridgeTypeCorrect`; `NoStrayWrites`: `[]LastWriteStands`; `CommandsAsMeant`: `PatchAsCommanded` | `NodeInv`, `WriteInv` |
| `DeliveryProofs` | `TypeCorrect`; `DeliveryImplementsLog`: `DeliverySpec => ImplementsCommandLog`; `EveryNodeInOrder`: `[]HandledInOrder`; `KeysAppliedOnce`: `[]AppliedOnce` | `OrderInv`, `CacheInv` |
| `NorthProofs` | `TypeCorrect`; `ToolsRefreshed`: `[]ToolsCurrent`; `SetUpKeepsStates`: `AcceptedStateKept`; `ReadingAfterSetUp`: `SetUpComplete` | `NorthInv` |
| `AccessProofs` | `TypeCorrect`; `GrantsTogether`: `GrantedTogether`; `TemplateGetsIn`: `CollectedGetsIn` | `AccessInv` |
| `FrontsProofs` | `FrontsKeepCall`: `FrontSpec => ClientsRelyOnCall` | `FrontInv` |

**AppRuntime.** For any sets of threads, API threads and requests, any pool size and with
or without exceptions; `RuntimeAssumption` says that the kinds of thread are disjoint,
`None` is not a request and the pool is not empty. `IInv == TypeOK /\ Core /\
StopLeavesNoWaiter` with `Core == Custody /\ RequestLife /\ HandledOnce`; none of the
parts is inductive alone. That a handler runs at most once needs that a request a loop is
about to handle has not been handled (`RequestLife`), which needs that no other loop holds
it and it is not queued as well (`Custody`), which needs that a request not yet queued is
nowhere (`RequestLife` again). That no waiter stays behind after a stop needs that the
request is appended before the state is read again. The refinement maps each step to
`Open`, `Run`, `Close` or a stutter.

**MeasurementFeed.** For any applications, loops, deque length and bodies that are no
dictionary. `FeedAssumption` asks that a topic's subscribers are a sequence without
repetition, because the code keeps them as keys of a dictionary. That each turn of a loop
is a step of MeasurementLog needs that the head of a deque is the oldest measurement an
application can still get: `Ordered` says that a deque is strictly increasing and that
what the reader has in hand for an application is newer than all of its deque. `ReaderAt`
says where the reader is while it has something in hand. An eviction that races a drain is
then a loss of the oldest, an exception in it a loss of the one in hand. `FirstLosesOnce` is
`LossesBounded` for the first subscriber: after a loss its deque is empty until the reader puts
something into it, which is the next measurement the application gets (`OneLoss`).
For the i-th subscriber the bound 2^i - 1 is that of a binary counter whose lower digits are
the losses of those before it; its carry is an induction over the subscribers that the prover
cannot do, so that TLC has it for two.

**CommandDispatch.** For any applications, callers, commands and validators, both
strategies. That a command is in one place needs `ThreadAt` (a thread has a command in
hand exactly while it dispatches one). That a superseded command gave way to one of at
least its priority needs `Drained`: a managed application's deque holds its own commands,
so that the mitigator's list is ordered by rank although the loops go on queueing while it
drains; and `Outranked`, which follows the winner through the mitigator's own deque to its
outcome. `DispatchAssumption` makes the mitigator none of the managed applications.

**Register.** For any finite set of nodes and any counters. `MembersMonitored` needs
`ServerAt` and `CheckerAt`, which say what each thread knows between two of its Redis
commands: the checker's node has a counter until the checker itself deletes it, because
the other thread never deletes one, and it writes back no counter that has run out.

**BridgeNode.** For any schemas, commands and sessions. `BridgeAssumption` asks of a schema
what `NameTells` and `ChannelTells` say, one field per setting and channel, and of a preamp in
a line amplifier a name that the node's `excludes` know; nothing in it speaks of paths learned
or commands handled. A base that was learned from the field of one channel thus leads to
every other's (`ChannelTells` is about the two fields alone). From the words follow the lemmas `LineFields` and `RoadmFields`: the look-ups take a field
for the setting that it is. `NodeInv` keeps that for every path learned (`PathsRight`), at
every point of the learning. `WriteInv` adds what is about to be written (`UpdatesMeant`):
the value of the command to the field it means and, only from a source terminal, to every
other field what that held when the terminal read it, unless somebody has set it since.
It is needed because between `Handle` and `Patch` the paths, the session and the device may
change. `NoStrayWrites` and `CommandsAsMeant` have the hypothesis `NoZeroGain`, and
`zero_gain` shows that it cannot be dropped; `BridgeTypeCorrect` does not need it.

**CommandDelivery.** For any nodes, any relation between messages and the filters that let
them through, any messages,
limits and crashes. What is on the way to a node lies in four places one behind the other
(the hand of its thread, its queue, the broker, the controller's socket); `OrderInv` says
that each is in the order of the log and that every message in one is older than all in
the places behind it, so that whatever a node handles next is newer than what it has
handled (`EveryNodeInOrder`, for all nodes). A crash only removes messages, which keeps that. `KeysAppliedOnce` needs
`CacheInv`: the cache holds keys without repetition and in the order they were met, a key
that was met and is not in it has been pushed out by newer ones that fill it, and so
between two meetings of one key lie enough others.

**Northbound.** For any bundles, applications, plugins, clients and requests.
`NorthboundAssumption` says that bundles have finitely many applications and share none; names
may collide. `Refreshed` goes through the constructor's loop: the name of every command of an
application it has been at is that of a current tool of some such application, because
refreshing another one replaces it by a current tool or leaves it alone. `SetUpInOrder` says that the background thread starts only after the
constructor, so that it meets every application, and that one it has not come to has no
state a request could have set; that is why set-up never takes a request's state back.

**AppAccess.** For any nodes, controllers, applications, kills, restarts and removals.
`LooksHeld` is why separate look-ups are as good as one: nodes join only between two
requests, so whatever is still a member was one when the request was received, and a node
found earlier and removed since was one too. `TemplateGetsIn` needs in addition that what
a generated application asks for is fixed before a controller has it (`TemplateFixed`),
and that what the generator has read stays published until the stack is switched, and is
published again by a node that has come back after that (`Collected`).

**ClientFronts.** For any requests and any lines. A request goes from its line to the hand
of its front and is then posted, and it is answered when it leaves either (`InTurn`), so
once at most. `Honest` relates what a client has been told to what the controller does
with the request: it is inconclusive, or the controller's final reply, or a refusal of
what was never posted. With `Operated` (what a reply says of the runs) each step is one of
AgentCall for the client: an operation that still runs after a proxy has given up is one
that AgentCall allows after an inconclusive answer.

**Left to TLC.** The liveness properties (`EveryCallAnswered`, `StoppedAppQuiesces`,
`RunningAppServes`, `CommandsSettle`, `DeadNodeRemoved`,
`RestartedNodeGetsIn`, `Delivered`, `ReportsResume`, `CallsAnswered`, `StartsEventually`,
`StartsAgain`, `RequestsAnswered`), because they rest on fairness and ENABLED, which the
prover does not handle; and `LossesBounded` for the subscribers behind the first.

## 6. Not modelled

The components marked `not_modelled` in `PROJECT.json`, each with its reason: the legacy
C++ broker is not deployed; the base class and decorators of nodes have no behaviour of
their own; dummy and srsRAN nodes, the srsRAN application and the client's examples change
no state another component sees. Of the message bus only the command direction is
composed with its ends. The generator's text, read-only endpoints and methods, interactive
mode, `wait_for_state` and the wording of answers are left out. A stopped application keeps
its deque of commands, and those are sent when it is started again: how old they then are
depends on time, which no module has.
Within the modelled parts: MeasurementFeed and CommandDispatch leave stopping and
`shutdown` to AppRuntime; an application with an empty `read_measurements` is not a
subscriber (the code gives it a deque that nobody drains); `get_app_measurements`
(reads only; it may raise `IndexError` in a race), the contents of measurements and commands, log output, and
the sharing of one PUSH socket by all threads, whose outcome is internal to libzmq.
