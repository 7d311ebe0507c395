# BenchCAT in TLA+

A verification development of BenchCAT, the EtherCAT debugging workbench of this repository: TLA+ models of the parts that
own the bus and of the user interface that drives them, checked with TLC on small instances, and theorems about them checked
with TLAPS. Paths below are relative to `src/` (the repository): Python is under `src/ethercat_debug_tool/`, the host is
`desktop/src-tauri/src/main.rs`, the UI is under `desktop/src/`.

## 1. The system

```
React UI  --invoke/events-->  Rust host  --two named pipes, JSON frames-->  Python bridge  --futures-->  worker thread --> backend (pySOEM)
```

| Component | State it keeps | Operations | What makes it hard | What makes it correct |
| --- | --- | --- | --- | --- |
| UI requests (`snapshotClock.ts`, `operationStore.ts`, `api.ts`) | table of operations, last snapshot, page generation | send, resolve, reject, accept a snapshot, invalidate, prune | answers, snapshots and exits out of order; a page left or a core replaced meanwhile | the snapshot shown never goes back; a result reaches its caller in its own context only; no verdict that is not an answer |
| Updater (`App.tsx`) | state, the task that holds it, handle of the version found, reminder | search, remind, install, restart | the search, the user and the device operations race | a version is installed only while the device is left alone |
| Workbench (`App.tsx`, `workbenchViewModel.ts`) | what is shown of the bus, selection, progress, caches per session | apply a snapshot, select, connect, scan, request a state, read and program an EEPROM | a lock held by a request of a session that is gone | the lock ends with its operation; what is shown is of the session shown |
| Start-up (`bridgeStartup.ts`, `api.ts`, `App.tsx`) | generation observed and initialised, call in flight, files to open | subscribe, initialise, reload, restart, fetch files | a core replaced during each step, answers of the old one | the adapters shown are those of the core in service; nothing announced is missed |
| Messages (`messageHistory.ts`, `bridgeHistory.ts`, `MessageDock.tsx`, `MessageHistoryPanel.tsx`) | records, series of repeats, what is read, queue and timers of the dock | record, announce, advance, hide, dismiss, read, clear | a bounded list, repeated records, timers and a pointer | every failure is recorded as what it is, announced, and unread until it was on the screen |
| EEPROM editors (`QuickEepromFlashDialog.tsx`, `EepromPage.tsx`) | document, Device, ConfigData, image prepared, numbers of the last call | load, choose, edit, save, generate, program | answers for an earlier file, Device, slave or connection | what is programmed is what is shown |
| Register page and manual viewer (`RegistersPage.tsx`, `PdfManualViewer.tsx`) | values, queue of reads, monitor, editor; document, outline, search | read, poll, write by plan, raw access, reset; open, turn, search | one exchange at a time shared with the rest of the UI; remounts; a slow document | a register is written over the value its user saw; the manual shown is the one asked for |
| File lists and codecs (`eepromConfig.ts`, `EepromSources.tsx`, `registerValues.ts`, ...) | stored and cached lists | add, remove, hide, choose | two views of one storage, two spellings of one path | both views show what is stored; a file removed stays away |
| Host (`main.rs`: `Bridge`, `BridgeSupervisor`) | current generation, core process, lifecycle, table of open requests, queue of faults | request, time out, read, write, terminate, replace, shut down | five kinds of threads, a core that dies or stalls at any time, deadlines | one core at a time, none left behind, every failure heard, every request ends |
| Transport (`framing.py`, `JsonWriter`, lanes of `bridge.main`) | bounded response queue, slots of the three lanes | send, heartbeat, accept, refuse | full queues, partial frames | answers are not lost silently |
| Bridge runtime (`bridge.py`: `BridgeRuntime`) | `_command_lock`, `_eeprom_exclusive`, `_worker_stalled`, worker, plans, assets, targets | 40 commands, event loop, idle monitor, shutdown | requests, events and timeouts interleave around one worker | what is shown is what is; nothing superseded reaches the bus; one programmer; one Master |
| Master state (`master_state.py`) | mode, phase, adapter, slaves, session, revision, last error | one method per outcome | results that arrive in another session or phase | consistency of phase, session and bus |
| Worker (`worker/ethercat_worker.py`) | bounded priority queue, cycle, safe-state flag | submit, cancel, execute, exchange, shut down | cancellation against execution, a cycle between tasks, failures half-way | no request lost, control first, slaves brought back from OP |
| EEPROM service (`services/eeprom_service.py`) | the image and the place in it | flash, verify, reset, rediscover | lost writes, odd sizes, cancels, a slave that does not come back | what is reported as programmed is |
| Register service and plans | stored plans, register jobs | prepare, confirm, read back, cancel | plans that outlive a session | seen from the register page only |
| Backends (`backends/`) | pySOEM handle, mapping, EEPROM ownership | the calls of the worker | failures half-way | seen from the worker only |
| ESI, SII, profiles, codecs of the core | none | pure conversions | | not modelled |
| Library index, audit, web bridge, packaging | caches, logs | | | not modelled |

The interactions: the UI calls the host and receives its events; the host writes requests to the core and reads answers and
events; the bridge runs each request on a thread of a lane, and hardware commands one at a time under `_command_lock`; the
command submits tasks to the worker and waits for their futures; the worker's events are applied by the event loop, which
does *not* hold that lock. In the UI every page sends its requests through the operation store, shows the bus by the snapshots
it has accepted, and may be left, remounted or moved to another slave before an answer arrives. The hazards listed in
`PROJECT.json` live at these boundaries.

## 2. The modules

| Module | Models | State and actions |
| --- | --- | --- |
| `BusViews` | `models.SlaveInfo` lists | A list is its topology, the weakest AL state the phase rules distinguish, and a read-error mark. |
| `MasterState` | `MasterStateMachine` | One variable per field, one action per method; a method that raises is disabled, and `Can...` says whether it would. `_assert_invariants` is an invariant, not a guard. |
| `SnapshotClock` | what consumers assume of snapshots | Abstract specification: names `<<session, revision>>` only grow and content never changes under one name. |
| `Worker` | `EtherCatWorker` | `wpc` is the thread's place in `_run`; `queue`, `held` and `fut` are the tasks, `cyc`, `needsSafe`, `events` its fields; clients submit, give up, collect. The backend is external: `conn`, `bus`, and what may fail. |
| `Bridge` | `BridgeRuntime` | Composes `Worker` and `MasterState` (by INSTANCE). `call[c]` is the place of each thread in its command; the locks and flags are variables; the event loop fetches the worker, takes a batch and applies one event per step, without the command lock; `turn` is how far it was when a stop overtook it. |
| `EepromFlash` | `EepromService.flash`/`restore` | One action per loop iteration or call; EEPROM contents are bytes. |
| `HostSupervisor` | `Bridge` and `BridgeSupervisor` of the host | `call[t]` is the place of each thread; per generation the process, its lifecycle, reader, writer, table and pipes. The core is external. |
| `UiRequests` | `OperationStore`, the clock, `BridgeApi.request` | `ops` is the table, `answers` what the core said or will say, `events` the snapshots and exits on their way; one action per method, and per handler of an answer or an event. |
| `UiUpdate` | the updater | EXTENDS `UiRequests`: an installation sends `status`, `stop_cycle` and `disconnect` as requests and awaits them; the store refuses others meanwhile. |
| `Workbench` | the frame of `App.tsx` | `status` and `caches` carry the session they are from; `progress` is the lock; requests end out of order. |
| `UiStartup` | start-up and host events | `sub` is the place of the subscription, `call` the stage of the initialisation; the host is external, with one channel in order. |
| `UiMessages` | history, verdicts, dock, panel | notices are numbers that stand for their keys; the timers of the dock are actions. |
| `FlashTargets`, `QuickFlash`, `EepromPage` | the two editors and what they share | a call keeps the flags `request` and `load` as long as no later call has taken its number; a target names the document, Device, ConfigData and context it was generated from. |
| `Registers` | the register page | one record per mount, kept values per slave, calls of any mount; a poll is one action per timer. |
| `Manual` | the manual viewer | `load` is the place of the load that is not cancelled, `task` and `retiring` the PDF worker. |
| `UiSources` | the file lists and their two views | stored lists, and the copy each view has of them. |
| `UiCodecs` | what the pages compute | operators beside the definition they are checked against; no state. |
| `MasterStateProofs`, `EepromFlashProofs`, `HostSupervisorProofs`, `WorkerProofs`, `WorkerQueueProofs`, `BridgeProofs`, `UiSessionProofs`, `UiPagesProofs` | theorems | see section 5 |
| `MC...` | instances for TLC | definitions for model values and symmetry |

`Bridge` uses `Worker` and `MasterState` whole: a command's submissions, answers and commits are steps of the bridge, and the
worker interleaves between any two of them. `EepromFlash` is the inside of the single worker task that `Bridge` calls the
"program" step. `HostSupervisor` sees the whole core as one process. `MasterState` is shown to implement `SnapshotClock`
(`ImplementsClock`, checked and proved), `Bridge` to implement `MasterState` (`MasterIsUsed`, proved), and `UiRequests` compares snapshots by the names that `SnapshotClock` promises.
`MCUiSession` puts `UiUpdate` and `Workbench` beside one another, and `MCUiPages` the other modules of the UI: a behaviour
follows one scenario or part, chosen at the start, and the others stay as they are. That is not a composition: the parts meet
in the code through the operation store and the busy flags, which each module takes as external (`other` and `blocked` of
`Registers`, `operation` of the editors, `updating` of `UiRequests`).

Abstractions worth knowing: automatic scanning tries one adapter; `MasterState` lets a running cycle change only a list of
the same topology, which is what `Bridge` gives it (`MasterIsUsed`, proved); process-data display values, informative
events, audit entries and wording are left out; in `HostSupervisor` the queue of faults is a set, because the first fault of
a generation replaces it and any other is dropped, and marking and draining are one step, as are reading the end of a pipe
and reporting it; a malformed answer ends its request and raises a fault. In the UI, a handler that runs without awaiting is one
step and the effects React runs after it are part of it, or an action of their own where another handler may come first; wording,
layout, menus and themes are left out. In `Workbench` a snapshot equal to the one shown may reach no listener, and the exit of a
core publishes a faulted snapshot without slaves, unless a newer session is shown; a fatal worker, whose event has no session,
leaves the snapshot to the core. A register stands for its address and width and a value for its bytes; ConfigData is one of a
few values, some of which the code accepts; the path of a file is a name in one of two spellings, and a recent file whose Device
the panel does not know has none (ordinal -1).

## 3. The runs

Passing runs:

| Run | Question | Bounds |
| --- | --- | --- |
| `MCMasterState` | Can any sequence of methods break phase, session or snapshot rules? | two topologies, two modes, six revisions |
| `MCWorker` | Are requests lost, duplicated or served out of priority? Does a half-failed operation leave slaves in OP, or events without a session? | two scenarios: two clients that may give up, and one client with every operation; queue of two, failing start-up |
| `MCWorkerLive` | Are stop and shutdown served? | two clients, queue of three |
| `MCBridge` | Do the logical state, the worker and the adapter agree; are sessions kept apart; is there one programmer, on the bus its target was chosen on, and one Master; is a given-up worker shown? | eight scenarios (below), two hardware threads, two topologies, up to four commands, one idle probe, two events |
| `MCBridgeLive` | Does every command end? | two commands, two hardware threads, shutdown, `switch_mode`, a worker that may fail to start or never return |
| `MCEepromFlash` | Is a reported image there; are neighbours kept; does it end? | two words, two byte values, every image, size and old content |
| `MCHostSupervisor` | Two cores, a core left behind, a failure nobody hears? | one UI request and the shutdown request, channel of one, two generations |
| `MCHostSupervisorLive` | Do requests, replacement and exit end? | one request, one generation |
| `MCUiSession` | Does the UI show an older snapshot, hand a result to another context, call a command failed that may have happened, install beside a device operation, or stay locked? | four scenarios (below); two cores, two sessions, two pages, one event in flight, up to four requests, a table of two |
| `MCUiPages` | Does each part of the UI show and write what is current, and never wait for ever? | ten parts (below) |

The command set of the bridge is too large to explore at once, and most commands do not disturb one another. A behaviour of
`MCBridge` therefore stays within one scenario (a constant of the behaviour, chosen at the start), which says what may be sent,
by how many threads, to how many buses, and whether start-up may fail or the host may end the bridge:

| Scenario | What meets in it |
| --- | --- |
| `Cycle` | start, stop and state requests, disconnection, the events of the cycle |
| `Reset` | a cycle started after a register reset lost the slaves |
| `Restart` | cycle, `switch_mode` and shutdown, with workers that stall |
| `Reading` | scans, state reads and `clear_error` beside the idle monitor, two buses |
| `Connection` | explicit connection, scans and reconfiguration by two threads, two buses |
| `Events` | events of a cycle that arrive after the bus was scanned again, two buses, four commands |
| `Programming` | EEPROM programming, rescans and other accesses by two threads, two buses, failing start-up |
| `Pair` | any two commands at once, and a probe |

The scenarios of `MCUiSession` are `sessions` (two requests of one page while cores and sessions change), `pages` (three requests in a table
of two, and another page), `update` (an installation beside one other operation, in one session) and `workbench` (the frame, two
sessions, two requests and two messages on the wire). The parts of `MCUiPages`:

| Part | What happens in it | Bounds |
| --- | --- | --- |
| `startup`, `files` | three cores, each of which may fail or be replaced at any step; two files opened from outside | one use of the reload button |
| `verdicts` | every way an operation may end, and the algorithms of `UiCodecs` over every input | bytes of two bits, lengths up to two |
| `history`, `dock` | records of several kinds into a list of two; two records and a toast announced beside a progress | three records |
| `sources` | two Devices of one file in both spellings and another file, two views, a library that changes | four edits, lists of one |
| `dialog`, `page` | an XML and a BIN, two slaves, two connections, up to two calls in flight | |
| `registers` | an automatic and a manual register, one of them writable, other operations, values that change by themselves, a remount | three choices (`Budget`) after the page opened, or after its first read with one register monitored (`RegistersMonitored`) |
| `manual` | two good manuals and a broken one, with outline and search | one page, and a target beyond it |

The scenarios of `MCWorker` work alike. Clients, threads and topologies are interchangeable, and the runs without liveness use
that symmetry (each scenario with one bus exists for each topology, so the set of scenarios is symmetric too).

Why the bounds are enough: each hazard involves at most two threads of the bridge, one worker and one event in flight, and
three commands are what it takes to connect, start and disturb; two topologies are what it takes to tell sessions apart; two
words and chunks of one word give images that end within a word, within a chunk and at the capacity; two generations are what
it takes to have a core and its replacement, and a channel of one is full as soon as two users (a caller and the shutdown)
write. Queues are smaller than in the code (`QueueLimit` 2 or 3 for 32, `ChannelLimit` 1 for 64), which makes the full queue
happen. In the UI each hazard involves one answer that is late and one change of context or of target, so two of each (calls, slaves,
connections, sessions, pages, manuals) are what it takes; three cores are an old one, its replacement and the replacement of
that; the lists hold one or two entries for 20 to 200, so that they overflow and are pruned; bytes of two bits carry, wrap and
have fields across their boundary as bytes of eight do. Every choice of the user on the register page is counted by `Budget`:
three are what it takes to prepare a write, change what is under it, and confirm it.
Named bounds: `MaxRevision`, `MaxCommands`, `MaxProbes`, `MaxEvents`, `MaxPolls`, `MaxGen`, `MaxRequests`, `MaxOps`, `MaxActive`,
`MaxPage`, `MaxGeneration`, `MaxSession`, `MaxReloads`, `MaxFiles`, `MaxRecords`, `MaxToasts`, `MaxProgress`, `MaxEdits`,
`MaxClock`, `MaxCalls`, `MaxMounts`, `Budget`.
The configurations of `MasterState`, `Bridge`, `EepromFlash`, `HostSupervisor` and the UI switch the deadlock check off: bounded
revisions, commands and choices run out, a programming operation ends, the application ends, and a UI nobody uses is idle. The
worker is checked with it on, which says little: `MarkStalled` is enabled in every state, as `mark_stalled` is in the code. That
the worker does not wait for ever is what `ControlServed` and `ShutdownCompletes` say.

What the properties of the runs say is written at their definitions. Some of them join what belongs together: `RequestsServed`
is `NoLostRequest` with the bound on what overtakes a control task; `RequestsAreCurrent` speaks of every request that reaches the
worker, the target of an EEPROM session included; `SessionsHold` of the topology of a session and of the events that may change
it; those of `MCUiPages` hold the properties of one concern in each part.

Runs that refute something the repository says of itself (quoted in `PROJECT.json`, "findings"):

| Run | What the counterexample shows |
| --- | --- |
| `MCBridgeLateEvent` | a delayed event of the same session replaces a newer list |
| `MCBridgeStaleFault` | the late fault of an earlier cycle lets EEPROM programming start beside a running one |

Other observations, made with TLC while the modules were written and kept here without a run of their own:

- `Worker`: the thread puts an ordinary task back with a blocking `put` into its own bounded queue
  (`ethercat_worker.py:316`). When a client fills the freed place first, the only consumer waits for ever. With a queue of one
  and two clients TLC shows it; the shipped bridge has too few submitters to fill its queue of 32, so it does not happen there,
  and it is no hazard of this program. The clients of `MCWorkerLive` cannot fill their queue of three either.
- `Worker`: a request submitted after a failed start-up was drained, and before the thread has ended, passes the check of
  `submit` and is never answered (`ethercat_worker.py:293-300`). The time limit of `_submit` ends the caller's wait.
- `Bridge`: a cycle that fails between the answer to start and its commit has its fault event handled first, in BUS_SCANNED;
  the commit then shows the Master as cyclic although nothing cycles (`bridge.py:1293`).
- `Bridge`: after a `register_reset` that lost the slaves, `start_cycle` has the worker start the cycle before anything checks
  the phase, and `cycle_started` then raises: a cycle runs that the Master does not show (`bridge.py:1273`). Its events fill
  the empty list and so start a new session while the next request is queued, which is why `RequestsAreCurrent` speaks of the
  session for EEPROM programming only, and `SessionsHold` has the condition under which events keep it.
- `Bridge`: the session of a request is compared before the wait for the command lock (`bridge.py:1849`) and not after it.
- `Bridge`: a fault of the worker that `switch_mode` has just created may be handled before `switch_mode` commits, which
  overwrites FAULTED with DISCONNECTED (`bridge.py:1011`): the stall flag stays set and no fault is shown. The fatal event of the
  worker that `switch_mode` replaces may also have been polled before the replacement and be handled after it: the event loop
  does not compare workers (`bridge.py:502-506`, `1004-1010`), so it marks the new worker stalled. In both windows `FaultShown` is
  false, and with it the part of `RequestsAreCurrent` that says the worker is in service. Its run lets no worker fail to
  start beside `switch_mode`, and the theorems about them exclude these two windows and nothing else (`FatalIsOfThisWorker`).
  The second has another way in: the loop fetches the worker under `_worker_lock` (`bridge.py:479`) and polls it without, so it
  may poll the one that has been replaced meanwhile (`turn`, `LastPoll`); the condition excludes a fatal event from there too.
- `Bridge`: with two buses, a scan or a programming command that has changed the bus in the worker and has not yet told the
  Master may be overtaken by an event of the new list: the event then starts the session that the command was about to start.
  `SessionsHold` leaves this case out (`~Rescans`); it was found when the proof for any number of buses failed.
- `EepromFlash`: the README speaks of rewriting differences for up to three passes (`README.en.md:102`); there is one pass.
- `EepromFlash`: `README.en.md:106` counts a valid SII structure among the conditions of success; `image_success`
  (`eeprom_service.py:49`) does not depend on it.
- `UiRequests`: an answer that arrives after the exit of its core, with a revision as high, replaces the fault that is shown
  (`api.ts:212`).
- `UiUpdate`: a connect or scan that a page change has invalidated does not count as a device operation any more
  (`App.tsx:908`): an installation begun then downloads without disconnecting, although `App.tsx:258` says otherwise.
  `InstallsSafely` therefore speaks of device operations as the store knows them.
- `UiStartup`: an answer of `bridge_host_state` that says "failed" and arrives after the restart event of the same generation
  leaves the UI unavailable (`api.ts:262-265`). A reload that waits for a running initialisation is carried out without being a
  reload (`bridgeStartup.ts:63`).
- `Workbench`: the answer of `reconfig` may be overtaken by the snapshot of a newer session and then sets the register profile in
  that one (`App.tsx:1005`); the failure of another request is written on the progress of a running EEPROM operation
  (`App.tsx:652`).
- `EepromPage`: a selection handed over by the dialog while ConfigData is being saved (`EepromPage.tsx:253`, without the test that
  `QuickEepromFlashDialog.tsx:320` has) leaves the page at "saving" until it is mounted again; `configurationChanged` is lost when
  the page is left, so that after a failed operation the prefix of the old configuration is shown (`EepromPage.tsx:387`).
- `QuickFlash`: the test of the context of an answer is redundant with the numbers of the requests.
- `Registers`: after a write refused because the value had changed (`RegistersPage.tsx:918`), reading that register alone and then
  all of them leaves the editor with the old value as its base, so that every write is refused until another row is selected;
  registers queued while a full read that then fails is cancelled are skipped until the page is mounted again (line 696 against
  701); an explicit read of a manual register that waits together with a full read is dropped (685).
- `Manual`: a page out of range in the document that is already open reports its error and leaves "loading" on
  (`PdfManualViewer.tsx:154`).

## 4. Fairness

- `Worker`: the thread is scheduled and its backend calls return (they carry time limits); events are polled. Nothing is
  assumed of clients.
- `Bridge`: each thread of the bridge is scheduled, and its waits have time limits; nothing is assumed of the worker, which
  may stay in a native call for ever. That is what the time limits of `_submit` are for.
- `EepromFlash`: backend calls and polls return.
- `HostSupervisor`: the host's threads are scheduled and its timers expire; nothing is assumed of the core, nor that a
  request is made or the application ended.
- `UiStartup`: the host delivers its events and answers, and ends up with a core, a failure or no worker; the effects of the UI
  run. `UiMessages`: the timers of the dock fire. `QuickFlash`, `EepromPage`, `Registers`, `Manual`: requests are answered (the host
  answers or times each of them out) and files are read or fail, other operations end (the same), and debounce timers fire.
  Nothing is assumed of users, and `PagesSettle` for the editors and the viewer is about users that have stopped making new
  choices: whoever keeps changing the file starts over each time.

The fairness of `MCUiPages` is weak fairness of a disjunction with at most one action of each part. Since a behaviour never leaves
its part, such a disjunct is weakly fair exactly when each of its actions is while its part is followed.

## 5. What is proved

`MasterStateProofs`, from `MasterAssumption` and `TopologyAssumption`: `TypeCorrect`, `PhaseIsConsistent`, `TopologyPinned`,
`FaultLeftBySwitchOnly`, `SnapshotsAreNamed`. The inductive invariant is `TypeOK /\ PhaseConsistent`: a method's guard speaks
of the phase, and only its agreement with adapter and list makes the next state consistent. Every method goes through
`Replace`, so one lemma about it carries the consistency and the step of `SnapshotClock`, and each method supplies what it
passes. The refinement has no mapping beyond packing the other fields into `content`. The same proofs are given for whoever
calls the methods, without the bound on revisions (`Uses`, `UsesKeepInvariants`, `UsesKeepFault`, `UsesImplementClock`): that is
what `Bridge` needs of them.

`EepromFlashProofs`, from `FlashAssumption`, for every capacity, chunk size, image size and set of byte values: `TypeCorrect`,
`VerifiedImageIsExact`, `NeighboursAreKept`, `CancelledIsUntouched`, `ResetsOnlyExact`. The inductive invariant `IInv` adds to
the properties where each place of the operation is in the image (`RangeHolds`, `Places`), that nothing is written before the
first word (`Untouched`), that the byte kept for an odd image is the one in the EEPROM (`TailKept`), that everything read back
so far equals the EEPROM (`ReadSoFar`), and what the flags mean (`Results`). Without `ReadSoFar` the comparison says nothing of
the EEPROM; without `TailKept` the last word of an odd image would overwrite its neighbour. `IInv` was checked with TLC before
it was proved. `TypeCorrect` (of both modules) and `CancelledIsUntouched` are proved and not among the properties of a run.

`HostSupervisorProofs`, from `HostAssumption`, for every number of callers, generations and requests and every capacity of the
channel: `OneCoreAtATime`, `NoCoreIsLeft`, `EndsAreHeard`, `OpenRequestsAreInTheTable`, `HostIsTyped`. The inductive invariant `Inv` says where each thread may be.
`LocksHeld`: whoever replaces or ends a core holds the restart lock. `CoreInHand`: the only process that may be alive is the
one that the place of the supervisor names; the generation it starts or terminates, none between the two, the one in service
elsewhere. `ExitInHand`: while the application ends, the core in service stays the one that the end has in hand, and
afterwards the supervisor is not at work. `ReadersHeard`: where a reader has ended, its fault is queued or the supervisor has
taken it from the queue; between the handshake and the installation it must be queued, since the generation that is not
yet installed would otherwise be installed dead. Steps of the callers, of the pipes and of the core are calm steps
(`CalmStep`), and one lemma shows that these keep `Inv`. `Inv` was checked with TLC before it was proved.

Two more theorems rest on `Inv`. `OpenRequestsAreInTheTable`: the table of a core holds exactly the requests of that generation
that were sent and have no answer (`TableKept`). Equality is what makes it inductive: whoever empties the table (a termination, the
end of a reader) answers everyone in it, and nobody else is open. That an insertion finds a request without an answer is
`BegunFresh`. `HostIsTyped` is the `TypeOK` of the module, the capacity of the channels included. Neither is among the properties of
a run; both were checked with TLC on the same instance with two callers, as far as five minutes reach.

`WorkerProofs`, from `WorkerAssumption`, for every set of clients, sessions and operations and every length of the queue:
`RequestsAreKept`, `SafeStateIsRemembered`, `EndedReleases`. The invariant of the first, `Placed`, says for each client in how
many places its request may be, and of the thread's hands when they hold one: `RunsItsOwn`, that what runs is never a request
whose client has gone (a task cancelled before it began is skipped, and one that runs cannot be cancelled), is what makes the
answer end the request it belongs to. A step that moves requests (the look at the head, the put back, a wake-up) is shown by a
map of new places to old ones and back (`Moves`); where in the queue a task is inserted does not matter to it, so the proof
does not depend on the priorities.
`SafeStateRemembered` alone is not inductive either: what is owed to a bus must be known to end with the adapter, and the adapter to be released on every way out
of the loop. `Inv` says so (`owed => conn /\ needsSafe`; outside the loop, no adapter). `EndedReleases` is not among the properties
of a run.

`WorkerQueueProofs`, from `WorkerAssumption` and `ScenariosAssumption`, for the same sets and lengths: `RequestsAreServed`, the
whole of `RequestsServed`, which adds to `NoLostRequest` that at most one task overtakes a control request that waits. The
invariant `ServedInv` adds two parts to `Placed`. `InOrder`: the queue is sorted by priority, and what the thread is about to put
back is not a control request (so it goes behind those that wait). `OvertakenOnce`: once a request was overtaken the thread has no
task in hand that it looks at again or puts back, because it looks at the head of a sorted queue next. Where a task is inserted
is the length of a downward closed set of places, which is an interval (`DownwardIsInterval`). Both parts were checked with TLC
before they were proved. That a control request is served at all (`ControlServed`) needs fairness and stays with TLC.

`WorkerProofs` also holds the lemmas that a user of the worker needs: its fields keep their types, what each operation may do
to the adapter, the bus and the events (`Brings`), whose tasks there are and where (`Around`), when futures change and by whom
(`Futures`), and what the thread may begin (`Beginning`). `BridgeProofs` takes them by INSTANCE, so that the bridge's proofs
never look into an operation of the worker twice.

`BridgeProofs`, from `BridgeAssumption`, for every set of hardware threads, topologies and commands and every behaviour of the
worker: every property that `MCBridge` checks, but for liveness and two statements that are refuted. The argument
goes through invariants, each of which needs the one before.

| Invariant | What it says | What rests on it |
| --- | --- | --- |
| `Inv` | What each kind of caller may be doing (`CallersTyped`); outside its loop the thread has no adapter (`AdapterReleased`). Without the first, a caller in another's stage could drop a reservation that is not its own. | `OneProgrammerAtATime`, `NoSecondMaster` |
| `Types` | The command lock belongs to the caller between admission and end (`Locks`); the worker keeps its invariants (`WorkerSound`); the Master keeps its types and phase rules (`MasterTyped`). | `AllTyped` |
| `Awaited` | A request that is queued is one that its caller awaits. | `BegunRequestsAreAwaited` |
| `Sound` | Whose task the thread has (`TasksFit`), of which session tasks and events are (`TasksOld`, `EventsOld`), who is giving the worker up (`Marked`), and that a connected Master has the adapter open until a command withdraws it. | `AdapterStaysOpen` |
| `OneBus` | While the Master is connected and no command has changed the bus, its list, the bus of the backend, the lists on their way in events, and the answers not yet read are about one topology. | `SessionsAreBuses` |
| `FaultFlow` | A worker given up is shown, or is about to be shown by the caller or the event loop that marked it. | `FaultIsShown` |
| `TargetsHold` | While a programming command waits, the session of its target is the session shown. | `BegunRequestsAreCurrent` |

`SessionsHold` alone says nothing of what is on its way, and what is on its way is all that could break it: hence `OneBus`. It
in turn needs to know which command may have changed the bus, which is a fact about whose task the thread has (`TasksFit`), and
this needs a caller to be the only one that deals with the worker (`Locks`). `NextStepped` reduces the steps of the bridge to
five shapes (a caller moves, the loop polls, the loop handles an event, the worker works, or nothing that matters changes), so
that each of the later invariants is shown for a shape and not for every command.

`FaultIsShown` and `BegunRequestsAreCurrent` are about behaviours in which the event loop has no fatal event in its hands while
a `switch_mode` has replaced the worker and not yet told the Master (`FatalIsOfThisWorker`): without it they are false (section
3). `StartingOrNeverReplaced` shows that this is so of every bridge whose workers start, and of every bridge whose mode is not
switched; both properties then hold of all its behaviours, as in each scenario of `MCBridge`. `BegunRequestsAreAwaited` is the part of the latter
that holds without it: whoever timed out, was refused or gave the worker up meanwhile, the thread begins a request only for
the caller that has the command lock and waits for it.

On top of these stand the two components inside the bridge. `MasterIsUsed`: every step of the bridge changes the Master by a
method of `MasterStateMachine`, where that method does not raise, or not at all (`Called`, shown per shape of step), and hands
it no list of another topology than its session's, which is `OneBus` again. So `Bridge` implements `MasterState` without its
bound, and what is proved of the methods holds in the running bridge: `MasterStaysConsistent`, `FaultLastsUntilSwitch`,
`BridgeSnapshotsAreNamed`. `BridgeKeepsRequests` and `BridgeRemembersSafeState` say the same of the worker: the two invariants
of `WorkerProofs` outlive its replacement, because a worker is replaced only when its thread has ended, and its successor has
neither requests nor an adapter. `BridgeKeepsRequests` states a part of `RequestsServed`; that no more than one task overtakes a
control request is proved of the worker alone (`RequestsAreServed`).

`UiPagesProofs`, without an assumption on the bounds, for every number of replaced cores, reloads and late answers:
`AdaptersStayCurrent`. `NothingAhead`: no event on its way, no state and no call of the UI is of a generation that the host has
not begun. `AnswerIsLater`: a list of adapters that the UI waits for is of the generation it was asked of or of a later one;
with the comparison of the generation after the answer this makes the list current.

The same module, also without an assumption, for all files, contexts and numbers of calls: `EditorsAreTrue`. For the page,
`PageFits` says it of each page that is kept, mounted or not, whatever the context; `CallsFit` says which calls may still change
the page in front: a generation that is not superseded is that of the document, Device and ConfigData shown, and there is no
draft; a load comes to a page without document and target, and nothing is generated meanwhile; a save keeps the page locked; and
of loads, saves and the generations that end them there is one at most. For the dialog, `TargetFits` says the same of the one
state it has, and `DialogCallsFit` of its calls: of a dialog that is closed none counts; a generation that is not superseded is
that of what is shown, a draft included, because an edit drops the target at once; a load comes to a dialog without document and
target while nothing is generated; and a save locks it, so that the Device it was sent for is the one shown when it ends.

`UiSessionProofs`, from `MethodsAssumption`, `BoundsAssumption`, `NoSnapshotAssumption` and `InstallAssumption`, for any number of
operations, pages, sessions and cores, any set of commands and any limits of the table: `RequestsWellTyped`, `ClockGoesForward`,
`ResultsStayInContext`, `VerdictsAreAnswers`, `InstallationIsSafe`. The inductive invariant `Inv` adds three things to the types.
`AnswersMatch`: an answer that was handled has ended its operation, so that a later one cannot end it again. `AllSentHere`: an
operation that is still active was sent on this page to the core and session shown; every step that changes one of these ends
what it puts out of context (`PublishedInContext`), and this is what makes the answers that are still taken answers in context.
`InstallAlone`: an installation holds updater, store and handle, and the only device operation under way is the one it awaits;
at the step to "downloading" it awaits none. The action properties are proved together with the invariant (`NextInv`,
`GoodStep`): each step preserves `Inv` and is a good step, so every lemma about a handler serves all five theorems. The clock
does not go back because a snapshot is accepted only when it is not before the one shown, the fault that the UI makes up for a
core that is gone included. `Inv` was checked with TLC
before it was proved.

The same module, for all sessions, slaves, requests and messages on the wire and without an assumption: `FrameIsSound`, that the
lock of the EEPROM ends with its operation and what is shown is of the session shown (`WorkbenchIsSound`). Its invariant
`FrameInv` adds `ProgressBegan`: progress is announced only by an EEPROM operation that was sent, so that a message on the wire
that arrives after the operation has ended has a progress to belong to and cannot lock the frame anew. The answers may come
in any order, and what keeps the lock is one of the requests not yet answered (`EepromAwaited`), whichever ends next.

`UiPagesProofs` has these as well, the history from `HistoryAssumption` (the list has room for a record), the algorithms from
`WindowAssumption` (rows and pages have a height) and `CodecAssumption`, the others without an assumption:

- The register page and the viewer: `PagesAreSafe` (`RegisterPageIsSafe`) and `WritesAreSeen` (`WritesOverWhatWasSeen`), for every
  number of registers, values, mounts and choices. Of the register page, `RegisterCallsFit` says that it is busy exactly as long as
  the one exchange of its mount lasts, that requests of earlier mounts count no more, and that there is none of a mount to come;
  that monitoring is recorded is kept because every handler ends in a render, and `RecordFits` says what a handler may leave to it.
  That a write goes over the value the user saw is a fact about steps: a write that goes out was on its way before, or is of this
  mount and planned over the value it was prepared from (`WritesSeen`); so each step is shown to keep the invariant and to be a
  good one (`GoodStep`). Of the viewer, `ManualInv` says at which place of a load there is a worker, and of which manual, and that
  nothing is shown or searched of a document that is not open.
- The history: `HistoryIsConsistent` (`MessagesAreConsistent`) and `NothingIsOverlooked` (`UnreadUntilSeen`), for every number of
  records. What stands behind a new record stood in the list before, in the same order and under another id (`SeqFrom`); the
  numbers of events never exceed the counter, so the record that comes is the newest (`HistoryTyped`); and records are marked as
  read on arrival exactly while the panel shows the newest (`ViewedInPanel`). The verdicts are a table, and are shown line by line.
- The file lists: `FilesStayAway` (`SourcesAreKept`), for any number of edits and all limits of the lists; the records are those of
  the run, of which the proof uses nothing but that they have a file, a spelling and a Device. The invariant `ListsInv` says
  what the fixed list that is stored owes to the past (`GoodFixed`): what was removed is hidden by its path, not only as it was
  spelled, and nothing on the list is hidden. What `filter` returns is a recursive function; that it keeps the order and takes
  exactly the places it was given (`FilteredGives`) is proved for every length by the least counterexample (`LeastNumber`).
- The algorithms of `UiCodecs` for all inputs, which the run only evaluates for small ones: `SearchFinds` (the register search),
  `AddressIsOnItsPage` (the hex view), `RowsAreMounted` (the window of the register list and the scrolling of it), `PrefixIsRead`
  (ConfigData and prefix), `DifferencesAreFound` (the comparison of two images), `UnchangedAreKept` (the reuse of slaves, each
  at its own position), `ValuesAreEncoded` and `FieldsAreEdited` (register values and their bit fields). The comparison is a recursion too: that it is a function is `RecursionExists`, stated for recursions over
  any set of values, and what it has found up to an offset (`RangesUpTo`) is carried on by `NumbersAre`.
- Of the register values, the powers of two are a recursive function (`PowersAre`), and the number that bytes stand for is one of
  their width (`NumberIsWeighed`). What an edit does is arithmetic of quotients and remainders: a number is what is below a field,
  the field and what is above it (`FieldParts`), the edit replaces the middle part (`FieldReplaced`), and a bit below or above is a
  bit of a part that stays (`LowerBit`, `UpperBit`, `OtherBits`).
- `AlgorithmsCompute` is `AlgorithmsAgree` itself, the invariant of the run, for all constants that satisfy `WindowAssumption` and
  `CodecAssumption` (bytes and digits have a size). The ports of the controller, four modes, are shown by cases.

## 6. What is only model-checked

- Liveness, which needs fairness and ENABLED, outside the reach of the prover: `ControlServed`, `ShutdownCompletes`, `CommandsFinish`,
  `FlashEnds`, `RequestsEnd`, `CoreReplaced`, `ExitEnds`, `AnnouncementsArrive`, `PagesSettle`.
- The induction theorems of the library take an operator, for which the provers have no instance. What is proved by induction here
  is therefore stated about sets of numbers (`LeastNumber`, `NumbersAre`, `RecursionExists` of `UiPagesProofs`).

Every other property of a passing run is stated by a theorem.

## 7. Not modelled

- **Transport** (`framing.py`, `JsonWriter`, lanes): byte streams. `HostSupervisor` sees them as channels that may be full, end, or
  carry what is not a message; a frame in pieces differs from one in whole only in the parser.
- **Register service and plan table, register jobs, SDO and PDO commands** (`bridge.py`): in the bridge they pass through the lock,
  the queue and the deadlines that `Bridge` models for the other commands. What a plan promises is checked from its user's side
  (`WritesOverWhatWasSeen`), against a service that may answer anything. The expiry and eviction of plans and the table of
  cancelled jobs, which is bounded by 128 entries (`bridge.py:946`), are left out.
- **Inside of the pySOEM backend, passive discovery, mock backend**: sequences of native calls on a device. `Worker` takes each as
  one call that may succeed, fail, or fail half-way; what the sequence does to the device is not visible to the code.
- **ESI parser and editor, SII generator and parser, profiles, codecs of the core**: pure conversions of large inputs without
  state, outside the reach of a small instance.
- **Library index, audit log, web bridge**: files of the machine, and a development server in place of the host.
- **Rendering, texts, menus, themes, packaging, installer scripts**: without state that a property here is about.

What would come next: the plan table of the bridge with its two-step writes (a plan confirmed is the plan shown, of this
session), composed with `Registers`; and the
ownership of the EEPROM in passive discovery.
