-------------------------------- MODULE Bridge --------------------------------
(***************************************************************************)
(* BridgeRuntime (src/ethercat_debug_tool/bridge.py): the threads between  *)
(* the desktop host and the one EtherCAT worker, composed with the worker  *)
(* (Worker) and with the logical state they publish (MasterState).         *)
(*                                                                         *)
(* A caller is a thread that runs a command: the threads of the hardware   *)
(* pool, the idle monitor, and the control thread that shuts the bridge    *)
(* down.  call[c] is where caller c is in its command:                     *)
(*   method   the command, its parameter arg and the session its request   *)
(*            named (for a programming command, that of the target);       *)
(*   stage    "idle", "admitted" (waits for _command_lock), "ready" (at the*)
(*            head of _dispatch_serial), "submit" (about to call _submit), *)
(*            "await" (waits for the future), "refused" (_submit raised    *)
(*            without an answer), "fault" and "faulting" (the two steps of *)
(*            _fault_worker), "replace", "join" and "switch" (switch_mode),*)
(*            "unreserve" (gives EEPROM exclusivity back);                 *)
(*   step     which submission of the command is meant.                    *)
(* Every answer is handled in the step that takes it, and the event loop   *)
(* handles one event per step.                                             *)
(***************************************************************************)
EXTENDS BusViews, Naturals, Sequences

CONSTANTS Hardware,              \* threads of the hardware pool
          IdleMonitor, Control,  \* the idle monitor and the control thread
          NoClient, NoSession,
          Modes, Adapter, NoAdapter, Failure, NoError,
          QueueLimit, StartupMayFail,
          MayShutDown,           \* may the host shut the bridge down?
          Methods,               \* the commands the host sends
          MaxCommands,           \* bound: commands in a run
          MaxProbes,             \* bound: idle probes in a run
          MaxEvents              \* bound: see Worker

Callers == Hardware \cup {IdleMonitor, Control}

VARIABLES mode, phase, adapter, slaves, session, revision, lastError,
          wpc, wstate, stop, queue, held, fut, res, cyc, cycSession, needsSafe,
          events, conn, bus, owed,
          call,         \* what each caller is doing
          lock,         \* who holds _command_lock
          workerLock,   \* who holds _worker_lock across steps
          exclusive,    \* _eeprom_exclusive
          stalled,      \* _worker_stalled
          stopped,      \* _stopped
          batch,        \* the events the event loop has polled and not handled
          turn,         \* how far a turn of the event loop is that a stop overtook
          issued, probes

M == INSTANCE MasterState WITH
       Adapters <- {Adapter}, Errors <- {Failure}, MaxRevision <- 0

W == INSTANCE Worker WITH
       Clients <- Callers, Requested <- {}, Sessions <- Nat, MayTimeOut <- TRUE

masterVars == <<mode, phase, adapter, slaves, session, revision, lastError>>
workerVars == <<wpc, wstate, stop, queue, held, fut, res, cyc, cycSession,
                needsSafe, events, conn, bus, owed>>
lockVars == <<lock, workerLock, exclusive>>
bounds == <<issued, probes>>
vars == <<masterVars, workerVars, call, lockVars, stalled, stopped, batch, turn, bounds>>

Programs == {"eeprom_flash", "eeprom_restore"}

AllMethods == {"auto_scan", "connect", "disconnect", "scan", "read_states", "clear_error",
               "request_state", "reconfig", "access", "start_cycle", "stop_cycle",
               "register_reset", "switch_mode"} \cup Programs

ASSUME BridgeAssumption ==
  /\ {IdleMonitor, Control} \cap Hardware = {} /\ IdleMonitor # Control
  /\ NoClient \notin Callers /\ NoSession \notin Nat
  /\ NoAdapter # Adapter /\ NoError # Failure
  /\ QueueLimit \in Nat \ {0} /\ StartupMayFail \in BOOLEAN
  /\ Methods \subseteq AllMethods
  /\ MayShutDown \in BOOLEAN
  /\ MaxCommands \in Nat /\ MaxProbes \in Nat /\ MaxEvents \in Nat

Idle == [method |-> "none", stage |-> "idle", step |-> "end", arg |-> "low",
         session |-> 0, view |-> NoSlaves]

Init ==
  /\ M!Init /\ W!Init
  /\ call = [c \in Callers |-> Idle]
  /\ lock = NoClient /\ workerLock = NoClient /\ exclusive = FALSE
  /\ stalled = FALSE /\ stopped = FALSE
  /\ batch = <<>> /\ turn = "none"
  /\ issued = 0 /\ probes = 0

-----------------------------------------------------------------------------
(* Moving through a command                                                *)

At(c, stage) == call[c].stage = stage

Goto(c, stage) == call' = [call EXCEPT ![c].stage = stage]

\* The next submission of the command.
Then(c, step) ==
  /\ call' = [call EXCEPT ![c].stage = "submit", ![c].step = step]
  /\ UNCHANGED lock

\* The command returns or raises: the command lock is released.
End(c) ==
  /\ call' = IF call[c].method \in Programs
             THEN [call EXCEPT ![c].stage = "unreserve"]
             ELSE [call EXCEPT ![c] = Idle]
  /\ lock' = NoClient

\* A stop failed: _fault_worker, then the exception goes to the caller.
ThenFault(c) ==
  /\ call' = [call EXCEPT ![c].stage = "fault", ![c].step = "end"]
  /\ UNCHANGED lock

-----------------------------------------------------------------------------
(* Calls into MasterState that may raise                                   *)

Updated(v, expected, keepError) ==
  IF M!CanUpdateStates(v, expected)
  THEN M!StatesUpdated(v, expected, keepError) ELSE UNCHANGED masterVars

\* _record_state_read_failure: with the list of a StateReadFailure, or without.
Recorded(v, expected) ==
  IF v # NoSlaves THEN Updated(v, expected, TRUE)
  ELSE IF M!CanFailRead(expected) THEN M!StateReadFailed(Failure, expected)
  ELSE UNCHANGED masterVars

\* The refresh after a failed clear_error: whatever the update raises is
\* recorded as well.
Refreshed(v, keepError) ==
  IF M!CanUpdateStates(v, NoSession)
  THEN Updated(v, NoSession, keepError) ELSE Recorded(NoSlaves, NoSession)

TopologyLost(v, e) ==
  IF M!CanScan THEN M!TopologyChanged(v, e) ELSE UNCHANGED masterVars

ConnectionFailed ==
  IF ~stalled /\ M!CanConnectFail THEN M!ConnectFailed(Failure) ELSE UNCHANGED masterVars

\* Mutant of Detached: a failed disconnection is not published.
DetachedIfClean(e) ==
  IF ~stalled /\ M!CanDisconnect /\ e = NoError
  THEN M!DisconnectCompleted(e) ELSE UNCHANGED masterVars

\* Even a failed disconnection is published as disconnected.
Detached(e) ==
  IF ~stalled /\ M!CanDisconnect THEN M!DisconnectCompleted(e) ELSE UNCHANGED masterVars


-----------------------------------------------------------------------------
(* Admission (_handle_request and dispatch)                                *)

\* Mutant of Admits: exclusivity is not looked at.
AdmitsAnything(c) == At(c, "idle") /\ ~stopped /\ issued < MaxCommands

\* A request of another session, or under EEPROM exclusivity, is refused.
Admits(c) == At(c, "idle") /\ ~stopped /\ ~exclusive /\ issued < MaxCommands

\* main reads requests once its first worker is ready.
Serving == issued = 0 => wpc \notin {"start", "drain", "dying", "dead"}

\* target is the session of the programming target, chosen at some earlier time.
Issue(c, m, a, target) ==
  /\ c \in Hardware /\ Serving /\ Admits(c)
  /\ call' = [call EXCEPT ![c] = [method |-> m, stage |-> "admitted", step |-> "end",
                                  arg |-> a, session |-> target, view |-> NoSlaves]]
  /\ exclusive' = (exclusive \/ m \in Programs)
  /\ issued' = issued + 1
  /\ UNCHANGED <<masterVars, workerVars, lock, workerLock, stalled, stopped, batch, turn, probes>>

\* The command lock is taken; exclusivity reserved meanwhile refuses the rest.
Acquire(c) ==
  /\ At(c, "admitted") /\ lock = NoClient
  /\ IF exclusive /\ call[c].method \notin Programs
     THEN call' = [call EXCEPT ![c] = Idle] /\ UNCHANGED lock
     ELSE Goto(c, "ready") /\ lock' = c
  /\ UNCHANGED <<masterVars, workerVars, workerLock, exclusive, stalled, stopped, batch, turn, bounds>>

Unreserve(c) ==
  /\ At(c, "unreserve")
  /\ exclusive' = FALSE
  /\ call' = [call EXCEPT ![c] = Idle]
  /\ UNCHANGED <<masterVars, workerVars, lock, workerLock, stalled, stopped, batch, turn, bounds>>

-----------------------------------------------------------------------------
(* The head of each command in _dispatch_serial                            *)

\* Commands that touch the bus as it is, and those that need the cycle off.
Ungated == [read_states |-> "read", access |-> "access", stop_cycle |-> "stop",
            register_reset |-> "reset"]
NeedsIdleBus == [clear_error |-> "clear", reconfig |-> "reconfig", start_cycle |-> "start"]
NeedsNoConnection == [auto_scan |-> "enumerate", connect |-> "connect"]

\* Mutant of TargetHolds: the session of a programming target is not checked.
TargetHoldsAlways(c) == slaves # NoSlaves

\* A restored image is not bound to a session: it goes to the slave there is.
TargetHolds(c) ==
  /\ slaves # NoSlaves
  /\ call[c].method = "eeprom_flash" => call[c].session = session

Dispatch(c) ==
  LET m == call[c].method IN
  /\ At(c, "ready")
  /\ \/ m \in DOMAIN Ungated /\ Then(c, Ungated[m])
     \/ m \in DOMAIN NeedsIdleBus /\ ~M!cycleRunning /\ Then(c, NeedsIdleBus[m])
     \/ m \in DOMAIN NeedsNoConnection /\ ~M!connected /\ Then(c, NeedsNoConnection[m])
     \/ m = "scan" /\ M!connected /\ ~M!cycleRunning /\ Then(c, "scan")
     \/ m = "disconnect" /\ Then(c, IF M!cycleRunning THEN "detach_stop" ELSE "disconnect")
     \/ m = "request_state" /\ Then(c, IF ~M!cycleRunning THEN "request"
                                       ELSE IF call[c].arg = "op" THEN "recheck" ELSE "stop_first")
     \/ m \in Programs /\ ~M!cycleRunning /\ TargetHolds(c) /\ Then(c, "check_target")
     \/ m = "switch_mode" /\ ~M!connected /\ Goto(c, "replace") /\ UNCHANGED lock
     \/ End(c)     \* a guard of the command, its deadline or a parameter refuses it
  /\ UNCHANGED <<masterVars, workerVars, workerLock, exclusive, stalled, stopped, batch, turn, bounds>>

-----------------------------------------------------------------------------
(* _submit                                                                 *)

OpOf(step) ==
  CASE step \in {"stop", "stop_first", "detach_stop"} -> "stop"
    [] step \in {"read", "recheck", "scan_read", "request_read", "reconfig_read",
                 "start_read", "program_read", "clear_read"} -> "read"
    [] step \in {"clear", "reconfig", "access", "reset", "check_target"} -> "device"
    [] OTHER -> step     \* named as the worker's operation

Submit(c) ==
  /\ At(c, "submit") /\ workerLock = NoClient
  /\ IF stalled
     THEN Goto(c, "refused") /\ UNCHANGED workerVars
     ELSE Goto(c, "await") /\ W!Submit(c, OpOf(call[c].step), call[c].arg, session)
  /\ UNCHANGED <<masterVars, lockVars, stalled, stopped, batch, turn, bounds>>

\* The wait ends without an answer.  A task still queued is cancelled; one that
\* is running, or was answered at this very moment, cannot be: the worker is
\* given up.  An adapter scan that is late gives it up in any case.
TimeOut(c) ==
  /\ At(c, "await")
  /\ \/ /\ fut[c] = "pending"
        /\ W!Cancel(c)
        /\ Goto(c, IF call[c].step = "auto_scan" THEN "fault" ELSE "refused")
     \/ fut[c] = "running" /\ UNCHANGED workerVars /\ Goto(c, "fault")
     \/ W!Collect(c) /\ Goto(c, "fault")
  /\ UNCHANGED <<masterVars, lockVars, stalled, stopped, batch, turn, bounds>>

\* _fault_worker, first part; a second caller finds the worker marked already.
Fault(c) ==
  /\ At(c, "fault") /\ workerLock = NoClient
  /\ IF stalled
     THEN Goto(c, "refused") /\ UNCHANGED <<workerVars, stalled>>
     ELSE Goto(c, "faulting") /\ stalled' = TRUE /\ W!MarkStalled
  /\ UNCHANGED <<masterVars, lockVars, stopped, batch, turn, bounds>>

FaultMaster(c) ==
  /\ At(c, "faulting")
  /\ M!Faulted(Failure)
  /\ Goto(c, "refused")
  /\ UNCHANGED <<workerVars, lockVars, stalled, stopped, batch, turn, bounds>>

-----------------------------------------------------------------------------
(* What a command does with an answer.  Each disjunct is one submission of *)
(* _dispatch_serial: the master's update, then the next submission or the  *)
(* end.                                                                    *)

Confirms(c, v) ==   \* commands that publish the list they got
  /\ call[c].step \in {"read", "scan_read", "request", "clear", "request_read", "clear_read"}
  /\ IF call[c].step = "clear_read" THEN Refreshed(v, FALSE) ELSE Updated(v, NoSession, FALSE)
  /\ End(c)

Rechecks(c, v) ==   \* OP requested of a running cycle: is every target in OP?
  /\ call[c].step = "recheck"
  /\ Updated(v, NoSession, FALSE)
  /\ \/ End(c) /\ (v.al = "op" \/ ~M!CanUpdateStates(v, NoSession))
     \/ Then(c, "stop_first") /\ M!CanUpdateStates(v, NoSession)

Connected(c, v) ==
  \/ call[c].step = "enumerate" /\ Then(c, "auto_scan") /\ UNCHANGED masterVars
  \/ /\ call[c].step = "auto_scan" /\ End(c)
     /\ IF M!CanConnectFail THEN M!AutoScanCompleted(Adapter, v) ELSE UNCHANGED masterVars
  \/ /\ call[c].step = "connect" /\ End(c)
     /\ IF phase = "disconnected" THEN M!ConnectSucceeded(Adapter) ELSE UNCHANGED masterVars
  \/ call[c].step = "detach_stop" /\ Then(c, "disconnect") /\ UNCHANGED masterVars
  \/ call[c].step = "disconnect" /\ End(c) /\ Detached(NoError)

Scanned(c, v) ==
  /\ call[c].step = "scan"
  /\ IF M!CanScan THEN M!ScanSucceeded(v) /\ Then(c, "scan_read")
     ELSE UNCHANGED masterVars /\ End(c)

ReconfigurationFails(c) ==
  /\ call[c].step \in {"reconfig", "reconfig_read"} /\ End(c)
  /\ IF stalled THEN UNCHANGED masterVars ELSE TopologyLost(NoSlaves, Failure)

\* reconfig and recover: the bus is read again, and must still hold the slave.
Reconfigured(c, v) ==
  \/ call[c].step = "reconfig" /\ Then(c, "reconfig_read") /\ UNCHANGED masterVars
  \/ call[c].step = "reconfig_read" /\ v # NoSlaves /\ TopologyLost(v, NoError) /\ End(c)
  \/ ReconfigurationFails(c)       \* not succeeded, or the slave is not there

CycleAnswered(c, v) ==
  \/ /\ call[c].step = "start" /\ End(c)
     /\ IF M!CanCycle(NoSession) /\ v # NoSlaves
        THEN M!CycleStarted(v, NoSession) ELSE UNCHANGED masterVars
  \/ /\ call[c].step = "start_read" /\ End(c)
     /\ IF M!CanCycle(NoSession)
        THEN M!CycleFaulted(Failure, v, NoSession) ELSE UNCHANGED masterVars
  \/ /\ call[c].step \in {"stop", "stop_first"}
     /\ IF M!CanCycle(NoSession)
        THEN M!CycleStopped(IF v = NoSlaves THEN slaves ELSE v, NoSession)
        ELSE UNCHANGED masterVars
     /\ IF call[c].step = "stop" \/ ~M!CanCycle(NoSession) THEN End(c) ELSE Then(c, "request")

Accessed(c, v) ==
  \/ call[c].step = "access" /\ UNCHANGED masterVars /\ End(c)
  \/ call[c].step = "reset" /\ TopologyLost(NoSlaves, Failure) /\ End(c)
  \/ call[c].step = "check_target" /\ UNCHANGED masterVars /\ Then(c, "program")
  \/ /\ call[c].step = "program"
     /\ \/ v # NoSlaves /\ UNCHANGED masterVars /\ End(c)        \* not reset
        \/ v = NoSlaves /\ TopologyLost(NoSlaves, Failure) /\ End(c)
        \/ v = NoSlaves /\ UNCHANGED masterVars /\ Then(c, "program_read")
  \/ /\ call[c].step = "program_read" /\ End(c)
     /\ TopologyLost(v, IF v = NoSlaves THEN Failure ELSE NoError)

\* The idle monitor publishes a list that differs from the one it started with.
Probed(c, v) ==
  /\ call[c].step = "probe" /\ End(c)
  /\ IF stopped \/ v = call[c].view THEN UNCHANGED masterVars
     ELSE Updated(v, call[c].session, TRUE)

Succeeds(c, v) ==
  \/ Confirms(c, v) \/ Rechecks(c, v) \/ Connected(c, v) \/ Scanned(c, v)
  \/ Reconfigured(c, v) \/ CycleAnswered(c, v) \/ Accessed(c, v) \/ Probed(c, v)

\* The submission raised; v is the list of a StateReadFailure.
Fails(c, v) ==
  \/ /\ call[c].step \in {"enumerate", "auto_scan", "connect"}
     /\ ConnectionFailed /\ End(c)
  \/ /\ call[c].step \in {"stop", "stop_first", "detach_stop"}
     /\ UNCHANGED masterVars /\ ThenFault(c)
  \/ call[c].step = "disconnect" /\ Detached(Failure) /\ End(c)
  \/ /\ call[c].step = "scan" /\ End(c)
     /\ IF ~stalled /\ M!CanScan THEN M!ScanFailed(Failure) ELSE UNCHANGED masterVars
  \/ /\ call[c].step \in {"read", "scan_read", "request_read", "start_read", "recheck"}
     /\ Recorded(v, NoSession) /\ End(c)
  \/ /\ call[c].step = "clear_read" /\ End(c)
     /\ IF v # NoSlaves THEN Refreshed(v, TRUE) ELSE Recorded(NoSlaves, NoSession)
  \/ /\ call[c].step \in {"clear", "request", "start"} /\ UNCHANGED masterVars
     /\ IF stalled THEN End(c)
        ELSE Then(c, CASE call[c].step = "clear" -> "clear_read"
                       [] call[c].step = "request" -> "request_read"
                       [] OTHER -> "start_read")
  \/ ReconfigurationFails(c)
  \/ /\ call[c].step \in {"access", "reset", "check_target", "program", "end"}
     /\ UNCHANGED masterVars /\ End(c)
  \/ call[c].step = "program_read" /\ TopologyLost(NoSlaves, Failure) /\ End(c)
  \/ /\ call[c].step = "probe" /\ End(c)
     /\ IF stopped \/ stalled THEN UNCHANGED masterVars ELSE Recorded(v, call[c].session)

Continue(c) ==
  /\ \/ /\ At(c, "await") /\ W!Collect(c)
        /\ IF fut[c] = "done" THEN Succeeds(c, res[c]) ELSE Fails(c, res[c])
     \/ At(c, "refused") /\ UNCHANGED workerVars /\ Fails(c, NoSlaves)
  /\ UNCHANGED <<workerLock, exclusive, stalled, stopped, batch, turn, bounds>>

-----------------------------------------------------------------------------
(* The turns of the event loop                                             *)
(*                                                                         *)
(* A turn looks at _stopped, fetches the worker under _worker_lock, polls  *)
(* it and handles what it polled.  Where nothing comes in between, its     *)
(* first three steps are one, PollEvents; turn records how far the loop    *)
(* is when a shutdown or the end of a worker overtakes it: "entered" after *)
(* the look, "fetched" after the fetch.                                    *)

\* The loop may be past its look at _stopped.
InTurn == batch = <<>> /\ (~stopped \/ turn = "entered")

\* It may have fetched the worker as well, before _worker_lock was taken.
Fetched == batch = <<>> /\ turn = "fetched"

Overtaken(possible, at) == turn' \in {turn} \cup IF possible THEN {at} ELSE {}

-----------------------------------------------------------------------------
(* Replacing and stopping the worker                                       *)

\* switch_mode and shutdown: the worker is told to stop, and joined under
\* _worker_lock.
StopWorker(c) ==
  /\ At(c, "replace") /\ workerLock = NoClient
  /\ W!Shutdown
  /\ workerLock' = c
  /\ Goto(c, "join")
  /\ Overtaken(InTurn, "fetched")
  /\ UNCHANGED <<masterVars, lock, exclusive, stalled, stopped, batch, bounds>>

\* Mutant of Joined: the result of the join is not looked at.
JoinedOrNot(c) == At(c, "join")

Joined(c) == At(c, "join") /\ wpc = "dead"

NewWorker ==
  /\ wpc' = "start" /\ wstate' = "starting" /\ stop' = FALSE
  /\ queue' = <<>> /\ held' = W!NoTask
  /\ fut' = [d \in Callers |-> "none"] /\ res' = [d \in Callers |-> NoSlaves]
  /\ cyc' = FALSE /\ cycSession' = NoSession /\ needsSafe' = FALSE /\ owed' = FALSE
  /\ events' = <<>>
  /\ conn' = FALSE /\ bus' = NoSlaves

\* A loop that has fetched the worker which is being replaced polls that one,
\* whenever it does: its thread has ended and puts no further event.
LastPoll ==
  /\ batch' = IF Fetched THEN events ELSE batch
  /\ turn' = IF Fetched THEN "none" ELSE turn

\* Mutant of Replace: the new worker inherits the mark of the old one.
ReplaceKeepingStall(c) ==
  /\ Joined(c) /\ call[c].method = "switch_mode"
  /\ NewWorker
  /\ LastPoll
  /\ workerLock' = NoClient
  /\ Goto(c, "switch")
  /\ UNCHANGED <<masterVars, lock, exclusive, stalled, stopped, bounds>>

Replace(c) ==
  /\ Joined(c) /\ call[c].method = "switch_mode"
  /\ NewWorker
  /\ LastPoll
  /\ stalled' = FALSE
  /\ workerLock' = NoClient
  /\ Goto(c, "switch")
  /\ UNCHANGED <<masterVars, lock, exclusive, stopped, bounds>>

SwitchMode(c) ==
  /\ At(c, "switch")
  /\ IF phase \in {"disconnected", "faulted"}
     THEN \E m \in Modes : M!SwitchMode(m) ELSE UNCHANGED masterVars
  /\ End(c)
  /\ UNCHANGED <<workerVars, workerLock, exclusive, stalled, stopped, batch, turn, bounds>>

\* Mutant of JoinEnds: the join has no time limit.
JoinEndsWithThread(c) ==
  /\ Joined(c) /\ call[c].method # "switch_mode"
  /\ workerLock' = NoClient
  /\ call' = [call EXCEPT ![c] = Idle]
  /\ UNCHANGED <<masterVars, workerVars, lock, exclusive, stalled, stopped, batch, turn, bounds>>

\* The join ended a shutdown, or ran out of time.
JoinEnds(c) ==
  /\ At(c, "join")
  /\ Joined(c) => call[c].method # "switch_mode"
  /\ workerLock' = NoClient
  /\ IF call[c].method = "switch_mode" THEN End(c)
     ELSE call' = [call EXCEPT ![c] = Idle] /\ UNCHANGED lock
  /\ UNCHANGED <<masterVars, workerVars, exclusive, stalled, stopped, batch, turn, bounds>>

\* shutdown, on the thread that reads requests.
ShutDown ==
  /\ MayShutDown /\ ~stopped
  /\ stopped' = TRUE
  /\ call' = [call EXCEPT ![Control] = [Idle EXCEPT !.method = "shutdown", !.stage = "replace"]]
  /\ Overtaken(batch = <<>> /\ turn = "none", "entered")
  /\ UNCHANGED <<masterVars, workerVars, lockVars, stalled, batch, bounds>>

-----------------------------------------------------------------------------
(* The event loop and the idle monitor                                     *)

PollEvents ==
  /\ Fetched \/ (InTurn /\ workerLock = NoClient)
  /\ W!PollEvents
  /\ batch' = events /\ turn' = "none"
  /\ UNCHANGED <<masterVars, call, lockVars, stalled, stopped, bounds>>

\* The session an event is fenced by.
SessionOf(e) == e.session

HandleEvent ==
  LET e == Head(batch) IN
  /\ batch # <<>>
  /\ \/ /\ ~M!SessionHolds(SessionOf(e))
        /\ batch' = Tail(batch)
        /\ UNCHANGED <<masterVars, stalled>>
     \/ /\ e.kind = "slaves_changed" /\ M!SessionHolds(SessionOf(e))
        /\ Updated(e.slaves, SessionOf(e), FALSE)
        /\ batch' = Tail(batch)
        /\ UNCHANGED stalled
     \/ /\ e.kind = "cycle_fault" /\ M!SessionHolds(SessionOf(e))
        /\ IF M!CanCycle(SessionOf(e))
           THEN M!CycleFaulted(Failure, slaves, SessionOf(e)) ELSE UNCHANGED masterVars
        /\ batch' = Tail(batch)
        /\ UNCHANGED stalled
     \/ /\ e.kind = "worker_fatal" /\ workerLock = NoClient
        /\ stalled' = TRUE
        /\ batch' = <<[e EXCEPT !.kind = "worker_lost"]>> \o Tail(batch)
        /\ UNCHANGED masterVars
     \/ /\ e.kind = "worker_lost"      \* worker_fatal, after _worker_lock
        /\ M!Faulted(Failure)
        /\ batch' = Tail(batch)
        /\ UNCHANGED stalled
  /\ UNCHANGED <<workerVars, call, lockVars, stopped, turn, bounds>>

\* _probe_idle_bus: never waits for the command lock.
Probe ==
  /\ probes < MaxProbes
  /\ At(IdleMonitor, "idle") /\ lock = NoClient
  /\ ~stopped /\ ~stalled /\ ~exclusive
  /\ wstate = "ready" /\ queue = <<>>
  /\ M!connected /\ ~M!cycleRunning /\ slaves # NoSlaves
  /\ lock' = IdleMonitor
  /\ call' = [call EXCEPT ![IdleMonitor] =
                [method |-> "probe", stage |-> "submit", step |-> "probe", arg |-> "low",
                 session |-> session, view |-> slaves]]
  /\ probes' = probes + 1
  /\ UNCHANGED <<masterVars, workerVars, workerLock, exclusive, stalled, stopped, batch, turn, issued>>

-----------------------------------------------------------------------------
WorkerStep ==
  /\ W!Loop
  /\ UNCHANGED <<masterVars, call, lockVars, stalled, stopped, batch, turn, bounds>>

Run(c) ==
  \/ Acquire(c) \/ Dispatch(c) \/ Submit(c) \/ TimeOut(c) \/ Continue(c)
  \/ Fault(c) \/ FaultMaster(c) \/ Unreserve(c)
  \/ StopWorker(c) \/ Replace(c) \/ SwitchMode(c) \/ JoinEnds(c)

Requests(methods) ==
  \E c \in Hardware, m \in methods, a \in AlStates, t \in 0 .. session :
    /\ m = "request_state" \/ a = "low"
    /\ m = "eeprom_flash" \/ t = session
    /\ Issue(c, m, a, t)

Steps ==
  \/ Probe \/ ShutDown
  \/ \E c \in Callers : Run(c)
  \/ PollEvents \/ HandleEvent
  \/ WorkerStep

Next == Requests(Methods) \/ Steps

Spec == Init /\ [][Next]_vars

\* Every thread of the bridge is scheduled; the worker's need not be: its
\* native calls may never return.
Fairness == \A c \in Callers : WF_vars(Run(c))

FairSpec == Spec /\ Fairness

-----------------------------------------------------------------------------
(* What is checked                                                         *)

Stages == {"idle", "admitted", "ready", "submit", "await", "refused", "fault",
           "faulting", "replace", "join", "switch", "unreserve"}

\* The state of both components keeps its types, and the caller that holds the
\* command lock is one that is past admission.
TypeOK ==
  /\ M!TypeOK /\ W!TypeOK
  /\ \A c \in Callers : call[c].stage \in Stages /\ call[c].view \in Views
  /\ lock \in Callers \cup {NoClient} /\ workerLock \in Callers \cup {NoClient}
  /\ exclusive \in BOOLEAN /\ stalled \in BOOLEAN /\ stopped \in BOOLEAN
  /\ turn \in {"none", "entered", "fetched"}
  /\ \A c \in Hardware :
       lock = c <=> call[c].stage \notin {"idle", "admitted", "unreserve"}

\* There is never a second Master: a worker is created only when the one it
\* replaces has ended and has released the adapter.
SingleMaster == [][wpc' = "start" /\ wpc # "start" => wpc = "dead" /\ ~conn]_vars

\* The worker begins a request only on behalf of the caller that holds the
\* command lock and still waits for it, and never once it was given up; it
\* begins to program an image only in the session that the target of the image
\* was chosen in: nothing that was cancelled or superseded reaches the bus.
BeginsRequest == wpc # "run" /\ wpc' = "run" /\ held'.owner # NoClient
RequestsAreCurrent ==
  [][BeginsRequest =>
       LET c == held'.owner IN
       /\ lock = c /\ At(c, "await") /\ ~stalled
       /\ call[c].method = "eeprom_flash" /\ call[c].step = "program" =>
            call[c].session = session]_vars

\* The bus may be another one already, and the command that changed it has not
\* told the Master: a scan or a programming command that reset its slave.
Changing(c) ==
  \/ call[c].step = "scan" /\ At(c, "await") /\ fut[c] \in {"done", "failed"}
  \/ call[c].step = "program" /\ At(c, "await") /\ fut[c] = "done" /\ res[c] = NoSlaves
  \/ call[c].step \in {"scan", "program"} /\ call[c].stage \in {"fault", "faulting"}
  \/ call[c].step = "program_read"

Rescans == \E c \in Callers : lock = c /\ Changing(c)

\* While the session stays the list keeps its topology: no command and no
\* event brings a list of another bus into a session.  And a late event of a
\* cycle never starts a new session on a Master that knows its bus, which would
\* expire the requests, plans and targets of the user; unless a command has
\* changed the bus and is about to start a new session anyway.
SessionsHold ==
  [][/\ session' = session => slaves'.topo = slaves.topo
     /\ batch # <<>> /\ batch' = Tail(batch) /\ Head(batch).kind # "worker_lost"
        /\ slaves # NoSlaves /\ ~Rescans => session' = session]_vars

\* The master shows a fault exactly when the worker was given up, except
\* between the two steps of giving it up or of replacing it.
FaultShown ==
  /\ \A c \in Callers : ~At(c, "faulting") /\ ~At(c, "switch")
  /\ batch # <<>> => Head(batch).kind # "worker_lost"
  =>
    (stalled <=> phase = "faulted")

\* A Master shown as connected has the adapter open, whenever no command is
\* under way and the worker is in service.
ConnectedIsOpen ==
  lock = NoClient /\ ~stalled /\ ~stop /\ M!connected => conn

\* EEPROM exclusivity is held by one programming command, from its admission
\* to its end, and never left behind.
OneProgrammer ==
  /\ exclusive <=> \E c \in Hardware : call[c].method \in Programs
  /\ \A c, d \in Hardware :
       call[c].method \in Programs /\ call[d].method \in Programs => c = d

\* Every command ends, even when a native call never returns.
CommandsFinish == \A c \in Callers : ~At(c, "idle") ~> At(c, "idle")

-----------------------------------------------------------------------------
(* What the code's own words say, and the code does not keep               *)

\* A delayed event does not replace a list that shows the slaves as they are.
EventsKeepNewerState ==
  [][batch # <<>> /\ batch' = Tail(batch) /\ lock = NoClient /\ slaves = bus
       => slaves' = bus]_vars

\* EEPROM is programmed only when the cycle is off.
ProgramsWithCycleOff ==
  wpc = "run" /\ held.owner \in Hardware =>
    (call[held.owner].step = "program" => ~cyc)
=============================================================================
