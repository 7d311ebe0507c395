-------------------------------- MODULE Worker --------------------------------
(***************************************************************************)
(* EtherCatWorker (src/ethercat_debug_tool/worker/ethercat_worker.py): one *)
(* thread owns the backend, takes tasks from a bounded priority queue and  *)
(* runs the process-data cycle between them.  Clients are the threads that *)
(* submit a task and wait for its future.                                  *)
(*                                                                         *)
(* wpc is the thread's place in _run: "start" (constructing the backend),  *)
(* "poll" (loop head, non-blocking get), "reput" (putting an ordinary task *)
(* back), "due" (is the cycle due?), "take" (blocking get), "run" (inside a*)
(* task), "exchange" (inside _run_cycle), "exit" (the finally clause),     *)
(* "drain" and "dying" (startup failed), "dead".                           *)
(* The backend is external: conn is backend.connected, and bus is the slave*)
(* list it holds, with the AL states the slaves are really in.             *)
(* Left out: process-data values (display state, newest only) and the      *)
(* events that only inform (ready, error, stopped, cycle_started, _stopped)*)
(***************************************************************************)
EXTENDS BusViews, Naturals, Sequences, FiniteSets

CONSTANTS Clients, NoClient,
          Requested,       \* the operations clients request
          Sessions,        \* the session numbers requests carry
          NoSession,       \* _cycle_session_id = None
          QueueLimit,      \* queue_limit
          StartupMayFail,  \* may the backend factory raise?
          MayTimeOut,      \* may a client give up waiting?
          MaxEvents        \* bound: no exchange starts with a longer event queue

ClientOps == {"start", "stop", "probe", "connect", "disconnect", "scan", "auto_scan",
              "read", "request", "device", "program", "enumerate"}

ASSUME WorkerAssumption ==
  /\ Requested \subseteq ClientOps
  /\ NoClient \notin Clients
  /\ QueueLimit \in Nat \ {0}
  /\ Sessions \subseteq Nat /\ NoSession \notin Nat
  /\ StartupMayFail \in BOOLEAN /\ MayTimeOut \in BOOLEAN
  /\ MaxEvents \in Nat

VARIABLES wpc, wstate, stop, queue, held,   \* the thread and its queue
          fut, res,                         \* each client's future and its result
          cyc, cycSession, needsSafe,       \* _cycle_period > 0, _cycle_session_id, _needs_safe_state
          events,                           \* what poll_events will return
          conn, bus,                        \* the backend
          owed                              \* history: a cycle may have left slaves in OP

loopVars == <<wpc, wstate, stop, queue, held>>
futVars == <<fut, res>>
cycleVars == <<cyc, cycSession, needsSafe, owed>>
busVars == <<conn, bus>>
vars == <<loopVars, futVars, cycleVars, events, busVars>>

-----------------------------------------------------------------------------
(* Tasks and the priority queue                                            *)

Tasks == [owner : Clients \cup {NoClient}, op : ClientOps \cup {"wake"},
          arg : AlStates, session : Nat, live : BOOLEAN]

Task(c, op, arg, s) == [owner |-> c, op |-> op, arg |-> arg, session |-> s, live |-> TRUE]
Wake == [owner |-> NoClient, op |-> "wake", arg |-> "low", session |-> 0, live |-> TRUE]
NoTask == [owner |-> NoClient, op |-> "wake", arg |-> "low", session |-> 0, live |-> FALSE]

\* Priority: a smaller number is served first.
PriorityOf(t) == CASE t.op = "wake" -> 0
                [] t.op \in {"start", "stop"} -> 10
                [] t.op = "probe" -> 50
                [] OTHER -> 20

\* The queue is kept in service order: by priority, then by sequence number.
InsertAfter(n, t) == SubSeq(queue, 1, n) \o <<t>> \o SubSeq(queue, n + 1, Len(queue))

Enqueued(t) ==
  InsertAfter(Cardinality({i \in 1 .. Len(queue) : PriorityOf(queue[i]) <= PriorityOf(t)}), t)

\* Mutant of PutBack: the task that was looked at is not put back.
PutBackNothing(t) == queue

\* A task put back keeps the sequence number it had, the smallest of its class.
PutBack(t) ==
  InsertAfter(Cardinality({i \in 1 .. Len(queue) : PriorityOf(queue[i]) < PriorityOf(t)}), t)

\* Mutant of IsControl: the control priority itself does not count as control.
IsControlStrict(t) == PriorityOf(t) < 10

IsControl(t) == PriorityOf(t) <= 10

-----------------------------------------------------------------------------
Init ==
  /\ wpc = "start" /\ wstate = "starting" /\ stop = FALSE
  /\ queue = <<>> /\ held = NoTask
  /\ fut = [c \in Clients |-> "none"] /\ res = [c \in Clients |-> NoSlaves]
  /\ cyc = FALSE /\ cycSession = NoSession /\ needsSafe = FALSE /\ owed = FALSE
  /\ events = <<>>
  /\ conn = FALSE /\ bus = NoSlaves

-----------------------------------------------------------------------------
(* Clients                                                                 *)

Alive == wpc # "dead"

Accepts == ~stop /\ Alive /\ wstate # "stalled" /\ Len(queue) < QueueLimit

\* submit: an exception is put in the future at once, or the task is queued.
Submit(c, op, arg, s) ==
  /\ fut[c] = "none"
  /\ IF Accepts
     THEN /\ queue' = Enqueued(Task(c, op, arg, s))
          /\ fut' = [fut EXCEPT ![c] = "pending"]
     ELSE /\ fut' = [fut EXCEPT ![c] = "failed"]
          /\ UNCHANGED queue
  /\ UNCHANGED <<wpc, wstate, stop, held, res, cycleVars, events, busVars>>

\* The task of a cancelled future stays where it is and will be skipped.
Orphan(c, t) == IF t.owner = c THEN [t EXCEPT !.live = FALSE] ELSE t

\* Future.cancel of a task that has not started.
Cancel(c) ==
  /\ fut[c] = "pending"
  /\ fut' = [fut EXCEPT ![c] = "none"]
  /\ queue' = [i \in 1 .. Len(queue) |-> Orphan(c, queue[i])]
  /\ held' = Orphan(c, held)
  /\ UNCHANGED <<wpc, wstate, stop, res, cycleVars, events, busVars>>

\* The client reads its answer.
Collect(c) ==
  /\ fut[c] \in {"done", "failed"}
  /\ fut' = [fut EXCEPT ![c] = "none"]
  /\ res' = [res EXCEPT ![c] = NoSlaves]
  /\ UNCHANGED <<loopVars, cycleVars, events, busVars>>

\* poll_events
PollEvents ==
  /\ events # <<>>
  /\ events' = <<>>
  /\ UNCHANGED <<loopVars, futVars, cycleVars, busVars>>

MarkStalled ==
  /\ wstate' = "stalled"
  /\ UNCHANGED <<wpc, stop, queue, held, futVars, cycleVars, events, busVars>>

\* shutdown up to its join: the wake-up token is dropped when the queue is full.
Shutdown ==
  /\ wstate' = "stopping"
  /\ stop' = TRUE
  /\ queue' = IF Len(queue) < QueueLimit THEN Enqueued(Wake) ELSE queue
  /\ UNCHANGED <<wpc, held, futVars, cycleVars, events, busVars>>

-----------------------------------------------------------------------------
(* _run: startup                                                           *)

StartOk ==
  /\ wpc = "start"
  /\ wpc' = "poll" /\ wstate' = "ready"
  /\ UNCHANGED <<stop, queue, held, futVars, cycleVars, events, busVars>>

StartFail ==
  /\ wpc = "start" /\ StartupMayFail
  /\ wpc' = "drain" /\ wstate' = "exited"
  /\ events' = Append(events, [kind |-> "worker_fatal", session |-> NoSession, slaves |-> NoSlaves])
  /\ UNCHANGED <<stop, queue, held, futVars, cycleVars, busVars>>

LiveOwners == {queue[i].owner : i \in {j \in 1 .. Len(queue) : queue[j].live}}

\* Every queued request is failed; one queued later is not.
Drain ==
  /\ wpc = "drain"
  /\ fut' = [c \in Clients |-> IF c \in LiveOwners THEN "failed" ELSE fut[c]]
  /\ queue' = <<>>
  /\ wpc' = "dying"
  /\ UNCHANGED <<wstate, stop, held, res, cycleVars, events, busVars>>

Die ==
  /\ wpc = "dying"
  /\ wpc' = "dead"
  /\ UNCHANGED <<wstate, stop, queue, held, futVars, cycleVars, events, busVars>>

-----------------------------------------------------------------------------
(* _run: the loop                                                          *)

\* f with the value of a task's client set (a wake-up has no client).
Settled(f, t, x) == [c \in Clients |-> IF c = t.owner THEN x ELSE f[c]]

\* set_running_or_notify_cancel: a cancelled task is skipped.
Begin(t) ==
  /\ IF t.live
     THEN /\ wpc' = "run" /\ wstate' = "busy" /\ held' = t
          /\ fut' = Settled(fut, t, "running")
     ELSE /\ wpc' = "poll" /\ held' = NoTask
          /\ UNCHANGED <<wstate, fut>>
  /\ queue' = Tail(queue)
  /\ UNCHANGED <<stop, res, cycleVars, events, busVars>>

\* The non-blocking look for a control task at the head of the loop.
Poll ==
  /\ wpc = "poll"
  /\ \/ /\ stop
        /\ wpc' = "exit"
        /\ UNCHANGED <<wstate, queue, held, fut>>
     \/ /\ ~stop /\ queue = <<>>
        /\ wpc' = "due"
        /\ UNCHANGED <<wstate, queue, held, fut>>
     \/ /\ ~stop /\ queue # <<>> /\ ~IsControl(Head(queue))
        /\ held' = Head(queue) /\ queue' = Tail(queue) /\ wpc' = "reput"
        /\ UNCHANGED <<wstate, fut>>
  /\ UNCHANGED <<stop, res, cycleVars, events, busVars>>

PollControl ==
  /\ wpc = "poll" /\ ~stop /\ queue # <<>> /\ IsControl(Head(queue))
  /\ Begin(Head(queue))

\* self._tasks.put(control): blocks while the queue is full.
Reput ==
  /\ wpc = "reput" /\ Len(queue) < QueueLimit
  /\ queue' = PutBack(held) /\ held' = NoTask
  /\ wpc' = "due"
  /\ UNCHANGED <<wstate, stop, futVars, cycleVars, events, busVars>>

\* Is the next exchange due?  The clock may say either.
Due ==
  /\ wpc = "due"
  /\ \/ cyc /\ Len(events) + 2 <= MaxEvents /\ wpc' = "exchange"
     \/ wpc' = "take"
  /\ UNCHANGED <<wstate, stop, queue, held, futVars, cycleVars, events, busVars>>

\* The blocking get, and its timeout.
Take ==
  \/ wpc = "take" /\ queue # <<>> /\ Begin(Head(queue))
  \/ /\ wpc = "take" /\ queue = <<>>
     /\ wpc' = "poll"
     /\ UNCHANGED <<wstate, stop, queue, held, futVars, cycleVars, events, busVars>>

-----------------------------------------------------------------------------
(* _execute: how each operation may end                                    *)

\* The future is set and the thread returns to the head of its loop.
Answer(outcome, view) ==
  /\ wpc = "run"
  /\ fut' = Settled(fut, held, outcome)
  /\ res' = Settled(res, held, view)
  /\ held' = NoTask /\ wpc' = "poll"
  /\ wstate' = IF wstate = "busy" THEN "ready" ELSE wstate
  /\ UNCHANGED <<stop, queue>>

BusAt(al) == IF bus = NoSlaves THEN bus ELSE [bus EXCEPT !.al = al]

\* Slaves may fall to a lower state by themselves; a read sees where they are.
Fallen == {BusAt("low")} \cup {bus} \cup (IF bus.al = "op" THEN {BusAt("safe")} ELSE {})

\* _disable_cycle went through, or stopped half-way with slaves in any state.
Disabled == conn /\ bus' = BusAt("safe") /\ owed' = FALSE
NotDisabled == (~conn \/ bus # NoSlaves) /\ \E al \in AlStates : bus' = BusAt(al)

CycleStarts ==
  /\ conn /\ bus # NoSlaves
  /\ bus' = BusAt("op")
  /\ cyc' = TRUE /\ needsSafe' = TRUE /\ owed' = TRUE /\ cycSession' = held.session
  /\ Answer("done", bus')
  /\ UNCHANGED <<events, conn>>

\* Mutant of CycleFailsToStart: a failed cleanup is forgotten.
CycleFailsToStartForgetful ==
  /\ \/ ~conn /\ UNCHANGED <<cyc, needsSafe, owed, bus>>
     \/ conn /\ Disabled /\ cyc' = FALSE /\ needsSafe' = FALSE
     \/ conn /\ NotDisabled /\ cyc' = FALSE /\ UNCHANGED needsSafe /\ owed' = TRUE
  /\ Answer("failed", NoSlaves)
  /\ UNCHANGED <<cycSession, events, conn>>

\* Some step of _configure_cycle raised; slaves may already be in OP.
CycleFailsToStart ==
  /\ \/ ~conn /\ UNCHANGED <<cyc, needsSafe, owed, bus>>
     \/ conn /\ Disabled /\ cyc' = FALSE /\ needsSafe' = FALSE
     \/ conn /\ NotDisabled /\ cyc' = FALSE /\ needsSafe' = TRUE /\ owed' = TRUE
  /\ Answer("failed", NoSlaves)
  /\ UNCHANGED <<cycSession, events, conn>>

CycleStops ==
  /\ Disabled
  /\ cyc' = FALSE /\ needsSafe' = FALSE /\ cycSession' = NoSession
  /\ Answer("done", bus')
  /\ UNCHANGED <<events, conn>>

CycleFailsToStop ==
  /\ NotDisabled
  /\ cyc' = FALSE /\ needsSafe' = conn
  /\ Answer("failed", NoSlaves)
  /\ UNCHANGED <<cycSession, owed, events, conn>>

\* The remaining operations touch the backend alone.
BackendEnds(outcome, view) ==
  /\ Answer(outcome, view)
  /\ UNCHANGED <<cyc, cycSession, needsSafe, events>>
  /\ owed' = (owed /\ conn')

Fails == UNCHANGED busVars /\ BackendEnds("failed", NoSlaves)

\* backend.connect opens the adapter; a list that is there is kept.
Connects ==
  \/ conn' = TRUE /\ bus' = bus /\ BackendEnds("done", NoSlaves)
  \/ Fails

\* backend.disconnect forgets the connection even when it raises.
Disconnects ==
  \E o \in {"done", "failed"} :
    conn' = FALSE /\ bus' = NoSlaves /\ BackendEnds(o, NoSlaves)

Found == {[topo |-> t, al |-> al, err |-> FALSE] : t \in Topologies, al \in {"low", "safe"}}
           \cup {NoSlaves}

\* backend.scan forgets the old list first.
Scans ==
  \/ /\ conn /\ conn' = conn
     /\ \/ \E v \in Found : bus' = v /\ BackendEnds("done", v)
        \/ bus' = NoSlaves /\ BackendEnds("failed", NoSlaves)
  \/ ~conn /\ Fails

\* _scan_adapter: the connection is kept only when slaves were found.
AutoScans ==
  \/ \E v \in Found : conn' = (v # NoSlaves) /\ bus' = v /\ BackendEnds("done", v)
  \/ conn /\ conn' = FALSE /\ bus' = NoSlaves /\ BackendEnds("failed", NoSlaves)

\* read_states: a slave that cannot be read is reported by StateReadFailure,
\* whose list is the result here; other failures carry no list.
ReadsStates ==
  \/ /\ conn /\ conn' = conn
     /\ \E v \in Fallen :
          /\ bus' = v
          /\ \/ BackendEnds("done", v)
             \/ v # NoSlaves /\ BackendEnds("failed", Unread(v))
  \/ Fails

\* probe_states: an unreadable slave is marked and nothing is raised.
Probes ==
  \/ /\ conn /\ conn' = conn
     /\ \E v \in Fallen : bus' = v /\ \E w \in {v, Unread(v)} : BackendEnds("done", w)
  \/ ~conn /\ Fails

RequestsState ==
  \/ conn /\ bus # NoSlaves /\ conn' = conn /\ bus' = BusAt(held.arg) /\ BackendEnds("done", bus')
  \/ /\ conn' = conn
     /\ \E v \in Fallen \cup {BusAt(held.arg)} : bus' = v
     /\ BackendEnds("failed", NoSlaves)

\* SDO and register access, EEPROM reads, reset, reconfiguration, recovery.
Accesses ==
  /\ conn' = conn
  /\ \/ conn /\ \E v \in Fallen : bus' = v /\ BackendEnds("done", v)
     \/ bus' \in Fallen /\ BackendEnds("failed", NoSlaves)

\* EepromService.flash (see EepromFlash).  After its optional reset it scans
\* the bus itself, and the list of the backend is whatever that found; the
\* result is NoSlaves then, as no list from before can be used.
ProgramsEeprom ==
  \/ Accesses /\ (fut'[held.owner] = "done" => bus # NoSlaves)
  \/ conn /\ bus # NoSlaves /\ conn' = conn /\ bus' \in Found /\ BackendEnds("done", NoSlaves)

Finish ==
  \/ held.op = "start" /\ (CycleStarts \/ CycleFailsToStart)
  \/ held.op = "stop" /\ (CycleStops \/ CycleFailsToStop)
  \/ held.op = "connect" /\ Connects
  \/ held.op = "disconnect" /\ Disconnects
  \/ held.op = "scan" /\ Scans
  \/ held.op = "auto_scan" /\ AutoScans
  \/ held.op = "read" /\ ReadsStates
  \/ held.op = "probe" /\ Probes
  \/ held.op = "request" /\ RequestsState
  \/ held.op = "device" /\ Accesses
  \/ held.op = "program" /\ ProgramsEeprom
  \/ held.op = "enumerate" /\ (Fails \/ (UNCHANGED busVars /\ BackendEnds("done", NoSlaves)))
  \/ held.op = "wake" /\ UNCHANGED busVars /\ BackendEnds("done", NoSlaves)

-----------------------------------------------------------------------------
(* _run_cycle, and the end of the thread                                   *)

Event(kind, v) == [kind |-> kind, session |-> cycSession, slaves |-> v]

Exchange ==
  /\ wpc = "exchange" /\ wpc' = "poll"
  /\ \/ /\ conn /\ bus # NoSlaves /\ bus' \in Fallen
        /\ UNCHANGED <<cyc, cycSession, needsSafe, owed, events>>
     \/ /\ cyc' = FALSE /\ cycSession' = NoSession
        /\ \/ /\ Disabled /\ needsSafe' = FALSE
              /\ events' = events \o <<Event("slaves_changed", bus'), Event("cycle_fault", NoSlaves)>>
           \/ /\ NotDisabled
              /\ events' = Append(events, Event("cycle_fault", NoSlaves))
              /\ UNCHANGED <<needsSafe, owed>>
  /\ UNCHANGED <<wstate, stop, queue, held, futVars, conn>>

\* Mutant of Exit: the adapter is released only by a worker that owes SAFE-OP.
ExitKeepingAdapter ==
  /\ wpc = "exit" /\ wpc' = "dead" /\ wstate' = "exited"
  /\ cyc' = FALSE
  /\ conn' = (conn /\ ~needsSafe) /\ bus' = IF conn' THEN bus ELSE NoSlaves
  /\ owed' = (owed /\ conn /\ ~needsSafe)
  /\ UNCHANGED <<stop, queue, held, futVars, cycSession, needsSafe, events>>

\* The finally clause: slaves are brought to SAFE-OP when a cycle left them
\* in OP, then the adapter is released.
Exit ==
  /\ wpc = "exit" /\ wpc' = "dead" /\ wstate' = "exited"
  /\ cyc' = FALSE
  /\ conn' = FALSE /\ bus' = NoSlaves
  /\ owed' = (owed /\ conn /\ ~needsSafe)
  /\ UNCHANGED <<stop, queue, held, futVars, cycSession, needsSafe, events>>

-----------------------------------------------------------------------------
Loop ==
  \/ StartOk \/ StartFail \/ Drain \/ Die
  \/ Poll \/ PollControl \/ Reput \/ Due \/ Take
  \/ Finish \/ Exchange \/ Exit

Requests(ops) ==
  \E c \in Clients :
    \/ \E op \in ops, al \in AlStates, s \in Sessions :
         (op = "request" \/ al = "low") /\ Submit(c, op, al, s)
    \/ MayTimeOut /\ Cancel(c)
    \/ Collect(c)

\* A worker is shut down once.
Supervision == PollEvents \/ MarkStalled \/ (~stop /\ Shutdown)

Next == Loop \/ Requests(Requested) \/ Supervision

Spec == Init /\ [][Next]_vars

\* Backend calls end: each has a time limit of its own.
Fairness == WF_vars(Loop) /\ WF_vars(PollEvents)

FairSpec == Spec /\ Fairness

-----------------------------------------------------------------------------
(* What is checked                                                         *)

EventKinds == {"worker_fatal", "slaves_changed", "cycle_fault"}

\* The fields keep their types; only clients' requests and wake-ups are queued.
TypeOK ==
  /\ wpc \in {"start", "poll", "reput", "due", "take", "run", "exchange",
              "exit", "drain", "dying", "dead"}
  /\ wstate \in {"starting", "ready", "busy", "stalled", "stopping", "exited"}
  /\ stop \in BOOLEAN
  /\ queue \in Seq(Tasks) /\ Len(queue) <= QueueLimit
  /\ held \in Tasks
  /\ fut \in [Clients -> {"none", "pending", "running", "done", "failed"}]
  /\ res \in [Clients -> Views]
  /\ cyc \in BOOLEAN /\ needsSafe \in BOOLEAN /\ owed \in BOOLEAN
  /\ cycSession \in Nat \cup {NoSession}
  /\ events \in Seq([kind : EventKinds, session : Nat \cup {NoSession}, slaves : Views])
  /\ conn \in BOOLEAN /\ bus \in Views

\* The place of a client's live request, the thread's hands being place 0.
Places(c) == {i \in 0 .. Len(queue) :
                LET t == IF i = 0 THEN held ELSE queue[i]
                IN t.live /\ t.owner = c}

\* A client that waits is waited for: its request is in exactly one place, in
\* the queue or in the thread's hands, whatever was cancelled, put back or
\* refused meanwhile; and no request is left without a client.
NoLostRequest ==
  \A c \in Clients :
    /\ fut[c] = "pending" => \E i \in Places(c) : Places(c) = {i}
    /\ fut[c] = "running" => Places(c) = {0} /\ wpc = "run"
    /\ fut[c] \in {"none", "done", "failed"} => Places(c) = {}

\* While a connection has slaves that a cycle brought to OP, the worker
\* remembers to bring them back before it ends.
SafeStateRemembered == conn /\ owed => needsSafe

Controls(c) == fut[c] = "pending" /\ \E i \in Places(c) :
                 (IF i = 0 THEN held ELSE queue[i]).op \in {"start", "stop"}

\* Stop and start are served however often the exchange is late.
ControlServed == \A c \in Clients : Controls(c) ~> (~Controls(c) \/ stop)

\* A worker told to stop lets go of the adapter and ends.
ShutdownCompletes == stop ~> (wpc = "dead" /\ ~conn)
=============================================================================
