----------------------------- MODULE HostSupervisor -----------------------------
(***************************************************************************)
(* Bridge and BridgeSupervisor (desktop/src-tauri/src/main.rs): the threads*)
(* of the desktop host that keep one Python core running, talk to it over  *)
(* two pipes and replace it by a new generation when it fails.             *)
(*                                                                         *)
(* call[t] is what thread t is doing: its place pc, the generation gen it  *)
(* works on, and result.  The threads are the callers (one UI request      *)
(* each), the supervisor Sup and the thread Exit that ends the application.*)
(* Places: "check", "insert", "send", "wait" (request_with_deadline);      *)
(* "mark", "kill", "killed" (force_terminate); "loop", "lock", "activate", *)
(* "handshake", "install", "gone" (the supervisor); "lock", "stopping",    *)
(* "poll", "done" (the end of the application).                            *)
(* Each generation also has a reader and a writer thread.                  *)
(* The core itself is external: it may answer, report a stalled worker or  *)
(* die at any time.  Time is abstract: a deadline may pass whenever        *)
(* somebody waits.  The queue of faults is a set: the first fault of a     *)
(* generation replaces it, one of a generation that is not installed is    *)
(* dropped.  Left out: logs, and the events forwarded to the UI.           *)
(***************************************************************************)
EXTENDS Naturals, Sequences, FiniteSets

CONSTANTS Callers, Sup, Exit, Nobody,
          ChannelLimit,  \* sync_channel(64) to the writer thread
          MaxGen,        \* bound: generations
          MaxRequests    \* bound: requests from the UI

Users == Callers \cup {Exit}
Threads == Users \cup {Sup}
Gens == 1 .. MaxGen

ASSUME HostAssumption ==
  /\ Sup \notin Users /\ Exit \notin Callers /\ Nobody \notin Threads
  /\ ChannelLimit \in Nat \ {0} /\ MaxGen \in Nat \ {0} /\ MaxRequests \in Nat

VARIABLES
  generation,   \* current_generation: the last one activated
  current,      \* the generation installed, 0 when there is none
  faults,       \* the generations with a BridgeFault in the supervisor's queue
  restartLock, stopped,
  call,
  proc,         \* per generation: "none", "alive", "dead"
  lifecycle,
  reader, writer,   \* the threads of a generation
  ready,        \* the reader has reported the handshake
  pending,      \* the table of requests without an answer
  channel, inbox, work, pipe,  \* to the writer, to the core, in it, from it
  asked

hostVars == <<generation, current, restartLock, stopped>>
coreVars == <<inbox, work, pipe>>
vars == <<hostVars, faults, call, proc, lifecycle, reader, writer, ready, pending,
          channel, coreVars, asked>>

Idle == [pc |-> "idle", gen |-> 0, result |-> "none"]

Init ==
  /\ generation = 0 /\ current = 0 /\ faults = {}
  /\ restartLock = Nobody /\ stopped = FALSE
  /\ call = [t \in Threads |-> IF t = Sup THEN [Idle EXCEPT !.pc = "loop"] ELSE Idle]
  /\ proc = [g \in Gens |-> "none"] /\ lifecycle = [g \in Gens |-> "starting"]
  /\ reader = [g \in Gens |-> "none"] /\ writer = [g \in Gens |-> FALSE]
  /\ ready = [g \in Gens |-> FALSE] /\ pending = [g \in Gens |-> {}]
  /\ channel = [g \in Gens |-> <<>>] /\ inbox = [g \in Gens |-> <<>>]
  /\ work = [g \in Gens |-> {}] /\ pipe = [g \in Gens |-> <<>>]
  /\ asked = 0

At(t, pc) == call[t].pc = pc
Goto(t, pc) == call' = [call EXCEPT ![t].pc = pc]
GenOf(t) == call[t].gen

\* The answer that everyone in the table of g gets.
Failing(g) ==
  [t \in Threads |-> IF t \in pending[g] THEN [call[t] EXCEPT !.result = "failed"] ELSE call[t]]

-----------------------------------------------------------------------------
(* A request (BridgeSupervisor.request, Bridge.request_with_deadline)      *)

Unavailable(g) == lifecycle[g] \in {"exited", "stalled"}

\* A core that is known to be gone is reported once more.
Ask(c) ==
  /\ At(c, "idle") /\ current # 0 /\ asked < MaxRequests
  /\ asked' = asked + 1
  /\ IF Unavailable(current)
     THEN faults' = faults \cup {current} /\ UNCHANGED call
     ELSE /\ call' = [call EXCEPT ![c] = [pc |-> "check", gen |-> current, result |-> "none"]]
          /\ UNCHANGED faults
  /\ UNCHANGED <<hostVars, proc, lifecycle, reader, writer, ready, pending, channel, coreVars>>

\* The end of a request: a caller has its answer (which is an error when the
\* generation is no longer installed), Exit goes on whatever it was told.
Over(t) == IF t = Exit THEN [call[t] EXCEPT !.pc = "stopping"] ELSE Idle

Check(c) ==
  /\ At(c, "check")
  /\ IF lifecycle[GenOf(c)] \in {"starting", "exited", "stopping", "stalled"}
     THEN call' = [call EXCEPT ![c] = Over(c)]
     ELSE Goto(c, "insert")
  /\ UNCHANGED <<hostVars, faults, proc, lifecycle, reader, writer, ready, pending,
                 channel, coreVars, asked>>

Insert(c) ==
  /\ At(c, "insert")
  /\ pending' = [pending EXCEPT ![GenOf(c)] = @ \cup {c}]
  /\ Goto(c, "send")
  /\ UNCHANGED <<hostVars, faults, proc, lifecycle, reader, writer, ready, channel,
                 coreVars, asked>>

\* try_send succeeds: the writer is there, and so is a free place.
HasRoom(g) == writer[g] /\ Len(channel[g]) < ChannelLimit

\* A full channel, or one whose writer has ended, costs the core its life.
Send(c) ==
  LET g == GenOf(c) IN
  /\ At(c, "send")
  /\ IF HasRoom(g)
     THEN /\ channel' = [channel EXCEPT ![g] = Append(@, c)]
          /\ Goto(c, "wait")
          /\ UNCHANGED pending
     ELSE /\ pending' = [pending EXCEPT ![g] = @ \ {c}]
          /\ call' = [call EXCEPT ![c].pc = "mark", ![c].result = "failed"]
          /\ UNCHANGED channel
  /\ UNCHANGED <<hostVars, faults, proc, lifecycle, reader, writer, ready, coreVars, asked>>

\* An answer is there, or the core has been terminated for the lack of one.
Take(c) ==
  /\ \/ At(c, "wait") /\ call[c].result # "none"
     \/ At(c, "killed") /\ call[c].result # "last"
  /\ call' = [call EXCEPT ![c] = Over(c)]
  /\ UNCHANGED <<hostVars, faults, proc, lifecycle, reader, writer, ready, pending,
                 channel, coreVars, asked>>

\* Mutant of Expired: a request the core has accepted is waited for without end.
ExpiredQueued(c) == At(c, "wait") /\ call[c].result = "none" /\ c \notin work[GenOf(c)]

\* The host's deadline has passed.
Expired(c) == At(c, "wait") /\ call[c].result = "none"

\* Then the core is terminated.
TimeOut(c) ==
  /\ Expired(c)
  /\ pending' = [pending EXCEPT ![GenOf(c)] = @ \ {c}]
  /\ call' = [call EXCEPT ![c].pc = "mark", ![c].result = "timeout"]
  /\ UNCHANGED <<hostVars, faults, proc, lifecycle, reader, writer, ready, channel,
                 coreVars, asked>>

-----------------------------------------------------------------------------
(* force_terminate                                                         *)

\* The core is out of service, and every open request fails.
Mark(t) ==
  LET g == GenOf(t) IN
  /\ At(t, "mark")
  /\ lifecycle' = [lifecycle EXCEPT ![g] = IF @ \in {"exited", "stopping"} THEN @ ELSE "stalled"]
  /\ call' = [Failing(g) EXCEPT ![t].pc = "kill"]
  /\ pending' = [pending EXCEPT ![g] = {}]
  /\ UNCHANGED <<hostVars, faults, proc, reader, writer, ready, channel, coreVars, asked>>

\* Mutant of Reaped: the process is told to end and not waited for.
ReapedLater(g) == UNCHANGED <<proc, inbox, work>>

\* The process has ended when wait returns, and its memory is gone.
Reaped(g) ==
  /\ proc' = [proc EXCEPT ![g] = "dead"]
  /\ inbox' = [inbox EXCEPT ![g] = <<>>] /\ work' = [work EXCEPT ![g] = {}]

\* terminate_and_reap, and a Stop for the writer if there is room.
Kill(t) ==
  LET g == GenOf(t) IN
  /\ At(t, "kill")
  /\ Reaped(g)
  /\ channel' = IF HasRoom(g)
                THEN [channel EXCEPT ![g] = Append(@, Nobody)] ELSE channel
  /\ Goto(t, "killed")
  /\ UNCHANGED <<hostVars, faults, lifecycle, reader, writer, ready, pending, pipe, asked>>

-----------------------------------------------------------------------------
(* The threads of a generation, and its core                               *)

\* A frame reaches the core, or its loss ends the writer; so does Stop.
Write(g) ==
  /\ writer[g] /\ channel[g] # <<>>
  /\ IF Head(channel[g]) \in Users /\ proc[g] = "alive"
     THEN /\ inbox' = [inbox EXCEPT ![g] = Append(@, Head(channel[g]))]
          /\ channel' = [channel EXCEPT ![g] = Tail(@)]
          /\ UNCHANGED <<writer, faults>>
     ELSE /\ writer' = [writer EXCEPT ![g] = FALSE]
          /\ channel' = [channel EXCEPT ![g] = <<>>]
          /\ faults' = IF Head(channel[g]) \in Users THEN faults \cup {g} ELSE faults
          /\ UNCHANGED inbox
  /\ UNCHANGED <<hostVars, call, proc, lifecycle, reader, ready, pending, work, pipe, asked>>

Malformed(g) == pipe[g] # <<>> /\ Head(pipe[g]).kind = "malformed"

Says(g, kind) == pipe' = [pipe EXCEPT ![g] = <<[kind |-> kind, user |-> Nobody]>>]

\* What the core may do: become ready, accept or refuse a request, answer one it
\* has accepted, report that its worker is stalled, write something that is not
\* a message (what follows it is never read), end.
\* Bound: what answers no request is written into an empty pipe.
Core(g) ==
  /\ proc[g] = "alive"
  /\ \/ /\ ~ready[g] /\ pipe[g] = <<>>
        /\ Says(g, "ready")
        /\ UNCHANGED <<proc, inbox, work>>
     \/ /\ ready[g] /\ inbox[g] # <<>> /\ ~Malformed(g)
        /\ \/ /\ pipe' = [pipe EXCEPT ![g] = Append(@, [kind |-> "accepted", user |-> Head(inbox[g])])]
              /\ work' = [work EXCEPT ![g] = @ \cup {Head(inbox[g])}]
           \/ /\ pipe' = [pipe EXCEPT ![g] = Append(@, [kind |-> "response", user |-> Head(inbox[g])])]
              /\ UNCHANGED work
        /\ inbox' = [inbox EXCEPT ![g] = Tail(@)]
        /\ UNCHANGED proc
     \/ /\ ~Malformed(g)
        /\ \E c \in work[g] :
             /\ pipe' = [pipe EXCEPT ![g] = Append(@, [kind |-> "response", user |-> c])]
             /\ work' = [work EXCEPT ![g] = @ \ {c}]
        /\ UNCHANGED <<proc, inbox>>
     \/ /\ pipe[g] = <<>>
        /\ \/ work[g] # {} /\ Says(g, "stalled")
           \/ Says(g, "malformed")
        /\ UNCHANGED <<proc, inbox, work>>
     \/ /\ proc' = [proc EXCEPT ![g] = "dead"]
        /\ inbox' = [inbox EXCEPT ![g] = <<>>] /\ work' = [work EXCEPT ![g] = {}]
        /\ UNCHANGED pipe
  /\ UNCHANGED <<hostVars, faults, call, lifecycle, reader, writer, ready, pending, channel, asked>>

\* One message from the core.  A response may be one that cannot be decoded, which
\* is an error for its request and a fault of the generation.
Handles(g, m) ==
  \/ /\ m.kind = "ready"
     /\ lifecycle' = [lifecycle EXCEPT ![g] = IF @ = "starting" THEN "ready" ELSE @]
     /\ ready' = [ready EXCEPT ![g] = TRUE]
     /\ UNCHANGED <<faults, call, pending>>
  \/ /\ m.kind = "accepted"
     /\ lifecycle' = [lifecycle EXCEPT ![g] = "busy"]
     /\ UNCHANGED <<faults, call, pending, ready>>
  \/ /\ m.kind = "response"
     /\ pending' = [pending EXCEPT ![g] = @ \ {m.user}]
     /\ \/ m.user \notin pending[g] /\ UNCHANGED <<faults, call>>
        \/ /\ m.user \in pending[g]
           /\ call' = [call EXCEPT ![m.user].result = "ok"] /\ UNCHANGED faults
        \/ /\ m.user \in pending[g]
           /\ call' = [call EXCEPT ![m.user].result = "failed"] /\ faults' = faults \cup {g}
     /\ lifecycle' = [lifecycle EXCEPT ![g] = IF @ = "stalled" THEN @
                                              ELSE IF pending'[g] # {} THEN "busy" ELSE "ready"]
     /\ UNCHANGED ready
  \/ /\ m.kind = "stalled"
     /\ lifecycle' = [lifecycle EXCEPT ![g] = "stalled"]
     /\ faults' = faults \cup {g}
     /\ UNCHANGED <<call, pending, ready>>

Read(g) ==
  /\ reader[g] = "reading" /\ pipe[g] # <<>>
  /\ Handles(g, Head(pipe[g]))
  /\ pipe' = [pipe EXCEPT ![g] = Tail(@)]
  /\ UNCHANGED <<hostVars, proc, reader, writer, channel, inbox, work, asked>>

\* The pipe of a dead core has been read to its end, or it cannot be read on.
AtEnd(g) ==
  /\ reader[g] = "reading"
  /\ \/ pipe[g] = <<>> /\ proc[g] = "dead"
     \/ Malformed(g)

\* Mutant of ReaderEnds: a core that has no open request is not reported.
ReaderEndsQuietly(g) ==
  /\ AtEnd(g)
  /\ lifecycle' = [lifecycle EXCEPT ![g] = "exited"]
  /\ call' = Failing(g) /\ pending' = [pending EXCEPT ![g] = {}]
  /\ faults' = IF pending[g] # {} THEN faults \cup {g} ELSE faults
  /\ reader' = [reader EXCEPT ![g] = "ended"]
  /\ UNCHANGED <<hostVars, proc, writer, ready, channel, coreVars, asked>>

\* Every open request fails, and the supervisor hears of it.
ReaderEnds(g) ==
  /\ AtEnd(g)
  /\ lifecycle' = [lifecycle EXCEPT ![g] = "exited"]
  /\ call' = Failing(g) /\ pending' = [pending EXCEPT ![g] = {}]
  /\ faults' = faults \cup {g}
  /\ reader' = [reader EXCEPT ![g] = "ended"]
  /\ UNCHANGED <<hostVars, proc, writer, ready, channel, coreVars, asked>>

-----------------------------------------------------------------------------
(* The supervisor thread                                                   *)

SupervisorOnly == UNCHANGED <<stopped, reader, writer, ready, pending, channel, coreVars, asked>>

SupervisorGoes(pc, g) == call' = [call EXCEPT ![Sup] = [pc |-> pc, gen |-> g, result |-> "none"]]

\* Out of spawn_replacement.
Leave == restartLock' = Nobody /\ SupervisorGoes("loop", 0)

\* Without a core one is started; a fault of the one in service has it replaced,
\* any other fault is dropped.
Supervise ==
  /\ At(Sup, "loop")
  /\ \/ stopped /\ Goto(Sup, "gone") /\ UNCHANGED faults
     \/ ~stopped /\ current = 0 /\ SupervisorGoes("lock", 0) /\ UNCHANGED faults
     \/ /\ ~stopped
        /\ \E g \in faults :
             /\ faults' = faults \ {g}
             /\ IF current = g THEN SupervisorGoes("lock", g) ELSE UNCHANGED call
  /\ UNCHANGED <<generation, current, restartLock, proc, lifecycle>>
  /\ SupervisorOnly

\* spawn_replacement under restart_lock: first the old core is terminated.
Locked ==
  /\ At(Sup, "lock") /\ restartLock = Nobody
  /\ IF stopped \/ current # GenOf(Sup)
     THEN Leave
     ELSE restartLock' = Sup /\ Goto(Sup, IF current = 0 THEN "activate" ELSE "mark")
  /\ UNCHANGED <<generation, current, faults, proc, lifecycle>>
  /\ SupervisorOnly

\* The old core has been reaped, or the new one given up.
Terminated ==
  /\ At(Sup, "killed")
  /\ IF current = GenOf(Sup)
     THEN current' = 0 /\ Goto(Sup, "activate") /\ UNCHANGED restartLock
     ELSE Leave /\ UNCHANGED current
  /\ UNCHANGED <<generation, faults, proc, lifecycle>>
  /\ SupervisorOnly

\* A new generation; its process may fail to start (the only way at the bound).
Activate ==
  /\ At(Sup, "activate")
  /\ \/ /\ generation < MaxGen
        /\ generation' = generation + 1
        /\ proc' = [proc EXCEPT ![generation'] = "alive"]
        /\ reader' = [reader EXCEPT ![generation'] = "reading"]
        /\ writer' = [writer EXCEPT ![generation'] = TRUE]
        /\ SupervisorGoes("handshake", generation')
        /\ UNCHANGED restartLock
     \/ /\ generation' = IF generation < MaxGen THEN generation + 1 ELSE generation
        /\ Leave /\ UNCHANGED <<proc, reader, writer>>
  /\ UNCHANGED <<current, stopped, faults, lifecycle, ready, pending, channel, coreVars, asked>>

\* wait_bridge_ready: the handshake, the end of the core or ten seconds; a core
\* that has not stayed ready is not installed.
Handshake ==
  LET g == GenOf(Sup) IN
  /\ At(Sup, "handshake")
  /\ \/ ready[g] /\ lifecycle[g] = "ready" /\ Goto(Sup, "install")
     \/ Goto(Sup, "mark")
  /\ UNCHANGED <<generation, current, restartLock, faults, proc, lifecycle>>
  /\ SupervisorOnly

Install ==
  /\ At(Sup, "install")
  /\ IF stopped THEN Goto(Sup, "mark") /\ UNCHANGED <<current, restartLock>>
     ELSE current' = GenOf(Sup) /\ Leave
  /\ UNCHANGED <<generation, faults, proc, lifecycle>>
  /\ SupervisorOnly

-----------------------------------------------------------------------------
(* The end of the application (BridgeSupervisor.shutdown, Bridge.shutdown) *)

ExitOnly == UNCHANGED <<generation, current, faults, proc, reader, writer, ready, pending,
                        channel, coreVars, asked>>

Quit ==
  /\ At(Exit, "idle")
  /\ stopped' = TRUE
  /\ Goto(Exit, "lock")
  /\ UNCHANGED <<restartLock, lifecycle>>
  /\ ExitOnly

\* Mutant of LockForExit: the restart lock is not taken.
LockForExitNot ==
  /\ At(Exit, "lock")
  /\ IF current = 0 THEN Goto(Exit, "done") ELSE
       call' = [call EXCEPT ![Exit] =
                  [pc |-> IF Unavailable(current) THEN "stopping" ELSE "check",
                   gen |-> current, result |-> "none"]]
  /\ UNCHANGED <<stopped, lifecycle, restartLock>>
  /\ ExitOnly

\* A core in service is asked to shut down; one that is gone is not.
LockForExit ==
  /\ At(Exit, "lock") /\ restartLock = Nobody
  /\ IF current = 0
     THEN Goto(Exit, "done") /\ UNCHANGED restartLock
     ELSE /\ call' = [call EXCEPT ![Exit] =
                        [pc |-> IF Unavailable(current) THEN "stopping" ELSE "check",
                         gen |-> current, result |-> "none"]]
          /\ restartLock' = Exit
  /\ UNCHANGED <<stopped, lifecycle>>
  /\ ExitOnly

MarkStopping ==
  /\ At(Exit, "stopping")
  /\ lifecycle' = [lifecycle EXCEPT ![GenOf(Exit)] = "stopping"]
  /\ Goto(Exit, "poll")
  /\ UNCHANGED <<restartLock, stopped>>
  /\ ExitOnly

\* Mutant of GivesUp: the core is given all the time it wants.
GivesUpNever == FALSE

\* Five seconds have passed and the core is still there.
GivesUp == At(Exit, "poll") /\ proc[GenOf(Exit)] = "alive"

\* The core has ended, or it is terminated.
PollExit ==
  /\ \/ /\ At(Exit, "poll") /\ proc[GenOf(Exit)] = "dead"
        /\ Goto(Exit, "done") /\ restartLock' = Nobody
     \/ /\ GivesUp
        /\ call' = [call EXCEPT ![Exit] = [pc |-> "mark", gen |-> GenOf(Exit), result |-> "last"]]
        /\ UNCHANGED restartLock
     \/ /\ At(Exit, "killed") /\ call[Exit].result = "last"
        /\ Goto(Exit, "done") /\ restartLock' = Nobody
  /\ UNCHANGED <<stopped, lifecycle>>
  /\ ExitOnly

-----------------------------------------------------------------------------
Requesting(c) == Check(c) \/ Insert(c) \/ Send(c) \/ Take(c) \/ TimeOut(c)

Terminating(t) == Mark(t) \/ Kill(t)

Supervising ==
  \/ Supervise \/ Locked \/ Terminated \/ Activate \/ Handshake \/ Install
  \/ Terminating(Sup)

Exiting == LockForExit \/ MarkStopping \/ PollExit

Serving(g) == Write(g) \/ Read(g) \/ ReaderEnds(g)

Next ==
  \/ \E c \in Callers : Ask(c)
  \/ \E u \in Users : Requesting(u) \/ Terminating(u)
  \/ Supervising
  \/ Quit \/ Exiting
  \/ \E g \in Gens : Serving(g) \/ Core(g)

Spec == Init /\ [][Next]_vars

\* The threads of the host are scheduled, and its timers expire.  Nothing is
\* assumed of the core, nor that a request is made or the application ended.
FairSpec ==
  /\ Spec
  /\ \A u \in Users : WF_vars(Requesting(u) \/ Terminating(u))
  /\ WF_vars(Supervising) /\ WF_vars(Exiting)
  /\ \A g \in Gens : WF_vars(Serving(g))

-----------------------------------------------------------------------------
(* What is checked                                                         *)

Places == {"idle", "check", "insert", "send", "wait", "mark", "kill",
           "killed", "loop", "lock", "activate", "handshake", "install", "gone", "stopping",
           "poll", "done"}

Results == {"none", "ok", "failed", "timeout", "last"}

\* The fields keep their types, and the channel its capacity.
TypeOK ==
  /\ generation \in 0 .. MaxGen /\ current \in 0 .. generation
  /\ faults \subseteq Gens /\ restartLock \in {Nobody, Sup, Exit} /\ stopped \in BOOLEAN
  /\ call \in [Threads -> [pc : Places, gen : 0 .. MaxGen, result : Results]]
  /\ \A g \in Gens :
       /\ proc[g] \in {"none", "alive", "dead"}
       /\ lifecycle[g] \in {"starting", "ready", "busy", "stalled", "stopping", "exited"}
       /\ reader[g] \in {"none", "reading", "ended"}
       /\ writer[g] \in BOOLEAN /\ ready[g] \in BOOLEAN
       /\ pending[g] \subseteq Users /\ work[g] \subseteq Users
       /\ channel[g] \in Seq(Users \cup {Nobody}) /\ Len(channel[g]) <= ChannelLimit
       /\ inbox[g] \in Seq(Users)

\* There is never a second core, and so never a second EtherCAT Master: the old
\* process has been reaped before a new one is started, whoever terminated it.
SingleCore == \A g, h \in Gens : proc[g] = "alive" /\ proc[h] = "alive" => g = h

\* When the application has ended no core is left, not even one whose start was
\* under way.
ExitLeavesNoCore == At(Exit, "done") => \A g \in Gens : proc[g] # "alive"

\* A core in service has a reader, and its faults are heard: one that has ended
\* or is no longer read has its end still to be read, its fault queued, or is
\* being replaced.
FaultsAreHeard ==
  current # 0 /\ (proc[current] = "dead" \/ reader[current] = "ended") =>
    \/ reader[current] = "reading"
    \/ current \in faults
    \/ GenOf(Sup) = current
    \/ stopped

\* Every request ends, whatever becomes of the core.
RequestsEnd == \A c \in Callers : ~At(c, "idle") ~> At(c, "idle")

\* A core that has ended, is stalled or cannot be understood is taken out of
\* service.
CoreReplaced ==
  \A g \in Gens :
    current = g /\ (proc[g] = "dead" \/ lifecycle[g] \in {"exited", "stalled"}) ~> current # g \/ stopped

\* The application ends.
ExitEnds == stopped ~> At(Exit, "done")
=============================================================================
