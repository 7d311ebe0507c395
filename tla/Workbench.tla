------------------------------ MODULE Workbench ------------------------------
(* The frame of App.tsx around the pages: what it shows of the bus, the       *)
(* selected slave, what it keeps per session (EEPROM contents, register       *)
(* profiles, failed state requests), and the progress whose EEPROM operation  *)
(* locks the rest of the UI.  Snapshots, events and answers reach it in any   *)
(* order.  A session stands for a clock with its core; the core is external.  *)
EXTENDS Naturals, Sequences, FiniteSets

CONSTANTS Slaves, MaxSession, MaxRequests

VARIABLES
  bus,       \* external: session, slaves and connection of the core
  wire,      \* snapshots and events on their way
  latest,    \* the snapshot that was accepted last
  status,    \* what is shown of the bus, and the session that it is from
  selected,  \* position of the selected slave, 0 for none
  requests,  \* in the order they were sent
  progress,  \* percent is 0 at the start, 1 under way and 2 at the end
  caches     \* what was kept: its kind, slave, and the session that it is from

core == <<bus, wire>>
app == <<latest, status, selected, caches>>
workbenchVars == <<core, app, requests, progress>>

Kinds == {"connect", "scan", "request_state", "eeprom_read", "eeprom_flash", "reconfig"}
\* The commands that open a session of their own are not bound to that of the UI.
SessionOpeners == {"connect", "scan", "reconfig", "eeprom_flash"}
Eeprom == {"eeprom_read", "eeprom_flash"}

Pending(r) == r.answer # "handled"
Running(kinds) == \E i \in DOMAIN requests : requests[i].active /\ requests[i].kind \in kinds

\* No operation but the one in progress is offered while this holds.
EepromExclusive == progress.op = "eeprom" /\ progress.percent < 2
Busy == Running(Kinds \ {"request_state"})
StateRequestBusy == Running({"request_state"})
BusStateBlocked ==
  ~status.connected \/ status.slaves = {} \/ EepromExclusive \/ StateRequestBusy \/ Busy

NoProgress == [op |-> "none", percent |-> 0, tone |-> "info"]
Percent(percent, tone) == [op |-> "eeprom", percent |-> percent, tone |-> tone]

Unconnected(session) == [connected |-> FALSE, slaves |-> {}, session |-> session]

-----------------------------------------------------------------------------
(* Snapshots and events                                                       *)

Invalidated(table, ids) ==
  [i \in DOMAIN table |-> IF i \in ids THEN [table[i] EXCEPT !.active = FALSE] ELSE table[i]]

\* Requests of another session end; of the source, its own answer decides.
OutOfSession(session, source) ==
  {i \in DOMAIN requests \ {source} :
     requests[i].session # session /\ requests[i].kind \notin SessionOpeners}

Accepted(snapshot) == snapshot.session >= latest.session

SelectionIn(slaves) ==
  CASE selected \in slaves -> selected
    [] slaves = {} -> 0
    [] OTHER -> CHOOSE s \in slaves : \A t \in slaves : s <= t

\* The listener of the workbench is not called for a snapshot that is the last one
\* again: two that agree here may still differ in their revision or telemetry.
Publish(snapshot) ==
  \/ /\ Accepted(snapshot)
     /\ latest' = snapshot /\ status' = snapshot /\ selected' = SelectionIn(snapshot.slaves)
  \/ /\ Accepted(snapshot) => snapshot = latest
     /\ UNCHANGED <<latest, status, selected>>

\* Another session takes its caches with it.
CachesAfter(snapshot) ==
  IF Accepted(snapshot) /\ snapshot.session # latest.session THEN {} ELSE caches

SnapshotArrives ==
  \E m \in wire :
    /\ m.kind = "snapshot" /\ wire' = wire \ {m}
    /\ Publish(m.snapshot) /\ caches' = CachesAfter(m.snapshot)
    /\ requests' = IF Accepted(m.snapshot)
                   THEN Invalidated(requests, OutOfSession(m.snapshot.session, 0)) ELSE requests
    /\ UNCHANGED <<bus, progress>>

\* acceptsSessionEvent
AcceptsEvent(m) == m.session = latest.session

\* A scan shows what it has found before it has read the devices.
ScanDiscovered ==
  \E m \in wire :
    /\ m.kind = "discovered" /\ wire' = wire \ {m}
    /\ IF AcceptsEvent(m) /\ m.slaves # {}
       THEN /\ status' = [connected |-> TRUE, slaves |-> m.slaves, session |-> m.session]
            /\ selected' = SelectionIn(m.slaves)
       ELSE UNCHANGED <<status, selected>>
    /\ UNCHANGED <<bus, latest, requests, progress, caches>>

\* Mutant of Progressed: a late progress takes an operation that has ended back.
ProgressedAgain(percent) == Percent(percent, "info")

\* The progress of an operation that has ended does not go back.
Progressed(percent) ==
  IF progress.percent = 2 /\ progress.tone # "info" THEN progress
  ELSE Percent(IF progress.percent > percent THEN progress.percent ELSE percent, "info")

ProgressArrives ==
  \E m \in wire :
    /\ m.kind = "progress" /\ wire' = wire \ {m}
    /\ progress' = IF AcceptsEvent(m) THEN Progressed(m.percent) ELSE progress
    /\ UNCHANGED <<bus, app, requests>>

\* What publishHostFault shows of a core that has ended: its clock is that of the
\* last snapshot, under the generation of the core that ended.  That of a core before
\* the last one is not accepted.
Faulted(m) == {Unconnected(s) : s \in latest.session .. m.session}

\* bridge-exited and worker_fatal: every request is over.  Only the former publishes
\* a snapshot; the latter has no session and is heard in any.
CoreIsGone ==
  \E m \in wire :
    /\ m.kind \in {"exit", "fatal"} /\ wire' = wire \ {m}
    /\ requests' = Invalidated(requests, DOMAIN requests)
    /\ progress' = IF progress # NoProgress /\ progress.percent < 2
                   THEN [progress EXCEPT !.percent = 2, !.tone = "error"] ELSE progress
    /\ selected' = 0
    /\ \/ /\ m.kind = "exit"
          /\ \E fault \in Faulted(m) :
               /\ latest' = fault /\ status' = fault
               /\ caches' = {c \in CachesAfter(fault) : c.kind # "profile"}
       \/ /\ m.kind = "exit" => Faulted(m) = {} \/ latest \in Faulted(m)
          /\ caches' = {c \in caches : c.kind # "profile"}
          /\ UNCHANGED <<latest, status>>
    /\ UNCHANGED bus

-----------------------------------------------------------------------------
(* The requests of the workbench and of the EEPROM pages                      *)

Allowed(kind) ==
  CASE kind = "connect" -> ~EepromExclusive /\ ~Busy /\ ~status.connected
    [] kind = "scan" -> ~EepromExclusive /\ ~Busy /\ status.connected
    [] kind = "request_state" -> ~BusStateBlocked
    [] kind = "reconfig" -> ~Busy /\ selected # 0 /\ ~EepromExclusive
    [] OTHER -> ~EepromExclusive /\ ~Busy /\ selected # 0

Sent(kind) ==
  Append(requests, [kind |-> kind, slave |-> selected, session |-> latest.session,
                    active |-> TRUE, answer |-> "none", snapshot |-> latest])

\* An EEPROM operation locks the UI before it asks; programming drops what was
\* read before, whether it will succeed or not.
Request(kind) ==
  /\ Len(requests) < MaxRequests /\ Allowed(kind)
  /\ requests' = Sent(kind)
  /\ progress' = IF kind \in Eeprom THEN Percent(0, "info") ELSE progress
  /\ caches' = IF kind = "eeprom_flash"
               THEN {c \in caches : ~(c.kind = "read" /\ c.slave = selected)} ELSE caches
  /\ UNCHANGED <<core, latest, status, selected>>

SameSession(r) == r.session = latest'.session

\* What is kept of an answer, by the caller that gets it or by run.
Kept(r, returned) ==
  CASE r.kind = "eeprom_read" /\ returned -> {[kind |-> "read", slave |-> r.slave, session |-> r.session]}
    [] r.kind = "reconfig" /\ returned -> {[kind |-> "profile", slave |-> r.slave, session |-> latest'.session]}
    [] r.kind = "request_state" /\ r.answer = "failed" /\ SameSession(r) ->
         {[kind |-> "failure", slave |-> r.slave, session |-> r.session]}
    [] OTHER -> {}

\* A state request that succeeds clears the failure of its slave.
Superseded(r, returned) ==
  IF r.kind = "request_state" /\ returned /\ SameSession(r)
  THEN {c \in caches : c.kind = "failure" /\ c.slave = r.slave} ELSE {}

\* An EEPROM operation ends the progress however it ends; the failure of any
\* other but a state request is written on whatever progress there is.
ProgressAfter(r, returned) ==
  CASE r.kind \in Eeprom ->
         Percent(2, IF returned THEN "success" ELSE IF r.answer = "cancelled" THEN "info" ELSE "error")
    [] r.kind \in {"connect", "scan", "reconfig"} /\ ~returned /\ r.answer # "cancelled" /\ progress # NoProgress ->
         [progress EXCEPT !.tone = "error"]
    [] OTHER -> progress

AnswerArrives(i) ==
  LET r == requests[i]
      returned == r.answer = "ok" /\ r.active
      ended == [Invalidated(requests, IF Accepted(r.snapshot) THEN OutOfSession(r.snapshot.session, i) ELSE {})
                  EXCEPT ![i].active = FALSE, ![i].answer = "handled"]
  IN  /\ r.answer \notin {"none", "handled"}
      /\ Publish(r.snapshot)
      /\ caches' = (CachesAfter(r.snapshot) \ Superseded(r, returned)) \cup Kept(r, returned)
      /\ progress' = ProgressAfter(r, returned)
      \* A connection is followed by a scan.
      /\ requests' = IF r.kind = "connect" /\ returned /\ Len(requests) < MaxRequests
                     THEN Append(ended, [kind |-> "scan", slave |-> selected', session |-> latest'.session,
                                         active |-> TRUE, answer |-> "none", snapshot |-> latest'])
                     ELSE ended
      /\ UNCHANGED core

Select ==
  /\ ~EepromExclusive
  /\ selected' \in status.slaves \ {selected}
  /\ UNCHANGED <<core, latest, status, requests, progress, caches>>

-----------------------------------------------------------------------------
(* The core                                                                   *)

Snapshot == [kind |-> "snapshot", snapshot |-> bus']

\* A session ends when the bus is scanned, connected, disconnected or lost.
SessionChanges ==
  /\ bus.session < MaxSession
  /\ \/ bus' = Unconnected(bus.session + 1)
     \/ \E found \in {{}, Slaves, {1}} :
          bus' = [connected |-> TRUE, slaves |-> found, session |-> bus.session + 1]
  /\ wire' \in {wire, wire \cup {Snapshot}}
  /\ UNCHANGED <<app, requests, progress>>

\* What an operation announces before its end.
Announces ==
  /\ \/ /\ \E i \in DOMAIN requests : requests[i].kind = "scan" /\ requests[i].answer = "none"
        /\ wire' = wire \cup {[kind |-> "discovered", session |-> bus.session, slaves |-> Slaves]}
     \/ /\ \E i \in DOMAIN requests : requests[i].kind \in Eeprom /\ requests[i].answer = "none"
        /\ wire' = wire \cup {[kind |-> "progress", session |-> bus.session, percent |-> 1]}
  /\ UNCHANGED <<bus, app, requests, progress>>

Answers(i) ==
  /\ requests[i].answer = "none"
  /\ \E answer \in {"ok", "failed", "cancelled"} :
       requests' = [requests EXCEPT ![i].answer = answer, ![i].snapshot = bus]
  /\ UNCHANGED <<core, app, progress>>

\* The worker of the core ends; or the core does, and is replaced by one that is not
\* connected.
Exits ==
  /\ bus.session < MaxSession
  /\ bus' = Unconnected(bus.session + 1)
  /\ \/ wire' = wire \cup {[kind |-> "fatal"], Snapshot}
     \/ wire' = wire \cup {[kind |-> "exit", session |-> bus.session], Snapshot}
  /\ requests' = [i \in DOMAIN requests |->
                    IF requests[i].answer = "none" THEN [requests[i] EXCEPT !.answer = "failed"]
                    ELSE requests[i]]
  /\ UNCHANGED <<app, progress>>

-----------------------------------------------------------------------------

Init ==
  /\ bus = Unconnected(0) /\ wire = {} /\ latest = bus /\ status = bus
  /\ selected = 0 /\ requests = << >> /\ progress = NoProgress /\ caches = {}

Next ==
  \/ SnapshotArrives \/ ScanDiscovered \/ ProgressArrives \/ CoreIsGone
  \/ \E kind \in Kinds : Request(kind)
  \/ \E i \in DOMAIN requests : AnswerArrives(i) \/ Answers(i)
  \/ Select \/ SessionChanges \/ Announces \/ Exits

-----------------------------------------------------------------------------

\* The lock of an EEPROM operation is released: it is held only while the answer
\* of one is still to come, also when its last progress arrives after the answer,
\* when its session or core is gone, or when another request fails meanwhile.
ExclusiveIsReleased ==
  EepromExclusive => \E i \in DOMAIN requests : requests[i].kind \in Eeprom /\ Pending(requests[i])

\* The slaves shown are those of the session of the clock, be it from its snapshot
\* or from its scan, whatever events of other sessions arrive late; and a request
\* that was refused in an earlier session marks no slave of this one.
SessionIsShown ==
  /\ status.session = latest.session
  /\ \A c \in caches : c.kind = "failure" => c.session = latest.session
=============================================================================
