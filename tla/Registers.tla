----------------------------- MODULE Registers -----------------------------
(* The register page of one slave (RegistersPage.tsx).  It reads the whole    *)
(* catalogue once, reads what the user selects or refreshes, repeats the      *)
(* reads of the monitor view and writes through a plan that the core          *)
(* prepares.  All of these share busyRef and wait for the hardware operations *)
(* of the rest of the UI.  The page is mounted anew for every slave and       *)
(* connection.  A register stands for its address and width, a value for its  *)
(* bytes; every register is readable, the Writable ones are RW; texts, errors *)
(* of single rows, formats and favourites are left out.                       *)
EXTENDS Naturals

CONSTANTS
  Registers,  \* definitions of the catalogue
  Manual,     \* registers that only an explicit read may touch
  Writable,   \* registers with an editor
  MaxValue,   \* bound: values of a register are 0 .. MaxValue
  MaxMounts   \* bound on remounts

VARIABLES
  slave,    \* the context of the page
  mount,    \* which mount of the page this is
  cache,    \* snapshots: what the page keeps for each slave of this connection
  page,
  calls,    \* requests of any mount that the operation store counts as active
  other,    \* external: a hardware operation of another part of the UI is active
  blocked,  \* deviceOperationsBlocked: the software is being updated
  device    \* external: the registers of the slaves

registerVars == <<slave, mount, cache, page, calls, other, blocked, device>>

NoRegister == "none"
NoValue == MaxValue + 1
NoEditor == [register |-> NoRegister, current |-> NoValue, dirty |-> FALSE]
Unread == [r \in Registers |-> NoValue]
NotKept == [catalog |-> FALSE, values |-> Unread, resolved |-> {}, initial |-> FALSE]

Fresh(kept) ==
  [catalog |-> kept.catalog, values |-> kept.values, resolved |-> kept.resolved, initial |-> kept.initial,
   busy |-> "", writing |-> FALSE, queue |-> {}, queued |-> {}, full |-> FALSE, attempted |-> {}, paused |-> FALSE,
   selected |-> NoRegister, loading |-> FALSE, failed |-> FALSE, editor |-> NoEditor,
   refused |-> FALSE, informed |-> kept.initial, raw |-> FALSE, monitor |-> FALSE, watching |-> FALSE, pinned |-> {}, recorded |-> FALSE]

Call(m, kind, registers) == [kind |-> kind, mount |-> m, registers |-> registers, full |-> FALSE,
                             from |-> NoValue, planned |-> NoValue, heard |-> TRUE]
Exchanges == {"snapshot", "watch", "prepare", "execute", "rawRead", "rawWrite"}
Mine(kind) == {c \in calls : c.kind = kind /\ c.mount = mount}

\* activeHardware() of the store and its test for a register_watch
ActiveHardware(cs, o) == o \/ \E c \in cs : c.kind \in (Exchanges \ {"watch"}) \cup {"reset"}
Watched(cs) == \E c \in cs : c.kind = "watch"
ControlsBlocked == blocked \/ page.busy = "reading" \/ page.writing

RegistersInit ==
  /\ slave = 1 /\ mount = 1 /\ cache = [s \in 1 .. 2 |-> NotKept]
  /\ page = Fresh(NotKept)
  /\ calls = {Call(1, "catalog", {})}
  /\ other = FALSE /\ blocked = FALSE /\ device = [r \in Registers |-> 0]

-----------------------------------------------------------------------------
(* Reading: the queue, the snapshot that empties it, and what a render does   *)

Enqueued(p, registers, automatic, all) ==
  LET new == {r \in registers \ p.queued : automatic /\ ~all => ~p.paused /\ r \notin p.attempted}
  IN  [p EXCEPT !.full = @ \/ all, !.queued = @ \cup new, !.queue = @ \cup new]

Monitoring(p, b) == p.monitor /\ p.watching /\ ~b /\ p.pinned # {}

\* The effects of a render: the one initial read, the editor that follows the
\* value of the selection until the user edits it, the record of the monitor.
InitialRead(p, b) ==
  IF p.catalog /\ ~p.initial /\ ~b /\ ~p.writing /\ ~p.raw
  THEN Enqueued([p EXCEPT !.initial = TRUE], Registers, TRUE, TRUE) ELSE p
Editing(p) == <<p.selected, p.loading, p.raw, IF p.selected = NoRegister THEN NoValue ELSE p.values[p.selected]>>
Editor(p) ==
  IF Editing(p) # Editing(page) /\ p.selected \in Writable /\ ~p.loading /\ ~p.raw /\ ~p.editor.dirty
  THEN [p EXCEPT !.editor = [register |-> p.selected, current |-> p.values[p.selected], dirty |-> FALSE],
                 !.refused = FALSE]
  ELSE p
Recorded(p, b) ==
  IF <<p.monitor, p.watching, p.pinned, b>> # <<page.monitor, page.watching, page.pinned, blocked>>
  THEN [p EXCEPT !.recorded = Monitoring(p, b)] ELSE p
Rendered(p, b) == Recorded(InitialRead(Editor(p), b), b)

\* The monitor no longer listens to a poll once it is stopped or changed.
Heard(p, b, cs) ==
  IF Monitoring(p, b) /\ p.pinned = page.pinned THEN cs
  ELSE {IF c.kind = "watch" /\ c.mount = mount THEN [c EXCEPT !.heard = FALSE] ELSE c : c \in cs}

Waiting(p) == p.queue # {} \/ p.full
\* Mutant of MayDrain: the page does not wait for its own exchange.
MayDrainBusy(p, cs, b, o) == Waiting(p) /\ ~b /\ ~ActiveHardware(cs, o)

MayDrain(p, cs, b, o) == Waiting(p) /\ ~b /\ p.busy = "" /\ ~ActiveHardware(cs, o) /\ ~Watched(cs)

\* Mutant of Ends: only a new initial read empties the queue.
EndsQuietly(p, cs, drains, b, o) ==
  LET q == Rendered(p, b)  ds == Heard(p, b, cs) IN
  IF q.initial # p.initial /\ MayDrain(q, ds, b, o)
  THEN /\ page' = [q EXCEPT !.busy = "reading", !.queue = {}, !.full = FALSE]
       /\ calls' = ds \cup {[Call(mount, "snapshot", q.queue) EXCEPT !.full = q.full]}
  ELSE page' = q /\ calls' = ds

\* The end of a handler: it leaves page p and requests cs; drains says whether
\* the handler, or the operation store it changed, calls drainRef.
Ends(p, cs, drains, b, o) ==
  LET q == Rendered(p, b)  ds == Heard(p, b, cs) IN
  IF (drains \/ q.initial # p.initial) /\ MayDrain(q, ds, b, o)
  THEN /\ page' = [q EXCEPT !.busy = "reading", !.queue = {}, !.full = FALSE]
       /\ calls' = ds \cup {[Call(mount, "snapshot", q.queue) EXCEPT !.full = q.full]}
  ELSE page' = q /\ calls' = ds
Shows(p, cs) == Ends(p, cs, FALSE, blocked, other)
Wakes(p, cs) == Ends(p, cs, TRUE, blocked, other)
Stays == UNCHANGED <<slave, mount, cache, other, blocked, device>>

\* acceptCatalog with a catalogue of another version
NewCatalog(p) == [p EXCEPT !.catalog = TRUE, !.resolved = {}, !.selected = NoRegister, !.loading = FALSE,
                           !.editor = NoEditor]
\* A new requestSequence: the detail that is on its way is only kept.
Outdated(cs) == {IF c.kind = "definition" /\ c.mount = mount THEN [c EXCEPT !.heard = FALSE] ELSE c : c \in cs}
\* acceptValues with what the slave answers for these registers
Read(p, registers) == [p EXCEPT !.values = [r \in Registers |-> IF r \in registers THEN device[r] ELSE @[r]]]

CatalogArrives(changed) ==
  /\ Stays
  /\ \E c \in Mine("catalog") :
       /\ page.catalog \/ changed
       /\ IF changed THEN Wakes(NewCatalog(page), Outdated(calls \ {c})) ELSE Wakes(page, calls \ {c})
CatalogFails ==
  /\ Stays
  /\ \E c \in Mine("catalog") : Wakes(page, calls \ {c})

\* The editor is marked untouched; only another value renews it.
Refresh ==
  /\ Stays
  /\ ~ControlsBlocked /\ page.catalog /\ ~page.raw
  /\ Wakes(Enqueued([page EXCEPT !.paused = FALSE, !.refused = FALSE, !.editor.dirty = FALSE],
                    Registers, TRUE, TRUE), calls)
RefreshOne ==
  /\ Stays
  /\ page.selected # NoRegister /\ ~ControlsBlocked /\ ~page.loading /\ ~page.failed /\ ~page.raw
  /\ Wakes(Enqueued([page EXCEPT !.watching = FALSE, !.refused = FALSE], {page.selected}, FALSE, FALSE), calls)

\* A full read leaves the registers to the core, which skips the manual ones.
Asked(c) == IF c.full THEN Registers \ Manual ELSE c.registers
Finished(p, c) == [p EXCEPT !.busy = "", !.queued = @ \ c.registers, !.attempted = @ \cup c.registers]
SnapshotArrives(got, changed) ==
  /\ Stays
  /\ \E c \in Mine("snapshot") :
       /\ got \subseteq Asked(c) /\ (changed => c.full)
       /\ LET p == IF changed THEN NewCatalog(page) ELSE page
          IN  Wakes(Finished([Read(p, got) EXCEPT !.informed = TRUE], c),
                    IF changed THEN Outdated(calls \ {c}) ELSE calls \ {c})
SnapshotCancelled ==
  /\ Stays
  /\ \E c \in Mine("snapshot") :
       Wakes(Finished([page EXCEPT !.informed = TRUE, !.queue = {}, !.full = FALSE], c), calls \ {c})
SnapshotFails ==
  /\ Stays
  /\ \E c \in Mine("snapshot") :
       Wakes([page EXCEPT !.busy = "", !.paused = TRUE, !.queue = {}, !.queued = {}, !.full = FALSE], calls \ {c})

-----------------------------------------------------------------------------
(* Selecting a register                                                       *)

Missing(p, r) == p.values[r] = NoValue /\ r \notin Manual
Selected(p, r) == IF Missing(p, r) THEN Enqueued(p, {r}, TRUE, FALSE) ELSE p
Select(r) ==
  /\ Stays
  /\ page.catalog /\ ~page.writing /\ ~blocked /\ ~page.raw
  /\ page.selected = r => page.failed
  /\ LET p == [page EXCEPT !.selected = r, !.loading = r \notin page.resolved, !.failed = FALSE,
                           !.editor = NoEditor, !.refused = FALSE]
         pending == {c \in Mine("definition") : c.registers = {r}}
     IN  IF r \in page.resolved THEN Wakes(Selected(p, r), Outdated(calls))
         ELSE Wakes(p, Outdated(calls \ pending) \cup {Call(mount, "definition", {r})})
DefinitionArrives ==
  /\ Stays
  /\ \E c \in Mine("definition"), r \in Registers :
       /\ c.registers = {r}
       /\ LET p == [page EXCEPT !.resolved = @ \cup {r}] IN
          Wakes(IF c.heard THEN Selected([p EXCEPT !.selected = r, !.loading = FALSE], r) ELSE p,
                calls \ {c})
DefinitionFails ==
  /\ Stays
  /\ \E c \in Mine("definition") :
       Wakes(IF c.heard THEN [page EXCEPT !.failed = TRUE, !.loading = FALSE] ELSE page, calls \ {c})

\* Another list, a search or the close button
Deselect ==
  /\ Stays
  /\ page.selected # NoRegister /\ ~page.writing /\ ~page.raw
  /\ Shows([page EXCEPT !.selected = NoRegister, !.editor = NoEditor], Outdated(calls))

-----------------------------------------------------------------------------
(* The monitor view                                                           *)

Pin(r, pinned) ==
  /\ Stays
  /\ page.catalog /\ ~page.raw /\ (r \in page.pinned) # pinned
  /\ Shows(IF pinned THEN [page EXCEPT !.pinned = @ \cup {r}]
           ELSE [page EXCEPT !.pinned = @ \ {r}, !.watching = FALSE], calls)
Monitor(shown) ==
  /\ Stays
  /\ page.monitor # shown /\ ~page.raw /\ (shown => ~page.writing)
  /\ Shows([page EXCEPT !.monitor = shown, !.watching = FALSE], calls)
Watch(on) ==
  /\ Stays
  /\ page.monitor /\ page.watching # on /\ ~ControlsBlocked /\ page.pinned # {} /\ ~page.raw
  /\ Shows([page EXCEPT !.watching = on], calls)

\* A poll that finds the page or the hardware busy leaves the turn to the next.
Poll ==
  /\ Stays
  /\ Monitoring(page, blocked) /\ page.busy = "" /\ ~ActiveHardware(calls, other) /\ ~Watched(calls)
  /\ Wakes([page EXCEPT !.busy = "watching"], calls \cup {Call(mount, "watch", page.pinned)})

\* Stopping closes the record before the render sees watching go.
Stopped(p) == [p EXCEPT !.watching = FALSE, !.recorded = FALSE]
WatchEnds(ok) ==
  /\ Stays
  /\ \E c \in Mine("watch") :
       LET p == [page EXCEPT !.busy = "", !.informed = @ \/ c.heard] IN
       Wakes(IF ~c.heard THEN p ELSE IF ok THEN Read(p, c.registers) ELSE Stopped(p), calls \ {c})

-----------------------------------------------------------------------------
(* Writing: a register through a plan, an address directly, and the reset     *)

Type ==
  /\ Stays
  /\ page.editor # NoEditor /\ ~ControlsBlocked /\ ~page.raw
  /\ Shows([page EXCEPT !.editor.dirty = TRUE, !.watching = FALSE], calls)

MayStart == ~ControlsBlocked /\ page.busy = "" /\ ~ActiveHardware(calls, other)
Write ==
  /\ Stays
  /\ page.editor # NoEditor /\ page.editor.current # NoValue /\ ~page.refused /\ ~page.raw /\ MayStart
  /\ Wakes([page EXCEPT !.busy = "writing", !.writing = TRUE, !.watching = FALSE],
           calls \cup {[Call(mount, "prepare", {page.editor.register}) EXCEPT !.from = page.editor.current]})

Written(p) == [p EXCEPT !.busy = "", !.writing = FALSE]

\* Mutant of Prepared: the value that was read for the plan is not compared.
PreparedUnseen ==
  /\ Stays
  /\ \E c \in Mine("prepare"), r \in Registers :
       /\ c.registers = {r}
       /\ Wakes(page, (calls \ {c}) \cup {[c EXCEPT !.kind = "execute", !.planned = device[r]]})

\* The core has read the register to plan the write.
Prepared ==
  /\ Stays
  /\ \E c \in Mine("prepare"), r \in Registers :
       /\ c.registers = {r}
       /\ IF device[r] = c.from
          THEN Wakes(page, (calls \ {c}) \cup {[c EXCEPT !.kind = "execute", !.planned = device[r]]})
          ELSE Wakes([Written(page) EXCEPT !.refused = TRUE], calls \ {c})
Executed(value, readback) ==
  /\ UNCHANGED <<slave, mount, cache, other, blocked>>
  /\ \E c \in Mine("execute"), r \in Registers :
       /\ c.registers = {r} /\ device' = [device EXCEPT ![r] = value]
       /\ LET p == [Written(page) EXCEPT !.editor.dirty = FALSE] IN
          IF readback
          THEN Wakes([p EXCEPT !.values[r] = value, !.editor.register = r, !.editor.current = value], calls \ {c})
          ELSE Wakes(Enqueued(p, {r}, FALSE, FALSE), calls \ {c})
WriteFails ==
  /\ Stays
  /\ \E c \in Mine("prepare") \cup Mine("execute") :
       Wakes([Written(page) EXCEPT !.refused = TRUE], calls \ {c})

Raw(open) ==
  /\ Stays
  /\ page.raw # open /\ IF open THEN ~page.writing ELSE ~ControlsBlocked
  /\ Shows([page EXCEPT !.raw = open, !.watching = IF open THEN FALSE ELSE @], calls)
RawRead(r) ==
  /\ Stays
  /\ page.raw /\ MayStart
  /\ Wakes([page EXCEPT !.busy = "reading", !.watching = FALSE], calls \cup {Call(mount, "rawRead", {r})})
RawWrite(r) ==
  /\ Stays
  /\ page.raw /\ MayStart
  /\ Wakes([page EXCEPT !.busy = "writing", !.writing = TRUE, !.watching = FALSE], calls \cup {Call(mount, "rawWrite", {r})})
RawReadEnds(ok) ==
  /\ Stays
  /\ \E c \in Mine("rawRead") :
       LET p == [page EXCEPT !.busy = ""] IN Wakes(IF ok THEN Read(p, c.registers) ELSE p, calls \ {c})

\* The values of the written range are forgotten unless they are read back.
RawWriteEnds(value, readback) ==
  /\ UNCHANGED <<slave, mount, cache, other, blocked>>
  /\ \E c \in Mine("rawWrite") :
       /\ device' = [r \in Registers |-> IF r \in c.registers THEN value ELSE device[r]]
       /\ Wakes([Written(page) EXCEPT !.values = [r \in Registers |-> IF r \notin c.registers THEN @[r]
                                                  ELSE IF readback THEN value ELSE NoValue]], calls \ {c})
RawWriteFails ==
  /\ Stays
  /\ \E c \in Mine("rawWrite") : Wakes(Written(page), calls \ {c})

\* The reset takes writing but not busyRef.
Reset ==
  /\ Stays
  /\ ~ControlsBlocked /\ ~page.raw /\ page.selected # NoRegister
  /\ Wakes([page EXCEPT !.writing = TRUE, !.watching = FALSE], calls \cup {Call(mount, "reset", {})})
ResetFails ==
  /\ Stays
  /\ \E c \in Mine("reset") : Wakes([page EXCEPT !.writing = FALSE], calls \ {c})

-----------------------------------------------------------------------------
(* The page and its surroundings                                              *)

Kept == IF ~page.catalog THEN cache
        ELSE [cache EXCEPT ![slave] = [catalog |-> TRUE, values |-> page.values, resolved |-> page.resolved,
                                       initial |-> page.informed]]

\* Another slave keeps the requests of the page active; coming back to the page
\* and a new connection have invalidated them, and the latter drops the cache.
Remount(s, reason) ==
  /\ UNCHANGED <<other, blocked, device>>
  /\ mount < MaxMounts /\ mount' = mount + 1
  /\ slave' = s /\ (reason = "slave" => s # slave) /\ (reason = "page" => s = slave)
  /\ cache' = IF reason = "connection" THEN [k \in 1 .. 2 |-> NotKept] ELSE Kept
  /\ page' = Fresh(cache'[s])
  /\ calls' = (IF reason = "slave" THEN calls ELSE {}) \cup {Call(mount', "catalog", {})}

\* A software update begins, or it fails; the store publishes neither.
Blocks(b) ==
  /\ UNCHANGED <<slave, mount, cache, other, device>>
  /\ blocked # b /\ blocked' = b
  /\ (b => ~ActiveHardware(calls, other))
  /\ Ends(page, calls, FALSE, b, other)

\* A hardware operation or any other request of the rest of the UI
OtherOperation(active) ==
  /\ UNCHANGED <<slave, mount, cache, blocked, device>>
  /\ other # active /\ other' = active
  /\ Ends(page, calls, TRUE, blocked, active)
OtherRequest == Stays /\ Wakes(page, calls)
OldAnswers ==
  /\ Stays
  /\ \E c \in calls : c.mount # mount /\ Wakes(page, calls \ {c})
DeviceMoves(r, value) ==
  /\ UNCHANGED <<slave, mount, cache, page, calls, other, blocked>>
  /\ device' = [device EXCEPT ![r] = value]

-----------------------------------------------------------------------------
Answers ==
  \/ CatalogFails \/ DefinitionArrives \/ DefinitionFails
  \/ \E changed \in BOOLEAN : CatalogArrives(changed) \/ \E got \in SUBSET Registers : SnapshotArrives(got, changed)
  \/ SnapshotCancelled \/ SnapshotFails
  \/ \E ok \in BOOLEAN : WatchEnds(ok) \/ RawReadEnds(ok)
  \/ Prepared \/ WriteFails \/ RawWriteFails \/ ResetFails \/ OldAnswers
  \/ \E value \in 0 .. MaxValue, readback \in BOOLEAN : Executed(value, readback) \/ RawWriteEnds(value, readback)

UserSteps ==
  \/ Refresh \/ RefreshOne \/ Deselect \/ Type \/ Write \/ Reset
  \/ \E r \in Registers : Select(r) \/ RawRead(r) \/ RawWrite(r) \/ \E pinned \in BOOLEAN : Pin(r, pinned)
  \/ \E on \in BOOLEAN : Monitor(on) \/ Watch(on) \/ Raw(on)
  \/ \E s \in 1 .. 2, reason \in {"slave", "page", "connection"} : Remount(s, reason)

RegisterSteps ==
  \/ Answers \/ UserSteps \/ Poll \/ OtherRequest
  \/ \E on \in BOOLEAN : Blocks(on) \/ OtherOperation(on)
  \/ \E r \in Registers, value \in 0 .. MaxValue : DeviceMoves(r, value)

RegistersSpec == RegistersInit /\ [][RegisterSteps]_registerVars

\* The core answers every request, and operations of the rest of the UI end.
RegisterFairness ==
  /\ WF_registerVars(Answers) /\ WF_registerVars(OtherOperation(FALSE)) /\ WF_registerVars(OtherRequest)

-----------------------------------------------------------------------------
(* Properties                                                                 *)

\* busyRef lets the page have one exchange with the slave at a time, whatever
\* its buttons, its timers and its effects start.
OneExchange ==
  LET mine == {c \in calls : c.mount = mount /\ c.kind \in Exchanges}
  IN  (\A c, d \in mine : c = d) /\ (page.busy # "" <=> mine # {})

\* The history shows a monitoring that began as running for as long as the page
\* polls, and closes it when the polls stop for whatever reason.
MonitoringIsRecorded == page.recorded = Monitoring(page, blocked)

\* A write goes out for the slave and over the value that the user had in the
\* editor, although another slave may be shown or the value may have moved while
\* the core prepared the write.
WritesWhatWasSeen ==
  \A c \in calls' \ calls : c.kind = "execute" => c.mount = mount' /\ c.planned = c.from

\* What must not stay: a read that waits for other operations is sent or dropped,
\* unless an update of the software keeps the page from the hardware.
ReadsWait == Waiting(page) /\ ~blocked
=============================================================================
