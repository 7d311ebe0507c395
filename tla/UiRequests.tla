----------------------------- MODULE UiRequests -----------------------------
(* The requests of the UI: the table of operations of operationStore.ts, the  *)
(* clock of snapshotClock.ts and the request path of api.ts.                  *)
(*                                                                            *)
(* A request is an operation of the table from the moment it is sent until it *)
(* ends.  What ends it is its own answer, or that the context it was sent in  *)
(* is gone: another page, session or core.  Every answer and every event      *)
(* carries a snapshot of the bus, and they reach the UI in any order.  The    *)
(* core is external: only its clock and what it answers are modelled.         *)
EXTENDS Integers, FiniteSets, Sequences

CONSTANTS
  Methods,       \* the commands of the registry that the UI sends
  Hardware,      \* those of the hardware lane
  Mutating,      \* those that change the device or a file
  Connecting,    \* those that open a session of their own
  NoSnapshot,
  StoreLimit, StoreKept,   \* the table is pruned above the limit (200 and 100)
  MaxOps, MaxActive, MaxPage, MaxGeneration, MaxSession, MaxRevision, MaxEvents

ASSUME MethodsAssumption == Hardware \subseteq Methods /\ Mutating \subseteq Methods
ASSUME BoundsAssumption ==
  {StoreLimit, StoreKept, MaxOps, MaxActive, MaxPage, MaxGeneration, MaxSession, MaxRevision,
   MaxEvents} \subseteq Nat

VARIABLES
  ops,        \* operation -> its record
  issued,     \* how many operations have been sent: sequence
  page,       \* pageGeneration
  latest,     \* latestSnapshot; the clock of the store is its clock
  updating,   \* updateInProgress
  answers,    \* operation -> what the core answered, in flight or handled
  events,     \* snapshots, and exits of a core, on their way to the UI
  core        \* clock of the core, and whether it is alive

store == <<ops, issued, page, latest>>
external == <<answers, events, core>>
requestVars == <<ops, issued, page, latest, updating, answers, events, core>>

Ids == 1 .. MaxOps
Terminal == {"completed", "failed", "cancelled", "unknown"}
Snapshots == [gen : Nat, session : Nat, rev : Nat, up : BOOLEAN]
Contexts == [gen : Nat, session : Nat]

ASSUME NoSnapshotAssumption == NoSnapshot \notin Snapshots \cup Contexts

\* The context of an operation is the clock of the store when it was sent.
Operations ==
  [method : Methods, context : Contexts \cup {NoSnapshot}, page : Nat,
   phase : {"running"} \cup Terminal]

\* An answer carries the result or the phase its failure stands for, whether
\* the session is lost with it, and mostly a snapshot; outcome tells what the
\* caller got out of it.
Answers ==
  [ok : BOOLEAN, phase : Terminal, lost : BOOLEAN, snapshot : Snapshots \cup {NoSnapshot},
   outcome : {"none", "returned", "thrown"}]

-----------------------------------------------------------------------------
(* snapshotClock.ts                                                          *)

Before(a, b) ==
  \/ a.gen < b.gen
  \/ a.gen = b.gen /\ a.session < b.session
  \/ a.gen = b.gen /\ a.session = b.session /\ a.rev < b.rev

\* Mutant of Accepts: every snapshot is taken for the latest.
AcceptsAnything(snapshot) == TRUE

Accepts(snapshot) == latest = NoSnapshot \/ ~Before(snapshot, latest)

-----------------------------------------------------------------------------
(* operationStore.ts                                                         *)

Active(op) == op.phase \notin Terminal

ActiveOf(methods) == \E i \in DOMAIN ops : Active(ops[i]) /\ ops[i].method \in methods

\* Nothing reads the context of an operation that has ended.
Ended(op, phase) ==
  [method |-> op.method, context |-> NoSnapshot, page |-> 0, phase |-> phase]

\* Mutant of Invalidated: every operation is shown as failed.
InvalidatedAsFailed(table, ids) ==
  [i \in DOMAIN table |-> IF i \in ids /\ Active(table[i]) THEN Ended(table[i], "failed") ELSE table[i]]

Invalidated(table, ids) ==
  [i \in DOMAIN table |->
     IF i \in ids /\ Active(table[i])
     THEN Ended(table[i], IF table[i].method \in Mutating THEN "unknown" ELSE "failed")
     ELSE table[i]]

\* Above the limit the ended operations are dropped, and the oldest of the
\* others until StoreKept are left.
Pruned ==
  IF Cardinality(DOMAIN ops) <= StoreLimit THEN ops
  ELSE LET live == {i \in DOMAIN ops : Active(ops[i])}
       IN  [i \in {j \in live : Cardinality({k \in live : k > j}) < StoreKept} |-> ops[i]]

\* Mutant of OutOfContext: a new session of the same core is not looked at.
OutOfContextOfCore(snapshot, source) ==
  IF latest # NoSnapshot /\ latest.gen # snapshot.gen THEN DOMAIN ops \ {source} ELSE {}

\* The operations that a snapshot puts out of context.
OutOfContext(snapshot, source) ==
  {i \in DOMAIN ops \ {source} :
     /\ latest # NoSnapshot
     /\ \/ latest.gen # snapshot.gen
        \/ /\ latest.session # snapshot.session
           /\ ops[i].context # NoSnapshot /\ ops[i].context.session # snapshot.session
           /\ ops[i].method \notin Connecting}

\* What the table and the latest snapshot are after publishSnapshot.
Published(snapshot, source) ==
  IF snapshot # NoSnapshot /\ Accepts(snapshot)
  THEN [ops |-> Invalidated(ops, OutOfContext(snapshot, source)), latest |-> snapshot]
  ELSE [ops |-> ops, latest |-> latest]

Transition(table, i, phase) ==
  [j \in DOMAIN table |->
     IF j = i /\ Active(table[j]) THEN Ended(table[j], phase) ELSE table[j]]

Admitted(m) == updating /\ m \in Hardware => m \in {"stop_cycle", "disconnect"}

\* begin, and the transition to running that bridgeRequest makes at once.
Begun(m, i) ==
  [j \in DOMAIN Pruned \cup {i} |->
     IF j # i THEN Pruned[j]
     ELSE [method |-> m, page |-> page, phase |-> "running",
           context |-> IF latest = NoSnapshot THEN NoSnapshot
                       ELSE [gen |-> latest.gen, session |-> latest.session]]]

ActiveHardware == ActiveOf(Hardware \ {"register_watch"})

Begin(m) ==
  /\ issued < MaxOps
  /\ Cardinality({i \in DOMAIN ops : Active(ops[i])}) < MaxActive
  /\ Admitted(m)
  /\ issued' = issued + 1
  /\ ops' = Begun(m, issued + 1)
  /\ UNCHANGED <<page, latest, answers, events, core>>

NextPage ==
  /\ page < MaxPage
  /\ page' = page + 1
  /\ ops' = Invalidated(ops, {i \in DOMAIN ops : ops[i].page <= page})
  /\ UNCHANGED <<issued, latest, updating, external>>

-----------------------------------------------------------------------------
(* api.ts: what an answer or an event does when it arrives                   *)

Awaits(i) == i \in DOMAIN answers /\ answers[i].outcome = "none"

\* Nothing of an answer is kept but what the caller got.
Handled(i, outcome) ==
  [answers EXCEPT ![i] = [ok |-> FALSE, phase |-> "failed", lost |-> FALSE,
                          snapshot |-> NoSnapshot, outcome |-> outcome]]

\* The operation is complete unless its context was lost meanwhile: then the
\* result is thrown away, but not the snapshot that came with it.
Resolve(i) ==
  /\ Awaits(i) /\ answers[i].ok
  /\ LET after == Published(answers[i].snapshot, i)
     IN  /\ latest' = after.latest
         /\ ops' = Transition(after.ops, i, "completed")
         /\ answers' = Handled(i, IF i \in DOMAIN after.ops /\ Active(after.ops[i])
                                  THEN "returned" ELSE "thrown")
  /\ UNCHANGED <<issued, page, updating, events, core>>

Reject(i) ==
  /\ Awaits(i) /\ ~answers[i].ok
  /\ LET after == Published(answers[i].snapshot, i)
         ended == Transition(after.ops, i, answers[i].phase)
     IN  /\ latest' = after.latest
         /\ ops' = IF answers[i].lost THEN Invalidated(ended, DOMAIN ended) ELSE ended
  /\ answers' = Handled(i, "thrown")
  /\ UNCHANGED <<issued, page, updating, events, core>>

SnapshotEvent(e) ==
  /\ e \in events /\ e.up
  /\ LET after == Published(e, 0) IN ops' = after.ops /\ latest' = after.latest
  /\ events' = events \ {e}
  /\ UNCHANGED <<issued, page, updating, answers, core>>

\* The end of a core, as it is shown: a faulted bus under the clock of the
\* last snapshot.
HostFault(gen) ==
  [gen |-> gen, session |-> IF latest = NoSnapshot THEN 0 ELSE latest.session,
   rev |-> IF latest = NoSnapshot THEN 0 ELSE latest.rev, up |-> FALSE]

ExitEvent(e) ==
  /\ e \in events /\ ~e.up
  /\ LET fault == HostFault(e.gen) IN latest' = IF Accepts(fault) THEN fault ELSE latest
  /\ ops' = Invalidated(ops, DOMAIN ops)
  /\ events' = events \ {e}
  /\ UNCHANGED <<issued, page, updating, answers, core>>

-----------------------------------------------------------------------------
(* The core and the host, as the UI sees them                                *)

Unanswered == (1 .. issued) \ DOMAIN answers

Verdict(ok, phase, lost, snapshot) ==
  [ok |-> ok, phase |-> phase, lost |-> lost, snapshot |-> snapshot, outcome |-> "none"]

\* A change of the core comes with a revision, and may be announced.
CoreMoves ==
  /\ core.up
  /\ \/ core.rev < MaxRevision /\ core' = [core EXCEPT !.rev = @ + 1]
     \/ core.session < MaxSession /\ core.rev < MaxRevision
        /\ core' = [core EXCEPT !.rev = @ + 1, !.session = @ + 1]
  /\ events' \in IF Cardinality(events) < MaxEvents THEN {events, events \cup {core'}} ELSE {events}
  /\ UNCHANGED <<store, updating, answers>>

\* The result; a refusal, or a failure of which the core does not know what it
\* left behind; or an answer without a snapshot, such as a cancellation, or a
\* status whose snapshot is inconsistent (statusSnapshot).
CoreAnswers(i) ==
  /\ core.up /\ i \in Unanswered
  /\ \E verdict \in {Verdict(TRUE, "completed", FALSE, core), Verdict(FALSE, "failed", FALSE, core),
                      Verdict(FALSE, "cancelled", FALSE, NoSnapshot),
                      Verdict(FALSE, "unknown", TRUE, core)} :
       answers' = [j \in DOMAIN answers \cup {i} |-> IF j = i THEN verdict ELSE answers[j]]
  /\ UNCHANGED <<store, updating, events, core>>

\* PROCESS_EXITED: the host answers for a core that has ended, and knows of no
\* command that may change the device what became of it.
CoreExits ==
  /\ core.up
  /\ core' = [core EXCEPT !.up = FALSE]
  /\ events' = events \cup {core'}
  /\ answers' = [j \in DOMAIN answers \cup Unanswered |->
                   IF j \in DOMAIN answers THEN answers[j]
                   ELSE Verdict(FALSE, IF j \in DOMAIN ops /\ ops[j].method \in Mutating
                                       THEN "unknown" ELSE "failed", FALSE, NoSnapshot)]
  /\ UNCHANGED <<store, updating>>

HostRefuses(i) ==
  /\ ~core.up /\ i \in Unanswered
  /\ answers' = [j \in DOMAIN answers \cup {i} |->
                   IF j = i THEN Verdict(FALSE, "failed", FALSE, NoSnapshot) ELSE answers[j]]
  /\ UNCHANGED <<store, updating, events, core>>

CoreReplaced ==
  /\ ~core.up /\ core.gen < MaxGeneration
  /\ core' = [gen |-> core.gen + 1, session |-> 0, rev |-> 0, up |-> TRUE]
  /\ UNCHANGED <<store, updating, answers, events>>

-----------------------------------------------------------------------------

RequestsInit ==
  /\ ops = << >> /\ answers = << >> /\ events = {}
  /\ issued = 0 /\ page = 0 /\ updating = FALSE
  /\ latest = NoSnapshot
  /\ core = [gen |-> 1, session |-> 0, rev |-> 0, up |-> TRUE]

\* What happens to the requests once they are sent, and around them.
RequestSteps ==
  \/ \E i \in Ids : Resolve(i) \/ Reject(i) \/ CoreAnswers(i) \/ HostRefuses(i)
  \/ \E e \in events : SnapshotEvent(e) \/ ExitEvent(e)
  \/ CoreMoves \/ CoreExits \/ CoreReplaced

-----------------------------------------------------------------------------

RequestsTypeOK ==
  /\ DOMAIN ops \subseteq Ids /\ \A i \in DOMAIN ops : ops[i] \in Operations
  /\ DOMAIN answers \subseteq Ids /\ \A i \in DOMAIN answers : answers[i] \in Answers
  /\ issued \in 0 .. MaxOps /\ page \in Nat /\ updating \in BOOLEAN
  /\ latest \in Snapshots \cup {NoSnapshot}
  /\ core \in Snapshots /\ events \subseteq Snapshots

\* However answers and events overtake one another, the snapshot that the UI
\* shows is never replaced by an older one.
ClockNeverBack == [][latest # NoSnapshot => latest' # NoSnapshot /\ ~Before(latest', latest)]_latest

\* A caller gets the result of its request only on the page that sent it, and
\* while the core and the session it was sent to are still those shown.
ReturnsInContext ==
  [][\A i \in DOMAIN ops :
       i \in DOMAIN answers /\ answers[i].outcome = "none" /\ answers'[i].outcome = "returned" =>
         /\ ops[i].page = page
         /\ ops[i].context # NoSnapshot =>
              /\ latest.gen = ops[i].context.gen
              /\ ops[i].method \in Connecting \/ latest.session = ops[i].context.session]_requestVars

\* A command that changes the device is shown as completed or as failed only
\* by its own answer; whatever else ends it leaves it "unknown".
NoFalseVerdict ==
  [][\A i \in DOMAIN ops \cap DOMAIN ops' :
       Active(ops[i]) =>
         /\ ops'[i].phase = "completed" => answers'[i].outcome = "returned"
         /\ ops'[i].phase = "failed" /\ ops[i].method \in Mutating =>
              Awaits(i) /\ answers[i].phase = "failed" /\ answers'[i].outcome = "thrown"]_requestVars
=============================================================================
