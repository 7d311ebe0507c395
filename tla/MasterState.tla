----------------------------- MODULE MasterState -----------------------------
(***************************************************************************)
(* MasterStateMachine (src/ethercat_debug_tool/master_state.py): the       *)
(* authoritative logical state of the one Master generation.  Every method *)
(* runs under the object's lock, so each is one action here.  A method     *)
(* that raises (wrong phase, expired session) leaves the state alone: its  *)
(* guard is the negation of its raises.  Callers that must know whether a  *)
(* method raises use the Can... predicates.                                *)
(*                                                                         *)
(* _assert_invariants is not a guard of Replace: it is the invariant       *)
(* PhaseConsistent, so that the runs and the proof show that no method     *)
(* reaches that assertion, instead of taking it for granted.               *)
(***************************************************************************)
EXTENDS BusViews, Naturals

CONSTANTS Modes,       \* backend modes (models.BackendMode)
          Adapters,    \* names of network adapters, all non-empty
          NoAdapter,   \* adapter = None
          Errors,      \* error messages
          NoError,     \* last_error = None
          NoSession,   \* expected_session = None
          MaxRevision  \* bound: no method is called past this revision

ASSUME MasterAssumption ==
  /\ NoAdapter \notin Adapters
  /\ NoError \notin Errors
  /\ NoSession \notin Nat
  /\ MaxRevision \in Nat

VARIABLES mode, phase, adapter, slaves, session, revision, lastError

vars == <<mode, phase, adapter, slaves, session, revision, lastError>>

Phases == {"disconnected", "adapter_open", "bus_scanned", "pdo_configured",
           "cyclic", "faulted"}

connected == phase \in {"adapter_open", "bus_scanned", "pdo_configured", "cyclic"}
cycleRunning == phase = "cyclic"

Init ==
  /\ mode \in Modes
  /\ phase = "disconnected"
  /\ adapter = NoAdapter
  /\ slaves = NoSlaves
  /\ session = 0
  /\ revision = 0
  /\ lastError = NoError

-----------------------------------------------------------------------------
\* Mutant of Replace: the comparison forgets the slave list and the error.
ReplaceComparingPhase(p, a, s, e, advance) ==
  /\ phase' = p /\ adapter' = a /\ slaves' = s /\ lastError' = e
  /\ session' = IF advance THEN session + 1 ELSE session
  /\ revision' = IF ~advance /\ <<p, a>> = <<phase, adapter>> THEN revision ELSE revision + 1

\* _replace: a call that changes nothing and advances nothing is no update.
Replace(p, a, s, e, advance) ==
  /\ phase' = p /\ adapter' = a /\ slaves' = s /\ lastError' = e
  /\ session' = IF advance THEN session + 1 ELSE session
  /\ revision' = IF ~advance /\ <<p, a, s, e>> = <<phase, adapter, slaves, lastError>>
                 THEN revision ELSE revision + 1

\* The phase a bus list puts an open Master in.
Scanned(s) == IF s = NoSlaves THEN "adapter_open" ELSE "bus_scanned"

\* _require_session
SessionHolds(expected) == expected \in {NoSession, session}

-----------------------------------------------------------------------------
(* Connection                                                              *)

SwitchMode(m) ==
  /\ phase \in {"disconnected", "faulted"}
  /\ mode' = m
  /\ Replace("disconnected", NoAdapter, NoSlaves, NoError, TRUE)

ConnectSucceeded(a) ==
  /\ phase = "disconnected"
  /\ Replace("adapter_open", a, NoSlaves, NoError, TRUE)
  /\ UNCHANGED mode

\* Mutant of CanConnectFail: a faulted Master may report a failed connection.
CanConnectFailFaulted == phase # "cyclic"

CanConnectFail == phase \in Phases \ {"cyclic", "faulted"}

ConnectFailed(e) ==
  /\ CanConnectFail
  /\ Replace("disconnected", NoAdapter, NoSlaves, e, TRUE)
  /\ UNCHANGED mode

CanDisconnect == phase # "faulted"

DisconnectCompleted(e) ==
  /\ CanDisconnect
  /\ Replace("disconnected", NoAdapter, NoSlaves, e, TRUE)
  /\ UNCHANGED mode

AutoScanCompleted(a, s) ==
  /\ CanConnectFail
  /\ s # NoSlaves => a # NoAdapter
  /\ IF s = NoSlaves
     THEN Replace("disconnected", NoAdapter, NoSlaves, NoError, TRUE)
     ELSE Replace("bus_scanned", a, s, NoError, TRUE)
  /\ UNCHANGED mode

-----------------------------------------------------------------------------
(* Bus discovery                                                           *)

CanScan == phase \in {"adapter_open", "bus_scanned", "pdo_configured"}

ScanSucceeded(s) ==
  /\ CanScan
  /\ Replace(Scanned(s), adapter, s, NoError, TRUE)
  /\ UNCHANGED mode

ScanFailed(e) ==
  /\ CanScan
  /\ Replace("adapter_open", adapter, NoSlaves, e, TRUE)
  /\ UNCHANGED mode

\* topology_changed: a device reset or a reconfiguration invalidates the bus.
TopologyChanged(s, e) ==
  /\ CanScan
  /\ Replace(Scanned(s), adapter, s, e, TRUE)
  /\ UNCHANGED mode

-----------------------------------------------------------------------------
(* State reads                                                             *)

\* A cyclic Master must not lose or change its slaves by a mere read.
CanUpdateStates(s, expected) ==
  /\ SessionHolds(expected)
  /\ connected
  /\ phase = "cyclic" => s.topo = slaves.topo

\* Mutant of PhaseAfterRead: the empty list is not told apart.
PhaseAfterReadIgnoringEmpty(s) ==
  IF phase = "adapter_open" \/ (phase = "pdo_configured" /\ s.al = "low")
  THEN "bus_scanned" ELSE phase

PhaseAfterRead(s) ==
  CASE s = NoSlaves -> "adapter_open"
    [] s # NoSlaves /\ phase \in {"adapter_open", "bus_scanned"} -> "bus_scanned"
    [] s # NoSlaves /\ phase = "pdo_configured" /\ s.al = "low" -> "bus_scanned"
    [] OTHER -> phase

\* Mutant of StatesUpdated: a new topology stays in the session.
StatesUpdatedSameSession(s, expected, preserveError) ==
  /\ CanUpdateStates(s, expected)
  /\ Replace(PhaseAfterRead(s), adapter, s,
             IF preserveError THEN lastError ELSE NoError, FALSE)
  /\ UNCHANGED mode

StatesUpdated(s, expected, preserveError) ==
  /\ CanUpdateStates(s, expected)
  /\ Replace(PhaseAfterRead(s), adapter, s,
             IF preserveError THEN lastError ELSE NoError,
             s.topo # slaves.topo)
  /\ UNCHANGED mode

\* state_read_failed returns at once when the Master is faulted.
CanFailRead(expected) == SessionHolds(expected) /\ phase # "faulted"

StateReadFailed(e, expected) ==
  /\ CanFailRead(expected)
  /\ Replace(phase, adapter, Unread(slaves), e, FALSE)
  /\ UNCHANGED mode

-----------------------------------------------------------------------------
(* Process data and the cycle                                              *)

PdoConfigured(s, expected) ==
  /\ SessionHolds(expected)
  /\ phase \in {"bus_scanned", "pdo_configured"}
  /\ s # NoSlaves
  /\ Replace("pdo_configured", adapter, s, NoError, FALSE)
  /\ UNCHANGED mode

CanCycle(expected) ==
  SessionHolds(expected) /\ phase \in {"bus_scanned", "pdo_configured", "cyclic"}

CycleStarted(s, expected) ==
  /\ CanCycle(expected)
  /\ s # NoSlaves
  /\ Replace("cyclic", adapter, s, NoError, FALSE)
  /\ UNCHANGED mode

CycleStopped(s, expected) ==
  /\ CanCycle(expected)
  /\ Replace(Scanned(s), adapter, s, NoError, FALSE)
  /\ UNCHANGED mode

CycleFaulted(e, s, expected) ==
  /\ CanCycle(expected)
  /\ Replace(Scanned(s), adapter, s, e, FALSE)
  /\ UNCHANGED mode

Faulted(e) ==
  /\ Replace("faulted", NoAdapter, NoSlaves, e, phase # "faulted")
  /\ UNCHANGED mode

-----------------------------------------------------------------------------
Sessions == Nat \cup {NoSession}

Connection ==
  \/ \E m \in Modes : SwitchMode(m)
  \/ \E a \in Adapters : ConnectSucceeded(a)
  \/ \E e \in Errors : ConnectFailed(e) \/ Faulted(e)
  \/ \E e \in Errors \cup {NoError} : DisconnectCompleted(e)
  \/ \E a \in Adapters, s \in Views : AutoScanCompleted(a, s)

Discovery ==
  \/ \E s \in Views : ScanSucceeded(s)
  \/ \E e \in Errors : ScanFailed(e)
  \/ \E s \in Views, e \in Errors \cup {NoError} : TopologyChanged(s, e)

\* Every caller passes no session or one it read earlier.
Reads ==
  \E x \in {NoSession} \cup 0 .. session :
    \/ \E s \in Views, p \in BOOLEAN : StatesUpdated(s, x, p)
    \/ \E e \in Errors : StateReadFailed(e, x)

\* The command lane passes lists of the bus its session is about: the backend
\* keeps one topology between two scans.  BridgeProofs shows that this is so.
Cycling ==
  \E x \in {NoSession} \cup 0 .. session, s \in {v \in Views : v.topo = slaves.topo} :
    \/ PdoConfigured(s, x)
    \/ CycleStarted(s, x)
    \/ CycleStopped(s, x)
    \/ \E e \in Errors : CycleFaulted(e, s, x)

\* A call of some method.
Call == Connection \/ Discovery \/ Reads \/ Cycling

\* Any use of the object, however long: what a component that composes it owes.
Uses == Init /\ [][Call]_vars

\* The uses that TLC explores.
Next == revision < MaxRevision /\ Call

Spec == Init /\ [][Next]_vars

-----------------------------------------------------------------------------
(* What is checked and proved                                              *)

\* The fields keep their types.
TypeOK ==
  /\ mode \in Modes
  /\ phase \in Phases
  /\ adapter \in Adapters \cup {NoAdapter}
  /\ slaves \in Views
  /\ session \in Nat
  /\ revision \in Nat
  /\ lastError \in Errors \cup {NoError}

\* No method reaches the assertion of _assert_invariants: the phase says
\* exactly whether an adapter is open and whether slaves are known.
PhaseConsistent ==
  /\ adapter = NoAdapter <=> phase \in {"disconnected", "faulted"}
  /\ slaves # NoSlaves <=> phase \in {"bus_scanned", "pdo_configured", "cyclic"}

\* Everything keyed by a session (write plans, capability caches, programming
\* targets) is keyed by a bus: while the session stays, so does the topology.
SessionPinsTopology ==
  [][session' = session => slaves'.topo = slaves.topo]_vars

\* A faulted generation is left by switch_mode only, under a new session, so
\* no late result of the faulted worker can revive it.
FaultedIsFinal ==
  [][phase = "faulted" /\ phase' # "faulted" =>
       phase' = "disconnected" /\ session' = session + 1]_vars

\* A snapshot is named by its session and revision: the clock the user
\* interface orders snapshots by.
Clock == INSTANCE SnapshotClock WITH content <- <<mode, phase, adapter, slaves, lastError>>
ImplementsClock == Clock!Spec
=============================================================================
