-------------------------- MODULE MasterStateProofs --------------------------
(***************************************************************************)
(* What holds of MasterStateMachine for every set of buses, adapters, modes*)
(* and messages and every bound.  The argument: TypeOK and PhaseConsistent *)
(* together are inductive (a read keeps the phase only because the phase   *)
(* already agrees with the slave list), and the three action properties    *)
(* follow from one step of each method under that invariant.               *)
(***************************************************************************)
EXTENDS MasterState, TLAPS

IInv == TypeOK /\ PhaseConsistent

\* Marking a list unread keeps its type, its topology and whether it is empty.
LEMMA UnreadType ==
  ASSUME NEW v \in Views
  PROVE  /\ Unread(v) \in Views
         /\ Unread(v).topo = v.topo
         /\ Unread(v) = NoSlaves <=> v = NoSlaves
<1>1. CASE v = NoSlaves
  BY <1>1 DEF Unread, Views
<1>2. CASE v # NoSlaves
  <2>1. v \in SlaveLists
    BY <1>2 DEF Views
  <2>2. Unread(v) = [v EXCEPT !.err = TRUE]
    BY <1>2 DEF Unread
  <2>3. Unread(v) \in SlaveLists /\ Unread(v).topo = v.topo
    BY <2>1, <2>2 DEF SlaveLists
  <2>4. Unread(v) # NoSlaves
    BY <2>3, TopologyAssumption DEF SlaveLists, NoSlaves
  <2> QED
    BY <1>2, <2>3, <2>4 DEF Views
<1> QED
  BY <1>1, <1>2

\* A list is empty exactly when its topology is the empty one.
LEMMA EmptyTopology ==
  ASSUME NEW v \in Views
  PROVE  v = NoSlaves <=> v.topo = NoTopology
BY TopologyAssumption DEF Views, SlaveLists, NoSlaves

\* Every update of _replace that is given a consistent phase keeps the state
\* consistent, numbers a change and moves the session by at most one.
LEMMA ReplaceStep ==
  ASSUME IInv,
         NEW p \in Phases, NEW a \in Adapters \cup {NoAdapter},
         NEW s \in Views, NEW e \in Errors \cup {NoError},
         NEW advance \in BOOLEAN,
         Replace(p, a, s, e, advance),
         mode' \in Modes,
         mode' = mode \/ advance,
         a = NoAdapter <=> p \in {"disconnected", "faulted"},
         s # NoSlaves <=> p \in {"bus_scanned", "pdo_configured", "cyclic"}
  PROVE  /\ IInv'
         /\ [Clock!Publish]_(Clock!vars)
<1>1. TypeOK'
  BY DEF IInv, TypeOK, Replace
<1>2. PhaseConsistent'
  BY DEF PhaseConsistent, Replace
<1>3. session \in Nat /\ revision \in Nat
  BY DEF IInv, TypeOK
<1>4. [Clock!Publish]_(Clock!vars)
  <2>1. CASE ~advance /\ <<p, a, s, e>> = <<phase, adapter, slaves, lastError>>
    BY <2>1 DEF Replace, Clock!vars
  <2>2. CASE ~(~advance /\ <<p, a, s, e>> = <<phase, adapter, slaves, lastError>>)
    BY <2>2, <1>3 DEF Replace, Clock!Publish
  <2> QED
    BY <2>1, <2>2
<1> QED
  BY <1>1, <1>2, <1>4 DEF IInv

-----------------------------------------------------------------------------
\* What one step keeps and never does.
StepTopology == session' = session => slaves'.topo = slaves.topo

StepFaulted ==
  phase = "faulted" /\ phase' # "faulted" =>
    phase' = "disconnected" /\ session' = session + 1

Good == IInv' /\ [Clock!Publish]_(Clock!vars) /\ StepTopology /\ StepFaulted

\* An update that advances the session, or keeps the topology, of a Master that
\* is not faulted, stays faulted or is restarted, is a good step.
LEMMA GoodReplace ==
  ASSUME IInv,
         NEW p \in Phases, NEW a \in Adapters \cup {NoAdapter},
         NEW s \in Views, NEW e \in Errors \cup {NoError},
         NEW advance \in BOOLEAN,
         Replace(p, a, s, e, advance),
         mode' \in Modes,
         mode' = mode \/ advance,
         a = NoAdapter <=> p \in {"disconnected", "faulted"},
         s # NoSlaves <=> p \in {"bus_scanned", "pdo_configured", "cyclic"},
         advance \/ s.topo = slaves.topo,
         phase = "faulted" => p = "faulted" \/ (p = "disconnected" /\ advance)
  PROVE  Good
<1>1. IInv' /\ [Clock!Publish]_(Clock!vars)
  BY ReplaceStep
<1>2. session \in Nat
  BY DEF IInv, TypeOK
<1>3. StepTopology
  BY <1>2 DEF StepTopology, Replace
<1>4. StepFaulted
  BY DEF StepFaulted, Replace
<1> QED
  BY <1>1, <1>3, <1>4 DEF Good

LEMMA ConnectionStep ==
  ASSUME IInv, Connection
  PROVE  Good
<1> USE MasterAssumption DEF IInv, TypeOK, PhaseConsistent, Phases
<1>0. NoSlaves \in Views
  BY DEF Views
<1>1. ASSUME NEW m \in Modes, SwitchMode(m)
      PROVE  Good
  BY <1>0, <1>1, GoodReplace DEF SwitchMode
<1>2. ASSUME NEW a \in Adapters, ConnectSucceeded(a)
      PROVE  Good
  BY <1>0, <1>2, GoodReplace DEF ConnectSucceeded
<1>3. ASSUME NEW e \in Errors, ConnectFailed(e)
      PROVE  Good
  BY <1>0, <1>3, GoodReplace DEF ConnectFailed, CanConnectFail
<1>4. ASSUME NEW e \in Errors, Faulted(e)
      PROVE  Good
  <2>1. (phase # "faulted") \/ NoSlaves.topo = slaves.topo
    OBVIOUS
  <2> QED
    BY <1>0, <1>4, <2>1, GoodReplace DEF Faulted
<1>5. ASSUME NEW e \in Errors \cup {NoError}, DisconnectCompleted(e)
      PROVE  Good
  BY <1>0, <1>5, GoodReplace DEF DisconnectCompleted, CanDisconnect
<1>6. ASSUME NEW a \in Adapters, NEW s \in Views, AutoScanCompleted(a, s)
      PROVE  Good
  BY <1>0, <1>6, GoodReplace DEF AutoScanCompleted, CanConnectFail
<1> QED
  BY <1>1, <1>2, <1>3, <1>4, <1>5, <1>6 DEF Connection

LEMMA DiscoveryStep ==
  ASSUME IInv, Discovery
  PROVE  Good
<1> USE MasterAssumption DEF IInv, TypeOK, PhaseConsistent, Phases, Scanned, CanScan
<1>0. NoSlaves \in Views
  BY DEF Views
<1>1. ASSUME NEW s \in Views, ScanSucceeded(s)
      PROVE  Good
  BY <1>1, GoodReplace DEF ScanSucceeded
<1>2. ASSUME NEW e \in Errors, ScanFailed(e)
      PROVE  Good
  BY <1>0, <1>2, GoodReplace DEF ScanFailed
<1>3. ASSUME NEW s \in Views, NEW e \in Errors \cup {NoError}, TopologyChanged(s, e)
      PROVE  Good
  BY <1>3, GoodReplace DEF TopologyChanged
<1> QED
  BY <1>1, <1>2, <1>3 DEF Discovery

LEMMA ReadsStep ==
  ASSUME IInv, Reads
  PROVE  Good
<1> USE MasterAssumption DEF IInv, TypeOK, PhaseConsistent, Phases
<1>1. ASSUME NEW x, NEW s \in Views, NEW p \in BOOLEAN, StatesUpdated(s, x, p)
      PROVE  Good
  <2> DEFINE e == IF p THEN lastError ELSE NoError
             next == PhaseAfterRead(s)
             moved == s.topo # slaves.topo
  <2>1. e \in Errors \cup {NoError}
    OBVIOUS
  <2>2. connected /\ (phase = "cyclic" => s.topo = slaves.topo)
    BY <1>1 DEF StatesUpdated, CanUpdateStates
  <2>3. phase = "cyclic" => s # NoSlaves
    BY <2>2, EmptyTopology
  <2>4. /\ next \in {"adapter_open", "bus_scanned", "pdo_configured", "cyclic"}
        /\ s # NoSlaves <=> next \in {"bus_scanned", "pdo_configured", "cyclic"}
    BY <2>2, <2>3 DEF PhaseAfterRead, connected
  <2>5. adapter # NoAdapter /\ phase # "faulted"
    BY <2>2 DEF connected
  <2>6. Replace(next, adapter, s, e, moved) /\ mode' = mode
    BY <1>1 DEF StatesUpdated
  <2>7. moved \in BOOLEAN /\ (moved \/ s.topo = slaves.topo)
    OBVIOUS
  <2> HIDE DEF e, next, moved
  <2> QED
    BY <2>1, <2>4, <2>5, <2>6, <2>7, GoodReplace
<1>2. ASSUME NEW x, NEW e \in Errors, StateReadFailed(e, x)
      PROVE  Good
  <2>1. phase # "faulted" /\ Replace(phase, adapter, Unread(slaves), e, FALSE) /\ mode' = mode
    BY <1>2 DEF StateReadFailed, CanFailRead
  <2> QED
    BY <2>1, UnreadType, GoodReplace
<1> QED
  BY <1>1, <1>2 DEF Reads

LEMMA CyclingStep ==
  ASSUME IInv, Cycling
  PROVE  Good
<1> USE MasterAssumption DEF IInv, TypeOK, PhaseConsistent, Phases, CanCycle
<1> SUFFICES ASSUME NEW x, NEW s \in Views, s.topo = slaves.topo,
                    \/ PdoConfigured(s, x)
                    \/ CycleStarted(s, x)
                    \/ CycleStopped(s, x)
                    \/ \E e \in Errors : CycleFaulted(e, s, x)
             PROVE  Good
  BY DEF Cycling
<1>1. CASE PdoConfigured(s, x)
  BY <1>1, GoodReplace DEF PdoConfigured
<1>2. CASE CycleStarted(s, x)
  BY <1>2, GoodReplace DEF CycleStarted
<1>3. CASE CycleStopped(s, x)
  BY <1>3, GoodReplace DEF CycleStopped, Scanned
<1>4. ASSUME NEW e \in Errors, CycleFaulted(e, s, x)
      PROVE  Good
  BY <1>4, GoodReplace DEF CycleFaulted, Scanned
<1> QED
  BY <1>1, <1>2, <1>3, <1>4

\* The invariant is inductive, and every step is a good one or a stutter.
LEMMA CallStep ==
  ASSUME IInv, [Call]_vars
  PROVE  Good
<1>1. CASE Call
  BY <1>1, ConnectionStep, DiscoveryStep, ReadsStep, CyclingStep DEF Call
<1>2. CASE UNCHANGED vars
  BY <1>2 DEF vars, Good, IInv, TypeOK, PhaseConsistent, Clock!vars, StepTopology,
              StepFaulted
<1> QED
  BY <1>1, <1>2

LEMMA InitInv == Init => IInv
BY MasterAssumption DEF Init, IInv, TypeOK, PhaseConsistent, Phases, Views

LEMMA UsesInductive == Uses => []IInv
<1>1. IInv /\ [Call]_vars => IInv'
  BY CallStep DEF Good
<1> QED
  BY InitInv, <1>1, PTL DEF Uses

-----------------------------------------------------------------------------
(* Every use of the object, of whatever length                                *)

\* Whoever uses MasterStateMachine by its methods finds it well typed and never
\* reaches the assertion in _assert_invariants.
LEMMA UsesKeepInvariants == Uses => [](TypeOK /\ PhaseConsistent)
<1>1. IInv => TypeOK /\ PhaseConsistent
  BY DEF IInv
<1> QED
  BY UsesInductive, <1>1, PTL

\* In every use a session is about one topology.
LEMMA UsesPinTopology == Uses => SessionPinsTopology
<1>1. IInv /\ [Call]_vars => [StepTopology]_vars
  BY CallStep DEF Good
<1> QED
  BY UsesInductive, <1>1, PTL DEF Uses, SessionPinsTopology, StepTopology

\* In every use a faulted Master is only left by switch_mode, under a new session.
LEMMA UsesKeepFault == Uses => FaultedIsFinal
<1>1. IInv /\ [Call]_vars => [StepFaulted]_vars
  BY CallStep DEF Good
<1> QED
  BY UsesInductive, <1>1, PTL DEF Uses, FaultedIsFinal, StepFaulted

\* In every use a snapshot is named by its session and revision.
LEMMA UsesImplementClock == Uses => ImplementsClock
<1>1. Init => Clock!Init
  BY DEF Init, Clock!Init
<1>2. IInv /\ [Call]_vars => [Clock!Publish]_(Clock!vars)
  BY CallStep DEF Good
<1> QED
  BY UsesInductive, <1>1, <1>2, PTL DEF Uses, ImplementsClock, Clock!Spec

-----------------------------------------------------------------------------
(* The specification that TLC explores                                        *)

\* What TLC explores is a use of the object.
LEMMA SpecUses == Spec => Uses
<1>1. [Next]_vars => [Call]_vars
  BY DEF Next
<1> QED
  BY <1>1, PTL DEF Spec, Uses

\* Every reachable state of MasterStateMachine is well typed.
THEOREM TypeCorrect == Spec => []TypeOK
BY SpecUses, UsesKeepInvariants, PTL

\* No method of MasterStateMachine reaches the assertion in _assert_invariants:
\* an adapter is open, and slaves are known, exactly in the phases that say so.
THEOREM PhaseIsConsistent == Spec => []PhaseConsistent
BY SpecUses, UsesKeepInvariants, PTL

\* A session is about one topology, provided its callers pass lists of that bus.
THEOREM TopologyPinned == Spec => SessionPinsTopology
BY SpecUses, UsesPinTopology

\* A faulted Master is only left by switch_mode, under a new session.
THEOREM FaultLeftBySwitchOnly == Spec => FaultedIsFinal
BY SpecUses, UsesKeepFault

\* MasterStateMachine implements the clock its snapshots are ordered by.
THEOREM SnapshotsAreNamed == Spec => ImplementsClock
BY SpecUses, UsesImplementClock
=============================================================================
