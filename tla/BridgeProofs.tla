----------------------------- MODULE BridgeProofs -----------------------------
(* Proofs about the bridge: for every number of hardware threads, commands,   *)
(* probes and buses, and whatever the worker, its device and the timeouts do. *)
(*                                                                            *)
(* The proofs go through three invariants, each resting on the one before:    *)
(*   Inv     who may be doing what, and one programming command at a time;    *)
(*   Types   Inv, the command lock, the types of the Master, and the worker's *)
(*           own invariants (WorkerProofs, instantiated);                     *)
(*   Sound   Types, and what the callers, the tasks, the events and the       *)
(*           adapter have to do with each other, whatever may fail;           *)
(* and on top of Sound, OneBus (lists, answers and events are of one bus),    *)
(* FaultFlow (a worker that was given up, and the fault that is shown) and    *)
(* TargetsHold (the session of an image that is about to be programmed).      *)
(* NextStepped reduces every step of the bridge to one of a few shapes        *)
(* (Moved, Polls, HandlesEvent, Works, Still) that keep of it what these      *)
(* invariants tell apart.                                                     *)
(*                                                                            *)
(* The last two sections are about the two components inside the bridge: it   *)
(* uses the Master by its methods only, so that what MasterStateProofs says   *)
(* of the methods is true of the running bridge (MP, the proofs               *)
(* instantiated); and its workers keep what WorkerProofs says of one worker   *)
(* (WP).                                                                      *)
EXTENDS Bridge, TLAPS

-----------------------------------------------------------------------------
(* The invariant                                                              *)

Outside == {"start", "drain", "dying", "dead"}

\* Outside its loop the worker has no adapter.
AdapterReleased == wpc \in Outside => ~conn

IsCall(r) == r = [method |-> r.method, stage |-> r.stage, step |-> r.step, arg |-> r.arg,
                  session |-> r.session, view |-> r.view]

\* The stages that belong to some commands only.
StageFits(method, stage) ==
  /\ stage = "idle" => method = "none"
  /\ stage = "unreserve" => method \in Programs
  /\ stage \in {"replace", "join"} => method \in {"switch_mode", "shutdown"}
  /\ stage = "switch" => method = "switch_mode"

Fits(r) == IsCall(r) /\ StageFits(r.method, r.stage)

\* What the three kinds of caller may be doing.
CallersTyped ==
  /\ call = [c \in Callers |-> call[c]]
  /\ \A c \in Callers : Fits(call[c])
  /\ call[Control].method \in {"none", "shutdown"}
  /\ call[IdleMonitor].method \in {"none", "probe"}

Inv == AdapterReleased /\ CallersTyped /\ exclusive \in BOOLEAN /\ OneProgrammer

-----------------------------------------------------------------------------
(* The worker                                                                 *)

\* A step of the worker's thread never creates a worker, and leaves the loop
\* without an adapter.
LEMMA LoopReleases ==
  ASSUME AdapterReleased, W!Loop
  PROVE  /\ AdapterReleased'
         /\ wpc' # "start"
<1>1. CASE W!StartOk \/ W!StartFail \/ W!Drain \/ W!Die
  BY <1>1 DEF AdapterReleased, Outside, W!StartOk, W!StartFail, W!Drain, W!Die, W!busVars
<1>2. CASE W!Poll \/ W!PollControl \/ W!Reput \/ W!Due \/ W!Take
  BY <1>2 DEF AdapterReleased, Outside, W!Poll, W!PollControl, W!Begin, W!Reput, W!Due, W!Take
<1>3. CASE W!Finish
  <2>1. \A o, v : W!Answer(o, v) => wpc' = "poll"
    BY DEF W!Answer
  <2>2. \A o, v : W!BackendEnds(o, v) => wpc' = "poll"
    BY <2>1 DEF W!BackendEnds
  <2>3. W!CycleStarts \/ W!CycleFailsToStart \/ W!CycleStops \/ W!CycleFailsToStop => wpc' = "poll"
    BY <2>1 DEF W!CycleStarts, W!CycleFailsToStart, W!CycleStops, W!CycleFailsToStop
  <2>4. W!Fails \/ W!Accesses => wpc' = "poll"
    BY <2>2 DEF W!Fails, W!Accesses
  <2>5. W!Connects \/ W!Disconnects \/ W!Scans \/ W!AutoScans => wpc' = "poll"
    BY <2>2, <2>4 DEF W!Connects, W!Disconnects, W!Scans, W!AutoScans
  <2>6. W!ReadsStates \/ W!Probes \/ W!RequestsState \/ W!ProgramsEeprom => wpc' = "poll"
    BY <2>2, <2>4 DEF W!ReadsStates, W!Probes, W!RequestsState, W!ProgramsEeprom
  <2>7. wpc' = "poll"
    BY <1>3, <2>2, <2>3, <2>4, <2>5, <2>6 DEF W!Finish
  <2>. QED BY <2>7 DEF AdapterReleased, Outside
<1>4. CASE W!Exchange
  BY <1>4 DEF AdapterReleased, Outside, W!Exchange
<1>5. CASE W!Exit
  <2>1. ~conn' /\ wpc' = "dead"
    BY <1>5, Zenon DEF W!Exit
  <2>. QED BY <2>1 DEF AdapterReleased
<1>. QED BY <1>1, <1>2, <1>3, <1>4, <1>5 DEF W!Loop

\* What the other threads do to the worker leaves its place and its adapter alone.
WorkerStays == UNCHANGED <<wpc, conn>>

LEMMA ClientsAreQuiet ==
  ASSUME NEW c, NEW op, NEW a, NEW s,
         W!Submit(c, op, a, s) \/ W!Cancel(c) \/ W!Collect(c) \/ W!MarkStalled
           \/ W!Shutdown \/ W!PollEvents \/ UNCHANGED workerVars
  PROVE  WorkerStays
BY DEF WorkerStays, workerVars, W!Submit, W!Cancel, W!Collect, W!MarkStalled, W!Shutdown,
       W!PollEvents, W!loopVars, W!busVars

-----------------------------------------------------------------------------
(* The callers                                                                *)

\* What the constants say of the callers.
LEMMA CallersDiffer ==
  /\ Control \in Callers /\ IdleMonitor \in Callers /\ Hardware \subseteq Callers
  /\ Control # IdleMonitor /\ Control \notin Hardware /\ IdleMonitor \notin Hardware
  /\ \A c \in Callers : c \in Hardware \/ c = Control \/ c = IdleMonitor
BY BridgeAssumption DEF Callers

\* What a caller may be doing.
MayRun(c, method) ==
  /\ c = Control => method \in {"none", "shutdown"}
  /\ c = IdleMonitor => method \in {"none", "probe"}

\* One caller goes on with its command, or begins or ends one that holds no
\* exclusivity.
Moves(c) ==
  \E n : /\ Fits(n) /\ call' = [call EXCEPT ![c] = n]
         /\ \/ n.method = call[c].method
            \/ n.method \notin Programs /\ call[c].method \notin Programs /\ MayRun(c, n.method)

\* A caller that goes on keeps the invariant.
LEMMA MovesKeepInv ==
  ASSUME Inv, NEW c \in Callers, Moves(c), UNCHANGED exclusive, AdapterReleased'
  PROVE  Inv'
<1>1. PICK n : /\ Fits(n) /\ call' = [call EXCEPT ![c] = n]
               /\ \/ n.method = call[c].method
                  \/ n.method \notin Programs /\ call[c].method \notin Programs /\ MayRun(c, n.method)
  BY DEF Moves
<1>2. call' = [d \in Callers |-> call'[d]] /\ call'[c] = n /\ \A d \in Callers : d # c => call'[d] = call[d]
  BY <1>1 DEF Inv, CallersTyped
<1>3. \A d \in Callers : call'[d].method = call[d].method
        \/ (call'[d].method \notin Programs /\ call[d].method \notin Programs /\ MayRun(d, call'[d].method))
  BY <1>1, <1>2
<1>4. CallersTyped'
  BY <1>1, <1>2, <1>3, CallersDiffer DEF Inv, CallersTyped, MayRun
<1>5. \A d \in Callers : call'[d].method \in Programs <=> call[d].method \in Programs
  BY <1>3
<1>6. OneProgrammer'
  BY <1>5, CallersDiffer, Zenon DEF Inv, OneProgrammer
<1>. QED BY <1>4, <1>6 DEF Inv

\* Another stage of the same command.
LEMMA RestagedFits ==
  ASSUME NEW r, IsCall(r), NEW stage, StageFits(r.method, stage)
  PROVE  /\ Fits([r EXCEPT !.stage = stage])
         /\ [r EXCEPT !.stage = stage].method = r.method
<1>1. PICK m, s0, p0, a, ss, v :
        r = [method |-> m, stage |-> s0, step |-> p0, arg |-> a, session |-> ss, view |-> v]
  BY DEF IsCall
<1>2. [r EXCEPT !.stage = stage]
        = [method |-> m, stage |-> stage, step |-> p0, arg |-> a, session |-> ss, view |-> v]
  BY <1>1
<1>. QED BY <1>1, <1>2 DEF Fits, IsCall

\* Another submission of the same command.
LEMMA SteppedFits ==
  ASSUME NEW r, Fits(r), NEW step
  PROVE  /\ Fits([r EXCEPT !.step = step])
         /\ [r EXCEPT !.step = step].method = r.method
<1>1. PICK m, s0, p0, a, ss, v :
        r = [method |-> m, stage |-> s0, step |-> p0, arg |-> a, session |-> ss, view |-> v]
  BY DEF Fits, IsCall
<1>2. [r EXCEPT !.step = step]
        = [method |-> m, stage |-> s0, step |-> step, arg |-> a, session |-> ss, view |-> v]
  BY <1>1
<1>. QED BY <1>1, <1>2 DEF Fits, IsCall

LEMMA GotoMoves ==
  ASSUME Inv, NEW c \in Callers, NEW stage, Goto(c, stage), StageFits(call[c].method, stage)
  PROVE  Moves(c)
<1> DEFINE n == [call[c] EXCEPT !.stage = stage]
<1>1. Fits(n) /\ n.method = call[c].method
  BY RestagedFits DEF Inv, CallersTyped, Fits
<1>2. call' = [call EXCEPT ![c] = n]
  BY DEF Goto, Inv, CallersTyped
<1> HIDE DEF n
<1>. QED BY <1>1, <1>2 DEF Moves

\* Two fields of one call.
LEMMA TwoFields ==
  ASSUME call = [d \in Callers |-> call[d]], NEW c \in Callers, NEW stage, NEW step
  PROVE  [call EXCEPT ![c].stage = stage, ![c].step = step]
           = [call EXCEPT ![c] = [[call[c] EXCEPT !.stage = stage] EXCEPT !.step = step]]
<1>1. [call EXCEPT ![c].stage = stage, ![c].step = step]
        = [[call EXCEPT ![c].stage = stage] EXCEPT ![c].step = step]
  OBVIOUS
<1>2. [call EXCEPT ![c].stage = stage] = [call EXCEPT ![c] = [call[c] EXCEPT !.stage = stage]]
  OBVIOUS
<1>3. ASSUME NEW x, x = [call EXCEPT ![c] = [call[c] EXCEPT !.stage = stage]]
      PROVE  [x EXCEPT ![c].step = step]
               = [call EXCEPT ![c] = [[call[c] EXCEPT !.stage = stage] EXCEPT !.step = step]]
  <2>1. [x EXCEPT ![c].step = step] = [x EXCEPT ![c] = [x[c] EXCEPT !.step = step]]
    OBVIOUS
  <2>2. x[c] = [call[c] EXCEPT !.stage = stage]
    BY <1>3
  <2>3. ASSUME NEW y
        PROVE  [x EXCEPT ![c] = y] = [call EXCEPT ![c] = y]
    BY <1>3
  <2>. QED BY <2>1, <2>2, <2>3
<1>. QED BY <1>1, <1>2, <1>3

LEMMA StepMoves ==
  ASSUME Inv, NEW c \in Callers, NEW stage, NEW step, StageFits(call[c].method, stage),
         call' = [call EXCEPT ![c].stage = stage, ![c].step = step]
  PROVE  Moves(c)
<1> DEFINE m == [call[c] EXCEPT !.stage = stage]
           n == [m EXCEPT !.step = step]
<1>1. Fits(m) /\ m.method = call[c].method
  BY RestagedFits DEF Inv, CallersTyped, Fits
<1>2. call' = [call EXCEPT ![c] = n]
  BY TwoFields DEF Inv, CallersTyped
<1> HIDE DEF m
<1>3. Fits(n) /\ n.method = call[c].method
  BY <1>1, SteppedFits
<1> HIDE DEF n
<1>. QED BY <1>2, <1>3 DEF Moves

\* Back to idle, from a command that holds no exclusivity.
LEMMA IdleMoves ==
  ASSUME NEW c \in Callers, call[c].method \notin Programs, call' = [call EXCEPT ![c] = Idle]
  PROVE  Moves(c)
<1>1. Fits(Idle) /\ Idle.method = "none"
  BY DEF Fits, StageFits, IsCall, Idle
<1>2. "none" \notin Programs /\ MayRun(c, "none")
  BY DEF Programs, MayRun
<1>. QED BY <1>1, <1>2 DEF Moves

\* The end of a command: exclusivity is given back in a step of its own.
LEMMA EndMoves ==
  ASSUME Inv, NEW c \in Callers, End(c)
  PROVE  Moves(c)
<1>1. CASE call[c].method \in Programs
  <2> DEFINE n == [call[c] EXCEPT !.stage = "unreserve"]
  <2>0. StageFits(call[c].method, "unreserve")
    BY <1>1 DEF StageFits
  <2>1. Fits(n) /\ n.method = call[c].method
    BY <2>0, RestagedFits DEF Inv, CallersTyped, Fits
  <2>2. call' = [call EXCEPT ![c] = n]
    BY <1>1 DEF End, Inv, CallersTyped
  <2> HIDE DEF n
  <2>. QED BY <2>1, <2>2 DEF Moves
<1>2. CASE call[c].method \notin Programs
  <2>1. call' = [call EXCEPT ![c] = Idle]
    BY <1>2 DEF End
  <2>. QED BY <1>2, <2>1, IdleMoves
<1>. QED BY <1>1, <1>2

LEMMA ThenMoves ==
  ASSUME Inv, NEW c \in Callers, NEW step, Then(c, step) \/ ThenFault(c)
  PROVE  Moves(c)
<1>1. StageFits(call[c].method, "submit") /\ StageFits(call[c].method, "fault")
  BY DEF StageFits
<1>2. CASE Then(c, step)
  BY <1>1, <1>2, StepMoves DEF Then
<1>3. CASE ThenFault(c)
  BY <1>1, <1>3, StepMoves DEF ThenFault
<1>. QED BY <1>2, <1>3

\* Whatever the answer to a submission is, the command goes on or ends.
LEMMA AnswersMove ==
  ASSUME Inv, NEW c \in Callers, NEW v, Succeeds(c, v) \/ Fails(c, v)
  PROVE  Moves(c)
<1>1. End(c) => Moves(c)
  BY EndMoves
<1>2. \A step : Then(c, step) => Moves(c)
  BY ThenMoves
<1>3. ThenFault(c) => Moves(c)
  BY ThenMoves
<1>4. CASE Confirms(c, v) \/ Rechecks(c, v) \/ Connected(c, v) \/ Scanned(c, v)
  BY <1>1, <1>2, <1>4 DEF Confirms, Rechecks, Connected, Scanned
<1>5. ReconfigurationFails(c) => Moves(c)
  BY <1>1 DEF ReconfigurationFails
<1>6. CASE Reconfigured(c, v) \/ CycleAnswered(c, v)
  BY <1>1, <1>2, <1>5, <1>6 DEF Reconfigured, CycleAnswered
<1>7. CASE Accessed(c, v) \/ Probed(c, v)
  BY <1>1, <1>2, <1>7 DEF Accessed, Probed
<1>8. CASE Fails(c, v)
  BY <1>1, <1>2, <1>3, <1>5, <1>8 DEF Fails
<1>. QED BY <1>4, <1>6, <1>7, <1>8 DEF Succeeds

\* The steps of a command that leave exclusivity and the worker in its place.
LEMMA CommandKeepsInv ==
  ASSUME Inv, NEW c \in Callers,
         \/ Acquire(c) \/ Dispatch(c) \/ Submit(c) \/ TimeOut(c) \/ Continue(c)
         \/ Fault(c) \/ FaultMaster(c) \/ StopWorker(c) \/ SwitchMode(c) \/ JoinEnds(c)
  PROVE  Inv'
<1>1. UNCHANGED exclusive
  BY DEF Acquire, Dispatch, Submit, TimeOut, Continue, Fault, FaultMaster, StopWorker, SwitchMode,
         JoinEnds, lockVars
<1>2. WorkerStays
  BY ClientsAreQuiet DEF Acquire, Dispatch, Submit, TimeOut, Continue, Fault, FaultMaster,
         StopWorker, SwitchMode, JoinEnds
<1>3. AdapterReleased'
  BY <1>2 DEF Inv, AdapterReleased, WorkerStays
<1>4. \A stage \in {"ready", "submit", "await", "refused", "fault", "faulting"} :
        Goto(c, stage) => Moves(c)
  BY GotoMoves DEF StageFits
<1>5. End(c) => Moves(c)
  BY EndMoves
<1>6. Fits(call[c])
  BY DEF Inv, CallersTyped
<1>7. Moves(c)
  <2>1. CASE Acquire(c)
    BY <1>4, <2>1, IdleMoves DEF Acquire
  <2>2. CASE Dispatch(c)
    <3>1. \A step : Then(c, step) => Moves(c)
      BY ThenMoves
    <3>2. call[c].method = "switch_mode" /\ Goto(c, "replace") => Moves(c)
      BY GotoMoves DEF StageFits
    <3>. QED BY <1>5, <2>2, <3>1, <3>2 DEF Dispatch
  <2>3. CASE Submit(c)
    BY <1>4, <2>3 DEF Submit
  <2>4. CASE TimeOut(c)
    BY <1>4, <2>4 DEF TimeOut
  <2>5. CASE Continue(c)
    BY <2>5, AnswersMove DEF Continue
  <2>6. CASE Fault(c) \/ FaultMaster(c)
    BY <1>4, <2>6 DEF Fault, FaultMaster
  <2>7. CASE StopWorker(c)
    <3>1. StageFits(call[c].method, "join") /\ Goto(c, "join")
      BY <1>6, <2>7 DEF StopWorker, At, Fits, StageFits
    <3>. QED BY <3>1, GotoMoves
  <2>8. CASE SwitchMode(c)
    BY <1>5, <2>8 DEF SwitchMode
  <2>9. CASE JoinEnds(c)
    <3>1. call[c].method \in {"switch_mode", "shutdown"}
      BY <1>6, <2>9 DEF JoinEnds, At, Fits, StageFits
    <3>2. call[c].method \notin Programs
      BY <3>1 DEF Programs
    <3>. QED BY <1>5, <2>9, <3>2, IdleMoves DEF JoinEnds
  <2>. QED BY <2>1, <2>2, <2>3, <2>4, <2>5, <2>6, <2>7, <2>8, <2>9
<1>. QED BY <1>1, <1>3, <1>7, MovesKeepInv

\* A new worker has no adapter.
LEMMA ReplaceKeepsInv ==
  ASSUME Inv, NEW c \in Callers, Replace(c)
  PROVE  Inv'
<1>1. StageFits(call[c].method, "switch") /\ Goto(c, "switch") /\ UNCHANGED exclusive
  BY DEF Replace, Joined, StageFits
<1>2. AdapterReleased'
  BY Zenon DEF Replace, NewWorker, AdapterReleased
<1>. QED BY <1>1, <1>2, GotoMoves, MovesKeepInv

\* The one programming command gives exclusivity back.
LEMMA UnreserveKeepsInv ==
  ASSUME Inv, NEW c \in Callers, Unreserve(c)
  PROVE  Inv'
<1>1. call[c].method \in Programs /\ c \in Hardware
  <2>1. call[c].method \in Programs
    BY DEF Inv, CallersTyped, Unreserve, At, Fits, StageFits
  <2>. QED BY <2>1, CallersDiffer DEF Inv, CallersTyped, Programs
<1>2. call' = [call EXCEPT ![c] = Idle] /\ exclusive' = FALSE /\ UNCHANGED <<wpc, conn>>
  BY DEF Unreserve, workerVars
<1>3. /\ call' = [d \in Callers |-> call'[d]] /\ call'[c] = Idle
      /\ \A d \in Callers : d # c => call'[d] = call[d]
  BY <1>2 DEF Inv, CallersTyped
<1>4. Fits(Idle) /\ Idle.method = "none" /\ "none" \notin Programs
  BY DEF Fits, StageFits, IsCall, Idle, Programs
<1>5. CallersTyped'
  BY <1>3, <1>4, CallersDiffer DEF Inv, CallersTyped
<1>6. \A d \in Hardware : call'[d].method \notin Programs
  <2>. SUFFICES ASSUME NEW d \in Hardware, d # c
                PROVE  call'[d].method \notin Programs
    BY <1>3, <1>4
  <2>1. call'[d] = call[d]
    BY <1>3, CallersDiffer
  <2>. QED BY <1>1, <2>1 DEF Inv, OneProgrammer
<1>7. OneProgrammer'
  BY <1>2, <1>6, Zenon DEF OneProgrammer
<1>8. AdapterReleased' /\ exclusive' \in BOOLEAN
  BY <1>2, Zenon DEF Inv, AdapterReleased
<1>. QED BY <1>5, <1>7, <1>8 DEF Inv

\* A request is admitted while nobody holds exclusivity.
LEMMA IssueKeepsInv ==
  ASSUME Inv, NEW c, NEW m \in AllMethods, NEW a, NEW target, Issue(c, m, a, target)
  PROVE  Inv'
<1> DEFINE n == [method |-> m, stage |-> "admitted", step |-> "end", arg |-> a,
                 session |-> target, view |-> NoSlaves]
<1>1. c \in Hardware /\ c \in Callers
  BY CallersDiffer DEF Issue
<1>2. Fits(n) /\ n.method = m
  BY DEF Fits, StageFits, IsCall
<1>3. call' = [call EXCEPT ![c] = n] /\ UNCHANGED <<wpc, conn>>
  BY DEF Issue, workerVars
<1>4. ~exclusive /\ call[c].method = "none"
  BY <1>1 DEF Issue, Admits, At, Inv, CallersTyped, Fits, StageFits
<1>5. AdapterReleased'
  BY <1>3 DEF Inv, AdapterReleased
<1> HIDE DEF n
<1>6. CASE m \notin Programs
  <2>1. UNCHANGED exclusive
    BY <1>6, Zenon DEF Issue, Inv
  <2>2. MayRun(c, m)
    BY <1>1, CallersDiffer DEF MayRun
  <2>3. Moves(c)
    BY <1>2, <1>3, <1>4, <1>6, <2>2 DEF Moves, Programs
  <2>. QED BY <1>1, <1>5, <2>1, <2>3, MovesKeepInv
<1>7. CASE m \in Programs
  <2>1. exclusive' = TRUE
    BY <1>7, Zenon DEF Issue
  <2>2. /\ call' = [d \in Callers |-> call'[d]] /\ call'[c] = n
        /\ \A d \in Callers : d # c => call'[d] = call[d]
    BY <1>1, <1>3 DEF Inv, CallersTyped
  <2>3. CallersTyped'
    BY <1>1, <1>2, <2>2, CallersDiffer DEF Inv, CallersTyped
  <2>4. \A d \in Hardware : call'[d].method \in Programs <=> d = c
    <3>1. \A d \in Hardware : call[d].method \notin Programs
      BY <1>4, Zenon DEF Inv, OneProgrammer
    <3>. QED BY <1>2, <1>7, <2>2, <3>1, CallersDiffer
  <2>5. OneProgrammer'
    BY <1>1, <2>1, <2>4, Zenon DEF OneProgrammer
  <2>6. exclusive' \in BOOLEAN
    BY <2>1, Zenon
  <2>. QED BY <1>5, <2>3, <2>5, <2>6 DEF Inv
<1>. QED BY <1>6, <1>7

\* The idle monitor begins a probe, the control thread a shutdown.
LEMMA OthersKeepInv ==
  ASSUME Inv, Probe \/ ShutDown
  PROVE  Inv'
<1>1. UNCHANGED <<wpc, conn, exclusive>>
  BY DEF Probe, ShutDown, workerVars, lockVars
<1>2. AdapterReleased'
  BY <1>1 DEF Inv, AdapterReleased
<1>3. CASE Probe
  <2> DEFINE n == [method |-> "probe", stage |-> "submit", step |-> "probe", arg |-> "low",
                   session |-> session, view |-> slaves]
  <2>1. Fits(n) /\ n.method = "probe" /\ call' = [call EXCEPT ![IdleMonitor] = n]
    BY <1>3 DEF Probe, Fits, StageFits, IsCall
  <2>2. call[IdleMonitor].method = "none"
    BY <1>3, CallersDiffer DEF Probe, At, Inv, CallersTyped, Fits, StageFits
  <2> HIDE DEF n
  <2>3. Moves(IdleMonitor)
    BY <2>1, <2>2, CallersDiffer DEF Moves, MayRun, Programs
  <2>. QED BY <1>1, <1>2, <2>3, CallersDiffer, MovesKeepInv
<1>4. CASE ShutDown
  <2> DEFINE n == [Idle EXCEPT !.method = "shutdown", !.stage = "replace"]
  <2>1. n = [method |-> "shutdown", stage |-> "replace", step |-> "end", arg |-> "low",
             session |-> 0, view |-> NoSlaves]
    <3>1. n = [[Idle EXCEPT !.method = "shutdown"] EXCEPT !.stage = "replace"]
      OBVIOUS
    <3>2. [Idle EXCEPT !.method = "shutdown"]
            = [method |-> "shutdown", stage |-> "idle", step |-> "end", arg |-> "low",
               session |-> 0, view |-> NoSlaves]
      BY DEF Idle
    <3>3. [[method |-> "shutdown", stage |-> "idle", step |-> "end", arg |-> "low",
            session |-> 0, view |-> NoSlaves] EXCEPT !.stage = "replace"]
            = [method |-> "shutdown", stage |-> "replace", step |-> "end", arg |-> "low",
               session |-> 0, view |-> NoSlaves]
      OBVIOUS
    <3> HIDE DEF n
    <3>. QED BY <3>1, <3>2, <3>3, Zenon
  <2>2. call' = [call EXCEPT ![Control] = n]
    BY <1>4 DEF ShutDown
  <2> HIDE DEF n
  <2>3. Fits(n) /\ n.method = "shutdown"
    BY <2>1 DEF Fits, StageFits, IsCall
  <2>4. call[Control].method \notin Programs
    BY DEF Inv, CallersTyped, Programs
  <2>5. Moves(Control)
    BY <2>2, <2>3, <2>4, CallersDiffer DEF Moves, MayRun, Programs
  <2>. QED BY <1>1, <1>2, <2>5, CallersDiffer, MovesKeepInv
<1>. QED BY <1>3, <1>4

\* What leaves every caller where it is.
LEMMA CallersStayKeepsInv ==
  ASSUME Inv, UNCHANGED <<call, exclusive>>, AdapterReleased'
  PROVE  Inv'
BY DEF Inv, CallersTyped, OneProgrammer

-----------------------------------------------------------------------------
(* Every step keeps the invariant                                             *)

LEMMA InitInv ==
  ASSUME Init
  PROVE  Inv
<1>1. Fits(Idle) /\ Idle.method = "none" /\ "none" \notin Programs
  BY DEF Fits, StageFits, IsCall, Idle, Programs
<1>2. CallersTyped /\ \A c \in Callers : call[c].method \notin Programs
  BY <1>1, CallersDiffer DEF Init, CallersTyped
<1>3. AdapterReleased
  BY Zenon DEF Init, W!Init, AdapterReleased
<1>4. exclusive = FALSE
  BY DEF Init
<1>5. OneProgrammer
  BY <1>2, <1>4, CallersDiffer, Zenon DEF OneProgrammer
<1>. QED BY <1>2, <1>3, <1>4, <1>5, Zenon DEF Inv

\* A step creates no worker, or it replaces one that has ended.
Replaces == wpc' = "start" /\ wpc # "start" => wpc = "dead" /\ ~conn

\* Every step keeps the invariant, and creates a worker only for one that has ended.
LEMMA NextInv ==
  ASSUME Inv, [Next]_vars
  PROVE  Inv' /\ Replaces
<1>1. ASSUME NEW m \in Methods, NEW c, NEW a, NEW t, Issue(c, m, a, t)
      PROVE  Inv' /\ Replaces
  <2>1. m \in AllMethods
    BY BridgeAssumption
  <2>2. UNCHANGED wpc
    BY <1>1 DEF Issue, workerVars
  <2>. QED BY <1>1, <2>1, <2>2, IssueKeepsInv DEF Replaces
<1>2. ASSUME Probe \/ ShutDown
      PROVE  Inv' /\ Replaces
  <2>1. UNCHANGED wpc
    BY <1>2 DEF Probe, ShutDown, workerVars
  <2>. QED BY <1>2, <2>1, OthersKeepInv DEF Replaces
<1>3. ASSUME NEW c \in Callers, Run(c)
      PROVE  Inv' /\ Replaces
  <2>1. CASE Replace(c)
    <3>1. wpc = "dead"
      BY <2>1 DEF Replace, Joined
    <3>2. ~conn
      BY <3>1 DEF Inv, AdapterReleased, Outside
    <3>. QED BY <2>1, <3>1, <3>2, ReplaceKeepsInv DEF Replaces
  <2>2. CASE Unreserve(c)
    <3>1. UNCHANGED wpc
      BY <2>2 DEF Unreserve, workerVars
    <3>. QED BY <2>2, <3>1, UnreserveKeepsInv DEF Replaces
  <2>3. CASE \/ Acquire(c) \/ Dispatch(c) \/ Submit(c) \/ TimeOut(c) \/ Continue(c)
             \/ Fault(c) \/ FaultMaster(c) \/ StopWorker(c) \/ SwitchMode(c) \/ JoinEnds(c)
    <3>1. WorkerStays
      BY <2>3, ClientsAreQuiet DEF Acquire, Dispatch, Submit, TimeOut, Continue, Fault,
             FaultMaster, StopWorker, SwitchMode, JoinEnds
    <3>. QED BY <2>3, <3>1, CommandKeepsInv DEF WorkerStays, Replaces
  <2>. QED BY <1>3, <2>1, <2>2, <2>3 DEF Run
<1>4. ASSUME PollEvents \/ HandleEvent
      PROVE  Inv' /\ Replaces
  <2>1. WorkerStays /\ UNCHANGED <<call, exclusive>>
    BY <1>4, ClientsAreQuiet DEF PollEvents, HandleEvent, lockVars
  <2>2. AdapterReleased'
    BY <2>1 DEF WorkerStays, Inv, AdapterReleased
  <2>. QED BY <2>1, <2>2, CallersStayKeepsInv DEF WorkerStays, Replaces
<1>5. ASSUME WorkerStep
      PROVE  Inv' /\ Replaces
  <2>1. AdapterReleased' /\ wpc' # "start" /\ UNCHANGED <<call, exclusive>>
    BY <1>5, LoopReleases DEF Inv, WorkerStep, lockVars
  <2>. QED BY <2>1, CallersStayKeepsInv DEF Replaces
<1>6. ASSUME UNCHANGED vars
      PROVE  Inv' /\ Replaces
  <2>1. UNCHANGED <<wpc, conn, call, exclusive>>
    BY <1>6 DEF vars, workerVars, lockVars
  <2>2. AdapterReleased'
    BY <2>1 DEF Inv, AdapterReleased
  <2>. QED BY <2>1, <2>2, CallersStayKeepsInv DEF Replaces
<1>. QED BY <1>1, <1>2, <1>3, <1>4, <1>5, <1>6 DEF Next, Requests, Steps

-----------------------------------------------------------------------------
(* The command lock                                                           *)

\* The stages in which a caller has the command lock.
Holding == {"ready", "submit", "await", "refused", "fault", "faulting", "replace", "join", "switch"}

AllSteps == {"end", "enumerate", "auto_scan", "connect", "scan", "scan_read", "read", "recheck",
             "stop", "stop_first", "detach_stop", "disconnect", "clear", "clear_read", "reconfig",
             "reconfig_read", "access", "reset", "check_target", "program", "program_read",
             "request", "request_read", "start", "start_read", "probe"}

CallTyped(r) ==
  /\ r.arg \in AlStates /\ r.view \in Views /\ r.step \in AllSteps
  /\ r.stage = "submit" => r.step # "end"

\* A caller has the command lock exactly while it is between admission and the
\* end of its command; the control thread never takes it.
Locks ==
  /\ \A c \in Callers \ {Control} : lock = c <=> call[c].stage \in Holding
  /\ lock # Control
  /\ call[Control].stage \in {"idle", "replace", "join"} /\ call[Control].step = "end"
  /\ \A c \in Hardware : call[c].method \in Methods \cup {"none"}
  /\ \A c \in Callers : CallTyped(call[c])

\* Caller c goes to another stage or step of its command, or becomes idle.
OthersStay(c) == \A d \in Callers \ {c} : call'[d] = call[d]
Takes(c, stage, step) ==
  /\ OthersStay(c)
  /\ call'[c] = [method |-> call[c].method, stage |-> stage, step |-> step, arg |-> call[c].arg,
                 session |-> call[c].session, view |-> call[c].view]
Leaves(c) == OthersStay(c) /\ call'[c] = Idle
Ends(c) == (Leaves(c) \/ (call[c].method \in Programs /\ Takes(c, "unreserve", call[c].step))) /\ lock' = NoClient

LEMMA Restaged ==
  ASSUME NEW r, IsCall(r), NEW stage
  PROVE  [r EXCEPT !.stage = stage] = [method |-> r.method, stage |-> stage, step |-> r.step, arg |-> r.arg,
                                       session |-> r.session, view |-> r.view]
<1>1. PICK m, s0, p0, a, ss, v :
        r = [method |-> m, stage |-> s0, step |-> p0, arg |-> a, session |-> ss, view |-> v]
  BY DEF IsCall
<1>. QED BY <1>1

LEMMA Restepped ==
  ASSUME NEW r, IsCall(r), NEW stage, NEW step
  PROVE  [[r EXCEPT !.stage = stage] EXCEPT !.step = step]
           = [method |-> r.method, stage |-> stage, step |-> step, arg |-> r.arg,
              session |-> r.session, view |-> r.view]
<1>1. [r EXCEPT !.stage = stage]
        = [method |-> r.method, stage |-> stage, step |-> r.step, arg |-> r.arg,
           session |-> r.session, view |-> r.view]
  BY Restaged
<1>2. [[method |-> r.method, stage |-> stage, step |-> r.step, arg |-> r.arg,
        session |-> r.session, view |-> r.view] EXCEPT !.step = step]
        = [method |-> r.method, stage |-> stage, step |-> step, arg |-> r.arg,
           session |-> r.session, view |-> r.view]
  OBVIOUS
<1>. QED BY <1>1, <1>2, Zenon

LEMMA GotoTakes ==
  ASSUME CallersTyped, NEW c \in Callers, NEW stage, Goto(c, stage)
  PROVE  Takes(c, stage, call[c].step)
<1>1. call' = [call EXCEPT ![c] = [call[c] EXCEPT !.stage = stage]]
  BY DEF Goto, CallersTyped
<1>2. call'[c] = [call[c] EXCEPT !.stage = stage] /\ \A d \in Callers \ {c} : call'[d] = call[d]
  BY <1>1 DEF CallersTyped
<1>. QED BY <1>2, Restaged DEF Takes, OthersStay, CallersTyped, Fits

LEMMA StepTakes ==
  ASSUME CallersTyped, NEW c \in Callers, NEW stage, NEW step,
         call' = [call EXCEPT ![c].stage = stage, ![c].step = step]
  PROVE  Takes(c, stage, step)
<1> DEFINE n == [[call[c] EXCEPT !.stage = stage] EXCEPT !.step = step]
<1>1. call' = [call EXCEPT ![c] = n]
  BY TwoFields DEF CallersTyped
<1>2. IsCall(call[c])
  BY DEF CallersTyped, Fits
<1>3. n = [method |-> call[c].method, stage |-> stage, step |-> step, arg |-> call[c].arg,
           session |-> call[c].session, view |-> call[c].view]
  BY <1>2, Restepped
<1> HIDE DEF n
<1>4. call'[c] = n /\ \A d \in Callers \ {c} : call'[d] = call[d]
  BY <1>1 DEF CallersTyped
<1>. QED BY <1>3, <1>4 DEF Takes, OthersStay

LEMMA ThenTakes ==
  ASSUME CallersTyped, NEW c \in Callers
  PROVE  /\ \A step : Then(c, step) => Takes(c, "submit", step) /\ lock' = lock
         /\ ThenFault(c) => Takes(c, "fault", "end") /\ lock' = lock
BY StepTakes DEF Then, ThenFault

LEMMA IdleLeaves ==
  ASSUME CallersTyped, NEW c \in Callers, call' = [call EXCEPT ![c] = Idle]
  PROVE  Leaves(c)
BY DEF CallersTyped, Leaves, OthersStay

LEMMA EndEnds ==
  ASSUME CallersTyped, NEW c \in Callers, End(c)
  PROVE  Ends(c)
<1>1. CASE call[c].method \in Programs
  <2>1. Goto(c, "unreserve")
    BY <1>1 DEF End, Goto
  <2>. QED BY <1>1, <2>1, GotoTakes DEF Ends, End
<1>2. CASE call[c].method \notin Programs
  BY <1>2, IdleLeaves DEF Ends, End
<1>. QED BY <1>1, <1>2

\* What follows each submission of a command.
NextStep == [enumerate |-> "auto_scan", detach_stop |-> "disconnect", scan |-> "scan_read",
             recheck |-> "stop_first", stop_first |-> "request", reconfig |-> "reconfig_read",
             check_target |-> "program", program |-> "program_read", clear |-> "clear_read",
             request |-> "request_read", start |-> "start_read"]

\* Where a command goes with an answer: it ends, goes on, or gives the worker up.
GoesOn(c) ==
  \/ Ends(c)
  \/ call[c].step \in DOMAIN NextStep /\ Takes(c, "submit", NextStep[call[c].step]) /\ lock' = lock
  \/ call[c].step \in {"stop", "stop_first", "detach_stop"} /\ Takes(c, "fault", "end") /\ lock' = lock

LEMMA NextSteps ==
  /\ DOMAIN NextStep = {"enumerate", "detach_stop", "scan", "recheck", "stop_first", "reconfig",
                        "check_target", "program", "clear", "request", "start"}
  /\ NextStep["enumerate"] = "auto_scan" /\ NextStep["detach_stop"] = "disconnect"
  /\ NextStep["scan"] = "scan_read" /\ NextStep["recheck"] = "stop_first"
  /\ NextStep["stop_first"] = "request" /\ NextStep["reconfig"] = "reconfig_read"
  /\ NextStep["check_target"] = "program" /\ NextStep["program"] = "program_read"
  /\ NextStep["clear"] = "clear_read" /\ NextStep["request"] = "request_read"
  /\ NextStep["start"] = "start_read"
BY DEF NextStep

LEMMA AnswersGoOn ==
  ASSUME CallersTyped, NEW c \in Callers, NEW v, Succeeds(c, v) \/ Fails(c, v)
  PROVE  GoesOn(c)
<1>1. End(c) => GoesOn(c)
  BY EndEnds DEF GoesOn
<1>2. ThenFault(c) /\ call[c].step \in {"stop", "stop_first", "detach_stop"} => GoesOn(c)
  BY ThenTakes DEF GoesOn
<1>3. call[c].step \in DOMAIN NextStep /\ Then(c, NextStep[call[c].step]) => GoesOn(c)
  BY ThenTakes DEF GoesOn
<1>4. CASE Confirms(c, v) \/ Probed(c, v) \/ ReconfigurationFails(c)
  BY <1>1, <1>4 DEF Confirms, Probed, ReconfigurationFails
<1>5. CASE Rechecks(c, v) \/ Connected(c, v) \/ Scanned(c, v)
  BY <1>1, <1>3, <1>5, NextSteps DEF Rechecks, Connected, Scanned
<1>6. CASE Reconfigured(c, v) \/ CycleAnswered(c, v)
  BY <1>1, <1>3, <1>4, <1>6, NextSteps DEF Reconfigured, CycleAnswered
<1>7. CASE Accessed(c, v)
  BY <1>1, <1>3, <1>7, NextSteps DEF Accessed
<1>8. CASE Fails(c, v)
  BY <1>1, <1>2, <1>3, <1>4, <1>8, NextSteps DEF Fails
<1>. QED BY <1>4, <1>5, <1>6, <1>7, <1>8, NextSteps DEF Succeeds

LEMMA LocksChange ==
  ASSUME Locks, NEW c \in Callers, OthersStay(c), CallTyped(call'[c]),
         c = Control => /\ lock' = lock /\ call'[c].stage \in {"idle", "replace", "join"}
                        /\ call'[c].step = "end",
         c # Control => /\ lock' = c <=> call'[c].stage \in Holding
                        /\ \/ lock' = lock
                           \/ lock = c /\ lock' = NoClient
                           \/ lock = NoClient /\ lock' = c,
         c \in Hardware => call'[c].method \in Methods \cup {"none"}
  PROVE  Locks'
<1>1. NoClient \notin Callers /\ Control \in Callers /\ Hardware \subseteq Callers
  BY BridgeAssumption, CallersDiffer
<1>2. ASSUME NEW d \in Callers \ {Control}
      PROVE  lock' = d <=> call'[d].stage \in Holding
  BY <1>1, <1>2 DEF Locks, OthersStay
<1>3. lock' # Control
  BY <1>1 DEF Locks
<1>4. call'[Control].stage \in {"idle", "replace", "join"} /\ call'[Control].step = "end"
  BY <1>1 DEF Locks, OthersStay
<1>5. \A d \in Hardware : call'[d].method \in Methods \cup {"none"}
  BY <1>1 DEF Locks, OthersStay
<1>6. \A d \in Callers : CallTyped(call'[d])
  BY <1>1 DEF Locks, OthersStay
<1>. QED BY <1>2, <1>3, <1>4, <1>5, <1>6 DEF Locks

\* Another stage or step of a command that goes on, or its end.
LEMMA TakingKeepsLocks ==
  ASSUME Locks, NEW c \in Callers \ {Control}, NEW stage, NEW step \in AllSteps, Takes(c, stage, step),
         stage = "submit" => step # "end",
         \/ call[c].stage \in Holding /\ stage \in Holding /\ lock' = lock
         \/ call[c].stage \in Holding /\ stage \notin Holding /\ lock' = NoClient
         \/ lock = NoClient /\ stage \in Holding /\ lock' = c
  PROVE  Locks'
<1>1. /\ OthersStay(c) /\ call'[c].stage = stage /\ call'[c].step = step
      /\ call'[c].method = call[c].method /\ call'[c].arg = call[c].arg /\ call'[c].view = call[c].view
  BY DEF Takes
<1>2. CallTyped(call'[c])
  BY <1>1 DEF Locks, CallTyped
<1>3. NoClient # c
  BY BridgeAssumption
<1>4. c \in Hardware => call'[c].method \in Methods \cup {"none"}
  BY <1>1 DEF Locks
<1>5. /\ lock' = c <=> call'[c].stage \in Holding
      /\ \/ lock' = lock
         \/ lock = c /\ lock' = NoClient
         \/ lock = NoClient /\ lock' = c
  BY <1>1, <1>3 DEF Locks
<1>. QED BY <1>1, <1>2, <1>4, <1>5, LocksChange

LEMMA IdleTyped == CallTyped(Idle) /\ Idle.stage = "idle" /\ Idle.step = "end" /\ Idle.method = "none"
<1>1. Idle.arg = "low" /\ Idle.view = NoSlaves /\ Idle.stage = "idle" /\ Idle.step = "end" /\ Idle.method = "none"
  BY DEF Idle
<1>. QED BY <1>1 DEF CallTyped, AlStates, Views, AllSteps

LEMMA EndingKeepsLocks ==
  ASSUME Locks, NEW c \in Callers \ {Control}, call[c].stage \in Holding, Ends(c)
  PROVE  Locks'
<1>1. CASE Leaves(c)
  <2>1. OthersStay(c) /\ call'[c] = Idle
    BY <1>1 DEF Leaves
  <2>2. lock = c /\ lock' = NoClient /\ NoClient # c
    BY BridgeAssumption DEF Locks, Ends
  <2>. QED BY <2>1, <2>2, IdleTyped, LocksChange DEF Holding
<1>2. CASE Takes(c, "unreserve", call[c].step)
  BY <1>2, TakingKeepsLocks DEF Ends, Holding, Locks, CallTyped
<1>. QED BY <1>1, <1>2 DEF Ends

LEMMA StepsTyped ==
  \A s \in DOMAIN NextStep : NextStep[s] \in AllSteps /\ NextStep[s] # "end"
BY NextSteps DEF AllSteps

LEMMA RunKeepsLocks ==
  ASSUME CallersTyped, Locks, NEW c \in Callers, Run(c)
  PROVE  Locks'
<1>0. \A s : At(c, s) <=> call[c].stage = s
  BY DEF At
<1>a. call[c].step \in AllSteps
  BY DEF Locks, CallTyped
<1>b. c # Control \/ At(c, "replace") \/ At(c, "join")
  <2>1. c # Control \/ At(c, "replace") \/ At(c, "join") \/ At(c, "idle")
    BY <1>0 DEF Locks
  <2>2. ~At(c, "idle")
    BY <1>0 DEF Run, Acquire, Dispatch, Submit, TimeOut, Continue, Fault, FaultMaster, Unreserve,
                StopWorker, Replace, Joined, SwitchMode, JoinEnds
  <2>. QED BY <2>1, <2>2
<1>1. CASE Acquire(c)
  <2>1. c # Control /\ call[c].stage \notin Holding
    BY <1>0, <1>1, <1>b DEF Acquire, Holding
  <2>2. CASE Goto(c, "ready") /\ lock' = c
    BY <1>1, <1>a, <2>1, <2>2, GotoTakes, TakingKeepsLocks DEF Acquire, Holding
  <2>3. CASE call' = [call EXCEPT ![c] = Idle] /\ UNCHANGED lock
    <3>1. OthersStay(c) /\ call'[c] = Idle
      BY <2>3, IdleLeaves DEF Leaves
    <3>2. lock # c
      BY <2>1 DEF Locks
    <3>. QED BY <2>1, <2>3, <3>1, <3>2, IdleTyped, LocksChange DEF Holding
  <2>. QED BY <1>1, <2>2, <2>3 DEF Acquire
<1>2. CASE Dispatch(c)
  <2>1. c # Control /\ call[c].stage \in Holding
    BY <1>0, <1>2, <1>b DEF Dispatch, Holding
  <2>2. ASSUME NEW s \in AllSteps \ {"end"}, Then(c, s)
        PROVE  Locks'
    BY <2>1, <2>2, ThenTakes, TakingKeepsLocks DEF Holding
  <2>3. CASE Goto(c, "replace") /\ UNCHANGED lock
    BY <1>a, <2>1, <2>3, GotoTakes, TakingKeepsLocks DEF Holding
  <2>4. CASE End(c)
    BY <2>1, <2>4, EndEnds, EndingKeepsLocks
  <2>5. /\ \A m \in DOMAIN Ungated : Ungated[m] \in AllSteps \ {"end"}
        /\ \A m \in DOMAIN NeedsIdleBus : NeedsIdleBus[m] \in AllSteps \ {"end"}
        /\ \A m \in DOMAIN NeedsNoConnection : NeedsNoConnection[m] \in AllSteps \ {"end"}
    BY DEF Ungated, NeedsIdleBus, NeedsNoConnection, AllSteps
  <2>6. {"scan", "disconnect", "detach_stop", "request", "recheck", "stop_first", "check_target"}
          \subseteq AllSteps \ {"end"}
    BY DEF AllSteps
  <2>. QED BY <1>2, <2>2, <2>3, <2>4, <2>5, <2>6 DEF Dispatch
<1>3. CASE Submit(c) \/ TimeOut(c) \/ Fault(c) \/ FaultMaster(c)
  <2>1. c # Control /\ call[c].stage \in Holding /\ lock' = lock
    BY <1>0, <1>3, <1>b DEF Submit, TimeOut, Fault, FaultMaster, Holding, lockVars
  <2>2. ASSUME NEW s \in {"await", "refused", "fault", "faulting"}, Goto(c, s)
        PROVE  Locks'
    BY <1>a, <2>1, <2>2, GotoTakes, TakingKeepsLocks DEF Holding
  <2>3. Goto(c, "await") \/ Goto(c, "refused") \/ Goto(c, "fault") \/ Goto(c, "faulting")
    BY <1>3 DEF Submit, TimeOut, Fault, FaultMaster
  <2>. QED BY <2>2, <2>3
<1>4. CASE Continue(c)
  <2>1. c # Control /\ call[c].stage \in Holding
    BY <1>0, <1>4, <1>b DEF Continue, Holding
  <2>2. GoesOn(c)
    BY <1>4, AnswersGoOn DEF Continue
  <2>3. CASE Ends(c)
    BY <2>1, <2>3, EndingKeepsLocks
  <2>4. CASE call[c].step \in DOMAIN NextStep /\ Takes(c, "submit", NextStep[call[c].step]) /\ lock' = lock
    BY <2>1, <2>4, StepsTyped, TakingKeepsLocks DEF Holding
  <2>5. CASE Takes(c, "fault", "end") /\ lock' = lock
    BY <2>1, <2>5, TakingKeepsLocks DEF Holding, AllSteps
  <2>. QED BY <2>2, <2>3, <2>4, <2>5 DEF GoesOn
<1>5. CASE Unreserve(c)
  <2>1. c # Control /\ call[c].stage \notin Holding /\ UNCHANGED lock
    BY <1>0, <1>5, <1>b DEF Unreserve, Holding
  <2>2. OthersStay(c) /\ call'[c] = Idle
    BY <1>5, IdleLeaves DEF Unreserve, Leaves
  <2>. QED BY <2>1, <2>2, IdleTyped, LocksChange DEF Holding, Locks
<1>6. CASE StopWorker(c)
  <2>1. Takes(c, "join", call[c].step) /\ UNCHANGED lock /\ At(c, "replace")
    BY <1>6, GotoTakes DEF StopWorker
  <2>2. CASE c # Control
    BY <1>0, <1>a, <2>1, <2>2, TakingKeepsLocks DEF Holding
  <2>3. CASE c = Control
    <3>1. OthersStay(c) /\ call'[c].stage = "join" /\ call'[c].step = "end" /\ CallTyped(call'[c])
      BY <1>a, <2>1, <2>3 DEF Takes, Locks, CallTyped
    <3>. QED BY <2>1, <2>3, <3>1, LocksChange, CallersDiffer
  <2>. QED BY <2>2, <2>3
<1>7. CASE Replace(c) \/ SwitchMode(c)
  <2>1. c # Control /\ call[c].stage \in Holding
    <3>1. call[c].method = "switch_mode"
      BY <1>7 DEF Replace, SwitchMode, CallersTyped, Fits, StageFits, At
    <3>2. c # Control
      BY <3>1 DEF CallersTyped
    <3>. QED BY <1>0, <1>7, <3>2 DEF Replace, Joined, SwitchMode, Holding
  <2>2. CASE Replace(c)
    BY <1>a, <2>1, <2>2, GotoTakes, TakingKeepsLocks DEF Replace, Holding
  <2>3. CASE SwitchMode(c)
    BY <2>1, <2>3, EndEnds, EndingKeepsLocks DEF SwitchMode
  <2>. QED BY <1>7, <2>2, <2>3
<1>8. CASE JoinEnds(c)
  <2>1. call[c].stage \in Holding /\ call[c].method \in {"switch_mode", "shutdown"}
    BY <1>8 DEF JoinEnds, CallersTyped, Fits, StageFits, At, Holding
  <2>2. CASE call[c].method = "switch_mode"
    <3>1. c # Control
      BY <2>2 DEF CallersTyped
    <3>. QED BY <1>8, <2>1, <2>2, <3>1, EndEnds, EndingKeepsLocks DEF JoinEnds
  <2>3. CASE call[c].method # "switch_mode"
    <3>1. c = Control
      <4>1. call[c].method = "shutdown"
        BY <2>1, <2>3
      <4>2. c \notin Hardware
        BY <4>1, BridgeAssumption DEF Locks, AllMethods, Programs
      <4>. QED BY <4>1, <4>2, CallersDiffer DEF CallersTyped
    <3>2. OthersStay(c) /\ call'[c] = Idle /\ UNCHANGED lock
      BY <1>8, <2>3, IdleLeaves DEF JoinEnds, Leaves
    <3>. QED BY <3>1, <3>2, IdleTyped, LocksChange, CallersDiffer
  <2>. QED BY <2>2, <2>3
<1>. QED BY <1>1, <1>2, <1>3, <1>4, <1>5, <1>6, <1>7, <1>8 DEF Run

\* A caller that begins: a request, a probe or a shutdown.
LEMMA OthersKeepLocks ==
  ASSUME Inv, Locks, NEW c, NEW m, NEW a, NEW t, slaves \in Views,
         \/ m \in Methods /\ a \in AlStates /\ Issue(c, m, a, t)
         \/ Probe \/ ShutDown
  PROVE  Locks'
<1>1. CASE m \in Methods /\ a \in AlStates /\ Issue(c, m, a, t)
  <2> DEFINE n == [method |-> m, stage |-> "admitted", step |-> "end", arg |-> a,
                   session |-> t, view |-> NoSlaves]
  <2>1. c \in Hardware /\ c \in Callers /\ c # Control /\ call[c].stage = "idle" /\ lock' = lock
    BY <1>1, CallersDiffer DEF Issue, Admits, At
  <2>2. call' = [call EXCEPT ![c] = n]
    BY <1>1 DEF Issue
  <2>3. n.method = m /\ n.stage = "admitted" /\ CallTyped(n)
    BY <1>1 DEF CallTyped, AllSteps, Views
  <2> HIDE DEF n
  <2>4. OthersStay(c) /\ call'[c] = n
    BY <2>1, <2>2 DEF OthersStay, Inv, CallersTyped
  <2>. QED BY <1>1, <2>1, <2>3, <2>4, LocksChange DEF Holding, Locks
<1>2. CASE Probe
  <2> DEFINE n == [method |-> "probe", stage |-> "submit", step |-> "probe", arg |-> "low",
                   session |-> session, view |-> slaves]
  <2>1. IdleMonitor \in Callers \ {Control} /\ IdleMonitor \notin Hardware
    BY CallersDiffer
  <2>2. call' = [call EXCEPT ![IdleMonitor] = n] /\ lock = NoClient /\ lock' = IdleMonitor
    BY <1>2 DEF Probe
  <2>3. n.stage = "submit" /\ CallTyped(n)
    BY DEF CallTyped, AllSteps, AlStates
  <2> HIDE DEF n
  <2>4. OthersStay(IdleMonitor) /\ call'[IdleMonitor] = n
    BY <2>1, <2>2 DEF OthersStay, Inv, CallersTyped
  <2>. QED BY <2>1, <2>2, <2>3, <2>4, LocksChange DEF Holding
<1>3. CASE ShutDown
  <2> DEFINE n == [Idle EXCEPT !.method = "shutdown", !.stage = "replace"]
  <2>1. call' = [call EXCEPT ![Control] = n] /\ lock' = lock
    BY <1>3 DEF ShutDown, lockVars
  <2>2. n.stage = "replace" /\ n.step = "end" /\ n.arg = "low" /\ n.view = NoSlaves
    BY DEF Idle
  <2> HIDE DEF n
  <2>3. CallTyped(n)
    BY <2>2 DEF CallTyped, AllSteps, AlStates, Views
  <2>4. OthersStay(Control) /\ call'[Control] = n
    BY <2>1, CallersDiffer DEF OthersStay, Inv, CallersTyped
  <2>. QED BY <2>1, <2>2, <2>3, <2>4, LocksChange, CallersDiffer DEF Holding
<1>. QED BY <1>1, <1>2, <1>3

LEMMA NextLocks ==
  ASSUME Inv, Locks, slaves \in Views, [Next]_vars
  PROVE  Locks'
<1>1. ASSUME NEW c \in Hardware, NEW m \in Methods, NEW a \in AlStates, NEW t, Issue(c, m, a, t)
      PROVE  Locks'
  BY <1>1, OthersKeepLocks
<1>2. CASE Probe \/ ShutDown
  BY <1>2, OthersKeepLocks
<1>3. ASSUME NEW c \in Callers, Run(c)
      PROVE  Locks'
  BY <1>3, RunKeepsLocks DEF Inv
<1>4. ASSUME UNCHANGED <<call, lock>>
      PROVE  Locks'
  BY <1>4 DEF Locks
<1>5. PollEvents \/ HandleEvent \/ WorkerStep \/ UNCHANGED vars => UNCHANGED <<call, lock>>
  BY DEF PollEvents, HandleEvent, WorkerStep, vars, lockVars
<1>. QED BY <1>1, <1>2, <1>3, <1>4, <1>5 DEF Next, Requests, Steps

-----------------------------------------------------------------------------
(* The worker's own lemmas, for the callers of the bridge                     *)

WP == INSTANCE WorkerProofs WITH
        Clients <- Callers, Requested <- {}, Sessions <- Nat, MayTimeOut <- TRUE

LEMMA WorkerFits == WP!WorkerAssumption /\ WP!TopologyAssumption
BY BridgeAssumption, TopologyAssumption DEF WP!WorkerAssumption, WP!TopologyAssumption

\* Both instances order the queue alike.
LEMMA SameOrder ==
  /\ \A t : W!PutBack(t) = WP!PutBack(t)
  /\ \A t : W!Enqueued(t) = WP!Enqueued(t)
<1>1. \A t : W!PriorityOf(t) = WP!PriorityOf(t)
  BY DEF W!PriorityOf, WP!PriorityOf
<1>2. \A n, t : W!InsertAfter(n, t) = WP!InsertAfter(n, t)
  BY DEF W!InsertAfter, WP!InsertAfter
<1>3. ASSUME NEW t
      PROVE  /\ {i \in 1 .. Len(queue) : W!PriorityOf(queue[i]) < W!PriorityOf(t)}
                  = {i \in 1 .. Len(queue) : WP!PriorityOf(queue[i]) < WP!PriorityOf(t)}
             /\ {i \in 1 .. Len(queue) : W!PriorityOf(queue[i]) <= W!PriorityOf(t)}
                  = {i \in 1 .. Len(queue) : WP!PriorityOf(queue[i]) <= WP!PriorityOf(t)}
  BY <1>1
<1>4. \A S : W!Cardinality(S) = WP!Cardinality(S)
  BY DEF W!Cardinality, WP!Cardinality
<1>. QED BY <1>2, <1>3, <1>4 DEF W!PutBack, WP!PutBack, W!Enqueued, WP!Enqueued

\* The steps that Bridge composes are the steps those lemmas are about.
LEMMA SameQuietSteps ==
  /\ W!StartOk => WP!StartOk
  /\ W!StartFail => WP!StartFail
  /\ W!Drain => WP!Drain
  /\ W!Die => WP!Die
  /\ W!Poll => WP!Poll
  /\ W!PollControl => WP!PollControl
  /\ W!Reput => WP!Reput
  /\ W!Due => WP!Due
  /\ W!Take => WP!Take
  /\ W!Exchange => WP!Exchange
  /\ W!Exit => WP!Exit
<1>1. W!StartOk => WP!StartOk
  BY DEF W!StartOk, W!cycleVars, W!busVars, W!futVars, WP!StartOk, WP!cycleVars, WP!busVars,
       WP!futVars
<1>2. W!StartFail => WP!StartFail
  BY DEF W!StartFail, W!cycleVars, W!busVars, W!futVars, W!NoSlaves, WP!StartFail, WP!cycleVars,
       WP!busVars, WP!futVars, WP!NoSlaves
<1>3. W!Drain => WP!Drain
  BY DEF W!Drain, W!LiveOwners, W!cycleVars, W!busVars, WP!Drain, WP!LiveOwners, WP!cycleVars,
       WP!busVars
<1>4. W!Die => WP!Die
  BY DEF W!Die, W!futVars, W!cycleVars, W!busVars, WP!Die, WP!futVars, WP!cycleVars, WP!busVars
<1>5. W!Poll => WP!Poll
  BY DEF W!Poll, W!IsControl, W!PriorityOf, W!cycleVars, W!busVars, WP!Poll, WP!IsControl,
       WP!PriorityOf, WP!cycleVars, WP!busVars
<1>6. W!PollControl => WP!PollControl
  BY DEF W!PollControl, W!IsControl, W!PriorityOf, W!Begin, W!Settled, W!NoTask, W!cycleVars,
       W!busVars, WP!PollControl, WP!IsControl, WP!PriorityOf, WP!Begin, WP!Settled, WP!NoTask,
       WP!cycleVars, WP!busVars
<1>7. W!Reput => WP!Reput
  BY SameOrder DEF W!Reput, W!NoTask, W!futVars, W!cycleVars, W!busVars, WP!Reput, WP!NoTask,
       WP!futVars, WP!cycleVars, WP!busVars
<1>8. W!Due => WP!Due
  BY DEF W!Due, W!futVars, W!cycleVars, W!busVars, WP!Due, WP!futVars, WP!cycleVars, WP!busVars
<1>9. W!Take => WP!Take
  BY DEF W!Take, W!Begin, W!Settled, W!NoTask, W!futVars, W!cycleVars, W!busVars, WP!Take, WP!Begin,
       WP!Settled, WP!NoTask, WP!futVars, WP!cycleVars, WP!busVars
<1>10. W!Exchange => WP!Exchange
  BY DEF W!Exchange, W!Event, W!Fallen, W!Disabled, W!NotDisabled, W!BusAt, W!futVars, W!cycleVars,
       W!NoSlaves, W!AlStates, WP!Exchange, WP!Event, WP!Fallen, WP!Disabled, WP!NotDisabled,
       WP!BusAt, WP!futVars, WP!cycleVars, WP!NoSlaves, WP!AlStates
<1>11. W!Exit => WP!Exit
  BY DEF W!Exit, W!futVars, W!NoSlaves, WP!Exit, WP!futVars, WP!NoSlaves
<1>. QED BY <1>1, <1>2, <1>3, <1>4, <1>5, <1>6, <1>7, <1>8, <1>9, <1>10, <1>11

LEMMA SameFinish == W!Finish => WP!Finish
<1>1. W!Fails => WP!Fails
  BY DEF W!Fails, W!BackendEnds, W!Answer, W!Settled, W!NoTask, W!busVars, W!NoSlaves, W!AlStates,
       WP!Fails, WP!BackendEnds, WP!Answer, WP!Settled, WP!NoTask, WP!busVars, WP!NoSlaves,
       WP!AlStates
<1>2. W!Connects => WP!Connects
  BY DEF W!Connects, W!Fails, W!BackendEnds, W!Answer, W!Settled, W!NoTask, W!busVars, W!NoSlaves,
       W!AlStates, WP!Connects, WP!Fails, WP!BackendEnds, WP!Answer, WP!Settled, WP!NoTask,
       WP!busVars, WP!NoSlaves, WP!AlStates
<1>3. W!Disconnects => WP!Disconnects
  BY DEF W!Disconnects, W!BackendEnds, W!Answer, W!Settled, W!NoTask, W!busVars, W!NoSlaves,
       W!AlStates, WP!Disconnects, WP!BackendEnds, WP!Answer, WP!Settled, WP!NoTask, WP!busVars,
       WP!NoSlaves, WP!AlStates
<1>4. W!Scans => WP!Scans
  BY DEF W!Scans, W!Fails, W!Found, W!BackendEnds, W!Answer, W!Settled, W!NoTask, W!busVars,
       W!NoSlaves, W!AlStates, WP!Scans, WP!Fails, WP!Found, WP!BackendEnds, WP!Answer, WP!Settled,
       WP!NoTask, WP!busVars, WP!NoSlaves, WP!AlStates
<1>5. W!AutoScans => WP!AutoScans
  BY DEF W!AutoScans, W!Found, W!BackendEnds, W!Answer, W!Settled, W!NoTask, W!busVars, W!NoSlaves,
       W!AlStates, WP!AutoScans, WP!Found, WP!BackendEnds, WP!Answer, WP!Settled, WP!NoTask,
       WP!busVars, WP!NoSlaves, WP!AlStates
<1>6. W!ReadsStates => WP!ReadsStates
  BY DEF W!ReadsStates, W!Fails, W!Fallen, W!BusAt, W!BackendEnds, W!Answer, W!Settled, W!NoTask,
       W!busVars, W!NoSlaves, W!AlStates, W!Unread, WP!ReadsStates, WP!Fails, WP!Fallen, WP!BusAt,
       WP!BackendEnds, WP!Answer, WP!Settled, WP!NoTask, WP!busVars, WP!NoSlaves, WP!AlStates,
       WP!Unread
<1>7. W!Probes => WP!Probes
  BY DEF W!Probes, W!Fails, W!Fallen, W!BusAt, W!BackendEnds, W!Answer, W!Settled, W!NoTask,
       W!busVars, W!NoSlaves, W!AlStates, W!Unread, WP!Probes, WP!Fails, WP!Fallen, WP!BusAt,
       WP!BackendEnds, WP!Answer, WP!Settled, WP!NoTask, WP!busVars, WP!NoSlaves, WP!AlStates,
       WP!Unread
<1>8. W!RequestsState => WP!RequestsState
  BY DEF W!RequestsState, W!Fallen, W!BusAt, W!BackendEnds, W!Answer, W!Settled, W!NoTask, W!busVars,
       W!NoSlaves, W!AlStates, WP!RequestsState, WP!Fallen, WP!BusAt, WP!BackendEnds, WP!Answer,
       WP!Settled, WP!NoTask, WP!busVars, WP!NoSlaves, WP!AlStates
<1>9. W!Accesses => WP!Accesses
  BY DEF W!Accesses, W!Fallen, W!BusAt, W!BackendEnds, W!Answer, W!Settled, W!NoTask, W!busVars,
       W!NoSlaves, W!AlStates, WP!Accesses, WP!Fallen, WP!BusAt, WP!BackendEnds, WP!Answer,
       WP!Settled, WP!NoTask, WP!busVars, WP!NoSlaves, WP!AlStates
<1>10. W!ProgramsEeprom => WP!ProgramsEeprom
  BY DEF W!ProgramsEeprom, W!Accesses, W!Fallen, W!BusAt, W!Found, W!BackendEnds, W!Answer,
       W!Settled, W!NoTask, W!busVars, W!NoSlaves, W!AlStates, WP!ProgramsEeprom, WP!Accesses,
       WP!Fallen, WP!BusAt, WP!Found, WP!BackendEnds, WP!Answer, WP!Settled, WP!NoTask, WP!busVars,
       WP!NoSlaves, WP!AlStates
<1>11. W!CycleStarts => WP!CycleStarts
  BY DEF W!CycleStarts, W!BusAt, W!BackendEnds, W!Answer, W!Settled, W!NoTask, W!busVars, W!NoSlaves,
       W!AlStates, WP!CycleStarts, WP!BusAt, WP!BackendEnds, WP!Answer, WP!Settled, WP!NoTask,
       WP!busVars, WP!NoSlaves, WP!AlStates
<1>12. W!CycleFailsToStart => WP!CycleFailsToStart
  BY DEF W!CycleFailsToStart, W!Disabled, W!NotDisabled, W!BusAt, W!BackendEnds, W!Answer, W!Settled,
       W!NoTask, W!busVars, W!NoSlaves, W!AlStates, WP!CycleFailsToStart, WP!Disabled,
       WP!NotDisabled, WP!BusAt, WP!BackendEnds, WP!Answer, WP!Settled, WP!NoTask, WP!busVars,
       WP!NoSlaves, WP!AlStates
<1>13. W!CycleStops => WP!CycleStops
  BY DEF W!CycleStops, W!Disabled, W!BusAt, W!BackendEnds, W!Answer, W!Settled, W!NoTask, W!busVars,
       W!NoSlaves, W!AlStates, WP!CycleStops, WP!Disabled, WP!BusAt, WP!BackendEnds, WP!Answer,
       WP!Settled, WP!NoTask, WP!busVars, WP!NoSlaves, WP!AlStates
<1>14. W!CycleFailsToStop => WP!CycleFailsToStop
  BY DEF W!CycleFailsToStop, W!NotDisabled, W!BusAt, W!BackendEnds, W!Answer, W!Settled, W!NoTask,
       W!busVars, W!NoSlaves, W!AlStates, WP!CycleFailsToStop, WP!NotDisabled, WP!BusAt,
       WP!BackendEnds, WP!Answer, WP!Settled, WP!NoTask, WP!busVars, WP!NoSlaves, WP!AlStates
<1>15. UNCHANGED W!busVars /\ W!BackendEnds("done", W!NoSlaves)
        => UNCHANGED WP!busVars /\ WP!BackendEnds("done", WP!NoSlaves)
  BY DEF W!NoSlaves, WP!NoSlaves, W!BackendEnds, W!Answer, W!Settled, W!NoTask, W!busVars, WP!BackendEnds, WP!Answer,
       WP!Settled, WP!NoTask, WP!busVars
<1>. QED BY <1>1, <1>2, <1>3, <1>4, <1>5, <1>6, <1>7, <1>8, <1>9, <1>10, <1>11, <1>12, <1>13,
       <1>14, <1>15 DEF W!Finish, WP!Finish

LEMMA SameLoop == W!Loop => WP!Loop
BY SameQuietSteps, SameFinish DEF W!Loop, WP!Loop

LEMMA SameClients ==
  ASSUME NEW c, NEW op, NEW a, NEW s
  PROVE  /\ W!Submit(c, op, a, s) => WP!Submit(c, op, a, s)
         /\ W!Cancel(c) => WP!Cancel(c)
         /\ W!Collect(c) => WP!Collect(c)
         /\ W!PollEvents => WP!PollEvents
         /\ W!MarkStalled => WP!MarkStalled
         /\ W!Shutdown => WP!Shutdown
<1>1. W!Submit(c, op, a, s) => WP!Submit(c, op, a, s)
  BY SameOrder DEF W!Submit, W!Accepts, W!Alive, W!Task, W!cycleVars, W!busVars,
       WP!Submit, WP!Accepts, WP!Alive, WP!Task, WP!cycleVars, WP!busVars
<1>2. W!Cancel(c) => WP!Cancel(c)
  BY DEF W!Cancel, W!Orphan, W!cycleVars, W!busVars, WP!Cancel, WP!Orphan, WP!cycleVars, WP!busVars
<1>3. W!Collect(c) => WP!Collect(c)
  BY DEF W!Collect, W!loopVars, W!cycleVars, W!busVars, W!NoSlaves, WP!Collect, WP!loopVars,
       WP!cycleVars, WP!busVars, WP!NoSlaves
<1>4. W!PollEvents => WP!PollEvents
  BY DEF W!PollEvents, W!loopVars, W!futVars, W!cycleVars, W!busVars, WP!PollEvents, WP!loopVars,
       WP!futVars, WP!cycleVars, WP!busVars
<1>5. W!MarkStalled => WP!MarkStalled
  BY DEF W!MarkStalled, W!futVars, W!cycleVars, W!busVars, WP!MarkStalled, WP!futVars, WP!cycleVars,
       WP!busVars
<1>6. W!Shutdown => WP!Shutdown
  BY SameOrder DEF W!Shutdown, W!Wake, W!futVars, W!cycleVars, W!busVars,
       WP!Shutdown, WP!Wake, WP!futVars, WP!cycleVars, WP!busVars
<1>. QED BY <1>1, <1>2, <1>3, <1>4, <1>5, <1>6

\* Every component speaks of the same lists of slaves, and the same tasks.
LEMMA SameViews ==
  /\ W!NoSlaves = NoSlaves /\ WP!NoSlaves = NoSlaves /\ M!NoSlaves = NoSlaves
  /\ W!Views = Views /\ WP!Views = Views /\ M!Views = Views
  /\ W!AlStates = AlStates /\ WP!AlStates = AlStates
  /\ \A v : M!Unread(v) = Unread(v)
  /\ W!NoTask = WP!NoTask /\ W!Wake = WP!Wake
  /\ \A c, op, a, s : W!Task(c, op, a, s) = WP!Task(c, op, a, s)
  /\ WP!ClientOps = W!ClientOps
<1>1. W!NoSlaves = NoSlaves /\ WP!NoSlaves = NoSlaves /\ M!NoSlaves = NoSlaves
  BY DEF W!NoSlaves, WP!NoSlaves, M!NoSlaves, NoSlaves
<1>2. W!AlStates = AlStates /\ WP!AlStates = AlStates /\ M!AlStates = AlStates
  BY DEF W!AlStates, WP!AlStates, M!AlStates, AlStates
<1>3. W!Views = Views /\ WP!Views = Views /\ M!Views = Views
  BY <1>1, <1>2 DEF W!Views, WP!Views, M!Views, Views, W!SlaveLists, WP!SlaveLists, M!SlaveLists, SlaveLists
<1>4. \A v : M!Unread(v) = Unread(v)
  BY <1>1 DEF M!Unread, Unread
<1>5. W!NoTask = WP!NoTask /\ W!Wake = WP!Wake /\ \A c, op, a, s : W!Task(c, op, a, s) = WP!Task(c, op, a, s)
  BY DEF W!NoTask, WP!NoTask, W!Wake, WP!Wake, W!Task, WP!Task
<1>6. WP!ClientOps = W!ClientOps
  BY DEF W!ClientOps, WP!ClientOps
<1>. QED BY <1>1, <1>2, <1>3, <1>4, <1>5, <1>6

\* A list is empty exactly when its topology is; marking it changes neither.
LEMMA ListFacts ==
  /\ NoSlaves \in Views
  /\ \A v \in Views : v = NoSlaves <=> v.topo = NoTopology
  /\ \A v \in Views : Unread(v) \in Views /\ Unread(v).topo = v.topo
<1>1. NoSlaves \in Views
  BY DEF Views
<1>2. \A v \in Views : v = NoSlaves <=> v.topo = NoTopology
  BY TopologyAssumption DEF Views, SlaveLists, NoSlaves
<1>3. ASSUME NEW v \in Views
      PROVE  Unread(v) \in Views /\ Unread(v).topo = v.topo
  <2>1. CASE v = NoSlaves
    BY <1>1, <2>1 DEF Unread
  <2>2. CASE v \in SlaveLists /\ v # NoSlaves
    BY <2>2 DEF Unread, Views, SlaveLists
  <2>. QED BY <2>1, <2>2 DEF Views
<1>. QED BY <1>1, <1>2, <1>3

-----------------------------------------------------------------------------
(* The published state                                                        *)

Known == {"bus_scanned", "pdo_configured", "cyclic"}
Phases == {"disconnected", "adapter_open", "bus_scanned", "pdo_configured", "cyclic", "faulted"}
Opened == {"adapter_open", "bus_scanned", "pdo_configured", "cyclic"}

MasterTyped ==
  /\ slaves \in Views /\ session \in Nat /\ phase \in Phases
  /\ slaves # NoSlaves <=> phase \in Known

\* An update of the Master: what it publishes, and whether the session ends.
Publishes(p, v, advance) ==
  /\ phase' = p /\ slaves' = v
  /\ session' = IF advance THEN session + 1 ELSE session

\* A new session, or the same session on the same bus.
Renews == session' = session + 1
Keeps == session' = session /\ slaves'.topo = slaves.topo
Unchanged == UNCHANGED <<phase, slaves, session>>

\* An update that a command makes: it keeps the types, and gains neither a connection
\* nor a cycle.
Reads(v) ==
  /\ MasterTyped'
  /\ phase' \in Opened <=> phase \in Opened
  /\ phase' = "cyclic" => phase = "cyclic"
  /\ phase' = "faulted" <=> phase = "faulted"
  /\ Keeps \/ (Renews /\ slaves' = v /\ v.topo # slaves.topo)

LEMMA PublishTyped ==
  ASSUME MasterTyped, NEW p \in Phases, NEW v \in Views, NEW a, NEW e, NEW advance \in BOOLEAN,
         v # NoSlaves <=> p \in Known, M!Replace(p, a, v, e, advance)
  PROVE  MasterTyped' /\ phase' = p /\ slaves' = v /\ (IF advance THEN Renews ELSE session' = session)
<1>1. phase' = p /\ slaves' = v /\ session' = IF advance THEN session + 1 ELSE session
  BY DEF M!Replace
<1>2. session' \in Nat
  BY <1>1 DEF MasterTyped
<1>. QED BY <1>1, <1>2 DEF MasterTyped, Renews

LEMMA ScannedIs ==
  ASSUME NEW v
  PROVE  M!Scanned(v) = (IF v = NoSlaves THEN "adapter_open" ELSE "bus_scanned")
BY SameViews DEF M!Scanned

\* A read brings a list; the session ends when it is about another bus.
LEMMA UpdatedReads ==
  ASSUME MasterTyped, NEW v \in Views, NEW x, NEW keep, Updated(v, x, keep)
  PROVE  Reads(v) /\ (Keeps \/ x \in {NoSession, session})
<1>1. CASE ~M!CanUpdateStates(v, x)
  BY <1>1 DEF Updated, masterVars, Reads, Keeps, MasterTyped
<1>2. CASE M!CanUpdateStates(v, x)
  <2>1. /\ M!Replace(M!PhaseAfterRead(v), adapter, v, IF keep THEN lastError ELSE NoError, v.topo # slaves.topo)
        /\ phase \in Opened /\ (phase = "cyclic" => v.topo = slaves.topo) /\ x \in {NoSession, session}
    BY <1>2 DEF Updated, M!StatesUpdated, M!CanUpdateStates, M!connected, Opened, M!SessionHolds
  <2>2. v = NoSlaves <=> v.topo = NoTopology
    BY ListFacts
  <2>3. slaves = NoSlaves <=> slaves.topo = NoTopology
    BY ListFacts DEF MasterTyped
  <2>4. M!PhaseAfterRead(v) = IF v = NoSlaves THEN "adapter_open"
                               ELSE IF phase \in {"adapter_open", "bus_scanned"} THEN "bus_scanned"
                               ELSE IF phase = "pdo_configured" /\ v.al = "low" THEN "bus_scanned" ELSE phase
    BY SameViews, <2>1 DEF M!PhaseAfterRead, Opened
  <2>5. M!PhaseAfterRead(v) \in Phases /\ (v # NoSlaves <=> M!PhaseAfterRead(v) \in Known)
    BY <2>1, <2>4 DEF Opened, Phases, Known
  <2>6. /\ MasterTyped' /\ phase' = M!PhaseAfterRead(v) /\ slaves' = v
        /\ IF v.topo # slaves.topo THEN Renews ELSE session' = session
    BY <2>1, <2>5, PublishTyped
  <2>7. phase = "cyclic" => v # NoSlaves
    BY <2>1, <2>2, <2>3 DEF MasterTyped, Known
  <2>. QED BY <2>1, <2>4, <2>6, <2>7 DEF Reads, Keeps, Opened
<1>. QED BY <1>1, <1>2

LEMMA RecordedReads ==
  ASSUME MasterTyped, NEW v \in Views, NEW x, Recorded(v, x)
  PROVE  Reads(v) /\ (Keeps \/ (v # NoSlaves /\ x \in {NoSession, session}))
<1>1. CASE v # NoSlaves
  BY <1>1, UpdatedReads DEF Recorded
<1>2. CASE v = NoSlaves /\ M!CanFailRead(x)
  <2>1. M!Replace(phase, adapter, Unread(slaves), Failure, FALSE)
    BY <1>2, SameViews DEF Recorded, M!StateReadFailed
  <2>2. Unread(slaves) \in Views /\ Unread(slaves).topo = slaves.topo /\ (Unread(slaves) = NoSlaves <=> slaves = NoSlaves)
    <3>1. slaves \in Views
      BY DEF MasterTyped
    <3>2. Unread(slaves) \in Views /\ Unread(slaves).topo = slaves.topo
      BY <3>1, ListFacts
    <3>. QED BY <3>1, <3>2, ListFacts
  <2>3. MasterTyped' /\ phase' = phase /\ slaves' = Unread(slaves) /\ session' = session
    BY <2>1, <2>2, PublishTyped DEF MasterTyped
  <2>. QED BY <2>2, <2>3 DEF Reads, Keeps
<1>3. CASE v = NoSlaves /\ ~M!CanFailRead(x)
  BY <1>3 DEF Recorded, masterVars, Reads, Keeps, MasterTyped
<1>. QED BY <1>1, <1>2, <1>3

LEMMA RefreshedReads ==
  ASSUME MasterTyped, NEW v \in Views, NEW keep, Refreshed(v, keep)
  PROVE  Reads(v)
<1>1. CASE M!CanUpdateStates(v, NoSession)
  BY <1>1, UpdatedReads DEF Refreshed
<1>2. CASE ~M!CanUpdateStates(v, NoSession)
  BY <1>2, RecordedReads, ListFacts DEF Refreshed, Reads
<1>. QED BY <1>1, <1>2

\* A new bus, in a new session; or the Master is in no state to know one.
Rescan(v) ==
  /\ MasterTyped'
  /\ phase' \in Opened <=> phase \in Opened
  /\ phase' = "faulted" <=> phase = "faulted"
  /\ \/ Renews /\ slaves' = v /\ phase' # "cyclic"
     \/ Unchanged /\ phase \in {"disconnected", "cyclic", "faulted"}

LEMMA CanScanPhases == M!CanScan <=> phase \in {"adapter_open", "bus_scanned", "pdo_configured"}
BY DEF M!CanScan

LEMMA TopologyRescan ==
  ASSUME MasterTyped, NEW v \in Views, NEW e,
         \/ TopologyLost(v, e)
         \/ M!CanScan /\ M!ScanSucceeded(v)
         \/ v = NoSlaves /\ M!CanScan /\ M!ScanFailed(e)
         \/ ~M!CanScan /\ UNCHANGED masterVars
  PROVE  Rescan(v)
<1>1. CASE M!CanScan
  <2>1. PICK a, err : M!Replace(M!Scanned(v), a, v, err, TRUE)
    <3>1. CASE TopologyLost(v, e)
      BY <1>1, <3>1 DEF TopologyLost, M!TopologyChanged
    <3>2. CASE M!ScanSucceeded(v)
      BY <3>2 DEF M!ScanSucceeded
    <3>3. CASE v = NoSlaves /\ M!ScanFailed(e)
      BY <3>3, ScannedIs, SameViews DEF M!ScanFailed
    <3>. QED BY <1>1, <3>1, <3>2, <3>3
  <2>2. M!Scanned(v) \in Phases /\ (v # NoSlaves <=> M!Scanned(v) \in Known)
         /\ M!Scanned(v) \in Opened /\ M!Scanned(v) \notin {"cyclic", "faulted"}
    BY ScannedIs DEF Phases, Known, Opened
  <2>3. MasterTyped' /\ phase' = M!Scanned(v) /\ slaves' = v /\ Renews
    BY <2>1, <2>2, PublishTyped
  <2>. QED BY <1>1, <2>2, <2>3, CanScanPhases DEF Rescan, Opened
<1>2. CASE ~M!CanScan
  <2>1. Unchanged
    BY <1>2 DEF TopologyLost, masterVars, Unchanged
  <2>2. phase \in {"disconnected", "cyclic", "faulted"}
    BY <1>2, CanScanPhases DEF MasterTyped, Phases
  <2>. QED BY <2>1, <2>2 DEF Rescan, Unchanged, MasterTyped
<1>. QED BY <1>1, <1>2

-----------------------------------------------------------------------------
(* What an answer does to the published state                                 *)

Closes == MasterTyped' /\ phase' = "disconnected" /\ slaves' = NoSlaves /\ Renews /\ phase # "faulted"
Opens(v) ==
  /\ MasterTyped' /\ phase \in Phases \ {"cyclic", "faulted"} /\ Renews /\ slaves' = v
  /\ phase' \in {"adapter_open", "bus_scanned"}
Cycles(v) ==
  /\ MasterTyped' /\ phase \in Known /\ session' = session /\ slaves' = v
  /\ phase' = IF v = NoSlaves THEN "adapter_open" ELSE "bus_scanned"
Starts(v) == MasterTyped' /\ phase \in Known /\ session' = session /\ slaves' = v /\ phase' = "cyclic"

ReadSteps == {"read", "scan_read", "request", "clear", "request_read", "clear_read", "recheck",
              "start_read", "probe"}
ScanSteps == {"scan", "reconfig", "reconfig_read", "reset", "program", "program_read"}

\* The updates of the submissions: a read, a rescan, an end or a begin of a
\* connection or of a cycle, or none.
Effect(c, v, done) ==
  LET step == call[c].step IN
  \/ step \in ReadSteps /\ Reads(v) /\ (done \/ v # NoSlaves \/ Keeps)
  \/ step \in ScanSteps /\ (Rescan(NoSlaves) \/ (done /\ Rescan(v) /\ step \in {"scan", "reconfig_read", "program_read"}))
  \/ step \in {"enumerate", "auto_scan", "connect", "disconnect"} /\ Closes
  \/ step = "auto_scan" /\ done /\ v # NoSlaves /\ Opens(v)
  \/ step = "connect" /\ done /\ Opens(NoSlaves)
  \/ step = "start" /\ done /\ Starts(v)
  \/ step \in {"start_read", "stop", "stop_first"} /\ done /\ Cycles(v)
  \/ step \in {"stop", "stop_first"} /\ done /\ Cycles(slaves)
  \/ /\ Unchanged
     /\ step = "scan" => stalled
     /\ step = "program" /\ done /\ v = NoSlaves => Takes(c, "submit", "program_read") /\ lock' = lock
     /\ step # "program_read"
     /\ step = "disconnect" => stalled \/ phase = "faulted"

LEMMA ClosesEffect ==
  ASSUME MasterTyped
  PROVE  /\ ConnectionFailed => Closes \/ (Unchanged /\ (stalled \/ phase \in {"cyclic", "faulted"}))
         /\ \A e : Detached(e) => Closes \/ (Unchanged /\ (stalled \/ phase = "faulted"))
<1>1. ASSUME NEW e, M!Replace("disconnected", NoAdapter, NoSlaves, e, TRUE), phase # "faulted"
      PROVE  Closes
  BY <1>1, PublishTyped, ListFacts DEF Closes, Phases, Known
<1>2. ASSUME ConnectionFailed
      PROVE  Closes \/ (Unchanged /\ (stalled \/ phase \in {"cyclic", "faulted"}))
  <2>1. M!Phases = Phases
    BY DEF M!Phases, Phases
  <2>. QED BY <1>1, <1>2, <2>1, SameViews
       DEF ConnectionFailed, M!ConnectFailed, M!CanConnectFail, masterVars, Unchanged, MasterTyped
<1>3. ASSUME NEW e, Detached(e)
      PROVE  Closes \/ (Unchanged /\ (stalled \/ phase = "faulted"))
  BY <1>1, <1>3, SameViews DEF Detached, M!DisconnectCompleted, M!CanDisconnect, masterVars, Unchanged
<1>. QED BY <1>2, <1>3

LEMMA SucceedsEffect ==
  ASSUME MasterTyped, CallersTyped, NEW c \in Callers, NEW v \in Views, Succeeds(c, v)
  PROVE  Effect(c, v, TRUE)
<1>0. M!Phases = Phases
  BY DEF M!Phases, Phases
<1>1. CASE Confirms(c, v)
  BY <1>1, UpdatedReads, RefreshedReads DEF Confirms, Effect, ReadSteps
<1>2. CASE Rechecks(c, v)
  BY <1>2, UpdatedReads DEF Rechecks, Effect, ReadSteps
<1>3. CASE Connected(c, v)
  <2>1. CASE call[c].step = "auto_scan" /\ M!CanConnectFail /\ M!AutoScanCompleted(Adapter, v)
    <3>1. CASE v = NoSlaves
      <4>1. M!Replace("disconnected", NoAdapter, NoSlaves, NoError, TRUE) /\ phase # "faulted"
        BY <2>1, <3>1, SameViews DEF M!AutoScanCompleted, M!CanConnectFail
      <4>2. Closes
        BY <4>1, PublishTyped, ListFacts DEF Closes, Phases, Known
      <4>. QED BY <2>1, <4>2 DEF Effect
    <3>2. CASE v # NoSlaves
      <4>1. M!Replace("bus_scanned", Adapter, v, NoError, TRUE) /\ phase \in Phases \ {"cyclic", "faulted"}
        BY <1>0, <2>1, <3>2, SameViews DEF M!AutoScanCompleted, M!CanConnectFail
      <4>2. Opens(v)
        BY <3>2, <4>1, PublishTyped DEF Opens, Phases, Known
      <4>. QED BY <2>1, <3>2, <4>2 DEF Effect
    <3>. QED BY <3>1, <3>2
  <2>2. CASE call[c].step = "connect" /\ phase = "disconnected" /\ M!ConnectSucceeded(Adapter)
    <3>1. M!Replace("adapter_open", Adapter, NoSlaves, NoError, TRUE)
      BY <2>2, SameViews DEF M!ConnectSucceeded
    <3>2. Opens(NoSlaves)
      BY <2>2, <3>1, PublishTyped, ListFacts DEF Opens, Phases, Known
    <3>. QED BY <2>2, <3>2 DEF Effect
  <2>3. CASE call[c].step = "disconnect" /\ Detached(NoError)
    BY <2>3, ClosesEffect DEF Effect
  <2>4. CASE call[c].step \in {"enumerate", "auto_scan", "connect", "detach_stop"} /\ UNCHANGED masterVars
    BY <2>4 DEF Effect, masterVars, Unchanged
  <2>. QED BY <1>3, <2>1, <2>2, <2>3, <2>4 DEF Connected
<1>4. CASE Scanned(c, v)
  BY <1>4, TopologyRescan DEF Scanned, Effect, ScanSteps
<1>5. ReconfigurationFails(c) => Effect(c, v, TRUE)
  BY TopologyRescan, ListFacts DEF ReconfigurationFails, Effect, ScanSteps, masterVars, Unchanged
<1>6. CASE Reconfigured(c, v)
  <2>1. CASE call[c].step = "reconfig" /\ UNCHANGED masterVars
    BY <2>1 DEF Effect, masterVars, Unchanged
  <2>2. CASE call[c].step = "reconfig_read" /\ TopologyLost(v, NoError)
    BY <2>2, TopologyRescan DEF Effect, ScanSteps
  <2>. QED BY <1>5, <1>6, <2>1, <2>2 DEF Reconfigured
<1>7. CASE CycleAnswered(c, v)
  <2>1. ASSUME M!CanCycle(NoSession), NEW w \in Views, NEW a, NEW e, M!Replace(M!Scanned(w), a, w, e, FALSE)
        PROVE  Cycles(w)
    <3>1. M!Scanned(w) \in Phases /\ (w # NoSlaves <=> M!Scanned(w) \in Known)
      BY ScannedIs DEF Phases, Known
    <3>2. MasterTyped' /\ phase' = M!Scanned(w) /\ slaves' = w /\ session' = session
      BY <2>1, <3>1, PublishTyped
    <3>. QED BY <2>1, <3>2, ScannedIs DEF Cycles, M!CanCycle, Known
  <2>2. CASE call[c].step = "start" /\ M!CanCycle(NoSession) /\ v # NoSlaves /\ M!CycleStarted(v, NoSession)
    <3>1. M!Replace("cyclic", adapter, v, NoError, FALSE)
      BY <2>2 DEF M!CycleStarted
    <3>2. Starts(v)
      BY <2>2, <3>1, PublishTyped DEF Starts, Phases, Known, M!CanCycle
    <3>. QED BY <2>2, <3>2 DEF Effect
  <2>3. CASE call[c].step = "start_read" /\ M!CanCycle(NoSession) /\ M!CycleFaulted(Failure, v, NoSession)
    BY <2>1, <2>3 DEF Effect, M!CycleFaulted
  <2>4. CASE call[c].step \in {"stop", "stop_first"} /\ M!CanCycle(NoSession)
             /\ M!CycleStopped(IF v = NoSlaves THEN slaves ELSE v, NoSession)
    <3>1. slaves \in Views
      BY DEF MasterTyped
    <3>2. CASE v = NoSlaves
      BY <2>1, <2>4, <3>1, <3>2 DEF Effect, M!CycleStopped
    <3>3. CASE v # NoSlaves
      BY <2>1, <2>4, <3>3 DEF Effect, M!CycleStopped
    <3>. QED BY <3>2, <3>3
  <2>5. CASE call[c].step \in {"start", "start_read", "stop", "stop_first"} /\ UNCHANGED masterVars
    BY <2>5 DEF Effect, masterVars, Unchanged
  <2>. QED BY <1>7, <2>2, <2>3, <2>4, <2>5 DEF CycleAnswered
<1>8. CASE Accessed(c, v)
  <2>1. CASE call[c].step \in {"access", "check_target"} /\ UNCHANGED masterVars
    BY <2>1 DEF Effect, masterVars, Unchanged
  <2>2. CASE call[c].step \in {"reset", "program"} /\ TopologyLost(NoSlaves, Failure)
    BY <2>2, TopologyRescan, ListFacts DEF Effect, ScanSteps
  <2>3. CASE call[c].step = "program" /\ v # NoSlaves /\ UNCHANGED masterVars
    BY <2>3 DEF Effect, masterVars, Unchanged
  <2>4. CASE call[c].step = "program" /\ UNCHANGED masterVars /\ Then(c, "program_read")
    BY <2>4, ThenTakes DEF Effect, masterVars, Unchanged
  <2>5. CASE call[c].step = "program_read" /\ TopologyLost(v, IF v = NoSlaves THEN Failure ELSE NoError)
    BY <2>5, TopologyRescan DEF Effect, ScanSteps
  <2>. QED BY <1>8, <2>1, <2>2, <2>3, <2>4, <2>5 DEF Accessed
<1>9. CASE Probed(c, v)
  <2>1. CASE UNCHANGED masterVars
    BY <1>9, <2>1 DEF Probed, Effect, masterVars, Unchanged
  <2>2. CASE Updated(v, call[c].session, TRUE)
    BY <1>9, <2>2, UpdatedReads DEF Probed, Effect, ReadSteps
  <2>. QED BY <1>9, <2>1, <2>2 DEF Probed
<1>. QED BY <1>1, <1>2, <1>3, <1>4, <1>6, <1>7, <1>8, <1>9 DEF Succeeds

LEMMA FailsEffect ==
  ASSUME MasterTyped, NEW c \in Callers, NEW v \in Views, Fails(c, v)
  PROVE  Effect(c, v, FALSE)
<1>1. CASE call[c].step \in {"enumerate", "auto_scan", "connect"} /\ ConnectionFailed
  BY <1>1, ClosesEffect DEF Effect
<1>2. CASE call[c].step \in {"stop", "stop_first", "detach_stop", "clear", "request", "start", "access", "reset",
                              "check_target", "program", "end"} /\ UNCHANGED masterVars
  BY <1>2 DEF Effect, masterVars, Unchanged
<1>3. CASE call[c].step = "disconnect" /\ Detached(Failure)
  BY <1>3, ClosesEffect DEF Effect
<1>4. CASE call[c].step = "scan" /\ IF ~stalled /\ M!CanScan THEN M!ScanFailed(Failure) ELSE UNCHANGED masterVars
  <2>1. CASE stalled
    BY <1>4, <2>1 DEF Effect, masterVars, Unchanged
  <2>2. CASE ~stalled
    BY <1>4, <2>2, TopologyRescan, ListFacts DEF Effect, ScanSteps
  <2>. QED BY <2>1, <2>2
<1>5. CASE call[c].step \in {"read", "scan_read", "request_read", "start_read", "recheck"} /\ Recorded(v, NoSession)
  BY <1>5, RecordedReads DEF Effect, ReadSteps
<1>6. CASE call[c].step = "clear_read" /\ IF v # NoSlaves THEN Refreshed(v, TRUE) ELSE Recorded(NoSlaves, NoSession)
  <2>1. CASE v = NoSlaves
    BY <1>6, <2>1, RecordedReads, ListFacts DEF Effect, ReadSteps
  <2>2. CASE v # NoSlaves
    BY <1>6, <2>2, RefreshedReads DEF Effect, ReadSteps
  <2>. QED BY <2>1, <2>2
<1>7. CASE ReconfigurationFails(c)
  BY <1>7, TopologyRescan, ListFacts DEF ReconfigurationFails, Effect, ScanSteps, masterVars, Unchanged
<1>8. CASE call[c].step = "program_read" /\ TopologyLost(NoSlaves, Failure)
  BY <1>8, TopologyRescan, ListFacts DEF Effect, ScanSteps
<1>9. CASE call[c].step = "probe" /\ IF stopped \/ stalled THEN UNCHANGED masterVars ELSE Recorded(v, call[c].session)
  <2>1. CASE UNCHANGED masterVars
    BY <1>9, <2>1 DEF Effect, masterVars, Unchanged
  <2>2. CASE Recorded(v, call[c].session)
    BY <1>9, <2>2, RecordedReads DEF Effect, ReadSteps
  <2>. QED BY <1>9, <2>1, <2>2
<1>. QED BY <1>1, <1>2, <1>3, <1>4, <1>5, <1>6, <1>7, <1>8, <1>9 DEF Fails

\* Every effect keeps the types, and neither begins nor ends a fault.
LEMMA EffectTyped ==
  ASSUME MasterTyped, NEW c, NEW v, NEW done, Effect(c, v, done)
  PROVE  MasterTyped' /\ (phase' = "faulted" <=> phase = "faulted")
<1>1. Closes \/ Opens(v) \/ Opens(NoSlaves) \/ Starts(v) \/ Cycles(v) \/ Cycles(slaves)
        => MasterTyped' /\ (phase' = "faulted" <=> phase = "faulted")
  BY DEF Closes, Opens, Starts, Cycles, Known, Phases
<1>2. Reads(v) \/ Rescan(v) \/ Rescan(NoSlaves) => MasterTyped' /\ (phase' = "faulted" <=> phase = "faulted")
  BY DEF Reads, Rescan
<1>3. Unchanged => MasterTyped' /\ (phase' = "faulted" <=> phase = "faulted")
  BY DEF Unchanged, MasterTyped
<1>. QED BY <1>1, <1>2, <1>3 DEF Effect

-----------------------------------------------------------------------------
(* Types                                                                      *)

\* What the submissions of the commands are operations of.
LEMMA OpFacts ==
  /\ \A s \in {"stop", "stop_first", "detach_stop"} : OpOf(s) = "stop"
  /\ \A s \in {"read", "recheck", "scan_read", "request_read", "reconfig_read", "start_read",
               "program_read", "clear_read"} : OpOf(s) = "read"
  /\ \A s \in {"clear", "reconfig", "access", "reset", "check_target"} : OpOf(s) = "device"
  /\ \A s \in {"enumerate", "auto_scan", "connect", "scan", "disconnect", "program", "request", "start",
               "probe", "end"} : OpOf(s) = s
<1>1. \A s \in {"stop", "stop_first", "detach_stop"} : OpOf(s) = "stop"
  BY DEF OpOf
<1>2. \A s \in {"read", "recheck", "scan_read", "request_read", "reconfig_read", "start_read",
               "program_read", "clear_read"} : OpOf(s) = "read"
  BY DEF OpOf
<1>3. \A s \in {"clear", "reconfig", "access", "reset", "check_target"} : OpOf(s) = "device"
  BY DEF OpOf
<1>4. ASSUME NEW s \in {"enumerate", "auto_scan", "connect", "scan", "disconnect", "program", "request", "start",
               "probe", "end"}
      PROVE  OpOf(s) = s
  <2>1. /\ s \notin {"stop", "stop_first", "detach_stop"}
        /\ s \notin {"read", "recheck", "scan_read", "request_read", "reconfig_read", "start_read",
                     "program_read", "clear_read"}
        /\ s \notin {"clear", "reconfig", "access", "reset", "check_target"}
    OBVIOUS
  <2>. QED BY <2>1 DEF OpOf
<1>. QED BY <1>1, <1>2, <1>3, <1>4

LEMMA OpTyped ==
  ASSUME NEW s \in AllSteps \ {"end"}
  PROVE  OpOf(s) \in W!ClientOps
<1>1. CASE s \in {"stop", "stop_first", "detach_stop"}
  BY <1>1, OpFacts DEF W!ClientOps
<1>2. CASE s \in {"read", "recheck", "scan_read", "request_read", "reconfig_read", "start_read",
               "program_read", "clear_read"}
  BY <1>2, OpFacts DEF W!ClientOps
<1>3. CASE s \in {"clear", "reconfig", "access", "reset", "check_target"}
  BY <1>3, OpFacts DEF W!ClientOps
<1>4. CASE s \in {"enumerate", "auto_scan", "connect", "scan", "disconnect", "program", "request", "start",
               "probe"}
  <2>1. OpOf(s) = s
    BY <1>4, OpFacts
  <2>. QED BY <1>4, <2>1 DEF W!ClientOps
<1>. QED BY <1>1, <1>2, <1>3, <1>4 DEF AllSteps

WorkerSound == WP!Placed /\ WP!Typed /\ WP!Paced

\* The step of a caller on the worker.
Asks(c) ==
  \/ At(c, "submit") /\ W!Submit(c, OpOf(call[c].step), call[c].arg, session)
  \/ W!Cancel(c) \/ W!Collect(c) \/ W!MarkStalled \/ W!Shutdown \/ UNCHANGED workerVars

LEMMA AskedTask ==
  ASSUME Locks, MasterTyped, NEW c \in Callers, At(c, "submit")
  PROVE  WP!Task(c, OpOf(call[c].step), call[c].arg, session) \in WP!Tasks
<1>1. call[c].step \in AllSteps \ {"end"} /\ call[c].arg \in AlStates
  BY DEF Locks, CallTyped, At
<1>2. OpOf(call[c].step) \in WP!ClientOps
  BY <1>1, OpTyped, SameViews
<1>3. call[c].arg \in WP!AlStates /\ session \in Nat
  BY <1>1, SameViews DEF MasterTyped
<1>. QED BY <1>2, <1>3 DEF WP!Task, WP!Tasks

LEMMA AskingKeepsWorker ==
  ASSUME WorkerSound, Locks, MasterTyped, NEW c \in Callers, Asks(c) \/ W!PollEvents
  PROVE  WorkerSound'
<1> DEFINE op == OpOf(call[c].step)
           a == call[c].arg
<1>1. \/ At(c, "submit") /\ WP!Submit(c, op, a, session)
      \/ WP!Cancel(c) \/ WP!Collect(c) \/ WP!MarkStalled \/ WP!Shutdown \/ WP!PollEvents \/ UNCHANGED WP!vars
  <2>1. UNCHANGED workerVars => UNCHANGED WP!vars
    BY DEF workerVars, WP!vars, WP!loopVars, WP!futVars, WP!cycleVars, WP!busVars
  <2>. QED BY <2>1, SameClients DEF Asks
<1>2. At(c, "submit") => WP!Task(c, op, a, session) \in WP!Tasks
  BY AskedTask
<1> HIDE DEF op, a
<1>3. WP!Typed'
  BY <1>1, WorkerFits, WP!ClientTyped DEF WorkerSound
<1>4. WP!Paced'
  BY <1>1, WorkerFits, WP!ClientPaced DEF WorkerSound
<1>5. WP!Placed'
  <2>1. CASE At(c, "submit") /\ WP!Submit(c, op, a, session)
    BY <1>2, <2>1, WorkerFits, WP!SubmitStaysPlaced DEF WorkerSound
  <2>2. CASE WP!Cancel(c)
    BY <2>2, WorkerFits, WP!CancelStaysPlaced DEF WorkerSound
  <2>3. CASE WP!Collect(c)
    BY <2>3, WorkerFits, WP!CollectStaysPlaced DEF WorkerSound
  <2>4. CASE WP!Shutdown
    BY <2>4, WorkerFits, WP!ShutdownStaysPlaced DEF WorkerSound
  <2>5. CASE WP!MarkStalled \/ WP!PollEvents \/ UNCHANGED WP!vars
    <3>1. UNCHANGED <<queue, held, fut, wpc>>
      BY <2>5 DEF WP!MarkStalled, WP!PollEvents, WP!vars, WP!loopVars, WP!futVars
    <3>. QED BY <3>1, WorkerFits, WP!StillStaysPlaced DEF WorkerSound
  <2>. QED BY <1>1, <2>1, <2>2, <2>3, <2>4, <2>5
<1>. QED BY <1>3, <1>4, <1>5 DEF WorkerSound

LEMMA LoopKeepsWorker ==
  ASSUME WorkerSound, W!Loop
  PROVE  WorkerSound'
<1>1. WP!Loop
  BY SameLoop
<1>2. WP!Placed'
  <2>1. WP!Next
    BY <1>1 DEF WP!Next
  <2>. QED BY <2>1, WorkerFits, WP!NextPlaced DEF WorkerSound
<1>3. WP!Typed'
  <2>1. held \in WP!Tasks
    BY DEF WorkerSound, WP!Placed
  <2>. QED BY <1>1, <2>1, WorkerFits, WP!LoopTyped DEF WorkerSound
<1>4. WP!Paced'
  BY <1>1, WorkerFits, WP!LoopPaced
<1>. QED BY <1>2, <1>3, <1>4 DEF WorkerSound

\* A worker that has just been created.
FreshFlags == stop = FALSE /\ cyc = FALSE /\ conn = FALSE
FreshWorker ==
  /\ wpc = "start" /\ queue = << >> /\ held = WP!NoTask
  /\ fut = [d \in Callers |-> "none"] /\ res = [d \in Callers |-> NoSlaves]
  /\ cycSession = NoSession /\ events = << >> /\ bus = NoSlaves
  /\ FreshFlags

LEMMA FreshWorkerSound ==
  FreshWorker => WorkerSound
<1> SUFFICES ASSUME FreshWorker
             PROVE  WorkerSound
  OBVIOUS
<1>1. WP!NoTask \in WP!Tasks /\ WP!NoTask.live = FALSE
  BY DEF WP!NoTask, WP!Tasks, WP!AlStates
<1>2. queue = << >> /\ held = WP!NoTask /\ fut = [d \in Callers |-> "none"] /\ wpc = "start"
  BY SameViews DEF FreshWorker
<1>3. WP!Placed
  <2>1. queue \in Seq(WP!Tasks) /\ Len(queue) = 0
    BY <1>2
  <2>2. fut \in [Callers -> WP!FutStates]
    BY <1>2 DEF WP!FutStates
  <2>. QED BY <1>1, <1>2, <2>1, <2>2 DEF WP!Placed, WP!RunsItsOwn, WP!Waiting, WP!Holds, WP!At
<1>4. WP!Typed
  <2>1. cyc \in BOOLEAN /\ conn \in BOOLEAN
    BY Zenon DEF FreshWorker, FreshFlags
  <2>2. events \in Seq(WP!EventTypes)
    BY DEF FreshWorker
  <2>3. NoSlaves \in WP!Views
    BY SameViews, ListFacts
  <2>. QED BY <2>1, <2>2, <2>3 DEF FreshWorker, WP!Typed
<1>5. WP!Paced
  BY <1>2 DEF WP!Paced
<1>. QED BY <1>3, <1>4, <1>5 DEF WorkerSound
LEMMA FreshWorkerNext == FreshWorker' => WorkerSound'
BY FreshWorkerSound, PTL

\* An event in the hands of the event loop.
BatchTypes == [kind : {"worker_fatal", "worker_lost", "slaves_changed", "cycle_fault"},
               session : Nat \cup {NoSession}, slaves : Views]

Types == Inv /\ Locks /\ WorkerSound /\ MasterTyped /\ batch \in Seq(BatchTypes)

Faults ==
  /\ MasterTyped' /\ phase' = "faulted" /\ slaves' = NoSlaves
  /\ IF phase = "faulted" THEN session' = session ELSE Renews
Switches == MasterTyped' /\ phase' = "disconnected" /\ slaves' = NoSlaves /\ Renews

LEMMA FaultedFaults ==
  ASSUME MasterTyped, M!Faulted(Failure)
  PROVE  Faults
<1>1. M!Replace("faulted", NoAdapter, NoSlaves, Failure, phase # "faulted")
  BY SameViews DEF M!Faulted
<1>2. MasterTyped' /\ phase' = "faulted" /\ slaves' = NoSlaves
      /\ IF phase # "faulted" THEN Renews ELSE session' = session
  BY <1>1, PublishTyped, ListFacts DEF Phases, Known
<1>. QED BY <1>2 DEF Faults

LEMMA SwitchSwitches ==
  ASSUME MasterTyped, NEW m, M!SwitchMode(m)
  PROVE  Switches
<1>1. M!Replace("disconnected", NoAdapter, NoSlaves, NoError, TRUE)
  BY SameViews DEF M!SwitchMode
<1>. QED BY <1>1, PublishTyped, ListFacts DEF Phases, Known, Switches

\* The first event of a batch.
LEMMA HeadFacts ==
  ASSUME batch \in Seq(BatchTypes), batch # << >>
  PROVE  /\ Head(batch) \in BatchTypes /\ Head(batch) = batch[1] /\ Tail(batch) \in Seq(BatchTypes)
         /\ Len(batch) \in Nat \ {0} /\ Len(Tail(batch)) = Len(batch) - 1
         /\ \A i \in 1 .. Len(Tail(batch)) : Tail(batch)[i] = batch[i + 1]
  OBVIOUS

\* What the event loop does with an event.
Handles(e) ==
  \/ /\ Unchanged /\ batch' = Tail(batch) /\ (stalled' <=> stalled)
     /\ e.session # NoSession \/ e.kind = "cycle_fault"
  \/ /\ e.kind = "slaves_changed" /\ e.session \in {NoSession, session}
     /\ Reads(e.slaves) /\ batch' = Tail(batch) /\ (stalled' <=> stalled)
  \/ e.kind = "cycle_fault" /\ Cycles(slaves) /\ batch' = Tail(batch) /\ (stalled' <=> stalled)
  \/ /\ e.kind = "worker_fatal" /\ Unchanged /\ stalled'
     /\ batch' = <<[kind |-> "worker_lost", session |-> e.session, slaves |-> e.slaves]>> \o Tail(batch)
  \/ e.kind = "worker_lost" /\ Faults /\ batch' = Tail(batch) /\ (stalled' <=> stalled)

LEMMA HandleHandles ==
  ASSUME MasterTyped, batch \in Seq(BatchTypes), HandleEvent
  PROVE  batch # << >> /\ Handles(Head(batch))
<1> DEFINE e == Head(batch)
<1>1. batch # << >> /\ e \in BatchTypes
  BY HeadFacts DEF HandleEvent
<1>2. CASE ~M!SessionHolds(SessionOf(e)) /\ batch' = Tail(batch) /\ UNCHANGED <<masterVars, stalled>>
  BY <1>1, <1>2 DEF Handles, Unchanged, masterVars, M!SessionHolds, SessionOf
<1>3. CASE /\ e.kind = "slaves_changed" /\ M!SessionHolds(SessionOf(e))
           /\ Updated(e.slaves, SessionOf(e), FALSE)
           /\ batch' = Tail(batch) /\ UNCHANGED stalled
  <2>1. e.slaves \in Views
    BY <1>1 DEF BatchTypes
  <2>2. Reads(e.slaves)
    BY <1>3, <2>1, UpdatedReads
  <2>. QED BY <1>1, <1>3, <2>2 DEF Handles, M!SessionHolds, SessionOf
<1>7. CASE e.kind = "cycle_fault" /\ batch' = Tail(batch) /\ UNCHANGED <<masterVars, stalled>>
  BY <1>1, <1>7 DEF Handles, Unchanged, masterVars
<1>4. CASE /\ e.kind = "cycle_fault" /\ M!CanCycle(SessionOf(e))
           /\ M!CycleFaulted(Failure, slaves, SessionOf(e))
           /\ batch' = Tail(batch) /\ UNCHANGED stalled
  <2>1. slaves \in Views
    BY DEF MasterTyped
  <2>2. M!Scanned(slaves) \in Phases /\ (slaves # NoSlaves <=> M!Scanned(slaves) \in Known)
    BY ScannedIs DEF Phases, Known
  <2>3. M!Replace(M!Scanned(slaves), adapter, slaves, Failure, FALSE)
    BY <1>4 DEF M!CycleFaulted
  <2>4. MasterTyped' /\ phase' = M!Scanned(slaves) /\ slaves' = slaves /\ session' = session
    BY <2>1, <2>2, <2>3, PublishTyped
  <2>5. Cycles(slaves)
    BY <1>4, <2>4, ScannedIs DEF Cycles, M!CanCycle, Known
  <2>. QED BY <1>1, <1>4, <2>5 DEF Handles
<1>5. CASE /\ e.kind = "worker_fatal" /\ stalled' = TRUE
           /\ batch' = <<[e EXCEPT !.kind = "worker_lost"]>> \o Tail(batch) /\ UNCHANGED masterVars
  <2>1. [e EXCEPT !.kind = "worker_lost"] = [kind |-> "worker_lost", session |-> e.session, slaves |-> e.slaves]
    BY <1>1 DEF BatchTypes
  <2>. QED BY <1>1, <1>5, <2>1 DEF Handles, Unchanged, masterVars
<1>6. CASE e.kind = "worker_lost" /\ M!Faulted(Failure) /\ batch' = Tail(batch) /\ UNCHANGED stalled
  BY <1>1, <1>6, FaultedFaults DEF Handles
<1>. QED BY <1>1, <1>2, <1>3, <1>4, <1>5, <1>6, <1>7 DEF HandleEvent

LEMMA UnchangedTyped ==
  ASSUME MasterTyped, Unchanged
  PROVE  MasterTyped'
BY DEF MasterTyped, Unchanged

LEMMA HandlesTyped ==
  ASSUME MasterTyped, batch \in Seq(BatchTypes), batch # << >>, Handles(Head(batch))
  PROVE  MasterTyped' /\ batch' \in Seq(BatchTypes)
<1> DEFINE e == Head(batch)
<1>a. Unchanged \/ Reads(e.slaves) \/ Cycles(slaves) \/ Faults
  BY Zenon DEF Handles
<1>b. \/ batch' = Tail(batch)
      \/ batch' = <<[kind |-> "worker_lost", session |-> e.session, slaves |-> e.slaves]>> \o Tail(batch)
  BY Zenon DEF Handles
<1>1. MasterTyped'
  BY <1>a, UnchangedTyped DEF Reads, Cycles, Faults
<1>2. Tail(batch) \in Seq(BatchTypes) /\ Head(batch) \in BatchTypes
  BY HeadFacts
<1>3. [kind |-> "worker_lost", session |-> Head(batch).session, slaves |-> Head(batch).slaves] \in BatchTypes
  BY <1>2 DEF BatchTypes
<1>4. \A t \in BatchTypes : <<t>> \o Tail(batch) \in Seq(BatchTypes)
  BY <1>2
<1>. QED BY <1>b, <1>1, <1>2, <1>3, <1>4

\* The answer of a submission that ends with a result, or without one.
Answers(c, v, done) ==
  /\ v \in Views /\ GoesOn(c) /\ Effect(c, v, done)
  /\ \/ At(c, "await") /\ W!Collect(c) /\ v = res[c] /\ fut[c] \in {"done", "failed"} /\ (done <=> fut[c] = "done")
     \/ At(c, "refused") /\ UNCHANGED workerVars /\ ~done /\ v = NoSlaves

LEMMA ContinueAnswers ==
  ASSUME CallersTyped, WorkerSound, MasterTyped, NEW c \in Callers, Continue(c)
  PROVE  \E v : \E done \in BOOLEAN : Answers(c, v, done)
<1>1. CASE At(c, "await") /\ W!Collect(c) /\ IF fut[c] = "done" THEN Succeeds(c, res[c]) ELSE Fails(c, res[c])
  <2>1. res[c] \in Views /\ fut[c] \in {"done", "failed"}
    BY <1>1, SameViews DEF WorkerSound, WP!Typed, W!Collect
  <2>2. CASE fut[c] = "done"
    <3>1. GoesOn(c) /\ Effect(c, res[c], TRUE)
      BY <1>1, <2>1, <2>2, AnswersGoOn, SucceedsEffect
    <3>. QED BY <1>1, <2>1, <2>2, <3>1 DEF Answers
  <2>3. CASE fut[c] # "done"
    <3>1. GoesOn(c) /\ Effect(c, res[c], FALSE)
      BY <1>1, <2>1, <2>3, AnswersGoOn, FailsEffect
    <3>. QED BY <1>1, <2>1, <2>3, <3>1 DEF Answers
  <2>. QED BY <2>2, <2>3
<1>2. CASE At(c, "refused") /\ UNCHANGED workerVars /\ Fails(c, NoSlaves)
  <2>1. GoesOn(c) /\ Effect(c, NoSlaves, FALSE)
    BY <1>2, AnswersGoOn, FailsEffect, ListFacts
  <2>. QED BY <1>2, <2>1, ListFacts DEF Answers
<1>. QED BY <1>1, <1>2 DEF Continue

\* The worker that replaces another one.
LEMMA NewWorkerFresh ==
  ASSUME NewWorker
  PROVE  FreshWorker'
<1>1. W!NoSlaves = NoSlaves /\ W!NoTask = WP!NoTask
  BY SameViews
<1>2. /\ wpc' = "start" /\ queue' = << >> /\ held' = WP!NoTask
      /\ fut' = [d \in Callers |-> "none"] /\ res' = [d \in Callers |-> NoSlaves]
      /\ cycSession' = NoSession /\ events' = << >> /\ bus' = NoSlaves
  BY <1>1 DEF NewWorker
<1>3. FreshFlags'
  BY Zenon DEF NewWorker, FreshFlags
<1>4. WP!NoTask' = WP!NoTask
  BY DEF WP!NoTask
<1>. QED BY <1>2, <1>3, <1>4 DEF FreshWorker

\* The events of the worker may be polled.
LEMMA EventsTyped ==
  ASSUME Types
  PROVE  events \in Seq(BatchTypes)
<1>1. events \in Seq(WP!EventTypes) /\ WP!EventTypes \subseteq BatchTypes
  BY SameViews DEF Types, WorkerSound, WP!Typed, WP!EventTypes, WP!EventKinds, BatchTypes
<1>. QED BY <1>1

\* What a caller does besides handling its answers.
LEMMA RunTyped ==
  ASSUME Types, NEW c \in Callers, Run(c)
  PROVE  MasterTyped' /\ WorkerSound' /\ batch' \in Seq(BatchTypes)
<1>1. batch' \in Seq(BatchTypes)
  <2>1. batch' = batch \/ batch' = events
    BY DEF Run, Acquire, Dispatch, Submit, TimeOut, Continue, Fault, FaultMaster, Unreserve,
           StopWorker, Replace, LastPoll, SwitchMode, JoinEnds
  <2>. QED BY <2>1, EventsTyped DEF Types
<1>2. MasterTyped'
  <2>1. CASE UNCHANGED masterVars
    BY <2>1, UnchangedTyped DEF masterVars, Unchanged, Types
  <2>2. CASE Continue(c)
    BY <2>2, ContinueAnswers, EffectTyped DEF Types, Inv, Answers
  <2>3. CASE FaultMaster(c)
    BY <2>3, FaultedFaults DEF FaultMaster, Faults, Types
  <2>4. CASE SwitchMode(c)
    BY <2>1, <2>4, SwitchSwitches DEF SwitchMode, Switches, Types
  <2>5. Run(c) => UNCHANGED masterVars \/ Continue(c) \/ FaultMaster(c) \/ SwitchMode(c)
    BY DEF Run, Acquire, Dispatch, Submit, TimeOut, Fault, Unreserve, StopWorker, Replace, JoinEnds
  <2>. QED BY <2>1, <2>2, <2>3, <2>4, <2>5
<1>3. WorkerSound'
  <2>1. CASE Replace(c)
    <3>1. FreshWorker'
      BY <2>1, NewWorkerFresh DEF Replace
    <3>. QED BY <3>1, FreshWorkerNext
  <2>2. CASE Asks(c)
    BY <2>2, AskingKeepsWorker DEF Types
  <2>3. Run(c) => Replace(c) \/ Asks(c)
    BY DEF Run, Asks, Acquire, Dispatch, Submit, TimeOut, Continue, Fault, FaultMaster, Unreserve,
           StopWorker, SwitchMode, JoinEnds
  <2>. QED BY <2>1, <2>2, <2>3
<1>. QED BY <1>1, <1>2, <1>3

-----------------------------------------------------------------------------
(* The steps of the bridge, as far as the invariants below tell them apart    *)

Quiet == Unchanged /\ UNCHANGED workerVars /\ (stalled' <=> stalled) /\ batch' = batch
Working == {"submit", "await", "refused", "fault", "faulting"}

\* What a command may submit first.
Chosen(r) ==
  /\ r.step \notin {"auto_scan", "program", "program_read"}
  /\ r.step \in {"enumerate", "connect"} => phase \notin Opened
  /\ r.step \in {"scan", "check_target"} => phase # "cyclic"
  /\ r.step = "check_target" =>
       slaves # NoSlaves /\ (r.method = "eeprom_flash" => r.session = session)

\* A caller begins, waits for the command lock, dispatches its command or ends.
Rests(c) ==
  /\ Quiet /\ OthersStay(c) /\ call[c].stage \notin Working \cup {"switch"}
  /\ \/ call'[c].stage \in {"idle", "admitted", "ready", "unreserve"}
     \/ call'[c].stage = "replace" /\ (call'[c].method = "switch_mode" => phase \notin Opened)
     \/ call'[c].stage = "submit" /\ Chosen(call'[c])
Submits(c) ==
  /\ At(c, "submit") /\ Unchanged /\ (stalled' <=> stalled) /\ batch' = batch
  /\ \/ stalled /\ Takes(c, "refused", call[c].step) /\ UNCHANGED workerVars
     \/ /\ ~stalled /\ Takes(c, "await", call[c].step)
        /\ WP!Submit(c, OpOf(call[c].step), call[c].arg, session)
TimesOut(c) ==
  /\ At(c, "await") /\ Unchanged /\ (stalled' <=> stalled) /\ batch' = batch
  /\ \/ WP!Cancel(c) /\ \E s \in {"fault", "refused"} : Takes(c, s, call[c].step)
     \/ fut[c] = "running" /\ UNCHANGED workerVars /\ Takes(c, "fault", call[c].step)
     \/ WP!Collect(c) /\ Takes(c, "fault", call[c].step)
Continues(c) ==
  /\ (stalled' <=> stalled) /\ batch' = batch
  /\ \E v \in Views : \E done \in BOOLEAN :
       /\ GoesOn(c) /\ Effect(c, v, done)
       /\ \/ /\ At(c, "await") /\ WP!Collect(c) /\ v = res[c]
             /\ fut[c] \in {"done", "failed"} /\ (done <=> fut[c] = "done")
          \/ At(c, "refused") /\ UNCHANGED workerVars /\ ~done /\ v = NoSlaves
GivesUp(c) ==
  /\ At(c, "fault") /\ Unchanged /\ batch' = batch
  /\ \/ stalled /\ (stalled' <=> stalled) /\ Takes(c, "refused", call[c].step) /\ UNCHANGED workerVars
     \/ ~stalled /\ stalled' /\ Takes(c, "faulting", call[c].step) /\ WP!MarkStalled
FaultsMaster(c) ==
  /\ At(c, "faulting") /\ Faults /\ (stalled' <=> stalled) /\ batch' = batch
  /\ Takes(c, "refused", call[c].step) /\ UNCHANGED workerVars
Stops(c) ==
  /\ At(c, "replace") /\ Unchanged /\ (stalled' <=> stalled) /\ batch' = batch
  /\ Takes(c, "join", call[c].step) /\ WP!Shutdown
Renovates(c) ==
  /\ At(c, "join") /\ call[c].method = "switch_mode" /\ wpc = "dead"
  /\ Unchanged /\ ~stalled' /\ (batch' = batch \/ (batch = << >> /\ batch' = events))
  /\ Takes(c, "switch", call[c].step) /\ FreshWorker'
SwitchesMode(c) ==
  /\ At(c, "switch") /\ (stalled' <=> stalled) /\ batch' = batch /\ UNCHANGED workerVars
  /\ Ends(c) /\ (Switches \/ (Unchanged /\ phase \notin {"disconnected", "faulted"}))
Polls ==
  /\ Unchanged /\ (stalled' <=> stalled) /\ call' = call
  /\ WP!PollEvents /\ batch = << >> /\ batch' = events
HandlesEvent ==
  /\ UNCHANGED workerVars /\ call' = call
  /\ batch # << >> /\ Handles(Head(batch))
Works == Unchanged /\ (stalled' <=> stalled) /\ batch' = batch /\ call' = call /\ WP!Loop
Still == Quiet /\ call' = call

Moved(c) ==
  \/ Rests(c) \/ Submits(c) \/ TimesOut(c) \/ Continues(c) \/ GivesUp(c) \/ FaultsMaster(c)
  \/ Stops(c) \/ Renovates(c) \/ SwitchesMode(c)
Stepped == (\E c \in Callers : Moved(c)) \/ Polls \/ HandlesEvent \/ Works \/ Still

LEMMA SameConnected == (M!connected <=> phase \in Opened) /\ (M!cycleRunning <=> phase = "cyclic")
BY DEF M!connected, M!cycleRunning, Opened

LEMMA QuietIs ==
  ASSUME UNCHANGED <<masterVars, workerVars, stalled, batch>>
  PROVE  Quiet
BY DEF Quiet, Unchanged, masterVars

\* Callers that wait for the command lock, or dispatch a command.
LEMMA RestingSteps ==
  ASSUME CallersTyped, NEW c \in Callers,
         Acquire(c) \/ Dispatch(c) \/ Unreserve(c) \/ JoinEnds(c)
  PROVE  Rests(c)
<1>1. Quiet
  BY QuietIs DEF Acquire, Dispatch, Unreserve, JoinEnds
<1>2. /\ Leaves(c) => OthersStay(c) /\ call'[c].stage = "idle"
      /\ Ends(c) => OthersStay(c) /\ call'[c].stage \in {"idle", "unreserve"}
  BY DEF Leaves, Ends, Takes, Idle
<1>3. CASE Acquire(c)
  <2>1. Leaves(c) \/ Takes(c, "ready", call[c].step)
    BY <1>3, IdleLeaves, GotoTakes DEF Acquire
  <2>. QED BY <1>1, <1>2, <1>3, <2>1 DEF Acquire, Rests, At, Takes, Working
<1>4. CASE Unreserve(c)
  BY <1>1, <1>2, <1>4, IdleLeaves DEF Unreserve, Rests, At, Working
<1>5. CASE JoinEnds(c)
  <2>1. Leaves(c) \/ Ends(c)
    BY <1>5, IdleLeaves, EndEnds DEF JoinEnds
  <2>. QED BY <1>1, <1>2, <1>5, <2>1 DEF JoinEnds, Rests, At, Working
<1>6. CASE Dispatch(c)
  <2>0. At(c, "ready") /\ call[c].stage \notin Working \cup {"switch"}
    BY <1>6 DEF Dispatch, At, Working
  <2>1. ASSUME NEW s, Then(c, s),
               s \notin {"auto_scan", "program", "program_read", "enumerate", "connect", "scan", "check_target"}
        PROVE  Rests(c)
    <3>1. Takes(c, "submit", s)
      BY <2>1, ThenTakes
    <3>. QED BY <1>1, <2>0, <2>1, <3>1 DEF Takes, Rests, Chosen
  <2>2. CASE End(c)
    BY <1>1, <1>2, <2>0, <2>2, EndEnds DEF Rests
  <2>3. CASE call[c].method = "switch_mode" /\ ~M!connected /\ Goto(c, "replace")
    <3>1. Takes(c, "replace", call[c].step)
      BY <2>3, GotoTakes
    <3>. QED BY <1>1, <2>0, <2>3, <3>1, SameConnected DEF Takes, Rests
  <2>4. CASE ~M!cycleRunning /\ TargetHolds(c) /\ Then(c, "check_target")
    <3>1. Takes(c, "submit", "check_target")
      BY <2>4, ThenTakes
    <3>2. Chosen(call'[c]) /\ call'[c].stage = "submit"
      BY <2>4, <3>1, SameConnected DEF Takes, Chosen, TargetHolds
    <3>. QED BY <1>1, <2>0, <3>1, <3>2 DEF Takes, Rests
  <2>5. CASE M!connected /\ ~M!cycleRunning /\ Then(c, "scan")
    <3>1. Takes(c, "submit", "scan")
      BY <2>5, ThenTakes
    <3>2. Chosen(call'[c]) /\ call'[c].stage = "submit"
      BY <2>5, <3>1, SameConnected DEF Takes, Chosen
    <3>. QED BY <1>1, <2>0, <3>1, <3>2 DEF Takes, Rests
  <2>6. ASSUME NEW s \in {"enumerate", "connect"}, ~M!connected, Then(c, s)
        PROVE  Rests(c)
    <3>1. Takes(c, "submit", s)
      BY <2>6, ThenTakes
    <3>2. Chosen(call'[c]) /\ call'[c].stage = "submit"
      BY <2>6, <3>1, SameConnected DEF Takes, Chosen
    <3>. QED BY <1>1, <2>0, <3>1, <3>2 DEF Takes, Rests
  <2>7. /\ \A m \in DOMAIN Ungated : Ungated[m] \in {"read", "access", "stop", "reset"}
        /\ \A m \in DOMAIN NeedsIdleBus : NeedsIdleBus[m] \in {"clear", "reconfig", "start"}
        /\ \A m \in DOMAIN NeedsNoConnection : NeedsNoConnection[m] \in {"enumerate", "connect"}
    BY DEF Ungated, NeedsIdleBus, NeedsNoConnection
  <2>8. CASE call[c].method \in DOMAIN Ungated /\ Then(c, Ungated[call[c].method])
    BY <2>1, <2>7, <2>8
  <2>9. CASE call[c].method \in DOMAIN NeedsIdleBus /\ Then(c, NeedsIdleBus[call[c].method])
    BY <2>1, <2>7, <2>9
  <2>10. CASE call[c].method \in DOMAIN NeedsNoConnection /\ ~M!connected
              /\ Then(c, NeedsNoConnection[call[c].method])
    BY <2>6, <2>7, <2>10
  <2>11. CASE \/ Then(c, IF M!cycleRunning THEN "detach_stop" ELSE "disconnect")
              \/ Then(c, IF ~M!cycleRunning THEN "request"
                         ELSE IF call[c].arg = "op" THEN "recheck" ELSE "stop_first")
    BY <2>1, <2>11
  <2>. QED BY <1>6, <2>2, <2>3, <2>4, <2>5, <2>8, <2>9, <2>10, <2>11 DEF Dispatch
<1>. QED BY <1>3, <1>4, <1>5, <1>6

\* Callers that begin.
LEMMA BeginningSteps ==
  ASSUME Types, NEW c, NEW m, NEW a, NEW t, Issue(c, m, a, t) \/ Probe \/ ShutDown
  PROVE  \E d \in Callers : Rests(d)
<1>1. CASE Issue(c, m, a, t)
  <2> DEFINE n == [method |-> m, stage |-> "admitted", step |-> "end", arg |-> a,
                   session |-> t, view |-> NoSlaves]
  <2>1. c \in Callers /\ call[c].stage = "idle" /\ Quiet
    BY <1>1, CallersDiffer, QuietIs DEF Issue, Admits, At
  <2>2. call' = [call EXCEPT ![c] = n] /\ n.stage = "admitted"
    BY <1>1 DEF Issue
  <2> HIDE DEF n
  <2>3. OthersStay(c) /\ call'[c].stage = "admitted"
    BY <2>1, <2>2 DEF OthersStay, Types, Inv, CallersTyped
  <2>. QED BY <2>1, <2>3 DEF Rests, Working
<1>2. CASE Probe
  <2> DEFINE n == [method |-> "probe", stage |-> "submit", step |-> "probe", arg |-> "low",
                   session |-> session, view |-> slaves]
  <2>1. IdleMonitor \in Callers /\ call[IdleMonitor].stage = "idle" /\ Quiet
    BY <1>2, CallersDiffer, QuietIs DEF Probe, At
  <2>2. call' = [call EXCEPT ![IdleMonitor] = n] /\ n.stage = "submit" /\ n.step = "probe"
    BY <1>2 DEF Probe
  <2> HIDE DEF n
  <2>3. OthersStay(IdleMonitor) /\ call'[IdleMonitor].stage = "submit" /\ call'[IdleMonitor].step = "probe"
    BY <2>1, <2>2 DEF OthersStay, Types, Inv, CallersTyped
  <2>. QED BY <2>1, <2>3 DEF Rests, Chosen, Working
<1>3. CASE ShutDown
  <2> DEFINE n == [Idle EXCEPT !.method = "shutdown", !.stage = "replace"]
  <2>1. Control \in Callers /\ Quiet
    BY <1>3, CallersDiffer, QuietIs DEF ShutDown
  <2>2. call' = [call EXCEPT ![Control] = n] /\ n.stage = "replace" /\ n.method = "shutdown"
    BY <1>3 DEF ShutDown, Idle
  <2> HIDE DEF n
  <2>3. OthersStay(Control) /\ call'[Control].stage = "replace" /\ call'[Control].method = "shutdown"
    BY <2>1, <2>2 DEF OthersStay, Types, Inv, CallersTyped
  <2>4. call[Control].stage \in {"idle", "replace", "join"}
    BY DEF Types, Locks
  <2>. QED BY <2>1, <2>3, <2>4 DEF Rests, Working
<1>. QED BY <1>1, <1>2, <1>3

\* Callers that wait for the worker, or deal with it.
LEMMA WorkingSteps ==
  ASSUME Types, NEW c \in Callers,
         \/ Submit(c) \/ TimeOut(c) \/ Continue(c) \/ Fault(c) \/ FaultMaster(c)
         \/ StopWorker(c) \/ Replace(c) \/ SwitchMode(c)
  PROVE  Moved(c)
<1>0. CallersTyped /\ MasterTyped /\ WorkerSound
  BY DEF Types, Inv
<1>g. \A s : Goto(c, s) => Takes(c, s, call[c].step)
  BY <1>0, GotoTakes
<1>m. UNCHANGED masterVars => Unchanged
  BY DEF masterVars, Unchanged
<1>1. CASE Submit(c)
  <2>1. W!Submit(c, OpOf(call[c].step), call[c].arg, session)
          => WP!Submit(c, OpOf(call[c].step), call[c].arg, session)
    BY SameClients
  <2>. QED BY <1>1, <1>g, <1>m, <2>1 DEF Submit, Submits, Moved
<1>2. CASE TimeOut(c)
  <2>1. (W!Cancel(c) => WP!Cancel(c)) /\ (W!Collect(c) => WP!Collect(c))
    BY SameClients
  <2>2. Goto(c, IF call[c].step = "auto_scan" THEN "fault" ELSE "refused")
          => \E s \in {"fault", "refused"} : Takes(c, s, call[c].step)
    BY <1>g
  <2>3. Goto(c, "fault") => Takes(c, "fault", call[c].step)
    BY <1>g
  <2>4. At(c, "await") /\ (stalled' <=> stalled) /\ batch' = batch /\ Unchanged
    BY <1>2, <1>m DEF TimeOut
  <2>5. CASE W!Cancel(c) /\ Goto(c, IF call[c].step = "auto_scan" THEN "fault" ELSE "refused")
    BY <2>1, <2>2, <2>4, <2>5 DEF TimesOut, Moved
  <2>6. CASE fut[c] = "running" /\ UNCHANGED workerVars /\ Goto(c, "fault")
    BY <2>3, <2>4, <2>6 DEF TimesOut, Moved
  <2>7. CASE W!Collect(c) /\ Goto(c, "fault")
    BY <2>1, <2>3, <2>4, <2>7 DEF TimesOut, Moved
  <2>. QED BY <1>2, <2>5, <2>6, <2>7 DEF TimeOut
<1>3. CASE Continue(c)
  <2>0. PICK v : \E done \in BOOLEAN : Answers(c, v, done)
    BY <1>0, <1>3, ContinueAnswers
  <2>1. PICK done \in BOOLEAN : Answers(c, v, done)
    BY <2>0
  <2>2. W!Collect(c) => WP!Collect(c)
    BY SameClients
  <2>3. v \in Views /\ GoesOn(c) /\ Effect(c, v, done)
    BY <2>1 DEF Answers
  <2>4. \/ At(c, "await") /\ WP!Collect(c) /\ v = res[c] /\ fut[c] \in {"done", "failed"} /\ (done <=> fut[c] = "done")
        \/ At(c, "refused") /\ UNCHANGED workerVars /\ ~done /\ v = NoSlaves
    BY <2>1, <2>2 DEF Answers
  <2>5. (stalled' <=> stalled) /\ batch' = batch
    BY <1>3 DEF Continue
  <2>. QED BY <2>3, <2>4, <2>5 DEF Continues, Moved
<1>4. CASE Fault(c)
  <2>1. W!MarkStalled => WP!MarkStalled
    BY SameClients
  <2>. QED BY <1>4, <1>g, <1>m, <2>1 DEF Fault, GivesUp, Moved
<1>5. CASE FaultMaster(c)
  BY <1>0, <1>5, <1>g, FaultedFaults DEF FaultMaster, FaultsMaster, Moved
<1>6. CASE StopWorker(c)
  <2>1. W!Shutdown => WP!Shutdown
    BY SameClients
  <2>. QED BY <1>6, <1>g, <1>m, <2>1 DEF StopWorker, Stops, Moved
<1>7. CASE Replace(c)
  <2>1. NewWorker => FreshWorker'
    BY NewWorkerFresh
  <2>2. batch' = batch \/ (batch = << >> /\ batch' = events)
    BY <1>7 DEF Replace, LastPoll, Fetched
  <2>. QED BY <1>7, <1>g, <1>m, <2>1, <2>2 DEF Replace, Joined, Renovates, Moved, At
<1>8. CASE SwitchMode(c)
  <2>1. Ends(c)
    BY <1>0, <1>8, EndEnds DEF SwitchMode
  <2>2. Switches \/ (Unchanged /\ phase \notin {"disconnected", "faulted"})
    BY <1>0, <1>8, <1>m, SwitchSwitches DEF SwitchMode
  <2>. QED BY <1>8, <2>1, <2>2 DEF SwitchMode, SwitchesMode, Moved
<1>. QED BY <1>1, <1>2, <1>3, <1>4, <1>5, <1>6, <1>7, <1>8

LEMMA NextStepped ==
  ASSUME Types, [Next]_vars
  PROVE  Stepped
<1>1. ASSUME NEW c \in Hardware, NEW m, NEW a, NEW t, Issue(c, m, a, t)
      PROVE  Stepped
  BY <1>1, BeginningSteps DEF Moved, Stepped
<1>2. CASE Probe \/ ShutDown
  BY <1>2, BeginningSteps DEF Moved, Stepped
<1>3. ASSUME NEW c \in Callers, Run(c)
      PROVE  Stepped
  <2>1. Acquire(c) \/ Dispatch(c) \/ Unreserve(c) \/ JoinEnds(c) => Moved(c)
    BY RestingSteps DEF Types, Inv, Moved
  <2>. QED BY <1>3, <2>1, WorkingSteps DEF Run, Stepped
<1>m. UNCHANGED masterVars => Unchanged
  BY DEF masterVars, Unchanged
<1>4. CASE PollEvents
  <2>1. W!PollEvents => WP!PollEvents
    BY SameClients
  <2>. QED BY <1>4, <1>m, <2>1 DEF PollEvents, Fetched, InTurn, Polls, Stepped
<1>5. CASE HandleEvent
  <2>1. MasterTyped /\ batch \in Seq(BatchTypes)
    BY DEF Types
  <2>. QED BY <1>5, <2>1, HandleHandles DEF HandleEvent, HandlesEvent, Stepped
<1>6. CASE WorkerStep
  BY <1>6, <1>m, SameLoop DEF WorkerStep, Works, Stepped
<1>7. CASE UNCHANGED vars
  BY <1>7, QuietIs DEF vars, Still, Stepped
<1>. QED BY <1>1, <1>2, <1>3, <1>4, <1>5, <1>6, <1>7 DEF Next, Requests, Steps

\* Everything keeps its type.
LEMMA NextTypes ==
  ASSUME Types, [Next]_vars
  PROVE  Types'
<1>1. Inv' /\ Locks'
  <2>1. slaves \in Views
    BY DEF Types, MasterTyped
  <2>. QED BY <2>1, NextInv, NextLocks DEF Types
<1> DEFINE P == MasterTyped /\ WorkerSound /\ batch \in Seq(BatchTypes)
<1> SUFFICES P'
  BY <1>1 DEF Types
<1>2. ASSUME NEW c \in Callers, Run(c)
      PROVE  P'
  BY <1>2, RunTyped DEF Types
<1>3. CASE UNCHANGED <<masterVars, workerVars, batch>>
  <2>1. Asks(Control) /\ Control \in Callers
    BY <1>3, CallersDiffer DEF Asks
  <2>2. WorkerSound'
    BY <2>1, AskingKeepsWorker DEF Types
  <2>3. MasterTyped'
    BY <1>3, UnchangedTyped DEF Types, Unchanged, masterVars
  <2>. QED BY <1>3, <2>2, <2>3 DEF Types
<1>4. CASE PollEvents
  <2>1. MasterTyped'
    BY <1>4, UnchangedTyped DEF Types, PollEvents, masterVars, Unchanged
  <2>2. WorkerSound'
    BY <1>4, AskingKeepsWorker, CallersDiffer DEF Types, PollEvents
  <2>. QED BY <1>4, <2>1, <2>2, EventsTyped DEF PollEvents
<1>5. CASE HandleEvent
  <2>1. MasterTyped' /\ batch' \in Seq(BatchTypes)
    BY <1>5, HandleHandles, HandlesTyped DEF Types
  <2>2. UNCHANGED workerVars
    BY <1>5 DEF HandleEvent
  <2>3. Asks(Control) /\ Control \in Callers
    BY <2>2, CallersDiffer DEF Asks
  <2>4. WorkerSound'
    BY <2>3, AskingKeepsWorker DEF Types
  <2>. QED BY <2>1, <2>4
<1>6. CASE WorkerStep
  <2>1. WorkerSound'
    BY <1>6, LoopKeepsWorker DEF WorkerStep, Types
  <2>2. MasterTyped'
    BY <1>6, UnchangedTyped DEF Types, WorkerStep, masterVars, Unchanged
  <2>. QED BY <1>6, <2>1, <2>2 DEF WorkerStep, Types
<1>7. Requests(Methods) \/ Probe \/ ShutDown \/ UNCHANGED vars => UNCHANGED <<masterVars, workerVars, batch>>
  BY DEF Requests, Issue, Probe, ShutDown, vars
<1> HIDE DEF P
<1>. QED BY <1>2, <1>3, <1>4, <1>5, <1>6, <1>7 DEF Next, Steps

LEMMA InitTypes ==
  ASSUME Init
  PROVE  Types
<1>1. Inv
  BY InitInv
<1>2. call = [c \in Callers |-> Idle] /\ lock = NoClient
  BY DEF Init
<1>3. Locks
  <2>1. CallTyped(Idle) /\ Idle.stage = "idle" /\ Idle.step = "end" /\ Idle.method = "none"
    BY DEF CallTyped, Idle, AllSteps, AlStates, Views
  <2>2. NoClient \notin Callers
    BY BridgeAssumption
  <2>. QED BY <1>2, <2>1, <2>2, CallersDiffer DEF Locks, Holding
<1>4. WorkerSound
  <2>1. W!NoSlaves = NoSlaves /\ W!NoTask = WP!NoTask
    BY SameViews
  <2>2. FreshFlags
    BY Zenon DEF Init, W!Init, FreshFlags
  <2>3. FreshWorker
    BY <2>1, <2>2 DEF Init, W!Init, FreshWorker
  <2>. QED BY <2>3, FreshWorkerSound
<1>5. MasterTyped
  BY SameViews, ListFacts DEF Init, M!Init, MasterTyped, Phases, Known
<1>6. batch \in Seq(BatchTypes)
  BY DEF Init
<1>. QED BY <1>1, <1>3, <1>4, <1>5, <1>6 DEF Types

-----------------------------------------------------------------------------
(* The steps of the worker's thread                                           *)

FutsKept ==
  /\ UNCHANGED res
  /\ \A c \in Callers : fut'[c] = fut[c] \/ (fut[c] = "pending" /\ fut'[c] \in {"running", "failed"})
BusKept == (conn' <=> conn) /\ bus' = bus
CycleKept == (cyc' <=> cyc) /\ cycSession' = cycSession

Between == FutsKept /\ BusKept /\ CycleKept /\ events' = events
FailsToStart ==
  /\ FutsKept /\ BusKept /\ CycleKept /\ StartupMayFail
  /\ wpc' = "drain"
  /\ events' = Append(events, [kind |-> "worker_fatal", session |-> NoSession, slaves |-> NoSlaves])
Finishes(o, v) ==
  /\ wpc = "run" /\ wpc' = "poll" /\ held.live /\ events' = events
  /\ o \in {"done", "failed"} /\ v \in Views
  /\ \A c \in Callers : /\ c = held.owner => fut'[c] = o /\ res'[c] = v
                        /\ c # held.owner => fut'[c] = fut[c] /\ res'[c] = res[c]
  /\ WP!Brings(held.op, o, v)
  /\ cyc' => cycSession' = held.session \/ (cyc /\ cycSession' = cycSession)
Exchanges ==
  /\ UNCHANGED <<fut, res>> /\ (conn' <=> conn) /\ bus'.topo = bus.topo /\ cyc
  /\ \/ CycleKept /\ events' = events
     \/ /\ ~cyc'
        /\ \/ events' = events \o <<[kind |-> "slaves_changed", session |-> cycSession, slaves |-> bus'],
                                    [kind |-> "cycle_fault", session |-> cycSession, slaves |-> NoSlaves]>>
              /\ conn
           \/ events' = Append(events, [kind |-> "cycle_fault", session |-> cycSession, slaves |-> NoSlaves])
Exits == UNCHANGED <<fut, res, events>> /\ stop /\ ~conn' /\ ~cyc' /\ bus' = NoSlaves

\* The thread of the worker, as far as the invariants below tell its steps apart.
LEMMA WorkSteps ==
  ASSUME WorkerSound, WP!Loop
  PROVE  /\ stop' <=> stop
         /\ Between \/ FailsToStart \/ (\E o : \E v : Finishes(o, v)) \/ Exchanges \/ Exits
<1>0. WP!Placed /\ WP!Typed /\ WP!Paced
  BY DEF WorkerSound
<1>1. stop' <=> stop
  BY WorkerFits, WP!LoopPaced
<1>2. ASSUME ~WP!Finish
      PROVE  FutsKept
  BY <1>0, <1>2, WorkerFits, WP!LoopFutures DEF FutsKept
<1>3. CASE WP!StartOk \/ WP!StartFail \/ WP!Drain \/ WP!Die \/ WP!Poll \/ WP!PollControl \/ WP!Reput \/ WP!Due \/ WP!Take
  <2>1. /\ UNCHANGED <<res, cyc, cycSession, conn, bus, stop>>
        /\ \/ events' = events
           \/ /\ StartupMayFail /\ wpc' = "drain"
              /\ events' = Append(events, [kind |-> "worker_fatal", session |-> NoSession, slaves |-> WP!NoSlaves])
    BY <1>3, WorkerFits, WP!BetweenOperations
  <2>2. FutsKept
    <3>1. CASE WP!Finish
      <4>1. PICK o, v : WP!Answer(o, v)
        BY <3>1, WorkerFits, WP!FinishAnswers
      <4>2. wpc = "run" /\ wpc' = "poll"
        BY <4>1 DEF WP!Answer
      <4>. QED BY <1>3, <4>2 DEF WP!StartOk, WP!StartFail, WP!Drain, WP!Die, WP!Poll, WP!PollControl,
                    WP!Reput, WP!Due, WP!Take, WP!Begin
    <3>. QED BY <1>2, <3>1
  <2>3. BusKept /\ CycleKept
    BY <2>1, Zenon DEF BusKept, CycleKept
  <2>. QED BY <1>1, <2>1, <2>2, <2>3, SameViews DEF Between, FailsToStart
<1>4. CASE WP!Finish
  <2>1. held.arg \in WP!AlStates
    BY <1>0 DEF WP!Placed, WP!Tasks
  <2>2. PICK o, v : WP!Ends(o, v) /\ WP!Brings(held.op, o, v)
    BY <1>0, <1>4, <2>1, WorkerFits, WP!FinishBrings
  <2>3. /\ o \in {"done", "failed"} /\ v \in Views /\ WP!Answer(o, v) /\ events' = events /\ WP!CycleAfter
    BY <2>2, SameViews DEF WP!Ends
  <2>4. /\ wpc = "run" /\ wpc' = "poll"
        /\ \A c \in Callers : /\ c = held.owner => fut'[c] = o /\ res'[c] = v
                              /\ c # held.owner => fut'[c] = fut[c] /\ res'[c] = res[c]
    BY <2>3, WorkerFits, WP!AnswerFutures
  <2>5. held.live
    BY <1>0, <2>4 DEF WP!Placed, WP!RunsItsOwn
  <2>6. cyc' => cycSession' = held.session \/ (cyc /\ cycSession' = cycSession)
    BY <2>3 DEF WP!CycleAfter
  <2>7. Finishes(o, v)
    BY <2>2, <2>3, <2>4, <2>5, <2>6 DEF Finishes
  <2>. QED BY <1>1, <2>7
<1>5. CASE WP!Exchange
  <2>1. /\ UNCHANGED <<wstate, stop, queue, held, fut, res, conn>> /\ wpc = "exchange" /\ wpc' = "poll"
        /\ bus' \in WP!Views /\ bus'.topo = bus.topo
        /\ \/ UNCHANGED <<cyc, cycSession, events>>
           \/ /\ cyc' = FALSE /\ cycSession' = NoSession
              /\ \/ events' = events \o <<WP!Event("slaves_changed", bus'), WP!Event("cycle_fault", WP!NoSlaves)>> /\ conn
                 \/ events' = Append(events, WP!Event("cycle_fault", WP!NoSlaves))
    BY <1>0, <1>5, WorkerFits, WP!ExchangeBrings
  <2>2. UNCHANGED <<fut, res>> /\ (conn' <=> conn) /\ bus'.topo = bus.topo /\ cyc
    BY <1>0, <2>1, Zenon DEF WP!Paced
  <2>3. CASE UNCHANGED <<cyc, cycSession, events>>
    <3>1. CycleKept /\ events' = events
      BY <2>3, Zenon DEF CycleKept
    <3>. QED BY <1>1, <2>2, <3>1 DEF Exchanges
  <2>4. CASE /\ cyc' = FALSE /\ cycSession' = NoSession
             /\ \/ events' = events \o <<WP!Event("slaves_changed", bus'), WP!Event("cycle_fault", WP!NoSlaves)>> /\ conn
                \/ events' = Append(events, WP!Event("cycle_fault", WP!NoSlaves))
    BY <1>1, <2>2, <2>4, SameViews DEF Exchanges, WP!Event
  <2>. QED BY <2>1, <2>3, <2>4
<1>6. CASE WP!Exit
  <2>1. UNCHANGED <<fut, res, events>> /\ ~conn' /\ ~cyc' /\ wpc = "exit"
    BY <1>6, Zenon DEF WP!Exit, WP!futVars
  <2>2. bus' = NoSlaves
    BY <1>6, SameViews DEF WP!Exit
  <2>. QED BY <1>0, <1>1, <2>1, <2>2 DEF Exits, WP!Paced
<1>. QED BY <1>3, <1>4, <1>5, <1>6 DEF WP!Loop

-----------------------------------------------------------------------------
(* The requests of the callers                                                *)

\* What a caller's step does to the futures: its own may be cancelled, read or
\* asked for; or all are new.
FutsFresh == \A d \in Callers : fut'[d] = "none" /\ res'[d] = NoSlaves
OthersFuts(c) == \A d \in Callers \ {c} : fut'[d] = fut[d] /\ res'[d] = res[d]
OwnFut(c) ==
  \/ fut'[c] = fut[c] /\ res'[c] = res[c] /\ call[c].stage # "submit"
     /\ (call[c].stage = "await" => fut[c] = "running" /\ call'[c].stage = "fault")
  \/ At(c, "submit") /\ stalled /\ fut'[c] = fut[c] /\ res'[c] = res[c]
  \/ At(c, "await") /\ fut[c] = "pending" /\ fut'[c] = "none" /\ res'[c] = res[c]
  \/ At(c, "await") /\ fut'[c] = "none" /\ res'[c] = NoSlaves /\ fut[c] \in {"done", "failed"}
  \/ /\ At(c, "submit") /\ ~stalled /\ fut[c] = "none" /\ fut'[c] \in {"pending", "failed"}
     /\ res'[c] = res[c] /\ call'[c].stage = "await"

LEMMA WorkerVarsKept ==
  ASSUME UNCHANGED workerVars
  PROVE  /\ UNCHANGED <<wpc, queue, held, fut, res, cycSession, events, bus>>
         /\ (stop' <=> stop) /\ (cyc' <=> cyc) /\ (conn' <=> conn)
         /\ WP!Around' = WP!Around
<1>1. UNCHANGED <<wpc, queue, held, fut, res, cycSession, events, bus>>
  BY DEF workerVars
<1>2. (stop' <=> stop) /\ (cyc' <=> cyc) /\ (conn' <=> conn)
  BY Zenon DEF workerVars
<1>. QED BY <1>1, <1>2 DEF WP!Around

LEMMA CallerFuts ==
  ASSUME WorkerSound, NEW c \in Callers, Moved(c)
  PROVE  \/ Renovates(c) /\ FutsFresh
         \/ OthersStay(c) /\ OthersFuts(c) /\ OwnFut(c)
<1>0. fut \in [Callers -> WP!FutStates] /\ res \in [Callers -> Views]
  BY SameViews DEF WorkerSound, WP!Placed, WP!Typed
<1>k. \A d : Takes(c, d, call[c].step) => OthersStay(c) /\ call'[c].stage = d
  BY DEF Takes
<1>1. CASE Rests(c) \/ FaultsMaster(c) \/ SwitchesMode(c)
  <2>1. UNCHANGED <<fut, res>> /\ call[c].stage \notin {"submit", "await"} /\ OthersStay(c)
    BY <1>1, WorkerVarsKept DEF Rests, Quiet, Working, FaultsMaster, SwitchesMode, At, Takes, Ends, Leaves
  <2>. QED BY <1>0, <2>1 DEF OthersFuts, OwnFut
<1>2. CASE GivesUp(c) \/ Stops(c)
  <2>1. UNCHANGED <<fut, res>> /\ call[c].stage \notin {"submit", "await"} /\ OthersStay(c)
    BY <1>2, WorkerVarsKept DEF GivesUp, Stops, At, Takes, WP!MarkStalled, WP!Shutdown, WP!futVars
  <2>. QED BY <1>0, <2>1 DEF OthersFuts, OwnFut
<1>3. CASE Submits(c)
  <2>1. CASE stalled /\ Takes(c, "refused", call[c].step) /\ UNCHANGED workerVars
    BY <1>0, <1>3, <1>k, <2>1, WorkerVarsKept DEF OthersFuts, OwnFut, Submits
  <2>2. CASE ~stalled /\ Takes(c, "await", call[c].step) /\ WP!Submit(c, OpOf(call[c].step), call[c].arg, session)
    <3>1. /\ fut[c] = "none" /\ res' = res
          /\ fut' = [fut EXCEPT ![c] = "pending"] \/ fut' = [fut EXCEPT ![c] = "failed"]
      BY <2>2 DEF WP!Submit
    <3>. QED BY <1>0, <1>3, <1>k, <2>2, <3>1 DEF OthersFuts, OwnFut, Submits
  <2>. QED BY <1>3, <2>1, <2>2 DEF Submits
<1>4. CASE TimesOut(c)
  <2>1. CASE WP!Cancel(c)
    <3>1. fut[c] = "pending" /\ fut' = [fut EXCEPT ![c] = "none"] /\ res' = res
      BY <2>1 DEF WP!Cancel
    <3>2. At(c, "await") /\ OthersStay(c)
      BY <1>4, <1>k DEF TimesOut
    <3>. QED BY <1>0, <3>1, <3>2 DEF OthersFuts, OwnFut
  <2>2. CASE fut[c] = "running" /\ UNCHANGED workerVars /\ Takes(c, "fault", call[c].step)
    BY <1>0, <1>4, <1>k, <2>2, WorkerVarsKept DEF OthersFuts, OwnFut, TimesOut, At
  <2>3. CASE WP!Collect(c)
    <3>1. /\ fut[c] \in {"done", "failed"} /\ fut' = [fut EXCEPT ![c] = "none"]
          /\ res' = [res EXCEPT ![c] = NoSlaves]
      BY <2>3, SameViews DEF WP!Collect
    <3>2. At(c, "await") /\ OthersStay(c)
      BY <1>4, <1>k DEF TimesOut
    <3>. QED BY <1>0, <3>1, <3>2 DEF OthersFuts, OwnFut
  <2>. QED BY <1>4, <2>1, <2>2, <2>3 DEF TimesOut
<1>5. CASE Continues(c)
  <2>0. OthersStay(c)
    BY <1>5 DEF Continues, GoesOn, Takes, Ends, Leaves
  <2>1. CASE At(c, "await") /\ WP!Collect(c)
    <3>1. /\ fut[c] \in {"done", "failed"} /\ fut' = [fut EXCEPT ![c] = "none"]
          /\ res' = [res EXCEPT ![c] = NoSlaves]
      BY <2>1, SameViews DEF WP!Collect
    <3>. QED BY <1>0, <2>0, <2>1, <3>1 DEF OthersFuts, OwnFut
  <2>2. CASE At(c, "refused") /\ UNCHANGED workerVars
    BY <1>0, <2>0, <2>2, WorkerVarsKept DEF OthersFuts, OwnFut, At
  <2>. QED BY <1>5, <2>1, <2>2 DEF Continues
<1>6. CASE Renovates(c)
  <2>1. fut' = [d \in Callers |-> "none"] /\ res' = [d \in Callers |-> NoSlaves]
    BY <1>6 DEF Renovates, FreshWorker
  <2>. QED BY <1>6, <2>1 DEF FutsFresh
<1>. QED BY <1>1, <1>2, <1>3, <1>4, <1>5, <1>6 DEF Moved

\* What the other steps do to them.
LEMMA OtherFuts ==
  ASSUME WorkerSound, Polls \/ HandlesEvent \/ Works \/ Still
  PROVE  call' = call /\ (UNCHANGED <<fut, res>> \/ FutsKept \/ \E o : \E v : Finishes(o, v))
<1>1. CASE HandlesEvent \/ Still
  BY <1>1, WorkerVarsKept DEF HandlesEvent, Still, Quiet
<1>2. CASE Polls
  BY <1>2 DEF Polls, WP!PollEvents, WP!futVars
<1>3. CASE Works
  <2>1. Between \/ FailsToStart \/ (\E o : \E v : Finishes(o, v)) \/ Exchanges \/ Exits
    BY <1>3, WorkSteps DEF Works
  <2>. QED BY <1>3, <2>1 DEF Between, FailsToStart, Exchanges, Exits, Works
<1>. QED BY <1>1, <1>2, <1>3

\* A request that is queued is one that its caller awaits; and a future without
\* an answer has no list.
Awaited == \A c \in Callers :
  /\ fut[c] = "pending" => call[c].stage = "await"
  /\ fut[c] \in {"none", "pending", "running"} => res[c] = NoSlaves

LEMMA NextAwaited ==
  ASSUME Types, Awaited, [Next]_vars
  PROVE  Awaited'
<1>0. WorkerSound
  BY DEF Types
<1>1. ASSUME NEW c \in Callers, Moved(c)
      PROVE  Awaited'
  <2>1. CASE FutsFresh
    BY <2>1 DEF FutsFresh, Awaited
  <2>2. CASE OthersStay(c) /\ OthersFuts(c) /\ OwnFut(c)
    <3>1. ASSUME NEW d \in Callers
          PROVE  /\ fut'[d] = "pending" => call'[d].stage = "await"
                 /\ fut'[d] \in {"none", "pending", "running"} => res'[d] = NoSlaves
      <4>1. CASE d # c
        BY <2>2, <4>1 DEF OthersStay, OthersFuts, Awaited
      <4>2. CASE d = c
        <5>1. fut[c] = "pending" => call[c].stage = "await"
          BY DEF Awaited
        <5>2. fut[c] \in {"none", "pending", "running"} => res[c] = NoSlaves
          BY DEF Awaited
        <5>. QED BY <2>2, <4>2, <5>1, <5>2 DEF OwnFut, At
      <4>. QED BY <4>1, <4>2
    <3>. QED BY <3>1 DEF Awaited
  <2>. QED BY <1>0, <1>1, <2>1, <2>2, CallerFuts
<1>2. ASSUME Polls \/ HandlesEvent \/ Works \/ Still
      PROVE  Awaited'
  <2>1. call' = call /\ (UNCHANGED <<fut, res>> \/ FutsKept \/ \E o : \E v : Finishes(o, v))
    BY <1>0, <1>2, OtherFuts
  <2>2. CASE UNCHANGED <<fut, res>> \/ FutsKept
    BY <2>1, <2>2 DEF Awaited, FutsKept
  <2>3. ASSUME NEW o, NEW v, Finishes(o, v)
        PROVE  Awaited'
    BY <2>1, <2>3 DEF Awaited, Finishes
  <2>. QED BY <2>1, <2>2, <2>3
<1>. QED BY <1>1, <1>2, NextStepped DEF Stepped

LEMMA InitAwaited ==
  ASSUME Init
  PROVE  Awaited
<1>1. fut = [c \in Callers |-> "none"] /\ res = [c \in Callers |-> NoSlaves]
  BY SameViews DEF Init, W!Init
<1>. QED BY <1>1 DEF Awaited

\* The thread begins a request only for a caller that holds the command lock and
\* still waits for the answer.
BegunForItsCaller == BeginsRequest => lock = held'.owner /\ At(held'.owner, "await")

\* Only the thread itself begins a request.
LEMMA BegunByThread ==
  ASSUME Types, [Next]_vars, wpc # "run", wpc' = "run"
  PROVE  WP!Loop
<1>1. ASSUME NEW c \in Callers, Moved(c)
      PROVE  wpc' = wpc \/ wpc' = "start"
  <2>1. UNCHANGED workerVars => wpc' = wpc
    BY WorkerVarsKept
  <2>2. \A o, a, s : WP!Submit(c, o, a, s) \/ WP!Cancel(c) \/ WP!Collect(c) \/ WP!MarkStalled \/ WP!Shutdown => wpc' = wpc
    BY DEF WP!Submit, WP!Cancel, WP!Collect, WP!MarkStalled, WP!Shutdown, WP!loopVars
  <2>. QED BY <1>1, <2>1, <2>2 DEF Moved, Rests, Quiet, Submits, TimesOut, Continues, GivesUp, FaultsMaster,
              Stops, Renovates, SwitchesMode, FreshWorker
<1>2. Polls \/ HandlesEvent \/ Still => wpc' = wpc
  BY WorkerVarsKept DEF Polls, HandlesEvent, Still, Quiet, WP!PollEvents, WP!loopVars
<1>. QED BY <1>1, <1>2, NextStepped DEF Stepped, Works

LEMMA BegunIsAwaited ==
  ASSUME Types, Awaited, [Next]_vars
  PROVE  BegunForItsCaller
<1> SUFFICES ASSUME BeginsRequest
             PROVE  lock = held'.owner /\ At(held'.owner, "await")
  BY DEF BegunForItsCaller
<1>1. wpc # "run" /\ wpc' = "run" /\ held'.owner # NoClient
  BY DEF BeginsRequest
<1>2. WP!Loop
  BY <1>1, BegunByThread
<1>3. /\ held' \in WP!Around /\ held'.live
      /\ held'.owner \in Callers => fut[held'.owner] = "pending"
  BY <1>1, <1>2, WorkerFits, WP!Beginning DEF Types, WorkerSound
<1>4. held'.owner \in Callers
  <2>1. held' \in WP!Tasks
    BY <1>3, WorkerFits, WP!PlacesAround DEF Types, WorkerSound
  <2>. QED BY <1>1, <2>1 DEF WP!Tasks
<1>5. call[held'.owner].stage = "await"
  BY <1>3, <1>4 DEF Awaited
<1>6. held'.owner # Control
  BY <1>5 DEF Types, Locks
<1>. QED BY <1>4, <1>5, <1>6 DEF Types, Locks, Holding, At

\* One caller at a time deals with the worker.
Engaged(c) ==
  \/ call[c].stage \in Working \cup {"switch"}
  \/ call[c].stage \in {"replace", "join"} /\ call[c].method = "switch_mode"

OneEngaged == \A c \in Callers : Engaged(c) => lock = c /\ \A d \in Callers : Engaged(d) => d = c

LEMMA EngagedIsOne == Types => OneEngaged
<1> SUFFICES ASSUME Types, NEW c \in Callers, Engaged(c)
             PROVE  lock = c /\ \A d \in Callers : Engaged(d) => d = c
  BY DEF OneEngaged
<1>1. ASSUME NEW d \in Callers, Engaged(d)
      PROVE  lock = d
  <2>1. d # Control
    BY <1>1 DEF Types, Locks, Inv, CallersTyped, Engaged, Working
  <2>2. call[d].stage \in Holding
    BY <1>1 DEF Engaged, Working, Holding
  <2>. QED BY <2>1, <2>2 DEF Types, Locks
<1>. QED BY <1>1

LEMMA EngagedNext == Types' => OneEngaged'
BY EngagedIsOne, PTL

\* A caller between the two steps of giving the worker up has marked it.
Marked == \A c \in Callers : call[c].stage = "faulting" => stalled

LEMMA NextMarked ==
  ASSUME Types, Marked, [Next]_vars
  PROVE  Marked'
<1>1. ASSUME NEW c \in Callers, Moved(c)
      PROVE  Marked'
  <2>1. /\ OthersStay(c)
        /\ call'[c].stage = "faulting" => stalled'
    BY <1>1 DEF Moved, Rests, Submits, TimesOut, Continues, GivesUp, FaultsMaster, Stops, Renovates,
         SwitchesMode, Takes, GoesOn, Ends, Leaves, Idle
  <2>2. CASE ~Renovates(c)
    <3>1. stalled => stalled'
      BY <1>1, <2>2 DEF Moved, Rests, Quiet, Submits, TimesOut, Continues, GivesUp, FaultsMaster, Stops, SwitchesMode
    <3>. QED BY <2>1, <3>1 DEF Marked, OthersStay
  <2>3. CASE Renovates(c)
    <3>1. Engaged(c) /\ call[c].stage # "faulting"
      BY <2>3 DEF Renovates, Engaged, At
    <3>2. \A d \in Callers : call[d].stage # "faulting"
      BY <3>1, EngagedIsOne DEF OneEngaged, Engaged, Working
    <3>. QED BY <2>1, <3>2 DEF Marked, OthersStay
  <2>. QED BY <2>2, <2>3
<1>2. CASE Polls \/ HandlesEvent \/ Works \/ Still
  <2>1. call' = call /\ (stalled => stalled')
    BY <1>2 DEF Polls, HandlesEvent, Handles, Works, Still, Quiet
  <2>. QED BY <2>1 DEF Marked
<1>. QED BY <1>1, <1>2, NextStepped DEF Stepped

LEMMA InitMarked ==
  ASSUME Init
  PROVE  Marked
BY DEF Init, Marked, Idle

-----------------------------------------------------------------------------
(* Whose task the thread has                                                  *)

\* The worker was given up, and nobody waits for it any more: what it still does
\* is nobody's.
Untracked == stalled /\ \A d \in Callers : call[d].stage \notin {"await", "faulting"}

TaskFits(t) ==
  t.live /\ t.owner \in Callers =>
    call[t.owner].stage \in {"await", "fault", "faulting"} /\ t.op = OpOf(call[t.owner].step)

\* The task of a caller is the operation that the caller is about, until the
\* worker is given up for good.
TasksFit == ~Untracked => \A t \in WP!Around : TaskFits(t)

LEMMA FitsAfter ==
  ASSUME \A t \in WP!Around : TaskFits(t), NEW c \in Callers, OthersStay(c),
         \A t \in WP!Around' : t.live /\ t.owner \in Callers => t \in WP!Around,
         \/ \A t \in WP!Around' : ~(t.live /\ t.owner = c)
         \/ call'[c].stage \in {"await", "fault", "faulting"} /\ call'[c].step = call[c].step
  PROVE  \A t \in WP!Around' : TaskFits(t)'
<1> SUFFICES ASSUME NEW t \in WP!Around', t.live, t.owner \in Callers
             PROVE  call'[t.owner].stage \in {"await", "fault", "faulting"} /\ t.op = OpOf(call'[t.owner].step)
  BY DEF TaskFits, OpOf
<1>1. call[t.owner].stage \in {"await", "fault", "faulting"} /\ t.op = OpOf(call[t.owner].step)
  BY DEF TaskFits
<1>. QED BY <1>1 DEF OthersStay

\* Of the tasks around, none is one of a caller that does not wait.
LEMMA NoneOf ==
  ASSUME WorkerSound, NEW c \in Callers, fut[c] \in {"none", "done", "failed"}
  PROVE  \A t \in WP!Around : ~(t.live /\ t.owner = c)
<1> SUFFICES ASSUME NEW t \in WP!Around, t.live, t.owner = c
             PROVE  FALSE
  OBVIOUS
<1>1. fut[c] \in WP!Waiting
  BY WorkerFits, WP!LiveIsWaiting DEF WorkerSound
<1>. QED BY <1>1 DEF WP!Waiting

\* A caller's step brings the request it submits, a wake-up, or nothing; and a
\* cancelled request stays without its caller.
LEMMA SubmitAround ==
  ASSUME Types, NEW c \in Callers, At(c, "submit"), WP!Submit(c, OpOf(call[c].step), call[c].arg, session)
  PROVE  \A t \in WP!Around' : t \in WP!Around \/ t = W!Task(c, OpOf(call[c].step), call[c].arg, session)
<1>1. WP!Task(c, OpOf(call[c].step), call[c].arg, session) \in WP!Tasks
  BY AskedTask DEF Types
<1>2. WP!Around' \subseteq WP!Around \cup {WP!Task(c, OpOf(call[c].step), call[c].arg, session)}
  BY <1>1, WorkerFits, WP!ClientAround DEF Types, WorkerSound
<1>3. W!Task(c, OpOf(call[c].step), call[c].arg, session) = WP!Task(c, OpOf(call[c].step), call[c].arg, session)
  BY SameViews
<1>. QED BY <1>2, <1>3

LEMMA CancelAround ==
  ASSUME WorkerSound, NEW c \in Callers, WP!Cancel(c)
  PROVE  \A t \in WP!Around' : \E u \in WP!Around :
           IF u.owner = c THEN ~t.live /\ t.owner = c /\ t.op = u.op /\ t.session = u.session ELSE t = u
<1>1. \A t \in WP!Around' : \E u \in WP!Around : t = WP!Orphan(c, u)
  BY WorkerFits, WP!ClientAround DEF WorkerSound
<1>2. \A u \in WP!Around : LET t == WP!Orphan(c, u)
         IN IF u.owner = c THEN ~t.live /\ t.owner = c /\ t.op = u.op /\ t.session = u.session ELSE t = u
  <2>1. \A u \in WP!Around : u \in WP!Tasks
    BY WorkerFits, WP!PlacesAround DEF WorkerSound
  <2>. QED BY <2>1 DEF WP!Orphan, WP!Tasks
<1>. QED BY <1>1, <1>2

LEMMA CallerAround ==
  ASSUME Types, NEW c \in Callers, Moved(c), ~Renovates(c)
  PROVE  \/ At(c, "submit") /\ \A t \in WP!Around' : t \in WP!Around \/ t = W!Task(c, OpOf(call[c].step), call[c].arg, session)
         \/ WP!Around' = WP!Around
         \/ \A t \in WP!Around' : t \in WP!Around \/ t = W!Wake
         \/ \A t \in WP!Around' : \E u \in WP!Around :
               IF u.owner = c THEN ~t.live /\ t.owner = c /\ t.op = u.op /\ t.session = u.session ELSE t = u
<1>0. WP!Placed /\ WorkerSound
  BY DEF Types, WorkerSound
<1>1. UNCHANGED workerVars => WP!Around' = WP!Around
  BY WorkerVarsKept
<1>2. WP!Collect(c) \/ WP!MarkStalled => WP!Around' = WP!Around
  BY <1>0, WorkerFits, WP!ClientAround
<1>3. CASE Submits(c) /\ ~stalled
  BY <1>3, SubmitAround DEF Submits
<1>4. CASE Stops(c)
  <2>1. WP!Around' \subseteq WP!Around \cup {WP!Wake} /\ W!Wake = WP!Wake
    BY <1>0, <1>4, WorkerFits, WP!ClientAround, SameViews DEF Stops
  <2>. QED BY <2>1
<1>5. CASE WP!Cancel(c)
  BY <1>0, <1>5, CancelAround
<1>6. Moved(c) /\ ~Renovates(c) =>
        \/ UNCHANGED workerVars \/ WP!Collect(c) \/ WP!MarkStalled \/ (Submits(c) /\ ~stalled) \/ Stops(c) \/ WP!Cancel(c)
  BY DEF Moved, Rests, Quiet, Submits, TimesOut, Continues, GivesUp, FaultsMaster, SwitchesMode
<1>. QED BY <1>1, <1>2, <1>3, <1>4, <1>5, <1>6

LEMMA NextTasksFit ==
  ASSUME Types, Marked, TasksFit, [Next]_vars
  PROVE  TasksFit'
<1>0. WorkerSound
  BY DEF Types
<1>1. ASSUME NEW c \in Callers, Moved(c)
      PROVE  TasksFit'
  <2>0. OthersStay(c)
    BY <1>1 DEF Moved, Rests, Submits, TimesOut, Continues, GivesUp, FaultsMaster, Stops, Renovates,
         SwitchesMode, Takes, GoesOn, Ends, Leaves
  <2>1. CASE Renovates(c)
    <3>1. queue' = << >> /\ held' = WP!NoTask
      BY <2>1 DEF Renovates, FreshWorker
    <3>2. WP!Around' = {WP!NoTask}
      BY <3>1 DEF WP!Around
    <3>. QED BY <3>2 DEF TasksFit, TaskFits, WP!NoTask
  <2>2. CASE ~Renovates(c) /\ Untracked
    <3>1. stalled /\ \A d \in Callers : call[d].stage \notin {"await", "faulting"}
      BY <2>2 DEF Untracked
    <3>2. stalled'
      BY <1>1, <2>2, <3>1 DEF Moved, Rests, Quiet, Submits, TimesOut, Continues, GivesUp, FaultsMaster, Stops,
           SwitchesMode
    <3>3. call'[c].stage \notin {"await", "faulting"}
      BY <1>1, <2>2, <3>1 DEF Moved, Rests, Submits, TimesOut, Continues, GivesUp, FaultsMaster, Stops,
           SwitchesMode, Takes, GoesOn, Ends, Leaves, Idle, At
    <3>4. Untracked'
      BY <2>0, <3>1, <3>2, <3>3 DEF Untracked, OthersStay
    <3>. QED BY <3>4 DEF TasksFit
  <2>3. CASE ~Renovates(c) /\ ~Untracked
    <3>0. \A t \in WP!Around : TaskFits(t)
      BY <2>3 DEF TasksFit
    <3>1. CASE call[c].stage \notin {"submit", "await", "fault", "faulting"} /\ ~At(c, "submit")
      <4>1. \A t \in WP!Around : ~(t.live /\ t.owner = c)
        BY <3>0, <3>1 DEF TaskFits
      <4>2. \A t \in WP!Around' : (t.live /\ t.owner \in Callers => t \in WP!Around) /\ ~(t.live /\ t.owner = c)
        <5>1. NoClient \notin Callers /\ W!Wake.owner = NoClient
          BY BridgeAssumption DEF W!Wake
        <5>. QED BY <1>1, <2>3, <3>1, <4>1, <5>1, CallerAround
      <4>. QED BY <2>0, <3>0, <4>2, FitsAfter DEF TasksFit
    <3>2. CASE Submits(c)
      <4>1. CASE stalled
        <5>1. WP!Around' = WP!Around
          BY <3>2, <4>1, WorkerVarsKept DEF Submits
        <5>2. \A t \in WP!Around : ~(t.live /\ t.owner = c)
          BY <3>0, <3>2 DEF TaskFits, Submits, At
        <5>. QED BY <2>0, <3>0, <5>1, <5>2, FitsAfter DEF TasksFit
      <4>2. CASE ~stalled
        <5>1. /\ Takes(c, "await", call[c].step)
              /\ \A t \in WP!Around' : t \in WP!Around \/ t = W!Task(c, OpOf(call[c].step), call[c].arg, session)
          BY <3>2, <4>2, SubmitAround DEF Submits
        <5>2. ASSUME NEW t \in WP!Around', t.live, t.owner \in Callers
              PROVE  call'[t.owner].stage \in {"await", "fault", "faulting"} /\ t.op = OpOf(call'[t.owner].step)
          <6>1. CASE t \in WP!Around
            <7>1. call[t.owner].stage \in {"await", "fault", "faulting"} /\ t.op = OpOf(call[t.owner].step)
              BY <3>0, <5>2, <6>1 DEF TaskFits
            <7>2. call[c].stage = "submit"
              BY <3>2 DEF Submits, At
            <7>. QED BY <2>0, <5>2, <7>1, <7>2 DEF OthersStay
          <6>2. CASE t = W!Task(c, OpOf(call[c].step), call[c].arg, session)
            <7>1. t.owner = c /\ t.op = OpOf(call[c].step)
              BY <6>2 DEF W!Task
            <7>2. call'[c].stage = "await" /\ call'[c].step = call[c].step
              BY <5>1 DEF Takes
            <7>. QED BY <7>1, <7>2
          <6>. QED BY <5>1, <5>2, <6>1, <6>2
        <5>. QED BY <5>2 DEF TasksFit, TaskFits, OpOf
      <4>. QED BY <4>1, <4>2
    <3>3. CASE TimesOut(c)
      <4>1. CASE WP!Cancel(c)
        <5>1. \A t \in WP!Around' : \E u \in WP!Around :
               IF u.owner = c THEN ~t.live /\ t.owner = c /\ t.op = u.op /\ t.session = u.session ELSE t = u
          BY <4>1, <1>0, CancelAround
        <5>. QED BY <2>0, <3>0, <5>1, FitsAfter DEF TasksFit
      <4>2. CASE fut[c] = "running" /\ UNCHANGED workerVars /\ Takes(c, "fault", call[c].step)
        <5>1. WP!Around' = WP!Around /\ call'[c].stage = "fault" /\ call'[c].step = call[c].step
          BY <4>2, WorkerVarsKept DEF Takes
        <5>. QED BY <2>0, <3>0, <5>1, FitsAfter DEF TasksFit
      <4>3. CASE WP!Collect(c)
        <5>1. WP!Around' = WP!Around
          BY <1>0, <4>3, WorkerFits, WP!ClientAround DEF WorkerSound
        <5>2. \A t \in WP!Around : ~(t.live /\ t.owner = c)
          BY <1>0, <4>3, NoneOf DEF WP!Collect
        <5>. QED BY <2>0, <3>0, <5>1, <5>2, FitsAfter DEF TasksFit
      <4>. QED BY <3>3, <4>1, <4>2, <4>3 DEF TimesOut
    <3>4. CASE Continues(c) /\ At(c, "await")
      <4>1. WP!Collect(c)
        BY <3>4 DEF Continues, At
      <4>2. WP!Around' = WP!Around
        BY <1>0, <4>1, WorkerFits, WP!ClientAround DEF WorkerSound
      <4>3. \A t \in WP!Around : ~(t.live /\ t.owner = c)
        BY <1>0, <4>1, NoneOf DEF WP!Collect
      <4>. QED BY <2>0, <3>0, <4>2, <4>3, FitsAfter DEF TasksFit
    <3>5. CASE (GivesUp(c) /\ stalled) \/ FaultsMaster(c)
      <4>1. call[c].stage \in {"fault", "faulting"} /\ call'[c].stage = "refused" /\ (stalled' <=> stalled)
        BY <3>5 DEF GivesUp, FaultsMaster, At, Takes
      <4>2. stalled
        BY <3>5, <4>1 DEF Marked, FaultsMaster, At
      <4>3. \A d \in Callers \ {c} : call[d].stage \notin {"await", "faulting"}
        BY <4>1, EngagedIsOne DEF OneEngaged, Engaged, Working
      <4>4. Untracked'
        BY <2>0, <4>1, <4>2, <4>3 DEF Untracked, OthersStay
      <4>. QED BY <4>4 DEF TasksFit
    <3>6. CASE GivesUp(c) /\ ~stalled
      <4>1. call'[c].stage = "faulting" /\ call'[c].step = call[c].step /\ WP!MarkStalled
        BY <3>6 DEF GivesUp, Takes
      <4>2. WP!Around' = WP!Around
        BY <1>0, <4>1, WorkerFits, WP!ClientAround DEF WorkerSound
      <4>. QED BY <2>0, <3>0, <4>1, <4>2, FitsAfter DEF TasksFit
    <3>7. \/ call[c].stage \notin {"submit", "await", "fault", "faulting"} /\ ~At(c, "submit")
          \/ Submits(c) \/ TimesOut(c) \/ (Continues(c) /\ At(c, "await")) \/ GivesUp(c) \/ FaultsMaster(c)
      BY <1>1, <2>3 DEF Moved, Rests, Working, Continues, Stops, SwitchesMode, At
    <3>. QED BY <3>1, <3>2, <3>3, <3>4, <3>5, <3>6, <3>7
  <2>. QED BY <2>1, <2>2, <2>3
<1>2. CASE Polls \/ HandlesEvent \/ Works \/ Still
  <2>1. call' = call /\ (stalled => stalled')
    BY <1>2 DEF Polls, HandlesEvent, Handles, Works, Still, Quiet
  <2>2. Untracked => Untracked'
    BY <2>1 DEF Untracked
  <2>3. \A t \in WP!Around' : t \in WP!Around \/ ~t.live
    <3>1. CASE Works
      <4>1. WP!Around' \subseteq WP!Around \cup {WP!NoTask}
        BY <1>0, <3>1, WorkerFits, WP!LoopAround DEF WorkerSound, Works
      <4>. QED BY <4>1 DEF WP!NoTask
    <3>2. CASE Polls
      <4>1. WP!Around' = WP!Around
        BY <1>0, <3>2, WorkerFits, WP!ClientAround, CallersDiffer DEF WorkerSound, Polls
      <4>. QED BY <4>1
    <3>3. CASE HandlesEvent \/ Still
      BY <3>3, WorkerVarsKept DEF HandlesEvent, Still, Quiet
    <3>. QED BY <1>2, <3>1, <3>2, <3>3
  <2>. QED BY <2>1, <2>2, <2>3 DEF TasksFit, TaskFits, OpOf
<1>. QED BY <1>1, <1>2, NextStepped DEF Stepped

LEMMA InitTasksFit ==
  ASSUME Init
  PROVE  TasksFit
<1>1. queue = << >> /\ held = WP!NoTask
  BY SameViews DEF Init, W!Init
<1>2. WP!Around = {WP!NoTask}
  BY <1>1 DEF WP!Around
<1>. QED BY <1>2 DEF TasksFit, TaskFits, WP!NoTask

-----------------------------------------------------------------------------
(* The backend, seen from the callers and the event loop                      *)

BackendKept == BusKept /\ CycleKept /\ wpc' = wpc /\ (stop => stop')
BackendFresh ==
  wpc' = "start" /\ events' = << >> /\ bus' = NoSlaves /\ ~conn' /\ ~cyc' /\ ~stop'

LEMMA CallerBackend ==
  ASSUME WorkerSound, NEW c \in Callers, Moved(c)
  PROVE  \/ Renovates(c) /\ BackendFresh
         \/ ~Renovates(c) /\ BackendKept /\ events' = events
<1>1. UNCHANGED workerVars => BackendKept /\ events' = events
  BY WorkerVarsKept DEF BackendKept, BusKept, CycleKept
<1>2. ASSUME NEW o, NEW a, NEW s,
             WP!Submit(c, o, a, s) \/ WP!Cancel(c) \/ WP!Collect(c) \/ WP!MarkStalled \/ WP!Shutdown
      PROVE  BackendKept /\ events' = events
  <2>1. wpc' = wpc /\ UNCHANGED <<cyc, cycSession, conn, bus>> /\ (stop' = stop \/ stop' = TRUE)
    BY <1>2, WorkerFits, WP!ClientPaced DEF WorkerSound
  <2>2. BusKept /\ CycleKept
    BY <2>1, Zenon DEF BusKept, CycleKept
  <2>4. stop => stop'
    BY <2>1, Zenon
  <2>3. events' = events
    BY <1>2 DEF WP!Submit, WP!Cancel, WP!Collect, WP!MarkStalled, WP!Shutdown
  <2>. QED BY <2>1, <2>2, <2>3, <2>4 DEF BackendKept
<1>3. CASE Renovates(c)
  <2>1. ~conn' /\ ~cyc' /\ ~stop'
    BY <1>3, Zenon DEF Renovates, FreshWorker, FreshFlags
  <2>. QED BY <1>3, <2>1 DEF Renovates, FreshWorker, BackendFresh
<1>4. Moved(c) /\ ~Renovates(c) =>
        \/ UNCHANGED workerVars \/ WP!Collect(c) \/ WP!MarkStalled \/ WP!Shutdown \/ WP!Cancel(c)
        \/ WP!Submit(c, OpOf(call[c].step), call[c].arg, session)
  BY DEF Moved, Rests, Quiet, Submits, TimesOut, Continues, GivesUp, FaultsMaster, SwitchesMode, Stops
<1>. QED BY <1>1, <1>2, <1>3, <1>4

LEMMA OtherBackend ==
  ASSUME WorkerSound
  PROVE  /\ Polls => BackendKept /\ events' = << >> /\ UNCHANGED <<fut, res>>
         /\ HandlesEvent \/ Still => BackendKept /\ events' = events /\ UNCHANGED <<fut, res>>
<1>1. ASSUME Polls
      PROVE  BackendKept /\ events' = << >> /\ UNCHANGED <<fut, res>>
  <2>1. WP!PollEvents
    BY <1>1 DEF Polls
  <2>2. wpc' = wpc /\ UNCHANGED <<cyc, cycSession, conn, bus>> /\ (stop' = stop \/ stop' = TRUE)
    BY <2>1, WorkerFits, WP!ClientPaced, CallersDiffer DEF WorkerSound
  <2>3. BusKept /\ CycleKept
    BY <2>2, Zenon DEF BusKept, CycleKept
  <2>4. stop => stop'
    BY <2>2, Zenon
  <2>. QED BY <2>1, <2>2, <2>3, <2>4 DEF BackendKept, WP!PollEvents, WP!futVars
<1>2. HandlesEvent \/ Still => BackendKept /\ events' = events /\ UNCHANGED <<fut, res>>
  BY WorkerVarsKept DEF HandlesEvent, Still, Quiet, BackendKept, BusKept, CycleKept
<1>. QED BY <1>1, <1>2

\* Sessions only grow.
LEMMA SessionGrows ==
  ASSUME Types, Stepped
  PROVE  session' \in Nat /\ session <= session'
<1>0. session \in Nat
  BY DEF Types, MasterTyped
<1>1. session' = session \/ session' = session + 1
  <2>1. ASSUME NEW c \in Callers, Continues(c)
        PROVE  session' = session \/ session' = session + 1
    <3>1. PICK v : \E done \in BOOLEAN : Effect(c, v, done)
      BY <2>1 DEF Continues
    <3>2. \A w : Reads(w) \/ Rescan(w) \/ Opens(w) \/ Cycles(w) \/ Starts(w) => session' = session \/ session' = session + 1
      BY DEF Reads, Rescan, Opens, Cycles, Starts, Keeps, Renews, Unchanged
    <3>. QED BY <3>1, <3>2 DEF Effect, Closes, Renews, Unchanged
  <2>2. ASSUME NEW c \in Callers, Moved(c), ~Continues(c)
        PROVE  session' = session \/ session' = session + 1
    BY <2>2 DEF Moved, Rests, Quiet, Submits, TimesOut, GivesUp, FaultsMaster, Stops, Renovates, SwitchesMode,
         Unchanged, Faults, Switches, Renews
  <2>3. CASE HandlesEvent
    <3>1. Unchanged \/ Reads(Head(batch).slaves) \/ Cycles(slaves) \/ Faults
      BY <2>3 DEF HandlesEvent, Handles
    <3>. QED BY <3>1 DEF Unchanged, Reads, Keeps, Renews, Cycles, Faults
  <2>4. CASE Polls \/ Works \/ Still
    BY <2>4 DEF Polls, Works, Still, Quiet, Unchanged
  <2>. QED BY <2>1, <2>2, <2>3, <2>4 DEF Stepped
<1>. QED BY <1>0, <1>1

\* Tasks are of this session or of one before, and only wake-ups are nobody's.
TasksOld == \A t \in WP!Around : t.session <= session /\ (t.owner \notin Callers => t.op = "wake")

LEMMA NextTasksOld ==
  ASSUME Types, TasksOld, [Next]_vars
  PROVE  TasksOld'
<1>0. /\ session \in Nat /\ session' \in Nat /\ session <= session'
      /\ \A t \in WP!Around : t.session \in Nat
  <2>1. \A t \in WP!Around : t \in WP!Tasks
    BY WorkerFits, WP!PlacesAround DEF Types, WorkerSound
  <2>. QED BY <2>1, NextStepped, SessionGrows DEF WP!Tasks, Types, MasterTyped
<1>1. \A t \in WP!Around : t.session <= session'
  BY <1>0 DEF TasksOld
<1>2. 0 <= session' /\ WP!NoTask.session = 0 /\ WP!NoTask.op = "wake" /\ W!Wake.session = 0 /\ W!Wake.op = "wake"
  BY <1>0 DEF WP!NoTask, W!Wake
<1>3. ASSUME NEW c \in Callers, Moved(c)
      PROVE  TasksOld'
  <2>1. CASE Renovates(c)
    <3>1. queue' = << >> /\ held' = WP!NoTask
      BY <2>1 DEF Renovates, FreshWorker
    <3>2. WP!Around' = {WP!NoTask}
      BY <3>1 DEF WP!Around
    <3>. QED BY <1>2, <3>2 DEF TasksOld
  <2>2. CASE ~Renovates(c)
    <3>1. LET new == W!Task(c, OpOf(call[c].step), call[c].arg, session)
          IN  new.session = session /\ new.owner = c
      BY DEF W!Task
    <3>2. ASSUME NEW t \in WP!Around'
          PROVE  t.session <= session' /\ (t.owner \notin Callers => t.op = "wake")
      <4>1. \/ t \in WP!Around \/ t = W!Task(c, OpOf(call[c].step), call[c].arg, session) \/ t = W!Wake
            \/ \E u \in WP!Around :
               IF u.owner = c THEN ~t.live /\ t.owner = c /\ t.op = u.op /\ t.session = u.session ELSE t = u
        BY <1>3, <2>2, <3>2, CallerAround
      <4>. QED BY <1>0, <1>1, <1>2, <3>1, <4>1 DEF TasksOld
    <3>. QED BY <3>2 DEF TasksOld
  <2>. QED BY <2>1, <2>2
<1>4. CASE Polls \/ HandlesEvent \/ Works \/ Still
  <2>1. WP!Around' \subseteq WP!Around \cup {WP!NoTask}
    <3>1. CASE Works
      BY <3>1, WorkerFits, WP!LoopAround DEF Types, WorkerSound, Works
    <3>2. CASE Polls
      <4>1. WP!Around' = WP!Around
        BY <3>2, WorkerFits, WP!ClientAround, CallersDiffer DEF Types, WorkerSound, Polls
      <4>. QED BY <4>1
    <3>3. CASE HandlesEvent \/ Still
      BY <3>3, WorkerVarsKept DEF HandlesEvent, Still, Quiet
    <3>. QED BY <1>4, <3>1, <3>2, <3>3
  <2>. QED BY <1>1, <1>2, <2>1 DEF TasksOld
<1>. QED BY <1>3, <1>4, NextStepped DEF Stepped

LEMMA InitTasksOld ==
  ASSUME Init
  PROVE  TasksOld
<1>1. queue = << >> /\ held = WP!NoTask /\ session = 0
  BY SameViews DEF Init, W!Init, M!Init
<1>2. WP!Around = {WP!NoTask}
  BY <1>1 DEF WP!Around
<1>. QED BY <1>1, <1>2 DEF TasksOld, WP!NoTask

-----------------------------------------------------------------------------
(* The events on their way                                                    *)

Announced == {events[i] : i \in 1 .. Len(events)} \cup {batch[i] : i \in 1 .. Len(batch)}

\* Events that a cycle brings about, and what tells that a worker did not start.
Cyclic(e) == e.kind \in {"slaves_changed", "cycle_fault"}
Fatal(e) == e.kind \in {"worker_fatal", "worker_lost"}

\* What a step adds to the events: a fatal one that is half handled, one of a worker
\* that did not start, and those of a cycle that stops.
NewEvent(e) ==
  \/ /\ HandlesEvent /\ Head(batch).kind = "worker_fatal" /\ stalled'
     /\ e.kind = "worker_lost" /\ e.session = Head(batch).session
  \/ /\ Works /\ StartupMayFail /\ wpc' = "drain"
     /\ e.kind = "worker_fatal" /\ e.session = NoSession
  \/ /\ Works /\ cyc /\ Cyclic(e) /\ e.session = cycSession
     /\ e.kind = "slaves_changed" => e.slaves = bus' /\ bus'.topo = bus.topo /\ conn /\ (conn' <=> conn)

LEMMA EventSequences ==
  ASSUME Types
  PROVE  /\ events \in Seq(WP!EventTypes)
         /\ batch \in Seq(BatchTypes)
         /\ \A i \in 1 .. Len(events) : events[i].kind \in WP!EventKinds
         /\ Announced \subseteq BatchTypes
<1>1. events \in Seq(WP!EventTypes) /\ batch \in Seq(BatchTypes)
  BY DEF Types, WorkerSound, WP!Typed
<1>2. \A i \in 1 .. Len(events) : events[i] \in WP!EventTypes
  BY <1>1
<1>3. \A i \in 1 .. Len(batch) : batch[i] \in BatchTypes
  BY <1>1
<1>4. \A i \in 1 .. Len(events) : events[i] \in BatchTypes /\ events[i].kind \in WP!EventKinds
  BY <1>2, SameViews DEF WP!EventTypes, WP!EventKinds, BatchTypes
<1>. QED BY <1>1, <1>3, <1>4 DEF Announced

LEMMA NewEvents ==
  ASSUME Types, Stepped
  PROVE  \A e \in Announced' : e \in Announced \/ NewEvent(e)
<1>0. WorkerSound
  BY DEF Types
<1>1. ASSUME NEW c \in Callers, Moved(c)
      PROVE  Announced' \subseteq Announced
  <2>1. batch' = batch \/ (Renovates(c) /\ batch' = events)
    BY <1>1 DEF Moved, Rests, Quiet, Submits, TimesOut, Continues, GivesUp, FaultsMaster, Stops, Renovates,
         SwitchesMode
  <2>2. events' = << >> \/ (~Renovates(c) /\ events' = events)
    BY <1>0, <1>1, CallerBackend DEF BackendFresh
  <2>. QED BY <2>1, <2>2 DEF Announced
<1>2. CASE Polls
  <2>1. events' = << >> /\ batch' = events
    BY <1>2 DEF Polls, WP!PollEvents
  <2>. QED BY <2>1 DEF Announced
<1>3. CASE HandlesEvent
  <2>1. events' = events /\ batch # << >>
    BY <1>0, <1>3, OtherBackend DEF HandlesEvent
  <2>2. /\ Len(Tail(batch)) \in Nat
        /\ \A i \in 1 .. Len(Tail(batch)) : Tail(batch)[i] \in Announced
    <3>1. batch \in Seq(BatchTypes)
      BY DEF Types
    <3>2. /\ Len(batch) \in Nat \ {0} /\ Len(Tail(batch)) = Len(batch) - 1
          /\ \A i \in 1 .. Len(Tail(batch)) : Tail(batch)[i] = batch[i + 1]
      BY <2>1, <3>1, HeadFacts
    <3>. QED BY <3>2 DEF Announced
  <2>3. CASE batch' = Tail(batch)
    BY <2>1, <2>2, <2>3 DEF Announced
  <2>4. CASE /\ Head(batch).kind = "worker_fatal" /\ stalled'
             /\ batch' = <<[kind |-> "worker_lost", session |-> Head(batch).session,
                            slaves |-> Head(batch).slaves]>> \o Tail(batch)
    <3> DEFINE l == [kind |-> "worker_lost", session |-> Head(batch).session, slaves |-> Head(batch).slaves]
    <3>1. Tail(batch) \in Seq(BatchTypes) /\ NewEvent(l)
      BY <1>3, <2>1, <2>4, HeadFacts DEF Types, NewEvent
    <3>2. l \in BatchTypes
      BY <2>1, HeadFacts DEF BatchTypes, Types
    <3> HIDE DEF l
    <3>3. \A i \in 1 .. Len(<<l>> \o Tail(batch)) :
            \/ (<<l>> \o Tail(batch))[i] = l
            \/ \E j \in 1 .. Len(Tail(batch)) : (<<l>> \o Tail(batch))[i] = Tail(batch)[j]
      <4>1. <<l>> \in Seq(BatchTypes)
        BY <3>2
      <4> DEFINE s == Tail(batch)
      <4>2. s \in Seq(BatchTypes)
        BY <3>1
      <4> HIDE DEF s
      <4>3. /\ Len(<<l>> \o s) = 1 + Len(s)
            /\ \A i \in 1 .. Len(<<l>> \o s) : (<<l>> \o s)[i] = IF i = 1 THEN l ELSE s[i - 1]
        BY <4>1, <4>2
      <4>4. \A i \in 1 .. Len(<<l>> \o s) : i # 1 => i - 1 \in 1 .. Len(s)
        BY <4>2, <4>3
      <4>. QED BY <4>3, <4>4 DEF s
    <3>4. batch' = <<l>> \o Tail(batch)
      BY <2>4 DEF l
    <3>. QED BY <2>1, <2>2, <3>1, <3>3, <3>4 DEF Announced
  <2>. QED BY <1>3, <2>3, <2>4 DEF HandlesEvent, Handles
<1>4. CASE Works
  <2>0. batch' = batch /\ events \in Seq(WP!EventTypes)
    BY <1>4, EventSequences DEF Works
  <2>1. Between \/ FailsToStart \/ (\E o : \E v : Finishes(o, v)) \/ Exchanges \/ Exits
    BY <1>0, <1>4, WorkSteps DEF Works
  <2>2. CASE events' = events
    BY <2>0, <2>2 DEF Announced
  <2>3. ASSUME NEW l, events' = Append(events, l), NewEvent(l)
        PROVE  \A e \in Announced' : e \in Announced \/ NewEvent(e)
    <3>1. \A i \in 1 .. Len(events') : events'[i] = l \/ (i \in 1 .. Len(events) /\ events'[i] = events[i])
      BY <2>0, <2>3
    <3>. QED BY <2>0, <2>3, <3>1 DEF Announced
  <2>4. ASSUME NEW k, NEW l, events' = events \o <<k, l>>, NewEvent(k), NewEvent(l)
        PROVE  \A e \in Announced' : e \in Announced \/ NewEvent(e)
    <3>1. \A i \in 1 .. Len(events') :
            events'[i] \in {k, l} \/ (i \in 1 .. Len(events) /\ events'[i] = events[i])
      BY <2>0, <2>4
    <3>. QED BY <2>0, <2>4, <3>1 DEF Announced
  <2>5. CASE FailsToStart
    BY <1>4, <2>3, <2>5 DEF FailsToStart, NewEvent
  <2>6. CASE Exchanges /\ events' # events
    <3>1. /\ NewEvent([kind |-> "cycle_fault", session |-> cycSession, slaves |-> NoSlaves])
          /\ conn => NewEvent([kind |-> "slaves_changed", session |-> cycSession, slaves |-> bus'])
      BY <1>4, <2>6 DEF Exchanges, NewEvent, Cyclic
    <3>. QED BY <2>3, <2>4, <2>6, <3>1 DEF Exchanges
  <2>. QED BY <2>1, <2>2, <2>5, <2>6 DEF Between, Finishes, Exits
<1>5. CASE Still
  BY <1>0, <1>5, OtherBackend DEF Announced, Still, Quiet
<1>. QED BY <1>1, <1>2, <1>3, <1>4, <1>5 DEF Stepped

\* Events of a cycle name a session that was; a fatal event names none; and a fatal
\* event that is half handled is the one the event loop has in its hands.
EventsOld ==
  /\ \A e \in Announced : Cyclic(e) => e.session \in Nat /\ e.session <= session
  /\ \A e \in Announced : Fatal(e) => e.session = NoSession
  /\ cyc => cycSession \in Nat /\ cycSession <= session
  /\ \A i \in 1 .. Len(batch) : batch[i].kind = "worker_lost" => i = 1

LEMMA CycleSessionOld ==
  ASSUME Types, TasksOld, cyc => cycSession \in Nat /\ cycSession <= session, Stepped
  PROVE  cyc' => cycSession' \in Nat /\ cycSession' <= session'
<1>0. session \in Nat /\ session' \in Nat /\ session <= session' /\ WorkerSound
  BY SessionGrows DEF Types, MasterTyped
<1>1. CycleKept \/ ~cyc' => (cyc' => cycSession' \in Nat /\ cycSession' <= session')
  BY <1>0 DEF CycleKept
<1>2. CASE \E c \in Callers : Moved(c)
  BY <1>0, <1>1, <1>2, CallerBackend DEF BackendKept, BackendFresh
<1>3. CASE Polls \/ HandlesEvent \/ Still
  BY <1>0, <1>1, <1>3, OtherBackend DEF BackendKept
<1>4. CASE Works
  <2>1. Between \/ FailsToStart \/ (\E o : \E v : Finishes(o, v)) \/ Exchanges \/ Exits
    BY <1>0, <1>4, WorkSteps DEF Works
  <2>2. held \in WP!Around /\ held \in WP!Tasks
    BY WorkerFits, WP!PlacesAround DEF Types, WorkerSound, WP!Around
  <2>3. held.session \in Nat /\ held.session <= session
    BY <2>2 DEF TasksOld, WP!Tasks
  <2>4. ASSUME NEW o, NEW v, Finishes(o, v)
        PROVE  cyc' => cycSession' \in Nat /\ cycSession' <= session'
    <3>1. cyc' => cycSession' = held.session \/ (cyc /\ cycSession' = cycSession)
      BY <2>4 DEF Finishes
    <3>. QED BY <1>0, <2>3, <3>1
  <2>5. Between \/ FailsToStart \/ Exchanges \/ Exits => CycleKept \/ ~cyc'
    BY DEF Between, FailsToStart, Exchanges, Exits
  <2>. QED BY <1>1, <2>1, <2>4, <2>5
<1>. QED BY <1>2, <1>3, <1>4 DEF Stepped

LEMMA LostFirst ==
  ASSUME Types, \A i \in 1 .. Len(batch) : batch[i].kind = "worker_lost" => i = 1, Stepped
  PROVE  \A i \in 1 .. Len(batch') : batch'[i].kind = "worker_lost" => i = 1
<1>1. CASE batch' = batch
  BY <1>1
<1>2. CASE batch' = events
  BY <1>2, EventSequences DEF WP!EventKinds
<1>3. CASE HandlesEvent
  <2>0. batch # << >> /\ batch \in Seq(BatchTypes)
    BY <1>3 DEF HandlesEvent, Types
  <2>1. /\ Tail(batch) \in Seq(BatchTypes)
        /\ \A i \in 1 .. Len(Tail(batch)) : Tail(batch)[i].kind # "worker_lost"
    <3>1. /\ Len(batch) \in Nat \ {0} /\ Len(Tail(batch)) = Len(batch) - 1 /\ Tail(batch) \in Seq(BatchTypes)
          /\ \A i \in 1 .. Len(Tail(batch)) : Tail(batch)[i] = batch[i + 1]
      BY <2>0, HeadFacts
    <3>. QED BY <3>1
  <2>2. CASE batch' = Tail(batch)
    BY <2>1, <2>2
  <2>3. ASSUME NEW l, batch' = <<l>> \o Tail(batch)
        PROVE  \A i \in 1 .. Len(batch') : batch'[i].kind = "worker_lost" => i = 1
    <3> DEFINE s == Tail(batch)
    <3>1. s \in Seq(BatchTypes) /\ \A i \in 1 .. Len(s) : s[i].kind # "worker_lost"
      BY <2>1
    <3>2. batch' = <<l>> \o s
      BY <2>3
    <3> HIDE DEF s
    <3>3. /\ Len(<<l>> \o s) = 1 + Len(s)
          /\ \A i \in 1 .. Len(<<l>> \o s) : (<<l>> \o s)[i] = IF i = 1 THEN l ELSE s[i - 1]
      BY <3>1
    <3>4. \A i \in 1 .. Len(<<l>> \o s) : i # 1 => i - 1 \in 1 .. Len(s)
      BY <3>1, <3>3
    <3>. QED BY <3>1, <3>2, <3>3, <3>4
  <2>. QED BY <1>3, <2>2, <2>3 DEF HandlesEvent, Handles
<1>4. (\E c \in Callers : Moved(c)) \/ Polls \/ Works \/ Still => batch' = batch \/ batch' = events
  BY DEF Moved, Rests, Quiet, Submits, TimesOut, Continues, GivesUp, FaultsMaster, Stops, Renovates,
         SwitchesMode, Polls, Works, Still
<1>. QED BY <1>1, <1>2, <1>3, <1>4 DEF Stepped

LEMMA NextEventsOld ==
  ASSUME Types, TasksOld, EventsOld, [Next]_vars
  PROVE  EventsOld'
<1>0. Stepped /\ session \in Nat /\ session' \in Nat /\ session <= session'
  BY NextStepped, SessionGrows DEF Types, MasterTyped
<1>1. \A e \in Announced' : e \in Announced \/ NewEvent(e)
  BY <1>0, NewEvents
<1>h. HandlesEvent => Head(batch) \in Announced
  <2>1. batch # << >> /\ batch \in Seq(BatchTypes) => Head(batch) = batch[1] /\ 1 \in 1 .. Len(batch)
    BY HeadFacts
  <2>. QED BY <2>1 DEF Types, HandlesEvent, Announced
<1>2. ASSUME NEW e \in Announced'
      PROVE  /\ Cyclic(e) => e.session \in Nat /\ e.session <= session'
             /\ Fatal(e) => e.session = NoSession
  <2>1. CASE e \in Announced
    BY <1>0, <2>1 DEF EventsOld
  <2>2. CASE NewEvent(e)
    BY <1>0, <1>h, <2>2 DEF NewEvent, EventsOld, Cyclic, Fatal
  <2>. QED BY <1>1, <1>2, <2>1, <2>2
<1>3. cyc' => cycSession' \in Nat /\ cycSession' <= session'
  BY <1>0, CycleSessionOld DEF EventsOld
<1>4. \A i \in 1 .. Len(batch') : batch'[i].kind = "worker_lost" => i = 1
  BY <1>0, LostFirst DEF EventsOld
<1>. QED BY <1>2, <1>3, <1>4 DEF EventsOld, Cyclic, Fatal

LEMMA InitEventsOld ==
  ASSUME Init
  PROVE  EventsOld
<1>1. events = << >> /\ batch = << >>
  BY DEF Init, W!Init
<1>2. ~cyc
  BY Zenon DEF Init, W!Init
<1>3. Announced = {}
  BY <1>1 DEF Announced
<1>. QED BY <1>1, <1>2, <1>3 DEF EventsOld

-----------------------------------------------------------------------------
(* Where the Master is while a command deals with the worker                  *)

CmdPhase == \A c \in Callers :
  /\ call[c].stage \in Working /\ call[c].step \in {"enumerate", "auto_scan", "connect"} => phase \notin Opened
  /\ call[c].stage \in {"replace", "join", "switch"} /\ call[c].method = "switch_mode" => phase \notin Opened
  /\ call[c].stage \in Working /\ call[c].step \in {"scan", "check_target", "program", "program_read"}
       => phase # "cyclic"

LEMMA EffectPhase ==
  ASSUME NEW c \in Callers, NEW v, NEW done, Effect(c, v, done)
  PROVE  /\ call[c].step = "enumerate" => Closes \/ Unchanged
         /\ call[c].step = "check_target" => Unchanged
         /\ call[c].step \in {"scan", "program", "program_read"} =>
              Rescan(NoSlaves) \/ Rescan(v) \/ Unchanged
         /\ call[c].step \in {"enumerate", "auto_scan", "connect"} =>
              Closes \/ Opens(v) \/ Opens(NoSlaves) \/ Unchanged
BY DEF Effect, ReadSteps, ScanSteps

LEMMA NextCmdPhase ==
  ASSUME Types, CmdPhase, [Next]_vars
  PROVE  CmdPhase'
<1>1. ASSUME NEW c \in Callers, Moved(c)
      PROVE  CmdPhase'
  <2>0. OthersStay(c)
    BY <1>1 DEF Moved, Rests, Submits, TimesOut, Continues, GivesUp, FaultsMaster, Stops, Renovates,
         SwitchesMode, Takes, GoesOn, Ends, Leaves
  <2>1. ASSUME NEW d \in Callers \ {c}, Engaged(d)
        PROVE  phase' = phase
    <3>1. ~Engaged(c)
      BY <2>1, EngagedIsOne DEF OneEngaged
    <3>2. call[c].stage \notin Working \cup {"switch"}
      BY <3>1 DEF Engaged
    <3>. QED BY <1>1, <3>2 DEF Moved, Rests, Quiet, Unchanged, Submits, TimesOut, Continues, GivesUp,
                FaultsMaster, Stops, Renovates, SwitchesMode, At, Working
  <2>2. \A d \in Callers :
          \/ call[d].stage \in Working
          \/ call[d].stage \in {"replace", "join", "switch"} /\ call[d].method = "switch_mode" => Engaged(d)
    BY DEF Engaged
  <2>3. /\ call'[c].stage \in Working /\ call'[c].step \in {"enumerate", "auto_scan", "connect"}
             => phase' \notin Opened
        /\ call'[c].stage \in {"replace", "join", "switch"} /\ call'[c].method = "switch_mode"
             => phase' \notin Opened
        /\ call'[c].stage \in Working /\ call'[c].step \in {"scan", "check_target", "program", "program_read"}
             => phase' # "cyclic"
    <3>1. CASE Rests(c)
      BY <3>1 DEF Rests, Quiet, Unchanged, Chosen, Working
    <3>2. CASE \/ Submits(c) \/ TimesOut(c) \/ GivesUp(c) \/ Stops(c) \/ Renovates(c)
      <4>1. /\ phase' = phase /\ call'[c].step = call[c].step /\ call'[c].method = call[c].method
            /\ \/ call[c].stage \in Working /\ call'[c].stage \in Working
               \/ call[c].stage \in {"replace", "join"} /\ call'[c].stage \in {"join", "switch"}
        BY <3>2 DEF Submits, TimesOut, GivesUp, Stops, Renovates, Unchanged, Takes, At, Working
      <4>. QED BY <4>1 DEF CmdPhase, Working
    <3>3. CASE FaultsMaster(c)
      BY <3>3 DEF FaultsMaster, Faults, Opened
    <3>4. CASE Continues(c)
      <4>1. PICK v \in Views : \E done \in BOOLEAN : GoesOn(c) /\ Effect(c, v, done)
        BY <3>4 DEF Continues
      <4>2. call[c].stage \in Working
        BY <3>4 DEF Continues, At, Working
      <4>3. CASE Ends(c)
        BY <4>3 DEF Ends, Leaves, Takes, Idle, Working
      <4>4. CASE Takes(c, "fault", "end")
        BY <4>4 DEF Takes
      <4>5. CASE call[c].step \in DOMAIN NextStep /\ Takes(c, "submit", NextStep[call[c].step])
        <5>1. call'[c].stage = "submit" /\ call'[c].step = NextStep[call[c].step]
          BY <4>5 DEF Takes
        <5>2. call[c].step = "enumerate" => phase' \notin Opened
          BY <4>1, <4>2, EffectPhase DEF CmdPhase, Closes, Unchanged, Opened
        <5>3. call[c].step \in {"check_target", "program"} => phase' # "cyclic"
          BY <4>1, <4>2, EffectPhase DEF CmdPhase, Rescan, Unchanged
        <5>. QED BY <4>5, <5>1, <5>2, <5>3, NextSteps
      <4>. QED BY <4>1, <4>3, <4>4, <4>5 DEF GoesOn
    <3>5. CASE SwitchesMode(c)
      BY <3>5 DEF SwitchesMode, Ends, Leaves, Takes, Idle, Working
    <3>. QED BY <1>1, <3>1, <3>2, <3>3, <3>4, <3>5 DEF Moved
  <2>. QED BY <2>0, <2>1, <2>2, <2>3 DEF CmdPhase, OthersStay, Engaged
<1>2. CASE HandlesEvent
  <2>1. /\ call' = call /\ (phase \notin Opened => phase' \notin Opened)
        /\ phase # "cyclic" => phase' # "cyclic"
    BY <1>2 DEF HandlesEvent, Handles, Unchanged, Reads, Cycles, Faults, Opened, Known
  <2>. QED BY <2>1 DEF CmdPhase
<1>3. CASE Polls \/ Works \/ Still
  <2>1. call' = call /\ phase' = phase
    BY <1>3 DEF Polls, Works, Still, Quiet, Unchanged
  <2>. QED BY <2>1 DEF CmdPhase
<1>. QED BY <1>1, <1>2, <1>3, NextStepped DEF Stepped

LEMMA InitCmdPhase ==
  ASSUME Init
  PROVE  CmdPhase
BY DEF Init, CmdPhase, Idle, Working

\* The event loop has marked the worker and is about to tell the Master so.
LostAtHead == batch # << >> /\ Head(batch).kind = "worker_lost"

\* No event comes from the worker half handled.
LEMMA EventsNotLost ==
  ASSUME Types, events # << >>
  PROVE  Head(events).kind # "worker_lost"
<1>1. Head(events) = events[1] /\ 1 \in 1 .. Len(events)
  BY EventSequences
<1>. QED BY <1>1, EventSequences DEF WP!EventKinds

LEMMA HeadAnnounced ==
  ASSUME Types, batch # << >>
  PROVE  Head(batch) \in Announced /\ Head(batch) \in BatchTypes
<1>1. Head(batch) = batch[1] /\ 1 \in 1 .. Len(batch) /\ Head(batch) \in BatchTypes
  BY HeadFacts DEF Types
<1>. QED BY <1>1 DEF Announced

\* What the event loop does with the first event, for what the invariants tell apart.
LEMMA HeadHandled ==
  ASSUME Types, EventsOld, HandlesEvent
  PROVE  \/ /\ LostAtHead /\ Faults /\ batch' = Tail(batch) /\ (stalled' <=> stalled)
         \/ /\ ~LostAtHead /\ Head(batch).kind = "worker_fatal" /\ Unchanged /\ stalled' /\ LostAtHead'
         \/ /\ ~LostAtHead /\ ~Fatal(Head(batch)) /\ batch' = Tail(batch) /\ (stalled' <=> stalled)
            /\ \/ Unchanged
               \/ /\ Head(batch).kind = "slaves_changed" /\ Head(batch).session = session
                  /\ Reads(Head(batch).slaves)
               \/ Cycles(slaves)
<1> DEFINE e == Head(batch)
<1>1. e \in Announced /\ e \in BatchTypes /\ Handles(e) /\ batch # << >>
  BY HeadAnnounced DEF HandlesEvent
<1>2. /\ Fatal(e) => e.session = NoSession
      /\ Cyclic(e) => e.session \in Nat
  BY <1>1 DEF EventsOld
<1>3. NoSession \notin Nat
  BY BridgeAssumption
<1>4. CASE batch' = <<[kind |-> "worker_lost", session |-> e.session, slaves |-> e.slaves]>> \o Tail(batch)
           /\ e.kind = "worker_fatal" /\ Unchanged /\ stalled'
  <2> DEFINE l == [kind |-> "worker_lost", session |-> e.session, slaves |-> e.slaves]
             s == Tail(batch)
  <2>1. l.kind = "worker_lost" /\ s \in Seq(BatchTypes) /\ batch' = <<l>> \o s
    BY <1>1, <1>4, HeadFacts DEF Types
  <2>2. l \in BatchTypes
    BY <1>1 DEF BatchTypes
  <2> HIDE DEF l, s
  <2>3. batch' # << >> /\ Head(batch') = l
    BY <2>1, <2>2
  <2>. QED BY <1>4, <2>1, <2>3 DEF LostAtHead
<1>5. CASE ~(e.kind = "worker_fatal" /\ stalled' /\ Unchanged
             /\ batch' = <<[kind |-> "worker_lost", session |-> e.session, slaves |-> e.slaves]>> \o Tail(batch))
  BY <1>1, <1>2, <1>3, <1>5 DEF Handles, LostAtHead, Fatal, Cyclic, BatchTypes
<1>. QED BY <1>4, <1>5

\* A worker that was given up: the Master shows it, or is about to; or it was
\* disconnected after the worker was marked, and nobody waits for that worker.
StallShown ==
  stalled =>
    \/ LostAtHead \/ phase = "faulted" \/ \E c \in Callers : call[c].stage = "faulting"
    \/ phase = "disconnected" /\ \A c \in Callers : call[c].stage # "await"

LEMMA NextStallShown ==
  ASSUME Types, EventsOld, StallShown, [Next]_vars
  PROVE  StallShown'
<1>0. phase \in Phases
  BY DEF Types, MasterTyped
<1>1. ASSUME NEW c \in Callers, Moved(c), stalled'
      PROVE  \/ LostAtHead' \/ phase' = "faulted" \/ \E d \in Callers : call'[d].stage = "faulting"
             \/ phase' = "disconnected" /\ \A d \in Callers : call'[d].stage # "await"
  <2>0. OthersStay(c) /\ (LostAtHead' <=> LostAtHead)
    <3>1. OthersStay(c) /\ (batch' = batch \/ (batch = << >> /\ batch' = events))
      BY <1>1 DEF Moved, Rests, Quiet, Submits, TimesOut, Continues, GivesUp, FaultsMaster, Stops, Renovates,
         SwitchesMode, Takes, GoesOn, Ends, Leaves
    <3>. QED BY <3>1, EventsNotLost DEF LostAtHead
  <2>1. CASE phase' = phase /\ stalled /\ call'[c].stage # "await"
             /\ (call[c].stage = "faulting" => call'[c].stage = "faulting")
    BY <2>0, <2>1 DEF StallShown, OthersStay
  <2>2. CASE Rests(c)
    BY <1>1, <2>1, <2>2 DEF Rests, Quiet, Unchanged, Working
  <2>3. CASE Submits(c) \/ TimesOut(c) \/ Stops(c) \/ Renovates(c)
    BY <1>1, <2>1, <2>3 DEF Submits, TimesOut, Stops, Renovates, Unchanged, Takes, At
  <2>4. CASE GivesUp(c)
    BY <1>1, <2>1, <2>4 DEF GivesUp, Unchanged, Takes, At
  <2>5. CASE FaultsMaster(c)
    BY <2>5 DEF FaultsMaster, Faults
  <2>6. CASE Continues(c) \/ SwitchesMode(c)
    <3>1. /\ stalled /\ call[c].stage # "faulting" /\ call'[c].stage # "await"
          /\ \A d \in Callers \ {c} : call'[d].stage \notin {"await", "faulting"}
          /\ \A d \in Callers \ {c} : call[d].stage \notin {"await", "faulting"}
      <4>1. Engaged(c) /\ stalled /\ call[c].stage # "faulting" /\ call'[c].stage # "await"
        BY <1>1, <2>6 DEF Continues, SwitchesMode, Engaged, At, Working, GoesOn, Ends, Leaves, Takes, Idle
      <4>2. \A d \in Callers \ {c} : call[d].stage \notin {"await", "faulting"}
        BY <4>1, EngagedIsOne DEF OneEngaged, Engaged, Working
      <4>. QED BY <2>0, <4>1, <4>2 DEF OthersStay
    <3>2. LostAtHead \/ phase = "faulted" \/ (phase = "disconnected" /\ call[c].stage # "await")
      BY <3>1 DEF StallShown
    <3>3. CASE SwitchesMode(c)
      BY <2>0, <3>1, <3>2, <3>3 DEF SwitchesMode, Switches, Unchanged
    <3>4. CASE Continues(c)
      <4>1. PICK v \in Views : \E done \in BOOLEAN :
              /\ Effect(c, v, done)
              /\ call[c].stage = "await" \/ ~done
        BY <3>4 DEF Continues, At
      <4>2. PICK done \in BOOLEAN : Effect(c, v, done) /\ (call[c].stage = "await" \/ ~done)
        BY <4>1
      <4>3. phase' = "faulted" <=> phase = "faulted"
        BY <4>2, EffectTyped DEF Types
      <4>4. CASE ~done
        <5>1. Reads(v) \/ Rescan(NoSlaves) \/ Closes \/ Unchanged
          BY <4>2, <4>4 DEF Effect
        <5>2. phase = "disconnected" => phase' = "disconnected"
          BY <5>1 DEF Reads, Rescan, Closes, Unchanged, MasterTyped, Phases, Opened
        <5>. QED BY <2>0, <3>1, <3>2, <4>3, <5>2
      <4>5. CASE done
        BY <2>0, <3>2, <4>2, <4>3, <4>5
      <4>. QED BY <4>4, <4>5
    <3>. QED BY <2>6, <3>3, <3>4
  <2>. QED BY <1>1, <2>2, <2>3, <2>4, <2>5, <2>6 DEF Moved
<1>2. ASSUME HandlesEvent, stalled'
      PROVE  \/ LostAtHead' \/ phase' = "faulted" \/ \E d \in Callers : call'[d].stage = "faulting"
             \/ phase' = "disconnected" /\ \A d \in Callers : call'[d].stage # "await"
  <2>0. call' = call
    BY <1>2 DEF HandlesEvent
  <2>1. CASE LostAtHead /\ Faults
    BY <2>1 DEF Faults
  <2>2. CASE ~LostAtHead /\ stalled
    <3>1. phase = "faulted" \/ (\E c \in Callers : call[c].stage = "faulting")
          \/ (phase = "disconnected" /\ \A c \in Callers : call[c].stage # "await")
      BY <2>2 DEF StallShown
    <3>2. /\ phase = "faulted" => phase' = "faulted"
          /\ phase = "disconnected" => phase' = "disconnected"
      <4>1. Unchanged \/ Reads(Head(batch).slaves) \/ Cycles(slaves)
        BY <1>2, <2>2, HeadHandled
      <4>. QED BY <4>1 DEF Unchanged, Reads, Cycles, Known, Opened, MasterTyped, Phases
    <3>. QED BY <2>0, <3>1, <3>2
  <2>. QED BY <1>2, <2>1, <2>2, HeadHandled
<1>3. ASSUME Polls \/ Works \/ Still, stalled'
      PROVE  \/ LostAtHead' \/ phase' = "faulted" \/ \E d \in Callers : call'[d].stage = "faulting"
             \/ phase' = "disconnected" /\ \A d \in Callers : call'[d].stage # "await"
  BY <1>3 DEF StallShown, Polls, Works, Still, Quiet, Unchanged, LostAtHead
<1>. QED BY <1>1, <1>2, <1>3, NextStepped DEF Stepped, StallShown

LEMMA InitStallShown ==
  ASSUME Init
  PROVE  StallShown
BY DEF Init, StallShown

-----------------------------------------------------------------------------
(* Answers that wait to be read                                               *)

\* The operations that may change the adapter or the bus are named as their steps.
LEMMA MovingSteps ==
  /\ \A s \in AllSteps : OpOf(s) \in WP!Moving => s = OpOf(s)
  /\ \A s \in AllSteps \cap WP!Moving : OpOf(s) = s
<1>1. \A s \in AllSteps :
        \/ s \in {"stop", "stop_first", "detach_stop"} \/ s \in {"clear", "reconfig", "access", "reset", "check_target"}
        \/ s \in {"read", "recheck", "scan_read", "request_read", "reconfig_read", "start_read",
                  "program_read", "clear_read"}
        \/ s \in {"enumerate", "auto_scan", "connect", "scan", "disconnect", "program", "request", "start",
                  "probe", "end"}
  BY DEF AllSteps
<1>. QED BY <1>1, OpFacts DEF WP!Moving

\* Whose task it is that the thread ends.
LEMMA WhoseTask ==
  ASSUME Types, TasksFit, TasksOld, NEW o, NEW v, Finishes(o, v)
  PROVE  \/ Untracked
         \/ held.owner \notin Callers /\ held.op = "wake"
         \/ /\ held.owner \in Callers /\ Engaged(held.owner) /\ held.op = OpOf(call[held.owner].step)
            /\ call[held.owner].stage \in {"await", "fault", "faulting"}
            /\ fut[held.owner] \in WP!Waiting
<1>1. held \in WP!Around /\ held.live
  BY DEF WP!Around, Finishes
<1>2. held.owner \notin Callers => held.op = "wake"
  BY <1>1 DEF TasksOld
<1>3. held.owner \in Callers => fut[held.owner] \in WP!Waiting
  BY <1>1, WorkerFits, WP!LiveIsWaiting DEF Types, WorkerSound
<1>4. CASE ~Untracked /\ held.owner \in Callers
  BY <1>1, <1>3, <1>4 DEF TasksFit, TaskFits, Engaged, Working
<1>. QED BY <1>2, <1>4

\* The answer that a caller has not read yet is about the bus there is.
AnswerIsBus == \A c \in Callers : call[c].stage = "await" =>
  /\ fut[c] = "done" /\ OpOf(call[c].step) \in WP!Listing => (conn => res[c].topo = bus.topo)
  /\ fut[c] = "failed" /\ res[c] # NoSlaves => (conn => res[c].topo = bus.topo)
  /\ fut[c] = "done" /\ (call[c].step = "connect" \/ (call[c].step = "auto_scan" /\ res[c] # NoSlaves))
       => conn \/ stop

LEMMA AwaitsAnew ==
  ASSUME NEW c \in Callers, Moved(c), call'[c].stage = "await"
  PROVE  Submits(c) /\ ~stalled
BY DEF Moved, Rests, Submits, TimesOut, Continues, GivesUp, FaultsMaster, Stops, Renovates, SwitchesMode,
       Takes, GoesOn, Ends, Leaves, Idle

LEMMA NextAnswerIsBus ==
  ASSUME Types, Awaited, TasksFit, TasksOld, AnswerIsBus, [Next]_vars
  PROVE  AnswerIsBus'
<1>0. WorkerSound
  BY DEF Types
<1>k. ASSUME NEW c \in Callers, AnswerIsBus, call'[c] = call[c], fut'[c] = fut[c], res'[c] = res[c],
             conn' => conn /\ bus'.topo = bus.topo, conn => conn' \/ stop', stop => stop',
             call'[c].stage = "await"
      PROVE  /\ fut'[c] = "done" /\ OpOf(call'[c].step) \in WP!Listing => (conn' => res'[c].topo = bus'.topo)
             /\ fut'[c] = "failed" /\ res'[c] # NoSlaves => (conn' => res'[c].topo = bus'.topo)
             /\ fut'[c] = "done" /\ (call'[c].step = "connect" \/ (call'[c].step = "auto_scan" /\ res'[c] # NoSlaves))
                  => conn' \/ stop'
  BY <1>k DEF AnswerIsBus
<1>1. ASSUME NEW c \in Callers, Moved(c)
      PROVE  AnswerIsBus'
  <2>1. CASE Renovates(c)
    <3>1. \A d \in Callers : fut'[d] = "none"
      BY <2>1 DEF Renovates, FreshWorker
    <3>. QED BY <3>1 DEF AnswerIsBus, OpOf
  <2>2. CASE ~Renovates(c)
    <3>1. BackendKept /\ OthersStay(c) /\ OthersFuts(c) /\ OwnFut(c)
      BY <1>0, <1>1, <2>2, CallerBackend, CallerFuts
    <3>2. (conn' <=> conn) /\ bus' = bus /\ (stop => stop')
      BY <3>1 DEF BackendKept, BusKept
    <3>3. ASSUME NEW d \in Callers, call'[d].stage = "await"
          PROVE  /\ fut'[d] = "done" /\ OpOf(call'[d].step) \in WP!Listing => (conn' => res'[d].topo = bus'.topo)
                 /\ fut'[d] = "failed" /\ res'[d] # NoSlaves => (conn' => res'[d].topo = bus'.topo)
                 /\ fut'[d] = "done" /\ (call'[d].step = "connect" \/ (call'[d].step = "auto_scan" /\ res'[d] # NoSlaves))
                      => conn' \/ stop'
      <4>1. CASE d # c
        BY <1>k, <3>1, <3>2, <3>3, <4>1 DEF OthersStay, OthersFuts
      <4>2. CASE d = c
        <5>1. Submits(c) /\ ~stalled
          BY <1>1, <3>3, <4>2, AwaitsAnew
        <5>2. fut'[c] \in {"pending", "failed"} /\ res'[c] = NoSlaves
          BY <3>1, <5>1 DEF OwnFut, Submits, At, Awaited
        <5>. QED BY <4>2, <5>2
      <4>. QED BY <4>1, <4>2
    <3>. QED BY <3>3 DEF AnswerIsBus, OpOf
  <2>. QED BY <2>1, <2>2
<1>2. CASE Polls \/ HandlesEvent \/ Still
  <2>1. BackendKept /\ UNCHANGED <<fut, res>> /\ call' = call
    BY <1>0, <1>2, OtherBackend DEF Polls, HandlesEvent, Still
  <2>2. (conn' <=> conn) /\ bus' = bus /\ (stop => stop')
    BY <2>1 DEF BackendKept, BusKept
  <2>. QED BY <1>k, <2>1, <2>2 DEF AnswerIsBus, OpOf
<1>3. CASE Works
  <2>0. call' = call /\ (stop' <=> stop)
    BY <1>0, <1>3, WorkSteps DEF Works
  <2>1. CASE UNCHANGED <<fut, res>> /\ (conn' => conn /\ bus'.topo = bus.topo) /\ (conn => conn' \/ stop')
    BY <1>k, <2>0, <2>1 DEF AnswerIsBus, OpOf
  <2>2. CASE FutsKept /\ BusKept
    <3>1. \A c \in Callers : /\ res'[c] = res[c]
                             /\ \/ fut'[c] = fut[c] \/ fut'[c] \notin {"done", "failed"}
                                \/ fut'[c] = "failed" /\ res[c] = NoSlaves
      BY <2>2 DEF FutsKept, Awaited
    <3>. QED BY <1>k, <2>0, <2>2, <3>1 DEF AnswerIsBus, OpOf, BusKept
  <2>3. ASSUME NEW o, NEW v, Finishes(o, v), NEW c \in Callers, call[c].stage = "await"
        PROVE  /\ fut'[c] = "done" /\ OpOf(call'[c].step) \in WP!Listing => (conn' => res'[c].topo = bus'.topo)
               /\ fut'[c] = "failed" /\ res'[c] # NoSlaves => (conn' => res'[c].topo = bus'.topo)
               /\ fut'[c] = "done" /\ (call'[c].step = "connect" \/ (call'[c].step = "auto_scan" /\ res'[c] # NoSlaves))
                    => conn' \/ stop'
    <3>1. ~Untracked /\ Engaged(c)
      BY <2>3 DEF Untracked, Engaged, Working
    <3>2. CASE c = held.owner
      <4>1. fut'[c] = o /\ res'[c] = v /\ WP!Brings(held.op, o, v) /\ held.op = OpOf(call[c].step)
        BY <2>3, <3>1, <3>2, WhoseTask DEF Finishes
      <4>2. OpOf(call[c].step) \in WP!Listing /\ o = "done" => v.topo = bus'.topo
        BY <4>1 DEF WP!Brings
      <4>3. o = "failed" /\ v # NoSlaves => v.topo = bus'.topo
        BY <4>1, SameViews DEF WP!Brings
      <4>4. o = "done" /\ call[c].step = "connect" => conn'
        BY <4>1, OpFacts DEF WP!Brings
      <4>5. o = "done" /\ call[c].step = "auto_scan" /\ v # NoSlaves => conn'
        BY <4>1, OpFacts, SameViews DEF WP!Brings
      <4>. QED BY <2>0, <4>1, <4>2, <4>3, <4>4, <4>5
    <3>3. CASE c # held.owner
      <4>1. held.op = "wake"
        BY <2>3, <3>1, <3>3, WhoseTask, EngagedIsOne DEF OneEngaged
      <4>2. conn' = conn /\ bus'.topo = bus.topo
        BY <2>3, <4>1 DEF Finishes, WP!Brings, WP!Moving
      <4>3. fut'[c] = fut[c] /\ res'[c] = res[c]
        BY <2>3, <3>3 DEF Finishes
      <4>4. (conn' => conn) /\ (conn => conn')
        BY <4>2, Zenon
      <4>. QED BY <1>k, <2>0, <2>3, <4>2, <4>3, <4>4
    <3>. QED BY <3>2, <3>3
  <2>4. ASSUME NEW o, NEW v, Finishes(o, v)
        PROVE  AnswerIsBus'
    BY <2>0, <2>3, <2>4 DEF AnswerIsBus, OpOf
  <2>5. Between \/ FailsToStart \/ (\E o : \E v : Finishes(o, v)) \/ Exchanges \/ Exits
    BY <1>0, <1>3, WorkSteps DEF Works
  <2>. QED BY <2>0, <2>1, <2>2, <2>4, <2>5 DEF Between, FailsToStart, Exchanges, Exits
<1>. QED BY <1>1, <1>2, <1>3, NextStepped DEF Stepped

LEMMA InitAnswerIsBus ==
  ASSUME Init
  PROVE  AnswerIsBus
BY DEF Init, AnswerIsBus, Idle

-----------------------------------------------------------------------------
(* The adapter of a connected Master                                          *)

Detaching == \E c \in Callers : call[c].stage \in Working /\ call[c].step = "disconnect"

\* A connected Master has the adapter open, until it is disconnected, or the
\* worker is given up or told to stop.
Open == phase \in Opened => conn \/ stop \/ stalled \/ Detaching

\* Only an answer that the adapter is open connects a Master.
LEMMA Connects ==
  ASSUME NEW c \in Callers, Continues(c), phase \notin Opened, phase' \in Opened
  PROVE  /\ call[c].stage = "await" /\ fut[c] = "done"
         /\ call[c].step = "connect" \/ (call[c].step = "auto_scan" /\ res[c] # NoSlaves)
<1>1. PICK v \in Views : \E done \in BOOLEAN :
        /\ Effect(c, v, done)
        /\ \/ At(c, "await") /\ v = res[c] /\ (done <=> fut[c] = "done")
           \/ ~done
  BY DEF Continues
<1>2. PICK done \in BOOLEAN :
        /\ Effect(c, v, done)
        /\ \/ At(c, "await") /\ v = res[c] /\ (done <=> fut[c] = "done")
           \/ ~done
  BY <1>1
<1>3. /\ \A w : ~Reads(w) /\ ~Rescan(w) /\ ~Cycles(w) /\ ~Starts(w)
      /\ ~Closes /\ ~Unchanged
  BY DEF Reads, Rescan, Cycles, Starts, Closes, Unchanged, Opened, Known
<1>4. done /\ (call[c].step = "connect" \/ (call[c].step = "auto_scan" /\ v # NoSlaves))
  BY <1>2, <1>3 DEF Effect
<1>. QED BY <1>2, <1>4 DEF At

LEMMA NextOpen ==
  ASSUME Types, TasksFit, TasksOld, EventsOld, CmdPhase, AnswerIsBus, Open, [Next]_vars
  PROVE  Open'
<1> SUFFICES ASSUME phase' \in Opened, ~stop', ~stalled', ~Detaching'
             PROVE  conn'
  BY DEF Open, Opened
<1>0. WorkerSound
  BY DEF Types
<1>1. ASSUME NEW c \in Callers, Moved(c)
      PROVE  conn'
  <2>1. ~Renovates(c)
    BY <1>1 DEF Renovates, Unchanged, CmdPhase, At
  <2>2. BackendKept /\ OthersStay(c)
    BY <1>0, <1>1, <2>1, CallerBackend, CallerFuts
  <2>3. (conn' <=> conn) /\ ~stop
    BY <2>2 DEF BackendKept, BusKept
  <2>4. ~stalled
    BY <1>1, <2>1 DEF Moved, Rests, Quiet, Submits, TimesOut, Continues, GivesUp, FaultsMaster, Stops, SwitchesMode
  <2>5. CASE phase \in Opened
    <3>1. ASSUME NEW d \in Callers, call[d].stage \in Working, call[d].step = "disconnect"
          PROVE  FALSE
      <4>1. d = c
        BY <2>2, <3>1 DEF OthersStay, Detaching
      <4>2. CASE Submits(c) \/ TimesOut(c) \/ GivesUp(c) \/ FaultsMaster(c)
        <5>1. call'[c].stage \in Working /\ call'[c].step = "disconnect"
          BY <3>1, <4>1, <4>2 DEF Submits, TimesOut, GivesUp, FaultsMaster, Takes, Working
        <5>. QED BY <5>1 DEF Detaching
      <4>3. CASE Continues(c)
        <5>1. PICK v \in Views : \E done \in BOOLEAN : Effect(c, v, done)
          BY <4>3 DEF Continues
        <5>2. Closes \/ (Unchanged /\ (stalled \/ phase = "faulted"))
          BY <3>1, <4>1, <5>1 DEF Effect, ReadSteps, ScanSteps
        <5>. QED BY <2>4, <2>5, <5>2 DEF Closes, Opened
      <4>4. CASE Rests(c) \/ Stops(c) \/ SwitchesMode(c)
        BY <3>1, <4>1, <4>4 DEF Rests, Stops, SwitchesMode, At, Working
      <4>. QED BY <1>1, <2>1, <4>2, <4>3, <4>4 DEF Moved
    <3>. QED BY <2>3, <2>4, <2>5, <3>1 DEF Open, Detaching
  <2>6. CASE phase \notin Opened
    <3>1. Continues(c)
      BY <1>1, <2>1, <2>6 DEF Moved, Rests, Quiet, Submits, TimesOut, GivesUp, FaultsMaster, Stops,
           SwitchesMode, Unchanged, Faults, Switches, Opened
    <3>2. conn \/ stop
      BY <2>6, <3>1, Connects DEF AnswerIsBus
    <3>. QED BY <2>3, <3>2
  <2>. QED BY <2>5, <2>6
<1>2. CASE Polls \/ HandlesEvent \/ Still
  <2>1. BackendKept /\ call' = call
    BY <1>0, <1>2, OtherBackend DEF Polls, HandlesEvent, Still
  <2>2. (conn' <=> conn) /\ ~stop /\ ~Detaching
    BY <2>1 DEF BackendKept, BusKept, Detaching
  <2>3. phase \in Opened /\ ~stalled
    <3>1. CASE HandlesEvent
      <4>1. /\ Unchanged \/ Reads(Head(batch).slaves) \/ Cycles(slaves)
            /\ ~stalled
        BY <3>1, HeadHandled DEF Faults, Opened
      <4>. QED BY <4>1 DEF Unchanged, Reads, Cycles, Known, Opened
    <3>2. CASE Polls \/ Still
      BY <3>2 DEF Polls, Still, Quiet, Unchanged
    <3>. QED BY <1>2, <3>1, <3>2
  <2>. QED BY <2>2, <2>3 DEF Open
<1>3. CASE Works
  <2>0. call' = call /\ (stop' <=> stop) /\ phase' = phase /\ (stalled' <=> stalled)
    BY <1>0, <1>3, WorkSteps DEF Works, Unchanged
  <2>1. conn /\ ~Detaching
    BY <2>0 DEF Open, Detaching
  <2>2. ASSUME NEW o, NEW v, Finishes(o, v)
        PROVE  conn'
    <3>1. CASE held.op \in {"disconnect", "auto_scan"}
      <4>1. /\ held.owner \in Callers /\ held.op = OpOf(call[held.owner].step)
            /\ call[held.owner].stage \in Working
        BY <2>0, <2>2, <3>1, WhoseTask DEF Untracked, Working
      <4>2. call[held.owner].step = held.op
        BY <3>1, <4>1, MovingSteps DEF WP!Moving, Types, Locks, CallTyped
      <4>. QED BY <2>0, <2>1, <3>1, <4>1, <4>2 DEF CmdPhase, Detaching
    <3>2. CASE held.op \notin {"disconnect", "auto_scan"}
      <4>1. conn' = conn \/ conn'
        BY <2>1, <2>2, <3>2 DEF Finishes, WP!Brings, WP!Moving
      <4>. QED BY <2>1, <4>1, Zenon
    <3>. QED BY <3>1, <3>2
  <2>3. Between \/ FailsToStart \/ (\E o : \E v : Finishes(o, v)) \/ Exchanges \/ Exits
    BY <1>0, <1>3, WorkSteps DEF Works
  <2>. QED BY <2>0, <2>1, <2>2, <2>3 DEF Between, FailsToStart, Exchanges, Exits, BusKept
<1>. QED BY <1>1, <1>2, <1>3, NextStepped DEF Stepped

LEMMA InitOpen ==
  ASSUME Init
  PROVE  Open
<1>1. phase = "disconnected"
  BY DEF Init, M!Init
<1>. QED BY <1>1 DEF Open, Opened

\* What is known of a running bridge, whatever may fail.
Sound == /\ Types /\ Awaited /\ Marked /\ TasksFit /\ TasksOld /\ EventsOld
         /\ CmdPhase /\ StallShown /\ AnswerIsBus /\ Open

LEMMA InitSound == Init => Sound
BY InitTypes, InitAwaited, InitMarked, InitTasksFit, InitTasksOld, InitEventsOld, InitCmdPhase,
   InitStallShown, InitAnswerIsBus, InitOpen DEF Sound

LEMMA NextSound == Sound /\ [Next]_vars => Sound'
<1> SUFFICES ASSUME Sound, [Next]_vars
             PROVE  Sound'
  OBVIOUS
<1>1. Types' /\ Awaited' /\ Marked' /\ TasksFit' /\ TasksOld' /\ EventsOld' /\ CmdPhase'
  BY NextTypes, NextAwaited, NextMarked, NextTasksFit, NextTasksOld, NextEventsOld, NextCmdPhase DEF Sound
<1>2. StallShown' /\ AnswerIsBus' /\ Open'
  BY NextStallShown, NextAnswerIsBus, NextOpen DEF Sound
<1>. QED BY <1>1, <1>2 DEF Sound

LEMMA SoundIsOpen == Sound => ConnectedIsOpen
<1> SUFFICES ASSUME Sound, lock = NoClient, ~stalled, ~stop, M!connected
             PROVE  conn
  BY DEF ConnectedIsOpen
<1>1. ~Detaching
  <2>1. ASSUME NEW c \in Callers, call[c].stage \in Working
        PROVE  FALSE
    <3>1. Engaged(c)
      BY <2>1 DEF Engaged
    <3>2. lock = c /\ NoClient \notin Callers
      BY <3>1, EngagedIsOne, BridgeAssumption DEF Sound, OneEngaged
    <3>. QED BY <3>2
  <2>. QED BY <2>1 DEF Detaching
<1>. QED BY <1>1, SameConnected DEF Sound, Open

-----------------------------------------------------------------------------
(* The bus that everybody speaks of                                           *)

CycleSteps == {"start", "start_read", "stop", "stop_first"}

Agrees(t) ==
  /\ slaves # NoSlaves => slaves.topo = t
  /\ conn => bus.topo = t
  /\ \A e \in Announced : e.kind = "slaves_changed" /\ e.session = session => e.slaves.topo = t
  /\ \A c \in Callers : call[c].stage = "await" /\ fut[c] = "done" /\ call[c].step \in CycleSteps
                          => res[c].topo = t

Changes == \E c \in Callers : call[c].stage \in Working /\ Changing(c)

\* The list of the Master, the bus of the backend, the lists on their way and the
\* answers about the cycle are about one bus, while the Master is connected, no
\* command has changed the bus, and the worker is not given up for good.
OneBus == phase \in Opened /\ ~Untracked /\ ~Changes => \E t : Agrees(t)

\* A new session is about the bus there is.
LEMMA NewSessionAgrees ==
  ASSUME Types, EventsOld, Stepped, Renews, slaves' = NoSlaves \/ (conn' => slaves'.topo = bus'.topo),
         \A c \in Callers : call'[c].stage # "await"
  PROVE  \E t : Agrees(t)'
<1>1. session \in Nat /\ session' = session + 1
  BY DEF Types, MasterTyped, Renews
<1>2. \A e \in Announced' : e.kind = "slaves_changed" => e.session # session'
  <2>1. \A e \in Announced' : e \in Announced \/ NewEvent(e)
    BY NewEvents
  <2>2. \A e \in Announced : e.kind = "slaves_changed" => e.session \in Nat /\ e.session <= session
    BY DEF EventsOld, Cyclic
  <2>3. ASSUME NEW e, NewEvent(e), e.kind = "slaves_changed"
        PROVE  e.session \in Nat /\ e.session <= session
    BY <2>3 DEF NewEvent, EventsOld
  <2>. QED BY <1>1, <2>1, <2>2, <2>3
<1> DEFINE t == IF conn' THEN bus'.topo ELSE slaves'.topo
<1>3. (slaves' # NoSlaves => slaves'.topo = t) /\ (conn' => bus'.topo = t)
  OBVIOUS
<1>. QED BY <1>2, <1>3 DEF Agrees

\* The events on their way are still about the bus of the session.
LEMMA EventsAgree ==
  ASSUME Types, EventsOld, Stepped, NEW t, Agrees(t), session' = session \/ Renews
  PROVE  \A e \in Announced' : e.kind = "slaves_changed" /\ e.session = session' => e.slaves.topo = t
<1>1. session \in Nat /\ session' \in {session, session + 1}
  BY DEF Types, MasterTyped, Renews
<1>2. \A e \in Announced' : e \in Announced \/ NewEvent(e)
  BY NewEvents
<1>3. ASSUME NEW e \in Announced, e.kind = "slaves_changed", e.session = session'
      PROVE  e.slaves.topo = t
  <2>1. e.session \in Nat /\ e.session <= session
    BY <1>3 DEF EventsOld, Cyclic
  <2>. QED BY <1>1, <1>3, <2>1 DEF Agrees
<1>4. ASSUME NEW e, NewEvent(e), e.kind = "slaves_changed"
      PROVE  e.slaves.topo = t
  BY <1>4 DEF NewEvent, Agrees
<1>. QED BY <1>2, <1>3, <1>4

\* A list with the topology of another one is empty when that one is.
LEMMA SameTopology ==
  ASSUME NEW v \in Views, NEW w \in Views, v.topo = w.topo, NEW t, w # NoSlaves => w.topo = t
  PROVE  v # NoSlaves => v.topo = t
BY ListFacts

\* What an answer tells the Master: a new session about the bus there is, or the
\* session goes on with the list it had or the answer about the cycle.
LEMMA AnswerTells ==
  ASSUME Sound, NEW c \in Callers, Continues(c)
  PROVE  \/ Renews /\ (slaves' = NoSlaves \/ (conn => slaves'.topo = bus.topo))
         \/ Keeps
         \/ /\ session' = session /\ slaves' = res[c] /\ call[c].step \in CycleSteps
            /\ call[c].stage = "await" /\ fut[c] = "done" /\ phase \in Known
<1>1. PICK v \in Views : \E done \in BOOLEAN :
        /\ Effect(c, v, done)
        /\ \/ At(c, "await") /\ v = res[c] /\ fut[c] \in {"done", "failed"} /\ (done <=> fut[c] = "done")
           \/ ~done /\ v = NoSlaves
  BY DEF Continues
<1>2. PICK done \in BOOLEAN :
        /\ Effect(c, v, done)
        /\ \/ At(c, "await") /\ v = res[c] /\ fut[c] \in {"done", "failed"} /\ (done <=> fut[c] = "done")
           \/ ~done /\ v = NoSlaves
  BY <1>1
<1>3. done /\ OpOf(call[c].step) \in WP!Listing => (conn => v.topo = bus.topo)
  BY <1>2 DEF Sound, AnswerIsBus, At
<1>4. ~done /\ v # NoSlaves => (conn => v.topo = bus.topo)
  BY <1>2 DEF Sound, AnswerIsBus, At
<1>5. call[c].step \in ReadSteps \cup {"auto_scan", "scan", "reconfig_read", "program_read"}
        => OpOf(call[c].step) \in WP!Listing
  BY OpFacts DEF WP!Listing, ReadSteps
<1>6. CASE call[c].step \in ReadSteps /\ Reads(v) /\ (done \/ v # NoSlaves \/ Keeps)
  BY <1>3, <1>4, <1>5, <1>6 DEF Reads
<1>7. CASE Rescan(NoSlaves)
  BY <1>7 DEF Rescan, Keeps, Unchanged
<1>8. CASE done /\ Rescan(v) /\ call[c].step \in {"scan", "reconfig_read", "program_read"}
  BY <1>3, <1>5, <1>8 DEF Rescan, Keeps, Unchanged
<1>9. CASE Closes \/ Opens(NoSlaves)
  BY <1>9 DEF Closes, Opens
<1>10. CASE call[c].step = "auto_scan" /\ done /\ Opens(v)
  BY <1>3, <1>5, <1>10 DEF Opens
<1>11. CASE call[c].step \in CycleSteps /\ done /\ (Starts(v) \/ Cycles(v))
  BY <1>2, <1>11 DEF Starts, Cycles, At
<1>12. CASE Cycles(slaves) \/ Unchanged
  BY <1>12 DEF Cycles, Unchanged, Keeps
<1>. QED BY <1>2, <1>6, <1>7, <1>8, <1>9, <1>10, <1>11, <1>12 DEF Effect, CycleSteps

\* The hypotheses of OneBus hold before a step that they hold after.
LEMMA BusWasOne ==
  ASSUME Sound, OneBus, NEW c \in Callers, Moved(c), ~Continues(c),
         phase' \in Opened, ~Untracked', ~Changes'
  PROVE  (\E t : Agrees(t)) /\ Unchanged /\ ~Renovates(c)
<1>0. WorkerSound /\ \A d \in Callers \ {c} : call[d].stage \in Working => ~Engaged(c)
  BY EngagedIsOne DEF Sound, Types, OneEngaged, Engaged
<1>1. ~Renovates(c)
  BY DEF Renovates, Unchanged, Sound, CmdPhase, At
<1>2. Unchanged
  BY <1>1 DEF Moved, Rests, Quiet, Submits, TimesOut, GivesUp, FaultsMaster, Stops, SwitchesMode, Faults, Switches, Opened
<1>3. OthersStay(c) /\ OthersFuts(c) /\ OwnFut(c)
  BY <1>0, <1>1, CallerFuts
<1>4. CASE Rests(c) \/ Stops(c) \/ SwitchesMode(c)
  <2>1. /\ call[c].stage \notin Working /\ call'[c].stage \notin {"await", "faulting"} /\ (stalled' <=> stalled)
    BY <1>4 DEF Rests, Quiet, Stops, SwitchesMode, At, Working, Takes, Ends, Leaves, Idle
  <2>2. ~Untracked
    BY <1>3, <2>1 DEF Untracked, OthersStay, Working
  <2>3. ~Changes
    <3>1. ASSUME NEW d \in Callers, call[d].stage \in Working, Changing(d)
          PROVE  FALSE
      <4>1. d # c /\ call'[d] = call[d] /\ fut'[d] = fut[d] /\ res'[d] = res[d]
        BY <1>3, <2>1, <3>1 DEF OthersStay, OthersFuts
      <4>2. call'[d].stage \in Working /\ Changing(d)'
        BY <3>1, <4>1 DEF Changing, At
      <4>. QED BY <4>2 DEF Changes, Working
    <3>. QED BY <3>1 DEF Changes
  <2>. QED BY <1>1, <1>2, <2>2, <2>3 DEF OneBus, Unchanged
<1>5. CASE Submits(c) \/ TimesOut(c) \/ GivesUp(c)
  <2>1. /\ Engaged(c) /\ call[c].stage \in {"submit", "await", "fault"}
        /\ call'[c].step = call[c].step /\ call'[c].stage \in Working
    BY <1>5 DEF Submits, TimesOut, GivesUp, At, Engaged, Working, Takes
  <2>2. \A d \in Callers \ {c} : call[d].stage \notin Working
    BY <1>0, <2>1
  <2>3. ~Untracked
    <3>1. ASSUME Untracked
          PROVE  FALSE
      <4>1. stalled /\ stalled' /\ call'[c].stage = "refused"
        BY <1>5, <3>1 DEF Untracked, Submits, TimesOut, GivesUp, At, Takes
      <4>2. Untracked'
        BY <1>3, <2>2, <4>1 DEF Untracked, OthersStay, Working
      <4>. QED BY <4>2
    <3>. QED BY <3>1
  <2>4. ~Changes
    <3>1. ASSUME Changing(c)
          PROVE  FALSE
      <4>1. CASE call[c].step = "program_read"
        <5>1. Changing(c)'
          BY <2>1, <4>1 DEF Changing
        <5>. QED BY <2>1, <5>1 DEF Changes, Working
      <4>2. CASE call[c].step # "program_read" /\ call'[c].stage \in {"fault", "faulting"}
        <5>1. Changing(c)'
          BY <2>1, <3>1, <4>2 DEF Changing
        <5>. QED BY <2>1, <5>1 DEF Changes, Working
      <4>3. CASE call[c].step # "program_read" /\ call'[c].stage \notin {"fault", "faulting"}
        <5>1. CASE call[c].stage = "fault"
          <6>1. stalled' /\ call'[c].stage = "refused"
            BY <1>5, <4>3, <5>1 DEF Submits, TimesOut, GivesUp, At, Takes
          <6>2. Untracked'
            BY <1>3, <2>2, <6>1 DEF Untracked, OthersStay, Working
          <6>. QED BY <6>2
        <5>2. CASE call[c].stage # "fault"
          <6>1. call[c].stage = "await" /\ fut[c] \in {"done", "failed"}
            BY <2>1, <3>1, <4>3, <5>2 DEF Changing, At
          <6>2. TimesOut(c)
            BY <1>5, <6>1 DEF Submits, GivesUp, At
          <6>. QED BY <4>3, <6>1, <6>2 DEF TimesOut, WP!Cancel, Takes
        <5>. QED BY <5>1, <5>2
      <4>. QED BY <4>1, <4>2, <4>3
    <3>. QED BY <2>2, <3>1 DEF Changes
  <2>. QED BY <1>1, <1>2, <2>3, <2>4 DEF OneBus, Unchanged
<1>6. CASE FaultsMaster(c)
  BY <1>6 DEF FaultsMaster, Faults, Opened
<1>. QED BY <1>1, <1>4, <1>5, <1>6 DEF Moved

\* A caller that goes on with an answer finds one bus, unless its answer is that of a
\* command that changed it.
LEMMA BusIsOne ==
  ASSUME Sound, OneBus, NEW c \in Callers, Continues(c), phase \in Opened, ~Untracked', ~Changes'
  PROVE  (\E t : Agrees(t)) \/ Renews
<1>1. PICK v \in Views : \E done \in BOOLEAN :
        /\ GoesOn(c) /\ Effect(c, v, done)
        /\ \/ At(c, "await") /\ v = res[c] /\ fut[c] \in {"done", "failed"} /\ (done <=> fut[c] = "done")
           \/ At(c, "refused") /\ ~done /\ v = NoSlaves
  BY DEF Continues
<1>2. PICK done \in BOOLEAN :
        /\ GoesOn(c) /\ Effect(c, v, done)
        /\ \/ At(c, "await") /\ v = res[c] /\ fut[c] \in {"done", "failed"} /\ (done <=> fut[c] = "done")
           \/ At(c, "refused") /\ ~done /\ v = NoSlaves
  BY <1>1
<1>3. call[c].stage \in Working /\ \A d \in Callers \ {c} : call[d].stage \notin Working
  <2>1. call[c].stage \in Working /\ Engaged(c)
    BY DEF Continues, At, Engaged, Working
  <2>. QED BY <2>1, EngagedIsOne DEF Sound, OneEngaged, Engaged
<1>4. OthersStay(c) /\ call'[c].stage \notin {"await", "faulting"} /\ (stalled' <=> stalled)
  BY <1>2 DEF Continues, GoesOn, Ends, Leaves, Takes, Idle
<1>5. ~stalled
  BY <1>3, <1>4 DEF Untracked, OthersStay, Working
<1>6. CASE ~Changes
  BY <1>5, <1>6 DEF OneBus, Untracked
<1>7. CASE Changes
  <2>1. Changing(c) /\ call[c].stage \in {"await", "refused"}
    BY <1>2, <1>3, <1>7 DEF Changes, At
  <2>2. call[c].step \in {"scan", "program", "program_read"} /\ phase # "cyclic"
    BY <1>3, <2>1 DEF Changing, Sound, CmdPhase
  <2>3. \A w : Rescan(w) => Renews
    BY <2>2 DEF Rescan, Opened
  <2>4. CASE Unchanged /\ (call[c].step = "program" /\ done /\ v = NoSlaves => Takes(c, "submit", "program_read"))
             /\ call[c].step = "program"
    <3>1. At(c, "await") /\ fut[c] = "done" /\ res[c] = NoSlaves
      BY <2>1, <2>4 DEF Changing, At
    <3>2. Takes(c, "submit", "program_read")
      BY <1>2, <2>4, <3>1 DEF At
    <3>3. call'[c].stage \in Working /\ call'[c].step = "program_read"
      BY <3>2 DEF Takes, Working
    <3>. QED BY <3>3 DEF Changes, Changing, Working
  <2>5. \/ Rescan(NoSlaves) \/ Rescan(v)
        \/ Unchanged /\ (call[c].step = "program" /\ done /\ v = NoSlaves => Takes(c, "submit", "program_read"))
             /\ call[c].step = "program"
    BY <1>2, <1>5, <2>2 DEF Effect, ReadSteps
  <2>. QED BY <2>3, <2>4, <2>5
<1>. QED BY <1>6, <1>7

LEMMA CallerKeepsOneBus ==
  ASSUME Sound, OneBus, NEW c \in Callers, Moved(c), Stepped, phase' \in Opened, ~Untracked', ~Changes', MasterTyped'
  PROVE  \E t : Agrees(t)'
<1>0. WorkerSound /\ Types /\ EventsOld
  BY DEF Sound, Types
<1>1. ~Renovates(c)
  BY DEF Renovates, Unchanged, Sound, CmdPhase, At
<1>2. BackendKept /\ OthersStay(c) /\ OthersFuts(c) /\ OwnFut(c)
  BY <1>0, <1>1, CallerBackend, CallerFuts
<1>3. (conn' <=> conn) /\ bus' = bus
  BY <1>2 DEF BackendKept, BusKept
<1>4. \A d \in Callers : call'[d].stage = "await" /\ fut'[d] = "done" =>
        call'[d] = call[d] /\ fut'[d] = fut[d] /\ res'[d] = res[d]
  <2>1. call'[c].stage = "await" => fut'[c] # "done"
    <3>1. call'[c].stage = "await" => Submits(c) /\ ~stalled
      BY AwaitsAnew
    <3>. QED BY <1>2, <3>1 DEF OwnFut, Submits, At
  <2>. QED BY <1>2, <2>1 DEF OthersStay, OthersFuts
<1>5. ASSUME NEW t, Agrees(t), session' = session, slaves' # NoSlaves => slaves'.topo = t
      PROVE  Agrees(t)'
  <2>1. \A e \in Announced' : e.kind = "slaves_changed" /\ e.session = session' => e.slaves.topo = t
    BY <1>0, <1>5, EventsAgree
  <2>2. \A d \in Callers : call'[d].stage = "await" /\ fut'[d] = "done" /\ call'[d].step \in CycleSteps
                             => res'[d].topo = t
    BY <1>4, <1>5 DEF Agrees
  <2>. QED BY <1>3, <1>5, <2>1, <2>2 DEF Agrees, CycleSteps
<1>6. CASE ~Continues(c)
  <2>1. PICK t : Agrees(t)
    BY <1>6, BusWasOne
  <2>2. Unchanged
    BY <1>6, BusWasOne
  <2>3. slaves' # NoSlaves => slaves'.topo = t
    BY <2>1, <2>2 DEF Unchanged, Agrees
  <2>. QED BY <1>5, <2>1, <2>2, <2>3 DEF Unchanged
<1>7. CASE Continues(c) /\ Renews
  <2>1. slaves' = NoSlaves \/ (conn => slaves'.topo = bus.topo)
    BY <1>0, <1>7, AnswerTells DEF Keeps, Renews, Types, MasterTyped
  <2>2. \A d \in Callers : call'[d].stage # "await"
    <3>1. Engaged(c) /\ call'[c].stage # "await"
      BY <1>7 DEF Continues, At, Engaged, Working, GoesOn, Ends, Leaves, Takes, Idle
    <3>. QED BY <1>0, <1>2, <3>1, EngagedIsOne DEF OneEngaged, Engaged, Working, OthersStay
  <2>. QED BY <1>0, <1>3, <1>7, <2>1, <2>2, NewSessionAgrees
<1>8. CASE Continues(c) /\ ~Renews
  <2>1. phase \in Opened
    <3>1. ASSUME phase \notin Opened
          PROVE  FALSE
      <4>1. PICK v : \E done \in BOOLEAN : Effect(c, v, done)
        BY <1>8 DEF Continues
      <4>. QED BY <1>8, <3>1, <4>1 DEF Effect, Reads, Rescan, Closes, Opens, Starts, Cycles, Unchanged, Opened, Known
    <3>. QED BY <3>1
  <2>2. PICK t : Agrees(t)
    BY <1>8, <2>1, BusIsOne
  <2>3. \/ Keeps
        \/ /\ session' = session /\ slaves' = res[c] /\ call[c].step \in CycleSteps
           /\ call[c].stage = "await" /\ fut[c] = "done" /\ phase \in Known
    BY <1>8, AnswerTells
  <2>4. slaves' # NoSlaves => slaves'.topo = t
    <3>1. slaves \in Views /\ slaves' \in Views
      BY <1>0 DEF Types, MasterTyped
    <3>2. CASE Keeps
      BY <2>2, <3>1, <3>2, SameTopology DEF Keeps, Agrees
    <3>3. CASE slaves' = res[c] /\ call[c].step \in CycleSteps /\ call[c].stage = "await" /\ fut[c] = "done"
      BY <2>2, <3>3 DEF Agrees
    <3>. QED BY <2>3, <3>2, <3>3
  <2>. QED BY <1>5, <2>2, <2>3, <2>4 DEF Keeps
<1>. QED BY <1>6, <1>7, <1>8

\* The event loop tells the Master of the bus that everybody speaks of.
LEMMA OthersKeepOneBus ==
  ASSUME Sound, OneBus, Polls \/ HandlesEvent \/ Still, Stepped,
         phase' \in Opened, ~Untracked', ~Changes', MasterTyped'
  PROVE  \E t : Agrees(t)'
<1>0. WorkerSound /\ Types /\ EventsOld
  BY DEF Sound, Types
<1>1. BackendKept /\ UNCHANGED <<fut, res>> /\ call' = call
  BY <1>0, OtherBackend DEF Polls, HandlesEvent, Still
<1>2. (conn' <=> conn) /\ bus' = bus
  BY <1>1 DEF BackendKept, BusKept
<1>3. \/ Unchanged \/ Cycles(slaves)
      \/ HandlesEvent /\ batch # << >> /\ Head(batch).kind = "slaves_changed" /\ Head(batch).session = session
         /\ Reads(Head(batch).slaves)
  <2>1. CASE HandlesEvent
    BY <1>0, <2>1, HeadHandled DEF Faults, Opened, HandlesEvent
  <2>. QED BY <2>1 DEF Polls, Still, Quiet
<1>4. phase \in Opened
  BY <1>3 DEF Unchanged, Cycles, Reads, Known, Opened
<1>5. ~Changes
  BY <1>1 DEF Changes, Changing, At, Working
<1>6. ~Untracked
  <2>1. stalled => stalled'
    BY DEF Polls, HandlesEvent, Handles, Still, Quiet
  <2>. QED BY <1>1, <2>1 DEF Untracked
<1>7. PICK t : Agrees(t)
  BY <1>4, <1>5, <1>6 DEF OneBus
<1>8. (session' = session \/ Renews) /\ (slaves' # NoSlaves => slaves'.topo = t)
  <2>1. slaves \in Views /\ slaves' \in Views
    BY <1>0 DEF Types, MasterTyped
  <2>2. CASE Unchanged \/ Cycles(slaves)
    BY <1>7, <2>2 DEF Unchanged, Cycles, Agrees
  <2>3. CASE Keeps
    BY <1>7, <2>1, <2>3, SameTopology DEF Keeps, Agrees
  <2>4. CASE /\ batch # << >> /\ Head(batch).kind = "slaves_changed" /\ Head(batch).session = session
             /\ Renews /\ slaves' = Head(batch).slaves
    BY <1>0, <1>7, <2>4, HeadAnnounced DEF Agrees
  <2>. QED BY <1>3, <2>2, <2>3, <2>4 DEF Reads, Keeps
<1>9. \A e \in Announced' : e.kind = "slaves_changed" /\ e.session = session' => e.slaves.topo = t
  BY <1>0, <1>7, <1>8, EventsAgree
<1>. QED BY <1>1, <1>2, <1>7, <1>8, <1>9 DEF Agrees, CycleSteps

\* The thread of the worker brings another bus only for a command that changes it.
LEMMA WorkKeepsOneBus ==
  ASSUME Sound, OneBus, Works, Stepped, phase' \in Opened, ~Untracked', ~Changes'
  PROVE  \E t : Agrees(t)'
<1>0. WorkerSound /\ Types /\ EventsOld /\ Awaited /\ TasksFit /\ TasksOld
  BY DEF Sound, Types
<1>1. call' = call /\ Unchanged /\ (stalled' <=> stalled)
  BY DEF Works
<1>2. phase \in Opened /\ ~Untracked
  BY <1>1 DEF Unchanged, Untracked
<1>3. Between \/ FailsToStart \/ (\E o : \E v : Finishes(o, v)) \/ Exchanges \/ Exits
  BY <1>0, WorkSteps DEF Works
<1>4. \A c \in Callers : fut[c] \in {"done", "failed"} => fut'[c] = fut[c] /\ res'[c] = res[c]
  <2>1. ASSUME NEW o, NEW v, Finishes(o, v), NEW c \in Callers, fut[c] \in {"done", "failed"}
        PROVE  fut'[c] = fut[c] /\ res'[c] = res[c]
    <3>1. c # held.owner
      BY <1>0, <1>2, <2>1, WhoseTask DEF WP!Waiting
    <3>. QED BY <2>1, <3>1 DEF Finishes
  <2>. QED BY <1>3, <2>1 DEF Between, FailsToStart, FutsKept, Exchanges, Exits
<1>5. ~Changes
  BY <1>1, <1>4 DEF Changes, Changing, At, Working
<1>6. PICK t : Agrees(t)
  BY <1>2, <1>5 DEF OneBus
<1>7. \A e \in Announced' : e.kind = "slaves_changed" /\ e.session = session' => e.slaves.topo = t
  BY <1>0, <1>1, <1>6, EventsAgree DEF Unchanged
<1>8. slaves' # NoSlaves => slaves'.topo = t
  BY <1>1, <1>6 DEF Unchanged, Agrees
<1>9. (conn' => bus'.topo = t) /\
      \A c \in Callers : call[c].stage = "await" /\ fut'[c] = "done" /\ call[c].step \in CycleSteps => res'[c].topo = t
  <2>1. CASE Between \/ FailsToStart \/ Exchanges \/ Exits
    <3>1. conn' => conn /\ bus'.topo = bus.topo
      BY <2>1 DEF Between, FailsToStart, Exchanges, Exits, BusKept
    <3>2. \A c \in Callers : fut'[c] = "done" => fut[c] = "done" /\ res'[c] = res[c]
      BY <2>1 DEF Between, FailsToStart, Exchanges, Exits, FutsKept
    <3>. QED BY <1>6, <3>1, <3>2 DEF Agrees
  <2>2. ASSUME NEW o, NEW v, Finishes(o, v)
        PROVE  (conn' => bus'.topo = t) /\
               \A c \in Callers : call[c].stage = "await" /\ fut'[c] = "done" /\ call[c].step \in CycleSteps => res'[c].topo = t
    <3>0. /\ WP!Brings(held.op, o, v) /\ o \in {"done", "failed"}
          /\ \A c \in Callers : /\ c = held.owner => fut'[c] = o /\ res'[c] = v
                                /\ c # held.owner => fut'[c] = fut[c] /\ res'[c] = res[c]
      BY <2>2 DEF Finishes
    <3>1. CASE held.owner \notin Callers /\ held.op = "wake"
      <4>1. conn' = conn /\ bus'.topo = bus.topo
        BY <3>0, <3>1 DEF WP!Brings, WP!Moving
      <4>2. conn' => conn
        BY <4>1, Zenon
      <4>. QED BY <1>6, <3>0, <3>1, <4>1, <4>2 DEF Agrees
    <3>2. CASE /\ held.owner \in Callers /\ held.op = OpOf(call[held.owner].step)
               /\ call[held.owner].stage \in {"await", "fault", "faulting"}
      <4>1. call[held.owner].step \in AllSteps
        BY <1>0, <3>2 DEF Types, Locks, CallTyped
      <4>2. held.op \in WP!Moving => call[held.owner].step = held.op
        BY <3>2, <4>1, MovingSteps
      <4>3. held.op \notin {"connect", "auto_scan", "scan", "program"} \/ (held.op = "program" /\ bus'.topo = bus.topo)
        <5>1. held.op \notin {"connect", "auto_scan"}
          BY <1>2, <3>2, <4>2 DEF WP!Moving, Sound, CmdPhase, Working
        <5>2. ASSUME held.op = "scan" \/ (held.op = "program" /\ bus'.topo # bus.topo)
              PROVE  FALSE
          <6>1. call[held.owner].step = held.op
            BY <4>2, <5>2 DEF WP!Moving
          <6>2. held.op = "program" => o = "done" /\ v = NoSlaves
            BY <3>0, <5>2, SameViews DEF WP!Brings
          <6>3. PICK d \in Callers : d = held.owner
            BY <3>2
          <6>4. fut'[d] = o /\ res'[d] = v /\ call'[d].stage \in {"await", "fault", "faulting"}
                /\ call'[d].step = held.op
            BY <1>1, <3>0, <3>2, <6>1, <6>3
          <6>5. Changing(d)'
            BY <3>0, <5>2, <6>2, <6>4 DEF Changing, At
          <6>. QED BY <6>4, <6>5 DEF Changes, Working
        <5>. QED BY <5>1, <5>2
      <4>4. conn' => bus'.topo = t
        <5>1. CASE held.op = "disconnect"
          BY <3>0, <5>1 DEF WP!Brings
        <5>2. CASE held.op # "disconnect"
          <6>1. conn' = conn /\ bus'.topo = bus.topo
            BY <3>0, <4>3, <5>2 DEF WP!Brings, WP!Moving
          <6>2. conn' => conn
            BY <6>1, Zenon
          <6>. QED BY <1>6, <6>1, <6>2 DEF Agrees
        <5>. QED BY <5>1, <5>2
      <4>5. ASSUME NEW c \in Callers, call[c].stage = "await", fut'[c] = "done", call[c].step \in CycleSteps
            PROVE  res'[c].topo = t
        <5>1. CASE c # held.owner
          BY <1>6, <3>0, <4>5, <5>1 DEF Agrees
        <5>2. CASE c = held.owner
          <6>1. held.op \in {"start", "stop", "read"} /\ o = "done" /\ res'[c] = v
            BY <3>0, <3>2, <4>5, <5>2, OpFacts DEF CycleSteps
          <6>2. conn /\ v.topo = bus'.topo /\ bus'.topo = bus.topo
            BY <3>0, <6>1 DEF WP!Brings, WP!Listing, WP!Moving
          <6>. QED BY <1>6, <6>1, <6>2 DEF Agrees
        <5>. QED BY <5>1, <5>2
      <4>. QED BY <4>4, <4>5
    <3>. QED BY <1>0, <1>2, <2>2, <3>1, <3>2, WhoseTask
  <2>. QED BY <1>3, <2>1, <2>2
<1>. QED BY <1>1, <1>7, <1>8, <1>9 DEF Agrees, CycleSteps

LEMMA NextOneBus ==
  ASSUME Sound, OneBus, [Next]_vars
  PROVE  OneBus'
<1> SUFFICES ASSUME phase' \in Opened, ~Untracked', ~Changes'
             PROVE  \E t : Agrees(t)'
  BY DEF OneBus, Opened
<1>1. Stepped /\ Types'
  BY NextStepped, NextTypes DEF Sound
<1>2. MasterTyped'
  BY <1>1 DEF Types
<1>. QED BY <1>1, <1>2, CallerKeepsOneBus, OthersKeepOneBus, WorkKeepsOneBus DEF Stepped

LEMMA InitOneBus ==
  ASSUME Init
  PROVE  OneBus
<1>1. phase = "disconnected"
  BY DEF Init, M!Init
<1>. QED BY <1>1 DEF OneBus, Opened

-----------------------------------------------------------------------------
(* What a session is about                                                    *)

LEMMA ChangesRescans ==
  ASSUME Types, Changes
  PROVE  Rescans
<1>1. PICK c \in Callers : call[c].stage \in Working /\ Changing(c)
  BY DEF Changes
<1>2. lock = c
  BY <1>1, EngagedIsOne DEF OneEngaged, Engaged
<1>. QED BY <1>1, <1>2 DEF Rescans

\* While the session stays, the list keeps its topology.
SessionIsABus == session' = session => slaves'.topo = slaves.topo

LEMMA StepKeepsBus ==
  ASSUME Sound, OneBus, Stepped
  PROVE  SessionIsABus
<1>0. session \in Nat /\ (Renews => session' # session) /\ (Unchanged \/ Keeps => SessionIsABus)
  BY DEF Sound, Types, MasterTyped, Renews, Keeps, Unchanged, SessionIsABus
<1>1. ASSUME NEW c \in Callers, Continues(c)
      PROVE  SessionIsABus
  <2>1. CASE /\ session' = session /\ slaves' = res[c] /\ call[c].step \in CycleSteps
             /\ call[c].stage = "await" /\ fut[c] = "done" /\ phase \in Known
    <3>1. ~Untracked
      BY <2>1 DEF Untracked
    <3>2. \A d \in Callers : call[d].stage \in Working => d = c
      BY <2>1, EngagedIsOne DEF Sound, OneEngaged, Engaged, Working
    <3>3. ~Changes
      BY <2>1, <3>2 DEF Changes, Changing, CycleSteps
    <3>4. PICK t : Agrees(t)
      BY <2>1, <3>1, <3>3 DEF OneBus, Known, Opened
    <3>5. slaves # NoSlaves
      BY <2>1 DEF Sound, Types, MasterTyped
    <3>. QED BY <2>1, <3>4, <3>5 DEF Agrees, SessionIsABus
  <2>. QED BY <1>0, <1>1, <2>1, AnswerTells DEF SessionIsABus
<1>2. Faults => SessionIsABus
  BY <1>0 DEF Faults, Sound, Types, MasterTyped, Known, SessionIsABus
<1>3. ASSUME NEW c \in Callers, Moved(c), ~Continues(c)
      PROVE  SessionIsABus
  BY <1>0, <1>2, <1>3 DEF Moved, Rests, Quiet, Submits, TimesOut, GivesUp, FaultsMaster, Stops, Renovates,
     SwitchesMode, Switches, SessionIsABus
<1>4. CASE HandlesEvent
  <2>1. Faults \/ Unchanged \/ Reads(Head(batch).slaves) \/ Cycles(slaves)
    BY <1>4, HeadHandled DEF Sound
  <2>. QED BY <1>0, <1>2, <2>1 DEF Reads, Cycles, SessionIsABus
<1>. QED BY <1>0, <1>1, <1>3, <1>4 DEF Stepped, Polls, Works, Still, Quiet

\* A late event of a cycle starts no session on a Master that knows its bus.
LateEventsKeep ==
  batch # <<>> /\ batch' = Tail(batch) /\ Head(batch).kind # "worker_lost" /\ slaves # NoSlaves /\ ~Rescans
    => session' = session

LEMMA StepKeepsSession ==
  ASSUME Sound, OneBus, Stepped
  PROVE  LateEventsKeep
<1> SUFFICES ASSUME batch # <<>>, batch' = Tail(batch), Head(batch).kind # "worker_lost", slaves # NoSlaves, ~Rescans
             PROVE  session' = session
  BY DEF LateEventsKeep
<1>1. batch' # batch
  <2>1. batch \in Seq(BatchTypes)
    BY DEF Sound, Types
  <2>2. Len(batch) \in Nat /\ Len(Tail(batch)) = Len(batch) - 1
    BY <2>1, HeadFacts
  <2>3. \A n \in Nat : n - 1 # n
    OBVIOUS
  <2>4. Len(batch') # Len(batch)
    BY <2>2, <2>3, Zenon
  <2>. QED BY <2>4, Zenon
<1>2. HandlesEvent
  BY <1>1 DEF Stepped, Moved, Rests, Quiet, Submits, TimesOut, Continues, GivesUp, FaultsMaster, Stops, Renovates,
     SwitchesMode, Polls, Works, Still
<1>3. Unchanged \/ Cycles(slaves) \/ (Head(batch).kind = "slaves_changed" /\ Head(batch).session = session
        /\ Reads(Head(batch).slaves))
  BY <1>2, HeadHandled DEF Sound, LostAtHead
<1>4. ASSUME Renews, Head(batch).kind = "slaves_changed", Head(batch).session = session,
             Head(batch).slaves.topo # slaves.topo
      PROVE  FALSE
  <2>1. phase \in Known
    BY DEF Sound, Types, MasterTyped
  <2>2. ~Untracked
    BY <2>1 DEF Sound, StallShown, LostAtHead, Untracked, Known
  <2>3. ~Changes
    BY ChangesRescans DEF Sound
  <2>4. PICK t : Agrees(t)
    BY <2>1, <2>2, <2>3 DEF OneBus, Known, Opened
  <2>5. Head(batch) \in Announced
    BY HeadAnnounced DEF Sound
  <2>. QED BY <1>4, <2>4, <2>5 DEF Agrees
<1>. QED BY <1>3, <1>4 DEF Unchanged, Cycles, Reads, Keeps

-----------------------------------------------------------------------------
(* A worker that was given up, and the fault that is shown                    *)

\* The event loop has no event of a worker that did not start in its hands while a
\* switch of the mode has replaced the worker and not yet told the Master: such an
\* event would be about the worker that was replaced, or be overwritten.
FatalIsOfThisWorker ==
  (\E c \in Callers : call[c].stage = "switch") => \A i \in 1 .. Len(batch) : ~Fatal(batch[i])

Down == {"drain", "dying", "dead"}

\* The thread that ends its work does not come back to it.
LEMMA DownStaysDown ==
  ASSUME WorkerSound, WP!Loop, wpc \in Down
  PROVE  wpc' \in Down
<1>1. ~WP!Finish
  <2>1. ASSUME NEW o, NEW v, WP!Answer(o, v)
        PROVE  wpc = "run"
    BY <2>1 DEF WP!Answer
  <2>. QED BY <2>1, WorkerFits, WP!FinishAnswers DEF WorkerSound, Down
<1>. QED BY <1>1 DEF Down, WP!Loop, WP!StartOk, WP!StartFail, WP!Drain, WP!Die, WP!Poll, WP!PollControl,
            WP!Reput, WP!Due, WP!Take, WP!Exchange, WP!Exit

\* A fatal event is one of the worker there is, which is down; a worker is given up
\* with nobody waiting for it, unless it is down; and the Master shows it, or is
\* about to, until the worker is replaced.
FatalIsDown == (\E e \in Announced : Fatal(e)) => StartupMayFail /\ wpc \in Down
LostIsMarked == LostAtHead => stalled
Abandoned == stalled => (\A c \in Callers : call[c].stage # "await") \/ wpc \in Down
ShowsStall == stalled => LostAtHead \/ phase = "faulted" \/ \E c \in Callers : call[c].stage = "faulting"
ShowsFault == phase = "faulted" => stalled \/ \E c \in Callers : call[c].stage = "switch"
Replaced == \A c \in Callers : call[c].stage = "switch" => ~stalled

FaultFlow == FatalIsDown /\ LostIsMarked /\ Abandoned /\ ShowsStall /\ ShowsFault /\ Replaced

\* What the event loop has in its hands is announced.
LEMMA LostIsFatal ==
  ASSUME Types, LostAtHead
  PROVE  Head(batch) \in Announced /\ Fatal(Head(batch))
BY HeadAnnounced DEF LostAtHead, Fatal

\* Beside a switch of the mode the event loop does not handle a fatal event.
LEMMA NoFatalBesideSwitch ==
  ASSUME FatalIsOfThisWorker, Types, batch # << >>, Fatal(Head(batch))
  PROVE  \A c \in Callers : call[c].stage # "switch"
<1>1. Head(batch) = batch[1] /\ 1 \in 1 .. Len(batch)
  BY HeadFacts DEF Types
<1>. QED BY <1>1 DEF FatalIsOfThisWorker

LEMMA CallerKeepsFaultFlow ==
  ASSUME FatalIsOfThisWorker', Types, Types', Marked, FaultFlow, NEW c \in Callers, Moved(c)
  PROVE  FaultFlow'
<1>0. OthersStay(c) /\ (~Renovates(c) => batch' = batch) /\ WorkerSound
  BY DEF Types, Moved, Rests, Quiet, Submits, TimesOut, Continues, GivesUp, FaultsMaster, Stops, Renovates,
     SwitchesMode, Takes, GoesOn, Ends, Leaves
<1>1. CASE Renovates(c)
  <2>1. /\ call[c].method = "switch_mode" /\ call'[c].stage = "switch" /\ ~stalled' /\ Unchanged
        /\ events' = << >>
    BY <1>0, <1>1, CallerBackend DEF Renovates, Takes, BackendFresh
  <2>2. \A i \in 1 .. Len(batch') : ~Fatal(batch'[i])
    BY <2>1 DEF FatalIsOfThisWorker, Fatal
  <2>3. \A e \in Announced' : ~Fatal(e)
    BY <2>1, <2>2 DEF Announced
  <2>4. ~LostAtHead'
    <3>1. batch' \in Seq(BatchTypes)
      BY DEF Types
    <3>2. batch' # << >> => Head(batch') = batch'[1] /\ 1 \in 1 .. Len(batch')
      BY <3>1
    <3>. QED BY <2>2, <3>2 DEF LostAtHead, Fatal
  <2>. QED BY <1>0, <2>1, <2>3, <2>4
           DEF FaultFlow, FatalIsDown, LostIsMarked, Abandoned, ShowsStall, ShowsFault, Replaced, Fatal
<1>2. CASE ~Renovates(c)
  <2>1. wpc' = wpc /\ Announced' = Announced /\ (LostAtHead' <=> LostAtHead) /\ (stalled => stalled')
    <3>1. wpc' = wpc /\ events' = events
      BY <1>0, <1>2, CallerBackend DEF BackendKept
    <3>2. stalled => stalled'
      BY <1>2 DEF Moved, Rests, Quiet, Submits, TimesOut, Continues, GivesUp, FaultsMaster, Stops, SwitchesMode
    <3>. QED BY <1>0, <1>2, <3>1, <3>2 DEF Announced, LostAtHead
  <2>2. FatalIsDown' /\ LostIsMarked'
    BY <2>1 DEF FaultFlow, FatalIsDown, LostIsMarked, Fatal
  <2>3. CASE GivesUp(c)
    <3>1. \A d \in Callers \ {c} : ~Engaged(d)
      BY <2>3, EngagedIsOne DEF GivesUp, At, OneEngaged, Engaged, Working
    <3>2. \A d \in Callers \ {c} : call[d].stage \notin {"await", "switch", "faulting"}
      BY <3>1 DEF Engaged, Working
    <3>3. /\ call'[c].stage \in {"refused", "faulting"} /\ phase' = phase /\ stalled'
          /\ (call'[c].stage = "faulting" \/ stalled) /\ call[c].stage = "fault"
      BY <2>3 DEF GivesUp, Takes, Unchanged, At
    <3>. QED BY <1>0, <2>1, <2>2, <3>2, <3>3
             DEF FaultFlow, Abandoned, ShowsStall, ShowsFault, Replaced, OthersStay
  <2>4. CASE FaultsMaster(c)
    <3>1. /\ call[c].stage = "faulting" /\ call'[c].stage = "refused" /\ phase' = "faulted"
          /\ (stalled' <=> stalled)
      BY <2>4 DEF FaultsMaster, Faults, Takes, At
    <3>2. stalled
      BY <3>1 DEF Marked
    <3>. QED BY <1>0, <2>1, <2>2, <3>1, <3>2
             DEF FaultFlow, Abandoned, ShowsStall, ShowsFault, Replaced, OthersStay
  <2>5. CASE ~GivesUp(c) /\ ~FaultsMaster(c)
    <3>1. stalled' <=> stalled
      BY <1>2, <2>5 DEF Moved, Rests, Quiet, Submits, TimesOut, Continues, Stops, SwitchesMode
    <3>2. call'[c].stage # "switch" /\ (call'[c].stage = "await" => ~stalled) /\ call[c].stage # "faulting"
      BY <1>2, <2>5 DEF Moved, Rests, Submits, TimesOut, Continues, Stops, SwitchesMode, GoesOn, Ends, Leaves,
         Takes, Idle, At, Working
    <3>3. Abandoned' /\ Replaced'
      BY <1>0, <2>1, <3>1, <3>2 DEF FaultFlow, Abandoned, Replaced, OthersStay
    <3>4. CASE SwitchesMode(c)
      <4>1. ~stalled /\ phase' # "faulted"
        BY <3>4 DEF SwitchesMode, Switches, Unchanged, FaultFlow, Replaced, At
      <4>. QED BY <2>2, <3>1, <3>3, <4>1 DEF FaultFlow, ShowsStall, ShowsFault
    <3>5. CASE ~SwitchesMode(c)
      <4>1. phase' = "faulted" <=> phase = "faulted"
        <5>1. CASE Continues(c)
          <6>1. PICK v \in Views : \E done \in BOOLEAN : Effect(c, v, done)
            BY <5>1 DEF Continues
          <6>. QED BY <6>1, EffectTyped DEF Types
        <5>. QED BY <1>2, <2>5, <3>5, <5>1
                 DEF Moved, Rests, Quiet, Unchanged, Submits, TimesOut, Stops
      <4>2. call[c].stage # "switch"
        BY <1>2, <2>5, <3>5 DEF Moved, Rests, Submits, TimesOut, Continues, Stops, At
      <4>. QED BY <1>0, <2>1, <2>2, <3>1, <3>2, <3>3, <4>1, <4>2
               DEF FaultFlow, ShowsStall, ShowsFault, OthersStay
    <3>. QED BY <3>4, <3>5
  <2>. QED BY <2>3, <2>4, <2>5
<1>. QED BY <1>1, <1>2

LEMMA EventKeepsFaultFlow ==
  ASSUME FatalIsOfThisWorker, Types, EventsOld, EventsOld', FaultFlow, HandlesEvent
  PROVE  FaultFlow'
<1>1. call' = call /\ wpc' = wpc
  BY WorkerVarsKept DEF HandlesEvent
<1>2. batch' = Tail(batch) => ~LostAtHead'
  <2>1. ASSUME batch' = Tail(batch), batch' # << >>
        PROVE  Head(batch').kind # "worker_lost"
    <3>1. batch \in Seq(BatchTypes) /\ batch # << >>
      BY DEF HandlesEvent, Types
    <3>2. /\ Len(batch) \in Nat \ {0} /\ Len(Tail(batch)) = Len(batch) - 1 /\ Tail(batch) \in Seq(BatchTypes)
          /\ \A i \in 1 .. Len(Tail(batch)) : Tail(batch)[i] = batch[i + 1]
      BY <3>1, HeadFacts
    <3> DEFINE s == Tail(batch)
    <3>3. s \in Seq(BatchTypes) /\ s # << >> /\ Len(s) + 1 = Len(batch)
      BY <2>1, <3>2
    <3>4. \A i \in 1 .. Len(s) : s[i] = batch[i + 1]
      BY <3>2
    <3>5. batch' = s
      BY <2>1
    <3> HIDE DEF s
    <3>6. Head(s) = s[1] /\ 1 \in 1 .. Len(s) /\ Len(s) \in Nat
      BY <3>3
    <3>7. Head(s) = batch[2] /\ 2 \in 1 .. Len(batch)
      BY <3>3, <3>4, <3>6
    <3>. QED BY <3>5, <3>7 DEF EventsOld
  <2>. QED BY <2>1 DEF LostAtHead
<1>3. ASSUME NEW e \in Announced', Fatal(e)
      PROVE  StartupMayFail /\ wpc \in Down
  <2>1. CASE e \in Announced
    BY <1>3, <2>1 DEF FaultFlow, FatalIsDown
  <2>2. CASE NewEvent(e)
    <3>1. ~Cyclic(e)
      BY <1>3 DEF Fatal, Cyclic
    <3>2. Head(batch) \in Announced
      BY HeadAnnounced DEF HandlesEvent
    <3>. QED BY <1>1, <2>2, <3>1, <3>2 DEF NewEvent, FaultFlow, FatalIsDown, Fatal, Down
  <2>. QED BY <1>3, <2>1, <2>2, NewEvents DEF Stepped
<1>4. FatalIsDown'
  BY <1>1, <1>3 DEF FatalIsDown, Fatal
<1>5. CASE LostAtHead /\ Faults /\ batch' = Tail(batch) /\ (stalled' <=> stalled)
  <2>1. stalled /\ stalled' /\ phase' = "faulted" /\ ~LostAtHead'
    BY <1>2, <1>5 DEF FaultFlow, LostIsMarked, Faults
  <2>2. \A c \in Callers : call[c].stage # "switch"
    BY <1>5, LostIsFatal, NoFatalBesideSwitch DEF HandlesEvent
  <2>. QED BY <1>1, <1>4, <1>5, <2>1, <2>2
           DEF FaultFlow, LostIsMarked, Abandoned, ShowsStall, ShowsFault, Replaced
<1>6. CASE Head(batch).kind = "worker_fatal" /\ Unchanged /\ stalled' /\ LostAtHead'
  <2>1. Head(batch) \in Announced /\ Fatal(Head(batch))
    BY <1>6, HeadAnnounced DEF HandlesEvent, Fatal
  <2>2. wpc \in Down
    BY <2>1 DEF FaultFlow, FatalIsDown
  <2>3. \A c \in Callers : call[c].stage # "switch"
    BY <1>6, NoFatalBesideSwitch DEF HandlesEvent, Fatal
  <2>. QED BY <1>1, <1>4, <1>6, <2>2, <2>3
           DEF FaultFlow, LostIsMarked, Abandoned, ShowsStall, ShowsFault, Replaced
<1>7. CASE /\ ~LostAtHead /\ batch' = Tail(batch) /\ (stalled' <=> stalled)
           /\ Unchanged \/ Reads(Head(batch).slaves) \/ Cycles(slaves)
  <2>1. phase' = "faulted" <=> phase = "faulted"
    BY <1>7 DEF Unchanged, Reads, Cycles, Known
  <2>. QED BY <1>1, <1>2, <1>4, <1>7, <2>1
           DEF FaultFlow, LostIsMarked, Abandoned, ShowsStall, ShowsFault, Replaced
<1>. QED BY <1>5, <1>6, <1>7, HeadHandled

LEMMA OthersKeepFaultFlow ==
  ASSUME Types, FaultFlow, Polls \/ Works \/ Still
  PROVE  FaultFlow'
<1>1. UNCHANGED phase /\ call' = call /\ (stalled' <=> stalled)
  BY DEF Polls, Works, Still, Quiet, Unchanged
<1>2. wpc \in Down => wpc' \in Down
  BY DownStaysDown, OtherBackend DEF Types, Works, BackendKept
<1>3. LostAtHead' <=> LostAtHead
  <2>1. CASE Polls
    BY <2>1, EventsNotLost DEF Polls, LostAtHead
  <2>. QED BY <2>1 DEF Works, Still, Quiet, LostAtHead
<1>4. ASSUME NEW e \in Announced', Fatal(e)
      PROVE  StartupMayFail /\ wpc' \in Down
  <2>1. CASE e \in Announced
    BY <1>2, <1>4, <2>1 DEF FaultFlow, FatalIsDown
  <2>2. CASE NewEvent(e)
    <3>1. ~Cyclic(e)
      BY <1>4 DEF Fatal, Cyclic
    <3>2. HandlesEvent => Head(batch) \in Announced
      BY HeadAnnounced DEF HandlesEvent
    <3>. QED BY <1>2, <2>2, <3>1, <3>2 DEF NewEvent, FaultFlow, FatalIsDown, Fatal, Down
  <2>. QED BY <1>4, <2>1, <2>2, NewEvents DEF Stepped
<1>. QED BY <1>1, <1>2, <1>3, <1>4
         DEF FaultFlow, FatalIsDown, LostIsMarked, Abandoned, ShowsStall, ShowsFault, Replaced, Fatal

LEMMA NextFaultFlow ==
  FatalIsOfThisWorker /\ FatalIsOfThisWorker' /\ Sound /\ FaultFlow /\ [Next]_vars => FaultFlow'
<1> SUFFICES ASSUME FatalIsOfThisWorker, FatalIsOfThisWorker', Sound, FaultFlow, [Next]_vars
             PROVE  FaultFlow'
  OBVIOUS
<1>1. Types /\ Types' /\ Marked /\ EventsOld /\ EventsOld'
  BY NextEventsOld, NextTypes DEF Sound
<1>. QED BY <1>1, NextStepped, CallerKeepsFaultFlow, EventKeepsFaultFlow, OthersKeepFaultFlow DEF Stepped

LEMMA InitFaultFlow ==
  ASSUME Init
  PROVE  FaultFlow
<1>1. phase = "disconnected" /\ ~stalled /\ batch = << >> /\ events = << >>
  BY DEF Init, M!Init, W!Init
<1>2. Announced = {}
  BY <1>1 DEF Announced
<1>. QED BY <1>1, <1>2 DEF FaultFlow, FatalIsDown, LostIsMarked, Abandoned, ShowsStall, ShowsFault, Replaced,
            LostAtHead, Init, Idle

-----------------------------------------------------------------------------
(* The target of an image                                                     *)

\* A caller between the check of its target and the begin of the programming.
Programming(c) ==
  /\ call[c].method = "eeprom_flash"
  /\ \/ call[c].stage \in {"submit", "await", "refused"} /\ call[c].step = "check_target"
     \/ call[c].stage = "submit" /\ call[c].step = "program"
     \/ call[c].stage = "await" /\ call[c].step = "program" /\ fut[c] = "pending"

\* Its session is the one its target was chosen in, and the list is there.
TargetsHold ==
  ~stalled => \A c \in Callers : Programming(c) => call[c].session = session /\ slaves # NoSlaves

LEMMA CallerKeepsTargets ==
  ASSUME Sound, TargetsHold, NEW c \in Callers, Moved(c)
  PROVE  TargetsHold'
<1> SUFFICES ASSUME ~stalled', NEW d \in Callers, Programming(d)'
             PROVE  call'[d].session = session' /\ slaves' # NoSlaves
  BY DEF TargetsHold
<1>0. Types /\ OneEngaged /\ WorkerSound
  BY EngagedIsOne DEF Sound, Types
<1>1. CASE d # c
  <2>1. call'[d] = call[d] /\ Engaged(d)
    BY <1>1 DEF Programming, Engaged, Working, Moved, Rests, Submits, TimesOut, Continues, GivesUp, FaultsMaster,
       Stops, Renovates, SwitchesMode, Takes, GoesOn, Ends, Leaves, OthersStay
  <2>2. ~Engaged(c)
    BY <1>0, <1>1, <2>1 DEF OneEngaged
  <2>3. Rests(c) \/ Stops(c)
    BY <2>2 DEF Moved, Submits, TimesOut, Continues, GivesUp, FaultsMaster, Renovates, SwitchesMode, At,
       Engaged, Working
  <2>4. Unchanged /\ (stalled' <=> stalled) /\ ~Renovates(c)
    BY <2>2, <2>3 DEF Rests, Quiet, Stops, Renovates, At, Engaged
  <2>5. fut'[d] = fut[d]
    BY <1>0, <1>1, <2>4, CallerFuts DEF OthersFuts
  <2>6. Programming(d)
    BY <2>1, <2>5 DEF Programming
  <2>. QED BY <2>1, <2>4, <2>6 DEF TargetsHold, Unchanged
<1>2. CASE d = c
  <2>1. CASE Rests(c)
    BY <1>2, <2>1 DEF Rests, Quiet, Unchanged, Chosen, Programming
  <2>2. CASE Submits(c)
    <3>1. Programming(c) /\ ~stalled /\ call'[c].session = call[c].session /\ Unchanged
      BY <1>2, <2>2 DEF Submits, Programming, Takes, At
    <3>. QED BY <1>2, <3>1 DEF TargetsHold, Unchanged
  <2>3. CASE Continues(c)
    <3>1. /\ call'[c].stage = "submit" /\ call[c].step \in DOMAIN NextStep
          /\ Takes(c, "submit", NextStep[call[c].step])
      BY <1>2, <2>3 DEF Continues, GoesOn, Ends, Leaves, Takes, Programming, Idle
    <3>2. NextStep[call[c].step] \in {"check_target", "program"} /\ call'[c].method = call[c].method
      BY <1>2, <3>1 DEF Takes, Programming
    <3>3. call[c].step = "check_target" /\ call[c].method = "eeprom_flash"
      BY <1>2, <3>1, <3>2, NextSteps DEF Programming
    <3>4. PICK v \in Views : \E done \in BOOLEAN :
            Effect(c, v, done) /\ (call[c].stage = "await" \/ call[c].stage = "refused")
      BY <2>3 DEF Continues, At
    <3>5. Unchanged /\ (stalled' <=> stalled)
      BY <2>3, <3>3, <3>4, EffectPhase DEF Continues
    <3>6. call[c].stage \in {"await", "refused"}
      BY <3>4
    <3>. QED BY <1>2, <3>1, <3>3, <3>5, <3>6 DEF TargetsHold, Programming, Takes, Unchanged
  <2>4. CASE TimesOut(c)
    <3>1. call[c].stage = "await" /\ call'[c].stage \in {"refused", "fault"} /\ call'[c].step = call[c].step
          /\ call'[c].method = call[c].method /\ call'[c].session = call[c].session
          /\ Unchanged /\ (stalled' <=> stalled)
      BY <2>4 DEF TimesOut, Takes, At
    <3>. QED BY <1>2, <3>1 DEF TargetsHold, Programming, Unchanged
  <2>5. CASE GivesUp(c) \/ FaultsMaster(c)
    <3>1. stalled'
      BY <1>2, <2>5 DEF GivesUp, FaultsMaster, Sound, Marked, At
    <3>. QED BY <3>1
  <2>6. CASE Stops(c) \/ Renovates(c) \/ SwitchesMode(c)
    BY <1>2, <2>6 DEF Stops, Renovates, SwitchesMode, Takes, Ends, Leaves, Idle, Programming
  <2>. QED BY <1>2, <2>1, <2>2, <2>3, <2>4, <2>5, <2>6 DEF Moved
<1>. QED BY <1>1, <1>2

LEMMA EventKeepsTargets ==
  ASSUME Sound, OneBus, LostIsMarked, TargetsHold, HandlesEvent
  PROVE  TargetsHold'
<1> SUFFICES ASSUME ~stalled', NEW c \in Callers, Programming(c)'
             PROVE  call'[c].session = session' /\ slaves' # NoSlaves
  BY DEF TargetsHold
<1>0. Types /\ EventsOld /\ Stepped
  BY DEF Sound, Stepped
<1>1. call' = call /\ fut' = fut
  BY WorkerVarsKept DEF HandlesEvent
<1>2. ~LostAtHead /\ batch' = Tail(batch) /\ batch # << >> /\ ~stalled
      /\ (Unchanged \/ Reads(Head(batch).slaves) \/ Cycles(slaves))
  BY <1>0, HeadHandled DEF LostIsMarked, HandlesEvent
<1>3. Programming(c)
  BY <1>1 DEF Programming
<1>4. call[c].session = session /\ slaves # NoSlaves
  BY <1>2, <1>3 DEF TargetsHold
<1>5. ~Rescans
  <2>1. Engaged(c) /\ ~Changing(c)
    BY <1>3 DEF Programming, Engaged, Working, Changing, At
  <2>2. \A d \in Callers : lock = d => d = c
    BY <1>0, <2>1, EngagedIsOne DEF OneEngaged
  <2>. QED BY <2>1, <2>2 DEF Rescans
<1>6. session' = session
  BY <1>0, <1>2, <1>4, <1>5, StepKeepsSession DEF LateEventsKeep, LostAtHead
<1>7. slaves' # NoSlaves
  <2>1. slaves'.topo = slaves.topo
    BY <1>0, <1>6, StepKeepsBus DEF SessionIsABus
  <2>2. slaves \in Views /\ slaves.topo # NoTopology /\ NoSlaves.topo = NoTopology
    BY <1>0, <1>4, ListFacts DEF Types, MasterTyped
  <2>. QED BY <2>1, <2>2
<1>. QED BY <1>1, <1>4, <1>6, <1>7

LEMMA OthersKeepTargets ==
  ASSUME Types, TargetsHold, Polls \/ Works \/ Still
  PROVE  TargetsHold'
<1> SUFFICES ASSUME ~stalled', NEW c \in Callers, Programming(c)'
             PROVE  call'[c].session = session' /\ slaves' # NoSlaves
  BY DEF TargetsHold
<1>1. call' = call /\ (stalled' <=> stalled) /\ Unchanged
  BY DEF Polls, Works, Still, Quiet
<1>2. UNCHANGED fut \/ FutsKept \/ \E o : \E v : Finishes(o, v)
  BY OtherFuts DEF Types
<1>3. fut'[c] = "pending" => fut[c] = "pending"
  <2>1. ASSUME NEW o, NEW v, Finishes(o, v)
        PROVE  fut'[c] = "pending" => fut[c] = "pending"
    BY <2>1 DEF Finishes
  <2>. QED BY <1>2, <2>1 DEF FutsKept
<1>4. Programming(c)
  BY <1>1, <1>3 DEF Programming
<1>. QED BY <1>1, <1>4 DEF TargetsHold, Unchanged

LEMMA NextTargetsHold ==
  Sound /\ OneBus /\ LostIsMarked /\ TargetsHold /\ [Next]_vars => TargetsHold'
<1> SUFFICES ASSUME Sound, OneBus, LostIsMarked, TargetsHold, [Next]_vars
             PROVE  TargetsHold'
  OBVIOUS
<1>1. Types
  BY DEF Sound
<1>. QED BY <1>1, NextStepped, CallerKeepsTargets, EventKeepsTargets, OthersKeepTargets DEF Stepped

LEMMA InitTargetsHold ==
  ASSUME Init
  PROVE  TargetsHold
BY DEF Init, TargetsHold, Programming, Idle

\* What begins is of the caller that waits for it, of the worker in service and of the
\* session its target was chosen in.
Current ==
  BeginsRequest =>
    LET c == held'.owner IN
    /\ lock = c /\ At(c, "await") /\ ~stalled
    /\ call[c].method = "eeprom_flash" /\ call[c].step = "program" => call[c].session = session

LEMMA BegunIsCurrent ==
  ASSUME Sound, FaultFlow, TargetsHold, [Next]_vars
  PROVE  Current
<1> SUFFICES ASSUME BeginsRequest
             PROVE  LET c == held'.owner IN
                    /\ lock = c /\ At(c, "await") /\ ~stalled
                    /\ call[c].method = "eeprom_flash" /\ call[c].step = "program" => call[c].session = session
  BY DEF Current
<1> DEFINE c == held'.owner
<1>1. lock = c /\ At(c, "await")
  BY BegunIsAwaited DEF Sound, BegunForItsCaller
<1>2. wpc # "run" /\ wpc' = "run" /\ held'.owner # NoClient
  BY DEF BeginsRequest
<1>3. WP!Loop
  BY <1>2, BegunByThread DEF Sound
<1>4. /\ wpc \in {"poll", "take"} /\ held' \in WP!Around
      /\ (c \in Callers => fut[c] = "pending")
  BY <1>2, <1>3, WorkerFits, WP!Beginning DEF Sound, Types, WorkerSound
<1>5. c \in Callers
  <2>1. held' \in WP!Tasks
    BY <1>4, WorkerFits, WP!PlacesAround DEF Sound, Types, WorkerSound
  <2>. QED BY <1>2, <2>1 DEF WP!Tasks
<1>6. ~stalled
  BY <1>1, <1>4, <1>5 DEF FaultFlow, Abandoned, Down, At
<1>7. call[c].method = "eeprom_flash" /\ call[c].step = "program" => call[c].session = session
  BY <1>1, <1>4, <1>5, <1>6 DEF TargetsHold, Programming, At
<1>. QED BY <1>1, <1>6, <1>7

\* Only a worker that does not start sends a fatal event.
LEMMA NextStartsFail ==
  ASSUME Types, ~StartupMayFail => \A e \in Announced : ~Fatal(e), [Next]_vars
  PROVE  ~StartupMayFail => \A e \in Announced' : ~Fatal(e)
<1> SUFFICES ASSUME ~StartupMayFail, NEW e \in Announced', Fatal(e)
             PROVE  FALSE
  OBVIOUS
<1>1. e \in Announced \/ NewEvent(e)
  BY NextStepped, NewEvents
<1>2. ~Cyclic(e)
  BY DEF Fatal, Cyclic
<1>3. HandlesEvent => Head(batch) \in Announced
  BY HeadAnnounced DEF HandlesEvent
<1>. QED BY <1>1, <1>2, <1>3 DEF NewEvent, Fatal

\* A caller that replaces the worker runs a switch of the mode, which was sent.
LEMMA SwitchesAreSent ==
  ASSUME Types, NEW c \in Callers, call[c].stage = "switch"
  PROVE  "switch_mode" \in Methods
<1>1. call[c].method = "switch_mode"
  BY DEF Types, Inv, CallersTyped, Fits, StageFits
<1>2. c \in Hardware
  BY <1>1, CallersDiffer DEF Types, Inv, CallersTyped
<1>. QED BY <1>1, <1>2 DEF Types, Locks

LEMMA FaultFlowShows == Sound /\ FaultFlow => FaultShown
BY DEF FaultFlow, ShowsStall, ShowsFault, FaultShown, LostAtHead, At

-----------------------------------------------------------------------------
(* The Master is used by its methods                                          *)

\* What a step of the bridge does to the Master: one call of a method, or none.  Of the
\* calls about the cycle, that their list is of the bus of the session is shown below.
Cycled ==
  \E x \in {NoSession} \cup 0 .. session, v \in Views :
    M!CycleStarted(v, x) \/ M!CycleStopped(v, x) \/ M!CycleFaulted(Failure, v, x)

Called == UNCHANGED masterVars \/ M!Connection \/ M!Discovery \/ M!Reads \/ Cycled

\* An update is made in the session it names, or in the one there is.
LEMMA UpdatedCalls ==
  ASSUME MasterTyped, NEW v \in Views, NEW x, NEW keep \in BOOLEAN, Updated(v, x, keep)
  PROVE  Called
<1>1. CASE ~M!CanUpdateStates(v, x)
  BY <1>1 DEF Updated, Called
<1>2. CASE M!CanUpdateStates(v, x)
  <2>1. M!StatesUpdated(v, x, keep)
    BY <1>2 DEF Updated
  <2>2. x \in {NoSession} \cup 0 .. session
    BY <1>2 DEF M!CanUpdateStates, M!SessionHolds, MasterTyped
  <2>3. v \in M!Views
    BY SameViews
  <2>. QED BY <2>1, <2>2, <2>3 DEF Called, M!Reads
<1>. QED BY <1>1, <1>2

LEMMA RecordedCalls ==
  ASSUME MasterTyped, NEW v \in Views, NEW x, Recorded(v, x)
  PROVE  Called
<1>1. CASE v # NoSlaves
  BY <1>1, UpdatedCalls DEF Recorded
<1>2. CASE v = NoSlaves /\ M!CanFailRead(x)
  <2>1. M!StateReadFailed(Failure, x)
    BY <1>2 DEF Recorded
  <2>2. x \in {NoSession} \cup 0 .. session
    BY <1>2 DEF M!CanFailRead, M!SessionHolds, MasterTyped
  <2>. QED BY <2>1, <2>2 DEF Called, M!Reads
<1>3. CASE v = NoSlaves /\ ~M!CanFailRead(x)
  BY <1>3 DEF Recorded, Called
<1>. QED BY <1>1, <1>2, <1>3

LEMMA RefreshedCalls ==
  ASSUME MasterTyped, NEW v \in Views, NEW keep \in BOOLEAN, Refreshed(v, keep)
  PROVE  Called
<1>1. CASE M!CanUpdateStates(v, NoSession)
  BY <1>1, UpdatedCalls DEF Refreshed
<1>2. CASE ~M!CanUpdateStates(v, NoSession)
  BY <1>2, RecordedCalls, ListFacts DEF Refreshed
<1>. QED BY <1>1, <1>2

LEMMA DiscoveryCalls ==
  ASSUME NEW v \in Views, NEW e \in {Failure, NoError},
         \/ TopologyLost(v, e)
         \/ M!ScanSucceeded(v)
         \/ M!ScanFailed(Failure)
  PROVE  Called
<1>1. v \in M!Views /\ e \in {Failure} \cup {NoError} /\ Failure \in {Failure}
  BY SameViews
<1>2. M!ScanSucceeded(v) \/ M!ScanFailed(Failure) \/ M!TopologyChanged(v, e) => M!Discovery
  BY <1>1 DEF M!Discovery
<1>. QED BY <1>2 DEF TopologyLost, Called

LEMMA ConnectionCalls ==
  /\ ConnectionFailed => Called
  /\ \A e \in {Failure, NoError} : Detached(e) => Called
  /\ M!ConnectSucceeded(Adapter) => Called
  /\ \A v \in Views : M!AutoScanCompleted(Adapter, v) => Called
  /\ M!Faulted(Failure) => Called
  /\ \A m \in Modes : M!SwitchMode(m) => Called
<1>1. Failure \in {Failure} /\ Adapter \in {Adapter} /\ \A e \in {Failure, NoError} : e \in {Failure} \cup {NoError}
  OBVIOUS
<1>2. Views = M!Views
  BY SameViews
<1>3. ConnectionFailed => Called
  BY <1>1 DEF ConnectionFailed, Called, M!Connection
<1>4. \A e \in {Failure, NoError} : Detached(e) => Called
  BY <1>1 DEF Detached, Called, M!Connection
<1>5. M!ConnectSucceeded(Adapter) => Called
  BY <1>1 DEF Called, M!Connection
<1>6. \A v \in Views : M!AutoScanCompleted(Adapter, v) => Called
  BY <1>1, <1>2 DEF Called, M!Connection
<1>7. M!Faulted(Failure) => Called
  BY <1>1 DEF Called, M!Connection
<1>8. \A m \in Modes : M!SwitchMode(m) => Called
  BY DEF Called, M!Connection
<1>. QED BY <1>3, <1>4, <1>5, <1>6, <1>7, <1>8

\* Each answer makes at most one call.
LEMMA SucceedsCalls ==
  ASSUME MasterTyped, NEW c \in Callers, NEW v \in Views, Succeeds(c, v)
  PROVE  Called
<1>0. (UNCHANGED masterVars => Called) /\ NoSlaves \in Views /\ TRUE \in BOOLEAN /\ FALSE \in BOOLEAN
  BY ListFacts DEF Called
<1>1. CASE Confirms(c, v)
  BY <1>0, <1>1, UpdatedCalls, RefreshedCalls DEF Confirms
<1>2. CASE Rechecks(c, v)
  BY <1>0, <1>2, UpdatedCalls DEF Rechecks
<1>3. CASE Connected(c, v)
  BY <1>0, <1>3, ConnectionCalls DEF Connected
<1>4. CASE Scanned(c, v)
  BY <1>0, <1>4, DiscoveryCalls DEF Scanned
<1>5. ReconfigurationFails(c) => Called
  BY <1>0, DiscoveryCalls DEF ReconfigurationFails
<1>6. CASE Reconfigured(c, v)
  BY <1>0, <1>5, <1>6, DiscoveryCalls DEF Reconfigured
<1>7. CASE CycleAnswered(c, v)
  <2>1. NoSession \in {NoSession} \cup 0 .. session /\ slaves \in Views
    BY DEF MasterTyped
  <2>2. \A w \in Views : \/ M!CycleStarted(w, NoSession) \/ M!CycleStopped(w, NoSession)
                         \/ M!CycleFaulted(Failure, w, NoSession)
                         => Called
    BY <2>1 DEF Called, Cycled
  <2>. QED BY <1>0, <1>7, <2>1, <2>2 DEF CycleAnswered
<1>8. CASE Accessed(c, v)
  <2>1. (IF v = NoSlaves THEN Failure ELSE NoError) \in {Failure, NoError}
    OBVIOUS
  <2>. QED BY <1>0, <1>8, <2>1, DiscoveryCalls DEF Accessed
<1>9. CASE Probed(c, v)
  BY <1>0, <1>9, UpdatedCalls DEF Probed
<1>. QED BY <1>1, <1>2, <1>3, <1>4, <1>6, <1>7, <1>8, <1>9 DEF Succeeds

LEMMA FailsCalls ==
  ASSUME MasterTyped, NEW c \in Callers, NEW v \in Views, Fails(c, v)
  PROVE  Called
<1>0. (UNCHANGED masterVars => Called) /\ NoSlaves \in Views /\ TRUE \in BOOLEAN
  BY ListFacts DEF Called
<1>1. CASE ConnectionFailed \/ Detached(Failure) \/ UNCHANGED masterVars
  BY <1>0, <1>1, ConnectionCalls
<1>2. CASE IF ~stalled /\ M!CanScan THEN M!ScanFailed(Failure) ELSE UNCHANGED masterVars
  BY <1>0, <1>2, DiscoveryCalls
<1>3. \A x : Recorded(v, x) \/ Recorded(NoSlaves, x) => Called
  BY <1>0, RecordedCalls
<1>4. CASE IF v # NoSlaves THEN Refreshed(v, TRUE) ELSE Recorded(NoSlaves, NoSession)
  BY <1>0, <1>3, <1>4, RefreshedCalls
<1>5. CASE ReconfigurationFails(c) \/ TopologyLost(NoSlaves, Failure)
  BY <1>0, <1>5, DiscoveryCalls DEF ReconfigurationFails
<1>6. CASE IF stopped \/ stalled THEN UNCHANGED masterVars ELSE Recorded(v, call[c].session)
  BY <1>0, <1>3, <1>6
<1>. QED BY <1>1, <1>2, <1>3, <1>4, <1>5, <1>6 DEF Fails

\* Each step of the bridge makes at most one call.
LEMMA NextCalls ==
  ASSUME Types, [Next]_vars
  PROVE  Called
<1>0. UNCHANGED masterVars => Called
  BY DEF Called
<1>t. MasterTyped
  BY DEF Types
<1>1. ASSUME NEW c \in Callers, Continue(c)
      PROVE  Called
  <2>1. CASE At(c, "await") /\ W!Collect(c) /\ IF fut[c] = "done" THEN Succeeds(c, res[c]) ELSE Fails(c, res[c])
    <3>1. res[c] \in Views
      BY SameViews DEF Types, WorkerSound, WP!Typed
    <3>. QED BY <1>t, <2>1, <3>1, SucceedsCalls, FailsCalls
  <2>2. CASE Fails(c, NoSlaves)
    BY <1>t, <2>2, FailsCalls, ListFacts
  <2>. QED BY <1>1, <2>1, <2>2 DEF Continue
<1>2. ASSUME NEW c \in Callers, Run(c), ~Continue(c)
      PROVE  Called
  <2>1. CASE FaultMaster(c)
    BY <2>1, ConnectionCalls DEF FaultMaster
  <2>2. CASE SwitchMode(c)
    BY <1>0, <2>2, ConnectionCalls DEF SwitchMode
  <2>3. CASE Acquire(c) \/ Dispatch(c) \/ Submit(c) \/ TimeOut(c) \/ Fault(c) \/ Unreserve(c) \/ StopWorker(c)
             \/ Replace(c) \/ JoinEnds(c)
    BY <1>0, <2>3 DEF Acquire, Dispatch, Submit, TimeOut, Fault, Unreserve, StopWorker, Replace, JoinEnds
  <2>. QED BY <1>2, <2>1, <2>2, <2>3 DEF Run
<1>3. CASE HandleEvent
  <2> DEFINE e == Head(batch)
  <2>1. batch # << >> /\ e \in BatchTypes
    BY <1>3, HeadFacts DEF HandleEvent, Types
  <2>2. ASSUME Updated(e.slaves, SessionOf(e), FALSE)
        PROVE  Called
    <3>1. e.slaves \in Views /\ FALSE \in BOOLEAN
      BY <2>1 DEF BatchTypes
    <3> HIDE DEF e
    <3>. QED BY <1>t, <2>2, <3>1, UpdatedCalls
  <2>3. ASSUME M!CanCycle(SessionOf(e)), M!CycleFaulted(Failure, slaves, SessionOf(e))
        PROVE  Called
    <3>1. slaves \in Views /\ SessionOf(e) \in {NoSession} \cup 0 .. session
      BY <1>t, <2>3 DEF MasterTyped, M!CanCycle, M!SessionHolds
    <3>. QED BY <2>3, <3>1 DEF Called, Cycled
  <2>4. M!Faulted(Failure) => Called
    BY ConnectionCalls
  <2>5. \/ UNCHANGED masterVars \/ M!Faulted(Failure) \/ Updated(e.slaves, SessionOf(e), FALSE)
        \/ M!CanCycle(SessionOf(e)) /\ M!CycleFaulted(Failure, slaves, SessionOf(e))
    BY <1>3 DEF HandleEvent
  <2>. QED BY <1>0, <2>2, <2>3, <2>4, <2>5
<1>4. Probe \/ ShutDown \/ PollEvents \/ WorkerStep \/ Requests(Methods) \/ UNCHANGED vars => UNCHANGED masterVars
  BY DEF Probe, ShutDown, PollEvents, WorkerStep, Requests, Issue, vars
<1>. QED BY <1>0, <1>1, <1>2, <1>3, <1>4 DEF Next, Steps

\* A call about the cycle keeps the session, and with it the bus: its list is of that bus.
LEMMA CalledByMethods ==
  ASSUME MasterTyped, Called, SessionIsABus
  PROVE  [M!Call]_(M!vars)
<1>1. CASE Cycled
  <2>1. PICK x \in {NoSession} \cup 0 .. session, v \in Views :
          M!CycleStarted(v, x) \/ M!CycleStopped(v, x) \/ M!CycleFaulted(Failure, v, x)
    BY <1>1 DEF Cycled
  <2>2. slaves' = v /\ session' = session
    BY <2>1 DEF M!CycleStarted, M!CycleStopped, M!CycleFaulted, M!Replace
  <2>3. v \in {w \in M!Views : w.topo = slaves.topo}
    BY <2>2, SameViews DEF SessionIsABus
  <2>. QED BY <2>1, <2>3 DEF M!Call, M!Cycling
<1>2. M!Connection \/ M!Discovery \/ M!Reads => M!Call
  BY DEF M!Call
<1>3. UNCHANGED masterVars => UNCHANGED M!vars
  BY DEF masterVars, M!vars
<1>. QED BY <1>1, <1>2, <1>3 DEF Called

MP == INSTANCE MasterStateProofs WITH
        Adapters <- {Adapter}, Errors <- {Failure}, MaxRevision <- 0

LEMMA MasterFits == MP!MasterAssumption /\ MP!TopologyAssumption
BY BridgeAssumption, TopologyAssumption DEF MP!MasterAssumption, MP!TopologyAssumption

\* Both instances are of the same methods.
LEMMA SameLists ==
  /\ MP!NoSlaves = M!NoSlaves /\ MP!Views = M!Views /\ \A v : MP!Unread(v) = M!Unread(v)
<1>1. MP!NoSlaves = M!NoSlaves /\ MP!AlStates = M!AlStates
  BY DEF MP!NoSlaves, M!NoSlaves, MP!AlStates, M!AlStates
<1>2. MP!Views = M!Views
  BY <1>1 DEF MP!Views, M!Views, MP!SlaveLists, M!SlaveLists
<1>. QED BY <1>1, <1>2 DEF MP!Unread, M!Unread

LEMMA SameCalls == [M!Call]_(M!vars) => [MP!Call]_(MP!vars)
<1>1. \A s : MP!Scanned(s) = M!Scanned(s)
  BY SameLists DEF MP!Scanned, M!Scanned
<1>2. \A p, a, s, e, advance : M!Replace(p, a, s, e, advance) <=> MP!Replace(p, a, s, e, advance)
  BY DEF MP!Replace, M!Replace
<1>3. (MP!CanConnectFail <=> M!CanConnectFail) /\ (MP!CanDisconnect <=> M!CanDisconnect) /\ (MP!CanScan <=> M!CanScan)
  BY DEF MP!CanConnectFail, M!CanConnectFail, MP!CanDisconnect, M!CanDisconnect, MP!CanScan, M!CanScan,
     MP!Phases, M!Phases
<1>4. \A x : (MP!SessionHolds(x) <=> M!SessionHolds(x)) /\ (MP!CanCycle(x) <=> M!CanCycle(x))
             /\ (MP!CanFailRead(x) <=> M!CanFailRead(x))
  BY DEF MP!SessionHolds, M!SessionHolds, MP!CanCycle, M!CanCycle, MP!CanFailRead, M!CanFailRead
<1>5. M!Connection => MP!Connection
  BY <1>2, <1>3, SameLists
  DEF M!Connection, MP!Connection, M!SwitchMode, MP!SwitchMode, M!ConnectSucceeded, MP!ConnectSucceeded,
      M!ConnectFailed, MP!ConnectFailed, M!Faulted, MP!Faulted, M!DisconnectCompleted, MP!DisconnectCompleted,
      M!AutoScanCompleted, MP!AutoScanCompleted
<1>6. M!Discovery => MP!Discovery
  BY <1>1, <1>2, <1>3, SameLists
  DEF M!Discovery, MP!Discovery, M!ScanSucceeded, MP!ScanSucceeded, M!ScanFailed, MP!ScanFailed,
      M!TopologyChanged, MP!TopologyChanged
<1>7. M!Reads => MP!Reads
  <2>1. \A s : MP!PhaseAfterRead(s) = M!PhaseAfterRead(s)
    BY SameLists DEF MP!PhaseAfterRead, M!PhaseAfterRead
  <2>2. \A s, x : MP!CanUpdateStates(s, x) <=> M!CanUpdateStates(s, x)
    BY <1>4 DEF MP!CanUpdateStates, M!CanUpdateStates, MP!connected, M!connected
  <2>3. \A s, x, keep : M!StatesUpdated(s, x, keep) => MP!StatesUpdated(s, x, keep)
    BY <1>2, <2>1, <2>2 DEF MP!StatesUpdated, M!StatesUpdated
  <2>4. \A e, x : M!StateReadFailed(e, x) => MP!StateReadFailed(e, x)
    BY <1>2, <1>4, SameLists DEF MP!StateReadFailed, M!StateReadFailed
  <2>. QED BY <2>3, <2>4, SameLists DEF M!Reads, MP!Reads
<1>8. M!Cycling => MP!Cycling
  BY <1>1, <1>2, <1>4, SameLists
  DEF M!Cycling, MP!Cycling, M!PdoConfigured, MP!PdoConfigured, M!CycleStarted, MP!CycleStarted,
      M!CycleStopped, MP!CycleStopped, M!CycleFaulted, MP!CycleFaulted
<1>9. UNCHANGED M!vars => UNCHANGED MP!vars
  BY DEF M!vars, MP!vars
<1>. QED BY <1>5, <1>6, <1>7, <1>8, <1>9 DEF M!Call, MP!Call

LEMMA SameUses == M!Uses => MP!Uses
<1>1. M!Init => MP!Init
  BY SameLists DEF M!Init, MP!Init
<1>. QED BY <1>1, SameCalls, PTL DEF M!Uses, MP!Uses

-----------------------------------------------------------------------------
(* The theorems                                                               *)

\* EEPROM exclusivity belongs to one programming command, from its admission to
\* its end, however the command ends.
THEOREM OneProgrammerAtATime == Spec => []OneProgrammer
<1>1. Inv => OneProgrammer
  BY DEF Inv
<1>. QED BY <1>1, InitInv, NextInv, PTL DEF Spec

\* A worker, and with it a Master, is created only when the one before it has
\* ended and has released the adapter, whatever the device did to it.
THEOREM NoSecondMaster == Spec => SingleMaster
<1>1. Replaces => (wpc' = "start" /\ wpc # "start" => wpc = "dead" /\ ~conn)
  BY DEF Replaces
<1>. QED BY <1>1, InitInv, NextInv, PTL DEF Spec, SingleMaster

\* The worker, the Master, the callers and the batch keep their types, and a caller has
\* the command lock exactly between its admission and the end of its command.
THEOREM AllTyped == Spec => []Types
BY InitTypes, NextTypes, PTL DEF Spec

\* The thread begins a request only for a caller that holds the command lock and
\* still waits for the answer, whoever timed out, was refused or gave the worker
\* up meanwhile.
THEOREM BegunRequestsAreAwaited ==
  Spec => [][BeginsRequest => lock = held'.owner /\ At(held'.owner, "await")]_vars
<1>1. BegunForItsCaller => (BeginsRequest => lock = held'.owner /\ At(held'.owner, "await"))
  BY DEF BegunForItsCaller
<1>. QED BY <1>1, InitTypes, NextTypes, InitAwaited, NextAwaited, BegunIsAwaited, PTL DEF Spec

\* A Master shown as connected has the adapter open whenever no command is under
\* way and the worker is in service, whatever was refused, timed out or faulted.
THEOREM AdapterStaysOpen == Spec => []ConnectedIsOpen
BY InitSound, NextSound, SoundIsOpen, PTL DEF Spec

\* While the session stays the list keeps its topology, whatever commands and
\* events do; and a late event of a cycle starts no session on a Master that knows
\* its bus, unless a command has changed the bus already.
THEOREM SessionsAreBuses == Spec => SessionsHold
<1>1. SessionIsABus /\ LateEventsKeep =>
        /\ session' = session => slaves'.topo = slaves.topo
        /\ batch # <<>> /\ batch' = Tail(batch) /\ Head(batch).kind # "worker_lost"
           /\ slaves # NoSlaves /\ ~Rescans => session' = session
  BY DEF SessionIsABus, LateEventsKeep
<1>2. Sound /\ OneBus /\ [Next]_vars => SessionIsABus /\ LateEventsKeep
  BY NextStepped, StepKeepsBus, StepKeepsSession DEF Sound
<1>. QED BY <1>1, <1>2, InitSound, NextSound, InitOneBus, NextOneBus, PTL DEF Spec, SessionsHold

\* The Master shows a fault exactly when the worker was given up, except between the two
\* steps of giving it up or of replacing it: as long as no event of a worker that did not
\* start is handled beside a switch of the mode.
THEOREM FaultIsShown == Spec /\ []FatalIsOfThisWorker => []FaultShown
BY NextFaultFlow, InitFaultFlow, InitSound, NextSound, FaultFlowShows, PTL DEF Spec

\* The worker begins a request only for the caller that holds the command lock and waits for
\* it, while the worker is in service, and begins to program an image only in the session
\* its target was chosen in: under the same condition.
THEOREM BegunRequestsAreCurrent == Spec /\ []FatalIsOfThisWorker => RequestsAreCurrent
<1>1. Init => FaultFlow /\ TargetsHold /\ OneBus
  BY InitFaultFlow, InitTargetsHold, InitOneBus
<1>2. Sound /\ OneBus /\ FaultFlow /\ TargetsHold /\ [Next]_vars => TargetsHold'
  BY NextTargetsHold DEF FaultFlow
<1>3. Sound /\ FaultFlow /\ TargetsHold /\ [Next]_vars => Current
  BY BegunIsCurrent
<1>4. Current => (BeginsRequest =>
         LET c == held'.owner IN
         /\ lock = c /\ At(c, "await") /\ ~stalled
         /\ call[c].method = "eeprom_flash" /\ call[c].step = "program" => call[c].session = session)
  BY DEF Current
<1>. QED BY <1>1, <1>2, <1>3, <1>4, NextFaultFlow, InitSound, NextSound, NextOneBus, PTL DEF Spec, RequestsAreCurrent

\* The condition holds of a bridge whose workers always start, and of one whose mode is
\* never switched: there, both properties hold of every behaviour.
THEOREM StartingOrNeverReplaced ==
  ~StartupMayFail \/ "switch_mode" \notin Methods => (Spec => []FaultShown /\ RequestsAreCurrent)
<1> SUFFICES ASSUME ~StartupMayFail \/ "switch_mode" \notin Methods
             PROVE  Spec => []FaultShown /\ RequestsAreCurrent
  OBVIOUS
<1> DEFINE NoFatal == ~StartupMayFail => \A e \in Announced : ~Fatal(e)
<1>1. Init => NoFatal
  <2>1. Init => Announced = {}
    BY DEF Init, W!Init, Announced
  <2>. QED BY <2>1
<1>2. Sound /\ NoFatal /\ [Next]_vars => NoFatal'
  BY NextStartsFail DEF Sound
<1>3. Sound /\ NoFatal => FatalIsOfThisWorker
  <2>1. ASSUME Sound, NEW c \in Callers, call[c].stage = "switch"
        PROVE  "switch_mode" \in Methods
    BY <2>1, SwitchesAreSent DEF Sound
  <2>. QED BY <2>1 DEF FatalIsOfThisWorker, Announced
<1> HIDE DEF NoFatal
<1>. QED BY <1>1, <1>2, <1>3, InitSound, NextSound, FaultIsShown, BegunRequestsAreCurrent, PTL DEF Spec

\* The commands, the probes of the idle monitor, the event loop and the switch of the mode
\* use MasterStateMachine by its methods only, and give it lists of the bus its session is
\* about: the bridge implements the object that MasterState specifies.
THEOREM MasterIsUsed == Spec => M!Uses
<1>1. Init => M!Init
  BY DEF Init
<1>2. Sound => Types
  BY DEF Sound
<1>3. Types => MasterTyped
  BY DEF Types
<1>4. Sound /\ OneBus /\ [Next]_vars => SessionIsABus
  BY NextStepped, StepKeepsBus DEF Sound
<1>5. Types /\ [Next]_vars => Called
  BY NextCalls
<1>6. MasterTyped /\ Called /\ SessionIsABus => [M!Call]_(M!vars)
  BY CalledByMethods
<1>. QED BY <1>1, <1>2, <1>3, <1>4, <1>5, <1>6, InitSound, NextSound, InitOneBus, NextOneBus, PTL DEF Spec, M!Uses

\* In the running bridge, whatever times out, is refused or faults, no method reaches the
\* assertion of _assert_invariants: the phase says exactly whether an adapter is open and
\* whether slaves are known.
THEOREM MasterStaysConsistent == Spec => []M!PhaseConsistent
<1>1. MP!PhaseConsistent => M!PhaseConsistent
  BY SameLists DEF MP!PhaseConsistent, M!PhaseConsistent
<1>. QED BY <1>1, MasterIsUsed, SameUses, MasterFits, MP!UsesKeepInvariants, PTL

\* In the running bridge a fault is left by a switch of the mode only, under a new session:
\* no late answer and no late event of a worker that was given up revives its Master.
THEOREM FaultLastsUntilSwitch == Spec => M!FaultedIsFinal
<1>1. MP!FaultedIsFinal => M!FaultedIsFinal
  BY PTL DEF MP!FaultedIsFinal, M!FaultedIsFinal, MP!vars, M!vars
<1>. QED BY <1>1, MasterIsUsed, SameUses, MasterFits, MP!UsesKeepFault, PTL

\* The snapshots that the bridge sends are named by their session and revision: the bridge
\* implements the clock by which the user interface orders them (SnapshotClock).
THEOREM BridgeSnapshotsAreNamed == Spec => M!ImplementsClock
<1>1. MP!ImplementsClock => M!ImplementsClock
  BY PTL DEF MP!ImplementsClock, M!ImplementsClock, MP!Clock!Spec, M!Clock!Spec, MP!Clock!Init, M!Clock!Init,
     MP!Clock!Publish, M!Clock!Publish, MP!Clock!vars, M!Clock!vars
<1>. QED BY <1>1, MasterIsUsed, SameUses, MasterFits, MP!UsesImplementClock, PTL

-----------------------------------------------------------------------------
(* The worker inside the bridge                                               *)

\* What the callers and the event loop do to the worker leaves its cycle and its
\* adapter alone.
LEMMA AskingKeepsOwed ==
  ASSUME WP!Inv, NEW c, NEW op, NEW a, NEW s,
         W!Submit(c, op, a, s) \/ W!Cancel(c) \/ W!Collect(c) \/ W!MarkStalled
           \/ W!Shutdown \/ W!PollEvents \/ UNCHANGED workerVars
  PROVE  WP!Inv'
<1>1. UNCHANGED <<cyc, cycSession, needsSafe, owed, conn, bus, wpc>>
  BY DEF workerVars, W!Submit, W!Cancel, W!Collect, W!MarkStalled, W!Shutdown, W!PollEvents, W!loopVars,
         W!cycleVars, W!busVars
<1>2. UNCHANGED <<WP!cycleVars, WP!busVars>> /\ (wpc' \in WP!Outside => wpc \in WP!Outside)
  BY <1>1 DEF WP!cycleVars, WP!busVars, WP!Outside
<1>. QED BY <1>2, WorkerFits, WP!QuietKeepsInv

\* Every step of the bridge keeps what the worker remembers.  A worker is replaced
\* only when it has ended, and its successor begins with no adapter and no cycle.
LEMMA NextOwed ==
  ASSUME WP!Inv, [Next]_vars
  PROVE  WP!Inv'
<1>1. ASSUME NEW c \in Callers, Run(c)
      PROVE  WP!Inv'
  <2>1. CASE Replace(c)
    <3>1. wpc' = "start" /\ needsSafe' = FALSE /\ owed' = FALSE /\ conn' = FALSE
      BY <2>1, Zenon DEF Replace, NewWorker
    <3>. QED BY <3>1, Zenon DEF WP!Inv
  <2>2. CASE Asks(c)
    BY <2>2, AskingKeepsOwed DEF Asks
  <2>3. Replace(c) \/ Asks(c)
    BY <1>1 DEF Run, Asks, Acquire, Dispatch, Submit, TimeOut, Continue, Fault, FaultMaster, Unreserve,
           StopWorker, SwitchMode, JoinEnds
  <2>. QED BY <2>1, <2>2, <2>3
<1>2. CASE PollEvents
  BY <1>2, AskingKeepsOwed DEF PollEvents
<1>3. CASE WorkerStep
  <2>1. WP!Loop
    BY <1>3, SameLoop DEF WorkerStep
  <2>. QED BY <2>1, WorkerFits, WP!LoopKeepsInv
<1>4. Requests(Methods) \/ Probe \/ ShutDown \/ HandleEvent \/ UNCHANGED vars => UNCHANGED workerVars
  BY DEF Requests, Issue, Probe, ShutDown, HandleEvent, vars
<1>5. CASE UNCHANGED workerVars
  BY <1>5, AskingKeepsOwed
<1>. QED BY <1>1, <1>2, <1>3, <1>4, <1>5 DEF Next, Steps

\* Both instances say the same of the requests.
LEMMA SameRequests == WP!NoLostRequest => W!NoLostRequest
<1>1. \A c : W!Places(c) = WP!Places(c)
  BY DEF W!Places, WP!Places
<1>. QED BY <1>1 DEF W!NoLostRequest, WP!NoLostRequest

\* In the running bridge, whatever callers give up, probe, time out or replace the
\* worker, a caller that waits is waited for: its request is in one place of the worker
\* in service, and no request is left there without a caller.
THEOREM BridgeKeepsRequests == Spec => []W!NoLostRequest
<1>1. Types => W!NoLostRequest
  BY SameRequests, WorkerFits, WP!PlacedIsNotLost DEF Types, WorkerSound
<1>2. Sound => Types
  BY DEF Sound
<1>. QED BY <1>1, <1>2, InitSound, NextSound, PTL DEF Spec

\* In the running bridge, whatever commands are sent and given up, slaves that a cycle
\* may have left in OP are remembered by the worker that holds the adapter, across every
\* replacement of the worker.
THEOREM BridgeRemembersSafeState == Spec => []W!SafeStateRemembered
<1>1. Init => WP!Inv
  BY Zenon DEF Init, W!Init, WP!Inv
<1>2. WP!Inv => W!SafeStateRemembered
  BY Zenon DEF WP!Inv, W!SafeStateRemembered
<1>. QED BY <1>1, <1>2, NextOwed, PTL DEF Spec
=============================================================================
