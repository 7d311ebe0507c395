------------------------- MODULE HostSupervisorProofs -------------------------
(* Proofs about the host: for every number of callers, generations and        *)
(* requests there is one core at a time, none is left when the application    *)
(* has ended, the end of the core in service is heard, and the table of a     *)
(* core holds exactly the requests that have no answer.                       *)
EXTENDS HostSupervisor, TLAPS

-----------------------------------------------------------------------------
(* The invariant                                                              *)

\* Where the supervisor and the end of the application hold the restart lock.
SupAtWork == {"activate", "handshake", "install", "mark", "kill", "killed"}
ExitAtWork == {"check", "insert", "send", "wait", "mark", "kill", "killed", "stopping", "poll"}

Calls == [pc : Places, gen : 0 .. MaxGen, result : Results]

ThreadsTyped ==
  /\ generation \in 0 .. MaxGen /\ current \in 0 .. generation /\ stopped \in BOOLEAN
  /\ faults \subseteq Gens
  /\ call \in [Threads -> Calls] /\ pending \in [Gens -> SUBSET Users]
  /\ proc \in [Gens -> {"none", "alive", "dead"}]
  /\ reader \in [Gens -> {"none", "reading", "ended"}]

LocksHeld ==
  /\ call[Sup].pc \in SupAtWork \cup {"loop", "lock", "gone"}
  /\ call[Exit].pc \in ExitAtWork \cup {"idle", "lock", "done"}
  /\ call[Sup].pc \in SupAtWork => restartLock = Sup
  /\ call[Exit].pc \in ExitAtWork => restartLock = Exit
  /\ call[Exit].pc # "idle" => stopped

\* The generation whose core may be alive: the one that the supervisor starts or
\* terminates, and the one in service when it does neither.
CoreAt(c, installed) ==
  CASE c.pc \in {"handshake", "install", "mark", "kill"} -> c.gen
    [] c.pc \in {"activate", "killed"} -> 0
    [] OTHER -> installed
TheCore == CoreAt(call[Sup], current)

CoreInHand ==
  /\ \A g \in Gens : proc[g] = "alive" => g = TheCore
  /\ call[Sup].pc \in {"activate", "handshake", "install"} => current = 0
  /\ call[Sup].pc \in {"handshake", "install", "mark", "kill", "killed"} =>
       GenOf(Sup) \in 1 .. generation /\ current \in {0, GenOf(Sup)}

ExitInHand ==
  /\ call[Exit].pc \in ExitAtWork => current # 0 /\ GenOf(Exit) = current
  /\ At(Exit, "killed") => proc[GenOf(Exit)] # "alive"
  /\ At(Exit, "done") => call[Sup].pc \notin SupAtWork /\ \A g \in Gens : proc[g] # "alive"

\* A core that is started or in service has a reader.  Where the reader has
\* ended the fault is queued, or the supervisor has taken it from the queue.
ReadersHeard ==
  /\ call[Sup].pc \in {"handshake", "install"} =>
       /\ reader[GenOf(Sup)] # "none"
       /\ reader[GenOf(Sup)] = "ended" => GenOf(Sup) \in faults
  /\ current # 0 =>
       /\ reader[current] # "none"
       /\ reader[current] = "ended" => current \in faults \/ GenOf(Sup) = current \/ stopped

Inv == ThreadsTyped /\ LocksHeld /\ CoreInHand /\ ExitInHand /\ ReadersHeard
-----------------------------------------------------------------------------
(* Steps beside the supervisor                                                *)

\* The supervisor stays where it is or marks a core, the end of the application keeps what it
\* holds, no core is started, and a reader that ends reports it.
CalmStep ==
  /\ UNCHANGED hostVars /\ ThreadsTyped'
  /\ \A g \in Gens :
       /\ proc'[g] = "alive" => proc[g] = "alive"
       /\ reader'[g] # reader[g] => reader[g] # "none" /\ reader'[g] = "ended" /\ g \in faults'
  /\ faults \subseteq faults'
  /\ call'[Sup].gen = call[Sup].gen
  /\ call'[Sup].pc = call[Sup].pc \/ (call[Sup].pc = "mark" /\ call'[Sup].pc = "kill")
  /\ call'[Exit].gen = call[Exit].gen
  /\ call'[Exit].pc # call[Exit].pc =>
       /\ {call[Exit].pc, call'[Exit].pc} \subseteq ExitAtWork
       /\ call'[Exit].pc = "killed" => proc'[GenOf(Exit)] # "alive"

\* The generations that were activated are within the bound.
LEMMA GenerationsKnown ==
  ASSUME ThreadsTyped
  PROVE  /\ generation \in Nat /\ current \in Nat /\ current \in 0 .. MaxGen
         /\ \A g \in 1 .. generation : g \in Gens
         /\ current # 0 => current \in Gens /\ current \in 1 .. generation
         /\ 0 \notin Gens
BY HostAssumption DEF ThreadsTyped, Gens

\* Such steps keep the invariant.
LEMMA CalmKeepsInv ==
  ASSUME Inv, CalmStep
  PROVE  Inv'
<1> USE DEF Inv, CalmStep, hostVars, GenOf, At
<1>1. ThreadsTyped'
  OBVIOUS
<1>2. LocksHeld'
  BY DEF LocksHeld, ExitAtWork, SupAtWork
<1>3. TheCore' = TheCore
  BY DEF TheCore, CoreAt
<1>4. CoreInHand'
  BY <1>3 DEF CoreInHand
<1>5. ExitInHand'
  <2>1. call[Exit].pc \in ExitAtWork => GenOf(Exit) \in Gens
    BY GenerationsKnown DEF ExitInHand
  <2>. QED BY <2>1 DEF ExitInHand, ExitAtWork, SupAtWork
<1>6. ReadersHeard'
  <2>1. call[Sup].pc \in {"handshake", "install"} => GenOf(Sup) \in Gens
    BY GenerationsKnown DEF CoreInHand
  <2>2. current # 0 => current \in Gens
    BY GenerationsKnown
  <2>3. CASE call[Sup].pc \in {"handshake", "install"}
    BY <2>1, <2>2, <2>3 DEF ReadersHeard
  <2>4. CASE call[Sup].pc \notin {"handshake", "install"}
    BY <2>2, <2>4 DEF ReadersHeard
  <2>. QED BY <2>3, <2>4
<1>. QED BY <1>1, <1>2, <1>4, <1>5, <1>6

\* What the constants say of the threads.
LEMMA ThreadsDiffer ==
  /\ Sup \in Threads /\ Exit \in Threads /\ Exit \in Users /\ Users \subseteq Threads
  /\ Sup \notin Users /\ Sup # Exit
  /\ Exit \notin Callers /\ Nobody # Sup /\ Nobody # Exit
BY HostAssumption DEF Threads, Users

\* A thread that is given a place and a result keeps the calls typed, and moves
\* nobody else.
LEMMA OneMoves ==
  ASSUME ThreadsTyped, NEW t \in Threads, NEW c \in Calls, call' = [call EXCEPT ![t] = c]
  PROVE  /\ call' \in [Threads -> Calls] /\ call'[t] = c
         /\ \A u \in Threads : u # t => call'[u] = call[u]
BY DEF ThreadsTyped

\* Open requests that fail change results only.
LEMMA FailingTyped ==
  ASSUME ThreadsTyped, NEW g
  PROVE  /\ Failing(g) \in [Threads -> Calls]
         /\ \A t \in Threads : Failing(g)[t].pc = call[t].pc /\ Failing(g)[t].gen = call[t].gen
BY DEF ThreadsTyped, Failing, Calls, Results

\* A caller begins a request, and a request goes on, ends or gives up.
LEMMA RequestsAreCalm ==
  ASSUME Inv, NEW u \in Users, (u \in Callers /\ Ask(u)) \/ Requesting(u)
  PROVE  CalmStep
<1> USE ThreadsDiffer DEF At, GenOf, Goto
<1>1. u \in Threads /\ u # Sup /\ call[u] \in Calls /\ ThreadsTyped
  BY DEF Inv, ThreadsTyped
<1>2. CASE u \in Callers /\ Ask(u)
  <2>1. /\ call' = [call EXCEPT ![u] = [pc |-> "check", gen |-> current, result |-> "none"]]
           \/ call' = call
        /\ u # Exit /\ current \in Gens
    BY <1>1, <1>2, GenerationsKnown DEF Ask
  <2>2. [pc |-> "check", gen |-> current, result |-> "none"] \in Calls
    BY <2>1 DEF Calls, Places, Results, Gens
  <2>3. call' \in [Threads -> Calls] /\ call'[Sup] = call[Sup] /\ call'[Exit] = call[Exit]
    BY <1>1, <2>1, <2>2, OneMoves DEF ThreadsTyped
  <2>4. faults' \subseteq Gens /\ faults \subseteq faults'
    BY <1>1, <1>2, <2>1 DEF Ask, ThreadsTyped
  <2>. QED BY <1>1, <1>2, <2>3, <2>4 DEF Ask, CalmStep, hostVars, ThreadsTyped
<1>3. CASE Requesting(u)
  <2>1. PICK c \in Calls :
          /\ call' = [call EXCEPT ![u] = c]
          /\ u = Exit => c.gen = call[u].gen /\ c.pc \in ExitAtWork /\ call[u].pc \in ExitAtWork
          /\ c.pc # "killed"
    <3>1. Over(u) \in Calls
      BY <1>1, HostAssumption DEF Over, Idle, Calls, Places, Results
    <3>2. u = Exit => Over(u).gen = call[u].gen /\ Over(u).pc = "stopping"
      BY <1>1 DEF Over, Calls
    <3>3. Over(u).pc # "killed"
      BY <1>1 DEF Over, Calls, Idle
    <3>4. \A p \in Places, r \in Results :
            /\ [call[u] EXCEPT !.pc = p] \in Calls /\ [call[u] EXCEPT !.pc = p, !.result = r] \in Calls
      BY <1>1 DEF Calls
    <3>5. CASE call' = [call EXCEPT ![u] = Over(u)]
      <4>1. u = Exit => call[u].pc \in ExitAtWork
        BY <1>1, <1>3, <3>5 DEF Requesting, Check, Insert, Send, Take, TimeOut, Expired, ExitAtWork
      <4>. QED BY <3>1, <3>2, <3>3, <3>5, <4>1 DEF ExitAtWork
    <3>6. CASE call' # [call EXCEPT ![u] = Over(u)]
      <4>1. \E p \in {"insert", "send", "wait", "mark"}, r \in Results \cup {"kept"} :
              /\ call' = [call EXCEPT ![u] = IF r = "kept" THEN [call[u] EXCEPT !.pc = p]
                                             ELSE [call[u] EXCEPT !.pc = p, !.result = r]]
              /\ call[u].pc \in ExitAtWork
        BY <1>1, <1>3, <3>6 DEF Requesting, Check, Insert, Send, Take, TimeOut, Expired, ExitAtWork, Results
      <4>2. PICK p \in {"insert", "send", "wait", "mark"}, r \in Results \cup {"kept"} :
              /\ call' = [call EXCEPT ![u] = IF r = "kept" THEN [call[u] EXCEPT !.pc = p]
                                             ELSE [call[u] EXCEPT !.pc = p, !.result = r]]
              /\ call[u].pc \in ExitAtWork
        BY <4>1
      <4> DEFINE c == IF r = "kept" THEN [call[u] EXCEPT !.pc = p] ELSE [call[u] EXCEPT !.pc = p, !.result = r]
      <4>3. p \in Places /\ p \in ExitAtWork /\ p # "killed"
        BY DEF Places, ExitAtWork
      <4>4. c \in Calls /\ c.gen = call[u].gen /\ c.pc = p
        BY <1>1, <3>4, <4>3 DEF Calls
      <4>. QED BY <4>2, <4>3, <4>4
    <3>. QED BY <3>5, <3>6
  <2>2. /\ call' \in [Threads -> Calls] /\ call'[u] = c
        /\ \A t \in Threads : t # u => call'[t] = call[t]
    BY <1>1, <2>1, OneMoves
  <2>3. /\ UNCHANGED hostVars /\ UNCHANGED <<faults, proc, reader>>
        /\ pending' \in [Gens -> SUBSET Users]
    <3>1. UNCHANGED hostVars /\ UNCHANGED <<faults, proc, reader>>
      BY <1>3 DEF Requesting, Check, Insert, Send, Take, TimeOut
    <3>2. pending' = pending \/ pending' = [pending EXCEPT ![call[u].gen] = @ \cup {u}]
          \/ pending' = [pending EXCEPT ![call[u].gen] = @ \ {u}]
      BY <1>3 DEF Requesting, Check, Insert, Send, Take, TimeOut
    <3>. QED BY <1>1, <3>1, <3>2 DEF ThreadsTyped
  <2>4. ThreadsTyped'
    BY <1>1, <2>2, <2>3 DEF ThreadsTyped, hostVars
  <2>. QED BY <1>1, <2>1, <2>2, <2>3, <2>4 DEF CalmStep, hostVars
<1>. QED BY <1>2, <1>3

\* A core that cannot be talked to is marked.
LEMMA MarkingIsCalm ==
  ASSUME Inv, NEW t \in Threads, Mark(t)
  PROVE  CalmStep
<1> USE ThreadsDiffer DEF At, GenOf
<1> DEFINE g == call[t].gen
<1>1. call[t] \in Calls /\ ThreadsTyped
  BY DEF Inv, ThreadsTyped
<1>2. /\ UNCHANGED hostVars /\ UNCHANGED <<faults, proc, reader>>
      /\ pending' \in [Gens -> SUBSET Users]
  BY <1>1 DEF Mark, ThreadsTyped
<1>3. /\ Failing(g) \in [Threads -> Calls]
      /\ \A u \in Threads : Failing(g)[u].pc = call[u].pc /\ Failing(g)[u].gen = call[u].gen
  BY <1>1, FailingTyped
<1>4. /\ call' \in [Threads -> Calls]
      /\ \A u \in Threads \ {t} : call'[u] = Failing(g)[u]
      /\ call'[t].gen = call[t].gen /\ call'[t].pc = "kill" /\ call[t].pc = "mark"
  <2>1. call' = [Failing(g) EXCEPT ![t].pc = "kill"]
    BY DEF Mark
  <2>2. [Failing(g)[t] EXCEPT !.pc = "kill"] \in Calls
    BY <1>3 DEF Calls, Places
  <2>. QED BY <1>3, <2>1, <2>2 DEF Mark, Calls
<1>5. ThreadsTyped'
  BY <1>1, <1>2, <1>4 DEF ThreadsTyped, hostVars
<1>. QED BY <1>2, <1>3, <1>4, <1>5 DEF CalmStep, ExitAtWork, hostVars

\* A core is terminated by a caller or by the end of the application.
LEMMA KillingIsCalm ==
  ASSUME Inv, NEW u \in Users, Kill(u)
  PROVE  CalmStep
<1> USE ThreadsDiffer DEF At, GenOf, Goto
<1>1. u \in Threads /\ u # Sup /\ call[u] \in Calls /\ ThreadsTyped
  BY DEF Inv, ThreadsTyped
<1>2. call' = [call EXCEPT ![u] = [call[u] EXCEPT !.pc = "killed"]] /\ call[u].pc = "kill"
  BY <1>1 DEF Kill
<1>3. [call[u] EXCEPT !.pc = "killed"] \in Calls
  BY <1>1 DEF Calls, Places
<1>4. /\ call' \in [Threads -> Calls] /\ call'[u] = [call[u] EXCEPT !.pc = "killed"]
      /\ \A t \in Threads : t # u => call'[t] = call[t]
  BY <1>1, <1>2, <1>3, OneMoves
<1>5. UNCHANGED hostVars /\ UNCHANGED <<faults, reader, pending>>
  BY DEF Kill
<1>6. /\ proc' = [proc EXCEPT ![call[u].gen] = "dead"]
      /\ proc' \in [Gens -> {"none", "alive", "dead"}]
  BY <1>1 DEF Kill, Reaped, ThreadsTyped
<1>7. u = Exit => call[u].gen \in Gens
  BY <1>1, <1>2, GenerationsKnown DEF Inv, ExitInHand, ExitAtWork
<1>8. ThreadsTyped'
  BY <1>1, <1>4, <1>5, <1>6 DEF ThreadsTyped, hostVars
<1>9. \A g \in Gens : proc'[g] = "alive" => proc[g] = "alive"
  BY <1>1, <1>6 DEF ThreadsTyped
<1>10. u = Exit => proc'[call[u].gen] # "alive"
  BY <1>1, <1>6, <1>7 DEF ThreadsTyped
<1>11. call'[u].pc = "killed" /\ call'[u].gen = call[u].gen
  BY <1>1, <1>4 DEF Calls
<1>. QED BY <1>1, <1>2, <1>4, <1>5, <1>8, <1>9, <1>10, <1>11 DEF CalmStep, ExitAtWork, hostVars

\* The threads of a generation, and its core.
LEMMA GenerationsAreCalm ==
  ASSUME Inv, NEW g \in Gens, Serving(g) \/ Core(g)
  PROVE  CalmStep
<1> USE ThreadsDiffer
<1>1. ThreadsTyped
  BY DEF Inv
<1>2. CASE Write(g)
  <2>1. UNCHANGED hostVars /\ UNCHANGED <<call, proc, reader, pending>>
    BY <1>2 DEF Write
  <2>2. faults \subseteq faults' /\ faults' \subseteq Gens
    BY <1>1, <1>2 DEF Write, ThreadsTyped
  <2>. QED BY <1>1, <2>1, <2>2 DEF CalmStep, ThreadsTyped, hostVars
<1>3. CASE Read(g)
  <2>1. UNCHANGED hostVars /\ UNCHANGED <<proc, reader>>
    BY <1>3 DEF Read
  <2>2. faults \subseteq faults' /\ faults' \subseteq Gens
    BY <1>1, <1>3 DEF Read, Handles, ThreadsTyped
  <2> DEFINE u == Head(pipe[g]).user
  <2>3. /\ \/ call' = call
           \/ /\ u \in pending[g]
              /\ \E r \in {"ok", "failed"} : call' = [call EXCEPT ![u].result = r]
        /\ pending' = pending \/ pending' = [pending EXCEPT ![g] = @ \ {u}]
    <3>1. Handles(g, Head(pipe[g]))
      BY <1>3 DEF Read
    <3>2. pending' = pending \/ pending' = [pending EXCEPT ![g] = @ \ {u}]
      BY <3>1 DEF Handles
    <3>3. \/ call' = call
          \/ u \in pending[g] /\ call' = [call EXCEPT ![u].result = "ok"]
          \/ u \in pending[g] /\ call' = [call EXCEPT ![u].result = "failed"]
      BY <3>1, Zenon DEF Handles
    <3>. QED BY <3>2, <3>3, Zenon
  <2>4. pending' \in [Gens -> SUBSET Users] /\ pending[g] \subseteq Threads
    BY <1>1, <2>3 DEF ThreadsTyped
  <2>5. /\ call' \in [Threads -> Calls]
        /\ \A t \in Threads : call'[t].pc = call[t].pc /\ call'[t].gen = call[t].gen
    <3>1. ASSUME u \in Threads, NEW r \in {"ok", "failed"} PROVE [call[u] EXCEPT !.result = r] \in Calls
      BY <1>1, <3>1 DEF ThreadsTyped, Calls, Results
    <3>. QED BY <1>1, <2>3, <2>4, <3>1 DEF ThreadsTyped, Calls
  <2>6. ThreadsTyped'
    BY <1>1, <2>1, <2>2, <2>4, <2>5 DEF ThreadsTyped, hostVars
  <2>. QED BY <2>1, <2>2, <2>5, <2>6 DEF CalmStep, hostVars
<1>4. CASE ReaderEnds(g)
  <2>1. /\ UNCHANGED hostVars /\ UNCHANGED proc /\ call' = Failing(g)
        /\ pending' \in [Gens -> SUBSET Users]
        /\ faults' = faults \cup {g} /\ reader' = [reader EXCEPT ![g] = "ended"] /\ reader[g] = "reading"
    BY <1>1, <1>4 DEF ReaderEnds, AtEnd, ThreadsTyped
  <2>2. /\ call' \in [Threads -> Calls]
        /\ \A t \in Threads : call'[t].pc = call[t].pc /\ call'[t].gen = call[t].gen
    BY <1>1, <2>1, FailingTyped
  <2>3. ThreadsTyped'
    BY <1>1, <2>1, <2>2 DEF ThreadsTyped, hostVars
  <2>4. \A h \in Gens : reader'[h] # reader[h] => reader[h] # "none" /\ reader'[h] = "ended" /\ h \in faults'
    BY <1>1, <2>1 DEF ThreadsTyped
  <2>. QED BY <2>1, <2>2, <2>3, <2>4 DEF CalmStep, hostVars
<1>5. CASE Core(g)
  <2>1. UNCHANGED hostVars /\ UNCHANGED <<faults, call, reader, pending>>
    BY <1>5 DEF Core
  <2>2. proc' = proc \/ proc' = [proc EXCEPT ![g] = "dead"]
    BY <1>5 DEF Core
  <2>3. ThreadsTyped' /\ \A h \in Gens : proc'[h] = "alive" => proc[h] = "alive"
    BY <1>1, <2>1, <2>2 DEF ThreadsTyped, hostVars
  <2>. QED BY <2>1, <2>3 DEF CalmStep, hostVars
<1>. QED BY <1>2, <1>3, <1>4, <1>5 DEF Serving

-----------------------------------------------------------------------------
(* The supervisor                                                             *)

\* A step of the supervisor that starts, ends and hears no core.
SupStep(c) ==
  /\ call' = [call EXCEPT ![Sup] = c] /\ c \in Calls
  /\ UNCHANGED <<generation, stopped, pending, proc, reader>>

\* The places of the supervisor that such a step leads to.
LEMMA SupStepKeepsInv ==
  ASSUME Inv, NEW c, SupStep(c), UNCHANGED faults, current' \in 0 .. generation,
         call[Sup].pc \in SupAtWork \/ restartLock = Nobody,
         restartLock' = IF c.pc \in SupAtWork THEN Sup ELSE Nobody,
         c.pc \in SupAtWork \cup {"loop", "lock"},
         c.pc \in SupAtWork => call[Exit].pc # "done",
         \A g \in Gens : proc[g] = "alive" => g = CoreAt(c, current'),
         c.pc \in {"activate", "handshake", "install"} => current' = 0,
         c.pc \in {"handshake", "install", "mark", "kill", "killed"} =>
           c.gen \in 1 .. generation /\ current' \in {0, c.gen},
         c.pc \in {"handshake", "install"} =>
           reader[c.gen] # "none" /\ (reader[c.gen] = "ended" => c.gen \in faults),
         current' # 0 =>
           /\ reader[current'] # "none"
           /\ reader[current'] = "ended" => current' \in faults \/ c.gen = current' \/ stopped
  PROVE  Inv'
<1> USE ThreadsDiffer DEF GenOf, At
<1>1. /\ call' \in [Threads -> Calls] /\ call'[Sup] = c /\ call'[Exit] = call[Exit]
  BY OneMoves DEF SupStep, Inv
<1>2. call[Exit].pc \notin ExitAtWork
  BY DEF Inv, LocksHeld
<1>3. ThreadsTyped'
  BY <1>1 DEF Inv, ThreadsTyped, SupStep
<1>4. LocksHeld'
  BY <1>1, <1>2 DEF Inv, LocksHeld, SupStep
<1>5. CoreInHand'
  BY <1>1 DEF CoreInHand, SupStep, TheCore
<1>6. ExitInHand'
  BY <1>1, <1>2 DEF Inv, ExitInHand, SupStep, ExitAtWork
<1>7. ReadersHeard'
  BY <1>1 DEF ReadersHeard, SupStep
<1>. QED BY <1>3, <1>4, <1>5, <1>6, <1>7 DEF Inv

\* The supervisor looks at its queue, and is done with a fault only once it is
\* not that of the core in service, or takes it in hand.
LEMMA SuperviseKeepsInv ==
  ASSUME Inv, Supervise
  PROVE  Inv'
<1> USE ThreadsDiffer DEF GenOf, At, Goto, SupervisorGoes, SupervisorOnly
<1>1. /\ UNCHANGED <<hostVars, proc, reader, pending>> /\ call[Sup].pc = "loop"
  BY DEF Supervise, hostVars
<1>2. call[Sup] \in Calls /\ ThreadsTyped
  BY DEF Inv, ThreadsTyped
<1> DEFINE Drops(g, c) ==
             faults' = faults \ {g} /\ (current # g => c = call[Sup]) /\ (current = g => c.gen = g)
           Goes(c) ==
             /\ call' = [call EXCEPT ![Sup] = c]
             /\ c.pc \in {"loop", "lock", "gone"}
             /\ \/ faults' = faults /\ (stopped \/ current = 0)
                \/ \E g \in faults : Drops(g, c)
<1>3. PICK c \in Calls : Goes(c)
  <2>1. CASE stopped /\ Goto(Sup, "gone") /\ UNCHANGED faults
    <3>1. [call[Sup] EXCEPT !.pc = "gone"] \in Calls
      BY <1>2 DEF Calls, Places
    <3>. QED BY <1>2, <2>1, <3>1 DEF Calls
  <2>2. CASE ~stopped /\ current = 0 /\ SupervisorGoes("lock", 0) /\ UNCHANGED faults
    <3>1. [pc |-> "lock", gen |-> 0, result |-> "none"] \in Calls
      BY HostAssumption DEF Calls, Places, Results
    <3>. QED BY <2>2, <3>1
  <2>3. ASSUME NEW g \in faults, faults' = faults \ {g},
               IF current = g THEN SupervisorGoes("lock", g) ELSE UNCHANGED call
        PROVE  \E c \in Calls : Goes(c)
    <3>1. g \in Gens /\ [pc |-> "lock", gen |-> g, result |-> "none"] \in Calls
      BY <1>2 DEF ThreadsTyped, Calls, Places, Results, Gens
    <3>2. UNCHANGED call => call' = [call EXCEPT ![Sup] = call[Sup]]
      BY <1>2 DEF ThreadsTyped
    <3>3. CASE current = g
      BY <2>3, <3>1, <3>3
    <3>4. CASE current # g
      BY <1>1, <1>2, <2>3, <3>2, <3>4
    <3>. QED BY <3>3, <3>4
  <2>. QED BY <2>1, <2>2, <2>3 DEF Supervise
<1>4. call' \in [Threads -> Calls] /\ call'[Sup] = c /\ call'[Exit] = call[Exit]
  BY <1>2, <1>3, OneMoves
<1>5. ThreadsTyped'
  BY <1>1, <1>2, <1>3, <1>4 DEF ThreadsTyped, hostVars
<1>6. LocksHeld'
  BY <1>1, <1>3, <1>4 DEF Inv, LocksHeld, SupAtWork, hostVars
<1>7. CoreInHand'
  BY <1>1, <1>3, <1>4 DEF Inv, CoreInHand, TheCore, CoreAt, hostVars
<1>8. ExitInHand'
  BY <1>1, <1>3, <1>4 DEF Inv, ExitInHand, SupAtWork, hostVars
<1>9. ReadersHeard'
  <2>1. CASE faults' = faults /\ (stopped \/ current = 0)
    BY <1>1, <1>3, <1>4, <2>1 DEF Inv, ReadersHeard, hostVars
  <2>2. CASE \E g \in faults : Drops(g, c)
    BY <1>1, <1>3, <1>4, <2>2 DEF Inv, ReadersHeard, hostVars
  <2>. QED BY <1>3, <2>1, <2>2
<1>. QED BY <1>5, <1>6, <1>7, <1>8, <1>9 DEF Inv

\* Changing a field of a call.
LEMMA CallsMove ==
  ASSUME NEW c \in Calls, NEW p \in Places
  PROVE  LET moved == [c EXCEPT !.pc = p]
         IN  moved \in Calls /\ moved.pc = p /\ moved.gen = c.gen
BY DEF Calls

\* What the supervisor has in hand is of a known generation.
LEMMA InHand ==
  ASSUME Inv
  PROVE  /\ ThreadsTyped /\ call[Sup] \in Calls /\ GenOf(Sup) \in 0 .. MaxGen
         /\ current # 0 => current \in 1 .. generation
         /\ \A p \in Places : [call[Sup] EXCEPT !.pc = p] \in Calls
         /\ [pc |-> "loop", gen |-> 0, result |-> "none"] \in Calls
BY ThreadsDiffer, GenerationsKnown, HostAssumption DEF Inv, ThreadsTyped, Calls, GenOf, Places, Results

\* The supervisor takes the lock, unless the application ends or the fault is
\* not that of the core in service.
LEMMA LockedKeepsInv ==
  ASSUME Inv, Locked
  PROVE  Inv'
<1> USE InHand DEF GenOf, At, Goto, SupervisorGoes, SupervisorOnly, Leave
<1>1. UNCHANGED <<generation, current, stopped, faults, pending, proc, reader>>
  BY DEF Locked
<1>2. call[Sup].pc = "lock" /\ restartLock = Nobody
  BY DEF Locked
<1>3. \A g \in Gens : proc[g] = "alive" => g = current
  BY <1>2 DEF Inv, CoreInHand, TheCore, CoreAt
<1>4. current # 0 =>
        /\ reader[current] # "none"
        /\ reader[current] = "ended" => current \in faults \/ GenOf(Sup) = current \/ stopped
  BY DEF Inv, ReadersHeard
<1>5. CASE stopped \/ current # GenOf(Sup)
  <2> DEFINE c == [pc |-> "loop", gen |-> 0, result |-> "none"]
  <2>1. SupStep(c) /\ restartLock' = Nobody
    BY <1>1, <1>5 DEF Locked, SupStep
  <2>2. \A g \in Gens : proc[g] = "alive" => g = CoreAt(c, current')
    BY <1>1, <1>3 DEF CoreAt
  <2>. QED BY <1>1, <1>2, <1>4, <1>5, <2>1, <2>2, SupStepKeepsInv DEF SupAtWork, Inv, ThreadsTyped
<1>6. CASE ~stopped /\ current = GenOf(Sup)
  <2> DEFINE p == IF current = 0 THEN "activate" ELSE "mark"
             c == [call[Sup] EXCEPT !.pc = p]
  <2>1. c \in Calls /\ c.pc = p /\ c.gen = current
    BY <1>6 DEF Calls, Places
  <2>2. SupStep(c) /\ restartLock' = Sup
    BY <1>1, <1>6, <2>1 DEF Locked, SupStep
  <2>3. \A g \in Gens : proc[g] = "alive" => g = CoreAt(c, current')
    BY <1>1, <1>3, <2>1, GenerationsKnown DEF CoreAt
  <2>4. call[Exit].pc # "done"
    BY <1>6 DEF Inv, LocksHeld
  <2> HIDE DEF c
  <2>. QED
    <3>1. CASE current = 0
      BY <1>1, <1>2, <2>1, <2>2, <2>3, <2>4, <3>1, SupStepKeepsInv DEF SupAtWork, Inv, ThreadsTyped
    <3>2. CASE current # 0
      BY <1>1, <1>2, <1>4, <2>1, <2>2, <2>3, <2>4, <3>2, SupStepKeepsInv DEF SupAtWork, Inv, ThreadsTyped
    <3>. QED BY <3>1, <3>2
<1>. QED BY <1>5, <1>6

\* Once the old core has been reaped the next one is started.
LEMMA TerminatedKeepsInv ==
  ASSUME Inv, Terminated
  PROVE  Inv'
<1> USE InHand DEF GenOf, At, Goto, SupervisorGoes, SupervisorOnly, Leave
<1>1. UNCHANGED <<generation, stopped, faults, pending, proc, reader>> /\ call[Sup].pc = "killed"
  BY DEF Terminated
<1>2. /\ \A g \in Gens : proc[g] # "alive"
      /\ GenOf(Sup) \in 1 .. generation /\ current \in {0, GenOf(Sup)}
  BY <1>1, GenerationsKnown DEF Inv, CoreInHand, TheCore, CoreAt
<1>3. restartLock = Sup /\ call[Exit].pc # "done"
  BY <1>1 DEF Inv, LocksHeld, ExitInHand, SupAtWork, ExitAtWork
<1>4. CASE current = GenOf(Sup)
  <2> DEFINE c == [call[Sup] EXCEPT !.pc = "activate"]
  <2>1. c \in Calls /\ c.pc = "activate"
    BY DEF Calls, Places
  <2>2. SupStep(c) /\ restartLock' = Sup /\ current' = 0
    BY <1>1, <1>3, <1>4, <2>1 DEF Terminated, SupStep
  <2>3. \A g \in Gens : proc[g] = "alive" => g = CoreAt(c, current')
    BY <1>2
  <2> HIDE DEF c
  <2>. QED BY <1>1, <1>2, <1>3, <2>1, <2>2, <2>3, SupStepKeepsInv DEF SupAtWork, ThreadsTyped
<1>5. CASE current # GenOf(Sup)
  <2> DEFINE c == [pc |-> "loop", gen |-> 0, result |-> "none"]
  <2>1. SupStep(c) /\ restartLock' = Nobody /\ current' = 0
    BY <1>1, <1>2, <1>5 DEF Terminated, SupStep
  <2>. QED BY <1>1, <1>2, <2>1, SupStepKeepsInv DEF SupAtWork, ThreadsTyped
<1>. QED BY <1>4, <1>5

\* A core that has become ready is installed, unless the application ends.
LEMMA HandshakeKeepsInv ==
  ASSUME Inv, Handshake \/ Install
  PROVE  Inv'
<1> USE InHand DEF GenOf, At, Goto, SupervisorGoes, SupervisorOnly, Leave
<1>1. /\ UNCHANGED <<generation, stopped, faults, pending, proc, reader>>
      /\ call[Sup].pc \in {"handshake", "install"}
  BY DEF Handshake, Install
<1>2. /\ \A g \in Gens : proc[g] = "alive" => g = GenOf(Sup)
      /\ GenOf(Sup) \in 1 .. generation /\ current = 0
  BY <1>1 DEF Inv, CoreInHand, TheCore, CoreAt
<1>3. restartLock = Sup /\ call[Exit].pc # "done"
  BY <1>1 DEF Inv, LocksHeld, ExitInHand, SupAtWork, ExitAtWork
<1>4. reader[GenOf(Sup)] # "none" /\ (reader[GenOf(Sup)] = "ended" => GenOf(Sup) \in faults)
  BY <1>1 DEF Inv, ReadersHeard
<1>5. ASSUME NEW p \in {"install", "mark"}, Goto(Sup, p), UNCHANGED <<current, restartLock>>
      PROVE  Inv'
  <2> DEFINE c == [call[Sup] EXCEPT !.pc = p]
  <2>1. c \in Calls /\ c.pc = p /\ c.gen = GenOf(Sup)
    BY DEF Calls, Places
  <2>2. SupStep(c) /\ restartLock' = Sup /\ current' = 0
    BY <1>1, <1>2, <1>3, <1>5, <2>1 DEF SupStep
  <2>3. CoreAt(c, current') = GenOf(Sup)
    BY <2>1 DEF CoreAt
  <2>. QED BY <1>1, <1>2, <1>3, <1>4, <2>1, <2>2, <2>3, SupStepKeepsInv DEF SupAtWork, ThreadsTyped
<1>6. ASSUME current' = GenOf(Sup), Leave
      PROVE  Inv'
  <2> DEFINE c == [pc |-> "loop", gen |-> 0, result |-> "none"]
  <2>1. SupStep(c) /\ restartLock' = Nobody
    BY <1>1, <1>6 DEF SupStep
  <2>2. CoreAt(c, current') = current'
    BY DEF CoreAt
  <2>. QED BY <1>1, <1>2, <1>4, <1>6, <2>1, <2>2, SupStepKeepsInv DEF SupAtWork, ThreadsTyped
<1>. QED BY <1>5, <1>6 DEF Handshake, Install

\* A new generation has a core, a reader and no fault yet; when its process does
\* not start, nothing is in service.
LEMMA ActivateKeepsInv ==
  ASSUME Inv, Activate
  PROVE  Inv'
<1> USE ThreadsDiffer, InHand DEF GenOf, At, SupervisorGoes, Leave
<1>1. UNCHANGED <<current, stopped, faults, pending>> /\ call[Sup].pc = "activate"
  BY DEF Activate
<1>2. /\ \A g \in Gens : proc[g] # "alive"
      /\ current = 0 /\ restartLock = Sup /\ call[Exit].pc \notin ExitAtWork \cup {"done"}
  BY <1>1, GenerationsKnown
     DEF Inv, CoreInHand, TheCore, CoreAt, LocksHeld, ExitInHand, SupAtWork
<1>3. CASE /\ generation < MaxGen /\ generation' = generation + 1
           /\ proc' = [proc EXCEPT ![generation'] = "alive"]
           /\ reader' = [reader EXCEPT ![generation'] = "reading"]
           /\ SupervisorGoes("handshake", generation')
           /\ UNCHANGED restartLock
  <2> DEFINE c == [pc |-> "handshake", gen |-> generation', result |-> "none"]
  <2>1. generation' \in Gens /\ generation' \in 0 .. MaxGen /\ generation' \in 1 .. generation'
    BY <1>3, GenerationsKnown, HostAssumption DEF Gens, ThreadsTyped
  <2>2. c \in Calls /\ c.pc = "handshake" /\ c.gen = generation'
    BY <2>1 DEF Calls, Places, Results
  <2>3. call' = [call EXCEPT ![Sup] = c]
    BY <1>3
  <2> HIDE DEF c
  <2>4. call' \in [Threads -> Calls] /\ call'[Sup] = c /\ call'[Exit] = call[Exit]
    BY <2>2, <2>3, OneMoves
  <2>5. /\ reader' \in [Gens -> {"none", "reading", "ended"}] /\ reader'[generation'] = "reading"
        /\ proc' \in [Gens -> {"none", "alive", "dead"}]
        /\ \A g \in Gens : proc'[g] = "alive" => g = generation'
    BY <1>2, <1>3, <2>1 DEF ThreadsTyped
  <2>6. ThreadsTyped'
    BY <1>1, <1>2, <2>1, <2>4, <2>5 DEF ThreadsTyped
  <2>7. LocksHeld'
    BY <1>1, <1>2, <1>3, <2>2, <2>4 DEF Inv, LocksHeld, SupAtWork
  <2>8. CoreInHand'
    BY <1>1, <1>2, <2>1, <2>2, <2>4, <2>5 DEF CoreInHand, TheCore, CoreAt
  <2>9. ExitInHand'
    BY <1>1, <1>2, <2>4 DEF ExitInHand, ExitAtWork
  <2>10. ReadersHeard'
    BY <1>1, <1>2, <2>2, <2>4, <2>5 DEF ReadersHeard
  <2>. QED BY <2>6, <2>7, <2>8, <2>9, <2>10 DEF Inv
<1>4. CASE /\ generation' = IF generation < MaxGen THEN generation + 1 ELSE generation
           /\ Leave /\ UNCHANGED <<proc, reader>>
  <2> DEFINE c == [pc |-> "loop", gen |-> 0, result |-> "none"]
  <2>1. call' \in [Threads -> Calls] /\ call'[Sup] = c /\ call'[Exit] = call[Exit]
    BY <1>4, OneMoves
  <2>2. generation' \in 0 .. MaxGen /\ current' \in 0 .. generation'
    BY <1>1, <1>2, <1>4, GenerationsKnown, HostAssumption DEF ThreadsTyped
  <2>3. ThreadsTyped'
    BY <1>1, <1>4, <2>1, <2>2 DEF ThreadsTyped
  <2>4. LocksHeld'
    BY <1>1, <1>2, <1>4, <2>1 DEF Inv, LocksHeld, SupAtWork
  <2>5. CoreInHand'
    BY <1>1, <1>2, <1>4, <2>1 DEF CoreInHand, TheCore, CoreAt
  <2>6. ExitInHand'
    BY <1>1, <1>2, <1>4, <2>1 DEF ExitInHand, ExitAtWork
  <2>7. ReadersHeard'
    BY <1>1, <1>2, <2>1 DEF ReadersHeard
  <2>. QED BY <2>3, <2>4, <2>5, <2>6, <2>7 DEF Inv
<1>. QED BY <1>3, <1>4 DEF Activate

\* The supervisor terminates the core in hand; no other is alive.
LEMMA KillKeepsInv ==
  ASSUME Inv, Kill(Sup)
  PROVE  Inv'
<1> USE ThreadsDiffer, InHand DEF GenOf, At, Goto
<1>1. UNCHANGED hostVars /\ UNCHANGED <<faults, reader, pending>> /\ call[Sup].pc = "kill"
  BY DEF Kill
<1>2. /\ \A g \in Gens : proc[g] = "alive" => g = call[Sup].gen
      /\ call[Sup].gen \in Gens /\ call[Sup].gen \in 1 .. generation /\ current \in {0, call[Sup].gen}
      /\ restartLock = Sup /\ call[Exit].pc \notin ExitAtWork \cup {"done"}
  BY <1>1, GenerationsKnown
     DEF Inv, CoreInHand, TheCore, CoreAt, LocksHeld, ExitInHand, SupAtWork
<1> DEFINE c == [call[Sup] EXCEPT !.pc = "killed"]
<1>3. c \in Calls /\ c.pc = "killed" /\ c.gen = call[Sup].gen
  BY DEF Calls, Places
<1>4. call' = [call EXCEPT ![Sup] = c]
  BY DEF Kill
<1> HIDE DEF c
<1>5. call' \in [Threads -> Calls] /\ call'[Sup] = c /\ call'[Exit] = call[Exit]
  BY <1>3, <1>4, OneMoves
<1>6. /\ proc' \in [Gens -> {"none", "alive", "dead"}]
      /\ \A g \in Gens : proc'[g] # "alive"
  BY <1>2 DEF Kill, Reaped, ThreadsTyped
<1>7. ThreadsTyped'
  BY <1>1, <1>5, <1>6 DEF ThreadsTyped, hostVars
<1>8. LocksHeld'
  BY <1>1, <1>2, <1>3, <1>5 DEF Inv, LocksHeld, SupAtWork, hostVars
<1>9. CoreInHand'
  BY <1>1, <1>2, <1>3, <1>5, <1>6 DEF CoreInHand, hostVars
<1>10. ExitInHand'
  BY <1>1, <1>2, <1>5, <1>6 DEF ExitInHand, ExitAtWork, hostVars
<1>11. ReadersHeard'
  BY <1>1, <1>3, <1>5 DEF Inv, ReadersHeard, hostVars
<1>. QED BY <1>7, <1>8, <1>9, <1>10, <1>11 DEF Inv

-----------------------------------------------------------------------------
(* The end of the application                                                 *)

\* It takes the lock when the supervisor does not have it, and is done when
\* there is no core, or the one it has in hand has ended.
LEMMA ExitKeepsInv ==
  ASSUME Inv, Quit \/ Exiting
  PROVE  Inv'
<1> USE ThreadsDiffer, InHand DEF GenOf, At, Goto
<1>1. UNCHANGED <<generation, current, faults, proc, reader, pending>>
  BY DEF Quit, Exiting, LockForExit, MarkStopping, PollExit, ExitOnly
<1>2. call[Exit] \in Calls /\ \A p \in Places : [call[Exit] EXCEPT !.pc = p] \in Calls
  BY DEF ThreadsTyped, Calls
\* The place it goes to, what it holds there, and that nothing else moves.
<1> DEFINE Goes(c) ==
      /\ call' = [call EXCEPT ![Exit] = c] /\ c \in Calls
      /\ c.pc \in ExitAtWork \cup {"lock", "done"} /\ c.pc # "killed"
      /\ c.pc \in ExitAtWork => restartLock' = Exit /\ current # 0 /\ c.gen = current
      /\ c.pc = "done" =>
           call[Sup].pc \notin SupAtWork /\ \A g \in Gens : proc[g] # "alive"
      /\ call[Sup].pc \in SupAtWork => restartLock' = restartLock
      /\ stopped' /\ stopped' \in BOOLEAN
<1>3. ASSUME NEW c, Goes(c)
      PROVE  Inv'
  <2>1. call' \in [Threads -> Calls] /\ call'[Exit] = c /\ call'[Sup] = call[Sup]
    BY <1>3, OneMoves
  <2>2. ThreadsTyped'
    BY <1>1, <1>3, <2>1 DEF ThreadsTyped
  <2>3. LocksHeld'
    BY <1>1, <1>3, <2>1 DEF Inv, LocksHeld, SupAtWork, ExitAtWork
  <2>4. CoreInHand'
    BY <1>1, <2>1 DEF Inv, CoreInHand, TheCore
  <2>5. ExitInHand'
    BY <1>1, <1>3, <2>1 DEF ExitInHand
  <2>6. ReadersHeard'
    BY <1>1, <1>3, <2>1 DEF Inv, ReadersHeard
  <2>. QED BY <2>2, <2>3, <2>4, <2>5, <2>6 DEF Inv
\* While it holds the lock the supervisor is at rest, and the core is that in service.
<1>4. restartLock # Sup =>
        /\ call[Sup].pc \notin SupAtWork
        /\ \A g \in Gens : proc[g] = "alive" => g = current
  BY DEF Inv, LocksHeld, CoreInHand, TheCore, CoreAt, SupAtWork
<1>5. call[Exit].pc \in ExitAtWork =>
        restartLock = Exit /\ stopped /\ current # 0 /\ call[Exit].gen = current
  BY DEF Inv, LocksHeld, ExitInHand, ExitAtWork
<1>6. CASE Quit
  <2> DEFINE c == [call[Exit] EXCEPT !.pc = "lock"]
  <2>1. c \in Calls /\ c.pc = "lock"
    BY <1>2 DEF Calls, Places
  <2>2. call' = [call EXCEPT ![Exit] = c] /\ stopped' = TRUE /\ restartLock' = restartLock
    BY <1>6 DEF Quit
  <2> HIDE DEF c
  <2>. QED BY <1>3, <2>1, <2>2 DEF ExitAtWork
<1>7. CASE LockForExit
  <2>1. restartLock = Nobody /\ call[Exit].pc = "lock" /\ stopped /\ stopped' = stopped
    BY <1>7 DEF LockForExit, Inv, LocksHeld
  <2>2. CASE current = 0
    <3> DEFINE c == [call[Exit] EXCEPT !.pc = "done"]
    <3>1. c \in Calls /\ c.pc = "done"
      BY <1>2 DEF Calls, Places
    <3>2. call' = [call EXCEPT ![Exit] = c] /\ restartLock' = restartLock
      BY <1>7, <2>2 DEF LockForExit
    <3> HIDE DEF c
    <3>. QED BY <1>3, <1>4, <2>1, <2>2, <3>1, <3>2, GenerationsKnown DEF ExitAtWork, ThreadsTyped
  <2>3. CASE current # 0
    <3> DEFINE p == IF Unavailable(current) THEN "stopping" ELSE "check"
               c == [pc |-> p, gen |-> current, result |-> "none"]
    <3>1. c \in Calls /\ c.pc = p /\ c.gen = current /\ p \in {"stopping", "check"}
      BY GenerationsKnown DEF Calls, Places, Results
    <3>2. call' = [call EXCEPT ![Exit] = c] /\ restartLock' = Exit
      BY <1>7, <2>3 DEF LockForExit
    <3> HIDE DEF c, p
    <3>. QED BY <1>3, <1>4, <2>1, <2>3, <3>1, <3>2, Zenon DEF ExitAtWork, ThreadsTyped
  <2>. QED BY <2>2, <2>3
<1>8. ASSUME NEW c \in Calls, c.pc \in {"poll", "mark"}, c.gen = call[Exit].gen,
             call' = [call EXCEPT ![Exit] = c], UNCHANGED <<restartLock, stopped>>,
             call[Exit].pc \in ExitAtWork
      PROVE  Inv'
  BY <1>3, <1>5, <1>8 DEF ExitAtWork, ThreadsTyped
<1>9. CASE MarkStopping
  <2> DEFINE c == [call[Exit] EXCEPT !.pc = "poll"]
  <2>1. c \in Calls /\ c.pc = "poll" /\ c.gen = call[Exit].gen
    BY <1>2, CallsMove DEF Places
  <2>2. call' = [call EXCEPT ![Exit] = c] /\ UNCHANGED <<restartLock, stopped>>
    BY <1>9 DEF MarkStopping
  <2>3. call[Exit].pc \in ExitAtWork
    BY <1>9 DEF MarkStopping, ExitAtWork
  <2> HIDE DEF c
  <2>. QED BY <1>8, <2>1, <2>2, <2>3
<1>10. CASE /\ GivesUp /\ UNCHANGED <<restartLock, stopped>>
            /\ call' = [call EXCEPT ![Exit] = [pc |-> "mark", gen |-> GenOf(Exit), result |-> "last"]]
  <2> DEFINE c == [pc |-> "mark", gen |-> call[Exit].gen, result |-> "last"]
  <2>1. c \in Calls /\ c.pc = "mark" /\ c.gen = call[Exit].gen
    BY <1>2 DEF Calls, Places, Results
  <2>2. call' = [call EXCEPT ![Exit] = c]
    BY <1>10
  <2>3. call[Exit].pc \in ExitAtWork
    BY <1>10 DEF GivesUp, ExitAtWork
  <2> HIDE DEF c
  <2>. QED BY <1>8, <1>10, <2>1, <2>2, <2>3
<1>11. CASE /\ (At(Exit, "poll") /\ proc[GenOf(Exit)] = "dead") \/ At(Exit, "killed")
            /\ Goto(Exit, "done") /\ restartLock' = Nobody /\ UNCHANGED stopped
  <2> DEFINE c == [call[Exit] EXCEPT !.pc = "done"]
  <2>1. c \in Calls /\ c.pc = "done"
    BY <1>2, CallsMove DEF Places
  <2>2. call' = [call EXCEPT ![Exit] = c]
    BY <1>11
  <2>3. call[Exit].pc \in ExitAtWork /\ proc[GenOf(Exit)] # "alive"
    BY <1>11 DEF ExitAtWork, Inv, ExitInHand
  <2> HIDE DEF c
  <2>. QED BY <1>3, <1>4, <1>5, <1>11, <2>1, <2>2, <2>3 DEF ExitAtWork, ThreadsTyped
<1>12. PollExit => \/ /\ (At(Exit, "poll") /\ proc[GenOf(Exit)] = "dead") \/ At(Exit, "killed")
                      /\ Goto(Exit, "done") /\ restartLock' = Nobody /\ UNCHANGED stopped
                   \/ /\ GivesUp /\ UNCHANGED <<restartLock, stopped>>
                      /\ call' = [call EXCEPT ![Exit] = [pc |-> "mark", gen |-> GenOf(Exit), result |-> "last"]]
  BY DEF PollExit
<1>. QED BY <1>6, <1>7, <1>9, <1>10, <1>11, <1>12 DEF Exiting

-----------------------------------------------------------------------------
(* The theorems                                                               *)

\* At the start no core exists and nobody holds the lock.
LEMMA InitInv ==
  ASSUME Init
  PROVE  Inv
<1> USE ThreadsDiffer, HostAssumption DEF Init
<1>1. [Idle EXCEPT !.pc = "loop"] = [pc |-> "loop", gen |-> 0, result |-> "none"]
  BY DEF Idle
<1>2. Idle \in Calls /\ [pc |-> "loop", gen |-> 0, result |-> "none"] \in Calls
  BY DEF Idle, Calls, Places, Results
<1>3. call[Sup] = [pc |-> "loop", gen |-> 0, result |-> "none"] /\ call[Exit] = Idle
  BY <1>1
<1>4. call \in [Threads -> Calls]
  BY <1>1, <1>2
<1>5. ThreadsTyped
  <2>1. generation \in 0 .. MaxGen /\ current \in 0 .. generation
    OBVIOUS
  <2>2. faults \subseteq Gens /\ pending \in [Gens -> SUBSET Users]
    OBVIOUS
  <2>3. proc \in [Gens -> {"none", "alive", "dead"}] /\ reader \in [Gens -> {"none", "reading", "ended"}]
    OBVIOUS
  <2>4. stopped \in BOOLEAN
    BY Zenon
  <2>. QED BY <1>4, <2>1, <2>2, <2>3, <2>4, Zenon DEF ThreadsTyped
<1>6. LocksHeld
  BY <1>3 DEF LocksHeld, SupAtWork, ExitAtWork, Idle
<1>7. CoreInHand
  BY <1>3 DEF CoreInHand
<1>8. ExitInHand
  BY <1>3 DEF ExitInHand, ExitAtWork, Idle, At
<1>9. ReadersHeard
  BY <1>3 DEF ReadersHeard
<1>. QED BY <1>5, <1>6, <1>7, <1>8, <1>9 DEF Inv

\* Every step of every thread and of every core keeps the invariant.
LEMMA NextInv ==
  ASSUME Inv, [Next]_vars
  PROVE  Inv'
<1>1. ASSUME NEW c \in Callers, Ask(c)
      PROVE  Inv'
  <2>1. c \in Users
    BY DEF Users
  <2>. QED BY <1>1, <2>1, RequestsAreCalm, CalmKeepsInv
<1>2. ASSUME NEW u \in Users, Requesting(u)
      PROVE  Inv'
  BY <1>2, RequestsAreCalm, CalmKeepsInv
<1>3. ASSUME NEW u \in Users, Terminating(u)
      PROVE  Inv'
  <2>1. u \in Threads
    BY DEF Threads
  <2>. QED BY <1>3, <2>1, MarkingIsCalm, KillingIsCalm, CalmKeepsInv DEF Terminating
<1>4. ASSUME Supervising
      PROVE  Inv'
  <2>1. CASE Mark(Sup)
    BY <2>1, ThreadsDiffer, MarkingIsCalm, CalmKeepsInv
  <2>2. CASE ~Mark(Sup)
    BY <1>4, <2>2, SuperviseKeepsInv, LockedKeepsInv, TerminatedKeepsInv, ActivateKeepsInv,
       HandshakeKeepsInv, KillKeepsInv DEF Supervising, Terminating
  <2>. QED BY <2>1, <2>2
<1>5. ASSUME NEW g \in Gens, Serving(g) \/ Core(g)
      PROVE  Inv'
  BY <1>5, GenerationsAreCalm, CalmKeepsInv
<1>6. ASSUME UNCHANGED vars
      PROVE  Inv'
  BY <1>6 DEF vars, hostVars, Inv, ThreadsTyped, LocksHeld, CoreInHand, TheCore, ExitInHand,
              ReadersHeard, GenOf, At
<1>. QED BY <1>1, <1>2, <1>3, <1>4, <1>5, <1>6, ExitKeepsInv DEF Next

\* However many requests and faults there are, and whoever terminates a core,
\* the next one is not started before the process of the old one has been reaped.
THEOREM OneCoreAtATime == Spec => []SingleCore
<1>1. Inv => SingleCore
  BY DEF Inv, CoreInHand, SingleCore
<1>. QED BY <1>1, InitInv, NextInv, PTL DEF Spec

\* When the application has ended, no thread of the host has left a core behind:
\* the end waits for a start under way and forbids the next one.
THEOREM NoCoreIsLeft == Spec => []ExitLeavesNoCore
<1>1. Inv => ExitLeavesNoCore
  BY DEF Inv, ExitInHand, ExitLeavesNoCore
<1>. QED BY <1>1, InitInv, NextInv, PTL DEF Spec

\* The end of the core in service reaches the supervisor, even when it comes in the
\* moment between the handshake and the installation.
THEOREM EndsAreHeard == Spec => []FaultsAreHeard
<1>1. Inv => FaultsAreHeard
  <2>. SUFFICES ASSUME Inv, current # 0
                PROVE  reader[current] \in {"reading", "ended"}
    BY DEF Inv, ReadersHeard, FaultsAreHeard
  <2>. QED BY GenerationsKnown DEF Inv, ThreadsTyped, ReadersHeard
<1>. QED BY <1>1, InitInv, NextInv, PTL DEF Spec

-----------------------------------------------------------------------------
(* The table of requests, and the pipes                                       *)

Lifecycles == {"starting", "ready", "busy", "stalled", "stopping", "exited"}

\* The fields that Inv does not mention.
PipesTyped ==
  /\ restartLock \in {Nobody, Sup, Exit}
  /\ lifecycle \in [Gens -> Lifecycles]
  /\ writer \in [Gens -> BOOLEAN] /\ ready \in [Gens -> BOOLEAN]
  /\ work \in [Gens -> SUBSET Users] /\ inbox \in [Gens -> Seq(Users)]
  /\ channel \in [Gens -> Seq(Users \cup {Nobody})]
  /\ \A g \in Gens : Len(channel[g]) <= ChannelLimit

\* A request that was sent, or is about to be, and has no answer.
Open(c, g) == c.pc \in {"send", "wait"} /\ c.result = "none" /\ c.gen = g
TableKept == \A g \in Gens : pending[g] = {u \in Users : Open(call[u], g)}

\* A request that is not yet in the table has no answer, and is sent to a core.
Fresh(u, c) ==
  /\ c.pc \in {"check", "insert"} => c.result = "none"
  /\ u \in Callers /\ c.pc # "idle" => c.gen \in Gens
BegunFresh == \A u \in Users : Fresh(u, call[u])

TableInv == Inv /\ TableKept /\ BegunFresh

Closed(c) == c.pc \notin {"send", "wait"} \/ c.result # "none"

\* A thread that has no open request, before and after its step, leaves the table as it is.
LEMMA ClosedKeepTable ==
  ASSUME TableInv, NEW t \in Threads, NEW c \in Calls, call' = [call EXCEPT ![t] = c], pending' = pending,
         t \in Users => Closed(call[t]) /\ Closed(c) /\ Fresh(t, c)
  PROVE  TableKept' /\ BegunFresh'
<1>1. call'[t] = c /\ \A u \in Threads : u # t => call'[u] = call[u]
  BY OneMoves DEF TableInv, Inv
<1>2. \A u \in Users, g \in Gens : Open(call'[u], g) <=> Open(call[u], g)
  BY <1>1, ThreadsDiffer DEF Open, Closed
<1>3. TableKept'
  BY <1>2 DEF TableKept, TableInv
<1>4. BegunFresh'
  BY <1>1, ThreadsDiffer DEF BegunFresh, Fresh, TableInv
<1>. QED BY <1>3, <1>4

LEMMA SameTable ==
  ASSUME TableInv, UNCHANGED <<call, pending>>
  PROVE  TableKept' /\ BegunFresh'
BY DEF TableInv, TableKept, BegunFresh, Fresh, Open

\* Whoever is in the table of a core that is lost gets its answer.
LEMMA FailingKeepsTable ==
  ASSUME TableInv, NEW g \in Gens, NEW t \in Threads, pending' = [pending EXCEPT ![g] = {}],
         \/ call' = Failing(g)
         \/ call[t].pc = "mark" /\ call' = [Failing(g) EXCEPT ![t].pc = "kill"]
  PROVE  TableKept' /\ BegunFresh'
<1>1. /\ Failing(g) \in [Threads -> Calls]
      /\ \A u \in Threads : Failing(g)[u].pc = call[u].pc /\ Failing(g)[u].gen = call[u].gen
  BY FailingTyped DEF TableInv, Inv
<1>2. \A u \in Threads : Failing(g)[u].result = IF u \in pending[g] THEN "failed" ELSE call[u].result
  BY DEF Failing, TableInv, Inv, ThreadsTyped, Calls
<1>3. \A u \in Threads : /\ call'[u].gen = call[u].gen /\ call'[u].result = Failing(g)[u].result
                         /\ call'[u].pc = call[u].pc \/ (call[u].pc = "mark" /\ call'[u].pc = "kill")
  BY <1>1 DEF Calls
<1>4. ASSUME NEW u \in Users, NEW h \in Gens
      PROVE  u \in pending'[h] <=> Open(call'[u], h)
  <2>1. u \in Threads /\ (u \in pending[h] <=> Open(call[u], h))
    BY <1>4, ThreadsDiffer DEF TableInv, TableKept
  <2>2. CASE h = g
    <3>1. pending'[h] = {}
      BY <2>2 DEF TableInv, Inv, ThreadsTyped
    <3>2. ~Open(call'[u], h)
      BY <1>2, <1>3, <2>1, <2>2 DEF Open
    <3>. QED BY <3>1, <3>2
  <2>3. CASE h # g
    <3>1. pending'[h] = pending[h]
      BY <2>3 DEF TableInv, Inv, ThreadsTyped
    <3>2. u \in pending[g] => Closed(call[u]) \/ call[u].gen # h
      BY <2>3 DEF TableInv, TableKept, Open
    <3>3. Open(call'[u], h) <=> Open(call[u], h)
      BY <1>2, <1>3, <2>1, <3>2 DEF Open, Closed
    <3>. QED BY <2>1, <3>1, <3>3
  <2>. QED BY <2>2, <2>3
<1>5. TableKept'
  BY <1>4 DEF TableKept, TableInv, Inv, ThreadsTyped
<1>6. BegunFresh'
  <2>1. \A u \in Users : call[u].pc \in {"check", "insert"} => \A h \in Gens : u \notin pending[h]
    BY DEF TableInv, TableKept, Open
  <2>. QED BY <1>2, <1>3, <2>1, ThreadsDiffer DEF TableInv, BegunFresh, Fresh
<1>. QED BY <1>5, <1>6

\* A request begins, enters the table, and leaves it with its answer or time limit.
LEMMA RequestsKeepTable ==
  ASSUME TableInv, NEW u \in Users, (u \in Callers /\ Ask(u)) \/ Requesting(u)
  PROVE  TableKept' /\ BegunFresh'
<1> USE ThreadsDiffer DEF At, GenOf, Goto
<1> DEFINE g == call[u].gen
<1>1. u \in Threads /\ call[u] \in Calls /\ ThreadsTyped
  BY DEF TableInv, Inv, ThreadsTyped
<1>2. Idle \in Calls /\ Over(u) \in Calls /\ Closed(Over(u)) /\ Fresh(u, Over(u))
  BY <1>1, HostAssumption DEF Over, Idle, Calls, Places, Results, Closed, Fresh
<1>3. CASE u \in Callers /\ Ask(u)
  <2> DEFINE c == [pc |-> "check", gen |-> current, result |-> "none"]
  <2>1. CASE call' = call
    BY <1>3, <2>1, SameTable DEF Ask
  <2>2. CASE call' = [call EXCEPT ![u] = c]
    <3>1. current \in Gens
      BY <1>1, <1>3, GenerationsKnown DEF Ask
    <3>2. c \in Calls /\ Closed(c) /\ Fresh(u, c)
      BY <3>1 DEF Calls, Places, Results, Closed, Fresh, Gens
    <3>3. pending' = pending /\ Closed(call[u])
      BY <1>3 DEF Ask, Closed
    <3>. QED BY <1>1, <2>2, <3>2, <3>3, ClosedKeepTable
  <2>. QED BY <1>3, <2>1, <2>2 DEF Ask
<1>4. CASE Check(u)
  <2>1. CASE call' = [call EXCEPT ![u] = Over(u)]
    BY <1>1, <1>2, <1>4, <2>1, ClosedKeepTable DEF Check, Closed
  <2>2. CASE call' = [call EXCEPT ![u].pc = "insert"]
    <3>1. call' = [call EXCEPT ![u] = [call[u] EXCEPT !.pc = "insert"]]
      BY <1>1, <2>2
    <3>2. [call[u] EXCEPT !.pc = "insert"] \in Calls
      BY <1>1 DEF Calls, Places
    <3>3. Closed([call[u] EXCEPT !.pc = "insert"]) /\ Fresh(u, [call[u] EXCEPT !.pc = "insert"])
      BY <1>1, <1>4 DEF Check, Closed, Fresh, Calls, TableInv, BegunFresh
    <3>. QED BY <1>1, <1>4, <3>1, <3>2, <3>3, ClosedKeepTable DEF Check, Closed
  <2>. QED BY <1>4, <2>1, <2>2 DEF Check
<1>5. CASE Take(u)
  BY <1>1, <1>2, <1>5, ClosedKeepTable DEF Take, Closed
<1>6. CASE Insert(u) \/ Send(u) \/ TimeOut(u)
  <2>1. \A t \in Threads : t # u => call'[t] = call[t]
    BY <1>1, <1>6 DEF Insert, Send, TimeOut, ThreadsTyped
  <2>2. call'[u].gen = g /\ call'[u].pc \in {"send", "wait", "mark"}
    BY <1>1, <1>6 DEF Insert, Send, TimeOut, ThreadsTyped, Calls
  <2>3. u \in Callers => g \in Gens
    BY <1>6 DEF Insert, Send, TimeOut, Expired, TableInv, BegunFresh, Fresh
  <2>4. BegunFresh'
    BY <2>1, <2>2, <2>3 DEF TableInv, BegunFresh, Fresh
  <2>5. ASSUME NEW h \in Gens
        PROVE  /\ pending'[h] \subseteq Users
               /\ \A t \in Users : t # u => (t \in pending'[h] <=> t \in pending[h])
               /\ u \in pending'[h] <=> Open(call'[u], h)
    <3>1. u \in pending[h] <=> Open(call[u], h)
      BY DEF TableInv, TableKept
    <3>2. pending'[h] \subseteq Users
             /\ \A t \in Users : t # u => (t \in pending'[h] <=> t \in pending[h])
      BY <1>1, <1>6 DEF Insert, Send, TimeOut, ThreadsTyped
    <3>3. CASE Insert(u)
      <4>1. call'[u].pc = "send" /\ call'[u].result = "none"
        BY <1>1, <3>3 DEF Insert, ThreadsTyped, Calls, TableInv, BegunFresh, Fresh
      <4>2. ~Open(call[u], h) /\ pending' = [pending EXCEPT ![g] = @ \cup {u}]
        BY <3>3 DEF Insert, Open
      <4>. QED BY <1>1, <2>2, <3>1, <3>2, <4>1, <4>2 DEF Open, ThreadsTyped
    <3>4. CASE Send(u) /\ HasRoom(g)
      <4>1. call'[u].pc = "wait" /\ call'[u].result = call[u].result /\ call[u].pc = "send" /\ pending' = pending
        BY <1>1, <3>4 DEF Send, ThreadsTyped, Calls
      <4>. QED BY <2>2, <3>1, <3>2, <4>1 DEF Open
    <3>5. CASE (Send(u) /\ ~HasRoom(g)) \/ TimeOut(u)
      <4>1. call'[u].pc = "mark" /\ pending' = [pending EXCEPT ![g] = @ \ {u}]
        BY <1>1, <3>5 DEF Send, TimeOut, ThreadsTyped, Calls
      <4>. QED BY <1>1, <2>2, <3>1, <3>2, <4>1 DEF Open, ThreadsTyped
    <3>. QED BY <1>6, <3>2, <3>3, <3>4, <3>5
  <2>6. \A h \in Gens, t \in Users : t \in pending'[h] <=> Open(call'[t], h)
    BY <2>1, <2>5 DEF TableInv, TableKept
  <2>. QED BY <2>4, <2>5, <2>6 DEF TableKept
<1>. QED BY <1>3, <1>4, <1>5, <1>6 DEF Requesting

\* An answer goes to the request that is in the table, and takes it out.
LEMMA ReadingKeepsTable ==
  ASSUME TableInv, NEW g \in Gens, Read(g)
  PROVE  TableKept' /\ BegunFresh'
<1> USE ThreadsDiffer
<1> DEFINE u == Head(pipe[g]).user
<1>1. ThreadsTyped
  BY DEF TableInv, Inv
<1>2. \/ UNCHANGED <<call, pending>>
      \/ /\ pending' = [pending EXCEPT ![g] = @ \ {u}]
         /\ \/ u \notin pending[g] /\ call' = call
            \/ u \in pending[g] /\ call' = [call EXCEPT ![u].result = "ok"]
            \/ u \in pending[g] /\ call' = [call EXCEPT ![u].result = "failed"]
  <2>1. Handles(g, Head(pipe[g]))
    BY DEF Read
  <2>. QED BY <2>1, Zenon DEF Handles
<1> HIDE DEF u
<1>3. CASE u \notin pending[g] /\ call' = call /\ pending' = [pending EXCEPT ![g] = @ \ {u}]
  <2>1. pending' = pending
    BY <1>1, <1>3 DEF ThreadsTyped
  <2>. QED BY <1>3, <2>1, SameTable
<1>4. ASSUME u \in pending[g], pending' = [pending EXCEPT ![g] = @ \ {u}],
             NEW r \in {"ok", "failed"}, call' = [call EXCEPT ![u].result = r]
      PROVE  TableKept' /\ BegunFresh'
  <2>1. u \in Users /\ u \in Threads /\ Open(call[u], g)
    BY <1>1, <1>4 DEF TableInv, TableKept
  <2>2. /\ call'[u].pc = call[u].pc /\ call'[u].gen = call[u].gen /\ call'[u].result # "none"
        /\ \A t \in Threads : t # u => call'[t] = call[t]
    BY <1>1, <1>4, <2>1 DEF ThreadsTyped, Calls
  <2>3. ASSUME NEW h \in Gens, NEW t \in Users
        PROVE  t \in pending'[h] <=> Open(call'[t], h)
    <3>1. t \in pending[h] <=> Open(call[t], h)
      BY DEF TableInv, TableKept
    <3>2. t \in pending'[h] <=> t \in pending[h] /\ ~(h = g /\ t = u)
      BY <1>1, <1>4 DEF ThreadsTyped
    <3>. QED BY <2>1, <2>2, <3>1, <3>2 DEF Open
  <2>4. \A h \in Gens : pending'[h] \subseteq Users
    BY <1>1, <1>4 DEF ThreadsTyped
  <2>5. BegunFresh'
    BY <2>1, <2>2 DEF TableInv, BegunFresh, Fresh, Open
  <2>. QED BY <2>3, <2>4, <2>5 DEF TableKept
<1>. QED BY <1>2, <1>3, <1>4, SameTable

\* The end of a core and its termination answer everyone in its table.
LEMMA LosingKeepsTable ==
  ASSUME TableInv, \/ \E t \in Threads : Mark(t)
                   \/ \E g \in Gens : ReaderEnds(g)
  PROVE  TableKept' /\ BegunFresh'
<1> USE ThreadsDiffer
<1>1. ASSUME NEW t \in Threads, Mark(t)
      PROVE  TableKept' /\ BegunFresh'
  <2>1. call[t].gen \in Gens
    <3>1. t = Sup => call[t].pc = "mark" /\ call[t].gen \in 1 .. generation
      BY <1>1 DEF Mark, At, GenOf, TableInv, Inv, CoreInHand
    <3>2. t = Exit => call[t].gen = current /\ current # 0
      BY <1>1 DEF Mark, At, GenOf, TableInv, Inv, ExitInHand, ExitAtWork
    <3>3. t \in Callers => call[t].gen \in Gens
      BY <1>1 DEF Mark, At, TableInv, BegunFresh, Fresh, Users
    <3>4. /\ \A g \in 1 .. generation : g \in Gens
          /\ current # 0 => current \in Gens
      BY GenerationsKnown DEF TableInv, Inv
    <3>5. t \in Callers \/ t = Sup \/ t = Exit
      BY DEF Threads, Users
    <3>. QED BY <3>1, <3>2, <3>3, <3>4, <3>5
  <2>. QED BY <1>1, <2>1, FailingKeepsTable DEF Mark, At, GenOf
<1>2. ASSUME NEW g \in Gens, ReaderEnds(g)
      PROVE  TableKept' /\ BegunFresh'
  BY <1>2, FailingKeepsTable DEF ReaderEnds
<1>. QED BY <1>1, <1>2

\* The supervisor and the end of the application have requests of their own only
\* between "check" and the answer.
LEMMA OwnersKeepTable ==
  ASSUME TableInv, \/ Supervise \/ Locked \/ Terminated \/ Activate \/ Handshake \/ Install
                   \/ Quit \/ Exiting \/ \E t \in Threads : Kill(t)
  PROVE  TableKept' /\ BegunFresh'
<1> USE ThreadsDiffer DEF At, GenOf, Goto
<1>1. ThreadsTyped /\ call[Sup] \in Calls /\ call[Exit] \in Calls
  BY DEF TableInv, Inv, ThreadsTyped
<1>2. CASE Supervise \/ Locked \/ Terminated \/ Activate \/ Handshake \/ Install
  <2>1. pending' = pending
    BY <1>2 DEF Supervise, Locked, Terminated, Activate, Handshake, Install, SupervisorOnly
  <2>2. \A t \in Users : call'[t] = call[t]
    <3>1. \A pc, g : SupervisorGoes(pc, g) => \A t \in Users : call'[t] = call[t]
      BY <1>1 DEF SupervisorGoes, ThreadsTyped
    <3>2. \A pc : Goto(Sup, pc) => \A t \in Users : call'[t] = call[t]
      BY <1>1 DEF ThreadsTyped
    <3>. QED BY <1>2, <3>1, <3>2, Zenon DEF Supervise, Locked, Terminated, Activate, Handshake, Install, Leave
  <2>. QED BY <2>1, <2>2 DEF TableInv, TableKept, BegunFresh, Fresh, Open
<1>3. CASE Quit \/ Exiting
  <2>1. pending' = pending
    BY <1>3 DEF Quit, Exiting, LockForExit, MarkStopping, PollExit, ExitOnly
  <2>2. PICK c \in Calls : call' = [call EXCEPT ![Exit] = c] /\ Closed(c) /\ Fresh(Exit, c) /\ Closed(call[Exit])
    <3>1. CASE \E pc \in Places \ {"check", "insert", "send", "wait"} : call' = [call EXCEPT ![Exit].pc = pc]
      <4>1. PICK pc \in Places \ {"check", "insert", "send", "wait"} : call' = [call EXCEPT ![Exit].pc = pc]
        BY <3>1
      <4>2. call' = [call EXCEPT ![Exit] = [call[Exit] EXCEPT !.pc = pc]]
        BY <1>1, <4>1
      <4>3. [call[Exit] EXCEPT !.pc = pc] \in Calls /\ Closed([call[Exit] EXCEPT !.pc = pc])
            /\ Fresh(Exit, [call[Exit] EXCEPT !.pc = pc])
        BY <1>1 DEF Calls, Closed, Fresh
      <4>4. Closed(call[Exit])
        BY <1>3 DEF Quit, Exiting, LockForExit, MarkStopping, PollExit, GivesUp, Closed
      <4>. QED BY <4>2, <4>3, <4>4
    <3>2. CASE \E pc \in {"check", "stopping"} :
                 call' = [call EXCEPT ![Exit] = [pc |-> pc, gen |-> current, result |-> "none"]]
      <4>1. \A pc \in {"check", "stopping"} :
              /\ [pc |-> pc, gen |-> current, result |-> "none"] \in Calls
              /\ Closed([pc |-> pc, gen |-> current, result |-> "none"])
              /\ Fresh(Exit, [pc |-> pc, gen |-> current, result |-> "none"])
        BY <1>1, GenerationsKnown DEF Calls, Places, Results, Closed, Fresh
      <4>2. Closed(call[Exit])
        BY <1>3 DEF Quit, Exiting, LockForExit, MarkStopping, PollExit, GivesUp, Closed
      <4>. QED BY <3>2, <4>1, <4>2
    <3>3. CASE call' = [call EXCEPT ![Exit] = [pc |-> "mark", gen |-> GenOf(Exit), result |-> "last"]]
      <4>1. [pc |-> "mark", gen |-> GenOf(Exit), result |-> "last"] \in Calls
        BY <1>1 DEF Calls, Places, Results
      <4>2. Closed([pc |-> "mark", gen |-> GenOf(Exit), result |-> "last"])
            /\ Fresh(Exit, [pc |-> "mark", gen |-> GenOf(Exit), result |-> "last"])
        BY DEF Closed, Fresh
      <4>3. Closed(call[Exit])
        BY <1>3 DEF Quit, Exiting, LockForExit, MarkStopping, PollExit, GivesUp, Closed
      <4>. QED BY <3>3, <4>1, <4>2, <4>3
    <3>4. {"lock", "done", "poll"} \subseteq Places \ {"check", "insert", "send", "wait"}
      BY DEF Places
    <3>. QED BY <1>3, <3>1, <3>2, <3>3, <3>4 DEF Quit, Exiting, LockForExit, MarkStopping, PollExit
  <2>. QED BY <2>1, <2>2, ClosedKeepTable
<1>4. ASSUME NEW t \in Threads, Kill(t)
      PROVE  TableKept' /\ BegunFresh'
  <2>1. call' = [call EXCEPT ![t] = [call[t] EXCEPT !.pc = "killed"]] /\ call[t] \in Calls
    BY <1>1, <1>4 DEF Kill, ThreadsTyped
  <2>2. [call[t] EXCEPT !.pc = "killed"] \in Calls /\ Closed([call[t] EXCEPT !.pc = "killed"])
    BY <2>1 DEF Calls, Places, Closed
  <2>3. t \in Users => Fresh(t, [call[t] EXCEPT !.pc = "killed"])
    BY <1>4, <2>1 DEF Kill, Fresh, TableInv, BegunFresh, Calls
  <2>. QED BY <1>4, <2>1, <2>2, <2>3, ClosedKeepTable DEF Kill, Closed
<1>. QED BY <1>2, <1>3, <1>4

LEMMA NextTable ==
  ASSUME TableInv, [Next]_vars
  PROVE  TableInv'
<1>1. Inv'
  BY NextInv DEF TableInv
<1>2. ASSUME NEW c \in Callers, Ask(c)
      PROVE  TableKept' /\ BegunFresh'
  BY <1>2, RequestsKeepTable DEF Users
<1>3. ASSUME NEW u \in Users, Requesting(u) \/ Terminating(u)
      PROVE  TableKept' /\ BegunFresh'
  BY <1>3, ThreadsDiffer, RequestsKeepTable, LosingKeepsTable, OwnersKeepTable DEF Terminating
<1>4. ASSUME Supervising
      PROVE  TableKept' /\ BegunFresh'
  BY <1>4, ThreadsDiffer, LosingKeepsTable, OwnersKeepTable DEF Supervising, Terminating
<1>5. ASSUME NEW g \in Gens, Serving(g) \/ Core(g)
      PROVE  TableKept' /\ BegunFresh'
  <2>1. Write(g) \/ Core(g) => UNCHANGED <<call, pending>>
    BY DEF Write, Core
  <2>. QED BY <1>5, <2>1, SameTable, ReadingKeepsTable, LosingKeepsTable DEF Serving
<1>6. ASSUME UNCHANGED vars
      PROVE  TableKept' /\ BegunFresh'
  BY <1>6, SameTable DEF vars
<1>7. TableKept' /\ BegunFresh'
  BY <1>2, <1>3, <1>4, <1>5, <1>6, OwnersKeepTable DEF Next
<1>. QED BY <1>1, <1>7 DEF TableInv

LEMMA InitTable ==
  ASSUME Init
  PROVE  TableInv
<1>1. \A u \in Users : call[u] = Idle
  BY ThreadsDiffer DEF Init
<1>2. \A g \in Gens : pending[g] = {}
  BY DEF Init
<1>3. Idle.pc = "idle"
  BY DEF Idle
<1>4. TableKept
  BY <1>1, <1>2, <1>3 DEF TableKept, Open
<1>5. BegunFresh
  BY <1>1, <1>3 DEF BegunFresh, Fresh
<1>. QED BY <1>4, <1>5, InitInv DEF TableInv

-----------------------------------------------------------------------------
(* The types of the pipes                                                     *)

\* A frame that the queue to the writer has room for.
LEMMA FrameFits ==
  ASSUME PipesTyped, NEW g, NEW f \in Users \cup {Nobody}, HasRoom(g),
         channel' = [channel EXCEPT ![g] = Append(@, f)]
  PROVE  /\ channel' \in [Gens -> Seq(Users \cup {Nobody})]
         /\ \A h \in Gens : Len(channel'[h]) <= ChannelLimit
<1>1. CASE g \in Gens
  <2>1. channel[g] \in Seq(Users \cup {Nobody}) /\ Len(channel[g]) < ChannelLimit
    BY <1>1 DEF PipesTyped, HasRoom
  <2>2. Append(channel[g], f) \in Seq(Users \cup {Nobody}) /\ Len(Append(channel[g], f)) = Len(channel[g]) + 1
    BY <2>1
  <2>3. Len(Append(channel[g], f)) <= ChannelLimit
    BY <2>1, <2>2, HostAssumption
  <2>4. channel'[g] = Append(channel[g], f) /\ \A h \in Gens : h # g => channel'[h] = channel[h]
    BY <1>1 DEF PipesTyped
  <2>. QED BY <2>2, <2>3, <2>4 DEF PipesTyped
<1>2. CASE g \notin Gens
  <2>1. channel' = channel
    BY <1>2 DEF PipesTyped
  <2>. QED BY <2>1 DEF PipesTyped
<1>. QED BY <1>1, <1>2

\* What a request and a termination do to them.
LEMMA ThreadsKeepPipes ==
  ASSUME Inv, PipesTyped, NEW t \in Threads,
         (t \in Users /\ (Ask(t) \/ Requesting(t))) \/ Terminating(t)
  PROVE  PipesTyped'
<1> DEFINE g == call[t].gen
<1>1. /\ UNCHANGED <<restartLock, writer, ready>>
      /\ lifecycle' \in [Gens -> Lifecycles]
      /\ work' \in [Gens -> SUBSET Users] /\ inbox' \in [Gens -> Seq(Users)]
  <2>1. UNCHANGED <<restartLock, writer, ready>>
    BY DEF Ask, Requesting, Check, Insert, Send, Take, TimeOut, Terminating, Mark, Kill, hostVars
  <2>2. lifecycle' = lifecycle \/ \E g1 : lifecycle' = [lifecycle EXCEPT ![g1] = IF @ \in {"exited", "stopping"} THEN @ ELSE "stalled"]
    BY DEF Ask, Requesting, Check, Insert, Send, Take, TimeOut, Terminating, Mark, Kill
  <2>3. UNCHANGED <<work, inbox>>
        \/ \E g1 : inbox' = [inbox EXCEPT ![g1] = <<>>] /\ work' = [work EXCEPT ![g1] = {}]
    BY DEF Ask, Requesting, Check, Insert, Send, Take, TimeOut, Terminating, Mark, Kill, Reaped, coreVars
  <2>4. lifecycle' \in [Gens -> Lifecycles]
    BY <2>2 DEF PipesTyped, Lifecycles
  <2>5. work' \in [Gens -> SUBSET Users]
    BY <2>3 DEF PipesTyped
  <2>6. inbox' \in [Gens -> Seq(Users)]
    <3>1. << >> \in Seq(Users)
      OBVIOUS
    <3>. QED BY <2>3, <3>1 DEF PipesTyped
  <2>. QED BY <2>1, <2>4, <2>5, <2>6
<1>2. \/ channel' = channel
      \/ HasRoom(g) /\ \E f \in Users \cup {Nobody} : channel' = [channel EXCEPT ![g] = Append(@, f)]
  BY ThreadsDiffer DEF Ask, Requesting, Check, Insert, Send, Take, TimeOut, Terminating, Mark, Kill, GenOf
<1>3. /\ channel' \in [Gens -> Seq(Users \cup {Nobody})]
      /\ \A h \in Gens : Len(channel'[h]) <= ChannelLimit
  BY <1>2, FrameFits DEF PipesTyped
<1>. QED BY <1>1, <1>3 DEF PipesTyped

\* The threads of a generation, and its core.
LEMMA GenerationsKeepPipes ==
  ASSUME PipesTyped, NEW g \in Gens, Serving(g) \/ Core(g)
  PROVE  PipesTyped'
<1>1. CASE Write(g)
  <2>1. channel[g] \in Seq(Users \cup {Nobody}) /\ channel[g] # << >> /\ inbox[g] \in Seq(Users)
    BY <1>1 DEF Write, PipesTyped
  <2>2. /\ Tail(channel[g]) \in Seq(Users \cup {Nobody})
        /\ Len(Tail(channel[g])) = Len(channel[g]) - 1 /\ Len(channel[g]) \in Nat
    BY <2>1
  <2>3. /\ channel' \in [Gens -> Seq(Users \cup {Nobody})]
        /\ \A h \in Gens : Len(channel'[h]) <= ChannelLimit
    <3>1. channel' = [channel EXCEPT ![g] = Tail(@)] \/ channel' = [channel EXCEPT ![g] = << >>]
      BY <1>1 DEF Write
    <3>2. /\ Len(Tail(channel[g])) <= ChannelLimit /\ Len(<< >>) <= ChannelLimit
          /\ << >> \in Seq(Users \cup {Nobody})
      BY <2>2, HostAssumption DEF PipesTyped
    <3>. QED BY <2>2, <3>1, <3>2 DEF PipesTyped
  <2>4. inbox' \in [Gens -> Seq(Users)]
    <3>1. CASE Head(channel[g]) \in Users /\ proc[g] = "alive"
      <4>1. Append(inbox[g], Head(channel[g])) \in Seq(Users)
        BY <2>1, <3>1
      <4>. QED BY <1>1, <3>1, <4>1 DEF Write, PipesTyped
    <3>. QED BY <1>1, <3>1 DEF Write, PipesTyped
  <2>5. writer' \in [Gens -> BOOLEAN]
    BY <1>1 DEF Write, PipesTyped
  <2>6. UNCHANGED <<restartLock, lifecycle, ready, work>>
    BY <1>1 DEF Write, hostVars
  <2>. QED BY <2>3, <2>4, <2>5, <2>6 DEF PipesTyped
<1>2. CASE Read(g)
  <2>1. Handles(g, Head(pipe[g])) /\ UNCHANGED <<restartLock, writer, channel, inbox, work>>
    BY <1>2 DEF Read, hostVars
  <2>2. lifecycle' \in [Gens -> Lifecycles]
    BY <2>1 DEF Handles, PipesTyped, Lifecycles
  <2>3. ready' \in [Gens -> BOOLEAN]
    BY <2>1 DEF Handles, PipesTyped
  <2>. QED BY <2>1, <2>2, <2>3 DEF PipesTyped
<1>3. CASE ReaderEnds(g)
  BY <1>3 DEF ReaderEnds, hostVars, coreVars, PipesTyped, Lifecycles
<1>4. CASE Core(g)
  <2>1. UNCHANGED <<restartLock, lifecycle, writer, ready, channel>>
    BY <1>4 DEF Core, hostVars
  <2>2. inbox' = inbox \/ inbox' = [inbox EXCEPT ![g] = <<>>]
        \/ (inbox[g] # << >> /\ inbox' = [inbox EXCEPT ![g] = Tail(@)])
    BY <1>4 DEF Core, Says
  <2>3. inbox' \in [Gens -> Seq(Users)]
    <3>1. inbox[g] \in Seq(Users)
      BY DEF PipesTyped
    <3>2. inbox[g] # << >> => Tail(inbox[g]) \in Seq(Users)
      BY <3>1
    <3>3. << >> \in Seq(Users)
      OBVIOUS
    <3>. QED BY <2>2, <3>2, <3>3 DEF PipesTyped
  <2>4. work' \in [Gens -> SUBSET Users]
    <3>1. inbox[g] \in Seq(Users)
      BY DEF PipesTyped
    <3>2. inbox[g] # << >> => Head(inbox[g]) \in Users
      BY <3>1
    <3>3. work' = work \/ work' = [work EXCEPT ![g] = {}]
          \/ (inbox[g] # << >> /\ work' = [work EXCEPT ![g] = @ \cup {Head(inbox[g])}])
          \/ \E c \in work[g] : work' = [work EXCEPT ![g] = @ \ {c}]
      BY <1>4 DEF Core, Says
    <3>4. \A w \in SUBSET Users : [work EXCEPT ![g] = w] \in [Gens -> SUBSET Users]
      BY DEF PipesTyped
    <3>5. work \in [Gens -> SUBSET Users] /\ work[g] \in SUBSET Users
      BY DEF PipesTyped
    <3>6. {} \in SUBSET Users /\ (\A c : work[g] \ {c} \in SUBSET Users)
          /\ (inbox[g] # << >> => work[g] \cup {Head(inbox[g])} \in SUBSET Users)
      BY <3>2, <3>5
    <3>. QED BY <3>3, <3>4, <3>5, <3>6
  <2>. QED BY <2>1, <2>3, <2>4 DEF PipesTyped
<1>. QED BY <1>1, <1>2, <1>3, <1>4 DEF Serving

\* The supervisor and the end of the application.
LEMMA OwnersKeepPipes ==
  ASSUME Inv, PipesTyped, Supervise \/ Locked \/ Terminated \/ Activate \/ Handshake \/ Install
                     \/ Quit \/ Exiting
  PROVE  PipesTyped'
<1>1. restartLock' \in {restartLock, Nobody, Sup, Exit}
  BY DEF Supervise, Locked, Terminated, Activate, Handshake, Install, Leave, Quit, Exiting,
         LockForExit, MarkStopping, PollExit
<1>2. UNCHANGED <<ready, channel, inbox, work>>
  BY DEF Supervise, Locked, Terminated, Activate, Handshake, Install, SupervisorOnly, Quit, Exiting,
         LockForExit, MarkStopping, PollExit, ExitOnly, coreVars
<1>3. writer' = writer \/ \E g : writer' = [writer EXCEPT ![g] = TRUE]
  BY DEF Supervise, Locked, Terminated, Activate, Handshake, Install, SupervisorOnly, Quit, Exiting,
         LockForExit, MarkStopping, PollExit, ExitOnly
<1>4. lifecycle' = lifecycle \/ \E g : lifecycle' = [lifecycle EXCEPT ![g] = "stopping"]
  BY DEF Supervise, Locked, Terminated, Activate, Handshake, Install, Quit, Exiting,
         LockForExit, MarkStopping, PollExit
<1>5. writer' \in [Gens -> BOOLEAN] /\ lifecycle' \in [Gens -> Lifecycles]
  BY <1>3, <1>4 DEF PipesTyped, Lifecycles
<1>. QED BY <1>1, <1>2, <1>5 DEF PipesTyped

LEMMA NextPipes ==
  ASSUME Inv, PipesTyped, [Next]_vars
  PROVE  PipesTyped'
<1>1. ASSUME NEW c \in Callers, Ask(c)
      PROVE  PipesTyped'
  BY <1>1, ThreadsDiffer, ThreadsKeepPipes DEF Users
<1>2. ASSUME NEW u \in Users, Requesting(u) \/ Terminating(u)
      PROVE  PipesTyped'
  BY <1>2, ThreadsDiffer, ThreadsKeepPipes
<1>3. ASSUME Supervising
      PROVE  PipesTyped'
  BY <1>3, ThreadsDiffer, ThreadsKeepPipes, OwnersKeepPipes DEF Supervising
<1>4. ASSUME UNCHANGED vars
      PROVE  PipesTyped'
  BY <1>4 DEF vars, hostVars, coreVars, PipesTyped
<1>. QED BY <1>1, <1>2, <1>3, <1>4, GenerationsKeepPipes, OwnersKeepPipes DEF Next

LEMMA InitPipes ==
  ASSUME Init
  PROVE  PipesTyped
<1>1. \A g \in Gens : Len(<< >>) <= ChannelLimit
  BY HostAssumption
<1>. QED BY <1>1 DEF Init, PipesTyped, Lifecycles

\* The fields of the host keep their types, and the queue to the writer of a core never
\* holds more than its channel has room for, the order to stop included.
THEOREM HostIsTyped == Spec => []TypeOK
<1>1. Inv /\ PipesTyped => TypeOK
  BY DEF Inv, ThreadsTyped, PipesTyped, Lifecycles, TypeOK, Calls
<1>2. Init => Inv /\ PipesTyped
  BY InitInv, InitPipes
<1>3. Inv /\ PipesTyped /\ [Next]_vars => (Inv /\ PipesTyped)'
  BY NextInv, NextPipes
<1>. QED BY <1>1, <1>2, <1>3, PTL DEF Spec

\* The table of each core holds the requests that have no answer yet, and no others,
\* whatever is answered, times out, is sent to a core that has just ended, or fails with
\* its core: nobody waits outside the table, where no answer and no end of a core would
\* reach it, and no late answer finds a request that was given up.
THEOREM OpenRequestsAreInTheTable == Spec => []TableKept
<1>1. TableInv => TableKept
  BY DEF TableInv
<1>. QED BY <1>1, InitTable, NextTable, PTL DEF Spec
=============================================================================
