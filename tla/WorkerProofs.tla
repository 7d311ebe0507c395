----------------------------- MODULE WorkerProofs -----------------------------
(* Proofs about the worker: for every set of clients, sessions and operations *)
(* and every length of the queue, no request is lost and none is left without *)
(* a client, the slaves that a cycle has brought to OP are remembered, and a  *)
(* thread that has ended holds no adapter.                                    *)
EXTENDS Worker, FiniteSetTheorems, TLAPS

-----------------------------------------------------------------------------
(* The invariant                                                              *)

Outside == {"start", "drain", "dying", "dead"}

\* What a cycle left in OP is behind an open adapter, and is remembered; outside
\* its loop the thread has no adapter.
Inv ==
  /\ owed \in BOOLEAN /\ needsSafe \in BOOLEAN /\ conn \in BOOLEAN
  /\ owed => conn /\ needsSafe
  /\ wpc \in Outside => ~conn

-----------------------------------------------------------------------------
(* Steps                                                                      *)

\* Steps that touch neither the cycle nor the backend, and do not leave the loop.
LEMMA QuietKeepsInv ==
  ASSUME Inv, UNCHANGED <<cycleVars, busVars>>, wpc' \in Outside => wpc \in Outside
  PROVE  Inv'
BY DEF Inv, cycleVars, busVars

\* An answer brings the thread back into its loop.
LEMMA AnswerStays ==
  ASSUME NEW o, NEW v, Answer(o, v)
  PROVE  wpc' = "poll"
BY DEF Answer

\* An operation that touches the backend alone: what is owed is owed to an
\* adapter that stays open.
LEMMA BackendKeepsInv ==
  ASSUME Inv, conn' \in BOOLEAN, NEW o, NEW v, BackendEnds(o, v)
  PROVE  Inv'
<1>1. wpc' = "poll" /\ needsSafe' = needsSafe /\ owed' = (owed /\ conn')
  BY AnswerStays DEF BackendEnds
<1>2. wpc' \notin Outside
  BY <1>1 DEF Outside
<1>3. /\ owed' \in BOOLEAN /\ needsSafe' \in BOOLEAN
      /\ owed' => conn' /\ needsSafe'
  BY <1>1, Zenon DEF Inv
<1>. QED BY <1>2, <1>3, Zenon DEF Inv

\* Starting and stopping the cycle, whether they succeed or not.
LEMMA CycleKeepsInv ==
  ASSUME Inv, CycleStarts \/ CycleFailsToStart \/ CycleStops \/ CycleFailsToStop
  PROVE  Inv'
<1>1. wpc' = "poll" /\ conn' = conn
  BY AnswerStays DEF CycleStarts, CycleFailsToStart, CycleStops, CycleFailsToStop
<1>2. wpc' \notin Outside
  BY <1>1 DEF Outside
<1>3. /\ owed' \in BOOLEAN /\ needsSafe' \in BOOLEAN
      /\ owed' => conn' /\ needsSafe'
  <2>0. conn' \in BOOLEAN /\ (conn' <=> conn)
    BY <1>1, Zenon DEF Inv
  <2>1. CASE CycleStarts
    <3>1. conn /\ owed' = TRUE /\ needsSafe' = TRUE
      BY <2>1, Zenon DEF CycleStarts
    <3>. QED BY <2>0, <3>1, Zenon
  <2>2. CASE CycleFailsToStart
    <3>1. \/ ~conn /\ owed' = owed /\ needsSafe' = needsSafe
          \/ owed' = FALSE /\ needsSafe' = FALSE
          \/ conn /\ owed' = TRUE /\ needsSafe' = TRUE
      BY <2>2, Zenon DEF CycleFailsToStart, Disabled
    <3>2. CASE ~conn /\ owed' = owed /\ needsSafe' = needsSafe
      <4>1. ~owed /\ owed' = owed
        BY <3>2, Zenon DEF Inv
      <4>2. owed' \in BOOLEAN /\ ~owed'
        BY <4>1, Zenon DEF Inv
      <4>3. needsSafe' \in BOOLEAN
        BY <3>2, Zenon DEF Inv
      <4>. QED BY <4>2, <4>3, Zenon
    <3>3. CASE owed' = FALSE /\ needsSafe' = FALSE
      BY <3>3, Zenon
    <3>4. CASE conn /\ owed' = TRUE /\ needsSafe' = TRUE
      BY <2>0, <3>4, Zenon
    <3>. QED BY <3>1, <3>2, <3>3, <3>4, Zenon
  <2>3. CASE CycleStops
    BY <1>1, <2>3, Zenon DEF Inv, CycleStops, Disabled
  <2>4. CASE CycleFailsToStop
    <3>1. owed' = owed /\ needsSafe' = conn
      BY <2>4 DEF CycleFailsToStop
    <3>2. owed' \in BOOLEAN /\ (owed' <=> owed)
      BY <3>1, Zenon DEF Inv
    <3>3. needsSafe' \in BOOLEAN /\ (needsSafe' <=> conn)
      BY <3>1, Zenon DEF Inv
    <3>. QED BY <2>0, <3>2, <3>3, Zenon DEF Inv
  <2>. QED BY <2>1, <2>2, <2>3, <2>4
<1>. QED BY <1>1, <1>2, <1>3, Zenon DEF Inv

\* However an operation ends.
LEMMA FinishKeepsInv ==
  ASSUME Inv, Finish
  PROVE  Inv'
<1>1. CASE \E o, v : conn' \in BOOLEAN /\ BackendEnds(o, v)
  BY <1>1, BackendKeepsInv
<1>2. CASE CycleStarts \/ CycleFailsToStart \/ CycleStops \/ CycleFailsToStop
  BY <1>2, CycleKeepsInv
<1>3. conn \in BOOLEAN
  BY DEF Inv
<1>4. Fails \/ Accesses => \E o, v : conn' \in BOOLEAN /\ BackendEnds(o, v)
  BY <1>3 DEF Fails, Accesses, busVars
<1>5. Connects \/ Disconnects \/ Scans \/ AutoScans
        => \E o, v : conn' \in BOOLEAN /\ BackendEnds(o, v)
  <2>1. Connects => \E o, v : conn' \in BOOLEAN /\ BackendEnds(o, v)
    <3>1. Connects => conn' \in BOOLEAN
      BY <1>3, <1>4, Zenon DEF Connects
    <3>2. Connects => \E o, v : BackendEnds(o, v)
      BY DEF Connects, Fails
    <3>. QED BY <3>1, <3>2
  <2>2. Disconnects => \E o, v : conn' \in BOOLEAN /\ BackendEnds(o, v)
    <3>1. Disconnects => conn' \in BOOLEAN
      BY Zenon DEF Disconnects
    <3>2. Disconnects => \E o, v : BackendEnds(o, v)
      BY DEF Disconnects
    <3>. QED BY <3>1, <3>2
  <2>3. Scans => \E o, v : conn' \in BOOLEAN /\ BackendEnds(o, v)
    BY <1>3, <1>4 DEF Scans
  <2>4. AutoScans => \E o, v : conn' \in BOOLEAN /\ BackendEnds(o, v)
    <3>1. AutoScans => conn' \in BOOLEAN
      BY Zenon DEF AutoScans
    <3>2. AutoScans => \E o, v : BackendEnds(o, v)
      BY DEF AutoScans
    <3>. QED BY <3>1, <3>2
  <2>. QED BY <2>1, <2>2, <2>3, <2>4
<1>6. ReadsStates \/ Probes \/ RequestsState \/ ProgramsEeprom
        => \E o, v : conn' \in BOOLEAN /\ BackendEnds(o, v)
  <2>1. ReadsStates => \E o, v : conn' \in BOOLEAN /\ BackendEnds(o, v)
    BY <1>3, <1>4 DEF ReadsStates
  <2>2. Probes => \E o, v : conn' \in BOOLEAN /\ BackendEnds(o, v)
    BY <1>3, <1>4 DEF Probes
  <2>3. RequestsState => \E o, v : conn' \in BOOLEAN /\ BackendEnds(o, v)
    BY <1>3 DEF RequestsState
  <2>4. ProgramsEeprom => \E o, v : conn' \in BOOLEAN /\ BackendEnds(o, v)
    BY <1>3, <1>4 DEF ProgramsEeprom
  <2>. QED BY <2>1, <2>2, <2>3, <2>4
<1>7. UNCHANGED busVars /\ BackendEnds("done", NoSlaves)
        => \E o, v : conn' \in BOOLEAN /\ BackendEnds(o, v)
  BY <1>3 DEF busVars
<1>. QED BY <1>1, <1>2, <1>4, <1>5, <1>6, <1>7 DEF Finish

\* The thread: from its start to its end.
LEMMA LoopKeepsInv ==
  ASSUME Inv, Loop
  PROVE  Inv'
<1>1. CASE StartOk \/ StartFail \/ Drain \/ Die
  BY <1>1, QuietKeepsInv DEF StartOk, StartFail, Drain, Die, Outside, cycleVars, busVars
<1>2. CASE Poll \/ PollControl \/ Reput \/ Due \/ Take
  BY <1>2, QuietKeepsInv DEF Poll, PollControl, Begin, Reput, Due, Take, Outside, cycleVars, busVars
<1>3. CASE Finish
  BY <1>3, FinishKeepsInv
<1>4. CASE Exchange
  <2>1. wpc' \notin Outside /\ conn' = conn
    BY <1>4 DEF Exchange, Outside
  <2>2. /\ owed' \in BOOLEAN /\ needsSafe' \in BOOLEAN
        /\ owed' => conn' /\ needsSafe'
    <3>1. conn' \in BOOLEAN /\ (conn' <=> conn)
      BY <2>1, Zenon DEF Inv
    <3>2. \/ owed' = owed /\ needsSafe' = needsSafe
          \/ owed' = FALSE /\ needsSafe' = FALSE
      BY <1>4 DEF Exchange, Disabled
    <3>3. CASE owed' = owed /\ needsSafe' = needsSafe
      <4>1. owed' \in BOOLEAN /\ (owed' <=> owed) /\ needsSafe' \in BOOLEAN /\ (needsSafe' <=> needsSafe)
        BY <3>3, Zenon DEF Inv
      <4>. QED BY <3>1, <4>1, Zenon DEF Inv
    <3>4. CASE owed' = FALSE /\ needsSafe' = FALSE
      BY <3>4, Zenon
    <3>. QED BY <3>2, <3>3, <3>4
  <2>. QED BY <2>1, <2>2, Zenon DEF Inv
<1>5. CASE Exit
  <2>1. ~conn' /\ conn' \in BOOLEAN /\ needsSafe' = needsSafe /\ owed' = (owed /\ conn /\ ~needsSafe)
    BY <1>5, Zenon DEF Exit
  <2>. QED BY <2>1, Zenon DEF Inv
<1>. QED BY <1>1, <1>2, <1>3, <1>4, <1>5 DEF Loop

\* Every step of the thread, of its clients and of the bridge.
LEMMA NextInv ==
  ASSUME Inv, [Next]_vars
  PROVE  Inv'
<1>1. CASE Loop
  BY <1>1, LoopKeepsInv
<1>2. CASE Requests(Requested)
  BY <1>2, QuietKeepsInv DEF Requests, Submit, Cancel, Collect, loopVars, cycleVars, busVars
<1>3. CASE Supervision
  BY <1>3, QuietKeepsInv DEF Supervision, PollEvents, MarkStalled, Shutdown, loopVars, cycleVars, busVars
<1>4. CASE UNCHANGED vars
  BY <1>4, QuietKeepsInv DEF vars, loopVars
<1>. QED BY <1>1, <1>2, <1>3, <1>4 DEF Next

LEMMA InitInv == Init => Inv
BY Zenon DEF Init, Inv

-----------------------------------------------------------------------------
(* Where the requests are                                                     *)

FutStates == {"none", "pending", "running", "done", "failed"}
Waiting == {"pending", "running"}

\* The places of requests: the thread's hands are place 0.
At(i) == IF i = 0 THEN held ELSE queue[i]
Holds(c, i) == i \in 0 .. Len(queue) /\ At(i).live /\ At(i).owner = c

\* What the thread runs is a request that waits for it, or a wake-up.
RunsItsOwn == wpc = "run" => held.live /\ (held.owner \in Clients => fut[held.owner] = "running")

\* A client that waits has its request in one place, the others have none; the
\* thread has one in its hands only while it runs it or is about to put it back.
Placed ==
  /\ queue \in Seq(Tasks) /\ held \in Tasks /\ fut \in [Clients -> FutStates]
  /\ (held.live => wpc \in {"run", "reput"}) /\ RunsItsOwn
  /\ \A c \in Clients : \A i, j \in 0 .. Len(queue) : Holds(c, i) /\ Holds(c, j) => i = j
  /\ \A c \in Clients : fut[c] \in Waiting <=> \E i \in 0 .. Len(queue) : Holds(c, i)
  /\ \A c \in Clients : fut[c] = "running" => wpc = "run" /\ Holds(c, 0)

\* Requests of clients are moved: each one in a new place comes from a place of
\* its own, and each one in an old place gets to a new one.
Asked(t) == t.live /\ t.owner \in Clients
Moves(back, forth) ==
  /\ back \in [0 .. Len(queue') -> 0 .. Len(queue)] /\ forth \in [0 .. Len(queue) -> 0 .. Len(queue')]
  /\ \A i \in 0 .. Len(queue') : Asked(At(i))' => At(back[i]) = At(i)'
  /\ \A i \in 0 .. Len(queue) : Asked(At(i)) => At(forth[i])' = At(i)
  /\ \A i, j \in 0 .. Len(queue') : Asked(At(i))' /\ Asked(At(j))' /\ back[i] = back[j] => i = j

LEMMA MovedStayPlaced ==
  ASSUME Placed, queue' \in Seq(Tasks), held' \in Tasks, fut' \in [Clients -> FutStates],
         held'.live => wpc' \in {"run", "reput"}, RunsItsOwn',
         NEW back, NEW forth, Moves(back, forth),
         \A c \in Clients : fut'[c] \in Waiting <=> fut[c] \in Waiting,
         \A c \in Clients : fut'[c] = "running" => wpc' = "run" /\ held'.live /\ held'.owner = c
  PROVE  Placed'
<1>1. ASSUME NEW c \in Clients, NEW i \in 0 .. Len(queue'), Holds(c, i)'
      PROVE  back[i] \in 0 .. Len(queue) /\ Holds(c, back[i]) /\ Asked(At(i))'
  <2>1. Asked(At(i))' /\ At(i)'.live /\ At(i)'.owner = c /\ back[i] \in 0 .. Len(queue)
    BY <1>1 DEF Holds, Moves, Asked
  <2>2. At(back[i]) = At(i)'
    BY <2>1 DEF Moves
  <2>. QED BY <2>1, <2>2 DEF Holds
<1>2. ASSUME NEW c \in Clients, NEW i \in 0 .. Len(queue), Holds(c, i)
      PROVE  forth[i] \in 0 .. Len(queue') /\ Holds(c, forth[i])'
  <2>1. Asked(At(i)) /\ At(i).live /\ At(i).owner = c /\ forth[i] \in 0 .. Len(queue')
    BY <1>2 DEF Holds, Moves, Asked
  <2>2. At(forth[i])' = At(i)
    BY <2>1 DEF Moves
  <2>3. At(forth[i])'.live /\ At(forth[i])'.owner = c
    BY <2>1, <2>2
  <2>. QED BY <2>1, <2>3 DEF Holds
<1>3. ASSUME NEW c \in Clients, NEW i \in 0 .. Len(queue'), NEW j \in 0 .. Len(queue'),
             Holds(c, i)', Holds(c, j)'
      PROVE  i = j
  <2>1. back[i] = back[j]
    BY <1>1, <1>3 DEF Placed
  <2>. QED BY <1>1, <1>3, <2>1 DEF Moves
<1>4. ASSUME NEW c \in Clients
      PROVE  fut'[c] \in Waiting <=> \E i \in 0 .. Len(queue') : Holds(c, i)'
  <2>1. fut[c] \in Waiting <=> \E i \in 0 .. Len(queue) : Holds(c, i)
    BY DEF Placed
  <2>. QED BY <1>1, <1>2, <2>1
<1>5. ASSUME NEW c \in Clients, fut'[c] = "running"
      PROVE  wpc' = "run" /\ Holds(c, 0)'
  <2>1. Len(queue') \in Nat /\ At(0)' = held'
    BY DEF At
  <2>. QED BY <1>5, <2>1 DEF Holds
<1>. QED BY <1>3, <1>4, <1>5 DEF Placed

\* A task that is inserted into the queue.
LEMMA InsertGives ==
  ASSUME queue \in Seq(Tasks), NEW n \in 0 .. Len(queue), NEW t \in Tasks
  PROVE  LET new == InsertAfter(n, t)
         IN  /\ new \in Seq(Tasks) /\ Len(new) = Len(queue) + 1 /\ new[n + 1] = t
             /\ \A i \in 1 .. n : new[i] = queue[i]
             /\ \A i \in n + 1 .. Len(queue) : new[i + 1] = queue[i]
<1> DEFINE l == SubSeq(queue, 1, n)
           r == SubSeq(queue, n + 1, Len(queue))
           lt == l \o <<t>>
           new == lt \o r
<1>1. l \in Seq(Tasks) /\ Len(l) = n /\ \A i \in 1 .. n : l[i] = queue[i]
  OBVIOUS
<1>2. /\ r \in Seq(Tasks) /\ Len(r) = Len(queue) - n
      /\ \A i \in 1 .. Len(queue) - n : r[i] = queue[n + i]
  OBVIOUS
<1> HIDE DEF l, r
<1>3. /\ lt \in Seq(Tasks) /\ Len(lt) = n + 1 /\ lt[n + 1] = t
      /\ \A i \in 1 .. n : lt[i] = queue[i]
  BY <1>1
<1> HIDE DEF lt
<1>4. /\ new \in Seq(Tasks) /\ Len(new) = Len(queue) + 1
      /\ \A i \in 1 .. n + 1 : new[i] = lt[i]
      /\ \A i \in 1 .. Len(queue) - n : new[n + 1 + i] = r[i]
  BY <1>2, <1>3
<1> HIDE DEF new
<1>5. ASSUME NEW i \in n + 1 .. Len(queue)
      PROVE  new[i + 1] = queue[i]
  <2> DEFINE k == i - n
  <2>1. k \in 1 .. Len(queue) - n /\ n + 1 + k = i + 1 /\ n + k = i
    OBVIOUS
  <2> HIDE DEF k
  <2>2. new[n + 1 + k] = r[k] /\ r[k] = queue[n + k]
    BY <1>2, <1>4, <2>1
  <2>. QED BY <2>1, <2>2
<1>6. new[n + 1] = t /\ \A i \in 1 .. n : new[i] = queue[i]
  BY <1>3, <1>4
<1>. QED BY <1>4, <1>5, <1>6 DEF InsertAfter, new, lt, l, r

\* Both insertions are within the queue.
LEMMA PlacesInQueue ==
  ASSUME queue \in Seq(Tasks), NEW S, S \subseteq 1 .. Len(queue)
  PROVE  Cardinality(S) \in 0 .. Len(queue)
<1>1. Len(queue) \in Nat
  OBVIOUS
<1>2. IsFiniteSet(1 .. Len(queue)) /\ Cardinality(1 .. Len(queue)) = Len(queue)
  <2> DEFINE n == Len(queue)
  <2>1. 1 \in Int /\ n \in Int
    BY <1>1
  <2> HIDE DEF n
  <2>2. /\ IsFiniteSet(1 .. n)
        /\ Cardinality(1 .. n) = IF 1 > n THEN 0 ELSE n - 1 + 1
    BY <2>1, FS_Interval
  <2>. QED BY <1>1, <2>2 DEF n
<1>3. Cardinality(S) \in Nat /\ Cardinality(S) <= Len(queue)
  BY <1>2, FS_Subset, FS_CardinalityType
<1>. QED BY <1>1, <1>3

\* Steps that leave the queue, and what the thread has in its hands.
LEMMA StillStaysPlaced ==
  ASSUME Placed, UNCHANGED <<queue, held, fut>>,
         wpc' = wpc \/ (wpc \notin {"run", "reput"} /\ wpc' # "run")
  PROVE  Placed'
<1>0. RunsItsOwn'
  BY DEF Placed, RunsItsOwn
<1>1. held.live => wpc' = wpc
  BY DEF Placed
<1>2. \A c \in Clients : fut[c] = "running" => wpc' = wpc
  BY DEF Placed
<1>3. \A c, i : Holds(c, i)' <=> Holds(c, i)
  BY DEF Holds, At
<1>. QED BY <1>0, <1>1, <1>2, <1>3 DEF Placed

\* The head of the queue is taken into the thread's hands, or dropped when its
\* future was cancelled.
LEMMA TakenStaysPlaced ==
  ASSUME Placed, queue # << >>, queue' = Tail(queue), wpc \notin {"run", "reput"},
         held' = Head(queue) \/ (~Head(queue).live /\ held' = NoTask),
         held'.live => wpc' \in {"run", "reput"}, wpc' = "run" => held'.live,
         fut' \in [Clients -> FutStates],
         \A c \in Clients :
           IF wpc' = "run" /\ held'.live /\ c = held'.owner THEN fut'[c] = "running" ELSE fut'[c] = fut[c]
  PROVE  Placed'
<1>a. PICK back : back = [i \in 0 .. Len(queue') |-> i + 1]
  OBVIOUS
<1>b. PICK forth : forth = [i \in 0 .. Len(queue) |-> IF i = 0 THEN 0 ELSE i - 1]
  OBVIOUS
<1>1. queue \in Seq(Tasks) /\ held \in Tasks /\ ~held.live /\ fut \in [Clients -> FutStates]
  BY DEF Placed
<1>2. /\ queue' \in Seq(Tasks) /\ Len(queue') = Len(queue) - 1 /\ Len(queue) \in Nat \ {0}
      /\ Head(queue) = queue[1] /\ Head(queue) \in Tasks
      /\ \A i \in 1 .. Len(queue') : queue'[i] = queue[i + 1]
  BY <1>1
<1>3. NoTask \in Tasks /\ NoTask.live = FALSE
  BY DEF NoTask, Tasks, AlStates
<1>4. held' \in Tasks /\ (held'.live => held' = queue[1]) /\ (queue[1].live => held' = queue[1])
  BY <1>2, <1>3
<1>5. back \in [0 .. Len(queue') -> 0 .. Len(queue)] /\ forth \in [0 .. Len(queue) -> 0 .. Len(queue')]
  BY <1>2, <1>a, <1>b
<1>6. ASSUME NEW i \in 0 .. Len(queue'), At(i)'.live
      PROVE  At(back[i]) = At(i)'
  <2>1. back[i] = i + 1 /\ At(back[i]) = queue[i + 1]
    BY <1>2, <1>a DEF At
  <2>2. CASE i = 0
    BY <1>4, <1>6, <2>1, <2>2 DEF At
  <2>3. CASE i # 0
    <3>1. i \in 1 .. Len(queue') /\ At(i)' = queue'[i]
      BY <1>2, <2>3 DEF At
    <3>. QED BY <1>2, <2>1, <3>1
  <2>. QED BY <2>2, <2>3
<1>7. ASSUME NEW i \in 0 .. Len(queue), At(i).live
      PROVE  At(forth[i])' = At(i)
  <2>1. i # 0 /\ At(i) = queue[i] /\ forth[i] = i - 1
    BY <1>1, <1>7, <1>b DEF At
  <2>2. CASE i = 1
    BY <1>4, <1>7, <2>1, <2>2 DEF At
  <2>3. CASE i # 1
    <3> DEFINE k == i - 1
    <3>1. k \in 1 .. Len(queue') /\ k + 1 = i /\ forth[i] = k
      BY <1>2, <2>1, <2>3
    <3> HIDE DEF k
    <3>2. At(k)' = queue'[k] /\ queue'[k] = queue[k + 1]
      BY <1>2, <3>1 DEF At
    <3>. QED BY <2>1, <3>1, <3>2
  <2>. QED BY <2>2, <2>3
<1>8. \A i, j \in 0 .. Len(queue') : back[i] = back[j] => i = j
  BY <1>2, <1>a
<1>9. \A c \in Clients : fut[c] # "running"
  BY DEF Placed
<1>10. ASSUME NEW c \in Clients
       PROVE  fut'[c] \in Waiting <=> fut[c] \in Waiting
  <2>1. CASE wpc' = "run" /\ held'.live /\ c = held'.owner
    <3>1. Holds(c, 1)
      BY <1>2, <1>4, <2>1 DEF Holds, At
    <3>2. fut[c] \in Waiting
      BY <1>2, <3>1 DEF Placed
    <3>. QED BY <2>1, <3>2 DEF Waiting
  <2>. QED BY <2>1
<1>11. \A c \in Clients : fut'[c] = "running" => wpc' = "run" /\ held'.live /\ held'.owner = c
  BY <1>9
<1>12. Moves(back, forth)
  BY <1>5, <1>6, <1>7, <1>8 DEF Moves, Asked
<1>13. RunsItsOwn'
  BY DEF RunsItsOwn
<1>. QED BY <1>2, <1>4, <1>10, <1>11, <1>12, <1>13, MovedStayPlaced

\* The thread puts back what it has in its hands, or the bridge adds a wake-up.
LEMMA InsertedStaysPlaced ==
  ASSUME Placed, NEW t \in Tasks, NEW n \in 0 .. Len(queue), queue' = InsertAfter(n, t), fut' = fut,
         \/ t.owner \notin Clients /\ held' = held /\ wpc' = wpc
         \/ t = held /\ held' = NoTask /\ wpc = "reput" /\ wpc' = "due"
  PROVE  Placed'
<1>a. PICK back : back = [i \in 0 .. Len(queue') |->
                            IF i \in {0, n + 1} THEN 0 ELSE IF i <= n THEN i ELSE i - 1]
  OBVIOUS
<1>b. PICK forth : forth = [i \in 0 .. Len(queue) |->
                             IF i = 0 THEN IF t = held /\ held' = NoTask THEN n + 1 ELSE 0
                             ELSE IF i <= n THEN i ELSE i + 1]
  OBVIOUS
<1>1. queue \in Seq(Tasks) /\ held \in Tasks /\ fut \in [Clients -> FutStates] /\ Len(queue) \in Nat
  BY DEF Placed
<1>2. /\ queue' \in Seq(Tasks) /\ Len(queue') = Len(queue) + 1 /\ queue'[n + 1] = t
      /\ \A i \in 1 .. n : queue'[i] = queue[i]
      /\ \A i \in n + 1 .. Len(queue) : queue'[i + 1] = queue[i]
  BY <1>1, InsertGives
<1>3. NoTask \in Tasks /\ NoTask.live = FALSE
  BY DEF NoTask, Tasks, AlStates
<1>4. held' \in Tasks /\ (held'.live => wpc' \in {"run", "reput"})
  BY <1>1, <1>3 DEF Placed
<1>5. back \in [0 .. Len(queue') -> 0 .. Len(queue)] /\ forth \in [0 .. Len(queue) -> 0 .. Len(queue')]
  BY <1>1, <1>2, <1>a, <1>b
<1>6. ASSUME NEW i \in 0 .. Len(queue'), Asked(At(i))'
      PROVE  At(back[i]) = At(i)'
  <2>1. CASE i = 0
    BY <1>1, <1>3, <1>6, <1>a, <2>1 DEF At, Asked
  <2>2. CASE i = n + 1
    <3>1. At(i)' = t /\ back[i] = 0 /\ At(0) = held
      BY <1>2, <1>a, <2>2 DEF At
    <3>. QED BY <1>6, <3>1 DEF Asked
  <2>3. CASE i \in 1 .. n
    BY <1>2, <1>a, <2>3 DEF At
  <2>4. CASE i \in n + 2 .. Len(queue')
    <3> DEFINE k == i - 1
    <3>1. k \in n + 1 .. Len(queue) /\ k + 1 = i /\ back[i] = k /\ k # 0 /\ i # 0
      BY <1>1, <1>2, <1>a, <2>4
    <3> HIDE DEF k
    <3>2. queue'[k + 1] = queue[k]
      BY <1>2, <3>1
    <3>. QED BY <3>1, <3>2 DEF At
  <2>. QED BY <1>1, <1>2, <2>1, <2>2, <2>3, <2>4
<1>7. ASSUME NEW i \in 0 .. Len(queue), Asked(At(i))
      PROVE  At(forth[i])' = At(i)
  <2>1. CASE i = 0
    <3>1. At(i) = held /\ held.live
      BY <1>7, <2>1 DEF At, Asked
    <3>2. CASE t = held /\ held' = NoTask
      BY <1>2, <1>b, <2>1, <3>1, <3>2 DEF At
    <3>3. CASE ~(t = held /\ held' = NoTask)
      BY <1>b, <2>1, <3>1, <3>3 DEF At
    <3>. QED BY <3>2, <3>3
  <2>2. CASE i \in 1 .. n
    BY <1>2, <1>b, <2>2 DEF At
  <2>3. CASE i \in n + 1 .. Len(queue)
    <3>1. forth[i] = i + 1 /\ queue'[i + 1] = queue[i] /\ i # 0 /\ i + 1 # 0
      BY <1>2, <1>b, <2>3
    <3>. QED BY <3>1 DEF At
  <2>. QED BY <1>1, <2>1, <2>2, <2>3
<1>8. ASSUME NEW i \in 0 .. Len(queue'), NEW j \in 0 .. Len(queue'),
             Asked(At(i))', Asked(At(j))', back[i] = back[j]
      PROVE  i = j
  <2>1. Asked(At(0))' => ~Asked(At(n + 1))'
    <3>1. At(0)' = held' /\ At(n + 1)' = t
      BY <1>2 DEF At
    <3>. QED BY <1>3, <3>1 DEF Asked
  <2>2. i \in {0, n + 1} /\ j \in {0, n + 1} => i = j
    BY <1>8, <2>1
  <2>3. i \notin {0, n + 1} => back[i] # 0 /\ back[i] = IF i <= n THEN i ELSE i - 1
    BY <1>a
  <2>4. j \notin {0, n + 1} => back[j] # 0 /\ back[j] = IF j <= n THEN j ELSE j - 1
    BY <1>a
  <2>5. (i \in {0, n + 1} => back[i] = 0) /\ (j \in {0, n + 1} => back[j] = 0)
    BY <1>a
  <2>. QED BY <1>8, <2>2, <2>3, <2>4, <2>5
<1>9. Moves(back, forth)
  BY <1>5, <1>6, <1>7, <1>8 DEF Moves
<1>10. \A c \in Clients : fut[c] = "running" => wpc' = "run" /\ held'.live /\ held'.owner = c
  BY DEF Placed, Holds, At
<1>11. RunsItsOwn'
  BY DEF Placed, RunsItsOwn
<1>. QED BY <1>1, <1>2, <1>4, <1>9, <1>10, <1>11, MovedStayPlaced

\* A new request is queued, or refused at once.
LEMMA SubmitStaysPlaced ==
  ASSUME Placed, NEW c \in Clients, NEW op, NEW arg, NEW s, Task(c, op, arg, s) \in Tasks,
         Submit(c, op, arg, s)
  PROVE  Placed'
<1>1. /\ queue \in Seq(Tasks) /\ Len(queue) \in Nat /\ held \in Tasks /\ fut \in [Clients -> FutStates]
      /\ fut[c] = "none" /\ held' = held /\ wpc' = wpc
  BY DEF Placed, Submit
<1>2. CASE fut' = [fut EXCEPT ![c] = "failed"] /\ UNCHANGED queue
  <2>1. fut' \in [Clients -> FutStates]
    BY <1>1, <1>2 DEF FutStates
  <2>2. \A d \in Clients : (fut'[d] \in Waiting <=> fut[d] \in Waiting)
                        /\ (fut'[d] = "running" => fut[d] = "running")
    BY <1>1, <1>2 DEF Waiting
  <2>3. \A d, i : Holds(d, i)' <=> Holds(d, i)
    BY <1>1, <1>2 DEF Holds, At
  <2>4. RunsItsOwn'
    BY <1>1, <1>2 DEF Placed, RunsItsOwn
  <2>. QED BY <1>1, <1>2, <2>1, <2>2, <2>3, <2>4 DEF Placed
<1>3. ASSUME NEW n \in 0 .. Len(queue), NEW t \in Tasks, t = Task(c, op, arg, s),
             queue' = InsertAfter(n, t), fut' = [fut EXCEPT ![c] = "pending"]
      PROVE  Placed'
  <2>1. /\ queue' \in Seq(Tasks) /\ Len(queue') = Len(queue) + 1 /\ queue'[n + 1] = t
        /\ \A i \in 1 .. n : queue'[i] = queue[i]
        /\ \A i \in n + 1 .. Len(queue) : queue'[i + 1] = queue[i]
    BY <1>1, <1>3, InsertGives
  <2>2. fut' \in [Clients -> FutStates] /\ fut'[c] = "pending" /\ \A d \in Clients \ {c} : fut'[d] = fut[d]
    BY <1>1, <1>3 DEF FutStates
  <2>3. t.live /\ t.owner = c
    BY <1>3 DEF Task
  <2>4. ASSUME NEW i \in 0 .. Len(queue'), i # n + 1
        PROVE  LET j == IF i <= n THEN i ELSE i - 1
               IN  j \in 0 .. Len(queue) /\ At(i)' = At(j)
    <3>1. CASE i = 0
      BY <1>1, <3>1 DEF At
    <3>2. CASE i \in 1 .. n
      BY <1>1, <2>1, <3>2 DEF At
    <3>3. CASE i \in n + 2 .. Len(queue')
      <4> DEFINE k == i - 1
      <4>1. k \in n + 1 .. Len(queue) /\ k + 1 = i /\ k # 0 /\ i # 0 /\ ~(i <= n)
        BY <1>1, <2>1, <3>3
      <4>2. At(k) = queue[k] /\ At(i)' = queue'[i]
        BY <4>1 DEF At
      <4>3. queue'[k + 1] = queue[k]
        BY <2>1, <4>1
      <4>. QED BY <1>1, <4>1, <4>2, <4>3
    <3>. QED BY <1>1, <2>1, <2>4, <3>1, <3>2, <3>3
  <2>5. ASSUME NEW j \in 0 .. Len(queue)
        PROVE  LET i == IF j <= n THEN j ELSE j + 1
               IN  i \in 0 .. Len(queue') /\ At(i)' = At(j)
    <3>1. CASE j = 0
      BY <1>1, <2>1, <3>1 DEF At
    <3>2. CASE j \in 1 .. n
      BY <1>1, <2>1, <3>2 DEF At
    <3>3. CASE j \in n + 1 .. Len(queue)
      BY <1>1, <2>1, <3>3 DEF At
    <3>. QED BY <1>1, <3>1, <3>2, <3>3
  <2>6. At(n + 1)' = t /\ n + 1 \in 0 .. Len(queue')
    BY <1>1, <2>1 DEF At
  <2>7. \A i \in 0 .. Len(queue) : ~Holds(c, i)
    BY <1>1 DEF Placed, Waiting
  <2>8. ASSUME NEW d \in Clients, NEW i \in 0 .. Len(queue'), i # n + 1, Holds(d, i)'
        PROVE  d # c /\ Holds(d, IF i <= n THEN i ELSE i - 1)
    <3> DEFINE j == IF i <= n THEN i ELSE i - 1
    <3>1. j \in 0 .. Len(queue) /\ At(i)' = At(j)
      BY <2>4, <2>8
    <3>2. At(i)'.live /\ At(i)'.owner = d
      BY <2>8 DEF Holds
    <3> HIDE DEF j
    <3>3. Holds(d, j)
      BY <3>1, <3>2 DEF Holds
    <3>4. d # c
      BY <2>7, <3>1, <3>3
    <3>. QED BY <3>3, <3>4 DEF j
  <2>9. ASSUME NEW d \in Clients, NEW j \in 0 .. Len(queue), Holds(d, j)
        PROVE  \E i \in 0 .. Len(queue') : Holds(d, i)'
    <3> DEFINE i == IF j <= n THEN j ELSE j + 1
    <3>1. At(j).live /\ At(j).owner = d
      BY <2>9 DEF Holds
    <3>2. PICK k \in 0 .. Len(queue') : k = i /\ At(k)' = At(j)
      <4>1. CASE j <= n
        BY <2>5, <4>1
      <4>2. CASE ~(j <= n)
        BY <2>5, <4>2
      <4>. QED BY <4>1, <4>2
    <3>. QED BY <3>1, <3>2 DEF Holds
  <2>10. ASSUME NEW d \in Clients, NEW i \in 0 .. Len(queue'), NEW j \in 0 .. Len(queue'),
                Holds(d, i)', Holds(d, j)'
         PROVE  i = j
    <3>1. CASE i = n + 1 \/ j = n + 1
      <4>1. d = c
        BY <2>3, <2>6, <2>10, <3>1 DEF Holds
      <4>. QED BY <2>8, <2>10, <3>1, <4>1
    <3>2. CASE i # n + 1 /\ j # n + 1
      <4> DEFINE a == IF i <= n THEN i ELSE i - 1
                 b == IF j <= n THEN j ELSE j - 1
      <4>1. Holds(d, a) /\ Holds(d, b)
        BY <2>8, <2>10, <3>2
      <4>2. a \in 0 .. Len(queue) /\ b \in 0 .. Len(queue)
        BY <4>1 DEF Holds
      <4>3. a = b
        <5> HIDE DEF a, b
        <5>. QED BY <4>1, <4>2 DEF Placed
      <4>. QED BY <1>1, <3>2, <4>3
    <3>. QED BY <3>1, <3>2
  <2>11. ASSUME NEW d \in Clients
         PROVE  fut'[d] \in Waiting <=> \E i \in 0 .. Len(queue') : Holds(d, i)'
    <3>1. CASE d = c
      BY <2>2, <2>3, <2>6, <3>1 DEF Waiting, Holds
    <3>2. CASE d # c
      <4>1. fut[d] \in Waiting <=> \E j \in 0 .. Len(queue) : Holds(d, j)
        BY DEF Placed
      <4>2. ~Holds(d, n + 1)'
        BY <2>3, <2>6, <3>2 DEF Holds
      <4>3. (\E i \in 0 .. Len(queue') : Holds(d, i)') => \E j \in 0 .. Len(queue) : Holds(d, j)
        <5> SUFFICES ASSUME NEW i \in 0 .. Len(queue'), Holds(d, i)'
                     PROVE  \E j \in 0 .. Len(queue) : Holds(d, j)
          OBVIOUS
        <5>1. i # n + 1
          BY <4>2
        <5>2. Holds(d, IF i <= n THEN i ELSE i - 1)
          BY <2>8, <5>1
        <5>3. (IF i <= n THEN i ELSE i - 1) \in 0 .. Len(queue)
          BY <5>2 DEF Holds
        <5>. QED BY <5>2, <5>3
      <4>. QED BY <2>2, <2>9, <3>2, <4>1, <4>3
    <3>. QED BY <3>1, <3>2
  <2>12. ASSUME NEW d \in Clients, fut'[d] = "running"
         PROVE  wpc' = "run" /\ Holds(d, 0)'
    <3>1. d # c /\ fut[d] = "running"
      BY <2>2, <2>12
    <3>2. wpc = "run" /\ Holds(d, 0)
      BY <3>1 DEF Placed
    <3>. QED BY <1>1, <2>1, <3>2 DEF Holds, At
  <2>13. (held'.live => wpc' \in {"run", "reput"}) /\ RunsItsOwn'
    BY <1>1, <2>2 DEF Placed, RunsItsOwn
  <2>. QED BY <1>1, <2>1, <2>2, <2>10, <2>11, <2>12, <2>13 DEF Placed
<1>4. CASE queue' = Enqueued(Task(c, op, arg, s)) /\ fut' = [fut EXCEPT ![c] = "pending"]
  <2> DEFINE t == Task(c, op, arg, s)
  <2>1. PICK n \in 0 .. Len(queue) : Enqueued(t) = InsertAfter(n, t)
    BY <1>1, PlacesInQueue DEF Enqueued
  <2>. QED BY <1>3, <1>4, <2>1
<1>. QED BY <1>2, <1>4 DEF Submit

\* A client gives up: its request stays where it is, without a client.
LEMMA CancelStaysPlaced ==
  ASSUME Placed, NEW c \in Clients, Cancel(c)
  PROVE  Placed'
<1>1. /\ queue \in Seq(Tasks) /\ Len(queue) \in Nat /\ held \in Tasks /\ fut \in [Clients -> FutStates]
      /\ fut[c] = "pending" /\ fut' = [fut EXCEPT ![c] = "none"] /\ wpc' = wpc
  BY DEF Placed, Cancel
<1>2. ASSUME NEW t \in Tasks
      PROVE  /\ Orphan(c, t) \in Tasks /\ (Orphan(c, t).live => t.live) /\ Orphan(c, t).owner = t.owner
             /\ (t.owner = c => ~Orphan(c, t).live) /\ (t.owner # c => Orphan(c, t) = t)
  BY DEF Orphan, Tasks
<1>3. /\ queue' = [i \in 1 .. Len(queue) |-> Orphan(c, queue[i])] /\ held' = Orphan(c, held)
  BY DEF Cancel
<1>4. queue' \in Seq(Tasks) /\ Len(queue') = Len(queue) /\ held' \in Tasks
  <2>1. \A i \in 1 .. Len(queue) : Orphan(c, queue[i]) \in Tasks
    BY <1>1, <1>2
  <2>. QED BY <1>1, <1>2, <1>3, <2>1
<1>5. ASSUME NEW i \in 0 .. Len(queue)
      PROVE  At(i) \in Tasks /\ At(i)' = Orphan(c, At(i))
  <2>1. CASE i = 0
    BY <1>1, <1>3, <2>1 DEF At
  <2>2. CASE i \in 1 .. Len(queue)
    BY <1>1, <1>3, <2>2 DEF At
  <2>. QED BY <1>1, <2>1, <2>2
<1>6. ASSUME NEW d \in Clients, NEW i \in 0 .. Len(queue)
      PROVE  Holds(d, i)' <=> Holds(d, i) /\ d # c
  BY <1>2, <1>4, <1>5 DEF Holds
<1>7. fut' \in [Clients -> FutStates] /\ fut'[c] = "none" /\ \A d \in Clients \ {c} : fut'[d] = fut[d]
  BY <1>1 DEF FutStates
<1>8. held'.live => wpc' \in {"run", "reput"}
  BY <1>1, <1>2, <1>3 DEF Placed
<1>9. \A d \in Clients : fut'[d] \in Waiting <=> \E i \in 0 .. Len(queue) : Holds(d, i)'
  BY <1>6, <1>7 DEF Placed, Waiting
<1>10. \A d \in Clients : fut'[d] = "running" => wpc' = "run" /\ Holds(d, 0)'
  <2>1. 0 \in 0 .. Len(queue)
    BY <1>1
  <2>. QED BY <1>1, <1>6, <1>7, <2>1 DEF Placed
<1>11. RunsItsOwn'
  BY <1>1, <1>2, <1>3, <1>7 DEF Placed, RunsItsOwn
<1>. QED BY <1>4, <1>6, <1>7, <1>8, <1>9, <1>10, <1>11 DEF Placed

\* A client reads its answer.
LEMMA CollectStaysPlaced ==
  ASSUME Placed, NEW c \in Clients, Collect(c)
  PROVE  Placed'
<1>1. /\ UNCHANGED <<wpc, queue, held>> /\ fut \in [Clients -> FutStates]
      /\ fut[c] \in {"done", "failed"} /\ fut' = [fut EXCEPT ![c] = "none"]
  BY DEF Placed, Collect, loopVars
<1>2. fut' \in [Clients -> FutStates] /\ fut'[c] = "none" /\ \A d \in Clients \ {c} : fut'[d] = fut[d]
  BY <1>1 DEF FutStates
<1>3. \A d, i : Holds(d, i)' <=> Holds(d, i)
  BY <1>1 DEF Holds, At
<1>4. \A d \in Clients : fut'[d] \in Waiting <=> fut[d] \in Waiting
  BY <1>1, <1>2 DEF Waiting
<1>5. \A d \in Clients : fut'[d] = "running" => fut[d] = "running"
  BY <1>2
<1>6. RunsItsOwn'
  BY <1>1, <1>2 DEF Placed, RunsItsOwn
<1>. QED BY <1>1, <1>2, <1>3, <1>4, <1>5, <1>6 DEF Placed

\* The thread fails what is queued.
LEMMA DrainStaysPlaced ==
  ASSUME Placed, Drain
  PROVE  Placed'
<1>1. /\ queue' = << >> /\ held' = held /\ wpc = "drain"
      /\ fut' = [c \in Clients |-> IF c \in LiveOwners THEN "failed" ELSE fut[c]]
      /\ queue \in Seq(Tasks) /\ Len(queue) \in Nat /\ held \in Tasks /\ ~held.live
      /\ fut \in [Clients -> FutStates]
  BY DEF Placed, Drain
<1>2. ASSUME NEW c \in Clients, fut[c] \in Waiting
      PROVE  c \in LiveOwners
  <2>1. PICK i \in 0 .. Len(queue) : Holds(c, i)
    BY <1>2 DEF Placed
  <2>2. i # 0
    BY <1>1, <2>1 DEF Holds, At
  <2>3. i \in 1 .. Len(queue) /\ queue[i].live /\ queue[i].owner = c
    BY <1>1, <2>1, <2>2 DEF Holds, At
  <2>. QED BY <2>3 DEF LiveOwners
<1>3. fut' \in [Clients -> FutStates] /\ \A c \in Clients : fut'[c] \notin Waiting
  BY <1>1, <1>2 DEF FutStates, Waiting
<1>4. \A c, i : ~Holds(c, i)'
  <2>1. Len(queue') = 0 /\ queue' \in Seq(Tasks)
    BY <1>1
  <2>. QED BY <1>1, <2>1 DEF Holds, At
<1>5. \A c \in Clients : fut'[c] # "running"
  BY <1>3 DEF Waiting
<1>6. RunsItsOwn'
  BY DEF Drain, RunsItsOwn
<1>. QED BY <1>1, <1>3, <1>4, <1>5, <1>6 DEF Placed

\* The request in the thread's hands is answered.
LEMMA AnswerStaysPlaced ==
  ASSUME Placed, NEW o \in {"done", "failed"}, NEW v, Answer(o, v)
  PROVE  Placed'
<1>1. /\ queue' = queue /\ held' = NoTask /\ wpc = "run" /\ fut' = Settled(fut, held, o)
      /\ queue \in Seq(Tasks) /\ Len(queue) \in Nat /\ held \in Tasks /\ fut \in [Clients -> FutStates]
  BY DEF Placed, Answer
<1>2. NoTask \in Tasks /\ NoTask.live = FALSE
  BY DEF NoTask, Tasks, AlStates
<1>3. /\ fut' \in [Clients -> FutStates] /\ \A c \in Clients : c # held.owner => fut'[c] = fut[c]
      /\ held.owner \in Clients => fut'[held.owner] = o
  BY <1>1 DEF Settled, FutStates
<1>4. ASSUME NEW c \in Clients, NEW i \in 0 .. Len(queue)
      PROVE  Holds(c, i)' <=> i # 0 /\ Holds(c, i)
  BY <1>1, <1>2 DEF Holds, At
<1>5. \A c \in Clients : \A i, j \in 0 .. Len(queue) : Holds(c, i) /\ Holds(c, j) => i = j
  BY DEF Placed
<1>6. ASSUME NEW c \in Clients
      PROVE  fut'[c] \in Waiting <=> \E i \in 0 .. Len(queue) : Holds(c, i)'
  <2>1. fut[c] \in Waiting <=> \E i \in 0 .. Len(queue) : Holds(c, i)
    BY DEF Placed
  <2>2. CASE c = held.owner
    <3>1. ASSUME NEW i \in 0 .. Len(queue), i # 0
          PROVE  ~Holds(c, i)
      <4>1. Holds(c, 0) /\ 0 \in 0 .. Len(queue)
        BY <1>1, <2>2 DEF Placed, RunsItsOwn, Holds, At
      <4>. QED BY <1>5, <3>1, <4>1
    <3>. QED BY <1>3, <1>4, <2>2, <3>1 DEF Waiting
  <2>3. CASE c # held.owner
    <3>1. ~Holds(c, 0)
      BY <2>3 DEF Holds, At
    <3>. QED BY <1>3, <1>4, <2>1, <2>3, <3>1
  <2>. QED BY <2>2, <2>3
<1>7. \A c \in Clients : fut'[c] # "running"
  <2>1. ASSUME NEW c \in Clients, fut[c] = "running"
        PROVE  c = held.owner
    BY <2>1 DEF Placed, Holds, At
  <2>. QED BY <1>3, <2>1
<1>8. RunsItsOwn'
  BY DEF Answer, RunsItsOwn
<1>. QED BY <1>1, <1>2, <1>3, <1>4, <1>5, <1>6, <1>7, <1>8 DEF Placed

\* Every operation ends with an answer.
LEMMA FinishAnswers ==
  ASSUME Finish
  PROVE  \E o \in {"done", "failed"} : \E v : Answer(o, v)
<1>1. CASE CycleStarts \/ CycleFailsToStart \/ CycleStops \/ CycleFailsToStop
  BY <1>1 DEF CycleStarts, CycleFailsToStart, CycleStops, CycleFailsToStop
<1>2. CASE \E o \in {"done", "failed"} : \E v : BackendEnds(o, v)
  BY <1>2 DEF BackendEnds
<1>3. Fails \/ Accesses => \E o \in {"done", "failed"} : \E v : BackendEnds(o, v)
  BY DEF Fails, Accesses
<1>4. Connects \/ Disconnects \/ AutoScans => \E o \in {"done", "failed"} : \E v : BackendEnds(o, v)
  <2>1. Connects => \E o \in {"done", "failed"} : \E v : BackendEnds(o, v)
    BY <1>3 DEF Connects
  <2>2. Disconnects => \E o \in {"done", "failed"} : \E v : BackendEnds(o, v)
    BY DEF Disconnects
  <2>3. AutoScans => \E o \in {"done", "failed"} : \E v : BackendEnds(o, v)
    BY DEF AutoScans
  <2>. QED BY <2>1, <2>2, <2>3
<1>5. Scans \/ ReadsStates => \E o \in {"done", "failed"} : \E v : BackendEnds(o, v)
  <2>1. Scans => \E o \in {"done", "failed"} : \E v : BackendEnds(o, v)
    BY <1>3 DEF Scans
  <2>2. ReadsStates => \E o \in {"done", "failed"} : \E v : BackendEnds(o, v)
    BY <1>3 DEF ReadsStates
  <2>. QED BY <2>1, <2>2
<1>6. Probes \/ RequestsState \/ ProgramsEeprom => \E o \in {"done", "failed"} : \E v : BackendEnds(o, v)
  <2>1. Probes => \E o \in {"done", "failed"} : \E v : BackendEnds(o, v)
    BY <1>3 DEF Probes
  <2>2. RequestsState => \E o \in {"done", "failed"} : \E v : BackendEnds(o, v)
    BY DEF RequestsState
  <2>3. ProgramsEeprom => \E o \in {"done", "failed"} : \E v : BackendEnds(o, v)
    BY <1>3 DEF ProgramsEeprom
  <2>. QED BY <2>1, <2>2, <2>3
<1>7. UNCHANGED busVars /\ BackendEnds("done", NoSlaves) => \E o \in {"done", "failed"} : \E v : BackendEnds(o, v)
  OBVIOUS
<1>. QED BY <1>1, <1>2, <1>3, <1>4, <1>5, <1>6, <1>7 DEF Finish

\* The thread begins the request at the head, or skips it.
LEMMA BeginStaysPlaced ==
  ASSUME Placed, queue # << >>, wpc \in {"poll", "take"}, Begin(Head(queue))
  PROVE  Placed'
<1>1. queue \in Seq(Tasks) /\ fut \in [Clients -> FutStates] /\ wpc \notin {"run", "reput"}
  BY DEF Placed
<1>2. NoTask.live = FALSE
  BY DEF NoTask
<1>3. CASE Head(queue).live
  <2>1. wpc' = "run" /\ held' = Head(queue) /\ fut' = Settled(fut, Head(queue), "running") /\ queue' = Tail(queue)
    BY <1>3 DEF Begin
  <2>2. fut' \in [Clients -> FutStates]
    BY <1>1, <2>1 DEF Settled, FutStates
  <2>3. \A c \in Clients : IF wpc' = "run" /\ held'.live /\ c = held'.owner
                          THEN fut'[c] = "running" ELSE fut'[c] = fut[c]
    BY <1>3, <2>1 DEF Settled
  <2>. QED BY <1>1, <1>3, <2>1, <2>2, <2>3, TakenStaysPlaced
<1>4. CASE ~Head(queue).live
  <2>1. wpc' = "poll" /\ held' = NoTask /\ fut' = fut /\ queue' = Tail(queue)
    BY <1>4 DEF Begin
  <2>2. /\ fut' \in [Clients -> FutStates] /\ ~held'.live
        /\ \A c \in Clients : IF wpc' = "run" /\ held'.live /\ c = held'.owner
                             THEN fut'[c] = "running" ELSE fut'[c] = fut[c]
    BY <1>1, <1>2, <2>1
  <2>. QED BY <1>1, <1>4, <2>1, <2>2, TakenStaysPlaced
<1>. QED BY <1>3, <1>4

\* The thread looks at the head, and puts back what is no control task.
LEMMA LookStaysPlaced ==
  ASSUME Placed, Poll \/ Reput
  PROVE  Placed'
<1>1. queue \in Seq(Tasks) /\ fut \in [Clients -> FutStates] /\ held \in Tasks
  BY DEF Placed
<1>2. CASE Poll
  <2>1. CASE wpc' # "reput"
    <3>1. UNCHANGED <<queue, held, fut>> /\ wpc = "poll" /\ wpc' # "run"
      BY <1>2, <2>1 DEF Poll
    <3>. QED BY <3>1, StillStaysPlaced
  <2>2. CASE wpc' = "reput"
    <3>1. queue # << >> /\ held' = Head(queue) /\ queue' = Tail(queue) /\ wpc = "poll" /\ fut' = fut
      BY <1>2, <2>2 DEF Poll
    <3>. QED BY <1>1, <2>2, <3>1, TakenStaysPlaced
  <2>. QED BY <2>1, <2>2
<1>3. CASE Reput
  <2>1. PICK n \in 0 .. Len(queue) : PutBack(held) = InsertAfter(n, held)
    BY <1>1, PlacesInQueue DEF PutBack
  <2>2. queue' = InsertAfter(n, held) /\ held' = NoTask /\ wpc = "reput" /\ wpc' = "due" /\ fut' = fut
    BY <1>3, <2>1 DEF Reput, futVars
  <2>. QED BY <1>1, <2>2, InsertedStaysPlaced
<1>. QED BY <1>2, <1>3

\* The bridge ends the worker: a wake-up is queued where there is room.
LEMMA ShutdownStaysPlaced ==
  ASSUME Placed, Shutdown
  PROVE  Placed'
<1>1. queue \in Seq(Tasks) /\ UNCHANGED <<wpc, held, fut>>
  BY DEF Placed, Shutdown, futVars
<1>2. CASE queue' = queue
  BY <1>1, <1>2, StillStaysPlaced
<1>3. CASE queue' = Enqueued(Wake)
  <2>1. PICK n \in 0 .. Len(queue) : Enqueued(Wake) = InsertAfter(n, Wake)
    BY <1>1, PlacesInQueue DEF Enqueued
  <2>2. Wake \in Tasks /\ Wake.owner \notin Clients
    BY WorkerAssumption DEF Wake, Tasks, AlStates
  <2>. QED BY <1>1, <1>3, <2>1, <2>2, InsertedStaysPlaced
<1>. QED BY <1>2, <1>3 DEF Shutdown

LEMMA NextPlaced ==
  ASSUME Placed, [Next]_vars
  PROVE  Placed'
<1>1. CASE StartOk \/ StartFail \/ Die \/ Due \/ Exchange \/ Exit
  <2>1. UNCHANGED <<queue, held, fut>> /\ wpc \notin {"run", "reput"} /\ wpc' # "run"
    BY <1>1 DEF StartOk, StartFail, Die, Due, Exchange, Exit, futVars
  <2>. QED BY <2>1, StillStaysPlaced
<1>2. CASE Drain
  BY <1>2, DrainStaysPlaced
<1>3. CASE Poll \/ Reput
  BY <1>3, LookStaysPlaced
<1>4. CASE PollControl
  BY <1>4, BeginStaysPlaced DEF PollControl
<1>5. CASE Take
  <2>1. CASE queue # << >>
    BY <1>5, <2>1, BeginStaysPlaced DEF Take
  <2>2. CASE queue = << >>
    <3>1. UNCHANGED <<queue, held, fut>> /\ wpc = "take" /\ wpc' = "poll"
      BY <1>5, <2>2 DEF Take, futVars
    <3>. QED BY <3>1, StillStaysPlaced
  <2>. QED BY <2>1, <2>2
<1>6. CASE Finish
  BY <1>6, FinishAnswers, AnswerStaysPlaced
<1>7. CASE Requests(Requested)
  <2>1. ASSUME NEW c \in Clients, NEW op \in Requested, NEW al \in AlStates, NEW s \in Sessions
        PROVE  Task(c, op, al, s) \in Tasks
    BY WorkerAssumption DEF Task, Tasks
  <2>. QED BY <1>7, <2>1, SubmitStaysPlaced, CancelStaysPlaced, CollectStaysPlaced DEF Requests
<1>8. CASE Shutdown
  BY <1>8, ShutdownStaysPlaced
<1>9. CASE PollEvents \/ MarkStalled \/ UNCHANGED vars
  BY <1>9, StillStaysPlaced DEF PollEvents, MarkStalled, vars, loopVars, futVars
<1>. QED BY <1>1, <1>2, <1>3, <1>4, <1>5, <1>6, <1>7, <1>8, <1>9 DEF Next, Loop, Supervision

LEMMA InitPlaced ==
  ASSUME Init
  PROVE  Placed
<1>1. NoTask \in Tasks /\ NoTask.live = FALSE
  BY DEF NoTask, Tasks, AlStates
<1>2. /\ queue = << >> /\ held = NoTask /\ fut = [c \in Clients |-> "none"] /\ wpc = "start"
  BY DEF Init
<1>3. queue \in Seq(Tasks) /\ Len(queue) = 0 /\ fut \in [Clients -> FutStates]
  BY <1>2 DEF FutStates
<1>4. \A c, i : ~Holds(c, i)
  BY <1>1, <1>2, <1>3 DEF Holds, At
<1>. QED BY <1>1, <1>2, <1>3, <1>4 DEF Placed, RunsItsOwn, Waiting

\* What the invariant says is what the runs check.
LEMMA PlacedIsNotLost ==
  ASSUME Placed
  PROVE  NoLostRequest
<1>1. ASSUME NEW c
      PROVE  Places(c) = {i \in 0 .. Len(queue) : Holds(c, i)}
  BY DEF Places, Holds, At
<1>2. \A c \in Clients : \A i, j \in 0 .. Len(queue) : Holds(c, i) /\ Holds(c, j) => i = j
  BY DEF Placed
<1>3. \A c \in Clients : fut[c] \in Waiting <=> \E i \in 0 .. Len(queue) : Holds(c, i)
  BY DEF Placed
<1>4. \A c \in Clients : fut[c] = "running" => wpc = "run" /\ Holds(c, 0)
  BY DEF Placed
<1>5. SUFFICES ASSUME NEW c \in Clients
               PROVE  /\ fut[c] = "pending" => \E i \in Places(c) : Places(c) = {i}
                      /\ fut[c] = "running" => Places(c) = {0} /\ wpc = "run"
                      /\ fut[c] \in {"none", "done", "failed"} => Places(c) = {}
  BY DEF NoLostRequest
<1>6. fut[c] = "pending" => \E i \in Places(c) : Places(c) = {i}
  <2> SUFFICES ASSUME fut[c] = "pending"
               PROVE  \E i \in Places(c) : Places(c) = {i}
    OBVIOUS
  <2>1. PICK i \in 0 .. Len(queue) : Holds(c, i)
    BY <1>3 DEF Waiting
  <2>. QED BY <1>1, <1>2, <2>1
<1>7. fut[c] = "running" => Places(c) = {0} /\ wpc = "run"
  <2> SUFFICES ASSUME fut[c] = "running"
               PROVE  Places(c) = {0} /\ wpc = "run"
    OBVIOUS
  <2>1. Holds(c, 0) /\ wpc = "run" /\ 0 \in 0 .. Len(queue)
    BY <1>4 DEF Holds
  <2>. QED BY <1>1, <1>2, <2>1
<1>8. fut[c] \in {"none", "done", "failed"} => Places(c) = {}
  BY <1>1, <1>3 DEF Waiting
<1>. QED BY <1>6, <1>7, <1>8

-----------------------------------------------------------------------------
(* Types, and what an operation does to the bus                               *)

EventTypes == [kind : EventKinds, session : Nat \cup {NoSession}, slaves : Views]

\* The fields that Placed does not mention.
Typed ==
  /\ res \in [Clients -> Views]
  /\ cyc \in BOOLEAN /\ cycSession \in Nat \cup {NoSession}
  /\ events \in Seq(EventTypes)
  /\ conn \in BOOLEAN /\ bus \in Views

\* Slaves that change their states stay the slaves they are.
LEMMA FallenType ==
  ASSUME bus \in Views
  PROVE  /\ \A al \in AlStates : BusAt(al) \in Views /\ BusAt(al).topo = bus.topo
         /\ \A v \in Fallen : v \in Views /\ v.topo = bus.topo
<1>1. ASSUME NEW al \in AlStates
      PROVE  BusAt(al) \in Views /\ BusAt(al).topo = bus.topo
  <2>1. CASE bus = NoSlaves
    BY <2>1 DEF BusAt
  <2>2. CASE bus \in SlaveLists /\ bus # NoSlaves
    BY <1>1, <2>2 DEF BusAt, Views, SlaveLists
  <2>. QED BY <2>1, <2>2 DEF Views
<1>. QED BY <1>1 DEF Fallen, AlStates

LEMMA ListTypes ==
  /\ NoSlaves \in Views /\ Found \subseteq Views
  /\ \A v \in Views : Unread(v) \in Views /\ Unread(v).topo = v.topo
<1>1. NoSlaves \in Views /\ Found \subseteq Views
  <2>1. ASSUME NEW v \in Found, v # NoSlaves
        PROVE  v \in SlaveLists
    <3>1. PICK t \in Topologies, al \in {"low", "safe"} : v = [topo |-> t, al |-> al, err |-> FALSE]
      BY <2>1 DEF Found
    <3>. QED BY <3>1 DEF SlaveLists, AlStates
  <2>. QED BY <2>1 DEF Views
<1>2. ASSUME NEW v \in Views
      PROVE  Unread(v) \in Views /\ Unread(v).topo = v.topo
  <2>1. CASE v = NoSlaves
    BY <2>1 DEF Unread
  <2>2. CASE v \in SlaveLists /\ v # NoSlaves
    BY <2>2 DEF Unread, Views, SlaveLists
  <2>. QED BY <2>1, <2>2 DEF Views
<1>. QED BY <1>1, <1>2

\* What an operation with outcome o and list v has done to the backend: only
\* some operations change the adapter, or which slaves there are; and a list
\* that is handed out is that of the bus.
Moving == {"connect", "disconnect", "scan", "auto_scan", "program"}
Listing == {"start", "stop", "scan", "auto_scan", "read", "request", "probe", "device"}
Brings(op, o, v) ==
  /\ op \notin Moving => conn' = conn /\ bus'.topo = bus.topo
  /\ op = "connect" => (conn => conn') /\ bus' = bus /\ (o = "done" => conn')
  /\ op = "disconnect" => ~conn'
  /\ op \in {"scan", "program"} => conn' = conn
  /\ op = "program" => bus'.topo = bus.topo \/ (o = "done" /\ v = NoSlaves)
  /\ op \in {"start", "stop", "read"} /\ o = "done" => conn
  /\ op \in Listing /\ o = "done" => v.topo = bus'.topo
  /\ o = "failed" /\ v # NoSlaves => v.topo = bus'.topo
  /\ op = "auto_scan" /\ o = "done" /\ v # NoSlaves => conn'

\* What it has done to the cycle.
CycleAfter == cyc' => cycSession' = held.session \/ (cyc /\ cycSession' = cycSession)

Ends(o, v) ==
  /\ o \in {"done", "failed"} /\ v \in Views /\ Answer(o, v)
  /\ conn' \in BOOLEAN /\ bus' \in Views /\ events' = events
  /\ cyc' \in BOOLEAN /\ cycSession' \in {cycSession, held.session, NoSession} /\ CycleAfter

LEMMA FinishBrings ==
  ASSUME Typed, held.arg \in AlStates, Finish
  PROVE  \E o, v : Ends(o, v) /\ Brings(held.op, o, v)
<1>0. bus \in Views /\ conn \in BOOLEAN /\ cyc \in BOOLEAN
  BY DEF Typed
<1>1. ASSUME NEW o \in {"done", "failed"}, NEW v \in Views, BackendEnds(o, v),
             conn' \in BOOLEAN, bus' \in Views
      PROVE  Ends(o, v)
  <2>1. Answer(o, v) /\ cyc' = cyc /\ cycSession' = cycSession /\ events' = events
    BY <1>1 DEF BackendEnds
  <2>2. cyc' \in BOOLEAN /\ CycleAfter
    BY <1>0, <2>1, Zenon DEF CycleAfter
  <2>. QED BY <1>1, <2>1, <2>2 DEF Ends
<1>2. CASE held.op \in {"start", "stop"}
  <2>1. PICK o \in {"done", "failed"}, v \in Views :
          /\ Answer(o, v) /\ bus' \in Views /\ bus'.topo = bus.topo
          /\ events' = events /\ conn' = conn
          /\ o = "done" => conn /\ v = bus'
          /\ o = "failed" => v = NoSlaves
          /\ \/ cyc' = FALSE /\ cycSession' \in {cycSession, NoSession}
             \/ cyc' = cyc /\ cycSession' = cycSession
             \/ cyc' = TRUE /\ cycSession' = held.session
    <3>1. CASE CycleStarts
      BY <1>0, <3>1, FallenType, ListTypes DEF CycleStarts, AlStates
    <3>2. CASE CycleFailsToStart
      <4>1. bus' \in Views /\ bus'.topo = bus.topo
        BY <1>0, <3>2, FallenType, ListTypes DEF CycleFailsToStart, Disabled, NotDisabled, AlStates
      <4>2. /\ Answer("failed", NoSlaves) /\ events' = events /\ conn' = conn /\ cycSession' = cycSession
            /\ cyc' = FALSE \/ cyc' = cyc
        BY <3>2 DEF CycleFailsToStart
      <4>. QED BY <4>1, <4>2, ListTypes
    <3>3. CASE CycleStops
      BY <1>0, <3>3, FallenType, ListTypes DEF CycleStops, Disabled, AlStates
    <3>4. CASE CycleFailsToStop
      BY <1>0, <3>4, FallenType, ListTypes DEF CycleFailsToStop, NotDisabled
    <3>. QED BY <1>2, <3>1, <3>2, <3>3, <3>4 DEF Finish
  <2>2. cyc' \in BOOLEAN /\ CycleAfter
    <3>1. CASE cyc' = FALSE
      BY <3>1, Zenon DEF CycleAfter
    <3>2. CASE cyc' = cyc /\ cycSession' = cycSession
      BY <1>0, <3>2, Zenon DEF CycleAfter
    <3>3. CASE cyc' = TRUE /\ cycSession' = held.session
      BY <3>3, Zenon DEF CycleAfter
    <3>. QED BY <2>1, <3>1, <3>2, <3>3
  <2>a. conn' \in BOOLEAN
    BY <1>0, <2>1
  <2>b. Ends(o, v)
    BY <2>1, <2>2, <2>a DEF Ends
  <2>3. Brings(held.op, o, v)
    BY <1>2, <2>1 DEF Brings, Moving, Listing
  <2>. QED BY <2>3, <2>b
<1>3. CASE held.op = "connect"
  <2>1. PICK o \in {"done", "failed"} : BackendEnds(o, NoSlaves) /\ bus' = bus
          /\ (conn' = TRUE \/ (o = "failed" /\ conn' = conn))
    BY <1>3, FallenType, ListTypes DEF Finish, Connects, Fails, busVars
  <2>2. conn' \in BOOLEAN /\ (conn => conn') /\ (o = "done" => conn')
    <3>1. CASE conn' = TRUE
      BY <3>1, Zenon
    <3>2. CASE o = "failed" /\ conn' = conn
      <4>1. conn' \in BOOLEAN /\ (conn => conn')
        BY <1>0, <3>2, Zenon
      <4>. QED BY <3>2, <4>1
    <3>. QED BY <2>1, <3>1, <3>2
  <2>3. Brings(held.op, o, NoSlaves)
    BY <1>3, <2>1, <2>2 DEF Brings, Moving, Listing
  <2>. QED BY <1>0, <1>1, <2>1, <2>2, <2>3, ListTypes
<1>4. CASE held.op = "disconnect"
  <2>1. PICK o \in {"done", "failed"} : BackendEnds(o, NoSlaves) /\ bus' = NoSlaves /\ conn' = FALSE
    BY <1>4, FallenType, ListTypes DEF Finish, Disconnects
  <2>2. Brings(held.op, o, NoSlaves)
    BY <1>4, <2>1 DEF Brings, Moving, Listing
  <2>. QED BY <1>1, <2>1, <2>2, ListTypes
<1>5. CASE held.op = "scan"
  <2>1. PICK o \in {"done", "failed"}, v \in Views : BackendEnds(o, v) /\ bus' \in Views /\ conn' = conn
          /\ (o = "done" => v = bus') /\ (o = "failed" => v = NoSlaves)
    BY <1>0, <1>5, FallenType, ListTypes DEF Finish, Scans, Fails, busVars
  <2>2. Brings(held.op, o, v)
    BY <1>5, <2>1 DEF Brings, Moving
  <2>. QED BY <1>0, <1>1, <2>1, <2>2
<1>6. CASE held.op = "auto_scan"
  <2>1. PICK o \in {"done", "failed"}, v \in Views : BackendEnds(o, v) /\ bus' \in Views
          /\ (o = "done" => v = bus' /\ conn' = (v # NoSlaves))
          /\ (o = "failed" => v = NoSlaves /\ conn' = FALSE)
    BY <1>6, FallenType, ListTypes DEF Finish, AutoScans
  <2>2. conn' \in BOOLEAN /\ (o = "done" /\ v # NoSlaves => conn')
    BY <2>1, Zenon
  <2>3. Brings(held.op, o, v)
    BY <1>6, <2>1, <2>2 DEF Brings, Moving
  <2>. QED BY <1>1, <2>1, <2>2, <2>3, ListTypes
<1>7. CASE held.op = "program"
  <2>1. PICK o \in {"done", "failed"}, v \in Views : BackendEnds(o, v) /\ bus' \in Views /\ conn' = conn
          /\ (bus'.topo = bus.topo \/ (o = "done" /\ v = NoSlaves))
          /\ (o = "failed" => v = NoSlaves)
    BY <1>0, <1>7, FallenType, ListTypes DEF Finish, ProgramsEeprom, Accesses
  <2>2. Brings(held.op, o, v)
    BY <1>7, <2>1 DEF Brings, Moving, Listing
  <2>. QED BY <1>0, <1>1, <2>1, <2>2
<1>8. CASE held.op \in {"read", "probe", "request", "device", "enumerate", "wake"}
  <2>1. PICK o \in {"done", "failed"}, v \in Views :
          /\ BackendEnds(o, v) /\ bus' \in Views /\ conn' = conn /\ bus'.topo = bus.topo
          /\ o = "done" /\ held.op \in Listing => v.topo = bus.topo
          /\ o = "done" /\ held.op = "read" => conn
          /\ o = "failed" /\ v # NoSlaves => v.topo = bus.topo
    <3>1. CASE held.op = "read"
      BY <1>0, <3>1, FallenType, ListTypes DEF Finish, ReadsStates, Fails, busVars
    <3>2. CASE held.op = "probe"
      BY <1>0, <3>2, FallenType, ListTypes DEF Finish, Probes, Fails, busVars
    <3>3. CASE held.op = "request"
      BY <1>0, <3>3, FallenType, ListTypes DEF Finish, RequestsState
    <3>4. CASE held.op = "device"
      BY <1>0, <3>4, FallenType, ListTypes DEF Finish, Accesses
    <3>5. CASE held.op \in {"enumerate", "wake"}
      BY <1>0, <3>5, FallenType, ListTypes DEF Finish, Fails, busVars, Listing
    <3>. QED BY <1>8, <3>1, <3>2, <3>3, <3>4, <3>5
  <2>2. Brings(held.op, o, v)
    BY <1>8, <2>1 DEF Brings, Moving, Listing
  <2>. QED BY <1>0, <1>1, <2>1, <2>2
<1>. QED BY <1>2, <1>3, <1>4, <1>5, <1>6, <1>7, <1>8 DEF Finish

\* The steps of the thread between its operations leave the backend alone.
LEMMA BetweenOperations ==
  ASSUME StartOk \/ StartFail \/ Drain \/ Die \/ Poll \/ PollControl \/ Reput \/ Due \/ Take
  PROVE  /\ UNCHANGED <<res, cyc, cycSession, conn, bus, stop>>
         /\ \/ events' = events
            \/ /\ StartupMayFail /\ wpc' = "drain"
               /\ events' = Append(events, [kind |-> "worker_fatal", session |-> NoSession,
                                            slaves |-> NoSlaves])
BY DEF StartOk, StartFail, Drain, Die, Poll, PollControl, Reput, Due, Take, Begin,
       futVars, cycleVars, busVars

\* One exchange: the cycle goes on, or its end is announced with the list that
\* the slaves were left in.
LEMMA ExchangeBrings ==
  ASSUME Typed, Exchange
  PROVE  /\ UNCHANGED <<wstate, stop, queue, held, fut, res, conn>> /\ wpc = "exchange" /\ wpc' = "poll"
         /\ bus' \in Views /\ bus'.topo = bus.topo
         /\ \/ UNCHANGED <<cyc, cycSession, events>>
            \/ /\ cyc' = FALSE /\ cycSession' = NoSession
               /\ \/ events' = events \o <<Event("slaves_changed", bus'), Event("cycle_fault", NoSlaves)>> /\ conn
                  \/ events' = Append(events, Event("cycle_fault", NoSlaves))
<1>1. bus' \in Views /\ bus'.topo = bus.topo
  BY FallenType DEF Typed, Exchange, Disabled, NotDisabled, AlStates
<1>. QED BY <1>1 DEF Exchange, Disabled, futVars

LEMMA LoopTyped ==
  ASSUME Typed, held \in Tasks, Loop
  PROVE  Typed'
<1>1. CASE StartOk \/ StartFail \/ Drain \/ Die \/ Poll \/ PollControl \/ Reput \/ Due \/ Take
  <2>1. [kind |-> "worker_fatal", session |-> NoSession, slaves |-> NoSlaves] \in EventTypes
    BY ListTypes DEF EventTypes, EventKinds
  <2>2. events' \in Seq(EventTypes)
    BY <1>1, <2>1, BetweenOperations DEF Typed
  <2>. QED BY <1>1, <2>2, BetweenOperations DEF Typed
<1>2. CASE Finish
  <2>1. PICK o, v : Ends(o, v)
    BY <1>2, FinishBrings DEF Tasks
  <2>2. res' = Settled(res, held, v) /\ held.session \in Nat
    BY <2>1 DEF Ends, Answer, Tasks
  <2>3. res' \in [Clients -> Views]
    BY <2>1, <2>2 DEF Typed, Ends, Settled
  <2>. QED BY <2>1, <2>2, <2>3 DEF Typed, Ends
<1>3. CASE Exchange
  <2>1. \A kind \in EventKinds, v \in Views : Event(kind, v) \in EventTypes
    BY DEF Event, EventTypes, Typed
  <2>2. events' \in Seq(EventTypes)
    <3>1. /\ Event("slaves_changed", bus') \in EventTypes
          /\ Event("cycle_fault", NoSlaves) \in EventTypes
      BY <1>3, <2>1, ExchangeBrings, ListTypes DEF EventKinds
    <3>2. events \in Seq(EventTypes)
      BY DEF Typed
    <3>3. \A a, b \in EventTypes : events \o <<a, b>> \in Seq(EventTypes) /\ Append(events, a) \in Seq(EventTypes)
      BY <3>2
    <3>. QED BY <1>3, <3>1, <3>2, <3>3, ExchangeBrings
  <2>. QED BY <1>3, <2>2, ExchangeBrings DEF Typed
<1>4. CASE Exit
  BY <1>4, ListTypes DEF Exit, Typed, futVars
<1>. QED BY <1>1, <1>2, <1>3, <1>4 DEF Loop

LEMMA ClientTyped ==
  ASSUME Typed, NEW c \in Clients, NEW op, NEW a, NEW s,
         Submit(c, op, a, s) \/ Cancel(c) \/ Collect(c) \/ PollEvents \/ MarkStalled \/ Shutdown
           \/ UNCHANGED vars
  PROVE  Typed'
<1>1. CASE Collect(c)
  <2>1. UNCHANGED <<cyc, cycSession, conn, bus, events>> /\ res' = [res EXCEPT ![c] = NoSlaves]
    BY <1>1 DEF Collect, loopVars, cycleVars, busVars
  <2>. QED BY <2>1, ListTypes DEF Typed
<1>2. CASE Submit(c, op, a, s) \/ Cancel(c) \/ PollEvents \/ MarkStalled \/ Shutdown \/ UNCHANGED vars
  <2>1. UNCHANGED <<res, cyc, cycSession, conn, bus>> /\ (events' = events \/ events' = << >>)
    <3>1. UNCHANGED <<res, cyc, cycSession, conn, bus>>
      BY <1>2 DEF Submit, Cancel, PollEvents, MarkStalled, Shutdown, vars, loopVars, futVars, cycleVars, busVars
    <3>2. events' = events \/ events' = << >>
      BY <1>2 DEF Submit, Cancel, PollEvents, MarkStalled, Shutdown, vars, loopVars, futVars, cycleVars, busVars
    <3>. QED BY <3>1, <3>2
  <2>2. events' \in Seq(EventTypes)
    <3>1. << >> \in Seq(EventTypes) /\ events \in Seq(EventTypes)
      BY DEF Typed
    <3>. QED BY <2>1, <3>1
  <2>. QED BY <2>1, <2>2 DEF Typed
<1>. QED BY <1>1, <1>2

LEMMA InitTyped ==
  ASSUME Init
  PROVE  Typed
<1>1. cyc \in BOOLEAN /\ conn \in BOOLEAN
  BY Zenon DEF Init
<1>. QED BY <1>1, ListTypes DEF Init, Typed

-----------------------------------------------------------------------------
(* The tasks of the thread, wherever they are                                 *)

Around == {queue[i] : i \in 1 .. Len(queue)} \cup {held}

LEMMA PlacesAround ==
  ASSUME Placed
  PROVE  /\ \A t \in Around : t \in Tasks /\ \E i \in 0 .. Len(queue) : At(i) = t
         /\ \A i \in 0 .. Len(queue) : At(i) \in Around
<1>1. queue \in Seq(Tasks) /\ Len(queue) \in Nat /\ held \in Tasks
  BY DEF Placed
<1>2. \A i \in 1 .. Len(queue) : queue[i] \in Tasks
  BY <1>1
<1>. QED BY <1>1, <1>2 DEF Around, At

\* A request that a client has not given up is one that it waits for.
LEMMA LiveIsWaiting ==
  ASSUME Placed, NEW t \in Around, t.live, t.owner \in Clients
  PROVE  fut[t.owner] \in Waiting
<1>1. PICK i \in 0 .. Len(queue) : Holds(t.owner, i)
  BY PlacesAround DEF Holds
<1>. QED BY <1>1 DEF Placed

LEMMA InsertedAround ==
  ASSUME queue \in Seq(Tasks), NEW t \in Tasks, queue' = Enqueued(t) \/ queue' = PutBack(t)
  PROVE  {queue'[i] : i \in 1 .. Len(queue')} = {queue[i] : i \in 1 .. Len(queue)} \cup {t}
<1>1. PICK n \in 0 .. Len(queue) : queue' = InsertAfter(n, t)
  BY PlacesInQueue DEF Enqueued, PutBack
<1>2. /\ Len(queue) \in Nat /\ Len(queue') = Len(queue) + 1 /\ queue'[n + 1] = t
      /\ \A i \in 1 .. n : queue'[i] = queue[i]
      /\ \A i \in n + 1 .. Len(queue) : queue'[i + 1] = queue[i]
  BY <1>1, InsertGives
<1>3. ASSUME NEW i \in 1 .. Len(queue')
      PROVE  queue'[i] \in {queue[j] : j \in 1 .. Len(queue)} \cup {t}
  <2>1. CASE i \in 1 .. n
    BY <1>2, <2>1
  <2>2. CASE i = n + 1
    BY <1>2, <2>2
  <2>3. CASE i \in n + 2 .. Len(queue')
    <3> DEFINE k == i - 1
    <3>1. k \in n + 1 .. Len(queue) /\ k + 1 = i /\ k \in 1 .. Len(queue)
      BY <1>2, <2>3
    <3> HIDE DEF k
    <3>. QED BY <1>2, <3>1
  <2>. QED BY <1>2, <2>1, <2>2, <2>3
<1>4. ASSUME NEW j \in 1 .. Len(queue)
      PROVE  queue[j] \in {queue'[i] : i \in 1 .. Len(queue')}
  <2>1. CASE j \in 1 .. n
    BY <1>2, <2>1
  <2>2. CASE j \in n + 1 .. Len(queue)
    <3>1. queue'[j + 1] = queue[j] /\ j + 1 \in 1 .. Len(queue')
      BY <1>2, <2>2
    <3>. QED BY <3>1
  <2>. QED BY <1>2, <2>1, <2>2
<1>5. t \in {queue'[i] : i \in 1 .. Len(queue')}
  <2>1. n + 1 \in 1 .. Len(queue')
    BY <1>2
  <2>. QED BY <1>2, <2>1
<1>. QED BY <1>3, <1>4, <1>5

LEMMA TailAround ==
  ASSUME queue \in Seq(Tasks), queue # << >>, queue' = Tail(queue)
  PROVE  /\ {queue'[i] : i \in 1 .. Len(queue')} \subseteq {queue[i] : i \in 1 .. Len(queue)}
         /\ Head(queue) \in {queue[i] : i \in 1 .. Len(queue)}
<1>1. Len(queue) \in Nat \ {0} /\ Len(queue') = Len(queue) - 1 /\ Head(queue) = queue[1]
  OBVIOUS
<1>2. \A i \in 1 .. Len(queue') : queue'[i] = queue[i + 1] /\ i + 1 \in 1 .. Len(queue)
  BY <1>1
<1>. QED BY <1>1, <1>2

\* The thread moves tasks and drops them; it makes none up.
LEMMA LoopAround ==
  ASSUME Placed, Loop
  PROVE  Around' \subseteq Around \cup {NoTask}
<1>1. queue \in Seq(Tasks) /\ held \in Tasks
  BY DEF Placed
<1>2. CASE queue' = queue /\ held' \in {held, NoTask}
  BY <1>2 DEF Around
<1>3. CASE queue' = << >> /\ held' = held
  <2>1. Len(queue') = 0
    BY <1>3
  <2>. QED BY <1>3, <2>1 DEF Around
<1>4. CASE queue # << >> /\ queue' = Tail(queue) /\ held' \in {Head(queue), NoTask}
  BY <1>1, <1>4, TailAround DEF Around
<1>5. CASE queue' = PutBack(held) /\ held' = NoTask
  BY <1>1, <1>5, InsertedAround DEF Around
<1>6. CASE StartOk \/ StartFail \/ Die \/ Due \/ Exchange \/ Exit
  BY <1>2, <1>6 DEF StartOk, StartFail, Die, Due, Exchange, Exit
<1>7. CASE Drain
  BY <1>3, <1>7 DEF Drain
<1>8. CASE Poll \/ PollControl \/ Take
  BY <1>2, <1>4, <1>8 DEF Poll, PollControl, Take, Begin
<1>9. CASE Reput
  BY <1>5, <1>9 DEF Reput
<1>10. CASE Finish
  <2>1. PICK o, v : Answer(o, v)
    BY <1>10, FinishAnswers
  <2>. QED BY <1>2, <2>1 DEF Answer
<1>. QED BY <1>6, <1>7, <1>8, <1>9, <1>10 DEF Loop

LEMMA ClientAround ==
  ASSUME Placed, NEW c \in Clients, NEW op, NEW a, NEW s
  PROVE  /\ Submit(c, op, a, s) /\ Task(c, op, a, s) \in Tasks
              => Around' \subseteq Around \cup {Task(c, op, a, s)}
         /\ Shutdown => Around' \subseteq Around \cup {Wake}
         /\ Cancel(c) => \A t \in Around' : \E u \in Around : t = Orphan(c, u)
         /\ Collect(c) \/ PollEvents \/ MarkStalled => Around' = Around
<1>1. queue \in Seq(Tasks) /\ held \in Tasks
  BY DEF Placed
<1>2. Submit(c, op, a, s) /\ Task(c, op, a, s) \in Tasks
              => Around' \subseteq Around \cup {Task(c, op, a, s)}
  BY <1>1, InsertedAround DEF Submit, Around
<1>3. Shutdown => Around' \subseteq Around \cup {Wake}
  <2>1. Wake \in Tasks
    BY DEF Wake, Tasks, AlStates
  <2>. QED BY <1>1, <2>1, InsertedAround DEF Shutdown, Around
<1>4. ASSUME Cancel(c), NEW t \in Around'
      PROVE  \E u \in Around : t = Orphan(c, u)
  <2>1. /\ queue' = [i \in 1 .. Len(queue) |-> Orphan(c, queue[i])] /\ held' = Orphan(c, held)
        /\ Len(queue) \in Nat
    BY <1>1, <1>4 DEF Cancel
  <2>2. Len(queue') = Len(queue)
    BY <2>1
  <2>. QED BY <1>4, <2>1, <2>2 DEF Around
<1>5. Collect(c) \/ PollEvents \/ MarkStalled => Around' = Around
  BY DEF Collect, PollEvents, MarkStalled, loopVars, Around
<1>. QED BY <1>2, <1>3, <1>4, <1>5

\* Futures are answered only by the operation that was asked for, but for the
\* requests that a worker fails that never started.
LEMMA LoopFutures ==
  ASSUME Placed, Loop
  PROVE  \/ /\ UNCHANGED res
            /\ \A c \in Clients : fut'[c] = fut[c] \/ (fut[c] = "pending" /\ fut'[c] \in {"running", "failed"})
         \/ Finish
<1>0. queue \in Seq(Tasks) /\ held \in Tasks /\ fut \in [Clients -> FutStates] /\ Len(queue) \in Nat
  BY DEF Placed
<1>1. CASE StartOk \/ StartFail \/ Die \/ Due \/ Exchange \/ Exit \/ Reput \/ Poll
  BY <1>1 DEF StartOk, StartFail, Die, Due, Exchange, Exit, Reput, Poll, futVars
<1>2. ASSUME queue # << >>, wpc # "run", Begin(Head(queue))
      PROVE  /\ UNCHANGED res
             /\ \A c \in Clients : fut'[c] = fut[c] \/ (fut[c] = "pending" /\ fut'[c] \in {"running", "failed"})
  <2>1. UNCHANGED res
    BY <1>2 DEF Begin
  <2>2. CASE fut' = fut
    BY <2>1, <2>2
  <2>3. CASE Head(queue).live /\ fut' = Settled(fut, Head(queue), "running")
    <3>1. ASSUME NEW c \in Clients, c = Head(queue).owner
          PROVE  fut[c] = "pending"
      <4>1. Head(queue) \in Around
        <5>1. Head(queue) = queue[1] /\ 1 \in 1 .. Len(queue)
          BY <1>0, <1>2
        <5>. QED BY <5>1 DEF Around
      <4>2. fut[c] \in Waiting
        BY <2>3, <3>1, <4>1, LiveIsWaiting
      <4>3. fut[c] # "running"
        BY <1>2 DEF Placed
      <4>. QED BY <4>2, <4>3 DEF Waiting
    <3>2. \A c \in Clients : fut'[c] = IF c = Head(queue).owner THEN "running" ELSE fut[c]
      BY <2>3 DEF Settled
    <3>. QED BY <2>1, <3>1, <3>2
  <2>. QED BY <1>2, <2>2, <2>3 DEF Begin
<1>3. CASE PollControl \/ Take
  <2>1. CASE queue = << >>
    BY <1>3, <2>1 DEF PollControl, Take, futVars
  <2>2. CASE queue # << >>
    BY <1>2, <1>3, <2>2 DEF PollControl, Take
  <2>. QED BY <2>1, <2>2
<1>4. CASE Drain
  <2>1. UNCHANGED res /\ wpc # "run" /\ fut' = [c \in Clients |-> IF c \in LiveOwners THEN "failed" ELSE fut[c]]
    BY <1>4 DEF Drain
  <2>2. ASSUME NEW c \in Clients, c \in LiveOwners
        PROVE  fut[c] = "pending"
    <3>1. PICK i \in 1 .. Len(queue) : queue[i].live /\ queue[i].owner = c
      BY <2>2 DEF LiveOwners
    <3>2. fut[c] \in Waiting
      BY <3>1, LiveIsWaiting DEF Around
    <3>3. fut[c] # "running"
      BY <2>1 DEF Placed
    <3>. QED BY <3>2, <3>3 DEF Waiting
  <2>. QED BY <2>1, <2>2
<1>. QED BY <1>1, <1>3, <1>4 DEF Loop

\* What an answer does to the futures and results.
LEMMA AnswerFutures ==
  ASSUME NEW o, NEW v, Answer(o, v)
  PROVE  /\ wpc = "run" /\ wpc' = "poll" /\ UNCHANGED stop
         /\ \A c \in Clients : /\ c = held.owner => fut'[c] = o /\ res'[c] = v
                               /\ c # held.owner => fut'[c] = fut[c] /\ res'[c] = res[c]
BY DEF Answer, Settled

\* The thread exchanges process data in a cycle only, and ends when it was told to.
Paced == (wpc = "exchange" => cyc) /\ (wpc = "exit" => stop)

LEMMA LoopPaced ==
  ASSUME Loop
  PROVE  /\ Paced'
         /\ stop' = stop
<1>1. CASE StartOk \/ StartFail \/ Drain \/ Die \/ Poll \/ PollControl \/ Reput \/ Due \/ Take
  <2>1. cyc' = cyc /\ stop' = stop
    BY <1>1 DEF StartOk, StartFail, Drain, Die, Poll, PollControl, Reput, Due, Take, Begin, cycleVars
  <2>2. (wpc' = "exchange" => cyc) /\ (wpc' = "exit" => stop)
    BY <1>1 DEF StartOk, StartFail, Drain, Die, Poll, PollControl, Reput, Due, Take, Begin
  <2>3. (wpc' = "exchange" => cyc') /\ (wpc' = "exit" => stop')
    BY <2>1, <2>2, Zenon
  <2>. QED BY <2>1, <2>3 DEF Paced
<1>2. CASE Finish
  <2>1. PICK o, v : Answer(o, v)
    BY <1>2, FinishAnswers
  <2>. QED BY <2>1, AnswerFutures DEF Paced
<1>3. CASE Exchange \/ Exit
  BY <1>3 DEF Exchange, Exit, Paced
<1>. QED BY <1>1, <1>2, <1>3 DEF Loop

LEMMA ClientPaced ==
  ASSUME Paced, NEW c \in Clients, NEW op, NEW a, NEW s,
         Submit(c, op, a, s) \/ Cancel(c) \/ Collect(c) \/ PollEvents \/ MarkStalled \/ Shutdown
           \/ UNCHANGED vars
  PROVE  /\ Paced'
         /\ wpc' = wpc
         /\ UNCHANGED <<cyc, cycSession, conn, bus>>
         /\ stop' = stop \/ stop' = TRUE
<1>1. wpc' = wpc
  BY DEF Submit, Cancel, Collect, PollEvents, MarkStalled, Shutdown, vars, loopVars
<1>2. UNCHANGED <<cyc, cycSession, conn, bus>>
  BY DEF Submit, Cancel, Collect, PollEvents, MarkStalled, Shutdown, vars, cycleVars, busVars
<1>3. stop' = stop \/ stop' = TRUE
  BY DEF Submit, Cancel, Collect, PollEvents, MarkStalled, Shutdown, vars, loopVars
<1>4. cyc' = cyc
  BY <1>2
<1>5. wpc = "exchange" => cyc'
  <2>1. wpc = "exchange" => cyc
    BY DEF Paced
  <2>. QED BY <1>4, <2>1, Zenon
<1>6. wpc = "exit" => stop'
  <2>1. wpc = "exit" => stop
    BY DEF Paced
  <2>2. CASE stop' = stop
    BY <2>1, <2>2, Zenon
  <2>3. CASE stop' = TRUE
    BY <2>3, Zenon
  <2>. QED BY <1>3, <2>2, <2>3
<1>7. Paced'
  BY <1>1, <1>5, <1>6, Zenon DEF Paced
<1>. QED BY <1>1, <1>2, <1>3, <1>7

\* How a request begins.
LEMMA Beginning ==
  ASSUME Placed, Loop, wpc # "run", wpc' = "run"
  PROVE  /\ held' \in Around /\ held'.live /\ wpc \in {"poll", "take"}
         /\ held'.owner \in Clients => fut[held'.owner] = "pending"
<1>0. queue \in Seq(Tasks) /\ held \in Tasks /\ fut \in [Clients -> FutStates] /\ Len(queue) \in Nat
  BY DEF Placed
<1>1. \/ wpc = "poll" /\ queue # << >> /\ Begin(Head(queue))
      \/ wpc = "take" /\ queue # << >> /\ Begin(Head(queue))
  <2>1. Finish => wpc' = "poll"
    BY FinishAnswers, AnswerFutures
  <2>. QED BY <2>1 DEF Loop, StartOk, StartFail, Drain, Die, Poll, PollControl, Reput, Due, Take, Exchange, Exit
<1>2. held' = Head(queue) /\ Head(queue).live
  BY <1>1 DEF Begin
<1>3. Head(queue) \in Around
  <2>1. Head(queue) = queue[1] /\ 1 \in 1 .. Len(queue)
    BY <1>0, <1>1
  <2>. QED BY <2>1 DEF Around
<1>4. ASSUME held'.owner \in Clients
      PROVE  fut[held'.owner] = "pending"
  <2>1. fut[held'.owner] \in Waiting
    BY <1>2, <1>3, <1>4, LiveIsWaiting
  <2>2. fut[held'.owner] # "running"
    BY <1>4 DEF Placed
  <2>. QED BY <2>1, <2>2 DEF Waiting
<1>. QED BY <1>1, <1>2, <1>3, <1>4

-----------------------------------------------------------------------------
(* The theorems                                                               *)

\* Whatever fails, and in whatever order starts, stops, exchanges and other
\* operations come: slaves that a cycle may have left in OP are remembered for as
\* long as the adapter is open.
THEOREM SafeStateIsRemembered == Spec => []SafeStateRemembered
<1>1. Inv => SafeStateRemembered
  BY DEF Inv, SafeStateRemembered
<1>. QED BY <1>1, InitInv, NextInv, PTL DEF Spec

\* A client that waits is waited for: whatever is submitted, cancelled, put back,
\* refused, drained or answered, and in whatever order, its request is in one
\* place, and no request is left without a client.
THEOREM RequestsAreKept == Spec => []NoLostRequest
<1>. QED BY InitPlaced, NextPlaced, PlacedIsNotLost, PTL DEF Spec

\* A thread that has ended, however it ended, has let go of the adapter.
THEOREM EndedReleases == Spec => [](wpc = "dead" => ~conn)
<1>1. Inv => (wpc = "dead" => ~conn)
  BY DEF Inv, Outside
<1>. QED BY <1>1, InitInv, NextInv, PTL DEF Spec
=============================================================================
