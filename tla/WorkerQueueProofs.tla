------------------------- MODULE WorkerQueueProofs -------------------------
(* Proofs about the order in which the worker serves its queue: for every     *)
(* number of clients, every length of the queue and every set of operations,  *)
(* a start or stop request that waits is overtaken by one exchange at most,   *)
(* and by no other request.                                                   *)
EXTENDS WorkerProofs, MCWorker

-----------------------------------------------------------------------------
(* The invariant                                                              *)

Rank(i) == PriorityOf(queue[i])

\* The queue is in the order of the priorities.
Sorted == \A i, j \in 1 .. Len(queue) : i <= j => Rank(i) <= Rank(j)

\* What the thread puts back is no control request.
InOrder == Sorted /\ (wpc = "reput" => ~IsControl(held))

\* Once it was overtaken, a control request is the next: the thread is not between
\* its look at the queue and the next exchange.
OvertakenOnce ==
  /\ bypassed \in {0, 1}
  /\ ~ControlWaits => bypassed = 0
  /\ bypassed = 1 => wpc \notin {"reput", "due"}

ServedInv == Placed /\ InOrder /\ OvertakenOnce

LEMMA PrioritiesAreNumbers == \A t : PriorityOf(t) \in {0, 10, 20, 50}
BY DEF PriorityOf

-----------------------------------------------------------------------------
(* The order of the queue                                                     *)

\* What comes down to one is an interval.
LEMMA DownwardIsInterval ==
  ASSUME NEW n \in Nat, NEW S, S \subseteq 1 .. n, \A i \in S : \A j \in 1 .. i : j \in S
  PROVE  Cardinality(S) \in 0 .. n /\ S = 1 .. Cardinality(S)
<1>1. ASSUME NEW k \in Nat
      PROVE  IsFiniteSet(1 .. k) /\ Cardinality(1 .. k) = k
  <2>1. 1 \in Int /\ k \in Int
    OBVIOUS
  <2>2. IsFiniteSet(1 .. k) /\ Cardinality(1 .. k) = IF 1 > k THEN 0 ELSE k - 1 + 1
    BY <2>1, FS_Interval
  <2>. QED BY <2>2
<1>2. IsFiniteSet(S) /\ Cardinality(S) <= n
  <2> DEFINE all == 1 .. n
  <2>1. IsFiniteSet(all) /\ Cardinality(all) = n /\ S \in SUBSET all
    BY <1>1
  <2> HIDE DEF all
  <2>2. IsFiniteSet(S) /\ Cardinality(S) <= Cardinality(all)
    BY <2>1, FS_Subset
  <2>. QED BY <2>1, <2>2
<1>3. Cardinality(S) \in Nat
  BY <1>2, FS_CardinalityType
<1> DEFINE m == Cardinality(S)
<1>4. ASSUME NEW i \in S
      PROVE  i \in 1 .. m
  <2>1. i \in Nat /\ 1 .. i \subseteq S
    OBVIOUS
  <2>2. Cardinality(1 .. i) <= m /\ Cardinality(1 .. i) = i
    BY <1>1, <1>2, <2>1, FS_Subset
  <2>. QED BY <1>3, <2>1, <2>2
<1>5. S \subseteq 1 .. m
  BY <1>4
<1>6. IsFiniteSet(1 .. m) /\ Cardinality(1 .. m) = m
  BY <1>1, <1>3
<1>7. S = 1 .. m
  BY <1>5, <1>6, FS_Subset DEF m
<1>. QED BY <1>2, <1>3, <1>7

\* A task that is inserted at its place
LEMMA InsertedStaysSorted ==
  ASSUME queue \in Seq(Tasks), Sorted, NEW t \in Tasks, NEW n \in 0 .. Len(queue),
         \A i \in 1 .. n : Rank(i) <= PriorityOf(t),
         \A i \in n + 1 .. Len(queue) : PriorityOf(t) <= Rank(i),
         queue' = InsertAfter(n, t)
  PROVE  Sorted'
<1> DEFINE p(i) == PriorityOf(queue[i])
           q(i) == PriorityOf(queue'[i])
           k == PriorityOf(t)
           l == Len(queue)
<1>1. /\ l \in Nat /\ Len(queue') = l + 1 /\ q(n + 1) = k
      /\ \A i \in 1 .. n : q(i) = p(i)
      /\ \A i \in n + 1 .. l : q(i + 1) = p(i)
  BY InsertGives
<1>2. k \in Nat /\ \A i : p(i) \in Nat /\ q(i) \in Nat
  BY PrioritiesAreNumbers
<1>3. \A i, j \in 1 .. l : i <= j => p(i) <= p(j)
  BY DEF Sorted, Rank
<1>4. /\ \A i \in 1 .. n : p(i) <= k
      /\ \A i \in n + 1 .. l : k <= p(i)
  BY DEF Rank
<1>5. Sorted' <=> \A i, j \in 1 .. l + 1 : i <= j => q(i) <= q(j)
  BY <1>1 DEF Sorted, Rank
<1> HIDE DEF p, q, k, l
<1>6. ASSUME NEW j \in n + 2 .. l + 1
      PROVE  q(j) = p(j - 1) /\ j - 1 \in n + 1 .. l
  <2> DEFINE i == j - 1
  <2>1. i \in n + 1 .. l /\ i + 1 = j
    BY <1>1, l = Len(queue) DEF l
  <2> HIDE DEF i
  <2>2. q(i + 1) = p(i)
    BY <1>1, <2>1
  <2>. QED BY <2>1, <2>2 DEF i
<1>7. n \in 0 .. l
  BY DEF l
<1>8. ASSUME NEW i \in 1 .. l + 1, NEW j \in 1 .. l + 1, i <= j
      PROVE  q(i) <= q(j)
  <2>1. CASE j <= n
    BY <1>1, <1>3, <1>7, <1>8, <2>1
  <2>2. CASE j = n + 1
    BY <1>1, <1>2, <1>4, <1>7, <1>8, <2>2
  <2>3. CASE j > n + 1
    <3>1. q(j) = p(j - 1) /\ j - 1 \in n + 1 .. l
      BY <1>1, <1>6, <1>7, <2>3
    <3>2. CASE i <= n
      BY <1>1, <1>3, <1>7, <1>8, <3>1, <3>2
    <3>3. CASE i = n + 1
      BY <1>1, <1>4, <1>7, <3>1, <3>3
    <3>4. CASE i > n + 1
      <4>1. q(i) = p(i - 1) /\ i - 1 \in n + 1 .. l
        BY <1>1, <1>6, <1>7, <3>4
      <4>. QED BY <1>1, <1>3, <1>7, <1>8, <3>1, <4>1
    <3>. QED BY <1>1, <1>7, <3>2, <3>3, <3>4
  <2>. QED BY <1>1, <1>7, <2>1, <2>2, <2>3
<1>. QED BY <1>5, <1>8

\* A new task goes behind those of its priority, one put back before them.
LEMMA QueuedStaysSorted ==
  ASSUME queue \in Seq(Tasks), Sorted, NEW t \in Tasks, queue' = Enqueued(t) \/ queue' = PutBack(t)
  PROVE  Sorted'
<1> DEFINE k == PriorityOf(t)
           before == {i \in 1 .. Len(queue) : Rank(i) < k}
           upTo == {i \in 1 .. Len(queue) : Rank(i) <= k}
<1>1. Len(queue) \in Nat /\ k \in Nat /\ \A i : Rank(i) \in Nat
  BY PrioritiesAreNumbers DEF Rank
<1>2. \A i, j \in 1 .. Len(queue) : i <= j => Rank(i) <= Rank(j)
  BY DEF Sorted
<1> HIDE DEF k
<1>3. \A i \in before : \A j \in 1 .. i : j \in before
  BY <1>1, <1>2
<1>4. \A i \in upTo : \A j \in 1 .. i : j \in upTo
  BY <1>1, <1>2
<1>5. /\ Cardinality(before) \in 0 .. Len(queue) /\ before = 1 .. Cardinality(before)
      /\ Cardinality(upTo) \in 0 .. Len(queue) /\ upTo = 1 .. Cardinality(upTo)
  BY <1>1, <1>3, <1>4, DownwardIsInterval
<1>6. \/ queue' = InsertAfter(Cardinality(before), t)
      \/ queue' = InsertAfter(Cardinality(upTo), t)
  BY DEF Enqueued, PutBack, Rank, k
<1>7. /\ \A i \in before : Rank(i) <= PriorityOf(t)
      /\ \A i \in 1 .. Len(queue) : i \notin before => PriorityOf(t) <= Rank(i)
      /\ \A i \in upTo : Rank(i) <= PriorityOf(t)
      /\ \A i \in 1 .. Len(queue) : i \notin upTo => PriorityOf(t) <= Rank(i)
  BY <1>1 DEF k
<1> HIDE DEF before, upTo
<1>8. CASE queue' = InsertAfter(Cardinality(before), t)
  <2> DEFINE n == Cardinality(before)
  <2>1. n \in 0 .. Len(queue) /\ before = 1 .. n
    BY <1>5
  <2>2. queue' = InsertAfter(n, t)
    BY <1>8
  <2> HIDE DEF n
  <2>3. /\ \A i \in 1 .. n : Rank(i) <= PriorityOf(t)
        /\ \A i \in n + 1 .. Len(queue) : PriorityOf(t) <= Rank(i)
    BY <1>1, <1>7, <2>1
  <2>. QED BY <2>1, <2>2, <2>3, InsertedStaysSorted
<1>9. CASE queue' = InsertAfter(Cardinality(upTo), t)
  <2> DEFINE n == Cardinality(upTo)
  <2>1. n \in 0 .. Len(queue) /\ upTo = 1 .. n
    BY <1>5
  <2>2. queue' = InsertAfter(n, t)
    BY <1>9
  <2> HIDE DEF n
  <2>3. /\ \A i \in 1 .. n : Rank(i) <= PriorityOf(t)
        /\ \A i \in n + 1 .. Len(queue) : PriorityOf(t) <= Rank(i)
    BY <1>1, <1>7, <2>1
  <2>. QED BY <2>1, <2>2, <2>3, InsertedStaysSorted
<1>. QED BY <1>6, <1>8, <1>9

LEMMA TailStaysSorted ==
  ASSUME queue \in Seq(Tasks), Sorted, queue # << >>, queue' = Tail(queue)
  PROVE  Sorted'
<1>1. /\ Len(queue) \in Nat /\ Len(queue') = Len(queue) - 1
      /\ \A i \in 1 .. Len(queue') : queue'[i] = queue[i + 1] /\ i + 1 \in 1 .. Len(queue)
  OBVIOUS
<1>2. \A i \in 1 .. Len(queue') : Rank(i)' = Rank(i + 1)
  BY <1>1 DEF Rank
<1>. QED BY <1>1, <1>2 DEF Sorted

\* A cancelled task keeps its priority.
LEMMA CancelStaysSorted ==
  ASSUME queue \in Seq(Tasks), held \in Tasks, Sorted, NEW c, Cancel(c)
  PROVE  Sorted' /\ (IsControl(held)' <=> IsControl(held))
<1>1. \A t \in Tasks : PriorityOf(Orphan(c, t)) = PriorityOf(t)
  <2> SUFFICES ASSUME NEW t \in Tasks
               PROVE  Orphan(c, t).op = t.op
    BY DEF PriorityOf
  <2>. QED BY DEF Orphan, Tasks
<1>2. /\ Len(queue) \in Nat /\ queue' = [i \in 1 .. Len(queue) |-> Orphan(c, queue[i])]
      /\ \A i \in 1 .. Len(queue) : queue[i] \in Tasks
  BY DEF Cancel
<1>3. Len(queue') = Len(queue) /\ \A i \in 1 .. Len(queue) : Rank(i)' = Rank(i)
  BY <1>1, <1>2 DEF Rank
<1>4. held' = Orphan(c, held)
  BY DEF Cancel
<1>5. IsControl(held)' <=> IsControl(held)
  BY <1>1, <1>4 DEF IsControl
<1>. QED BY <1>3, <1>5 DEF Sorted

-----------------------------------------------------------------------------
(* The steps                                                                  *)

\* Steps that leave the queue and what is to be put back
LEMMA StillStaysInOrder ==
  ASSUME InOrder, UNCHANGED <<queue, held>>, wpc' = "reput" => wpc = "reput"
  PROVE  InOrder'
<1>1. Sorted'
  BY DEF InOrder, Sorted, Rank
<1>. QED BY <1>1 DEF InOrder, IsControl

LEMMA TaskTyped ==
  ASSUME NEW c \in Clients, NEW op \in ClientOps, NEW al \in AlStates, NEW s \in Sessions
  PROVE  Task(c, op, al, s) \in Tasks
BY WorkerAssumption DEF Task, Tasks

LEMMA WakeTyped == Wake \in Tasks
BY DEF Wake, Tasks, AlStates

LEMMA LoopStaysInOrder ==
  ASSUME Placed, InOrder, Loop
  PROVE  InOrder'
<1>0. queue \in Seq(Tasks) /\ held \in Tasks /\ Sorted
  BY DEF Placed, InOrder
<1>1. CASE StartOk \/ StartFail \/ Die \/ Due \/ Exchange \/ Exit
  BY <1>1, StillStaysInOrder DEF StartOk, StartFail, Die, Due, Exchange, Exit
<1>2. CASE Finish
  <2>1. PICK o, v : Answer(o, v)
    BY <1>2, FinishAnswers
  <2>2. queue' = queue /\ wpc' = "poll"
    BY <2>1 DEF Answer
  <2>3. Sorted'
    BY <1>0, <2>2 DEF Sorted, Rank
  <2>. QED BY <2>2, <2>3 DEF InOrder
<1>3. CASE Drain
  <2>1. queue' = << >> /\ wpc' = "dying"
    BY <1>3 DEF Drain
  <2>2. Sorted'
    BY <2>1 DEF Sorted
  <2>. QED BY <2>1, <2>2 DEF InOrder
<1>4. ASSUME queue # << >>, Begin(Head(queue))
      PROVE  InOrder'
  <2>1. queue' = Tail(queue) /\ wpc' \in {"run", "poll"}
    BY <1>4 DEF Begin
  <2>2. Sorted'
    BY <1>0, <1>4, <2>1, TailStaysSorted
  <2>. QED BY <2>1, <2>2 DEF InOrder
<1>5. CASE PollControl
  BY <1>4, <1>5 DEF PollControl
<1>6. CASE Take
  <2>1. CASE queue # << >>
    BY <1>4, <1>6, <2>1 DEF Take
  <2>2. CASE queue = << >>
    BY <1>6, <2>2, StillStaysInOrder DEF Take
  <2>. QED BY <2>1, <2>2
<1>7. CASE Poll
  <2>1. CASE UNCHANGED <<queue, held>> /\ wpc' # "reput"
    BY <2>1, StillStaysInOrder
  <2>2. CASE queue # << >> /\ ~IsControl(Head(queue)) /\ held' = Head(queue) /\ queue' = Tail(queue)
    <3>1. Sorted'
      BY <1>0, <2>2, TailStaysSorted
    <3>2. ~IsControl(held)'
      BY <2>2 DEF IsControl
    <3>. QED BY <3>1, <3>2 DEF InOrder
  <2>. QED BY <1>7, <2>1, <2>2 DEF Poll
<1>8. CASE Reput
  <2>1. queue' = PutBack(held) /\ wpc' = "due"
    BY <1>8 DEF Reput
  <2>2. Sorted'
    BY <1>0, <2>1, QueuedStaysSorted
  <2>. QED BY <2>1, <2>2 DEF InOrder
<1>. QED BY <1>1, <1>2, <1>3, <1>5, <1>6, <1>7, <1>8 DEF Loop

\* What the clients and the supervision do, with any operations
LEMMA OthersStayInOrder ==
  ASSUME Placed, InOrder, NEW ops, ops \subseteq ClientOps, Requests(ops) \/ Supervision
  PROVE  InOrder' /\ wpc' = wpc
<1>0. queue \in Seq(Tasks) /\ held \in Tasks /\ Sorted
  BY DEF Placed, InOrder
<1>1. ASSUME NEW t \in Tasks, queue' = queue \/ queue' = Enqueued(t), UNCHANGED <<held, wpc>>
      PROVE  InOrder'
  <2>1. CASE queue' = queue
    BY <1>1, <2>1, StillStaysInOrder
  <2>2. CASE queue' = Enqueued(t)
    <3>1. Sorted'
      BY <1>0, <2>2, QueuedStaysSorted
    <3>. QED BY <1>1, <3>1 DEF InOrder, IsControl
  <2>. QED BY <1>1, <2>1, <2>2
<1>2. ASSUME NEW c \in Clients, NEW op \in ops, NEW al \in AlStates, NEW s \in Sessions, Submit(c, op, al, s)
      PROVE  InOrder' /\ wpc' = wpc
  <2>1. Task(c, op, al, s) \in Tasks
    BY TaskTyped
  <2>2. /\ queue' = queue \/ queue' = Enqueued(Task(c, op, al, s))
        /\ UNCHANGED <<held, wpc>>
    BY <1>2 DEF Submit
  <2>. QED BY <1>1, <2>1, <2>2
<1>3. ASSUME NEW c \in Clients, Cancel(c)
      PROVE  InOrder' /\ wpc' = wpc
  <2>1. wpc' = wpc
    BY <1>3 DEF Cancel
  <2>. QED BY <1>0, <1>3, <2>1, CancelStaysSorted DEF InOrder
<1>4. ASSUME NEW c \in Clients, Collect(c)
      PROVE  InOrder' /\ wpc' = wpc
  BY <1>4, StillStaysInOrder DEF Collect, loopVars
<1>5. CASE PollEvents \/ MarkStalled
  BY <1>5, StillStaysInOrder DEF PollEvents, MarkStalled, loopVars
<1>6. CASE Shutdown
  <2>1. (queue' = queue \/ queue' = Enqueued(Wake)) /\ UNCHANGED <<held, wpc>>
    BY <1>6 DEF Shutdown
  <2>. QED BY <1>1, <2>1, WakeTyped
<1>. QED BY <1>2, <1>3, <1>4, <1>5, <1>6 DEF Requests, Supervision

\* The placement of requests, whatever operations are asked for
LEMMA AnyStepPlaced ==
  ASSUME Placed, NEW ops, ops \subseteq ClientOps, Loop \/ Requests(ops) \/ Supervision
  PROVE  Placed'
<1>1. CASE Loop \/ Supervision
  BY <1>1, NextPlaced DEF Next
<1>2. CASE Requests(ops)
  BY <1>2, TaskTyped, SubmitStaysPlaced, CancelStaysPlaced, CollectStaysPlaced DEF Requests
<1>. QED BY <1>1, <1>2

-----------------------------------------------------------------------------
(* Who is overtaken                                                           *)

\* While a control request waits, the head of the queue is one, or a wake-up.
LEMMA ControlIsNext ==
  ASSUME Placed, InOrder, ControlWaits
  PROVE  queue # << >> /\ IsControl(Head(queue))
<1>0. queue \in Seq(Tasks) /\ Len(queue) \in Nat
  BY DEF Placed
<1>1. PICK c \in Clients : Controls(c)
  BY DEF ControlWaits
<1>2. PICK i \in 0 .. Len(queue) : Holds(c, i) /\ At(i).op \in {"start", "stop"}
  BY <1>1 DEF Controls, Places, Holds, At
<1>3. fut[c] = "pending"
  BY <1>1 DEF Controls
<1>4. IsControl(At(i))
  BY <1>2 DEF IsControl, PriorityOf
<1>5. i # 0
  <2> SUFFICES ASSUME i = 0
               PROVE  FALSE
    OBVIOUS
  <2>1. held.live /\ held.owner = c /\ IsControl(held)
    BY <1>2, <1>4 DEF Holds, At
  <2>2. wpc = "run"
    BY <2>1 DEF Placed, InOrder
  <2>3. fut[c] = "running"
    BY <2>1, <2>2 DEF Placed, RunsItsOwn
  <2>. QED BY <1>3, <2>3
<1>6. i \in 1 .. Len(queue) /\ Rank(i) <= 10
  BY <1>4, <1>5 DEF At, IsControl, Rank
<1>7. Rank(1) <= Rank(i) /\ 1 \in 1 .. Len(queue)
  BY <1>0, <1>6 DEF InOrder, Sorted
<1>8. Rank(1) <= 10
  BY <1>6, <1>7, PrioritiesAreNumbers DEF Rank
<1>. QED BY <1>0, <1>7, <1>8 DEF Rank, IsControl

\* Then the loop neither puts a task back nor comes to the next exchange by way of
\* the queue, and what it begins is the control request or a wake-up.
LEMMA ControlIsTaken ==
  ASSUME Placed, InOrder, ControlWaits, Loop
  PROVE  /\ wpc' \in {"reput", "due"} => wpc = "reput"
         /\ wpc # "run" /\ wpc' = "run" => held'.op \in {"start", "stop", "wake"}
<1>1. queue # << >> /\ IsControl(Head(queue))
  BY ControlIsNext
<1>2. IsControl(Head(queue)) => Head(queue).op \in {"start", "stop", "wake"}
  BY DEF IsControl, PriorityOf
<1>3. CASE Finish
  <2>1. wpc = "run" /\ wpc' = "poll"
    BY <1>3, FinishAnswers, AnswerFutures
  <2>. QED BY <2>1
<1>4. CASE PollControl \/ Take
  BY <1>1, <1>2, <1>4 DEF PollControl, Take, Begin
<1>5. CASE ~Finish /\ ~PollControl /\ ~Take
  BY <1>1, <1>5 DEF Loop, StartOk, StartFail, Drain, Die, Poll, Reput, Due, Exchange, Exit
<1>. QED BY <1>3, <1>4, <1>5

LEMMA StepOvertakesOnce ==
  ASSUME ServedInv, MCNext, NEW ops, ops \subseteq ClientOps, Loop \/ Requests(ops) \/ Supervision
  PROVE  OvertakenOnce'
<1>0. /\ bypassed \in {0, 1} /\ (~ControlWaits => bypassed = 0) /\ (bypassed = 1 => wpc \notin {"reput", "due"})
      /\ Placed /\ InOrder
  BY DEF ServedInv, OvertakenOnce
<1>1. bypassed' = IF ~ControlWaits' THEN 0
                  ELSE IF ControlWaits /\ BeginsOther /\ bypassed < 2 THEN bypassed + 1
                  ELSE bypassed
  BY DEF MCNext
<1>2. CASE ~ControlWaits'
  BY <1>1, <1>2 DEF OvertakenOnce
<1>3. CASE ControlWaits' /\ ~ControlWaits
  BY <1>0, <1>1, <1>3 DEF OvertakenOnce
<1>4. CASE ControlWaits' /\ ControlWaits
  <2>1. CASE Loop
    <3>1. /\ wpc' \in {"reput", "due"} => wpc = "reput"
          /\ wpc # "run" /\ wpc' = "run" => held'.op \in {"start", "stop", "wake"}
      BY <1>0, <1>4, <2>1, ControlIsTaken
    <3>2. CASE BeginsOther
      <4>1. wpc = "due" /\ wpc' = "exchange"
        BY <3>1, <3>2 DEF BeginsOther
      <4>2. bypassed' = 1
        BY <1>0, <1>1, <1>4, <3>2, <4>1
      <4>. QED BY <1>4, <4>1, <4>2 DEF OvertakenOnce
    <3>3. CASE ~BeginsOther
      <4>1. bypassed' = bypassed
        BY <1>1, <1>4, <3>3
      <4>. QED BY <1>0, <1>4, <3>1, <4>1 DEF OvertakenOnce
    <3>. QED BY <3>2, <3>3
  <2>2. CASE Requests(ops) \/ Supervision
    <3>1. wpc' = wpc
      BY <1>0, <2>2, OthersStayInOrder
    <3>2. ~BeginsOther
      BY <3>1 DEF BeginsOther
    <3>3. bypassed' = bypassed
      BY <1>1, <1>4, <3>2
    <3>. QED BY <1>0, <1>4, <3>1, <3>3 DEF OvertakenOnce
  <2>. QED BY <2>1, <2>2
<1>. QED BY <1>2, <1>3, <1>4

-----------------------------------------------------------------------------
(* The theorem                                                                *)

LEMMA InitServed == MCInit => ServedInv /\ scenario \in Scenarios
<1> SUFFICES ASSUME MCInit
             PROVE  ServedInv /\ scenario \in Scenarios
  OBVIOUS
<1>1. Init /\ scenario \in Scenarios /\ bypassed = 0
  BY DEF MCInit
<1>2. queue = << >> /\ wpc = "start"
  BY <1>1 DEF Init
<1>3. InOrder
  BY <1>2 DEF InOrder, Sorted
<1>. QED BY <1>1, <1>3, InitPlaced DEF ServedInv, OvertakenOnce

LEMMA NextServed ==
  ServedInv /\ scenario \in Scenarios /\ [MCNext]_mcVars => ServedInv' /\ (scenario \in Scenarios)'
<1> SUFFICES ASSUME ServedInv, scenario \in Scenarios, [MCNext]_mcVars
             PROVE  ServedInv' /\ (scenario \in Scenarios)'
  OBVIOUS
<1>1. CASE UNCHANGED mcVars
  <2>1. UNCHANGED vars /\ UNCHANGED <<scenario, bypassed>>
    BY <1>1 DEF mcVars
  <2>2. Placed'
    BY <2>1, NextPlaced DEF ServedInv
  <2>3. InOrder'
    BY <2>1, StillStaysInOrder DEF ServedInv, vars, loopVars
  <2>4. OvertakenOnce'
    BY <2>1 DEF ServedInv, OvertakenOnce, vars, loopVars, futVars, ControlWaits, Controls, Places
  <2>. QED BY <2>1, <2>2, <2>3, <2>4 DEF ServedInv
<1>2. CASE MCNext
  <2> DEFINE ops == scenario.ops
  <2>1. ops \subseteq ClientOps
    BY ScenariosAssumption
  <2>2. Loop \/ Requests(ops) \/ Supervision
    BY <1>2 DEF MCNext
  <2>3. UNCHANGED scenario
    BY <1>2 DEF MCNext
  <2> HIDE DEF ops
  <2>4. Placed' /\ InOrder'
    BY <2>1, <2>2, AnyStepPlaced, LoopStaysInOrder, OthersStayInOrder DEF ServedInv
  <2>5. OvertakenOnce'
    BY <1>2, <2>1, <2>2, StepOvertakesOnce
  <2>. QED BY <2>3, <2>4, <2>5 DEF ServedInv
<1>. QED BY <1>1, <1>2

\* Whatever is asked for, put back, given up or refused, and however late the
\* exchanges are: no request is lost or kept without its client, and one that
\* starts or stops the cycle is overtaken by one exchange at most.
THEOREM RequestsAreServed == MCSpec => []RequestsServed
<1>1. ServedInv => RequestsServed
  BY PlacedIsNotLost DEF ServedInv, OvertakenOnce, RequestsServed
<1>. QED BY <1>1, InitServed, NextServed, PTL DEF MCSpec
=============================================================================
