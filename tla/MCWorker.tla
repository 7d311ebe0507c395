------------------------------ MODULE MCWorker ------------------------------
(* Worker with two clients, one bus and one session.  A behaviour stays      *)
(* within one scenario: the operations that are requested, how many clients  *)
(* request them at a time, and whether clients may give up waiting.          *)
(* bypassed counts, while a start or stop request waits, the exchanges and   *)
(* the other requests that the thread begins, up to two: the history that    *)
(* RequestsServed is about.                                                  *)
EXTENDS Worker, FiniteSets, TLC

CONSTANT Scenarios      \* those that a run explores

ASSUME ScenariosAssumption == \A s \in Scenarios : s.ops \subseteq ClientOps

VARIABLES scenario, bypassed

mcVars == <<vars, scenario, bypassed>>

Contention == [ops |-> {"auto_scan", "start", "stop", "probe"}, clients |-> 2, impatient |-> TRUE]
Backend == [ops |-> ClientOps, clients |-> 1, impatient |-> FALSE]
Service == [ops |-> {"auto_scan", "start", "stop"}, clients |-> 2, impatient |-> FALSE]

Safety == {Contention, Backend}
Liveness == {Service}

Within(s) ==
  /\ Cardinality({c \in Clients : fut'[c] # "none"}) <= s.clients
  /\ s.impatient \/ \A c \in Clients : fut[c] = "pending" => fut'[c] # "none"

ControlWaits == \E c \in Clients : Controls(c)

BeginsOther ==
  \/ wpc = "due" /\ wpc' = "exchange"
  \/ wpc # "run" /\ wpc' = "run" /\ held'.op \notin {"start", "stop", "wake"}

MCInit == Init /\ scenario \in Scenarios /\ bypassed = 0

MCNext ==
  /\ Loop \/ Requests(scenario.ops) \/ Supervision
  /\ Within(scenario)
  /\ bypassed' = IF ~ControlWaits' THEN 0
                 ELSE IF ControlWaits /\ BeginsOther /\ bypassed < 2 THEN bypassed + 1
                 ELSE bypassed
  /\ UNCHANGED scenario

MCSpec == MCInit /\ [][MCNext]_mcVars

MCFairSpec == MCSpec /\ Fairness

\* No request is lost or served twice, whoever puts it back, gives it up or
\* shuts down meanwhile; and however late the exchange is and whatever else is
\* queued, a start or stop request is overtaken by one exchange or one request
\* at most (the one that the loop had already chosen).
RequestsServed == NoLostRequest /\ bypassed <= 1

Symmetry == Permutations(Clients)
=============================================================================
