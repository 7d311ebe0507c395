------------------------------ MODULE MCBridge ------------------------------
(* Bridge with two threads of the hardware pool and two buses.  A behaviour  *)
(* stays within one scenario: the commands that are sent, how many of them,  *)
(* how many threads are busy with them, how many probes the idle monitor     *)
(* makes, the buses there may be, whether a worker may fail to start, and    *)
(* whether the host may end the bridge.  Each scenario is small, and holds   *)
(* the commands that disturb one another.                                    *)
EXTENDS Bridge, FiniteSets, TLC

CONSTANT Scenarios      \* those that a run explores

VARIABLE scenario

mcVars == <<vars, scenario>>

Cycle(t) == [methods |-> {"auto_scan", "start_cycle", "stop_cycle", "request_state", "disconnect"},
             commands |-> 3, threads |-> 1, probes |-> 0, buses |-> {t},
             failing |-> FALSE, ending |-> FALSE]
Reset(t) == [Cycle(t) EXCEPT !.methods = {"auto_scan", "start_cycle", "register_reset"}]
Restart(t) == [Cycle(t) EXCEPT !.methods = {"auto_scan", "start_cycle", "switch_mode"},
                               !.ending = TRUE]
Pair(t) == [Cycle(t) EXCEPT !.methods = AllMethods, !.commands = 2, !.threads = 2, !.probes = 1]
Ending(t) == [Cycle(t) EXCEPT !.methods = {"auto_scan", "stop_cycle", "switch_mode", "eeprom_restore"},
                              !.commands = 2, !.threads = 2,
                              !.failing = TRUE, !.ending = TRUE]

TwoBuses(t) == [Cycle(t) EXCEPT !.buses = Topologies]
Reading(t) == [TwoBuses(t) EXCEPT !.methods = {"auto_scan", "scan", "read_states", "clear_error"},
                                  !.probes = 1]
Connection(t) == [TwoBuses(t) EXCEPT !.methods = {"connect", "scan", "reconfig", "disconnect"},
                                     !.threads = 2]
Events(t) == [TwoBuses(t) EXCEPT !.methods = {"auto_scan", "start_cycle", "disconnect"},
                                 !.commands = 4]
Programming(t) == [TwoBuses(t) EXCEPT
                     !.methods = {"auto_scan", "eeprom_flash", "eeprom_restore", "access"},
                     !.threads = 2, !.failing = TRUE]

Safety == UNION {{Cycle(t), Reset(t), Restart(t), Pair(t),
                  Reading(t), Connection(t), Events(t), Programming(t)} : t \in Topologies}
Liveness == {Ending(t) : t \in Topologies}
CycleOnly == {Cycle(t) : t \in Topologies}
RestartedCycle == {[Cycle(t) EXCEPT
                      !.methods = {"auto_scan", "start_cycle", "stop_cycle", "eeprom_restore"},
                      !.commands = 5] : t \in Topologies}

Within(s) ==
  /\ issued' <= s.commands /\ probes' <= s.probes
  /\ Cardinality({c \in Hardware : call'[c].stage # "idle"}) <= s.threads
  /\ bus' = NoSlaves \/ bus'.topo \in s.buses
  /\ wpc = "start" /\ wpc' = "drain" => s.failing
  /\ stopped' => s.ending

MCInit == Init /\ scenario \in Scenarios

MCNext ==
  /\ Requests(scenario.methods) \/ Steps
  /\ Within(scenario)
  /\ UNCHANGED scenario

MCSpec == MCInit /\ [][MCNext]_mcVars

MCFairSpec == MCSpec /\ Fairness

Symmetry == Permutations(Hardware) \cup Permutations(Topologies)
=============================================================================
