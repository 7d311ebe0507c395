---------------------------- MODULE MCUiSession ----------------------------
(* The requests of the UI with its updater, and the workbench.  A behaviour   *)
(* follows one scenario; the scenarios share nothing but this run.  Scenarios *)
(* "sessions" and "pages" send any requests, with and without changes of the  *)
(* core; "update" installs a new version while one other operation is sent;   *)
(* "workbench" is the frame around the pages.                                 *)
EXTENDS UiUpdate

CONSTANTS Slaves, WorkbenchSessions, MaxRequests

VARIABLES scenario, bus, wire, accepted, status, selected, requests, progress, caches

workbenchVars == <<bus, wire, accepted, status, selected, requests, progress, caches>>

W == INSTANCE Workbench WITH latest <- accepted, MaxSession <- WorkbenchSessions

MCInit == Init /\ W!Init /\ scenario \in {"sessions", "pages", "update", "workbench"}

Sent == {ops'[i].method : i \in DOMAIN ops' \ DOMAIN ops}
Quiet == core'.rev = 0 /\ core'.gen = 1

Scenario ==
  \/ /\ scenario = "sessions" /\ page' = 0
     /\ issued' <= 2 /\ Sent \subseteq {"scan", "stop_cycle"} /\ UNCHANGED updateVars
  \/ /\ scenario = "pages" /\ Quiet
     /\ issued' <= 3 /\ Sent \subseteq {"scan", "stop_cycle", "status"} /\ UNCHANGED updateVars
  \/ /\ scenario = "update" /\ Quiet /\ core'.up /\ page' = 0
     /\ ustate' = "preparing" \/ Sent \subseteq {"scan", "register_watch"}
     /\ Cardinality({i \in DOMAIN ops' : ops'[i].method \in {"scan", "register_watch"}}) <= 1
     /\ \A i \in DOMAIN answers' : answers'[i].phase # "cancelled"
     /\ autoCheck' # autoCheck => issued = 0 /\ ~available

MCNext ==
  /\ UNCHANGED scenario
  /\ \/ Next /\ Scenario /\ UNCHANGED workbenchVars
     \/ scenario = "workbench" /\ W!Next /\ Cardinality(wire') <= MaxEvents + 1 /\ UNCHANGED vars

MCSpec == MCInit /\ [][MCNext]_<<vars, workbenchVars, scenario>>

\* The lock of an EEPROM operation is held only while the answer of one is still
\* to come; the slaves shown are those of the session of the clock, and a refused
\* request of an earlier session marks none of them: also when answers, snapshots
\* and events of the sessions arrive late, and when the core is gone.
WorkbenchIsSound == W!ExclusiveIsReleased /\ W!SessionIsShown
=============================================================================
