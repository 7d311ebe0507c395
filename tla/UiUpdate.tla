------------------------------ MODULE UiUpdate ------------------------------
(* The updater of App.tsx on top of the requests of the UI: it looks for a    *)
(* new version by itself or on demand, and installs it after communication    *)
(* has been stopped and the device disconnected.  The operation store refuses *)
(* device operations from the first step of an installation until it fails;   *)
(* when it succeeds the application restarts.  The plugin that finds and      *)
(* loads versions is external.                                                *)
EXTENDS UiRequests

\* What an installation sends.
ASSUME InstallAssumption == {"status", "stop_cycle", "disconnect"} \subseteq Methods

VARIABLES
  ustate,      \* updateState
  task,        \* updateTaskRef: what holds the updater, or "none"
  checked,     \* startupUpdateCheckedRef
  timer,       \* the automatic attempt is scheduled
  available,   \* availableUpdate: a version has been found
  handle,      \* the handle of the version that is being installed
  reminder,    \* pendingUpdateReminder
  dialog,      \* updateDialogOpen
  ignored,     \* the version found is the one that was ignored
  autoCheck,   \* autoCheckUpdates
  waitsFor     \* the request that an installation awaits

searchVars == <<checked, timer, autoCheck, ignored>>
updateVars == <<ustate, task, available, handle, reminder, dialog, waitsFor, searchVars>>
vars == <<requestVars, updateVars>>

UpdateInit ==
  /\ ustate = "idle" /\ task = "none" /\ timer = TRUE /\ checked = FALSE
  /\ available = FALSE /\ handle = "none" /\ waitsFor = 0
  /\ reminder = FALSE /\ dialog = FALSE /\ ignored = FALSE
  /\ autoCheck = TRUE

\* A new value of availableUpdate closes the handle it takes the place of.
SetAvailable(found) ==
  /\ available' = found
  /\ handle' = IF handle = "open" THEN "closed" ELSE handle

\* An automatic attempt gives way to one that is under way, and is over when a
\* version was looked for before.
AutomaticCheck ==
  /\ timer /\ timer' = FALSE
  /\ IF checked THEN UNCHANGED <<ustate, task, available, handle, reminder>>
     ELSE /\ task = "none" /\ task' = "automatic"
          /\ ustate' = "checking" /\ SetAvailable(FALSE) /\ reminder' = FALSE
  /\ UNCHANGED <<requestVars, checked, autoCheck, ignored, dialog, waitsFor>>

ManualCheck ==
  /\ task = "none" /\ task' = "manual"
  /\ checked' = TRUE
  /\ ustate' = "checking" /\ SetAvailable(FALSE) /\ reminder' = FALSE
  /\ UNCHANGED <<requestVars, timer, autoCheck, ignored, dialog, waitsFor>>

CheckEnds(found) ==
  /\ task \in {"automatic", "manual"} /\ task' = "none"
  /\ checked' = TRUE
  /\ IF ~found
     THEN ustate' = "latest" /\ dialog' = FALSE /\ UNCHANGED <<available, handle, reminder>>
     ELSE /\ ustate' = "available" /\ SetAvailable(TRUE)
          /\ reminder' = (task = "automatic" /\ ~ignored /\ autoCheck)
          /\ dialog' = (dialog \/ task = "manual")
  /\ UNCHANGED <<requestVars, timer, autoCheck, ignored, waitsFor>>

\* A failed automatic attempt is silent, and made again later.
CheckFails ==
  /\ task \in {"automatic", "manual"} /\ task' = "none"
  /\ ustate' = (IF task = "automatic" THEN "idle" ELSE "error")
  /\ timer' = (timer \/ task = "automatic")
  /\ dialog' = (dialog \/ task = "manual")
  /\ UNCHANGED <<requestVars, checked, autoCheck, ignored, available, handle, reminder, waitsFor>>

SetAutoCheck ==
  /\ autoCheck' = ~autoCheck
  /\ reminder' = (reminder /\ autoCheck')
  /\ UNCHANGED <<requestVars, ustate, task, checked, timer, ignored, available, handle, dialog,
                 waitsFor>>

\* The reminder waits until no device operation is under way.
Remind ==
  /\ reminder /\ ustate = "available" /\ ~ActiveHardware
  /\ reminder' = FALSE /\ dialog' = TRUE
  /\ UNCHANGED <<requestVars, searchVars, ustate, task, available, handle, waitsFor>>

CloseDialog(ignore) ==
  /\ dialog /\ dialog' = FALSE /\ reminder' = FALSE
  /\ ignore => available /\ task = "none" /\ ustate = "available"
  /\ ignored' = (ignored \/ ignore)
  /\ UNCHANGED <<requestVars, ustate, task, checked, timer, autoCheck, available, handle, waitsFor>>

-----------------------------------------------------------------------------
(* installUpdate                                                             *)

Asks(m) == Begin(m) /\ waitsFor' = issued'

\* Mutant of Install: the operations under way are not looked at.
InstallAtOnce ==
  /\ available /\ task = "none"
  /\ dialog /\ ustate \in {"available", "error"}
  /\ updating' = TRUE
  /\ task' = "install" /\ ustate' = "preparing" /\ reminder' = FALSE
  /\ Asks("status") /\ handle' = "open"
  /\ UNCHANGED <<searchVars, available, dialog>>

Install ==
  /\ available /\ task = "none" /\ ~ActiveHardware
  /\ dialog /\ ustate \in {"available", "error"}
  /\ updating' = TRUE
  /\ task' = "install" /\ ustate' = "preparing" /\ reminder' = FALSE
  /\ Asks("status") /\ handle' = "open"
  /\ UNCHANGED <<searchVars, available, dialog>>

Answered == waitsFor # 0 /\ waitsFor \in DOMAIN answers /\ answers[waitsFor].outcome # "none"

Returned == Answered /\ answers[waitsFor].outcome = "returned"

Step(i) == IF i \in DOMAIN ops THEN ops[i].method ELSE "none"

\* After the status, and after a cycle that ran has been stopped; what the
\* status said of the connection is the choice of the next step.
StopsCycle ==
  /\ Returned /\ Step(waitsFor) = "status" /\ Asks("stop_cycle")
  /\ UNCHANGED <<updating, searchVars, ustate, task, available, handle, reminder, dialog>>

Disconnects ==
  /\ Returned /\ Step(waitsFor) \in {"status", "stop_cycle"} /\ Asks("disconnect")
  /\ UNCHANGED <<updating, searchVars, ustate, task, available, handle, reminder, dialog>>

Download ==
  /\ Returned /\ ustate = "preparing"
  /\ ustate' = "downloading" /\ waitsFor' = 0
  /\ UNCHANGED <<requestVars, searchVars, task, available, handle, reminder, dialog>>

Downloaded ==
  /\ ustate = "downloading" /\ ustate' = "installing"
  /\ UNCHANGED <<requestVars, searchVars, task, available, handle, reminder, dialog, waitsFor>>

InstallFails ==
  /\ task = "install"
  /\ ustate = "preparing" => Answered /\ ~Returned
  /\ updating' = FALSE /\ task' = "none" /\ ustate' = "error" /\ dialog' = TRUE /\ waitsFor' = 0
  /\ handle' = "none"
  /\ UNCHANGED <<store, external, searchVars, available, reminder>>

-----------------------------------------------------------------------------

Init == RequestsInit /\ UpdateInit

\* No page change while an installation is prepared: it would end its requests.
Navigate == ustate # "preparing" /\ NextPage /\ UNCHANGED updateVars

\* The other callers: their buttons are disabled during an update.
Others ==
  /\ \E m \in Methods :
       Begin(m) /\ (updating => m \notin {"stop_cycle", "disconnect"}) /\ UNCHANGED updating
  /\ UNCHANGED updateVars

UpdateSteps ==
  \/ AutomaticCheck \/ ManualCheck \/ \E found \in BOOLEAN : CheckEnds(found)
  \/ CheckFails \/ SetAutoCheck \/ Remind \/ \E ignore \in BOOLEAN : CloseDialog(ignore)
  \/ Install \/ StopsCycle \/ Disconnects \/ Download \/ Downloaded \/ InstallFails

Next == UpdateSteps \/ Navigate \/ Others \/ (RequestSteps /\ UNCHANGED updateVars)

Spec == Init /\ [][Next]_vars

\* Once the download has begun no device operation is under way or can be
\* begun until it fails, and the version that is loaded has not been closed.
InstallsSafely ==
  ustate \in {"downloading", "installing"} =>
    updating /\ ~ActiveHardware /\ handle = "open"
=============================================================================
