----------------------------- MODULE UiStartup -----------------------------
(* How the UI starts and follows the core: bridgeStartup.ts, the event        *)
(* subscriptions of api.ts and the effects of App.tsx that use them.  A core  *)
(* may be replaced at any time, and the answers and events of the old one     *)
(* arrive when the UI has already been told of the new one.  Files opened     *)
(* with the application wait in the host until the UI fetches them.           *)
(* The host is external: its events and what it says of itself arrive in the  *)
(* order they were sent (a core takes far longer to start than an answer to   *)
(* arrive), it answers every request, and it ends up with a core that is      *)
(* ready, failed, or without a worker.                                        *)
EXTENDS Naturals, Sequences

CONSTANTS MaxGeneration, MaxReloads, MaxFiles

ASSUME StartupBounds == {MaxGeneration, MaxReloads, MaxFiles} \subseteq Nat

VARIABLES
  host,      \* generation, state, and whether an earlier start has failed
  channel,   \* events on their way to the UI
  sub,       \* "listening", "asked", "answered", "subscribed" or "broken"
  observed,  \* observedGeneration
  gen, done, \* generation and completedGeneration, 0 for undefined
  call,      \* the initialisation in flight
  pending,
  shown,     \* what App shows: availability, adapters, loading, load error
  reloads,   \* bound on the uses of the reload button
  files      \* requests to open a file: in the host, in the UI, in the dialog

startupVars == <<gen, done, call, pending>>
hostVars == <<host, channel>>
vars == <<hostVars, sub, observed, startupVars, shown, reloads, files>>

NoCall == [stage |-> "none", reload |-> FALSE, expected |-> 0, answer |-> "none", gen |-> 0]

Init ==
  /\ host \in [gen : {1}, state : {"starting", "ready"}, failed : {FALSE}]
  /\ channel = << >> /\ sub = "listening" /\ observed = 0
  /\ gen = 0 /\ done = 0 /\ call = NoCall /\ pending = FALSE
  /\ shown = [available |-> FALSE, starting |-> TRUE, adapters |-> 0, loading |-> TRUE,
              error |-> FALSE]
  /\ reloads = 0
  /\ files = [sent |-> 0, host |-> << >>, draining |-> FALSE, again |-> FALSE, fetched |-> << >>,
              pending |-> 0, source |-> 0]

-----------------------------------------------------------------------------
(* The host                                                                  *)

Emit(kind) == channel' = Append(channel, [kind |-> kind, gen |-> host'.gen, asked |-> FALSE])

CoreStarts ==
  /\ host.state = "starting"
  /\ \/ host' = [host EXCEPT !.state = "ready", !.failed = FALSE] /\ Emit("ready")
     \/ host' = [host EXCEPT !.state = "failed", !.failed = TRUE] /\ Emit("failed")
  /\ UNCHANGED <<sub, observed, startupVars, shown, reloads, files>>

\* The exit of a core that is being replaced already is not announced.
CoreFails ==
  /\ host.state = "ready"
  /\ \/ host' = [host EXCEPT !.state = "exited"] /\ Emit("exited")
     \/ host.gen < MaxGeneration /\ host' = [host EXCEPT !.state = "exited"] /\ UNCHANGED channel
     \/ host' = [host EXCEPT !.state = "fatal"] /\ Emit("fatal")
  /\ UNCHANGED <<sub, observed, startupVars, shown, reloads, files>>

\* After an exit at once, after a failed start when the next request comes.
CoreReplaced ==
  /\ host.state \in {"exited", "failed"} /\ host.gen < MaxGeneration
  /\ host' = [host EXCEPT !.gen = @ + 1, !.state = "starting"]
  /\ UNCHANGED <<channel, sub, observed, startupVars, shown, reloads, files>>

\* The request in flight is answered by the core in service, or refused.
Answers ==
  /\ call.stage # "none" /\ call.answer = "none"
  /\ call' \in IF host.state = "ready"
               THEN {[call EXCEPT !.answer = a, !.gen = host.gen] :
                       a \in {"connected", "disconnected", "error"}}
               ELSE {[call EXCEPT !.answer = "error"]}
  /\ UNCHANGED <<hostVars, sub, observed, gen, done, pending, shown, reloads, files>>

\* bridge_host_state; a start that follows a failed one is taken for failed.
Readiness ==
  CASE host.state = "ready" -> "ready"
    [] host.state = "starting" /\ ~host.failed -> "starting"
    [] OTHER -> "failed"

-----------------------------------------------------------------------------
(* bridgeStartup.ts                                                          *)

\* initialize: the generation g, of which d is complete, is initialised unless
\* that is being done; c and p are the call and the request for another one
\* that the caller leaves, s what it shows.
Initialize(reload, g, d, c, p, s) ==
  LET wanted == sub' = "subscribed" /\ g # 0 /\ (reload \/ d # g)
      begins == wanted /\ c = NoCall
  IN  /\ call' = IF begins THEN [NoCall EXCEPT !.stage = "status", !.reload = reload, !.expected = g]
                 ELSE c
      /\ pending' = ((p /\ ~begins) \/ (wanted /\ ~begins))
      /\ shown' = IF begins THEN [s EXCEPT !.loading = TRUE, !.error = FALSE] ELSE s

Current == gen = call.expected

\* The end of an initialisation, after which one that was asked for meanwhile
\* begins, though never as a reload.
Ends(d, s) ==
  /\ UNCHANGED <<hostVars, sub, observed, gen, reloads, files>>
  /\ done' = d
  /\ Initialize(FALSE, IF pending THEN gen ELSE 0, d, NoCall, FALSE,
                IF Current THEN [s EXCEPT !.loading = FALSE] ELSE s)

StatusAnswered ==
  /\ call.stage = "status" /\ call.answer # "none"
  /\ CASE ~Current -> Ends(done, shown)
       [] Current /\ (call.answer = "error" \/ call.gen # call.expected) ->
            Ends(done, [shown EXCEPT !.error = TRUE])
       [] OTHER -> /\ call' = [call EXCEPT !.stage = "devices", !.answer = "none"]
                   /\ UNCHANGED <<hostVars, sub, observed, gen, done, pending, shown, reloads, files>>

\* Mutant of DevicesAnswered: the generation is not compared after the second answer.
DevicesAnsweredLate ==
  /\ call.stage = "devices" /\ call.answer # "none"
  /\ IF call.answer = "error" THEN Ends(done, [shown EXCEPT !.error = TRUE])
     ELSE Ends(call.expected, [shown EXCEPT !.adapters = call.gen, !.error = FALSE])

\* auto_scan or enumerate_adapters
DevicesAnswered ==
  /\ call.stage = "devices" /\ call.answer # "none"
  /\ CASE ~Current -> Ends(done, shown)
       [] Current /\ call.answer = "error" -> Ends(done, [shown EXCEPT !.error = TRUE])
       [] OTHER -> Ends(call.expected, [shown EXCEPT !.adapters = call.gen, !.error = FALSE])

Reload ==
  /\ reloads < MaxReloads /\ reloads' = reloads + 1
  /\ shown.available /\ shown.error /\ ~shown.loading
  /\ UNCHANGED <<hostVars, sub, observed, gen, done, files>>
  /\ Initialize(TRUE, gen, done, call, pending, shown)

Ready(g) ==
  /\ g > gen
  /\ gen' = g /\ done' = 0
  /\ Initialize(FALSE, g, 0, call, pending,
                [shown EXCEPT !.available = TRUE, !.starting = FALSE, !.adapters = 0,
                              !.loading = TRUE])

Unavailable(s) ==
  /\ gen' = 0 /\ done' = 0 /\ pending' = FALSE
  /\ shown' = [s EXCEPT !.available = FALSE, !.loading = FALSE]
  /\ UNCHANGED call

Gone == [shown EXCEPT !.starting = FALSE, !.adapters = 0]

-----------------------------------------------------------------------------
(* onBridgeEvent, onBridgeExited and the effect of App.tsx                    *)

\* Readiness is fenced by the newest generation heard of, an exit is not.
\* worker_fatal carries no session, so the fence of sessions never drops it.
Hears(kind, g) ==
  LET stale == kind \in {"ready", "failed"} /\ g < observed
  IN  /\ observed' = IF kind \in {"ready", "failed"} /\ ~stale THEN g ELSE observed
      /\ \/ stale /\ UNCHANGED <<startupVars, shown>>
         \/ ~stale /\ kind = "ready" /\ g > gen /\ Ready(g)
         \/ ~stale /\ kind = "ready" /\ g <= gen /\ UNCHANGED <<startupVars, shown>>
         \/ kind = "starting" /\ UNCHANGED <<startupVars, shown>>
         \/ ~stale /\ kind \in {"failed", "exited"} /\ Unavailable(Gone)
         \/ kind = "fatal" /\ Unavailable(shown)

\* The state of the host is handled before the subscription counts as complete.
Event ==
  /\ channel # << >> /\ sub # "broken"
  /\ channel' = Tail(channel)
  /\ sub' = IF Head(channel).asked THEN "answered" ELSE sub
  /\ UNCHANGED <<host, reloads, files>>
  /\ Hears(Head(channel).kind, Head(channel).gen)

AskHost ==
  /\ sub = "listening" /\ sub' = "asked"
  /\ channel' = Append(channel, [kind |-> Readiness, gen |-> host.gen, asked |-> TRUE])
  /\ UNCHANGED <<host, observed, startupVars, shown, reloads, files>>

Subscribed ==
  /\ sub = "answered" /\ sub' = "subscribed"
  /\ Initialize(FALSE, gen, done, call, pending, shown)
  /\ UNCHANGED <<hostVars, observed, gen, done, reloads, files>>

SubscriptionFails ==
  /\ sub \in {"listening", "asked", "answered"} /\ sub' = "broken"
  /\ Unavailable([shown EXCEPT !.starting = FALSE])
  /\ UNCHANGED <<hostVars, observed, reloads, files>>

-----------------------------------------------------------------------------
(* onEepromOpenRequest                                                        *)

\* Another instance of the application, or the command line, hands over a file.
OpenFile ==
  /\ files.sent < MaxFiles
  /\ files' = [files EXCEPT !.sent = @ + 1, !.host = Append(@, files.sent + 1), !.again = TRUE]
  /\ UNCHANGED <<hostVars, sub, observed, startupVars, shown, reloads>>

\* One fetch at a time; a request that comes during it is fetched after it.
Fetch ==
  /\ files.again /\ ~files.draining
  /\ files' = [files EXCEPT !.again = FALSE, !.draining = TRUE, !.fetched = files.host, !.host = << >>]
  /\ UNCHANGED <<hostVars, sub, observed, startupVars, shown, reloads>>

Fetched ==
  /\ files.draining
  /\ files' = [files EXCEPT !.draining = FALSE, !.fetched = << >>,
                 !.pending = IF files.fetched = << >> THEN @ ELSE files.fetched[Len(files.fetched)]]
  /\ UNCHANGED <<hostVars, sub, observed, startupVars, shown, reloads>>

\* Handed to the dialog as soon as neither it nor the updater is busy.
HandOver ==
  /\ files.pending # 0
  /\ files' = [files EXCEPT !.source = files.pending, !.pending = 0]
  /\ UNCHANGED <<hostVars, sub, observed, startupVars, shown, reloads>>

-----------------------------------------------------------------------------

HostSteps == CoreStarts \/ CoreFails \/ CoreReplaced

UiSteps ==
  \/ Answers \/ StatusAnswered \/ DevicesAnswered \/ Event
  \/ AskHost \/ Subscribed

FileSteps == Fetch \/ Fetched \/ HandOver

Next == HostSteps \/ UiSteps \/ Reload \/ SubscriptionFails \/ OpenFile \/ FileSteps

Fairness ==
  /\ WF_vars(UiSteps) /\ WF_vars(CoreStarts) /\ WF_vars(CoreReplaced)
  /\ WF_vars(FileSteps)

Spec == Init /\ [][Next]_vars /\ Fairness

\* The adapters shown are never those of a core that has been replaced.
AdaptersAreCurrent == shown.available => shown.adapters = 0 \/ shown.adapters >= gen

\* What must not stay: however often the core is replaced, the UI ends up with the core that is in
\* service, initialised or with an error to retry from, and not loading; or says
\* that there is none.
Settled ==
  CASE host.state = "ready" ->
         /\ shown.available /\ gen = host.gen /\ ~shown.loading /\ (done = gen \/ shown.error)
    [] host.state = "starting" -> TRUE
    [] OTHER -> ~shown.available /\ ~shown.loading

Unsettled == sub # "broken" /\ ~Settled

\* The file that was opened last reaches the dialog.
FileWaits == files.source # files.sent
=============================================================================
