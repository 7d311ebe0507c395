----------------------------- MODULE UiMessages -----------------------------
(* What the UI tells its user: the records of messageHistory.ts, the verdict  *)
(* of bridgeHistory.ts on an operation that has ended, the observations of    *)
(* App.tsx, the dock that announces records (MessageDock.tsx) and the panel   *)
(* that lists them (MessageHistoryPanel.tsx).                                 *)
(* A notice or a progress is the number that stands for its key: records      *)
(* count up from 1, toasts down from -1, progresses up from ProgressKeys.     *)
(* What a record says is its fault; wording, times and layout are left out,   *)
(* and a timer of the dock may expire as soon as it runs.                     *)
EXTENDS Integers, Sequences, FiniteSets, SequencesExt

CONSTANTS HistoryLimit, MaxRecords, MaxToasts, MaxProgress

VARIABLES
  history,   \* the records, newest first, and what of them has been read
  app,       \* what App remembers of its observations, and its queue of toasts
  dock,
  panel,     \* whether it is open, and scrolled to the newest record
  progress,  \* of the operation shown
  hovered

messageVars == <<history, app, dock, panel, progress, hovered>>

ProgressKeys == 100
NoNotice == [key |-> 0, severity |-> 0]
Ids(entries) == {e.id : e \in ToSet(entries)}

-----------------------------------------------------------------------------
(* messageHistory.ts                                                         *)

\* Mutant of Retained: a series refers to a record that has been dropped.
RetainedAll(repeats, entries) == repeats

Retained(repeats, entries) ==
  LET keys == {k \in DOMAIN repeats : repeats[k] \in Ids(entries)}
  IN  [k \in keys |-> repeats[k]]

Forget(repeats, key) == [k \in DOMAIN repeats \ {key} |-> repeats[k]]

\* Only the faults of automatic operations, which have a key, are merged, and
\* only while they repeat exactly.  What repeats moves to the front: ids are distinct,
\* so that the filter of the code removes one entry at most.
Append1(h, key, result, fault) ==
  LET same == {e \in ToSet(h.entries) : /\ key \in DOMAIN h.repeats /\ e.id = h.repeats[key]
                                          /\ e.result = result /\ e.fault = fault}
      last == h.seq + 1
      entry == [id |-> IF same = {} THEN last ELSE h.repeats[key],
                result |-> result, fault |-> fault, last |-> last]
      others == RemoveFirstMatch(h.entries, LAMBDA e : e.id = entry.id)
      entries == SubSeq(<<entry>> \o others, 1,
                        IF Len(others) >= HistoryLimit THEN HistoryLimit ELSE Len(others) + 1)
      repeats == IF key = "none" THEN h.repeats
                 ELSE [k \in DOMAIN h.repeats \cup {key} |->
                         IF k = key THEN entry.id ELSE h.repeats[k]]
  IN  [h EXCEPT !.seq = last, !.read = IF h.viewing THEN last ELSE @, !.entries = entries,
                !.repeats = Retained(repeats, entries)]

Unread(h) == {e \in ToSet(h.entries) : e.last > h.read /\ e.result # "recovered"}

\* Mutant of SetViewing: scrolling away counts the records as read.
SetViewingEither(h, value) == [h EXCEPT !.viewing = value, !.read = h.seq]

SetViewing(h, value) == [h EXCEPT !.viewing = value, !.read = IF value THEN h.seq ELSE @]

Cleared(h) == [h EXCEPT !.read = h.seq, !.repeats = << >>, !.entries = << >>]

-----------------------------------------------------------------------------
(* bridgeHistory.ts: what is wrong with the answer of an operation            *)

WrongOf(method) ==
  CASE method = "request_state" -> {"failed", "unconfirmed"}
    [] method \in {"scan", "auto_scan"} -> {"attempt", "abnormal", "no_slaves", "no_adapters"}
    [] method \in {"read_states", "recover"} -> {"abnormal"}
    [] method = "eeprom_flash" -> {"unequal", "not_reloaded", "sii", "identity", "not_reset"}
    [] method = "eeprom_read" -> {"sii", "unequal"}
    [] method = "register_snapshot" -> {"errors", "no_values", "stopped"}
    [] method = "register_raw_write" -> {"write", "readback"}
    [] method \in {"register_execute_write", "sdo_write"} -> {"unequal", "unconfirmed"}
    [] method = "register_read" -> {"wkc"}
    [] OTHER -> {}

HistoryMethods ==
  {"request_state", "scan", "read_states", "recover", "eeprom_flash", "eeprom_read",
   "register_snapshot", "register_raw_write", "register_execute_write", "register_read",
   "register_reset"}

Errors == {"none", "cancelled", "failed", "state", "unknown"}

\* What was reached can be told from the answer, or from the list of slaves
\* that came with STATE_REQUEST_FAILED.
StateVerdict(error, wrong) ==
  LET judged == error \in {"none", "state"}
      failed == judged /\ "failed" \in wrong
      unknown == ~judged \/ "unconfirmed" \in wrong
  IN  CASE error = "none" /\ ~failed /\ ~unknown -> "none"
        [] failed \/ (error # "none" /\ ~unknown) -> "error"
        [] OTHER -> "warning"

AnswerVerdict(method, wrong) ==
  CASE wrong = {} -> IF method = "register_reset" THEN "warning" ELSE "none"
    [] method = "scan" /\ wrong = {"no_slaves", "attempt"} -> "error"
    [] method = "auto_scan" /\ wrong = {"no_slaves", "no_adapters"} -> "error"
    [] method = "register_snapshot" /\ "stopped" \in wrong -> "none"
    [] method = "register_snapshot" /\ wrong = {"no_values"} -> "none"
    [] method = "register_snapshot" /\ wrong = {"errors", "no_values"} -> "error"
    [] method \in {"eeprom_flash", "register_execute_write", "sdo_write"} /\ "unequal" \in wrong -> "error"
    [] method = "register_read" -> "error"
    [] OTHER -> "warning"

\* "none" leaves no record.
Verdict(method, error, wrong) ==
  CASE error = "cancelled" -> "none"
    [] error # "cancelled" /\ method = "request_state" -> StateVerdict(error, wrong)
    [] error \in {"failed", "state"} /\ method # "request_state" -> "error"
    [] error = "unknown" /\ method # "request_state" -> "warning"
    [] OTHER -> AnswerVerdict(method, wrong)

\* finish: an automatic operation ends its series of equal faults when nothing
\* is wrong any more.
Finished(h, method, automatic, error, wrong) ==
  LET verdict == Verdict(method, error, wrong)
      key == IF automatic THEN method ELSE "none"
  IN  CASE verdict # "none" -> Append1(h, key, verdict, <<method, error, wrong>>)
        [] verdict = "none" /\ (error = "cancelled" \/ "stopped" \in wrong) -> h
        [] OTHER -> [h EXCEPT !.repeats = Forget(@, key)]

-----------------------------------------------------------------------------
(* App.tsx                                                                    *)

Record(result, what) == Append1(history, "none", result, <<what>>)

Room == history.seq < MaxRecords

Toast(id) == Append(app.toasts, [key |-> -(app.toast + 1), history |-> id, severity |-> 2])

Finish(method, automatic, error, wrong) ==
  /\ Room
  /\ history' = Finished(history, method, automatic, error, wrong)
  /\ UNCHANGED <<app, dock, panel, progress, hovered>>

\* A toast without a record of its own, or one that goes with the newest record.
SetMessage ==
  /\ app.toast < MaxToasts
  /\ \E id \in {0} \cup {e.id : e \in {n \in ToSet(history.entries) : n.last = history.seq}} :
       app' = [app EXCEPT !.toast = @ + 1, !.toasts = Toast(id)]
  /\ UNCHANGED <<history, dock, panel, progress, hovered>>

\* A fault of the cycle is recorded once until the cycle runs again.
CycleFault ==
  /\ Room /\ ~app.cycleFault
  /\ history' = Record("error", "cycle")
  /\ app' = [app EXCEPT !.cycleFault = TRUE]
  /\ UNCHANGED <<dock, panel, progress, hovered>>

CycleRuns ==
  /\ Room /\ app.cycleFault
  /\ history' = Record("recovered", "cycle")
  /\ app' = [app EXCEPT !.cycleFault = FALSE]
  /\ UNCHANGED <<dock, panel, progress, hovered>>

\* The service is down or up, the link is broken or responds; a loss is
\* recorded when it is new, a recovery when the loss has been recorded.
Observed(what, up) ==
  /\ Room /\ app[what] # up
  /\ app' = [app EXCEPT ![what] = up]
  /\ history' = CASE up = "down" -> Record("error", what)
                  [] up = "up" /\ app[what] = "down" -> Record("recovered", what)
                  [] OTHER -> history
  /\ UNCHANGED <<dock, panel, progress, hovered>>

\* Of another session or without a connection nothing is known of the link.
SessionChanges ==
  /\ app' = [app EXCEPT !.link = "unknown"]
  /\ UNCHANGED <<history, dock, panel, progress, hovered>>

-----------------------------------------------------------------------------
(* MessageDock.tsx                                                           *)

Waiting(d) == {n.key : n \in ToSet(d.pending)}

FromHistory(e) ==
  [key |-> e.id, severity |-> CASE e.result = "error" -> 2 [] e.result = "recovered" -> 0 [] OTHER -> 1]

\* Behind what is at least as severe.
Enqueued(queue, n) ==
  IF n.key \in {q.key : q \in ToSet(queue)} THEN queue
  ELSE SelectSeq(queue, LAMBDA q : q.severity >= n.severity) \o <<n>>
         \o SelectSeq(queue, LAMBDA q : q.severity < n.severity)

Visible(d, p) == p.key # 0 /\ d.dismissed # p.key
ShowingProgress(d, p) == Visible(d, p) /\ ~(d.showing /\ d.notice # NoNotice)
Expanded(d, p, open) == ~open /\ (ShowingProgress(d, p) \/ (d.showing /\ d.notice # NoNotice))
Frame(d, p) == IF ShowingProgress(d, p) THEN p.key ELSE d.notice.key

Mode(d, p, open) ==
  CASE open -> "history" [] Expanded(d, p, open) -> "notice" [] OTHER -> "idle"

\* The dock moves when its mode changes, and the time that a frame has been
\* readable is measured from when it rests; a collapsed dock measures nothing.
Morphed(d, p, open) ==
  [d EXCEPT !.settled = @ /\ Mode(d, p, open) = Mode(dock, progress, panel.open),
            !.timed = @ /\ Expanded(d, p, open)]

DockBecomes(d) == dock' = Morphed(d, progress', panel'.open)

Settle ==
  /\ ~dock.settled
  /\ dock' = [dock EXCEPT !.settled = TRUE]
  /\ UNCHANGED <<history, app, panel, progress, hovered>>

\* What of the new records and toasts is worth a notice: a record once, and
\* again while it is shown or waits; a toast unless it goes with a record.
Candidates ==
  LET known == {dock.notice.key} \cup Waiting(dock)
      records == SelectSeq(Reverse(history.entries), LAMBDA e :
                             /\ e.last > dock.event
                             /\ e.id \in dock.announced => e.id \in known)
      toasts == SelectSeq(app.toasts, LAMBDA t : t.history \notin Ids(history.entries))
  IN  [i \in DOMAIN records |-> FromHistory(records[i])]
        \o [i \in DOMAIN toasts |-> [key |-> toasts[i].key, severity |-> toasts[i].severity]]

Announce ==
  LET new == {e \in ToSet(history.entries) : e.last > dock.event}
      additions == SelectSeq(Candidates, LAMBDA n : n.key # dock.notice.key)
  IN  /\ new # {} \/ app.toasts # << >>
      /\ app' = [app EXCEPT !.toasts = << >>]
      /\ UNCHANGED <<history, panel, progress, hovered>>
      /\ DockBecomes(
           [dock EXCEPT !.event = IF history.entries = << >> THEN @ ELSE history.entries[1].last,
                        !.announced = (@ \cup {e.id : e \in new}) \cap Ids(history.entries),
                        !.pending = IF panel.open THEN @ ELSE FoldLeft(Enqueued, @, additions)])

\* Another frame replaces the one displayed once that has rested.
ReplaceFrame ==
  /\ Expanded(dock, progress, panel.open) /\ dock.displayed # Frame(dock, progress)
  /\ dock.timed => dock.settled
  /\ \E moves \in BOOLEAN :
       dock' = [dock EXCEPT !.displayed = Frame(dock, progress), !.timed = TRUE,
                            !.settled = @ /\ ~moves]
  /\ UNCHANGED <<history, app, panel, progress, hovered>>

\* Mutant of Advances: the pointer over the dock holds the next notice back.
AdvancesUnlessHovered ==
  ~hovered /\ (~dock.showing \/ (dock.settled /\ dock.timed /\ dock.displayed = dock.notice.key))

\* "Hover and focus pause retraction, never delivery."
Advances == ~dock.showing \/ (dock.settled /\ dock.timed /\ dock.displayed = dock.notice.key)

Advance ==
  /\ ~panel.open /\ dock.pending # << >> /\ Advances
  /\ UNCHANGED <<history, app, panel, progress, hovered>>
  /\ DockBecomes([dock EXCEPT !.notice = Head(dock.pending), !.showing = TRUE,
                              !.pending = Tail(@)])

AutoHide ==
  /\ dock.showing /\ ~panel.open /\ ~hovered /\ ~ShowingProgress(dock, progress)
  /\ dock.settled /\ dock.displayed = dock.notice.key
  /\ UNCHANGED <<history, app, panel, progress, hovered>>
  /\ DockBecomes([dock EXCEPT !.showing = FALSE])

ProgressExpires ==
  /\ Visible(dock, progress) /\ ~progress.running /\ ~panel.open /\ ~hovered
  /\ dock.settled /\ dock.displayed = progress.key
  /\ UNCHANGED <<history, app, panel, progress, hovered>>
  /\ DockBecomes([dock EXCEPT !.dismissed = progress.key])

\* The button of the dock.
Dismiss ==
  /\ Expanded(dock, progress, panel.open)
  /\ UNCHANGED <<history, app, panel, progress, hovered>>
  /\ DockBecomes(IF dock.displayed >= ProgressKeys
                 THEN [dock EXCEPT !.pending = << >>, !.dismissed = dock.displayed]
                 ELSE [dock EXCEPT !.pending = << >>, !.showing = FALSE])

Hover == hovered' = ~hovered /\ UNCHANGED <<history, app, dock, panel, progress>>

\* An operation begins to show its progress, or ends.
ProgressChanges ==
  /\ \/ /\ ~progress.running /\ progress.count < MaxProgress
        /\ progress' = [key |-> ProgressKeys + progress.count, running |-> TRUE,
                        count |-> progress.count + 1]
     \/ progress.running /\ progress' = [progress EXCEPT !.running = FALSE]
  /\ UNCHANGED <<history, app, panel, hovered>>
  /\ DockBecomes([dock EXCEPT !.dismissed = IF progress'.key # progress.key THEN 0 ELSE @])

-----------------------------------------------------------------------------
(* MessageHistoryPanel.tsx                                                    *)

\* Opened by its button at the newest record, or by a notice at its own.
OpenPanel ==
  /\ ~panel.open
  /\ panel' \in {[open |-> TRUE, latest |-> TRUE]} \cup
               (IF dock.showing /\ dock.displayed \in Ids(history.entries)
                THEN {[open |-> TRUE, latest |-> history.entries[1].id = dock.displayed]} ELSE {})
  /\ history' = SetViewing(history, panel'.latest)
  /\ UNCHANGED <<app, progress, hovered>>
  /\ DockBecomes([dock EXCEPT !.showing = FALSE, !.pending = << >>,
                    !.dismissed = IF ~progress.running THEN progress.key ELSE @])

ClosePanel ==
  /\ panel.open /\ panel' = [panel EXCEPT !.open = FALSE]
  /\ history' = SetViewing(history, FALSE)
  /\ UNCHANGED <<app, progress, hovered>>
  /\ DockBecomes(dock)

\* Away from the newest record, or back to it (showLatest).
Scroll ==
  /\ panel.open /\ panel' = [panel EXCEPT !.latest = ~@]
  /\ history' = SetViewing(history, panel'.latest)
  /\ UNCHANGED <<app, dock, progress, hovered>>

Clear ==
  /\ panel.open /\ history' = Cleared(history)
  /\ UNCHANGED <<app, dock, panel, progress, hovered>>

-----------------------------------------------------------------------------

Init ==
  /\ history = [seq |-> 0, read |-> 0, viewing |-> FALSE, repeats |-> << >>, entries |-> << >>]
  /\ app = [cycleFault |-> FALSE, service |-> "unknown", link |-> "unknown", toast |-> 0,
            toasts |-> << >>]
  /\ dock = [event |-> 0, announced |-> {}, notice |-> NoNotice, showing |-> FALSE,
             pending |-> << >>, displayed |-> 0, timed |-> FALSE, settled |-> TRUE, dismissed |-> 0]
  /\ panel = [open |-> FALSE, latest |-> TRUE]
  /\ progress = [key |-> 0, running |-> FALSE, count |-> 0]
  /\ hovered = FALSE

Finishes ==
  \E method \in HistoryMethods, automatic \in BOOLEAN, error \in Errors :
    \E wrong \in SUBSET WrongOf(method) : Finish(method, automatic, error, wrong)

Observations ==
  \/ SetMessage \/ CycleFault \/ CycleRuns \/ SessionChanges
  \/ \E what \in {"service", "link"}, up \in {"up", "down"} : Observed(what, up)

DockSteps == Settle \/ Announce \/ ReplaceFrame \/ Advance \/ AutoHide \/ ProgressExpires

UserSteps == Dismiss \/ Hover \/ ProgressChanges \/ OpenPanel \/ ClosePanel \/ Scroll \/ Clear

Next == Finishes \/ Observations \/ DockSteps \/ UserSteps

\* Effects run after every render, timers expire and the animation ends.
Fairness ==
  /\ WF_messageVars(Settle) /\ WF_messageVars(Announce) /\ WF_messageVars(ReplaceFrame)
  /\ WF_messageVars(Advance) /\ WF_messageVars(AutoHide)

Spec == Init /\ [][Next]_messageVars /\ Fairness

-----------------------------------------------------------------------------

\* The table of the series that repeat refers to records that are still there,
\* no record is listed twice, and they are listed from the newest event on.
HistoryConsistent ==
  /\ \A k \in DOMAIN history.repeats : history.repeats[k] \in Ids(history.entries)
  /\ \A i, j \in DOMAIN history.entries :
       i < j => /\ history.entries[i].id # history.entries[j].id
                /\ history.entries[i].last > history.entries[j].last

\* Whatever an operation ends with is recorded if anything is wrong with it, up to
\* a cancellation; and what is not confirmed is not called a failure.
VerdictsAreHonest ==
  \A method \in HistoryMethods, error \in Errors : \A wrong \in SUBSET WrongOf(method) :
    /\ Verdict(method, error, wrong) = "none" =>
         error = "cancelled" \/ (error = "none" /\ (wrong \subseteq {"no_values"} \/ "stopped" \in wrong))
    /\ error = "unknown" => Verdict(method, error, wrong) = "warning"

\* A fault is counted as unread until the newest records are on the screen or
\* the list is cleared, or the list has no room for it.
KeepsUnread ==
  \A e \in Unread(history) :
    e.id \in Ids(history'.entries) /\ ~(panel'.open /\ panel'.latest) =>
      e.id \in {u.id : u \in Unread(history')}

\* What must not stay: a notice that is shown or waits is displayed sooner or
\* later, unless the user dismisses it or opens the history: neither a more
\* severe one, nor progress, nor the pointer over the dock holds it back for ever.
NoticeWaits(k) ==
  /\ k \in Waiting(dock) \/ (dock.showing /\ dock.notice.key = k)
  /\ dock.displayed # k

Notices == (1 .. MaxRecords) \cup {-n : n \in 1 .. MaxToasts}
=============================================================================
