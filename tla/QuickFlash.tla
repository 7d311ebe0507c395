----------------------------- MODULE QuickFlash -----------------------------
(* The dialog that programs an EEPROM from a file                             *)
(* (QuickEepromFlashDialog.tsx).  It loads an XML or a BIN, lets the user     *)
(* choose the Device and edit its ConfigData, and has the core generate the   *)
(* image for the slave selected.  Every answer may come late: after another   *)
(* file, Device or ConfigData, after another slave or connection, or after    *)
(* the dialog was closed.                                                     *)
(* The files and the answers of the core are external.                        *)
EXTENDS FlashTargets

CONSTANTS Xml, Bin, MaxClock, MaxCalls

VARIABLES
  context,  \* the connection and the slave selected: contextKey
  disk,     \* external: ConfigData in the XML of each file
  dialog,   \* state and refs of the component
  calls,    \* requests without an answer
  operation \* operationInProgress

quickVars == <<context, disk, dialog, calls, operation>>

Ordinals == 0 .. 1               \* 0: no Device is chosen
Contexts == [clock : 1 .. MaxClock, slave : 1 .. 2]
NoSource == [path |-> "", ordinal |-> 0, config |-> ""]

Closed == [opened |-> NoContext, esi |-> NoDocument, bin |-> NoTarget, ordinal |-> 0,
           config |-> "", original |-> "", target |-> NoTarget, loading |-> FALSE,
           saving |-> FALSE, error |-> FALSE, generated |-> "", source |-> NoSource, initial |-> ""]

Init ==
  /\ context = [clock |-> 1, slave |-> 1]
  /\ disk = [path \in Xml |-> "original"]
  /\ dialog = Closed /\ calls = {} /\ operation = FALSE

-----------------------------------------------------------------------------
(* Generating and loading                                                     *)

InContext(c) == c.context = context

\* generate up to its request
Generating(d, document, ordinal, config) ==
  [d EXCEPT !.generated = config, !.target = NoTarget, !.error = FALSE]
Generate(cs, document, ordinal, config, awaits) ==
  BumpRequest(cs) \cup {Call(context, "generate", document, ordinal, config, awaits)}

\* loadXml and loadFile up to their request, in the context c
LoadFile(c, d, cs, path, ordinal, config) ==
  LET document == [NoDocument EXCEPT !.path = path]
      loading == [d EXCEPT !.generated = "", !.esi = NoDocument, !.bin = NoTarget,
                           !.target = NoTarget, !.error = FALSE, !.loading = TRUE]
  IN  IF path \in Bin
      THEN /\ dialog' = [loading EXCEPT !.source = [NoSource EXCEPT !.path = path],
                                        !.ordinal = 0, !.config = "", !.original = ""]
           /\ calls' = BumpBoth(cs) \cup {Call(c, "bin", document, 0, "", FALSE)}
      ELSE /\ dialog' = [loading EXCEPT
                !.source = [path |-> path, ordinal |-> ordinal, config |-> config]]
           /\ calls' = BumpBoth(cs) \cup {Call(c, "load", document, ordinal, config, FALSE)}

\* What a render leaves in sourceRequestRef.
Rendered(d) ==
  IF d.esi # NoDocument /\ ~d.loading
  THEN [d EXCEPT !.source = [path |-> d.esi.path, ordinal |-> d.ordinal, config |-> d.config]]
  ELSE d

-----------------------------------------------------------------------------
(* Opening, closing, another slave or connection                              *)

IsOpen == dialog.opened # NoContext
Locked == operation \/ dialog.saving

\* The part of the effect that every open context has in common.
Entered(d) ==
  [d EXCEPT !.opened = context', !.loading = FALSE, !.saving = FALSE, !.generated = "",
            !.target = NoTarget, !.error = FALSE]

Open(path) ==
  /\ ~IsOpen /\ UNCHANGED <<context, disk, operation>>
  /\ LET d == [Entered(dialog) EXCEPT !.source = NoSource, !.esi = NoDocument, !.bin = NoTarget,
                                      !.ordinal = 0, !.config = "", !.original = ""]
         cs == BumpBoth(calls)
     IN  IF path # "" /\ ~operation THEN LoadFile(context', d, cs, path, 0, "")
         ELSE dialog' = [d EXCEPT !.initial = path] /\ calls' = cs

Close ==
  /\ UNCHANGED <<context, disk, operation>>
  /\ IsOpen /\ ~Locked
  /\ dialog' = [dialog EXCEPT !.opened = NoContext, !.generated = "", !.target = NoTarget,
                              !.config = dialog.original, !.initial = ""]
  /\ calls' = BumpBoth(calls)

ContextMoves ==
  /\ context' \in {c \in Contexts : c # context /\ c.clock \in {context.clock, context.clock + 1}}
  /\ UNCHANGED <<disk, operation>>
  /\ LET d == Entered(dialog)
         cs == BumpBoth(calls)
         source == dialog.source
     IN  IF ~IsOpen THEN UNCHANGED <<dialog, calls>>
         ELSE IF /\ source # NoSource
                 /\ dialog.opened.clock # context'.clock \/ dialog.bin # NoTarget \/ dialog.loading
         THEN LoadFile(context', d, cs, source.path, source.ordinal, source.config)
         ELSE dialog' = d /\ calls' = cs

\* A file opened with the application waits until nothing is locked.
FileOpened(path) ==
  /\ IsOpen /\ UNCHANGED <<context, disk, operation>>
  /\ IF Locked THEN dialog' = [dialog EXCEPT !.initial = path] /\ UNCHANGED calls
     ELSE LoadFile(context, dialog, calls, path, 0, "")

TakeInitial ==
  /\ UNCHANGED <<context, disk, operation>>
  /\ IsOpen /\ ~Locked /\ dialog.initial # ""
  /\ LoadFile(context, [dialog EXCEPT !.initial = ""], calls, dialog.initial, 0, "")

-----------------------------------------------------------------------------
(* What the user does                                                         *)

\* A row of a list, the picker, or a file that is dropped.
Choose(path, ordinal) ==
  /\ UNCHANGED <<context, disk, operation>>
  /\ IsOpen /\ ~Locked
  /\ LoadFile(context, dialog, calls, path, ordinal, "")

SelectDevice(ordinal) ==
  LET config == dialog.esi.config
      d == [dialog EXCEPT !.ordinal = ordinal, !.original = config, !.config = config]
  IN  /\ UNCHANGED <<context, disk, operation>>
      /\ IsOpen /\ ~Locked /\ ~dialog.loading
      /\ dialog.esi # NoDocument /\ ordinal # dialog.ordinal
      /\ dialog' = Generating(d, dialog.esi, ordinal, config)
      /\ calls' = Generate(calls, dialog.esi, ordinal, config, FALSE)

EditConfig(config) ==
  /\ UNCHANGED <<context, disk, operation>>
  /\ IsOpen /\ ~Locked /\ ~dialog.loading /\ dialog.esi # NoDocument /\ dialog.ordinal > 0
  /\ config # dialog.config
  /\ dialog' = Rendered([dialog EXCEPT !.generated = "", !.config = config, !.target = NoTarget])
  /\ calls' = BumpRequest(calls)

\* The effect that follows an edit, a save that failed or another slave; the
\* timer is cleared by whatever changes what it depends on.
TimerRuns ==
  /\ IsOpen /\ ~dialog.saving /\ dialog.esi # NoDocument /\ dialog.ordinal > 0
  /\ dialog.config \in Valid /\ dialog.config # dialog.generated

TimerFires ==
  /\ UNCHANGED <<context, disk, operation>>
  /\ TimerRuns
  /\ dialog' = Generating(dialog, dialog.esi, dialog.ordinal, dialog.config)
  /\ calls' = Generate(calls, dialog.esi, dialog.ordinal, dialog.config, FALSE)

SaveConfig ==
  /\ UNCHANGED <<context, disk, operation>>
  /\ IsOpen /\ ~Locked /\ ~dialog.loading /\ dialog.esi # NoDocument /\ dialog.ordinal > 0
  /\ dialog.config \in Valid \ {dialog.original}
  /\ dialog' = [dialog EXCEPT !.generated = "", !.saving = TRUE]
  /\ calls' = BumpBoth(calls)
       \cup {Call(context, "save", dialog.esi, dialog.ordinal, dialog.config, FALSE)}

FlashTarget == IF dialog.bin # NoTarget THEN dialog.bin ELSE dialog.target

\* No blocker: what the button programs.  targetContextRef is that of the answer
\* that was shown last.
Ready ==
  /\ IsOpen /\ ~Locked /\ ~dialog.loading /\ ~dialog.error
  /\ dialog.esi # NoDocument => dialog.ordinal > 0 /\ dialog.config \in Valid
  /\ FlashTarget # NoTarget /\ FlashTarget.context = context

Flash ==
  /\ UNCHANGED <<context, disk, dialog, calls>>
  /\ Ready /\ operation' = TRUE

FlashEnds ==
  /\ UNCHANGED <<context, disk, dialog, calls>>
  /\ operation /\ operation' = FALSE

-----------------------------------------------------------------------------
(* Answers                                                                    *)

LoadAnswered(c, succeeds, ambiguous) ==
  LET l == Loaded(c, disk, ambiguous)
      d == [dialog EXCEPT
             !.source = [path |-> l.document.path, ordinal |-> l.ordinal, config |-> l.effective],
             !.esi = l.document, !.ordinal = l.ordinal, !.original = l.original,
             !.config = l.effective]
      rest == calls \ {c}
  IN  /\ c.kind = "load"
      /\ IF ~(c.load /\ InContext(c)) THEN dialog' = dialog /\ calls' = rest
         ELSE IF ~succeeds
         THEN dialog' = [dialog EXCEPT !.error = TRUE, !.loading = FALSE] /\ calls' = rest
         ELSE IF l.ordinal = 0
         THEN dialog' = Rendered([d EXCEPT !.loading = FALSE]) /\ calls' = rest
         ELSE /\ dialog' = Generating(d, l.document, l.ordinal, l.effective)
              /\ calls' = Generate(rest, l.document, l.ordinal, l.effective, TRUE)

BinAnswered(c, succeeds) ==
  /\ c.kind = "bin" /\ calls' = calls \ {c}
  /\ dialog' = IF ~(c.load /\ InContext(c)) THEN dialog
               ELSE IF succeeds THEN [dialog EXCEPT !.bin = BinImage(c), !.loading = FALSE]
               ELSE [dialog EXCEPT !.error = TRUE, !.loading = FALSE]

\* Mutant of GenerateAnswered: an answer is shown whatever was asked after it.
GenerateAnsweredLate(c, succeeds) ==
  LET d == IF ~InContext(c) THEN dialog
           ELSE IF succeeds THEN [dialog EXCEPT !.target = ImageOf(c)]
           ELSE [dialog EXCEPT !.error = TRUE]
  IN  /\ c.kind = "generate" /\ calls' = calls \ {c}
      /\ dialog' = IF c.awaits /\ c.load /\ InContext(c)
                   THEN Rendered([d EXCEPT !.loading = FALSE, !.saving = FALSE]) ELSE d

GenerateAnswered(c, succeeds) ==
  LET d == IF ~(c.request /\ InContext(c)) THEN dialog
           ELSE IF succeeds THEN [dialog EXCEPT !.target = ImageOf(c)]
           ELSE [dialog EXCEPT !.error = TRUE]
  IN  /\ c.kind = "generate" /\ calls' = calls \ {c}
      /\ dialog' = IF c.awaits /\ c.load /\ InContext(c)
                   THEN Rendered([d EXCEPT !.loading = FALSE, !.saving = FALSE]) ELSE d

SaveAnswered(c, succeeds) ==
  LET saved == [c.document EXCEPT !.config = c.config]
      d == [dialog EXCEPT !.esi = saved, !.original = c.config, !.config = c.config]
      rest == calls \ {c}
  IN  /\ c.kind = "save"
      /\ IF ~(c.load /\ InContext(c) /\ dialog.opened = c.context)
         THEN dialog' = dialog /\ calls' = rest
         ELSE IF ~succeeds THEN dialog' = [dialog EXCEPT !.saving = FALSE] /\ calls' = rest
         ELSE /\ dialog' = Rendered(Generating(d, saved, c.ordinal, c.config))
              /\ calls' = Generate(rest, saved, c.ordinal, c.config, TRUE)

Answer(c) ==
  /\ UNCHANGED <<context, operation>>
  /\ \E succeeds, ambiguous \in BOOLEAN :
       /\ \/ LoadAnswered(c, succeeds, ambiguous)
          \/ BinAnswered(c, succeeds) \/ GenerateAnswered(c, succeeds)
          \/ SaveAnswered(c, succeeds)
       /\ disk' = IF c.kind = "save" /\ succeeds THEN [disk EXCEPT ![c.document.path] = c.config] ELSE disk

UserSteps ==
  \/ \E path \in Xml \cup Bin \cup {""} : Open(path)
  \/ Close \/ ContextMoves \/ SaveConfig \/ Flash
  \/ \E path \in Xml \cup Bin : FileOpened(path)
  \/ \E path \in Xml \cup Bin, ordinal \in Ordinals : Choose(path, ordinal)
  \/ \E ordinal \in Ordinals \ {0} : SelectDevice(ordinal)
  \/ \E config \in Valid \cup {"invalid"} : EditConfig(config)

Next ==
  \/ UserSteps /\ Cardinality(calls) < MaxCalls
  \/ TimerFires \/ TakeInitial \/ FlashEnds
  \/ \E c \in calls : Answer(c)

\* The core answers every request, and a timer that is not cleared runs out.
Fairness ==
  /\ \A kind \in {"load", "bin", "generate", "save"} :
       WF_quickVars(\E c \in calls : c.kind = kind /\ Answer(c))
  /\ WF_quickVars(TimerFires) /\ WF_quickVars(TakeInitial) /\ WF_quickVars(FlashEnds)

Spec == Init /\ [][Next]_quickVars /\ Fairness

-----------------------------------------------------------------------------
\* Whatever answers come late, what the button would write is what the dialog
\* shows: the XML, Device and ConfigData on it, or its BIN, for the slave and
\* the connection of this moment.
WritesWhatIsShown ==
  Ready /\ dialog.bin = NoTarget =>
    dialog.target = [document |-> dialog.esi, ordinal |-> dialog.ordinal,
                     config |-> dialog.config, context |-> context]

\* The dialog does not prepare its target for ever once the user waits.
Preparing ==
  /\ IsOpen /\ ~operation /\ ~dialog.error
  /\ dialog.loading \/ dialog.saving
     \/ (dialog.esi # NoDocument /\ dialog.ordinal > 0 /\ dialog.config \in Valid
         /\ dialog.target = NoTarget)
=============================================================================
