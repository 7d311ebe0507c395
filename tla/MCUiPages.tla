----------------------------- MODULE MCUiPages -----------------------------
(* The start-up of the UI, its messages and its pages.  A behaviour follows   *)
(* one part; the parts share nothing but this run, and the others stay as     *)
(* they are initially.                                                        *)
EXTENDS UiStartup

CONSTANTS
  HistoryLimit, MaxRecords, MaxToasts, MaxProgress,             \* UiMessages
  DockRecords,                                                  \* and the records of its dock
  RecentLimit, FlashHistoryLimit, MaxEdits,                     \* UiSources
  Xml, Bin, MaxClock, MaxCalls,                                 \* QuickFlash, EepromPage
  Registers, Manual, Writable, MaxValue, MaxMounts,             \* Registers
  Budget,                                                       \* and the choices made in it
  Manuals, Broken, Pages, Terms,                                \* Manual
  ByteBits, DigitBase, RowHeight, Overscan, PageBytes, Small    \* UiCodecs

\* HISTORY_LIMIT is 300; a row of the register list is 36 pixels high.
ASSUME HistoryAssumption == HistoryLimit \in Nat \ {0}
ASSUME WindowAssumption == {RowHeight, PageBytes} \subseteq Nat \ {0} /\ Overscan \in Nat
\* A byte has 8 bits, addresses are typed with 16 digits, lengths are bounded.
ASSUME CodecAssumption == {ByteBits, DigitBase} \subseteq Nat \ {0} /\ Small \in Nat

VARIABLES
  part,
  history, app, dock, panel, progress, hovered, notice,
  stored, library, sourcePanel, sourceDialog, removed, edits,
  quickContext, quickDisk, dialog, quickCalls, quickOperation,
  context, disk, mounted, page, saving, calls, operation,
  slave, mount, cache, registerPage, registerCalls, other, blocked, device, left,
  open, target, load, task, retiring, document, attached, ready, loading, error, manualPage,
  outline, asked, search

\* Two Devices of one file, in both spellings, and another file
SourceRecords ==
  {[file |-> "p", slash |-> "back", ordinal |-> 0], [file |-> "p", slash |-> "front", ordinal |-> 1],
   [file |-> "q", slash |-> "back", ordinal |-> 0]}

M == INSTANCE UiMessages
S == INSTANCE UiSources WITH Records <- SourceRecords, HistoryLimit <- FlashHistoryLimit,
                             panel <- sourcePanel, dialog <- sourceDialog
Q == INSTANCE QuickFlash WITH context <- quickContext, disk <- quickDisk, calls <- quickCalls,
                              operation <- quickOperation
E == INSTANCE EepromPage
R == INSTANCE Registers WITH page <- registerPage, calls <- registerCalls
V == INSTANCE Manual WITH page <- manualPage
C == INSTANCE UiCodecs

messageVars == <<history, app, dock, panel, progress, hovered>>
sourceVars == <<stored, library, sourcePanel, sourceDialog, removed, edits>>
quickVars == <<quickContext, quickDisk, dialog, quickCalls, quickOperation>>
pageVars == <<context, disk, mounted, page, saving, calls, operation>>
registerVars == <<slave, mount, cache, registerPage, registerCalls, other, blocked, device>>
manualVars ==
  <<open, target, load, task, retiring, document, attached, ready, loading, error, manualPage,
    outline, asked, search>>
allVars ==
  <<vars, messageVars, sourceVars, quickVars, pageVars, registerVars, left, manualVars, part, notice>>

\* The page after its first read, in the monitor view with one register pinned
RegistersMonitored ==
  /\ slave = 1 /\ mount = 1 /\ cache = [s \in 1 .. 2 |-> R!NotKept]
  /\ registerPage =
       [R!Fresh([R!NotKept EXCEPT !.catalog = TRUE, !.initial = TRUE,
                                  !.values = [r \in Registers |-> IF r \in Manual THEN R!NoValue ELSE 0]])
          EXCEPT !.attempted = Registers, !.monitor = TRUE, !.pinned = Writable]
  /\ registerCalls = {} /\ other = FALSE /\ blocked = FALSE /\ device = [r \in Registers |-> 0]

\* In the dock one notice is followed, and none elsewhere.
MCInit ==
  /\ part \in {"startup", "files", "verdicts", "history", "dock", "sources", "dialog", "page",
               "registers", "manual"}
  /\ Init /\ (part # "startup" => host.state = "starting")
  /\ M!Init /\ notice \in IF part = "dock" THEN {n \in M!Notices : n <= DockRecords} ELSE {0}
  /\ S!SourcesInit /\ Len(library) <= 1
  /\ part # "sources" => library = << >> /\ stored.fixed.hidden = {}
  /\ Q!Init /\ E!Init
  /\ left = Budget
  /\ R!RegistersInit \/ (part = "registers" /\ RegistersMonitored)
  /\ V!ManualInit /\ (part # "manual" => target.manual = CHOOSE manual \in Manuals : TRUE)

-----------------------------------------------------------------------------
(* What happens in a part                                                     *)

Stay ==
  /\ UNCHANGED <<part, notice>>
  /\ part \in {"startup", "files"} \/ UNCHANGED vars
  /\ part \in {"verdicts", "history", "dock"} \/ UNCHANGED messageVars
  /\ part = "sources" \/ UNCHANGED sourceVars
  /\ part = "dialog" \/ UNCHANGED quickVars
  /\ part = "page" \/ UNCHANGED pageVars
  /\ part = "registers" \/ UNCHANGED <<registerVars, left>>
  /\ part = "manual" \/ UNCHANGED manualVars

\* Records of one operation and of the observations, read in the panel
HistorySteps ==
  \/ \E failure \in {"none", "failed"}, wrong \in {{}, {"abnormal"}} :
       M!Finish("scan", TRUE, failure, wrong)
  \/ M!CycleFault \/ M!SessionChanges
  \/ \E what \in {"service", "link"}, up \in {"up", "down"} : M!Observed(what, up)
  \/ M!OpenPanel \/ M!ClosePanel \/ M!Scroll \/ M!Clear

\* Records of two severities and toasts that the dock announces
DockSteps ==
  \/ (M!CycleFault \/ M!CycleRuns) /\ history.seq < DockRecords
  \/ M!SetMessage \/ M!DockSteps \/ M!Dismiss \/ M!Hover \/ M!ProgressChanges \/ M!OpenPanel \/ M!ClosePanel

\* Two slaves of one connection and one of the next; on the page one slave has a
\* file, and a draft comes with no Device that was chosen before.
TwoSlaves == {[clock |-> 1, slave |-> 1], [clock |-> 1, slave |-> 2], [clock |-> 2, slave |-> 1]}
QuickSteps == Q!Next /\ quickContext' \in TwoSlaves
PageSteps ==
  /\ E!Next /\ context' \in TwoSlaves
  /\ page'[2].esi.path = ""
  /\ \A c \in calls' : c.kind = "load" /\ c.load => c.ordinal = 0 \/ c.config = "original"

\* What the user and the rest of the UI choose is bounded by Budget.
Chosen ==
  \/ R!UserSteps \/ R!OtherOperation(TRUE) \/ R!Blocks(TRUE)
  \/ \E r \in Writable, value \in 0 .. MaxValue : R!DeviceMoves(r, value)
RegisterSteps ==
  \/ Chosen /\ left > 0 /\ left' = left - 1
  \/ (R!Answers \/ R!Poll \/ R!OtherRequest \/ R!OtherOperation(FALSE) \/ R!Blocks(FALSE)) /\ left' = left

MCNext ==
  /\ Stay
  /\ \/ part = "startup" /\ (HostSteps \/ UiSteps \/ Reload \/ SubscriptionFails)
     \/ part = "files" /\ (OpenFile \/ FileSteps)
     \/ part = "verdicts" /\ history.seq = 0 /\ M!Finishes
     \/ part = "history" /\ HistorySteps
     \/ part = "dock" /\ DockSteps
     \/ part = "sources" /\ S!SourceSteps /\ Len(library') <= 1
     \/ part = "dialog" /\ QuickSteps
     \/ part = "page" /\ PageSteps
     \/ part = "registers" /\ RegisterSteps
     \/ part = "manual" /\ V!ManualSteps

-----------------------------------------------------------------------------
(* Fairness: that of the modules, for one action of every part at a time.  As *)
(* part never changes, a disjunction of actions of different parts is treated *)
(* fairly if and only if each of them is while its part is followed.          *)

partVars ==
  CASE part \in {"startup", "files"} -> vars
    [] part \in {"verdicts", "history", "dock"} -> messageVars
    [] part = "sources" -> sourceVars [] part = "dialog" -> quickVars
    [] part = "page" -> pageVars [] part = "registers" -> registerVars
    [] part = "manual" -> manualVars

Fair(step) == UNCHANGED part /\ step

AnswersOf(kind) ==
  \/ part = "dialog" /\ \E c \in quickCalls : c.kind = kind /\ Q!Answer(c)
  \/ part = "page" /\ \E c \in calls : c.kind = kind /\ E!Answer(c)

MCFairness ==
  /\ WF_partVars(Fair(\/ part = "startup" /\ UiSteps
                      \/ part = "files" /\ FileSteps
                      \/ part = "dock" /\ M!Settle
                      \/ part = "registers" /\ R!Answers
                      \/ part = "manual" /\ V!Retired
                      \/ AnswersOf("load")))
  /\ WF_partVars(Fair(\/ part = "startup" /\ CoreStarts
                      \/ part = "dock" /\ M!Announce
                      \/ part = "registers" /\ R!OtherOperation(FALSE)
                      \/ part = "manual" /\ V!Reads
                      \/ AnswersOf("bin")))
  /\ WF_partVars(Fair(\/ part = "startup" /\ CoreReplaced
                      \/ part = "dock" /\ M!ReplaceFrame
                      \/ part = "registers" /\ R!OtherRequest
                      \/ part = "manual" /\ V!ReadEnds
                      \/ AnswersOf("generate")))
  /\ WF_partVars(Fair(\/ part = "dock" /\ M!Advance
                      \/ part = "manual" /\ (V!Opened \/ V!OpenFails)
                      \/ part = "dialog" /\ Q!FlashEnds
                      \/ part = "page" /\ E!FlashEnds))
  /\ WF_partVars(Fair(\/ part = "dock" /\ M!AutoHide
                      \/ part = "manual" /\ V!PagesInit
                      \/ part = "dialog" /\ Q!TimerFires
                      \/ AnswersOf("save")))
  /\ WF_partVars(Fair(part = "dialog" /\ Q!TakeInitial))

MCSpec == MCInit /\ [][MCNext]_allVars /\ MCFairness

-----------------------------------------------------------------------------
(* The properties of the parts                                                *)

\* What is announced to the UI gets to its user: the core that is in service, or
\* that there is none, however often it is replaced; the file that was opened
\* last; and every notice, whatever is more severe, in progress or under the
\* pointer, unless the user dismisses it.
AnnouncementsArrive ==
  []<>CASE part = "startup" -> ~Unsettled
        [] part = "files" -> ~FileWaits
        [] part = "dock" -> ~M!NoticeWaits(notice)
        [] OTHER -> TRUE

\* No page is left waiting once its user waits: the editors for the image they
\* prepare, whichever answers came late; the register page for its turn with the
\* hardware; the viewer for the manual that was opened last.
PagesSettle ==
  LET waits == CASE part = "dialog" -> Q!Preparing
                 [] part = "page" -> E!Preparing
                 [] part = "registers" -> R!ReadsWait
                 [] part = "manual" -> V!ManualWaits
                 [] OTHER -> FALSE
      disturbs == \/ part = "dialog" /\ Q!UserSteps
                  \/ part = "page" /\ E!UserSteps
                  \/ part = "manual" /\ V!Switches
  IN  <>[][~disturbs]_partVars => []<>~waits

\* The history lists no record twice and in the order of events, its series refer
\* to records that are there; and whatever an operation ends with is recorded when
\* anything is wrong with it, while what is not confirmed is not called a failure.
MessagesAreConsistent ==
  M!HistoryConsistent /\ (part = "verdicts" /\ history.seq = 0 => M!VerdictsAreHonest)

\* A fault counts as unread until the newest records are on the screen, or the
\* list is cleared or has no room for it.
UnreadUntilSeen == [][M!KeepsUnread]_messageVars

\* Whatever answers come late, what the dialog and the page would program is the
\* file, Device and ConfigData they show, for the slave and connection shown.
EditorsWriteWhatIsShown == Q!WritesWhatIsShown /\ E!WritesWhatIsShown

\* The register page has one exchange with its slave at a time and records its
\* monitoring for as long as it polls; the manual shown, its outline and its
\* matches are those that were asked for last.
RegisterPageIsSafe ==
  /\ R!OneExchange /\ R!MonitoringIsRecorded
  /\ V!ManualIsOfTarget /\ V!AnswersAreOfThisManual

\* A register is written on the slave and over the value that the user saw.
WritesOverWhatWasSeen == [][R!WritesWhatWasSeen]_registerVars

\* The view of the file lists that the user can reach shows what is stored; a file
\* that was removed stays away however it is spelled.
SourcesAreKept == S!SourcesInStep /\ S!RemovedStaysHidden

\* The algorithms of the pages compute what they promise.
AlgorithmsAgree == part = "verdicts" /\ history.seq = 0 => C!AlgorithmsAgree
=============================================================================
