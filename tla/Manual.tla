------------------------------- MODULE Manual -------------------------------
(* The viewer of the register manuals (PdfManualViewer.tsx).  It stays        *)
(* mounted while the register page is, keeps one parsed document between      *)
(* visits and serialises its PDF workers.  A target is a manual and a page of *)
(* it, 0 when the index has none.  PDF.js and the file reader are external;   *)
(* zoom, resizing and the sections of the outline are left out.               *)
EXTENDS Naturals

CONSTANTS
  Manuals,  \* manuals with a good file
  Broken,   \* manuals whose file is missing or is not the one of the index
  Pages,    \* pages of every manual; a target may ask for one more
  Terms     \* texts to search for

VARIABLES
  open, target,
  load,      \* the load that is not cancelled: "", "waits", "reads" or "opens"
  task,      \* the manual of the live PDF worker
  retiring,  \* a worker is being destroyed: retirement
  document,  \* the document the session keeps, of documentKey
  attached,  \* viewer.pdfDocument
  ready, loading, error,
  page,      \* what the toolbar shows
  outline,   \* [shown, of]: the panel is open, the manual whose outline it has
  asked,     \* manuals whose outline was asked for
  search     \* [text, submitted, pending, matches]: a pending count waits for its timer

manualVars == <<open, target, load, task, retiring, document, attached, ready, loading, error, page, outline, asked, search>>

NoManual == "none"
Targets == [manual : Manuals \cup Broken, page : 0 .. Pages + 1]
NoSearch == [text |-> "", submitted |-> "", pending |-> "", matches |-> ""]

ManualInit ==
  /\ open = FALSE /\ target \in [manual : Manuals, page : {1}]
  /\ load = "" /\ task = NoManual /\ retiring = FALSE /\ document = NoManual /\ attached = NoManual
  /\ ready = FALSE /\ loading = TRUE /\ error = FALSE /\ page = 1
  /\ outline = [shown |-> FALSE, of |-> NoManual] /\ asked = {} /\ search = NoSearch

OutOfRange(t) == t.page > Pages
FirstPage(t) == IF t.page = 0 THEN 1 ELSE t.page

\* releaseDocument: the worker is destroyed in the background
Release(destroys) ==
  IF destroys THEN task' = NoManual /\ document' = NoManual /\ retiring' = (retiring \/ task # NoManual)
  ELSE UNCHANGED <<task, document, retiring>>

\* The effect of a target or a visibility: its cleanup cancels the load, then it
\* detaches the viewer, goes to a page of the kept document or loads another.
Shows(o, t) ==
  /\ open' = o /\ target' = t
  /\ LET kept == document # NoManual IN
     IF ~o
     THEN /\ Release(~kept) /\ load' = "" /\ ready' = FALSE /\ attached' = NoManual
          /\ search' = [search EXCEPT !.submitted = "", !.pending = ""]
          /\ UNCHANGED <<loading, error, page, outline>>
     ELSE /\ search' = NoSearch
          /\ IF kept /\ document = t.manual
             THEN /\ Release(FALSE) /\ load' = "" /\ error' = OutOfRange(t)
                  /\ outline' = [outline EXCEPT !.shown = FALSE]
                  /\ IF OutOfRange(t) THEN UNCHANGED <<attached, ready, loading, page>>
                     ELSE IF attached = document /\ ready
                     THEN page' = FirstPage(t) /\ UNCHANGED <<attached, ready, loading>>
                     ELSE loading' = TRUE /\ attached' = document /\ UNCHANGED <<ready, page>>
             ELSE /\ Release(TRUE) /\ load' = "waits" /\ ready' = FALSE /\ attached' = NoManual
                  /\ loading' = TRUE /\ error' = FALSE /\ page' = page
                  /\ outline' = [shown |-> FALSE, of |-> NoManual]

OpenManual(t) == Shows(TRUE, t) /\ asked' = asked
CloseManual == open /\ Shows(FALSE, target) /\ asked' = asked

-----------------------------------------------------------------------------
(* The load                                                                   *)

Visible == UNCHANGED <<open, target>>
Retired ==
  /\ retiring /\ retiring' = FALSE
  /\ UNCHANGED <<open, target, load, task, document, attached, ready, loading, error, page, outline, asked, search>>
Fails ==
  /\ Release(TRUE) /\ load' = "" /\ error' = TRUE /\ loading' = FALSE
  /\ UNCHANGED <<attached, ready, page, outline, asked, search>>
Reads ==
  /\ load = "waits" /\ ~retiring /\ load' = "reads"
  /\ UNCHANGED <<open, target, task, retiring, document, attached, ready, loading, error, page, outline, asked, search>>
ReadEnds ==
  /\ load = "reads" /\ Visible
  /\ IF target.manual \in Broken THEN Fails
     ELSE /\ load' = "opens" /\ task' = target.manual
          /\ UNCHANGED <<retiring, document, attached, ready, loading, error, page, outline, asked, search>>
Opened ==
  /\ load = "opens" /\ Visible
  /\ IF OutOfRange(target) THEN Fails
     ELSE /\ load' = "" /\ document' = target.manual /\ attached' = target.manual
          /\ UNCHANGED <<task, retiring, ready, loading, error, page, outline, asked, search>>
OpenFails == load = "opens" /\ Visible /\ Fails

PagesInit ==
  /\ open /\ document # NoManual /\ attached = document /\ ~ready
  /\ ready' = TRUE /\ loading' = FALSE /\ page' = FirstPage(target)
  /\ UNCHANGED <<open, target, load, task, retiring, document, attached, error, outline, asked, search>>

-----------------------------------------------------------------------------
(* The toolbar, the outline and the search                                    *)

Disabled == loading \/ error
Navigate(n) ==
  /\ open /\ ~Disabled /\ ready /\ page' = n
  /\ UNCHANGED <<open, target, load, task, retiring, document, attached, ready, loading, error, outline, asked, search>>

\* The outline is asked for when its panel opens, and kept if the document is
\* still the one of the session.
ToggleOutline ==
  /\ open /\ outline' = [outline EXCEPT !.shown = ~@]
  /\ UNCHANGED <<open, target, load, task, retiring, document, attached, ready, loading, error, page, asked, search>>
AsksOutline ==
  /\ open /\ outline.shown /\ ~loading /\ document # NoManual /\ outline.of = NoManual
  /\ document \notin asked /\ asked' = asked \cup {document}
  /\ UNCHANGED <<open, target, load, task, retiring, document, attached, ready, loading, error, page, outline, search>>
OutlineArrives ==
  /\ \E manual \in asked :
       /\ asked' = asked \ {manual}
       /\ outline' = IF manual = document THEN [outline EXCEPT !.of = manual] ELSE outline
  /\ UNCHANGED <<open, target, load, task, retiring, document, attached, ready, loading, error, page, search>>

Searching ==
  UNCHANGED <<open, target, load, task, retiring, document, attached, ready, loading, error, page, outline, asked>>
EditSearch(text) ==
  /\ Searching /\ open /\ ~Disabled /\ text # search.text
  /\ search' = [NoSearch EXCEPT !.text = text]
Find ==
  /\ Searching /\ open /\ ~Disabled /\ search.text # ""
  /\ search' = [search EXCEPT !.submitted = search.text, !.matches = "searching"]
\* PDF.js counts the matches of the text that was submitted.
Counts ==
  /\ Searching /\ open /\ search.submitted # "" /\ search.pending = ""
  /\ search' = [search EXCEPT !.pending = search.submitted]
ShowsMatches ==
  /\ Searching /\ search.pending # ""
  /\ search' = [search EXCEPT !.pending = "", !.matches = IF open /\ search.submitted # "" THEN search.pending ELSE @]
FindState(state) ==
  /\ Searching /\ open /\ search.submitted # ""
  /\ search' = [search EXCEPT !.pending = "", !.matches = state]

-----------------------------------------------------------------------------
Switches == \E t \in Targets : OpenManual(t)

ManualSteps ==
  \/ Switches \/ CloseManual \/ Retired \/ Reads \/ ReadEnds \/ Opened \/ OpenFails \/ PagesInit
  \/ \E n \in 1 .. Pages : Navigate(n)
  \/ ToggleOutline \/ AsksOutline \/ OutlineArrives
  \/ \E text \in Terms : EditSearch(text)
  \/ Find \/ Counts \/ ShowsMatches
  \/ \E state \in {"searching", "nothing"} : FindState(state)

ManualSpec == ManualInit /\ [][ManualSteps]_manualVars

\* Workers and readers answer, PDF.js initialises the pages it was given.
ManualFairness ==
  /\ WF_manualVars(Retired) /\ WF_manualVars(Reads) /\ WF_manualVars(ReadEnds)
  /\ WF_manualVars(Opened \/ OpenFails) /\ WF_manualVars(PagesInit)

-----------------------------------------------------------------------------
(* Properties                                                                 *)

\* The viewer only holds a document whose worker lives, of the manual that was
\* asked for last, and no worker starts before the one before it is destroyed.
ManualIsOfTarget ==
  /\ attached # NoManual => attached = document /\ attached = target.manual
  /\ document # NoManual => document = task
  /\ task # NoManual => ~retiring

\* An outline and a count of matches that are shown are those of this document
\* and of this search.
AnswersAreOfThisManual ==
  /\ outline.of \in {NoManual, document}
  /\ search.matches \in {"", "searching", "nothing", search.text}

\* What must not stay once the user stops switching manuals: an open one is shown
\* or an error is.
ManualWaits == open /\ ~error /\ ~(ready /\ ~loading)
=============================================================================
