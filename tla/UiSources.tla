----------------------------- MODULE UiSources -----------------------------
(* The lists of XML and BIN files (eepromConfig.ts) and the two views that    *)
(* edit them: the panel of the EEPROM page (EepromSources.tsx) and the dialog *)
(* that programs quickly (QuickEepromFlashDialog.tsx).  Each view keeps a     *)
(* copy of what localStorage holds, and asks the core for the files of its    *)
(* library, which may change at any time.  A file has two spellings, with     *)
(* either slash; a record names a Device of it, and list keys of older        *)
(* versions named one Device of one spelling.  A recent file is a path alone: *)
(* of its record here only the file and its spelling count.  That operations  *)
(* disable buttons is left out.                                               *)
EXTENDS Integers, Sequences, FiniteSets, SequencesExt

CONSTANTS
  Records,      \* [file, slash, ordinal]: the records that occur
  RecentLimit,  \* bound of the recent files: 20 in the code
  HistoryLimit, \* FLASH_HISTORY_LIMIT: 25 in the code
  MaxEdits      \* bound on what the user does

VARIABLES
  stored,  \* localStorage: fixed, recent and history lists
  library, \* external: the files of the library
  panel,   \* the panel of the page: shown, fixed, recent, library, asked
  dialog,  \* the dialog: open, fixed, history, library, asked
  removed, \* files taken from the fixed list and not put back; for the properties
  edits

sourceVars == <<stored, library, panel, dialog, removed, edits>>

\* A file without a Device: a BIN file, or an XML file not opened yet.
Deviceless(entry) == [entry EXCEPT !.ordinal = -1]
Listed == Records \cup {Deviceless(entry) : entry \in Records}

sourcePathKey(entry) == entry.file
PathKey(entry) == [path |-> sourcePathKey(entry)]
fixedEsiKey(entry) == [file |-> entry.file, slash |-> entry.slash, ordinal |-> entry.ordinal]
\* Mutant of sourceHiddenKeys: a file is hidden as it was spelled only.
sourceHiddenKeysSpelled(entry) == {fixedEsiKey(entry)}

sourceHiddenKeys(entry) == {PathKey(entry), fixedEsiKey(entry)}
sameEepromSource(a, b) == sourcePathKey(a) = sourcePathKey(b)
Files(entries) == {entries[i].file : i \in DOMAIN entries}

\* The entries at some places, in their order, as filter returns them.
Filtered(entries, places) ==
  LET upTo[n \in 0 .. Len(entries)] ==
        IF n = 0 THEN <<>>
        ELSE IF n \in places THEN Append(upTo[n - 1], entries[n]) ELSE upTo[n - 1]
  IN  upTo[Len(entries)]

\* uniqueEepromSources keeps the first record of each path.
FirstOfFile(entries) ==
  {n \in DOMAIN entries : \A i \in 1 .. n - 1 : ~sameEepromSource(entries[i], entries[n])}
uniqueEepromSources(entries) == Filtered(entries, FirstOfFile(entries))
OfOtherFiles(entries, entry) == {n \in DOMAIN entries : ~sameEepromSource(entries[n], entry)}
Without(entries, entry) == Filtered(entries, OfOtherFiles(entries, entry))
First(limit, entries) == SubSeq(entries, 1, IF Len(entries) < limit THEN Len(entries) ELSE limit)

fixedEsiEntries(state, files) ==
  LET entries == state.favorites \o files
      visible == {n \in DOMAIN entries : sourceHiddenKeys(entries[n]) \cap state.hidden = {}}
  IN  uniqueEepromSources(Filtered(entries, visible))
addFixedEsiEntry(state, entry) ==
  [favorites |-> uniqueEepromSources(<<entry>> \o state.favorites),
   hidden |-> state.hidden \ sourceHiddenKeys(entry)]
removeFixedEsiEntry(state, entry, files) ==
  LET matches == {item \in {entry} \cup ToSet(state.favorites) \cup ToSet(files) : sameEepromSource(item, entry)}
  IN  [favorites |-> Without(state.favorites, entry),
       hidden |-> state.hidden \cup UNION {sourceHiddenKeys(item) : item \in matches}]
writeRecentEsi(entries) == First(RecentLimit, uniqueEepromSources(entries))
saveFlashHistory(entry, current) == First(HistoryLimit, uniqueEepromSources(<<entry>> \o current))

-----------------------------------------------------------------------------
(* The views                                                                  *)

Nothing == [favorites |-> <<>>, hidden |-> {}]
Libraries == {<<>>} \cup {<<a>> : a \in Records} \cup {<<a, b>> : a, b \in Records}

\* An older version may have left keys of single Devices.
SourcesInit ==
  /\ \E keys \in SUBSET {fixedEsiKey(entry) : entry \in Records} :
       stored = [fixed |-> [Nothing EXCEPT !.hidden = keys], recent |-> <<>>, history |-> <<>>]
  /\ library \in Libraries
  /\ panel = [shown |-> FALSE, fixed |-> Nothing, recent |-> <<>>, library |-> <<>>, asked |-> FALSE]
  /\ dialog = [open |-> FALSE, fixed |-> Nothing, history |-> <<>>, library |-> <<>>, asked |-> FALSE]
  /\ removed = {} /\ edits = 0

\* The effects of a panel that becomes active
Activated(p) == [p EXCEPT !.fixed = stored.fixed, !.recent = stored.recent, !.asked = TRUE]

\* The page is entered, with a new panel, or left.
ShowPanel(shown) ==
  /\ panel.shown # shown /\ UNCHANGED <<stored, library, dialog, removed>>
  /\ LET new == [panel EXCEPT !.shown = shown, !.fixed = stored.fixed, !.recent = stored.recent,
                              !.library = <<>>, !.asked = FALSE]
     IN  panel' = IF shown /\ ~dialog.open THEN Activated(new) ELSE new
OpenDialog ==
  /\ ~dialog.open /\ UNCHANGED <<stored, library, removed>>
  /\ dialog' = [dialog EXCEPT !.open = TRUE, !.fixed = stored.fixed, !.history = stored.history,
                              !.asked = TRUE]
  /\ panel' = [panel EXCEPT !.asked = FALSE]
CloseDialog ==
  /\ dialog.open /\ UNCHANGED <<stored, library, removed>>
  /\ dialog' = [dialog EXCEPT !.open = FALSE, !.asked = FALSE]
  /\ panel' = IF panel.shown THEN Activated(panel) ELSE panel

\* The button of either view; a request before it is not listened to any more.
RefreshPanel ==
  /\ panel.shown /\ ~dialog.open /\ UNCHANGED <<stored, library, dialog, removed>>
  /\ panel' = [panel EXCEPT !.fixed = stored.fixed, !.asked = TRUE]
RefreshDialog ==
  /\ dialog.open /\ dialog' = [dialog EXCEPT !.asked = TRUE] /\ UNCHANGED <<stored, library, panel, removed>>
PanelAnswered(succeeds) ==
  /\ panel.asked
  /\ panel' = [panel EXCEPT !.asked = FALSE, !.library = IF succeeds THEN library ELSE @]
  /\ UNCHANGED <<stored, library, dialog, removed, edits>>
\* A refresh that fails leaves the list, the first request empties it.
DialogAnswered(files) ==
  /\ dialog.asked /\ dialog' = [dialog EXCEPT !.asked = FALSE, !.library = files]
  /\ UNCHANGED <<stored, library, panel, removed, edits>>
LibraryChanges ==
  /\ library' \in Libraries \ {library} /\ UNCHANGED <<stored, panel, dialog, removed>>

-----------------------------------------------------------------------------
(* Edits of the lists                                                         *)

PanelFixed == fixedEsiEntries(panel.fixed, panel.library)
DialogFixed == fixedEsiEntries(dialog.fixed, dialog.library)

\* The record of a recent row: that of the file that is loaded, with or without a
\* Device, that of the fixed list, or one of the path alone.
recentEntry(path) == {entry \in Listed : sameEepromSource(entry, path)}

\* The star of a row toggles, the bin of a fixed row removes.
Toggled(fixed, files, entry) ==
  IF entry.file \in Files(fixedEsiEntries(fixed, files)) THEN removeFixedEsiEntry(fixed, entry, files)
  ELSE addFixedEsiEntry(fixed, entry)
Traced(entry, list) == IF entry.file \in Files(list) THEN removed \cup {entry.file} ELSE removed \ {entry.file}

StarInPanel(entry) ==
  /\ panel.shown /\ ~dialog.open
  /\ entry \in ToSet(PanelFixed) \cup UNION {recentEntry(path) : path \in ToSet(panel.recent)}
  /\ panel' = [panel EXCEPT !.fixed = Toggled(@, panel.library, entry)]
  /\ stored' = [stored EXCEPT !.fixed = panel'.fixed] /\ removed' = Traced(entry, PanelFixed)
  /\ UNCHANGED <<library, dialog>>
StarInDialog(entry) ==
  /\ dialog.open /\ entry \in ToSet(dialog.history) \cup ToSet(DialogFixed)
  /\ dialog' = [dialog EXCEPT !.fixed = Toggled(@, dialog.library, entry)]
  /\ stored' = [stored EXCEPT !.fixed = dialog'.fixed] /\ removed' = Traced(entry, DialogFixed)
  /\ UNCHANGED <<library, panel>>

\* A file that is loaded, also by a request of the page that the dialog covers.
LoadedByPage(entry) ==
  /\ panel.shown /\ stored' = [stored EXCEPT !.recent = writeRecentEsi(<<entry>> \o @)]
  /\ panel' = [panel EXCEPT !.recent = stored'.recent] /\ UNCHANGED <<library, dialog, removed>>
LoadedByDialog(entry) ==
  /\ dialog.open /\ stored' = [stored EXCEPT !.recent = writeRecentEsi(<<entry>> \o @)]
  /\ UNCHANGED <<library, panel, dialog, removed>>
RemoveRecent(entry) ==
  /\ panel.shown /\ ~dialog.open /\ entry \in ToSet(panel.recent)
  /\ stored' = [stored EXCEPT !.recent = writeRecentEsi(Without(@, entry))]
  /\ panel' = [panel EXCEPT !.recent = stored'.recent] /\ UNCHANGED <<library, dialog, removed>>
Flashed(entry) ==
  /\ dialog.open /\ dialog' = [dialog EXCEPT !.history = saveFlashHistory(entry, @)]
  /\ stored' = [stored EXCEPT !.history = dialog'.history] /\ UNCHANGED <<library, panel, removed>>
RemoveHistory(entry) ==
  /\ dialog.open /\ entry \in ToSet(dialog.history)
  /\ dialog' = [dialog EXCEPT !.history = Without(@, entry)]
  /\ stored' = [stored EXCEPT !.history = dialog'.history] /\ UNCHANGED <<library, panel, removed>>

Edits ==
  \/ \E shown \in BOOLEAN : ShowPanel(shown)
  \/ OpenDialog \/ CloseDialog \/ RefreshPanel \/ RefreshDialog \/ LibraryChanges
  \/ \E entry \in Records : LoadedByPage(entry) \/ LoadedByDialog(entry) \/ RemoveRecent(entry)
  \/ \E entry \in Listed :
       StarInPanel(entry) \/ StarInDialog(entry) \/ Flashed(entry) \/ RemoveHistory(entry)
SourceSteps ==
  \/ Edits /\ edits < MaxEdits /\ edits' = edits + 1
  \/ \E succeeds \in BOOLEAN : PanelAnswered(succeeds)
  \/ \E files \in {library, dialog.library, <<>>} : DialogAnswered(files)

-----------------------------------------------------------------------------
(* Properties                                                                 *)

\* Two views edit the same lists and write their own copy of them over what is
\* stored: the one the user can reach shows what is stored, so that no edit made
\* in the other is lost.
SourcesInStep ==
  /\ dialog.open => dialog.fixed = stored.fixed /\ dialog.history = stored.history
  /\ panel.shown /\ ~dialog.open => panel.fixed = stored.fixed /\ panel.recent = stored.recent

\* A file the user took from the list stays away, whatever spelling or Device the
\* library brings it back with, and one that was put back is there although keys
\* of an older version hide Devices of it.
RemovedStaysHidden ==
  \A view \in (IF dialog.open THEN {DialogFixed} ELSE IF panel.shown THEN {PanelFixed} ELSE {}) :
    /\ Files(view) \cap removed = {}
    /\ Files(stored.fixed.favorites) \subseteq Files(view)
    /\ \A i, j \in DOMAIN view : i # j => ~sameEepromSource(view[i], view[j])
=============================================================================
