----------------------------- MODULE EepromPage -----------------------------
(* The page that edits and programs the EEPROM of one slave (EepromPage.tsx). *)
(* It is mounted anew for every slave and connection and whenever the user    *)
(* comes back to it; the file, the draft and the target are kept per slave    *)
(* for as long as the connection lasts.  ConfigData is edited behind a button *)
(* and has to be saved to the XML before it can be programmed.  Files and     *)
(* answers are external.                                                      *)
EXTENDS FlashTargets

CONSTANTS Xml, Bin, MaxClock, MaxCalls

VARIABLES
  context,   \* the connection and the slave selected: contextKey
  disk,      \* external: ConfigData in the XML of each file
  mounted,
  page,      \* the page of each slave in this connection: sourceCache
  saving,    \* configSaving
  calls,     \* requests without an answer
  operation  \* an EEPROM operation is in progress

pageVars == <<context, disk, mounted, page, saving, calls, operation>>

Contexts == [clock : 1 .. MaxClock, slave : 1 .. 2]
Fresh == [esi |-> NoDocument, bin |-> NoTarget, ordinal |-> 0, target |-> NoTarget,
          config |-> "", editing |-> FALSE, generated |-> "", error |-> FALSE]
Mine == page[context.slave]

Init ==
  /\ context = [clock |-> 1, slave |-> 1]
  /\ disk = [path \in Xml |-> "original"]
  /\ mounted = FALSE /\ page = [slave \in 1 .. 2 |-> Fresh]
  /\ saving = FALSE /\ calls = {} /\ operation = FALSE

-----------------------------------------------------------------------------
(* Generating and loading; k is the context of the page, p what it shows      *)

Generating(p, document, ordinal, config) ==
  [p EXCEPT !.generated = IF config \in Valid THEN config ELSE "", !.target = NoTarget, !.error = FALSE]
Generate(k, cs, document, ordinal, config, awaits) ==
  BumpRequest(cs) \cup {Call(k, "generate", document, ordinal, config, awaits)}

Load(k, pages, cs, path, ordinal, config) ==
  LET document == [NoDocument EXCEPT !.path = path]
      loading == [pages[k.slave] EXCEPT !.generated = "", !.target = NoTarget, !.esi = NoDocument,
                                  !.bin = NoTarget, !.error = FALSE, !.editing = FALSE]
  IN  IF path \in Bin
      THEN /\ page' = [pages EXCEPT ![k.slave] = [loading EXCEPT !.ordinal = 0, !.config = ""]]
           /\ calls' = BumpBoth(cs) \cup {Call(k, "bin", document, 0, "", FALSE)}
      ELSE /\ page' = [pages EXCEPT ![k.slave] = loading]
           /\ calls' = BumpBoth(cs) \cup {Call(k, "load", document, ordinal, config, FALSE)}

-----------------------------------------------------------------------------
(* Mounting                                                                   *)

\* The effects of a mount for k: a selection that the dialog hands over is
\* loaded, a target that was being generated is generated again.
Mounts(k, pages, path) ==
  LET p == pages[k.slave] IN
  /\ mounted' = TRUE /\ saving' = FALSE
  /\ IF path # "" THEN Load(k, pages, calls, path, 1, "original")
     ELSE IF p.esi # NoDocument /\ p.ordinal > 0 /\ p.target = NoTarget /\ ~p.editing /\ ~p.error
     THEN /\ page' = [pages EXCEPT ![k.slave] = Generating(p, p.esi, p.ordinal, p.config)]
          /\ calls' = Generate(k, BumpBoth(calls), p.esi, p.ordinal, p.config, FALSE)
     ELSE page' = pages /\ calls' = BumpBoth(calls)

Enter(path) ==
  /\ UNCHANGED <<context, disk, operation>>
  /\ ~mounted /\ Mounts(context, page, path)

Leave ==
  /\ UNCHANGED <<context, disk, page, saving, operation>>
  /\ mounted /\ mounted' = FALSE /\ calls' = BumpBoth(calls)

\* A connection does not come back: what its pages kept is forgotten.
ContextMoves ==
  /\ UNCHANGED <<disk, operation>>
  /\ context' \in {c \in Contexts : c # context /\ c.clock \in {context.clock, context.clock + 1}}
  /\ LET pages == IF context'.clock = context.clock THEN page ELSE [slave \in 1 .. 2 |-> Fresh] IN
       IF mounted THEN Mounts(context', pages, "")
       ELSE page' = pages /\ UNCHANGED <<mounted, saving, calls>>

\* The dialog hands a file over while the page is there; nothing is asked here.
HandOver(path) ==
  /\ UNCHANGED <<context, disk, mounted, saving, operation>>
  /\ mounted /\ Load(context, page, calls, path, 1, "original")

-----------------------------------------------------------------------------
(* What the user does                                                         *)

Locked == operation \/ saving

Choose(path, ordinal) ==
  /\ UNCHANGED <<context, disk, mounted, saving, operation>>
  /\ mounted /\ ~Locked
  /\ Load(context, page, calls, path, ordinal, "")

ChangeDevice(ordinal) ==
  /\ UNCHANGED <<context, disk, mounted, saving, operation>>
  /\ mounted /\ ~Locked /\ Mine.esi # NoDocument /\ ordinal # Mine.ordinal
  /\ LET p == [Mine EXCEPT !.editing = FALSE, !.ordinal = ordinal, !.config = Mine.esi.config] IN
       /\ page' = [page EXCEPT ![context.slave] = Generating(p, p.esi, ordinal, p.config)]
       /\ calls' = Generate(context, calls, p.esi, ordinal, p.config, FALSE)

HasDevice == mounted /\ ~Locked /\ Mine.esi # NoDocument /\ Mine.ordinal > 0

Edit ==
  /\ UNCHANGED <<context, disk, mounted, saving, operation>>
  /\ HasDevice /\ ~Mine.editing
  /\ page' = [page EXCEPT ![context.slave].editing = TRUE]
  /\ calls' = BumpRequest(calls)

Type(config) ==
  /\ UNCHANGED <<context, disk, mounted, saving, calls, operation>>
  /\ HasDevice /\ Mine.editing
  /\ page' = [page EXCEPT ![context.slave].config = config]

SaveConfig ==
  /\ UNCHANGED <<context, disk, mounted, page, operation>>
  /\ HasDevice /\ Mine.editing /\ Mine.config \in Valid
  /\ saving' = TRUE
  /\ calls' = BumpBoth(calls)
       \cup {Call(context, "save", Mine.esi, Mine.ordinal, Mine.config, FALSE)}

FlashTarget == IF Mine.bin # NoTarget THEN Mine.bin ELSE Mine.target

CanFlash ==
  /\ mounted /\ ~Locked /\ ~Mine.editing /\ ~Mine.error
  /\ Mine.esi # NoDocument => Mine.config \in Valid
  /\ FlashTarget # NoTarget /\ FlashTarget.context = context

Flash ==
  /\ UNCHANGED <<context, disk, mounted, page, saving, calls>>
  /\ CanFlash /\ operation' = TRUE

FlashEnds ==
  /\ UNCHANGED <<context, disk, mounted, page, saving, calls>>
  /\ operation /\ operation' = FALSE

-----------------------------------------------------------------------------
(* Answers                                                                    *)

LoadAnswered(c, succeeds, ambiguous) ==
  LET l == Loaded(c, disk, ambiguous)
      p == [Mine EXCEPT !.esi = l.document, !.ordinal = l.ordinal, !.config = l.effective]
      rest == calls \ {c}
  IN  /\ c.kind = "load" /\ saving' = saving
      /\ IF ~(succeeds /\ c.load) THEN page' = page /\ calls' = rest
         ELSE IF l.ordinal = 0 THEN page' = [page EXCEPT ![context.slave] = p] /\ calls' = rest
         ELSE /\ page' = [page EXCEPT ![context.slave] = Generating(p, l.document, l.ordinal, l.effective)]
              /\ calls' = Generate(context, rest, l.document, l.ordinal, l.effective, TRUE)

BinAnswered(c, succeeds) ==
  /\ c.kind = "bin" /\ calls' = calls \ {c} /\ saving' = saving
  /\ page' = IF ~c.load THEN page
             ELSE IF succeeds THEN [page EXCEPT ![context.slave].bin = BinImage(c)]
             ELSE [page EXCEPT ![context.slave].error = TRUE]

\* A save ends with the generation that follows it.
GenerateAnswered(c, succeeds) ==
  /\ c.kind = "generate" /\ calls' = calls \ {c}
  /\ saving' = (saving /\ ~(c.awaits /\ c.load))
  /\ page' = IF ~c.request THEN page
             ELSE IF succeeds THEN [page EXCEPT ![context.slave].target = ImageOf(c)]
             ELSE [page EXCEPT ![context.slave].error = TRUE]

SaveAnswered(c, succeeds) ==
  LET saved == [c.document EXCEPT !.config = c.config]
      p == [Mine EXCEPT !.esi = saved, !.config = c.config, !.editing = FALSE]
      rest == calls \ {c}
  IN  /\ c.kind = "save"
      /\ saving' = (saving /\ ~(c.load /\ ~succeeds))
      /\ IF ~(succeeds /\ c.load) THEN page' = page /\ calls' = rest
         ELSE /\ page' = [page EXCEPT ![context.slave] = Generating(p, saved, c.ordinal, c.config)]
              /\ calls' = Generate(context, rest, saved, c.ordinal, c.config, TRUE)

Answer(c) ==
  /\ UNCHANGED <<context, mounted, operation>>
  /\ \E succeeds, ambiguous \in BOOLEAN :
       /\ \/ LoadAnswered(c, succeeds, ambiguous)
          \/ BinAnswered(c, succeeds) \/ GenerateAnswered(c, succeeds) \/ SaveAnswered(c, succeeds)
       /\ disk' = IF c.kind = "save" /\ succeeds THEN [disk EXCEPT ![c.document.path] = c.config]
                  ELSE disk

UserSteps ==
  \/ \E path \in Xml \cup Bin \cup {""} : Enter(path)
  \/ Leave \/ ContextMoves \/ Edit \/ SaveConfig \/ Flash
  \/ \E path \in Xml \cup Bin : HandOver(path)
  \/ \E path \in Xml \cup Bin, ordinal \in 0 .. 1 : Choose(path, ordinal)
  \/ ChangeDevice(1)
  \/ \E config \in Valid \cup {"invalid"} : Type(config)

Next ==
  \/ UserSteps /\ Cardinality(calls) < MaxCalls
  \/ FlashEnds
  \/ \E c \in calls : Answer(c)

\* The core answers every request.
Fairness ==
  /\ \A kind \in {"load", "bin", "generate", "save"} :
       WF_pageVars(\E c \in calls : c.kind = kind /\ Answer(c))
  /\ WF_pageVars(FlashEnds)

Spec == Init /\ [][Next]_pageVars /\ Fairness

-----------------------------------------------------------------------------
\* Whatever the user left and came back to, the target that can be programmed
\* is the one of the XML, Device and ConfigData shown, for this slave and this
\* connection, and no draft is lost on the way to it; and no change leaves the
\* page with a ConfigData that it would have to generate the target of later.
WritesWhatIsShown ==
  /\ CanFlash /\ Mine.bin = NoTarget =>
       Mine.target = [document |-> Mine.esi, ordinal |-> Mine.ordinal, config |-> Mine.config,
                      context |-> context]
  /\ HasDevice /\ ~Mine.editing /\ Mine.config \in Valid => Mine.generated = Mine.config

\* The page does not wait for its target for ever once the user waits.
Preparing ==
  /\ HasDevice /\ ~Mine.editing /\ ~Mine.error /\ Mine.config \in Valid
  /\ Mine.target = NoTarget
=============================================================================
