---------------------------- MODULE FlashTargets ----------------------------
(* What the two editors of an EEPROM image have in common: the documents they *)
(* load, the image the core generates from one, and the calls on their way.   *)
(* Both number their calls; instead of the numbers, a call keeps request and  *)
(* load as long as no later call has taken its place.                         *)
EXTENDS Naturals, FiniteSets

Valid == {"original", "edited"}  \* ConfigData that normalizeConfigData accepts
NoContext == [clock |-> 0, slave |-> 0]
NoDocument == [path |-> "", config |-> ""]
NoTarget == [document |-> NoDocument, ordinal |-> 0, config |-> "", context |-> NoContext]

\* awaits: a load or a save goes on when the generation has ended.
Call(context, kind, document, ordinal, config, awaits) ==
  [kind |-> kind, document |-> document, ordinal |-> ordinal, config |-> config,
   context |-> context, awaits |-> awaits, request |-> kind = "generate",
   load |-> kind # "generate" \/ awaits]

BumpRequest(calls) == {[c EXCEPT !.request = FALSE] : c \in calls}
BumpBoth(calls) == {[c EXCEPT !.request = FALSE, !.load = FALSE] : c \in calls}

\* The image of the document, Device, ConfigData and slave that were requested.
ImageOf(c) ==
  [document |-> c.document, ordinal |-> c.ordinal, config |-> c.config, context |-> c.context]
BinImage(c) == [NoTarget EXCEPT !.document = c.document, !.context = c.context]

\* What a document on disk gives for the Device asked for: the one preferred, or
\* the one that matches the slave, unless the choice is left to the user.
Loaded(c, disk, ambiguous) ==
  LET document == [c.document EXCEPT !.config = disk[c.document.path]]
      ordinal == IF c.ordinal > 0 THEN c.ordinal ELSE IF ambiguous THEN 0 ELSE 1
      original == IF ordinal > 0 THEN document.config ELSE ""
  IN  [document |-> document, ordinal |-> ordinal, original |-> original,
       effective |-> IF c.config \in Valid THEN c.config ELSE original]

=============================================================================
