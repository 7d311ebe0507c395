---------------------------- MODULE SnapshotClock ----------------------------
(***************************************************************************)
(* What every consumer of a Master snapshot relies on, above all           *)
(* compareSnapshotClock and acceptsSnapshot in desktop/src/snapshotClock.ts*)
(* (host generation aside): a snapshot is named by <<session, revision>>,  *)
(* names only grow, and content never changes under one name.              *)
(***************************************************************************)
EXTENDS Naturals

VARIABLES session, revision, content

vars == <<session, revision, content>>

Init == session = 0 /\ revision = 0

\* A new content comes with a new revision, and maybe with a new session.
Publish ==
  /\ revision' = revision + 1
  /\ session' \in {session, session + 1}

Spec == Init /\ [][Publish]_vars
=============================================================================
