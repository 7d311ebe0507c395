-------------------------- MODULE UiSessionProofs --------------------------
(* Proofs about what MCUiSession follows: the requests of the UI with its      *)
(* updater, and the frame around the pages (Workbench, here W!).  Answers,     *)
(* snapshots and events arrive in any order, for every number of requests,     *)
(* pages, sessions and cores.                                                  *)
EXTENDS MCUiSession, TLAPS

-----------------------------------------------------------------------------
(* The invariant                                                              *)

\* An operation that is under way was sent from this page, to the core and the
\* session that are shown.
SentHere(op) ==
  /\ op.page = page
  /\ op.context # NoSnapshot =>
       /\ latest # NoSnapshot /\ latest.gen = op.context.gen
       /\ op.method \in Connecting \/ latest.session = op.context.session

\* Operations and answers are numbered by what was sent, an answer that was
\* handled has ended its operation, and no failure stands for "completed".
AnswersMatch ==
  /\ DOMAIN ops \subseteq 1 .. issued /\ DOMAIN answers \subseteq 1 .. issued
  /\ \A i \in DOMAIN answers :
       /\ answers[i].outcome # "none" /\ i \in DOMAIN ops => ~Active(ops[i])
       /\ ~answers[i].ok => answers[i].phase # "completed"

AllSentHere == \A i \in DOMAIN ops : Active(ops[i]) => SentHere(ops[i])

\* An installation holds the updater, the store and the version, and no device
\* operation is under way but the one it waits for.
Installing == {"preparing", "downloading", "installing"}
InstallAlone ==
  /\ task = "install" <=> ustate \in Installing
  /\ waitsFor # 0 => ustate = "preparing"
  /\ task = "install" =>
       /\ updating /\ handle = "open"
       /\ \A i \in DOMAIN ops :
            Active(ops[i]) /\ ops[i].method \in Hardware \ {"register_watch"} => i = waitsFor

Inv == RequestsTypeOK /\ AnswersMatch /\ AllSentHere /\ InstallAlone

-----------------------------------------------------------------------------
(* The operators of the table                                                 *)

\* after is the table before in which some operations have ended.
Fades(before, after) ==
  /\ DOMAIN after = DOMAIN before
  /\ \A i \in DOMAIN before :
       /\ after[i] \in Operations /\ after[i].method = before[i].method
       /\ Active(after[i]) => after[i] = before[i]

\* And none of them by its own answer.
Outdated(before, after) ==
  /\ Fades(before, after)
  /\ \A i \in DOMAIN before :
       /\ ~Active(before[i]) => after[i] = before[i]
       /\ Active(before[i]) /\ ~Active(after[i]) =>
            after[i].phase = IF before[i].method \in Mutating THEN "unknown" ELSE "failed"

\* An operation that ends keeps its method and is not active any more.
LEMMA EndedIsOver ==
  ASSUME NEW op \in Operations, NEW phase \in Terminal
  PROVE  /\ Ended(op, phase) \in Operations /\ Ended(op, phase).method = op.method
         /\ Ended(op, phase).phase = phase /\ ~Active(Ended(op, phase))
BY DEF Ended, Operations, Active, Contexts

\* Invalidating operations ends those that were active, without a verdict.
LEMMA InvalidatedOutdates ==
  ASSUME NEW table, NEW ids, \A i \in DOMAIN table : table[i] \in Operations
  PROVE  /\ Outdated(table, Invalidated(table, ids))
         /\ \A i \in DOMAIN table :
              IF i \in ids THEN ~Active(Invalidated(table, ids)[i])
              ELSE Invalidated(table, ids)[i] = table[i]
<1> DEFINE new == Invalidated(table, ids)
           verdict(i) == IF table[i].method \in Mutating THEN "unknown" ELSE "failed"
<1>1. DOMAIN new = DOMAIN table
  BY DEF Invalidated
<1>2. ASSUME NEW i \in DOMAIN table, i \in ids, Active(table[i])
      PROVE  /\ new[i] \in Operations /\ new[i].method = table[i].method
             /\ ~Active(new[i]) /\ new[i].phase = verdict(i)
  <2>1. new[i] = Ended(table[i], verdict(i))
    BY <1>2 DEF Invalidated
  <2>2. verdict(i) \in Terminal
    BY DEF Terminal
  <2>. QED BY <2>1, <2>2, EndedIsOver
<1>3. ASSUME NEW i \in DOMAIN table, ~(i \in ids /\ Active(table[i]))
      PROVE  new[i] = table[i]
  BY <1>3 DEF Invalidated
<1>. HIDE DEF new
<1>4. Fades(table, new)
  BY <1>1, <1>2, <1>3 DEF Fades
<1>5. Outdated(table, new)
  BY <1>2, <1>3, <1>4 DEF Outdated
<1>. QED BY <1>2, <1>3, <1>5 DEF new

\* A transition ends one operation at most, in the phase that is asked for.
LEMMA TransitionFades ==
  ASSUME NEW table, NEW i, NEW phase \in Terminal,
         \A j \in DOMAIN table : table[j] \in Operations
  PROVE  /\ Fades(table, Transition(table, i, phase))
         /\ \A j \in DOMAIN table \ {i} : Transition(table, i, phase)[j] = table[j]
         /\ i \in DOMAIN table =>
              /\ ~Active(Transition(table, i, phase)[i])
              /\ Active(table[i]) => Transition(table, i, phase)[i].phase = phase
<1> DEFINE new == Transition(table, i, phase)
<1>1. DOMAIN new = DOMAIN table
  BY DEF Transition
<1>2. ASSUME NEW j \in DOMAIN table, ~(j = i /\ Active(table[j])) PROVE new[j] = table[j]
  BY <1>2 DEF Transition
<1>3. ASSUME i \in DOMAIN table, Active(table[i]) PROVE new[i] = Ended(table[i], phase)
  BY <1>3 DEF Transition
<1>. HIDE DEF new
<1>4. Fades(table, new)
  BY <1>1, <1>2, <1>3, EndedIsOver DEF Fades
<1>. QED BY <1>2, <1>3, <1>4, EndedIsOver DEF new

\* Fading twice is fading.
LEMMA FadesTwice ==
  ASSUME NEW a, NEW b, NEW c, Fades(a, b), Fades(b, c)
  PROVE  Fades(a, c)
BY DEF Fades

-----------------------------------------------------------------------------
(* The steps of the properties                                                *)

ClockStep == latest # NoSnapshot => latest' # NoSnapshot /\ ~Before(latest', latest)

ReturnStep ==
  \A i \in DOMAIN ops :
    i \in DOMAIN answers /\ answers[i].outcome = "none" /\ answers'[i].outcome = "returned" =>
      /\ ops[i].page = page
      /\ ops[i].context # NoSnapshot =>
           /\ latest.gen = ops[i].context.gen
           /\ ops[i].method \in Connecting \/ latest.session = ops[i].context.session

VerdictStep ==
  \A i \in DOMAIN ops \cap DOMAIN ops' :
    Active(ops[i]) =>
      /\ ops'[i].phase = "completed" => answers'[i].outcome = "returned"
      /\ ops'[i].phase = "failed" /\ ops[i].method \in Mutating =>
           Awaits(i) /\ answers[i].phase = "failed" /\ answers'[i].outcome = "thrown"

GoodStep == ClockStep /\ ReturnStep /\ VerdictStep

\* What the steps of the requests keep, whatever the updater does.
RequestInv == RequestsTypeOK /\ AnswersMatch /\ AllSentHere

\* The snapshot shown is not replaced by an older one, and what it puts out of
\* context is ended: of what is left, all but the source was sent here.
LEMMA PublishedInContext ==
  ASSUME RequestInv, NEW snapshot \in Snapshots \cup {NoSnapshot}, NEW source
  PROVE  LET after == Published(snapshot, source)
         IN  /\ Outdated(ops, after.ops)
             /\ source \in DOMAIN ops => after.ops[source] = ops[source]
             /\ after.latest \in Snapshots \cup {NoSnapshot}
             /\ latest # NoSnapshot => after.latest # NoSnapshot /\ ~Before(after.latest, latest)
             /\ \A i \in DOMAIN ops \ {source} :
                  Active(after.ops[i]) =>
                    /\ ops[i].page = page
                    /\ ops[i].context # NoSnapshot =>
                         /\ after.latest # NoSnapshot
                         /\ after.latest.gen = ops[i].context.gen
                         /\ \/ ops[i].method \in Connecting
                            \/ after.latest.session = ops[i].context.session
<1>. DEFINE out == OutOfContext(snapshot, source)
            after == Published(snapshot, source)
<1>1. /\ \A i \in DOMAIN ops : ops[i] \in Operations
      /\ latest \in Snapshots \cup {NoSnapshot}
      /\ \A i \in DOMAIN ops : Active(ops[i]) => SentHere(ops[i])
  BY DEF RequestInv, RequestsTypeOK, AllSentHere
<1>2. CASE snapshot # NoSnapshot /\ Accepts(snapshot)
  <2>1. after = [ops |-> Invalidated(ops, out), latest |-> snapshot]
    BY <1>2 DEF Published
  <2>2. /\ Outdated(ops, after.ops)
        /\ \A i \in DOMAIN ops :
             IF i \in out THEN ~Active(after.ops[i]) ELSE after.ops[i] = ops[i]
    BY <1>1, <2>1, InvalidatedOutdates
  <2>3. source \notin out
    BY DEF OutOfContext
  <2>4. ASSUME NEW i \in DOMAIN ops \ {source}, Active(after.ops[i])
        PROVE  /\ ops[i].page = page
               /\ ops[i].context # NoSnapshot =>
                    /\ after.latest # NoSnapshot /\ after.latest.gen = ops[i].context.gen
                    /\ \/ ops[i].method \in Connecting
                       \/ after.latest.session = ops[i].context.session
    <3>1. i \notin out /\ Active(ops[i])
      BY <2>2, <2>4
    <3>2. SentHere(ops[i])
      BY <1>1, <3>1
    <3>3. CASE latest = NoSnapshot
      BY <3>2, <3>3 DEF SentHere
    <3>4. CASE latest # NoSnapshot
      <4>1. latest.gen = snapshot.gen
        BY <3>1, <3>4 DEF OutOfContext
      <4>2. CASE latest.session = snapshot.session
        BY <1>2, <2>1, <3>2, <4>1, <4>2 DEF SentHere
      <4>3. CASE latest.session # snapshot.session
        BY <1>2, <2>1, <3>1, <3>2, <3>4, <4>1, <4>3 DEF OutOfContext, SentHere
      <4>. QED BY <4>2, <4>3
    <3>. QED BY <3>3, <3>4
  <2>5. latest # NoSnapshot => ~Before(after.latest, latest)
    BY <1>2, <2>1 DEF Accepts
  <2>. QED BY <1>2, <2>1, <2>2, <2>3, <2>4, <2>5
<1>3. CASE ~(snapshot # NoSnapshot /\ Accepts(snapshot))
  <2>1. after.ops = ops /\ after.latest = latest
    BY <1>3 DEF Published
  <2>2. Outdated(ops, ops)
    BY <1>1 DEF Outdated, Fades
  <2>3. latest # NoSnapshot => ~Before(latest, latest)
    BY <1>1 DEF Before, Snapshots
  <2>. QED BY <1>1, <2>1, <2>2, <2>3 DEF SentHere
<1>. QED BY <1>2, <1>3

-----------------------------------------------------------------------------
(* The steps of the requests                                                  *)

\* A handled answer stays an answer, and stands for a failure.
LEMMA HandledAnswers ==
  ASSUME RequestInv, NEW i \in DOMAIN answers, NEW outcome \in {"returned", "thrown"},
         answers' = Handled(i, outcome)
  PROVE  /\ DOMAIN answers' = DOMAIN answers
         /\ \A j \in DOMAIN answers' :
              /\ answers'[j] \in Answers
              /\ ~answers'[j].ok => answers'[j].phase # "completed"
         /\ \A j \in DOMAIN answers \ {i} : answers'[j] = answers[j]
         /\ answers'[i].outcome = outcome
BY DEF RequestInv, RequestsTypeOK, AnswersMatch, Handled, Answers, Terminal

\* An answer that is a result.
LEMMA ResolveStep ==
  ASSUME RequestInv, NEW i \in Ids, Resolve(i)
  PROVE  RequestInv' /\ GoodStep /\ Fades(ops, ops')
<1> DEFINE after == Published(answers[i].snapshot, i)
           got == IF i \in DOMAIN after.ops /\ Active(after.ops[i]) THEN "returned" ELSE "thrown"
<1>1. /\ i \in DOMAIN answers /\ answers[i].outcome = "none"
      /\ latest' = after.latest /\ ops' = Transition(after.ops, i, "completed")
      /\ answers' = Handled(i, got)
      /\ UNCHANGED <<issued, page, updating, events, core>>
  BY DEF Resolve, Awaits
<1>2. answers[i].snapshot \in Snapshots \cup {NoSnapshot}
  BY <1>1 DEF RequestInv, RequestsTypeOK, Answers
<1>3. /\ Outdated(ops, after.ops)
      /\ i \in DOMAIN ops => after.ops[i] = ops[i]
      /\ after.latest \in Snapshots \cup {NoSnapshot}
      /\ latest # NoSnapshot => after.latest # NoSnapshot /\ ~Before(after.latest, latest)
      /\ \A j \in DOMAIN ops \ {i} :
           Active(after.ops[j]) =>
             /\ ops[j].page = page
             /\ ops[j].context # NoSnapshot =>
                  /\ after.latest # NoSnapshot /\ after.latest.gen = ops[j].context.gen
                  /\ \/ ops[j].method \in Connecting
                     \/ after.latest.session = ops[j].context.session
  BY <1>2, PublishedInContext
<1>. HIDE DEF after
<1>4. /\ Fades(after.ops, ops')
      /\ \A j \in DOMAIN after.ops \ {i} : ops'[j] = after.ops[j]
      /\ i \in DOMAIN after.ops => ~Active(ops'[i])
  <2>1. \A j \in DOMAIN after.ops : after.ops[j] \in Operations
    BY <1>3 DEF Outdated, Fades
  <2>. QED BY <1>1, <2>1, TransitionFades DEF Terminal
<1>5. Fades(ops, ops')
  BY <1>3, <1>4, FadesTwice DEF Outdated
<1>6. /\ DOMAIN answers' = DOMAIN answers
      /\ \A j \in DOMAIN answers' :
           /\ answers'[j] \in Answers
           /\ ~answers'[j].ok => answers'[j].phase # "completed"
      /\ \A j \in DOMAIN answers \ {i} : answers'[j] = answers[j]
      /\ answers'[i].outcome = got
  BY <1>1, HandledAnswers
<1>7. DOMAIN after.ops = DOMAIN ops /\ DOMAIN ops' = DOMAIN ops
  BY <1>3, <1>5 DEF Outdated, Fades
<1>8. RequestsTypeOK'
  BY <1>1, <1>3, <1>5, <1>6 DEF RequestInv, RequestsTypeOK, Fades
<1>9. AnswersMatch'
  BY <1>1, <1>4, <1>5, <1>6, <1>7 DEF RequestInv, AnswersMatch, Fades, Active
<1>10. AllSentHere'
  <2>. SUFFICES ASSUME NEW j \in DOMAIN ops', Active(ops'[j]) PROVE SentHere(ops[j])'
    BY <1>5, <1>7 DEF AllSentHere, Fades, SentHere, Active
  <2>1. j \in DOMAIN ops \ {i} /\ ops'[j] = ops[j] /\ Active(after.ops[j])
    BY <1>4, <1>5, <1>7 DEF Fades
  <2>. QED BY <1>1, <1>3, <2>1 DEF SentHere
<1>11. ClockStep
  BY <1>1, <1>3 DEF ClockStep
<1>12. ReturnStep
  <2>. SUFFICES ASSUME NEW j \in DOMAIN ops, j \in DOMAIN answers, answers[j].outcome = "none",
                       answers'[j].outcome = "returned"
                PROVE  SentHere(ops[j])
    BY DEF ReturnStep, SentHere
  <2>1. j = i
    BY <1>6
  <2>2. Active(ops[i])
    BY <1>3, <1>6, <2>1
  <2>. QED BY <2>1, <2>2 DEF RequestInv, AllSentHere
<1>13. VerdictStep
  <2>. SUFFICES ASSUME NEW j \in DOMAIN ops, Active(ops[j])
                PROVE  /\ ops'[j].phase = "completed" => answers'[j].outcome = "returned"
                       /\ ops'[j].phase = "failed" /\ ops[j].method \in Mutating => FALSE
    BY DEF VerdictStep
  <2>1. CASE j = i
    <3>1. ops'[i].phase = "completed"
      <4>1. \A k \in DOMAIN after.ops : after.ops[k] \in Operations
        BY <1>3 DEF Outdated, Fades
      <4>. QED BY <1>1, <1>3, <1>7, <2>1, <4>1, TransitionFades DEF Terminal
    <3>. QED BY <1>3, <1>6, <1>7, <2>1, <3>1
  <2>2. CASE j # i
    <3>1. ops'[j] = after.ops[j]
      BY <1>4, <1>7, <2>2
    <3>. QED BY <1>3, <3>1 DEF Outdated, Active, Terminal
  <2>. QED BY <2>1, <2>2
<1>. QED BY <1>5, <1>8, <1>9, <1>10, <1>11, <1>12, <1>13 DEF RequestInv, GoodStep

\* An answer that is a failure, with or without the loss of the session.
LEMMA RejectStep ==
  ASSUME RequestInv, NEW i \in Ids, Reject(i)
  PROVE  RequestInv' /\ GoodStep /\ Fades(ops, ops')
<1> DEFINE after == Published(answers[i].snapshot, i)
           phase == answers[i].phase
           ended == Transition(after.ops, i, phase)
<1>1. /\ i \in DOMAIN answers /\ answers[i].outcome = "none" /\ ~answers[i].ok
      /\ latest' = after.latest
      /\ ops' = IF answers[i].lost THEN Invalidated(ended, DOMAIN ended) ELSE ended
      /\ answers' = Handled(i, "thrown")
      /\ UNCHANGED <<issued, page, updating, events, core>>
  BY DEF Reject, Awaits
<1>2. /\ answers[i].snapshot \in Snapshots \cup {NoSnapshot}
      /\ phase \in Terminal /\ phase # "completed"
  BY <1>1 DEF RequestInv, RequestsTypeOK, AnswersMatch, Answers
<1>3. /\ Outdated(ops, after.ops)
      /\ i \in DOMAIN ops => after.ops[i] = ops[i]
      /\ after.latest \in Snapshots \cup {NoSnapshot}
      /\ latest # NoSnapshot => after.latest # NoSnapshot /\ ~Before(after.latest, latest)
      /\ \A j \in DOMAIN ops \ {i} :
           Active(after.ops[j]) =>
             /\ ops[j].page = page
             /\ ops[j].context # NoSnapshot =>
                  /\ after.latest # NoSnapshot /\ after.latest.gen = ops[j].context.gen
                  /\ \/ ops[j].method \in Connecting
                     \/ after.latest.session = ops[j].context.session
  BY <1>2, PublishedInContext
<1>. HIDE DEF after
<1>4. /\ Fades(after.ops, ended)
      /\ \A j \in DOMAIN after.ops \ {i} : ended[j] = after.ops[j]
      /\ i \in DOMAIN after.ops =>
           /\ ~Active(ended[i])
           /\ Active(after.ops[i]) => ended[i].phase = phase
  <2>1. \A j \in DOMAIN after.ops : after.ops[j] \in Operations
    BY <1>3 DEF Outdated, Fades
  <2>. QED BY <1>2, <2>1, TransitionFades
<1>. HIDE DEF ended
<1>5. Fades(ended, ops') /\ Outdated(ended, ops')
  <2>1. \A j \in DOMAIN ended : ended[j] \in Operations
    BY <1>4 DEF Fades
  <2>2. CASE answers[i].lost
    BY <1>1, <2>1, <2>2, InvalidatedOutdates DEF Outdated
  <2>3. CASE ~answers[i].lost
    BY <1>1, <2>1, <2>3 DEF Outdated, Fades
  <2>. QED BY <2>2, <2>3
<1>6. Fades(ops, ended) /\ Fades(ops, ops')
  BY <1>3, <1>4, <1>5, FadesTwice DEF Outdated
<1>7. /\ DOMAIN answers' = DOMAIN answers
      /\ \A j \in DOMAIN answers' :
           /\ answers'[j] \in Answers
           /\ ~answers'[j].ok => answers'[j].phase # "completed"
      /\ \A j \in DOMAIN answers \ {i} : answers'[j] = answers[j]
      /\ answers'[i].outcome = "thrown"
  BY <1>1, HandledAnswers
<1>8. DOMAIN after.ops = DOMAIN ops /\ DOMAIN ops' = DOMAIN ops /\ DOMAIN ended = DOMAIN ops
  BY <1>3, <1>4, <1>6 DEF Outdated, Fades
<1>9. RequestsTypeOK'
  BY <1>1, <1>3, <1>6, <1>7 DEF RequestInv, RequestsTypeOK, Fades
<1>10. \A j \in DOMAIN ops : Active(ops'[j]) =>
         /\ j # i /\ ops'[j] = ops[j] /\ Active(ops[j]) /\ Active(after.ops[j])
  BY <1>3, <1>4, <1>5, <1>6, <1>8 DEF Fades
<1>11. AnswersMatch'
  BY <1>1, <1>6, <1>7, <1>8, <1>10 DEF RequestInv, AnswersMatch, Active
<1>12. AllSentHere'
  BY <1>1, <1>3, <1>8, <1>10 DEF AllSentHere, SentHere, Active
<1>13. ClockStep
  BY <1>1, <1>3 DEF ClockStep
<1>14. ReturnStep
  BY <1>7 DEF ReturnStep
<1>15. VerdictStep
  <2>. SUFFICES ASSUME NEW j \in DOMAIN ops, Active(ops[j])
                PROVE  /\ ops'[j].phase # "completed"
                       /\ ops'[j].phase = "failed" /\ ops[j].method \in Mutating =>
                            j = i /\ phase = "failed"
    BY <1>1, <1>7 DEF VerdictStep, Awaits
  <2>1. CASE j = i
    <3>1. ended[i].phase = phase /\ ~Active(ended[i])
      BY <1>3, <1>4, <1>8, <2>1
    <3>2. ops'[i].phase = phase
      BY <1>5, <1>8, <2>1, <3>1 DEF Outdated
    <3>. QED BY <1>2, <2>1, <3>2
  <2>2. CASE j # i
    <3>1. ended[j] = after.ops[j]
      BY <1>4, <1>8, <2>2
    <3>2. CASE Active(ended[j])
      <4>1. ended[j].method = ops[j].method
        BY <1>6 DEF Fades
      <4>. QED BY <1>5, <1>8, <3>2, <4>1 DEF Outdated, Active, Terminal
    <3>3. CASE ~Active(ended[j])
      <4>1. ops'[j] = after.ops[j]
        BY <1>5, <1>8, <3>1, <3>3 DEF Outdated
      <4>. QED BY <1>3, <3>1, <3>3, <4>1 DEF Outdated
    <3>. QED BY <3>2, <3>3
  <2>. QED BY <2>1, <2>2
<1>. QED BY <1>6, <1>9, <1>11, <1>12, <1>13, <1>14, <1>15 DEF RequestInv, GoodStep

\* A step that ends operations without an answer, and sends none.
LEMMA OutdatedStep ==
  ASSUME RequestInv, Outdated(ops, ops'), RequestsTypeOK', AllSentHere', ClockStep,
         issued' = issued, answers' = answers
  PROVE  RequestInv' /\ GoodStep /\ Fades(ops, ops')
<1>1. Fades(ops, ops')
  BY DEF Outdated
<1>2. AnswersMatch'
  BY <1>1 DEF RequestInv, AnswersMatch, Fades, Active
<1>3. ReturnStep
  BY DEF ReturnStep
<1>4. VerdictStep
  BY DEF Outdated, VerdictStep, Active, Terminal
<1>. QED BY <1>1, <1>2, <1>3, <1>4 DEF RequestInv, GoodStep

\* A snapshot that the core announced.
LEMMA SnapshotEventStep ==
  ASSUME RequestInv, NEW e, SnapshotEvent(e)
  PROVE  RequestInv' /\ GoodStep /\ Fades(ops, ops')
<1> DEFINE after == Published(e, 0)
<1>1. /\ e \in Snapshots
      /\ ops' = after.ops /\ latest' = after.latest /\ events' \subseteq events
      /\ UNCHANGED <<issued, page, updating, answers, core>>
  BY DEF SnapshotEvent, RequestInv, RequestsTypeOK
<1>2. /\ Outdated(ops, after.ops)
      /\ after.latest \in Snapshots \cup {NoSnapshot}
      /\ latest # NoSnapshot => after.latest # NoSnapshot /\ ~Before(after.latest, latest)
      /\ \A j \in DOMAIN ops \ {0} :
           Active(after.ops[j]) =>
             /\ ops[j].page = page
             /\ ops[j].context # NoSnapshot =>
                  /\ after.latest # NoSnapshot /\ after.latest.gen = ops[j].context.gen
                  /\ \/ ops[j].method \in Connecting
                     \/ after.latest.session = ops[j].context.session
  BY <1>1, PublishedInContext
<1>. HIDE DEF after
<1>3. \A j \in DOMAIN ops : j # 0
  BY BoundsAssumption DEF RequestInv, RequestsTypeOK, Ids
<1>4. DOMAIN ops' = DOMAIN ops
  BY <1>1, <1>2 DEF Outdated, Fades
<1>5. AllSentHere'
  <2>1. \A j \in DOMAIN ops : Active(ops'[j]) => ops'[j] = ops[j] /\ Active(after.ops[j])
    BY <1>1, <1>2 DEF Outdated, Fades
  <2>. QED BY <1>1, <1>2, <1>3, <1>4, <2>1 DEF AllSentHere, SentHere, Active
<1>6. RequestsTypeOK'
  BY <1>1, <1>2, <1>4 DEF RequestInv, RequestsTypeOK, Outdated, Fades
<1>7. ClockStep
  BY <1>1, <1>2 DEF ClockStep
<1>. QED BY <1>1, <1>2, <1>5, <1>6, <1>7, OutdatedStep

\* The end of a core: the fault takes the clock of the last snapshot, and
\* everything that was under way is over.
LEMMA ExitEventStep ==
  ASSUME RequestInv, NEW e, ExitEvent(e)
  PROVE  RequestInv' /\ GoodStep /\ Fades(ops, ops')
<1> DEFINE fault == HostFault(e.gen)
<1>1. /\ e \in Snapshots
      /\ latest' = IF Accepts(fault) THEN fault ELSE latest
      /\ ops' = Invalidated(ops, DOMAIN ops) /\ events' \subseteq events
      /\ UNCHANGED <<issued, page, updating, answers, core>>
  BY DEF ExitEvent, RequestInv, RequestsTypeOK
<1>2. fault \in Snapshots
  BY <1>1 DEF HostFault, Snapshots, RequestInv, RequestsTypeOK
<1>. HIDE DEF fault
<1>3. Outdated(ops, ops') /\ \A j \in DOMAIN ops : ~Active(ops'[j])
  BY <1>1, InvalidatedOutdates DEF RequestInv, RequestsTypeOK
<1>4. DOMAIN ops' = DOMAIN ops
  BY <1>3 DEF Outdated, Fades
<1>5. RequestsTypeOK'
  BY <1>1, <1>2, <1>3, <1>4 DEF RequestInv, RequestsTypeOK, Outdated, Fades
<1>6. AllSentHere'
  BY <1>3, <1>4 DEF AllSentHere, Active
<1>7. ClockStep
  <2>1. latest # NoSnapshot => ~Before(latest, latest)
    BY DEF RequestInv, RequestsTypeOK, Before, Snapshots
  <2>. QED BY <1>1, <1>2, <2>1, NoSnapshotAssumption DEF ClockStep, Accepts
<1>. QED BY <1>1, <1>3, <1>5, <1>6, <1>7, OutdatedStep

\* A verdict is an answer that nobody has handled.
LEMMA VerdictIsAnswer ==
  ASSUME NEW ok \in BOOLEAN, NEW phase \in Terminal, NEW lost \in BOOLEAN,
         NEW snapshot \in Snapshots \cup {NoSnapshot}
  PROVE  /\ Verdict(ok, phase, lost, snapshot) \in Answers
         /\ Verdict(ok, phase, lost, snapshot).outcome = "none"
         /\ Verdict(ok, phase, lost, snapshot).ok = ok
         /\ Verdict(ok, phase, lost, snapshot).phase = phase
BY DEF Verdict, Answers

\* What the core and the host do reaches the UI only by answers and events.
LEMMA CoreStep ==
  ASSUME RequestInv,
         CoreMoves \/ CoreExits \/ CoreReplaced
           \/ \E i \in Ids : CoreAnswers(i) \/ HostRefuses(i)
  PROVE  RequestInv' /\ GoodStep /\ Fades(ops, ops')
<1>1. UNCHANGED <<store, updating>>
  BY DEF CoreMoves, CoreExits, CoreReplaced, CoreAnswers, HostRefuses
<1>2. core' \in Snapshots /\ events' \subseteq Snapshots
  <2>1. core \in Snapshots /\ events \subseteq Snapshots
    BY DEF RequestInv, RequestsTypeOK
  <2>2. CASE CoreMoves
    <3>1. \/ core' = [core EXCEPT !.rev = @ + 1]
          \/ core' = [core EXCEPT !.rev = @ + 1, !.session = @ + 1]
      BY <2>2 DEF CoreMoves
    <3>2. core.rev + 1 \in Nat /\ core.session + 1 \in Nat
      BY <2>1 DEF Snapshots
    <3>3. core' \in Snapshots
      BY <2>1, <3>1, <3>2, Zenon DEF Snapshots
    <3>. QED BY <2>1, <2>2, <3>3 DEF CoreMoves
  <2>3. CASE CoreExits
    BY <2>1, <2>3 DEF CoreExits, Snapshots
  <2>4. CASE CoreReplaced
    BY <2>1, <2>4 DEF CoreReplaced, Snapshots
  <2>5. CASE \E i \in Ids : CoreAnswers(i) \/ HostRefuses(i)
    BY <2>1, <2>5 DEF CoreAnswers, HostRefuses
  <2>. QED BY <2>2, <2>3, <2>4, <2>5
<1>3. /\ DOMAIN answers \subseteq DOMAIN answers' /\ DOMAIN answers' \subseteq 1 .. issued
      /\ \A j \in DOMAIN answers : answers'[j] = answers[j]
      /\ \A j \in DOMAIN answers' \ DOMAIN answers :
           /\ answers'[j] \in Answers /\ answers'[j].outcome = "none"
           /\ ~answers'[j].ok => answers'[j].phase # "completed"
  <2>1. DOMAIN answers \subseteq 1 .. issued /\ core \in Snapshots
    BY DEF RequestInv, RequestsTypeOK, AnswersMatch
  <2>2. CASE UNCHANGED answers
    BY <2>1, <2>2
  <2>3. CASE CoreExits
    BY <2>1, <2>3 DEF CoreExits, Unanswered, Verdict, Answers, Terminal
  <2>4. ASSUME NEW i \in Ids, CoreAnswers(i) \/ HostRefuses(i)
        PROVE  /\ DOMAIN answers' = DOMAIN answers \cup {i} /\ i \in (1 .. issued) \ DOMAIN answers
               /\ \A j \in DOMAIN answers : answers'[j] = answers[j]
               /\ answers'[i] \in Answers /\ answers'[i].outcome = "none"
               /\ ~answers'[i].ok => answers'[i].phase # "completed"
    <3> DEFINE verdicts ==
                 {Verdict(TRUE, "completed", FALSE, core), Verdict(FALSE, "failed", FALSE, core),
                  Verdict(FALSE, "cancelled", FALSE, NoSnapshot),
                  Verdict(FALSE, "unknown", TRUE, core), Verdict(FALSE, "failed", FALSE, NoSnapshot)}
           isVerdict(v) ==
             v \in Answers /\ v.outcome = "none" /\ (~v.ok => v.phase # "completed")
    <3>1. \A verdict \in verdicts : isVerdict(verdict)
      <4>. USE <2>1 DEF Terminal
      <4>1. isVerdict(Verdict(TRUE, "completed", FALSE, core))
        BY VerdictIsAnswer
      <4>2. isVerdict(Verdict(FALSE, "failed", FALSE, core))
        BY VerdictIsAnswer
      <4>3. isVerdict(Verdict(FALSE, "cancelled", FALSE, NoSnapshot))
        BY VerdictIsAnswer
      <4>4. isVerdict(Verdict(FALSE, "unknown", TRUE, core))
        BY VerdictIsAnswer
      <4>5. isVerdict(Verdict(FALSE, "failed", FALSE, NoSnapshot))
        BY VerdictIsAnswer
      <4>. HIDE DEF isVerdict
      <4>. QED BY <4>1, <4>2, <4>3, <4>4, <4>5
    <3>2. PICK verdict \in verdicts :
            answers' = [j \in DOMAIN answers \cup {i} |-> IF j = i THEN verdict ELSE answers[j]]
      BY <2>4 DEF CoreAnswers, HostRefuses
    <3>3. i \in (1 .. issued) \ DOMAIN answers
      BY <2>4 DEF CoreAnswers, HostRefuses, Unanswered
    <3>. HIDE DEF verdicts
    <3>. QED BY <3>1, <3>2, <3>3
  <2>5. CoreMoves \/ CoreReplaced => UNCHANGED answers
    BY DEF CoreMoves, CoreReplaced
  <2>6. CASE \E i \in Ids : CoreAnswers(i) \/ HostRefuses(i)
    BY <2>1, <2>4, <2>6
  <2>. QED BY <2>2, <2>3, <2>5, <2>6
<1>4. UNCHANGED <<ops, issued, page, latest, updating>>
  BY <1>1 DEF store
<1>5. RequestsTypeOK'
  <2>1. issued \in 0 .. MaxOps /\ MaxOps \in Nat
    BY BoundsAssumption DEF RequestInv, RequestsTypeOK
  <2>2. DOMAIN answers' \subseteq Ids
    BY <1>3, <2>1 DEF Ids
  <2>3. \A j \in DOMAIN answers' : answers'[j] \in Answers
    BY <1>3 DEF RequestInv, RequestsTypeOK
  <2>. QED BY <1>2, <1>4, <2>2, <2>3 DEF RequestInv, RequestsTypeOK
<1>6. AnswersMatch'
  BY <1>3, <1>4 DEF RequestInv, AnswersMatch, Active
<1>7. AllSentHere'
  BY <1>4 DEF RequestInv, AllSentHere, SentHere, Active
<1>8. ClockStep
  BY <1>4 DEF RequestInv, RequestsTypeOK, ClockStep, Before, Snapshots
<1>9. ReturnStep
  BY <1>3 DEF ReturnStep
<1>10. VerdictStep
  BY <1>4 DEF VerdictStep, Active, Terminal
<1>11. Fades(ops, ops')
  BY <1>4 DEF RequestInv, RequestsTypeOK, Fades
<1>. QED BY <1>5, <1>6, <1>7, <1>8, <1>9, <1>10, <1>11 DEF RequestInv, GoodStep

\* Everything that happens to the requests once they are sent.
LEMMA RequestStep ==
  ASSUME RequestInv, RequestSteps
  PROVE  RequestInv' /\ GoodStep /\ Fades(ops, ops') /\ updating' = updating
<1>1. updating' = updating
  BY DEF RequestSteps, Resolve, Reject, CoreAnswers, HostRefuses, SnapshotEvent, ExitEvent,
         CoreMoves, CoreExits, CoreReplaced
<1>. QED BY <1>1, ResolveStep, RejectStep, SnapshotEventStep, ExitEventStep, CoreStep
     DEF RequestSteps

\* A change of page ends what the pages before it had sent.
LEMMA NextPageStep ==
  ASSUME RequestInv, NextPage
  PROVE  RequestInv' /\ GoodStep /\ Fades(ops, ops') /\ updating' = updating
<1> DEFINE old == {i \in DOMAIN ops : ops[i].page <= page}
<1>1. /\ page' = page + 1 /\ ops' = Invalidated(ops, old)
      /\ UNCHANGED <<issued, latest, updating, answers, events, core>>
  BY DEF NextPage, external
<1>2. /\ Outdated(ops, ops')
      /\ \A j \in DOMAIN ops : j \in old => ~Active(ops'[j])
  BY <1>1, InvalidatedOutdates DEF RequestInv, RequestsTypeOK
<1>3. DOMAIN ops' = DOMAIN ops
  BY <1>2 DEF Outdated, Fades
<1>4. RequestsTypeOK'
  <2>1. page' \in Nat
    BY <1>1 DEF RequestInv, RequestsTypeOK
  <2>2. \A j \in DOMAIN ops' : ops'[j] \in Operations
    BY <1>2, <1>3 DEF Outdated, Fades
  <2>. QED BY <1>1, <1>3, <2>1, <2>2 DEF RequestInv, RequestsTypeOK
<1>5. \A j \in DOMAIN ops : ~Active(ops'[j])
  <2>. SUFFICES ASSUME NEW j \in DOMAIN ops, Active(ops'[j]) PROVE j \in old
    BY <1>2
  <2>1. ops[j] = ops'[j] /\ SentHere(ops[j])
    BY <1>2 DEF Outdated, Fades, RequestInv, AllSentHere
  <2>. QED BY <2>1 DEF SentHere, RequestInv, RequestsTypeOK
<1>6. AllSentHere'
  BY <1>3, <1>5 DEF AllSentHere, Active
<1>7. ClockStep
  BY <1>1 DEF RequestInv, RequestsTypeOK, ClockStep, Before, Snapshots
<1>. QED BY <1>1, <1>2, <1>4, <1>6, <1>7, OutdatedStep

\* A request that is sent: it gets a number of its own, and of the operations
\* before it some may be dropped.
LEMMA BeginStep ==
  ASSUME RequestInv, NEW m \in Methods, Begin(m), updating' \in BOOLEAN
  PROVE  /\ RequestInv' /\ GoodStep /\ issued' \notin DOMAIN ops
         /\ DOMAIN ops' \subseteq DOMAIN ops \cup {issued'} /\ issued' \in DOMAIN ops'
         /\ ops'[issued'].method = m
         /\ \A i \in DOMAIN ops' \ {issued'} : ops'[i] = ops[i]
<1>1. /\ issued' = issued + 1 /\ issued < MaxOps /\ ops' = Begun(m, issued + 1)
      /\ UNCHANGED <<page, latest, answers, events, core>>
  BY DEF Begin
<1>2. DOMAIN Pruned \subseteq DOMAIN ops /\ \A i \in DOMAIN Pruned : Pruned[i] = ops[i]
  BY DEF Pruned
<1>3. issued \in Nat /\ MaxOps \in Nat /\ issued' \in 1 .. MaxOps /\ issued' \notin DOMAIN ops
  BY <1>1, BoundsAssumption DEF RequestInv, RequestsTypeOK, AnswersMatch
<1>4. /\ DOMAIN ops' = DOMAIN Pruned \cup {issued'}
      /\ \A i \in DOMAIN Pruned : ops'[i] = ops[i]
      /\ ops'[issued'] = [method |-> m, page |-> page, phase |-> "running",
                          context |-> IF latest = NoSnapshot THEN NoSnapshot
                                      ELSE [gen |-> latest.gen, session |-> latest.session]]
  BY <1>1, <1>2, <1>3 DEF Begun
<1>5. /\ ops'[issued'] \in Operations /\ SentHere(ops[issued])'
  <2>1. ops'[issued'] \in Operations
    BY <1>4 DEF Operations, Contexts, Snapshots, RequestInv, RequestsTypeOK
  <2>2. SentHere(ops[issued])'
    BY <1>1, <1>4 DEF SentHere
  <2>. QED BY <2>1, <2>2
<1>6. RequestsTypeOK'
  <2>1. DOMAIN ops' \subseteq Ids /\ \A i \in DOMAIN ops' : ops'[i] \in Operations
    BY <1>2, <1>3, <1>4, <1>5 DEF RequestInv, RequestsTypeOK, Ids
  <2>2. issued' \in 0 .. MaxOps
    BY <1>3
  <2>. QED BY <1>1, <2>1, <2>2 DEF RequestInv, RequestsTypeOK
<1>7. AnswersMatch'
  <2>1. DOMAIN ops' \subseteq 1 .. issued' /\ DOMAIN answers' \subseteq 1 .. issued'
    BY <1>1, <1>2, <1>3, <1>4 DEF RequestInv, AnswersMatch
  <2>2. issued' \notin DOMAIN answers
    BY <1>1, <1>3 DEF RequestInv, AnswersMatch
  <2>. QED BY <1>1, <1>2, <1>4, <2>1, <2>2 DEF RequestInv, AnswersMatch, Active
<1>8. AllSentHere'
  BY <1>1, <1>2, <1>4, <1>5 DEF RequestInv, AllSentHere, SentHere, Active
<1>9. ClockStep
  BY <1>1 DEF RequestInv, RequestsTypeOK, ClockStep, Before, Snapshots
<1>10. ReturnStep
  BY <1>1 DEF ReturnStep
<1>11. VerdictStep
  BY <1>3, <1>4 DEF VerdictStep, Active, Terminal
<1>. QED BY <1>2, <1>3, <1>4, <1>6, <1>7, <1>8, <1>9, <1>10, <1>11 DEF RequestInv, GoodStep

\* A step that leaves the requests alone.
LEMMA QuietStep ==
  ASSUME RequestInv, updating' \in BOOLEAN,
         UNCHANGED <<ops, issued, page, latest, answers, events, core>>
  PROVE  RequestInv' /\ GoodStep
<1>1. RequestsTypeOK' /\ AnswersMatch' /\ AllSentHere'
  BY DEF RequestInv, RequestsTypeOK, AnswersMatch, AllSentHere, SentHere, Active
<1>2. ClockStep
  BY DEF RequestInv, RequestsTypeOK, ClockStep, Before, Snapshots
<1>3. ReturnStep /\ VerdictStep
  BY DEF ReturnStep, VerdictStep, Active, Terminal
<1>. QED BY <1>1, <1>2, <1>3 DEF RequestInv, GoodStep

-----------------------------------------------------------------------------
(* The steps of the updater                                                   *)

LoneOperation ==
  \A i \in DOMAIN ops :
    Active(ops[i]) /\ ops[i].method \in Hardware \ {"register_watch"} => i = waitsFor

\* Operations that end leave an installation alone.
LEMMA FadingKeepsAlone ==
  ASSUME InstallAlone, Fades(ops, ops'), UNCHANGED <<updating, ustate, task, handle, waitsFor>>
  PROVE  InstallAlone'
BY DEF InstallAlone, Installing, Fades, Active

\* A step of the updater that sends nothing.
LEMMA SilentUpdateStep ==
  ASSUME Inv,
         \/ AutomaticCheck \/ ManualCheck \/ \E found \in BOOLEAN : CheckEnds(found)
         \/ CheckFails \/ SetAutoCheck \/ Remind \/ \E ignore \in BOOLEAN : CloseDialog(ignore)
         \/ Download \/ Downloaded \/ InstallFails
  PROVE  Inv' /\ GoodStep
<1>1. UNCHANGED <<ops, issued, page, latest, answers, events, core>> /\ updating' \in BOOLEAN
  <2>1. CASE UNCHANGED requestVars
    BY <2>1 DEF requestVars, Inv, RequestsTypeOK
  <2>2. CASE InstallFails
    BY <2>2 DEF InstallFails, store, external
  <2>. QED BY <2>1, <2>2 DEF AutomaticCheck, ManualCheck, CheckEnds, CheckFails, SetAutoCheck,
       Remind, CloseDialog, Download, Downloaded
<1>2. RequestInv' /\ GoodStep
  BY <1>1, QuietStep DEF Inv, RequestInv
<1>3. InstallAlone'
  <2>. USE DEF Inv, InstallAlone, Installing, Active
  <2>1. CASE AutomaticCheck
    BY <1>1, <2>1 DEF AutomaticCheck, SetAvailable, requestVars
  <2>2. CASE ManualCheck
    BY <1>1, <2>2 DEF ManualCheck, SetAvailable, requestVars
  <2>3. CASE \E found \in BOOLEAN : CheckEnds(found)
    BY <1>1, <2>3 DEF CheckEnds, SetAvailable, requestVars
  <2>4. CASE CheckFails
    BY <1>1, <2>4 DEF CheckFails, requestVars
  <2>5. CASE SetAutoCheck \/ Remind \/ \E ignore \in BOOLEAN : CloseDialog(ignore)
    BY <1>1, <2>5 DEF SetAutoCheck, Remind, CloseDialog, requestVars, searchVars
  <2>6. CASE Download
    <3>1. waitsFor \in DOMAIN answers /\ answers[waitsFor].outcome # "none"
      BY <2>6 DEF Download, Returned, Answered
    <3>2. \A i \in DOMAIN ops : Active(ops[i]) => i # waitsFor
      BY <3>1 DEF AnswersMatch
    <3>. QED BY <1>1, <2>6, <3>2 DEF Download, requestVars
  <2>7. CASE Downloaded
    BY <1>1, <2>7 DEF Downloaded, requestVars
  <2>8. CASE InstallFails
    BY <1>1, <2>8 DEF InstallFails
  <2>. QED BY <2>1, <2>2, <2>3, <2>4, <2>5, <2>6, <2>7, <2>8
<1>. QED BY <1>2, <1>3 DEF Inv, RequestInv

\* A step of an installation that sends a request and waits for it: nothing
\* else of the device is under way, and what it waited for is over.
LEMMA AskingStep ==
  ASSUME Inv, NEW m \in Methods, Asks(m), updating', task' = "install", ustate' = "preparing",
         handle' = "open", updating' \in BOOLEAN,
         \A i \in DOMAIN ops :
           ~(Active(ops[i]) /\ ops[i].method \in Hardware \ {"register_watch"})
  PROVE  Inv' /\ GoodStep
<1>1. /\ RequestInv' /\ GoodStep
      /\ DOMAIN ops' \subseteq DOMAIN ops \cup {issued'}
      /\ \A i \in DOMAIN ops' \ {issued'} : ops'[i] = ops[i]
  BY BeginStep DEF Asks, Inv, RequestInv
<1>2. waitsFor' = issued'
  BY DEF Asks
<1>3. InstallAlone'
  BY <1>1, <1>2 DEF InstallAlone, Installing, Active
<1>. QED BY <1>1, <1>3 DEF Inv, RequestInv

\* Every step of the updater.
LEMMA UpdateStep ==
  ASSUME Inv, UpdateSteps
  PROVE  Inv' /\ GoodStep
<1>1. CASE Install
  <2>1. \A i \in DOMAIN ops :
          ~(Active(ops[i]) /\ ops[i].method \in Hardware \ {"register_watch"})
    BY <1>1 DEF Install, ActiveHardware, ActiveOf
  <2>2. /\ Asks("status") /\ updating' = TRUE /\ task' = "install" /\ ustate' = "preparing"
        /\ handle' = "open"
    BY <1>1 DEF Install
  <2>. QED BY <2>1, <2>2, AskingStep, InstallAssumption
<1>2. CASE StopsCycle \/ Disconnects
  <2>1. /\ waitsFor # 0 /\ waitsFor \in DOMAIN answers /\ answers[waitsFor].outcome # "none"
        /\ UNCHANGED <<updating, ustate, task, handle>>
        /\ Asks("stop_cycle") \/ Asks("disconnect")
    BY <1>2 DEF StopsCycle, Disconnects, Returned, Answered
  <2>2. task = "install" /\ ustate = "preparing" /\ updating /\ handle = "open" /\ LoneOperation
    BY <2>1 DEF Inv, InstallAlone, Installing, LoneOperation
  <2>3. \A i \in DOMAIN ops :
          ~(Active(ops[i]) /\ ops[i].method \in Hardware \ {"register_watch"})
    BY <2>1, <2>2 DEF Inv, AnswersMatch, LoneOperation
  <2>4. updating' \in BOOLEAN
    BY <2>1 DEF Inv, RequestsTypeOK
  <2>. QED BY <2>1, <2>2, <2>3, <2>4, AskingStep, InstallAssumption
<1>. QED BY <1>1, <1>2, SilentUpdateStep DEF UpdateSteps

\* The other callers of the UI send nothing of the device during an update.
LEMMA OthersStep ==
  ASSUME Inv, Others
  PROVE  Inv' /\ GoodStep
<1>1. PICK m \in Methods :
        Begin(m) /\ (updating => m \notin {"stop_cycle", "disconnect"}) /\ UNCHANGED updating
  BY DEF Others
<1>2. /\ RequestInv' /\ GoodStep /\ issued' \in DOMAIN ops' /\ ops'[issued'].method = m
      /\ DOMAIN ops' \subseteq DOMAIN ops \cup {issued'}
      /\ \A i \in DOMAIN ops' \ {issued'} : ops'[i] = ops[i]
  <2>1. updating' \in BOOLEAN
    BY <1>1 DEF Inv, RequestsTypeOK
  <2>. QED BY <1>1, <2>1, BeginStep DEF Inv, RequestInv
<1>3. UNCHANGED <<ustate, task, handle, waitsFor>>
  BY DEF Others, updateVars
<1>4. updating => m \notin Hardware
  BY <1>1 DEF Begin, Admitted
<1>5. InstallAlone'
  BY <1>1, <1>2, <1>3, <1>4 DEF Inv, InstallAlone, Installing, Active
<1>. QED BY <1>2, <1>5 DEF Inv, RequestInv

-----------------------------------------------------------------------------
(* The theorems                                                               *)

\* The invariant holds at the start.
LEMMA InitInv == Init => Inv
<1>. SUFFICES ASSUME Init PROVE Inv
  OBVIOUS
<1>1. DOMAIN ops = {} /\ DOMAIN answers = {} /\ issued = 0
  BY DEF Init, RequestsInit
<1>2. RequestsTypeOK
  <2>1. core \in Snapshots
    BY DEF Init, RequestsInit, Snapshots
  <2>2. issued \in 0 .. MaxOps
    BY <1>1, BoundsAssumption
  <2>3. page \in Nat /\ updating \in BOOLEAN /\ events = {} /\ latest = NoSnapshot
    BY DEF Init, RequestsInit
  <2>. QED BY <1>1, <2>1, <2>2, <2>3 DEF RequestsTypeOK
<1>3. AnswersMatch /\ AllSentHere
  BY <1>1 DEF AnswersMatch, AllSentHere
<1>4. InstallAlone
  BY DEF Init, UpdateInit, InstallAlone, Installing
<1>. QED BY <1>2, <1>3, <1>4 DEF Inv

\* Every step keeps the invariant and is one the three action properties allow.
LEMMA NextInv ==
  ASSUME Inv, [Next]_vars
  PROVE  Inv' /\ GoodStep
<1>1. CASE UpdateSteps
  BY <1>1, UpdateStep
<1>2. CASE Navigate
  <2>1. RequestInv' /\ GoodStep /\ Fades(ops, ops') /\ updating' = updating
    BY <1>2, NextPageStep DEF Navigate, Inv, RequestInv
  <2>. QED BY <1>2, <2>1, FadingKeepsAlone DEF Navigate, updateVars, Inv, RequestInv
<1>3. CASE Others
  BY <1>3, OthersStep
<1>4. CASE RequestSteps /\ UNCHANGED updateVars
  <2>1. RequestInv' /\ GoodStep /\ Fades(ops, ops') /\ updating' = updating
    BY <1>4, RequestStep DEF Inv, RequestInv
  <2>. QED BY <1>4, <2>1, FadingKeepsAlone DEF updateVars, Inv, RequestInv
<1>5. CASE UNCHANGED vars
  <2>1. RequestInv' /\ GoodStep
    BY <1>5, QuietStep DEF vars, requestVars, Inv, RequestInv, RequestsTypeOK
  <2>2. InstallAlone'
    BY <1>5 DEF vars, requestVars, updateVars, Inv, InstallAlone, Installing, Active
  <2>. QED BY <2>1, <2>2 DEF Inv, RequestInv
<1>. QED BY <1>1, <1>2, <1>3, <1>4, <1>5 DEF Next

\* The invariant holds, and so the variables have their types.
THEOREM RequestsWellTyped == Spec => []RequestsTypeOK
<1>1. Inv => RequestsTypeOK
  BY DEF Inv
<1>. QED BY <1>1, InitInv, NextInv, PTL DEF Spec

\* The snapshot that is shown is never replaced by an older one (Accepts, and
\* the clock that a fault of the host is given).
THEOREM ClockGoesForward == Spec => ClockNeverBack
<1>1. Inv /\ GoodStep => [ClockStep]_latest
  BY DEF GoodStep
<1>. QED BY <1>1, InitInv, NextInv, PTL DEF Spec, ClockNeverBack, ClockStep

\* Only a caller on its own page, with its core and session still shown, gets
\* the result of a request.
THEOREM ResultsStayInContext == Spec => ReturnsInContext
<1>1. GoodStep => [ReturnStep]_requestVars
  BY DEF GoodStep
<1>. QED BY <1>1, InitInv, NextInv, PTL DEF Spec, ReturnsInContext, ReturnStep

\* A command that changes the device is never shown as completed or as failed
\* by anything but its own answer.
THEOREM VerdictsAreAnswers == Spec => NoFalseVerdict
<1>1. GoodStep => [VerdictStep]_requestVars
  BY DEF GoodStep
<1>. QED BY <1>1, InitInv, NextInv, PTL DEF Spec, NoFalseVerdict, VerdictStep

\* A version is downloaded and installed only while no device operation is
\* under way and none can be sent.
THEOREM InstallationIsSafe == Spec => []InstallsSafely
<1>1. Inv => InstallsSafely
  <2>. SUFFICES ASSUME Inv, ustate \in {"downloading", "installing"}
                PROVE  updating /\ ~ActiveHardware /\ handle = "open"
    BY DEF InstallsSafely
  <2>1. task = "install" /\ waitsFor = 0 /\ updating /\ handle = "open" /\ LoneOperation
    BY DEF Inv, InstallAlone, Installing, LoneOperation
  <2>2. \A i \in DOMAIN ops : i # 0
    BY BoundsAssumption DEF Inv, RequestsTypeOK, Ids
  <2>3. ~ActiveHardware
    BY <2>1, <2>2 DEF LoneOperation, ActiveHardware, ActiveOf
  <2>. QED BY <2>1, <2>3
<1>. QED BY <1>1, InitInv, NextInv, PTL DEF Spec

-----------------------------------------------------------------------------
(* The frame: the invariant                                                   *)

FrameFields == {"kind", "session", "active", "answer"}
Progresses == [op : {"none", "eeprom"}, percent : 0 .. 2, tone : {"info", "success", "error"}]

\* An EEPROM operation whose answer is still to come
EepromAwaited(r) == r.kind \in W!Eeprom /\ W!Pending(r)

\* Once an EEPROM operation was sent, the progress is that of the last one; only
\* such an operation announces progress.
ProgressBegan ==
  /\ \A i \in DOMAIN requests : requests[i].kind \in W!Eeprom => progress.op = "eeprom"
  /\ \A m \in wire : m.kind = "progress" => m.percent = 1 /\ progress.op = "eeprom"

FrameTyped ==
  /\ \E S : requests \in Seq(S)
  /\ \A i \in DOMAIN requests : FrameFields \subseteq DOMAIN requests[i]
  /\ progress \in Progresses

FrameInv == FrameTyped /\ ProgressBegan /\ W!ExclusiveIsReleased /\ W!SessionIsShown

\* What a step may do to the requests: none is lost or changes its kind, and what
\* is not answered stays so, up to the one that is answered.
RequestsStay(answered) ==
  /\ FrameTyped'
  /\ DOMAIN requests \subseteq DOMAIN requests'
  /\ \A i \in DOMAIN requests : i # answered /\ EepromAwaited(requests[i]) => EepromAwaited(requests'[i])
  /\ \A i \in DOMAIN requests' :
       requests'[i].kind \in W!Eeprom =>
         (i \in DOMAIN requests /\ requests[i].kind \in W!Eeprom) \/ progress'.op = "eeprom"

-----------------------------------------------------------------------------
(* The frame: requests                                                        *)

LEMMA SequenceFacts ==
  ASSUME FrameTyped
  PROVE  /\ Len(requests) \in Nat /\ DOMAIN requests = 1 .. Len(requests)
BY DEF FrameTyped

LEMMA SameRequestsStay ==
  ASSUME FrameTyped, requests' = requests, progress' \in Progresses, NEW answered
  PROVE  RequestsStay(answered)
BY DEF RequestsStay, FrameTyped

\* Requests that change in fields other than their kind
LEMMA ChangedRequestsStay ==
  ASSUME FrameTyped, progress' \in Progresses, NEW answered,
         DOMAIN requests' = DOMAIN requests, \E S : requests' \in Seq(S),
         \A i \in DOMAIN requests : /\ FrameFields \subseteq DOMAIN requests'[i]
                                    /\ requests'[i].kind = requests[i].kind
                                    /\ i # answered => (W!Pending(requests[i]) => W!Pending(requests'[i]))
  PROVE  RequestsStay(answered)
<1>1. FrameTyped'
  BY DEF FrameTyped
<1>. QED BY <1>1 DEF RequestsStay, EepromAwaited

LEMMA FunctionIsSequence ==
  ASSUME NEW s, \E S : s \in Seq(S), NEW t, DOMAIN t = DOMAIN s, t = [i \in DOMAIN s |-> t[i]]
  PROVE  \E S : t \in Seq(S)
<1>1. Len(s) \in Nat /\ DOMAIN s = 1 .. Len(s)
  OBVIOUS
<1> DEFINE T == {t[i] : i \in DOMAIN s}
<1>2. t \in [1 .. Len(s) -> T]
  BY <1>1
<1>3. t \in Seq(T)
  BY <1>1, <1>2
<1>. QED BY <1>3

LEMMA InvalidatedStay ==
  ASSUME FrameTyped, NEW ids
  PROVE  LET t == W!Invalidated(requests, ids)
         IN  /\ DOMAIN t = DOMAIN requests /\ \E S : t \in Seq(S)
             /\ \A i \in DOMAIN requests : /\ FrameFields \subseteq DOMAIN t[i]
                                           /\ t[i].kind = requests[i].kind /\ t[i].answer = requests[i].answer
<1> DEFINE t == W!Invalidated(requests, ids)
<1>1. DOMAIN t = DOMAIN requests /\ t = [i \in DOMAIN requests |-> t[i]]
  BY DEF W!Invalidated
<1>2. ASSUME NEW i \in DOMAIN requests
      PROVE  /\ FrameFields \subseteq DOMAIN t[i]
             /\ t[i].kind = requests[i].kind /\ t[i].answer = requests[i].answer
  <2>1. FrameFields \subseteq DOMAIN requests[i]
    BY DEF FrameTyped
  <2>2. t[i] = IF i \in ids THEN [requests[i] EXCEPT !.active = FALSE] ELSE requests[i]
    BY DEF W!Invalidated
  <2> HIDE DEF t
  <2>. QED BY <2>1, <2>2 DEF FrameFields
<1>3. \E S : requests \in Seq(S)
  BY DEF FrameTyped
<1> HIDE DEF t
<1>4. \E S : t \in Seq(S)
  BY <1>1, <1>3, FunctionIsSequence
<1>. QED BY <1>1, <1>2, <1>4 DEF t

\* What appending does to a sequence, whatever its elements are
LEMMA AppendGives ==
  ASSUME NEW S, NEW s \in Seq(S), NEW r
  PROVE  LET t == Append(s, r)
         IN  /\ \E U : t \in Seq(U)
             /\ Len(s) \in Nat /\ DOMAIN s = 1 .. Len(s) /\ DOMAIN t = 1 .. Len(s) + 1
             /\ t[Len(s) + 1] = r /\ \A i \in 1 .. Len(s) : t[i] = s[i]
<1> DEFINE U == S \cup {r}
           t == Append(s, r)
<1>1. s \in Seq(U) /\ r \in U
  OBVIOUS
<1>2. t \in Seq(U) /\ Len(t) = Len(s) + 1
  BY <1>1
<1>3. /\ Len(s) \in Nat /\ DOMAIN s = 1 .. Len(s) /\ DOMAIN t = 1 .. Len(s) + 1
      /\ t[Len(s) + 1] = r /\ \A i \in 1 .. Len(s) : t[i] = s[i]
  BY <1>1, <1>2
<1>. QED BY <1>2, <1>3

\* A request that is sent after what has happened to the others
LEMMA AppendedStay ==
  ASSUME FrameTyped, NEW answered, NEW t, NEW r, FrameFields \subseteq DOMAIN r,
         DOMAIN t = DOMAIN requests, \E S : t \in Seq(S),
         \A i \in DOMAIN requests : /\ FrameFields \subseteq DOMAIN t[i]
                                    /\ t[i].kind = requests[i].kind
                                    /\ i # answered => (W!Pending(requests[i]) => W!Pending(t[i])),
         requests' = Append(t, r), progress' \in Progresses,
         r.kind \in W!Eeprom => progress'.op = "eeprom"
  PROVE  RequestsStay(answered)
<1>1. PICK S : t \in Seq(S)
  OBVIOUS
<1>3. \E U : requests' \in Seq(U)
  BY <1>1, AppendGives
<1>4. /\ Len(t) \in Nat /\ DOMAIN t = 1 .. Len(t) /\ DOMAIN requests' = 1 .. Len(t) + 1
      /\ requests'[Len(t) + 1] = r /\ \A i \in 1 .. Len(t) : requests'[i] = t[i]
  BY <1>1, AppendGives
<1>5. \A i \in DOMAIN requests' : (i \in DOMAIN requests /\ requests'[i] = t[i]) \/ requests'[i] = r
  BY <1>4
<1>6. FrameTyped'
  BY <1>3, <1>5 DEF FrameTyped
<1>7. DOMAIN requests \subseteq DOMAIN requests' /\ \A i \in DOMAIN requests : requests'[i] = t[i]
  BY <1>4
<1>. QED BY <1>5, <1>6, <1>7 DEF RequestsStay, EepromAwaited

-----------------------------------------------------------------------------
(* The frame: steps                                                           *)

\* The lock and the session after a step
LEMMA FrameStays ==
  ASSUME FrameInv, RequestsStay(0),
         \A m \in wire' : m.kind = "progress" => m \in wire \/ (m.percent = 1 /\ progress.op = "eeprom"),
         progress.op = "eeprom" => progress'.op = "eeprom",
         W!EepromExclusive' => W!EepromExclusive \/ \E i \in DOMAIN requests' : EepromAwaited(requests'[i]),
         W!SessionIsShown'
  PROVE  FrameInv'
<1>1. FrameTyped' /\ ProgressBegan'
  BY DEF FrameInv, RequestsStay, ProgressBegan
<1>2. W!ExclusiveIsReleased'
  <2>1. \A i \in DOMAIN requests : i # 0
    BY SequenceFacts DEF FrameInv
  <2>2. (\E i \in DOMAIN requests : EepromAwaited(requests[i])) => \E i \in DOMAIN requests' : EepromAwaited(requests'[i])
    BY <2>1 DEF RequestsStay
  <2>3. W!EepromExclusive => \E i \in DOMAIN requests : EepromAwaited(requests[i])
    BY DEF FrameInv, W!ExclusiveIsReleased, EepromAwaited
  <2>4. W!EepromExclusive' => \E i \in DOMAIN requests' : EepromAwaited(requests'[i])
    BY <2>2, <2>3
  <2>. QED BY <2>4 DEF W!ExclusiveIsReleased, EepromAwaited, W!Pending
<1>. QED BY <1>1, <1>2 DEF FrameInv

\* A snapshot brings slaves and clock together, and takes the caches with it.
LEMMA PublishKeepsSession ==
  ASSUME W!SessionIsShown, NEW m, W!Publish(m),
         \A c \in caches' : c.kind = "failure" => c \in W!CachesAfter(m) \/ c.session = accepted'.session
  PROVE  W!SessionIsShown'
<1>1. CASE W!Accepted(m)
  <2>1. accepted'.session = m.session /\ status'.session = m.session
    BY <1>1 DEF W!Publish, W!SessionIsShown
  <2>2. ASSUME NEW c \in W!CachesAfter(m), c.kind = "failure"
        PROVE  c.session = m.session
    BY <1>1, <2>2 DEF W!CachesAfter, W!SessionIsShown
  <2>. QED BY <2>1, <2>2 DEF W!SessionIsShown
<1>2. CASE ~W!Accepted(m)
  BY <1>2 DEF W!Publish, W!CachesAfter, W!SessionIsShown
<1>. QED BY <1>1, <1>2

LEMMA SnapshotKeepsFrame ==
  ASSUME FrameInv, W!SnapshotArrives
  PROVE  FrameInv'
<1>1. PICK m \in wire :
        /\ wire' = wire \ {m} /\ W!Publish(m.snapshot) /\ caches' = W!CachesAfter(m.snapshot)
        /\ requests' = IF W!Accepted(m.snapshot)
                       THEN W!Invalidated(requests, W!OutOfSession(m.snapshot.session, 0)) ELSE requests
        /\ progress' = progress
  BY DEF W!SnapshotArrives
<1>2. W!SessionIsShown'
  BY <1>1, PublishKeepsSession DEF FrameInv
<1>3. RequestsStay(0)
  <2>1. CASE W!Accepted(m.snapshot)
    <3>. QED BY <1>1, <2>1, InvalidatedStay, ChangedRequestsStay DEF FrameInv, FrameTyped, W!Pending
  <2>2. CASE ~W!Accepted(m.snapshot)
    BY <1>1, <2>2, SameRequestsStay DEF FrameInv, FrameTyped
  <2>. QED BY <2>1, <2>2
<1>4. W!EepromExclusive' = W!EepromExclusive
  BY <1>1 DEF W!EepromExclusive
<1>. QED BY <1>1, <1>2, <1>3, <1>4, FrameStays

LEMMA DiscoveredKeepsFrame ==
  ASSUME FrameInv, W!ScanDiscovered
  PROVE  FrameInv'
<1>1. PICK m \in wire :
        /\ wire' = wire \ {m}
        /\ IF W!AcceptsEvent(m) /\ m.slaves # {}
           THEN status' = [connected |-> TRUE, slaves |-> m.slaves, session |-> m.session]
           ELSE UNCHANGED status
        /\ UNCHANGED <<accepted, requests, progress, caches>>
  BY DEF W!ScanDiscovered
<1>2. W!SessionIsShown'
  BY <1>1 DEF FrameInv, W!SessionIsShown, W!AcceptsEvent
<1>3. RequestsStay(0)
  BY <1>1, SameRequestsStay DEF FrameInv, FrameTyped
<1>4. W!EepromExclusive' = W!EepromExclusive
  BY <1>1 DEF W!EepromExclusive
<1>. QED BY <1>1, <1>2, <1>3, <1>4, FrameStays

\* The session is that of what is left alone.
LEMMA SameSessionShown ==
  ASSUME W!SessionIsShown, UNCHANGED <<accepted, status>>, caches' \subseteq caches
  PROVE  W!SessionIsShown'
BY DEF W!SessionIsShown

LEMMA ProgressKeepsFrame ==
  ASSUME FrameInv, W!ProgressArrives
  PROVE  FrameInv'
<1>1. PICK m \in wire :
        /\ m.kind = "progress" /\ wire' = wire \ {m}
        /\ progress' = IF W!AcceptsEvent(m) THEN W!Progressed(m.percent) ELSE progress
        /\ UNCHANGED <<accepted, status, caches, requests>>
  BY DEF W!ProgressArrives, W!app
<1>2. W!SessionIsShown'
  BY <1>1, SameSessionShown DEF FrameInv
<1>3. m.percent = 1 /\ progress.op = "eeprom" /\ progress \in Progresses
  BY <1>1 DEF FrameInv, ProgressBegan, FrameTyped
<1>4. progress' \in Progresses /\ progress'.op = "eeprom" /\ (progress.percent = 2 => progress'.percent = 2)
  <2>1. CASE progress' = progress
    BY <1>3, <2>1 DEF Progresses
  <2>2. CASE progress' = W!Percent(IF progress.percent > m.percent THEN progress.percent ELSE m.percent, "info")
    <3>1. progress.percent \in 0 .. 2
      BY <1>3 DEF Progresses
    <3> DEFINE n == IF progress.percent > m.percent THEN progress.percent ELSE m.percent
    <3>2. n \in 0 .. 2 /\ (progress.percent = 2 => n = 2)
      BY <1>3, <3>1
    <3> HIDE DEF n
    <3>3. progress' = [op |-> "eeprom", percent |-> n, tone |-> "info"]
      BY <2>2 DEF W!Percent, n
    <3>. QED BY <3>2, <3>3 DEF Progresses
  <2>. QED BY <1>1, <2>1, <2>2 DEF W!Progressed
<1>5. RequestsStay(0)
  BY <1>1, <1>4, SameRequestsStay DEF FrameInv
<1>6. W!EepromExclusive' => W!EepromExclusive
  <2>1. progress.percent \in 0 .. 2
    BY <1>3 DEF Progresses
  <2>. QED BY <1>3, <1>4, <2>1 DEF W!EepromExclusive
<1>. QED BY <1>1, <1>2, <1>4, <1>5, <1>6, FrameStays

LEMMA ExitKeepsFrame ==
  ASSUME FrameInv, W!CoreIsGone
  PROVE  FrameInv'
<1>1. PICK m \in wire :
        /\ wire' = wire \ {m} /\ requests' = W!Invalidated(requests, DOMAIN requests)
        /\ progress' = IF progress # W!NoProgress /\ progress.percent < 2
                       THEN [progress EXCEPT !.percent = 2, !.tone = "error"] ELSE progress
        /\ \/ UNCHANGED <<accepted, status>> /\ caches' \subseteq caches
           \/ \E fault \in W!Faulted(m) :
                accepted' = fault /\ status' = fault /\ caches' \subseteq W!CachesAfter(fault)
  BY DEF W!CoreIsGone
<1>2. W!SessionIsShown'
  <2>1. ASSUME NEW fault, W!Accepted(fault), accepted' = fault, status' = fault, caches' \subseteq W!CachesAfter(fault)
        PROVE  W!SessionIsShown'
    <3>1. ASSUME NEW c \in caches', c.kind = "failure"
          PROVE  c.session = fault.session
      <4>1. c \in W!CachesAfter(fault)
        BY <2>1, <3>1
      <4>2. c \in caches
        BY <4>1 DEF W!CachesAfter
      <4>3. c.session = accepted.session
        BY <3>1, <4>2 DEF FrameInv, W!SessionIsShown
      <4>. QED BY <2>1, <4>1, <4>3 DEF W!CachesAfter
    <3>. QED BY <2>1, <3>1 DEF W!SessionIsShown
  <2>2. \A fault \in W!Faulted(m) : W!Accepted(fault)
    BY DEF W!Faulted, W!Unconnected, W!Accepted
  <2>. QED BY <1>1, <2>1, <2>2, SameSessionShown DEF FrameInv
<1>3. progress' \in Progresses /\ progress'.op = progress.op /\ (progress' = progress \/ progress'.percent = 2)
  <2>1. progress \in Progresses
    BY DEF FrameInv, FrameTyped
  <2>2. CASE progress' = progress
    BY <2>1, <2>2
  <2>3. CASE progress' = [progress EXCEPT !.percent = 2, !.tone = "error"]
    <3>1. /\ progress.op \in {"none", "eeprom"}
          /\ progress = [op |-> progress.op, percent |-> progress.percent, tone |-> progress.tone]
      BY <2>1 DEF Progresses
    <3>2. progress' = [op |-> progress.op, percent |-> 2, tone |-> "error"]
      BY <2>3, <3>1
    <3>. QED BY <3>1, <3>2 DEF Progresses
  <2>. QED BY <1>1, <2>2, <2>3
<1>4. RequestsStay(0)
  <2> DEFINE all == DOMAIN requests
  <2>1. requests' = W!Invalidated(requests, all)
    BY <1>1
  <2> HIDE DEF all
  <2>. QED BY <1>3, <2>1, InvalidatedStay, ChangedRequestsStay DEF FrameInv, W!Pending
<1>5. W!EepromExclusive' => W!EepromExclusive
  BY <1>3 DEF W!EepromExclusive
<1>. QED BY <1>1, <1>2, <1>3, <1>4, <1>5, FrameStays

LEMMA RequestKeepsFrame ==
  ASSUME FrameInv, NEW kind \in W!Kinds, W!Request(kind)
  PROVE  FrameInv'
<1> DEFINE r == [kind |-> kind, slave |-> selected, session |-> accepted.session,
                 active |-> TRUE, answer |-> "none", snapshot |-> accepted]
<1>1. /\ requests' = Append(requests, r)
      /\ progress' = IF kind \in W!Eeprom THEN W!Percent(0, "info") ELSE progress
      /\ UNCHANGED <<accepted, status, wire>> /\ caches' \subseteq caches
  BY DEF W!Request, W!Sent, W!core
<1>2. W!SessionIsShown'
  BY <1>1, SameSessionShown DEF FrameInv
<1>3. /\ progress' \in Progresses /\ (progress.op = "eeprom" \/ kind \in W!Eeprom => progress'.op = "eeprom")
      /\ kind \notin W!Eeprom => progress' = progress
  BY <1>1 DEF FrameInv, FrameTyped, Progresses, W!Percent
<1>4. FrameFields \subseteq DOMAIN r /\ r.kind = kind /\ r.answer = "none"
  BY DEF FrameFields
<1> HIDE DEF r
<1>5. RequestsStay(0)
  <2>1. FrameTyped /\ \E S : requests \in Seq(S)
    BY DEF FrameInv, FrameTyped
  <2>2. \A i \in DOMAIN requests : FrameFields \subseteq DOMAIN requests[i]
    BY <2>1 DEF FrameTyped
  <2>. QED BY <1>1, <1>3, <1>4, <2>1, <2>2, AppendedStay
<1>6. W!EepromExclusive' => W!EepromExclusive \/ \E i \in DOMAIN requests' : EepromAwaited(requests'[i])
  <2>1. CASE kind \in W!Eeprom
    <3>1. PICK S : requests \in Seq(S)
      BY DEF FrameInv, FrameTyped
    <3>2. Len(requests) + 1 \in DOMAIN requests' /\ requests'[Len(requests) + 1] = r
      BY <1>1, <3>1, AppendGives
    <3>3. EepromAwaited(r)
      BY <1>4, <2>1 DEF EepromAwaited, W!Pending
    <3>. QED BY <3>2, <3>3
  <2>2. CASE kind \notin W!Eeprom
    BY <1>3, <2>2 DEF W!EepromExclusive
  <2>. QED BY <2>1, <2>2
<1>. QED BY <1>1, <1>2, <1>3, <1>5, <1>6, FrameStays

\* The answer of an EEPROM operation releases the lock, any other leaves it.
LEMMA ProgressAfterGives ==
  ASSUME progress \in Progresses, NEW r, NEW returned \in BOOLEAN
  PROVE  LET p == W!ProgressAfter(r, returned)
         IN  /\ p \in Progresses /\ (progress.op = "eeprom" => p.op = "eeprom")
             /\ r.kind \in W!Eeprom => p.percent = 2
             /\ r.kind \notin W!Eeprom => p.op = progress.op /\ p.percent = progress.percent
<1>1. CASE r.kind \in W!Eeprom
  <2> DEFINE tone == IF returned THEN "success" ELSE IF r.answer = "cancelled" THEN "info" ELSE "error"
  <2>1. tone \in {"info", "success", "error"}
    OBVIOUS
  <2>2. W!ProgressAfter(r, returned) = W!Percent(2, tone)
    BY <1>1 DEF W!ProgressAfter, W!Eeprom
  <2> HIDE DEF tone
  <2>3. W!Percent(2, tone) = [op |-> "eeprom", percent |-> 2, tone |-> tone]
    BY DEF W!Percent
  <2>. QED BY <1>1, <2>1, <2>2, <2>3 DEF Progresses
<1>2. CASE r.kind \notin W!Eeprom
  <2>1. \/ W!ProgressAfter(r, returned) = progress
        \/ W!ProgressAfter(r, returned) = [progress EXCEPT !.tone = "error"]
    BY <1>2 DEF W!ProgressAfter
  <2>. QED BY <1>2, <2>1 DEF Progresses
<1>. QED BY <1>1, <1>2

LEMMA AnswerKeepsFrame ==
  ASSUME FrameInv, NEW i \in DOMAIN requests, W!AnswerArrives(i)
  PROVE  FrameInv'
<1> DEFINE r == requests[i]
           returned == r.answer = "ok" /\ r.active
           ids == IF W!Accepted(r.snapshot) THEN W!OutOfSession(r.snapshot.session, i) ELSE {}
           t == W!Invalidated(requests, ids)
           ended == [t EXCEPT ![i].active = FALSE, ![i].answer = "handled"]
           next == [kind |-> "scan", slave |-> selected', session |-> accepted'.session,
                    active |-> TRUE, answer |-> "none", snapshot |-> accepted']
<1>1. /\ W!Publish(r.snapshot)
      /\ caches' = (W!CachesAfter(r.snapshot) \ W!Superseded(r, returned)) \cup W!Kept(r, returned)
      /\ progress' = W!ProgressAfter(r, returned)
      /\ requests' = Append(ended, next) \/ requests' = ended
      /\ wire' = wire
  BY DEF W!AnswerArrives, W!core
<1>2. W!SessionIsShown'
  <2>1. ASSUME NEW c \in W!Kept(r, returned), c.kind = "failure"
        PROVE  c.session = accepted'.session
    BY <2>1 DEF W!Kept, W!SameSession
  <2>. QED BY <1>1, <2>1, PublishKeepsSession DEF FrameInv
<1>3. returned \in BOOLEAN /\ FrameFields \subseteq DOMAIN next /\ next.kind = "scan"
  BY DEF FrameFields
<1>4. /\ DOMAIN t = DOMAIN requests /\ \E S : t \in Seq(S)
      /\ \A j \in DOMAIN requests : /\ FrameFields \subseteq DOMAIN t[j]
                                    /\ t[j].kind = requests[j].kind /\ t[j].answer = requests[j].answer
  BY InvalidatedStay DEF FrameInv
<1> HIDE DEF t, next, returned
<1>5. /\ DOMAIN ended = DOMAIN t /\ ended = [j \in DOMAIN t |-> ended[j]]
      /\ \A j \in DOMAIN t : j # i => ended[j] = t[j]
      /\ FrameFields \subseteq DOMAIN ended[i] /\ ended[i].kind = t[i].kind
  BY <1>4 DEF FrameFields
<1> HIDE DEF ended
<1>6. \E S : ended \in Seq(S)
  BY <1>4, <1>5, FunctionIsSequence
<1>7. /\ DOMAIN ended = DOMAIN requests
      /\ \A j \in DOMAIN requests : /\ FrameFields \subseteq DOMAIN ended[j]
                                    /\ ended[j].kind = requests[j].kind
                                    /\ j # i => (W!Pending(requests[j]) => W!Pending(ended[j]))
  BY <1>4, <1>5 DEF W!Pending
<1>8. /\ progress' \in Progresses /\ (progress.op = "eeprom" => progress'.op = "eeprom")
      /\ r.kind \in W!Eeprom => progress'.percent = 2
      /\ r.kind \notin W!Eeprom => progress'.op = progress.op /\ progress'.percent = progress.percent
  BY <1>1, <1>3, ProgressAfterGives DEF FrameInv, FrameTyped
<1>9. RequestsStay(i)
  <2>1. CASE requests' = ended
    BY <1>6, <1>7, <1>8, <2>1, ChangedRequestsStay DEF FrameInv
  <2>2. CASE requests' = Append(ended, next)
    <3>1. next.kind \notin W!Eeprom
      BY <1>3 DEF W!Eeprom
    <3>. QED BY <1>3, <1>6, <1>7, <1>8, <2>2, <3>1, AppendedStay DEF FrameInv
  <2>. QED BY <1>1, <2>1, <2>2
<1>10. CASE r.kind \in W!Eeprom
  <2>1. ~W!EepromExclusive'
    BY <1>8, <1>10 DEF W!EepromExclusive
  <2>2. FrameTyped' /\ ProgressBegan'
    BY <1>1, <1>8, <1>9 DEF FrameInv, RequestsStay, ProgressBegan
  <2>3. W!ExclusiveIsReleased'
    BY <2>1 DEF W!ExclusiveIsReleased
  <2>. QED BY <1>2, <2>2, <2>3 DEF FrameInv
<1>11. CASE r.kind \notin W!Eeprom
  <2>1. RequestsStay(0)
    <3>1. ~EepromAwaited(requests[i])
      BY <1>11 DEF EepromAwaited
    <3>. QED BY <1>9, <3>1 DEF RequestsStay
  <2>2. W!EepromExclusive' => W!EepromExclusive
    BY <1>8, <1>11 DEF W!EepromExclusive
  <2>. QED BY <1>1, <1>2, <1>8, <2>1, <2>2, FrameStays
<1>. QED BY <1>10, <1>11

\* What the core does changes answers and messages only.
LEMMA CoreKeepsFrame ==
  ASSUME FrameInv,
         W!SessionChanges \/ W!Announces \/ W!Exits \/ \E i \in DOMAIN requests : W!Answers(i)
  PROVE  FrameInv'
<1>1. UNCHANGED <<accepted, status, progress, caches>>
  BY DEF W!SessionChanges, W!Announces, W!Exits, W!Answers, W!app, W!core
<1>2. W!SessionIsShown' /\ W!EepromExclusive' = W!EepromExclusive
  BY <1>1, SameSessionShown DEF FrameInv, W!EepromExclusive
<1>3. \A m \in wire' : m.kind = "progress" => m \in wire \/ (m.percent = 1 /\ progress.op = "eeprom")
  <2>1. CASE W!SessionChanges \/ W!Exits
    BY <2>1 DEF W!SessionChanges, W!Exits, W!Snapshot
  <2>2. CASE \E i \in DOMAIN requests : W!Answers(i)
    BY <2>2 DEF W!Answers, W!core
  <2>3. CASE W!Announces
    <3>1. CASE /\ \E i \in DOMAIN requests : requests[i].kind \in W!Eeprom
               /\ wire' = wire \cup {[kind |-> "progress", session |-> bus.session, percent |-> 1]}
      BY <3>1 DEF FrameInv, ProgressBegan
    <3>2. CASE wire' = wire \cup {[kind |-> "discovered", session |-> bus.session, slaves |-> Slaves]}
      BY <3>2
    <3>. QED BY <2>3, <3>1, <3>2 DEF W!Announces
  <2>. QED BY <2>1, <2>2, <2>3
<1>4. RequestsStay(0)
  <2>0. FrameTyped /\ progress' \in Progresses /\ \E S : requests \in Seq(S)
    BY <1>1 DEF FrameInv, FrameTyped
  <2>1. CASE requests' = requests
    BY <2>0, <2>1, SameRequestsStay
  <2>2. ASSUME /\ DOMAIN requests' = DOMAIN requests /\ requests' = [i \in DOMAIN requests |-> requests'[i]]
               /\ \A i \in DOMAIN requests : /\ FrameFields \subseteq DOMAIN requests'[i]
                                             /\ requests'[i].kind = requests[i].kind
                                             /\ requests[i].answer # "handled" => requests'[i].answer # "handled"
        PROVE  RequestsStay(0)
    <3>1. \E S : requests' \in Seq(S)
      BY <2>0, <2>2, FunctionIsSequence
    <3>. QED BY <2>0, <2>2, <3>1, ChangedRequestsStay DEF W!Pending
  <2>3. CASE W!Exits
    <3>1. requests' = [i \in DOMAIN requests |->
                         IF requests[i].answer = "none" THEN [requests[i] EXCEPT !.answer = "failed"]
                         ELSE requests[i]]
      BY <2>3 DEF W!Exits
    <3>2. \A i \in DOMAIN requests : FrameFields \subseteq DOMAIN requests[i]
      BY <2>0 DEF FrameTyped
    <3>. QED BY <2>2, <3>1, <3>2 DEF FrameFields
  <2>4. ASSUME NEW i \in DOMAIN requests, W!Answers(i)
        PROVE  RequestsStay(0)
    <3>1. PICK answer \in {"ok", "failed", "cancelled"} :
            requests' = [requests EXCEPT ![i].answer = answer, ![i].snapshot = bus]
      BY <2>4 DEF W!Answers
    <3>2. \A j \in DOMAIN requests : FrameFields \subseteq DOMAIN requests[j]
      BY <2>0 DEF FrameTyped
    <3>3. /\ DOMAIN requests' = DOMAIN requests /\ requests' = [j \in DOMAIN requests |-> requests'[j]]
          /\ \A j \in DOMAIN requests : j # i => requests'[j] = requests[j]
          /\ FrameFields \subseteq DOMAIN requests'[i]
          /\ requests'[i].kind = requests[i].kind /\ requests'[i].answer = answer
      BY <3>1, <3>2 DEF FrameFields
    <3>. QED BY <2>2, <3>2, <3>3
  <2>. QED BY <2>1, <2>3, <2>4 DEF W!SessionChanges, W!Announces
<1>. QED BY <1>1, <1>2, <1>3, <1>4, FrameStays

LEMMA SelectKeepsFrame ==
  ASSUME FrameInv, W!Select \/ UNCHANGED workbenchVars
  PROVE  FrameInv'
<1>1. UNCHANGED <<wire, accepted, status, requests, progress, caches>>
  BY DEF W!Select, W!core, workbenchVars
<1>2. W!SessionIsShown' /\ W!EepromExclusive' = W!EepromExclusive
  BY <1>1, SameSessionShown DEF FrameInv, W!EepromExclusive
<1>3. RequestsStay(0)
  BY <1>1, SameRequestsStay DEF FrameInv, FrameTyped
<1>. QED BY <1>1, <1>2, <1>3, FrameStays

LEMMA NextFrame ==
  ASSUME FrameInv, W!Next \/ UNCHANGED workbenchVars
  PROVE  FrameInv'
BY SnapshotKeepsFrame, DiscoveredKeepsFrame, ProgressKeepsFrame, ExitKeepsFrame, RequestKeepsFrame,
   AnswerKeepsFrame, CoreKeepsFrame, SelectKeepsFrame
DEF W!Next

LEMMA InitFrame ==
  ASSUME W!Init
  PROVE  FrameInv
<1>1. /\ requests = << >> /\ wire = {} /\ caches = {} /\ progress = [op |-> "none", percent |-> 0, tone |-> "info"]
      /\ accepted = status /\ status = [connected |-> FALSE, slaves |-> {}, session |-> 0]
  BY DEF W!Init, W!NoProgress, W!Unconnected
<1>2. accepted.session = 0 /\ status.session = 0
  BY <1>1
<1>3. requests \in Seq({}) /\ DOMAIN requests = {}
  BY <1>1
<1>4. progress \in Progresses /\ progress.op = "none"
  BY <1>1 DEF Progresses
<1>. QED BY <1>1, <1>2, <1>3, <1>4
     DEF FrameInv, FrameTyped, ProgressBegan, W!ExclusiveIsReleased, W!EepromExclusive, W!SessionIsShown

-----------------------------------------------------------------------------
(* The frame: the theorem                                                     *)

\* The lock of an EEPROM operation is held only while the answer of one is still
\* to come, and what the frame shows of the bus and of refused requests is of the
\* session of its clock: for all slaves and sessions, any number of requests, and
\* whatever answers, snapshots and events arrive late.
THEOREM FrameIsSound == MCSpec => []WorkbenchIsSound
<1>1. MCInit => FrameInv
  BY InitFrame DEF MCInit
<1>2. FrameInv /\ [MCNext]_<<vars, workbenchVars, scenario>> => FrameInv'
  BY NextFrame DEF MCNext
<1>3. FrameInv => WorkbenchIsSound
  BY DEF FrameInv, WorkbenchIsSound
<1>. QED BY <1>1, <1>2, <1>3, PTL DEF MCSpec
=============================================================================
