----------------------------- MODULE UiPagesProofs -----------------------------
(* Proofs about the parts of the UI that MCUiPages follows: the start-up, the *)
(* two editors of EEPROM images, the register page and the viewer of the      *)
(* manuals.  However often the core is replaced and however late answers and  *)
(* events arrive, the adapters shown are those of the core in service or of a *)
(* later one; whatever files there are, however late they load, generate and  *)
(* save, and wherever the user goes meanwhile, the image that the page        *)
(* (EepromPage, here E!) or the dialog (QuickFlash, here Q!) can program is   *)
(* the one that it shows; the register page (Registers, here R!) has one      *)
(* exchange at a time and writes what was seen; the viewer (Manual, here V!)  *)
(* shows what was asked for last; the history of messages (UiMessages, here   *)
(* M!) stays in order and what is unread is not lost; the view of the file    *)
(* lists (UiSources, here S!) that the user can reach shows what is stored,   *)
(* and a file that was removed stays away; and the algorithms of the pages    *)
(* (UiCodecs, here C!), the values of the registers with their bits among     *)
(* them, do what they promise for all inputs.                                 *)
EXTENDS MCUiPages, WellFoundedInduction, FiniteSetTheorems, TLAPS

-----------------------------------------------------------------------------
(* Start-up: the invariant                                                    *)

HostEvents == [kind : {"starting", "ready", "failed", "exited", "fatal"}, gen : Nat, asked : BOOLEAN]
StartCalls == [stage : {"none", "status", "devices"}, reload : BOOLEAN, expected : Nat,
          answer : {"none", "connected", "disconnected", "error"}, gen : Nat]
StartViews == [available : BOOLEAN, starting : BOOLEAN, adapters : Nat, loading : BOOLEAN, error : BOOLEAN]
Hosts == [gen : Nat, state : {"starting", "ready", "failed", "exited", "fatal"}, failed : BOOLEAN]

StartupTyped ==
  /\ host \in Hosts /\ channel \in Seq(HostEvents) /\ call \in StartCalls /\ shown \in StartViews
  /\ observed \in Nat /\ gen \in Nat /\ done \in Nat

\* No event and no state of the UI is of a generation that the host has not begun.
NothingAhead ==
  /\ \A i \in 1 .. Len(channel) : channel[i].gen <= host.gen
  /\ gen <= host.gen /\ call.expected <= host.gen

\* A list of adapters that is taken comes from the generation that it was asked
\* of, or from a later one.
AnswerIsLater ==
  call.stage = "devices" /\ call.answer \in {"connected", "disconnected"} => call.gen >= call.expected

StartupInv == StartupTyped /\ NothingAhead /\ AnswerIsLater /\ AdaptersAreCurrent

-----------------------------------------------------------------------------
(* Sequences and records                                                      *)

\* Sending an event of the host's generation.
LEMMA SendKeeps ==
  ASSUME NEW e \in HostEvents, channel \in Seq(HostEvents), host' \in Hosts, host.gen \in Nat,
         \A i \in 1 .. Len(channel) : channel[i].gen <= host.gen,
         host'.gen >= host.gen, e.gen = host'.gen, channel' = Append(channel, e)
  PROVE  /\ channel' \in Seq(HostEvents)
         /\ \A i \in 1 .. Len(channel') : channel'[i].gen <= host'.gen
<1>1. channel' \in Seq(HostEvents) /\ Len(channel') = Len(channel) + 1
  OBVIOUS
<1>2. ASSUME NEW i \in 1 .. Len(channel')
      PROVE  channel'[i].gen <= host'.gen
  <2>1. CASE i = Len(channel) + 1
    <3>1. channel'[i] = e
      BY <2>1
    <3>. QED BY <3>1 DEF Hosts
  <2>2. CASE i # Len(channel) + 1
    <3>1. i \in 1 .. Len(channel) /\ channel'[i] = channel[i]
      BY <1>1, <2>2
    <3>2. channel[i] \in HostEvents
      BY <3>1
    <3>3. channel[i].gen \in Nat /\ host'.gen \in Nat
      BY <3>2 DEF HostEvents, Hosts
    <3>. QED BY <3>1, <3>3
  <2>. QED BY <2>1, <2>2
<1>. QED BY <1>1, <1>2

\* Taking the first event.
LEMMA TakeKeeps ==
  ASSUME channel \in Seq(HostEvents), channel # << >>, channel' = Tail(channel), UNCHANGED host,
         \A i \in 1 .. Len(channel) : channel[i].gen <= host.gen
  PROVE  /\ channel' \in Seq(HostEvents) /\ Head(channel) \in HostEvents /\ Head(channel).gen <= host.gen
         /\ \A i \in 1 .. Len(channel') : channel'[i].gen <= host'.gen
<1>1. Len(channel) \in Nat \ {0} /\ Head(channel) = channel[1] /\ channel[1] \in HostEvents
  OBVIOUS
<1>2. channel' \in Seq(HostEvents) /\ Len(channel') = Len(channel) - 1
  OBVIOUS
<1>3. \A i \in 1 .. Len(channel') : channel'[i] = channel[i + 1] /\ i + 1 \in 1 .. Len(channel)
  BY <1>1, <1>2
<1>. QED BY <1>1, <1>2, <1>3

\* What initialize does to the call and to what is shown.
LEMMA InitializeGives ==
  ASSUME NEW reload \in BOOLEAN, NEW g \in Nat, NEW d, NEW c \in StartCalls, NEW p, NEW s \in StartViews,
         Initialize(reload, g, d, c, p, s)
  PROVE  /\ call' \in StartCalls /\ shown' \in StartViews
         /\ shown'.available = s.available /\ shown'.adapters = s.adapters
         /\ call' = c \/ (call'.stage = "status" /\ call'.expected = g)
<1> DEFINE new == [NoCall EXCEPT !.stage = "status", !.reload = reload, !.expected = g]
           busy == [s EXCEPT !.loading = TRUE, !.error = FALSE]
<1>1. new \in StartCalls /\ new.stage = "status" /\ new.expected = g
  BY DEF NoCall, StartCalls
<1>2. busy \in StartViews /\ busy.available = s.available /\ busy.adapters = s.adapters
  BY DEF StartViews
<1>3. (call' = new \/ call' = c) /\ (shown' = busy \/ shown' = s)
  BY DEF Initialize
<1> HIDE DEF new, busy
<1>. QED BY <1>1, <1>2, <1>3

-----------------------------------------------------------------------------
(* Start-up: steps                                                            *)

\* The end of an initialisation, for what it leaves shown.
LEMMA EndsKeepsInv ==
  ASSUME StartupInv, NEW d \in Nat, NEW s \in StartViews, Ends(d, s),
         s.available => s.adapters = 0 \/ s.adapters >= gen
  PROVE  StartupInv'
<1> DEFINE t == IF Current THEN [s EXCEPT !.loading = FALSE] ELSE s
           g == IF pending THEN gen ELSE 0
<1>1. t \in StartViews /\ t.available = s.available /\ t.adapters = s.adapters
  BY DEF StartViews
<1>2. g \in Nat /\ g <= host.gen
  BY DEF StartupInv, StartupTyped, NothingAhead, Hosts
<1>3. NoCall \in StartCalls /\ NoCall.stage = "none" /\ NoCall.expected = 0
  BY DEF NoCall, StartCalls
<1>4. /\ Initialize(FALSE, g, d, NoCall, FALSE, t)
      /\ UNCHANGED <<host, channel, observed, gen>> /\ done' = d
  BY DEF Ends, hostVars
<1> HIDE DEF t, g
<1>5. /\ call' \in StartCalls /\ shown' \in StartViews
      /\ shown'.available = t.available /\ shown'.adapters = t.adapters
      /\ call' = NoCall \/ (call'.stage = "status" /\ call'.expected = g)
  BY <1>1, <1>2, <1>3, <1>4, InitializeGives
<1>6. StartupTyped'
  BY <1>4, <1>5 DEF StartupInv, StartupTyped
<1>7. NothingAhead'
  BY <1>2, <1>3, <1>4, <1>5 DEF StartupInv, NothingAhead, StartupTyped, Hosts
<1>8. AnswerIsLater'
  BY <1>3, <1>5 DEF AnswerIsLater
<1>9. AdaptersAreCurrent'
  BY <1>1, <1>4, <1>5 DEF AdaptersAreCurrent
<1>. QED BY <1>6, <1>7, <1>8, <1>9 DEF StartupInv

\* The answers of an initialisation are handled.
LEMMA AnswerHandledKeepsInv ==
  ASSUME StartupInv, StatusAnswered \/ DevicesAnswered
  PROVE  StartupInv'
<1>1. shown \in StartViews /\ done \in Nat /\ call \in StartCalls /\ call.expected \in Nat /\ gen \in Nat
      /\ (shown.available => shown.adapters = 0 \/ shown.adapters >= gen)
  BY DEF StartupInv, StartupTyped, StartCalls, AdaptersAreCurrent
<1>2. Ends(done, shown) => StartupInv'
  BY <1>1, EndsKeepsInv
<1>3. Ends(done, [shown EXCEPT !.error = TRUE]) => StartupInv'
  <2> DEFINE s == [shown EXCEPT !.error = TRUE]
  <2>1. s \in StartViews /\ s.available = shown.available /\ s.adapters = shown.adapters
    BY <1>1 DEF StartViews
  <2> HIDE DEF s
  <2>2. Ends(done, s) => StartupInv'
    BY <1>1, <2>1, EndsKeepsInv
  <2>. QED BY <2>2 DEF s
<1>4. CASE StatusAnswered
  <2>1. CASE /\ call.stage = "status" /\ UNCHANGED <<hostVars, observed, gen, done, shown>>
             /\ call' = [call EXCEPT !.stage = "devices", !.answer = "none"]
    <3>1. call' \in StartCalls /\ call'.expected = call.expected /\ call'.answer = "none"
      BY <1>1, <2>1 DEF StartCalls
    <3>. QED BY <2>1, <3>1 DEF StartupInv, StartupTyped, NothingAhead, AnswerIsLater, AdaptersAreCurrent, hostVars
  <2>. QED BY <1>2, <1>3, <1>4, <2>1 DEF StatusAnswered
<1>5. CASE DevicesAnswered
  <2> DEFINE s == [shown EXCEPT !.adapters = call.gen, !.error = FALSE]
  <2>1. s \in StartViews /\ s.available = shown.available /\ s.adapters = call.gen
    BY <1>1 DEF StartViews, StartCalls
  <2>2. ASSUME Current, call.stage = "devices", call.answer \in {"connected", "disconnected"}
        PROVE  call.gen >= gen
    BY <2>2 DEF StartupInv, AnswerIsLater, Current
  <2> HIDE DEF s
  <2>3. ASSUME Current, call.stage = "devices", call.answer \in {"connected", "disconnected"},
               Ends(call.expected, s)
        PROVE  StartupInv'
    BY <1>1, <2>1, <2>2, <2>3, EndsKeepsInv
  <2>4. call.answer \in {"none", "connected", "disconnected", "error"}
    BY <1>1 DEF StartCalls
  <2>. QED BY <1>2, <1>3, <1>5, <2>3, <2>4 DEF DevicesAnswered, s
<1>. QED BY <1>4, <1>5

\* The host goes on, and may say so.
LEMMA HostKeepsInv ==
  ASSUME StartupInv, HostSteps
  PROVE  StartupInv'
<1>1. host \in Hosts /\ host.gen \in Nat /\ channel \in Seq(HostEvents)
      /\ (\A i \in 1 .. Len(channel) : channel[i].gen <= host.gen)
  BY DEF StartupInv, StartupTyped, NothingAhead, Hosts
<1>2. host' \in Hosts /\ host'.gen >= host.gen
  <2>1. CASE CoreStarts
    <3>1. ASSUME NEW st \in {"ready", "failed"}, NEW f \in BOOLEAN,
                 host' = [host EXCEPT !.state = st, !.failed = f]
          PROVE  host' \in Hosts /\ host'.gen >= host.gen
      <4> DEFINE k == [host EXCEPT !.state = st]
      <4>1. k \in Hosts /\ k.gen = host.gen
        BY <1>1 DEF Hosts
      <4>2. [host EXCEPT !.state = st, !.failed = f] = [k EXCEPT !.failed = f]
        OBVIOUS
      <4> HIDE DEF k
      <4>3. [k EXCEPT !.failed = f] \in Hosts /\ [k EXCEPT !.failed = f].gen = k.gen
        BY <4>1 DEF Hosts
      <4>. QED BY <1>1, <3>1, <4>1, <4>2, <4>3
    <3>. QED BY <2>1, <3>1, Zenon DEF CoreStarts
  <2>2. CASE CoreFails
    BY <1>1, <2>2 DEF CoreFails, Hosts
  <2>3. CASE CoreReplaced
    <3> DEFINE k == [host EXCEPT !.gen = @ + 1]
               n == [k EXCEPT !.state = "starting"]
    <3>1. k \in Hosts /\ k.gen = host.gen + 1
      BY <1>1 DEF Hosts
    <3>2. host' = n
      BY <2>3 DEF CoreReplaced
    <3> HIDE DEF k
    <3>3. n \in Hosts /\ n.gen = k.gen
      BY <3>1 DEF Hosts
    <3> HIDE DEF n
    <3>. QED BY <1>1, <3>1, <3>2, <3>3
  <2>. QED BY <2>1, <2>2, <2>3 DEF HostSteps
<1>3. UNCHANGED <<observed, gen, done, call, shown>>
  BY DEF HostSteps, CoreStarts, CoreFails, CoreReplaced, startupVars
<1>4. /\ channel' \in Seq(HostEvents)
      /\ \A i \in 1 .. Len(channel') : channel'[i].gen <= host'.gen
  <2>1. CASE UNCHANGED channel
    <3>1. ASSUME NEW i \in 1 .. Len(channel)
          PROVE  channel[i].gen \in Nat
      <4>1. channel[i] \in HostEvents
        BY <1>1
      <4>. QED BY <4>1 DEF HostEvents
    <3>2. host'.gen \in Nat
      BY <1>2 DEF Hosts
    <3>. QED BY <1>1, <1>2, <2>1, <3>1, <3>2
  <2>2. ASSUME NEW kind \in {"ready", "failed", "exited", "fatal"}, Emit(kind)
        PROVE  /\ channel' \in Seq(HostEvents)
               /\ \A i \in 1 .. Len(channel') : channel'[i].gen <= host'.gen
    <3> DEFINE e == [kind |-> kind, gen |-> host'.gen, asked |-> FALSE]
    <3>1. e \in HostEvents /\ e.gen = host'.gen
      BY <1>2 DEF HostEvents, Hosts
    <3>2. channel' = Append(channel, e)
      BY <2>2 DEF Emit
    <3> HIDE DEF e
    <3>. QED BY <1>1, <1>2, <3>1, <3>2, SendKeeps
  <2>. QED BY <2>1, <2>2 DEF HostSteps, CoreStarts, CoreFails, CoreReplaced
<1>5. gen <= host'.gen /\ call.expected <= host'.gen
  BY <1>1, <1>2 DEF StartupInv, StartupTyped, NothingAhead, StartCalls, Hosts
<1>. QED BY <1>2, <1>3, <1>4, <1>5
         DEF StartupInv, StartupTyped, NothingAhead, AnswerIsLater, AdaptersAreCurrent

\* The core answers; only the one in service has adapters to tell.
LEMMA AnswersKeepInv ==
  ASSUME StartupInv, Answers
  PROVE  StartupInv'
<1>1. call \in StartCalls /\ host \in Hosts /\ call.expected <= host.gen
  BY DEF StartupInv, StartupTyped, NothingAhead
<1>2. UNCHANGED <<host, channel, observed, gen, done, shown>>
  BY DEF Answers, hostVars
<1>3. PICK a \in {"connected", "disconnected", "error"} :
        call' = [call EXCEPT !.answer = a, !.gen = host.gen] \/ call' = [call EXCEPT !.answer = "error"]
  BY DEF Answers
<1>4. /\ call' \in StartCalls /\ call'.expected = call.expected
      /\ call'.answer # "error" => call'.gen = host.gen
  BY <1>1, <1>3 DEF StartCalls, Hosts
<1>5. AnswerIsLater'
  BY <1>1, <1>4 DEF AnswerIsLater, StartCalls, Hosts
<1>. QED BY <1>2, <1>4, <1>5 DEF StartupInv, StartupTyped, NothingAhead, AdaptersAreCurrent

\* An initialisation that begins, or is asked for, for the generation in place.
LEMMA InitializeKeepsInv ==
  ASSUME StartupInv, NEW reload \in BOOLEAN, Initialize(reload, gen, done, call, pending, shown),
         UNCHANGED <<host, channel, observed, gen, done>>
  PROVE  StartupInv'
<1>1. gen \in Nat /\ call \in StartCalls /\ shown \in StartViews
  BY DEF StartupInv, StartupTyped
<1>2. /\ call' \in StartCalls /\ shown' \in StartViews
      /\ shown'.available = shown.available /\ shown'.adapters = shown.adapters
      /\ call' = call \/ (call'.stage = "status" /\ call'.expected = gen)
  BY <1>1, InitializeGives
<1>. QED BY <1>2 DEF StartupInv, StartupTyped, NothingAhead, AnswerIsLater, AdaptersAreCurrent

\* A core that has gone: nothing is shown of it.
LEMMA UnavailableKeepsInv ==
  ASSUME StartupInv, NEW s \in StartViews, Unavailable(s), observed' \in Nat, host' = host,
         channel' \in Seq(HostEvents), \A i \in 1 .. Len(channel') : channel'[i].gen <= host'.gen
  PROVE  StartupInv'
<1> DEFINE t == [s EXCEPT !.available = FALSE, !.loading = FALSE]
<1>1. t \in StartViews /\ t.available = FALSE
  BY DEF StartViews
<1>2. gen' = 0 /\ done' = 0 /\ shown' = t /\ call' = call
  BY DEF Unavailable
<1> HIDE DEF t
<1>3. StartupTyped'
  BY <1>1, <1>2 DEF StartupInv, StartupTyped
<1>4. NothingAhead' /\ AnswerIsLater'
  BY <1>2 DEF StartupInv, StartupTyped, NothingAhead, AnswerIsLater, Hosts
<1>5. ~shown'.available
  BY <1>1, <1>2
<1>. QED BY <1>3, <1>4, <1>5 DEF StartupInv, AdaptersAreCurrent

\* A core that has become ready: the list of the last one is dropped.
LEMMA ReadyKeepsInv ==
  ASSUME StartupInv, NEW g \in Nat, g <= host.gen, Ready(g), observed' \in Nat, host' = host,
         channel' \in Seq(HostEvents), \A i \in 1 .. Len(channel') : channel'[i].gen <= host'.gen
  PROVE  StartupInv'
<1> DEFINE s == [shown EXCEPT !.available = TRUE, !.starting = FALSE, !.adapters = 0, !.loading = TRUE]
<1>1. shown \in StartViews /\ call \in StartCalls
  BY DEF StartupInv, StartupTyped
<1>2. s \in StartViews /\ s.adapters = 0
  BY <1>1 DEF StartViews
<1>3. gen' = g /\ done' = 0 /\ Initialize(FALSE, g, 0, call, pending, s)
  BY DEF Ready
<1> HIDE DEF s
<1>4. /\ call' \in StartCalls /\ shown' \in StartViews /\ shown'.adapters = 0
      /\ call' = call \/ (call'.stage = "status" /\ call'.expected = g)
  <2> DEFINE d == 0
             reload == FALSE
  <2>1. Initialize(reload, g, d, call, pending, s) /\ reload \in BOOLEAN
    BY <1>3
  <2> HIDE DEF d, reload
  <2>2. /\ call' \in StartCalls /\ shown' \in StartViews /\ shown'.adapters = s.adapters
        /\ call' = call \/ (call'.stage = "status" /\ call'.expected = g)
    BY <1>1, <1>2, <2>1, InitializeGives
  <2>. QED BY <1>2, <2>2
<1>5. StartupTyped'
  BY <1>3, <1>4 DEF StartupInv, StartupTyped
<1>6. NothingAhead'
  BY <1>3, <1>4 DEF StartupInv, NothingAhead
<1>7. AnswerIsLater'
  BY <1>4 DEF StartupInv, AnswerIsLater
<1>8. AdaptersAreCurrent'
  BY <1>4 DEF AdaptersAreCurrent
<1>. QED BY <1>5, <1>6, <1>7, <1>8 DEF StartupInv

\* An event of the core in service, or of one that was replaced.
LEMMA EventKeepsInv ==
  ASSUME StartupInv, Event
  PROVE  StartupInv'
<1> DEFINE e == Head(channel)
<1>1. /\ e \in HostEvents /\ e.gen \in Nat /\ e.gen <= host.gen /\ host' = host
      /\ channel' \in Seq(HostEvents) /\ \A i \in 1 .. Len(channel') : channel'[i].gen <= host'.gen
  <2>1. e \in HostEvents
    BY TakeKeeps DEF Event, StartupInv, StartupTyped, NothingAhead
  <2>. QED BY <2>1, TakeKeeps DEF Event, StartupInv, StartupTyped, NothingAhead, HostEvents
<1>2. Hears(e.kind, e.gen)
  BY DEF Event
<1>3. observed' \in Nat
  BY <1>1, <1>2 DEF Hears, StartupInv, StartupTyped
<1> HIDE DEF e
<1>4. shown \in StartViews
  BY DEF StartupInv, StartupTyped
<1>5. Gone \in StartViews
  BY <1>4 DEF Gone, StartViews
<1>6. CASE Ready(e.gen)
  BY <1>1, <1>3, <1>6, ReadyKeepsInv
<1>7. CASE Unavailable(Gone) \/ Unavailable(shown)
  BY <1>1, <1>3, <1>4, <1>5, <1>7, UnavailableKeepsInv
<1>8. CASE UNCHANGED <<startupVars, shown>>
  BY <1>1, <1>3, <1>8
     DEF StartupInv, StartupTyped, NothingAhead, AnswerIsLater, AdaptersAreCurrent, startupVars
<1>. QED BY <1>2, <1>6, <1>7, <1>8 DEF Hears

\* The subscription of the UI.
LEMMA SubscriptionKeepsInv ==
  ASSUME StartupInv, AskHost \/ SubscriptionFails
  PROVE  StartupInv'
<1>1. host \in Hosts /\ host.gen \in Nat /\ channel \in Seq(HostEvents) /\ shown \in StartViews
      /\ observed \in Nat /\ (\A i \in 1 .. Len(channel) : channel[i].gen <= host.gen)
  BY DEF StartupInv, StartupTyped, NothingAhead, Hosts
<1>2. CASE AskHost
  <2> DEFINE e == [kind |-> Readiness, gen |-> host.gen, asked |-> TRUE]
  <2>1. UNCHANGED <<host, observed, gen, done, call, shown>> /\ channel' = Append(channel, e)
    BY <1>2 DEF AskHost, startupVars
  <2>2. e \in HostEvents /\ e.gen = host'.gen /\ host' \in Hosts /\ host'.gen >= host.gen
    BY <1>1, <2>1 DEF HostEvents, Readiness
  <2> HIDE DEF e
  <2>3. /\ channel' \in Seq(HostEvents)
        /\ \A i \in 1 .. Len(channel') : channel'[i].gen <= host'.gen
    BY <1>1, <2>1, <2>2, SendKeeps
  <2>. QED BY <2>1, <2>3 DEF StartupInv, StartupTyped, NothingAhead, AnswerIsLater, AdaptersAreCurrent
<1>3. CASE SubscriptionFails
  <2> DEFINE s == [shown EXCEPT !.starting = FALSE]
  <2>1. s \in StartViews
    BY <1>1 DEF StartViews
  <2>2. Unavailable(s) /\ UNCHANGED <<host, channel, observed>>
    BY <1>3 DEF SubscriptionFails, hostVars
  <2> HIDE DEF s
  <2>. QED BY <1>1, <2>1, <2>2, UnavailableKeepsInv
<1>. QED BY <1>2, <1>3

-----------------------------------------------------------------------------
(* The theorem                                                                *)

LEMMA InitStartup ==
  ASSUME Init
  PROVE  StartupInv
<1>0. host \in Hosts
  <2>1. host \in [gen : {1}, state : {"starting", "ready"}, failed : {FALSE}]
    BY DEF Init
  <2>2. PICK st \in {"starting", "ready"} : host = [gen |-> 1, state |-> st, failed |-> FALSE]
    BY <2>1
  <2>3. /\ st \in {"starting", "ready", "failed", "exited", "fatal"}
        /\ 1 \in Nat /\ FALSE \in BOOLEAN
    OBVIOUS
  <2>4. [gen |-> 1, state |-> st, failed |-> FALSE] \in Hosts
    BY <2>3, Zenon DEF Hosts
  <2>. QED BY <2>2, <2>4, Zenon
<1>1. host \in Hosts /\ channel = << >> /\ NoCall \in StartCalls /\ NoCall.stage = "none" /\ NoCall.expected = 0
  BY <1>0 DEF Init, NoCall, StartCalls
<1>2. shown \in StartViews /\ shown.available = FALSE
  BY DEF Init, StartViews
<1>3. StartupTyped
  BY <1>1, <1>2 DEF Init, StartupTyped
<1>4. NothingAhead
  BY <1>1 DEF Init, NothingAhead, Hosts
<1>5. AnswerIsLater
  BY <1>1 DEF Init, AnswerIsLater
<1>6. AdaptersAreCurrent
  BY <1>2 DEF AdaptersAreCurrent
<1>. QED BY <1>3, <1>4, <1>5, <1>6 DEF StartupInv

LEMMA NextStartup ==
  ASSUME StartupInv, [Next]_vars
  PROVE  StartupInv'
<1>1. CASE HostSteps
  BY <1>1, HostKeepsInv
<1>2. CASE UiSteps
  <2>1. CASE Subscribed
    BY <2>1, InitializeKeepsInv DEF Subscribed, hostVars
  <2>. QED BY <1>2, <2>1, AnswersKeepInv, AnswerHandledKeepsInv, EventKeepsInv, SubscriptionKeepsInv
           DEF UiSteps
<1>3. CASE Reload
  BY <1>3, InitializeKeepsInv DEF Reload, hostVars
<1>4. CASE SubscriptionFails
  BY <1>4, SubscriptionKeepsInv
<1>5. CASE OpenFile \/ FileSteps \/ UNCHANGED vars
  <2>1. UNCHANGED <<host, channel, observed, gen, done, call, shown>>
    BY <1>5 DEF OpenFile, FileSteps, Fetch, Fetched, HandOver, vars, hostVars, startupVars
  <2>. QED BY <2>1 DEF StartupInv, StartupTyped, NothingAhead, AnswerIsLater, AdaptersAreCurrent
<1>. QED BY <1>1, <1>2, <1>3, <1>4, <1>5 DEF Next

\* The adapters that the UI shows are never those of a core that has been
\* replaced, for every number of replacements, reloads and late answers.
THEOREM AdaptersStayCurrent == Spec => []AdaptersAreCurrent
<1>1. StartupInv => AdaptersAreCurrent
  BY DEF StartupInv
<1>. QED BY <1>1, InitStartup, NextStartup, PTL DEF Spec
-----------------------------------------------------------------------------
(* The invariant                                                              *)

Kinds == {"load", "bin", "generate", "save"}
Configs == E!Valid \cup {"", "invalid"}
Places == [clock : {1} \cup 1 .. MaxClock, slave : 1 .. 2]  \* where the page may be
Documents == [path : Xml \cup Bin \cup {""}, config : Configs]
Targets == [document : Documents, ordinal : Nat, config : Configs, context : Places \cup {E!NoContext}]
PageStates == [esi : Documents, bin : Targets, ordinal : Nat, target : Targets, config : Configs,
          editing : BOOLEAN, generated : Configs, error : BOOLEAN]
Calls == [kind : Kinds, document : Documents, ordinal : Nat, config : Configs, context : Places,
          awaits : BOOLEAN, request : BOOLEAN, load : BOOLEAN]

CallsTyped(cs) == cs \subseteq Calls /\ \A c \in cs : c.kind = "load" => c.document.path \in Xml

PageTyped ==
  /\ context \in Places /\ disk \in [Xml -> Configs] /\ page \in [1 .. 2 -> PageStates]
  /\ mounted \in BOOLEAN /\ saving \in BOOLEAN
  /\ CallsTyped(calls)

\* A page that has a target has the target of what it shows, a draft apart, and
\* has asked for that of its ConfigData.
PageFits(p) ==
  /\ p.target # E!NoTarget =>
       /\ p.target.document = p.esi /\ p.target.ordinal = p.ordinal
       /\ ~p.editing => p.target.config = p.config
  /\ p.esi # E!NoDocument /\ p.ordinal > 0 /\ ~p.editing /\ p.config \in E!Valid => p.generated = p.config

\* The calls that may still change the page p that is mounted: a target asked
\* for is that of what is shown, a document comes to a page without one, and a
\* draft that is saved stays locked.
RequestFits(c, p) ==
  /\ c.kind = "generate" /\ ~p.editing
  /\ c.document = p.esi /\ c.ordinal = p.ordinal /\ c.config = p.config
LoadFits(c, cs, p) ==
  /\ p.esi = E!NoDocument /\ p.target = E!NoTarget /\ ~p.editing
  /\ \A d \in cs : ~d.request
CallsFit(cs, p, m, s) ==
  /\ \A c \in cs : c.request \/ c.load => m
  /\ \A c \in cs : c.request => RequestFits(c, p)
  /\ \A c \in cs : c.load /\ c.kind = "load" => LoadFits(c, cs, p)
  /\ \A c \in cs : c.load /\ c.kind = "save" => s /\ c.ordinal = p.ordinal
  /\ \A c, d \in cs : c.load /\ d.load => c = d

PageInv ==
  /\ PageTyped
  /\ \A s \in 1 .. 2 : PageFits(page[s])
  /\ CallsFit(calls, E!Mine, mounted, saving)

-----------------------------------------------------------------------------
(* Calls                                                                      *)

LEMMA CallGives ==
  ASSUME NEW k \in Places, NEW kind \in Kinds, NEW doc \in Documents, NEW ordinal \in Nat,
         NEW config \in Configs, NEW awaits \in BOOLEAN
  PROVE  LET c == E!Call(k, kind, doc, ordinal, config, awaits)
         IN  /\ c \in Calls /\ c.kind = kind /\ c.document = doc /\ c.ordinal = ordinal
             /\ c.config = config /\ c.request = (kind = "generate")
             /\ c.load = (kind # "generate" \/ awaits)
BY DEF E!Call, Calls

LEMMA BumpBothGives ==
  ASSUME NEW cs, CallsTyped(cs)
  PROVE  /\ CallsTyped(E!BumpBoth(cs))
         /\ \A c \in E!BumpBoth(cs) : ~c.request /\ ~c.load
<1>1. ASSUME NEW c \in E!BumpBoth(cs)
      PROVE  c \in Calls /\ ~c.request /\ ~c.load /\ (c.kind = "load" => c.document.path \in Xml)
  <2>1. PICK d \in cs : c = [d EXCEPT !.request = FALSE, !.load = FALSE]
    BY Zenon DEF E!BumpBoth
  <2>2. d \in Calls /\ (d.kind = "load" => d.document.path \in Xml)
    BY DEF CallsTyped
  <2>3. c \in Calls /\ c.request = FALSE /\ c.load = FALSE /\ c.kind = d.kind /\ c.document = d.document
    BY <2>1, <2>2 DEF Calls
  <2>. QED BY <2>2, <2>3
<1>. QED BY <1>1 DEF CallsTyped

LEMMA BumpRequestGives ==
  ASSUME NEW cs, CallsTyped(cs)
  PROVE  /\ CallsTyped(E!BumpRequest(cs))
         /\ \A c \in E!BumpRequest(cs) :
              ~c.request /\ \E d \in cs : /\ c = [d EXCEPT !.request = FALSE]
                                         /\ c.kind = d.kind /\ c.ordinal = d.ordinal /\ c.load = d.load
<1>1. ASSUME NEW c \in E!BumpRequest(cs)
      PROVE  /\ c \in Calls /\ ~c.request /\ (c.kind = "load" => c.document.path \in Xml)
             /\ \E d \in cs : /\ c = [d EXCEPT !.request = FALSE]
                             /\ c.kind = d.kind /\ c.ordinal = d.ordinal /\ c.load = d.load
  <2>1. PICK d \in cs : c = [d EXCEPT !.request = FALSE]
    BY DEF E!BumpRequest
  <2>2. d \in Calls /\ (d.kind = "load" => d.document.path \in Xml)
    BY DEF CallsTyped
  <2>3. /\ c \in Calls /\ c.request = FALSE /\ c.kind = d.kind /\ c.document = d.document
        /\ c.ordinal = d.ordinal /\ c.load = d.load
    BY <2>1, <2>2 DEF Calls
  <2>. QED BY <2>1, <2>2, <2>3
<1>. QED BY <1>1 DEF CallsTyped

\* Calls that were all superseded fit every page.
LEMMA SupersededFit ==
  ASSUME NEW cs, CallsTyped(cs), NEW p, NEW m, NEW s
  PROVE  CallsFit(E!BumpBoth(cs), p, m, s)
BY BumpBothGives DEF CallsFit

-----------------------------------------------------------------------------
(* Generating and loading                                                     *)

LEMMA NothingTyped == E!NoDocument \in Documents /\ E!NoTarget \in Targets
<1>1. E!NoDocument \in Documents
  BY DEF E!NoDocument, Documents, Configs
<1>. QED BY <1>1 DEF E!NoTarget, Targets, Configs

LEMMA PagesHold ==
  ASSUME NEW pages \in [1 .. 2 -> PageStates], NEW i \in 1 .. 2, NEW q \in PageStates, PageFits(q),
         \A s \in 1 .. 2 : PageFits(pages[s])
  PROVE  LET new == [pages EXCEPT ![i] = q]
         IN  /\ new \in [1 .. 2 -> PageStates] /\ new[i] = q /\ \A s \in 1 .. 2 : PageFits(new[s])
OBVIOUS

\* A page that generates the target of what it shows, beside calls that bring no
\* document, and, if the generation ends a load or a save, none that ends one.
LEMMA GeneratesFit ==
  ASSUME NEW k \in Places, NEW p \in PageStates, NEW cs, CallsTyped(cs), NEW s, NEW awaits \in BOOLEAN,
         ~p.editing,
         \A c \in cs : c.load => c.kind \notin {"load", "save"} /\ ~awaits,
         \A c, d \in cs : c.load /\ d.load => c = d
  PROVE  LET q == E!Generating(p, p.esi, p.ordinal, p.config)
             new == E!Generate(k, cs, p.esi, p.ordinal, p.config, awaits)
         IN  /\ q \in PageStates /\ PageFits(q)
             /\ CallsTyped(new) /\ CallsFit(new, q, TRUE, s)
<1> DEFINE q == E!Generating(p, p.esi, p.ordinal, p.config)
           e == E!Call(k, "generate", p.esi, p.ordinal, p.config, awaits)
           old == E!BumpRequest(cs)
<1>1. /\ p.esi \in Documents /\ p.ordinal \in Nat /\ p.config \in Configs
      /\ p.editing \in BOOLEAN /\ "generate" \in Kinds
  BY DEF PageStates, Kinds
<1>2. /\ e \in Calls /\ e.kind = "generate" /\ e.document = p.esi /\ e.ordinal = p.ordinal
      /\ e.config = p.config /\ e.load = awaits
  BY <1>1, CallGives
<1>3. q \in PageStates /\ q.target = E!NoTarget /\ q.esi = p.esi /\ q.ordinal = p.ordinal
      /\ q.config = p.config /\ q.editing = p.editing
      /\ q.generated = IF p.config \in E!Valid THEN p.config ELSE ""
  BY NothingTyped, Zenon DEF E!Generating, PageStates, Configs
<1>4. PageFits(q)
  BY <1>3, Zenon DEF PageFits
<1>5. /\ CallsTyped(old)
      /\ \A c \in old : ~c.request /\ (c.load => c.kind \notin {"load", "save"} /\ ~awaits)
  BY BumpRequestGives
<1>6. ASSUME NEW c \in old, NEW d \in old, c.load, d.load
      PROVE  c = d
  <2>1. PICK c0 \in cs : c = [c0 EXCEPT !.request = FALSE] /\ c.load = c0.load
    BY BumpRequestGives
  <2>2. PICK d0 \in cs : d = [d0 EXCEPT !.request = FALSE] /\ d.load = d0.load
    BY BumpRequestGives
  <2>3. c0 = d0
    BY <1>6, <2>1, <2>2
  <2>. QED BY <2>1, <2>2, <2>3
<1> HIDE DEF q, e, old
<1>7. CallsTyped(old \cup {e})
  BY <1>2, <1>5 DEF CallsTyped
<1>8. CallsFit(old \cup {e}, q, TRUE, s)
  BY <1>2, <1>3, <1>5, <1>6, Zenon DEF CallsFit, RequestFits
<1>. QED BY <1>3, <1>4, <1>7, <1>8, Zenon DEF q, e, old, E!Generate

\* Loading leaves a page without a document that waits for it.
LEMMA LoadsFit ==
  ASSUME NEW k \in Places, NEW pages \in [1 .. 2 -> PageStates], \A s \in 1 .. 2 : PageFits(pages[s]),
         NEW cs, CallsTyped(cs), NEW path \in Xml \cup Bin, NEW ordinal \in Nat, NEW config \in Configs,
         NEW s, E!Load(k, pages, cs, path, ordinal, config)
  PROVE  /\ page' \in [1 .. 2 -> PageStates] /\ (\A i \in 1 .. 2 : PageFits(page'[i]))
         /\ CallsTyped(calls') /\ CallsFit(calls', page'[k.slave], TRUE, s)
<1> DEFINE p == pages[k.slave]
           doc == [E!NoDocument EXCEPT !.path = path]
           waiting == [p EXCEPT !.generated = "", !.target = E!NoTarget, !.esi = E!NoDocument,
                                !.bin = E!NoTarget, !.error = FALSE, !.editing = FALSE]
           empty == [waiting EXCEPT !.ordinal = 0, !.config = ""]
           binary == E!Call(k, "bin", doc, 0, "", FALSE)
           xml == E!Call(k, "load", doc, ordinal, config, FALSE)
           old == E!BumpBoth(cs)
<1>1. k.slave \in 1 .. 2 /\ p \in PageStates
  BY DEF Places
<1>2. doc \in Documents /\ doc.path = path
  BY Zenon DEF E!NoDocument, Documents, Configs
<1>3. /\ waiting \in PageStates /\ waiting.esi = E!NoDocument /\ waiting.target = E!NoTarget
      /\ waiting.editing = FALSE
  BY <1>1, NothingTyped, Zenon DEF PageStates, Configs
<1> HIDE DEF waiting
<1>4. /\ empty \in PageStates /\ empty.esi = E!NoDocument /\ empty.target = E!NoTarget
      /\ empty.editing = FALSE
  BY <1>3, Zenon DEF PageStates, Configs
<1> HIDE DEF doc, empty
<1>5. "" \in Configs /\ "bin" \in Kinds /\ "load" \in Kinds
  BY Zenon DEF Configs, Kinds
<1>6. /\ binary \in Calls /\ binary.kind = "bin" /\ ~binary.request
      /\ xml \in Calls /\ xml.kind = "load" /\ ~xml.request /\ xml.document = doc
  <2>1. binary \in Calls /\ binary.kind = "bin" /\ ~binary.request
    BY <1>2, <1>5, Zenon DEF E!Call, Calls
  <2>2. xml \in Calls /\ xml.kind = "load" /\ ~xml.request /\ xml.document = doc
    BY <1>2, <1>5, Zenon DEF E!Call, Calls
  <2>. QED BY <2>1, <2>2, Zenon
<1>7. CallsTyped(old) /\ \A c \in old : ~c.request /\ ~c.load
  BY BumpBothGives
<1> HIDE DEF binary, xml, old
<1>8. ASSUME NEW q \in {waiting, empty}, NEW e \in {binary, xml}, path \in Xml \/ e = binary,
             page' = [pages EXCEPT ![k.slave] = q], calls' = old \cup {e}
      PROVE  /\ page' \in [1 .. 2 -> PageStates] /\ (\A i \in 1 .. 2 : PageFits(page'[i]))
             /\ CallsTyped(calls') /\ CallsFit(calls', page'[k.slave], TRUE, s)
  <2>1. q \in PageStates /\ q.esi = E!NoDocument /\ q.target = E!NoTarget /\ q.editing = FALSE
    BY <1>3, <1>4
  <2>2. PageFits(q)
    BY <2>1 DEF PageFits
  <2>3. page' \in [1 .. 2 -> PageStates] /\ page'[k.slave] = q /\ \A i \in 1 .. 2 : PageFits(page'[i])
    BY <1>1, <1>8, <2>1, <2>2, PagesHold
  <2>4. CallsTyped(calls')
    BY <1>2, <1>6, <1>7, <1>8 DEF CallsTyped
  <2>5. e.kind \in {"bin", "load"} /\ ~e.request
    BY <1>6
  <2>6. CallsFit(calls', q, TRUE, s)
    BY <1>7, <1>8, <2>1, <2>5 DEF CallsFit, LoadFits
  <2>. QED BY <2>3, <2>4, <2>6
<1>9. \/ page' = [pages EXCEPT ![k.slave] = empty] /\ calls' = old \cup {binary}
      \/ path \notin Bin /\ page' = [pages EXCEPT ![k.slave] = waiting] /\ calls' = old \cup {xml}
  BY Zenon DEF E!Load, waiting, empty, doc, binary, xml, old
<1>. QED BY <1>8, <1>9

\* The effects of a mount.
LEMMA MountsKeepInv ==
  ASSUME NEW k \in Places, NEW pages \in [1 .. 2 -> PageStates], \A s \in 1 .. 2 : PageFits(pages[s]),
         CallsTyped(calls), NEW path \in Xml \cup Bin \cup {""}, E!Mounts(k, pages, path),
         context' = k, disk \in [Xml -> Configs], UNCHANGED disk
  PROVE  PageInv'
<1> DEFINE p == pages[k.slave]
<1>1. k.slave \in 1 .. 2 /\ p \in PageStates /\ PageFits(p) /\ mounted' = TRUE /\ saving' = FALSE
  BY Zenon DEF Places, E!Mounts
<1>2. SUFFICES /\ page' \in [1 .. 2 -> PageStates] /\ (\A i \in 1 .. 2 : PageFits(page'[i]))
               /\ CallsTyped(calls') /\ CallsFit(calls', page'[k.slave], TRUE, FALSE)
  BY <1>1, Zenon DEF PageInv, PageTyped, E!Mine
<1>3. CASE path # ""
  <2>1. 1 \in Nat /\ "original" \in Configs /\ path \in Xml \cup Bin
    BY <1>3, Zenon DEF Configs, E!Valid
  <2>2. E!Load(k, pages, calls, path, 1, "original")
    BY <1>3, Zenon DEF E!Mounts
  <2>. QED BY <2>1, <2>2, LoadsFit, Zenon
<1>4. CASE /\ ~p.editing /\ page' = [pages EXCEPT ![k.slave] = E!Generating(p, p.esi, p.ordinal, p.config)]
           /\ calls' = E!Generate(k, E!BumpBoth(calls), p.esi, p.ordinal, p.config, FALSE)
  <2> DEFINE q == E!Generating(p, p.esi, p.ordinal, p.config)
             cs == E!BumpBoth(calls)
  <2>1. CallsTyped(cs) /\ \A c \in cs : ~c.request /\ ~c.load
    BY BumpBothGives, Zenon
  <2> HIDE DEF cs
  <2>2. /\ q \in PageStates /\ PageFits(q)
        /\ LET new == E!Generate(k, cs, p.esi, p.ordinal, p.config, FALSE)
           IN  CallsTyped(new) /\ CallsFit(new, q, TRUE, FALSE)
    BY <1>1, <1>4, <2>1, GeneratesFit, Zenon
  <2> HIDE DEF q
  <2>3. page' \in [1 .. 2 -> PageStates] /\ page'[k.slave] = q /\ \A i \in 1 .. 2 : PageFits(page'[i])
    BY <1>1, <1>4, <2>2, PagesHold, Zenon DEF q
  <2>. QED BY <1>4, <2>2, <2>3, Zenon DEF cs
<1>5. CASE page' = pages /\ calls' = E!BumpBoth(calls)
  BY <1>5, BumpBothGives, SupersededFit, Zenon
<1>. QED BY <1>3, <1>4, <1>5, Zenon DEF E!Mounts

-----------------------------------------------------------------------------
(* Steps                                                                      *)

\* What the invariant says of the page that is in front.
LEMMA PageFacts ==
  ASSUME PageInv
  PROVE  /\ context \in Places /\ context.slave \in 1 .. 2 /\ disk \in [Xml -> Configs]
         /\ page \in [1 .. 2 -> PageStates] /\ (\A s \in 1 .. 2 : PageFits(page[s]))
         /\ E!Mine = page[context.slave] /\ E!Mine \in PageStates /\ PageFits(E!Mine)
         /\ E!Mine.esi \in Documents /\ E!Mine.ordinal \in Nat /\ E!Mine.config \in Configs
         /\ E!Mine.editing \in BOOLEAN /\ mounted \in BOOLEAN /\ saving \in BOOLEAN
         /\ CallsTyped(calls) /\ CallsFit(calls, E!Mine, mounted, saving)
BY DEF PageInv, PageTyped, E!Mine, Places, PageStates

\* A step that changes one page, in front of the user, and the calls.
LEMMA StepKeepsInv ==
  ASSUME PageInv, NEW q \in PageStates, PageFits(q), page' = [page EXCEPT ![context.slave] = q],
         context' = context, disk' \in [Xml -> Configs], mounted' \in BOOLEAN, saving' \in BOOLEAN,
         CallsTyped(calls'), CallsFit(calls', q, mounted', saving')
  PROVE  PageInv'
<1>1. page' \in [1 .. 2 -> PageStates] /\ page'[context.slave] = q /\ \A s \in 1 .. 2 : PageFits(page'[s])
  BY PageFacts, PagesHold
<1>2. E!Mine' = q
  BY <1>1 DEF E!Mine
<1>. QED BY <1>1, <1>2, PageFacts DEF PageInv, PageTyped

\* A step that leaves the pages.
LEMMA CallsKeepInv ==
  ASSUME PageInv, page' = page, context' = context, disk' \in [Xml -> Configs],
         mounted' \in BOOLEAN, saving' \in BOOLEAN,
         CallsTyped(calls'), CallsFit(calls', E!Mine, mounted', saving')
  PROVE  PageInv'
BY PageFacts DEF PageInv, PageTyped, E!Mine

\* Coming, going, and moving to another slave or connection.
LEMMA MovesKeepInv ==
  ASSUME PageInv, (\E path \in Xml \cup Bin \cup {""} : E!Enter(path)) \/ E!Leave \/ E!ContextMoves
  PROVE  PageInv'
<1>1. ASSUME NEW path \in Xml \cup Bin \cup {""}, E!Enter(path)
      PROVE  PageInv'
  BY <1>1, PageFacts, MountsKeepInv, Zenon DEF E!Enter
<1>2. CASE E!Leave
  BY <1>2, PageFacts, BumpBothGives, SupersededFit, CallsKeepInv, Zenon DEF E!Leave
<1>3. CASE E!ContextMoves
  <2> DEFINE pages == IF context'.clock = context.clock THEN page ELSE [i \in 1 .. 2 |-> E!Fresh]
  <2>1. context' \in Places /\ context'.slave \in 1 .. 2 /\ UNCHANGED disk
    BY <1>3, Zenon DEF E!ContextMoves, E!Contexts, Places
  <2>2. E!Fresh \in PageStates /\ PageFits(E!Fresh)
    <3>1. 0 \in Nat /\ "" \in Configs
      BY Zenon DEF Configs
    <3>. QED BY <3>1, NothingTyped, Zenon DEF E!Fresh, PageStates, PageFits
  <2>3. pages \in [1 .. 2 -> PageStates] /\ \A s \in 1 .. 2 : PageFits(pages[s])
    BY <2>2, PageFacts, Zenon
  <2>4. CASE mounted
    <3>1. E!Mounts(context', pages, "")
      BY <1>3, <2>4, Zenon DEF E!ContextMoves
    <3> HIDE DEF pages
    <3>2. "" \in Xml \cup Bin \cup {""}
      BY Zenon
    <3> DEFINE k == context'
               path == ""
    <3>3. E!Mounts(k, pages, path) /\ k \in Places /\ context' = k /\ path \in Xml \cup Bin \cup {""}
      BY <2>1, <3>1, <3>2, Zenon
    <3> HIDE DEF k, path
    <3>. QED BY <2>1, <2>3, <3>3, PageFacts, MountsKeepInv, Zenon
  <2>5. CASE ~mounted
    <3>1. page' = pages /\ UNCHANGED <<mounted, saving, calls>>
      BY <1>3, <2>5, Zenon DEF E!ContextMoves
    <3>2. \A c \in calls : ~c.request /\ ~c.load
      BY <2>5, PageFacts, Zenon DEF CallsFit
    <3>3. CallsFit(calls', E!Mine', mounted', saving')
      BY <3>1, <3>2, Zenon DEF CallsFit
    <3>. QED BY <2>1, <2>3, <3>1, <3>3, PageFacts, Zenon DEF PageInv, PageTyped
  <2>. QED BY <2>4, <2>5, PageFacts, Zenon
<1>. QED BY <1>1, <1>2, <1>3, Zenon

\* Choosing a document, by hand or through the dialog.
LEMMA LoadKeepsInv ==
  ASSUME PageInv, NEW path \in Xml \cup Bin, NEW ordinal \in Nat, NEW config \in Configs,
         E!Load(context, page, calls, path, ordinal, config), mounted,
         UNCHANGED <<context, disk, mounted, saving>>
  PROVE  PageInv'
<1>1. /\ page' \in [1 .. 2 -> PageStates] /\ (\A i \in 1 .. 2 : PageFits(page'[i]))
      /\ CallsTyped(calls') /\ CallsFit(calls', page'[context.slave], TRUE, saving)
  BY PageFacts, LoadsFit
<1>2. E!Mine' = page'[context.slave] /\ mounted' = TRUE
  BY PageFacts DEF E!Mine
<1>. QED BY <1>1, <1>2, PageFacts DEF PageInv, PageTyped

\* Another Device: no document and no save is on its way then.
LEMMA ChangeDeviceKeepsInv ==
  ASSUME PageInv, NEW ordinal \in Nat, E!ChangeDevice(ordinal)
  PROVE  PageInv'
<1> DEFINE p == [E!Mine EXCEPT !.editing = FALSE, !.ordinal = ordinal, !.config = E!Mine.esi.config]
           q == E!Generating(p, p.esi, p.ordinal, p.config)
           awaits == FALSE
<1>1. E!Mine.esi.config \in Configs
  BY PageFacts, Zenon DEF Documents
<1>2. p \in PageStates /\ p.editing = FALSE /\ p.esi = E!Mine.esi /\ p.ordinal = ordinal
  BY <1>1, PageFacts DEF PageStates
<1>3. /\ mounted = TRUE /\ ~saving /\ E!Mine.esi # E!NoDocument
      /\ UNCHANGED <<context, disk, mounted, saving>>
  BY DEF E!ChangeDevice, E!Locked
<1>4. page' = [page EXCEPT ![context.slave] = q]
      /\ calls' = E!Generate(context, calls, p.esi, p.ordinal, p.config, awaits)
  BY <1>2 DEF E!ChangeDevice
<1>5. awaits \in BOOLEAN /\ ~awaits
  OBVIOUS
<1>6. /\ \A c \in calls : c.load => c.kind \notin {"load", "save"} /\ ~awaits
      /\ \A c, d \in calls : c.load /\ d.load => c = d
  BY <1>3, <1>5, PageFacts DEF CallsFit, LoadFits
<1> HIDE DEF p, awaits
<1>7. /\ q \in PageStates /\ PageFits(q) /\ CallsTyped(calls') /\ CallsFit(calls', q, TRUE, saving)
  BY <1>2, <1>4, <1>5, <1>6, PageFacts, GeneratesFit
<1> HIDE DEF q
<1>. QED BY <1>3, <1>4, <1>7, PageFacts, StepKeepsInv

\* Drafting: while it lasts no target is asked for.
LEMMA DraftKeepsInv ==
  ASSUME PageInv, E!Edit \/ \E config \in Configs : E!Type(config)
  PROVE  PageInv'
<1>1. CASE E!Edit
  <2> DEFINE q == [E!Mine EXCEPT !.editing = TRUE]
  <2>1. q \in PageStates /\ q.target = E!Mine.target /\ q.esi = E!Mine.esi /\ q.ordinal = E!Mine.ordinal
        /\ q.editing = TRUE
    BY PageFacts DEF PageStates
  <2>2. PageFits(q)
    BY <2>1, PageFacts DEF PageFits
  <2>3. /\ page' = [page EXCEPT ![context.slave] = q] /\ calls' = E!BumpRequest(calls)
        /\ mounted /\ ~saving /\ E!Mine.esi # E!NoDocument /\ UNCHANGED <<context, disk, mounted, saving>>
    BY <1>1, PageFacts DEF E!Edit, E!HasDevice, E!Locked
  <2>4. CallsTyped(calls') /\ \A c \in calls' : ~c.request /\ \E d \in calls :
          c = [d EXCEPT !.request = FALSE] /\ c.kind = d.kind /\ c.load = d.load
    BY <2>3, PageFacts, BumpRequestGives
  <2>5. \A c \in calls' : ~(c.load /\ c.kind \in {"load", "save"})
    BY <2>3, <2>4, PageFacts DEF CallsFit, LoadFits
  <2>6. ASSUME NEW c \in calls', NEW d \in calls', c.load, d.load
        PROVE  c = d
    <3>1. PICK c0 \in calls : c = [c0 EXCEPT !.request = FALSE] /\ c.load = c0.load
      BY <2>4
    <3>2. PICK d0 \in calls : d = [d0 EXCEPT !.request = FALSE] /\ d.load = d0.load
      BY <2>4
    <3>3. c0 = d0
      BY <2>6, <3>1, <3>2, PageFacts DEF CallsFit
    <3>. QED BY <3>1, <3>2, <3>3
  <2>7. CallsFit(calls', q, mounted', saving')
    BY <2>3, <2>4, <2>5, <2>6 DEF CallsFit
  <2> HIDE DEF q
  <2>. QED BY <2>1, <2>2, <2>3, <2>4, <2>7, PageFacts, StepKeepsInv
<1>2. ASSUME NEW config \in Configs, E!Type(config)
      PROVE  PageInv'
  <2> DEFINE q == [E!Mine EXCEPT !.config = config]
  <2>1. q \in PageStates /\ q.target = E!Mine.target /\ q.esi = E!Mine.esi /\ q.ordinal = E!Mine.ordinal
        /\ q.editing = E!Mine.editing
    BY <1>2, PageFacts DEF PageStates
  <2>2. /\ page' = [page EXCEPT ![context.slave] = q]
        /\ E!Mine.editing /\ UNCHANGED <<context, disk, mounted, saving, calls>>
    BY <1>2, PageFacts DEF E!Type
  <2>3. PageFits(q)
    BY <2>1, <2>2, PageFacts DEF PageFits
  <2>4. CallsFit(calls', q, mounted', saving')
    BY <2>1, <2>2, PageFacts DEF CallsFit, RequestFits, LoadFits
  <2> HIDE DEF q
  <2>. QED BY <2>1, <2>2, <2>3, <2>4, PageFacts, StepKeepsInv
<1>. QED BY <1>1, <1>2

LEMMA SaveConfigKeepsInv ==
  ASSUME PageInv, E!SaveConfig
  PROVE  PageInv'
<1> DEFINE awaits == FALSE
           e == E!Call(context, "save", E!Mine.esi, E!Mine.ordinal, E!Mine.config, awaits)
           old == E!BumpBoth(calls)
<1>1. /\ page' = page /\ saving' = TRUE /\ mounted = TRUE /\ calls' = old \cup {e}
      /\ UNCHANGED <<context, disk, mounted>>
  BY PageFacts DEF E!SaveConfig, E!HasDevice
<1>2. "save" \in Kinds
  BY DEF Kinds
<1>3. e \in Calls /\ e.kind = "save" /\ ~e.request /\ e.ordinal = E!Mine.ordinal
  BY <1>2, PageFacts DEF E!Call, Calls
<1>4. CallsTyped(old) /\ \A c \in old : ~c.request /\ ~c.load
  BY PageFacts, BumpBothGives
<1> HIDE DEF e, old
<1>5. CallsTyped(calls')
  BY <1>1, <1>3, <1>4 DEF CallsTyped
<1>6. CallsFit(calls', E!Mine, mounted', saving')
  BY <1>1, <1>3, <1>4 DEF CallsFit
<1>. QED BY <1>1, <1>5, <1>6, PageFacts, CallsKeepInv

-----------------------------------------------------------------------------
(* Answers                                                                    *)

\* The calls that an answer leaves.
LEMMA RestFits ==
  ASSUME PageInv, NEW c \in calls, NEW q, NEW s, s = saving \/ c.load,
         q.esi = E!Mine.esi, q.ordinal = E!Mine.ordinal, q.config = E!Mine.config, q.editing = E!Mine.editing,
         q.target = E!Mine.target \/ c.request
  PROVE  /\ CallsTyped(calls \ {c}) /\ CallsFit(calls \ {c}, q, mounted, s)
         /\ c \in Calls /\ (c.kind = "load" => c.document.path \in Xml)
         /\ c.document \in Documents /\ c.ordinal \in Nat /\ c.config \in Configs
         /\ c.load => \A d \in calls \ {c} : ~d.load
<1>1. CallsTyped(calls) /\ CallsFit(calls, E!Mine, mounted, saving)
  BY PageFacts
<1>2. CallsTyped(calls \ {c}) /\ c \in Calls /\ (c.kind = "load" => c.document.path \in Xml)
  BY <1>1 DEF CallsTyped
<1>3. c.load => \A d \in calls \ {c} : ~d.load
  BY <1>1 DEF CallsFit
<1>4. CallsFit(calls \ {c}, q, mounted, s)
  BY <1>1, <1>3 DEF CallsFit, RequestFits, LoadFits
<1>. QED BY <1>2, <1>3, <1>4 DEF Calls

\* An answer that changes nothing but what the page holds beside its target.
LEMMA RestKeepsInv ==
  ASSUME PageInv, NEW c \in calls, page' = page, calls' = calls \ {c}, UNCHANGED <<context, mounted>>,
         disk' \in [Xml -> Configs], saving' \in BOOLEAN, saving' = saving \/ c.load
  PROVE  PageInv'
<1>1. CallsTyped(calls') /\ CallsFit(calls', E!Mine, mounted, saving')
  BY RestFits
<1>. QED BY <1>1, PageFacts, CallsKeepInv

\* The generation that ends a load or a save.
LEMMA FollowUpKeepsInv ==
  ASSUME PageInv, NEW c \in calls, c.load, NEW p \in PageStates, ~p.editing, mounted,
         page' = [page EXCEPT ![context.slave] = E!Generating(p, p.esi, p.ordinal, p.config)],
         calls' = E!Generate(context, calls \ {c}, p.esi, p.ordinal, p.config, TRUE),
         UNCHANGED <<context, mounted, saving>>, disk' \in [Xml -> Configs]
  PROVE  PageInv'
<1> DEFINE q == E!Generating(p, p.esi, p.ordinal, p.config)
           rest == calls \ {c}
           awaits == TRUE
<1>1. CallsTyped(rest) /\ \A d \in rest : ~d.load
  BY RestFits
<1>2. awaits \in BOOLEAN /\ calls' = E!Generate(context, rest, p.esi, p.ordinal, p.config, awaits)
  OBVIOUS
<1> HIDE DEF rest, awaits
<1>3. /\ \A d \in rest : d.load => d.kind \notin {"load", "save"} /\ ~awaits
      /\ \A d, e \in rest : d.load /\ e.load => d = e
  BY <1>1
<1>4. LET new == E!Generate(context, rest, p.esi, p.ordinal, p.config, awaits)
      IN  /\ q \in PageStates /\ PageFits(q) /\ CallsTyped(new) /\ CallsFit(new, q, TRUE, saving)
  BY <1>1, <1>2, <1>3, PageFacts, GeneratesFit
<1>5. CallsTyped(calls') /\ CallsFit(calls', q, TRUE, saving)
  BY <1>2, <1>4
<1>6. page' = [page EXCEPT ![context.slave] = q] /\ mounted' = TRUE
  BY PageFacts
<1> HIDE DEF q
<1>. QED BY <1>4, <1>5, <1>6, PageFacts, StepKeepsInv

LEMMA LoadAnsweredKeepsInv ==
  ASSUME PageInv, NEW c \in calls, NEW succeeds \in BOOLEAN, NEW ambiguous \in BOOLEAN,
         E!LoadAnswered(c, succeeds, ambiguous), UNCHANGED <<context, mounted>>,
         disk' \in [Xml -> Configs]
  PROVE  PageInv'
<1>1. c.kind = "load" /\ saving' = saving
  BY DEF E!LoadAnswered
<1>2. CASE ~(succeeds /\ c.load)
  BY <1>1, <1>2, PageFacts, RestKeepsInv DEF E!LoadAnswered
<1>3. CASE succeeds /\ c.load
  <2> DEFINE l == E!Loaded(c, disk, ambiguous)
             doc == [c.document EXCEPT !.config = disk[c.document.path]]
             p == [E!Mine EXCEPT !.esi = l.document, !.ordinal = l.ordinal, !.config = l.effective]
             rest == calls \ {c}
  <2>1. /\ mounted /\ E!Mine.target = E!NoTarget /\ ~E!Mine.editing /\ \A d \in calls : ~d.request
    BY <1>1, <1>3, PageFacts DEF CallsFit, LoadFits
  <2>2. /\ CallsTyped(rest) /\ (\A d \in rest : ~d.load)
        /\ c.document \in Documents /\ c.document.path \in Xml /\ c.ordinal \in Nat /\ c.config \in Configs
    BY <1>1, <1>3, RestFits
  <2>3. doc \in Documents /\ doc.config \in Configs
    BY <2>2, PageFacts, Zenon DEF Documents
  <2>4. l.document \in Documents /\ l.ordinal \in Nat /\ l.effective \in Configs
    BY <2>2, <2>3, Zenon DEF E!Loaded, Configs
  <2> HIDE DEF l
  <2>5. /\ p \in PageStates /\ p.editing = E!Mine.editing /\ p.target = E!Mine.target
        /\ p.esi = l.document /\ p.ordinal = l.ordinal /\ p.config = l.effective
    BY <2>4, PageFacts DEF PageStates
  <2>6. CASE l.ordinal = 0
    <3>1. page' = [page EXCEPT ![context.slave] = p] /\ calls' = rest
      BY <1>3, <2>6 DEF E!LoadAnswered, l
    <3>2. PageFits(p)
      BY <2>1, <2>5, <2>6 DEF PageFits
    <3>3. CallsFit(rest, p, mounted, saving)
      BY <2>1, <2>2 DEF CallsFit
    <3> HIDE DEF p, rest
    <3>. QED BY <1>1, <2>2, <2>5, <3>1, <3>2, <3>3, PageFacts, StepKeepsInv
  <2>7. CASE l.ordinal # 0
    <3>1. /\ page' = [page EXCEPT ![context.slave] = E!Generating(p, p.esi, p.ordinal, p.config)]
          /\ calls' = E!Generate(context, rest, p.esi, p.ordinal, p.config, TRUE)
      BY <1>3, <2>5, <2>7 DEF E!LoadAnswered, l
    <3>2. ~p.editing
      BY <2>1, <2>5
    <3> HIDE DEF p
    <3>. QED BY <1>1, <1>3, <2>1, <2>5, <3>1, <3>2, FollowUpKeepsInv
  <2>. QED BY <2>6, <2>7
<1>. QED BY <1>2, <1>3

\* A picture read from a file, and failures.
LEMMA BinAnsweredKeepsInv ==
  ASSUME PageInv, NEW c \in calls, NEW succeeds \in BOOLEAN, E!BinAnswered(c, succeeds),
         UNCHANGED <<context, mounted>>, disk' \in [Xml -> Configs]
  PROVE  PageInv'
<1>1. calls' = calls \ {c} /\ saving' = saving
  BY DEF E!BinAnswered
<1>2. ASSUME NEW q \in PageStates, page' = [page EXCEPT ![context.slave] = q],
             q.esi = E!Mine.esi, q.ordinal = E!Mine.ordinal, q.config = E!Mine.config,
             q.editing = E!Mine.editing, q.target = E!Mine.target, q.generated = E!Mine.generated
      PROVE  PageInv'
  <2>1. PageFits(q)
    BY <1>2, PageFacts DEF PageFits
  <2>2. CallsTyped(calls') /\ CallsFit(calls', q, mounted', saving')
    BY <1>1, <1>2, RestFits
  <2>. QED BY <1>1, <1>2, <2>1, <2>2, PageFacts, StepKeepsInv
<1>3. E!BinImage(c) \in Targets
  <2>1. c \in Calls
    BY PageFacts DEF CallsTyped
  <2>. QED BY <2>1, NothingTyped DEF E!BinImage, Targets, Calls
<1>4. CASE page' = [page EXCEPT ![context.slave].bin = E!BinImage(c)]
  <2> DEFINE q == [E!Mine EXCEPT !.bin = E!BinImage(c)]
  <2>1. /\ q \in PageStates /\ q.esi = E!Mine.esi /\ q.ordinal = E!Mine.ordinal /\ q.config = E!Mine.config
        /\ q.editing = E!Mine.editing /\ q.target = E!Mine.target /\ q.generated = E!Mine.generated
    BY <1>3, PageFacts DEF PageStates
  <2>2. page' = [page EXCEPT ![context.slave] = q]
    BY <1>4, PageFacts
  <2> HIDE DEF q
  <2>. QED BY <1>2, <2>1, <2>2
<1>5. CASE page' = [page EXCEPT ![context.slave].error = TRUE]
  <2> DEFINE q == [E!Mine EXCEPT !.error = TRUE]
  <2>1. /\ q \in PageStates /\ q.esi = E!Mine.esi /\ q.ordinal = E!Mine.ordinal /\ q.config = E!Mine.config
        /\ q.editing = E!Mine.editing /\ q.target = E!Mine.target /\ q.generated = E!Mine.generated
    BY PageFacts DEF PageStates
  <2>2. page' = [page EXCEPT ![context.slave] = q]
    BY <1>5, PageFacts
  <2> HIDE DEF q
  <2>. QED BY <1>2, <2>1, <2>2
<1>6. CASE page' = page
  BY <1>1, <1>6, PageFacts, RestKeepsInv
<1>. QED BY <1>4, <1>5, <1>6 DEF E!BinAnswered

\* The target arrives: it is that of what the page shows by now.
LEMMA GenerateAnsweredKeepsInv ==
  ASSUME PageInv, NEW c \in calls, NEW succeeds \in BOOLEAN, E!GenerateAnswered(c, succeeds),
         UNCHANGED <<context, mounted>>, disk' \in [Xml -> Configs]
  PROVE  PageInv'
<1>1. calls' = calls \ {c} /\ saving' = (saving /\ ~(c.awaits /\ c.load))
  BY DEF E!GenerateAnswered
<1>2. c \in Calls /\ c.awaits \in BOOLEAN /\ c.load \in BOOLEAN
  BY PageFacts DEF CallsTyped, Calls
<1>3. saving' \in BOOLEAN /\ (saving' = saving \/ c.load)
  BY <1>1, <1>2, PageFacts
<1>4. CASE ~c.request
  BY <1>1, <1>3, <1>4, RestKeepsInv DEF E!GenerateAnswered
<1>5. ASSUME c.request, NEW q \in PageStates, page' = [page EXCEPT ![context.slave] = q], PageFits(q),
             q.esi = E!Mine.esi, q.ordinal = E!Mine.ordinal, q.config = E!Mine.config, q.editing = E!Mine.editing
      PROVE  PageInv'
  <2>1. CallsTyped(calls') /\ CallsFit(calls', q, mounted', saving')
    BY <1>1, <1>3, <1>5, RestFits
  <2>. QED BY <1>3, <1>5, <2>1, PageFacts, StepKeepsInv
<1>6. CASE c.request /\ succeeds
  <2> DEFINE q == [E!Mine EXCEPT !.target = E!ImageOf(c)]
  <2>1. E!ImageOf(c) \in Targets
    BY <1>2 DEF E!ImageOf, Targets, Calls
  <2>2. /\ q \in PageStates /\ q.esi = E!Mine.esi /\ q.ordinal = E!Mine.ordinal /\ q.config = E!Mine.config
        /\ q.editing = E!Mine.editing /\ q.generated = E!Mine.generated /\ q.target = E!ImageOf(c)
    BY <2>1, PageFacts DEF PageStates
  <2>3. RequestFits(c, E!Mine)
    BY <1>6, PageFacts DEF CallsFit
  <2>4. page' = [page EXCEPT ![context.slave] = q]
    BY <1>6, PageFacts DEF E!GenerateAnswered
  <2> HIDE DEF q
  <2>5. PageFits(q)
    BY <2>2, <2>3, PageFacts DEF PageFits, RequestFits, E!ImageOf
  <2>. QED BY <1>5, <1>6, <2>2, <2>4, <2>5
<1>7. CASE c.request /\ ~succeeds
  <2> DEFINE q == [E!Mine EXCEPT !.error = TRUE]
  <2>1. /\ q \in PageStates /\ q.esi = E!Mine.esi /\ q.ordinal = E!Mine.ordinal /\ q.config = E!Mine.config
        /\ q.editing = E!Mine.editing /\ q.target = E!Mine.target /\ q.generated = E!Mine.generated
    BY PageFacts DEF PageStates
  <2>2. page' = [page EXCEPT ![context.slave] = q]
    BY <1>7, PageFacts DEF E!GenerateAnswered
  <2> HIDE DEF q
  <2>3. PageFits(q)
    BY <2>1, PageFacts DEF PageFits
  <2>. QED BY <1>5, <1>7, <2>1, <2>2, <2>3
<1>. QED BY <1>4, <1>6, <1>7

LEMMA SaveAnsweredKeepsInv ==
  ASSUME PageInv, NEW c \in calls, NEW succeeds \in BOOLEAN, E!SaveAnswered(c, succeeds),
         UNCHANGED <<context, mounted>>, disk' \in [Xml -> Configs]
  PROVE  PageInv'
<1>1. c.kind = "save" /\ saving' = (saving /\ ~(c.load /\ ~succeeds))
  BY DEF E!SaveAnswered
<1>2. /\ c.document \in Documents /\ c.ordinal \in Nat /\ c.config \in Configs
      /\ c.load \in BOOLEAN
  BY PageFacts DEF CallsTyped, Calls
<1>3. CASE ~(succeeds /\ c.load)
  <2>1. saving' \in BOOLEAN /\ (saving' = saving \/ c.load)
    BY <1>1, <1>2, PageFacts
  <2>. QED BY <1>3, <2>1, RestKeepsInv DEF E!SaveAnswered
<1>4. CASE succeeds /\ c.load
  <2> DEFINE saved == [c.document EXCEPT !.config = c.config]
             p == [E!Mine EXCEPT !.esi = saved, !.config = c.config, !.editing = FALSE]
  <2>1. saved \in Documents
    BY <1>2, Zenon DEF Documents
  <2>2. mounted /\ c.ordinal = E!Mine.ordinal
    BY <1>1, <1>4, PageFacts DEF CallsFit
  <2>3. /\ p \in PageStates /\ p.editing = FALSE /\ p.esi = saved /\ p.ordinal = c.ordinal
        /\ p.config = c.config
    BY <1>2, <2>1, <2>2, PageFacts DEF PageStates
  <2>4. /\ page' = [page EXCEPT ![context.slave] = E!Generating(p, p.esi, p.ordinal, p.config)]
        /\ calls' = E!Generate(context, calls \ {c}, p.esi, p.ordinal, p.config, TRUE)
    BY <1>4, <2>3 DEF E!SaveAnswered
  <2>5. saving' = saving
    BY <1>1, <1>4, PageFacts
  <2> HIDE DEF p
  <2>. QED BY <1>4, <2>2, <2>3, <2>4, <2>5, FollowUpKeepsInv
<1>. QED BY <1>3, <1>4

LEMMA AnswerKeepsInv ==
  ASSUME PageInv, NEW c \in calls, E!Answer(c)
  PROVE  PageInv'
<1>1. UNCHANGED <<context, mounted>>
  BY DEF E!Answer
<1>2. c.config \in Configs
  BY PageFacts DEF CallsTyped, Calls
<1>3. disk' \in [Xml -> Configs]
  <2>1. disk' = disk \/ disk' = [disk EXCEPT ![c.document.path] = c.config]
    BY DEF E!Answer
  <2>. QED BY <1>2, <2>1, PageFacts
<1>4. PICK succeeds \in BOOLEAN, ambiguous \in BOOLEAN :
        \/ E!LoadAnswered(c, succeeds, ambiguous)
        \/ E!BinAnswered(c, succeeds) \/ E!GenerateAnswered(c, succeeds) \/ E!SaveAnswered(c, succeeds)
  BY DEF E!Answer
<1>. QED BY <1>1, <1>3, <1>4, LoadAnsweredKeepsInv, BinAnsweredKeepsInv, GenerateAnsweredKeepsInv,
            SaveAnsweredKeepsInv

-----------------------------------------------------------------------------
(* The theorem                                                                *)

LEMMA InitPage ==
  ASSUME E!Init
  PROVE  PageInv
<1>1. E!Fresh \in PageStates /\ PageFits(E!Fresh)
  <2>1. 0 \in Nat /\ "" \in Configs
    BY DEF Configs
  <2>. QED BY <2>1, NothingTyped, Zenon DEF E!Fresh, PageStates, PageFits
<1>2. CallsTyped(calls) /\ CallsFit(calls, E!Mine, mounted, saving)
  BY DEF E!Init, CallsTyped, CallsFit
<1>3. context \in Places
  BY DEF E!Init, Places
<1>4. disk \in [Xml -> Configs] /\ mounted \in BOOLEAN /\ saving \in BOOLEAN
  BY DEF E!Init, Configs, E!Valid
<1>5. page \in [1 .. 2 -> PageStates] /\ \A s \in 1 .. 2 : PageFits(page[s])
  BY <1>1 DEF E!Init
<1>. QED BY <1>2, <1>3, <1>4, <1>5 DEF PageInv, PageTyped

LEMMA NextPage ==
  ASSUME PageInv, [E!Next]_pageVars
  PROVE  PageInv'
<1>1. ASSUME NEW path \in Xml \cup Bin, E!HandOver(path)
      PROVE  PageInv'
  <2> DEFINE ordinal == 1
             config == "original"
  <2>1. ordinal \in Nat /\ config \in Configs
    BY DEF Configs, E!Valid
  <2>2. mounted /\ E!Load(context, page, calls, path, ordinal, config)
        /\ UNCHANGED <<context, disk, mounted, saving>>
    BY <1>1 DEF E!HandOver
  <2> HIDE DEF ordinal, config
  <2>. QED BY <2>1, <2>2, LoadKeepsInv
<1>2. ASSUME NEW path \in Xml \cup Bin, NEW ordinal \in 0 .. 1, E!Choose(path, ordinal)
      PROVE  PageInv'
  <2> DEFINE config == ""
  <2>1. ordinal \in Nat /\ config \in Configs
    BY DEF Configs
  <2>2. mounted /\ E!Load(context, page, calls, path, ordinal, config)
        /\ UNCHANGED <<context, disk, mounted, saving>>
    BY <1>2, Zenon DEF E!Choose
  <2> HIDE DEF config
  <2>. QED BY <2>1, <2>2, LoadKeepsInv
<1>3. CASE E!ChangeDevice(1)
  BY <1>3, ChangeDeviceKeepsInv
<1>4. CASE (\E path \in Xml \cup Bin \cup {""} : E!Enter(path)) \/ E!Leave \/ E!ContextMoves
  BY <1>4, MovesKeepInv, Zenon
<1>5. CASE E!Edit \/ \E config \in E!Valid \cup {"invalid"} : E!Type(config)
  BY <1>5, DraftKeepsInv, Zenon DEF Configs
<1>6. CASE E!SaveConfig
  BY <1>6, SaveConfigKeepsInv
<1>7. CASE E!Flash \/ E!FlashEnds \/ UNCHANGED pageVars
  <2>1. UNCHANGED <<context, disk, mounted, page, saving, calls>>
    BY <1>7 DEF E!Flash, E!FlashEnds, pageVars
  <2>2. CallsFit(calls', E!Mine', mounted', saving') /\ CallsTyped(calls')
    BY <2>1, PageFacts DEF E!Mine
  <2>. QED BY <2>1, <2>2 DEF PageInv, PageTyped
<1>8. CASE \E c \in calls : E!Answer(c)
  BY <1>8, AnswerKeepsInv
<1>. QED BY <1>1, <1>2, <1>3, <1>4, <1>5, <1>6, <1>7, <1>8, Zenon DEF E!Next, E!UserSteps


-----------------------------------------------------------------------------
(* The dialog: the invariant                                                  *)

\* Both editors are about the same targets and calls.
LEMMA SameTargets ==
  /\ Q!Valid = E!Valid /\ Q!NoContext = E!NoContext /\ Q!NoDocument = E!NoDocument
  /\ Q!NoTarget = E!NoTarget
  /\ \A cs : Q!BumpRequest(cs) = E!BumpRequest(cs) /\ Q!BumpBoth(cs) = E!BumpBoth(cs)
  /\ \A k, kind, doc, ordinal, config, awaits :
       Q!Call(k, kind, doc, ordinal, config, awaits) = E!Call(k, kind, doc, ordinal, config, awaits)
  /\ \A c : Q!ImageOf(c) = E!ImageOf(c) /\ Q!BinImage(c) = E!BinImage(c)
<1>1. Q!Valid = E!Valid /\ Q!NoContext = E!NoContext /\ Q!NoDocument = E!NoDocument
  BY DEF Q!Valid, E!Valid, Q!NoContext, E!NoContext, Q!NoDocument, E!NoDocument
<1>2. Q!NoTarget = E!NoTarget
  BY <1>1 DEF Q!NoTarget, E!NoTarget
<1>3. \A cs : Q!BumpRequest(cs) = E!BumpRequest(cs) /\ Q!BumpBoth(cs) = E!BumpBoth(cs)
  BY DEF Q!BumpRequest, E!BumpRequest, Q!BumpBoth, E!BumpBoth
<1>4. \A k, kind, doc, ordinal, config, awaits :
        Q!Call(k, kind, doc, ordinal, config, awaits) = E!Call(k, kind, doc, ordinal, config, awaits)
  BY DEF Q!Call, E!Call
<1>5. \A c : Q!ImageOf(c) = E!ImageOf(c) /\ Q!BinImage(c) = E!BinImage(c)
  BY <1>2 DEF Q!ImageOf, E!ImageOf, Q!BinImage, E!BinImage
<1>. QED BY <1>1, <1>2, <1>3, <1>4, <1>5

Files == Xml \cup Bin \cup {""}
RequestSources == [path : Files, ordinal : Nat, config : Configs]
Dialogs == [opened : Places \cup {E!NoContext}, esi : Documents, bin : Targets, ordinal : Nat, config : Configs,
            original : Configs, target : Targets, loading : BOOLEAN, saving : BOOLEAN, error : BOOLEAN,
            generated : Configs, source : RequestSources, initial : Files]

\* A document that is shown is that of a file, and so is what is loaded again.
DialogTyped(d) ==
  /\ d \in Dialogs
  /\ d.esi = E!NoDocument \/ d.esi.path \in Xml
  /\ d.source = Q!NoSource \/ d.source.path \in Xml \cup Bin

\* A target is that of what is shown.
TargetFits(d) ==
  d.target # E!NoTarget =>
    d.target.document = d.esi /\ d.target.ordinal = d.ordinal /\ d.target.config = d.config

\* The calls that may still change the dialog, as for the page.
DialogCallsFit(cs, d) ==
  /\ \A c \in cs : c.request \/ c.load => d.opened # E!NoContext
  /\ \A c \in cs : c.request =>
       /\ c.kind = "generate" /\ c.document = d.esi /\ c.ordinal = d.ordinal /\ c.config = d.config
  /\ \A c \in cs : c.load /\ c.kind = "load" =>
       d.esi = E!NoDocument /\ d.target = E!NoTarget /\ \A e \in cs : ~e.request
  /\ \A c \in cs : c.load /\ c.kind = "save" =>
       d.saving /\ c.ordinal = d.ordinal /\ c.document.path \in Xml
  /\ \A c, e \in cs : c.load /\ e.load => c = e

DialogFits(cs, d) == DialogTyped(d) /\ TargetFits(d) /\ CallsTyped(cs) /\ DialogCallsFit(cs, d)

DialogInv ==
  quickContext \in Places /\ quickDisk \in [Xml -> Configs] /\ DialogFits(quickCalls, dialog)

-----------------------------------------------------------------------------
(* The dialog: loading and generating                                         *)

LEMMA ConfigsTyped == "" \in Configs /\ E!Valid \subseteq Configs /\ "invalid" \in Configs
BY Zenon DEF Configs

LEMMA NoSourceTyped == Q!NoSource \in RequestSources
BY ConfigsTyped, Zenon DEF Q!NoSource, RequestSources, Files

\* Two dialogs that differ in nothing that the calls or the target are about.
Alike(q, d) ==
  /\ q.opened = d.opened /\ q.esi = d.esi /\ q.ordinal = d.ordinal /\ q.config = d.config
  /\ q.target = d.target /\ q.saving = d.saving

LEMMA AlikeFits ==
  ASSUME NEW cs, NEW d, NEW q, DialogFits(cs, d), DialogTyped(q), Alike(q, d)
  PROVE  DialogFits(cs, q)
BY DEF DialogFits, TargetFits, DialogCallsFit, Alike

LEMMA RenderedGives ==
  ASSUME NEW d, DialogTyped(d)
  PROVE  DialogTyped(Q!Rendered(d)) /\ Alike(Q!Rendered(d), d)
<1> DEFINE source == [path |-> d.esi.path, ordinal |-> d.ordinal, config |-> d.config]
           q == [d EXCEPT !.source = source]
<1>1. CASE d.esi # Q!NoDocument /\ ~d.loading
  <2>1. d \in Dialogs /\ d.esi.path \in Xml
    BY <1>1, SameTargets DEF DialogTyped
  <2>2. source \in RequestSources /\ source.path \in Xml
    BY <2>1, Zenon DEF Dialogs, RequestSources, Files
  <2> HIDE DEF source
  <2>3. q \in Dialogs /\ q.esi = d.esi /\ q.source = source /\ Alike(q, d)
    BY <2>1, <2>2 DEF Dialogs, Alike
  <2>. QED BY <1>1, <2>1, <2>2, <2>3 DEF Q!Rendered, source, DialogTyped
<1>2. CASE ~(d.esi # Q!NoDocument /\ ~d.loading)
  BY <1>2 DEF Q!Rendered, Alike
<1>. QED BY <1>1, <1>2

\* Calls that were all superseded fit every dialog.
LEMMA SupersededFitDialog ==
  ASSUME NEW cs, CallsTyped(cs), NEW d, DialogTyped(d), TargetFits(d)
  PROVE  DialogFits(E!BumpBoth(cs), d)
BY BumpBothGives DEF DialogFits, DialogCallsFit

\* Loading leaves an open dialog without a document that waits for it.
LEMMA DialogLoads ==
  ASSUME NEW k \in Places, NEW d, DialogTyped(d), d.opened # E!NoContext, NEW cs, CallsTyped(cs),
         NEW path \in Xml \cup Bin, NEW ordinal \in Nat, NEW config \in Configs,
         Q!LoadFile(k, d, cs, path, ordinal, config)
  PROVE  DialogFits(quickCalls', dialog')
<1> DEFINE doc == [E!NoDocument EXCEPT !.path = path]
           waiting == [d EXCEPT !.generated = "", !.esi = E!NoDocument, !.bin = E!NoTarget,
                                !.target = E!NoTarget, !.error = FALSE, !.loading = TRUE]
           fromBin == [Q!NoSource EXCEPT !.path = path]
           fromXml == [path |-> path, ordinal |-> ordinal, config |-> config]
           empty == [waiting EXCEPT !.source = fromBin, !.ordinal = 0, !.config = "", !.original = ""]
           asked1 == [waiting EXCEPT !.source = fromXml]
           binary == E!Call(k, "bin", doc, 0, "", FALSE)
           xml == E!Call(k, "load", doc, ordinal, config, FALSE)
           old == E!BumpBoth(cs)
<1>1. doc \in Documents /\ doc.path = path
  BY Zenon DEF E!NoDocument, Documents, Configs
<1>2. /\ waiting \in Dialogs /\ waiting.esi = E!NoDocument /\ waiting.target = E!NoTarget
      /\ waiting.opened # E!NoContext
  BY NothingTyped, ConfigsTyped, Zenon DEF DialogTyped, Dialogs
<1>3. fromBin \in RequestSources /\ fromBin.path = path /\ fromXml \in RequestSources /\ fromXml.path = path
  BY NoSourceTyped, Zenon DEF RequestSources, Files
<1> HIDE DEF waiting, fromBin, fromXml
<1>4. /\ DialogTyped(empty) /\ empty.esi = E!NoDocument /\ empty.target = E!NoTarget
      /\ empty.opened # E!NoContext
  <2>1. empty \in Dialogs /\ empty.esi = E!NoDocument /\ empty.target = E!NoTarget
        /\ empty.opened # E!NoContext /\ empty.source = fromBin
    BY <1>2, <1>3, ConfigsTyped, Zenon DEF Dialogs
  <2>. QED BY <1>3, <2>1 DEF DialogTyped
<1>5. /\ DialogTyped(asked1) /\ asked1.esi = E!NoDocument /\ asked1.target = E!NoTarget
      /\ asked1.opened # E!NoContext
  <2>1. asked1 \in Dialogs /\ asked1.esi = E!NoDocument /\ asked1.target = E!NoTarget
        /\ asked1.opened # E!NoContext /\ asked1.source = fromXml
    BY <1>2, <1>3 DEF Dialogs
  <2>. QED BY <1>3, <2>1 DEF DialogTyped
<1> HIDE DEF doc, empty, asked1
<1>6. "bin" \in Kinds /\ "load" \in Kinds
  BY DEF Kinds
<1>7. /\ binary \in Calls /\ binary.kind = "bin" /\ ~binary.request
      /\ xml \in Calls /\ xml.kind = "load" /\ ~xml.request /\ xml.document = doc
  <2>1. binary \in Calls /\ binary.kind = "bin" /\ ~binary.request
    BY <1>1, <1>6, ConfigsTyped, Zenon DEF E!Call, Calls
  <2>2. xml \in Calls /\ xml.kind = "load" /\ ~xml.request /\ xml.document = doc
    BY <1>1, <1>6 DEF E!Call, Calls
  <2>. QED BY <2>1, <2>2, Zenon
<1>8. CallsTyped(old) /\ \A c \in old : ~c.request /\ ~c.load
  BY BumpBothGives
<1> HIDE DEF binary, xml, old
<1>9. ASSUME NEW q \in {empty, asked1}, NEW e \in {binary, xml}, path \in Xml \/ e = binary
      PROVE  DialogFits(old \cup {e}, q)
  <2>1. DialogTyped(q) /\ q.esi = E!NoDocument /\ q.target = E!NoTarget /\ q.opened # E!NoContext
    BY <1>4, <1>5
  <2>2. CallsTyped(old \cup {e})
    BY <1>1, <1>7, <1>8, <1>9 DEF CallsTyped
  <2>3. e.kind \in {"bin", "load"} /\ ~e.request
    BY <1>7
  <2>4. DialogCallsFit(old \cup {e}, q)
    BY <1>8, <2>1, <2>3 DEF DialogCallsFit
  <2>. QED BY <2>1, <2>2, <2>4 DEF DialogFits, TargetFits
<1>10. \/ dialog' = empty /\ quickCalls' = old \cup {binary}
       \/ path \notin Bin /\ dialog' = asked1 /\ quickCalls' = old \cup {xml}
  BY SameTargets, Zenon DEF Q!LoadFile, waiting, fromBin, fromXml, empty, asked1, doc, binary, xml, old
<1>. QED BY <1>9, <1>10

\* An open dialog that generates the target of what it shows.
LEMMA DialogGenerates ==
  ASSUME quickContext \in Places, NEW d, DialogTyped(d), d.opened # E!NoContext, NEW cs, CallsTyped(cs),
         NEW awaits \in BOOLEAN,
         \A c \in cs : c.load => c.kind \notin {"load", "save"} /\ ~awaits,
         \A c, e \in cs : c.load /\ e.load => c = e
  PROVE  LET q == Q!Generating(d, d.esi, d.ordinal, d.config)
             new == Q!Generate(cs, d.esi, d.ordinal, d.config, awaits)
         IN  DialogFits(new, q)
<1> DEFINE q == Q!Generating(d, d.esi, d.ordinal, d.config)
           e == E!Call(quickContext, "generate", d.esi, d.ordinal, d.config, awaits)
           old == E!BumpRequest(cs)
<1>1. /\ d \in Dialogs /\ d.esi \in Documents /\ d.ordinal \in Nat /\ d.config \in Configs
      /\ "generate" \in Kinds
  BY DEF DialogTyped, Dialogs, Kinds
<1>2. /\ e \in Calls /\ e.kind = "generate" /\ e.document = d.esi /\ e.ordinal = d.ordinal
      /\ e.config = d.config /\ e.load = awaits
  BY <1>1, CallGives
<1>3. /\ q \in Dialogs /\ q.target = E!NoTarget /\ q.esi = d.esi /\ q.ordinal = d.ordinal
      /\ q.config = d.config /\ q.opened = d.opened /\ q.source = d.source
  BY <1>1, NothingTyped, SameTargets DEF Q!Generating, Dialogs
<1>4. DialogTyped(q) /\ TargetFits(q)
  BY <1>3 DEF DialogTyped, TargetFits
<1>5. /\ CallsTyped(old)
      /\ \A c \in old : ~c.request /\ (c.load => c.kind \notin {"load", "save"} /\ ~awaits)
  BY BumpRequestGives
<1>6. ASSUME NEW c \in old, NEW f \in old, c.load, f.load
      PROVE  c = f
  <2>1. PICK c0 \in cs : c = [c0 EXCEPT !.request = FALSE] /\ c.load = c0.load
    BY BumpRequestGives
  <2>2. PICK f0 \in cs : f = [f0 EXCEPT !.request = FALSE] /\ f.load = f0.load
    BY BumpRequestGives
  <2>3. c0 = f0
    BY <1>6, <2>1, <2>2
  <2>. QED BY <2>1, <2>2, <2>3
<1> HIDE DEF q, e, old
<1>7. CallsTyped(old \cup {e})
  BY <1>2, <1>5 DEF CallsTyped
<1>8. DialogCallsFit(old \cup {e}, q)
  BY <1>2, <1>3, <1>5, <1>6 DEF DialogCallsFit
<1>. QED BY <1>4, <1>7, <1>8, SameTargets DEF q, e, old, Q!Generate, DialogFits


-----------------------------------------------------------------------------
(* The dialog: steps                                                          *)

LEMMA DialogFacts ==
  ASSUME DialogInv
  PROVE  /\ quickContext \in Places /\ quickDisk \in [Xml -> Configs]
         /\ DialogFits(quickCalls, dialog) /\ DialogTyped(dialog) /\ TargetFits(dialog)
         /\ CallsTyped(quickCalls) /\ DialogCallsFit(quickCalls, dialog)
         /\ dialog \in Dialogs /\ dialog.esi \in Documents /\ dialog.esi.config \in Configs
         /\ dialog.ordinal \in Nat /\ dialog.config \in Configs /\ dialog.original \in Configs
         /\ dialog.saving \in BOOLEAN /\ dialog.initial \in Files
BY Zenon DEF DialogInv, DialogFits, DialogTyped, Dialogs, Documents

LEMMA DialogStepKeepsInv ==
  ASSUME DialogInv, UNCHANGED <<quickContext, quickDisk>>, DialogFits(quickCalls', dialog')
  PROVE  DialogInv'
BY DEF DialogInv

\* Opening, and another slave or connection: what was asked for before is superseded.
LEMMA EnteredGives ==
  ASSUME NEW d, DialogTyped(d), quickContext' \in Places
  PROVE  LET q == Q!Entered(d)
         IN  /\ DialogTyped(q) /\ TargetFits(q) /\ q.opened = quickContext'
             /\ q.source = d.source /\ q.esi = d.esi
<1> DEFINE q == Q!Entered(d)
<1>1. d \in Dialogs
  BY DEF DialogTyped
<1>2. /\ q \in Dialogs /\ q.opened = quickContext' /\ q.target = E!NoTarget
      /\ q.esi = d.esi /\ q.source = d.source
  BY <1>1, NothingTyped, ConfigsTyped, SameTargets, Zenon DEF Q!Entered, Dialogs
<1>. QED BY <1>2 DEF DialogTyped, TargetFits

LEMMA PlaceIsOpen ==
  ASSUME NEW k \in Places
  PROVE  k # E!NoContext
BY DEF Places, E!NoContext

LEMMA DialogOpensKeepsInv ==
  ASSUME DialogInv, NEW path \in Files, Q!Open(path)
  PROVE  DialogInv'
<1> DEFINE e == Q!Entered(dialog)
           d == [e EXCEPT !.source = Q!NoSource, !.esi = E!NoDocument, !.bin = E!NoTarget,
                          !.ordinal = 0, !.config = "", !.original = ""]
           q == [d EXCEPT !.initial = path]
           cs == E!BumpBoth(quickCalls)
           ordinal == 0
           config == ""
           k == quickContext'
<1>0. UNCHANGED <<quickContext, quickDisk>> /\ k \in Places /\ ordinal \in Nat /\ config \in Configs
  BY DialogFacts, ConfigsTyped, Zenon DEF Q!Open
<1>1. DialogTyped(e) /\ e.opened = k /\ e.target = e.target /\ e \in Dialogs
  BY <1>0, EnteredGives, DialogFacts, Zenon DEF DialogTyped
<1>2. e.target = E!NoTarget
  BY DialogFacts, SameTargets DEF Q!Entered, Dialogs
<1> HIDE DEF e, k
<1>3. /\ d \in Dialogs /\ d.source = Q!NoSource /\ d.esi = E!NoDocument /\ d.opened = k
      /\ d.target = E!NoTarget
  BY <1>1, <1>2, NothingTyped, ConfigsTyped, NoSourceTyped, Zenon DEF Dialogs
<1>4. DialogTyped(d) /\ d.opened # E!NoContext
  BY <1>0, <1>3, PlaceIsOpen, Zenon DEF DialogTyped
<1> HIDE DEF d
<1>5. /\ q \in Dialogs /\ q.source = Q!NoSource /\ q.esi = E!NoDocument
      /\ q.target = E!NoTarget
  BY <1>3 DEF Dialogs
<1>6. DialogTyped(q) /\ TargetFits(q)
  BY <1>5 DEF DialogTyped, TargetFits
<1>7. CallsTyped(cs) /\ DialogFits(cs, q)
  BY <1>6, BumpBothGives, SupersededFitDialog, DialogFacts
<1> HIDE DEF q, cs
<1>8. \/ path # "" /\ Q!LoadFile(k, d, cs, path, ordinal, config)
      \/ dialog' = q /\ quickCalls' = cs
  BY SameTargets, Zenon DEF Q!Open, e, d, q, cs, k
<1>9. CASE path # "" /\ Q!LoadFile(k, d, cs, path, ordinal, config)
  <2>1. path \in Xml \cup Bin
    BY <1>9, Zenon DEF Files
  <2> HIDE DEF ordinal, config
  <2>2. DialogFits(quickCalls', dialog')
    BY <1>0, <1>4, <1>7, <1>9, <2>1, DialogLoads, Zenon
  <2>. QED BY <1>0, <2>2, DialogStepKeepsInv
<1>10. CASE dialog' = q /\ quickCalls' = cs
  BY <1>0, <1>7, <1>10, DialogStepKeepsInv, Zenon
<1>. QED BY <1>8, <1>9, <1>10, Zenon

LEMMA DialogClosesKeepsInv ==
  ASSUME DialogInv, Q!Close
  PROVE  DialogInv'
<1> DEFINE q == [dialog EXCEPT !.opened = E!NoContext, !.generated = "", !.target = E!NoTarget,
                               !.config = dialog.original, !.initial = ""]
<1>1. dialog' = q /\ quickCalls' = E!BumpBoth(quickCalls) /\ UNCHANGED <<quickContext, quickDisk>>
  BY SameTargets DEF Q!Close
<1>2. q \in Dialogs /\ q.target = E!NoTarget /\ q.esi = dialog.esi /\ q.source = dialog.source
  BY DialogFacts, NothingTyped, ConfigsTyped, Zenon DEF Dialogs, Files
<1>3. DialogTyped(q) /\ TargetFits(q)
  BY <1>2, DialogFacts DEF DialogTyped, TargetFits
<1> HIDE DEF q
<1>. QED BY <1>1, <1>3, DialogFacts, SupersededFitDialog, DialogStepKeepsInv

LEMMA DialogMovesKeepsInv ==
  ASSUME DialogInv, Q!ContextMoves
  PROVE  DialogInv'
<1> DEFINE k == quickContext'
           d == Q!Entered(dialog)
           cs == E!BumpBoth(quickCalls)
           source == dialog.source
<1>1. k \in Places /\ quickDisk' = quickDisk
  BY DEF Q!ContextMoves, Q!Contexts, Places
<1>2. /\ DialogTyped(d) /\ TargetFits(d) /\ d.opened = k /\ k # E!NoContext
      /\ CallsTyped(cs) /\ DialogFits(cs, d)
  BY <1>1, EnteredGives, PlaceIsOpen, BumpBothGives, SupersededFitDialog, DialogFacts
<1>3. source \in RequestSources /\ (source # Q!NoSource => source.path \in Xml \cup Bin)
  BY DialogFacts DEF DialogTyped, Dialogs
<1>4. DialogFits(quickCalls', dialog')
  <2>1. CASE UNCHANGED <<dialog, quickCalls>>
    BY <2>1, DialogFacts
  <2>2. CASE source # Q!NoSource /\ Q!LoadFile(k, d, cs, source.path, source.ordinal, source.config)
    <3> DEFINE path == source.path
               ordinal == source.ordinal
               config == source.config
    <3>1. path \in Xml \cup Bin /\ ordinal \in Nat /\ config \in Configs
          /\ Q!LoadFile(k, d, cs, path, ordinal, config)
      BY <1>3, <2>2 DEF RequestSources
    <3> HIDE DEF path, ordinal, config, k, d, cs
    <3>. QED BY <1>1, <1>2, <3>1, DialogLoads
  <2>3. CASE dialog' = d /\ quickCalls' = cs
    BY <1>2, <2>3
  <2>. QED BY <2>1, <2>2, <2>3, SameTargets DEF Q!ContextMoves
<1>. QED BY <1>1, <1>4, DialogFacts DEF DialogInv

\* A file that is chosen, dropped, or was opened with the application.
LEMMA DialogChoosesKeepsInv ==
  ASSUME DialogInv, NEW d, DialogTyped(d), d.opened = dialog.opened, Q!IsOpen,
         NEW path \in Xml \cup Bin, NEW ordinal \in Nat,
         Q!LoadFile(quickContext, d, quickCalls, path, ordinal, ""), UNCHANGED <<quickContext, quickDisk>>
  PROVE  DialogInv'
<1> DEFINE config == ""
<1>1. /\ config \in Configs /\ d.opened # E!NoContext
      /\ Q!LoadFile(quickContext, d, quickCalls, path, ordinal, config)
  BY ConfigsTyped, SameTargets, Zenon DEF Q!IsOpen
<1> HIDE DEF config
<1>2. DialogFits(quickCalls', dialog')
  BY <1>1, DialogFacts, DialogLoads, Zenon
<1>. QED BY <1>2, DialogStepKeepsInv, Zenon

LEMMA InitialGives ==
  ASSUME DialogInv, NEW path \in Files
  PROVE  LET q == [dialog EXCEPT !.initial = path] IN DialogTyped(q) /\ Alike(q, dialog)
<1> DEFINE q == [dialog EXCEPT !.initial = path]
<1>1. /\ q \in Dialogs /\ q.esi = dialog.esi /\ q.source = dialog.source /\ Alike(q, dialog)
  BY DialogFacts DEF Dialogs, Alike
<1>. QED BY <1>1, DialogFacts DEF DialogTyped

LEMMA DialogFilesKeepInv ==
  ASSUME DialogInv, (\E path \in Xml \cup Bin : Q!FileOpened(path)) \/ Q!TakeInitial
  PROVE  DialogInv'
<1>1. ASSUME NEW path \in Xml \cup Bin, Q!FileOpened(path)
      PROVE  DialogInv'
  <2>0. UNCHANGED <<quickContext, quickDisk>> /\ Q!IsOpen /\ path \in Files
    BY <1>1, Zenon DEF Q!FileOpened, Files
  <2>1. CASE dialog' = [dialog EXCEPT !.initial = path] /\ UNCHANGED quickCalls
    BY <2>0, <2>1, InitialGives, AlikeFits, DialogFacts, DialogStepKeepsInv
  <2>2. CASE Q!LoadFile(quickContext, dialog, quickCalls, path, 0, "")
    <3> DEFINE ordinal == 0
    <3>1. Q!LoadFile(quickContext, dialog, quickCalls, path, ordinal, "") /\ ordinal \in Nat
      BY <2>2, Zenon
    <3> HIDE DEF ordinal
    <3>. QED BY <2>0, <3>1, DialogFacts, DialogChoosesKeepsInv, Zenon
  <2>. QED BY <1>1, <2>1, <2>2, Zenon DEF Q!FileOpened
<1>2. CASE Q!TakeInitial
  <2> DEFINE ordinal == 0
             none == ""
             path == dialog.initial
             d == [dialog EXCEPT !.initial = none]
  <2>1. none \in Files /\ ordinal \in Nat /\ path \in Files /\ path # ""
        /\ Q!IsOpen /\ UNCHANGED <<quickContext, quickDisk>>
    BY <1>2, DialogFacts, Zenon DEF Q!TakeInitial, Files
  <2>2. Q!LoadFile(quickContext, d, quickCalls, path, ordinal, "")
    BY <1>2, Zenon DEF Q!TakeInitial
  <2>3. DialogTyped(d) /\ d.opened = dialog.opened
    BY <2>1, InitialGives, Zenon DEF Alike
  <2>4. path \in Xml \cup Bin
    BY <2>1, Zenon DEF Files
  <2> HIDE DEF d, ordinal, none, path
  <2>. QED BY <2>1, <2>2, <2>3, <2>4, DialogChoosesKeepsInv, Zenon
<1>. QED BY <1>1, <1>2

\* Of an open dialog that shows a document and saves nothing, no load and no save
\* is on its way.
LEMMA NothingComes ==
  ASSUME DialogInv, dialog.esi # E!NoDocument, ~dialog.saving
  PROVE  /\ \A c \in quickCalls : c.load => c.kind \notin {"load", "save"}
         /\ \A c, e \in quickCalls : c.load /\ e.load => c = e
BY DialogFacts DEF DialogCallsFit

\* Another Device, or the target that an edit asks for.
LEMMA DialogDevicesKeepInv ==
  ASSUME DialogInv, (\E ordinal \in Q!Ordinals \ {0} : Q!SelectDevice(ordinal)) \/ Q!TimerFires
  PROVE  DialogInv'
<1>1. UNCHANGED <<quickContext, quickDisk>> /\ Q!IsOpen /\ dialog.esi # E!NoDocument /\ ~dialog.saving
  BY SameTargets, Zenon DEF Q!SelectDevice, Q!TimerFires, Q!TimerRuns, Q!Locked
<1>2. dialog.opened # E!NoContext
  BY <1>1, SameTargets DEF Q!IsOpen
<1>3. ASSUME NEW d, DialogTyped(d), d.opened = dialog.opened,
             dialog' = Q!Generating(d, d.esi, d.ordinal, d.config),
             quickCalls' = Q!Generate(quickCalls, d.esi, d.ordinal, d.config, FALSE)
      PROVE  DialogInv'
  <2> DEFINE awaits == FALSE
  <2>1. awaits \in BOOLEAN /\ quickCalls' = Q!Generate(quickCalls, d.esi, d.ordinal, d.config, awaits)
    BY <1>3
  <2>2. \A c \in quickCalls : c.load => c.kind \notin {"load", "save"} /\ ~awaits
    BY <1>1, NothingComes
  <2> HIDE DEF awaits
  <2>3. DialogFits(quickCalls', dialog')
    BY <1>1, <1>2, <1>3, <2>1, <2>2, DialogFacts, NothingComes, DialogGenerates
  <2>. QED BY <1>1, <2>3, DialogStepKeepsInv
<1>4. ASSUME NEW ordinal \in Q!Ordinals \ {0}, Q!SelectDevice(ordinal)
      PROVE  DialogInv'
  <2> DEFINE config == dialog.esi.config
             d == [dialog EXCEPT !.ordinal = ordinal, !.original = config, !.config = config]
  <2>1. ordinal \in Nat /\ config \in Configs
    BY DialogFacts DEF Q!Ordinals
  <2>2. /\ d \in Dialogs /\ d.opened = dialog.opened /\ d.esi = dialog.esi /\ d.source = dialog.source
        /\ d.ordinal = ordinal /\ d.config = config
    BY <2>1, DialogFacts DEF Dialogs
  <2>3. DialogTyped(d)
    BY <2>2, DialogFacts DEF DialogTyped
  <2>4. /\ dialog' = Q!Generating(d, d.esi, d.ordinal, d.config)
        /\ quickCalls' = Q!Generate(quickCalls, d.esi, d.ordinal, d.config, FALSE)
    BY <1>4, <2>2, Zenon DEF Q!SelectDevice
  <2> HIDE DEF d
  <2>. QED BY <1>3, <2>2, <2>3, <2>4
<1>5. CASE Q!TimerFires
  BY <1>3, <1>5, DialogFacts DEF Q!TimerFires
<1>. QED BY <1>4, <1>5

LEMMA DialogEditsKeepInv ==
  ASSUME DialogInv, NEW config \in Configs, Q!EditConfig(config)
  PROVE  DialogInv'
<1> DEFINE d == [dialog EXCEPT !.generated = "", !.config = config, !.target = E!NoTarget]
           old == E!BumpRequest(quickCalls)
<1>1. /\ UNCHANGED <<quickContext, quickDisk>> /\ Q!IsOpen /\ dialog.esi # E!NoDocument /\ ~dialog.saving
      /\ dialog' = Q!Rendered(d) /\ quickCalls' = old
  BY SameTargets DEF Q!EditConfig, Q!Locked
<1>2. /\ d \in Dialogs /\ d.opened = dialog.opened /\ d.esi = dialog.esi /\ d.source = dialog.source
      /\ d.target = E!NoTarget
  BY DialogFacts, NothingTyped, ConfigsTyped, Zenon DEF Dialogs
<1>3. DialogTyped(d) /\ TargetFits(d)
  BY <1>2, DialogFacts DEF DialogTyped, TargetFits
<1>4. CallsTyped(old) /\ \A c \in old : ~c.request
  BY DialogFacts, BumpRequestGives
<1>5. /\ \A c \in old : c.load => c.kind \notin {"load", "save"}
      /\ \A c, e \in old : c.load /\ e.load => c = e
  <2>1. ASSUME NEW c \in old, c.load
        PROVE  c.kind \notin {"load", "save"}
    BY <1>1, <2>1, DialogFacts, NothingComes, BumpRequestGives
  <2>2. ASSUME NEW c \in old, NEW e \in old, c.load, e.load
        PROVE  c = e
    <3>1. PICK c0 \in quickCalls : c = [c0 EXCEPT !.request = FALSE] /\ c.load = c0.load
      BY DialogFacts, BumpRequestGives
    <3>2. PICK e0 \in quickCalls : e = [e0 EXCEPT !.request = FALSE] /\ e.load = e0.load
      BY DialogFacts, BumpRequestGives
    <3>3. c0 = e0
      BY <1>1, <2>2, <3>1, <3>2, NothingComes
    <3>. QED BY <3>1, <3>2, <3>3
  <2>. QED BY <2>1, <2>2
<1>6. dialog.opened # E!NoContext
  BY <1>1, SameTargets DEF Q!IsOpen
<1> HIDE DEF d, old
<1>7. DialogFits(old, d)
  BY <1>2, <1>3, <1>4, <1>5, <1>6 DEF DialogFits, DialogCallsFit
<1>. QED BY <1>1, <1>3, <1>7, RenderedGives, AlikeFits, DialogStepKeepsInv

LEMMA DialogSavesKeepInv ==
  ASSUME DialogInv, Q!SaveConfig
  PROVE  DialogInv'
<1> DEFINE q == [dialog EXCEPT !.generated = "", !.saving = TRUE]
           old == E!BumpBoth(quickCalls)
           e == E!Call(quickContext, "save", dialog.esi, dialog.ordinal, dialog.config, FALSE)
<1>1. /\ UNCHANGED <<quickContext, quickDisk>> /\ Q!IsOpen /\ dialog.esi # E!NoDocument
      /\ dialog' = q /\ quickCalls' = old \cup {e}
  BY SameTargets DEF Q!SaveConfig
<1>2. /\ q \in Dialogs /\ q.opened = dialog.opened /\ q.esi = dialog.esi /\ q.source = dialog.source
      /\ q.target = dialog.target /\ q.ordinal = dialog.ordinal /\ q.config = dialog.config
      /\ q.saving = TRUE
  BY DialogFacts, ConfigsTyped, Zenon DEF Dialogs
<1>3. DialogTyped(q) /\ TargetFits(q)
  BY <1>2, DialogFacts DEF DialogTyped, TargetFits
<1>4. /\ e \in Calls /\ e.kind = "save" /\ e.document = dialog.esi /\ e.ordinal = dialog.ordinal
      /\ ~e.request
  BY DialogFacts, ConfigsTyped, Zenon DEF E!Call, Calls, Kinds
<1>5. CallsTyped(old) /\ \A c \in old : ~c.request /\ ~c.load
  BY DialogFacts, BumpBothGives
<1>6. dialog.opened # E!NoContext /\ dialog.esi.path \in Xml
  BY <1>1, DialogFacts, SameTargets DEF Q!IsOpen, DialogTyped
<1> HIDE DEF q, old, e
<1>7. CallsTyped(old \cup {e})
  BY <1>4, <1>5 DEF CallsTyped
<1>8. DialogCallsFit(old \cup {e}, q)
  BY <1>2, <1>4, <1>5, <1>6 DEF DialogCallsFit
<1>. QED BY <1>1, <1>3, <1>7, <1>8, DialogStepKeepsInv DEF DialogFits

-----------------------------------------------------------------------------
(* The dialog: answers                                                        *)

\* The calls that an answer leaves.
LEMMA RestFitsDialog ==
  ASSUME DialogInv, NEW c \in quickCalls
  PROVE  /\ DialogFits(quickCalls \ {c}, dialog)
         /\ c \in Calls /\ c.document \in Documents /\ c.ordinal \in Nat /\ c.config \in Configs
         /\ c.load => /\ dialog.opened # E!NoContext
                      /\ \A e \in quickCalls \ {c} : ~e.load
<1>1. CallsTyped(quickCalls) /\ DialogCallsFit(quickCalls, dialog)
  BY DialogFacts
<1>2. CallsTyped(quickCalls \ {c}) /\ DialogCallsFit(quickCalls \ {c}, dialog)
  BY <1>1 DEF CallsTyped, DialogCallsFit
<1>3. c \in Calls
  BY <1>1 DEF CallsTyped
<1>. QED BY <1>1, <1>2, <1>3, DialogFacts DEF DialogFits, DialogCallsFit, Calls

\* An answer after which the dialog shows what it did, and, if its call ended a load or
\* a save, saves no more.
LEMMA DialogRestKeepsInv ==
  ASSUME DialogInv, NEW c \in quickCalls, NEW q, DialogTyped(q),
         q.opened = dialog.opened, q.esi = dialog.esi, q.ordinal = dialog.ordinal,
         q.config = dialog.config, q.target = dialog.target,
         q.saving = dialog.saving \/ c.load
  PROVE  DialogFits(quickCalls \ {c}, q)
<1>1. /\ DialogFits(quickCalls \ {c}, dialog)
      /\ c.load => \A e \in quickCalls \ {c} : ~e.load
  BY RestFitsDialog
<1>. QED BY <1>1 DEF DialogFits, TargetFits, DialogCallsFit

\* The flags of the dialog.
LEMMA FlagsGive ==
  ASSUME NEW d, DialogTyped(d), NEW e \in BOOLEAN, NEW l \in BOOLEAN, NEW s \in BOOLEAN
  PROVE  LET q == [d EXCEPT !.error = e, !.loading = l, !.saving = s]
         IN  /\ DialogTyped(q) /\ q.opened = d.opened /\ q.esi = d.esi /\ q.ordinal = d.ordinal
             /\ q.config = d.config /\ q.target = d.target /\ q.saving = s
<1> DEFINE q == [d EXCEPT !.error = e, !.loading = l, !.saving = s]
<1>1. /\ q \in Dialogs /\ q.opened = d.opened /\ q.esi = d.esi /\ q.ordinal = d.ordinal
      /\ q.config = d.config /\ q.target = d.target /\ q.saving = s /\ q.source = d.source
  BY DEF DialogTyped, Dialogs
<1>. QED BY <1>1 DEF DialogTyped

LEMMA DialogLoadAnswered ==
  ASSUME DialogInv, NEW c \in quickCalls, NEW succeeds \in BOOLEAN, NEW ambiguous \in BOOLEAN,
         Q!LoadAnswered(c, succeeds, ambiguous), UNCHANGED quickContext
  PROVE  DialogFits(quickCalls', dialog')
<1> DEFINE l == Q!Loaded(c, quickDisk, ambiguous)
           doc == [c.document EXCEPT !.config = quickDisk[c.document.path]]
           rest == quickCalls \ {c}
           source == [path |-> l.document.path, ordinal |-> l.ordinal, config |-> l.effective]
           d == [dialog EXCEPT !.source = source, !.esi = l.document, !.ordinal = l.ordinal,
                               !.original = l.original, !.config = l.effective]
<1>0. /\ c.kind = "load" /\ dialog \in Dialogs
      /\ DialogFits(rest, dialog) /\ c \in Calls /\ c.document \in Documents /\ c.ordinal \in Nat
      /\ c.config \in Configs /\ c.document.path \in Xml
      /\ c.load => dialog.opened # E!NoContext /\ \A e \in rest : ~e.load
  BY RestFitsDialog, DialogFacts DEF Q!LoadAnswered, CallsTyped
<1>1. CASE dialog' = dialog /\ quickCalls' = rest
  BY <1>0, <1>1
<1>2. CASE c.load /\ dialog' = [dialog EXCEPT !.error = TRUE, !.loading = FALSE] /\ quickCalls' = rest
  <2> DEFINE q == [dialog EXCEPT !.error = TRUE, !.loading = FALSE]
  <2>1. q \in Dialogs /\ Alike(q, dialog) /\ q.source = dialog.source
    BY <1>0 DEF Dialogs, Alike
  <2>2. DialogTyped(q)
    BY <2>1, DialogFacts DEF DialogTyped, Alike
  <2> HIDE DEF q
  <2>3. DialogFits(rest, q)
    BY <1>0, <2>1, <2>2, AlikeFits
  <2>. QED BY <1>2, <2>3 DEF q
<1>3. CASE c.load /\ \/ l.ordinal = 0 /\ dialog' = Q!Rendered([d EXCEPT !.loading = FALSE]) /\ quickCalls' = rest
                     \/ /\ l.ordinal # 0 /\ dialog' = Q!Generating(d, l.document, l.ordinal, l.effective)
                        /\ quickCalls' = Q!Generate(rest, l.document, l.ordinal, l.effective, TRUE)
  <2>1. dialog.target = E!NoTarget /\ \A e \in quickCalls : ~e.request
    BY <1>0, <1>3, DialogFacts DEF DialogCallsFit
  <2>2. doc \in Documents /\ doc.path = c.document.path /\ doc.config \in Configs
    BY <1>0, DialogFacts, Zenon DEF Documents
  <2>3. /\ l.document = doc /\ l.ordinal \in Nat /\ l.original \in Configs /\ l.effective \in Configs
    BY <1>0, <2>2, ConfigsTyped, Zenon DEF Q!Loaded
  <2> HIDE DEF l, doc
  <2>4. source \in RequestSources /\ source.path \in Xml
    BY <1>0, <2>2, <2>3, Zenon DEF RequestSources, Files
  <2> HIDE DEF source
  <2>5. /\ d \in Dialogs /\ d.opened = dialog.opened /\ d.esi = l.document /\ d.ordinal = l.ordinal
        /\ d.config = l.effective /\ d.target = E!NoTarget /\ d.source = source
    BY <1>0, <2>1, <2>2, <2>3, <2>4 DEF Dialogs
  <2>6. DialogTyped(d)
    BY <1>0, <2>2, <2>3, <2>4, <2>5 DEF DialogTyped
  <2> HIDE DEF d
  <2>7. CASE dialog' = Q!Rendered([d EXCEPT !.loading = FALSE]) /\ quickCalls' = rest
    <3> DEFINE q == [d EXCEPT !.loading = FALSE]
    <3>1. q \in Dialogs /\ q.opened = d.opened /\ q.esi = d.esi /\ q.source = d.source /\ q.target = d.target
      BY <2>5 DEF Dialogs
    <3>2. DialogTyped(q) /\ TargetFits(q)
      BY <2>5, <2>6, <3>1 DEF DialogTyped, TargetFits
    <3> HIDE DEF q
    <3>3. DialogFits(rest, q)
      BY <1>0, <1>3, <2>1, <3>2 DEF DialogFits, DialogCallsFit
    <3>. QED BY <2>7, <3>2, <3>3, RenderedGives, AlikeFits DEF q
  <2>8. CASE /\ dialog' = Q!Generating(d, l.document, l.ordinal, l.effective)
             /\ quickCalls' = Q!Generate(rest, l.document, l.ordinal, l.effective, TRUE)
    <3> DEFINE awaits == TRUE
    <3>1. /\ awaits \in BOOLEAN /\ CallsTyped(rest) /\ (\A e \in rest : ~e.load)
          /\ dialog' = Q!Generating(d, d.esi, d.ordinal, d.config)
          /\ quickCalls' = Q!Generate(rest, d.esi, d.ordinal, d.config, awaits)
      BY <1>0, <1>3, <2>5, <2>8 DEF DialogFits
    <3> HIDE DEF awaits, rest
    <3>2. d.opened # E!NoContext
      BY <1>0, <1>3, <2>5
    <3>. QED BY <2>6, <3>1, <3>2, DialogFacts, DialogGenerates
  <2>. QED BY <1>3, <2>7, <2>8
<1> HIDE DEF l, rest, d
<1>. QED BY <1>1, <1>2, <1>3 DEF Q!LoadAnswered, l, rest, d, source

LEMMA DialogBinAnswered ==
  ASSUME DialogInv, NEW c \in quickCalls, NEW succeeds \in BOOLEAN, Q!BinAnswered(c, succeeds)
  PROVE  DialogFits(quickCalls', dialog')
<1>1. quickCalls' = quickCalls \ {c} /\ DialogFits(quickCalls \ {c}, dialog) /\ c \in Calls
  BY RestFitsDialog DEF Q!BinAnswered
<1>2. ASSUME NEW q \in Dialogs, Alike(q, dialog), q.source = dialog.source, dialog' = q
      PROVE  DialogFits(quickCalls', dialog')
  <2>1. DialogTyped(q)
    BY <1>2, DialogFacts DEF DialogTyped, Alike
  <2>. QED BY <1>1, <1>2, <2>1, AlikeFits
<1>3. CASE dialog' = [dialog EXCEPT !.bin = Q!BinImage(c), !.loading = FALSE]
  <2>1. E!BinImage(c) \in Targets
    BY <1>1, NothingTyped DEF E!BinImage, Targets, Calls
  <2> DEFINE q == [dialog EXCEPT !.bin = Q!BinImage(c), !.loading = FALSE]
  <2>2. Q!BinImage(c) \in Targets
    BY <2>1, SameTargets
  <2>3. q \in Dialogs /\ Alike(q, dialog) /\ q.source = dialog.source
    BY <2>2, DialogFacts DEF Dialogs, Alike
  <2> HIDE DEF q
  <2>. QED BY <1>2, <1>3, <2>3 DEF q
<1>4. CASE dialog' = [dialog EXCEPT !.error = TRUE, !.loading = FALSE]
  <2> DEFINE q == [dialog EXCEPT !.error = TRUE, !.loading = FALSE]
  <2>1. q \in Dialogs /\ Alike(q, dialog) /\ q.source = dialog.source
    BY DialogFacts DEF Dialogs, Alike
  <2> HIDE DEF q
  <2>. QED BY <1>2, <1>4, <2>1 DEF q
<1>5. CASE dialog' = dialog
  BY <1>1, <1>5
<1>. QED BY <1>3, <1>4, <1>5 DEF Q!BinAnswered

\* The target arrives: it is that of what the dialog shows by now.
LEMMA DialogGenerateAnswered ==
  ASSUME DialogInv, NEW c \in quickCalls, NEW succeeds \in BOOLEAN, Q!GenerateAnswered(c, succeeds)
  PROVE  DialogFits(quickCalls', dialog')
<1> DEFINE rest == quickCalls \ {c}
           d == IF ~(c.request /\ Q!InContext(c)) THEN dialog
                ELSE IF succeeds THEN [dialog EXCEPT !.target = Q!ImageOf(c)]
                ELSE [dialog EXCEPT !.error = TRUE]
           q == [d EXCEPT !.loading = FALSE, !.saving = FALSE]
<1>1. /\ quickCalls' = rest /\ DialogFits(rest, dialog) /\ c \in Calls
      /\ c.load => \A e \in rest : ~e.load
  BY RestFitsDialog DEF Q!GenerateAnswered
<1>2. /\ d \in Dialogs /\ d.opened = dialog.opened /\ d.esi = dialog.esi /\ d.ordinal = dialog.ordinal
      /\ d.config = dialog.config /\ d.saving = dialog.saving /\ d.source = dialog.source
      /\ d.target = dialog.target \/ (c.request /\ d.target = E!ImageOf(c))
  <2>1. E!ImageOf(c) \in Targets
    BY <1>1 DEF E!ImageOf, Targets, Calls
  <2>2. Q!ImageOf(c) = E!ImageOf(c)
    BY SameTargets
  <2>3. CASE d = [dialog EXCEPT !.target = Q!ImageOf(c)] /\ c.request
    BY <2>1, <2>2, <2>3, DialogFacts DEF Dialogs
  <2>4. CASE d = [dialog EXCEPT !.error = TRUE]
    BY <2>4, DialogFacts DEF Dialogs
  <2>5. CASE d = dialog
    BY <2>5, DialogFacts
  <2>. QED BY <2>3, <2>4, <2>5
<1>3. DialogTyped(d)
  BY <1>2, DialogFacts DEF DialogTyped
<1>4. TargetFits(d)
  <2>1. CASE d.target = dialog.target
    BY <1>2, <2>1, DialogFacts DEF TargetFits
  <2>2. CASE c.request /\ d.target = E!ImageOf(c)
    <3>1. c.document = dialog.esi /\ c.ordinal = dialog.ordinal /\ c.config = dialog.config
      BY <2>2, DialogFacts DEF DialogCallsFit
    <3>. QED BY <1>2, <2>2, <3>1 DEF TargetFits, E!ImageOf
  <2>. QED BY <1>2, <2>1, <2>2
<1>5. \A e \in rest : e.load /\ e.kind = "load" => ~c.request
  BY DialogFacts DEF DialogCallsFit
<1>6. DialogFits(rest, d)
  BY <1>1, <1>2, <1>3, <1>4, <1>5 DEF DialogFits, DialogCallsFit
<1>7. dialog' = IF c.awaits /\ c.load /\ Q!InContext(c) THEN Q!Rendered(q) ELSE d
  BY DEF Q!GenerateAnswered
<1> HIDE DEF d, rest
<1>8. CASE c.load /\ dialog' = Q!Rendered(q)
  <2>1. /\ q \in Dialogs /\ q.opened = d.opened /\ q.esi = d.esi /\ q.ordinal = d.ordinal
        /\ q.config = d.config /\ q.target = d.target /\ q.source = d.source
    BY <1>2 DEF Dialogs
  <2>2. DialogTyped(q) /\ TargetFits(q)
    BY <1>3, <1>4, <2>1 DEF DialogTyped, TargetFits
  <2> HIDE DEF q
  <2>3. DialogFits(rest, q)
    BY <1>1, <1>6, <1>8, <2>1, <2>2 DEF DialogFits, DialogCallsFit
  <2>. QED BY <1>1, <1>8, <2>2, <2>3, RenderedGives, AlikeFits
<1>9. CASE dialog' = d
  BY <1>1, <1>6, <1>9
<1>. QED BY <1>7, <1>8, <1>9

\* The document is saved, and its target asked for.
LEMMA DialogSaveAnswered ==
  ASSUME DialogInv, NEW c \in quickCalls, NEW succeeds \in BOOLEAN, Q!SaveAnswered(c, succeeds)
  PROVE  DialogFits(quickCalls', dialog')
<1> DEFINE saved == [c.document EXCEPT !.config = c.config]
           d == [dialog EXCEPT !.esi = saved, !.original = c.config, !.config = c.config]
           rest == quickCalls \ {c}
<1>0. /\ c.kind = "save" /\ DialogFits(rest, dialog) /\ c \in Calls /\ c.document \in Documents
      /\ c.ordinal \in Nat /\ c.config \in Configs
      /\ c.load => dialog.opened # E!NoContext /\ \A e \in rest : ~e.load
  BY RestFitsDialog DEF Q!SaveAnswered
<1>1. CASE dialog' = dialog /\ quickCalls' = rest
  BY <1>0, <1>1
<1>2. CASE c.load /\ dialog' = [dialog EXCEPT !.saving = FALSE] /\ quickCalls' = rest
  <2> DEFINE q == [dialog EXCEPT !.saving = FALSE]
  <2>1. /\ q \in Dialogs /\ q.opened = dialog.opened /\ q.esi = dialog.esi /\ q.ordinal = dialog.ordinal
        /\ q.config = dialog.config /\ q.target = dialog.target /\ q.source = dialog.source
    BY DialogFacts DEF Dialogs
  <2>2. DialogTyped(q)
    BY <2>1, DialogFacts DEF DialogTyped
  <2> HIDE DEF q
  <2>3. DialogFits(rest, q)
    BY <1>2, <2>1, <2>2, DialogRestKeepsInv
  <2>. QED BY <1>2, <2>3 DEF q
<1>3. CASE /\ c.load /\ dialog' = Q!Rendered(Q!Generating(d, saved, c.ordinal, c.config))
           /\ quickCalls' = Q!Generate(rest, saved, c.ordinal, c.config, TRUE)
  <2>1. c.ordinal = dialog.ordinal /\ c.document.path \in Xml
    BY <1>0, <1>3, DialogFacts DEF DialogCallsFit
  <2>2. saved \in Documents /\ saved.path = c.document.path
    BY <1>0, Zenon DEF Documents
  <2> HIDE DEF saved
  <2>3. /\ d \in Dialogs /\ d.opened = dialog.opened /\ d.esi = saved /\ d.ordinal = c.ordinal
        /\ d.config = c.config /\ d.source = dialog.source
    BY <1>0, <2>1, <2>2, DialogFacts DEF Dialogs
  <2>4. DialogTyped(d)
    BY <2>1, <2>2, <2>3, DialogFacts DEF DialogTyped
  <2> HIDE DEF d
  <2> DEFINE awaits == TRUE
             q == Q!Generating(d, d.esi, d.ordinal, d.config)
  <2>5. /\ awaits \in BOOLEAN /\ CallsTyped(rest) /\ (\A e \in rest : ~e.load)
        /\ dialog' = Q!Rendered(q) /\ d.opened # E!NoContext
        /\ quickCalls' = Q!Generate(rest, d.esi, d.ordinal, d.config, awaits)
    BY <1>0, <1>3, <2>3 DEF DialogFits
  <2> HIDE DEF awaits, rest
  <2>6. DialogFits(quickCalls', q)
    BY <2>4, <2>5, DialogFacts, DialogGenerates
  <2> HIDE DEF q
  <2>. QED BY <2>5, <2>6, RenderedGives, AlikeFits DEF DialogFits
<1>. QED BY <1>1, <1>2, <1>3 DEF Q!SaveAnswered

LEMMA DialogAnswerKeepsInv ==
  ASSUME DialogInv, NEW c \in quickCalls, Q!Answer(c)
  PROVE  DialogInv'
<1>1. UNCHANGED quickContext /\ c.config \in Configs
  BY RestFitsDialog DEF Q!Answer
<1>2. quickDisk' \in [Xml -> Configs]
  <2>1. quickDisk' = quickDisk \/ quickDisk' = [quickDisk EXCEPT ![c.document.path] = c.config]
    BY DEF Q!Answer
  <2>. QED BY <1>1, <2>1, DialogFacts
<1>3. PICK succeeds \in BOOLEAN, ambiguous \in BOOLEAN :
        \/ Q!LoadAnswered(c, succeeds, ambiguous)
        \/ Q!BinAnswered(c, succeeds) \/ Q!GenerateAnswered(c, succeeds) \/ Q!SaveAnswered(c, succeeds)
  BY DEF Q!Answer
<1>4. DialogFits(quickCalls', dialog')
  BY <1>1, <1>3, DialogLoadAnswered, DialogBinAnswered, DialogGenerateAnswered, DialogSaveAnswered
<1>. QED BY <1>1, <1>2, <1>4, DialogFacts DEF DialogInv

LEMMA InitDialog ==
  ASSUME Q!Init
  PROVE  DialogInv
<1>1. Q!Closed \in Dialogs /\ Q!Closed.esi = E!NoDocument /\ Q!Closed.target = E!NoTarget
      /\ Q!Closed.source = Q!NoSource
  BY SameTargets, NothingTyped, ConfigsTyped, NoSourceTyped, Zenon DEF Q!Closed, Dialogs, Files
<1>2. DialogTyped(Q!Closed) /\ TargetFits(Q!Closed)
  BY <1>1 DEF DialogTyped, TargetFits
<1>3. quickContext \in Places /\ quickDisk \in [Xml -> Configs] /\ dialog = Q!Closed /\ quickCalls = {}
  BY ConfigsTyped DEF Q!Init, Places, Configs, E!Valid
<1>. QED BY <1>2, <1>3 DEF DialogInv, DialogFits, CallsTyped, DialogCallsFit

LEMMA NextDialog ==
  ASSUME DialogInv, [Q!Next]_quickVars
  PROVE  DialogInv'
<1>1. ASSUME NEW path \in Xml \cup Bin, NEW ordinal \in Q!Ordinals, Q!Choose(path, ordinal)
      PROVE  DialogInv'
  <2>0. ordinal \in Nat
    BY DEF Q!Ordinals
  <2>1. /\ Q!LoadFile(quickContext, dialog, quickCalls, path, ordinal, "") /\ Q!IsOpen
        /\ UNCHANGED <<quickContext, quickDisk>>
    BY <1>1, Zenon DEF Q!Choose
  <2>2. DialogTyped(dialog) /\ dialog.opened = dialog.opened
    BY DialogFacts
  <2>. QED BY <2>0, <2>1, <2>2, DialogChoosesKeepsInv, Zenon
<1>2. CASE Q!Flash \/ Q!FlashEnds \/ UNCHANGED quickVars
  <2>1. UNCHANGED <<quickContext, quickDisk, dialog, quickCalls>>
    BY <1>2 DEF Q!Flash, Q!FlashEnds, quickVars
  <2>. QED BY <2>1, DialogFacts, DialogStepKeepsInv
<1>3. CASE \E path \in Xml \cup Bin \cup {""} : Q!Open(path)
  BY <1>3, DialogOpensKeepsInv, Zenon DEF Files
<1>4. CASE \E config \in Q!Valid \cup {"invalid"} : Q!EditConfig(config)
  BY <1>4, DialogEditsKeepInv, ConfigsTyped, SameTargets, Zenon
<1>. QED BY <1>1, <1>2, <1>3, <1>4, DialogClosesKeepsInv, DialogMovesKeepsInv, DialogFilesKeepInv,
            DialogDevicesKeepInv, DialogSavesKeepInv, DialogAnswerKeepsInv, Zenon DEF Q!Next, Q!UserSteps

\* What can be programmed is what is shown, for this slave and connection.
LEMMA DialogWritesWhatIsShown == DialogInv => Q!WritesWhatIsShown
<1> SUFFICES ASSUME DialogInv, Q!Ready, dialog.bin = Q!NoTarget
             PROVE  dialog.target = [document |-> dialog.esi, ordinal |-> dialog.ordinal,
                                     config |-> dialog.config, context |-> quickContext]
  BY DEF Q!WritesWhatIsShown
<1>1. dialog.target # E!NoTarget /\ dialog.target.context = quickContext
  BY SameTargets DEF Q!Ready, Q!FlashTarget
<1>2. /\ dialog.target.document = dialog.esi /\ dialog.target.ordinal = dialog.ordinal
      /\ dialog.target.config = dialog.config
  BY <1>1, DialogFacts DEF TargetFits
<1>3. dialog.target \in Targets
  BY DialogFacts DEF Dialogs
<1>. QED BY <1>1, <1>2, <1>3 DEF Targets


-----------------------------------------------------------------------------
(* The theorems about the parts of the UI                                     *)

\* What can be programmed on the page is what is shown, for this slave and
\* connection.
LEMMA PageWritesWhatIsShown == PageInv => E!WritesWhatIsShown
<1> SUFFICES ASSUME PageInv
             PROVE  E!WritesWhatIsShown
  OBVIOUS
<1>1. ASSUME E!CanFlash, E!Mine.bin = E!NoTarget
      PROVE  E!Mine.target = [document |-> E!Mine.esi, ordinal |-> E!Mine.ordinal, config |-> E!Mine.config,
                              context |-> context]
  <2>1. E!Mine.target # E!NoTarget /\ E!Mine.target.context = context /\ ~E!Mine.editing
    BY <1>1 DEF E!CanFlash, E!FlashTarget
  <2>2. /\ E!Mine.target.document = E!Mine.esi /\ E!Mine.target.ordinal = E!Mine.ordinal
        /\ E!Mine.target.config = E!Mine.config
    BY <2>1, PageFacts DEF PageFits
  <2>3. E!Mine.target \in Targets
    BY PageFacts DEF PageStates
  <2>. QED BY <2>1, <2>2, <2>3 DEF Targets
<1>2. E!HasDevice /\ ~E!Mine.editing /\ E!Mine.config \in E!Valid => E!Mine.generated = E!Mine.config
  BY PageFacts DEF E!HasDevice, PageFits
<1>. QED BY <1>1, <1>2 DEF E!WritesWhatIsShown

\* Whatever answers come late, what the dialog and the page would program is the
\* file, Device and ConfigData they show, for the slave and connection shown:
\* for all files, and however many calls are on their way.
THEOREM EditorsAreTrue == MCSpec => []EditorsWriteWhatIsShown
<1> DEFINE EditorsInv == PageInv /\ DialogInv
<1>1. MCInit => EditorsInv
  <2> SUFFICES ASSUME MCInit
               PROVE  EditorsInv
    OBVIOUS
  <2>1. Q!Init /\ E!Init
    BY DEF MCInit
  <2>. QED BY <2>1, InitPage, InitDialog
<1>2. EditorsInv /\ [MCNext]_allVars => EditorsInv'
  <2> SUFFICES ASSUME EditorsInv, [MCNext]_allVars
               PROVE  EditorsInv'
    OBVIOUS
  <2>1. [E!Next]_pageVars
    <3>1. CASE UNCHANGED allVars
      BY <3>1 DEF allVars, pageVars
    <3>2. CASE MCNext
      <4>1. CASE part = "page"
        BY <3>2, <4>1, Zenon DEF MCNext, PageSteps
      <4>. QED BY <3>2, <4>1 DEF MCNext, Stay
    <3>. QED BY <3>1, <3>2
  <2>2. [Q!Next]_quickVars
    <3>1. CASE UNCHANGED allVars
      BY <3>1 DEF allVars, quickVars
    <3>2. CASE MCNext
      <4>1. CASE part = "dialog"
        BY <3>2, <4>1 DEF MCNext, QuickSteps
      <4>. QED BY <3>2, <4>1 DEF MCNext, Stay
    <3>. QED BY <3>1, <3>2
  <2>. QED BY <2>1, <2>2, NextPage, NextDialog
<1>3. EditorsInv => EditorsWriteWhatIsShown
  BY PageWritesWhatIsShown, DialogWritesWhatIsShown DEF EditorsWriteWhatIsShown
<1>. QED BY <1>1, <1>2, <1>3, PTL DEF MCSpec

-----------------------------------------------------------------------------
(* The register page: the invariant                                           *)

PageFields == {"busy", "monitor", "watching", "pinned", "recorded"}
CallFields == {"kind", "mount", "registers", "planned", "from", "heard"}

\* The records that the page is made of have the fields that matter here.
IsPage(p) == PageFields \subseteq DOMAIN p
IsCall(c) == CallFields \subseteq DOMAIN c

\* An exchange of mount m of the page with its slave
Exchanging(c, m) == c.mount = m /\ c.kind \in R!Exchanges

\* The page is busy exactly with the one exchange it has; what was left to a mount
\* before it counts no more, and nothing is there for a mount to come.
RegisterCallsFit(cs, p, m) ==
  /\ \A c \in cs : IsCall(c) /\ c.mount \in 1 .. m
  /\ \A c, d \in cs : Exchanging(c, m) /\ Exchanging(d, m) => c = d
  /\ p.busy # "" <=> \E c \in cs : Exchanging(c, m)

\* A write that goes out was on its way, or is planned over the value seen.
WritesSeen(cs) ==
  \A c \in cs : c.kind = "execute" => c \in registerCalls \/ (c.mount = mount /\ c.planned = c.from)

RegisterPageInv ==
  /\ mount \in Nat \ {0} /\ IsPage(registerPage)
  /\ RegisterCallsFit(registerCalls, registerPage, mount)
  /\ R!MonitoringIsRecorded

\* Every step keeps the invariant and writes over what was seen.
GoodStep == RegisterPageInv' /\ R!WritesWhatWasSeen

-----------------------------------------------------------------------------
(* Calls                                                                      *)

LEMMA NewCall ==
  ASSUME NEW m, NEW kind, NEW registers
  PROVE  LET c == R!Call(m, kind, registers)
         IN  IsCall(c) /\ c.kind = kind /\ c.mount = m
BY DEF R!Call, IsCall, CallFields

\* A request that is no exchange may come and go.
LEMMA OtherCallsCome ==
  ASSUME NEW cs, NEW p, NEW m \in Nat \ {0}, RegisterCallsFit(cs, p, m), NEW c, IsCall(c), c.mount = m,
         c.kind \notin R!Exchanges
  PROVE  RegisterCallsFit(cs \cup {c}, p, m)
<1>1. ~Exchanging(c, m) /\ c.mount \in 1 .. m
  BY DEF Exchanging
<1>2. \A d \in cs \cup {c} : Exchanging(d, m) <=> d \in cs /\ Exchanging(d, m)
  BY <1>1
<1>. QED BY <1>1, <1>2, Zenon DEF RegisterCallsFit

LEMMA OtherCallsGo ==
  ASSUME NEW cs, NEW p, NEW m \in Nat, RegisterCallsFit(cs, p, m), NEW gone,
         \A c \in gone : ~Exchanging(c, m)
  PROVE  RegisterCallsFit(cs \ gone, p, m)
BY Zenon DEF RegisterCallsFit

\* The exchange that the page was busy with ends, or another begins.
LEMMA ExchangeEnds ==
  ASSUME NEW cs, NEW p, NEW q, NEW m \in Nat, RegisterCallsFit(cs, p, m), NEW c \in cs, Exchanging(c, m),
         q.busy = ""
  PROVE  RegisterCallsFit(cs \ {c}, q, m)
BY Zenon DEF RegisterCallsFit

LEMMA OwnMount ==
  ASSUME NEW m \in Nat \ {0}, NEW c, c.mount = m
  PROVE  c.mount \in 1 .. m
OBVIOUS

LEMMA ExchangeBegins ==
  ASSUME NEW cs, NEW p, NEW q, NEW m \in Nat \ {0}, RegisterCallsFit(cs, p, m), p.busy = "", q.busy # "",
         NEW c, IsCall(c), c.mount = m, c.kind \in R!Exchanges
  PROVE  RegisterCallsFit(cs \cup {c}, q, m)
<1>1. c.mount \in 1 .. m /\ Exchanging(c, m)
  BY OwnMount, Zenon DEF Exchanging
<1>2. \A d \in cs : ~Exchanging(d, m)
  BY Zenon DEF RegisterCallsFit
<1>3. \A d \in cs \cup {c} : IsCall(d) /\ d.mount \in 1 .. m
  BY <1>1, Zenon DEF RegisterCallsFit
<1>4. \A d, e \in cs \cup {c} : Exchanging(d, m) /\ Exchanging(e, m) => d = e
  BY <1>2, Zenon
<1>5. q.busy # "" /\ \E d \in cs \cup {c} : Exchanging(d, m)
  BY <1>1, Zenon
<1>. QED BY <1>3, <1>4, <1>5, Zenon DEF RegisterCallsFit

\* Other fields of a request and of the page do not matter.
LEMMA AlikeCallsFit ==
  ASSUME NEW cs, NEW ds, NEW p, NEW q, NEW m, RegisterCallsFit(cs, p, m), q.busy = p.busy,
         NEW f, \A c \in cs : IsCall(f[c]) /\ f[c].kind = c.kind /\ f[c].mount = c.mount,
         ds = {f[c] : c \in cs}
  PROVE  RegisterCallsFit(ds, q, m)
<1>1. \A c \in cs : Exchanging(f[c], m) <=> Exchanging(c, m)
  BY DEF Exchanging
<1>2. \A d \in ds : IsCall(d) /\ d.mount \in 1 .. m
  <2> TAKE d \in ds
  <2>1. PICK c \in cs : d = f[c]
    OBVIOUS
  <2>2. IsCall(f[c]) /\ f[c].mount = c.mount /\ c.mount \in 1 .. m
    BY Zenon DEF RegisterCallsFit
  <2>. QED BY <2>1, <2>2, Zenon
<1>3. ASSUME NEW d \in ds, NEW e \in ds, Exchanging(d, m), Exchanging(e, m)
      PROVE  d = e
  <2>1. PICK c \in cs : d = f[c]
    OBVIOUS
  <2>2. PICK g \in cs : e = f[g]
    OBVIOUS
  <2>3. c = g
    BY <1>1, <1>3, <2>1, <2>2, Zenon DEF RegisterCallsFit
  <2>. QED BY <2>1, <2>2, <2>3
<1>4. (\E d \in ds : Exchanging(d, m)) <=> (\E c \in cs : Exchanging(c, m))
  BY <1>1
<1>. QED BY <1>2, <1>3, <1>4, Zenon DEF RegisterCallsFit

LEMMA OutdatedFit ==
  ASSUME NEW cs, NEW p, RegisterCallsFit(cs, p, mount), WritesSeen(cs)
  PROVE  RegisterCallsFit(R!Outdated(cs), p, mount) /\ WritesSeen(R!Outdated(cs))
<1> DEFINE f == [c \in cs |-> IF c.kind = "definition" /\ c.mount = mount THEN [c EXCEPT !.heard = FALSE] ELSE c]
<1>1. \A c \in cs : IsCall(f[c]) /\ f[c].kind = c.kind /\ f[c].mount = c.mount
  BY Zenon DEF RegisterCallsFit, IsCall, CallFields
<1>2. R!Outdated(cs) = {f[c] : c \in cs}
  BY DEF R!Outdated
<1>3. \A c \in cs : f[c].kind = "execute" => f[c] = c
  BY <1>1
<1> HIDE DEF f
<1>4. WritesSeen(R!Outdated(cs))
  BY <1>1, <1>2, <1>3 DEF WritesSeen
<1>. QED BY <1>1, <1>2, <1>4, AlikeCallsFit

LEMMA HeardFit ==
  ASSUME NEW cs, NEW p, NEW q, NEW b, RegisterCallsFit(cs, p, mount), WritesSeen(cs)
  PROVE  RegisterCallsFit(R!Heard(q, b, cs), p, mount) /\ WritesSeen(R!Heard(q, b, cs))
<1> DEFINE f == [c \in cs |-> IF c.kind = "watch" /\ c.mount = mount THEN [c EXCEPT !.heard = FALSE] ELSE c]
<1>1. \A c \in cs : IsCall(f[c]) /\ f[c].kind = c.kind /\ f[c].mount = c.mount
  BY Zenon DEF RegisterCallsFit, IsCall, CallFields
<1>2. R!Heard(q, b, cs) = cs \/ R!Heard(q, b, cs) = {f[c] : c \in cs}
  BY DEF R!Heard
<1>3. \A c \in cs : f[c].kind = "execute" => f[c] = c
  BY <1>1
<1> HIDE DEF f
<1>4. CASE R!Heard(q, b, cs) = {f[c] : c \in cs}
  <2>1. WritesSeen(R!Heard(q, b, cs))
    BY <1>1, <1>3, <1>4 DEF WritesSeen
  <2>. QED BY <1>1, <1>4, <2>1, AlikeCallsFit
<1>. QED BY <1>2, <1>4

-----------------------------------------------------------------------------
(* What the steps have in common                                              *)

\* What a handler does to the fields that matter here
SameFields(p, q) == \A field \in PageFields : q[field] = p[field]

LEMMA EnqueuedGives ==
  ASSUME NEW p, NEW registers, NEW automatic, NEW all
  PROVE  LET q == R!Enqueued(p, registers, automatic, all) IN DOMAIN q = DOMAIN p /\ SameFields(p, q)
BY DEF R!Enqueued, SameFields, PageFields

LEMMA EditorGives ==
  ASSUME NEW p
  PROVE  LET q == R!Editor(p) IN DOMAIN q = DOMAIN p /\ SameFields(p, q)
BY DEF R!Editor, SameFields, PageFields

LEMMA InitialReadGives ==
  ASSUME NEW p, NEW b
  PROVE  LET q == R!InitialRead(p, b) IN DOMAIN q = DOMAIN p /\ SameFields(p, q)
<1> DEFINE r == [p EXCEPT !.initial = TRUE]
<1>1. DOMAIN r = DOMAIN p /\ SameFields(p, r)
  BY DEF SameFields, PageFields
<1>2. R!InitialRead(p, b) = p \/ R!InitialRead(p, b) = R!Enqueued(r, Registers, TRUE, TRUE)
  BY DEF R!InitialRead
<1> HIDE DEF r
<1>3. LET q == R!Enqueued(r, Registers, TRUE, TRUE) IN DOMAIN q = DOMAIN r /\ SameFields(r, q)
  BY EnqueuedGives, Zenon
<1>. QED BY <1>1, <1>2, <1>3 DEF SameFields

\* A render leaves the monitor alone and brings its record up to date.
RecordFits(p) == p.recorded = registerPage.recorded \/ (~p.watching /\ p.recorded = FALSE)

LEMMA RegisterRendered ==
  ASSUME RegisterPageInv, NEW p, IsPage(p), RecordFits(p), NEW b
  PROVE  LET q == R!Rendered(p, b)
         IN  IsPage(q) /\ q.busy = p.busy /\ q.recorded = R!Monitoring(q, b)
<1> DEFINE e == R!Editor(p)
           i == R!InitialRead(e, b)
           q == R!Recorded(i, b)
<1>1. DOMAIN i = DOMAIN p /\ SameFields(p, i)
  BY EditorGives, InitialReadGives DEF SameFields
<1>2. R!Rendered(p, b) = q
  BY DEF R!Rendered
<1>3. IsPage(i) /\ i.busy = p.busy /\ i.recorded = p.recorded /\ i.watching = p.watching
  BY <1>1 DEF SameFields, PageFields, IsPage
<1> HIDE DEF e, i
<1>4. CASE <<i.monitor, i.watching, i.pinned, b>> # <<registerPage.monitor, registerPage.watching, registerPage.pinned, blocked>>
  <2>1. q = [i EXCEPT !.recorded = R!Monitoring(i, b)]
    BY <1>4 DEF R!Recorded
  <2>2. IsPage(q) /\ q.busy = i.busy /\ q.recorded = R!Monitoring(i, b)
        /\ q.monitor = i.monitor /\ q.watching = i.watching /\ q.pinned = i.pinned
    BY <2>1, <1>3 DEF IsPage, PageFields
  <2>3. R!Monitoring(q, b) = R!Monitoring(i, b)
    BY <2>2 DEF R!Monitoring
  <2>. QED BY <1>2, <1>3, <2>2, <2>3
<1>5. CASE <<i.monitor, i.watching, i.pinned, b>> = <<registerPage.monitor, registerPage.watching, registerPage.pinned, blocked>>
  <2>1. q = i
    BY <1>5 DEF R!Recorded
  <2>2. R!Monitoring(i, b) = R!Monitoring(registerPage, blocked)
    BY <1>5 DEF R!Monitoring
  <2>3. i.recorded = R!Monitoring(i, b)
    <3>1. CASE p.recorded = registerPage.recorded
      BY <3>1, <2>2, <1>3 DEF RegisterPageInv, R!MonitoringIsRecorded
    <3>2. CASE ~p.watching /\ p.recorded = FALSE
      BY <3>2, <1>3 DEF R!Monitoring
    <3>. QED BY <3>1, <3>2 DEF RecordFits
  <2>. QED BY <1>2, <1>3, <2>1, <2>3
<1>. QED BY <1>4, <1>5

\* The end of every handler
LEMMA EndsKeepInv ==
  ASSUME RegisterPageInv, UNCHANGED mount, NEW p, IsPage(p), RecordFits(p),
         NEW cs, RegisterCallsFit(cs, p, mount), WritesSeen(cs), NEW drains, NEW o,
         R!Ends(p, cs, drains, blocked', o)
  PROVE  GoodStep
<1> DEFINE q == R!Rendered(p, blocked')
           ds == R!Heard(p, blocked', cs)
           b == [q EXCEPT !.busy = "reading", !.queue = {}, !.full = FALSE]
           c == [R!Call(mount, "snapshot", q.queue) EXCEPT !.full = q.full]
<1>0. mount \in Nat \ {0}
  BY DEF RegisterPageInv
<1>1. IsPage(q) /\ q.busy = p.busy /\ q.recorded = R!Monitoring(q, blocked')
  BY RegisterRendered
<1>2. RegisterCallsFit(ds, q, mount) /\ WritesSeen(ds)
  <2>1. RegisterCallsFit(ds, p, mount) /\ WritesSeen(ds)
    BY HeardFit
  <2>. QED BY <1>1, <2>1, Zenon DEF RegisterCallsFit
<1>3. IsCall(c) /\ Exchanging(c, mount) /\ c.kind = "snapshot"
  BY DEF R!Call, IsCall, CallFields, Exchanging, R!Exchanges
<1>4. IsPage(b) /\ b.busy = "reading" /\ b.recorded = q.recorded /\ b.monitor = q.monitor
      /\ b.watching = q.watching /\ b.pinned = q.pinned
  BY <1>1 DEF IsPage, PageFields
<1>5. \/ registerPage' = q /\ registerCalls' = ds
      \/ q.busy = "" /\ registerPage' = b /\ registerCalls' = ds \cup {c}
  BY Zenon DEF R!Ends, R!MayDrain
<1> HIDE DEF q, ds, b, c
<1>9. R!WritesWhatWasSeen
  <2>1. WritesSeen(registerCalls')
    BY <1>2, <1>3, <1>5, Zenon DEF WritesSeen
  <2>. QED BY <2>1 DEF WritesSeen, R!WritesWhatWasSeen
<1>6. CASE registerPage' = q /\ registerCalls' = ds
  BY <1>0, <1>1, <1>2, <1>6, <1>9 DEF GoodStep, RegisterPageInv, R!MonitoringIsRecorded
<1>7. CASE q.busy = "" /\ registerPage' = b /\ registerCalls' = ds \cup {c}
  <2>1. RegisterCallsFit(ds \cup {c}, b, mount)
    BY <1>0, <1>2, <1>3, <1>4, <1>7, ExchangeBegins, Zenon DEF Exchanging
  <2>2. b.recorded = R!Monitoring(b, blocked')
    BY <1>1, <1>4 DEF R!Monitoring
  <2>. QED BY <1>0, <1>4, <1>7, <1>9, <2>1, <2>2, Zenon DEF GoodStep, RegisterPageInv, R!MonitoringIsRecorded
<1>. QED BY <1>5, <1>6, <1>7, Zenon

\* A handler that leaves the exchange of the page alone
LEMMA QuietKeepsInv ==
  ASSUME RegisterPageInv, UNCHANGED <<mount, blocked>>,
         NEW p, IsPage(p), RecordFits(p), p.busy = registerPage.busy,
         NEW cs, RegisterCallsFit(cs, registerPage, mount), WritesSeen(cs), R!Shows(p, cs) \/ R!Wakes(p, cs)
  PROVE  GoodStep
<1>1. RegisterCallsFit(cs, p, mount)
  BY Zenon DEF RegisterCallsFit
<1>2. \E drains : R!Ends(p, cs, drains, blocked', other)
  BY DEF R!Shows, R!Wakes
<1>. QED BY <1>1, <1>2, EndsKeepInv

\* A handler of the answer to the exchange of the page
LEMMA RegisterAnswerKeepsInv ==
  ASSUME RegisterPageInv, UNCHANGED <<mount, blocked>>,
         NEW p, IsPage(p), RecordFits(p), p.busy = "",
         NEW c \in registerCalls, c.mount = mount, c.kind \in R!Exchanges, R!Wakes(p, registerCalls \ {c})
  PROVE  GoodStep
<1>1. RegisterCallsFit(registerCalls \ {c}, p, mount)
  <2>1. Exchanging(c, mount) /\ RegisterCallsFit(registerCalls, registerPage, mount) /\ mount \in Nat
    BY Zenon DEF Exchanging, RegisterPageInv
  <2>. QED BY <2>1, ExchangeEnds, Zenon
<1>2. R!Ends(p, registerCalls \ {c}, TRUE, blocked', other)
  BY Zenon DEF R!Wakes
<1>3. WritesSeen(registerCalls \ {c})
  BY Zenon DEF WritesSeen
<1>. QED BY <1>1, <1>2, <1>3, EndsKeepInv, Zenon

\* A handler that begins an exchange
LEMMA BeginKeepsInv ==
  ASSUME RegisterPageInv, UNCHANGED <<mount, blocked>>, registerPage.busy = "",
         NEW p, IsPage(p), RecordFits(p), p.busy # "",
         NEW c, IsCall(c), c.mount = mount, c.kind \in R!Exchanges \ {"execute"},
         R!Wakes(p, registerCalls \cup {c})
  PROVE  GoodStep
<1>1. RegisterCallsFit(registerCalls \cup {c}, p, mount)
  <2>1. Exchanging(c, mount) /\ RegisterCallsFit(registerCalls, registerPage, mount) /\ mount \in Nat \ {0}
    BY Zenon DEF Exchanging, RegisterPageInv
  <2>. QED BY <2>1, ExchangeBegins, Zenon
<1>2. R!Ends(p, registerCalls \cup {c}, TRUE, blocked', other)
  BY Zenon DEF R!Wakes
<1>3. WritesSeen(registerCalls \cup {c})
  BY Zenon DEF WritesSeen
<1>. QED BY <1>1, <1>2, <1>3, EndsKeepInv, Zenon

LEMMA RegisterPageFacts ==
  ASSUME RegisterPageInv
  PROVE  /\ mount \in Nat \ {0} /\ IsPage(registerPage) /\ RegisterCallsFit(registerCalls, registerPage, mount)
         /\ RecordFits(registerPage) /\ WritesSeen(registerCalls)
         /\ \A kind, c : c \in R!Mine(kind) <=> c \in registerCalls /\ c.kind = kind /\ c.mount = mount
         /\ \A c \in registerCalls : IsCall(c)
BY Zenon DEF RegisterPageInv, RecordFits, WritesSeen, R!Mine, RegisterCallsFit

\* Requests of the page that are no exchange, and those of mounts before, may end.
LEMMA CallGoes ==
  ASSUME RegisterPageInv, NEW c, c.mount # mount \/ c.kind \notin R!Exchanges
  PROVE  RegisterCallsFit(registerCalls \ {c}, registerPage, mount) /\ WritesSeen(registerCalls \ {c})
<1> DEFINE gone == {c}
<1>1. \A d \in gone : ~Exchanging(d, mount)
  BY DEF Exchanging
<1>2. RegisterCallsFit(registerCalls \ gone, registerPage, mount)
  BY <1>1, RegisterPageFacts, OtherCallsGo
<1>. QED BY <1>2 DEF WritesSeen

-----------------------------------------------------------------------------
(* Steps that leave the exchange alone                                        *)

LEMMA NewCatalogGives ==
  ASSUME NEW p, IsPage(p)
  PROVE  LET q == R!NewCatalog(p)
         IN  IsPage(q) /\ q.busy = p.busy /\ q.recorded = p.recorded /\ q.watching = p.watching
BY DEF R!NewCatalog, IsPage, PageFields

LEMMA SelectedGives ==
  ASSUME NEW p, IsPage(p), NEW r
  PROVE  LET q == R!Selected(p, r) IN IsPage(q) /\ q.busy = p.busy /\ q.recorded = p.recorded
<1>1. LET q == R!Enqueued(p, {r}, TRUE, FALSE) IN DOMAIN q = DOMAIN p /\ SameFields(p, q)
  BY EnqueuedGives
<1>. QED BY <1>1 DEF R!Selected, IsPage, PageFields, SameFields

LEMMA CatalogKeepsInv ==
  ASSUME RegisterPageInv, (\E changed \in BOOLEAN : R!CatalogArrives(changed)) \/ R!CatalogFails
  PROVE  GoodStep
<1>1. PICK c \in R!Mine("catalog") :
        \/ R!Wakes(R!NewCatalog(registerPage), R!Outdated(registerCalls \ {c}))
        \/ R!Wakes(registerPage, registerCalls \ {c})
  BY DEF R!CatalogArrives, R!CatalogFails
<1>2. UNCHANGED <<mount, blocked>>
  BY DEF R!CatalogArrives, R!CatalogFails, R!Stays
<1>3. RegisterCallsFit(registerCalls \ {c}, registerPage, mount) /\ WritesSeen(registerCalls \ {c})
  BY <1>1, RegisterPageFacts, CallGoes DEF R!Exchanges
<1>4. CASE R!Wakes(registerPage, registerCalls \ {c})
  BY <1>2, <1>3, <1>4, RegisterPageFacts, QuietKeepsInv
<1>5. CASE R!Wakes(R!NewCatalog(registerPage), R!Outdated(registerCalls \ {c}))
  <2> DEFINE q == R!NewCatalog(registerPage)
             cs == R!Outdated(registerCalls \ {c})
  <2>1. RegisterCallsFit(cs, registerPage, mount) /\ WritesSeen(cs)
    BY <1>3, OutdatedFit
  <2>2. IsPage(q) /\ RecordFits(q) /\ q.busy = registerPage.busy
    BY RegisterPageFacts, NewCatalogGives DEF RecordFits
  <2>3. R!Wakes(q, cs)
    BY <1>5
  <2> HIDE DEF q, cs
  <2>. QED BY <1>2, <2>1, <2>2, <2>3, QuietKeepsInv
<1>. QED BY <1>1, <1>4, <1>5

LEMMA RefreshKeepsInv ==
  ASSUME RegisterPageInv, R!Refresh \/ R!RefreshOne
  PROVE  GoodStep
<1>1. PICK p, registers, automatic, all :
        /\ R!Wakes(R!Enqueued(p, registers, automatic, all), registerCalls)
        /\ IsPage(p) /\ p.busy = registerPage.busy /\ p.recorded = registerPage.recorded
  <2>1. CASE R!Refresh
    <3> DEFINE p == [registerPage EXCEPT !.paused = FALSE, !.refused = FALSE, !.editor.dirty = FALSE]
    <3>1. IsPage(p) /\ p.busy = registerPage.busy /\ p.recorded = registerPage.recorded
      BY RegisterPageFacts DEF IsPage, PageFields
    <3>2. R!Wakes(R!Enqueued(p, Registers, TRUE, TRUE), registerCalls)
      BY <2>1 DEF R!Refresh
    <3> HIDE DEF p
    <3>. QED BY <3>1, <3>2
  <2>2. CASE R!RefreshOne
    <3> DEFINE p == [registerPage EXCEPT !.watching = FALSE, !.refused = FALSE]
    <3>1. IsPage(p) /\ p.busy = registerPage.busy /\ p.recorded = registerPage.recorded
      BY RegisterPageFacts DEF IsPage, PageFields
    <3>2. R!Wakes(R!Enqueued(p, {registerPage.selected}, FALSE, FALSE), registerCalls)
      BY <2>2 DEF R!RefreshOne
    <3> HIDE DEF p
    <3>. QED BY <3>1, <3>2
  <2>. QED BY <2>1, <2>2
<1> DEFINE q == R!Enqueued(p, registers, automatic, all)
<1>2. IsPage(q) /\ q.busy = registerPage.busy /\ RecordFits(q)
  BY <1>1, EnqueuedGives DEF IsPage, PageFields, SameFields, RecordFits
<1>3. UNCHANGED <<mount, blocked>>
  BY DEF R!Refresh, R!RefreshOne, R!Stays
<1>4. R!Wakes(q, registerCalls)
  BY <1>1
<1> HIDE DEF q
<1>. QED BY <1>2, <1>3, <1>4, RegisterPageFacts, QuietKeepsInv

\* Selecting asks for the definition of the register, and its answer reads it.
LEMMA SelectKeepsInv ==
  ASSUME RegisterPageInv, \E r \in Registers : R!Select(r)
  PROVE  GoodStep
<1>1. PICK r \in Registers : R!Select(r)
  OBVIOUS
<1> DEFINE p == [registerPage EXCEPT !.selected = r, !.loading = r \notin registerPage.resolved, !.failed = FALSE,
                                     !.editor = R!NoEditor, !.refused = FALSE]
           earlier == {c \in R!Mine("definition") : c.registers = {r}}
           new == R!Call(mount, "definition", {r})
<1>2. IsPage(p) /\ p.busy = registerPage.busy /\ p.recorded = registerPage.recorded
  BY RegisterPageFacts DEF IsPage, PageFields
<1>3. UNCHANGED <<mount, blocked>>
  BY <1>1 DEF R!Select, R!Stays
<1>4. \/ R!Wakes(R!Selected(p, r), R!Outdated(registerCalls))
      \/ R!Wakes(p, R!Outdated(registerCalls \ earlier) \cup {new})
  BY <1>1 DEF R!Select
<1>5. \A c \in earlier : ~Exchanging(c, mount)
  BY RegisterPageFacts DEF Exchanging, R!Exchanges
<1>6. RegisterCallsFit(registerCalls \ earlier, registerPage, mount) /\ WritesSeen(registerCalls \ earlier)
  BY <1>5, RegisterPageFacts, OtherCallsGo DEF WritesSeen
<1>7. IsCall(new) /\ new.mount = mount /\ new.kind \notin R!Exchanges
  BY NewCall DEF R!Exchanges
<1> HIDE DEF p, earlier, new
<1>8. CASE R!Wakes(R!Selected(p, r), R!Outdated(registerCalls))
  <2> DEFINE q == R!Selected(p, r)
             cs == R!Outdated(registerCalls)
  <2>1. IsPage(q) /\ q.busy = registerPage.busy /\ RecordFits(q)
    BY <1>2, SelectedGives DEF RecordFits
  <2>2. RegisterCallsFit(cs, registerPage, mount) /\ WritesSeen(cs) /\ R!Wakes(q, cs)
    BY <1>8, RegisterPageFacts, OutdatedFit
  <2> HIDE DEF q, cs
  <2>. QED BY <1>3, <2>1, <2>2, QuietKeepsInv
<1>9. CASE R!Wakes(p, R!Outdated(registerCalls \ earlier) \cup {new})
  <2> DEFINE ds == R!Outdated(registerCalls \ earlier)
             cs == ds \cup {new}
  <2>1. RegisterCallsFit(ds, registerPage, mount) /\ WritesSeen(ds)
    BY <1>6, OutdatedFit
  <2>2. R!Wakes(p, cs)
    BY <1>9
  <2> HIDE DEF ds
  <2>3. RegisterCallsFit(cs, registerPage, mount) /\ WritesSeen(cs)
    BY <1>7, <2>1, RegisterPageFacts, OtherCallsCome DEF WritesSeen, R!Exchanges
  <2> HIDE DEF cs
  <2>. QED BY <1>2, <1>3, <2>2, <2>3, QuietKeepsInv DEF RecordFits
<1>. QED BY <1>4, <1>8, <1>9

LEMMA DefinitionKeepsInv ==
  ASSUME RegisterPageInv, R!DefinitionArrives \/ R!DefinitionFails
  PROVE  GoodStep
<1>1. PICK c, p :
        /\ c \in R!Mine("definition")
        /\ R!Wakes(p, registerCalls \ {c})
        /\ IsPage(p) /\ p.busy = registerPage.busy /\ p.recorded = registerPage.recorded
  <2>1. CASE R!DefinitionFails
    <3> DEFINE p == [registerPage EXCEPT !.failed = TRUE, !.loading = FALSE]
    <3>1. IsPage(p) /\ p.busy = registerPage.busy /\ p.recorded = registerPage.recorded
      BY RegisterPageFacts DEF IsPage, PageFields
    <3>2. PICK c \in R!Mine("definition") :
            R!Wakes(p, registerCalls \ {c}) \/ R!Wakes(registerPage, registerCalls \ {c})
      BY <2>1 DEF R!DefinitionFails
    <3> HIDE DEF p
    <3>. QED BY <3>1, <3>2, RegisterPageFacts
  <2>2. CASE R!DefinitionArrives
    <3>1. PICK c \in R!Mine("definition"), r \in Registers :
            LET p == [registerPage EXCEPT !.resolved = @ \cup {r}] IN
            R!Wakes(IF c.heard THEN R!Selected([p EXCEPT !.selected = r, !.loading = FALSE], r) ELSE p,
                    registerCalls \ {c})
      BY <2>2, Zenon DEF R!DefinitionArrives
    <3> DEFINE p == [registerPage EXCEPT !.resolved = @ \cup {r}]
               s == [p EXCEPT !.selected = r, !.loading = FALSE]
               q == R!Selected(s, r)
    <3>2. IsPage(p) /\ p.busy = registerPage.busy /\ p.recorded = registerPage.recorded
      BY RegisterPageFacts DEF IsPage, PageFields
    <3>3. R!Wakes(q, registerCalls \ {c}) \/ R!Wakes(p, registerCalls \ {c})
      BY <3>1
    <3> HIDE DEF p
    <3>4. IsPage(s) /\ s.busy = p.busy /\ s.recorded = p.recorded
      BY <3>2 DEF IsPage, PageFields
    <3> HIDE DEF s
    <3>5. IsPage(q) /\ q.busy = registerPage.busy /\ q.recorded = registerPage.recorded
      BY <3>2, <3>4, SelectedGives
    <3>. QED BY <3>2, <3>3, <3>5
  <2>. QED BY <2>1, <2>2
<1>2. UNCHANGED <<mount, blocked>>
  BY Zenon DEF R!DefinitionArrives, R!DefinitionFails, R!Stays
<1>3. RegisterCallsFit(registerCalls \ {c}, registerPage, mount) /\ WritesSeen(registerCalls \ {c})
  <2>1. c.kind = "definition"
    BY <1>1, RegisterPageFacts
  <2>. QED BY <2>1, CallGoes DEF R!Exchanges
<1>. QED BY <1>1, <1>2, <1>3, QuietKeepsInv DEF RecordFits

\* What the user does without a request
LEMMA ViewKeepsInv ==
  ASSUME RegisterPageInv,
         \/ R!Deselect \/ R!Type
         \/ \E r \in Registers, pinned \in BOOLEAN : R!Pin(r, pinned)
         \/ \E on \in BOOLEAN : R!Monitor(on) \/ R!Watch(on) \/ R!Raw(on)
  PROVE  GoodStep
<1>1. PICK p, cs :
        /\ R!Shows(p, cs) /\ cs \in {registerCalls, R!Outdated(registerCalls)}
        /\ IsPage(p) /\ p.busy = registerPage.busy /\ p.recorded = registerPage.recorded
  <2>1. CASE R!Deselect
    <3> DEFINE p == [registerPage EXCEPT !.selected = R!NoRegister, !.editor = R!NoEditor]
    <3>1. IsPage(p) /\ p.busy = registerPage.busy /\ p.recorded = registerPage.recorded
      BY RegisterPageFacts DEF IsPage, PageFields
    <3>2. R!Shows(p, R!Outdated(registerCalls))
      BY <2>1 DEF R!Deselect
    <3> HIDE DEF p
    <3>. QED BY <3>1, <3>2
  <2>2. CASE R!Type
    <3> DEFINE p == [registerPage EXCEPT !.editor.dirty = TRUE, !.watching = FALSE]
    <3>1. IsPage(p) /\ p.busy = registerPage.busy /\ p.recorded = registerPage.recorded
      BY RegisterPageFacts DEF IsPage, PageFields
    <3>2. R!Shows(p, registerCalls)
      BY <2>2 DEF R!Type
    <3> HIDE DEF p
    <3>. QED BY <3>1, <3>2
  <2>3. ASSUME NEW r \in Registers, NEW pinned \in BOOLEAN, R!Pin(r, pinned)
        PROVE  \E p : /\ R!Shows(p, registerCalls)
                      /\ IsPage(p) /\ p.busy = registerPage.busy /\ p.recorded = registerPage.recorded
    <3> DEFINE p == [registerPage EXCEPT !.pinned = @ \cup {r}]
               q == [registerPage EXCEPT !.pinned = @ \ {r}, !.watching = FALSE]
    <3>1. IsPage(p) /\ p.busy = registerPage.busy /\ p.recorded = registerPage.recorded
      BY RegisterPageFacts DEF IsPage, PageFields
    <3>2. IsPage(q) /\ q.busy = registerPage.busy /\ q.recorded = registerPage.recorded
      BY RegisterPageFacts DEF IsPage, PageFields
    <3>3. R!Shows(p, registerCalls) \/ R!Shows(q, registerCalls)
      BY <2>3, Zenon DEF R!Pin
    <3> HIDE DEF p, q
    <3>. QED BY <3>1, <3>2, <3>3
  <2>4. ASSUME NEW on \in BOOLEAN, R!Monitor(on) \/ R!Watch(on) \/ R!Raw(on)
        PROVE  \E p : /\ R!Shows(p, registerCalls)
                      /\ IsPage(p) /\ p.busy = registerPage.busy /\ p.recorded = registerPage.recorded
    <3> DEFINE m == [registerPage EXCEPT !.monitor = on, !.watching = FALSE]
               w == [registerPage EXCEPT !.watching = on]
               x == [registerPage EXCEPT !.raw = on, !.watching = IF on THEN FALSE ELSE @]
    <3>1. IsPage(m) /\ m.busy = registerPage.busy /\ m.recorded = registerPage.recorded
      BY RegisterPageFacts DEF IsPage, PageFields
    <3>2. IsPage(w) /\ w.busy = registerPage.busy /\ w.recorded = registerPage.recorded
      BY RegisterPageFacts, SMTT(20) DEF IsPage, PageFields
    <3>3. IsPage(x) /\ x.busy = registerPage.busy /\ x.recorded = registerPage.recorded
      BY RegisterPageFacts DEF IsPage, PageFields
    <3>4. R!Shows(m, registerCalls) \/ R!Shows(w, registerCalls) \/ R!Shows(x, registerCalls)
      BY <2>4, Zenon DEF R!Monitor, R!Watch, R!Raw
    <3> HIDE DEF m, w, x
    <3>. QED BY <3>1, <3>2, <3>3, <3>4
  <2>. QED BY <2>1, <2>2, <2>3, <2>4
<1>2. UNCHANGED <<mount, blocked>>
  BY Zenon DEF R!Deselect, R!Type, R!Pin, R!Monitor, R!Watch, R!Raw, R!Stays
<1>3. RegisterCallsFit(cs, registerPage, mount) /\ WritesSeen(cs)
  BY <1>1, RegisterPageFacts, OutdatedFit
<1>. QED BY <1>1, <1>2, <1>3, QuietKeepsInv DEF RecordFits

\* The reset is no exchange of the page.
LEMMA ResetKeepsInv ==
  ASSUME RegisterPageInv, R!Reset \/ R!ResetFails
  PROVE  GoodStep
<1>0. UNCHANGED <<mount, blocked>>
  BY DEF R!Reset, R!ResetFails, R!Stays
<1>1. CASE R!Reset
  <2> DEFINE p == [registerPage EXCEPT !.writing = TRUE, !.watching = FALSE]
             none == {}
             new == R!Call(mount, "reset", none)
  <2>1. IsPage(p) /\ p.busy = registerPage.busy /\ p.recorded = registerPage.recorded
    BY RegisterPageFacts DEF IsPage, PageFields
  <2>2. IsCall(new) /\ new.mount = mount /\ new.kind \notin R!Exchanges
    BY NewCall DEF R!Exchanges
  <2>3. R!Wakes(p, registerCalls \cup {new})
    BY <1>1 DEF R!Reset
  <2> HIDE DEF p, new
  <2>4. RegisterCallsFit(registerCalls \cup {new}, registerPage, mount) /\ WritesSeen(registerCalls \cup {new})
    BY <2>2, RegisterPageFacts, OtherCallsCome DEF WritesSeen, R!Exchanges
  <2>. QED BY <1>0, <2>1, <2>3, <2>4, QuietKeepsInv DEF RecordFits
<1>2. CASE R!ResetFails
  <2> DEFINE p == [registerPage EXCEPT !.writing = FALSE]
  <2>1. IsPage(p) /\ p.busy = registerPage.busy /\ p.recorded = registerPage.recorded
    BY RegisterPageFacts DEF IsPage, PageFields
  <2>2. PICK c \in R!Mine("reset") : R!Wakes(p, registerCalls \ {c})
    BY <1>2 DEF R!ResetFails
  <2> HIDE DEF p
  <2>3. RegisterCallsFit(registerCalls \ {c}, registerPage, mount) /\ WritesSeen(registerCalls \ {c})
    BY RegisterPageFacts, CallGoes DEF R!Exchanges
  <2>. QED BY <1>0, <2>1, <2>2, <2>3, QuietKeepsInv DEF RecordFits
<1>. QED BY <1>1, <1>2

-----------------------------------------------------------------------------
(* Exchanges                                                                  *)

LEMMA ReadGives ==
  ASSUME NEW p, IsPage(p), NEW registers
  PROVE  LET q == R!Read(p, registers)
         IN  IsPage(q) /\ q.busy = p.busy /\ q.recorded = p.recorded /\ q.watching = p.watching
BY DEF R!Read, IsPage, PageFields

LEMMA FinishedGives ==
  ASSUME NEW p, IsPage(p), NEW c
  PROVE  LET q == R!Finished(p, c)
         IN  IsPage(q) /\ q.busy = "" /\ q.recorded = p.recorded /\ q.watching = p.watching
BY DEF R!Finished, IsPage, PageFields

LEMMA WrittenGives ==
  ASSUME NEW p, IsPage(p)
  PROVE  LET q == R!Written(p) IN IsPage(q) /\ q.busy = "" /\ q.recorded = p.recorded
BY DEF R!Written, IsPage, PageFields

\* A snapshot ends, with the catalogue of another version perhaps.
LEMMA SnapshotKeepsInv ==
  ASSUME RegisterPageInv,
         \/ \E got \in SUBSET Registers, changed \in BOOLEAN : R!SnapshotArrives(got, changed)
         \/ R!SnapshotCancelled \/ R!SnapshotFails
  PROVE  GoodStep
<1>0. UNCHANGED <<mount, blocked>>
  BY DEF R!SnapshotArrives, R!SnapshotCancelled, R!SnapshotFails, R!Stays
<1>1. ASSUME NEW got \in SUBSET Registers, NEW changed \in BOOLEAN, R!SnapshotArrives(got, changed)
      PROVE  GoodStep
  <2> DEFINE p == IF changed THEN R!NewCatalog(registerPage) ELSE registerPage
             r == R!Read(p, got)
             i == [r EXCEPT !.informed = TRUE]
  <2>1. PICK c \in R!Mine("snapshot") :
          R!Wakes(R!Finished(i, c), IF changed THEN R!Outdated(registerCalls \ {c}) ELSE registerCalls \ {c})
    BY <1>1 DEF R!SnapshotArrives
  <2>2. IsPage(p) /\ p.recorded = registerPage.recorded
    BY RegisterPageFacts, NewCatalogGives
  <2> HIDE DEF p
  <2>3. IsPage(r) /\ r.recorded = registerPage.recorded
    BY <2>2, ReadGives
  <2> HIDE DEF r
  <2>4. IsPage(i) /\ i.recorded = registerPage.recorded
    BY <2>3 DEF IsPage, PageFields
  <2> HIDE DEF i
  <2> DEFINE q == R!Finished(i, c)
             rest == registerCalls \ {c}
             cs == IF changed THEN R!Outdated(rest) ELSE rest
  <2>5. IsPage(q) /\ q.busy = "" /\ RecordFits(q)
    BY <2>4, FinishedGives, Zenon DEF RecordFits
  <2>6. R!Wakes(q, cs)
    BY <2>1
  <2> HIDE DEF q
  <2>7. RegisterCallsFit(rest, q, mount) /\ WritesSeen(rest)
    <3>1. c \in registerCalls /\ Exchanging(c, mount)
      BY RegisterPageFacts DEF Exchanging, R!Exchanges
    <3>. QED BY <3>1, <2>5, RegisterPageFacts, ExchangeEnds, Zenon DEF WritesSeen
  <2> HIDE DEF rest
  <2>8. RegisterCallsFit(cs, q, mount) /\ WritesSeen(cs)
    BY <2>7, OutdatedFit
  <2> HIDE DEF cs
  <2>9. R!Ends(q, cs, TRUE, blocked', other)
    BY <2>6, <1>0 DEF R!Wakes
  <2>. QED BY <1>0, <2>5, <2>8, <2>9, EndsKeepInv, Zenon
<1>2. CASE R!SnapshotCancelled
  <2> DEFINE p == [registerPage EXCEPT !.informed = TRUE, !.queue = {}, !.full = FALSE]
  <2>1. PICK c \in R!Mine("snapshot") : R!Wakes(R!Finished(p, c), registerCalls \ {c})
    BY <1>2 DEF R!SnapshotCancelled
  <2>2. IsPage(p) /\ p.recorded = registerPage.recorded
    BY RegisterPageFacts DEF IsPage, PageFields
  <2> HIDE DEF p
  <2> DEFINE q == R!Finished(p, c)
  <2>3. IsPage(q) /\ q.busy = "" /\ RecordFits(q)
    BY <2>2, FinishedGives, Zenon DEF RecordFits
  <2>4. R!Wakes(q, registerCalls \ {c}) /\ c \in registerCalls /\ c.mount = mount /\ c.kind \in R!Exchanges
    BY <2>1, RegisterPageFacts DEF R!Exchanges
  <2> HIDE DEF q
  <2>. QED BY <1>0, <2>3, <2>4, RegisterAnswerKeepsInv, Zenon
<1>3. CASE R!SnapshotFails
  <2> DEFINE p == [registerPage EXCEPT !.busy = "", !.paused = TRUE, !.queue = {}, !.queued = {}, !.full = FALSE]
  <2>1. PICK c \in R!Mine("snapshot") : R!Wakes(p, registerCalls \ {c})
    BY <1>3 DEF R!SnapshotFails
  <2>2. IsPage(p) /\ p.busy = "" /\ RecordFits(p)
    BY RegisterPageFacts DEF IsPage, PageFields, RecordFits
  <2>3. c \in registerCalls /\ c.mount = mount /\ c.kind \in R!Exchanges
    BY <2>1, RegisterPageFacts DEF R!Exchanges
  <2> HIDE DEF p
  <2>. QED BY <1>0, <2>1, <2>2, <2>3, RegisterAnswerKeepsInv, Zenon
<1>. QED BY <1>1, <1>2, <1>3

\* A poll of the monitor ends; one that fails stops it and closes its record.
LEMMA WatchEndsKeepsInv ==
  ASSUME RegisterPageInv, NEW ok \in BOOLEAN, R!WatchEnds(ok)
  PROVE  GoodStep
<1>0. UNCHANGED <<mount, blocked>>
  BY DEF R!WatchEnds, R!Stays
<1>1. PICK c \in R!Mine("watch") :
        LET p == [registerPage EXCEPT !.busy = "", !.informed = @ \/ c.heard] IN
        R!Wakes(IF ~c.heard THEN p ELSE IF ok THEN R!Read(p, c.registers) ELSE R!Stopped(p), registerCalls \ {c})
  BY Zenon DEF R!WatchEnds
<1> DEFINE p == [registerPage EXCEPT !.busy = "", !.informed = @ \/ c.heard]
           r == R!Read(p, c.registers)
           s == R!Stopped(p)
<1>2. IsPage(p) /\ p.busy = "" /\ p.recorded = registerPage.recorded
  BY RegisterPageFacts DEF IsPage, PageFields
<1>3. \E q \in {p, r, s} : R!Wakes(q, registerCalls \ {c})
  BY <1>1
<1> HIDE DEF p
<1>4. IsPage(r) /\ r.busy = "" /\ r.recorded = registerPage.recorded
  BY <1>2, ReadGives, Zenon
<1>5. IsPage(s) /\ s.busy = "" /\ s.recorded = FALSE /\ s.watching = FALSE
  BY <1>2, Zenon DEF R!Stopped, IsPage, PageFields
<1>6. c \in registerCalls /\ c.mount = mount /\ c.kind \in R!Exchanges
  BY RegisterPageFacts DEF R!Exchanges
<1> HIDE DEF r, s
<1>. QED BY <1>0, <1>2, <1>3, <1>4, <1>5, <1>6, RegisterAnswerKeepsInv, Zenon DEF RecordFits

\* A write that ends, and what is read or written directly
LEMMA ExecutedKeepsInv ==
  ASSUME RegisterPageInv, NEW value, NEW readback \in BOOLEAN, R!Executed(value, readback)
  PROVE  GoodStep
<1>0. UNCHANGED <<mount, blocked>>
  BY DEF R!Executed
<1>1. PICK c \in R!Mine("execute"), r \in Registers :
        LET p == [R!Written(registerPage) EXCEPT !.editor.dirty = FALSE] IN
        IF readback
        THEN R!Wakes([p EXCEPT !.values[r] = value, !.editor.register = r, !.editor.current = value],
                     registerCalls \ {c})
        ELSE R!Wakes(R!Enqueued(p, {r}, FALSE, FALSE), registerCalls \ {c})
  BY Zenon DEF R!Executed
<1> DEFINE w == R!Written(registerPage)
           p == [w EXCEPT !.editor.dirty = FALSE]
           q == [p EXCEPT !.values[r] = value, !.editor.register = r, !.editor.current = value]
           no == FALSE
           e == R!Enqueued(p, {r}, no, no)
<1>2. IsPage(w) /\ w.busy = "" /\ w.recorded = registerPage.recorded
  BY RegisterPageFacts, WrittenGives, Zenon
<1>3. \E x \in {q, e} : R!Wakes(x, registerCalls \ {c})
  BY <1>1
<1> HIDE DEF w
<1>4. IsPage(p) /\ p.busy = "" /\ p.recorded = registerPage.recorded
  BY <1>2, Zenon DEF IsPage, PageFields
<1> HIDE DEF p, no
<1>5. IsPage(q) /\ q.busy = "" /\ q.recorded = registerPage.recorded
  BY <1>4, Zenon DEF IsPage, PageFields
<1>6. IsPage(e) /\ e.busy = "" /\ e.recorded = registerPage.recorded
  <2> DEFINE one == {r}
  <2>1. LET x == R!Enqueued(p, one, no, no) IN DOMAIN x = DOMAIN p /\ SameFields(p, x)
    BY EnqueuedGives
  <2>. QED BY <1>4, <2>1, Zenon DEF IsPage, PageFields, SameFields
<1>7. c \in registerCalls /\ c.mount = mount /\ c.kind \in R!Exchanges
  BY RegisterPageFacts DEF R!Exchanges
<1> HIDE DEF q, e
<1>. QED BY <1>0, <1>3, <1>5, <1>6, <1>7, RegisterAnswerKeepsInv, Zenon DEF RecordFits

LEMMA OtherAnswersKeepInv ==
  ASSUME RegisterPageInv,
         \/ R!WriteFails \/ R!RawWriteFails
         \/ \E ok \in BOOLEAN : R!RawReadEnds(ok)
         \/ \E value \in 0 .. MaxValue, readback \in BOOLEAN : R!RawWriteEnds(value, readback)
  PROVE  GoodStep
<1>0. UNCHANGED <<mount, blocked>>
  BY Zenon DEF R!WriteFails, R!RawWriteFails, R!RawReadEnds, R!RawWriteEnds, R!Stays
<1> DEFINE w == R!Written(registerPage)
           refused == [w EXCEPT !.refused = TRUE]
           b == [registerPage EXCEPT !.busy = ""]
<1>1. IsPage(w) /\ w.busy = "" /\ w.recorded = registerPage.recorded
  BY RegisterPageFacts, WrittenGives, Zenon
<1>2. IsPage(b) /\ b.busy = "" /\ b.recorded = registerPage.recorded
  BY RegisterPageFacts DEF IsPage, PageFields
<1>3. PICK kind, c, q :
        /\ kind \in R!Exchanges /\ c \in R!Mine(kind)
        /\ R!Wakes(q, registerCalls \ {c}) /\ IsPage(q) /\ q.busy = "" /\ q.recorded = registerPage.recorded
  <2>1. CASE R!WriteFails
    <3>1. PICK kind \in {"prepare", "execute"} : \E c \in R!Mine(kind) : R!Wakes(refused, registerCalls \ {c})
      BY <2>1 DEF R!WriteFails
    <3> HIDE DEF w
    <3>2. IsPage(refused) /\ refused.busy = "" /\ refused.recorded = registerPage.recorded
      BY <1>1, Zenon DEF IsPage, PageFields
    <3> HIDE DEF refused
    <3>. QED BY <3>1, <3>2, Zenon DEF R!Exchanges
  <2>2. CASE R!RawWriteFails
    <3>1. PICK c \in R!Mine("rawWrite") : R!Wakes(w, registerCalls \ {c})
      BY <2>2 DEF R!RawWriteFails
    <3> HIDE DEF w
    <3>. QED BY <3>1, <1>1, Zenon DEF R!Exchanges
  <2>3. ASSUME NEW ok \in BOOLEAN, R!RawReadEnds(ok)
        PROVE  \E c, q :
                 /\ c \in R!Mine("rawRead")
                 /\ R!Wakes(q, registerCalls \ {c}) /\ IsPage(q) /\ q.busy = "" /\ q.recorded = registerPage.recorded
    <3>1. PICK c \in R!Mine("rawRead") : \E q \in {b, R!Read(b, c.registers)} : R!Wakes(q, registerCalls \ {c})
      BY <2>3, Zenon DEF R!RawReadEnds
    <3> DEFINE r == R!Read(b, c.registers)
    <3> HIDE DEF b
    <3>2. IsPage(r) /\ r.busy = "" /\ r.recorded = registerPage.recorded
      BY <1>2, ReadGives, Zenon
    <3>3. \E q \in {b, r} : R!Wakes(q, registerCalls \ {c})
      BY <3>1
    <3> HIDE DEF r
    <3>. QED BY <1>2, <3>2, <3>3, Zenon
  <2>4. ASSUME NEW value \in 0 .. MaxValue, NEW readback \in BOOLEAN, R!RawWriteEnds(value, readback)
        PROVE  \E c, q :
                 /\ c \in R!Mine("rawWrite")
                 /\ R!Wakes(q, registerCalls \ {c}) /\ IsPage(q) /\ q.busy = "" /\ q.recorded = registerPage.recorded
    <3>1. PICK c \in R!Mine("rawWrite") :
            R!Wakes([w EXCEPT !.values = [r \in Registers |-> IF r \notin c.registers THEN @[r]
                                                  ELSE IF readback THEN value ELSE R!NoValue]], registerCalls \ {c})
      BY <2>4 DEF R!RawWriteEnds
    <3> DEFINE q == [w EXCEPT !.values = [r \in Registers |-> IF r \notin c.registers THEN @[r]
                                                  ELSE IF readback THEN value ELSE R!NoValue]]
    <3> HIDE DEF w
    <3>2. IsPage(q) /\ q.busy = "" /\ q.recorded = registerPage.recorded
      BY <1>1, Zenon DEF IsPage, PageFields
    <3>3. R!Wakes(q, registerCalls \ {c})
      BY <3>1
    <3> HIDE DEF q
    <3>. QED BY <3>2, <3>3, Zenon
  <2>. QED BY <2>1, <2>2, <2>3, <2>4, Zenon DEF R!Exchanges
<1>4. c \in registerCalls /\ c.mount = mount /\ c.kind \in R!Exchanges
  BY <1>3, RegisterPageFacts, Zenon
<1> HIDE DEF w, refused, b
<1>. QED BY <1>0, <1>3, <1>4, RegisterAnswerKeepsInv, Zenon DEF RecordFits

\* A poll, a write, and a direct access begin while the page is not busy.
LEMMA BeginsKeepInv ==
  ASSUME RegisterPageInv, R!Poll \/ R!Write \/ \E r \in Registers : R!RawRead(r) \/ R!RawWrite(r)
  PROVE  GoodStep
<1>0. UNCHANGED <<mount, blocked>> /\ registerPage.busy = ""
  BY Zenon DEF R!Poll, R!Write, R!RawRead, R!RawWrite, R!Stays, R!MayStart
<1>1. PICK p, c :
        /\ R!Wakes(p, registerCalls \cup {c})
        /\ IsPage(p) /\ p.busy # "" /\ p.recorded = registerPage.recorded
        /\ IsCall(c) /\ c.mount = mount /\ c.kind \in R!Exchanges \ {"execute"}
  <2>1. CASE R!Poll
    <3> DEFINE p == [registerPage EXCEPT !.busy = "watching"]
               c == R!Call(mount, "watch", registerPage.pinned)
    <3>1. IsPage(p) /\ p.busy # "" /\ p.recorded = registerPage.recorded
      BY RegisterPageFacts DEF IsPage, PageFields
    <3>2. IsCall(c) /\ c.mount = mount /\ c.kind \in R!Exchanges \ {"execute"}
      BY NewCall DEF R!Exchanges
    <3>3. R!Wakes(p, registerCalls \cup {c})
      BY <2>1, Zenon DEF R!Poll
    <3> HIDE DEF p, c
    <3>. QED BY <3>1, <3>2, <3>3, Zenon
  <2>2. CASE R!Write
    <3> DEFINE p == [registerPage EXCEPT !.busy = "writing", !.writing = TRUE, !.watching = FALSE]
               b == R!Call(mount, "prepare", {registerPage.editor.register})
               c == [b EXCEPT !.from = registerPage.editor.current]
    <3>1. IsPage(p) /\ p.busy # "" /\ p.recorded = registerPage.recorded
      BY RegisterPageFacts DEF IsPage, PageFields
    <3>2. IsCall(b) /\ b.mount = mount /\ b.kind \in R!Exchanges \ {"execute"}
      BY NewCall DEF R!Exchanges
    <3>3. R!Wakes(p, registerCalls \cup {c})
      BY <2>2 DEF R!Write
    <3> HIDE DEF p, b
    <3>4. IsCall(c) /\ c.mount = mount /\ c.kind \in R!Exchanges \ {"execute"}
      BY <3>2 DEF IsCall, CallFields
    <3> HIDE DEF c
    <3>. QED BY <3>1, <3>3, <3>4, Zenon
  <2>3. ASSUME NEW r \in Registers, R!RawRead(r) \/ R!RawWrite(r)
        PROVE  \E p, c :
                 /\ R!Wakes(p, registerCalls \cup {c})
                 /\ IsPage(p) /\ p.busy # "" /\ p.recorded = registerPage.recorded
                 /\ IsCall(c) /\ c.mount = mount /\ c.kind \in R!Exchanges \ {"execute"}
    <3> DEFINE p == [registerPage EXCEPT !.busy = "reading", !.watching = FALSE]
               q == [registerPage EXCEPT !.busy = "writing", !.writing = TRUE, !.watching = FALSE]
               c == R!Call(mount, "rawRead", {r})
               d == R!Call(mount, "rawWrite", {r})
    <3>1. IsPage(p) /\ p.busy # "" /\ p.recorded = registerPage.recorded
      BY RegisterPageFacts DEF IsPage, PageFields
    <3>2. IsPage(q) /\ q.busy # "" /\ q.recorded = registerPage.recorded
      BY RegisterPageFacts DEF IsPage, PageFields
    <3>3. IsCall(c) /\ c.mount = mount /\ c.kind \in R!Exchanges \ {"execute"}
      BY NewCall DEF R!Exchanges
    <3>4. IsCall(d) /\ d.mount = mount /\ d.kind \in R!Exchanges \ {"execute"}
      BY NewCall DEF R!Exchanges
    <3>5. R!Wakes(p, registerCalls \cup {c}) \/ R!Wakes(q, registerCalls \cup {d})
      BY <2>3 DEF R!RawRead, R!RawWrite
    <3> HIDE DEF p, q, c, d
    <3>. QED BY <3>1, <3>2, <3>3, <3>4, <3>5, Zenon
  <2>. QED BY <2>1, <2>2, <2>3, Zenon
<1>. QED BY <1>0, <1>1, BeginKeepsInv, Zenon DEF RecordFits

\* The core has read the register that is written: the write goes out over the
\* value it was planned for, or it is refused.
LEMMA PreparedKeepsInv ==
  ASSUME RegisterPageInv, R!Prepared
  PROVE  GoodStep
<1>0. UNCHANGED <<mount, blocked>>
  BY DEF R!Prepared, R!Stays
<1> DEFINE w == R!Written(registerPage)
           refused == [w EXCEPT !.refused = TRUE]
<1>1. PICK c \in R!Mine("prepare"), r \in Registers :
        \/ /\ device[r] = c.from
           /\ R!Wakes(registerPage, (registerCalls \ {c}) \cup {[c EXCEPT !.kind = "execute", !.planned = device[r]]})
        \/ R!Wakes(refused, registerCalls \ {c})
  BY Zenon DEF R!Prepared
<1>2. c \in registerCalls /\ c.mount = mount /\ c.kind \in R!Exchanges /\ IsCall(c)
  BY RegisterPageFacts DEF R!Exchanges
<1>3. CASE R!Wakes(refused, registerCalls \ {c})
  <2>1. IsPage(w) /\ w.busy = "" /\ w.recorded = registerPage.recorded
    BY RegisterPageFacts, WrittenGives, Zenon
  <2> HIDE DEF w
  <2>2. IsPage(refused) /\ refused.busy = "" /\ refused.recorded = registerPage.recorded
    BY <2>1, Zenon DEF IsPage, PageFields
  <2> HIDE DEF refused
  <2>. QED BY <1>0, <1>2, <1>3, <2>2, RegisterAnswerKeepsInv, Zenon DEF RecordFits
<1>4. CASE /\ device[r] = c.from
           /\ R!Wakes(registerPage, (registerCalls \ {c}) \cup {[c EXCEPT !.kind = "execute", !.planned = device[r]]})
  <2> DEFINE e == [c EXCEPT !.kind = "execute", !.planned = device[r]]
             idle == [registerPage EXCEPT !.busy = ""]
             rest == registerCalls \ {c}
             cs == rest \cup {e}
  <2>1. /\ IsCall(e) /\ e.mount = mount /\ e.kind = "execute" /\ e.planned = device[r] /\ e.from = c.from
        /\ idle.busy = ""
    BY <1>2, RegisterPageFacts DEF IsCall, CallFields, IsPage, PageFields
  <2>2. registerPage.busy # ""
    BY <1>2, RegisterPageFacts, Zenon DEF RegisterCallsFit, Exchanging
  <2>3. R!Ends(registerPage, cs, TRUE, blocked', other)
    BY <1>0, <1>4 DEF R!Wakes
  <2>4. RegisterCallsFit(rest, idle, mount)
    BY <1>2, <2>1, RegisterPageFacts, ExchangeEnds, Zenon DEF Exchanging
  <2> HIDE DEF e, idle, rest
  <2>5. RegisterCallsFit(cs, registerPage, mount)
    BY <2>1, <2>2, <2>4, RegisterPageFacts, ExchangeBegins, Zenon DEF R!Exchanges
  <2>6. WritesSeen(cs)
    <3>1. WritesSeen(rest)
      BY DEF rest, WritesSeen
    <3>. QED BY <1>4, <2>1, <3>1, Zenon DEF WritesSeen
  <2> HIDE DEF cs
  <2>. QED BY <1>0, <2>3, <2>5, <2>6, RegisterPageFacts, EndsKeepInv
<1>. QED BY <1>1, <1>3, <1>4

-----------------------------------------------------------------------------
(* The surroundings of the page                                               *)

LEMMA OthersKeepInv ==
  ASSUME RegisterPageInv,
         \/ R!OtherRequest \/ R!OldAnswers
         \/ \E on \in BOOLEAN : R!OtherOperation(on) \/ R!Blocks(on)
  PROVE  GoodStep
<1>0. UNCHANGED mount
  BY DEF R!OtherRequest, R!OldAnswers, R!OtherOperation, R!Blocks, R!Stays
<1>1. PICK cs, drains, o :
        R!Ends(registerPage, cs, drains, blocked', o) /\ RegisterCallsFit(cs, registerPage, mount) /\ WritesSeen(cs)
  <2>1. CASE R!OtherRequest
    BY <2>1, RegisterPageFacts DEF R!OtherRequest, R!Wakes, R!Stays
  <2>2. CASE R!OldAnswers
    <3>1. PICK c \in registerCalls : c.mount # mount /\ R!Wakes(registerPage, registerCalls \ {c})
      BY <2>2 DEF R!OldAnswers
    <3>2. RegisterCallsFit(registerCalls \ {c}, registerPage, mount) /\ WritesSeen(registerCalls \ {c})
      BY <3>1, CallGoes
    <3>3. UNCHANGED blocked
      BY <2>2 DEF R!OldAnswers, R!Stays
    <3>. QED BY <3>1, <3>2, <3>3 DEF R!Wakes
  <2>3. ASSUME NEW on \in BOOLEAN, R!OtherOperation(on) \/ R!Blocks(on)
        PROVE  \E drains, o : R!Ends(registerPage, registerCalls, drains, blocked', o)
    BY <2>3 DEF R!OtherOperation, R!Blocks
  <2>. QED BY <2>1, <2>2, <2>3, RegisterPageFacts
<1>. QED BY <1>0, <1>1, RegisterPageFacts, EndsKeepInv

\* Nothing was ever asked for by a mount to come.
LEMMA RemountKeepsInv ==
  ASSUME RegisterPageInv,
         \E s \in 1 .. 2, reason \in {"slave", "page", "connection"} : R!Remount(s, reason)
  PROVE  GoodStep
<1> DEFINE none == {}
           new == R!Call(mount', "catalog", none)
<1>1. PICK kept, cs :
        /\ registerPage' = R!Fresh(kept) /\ mount' = mount + 1 /\ blocked' = blocked
        /\ registerCalls' = cs \cup {new} /\ cs \in {registerCalls, {}}
  BY DEF R!Remount
<1>2. mount \in Nat \ {0} /\ mount' \in Nat \ {0}
  BY <1>1, RegisterPageFacts
<1>3. IsCall(new) /\ new.mount = mount' /\ new.kind = "catalog"
  BY NewCall
<1>4. IsPage(registerPage') /\ registerPage'.busy = "" /\ registerPage'.monitor = FALSE
      /\ registerPage'.recorded = FALSE
  BY <1>1, Zenon DEF R!Fresh, IsPage, PageFields
<1> HIDE DEF new
<1>5. \A c \in cs : IsCall(c) /\ c.mount \in 1 .. mount' /\ c.mount # mount'
  <2>1. ASSUME NEW c \in registerCalls
        PROVE  IsCall(c) /\ c.mount \in 1 .. mount
    BY RegisterPageFacts, Zenon DEF RegisterCallsFit
  <2>2. \A k \in 1 .. mount : k \in 1 .. mount' /\ k # mount'
    <3>1. mount' = mount + 1
      BY <1>1
    <3>. QED BY <3>1, <1>2
  <2>. QED BY <1>1, <2>1, <2>2
<1>6. \A c \in registerCalls' : IsCall(c) /\ c.mount \in 1 .. mount' /\ ~Exchanging(c, mount')
  <2>1. new.mount \in 1 .. mount'
    BY <1>2, <1>3, OwnMount
  <2>2. ~Exchanging(new, mount')
    BY <1>3 DEF Exchanging, R!Exchanges
  <2>. QED BY <1>1, <1>3, <1>5, <2>1, <2>2 DEF Exchanging
<1>7. RegisterCallsFit(registerCalls', registerPage', mount')
  BY <1>4, <1>6, Zenon DEF RegisterCallsFit
<1>8. R!MonitoringIsRecorded'
  BY <1>4, Zenon DEF R!MonitoringIsRecorded, R!Monitoring
<1>9. R!WritesWhatWasSeen
  BY <1>1, <1>3 DEF R!WritesWhatWasSeen
<1>. QED BY <1>2, <1>4, <1>7, <1>8, <1>9, Zenon DEF GoodStep, RegisterPageInv

-----------------------------------------------------------------------------

LEMMA InitRegisterPage ==
  ASSUME R!RegistersInit \/ RegistersMonitored
  PROVE  RegisterPageInv
<1>1. mount = 1 /\ blocked = FALSE
  BY DEF R!RegistersInit, RegistersMonitored
<1>2. IsPage(registerPage) /\ registerPage.busy = "" /\ registerPage.recorded = FALSE /\ registerPage.watching = FALSE
  <2>1. CASE R!RegistersInit
    BY <2>1, Zenon DEF R!RegistersInit, R!Fresh, IsPage, PageFields
  <2>2. CASE RegistersMonitored
    <3> DEFINE f == R!Fresh([R!NotKept EXCEPT !.catalog = TRUE, !.initial = TRUE,
                                  !.values = [r \in Registers |-> IF r \in Manual THEN R!NoValue ELSE 0]])
    <3>1. IsPage(f) /\ f.busy = "" /\ f.recorded = FALSE /\ f.watching = FALSE
      BY DEF R!Fresh, IsPage, PageFields
    <3>2. registerPage = [f EXCEPT !.attempted = Registers, !.monitor = TRUE, !.pinned = Writable]
      BY <2>2 DEF RegistersMonitored
    <3> HIDE DEF f
    <3>. QED BY <3>1, <3>2, Zenon DEF IsPage, PageFields
  <2>. QED BY <2>1, <2>2, Zenon
<1>3. \A c \in registerCalls : IsCall(c) /\ c.mount \in 1 .. 1 /\ ~Exchanging(c, 1)
  <2>1. CASE R!RegistersInit
    <3> DEFINE one == 1
               none == {}
    <3>1. LET c == R!Call(one, "catalog", none) IN IsCall(c) /\ c.kind = "catalog" /\ c.mount = one
      BY NewCall
    <3>. QED BY <2>1, <3>1 DEF R!RegistersInit, Exchanging, R!Exchanges
  <2>. QED BY <2>1 DEF RegistersMonitored
<1>4. RegisterCallsFit(registerCalls, registerPage, mount)
  BY <1>1, <1>2, <1>3, Zenon DEF RegisterCallsFit
<1>5. R!MonitoringIsRecorded
  BY <1>2, Zenon DEF R!MonitoringIsRecorded, R!Monitoring
<1>6. mount \in Nat \ {0}
  BY <1>1
<1>. QED BY <1>2, <1>4, <1>5, <1>6, Zenon DEF RegisterPageInv

LEMMA NextRegisterPage ==
  ASSUME RegisterPageInv, [RegisterSteps]_<<registerVars, left>>
  PROVE  RegisterPageInv' /\ [R!WritesWhatWasSeen]_registerVars
<1>1. CASE UNCHANGED <<mount, registerPage, registerCalls, blocked>>
  BY <1>1 DEF RegisterPageInv, R!MonitoringIsRecorded, R!WritesWhatWasSeen
<1>2. CASE \/ UNCHANGED <<registerVars, left>>
           \/ \E r \in Writable, value \in 0 .. MaxValue : R!DeviceMoves(r, value)
  BY <1>1, <1>2 DEF registerVars, R!DeviceMoves
<1>3. CASE R!UserSteps
  BY <1>3, RefreshKeepsInv, SelectKeepsInv, ViewKeepsInv, ResetKeepsInv, BeginsKeepInv, RemountKeepsInv
  DEF R!UserSteps, GoodStep
<1>4. CASE R!Answers
  BY <1>4, CatalogKeepsInv, DefinitionKeepsInv, ResetKeepsInv, SnapshotKeepsInv, WatchEndsKeepsInv,
     ExecutedKeepsInv, OtherAnswersKeepInv, PreparedKeepsInv, OthersKeepInv
  DEF R!Answers, GoodStep
<1>. QED BY <1>1, <1>2, <1>3, <1>4, BeginsKeepInv, OthersKeepInv DEF RegisterSteps, Chosen, GoodStep

\* Two exchanges of the page are one.
LEMMA OneExchangeAtATime == RegisterPageInv => R!OneExchange
<1> SUFFICES ASSUME RegisterPageInv
             PROVE  R!OneExchange
  OBVIOUS
<1> DEFINE mine == {c \in registerCalls : c.mount = mount /\ c.kind \in R!Exchanges}
<1>1. registerPage.busy # "" <=> mine # {}
  BY RegisterPageFacts, Zenon DEF RegisterCallsFit, Exchanging
<1>2. \A c, d \in mine : c = d
  BY RegisterPageFacts, Zenon DEF RegisterCallsFit, Exchanging
<1>. QED BY <1>1, <1>2, Zenon DEF R!OneExchange

-----------------------------------------------------------------------------
(* The viewer of the manuals                                                  *)

\* What is attached and parsed is of the manual asked for last, or nothing is; a
\* load waits without a worker and a document until it has a worker of that
\* manual; and what is searched, counted and shown is of one text.
ManualInv ==
  /\ V!ManualIsOfTarget /\ V!AnswersAreOfThisManual
  /\ load \in {"waits", "reads"} => task = V!NoManual
  /\ load = "reads" => ~retiring
  /\ load = "opens" => task = target.manual
  /\ load # "" => document = V!NoManual
  /\ {"shown", "of"} \subseteq DOMAIN outline
  /\ {"text", "submitted", "pending", "matches"} \subseteq DOMAIN search
  /\ search.submitted \in {"", search.text} /\ search.pending \in {"", search.text}

LEMMA InitManual == ASSUME V!ManualInit PROVE ManualInv
BY Zenon DEF V!ManualInit, V!NoSearch, ManualInv, V!ManualIsOfTarget, V!AnswersAreOfThisManual

LEMMA SameManual ==
  ASSUME ManualInv,
         UNCHANGED <<target, load, task, retiring, document, attached, outline, search>>
  PROVE  ManualInv'
BY Zenon DEF ManualInv, V!ManualIsOfTarget, V!AnswersAreOfThisManual

\* Another target, and a viewer that is closed
LEMMA ShowsKeepInv ==
  ASSUME ManualInv, NEW o \in BOOLEAN, NEW t, V!Shows(o, t), o \/ t = target
  PROVE  ManualInv'
<1>1. CASE ~o
  <2>1. UNCHANGED <<document, outline>> /\ load' = "" /\ attached' = V!NoManual /\ target' = target
    BY <1>1, Zenon DEF V!Shows, V!Release
  <2>2. (UNCHANGED task /\ (~retiring => ~retiring')) \/ task' = V!NoManual
    BY <1>1, Zenon DEF V!Shows, V!Release
  <2>3. search' = [search EXCEPT !.submitted = "", !.pending = ""]
    BY <1>1, Zenon DEF V!Shows
  <2>4. /\ {"text", "submitted", "pending", "matches"} \subseteq DOMAIN search'
        /\ search'.submitted = "" /\ search'.pending = "" /\ search'.matches = search.matches
        /\ search'.text = search.text
    BY <2>3, Zenon DEF ManualInv
  <2>5. document # V!NoManual => UNCHANGED task
    BY <1>1, Zenon DEF V!Shows, V!Release
  <2>6. V!ManualIsOfTarget'
    BY <2>1, <2>2, <2>5, Zenon DEF ManualInv, V!ManualIsOfTarget
  <2>7. V!AnswersAreOfThisManual'
    BY <2>1, <2>4, Zenon DEF ManualInv, V!AnswersAreOfThisManual
  <2>. QED BY <2>1, <2>4, <2>6, <2>7, Zenon DEF ManualInv
<1>2. CASE o
  <2>1. search' = V!NoSearch /\ target' = t
    BY <1>2, Zenon DEF V!Shows
  <2>2. /\ {"text", "submitted", "pending", "matches"} \subseteq DOMAIN search'
        /\ search'.submitted = "" /\ search'.pending = "" /\ search'.matches = ""
    BY <2>1, Zenon DEF V!NoSearch
  <2>3. CASE document # V!NoManual /\ document = t.manual
    <3>1. UNCHANGED <<task, document, retiring>> /\ load' = "" /\ outline' = [outline EXCEPT !.shown = FALSE]
      BY <1>2, <2>3, Zenon DEF V!Shows, V!Release
    <3>2. attached' = attached \/ attached' = document
      BY <1>2, <2>3, Zenon DEF V!Shows
    <3>3. {"shown", "of"} \subseteq DOMAIN outline' /\ outline'.of = outline.of
      BY <3>1, Zenon DEF ManualInv
    <3>. QED BY <2>1, <2>2, <2>3, <3>1, <3>2, <3>3, Zenon
         DEF ManualInv, V!ManualIsOfTarget, V!AnswersAreOfThisManual
  <2>4. CASE ~(document # V!NoManual /\ document = t.manual)
    <3>1. /\ task' = V!NoManual /\ document' = V!NoManual /\ attached' = V!NoManual /\ load' = "waits"
          /\ outline' = [shown |-> FALSE, of |-> V!NoManual]
      BY <1>2, <2>4, Zenon DEF V!Shows, V!Release
    <3>. QED BY <2>1, <2>2, <3>1, Zenon DEF ManualInv, V!ManualIsOfTarget, V!AnswersAreOfThisManual
  <2>. QED BY <2>3, <2>4
<1>. QED BY <1>1, <1>2

\* The load of a manual
LEMMA LoadKeepsManualInv ==
  ASSUME ManualInv, V!Retired \/ V!Reads \/ V!ReadEnds \/ V!Opened \/ V!OpenFails \/ V!PagesInit
  PROVE  ManualInv'
<1>1. CASE V!Fails /\ load # "" /\ UNCHANGED target
  BY <1>1, Zenon DEF V!Fails, V!Release, ManualInv, V!ManualIsOfTarget, V!AnswersAreOfThisManual
<1>2. CASE V!Retired \/ V!Reads \/ V!PagesInit
  <2>1. /\ UNCHANGED <<target, task, document, attached, outline, search>>
        /\ ~retiring => ~retiring'
        /\ UNCHANGED load \/ (load = "waits" /\ load' = "reads" /\ ~retiring')
    BY <1>2 DEF V!Retired, V!Reads, V!PagesInit
  <2>2. V!ManualIsOfTarget' /\ V!AnswersAreOfThisManual'
    BY <2>1, Zenon DEF ManualInv, V!ManualIsOfTarget, V!AnswersAreOfThisManual
  <2>. QED BY <2>1, <2>2, Zenon DEF ManualInv
<1>3. CASE V!ReadEnds
  BY <1>1, <1>3, Zenon DEF V!ReadEnds, V!Visible, ManualInv, V!ManualIsOfTarget, V!AnswersAreOfThisManual
<1>4. CASE V!Opened
  BY <1>1, <1>4, Zenon DEF V!Opened, V!Visible, ManualInv, V!ManualIsOfTarget, V!AnswersAreOfThisManual
<1>5. CASE V!OpenFails
  BY <1>1, <1>5 DEF V!OpenFails, V!Visible
<1>. QED BY <1>2, <1>3, <1>4, <1>5

\* The outline and the search
LEMMA ToolbarKeepsManualInv ==
  ASSUME ManualInv,
         \/ V!ToggleOutline \/ V!AsksOutline \/ V!OutlineArrives \/ V!Find \/ V!Counts \/ V!ShowsMatches
         \/ \E n \in 1 .. Pages : V!Navigate(n)
         \/ \E text \in Terms : V!EditSearch(text)
         \/ \E state \in {"searching", "nothing"} : V!FindState(state)
  PROVE  ManualInv'
<1>1. UNCHANGED <<target, load, task, retiring, document, attached>>
  BY Zenon DEF V!ToggleOutline, V!AsksOutline, V!OutlineArrives, V!Find, V!Counts, V!ShowsMatches, V!Navigate,
         V!EditSearch, V!FindState, V!Searching
<1>2. /\ {"shown", "of"} \subseteq DOMAIN outline'
      /\ outline'.of \in {V!NoManual, document}
  <2>1. CASE V!ToggleOutline
    BY <2>1, Zenon DEF V!ToggleOutline, ManualInv, V!AnswersAreOfThisManual
  <2>2. CASE V!OutlineArrives
    BY <2>2, Zenon DEF V!OutlineArrives, ManualInv, V!AnswersAreOfThisManual
  <2>3. CASE UNCHANGED outline
    BY <2>3, Zenon DEF ManualInv, V!AnswersAreOfThisManual
  <2>. QED BY <2>1, <2>2, <2>3, Zenon DEF V!AsksOutline, V!Find, V!Counts, V!ShowsMatches, V!Navigate,
           V!EditSearch, V!FindState, V!Searching
<1>3. /\ {"text", "submitted", "pending", "matches"} \subseteq DOMAIN search'
      /\ search'.submitted \in {"", search'.text} /\ search'.pending \in {"", search'.text}
      /\ search'.matches \in {"", "searching", "nothing", search'.text}
  <2>1. CASE V!Find
    BY <2>1, Zenon DEF V!Find, ManualInv, V!AnswersAreOfThisManual
  <2>2. CASE V!Counts
    BY <2>2, Zenon DEF V!Counts, ManualInv, V!AnswersAreOfThisManual
  <2>3. CASE V!ShowsMatches
    BY <2>3, Zenon DEF V!ShowsMatches, ManualInv, V!AnswersAreOfThisManual
  <2>4. ASSUME NEW text \in Terms, V!EditSearch(text)
        PROVE  search' = [V!NoSearch EXCEPT !.text = text]
    BY <2>4 DEF V!EditSearch
  <2>5. ASSUME NEW state \in {"searching", "nothing"}, V!FindState(state)
        PROVE  search' = [search EXCEPT !.pending = "", !.matches = state]
    BY <2>5, Zenon DEF V!FindState
  <2>6. CASE \E text \in Terms : search' = [V!NoSearch EXCEPT !.text = text]
    BY <2>6, Zenon DEF V!NoSearch
  <2>7. CASE \E state \in {"searching", "nothing"} : search' = [search EXCEPT !.pending = "", !.matches = state]
    BY <2>7, Zenon DEF ManualInv, V!AnswersAreOfThisManual
  <2>8. CASE UNCHANGED search
    BY <2>8, Zenon DEF ManualInv, V!AnswersAreOfThisManual
  <2>. QED BY <2>1, <2>2, <2>3, <2>4, <2>5, <2>6, <2>7, <2>8, Zenon
           DEF V!AsksOutline, V!OutlineArrives, V!ToggleOutline, V!Navigate
<1>. QED BY <1>1, <1>2, <1>3, Zenon DEF ManualInv, V!ManualIsOfTarget, V!AnswersAreOfThisManual

LEMMA NextManual ==
  ASSUME ManualInv, [V!ManualSteps]_manualVars
  PROVE  ManualInv'
<1>1. CASE UNCHANGED manualVars
  BY <1>1, SameManual DEF manualVars
<1>2. ASSUME NEW t, V!OpenManual(t)
      PROVE  ManualInv'
  <2> DEFINE yes == TRUE
  <2>1. V!Shows(yes, t) /\ yes \in BOOLEAN /\ yes
    BY <1>2, Zenon DEF V!OpenManual
  <2> HIDE DEF yes
  <2>. QED BY <2>1, ShowsKeepInv
<1>3. CASE V!CloseManual
  <2> DEFINE no == FALSE
  <2>1. V!Shows(no, target) /\ no \in BOOLEAN
    BY <1>3, Zenon DEF V!CloseManual
  <2> HIDE DEF no
  <2>. QED BY <2>1, ShowsKeepInv
<1>. QED BY <1>1, <1>2, <1>3, LoadKeepsManualInv, ToolbarKeepsManualInv DEF V!ManualSteps, V!Switches

-----------------------------------------------------------------------------
(* Register page and viewer: the theorems                                     *)

\* What a step of MCUiPages is for the register page and for the viewer
LEMMA NextParts ==
  ASSUME [MCNext]_allVars
  PROVE  [RegisterSteps]_<<registerVars, left>> /\ [V!ManualSteps]_manualVars
<1>1. CASE UNCHANGED allVars
  BY <1>1 DEF allVars, registerVars, manualVars
<1>2. CASE MCNext
  <2>1. CASE part = "registers"
    BY <1>2, <2>1 DEF MCNext, Stay
  <2>2. CASE part = "manual"
    BY <1>2, <2>2 DEF MCNext, Stay
  <2>. QED BY <1>2, <2>1, <2>2 DEF MCNext, Stay
<1>. QED BY <1>1, <1>2

PagesInv == RegisterPageInv /\ ManualInv

LEMMA InitPages == MCInit => PagesInv
<1> SUFFICES ASSUME MCInit
             PROVE  PagesInv
  OBVIOUS
<1>1. V!ManualInit /\ (R!RegistersInit \/ RegistersMonitored)
  BY DEF MCInit
<1>. QED BY <1>1, InitRegisterPage, InitManual DEF PagesInv

LEMMA NextPages == PagesInv /\ [MCNext]_allVars => PagesInv' /\ [R!WritesWhatWasSeen]_registerVars
<1> SUFFICES ASSUME PagesInv, [MCNext]_allVars
             PROVE  PagesInv' /\ [R!WritesWhatWasSeen]_registerVars
  OBVIOUS
<1>. QED BY NextParts, NextRegisterPage, NextManual DEF PagesInv

\* The register page has one exchange with its slave at a time, is busy exactly
\* while it has one, and records its monitoring exactly while it polls; the manual
\* shown, its outline and its matches are those that were asked for last: for all
\* registers, manuals and terms, and whatever the user does meanwhile.
THEOREM PagesAreSafe == MCSpec => []RegisterPageIsSafe
<1>1. PagesInv => RegisterPageIsSafe
  BY OneExchangeAtATime, Zenon DEF PagesInv, RegisterPageInv, ManualInv, RegisterPageIsSafe
<1>2. PagesInv /\ [MCNext]_allVars => PagesInv'
  BY NextPages
<1>. QED BY <1>1, <1>2, InitPages, PTL DEF MCSpec

\* A register is written on the slave and over the value that the user saw.
THEOREM WritesAreSeen == MCSpec => WritesOverWhatWasSeen
<1>1. PagesInv /\ [MCNext]_allVars => PagesInv'
  BY NextPages
<1>2. PagesInv /\ [MCNext]_allVars => [R!WritesWhatWasSeen]_registerVars
  BY NextPages
<1>. QED BY <1>1, <1>2, InitPages, PTL DEF MCSpec, WritesOverWhatWasSeen

-----------------------------------------------------------------------------
(* Induction over numbers, and what a filter returns                          *)

LEMMA SequenceIs == ASSUME NEW X, NEW s \in Seq(X) PROVE Len(s) \in Nat /\ DOMAIN s = 1 .. Len(s)
OBVIOUS

\* Every set of numbers has a least one: what a proof by induction takes to be the
\* least counterexample.
LEMMA LeastNumber ==
  ASSUME NEW T, T \subseteq Nat, T # {}
  PROVE  \E n \in T : \A m \in T : n <= m
<1> DEFINE before == OpToRel(<, Nat)
<1>1. IsWellFoundedOn(before, Nat)
  BY NatLessThanWellFounded, Zenon
<1>2. PICK n \in T : \A m \in T : <<m, n>> \notin before
  <2> HIDE DEF before
  <2>. QED BY <1>1, WFMin
<1>3. \A m \in T : ~(m < n)
  BY <1>2 DEF OpToRel
<1>. QED BY <1>3

\* A recursion over numbers is one function: each value is made of the one before.
\* The values are of a set, so that no induction over an operator is needed.
Recursive(g, W, base, step, k) ==
  /\ g \in [0 .. k -> W] /\ g[0] = base
  /\ \A n \in 1 .. k : g[n] = step[<<n, g[n - 1]>>]

LEMMA RecursionExists ==
  ASSUME NEW W, NEW base \in W, NEW step \in [Nat \X W -> W], NEW k \in Nat
  PROVE  \E g : Recursive(g, W, base, step, k)
<1> DEFINE T == {m \in Nat : ~\E g : Recursive(g, W, base, step, m)}
<1> SUFFICES ASSUME T # {} PROVE FALSE
  OBVIOUS
<1>1. PICK m \in T : \A l \in T : m <= l
  <2>1. T \subseteq Nat
    OBVIOUS
  <2> HIDE DEF T
  <2>. QED BY <2>1, LeastNumber
<1>2. m # 0
  <2> DEFINE g == [n \in 0 .. 0 |-> base]
  <2>1. g \in [0 .. 0 -> W] /\ g[0] = base /\ 1 .. 0 = {}
    OBVIOUS
  <2>2. Recursive(g, W, base, step, 0)
    BY <2>1 DEF Recursive
  <2>. QED BY <2>2, <1>1
<1>3. m - 1 \in Nat /\ ~(m <= m - 1) /\ m \in Nat
  BY <1>1, <1>2
<1>4. PICK g : Recursive(g, W, base, step, m - 1)
  BY <1>1, <1>3
<1> DEFINE h == [n \in 0 .. m |-> IF n = m THEN step[<<m, g[m - 1]>>] ELSE g[n]]
<1>5. h \in [0 .. m -> W] /\ h[0] = base
  <2>1. g[m - 1] \in W /\ g \in [0 .. m - 1 -> W] /\ g[0] = base
    BY <1>3, <1>4 DEF Recursive
  <2>2. step[<<m, g[m - 1]>>] \in W
    BY <2>1, <1>3
  <2>. QED BY <2>1, <2>2, <1>2, <1>3
<1>6. \A n \in 1 .. m : h[n] = step[<<n, h[n - 1]>>]
  <2> TAKE n \in 1 .. m
  <2>1. n - 1 \in 0 .. m /\ n - 1 # m /\ n \in 0 .. m /\ h[n - 1] = g[n - 1]
    BY <1>3
  <2>2. CASE n = m
    BY <2>1, <2>2
  <2>3. CASE n # m
    <3>1. n \in 1 .. m - 1
      BY <2>3, <1>3
    <3>. QED BY <2>1, <2>3, <3>1, <1>4 DEF Recursive
  <2>. QED BY <2>2, <2>3
<1>7. Recursive(h, W, base, step, m)
  BY <1>5, <1>6 DEF Recursive
<1>. QED BY <1>1, <1>7

\* What holds for 0 and goes from one number to the next holds for every number.
LEMMA NumbersAre ==
  ASSUME NEW k \in Nat, NEW T, 0 \in T, \A n \in 1 .. k : n - 1 \in T => n \in T
  PROVE  k \in T
<1> DEFINE U == {n \in 0 .. k : n \notin T}
<1> SUFFICES ASSUME U # {} PROVE FALSE
  OBVIOUS
<1>1. PICK m \in U : \A l \in U : m <= l
  <2>1. U \subseteq Nat
    OBVIOUS
  <2> HIDE DEF U
  <2>. QED BY <2>1, LeastNumber
<1>2. m \in 1 .. k /\ m - 1 \in 0 .. k /\ ~(m <= m - 1)
  BY <1>1
<1>. QED BY <1>1, <1>2

\* The recursion of the filter, as an equation for its values up to n
FilterStep(s, places, n, t) == IF n \in places THEN Append(t, s[n]) ELSE t
FiltersUpTo(g, s, places, X, k) ==
  /\ g \in [0 .. k -> Seq(X)] /\ g[0] = << >>
  /\ \A n \in 1 .. k : g[n] = FilterStep(s, places, n, g[n - 1])

LEMMA FilterExists ==
  ASSUME NEW X, NEW s \in Seq(X), NEW places
  PROVE  \E g : FiltersUpTo(g, s, places, X, Len(s))
<1> DEFINE T == {k \in 0 .. Len(s) : ~\E g : FiltersUpTo(g, s, places, X, k)}
<1>1. Len(s) \in Nat /\ \A n \in 1 .. Len(s) : s[n] \in X
  OBVIOUS
<1> SUFFICES ASSUME T # {} PROVE FALSE
  BY <1>1
<1>2. PICK k \in T : \A m \in T : k <= m
  <2>1. T \subseteq Nat
    BY <1>1
  <2> HIDE DEF T
  <2>. QED BY <2>1, LeastNumber
<1>3. k # 0
  <2> DEFINE g == [n \in 0 .. 0 |-> << >>]
  <2>1. << >> \in Seq(X)
    OBVIOUS
  <2>2. FiltersUpTo(g, s, places, X, 0)
    BY <2>1 DEF FiltersUpTo
  <2>. QED BY <2>2, <1>2
<1>4. k \in 1 .. Len(s) /\ k - 1 \in 0 .. Len(s) /\ k - 1 < k /\ ~(k <= k - 1)
  BY <1>1, <1>2, <1>3
<1>5. PICK g : FiltersUpTo(g, s, places, X, k - 1)
  BY <1>2, <1>4
<1> DEFINE h == [n \in 0 .. k |-> IF n = k THEN FilterStep(s, places, k, g[k - 1]) ELSE g[n]]
<1>6. FilterStep(s, places, k, g[k - 1]) \in Seq(X)
  <2>1. g[k - 1] \in Seq(X) /\ s[k] \in X
    BY <1>1, <1>4, <1>5 DEF FiltersUpTo
  <2>. QED BY <2>1 DEF FilterStep
<1>7. h \in [0 .. k -> Seq(X)] /\ h[0] = << >>
  BY <1>4, <1>5, <1>6 DEF FiltersUpTo
<1>8. \A n \in 1 .. k : h[n] = FilterStep(s, places, n, h[n - 1])
  <2> TAKE n \in 1 .. k
  <2>1. n - 1 \in 0 .. k /\ n - 1 # k /\ n \in 0 .. k /\ h[n - 1] = g[n - 1]
    BY <1>4
  <2>2. CASE n = k
    BY <2>1, <2>2
  <2>3. CASE n # k
    <3>1. n \in 1 .. k - 1
      BY <2>3, <1>4
    <3>. QED BY <2>1, <2>3, <3>1, <1>5 DEF FiltersUpTo
  <2>. QED BY <2>2, <2>3
<1>. QED BY <1>2, <1>7, <1>8 DEF FiltersUpTo

\* What the recursion computes, up to n
PicksUpTo(t, s, places, n) ==
  \E from \in [1 .. Len(t) -> places \cap (1 .. n)] :
    /\ \A i, j \in 1 .. Len(t) : i < j => from[i] < from[j]
    /\ \A i \in 1 .. Len(t) : t[i] = s[from[i]]
    /\ \A m \in places \cap (1 .. n) : \E i \in 1 .. Len(t) : from[i] = m

LEMMA PicksNext ==
  ASSUME NEW X, NEW s \in Seq(X), NEW places, NEW n \in 1 .. Len(s), NEW t \in Seq(X), PicksUpTo(t, s, places, n - 1)
  PROVE  /\ FilterStep(s, places, n, t) \in Seq(X)
         /\ PicksUpTo(FilterStep(s, places, n, t), s, places, n)
<1>1. Len(s) \in Nat /\ s[n] \in X /\ Len(t) \in Nat /\ n - 1 < n /\ n \in 1 .. n
  OBVIOUS
<1>2. PICK from \in [1 .. Len(t) -> places \cap (1 .. n - 1)] :
        /\ \A i, j \in 1 .. Len(t) : i < j => from[i] < from[j]
        /\ \A i \in 1 .. Len(t) : t[i] = s[from[i]]
        /\ \A m \in places \cap (1 .. n - 1) : \E i \in 1 .. Len(t) : from[i] = m
  BY DEF PicksUpTo
<1>3. CASE n \notin places
  <2>1. places \cap (1 .. n) = places \cap (1 .. n - 1)
    BY <1>1, <1>3
  <2>. QED BY <1>3, <2>1 DEF FilterStep, PicksUpTo
<1>4. CASE n \in places
  <2> DEFINE u == Append(t, s[n])
             to == [i \in 1 .. Len(t) + 1 |-> IF i = Len(t) + 1 THEN n ELSE from[i]]
  <2>1. /\ u \in Seq(X) /\ Len(u) = Len(t) + 1 /\ u[Len(t) + 1] = s[n]
        /\ \A i \in 1 .. Len(t) : u[i] = t[i]
    BY <1>1
  <2>2. FilterStep(s, places, n, t) = u
    BY <1>4 DEF FilterStep
  <2> HIDE DEF u
  <2>3. \A i \in 1 .. Len(t) : /\ i \in 1 .. Len(t) + 1 /\ i # Len(t) + 1
                               /\ to[i] = from[i] /\ from[i] \in places \cap (1 .. n - 1)
    BY <1>1, <1>2
  <2>4. to[Len(t) + 1] = n
    BY <1>1
  <2>5. \A i \in 1 .. Len(u) : i \in 1 .. Len(t) \/ i = Len(t) + 1
    BY <1>1, <2>1
  <2>6. to \in [1 .. Len(u) -> places \cap (1 .. n)]
    BY <1>1, <1>2, <1>4, <2>1
  <2> HIDE DEF to
  <2>7. \A i, j \in 1 .. Len(u) : i < j => to[i] < to[j]
    <3> TAKE i, j \in 1 .. Len(u)
    <3> HAVE i < j
    <3>1. i \in 1 .. Len(t)
      BY <1>1, <2>1
    <3>2. CASE j \in 1 .. Len(t)
      BY <3>1, <3>2, <1>2, <2>3
    <3>3. CASE j = Len(t) + 1
      BY <3>1, <3>3, <1>1, <2>3, <2>4
    <3>. QED BY <2>5, <3>2, <3>3
  <2>8. \A i \in 1 .. Len(u) : u[i] = s[to[i]]
    BY <1>2, <2>1, <2>3, <2>4, <2>5
  <2>9. \A m \in places \cap (1 .. n) : \E i \in 1 .. Len(u) : to[i] = m
    <3> TAKE m \in places \cap (1 .. n)
    <3>1. CASE m = n
      BY <3>1, <1>1, <2>1, <2>4
    <3>2. CASE m # n
      <4>1. m \in places \cap (1 .. n - 1)
        BY <3>2, <1>1
      <4>2. PICK i \in 1 .. Len(t) : from[i] = m
        BY <4>1, <1>2
      <4>3. i \in 1 .. Len(u) /\ to[i] = m
        BY <4>2, <1>1, <2>1, <2>3
      <4>. QED BY <4>3
    <3>. QED BY <3>1, <3>2
  <2>10. PicksUpTo(u, s, places, n)
    <3> HIDE DEF u
    <3>. QED BY <2>6, <2>7, <2>8, <2>9, Zenon DEF PicksUpTo
  <2>. QED BY <2>1, <2>2, <2>10, Zenon
<1>. QED BY <1>3, <1>4

\* The filter returns the entries at the places, each once and in their order.
LEMMA FilteredGives ==
  ASSUME NEW X, NEW s \in Seq(X), NEW places
  PROVE  S!Filtered(s, places) \in Seq(X) /\ PicksUpTo(S!Filtered(s, places), s, places, Len(s))
<1> DEFINE Recursion(g) == g = [n \in 0 .. Len(s) |->
                                  IF n = 0 THEN << >>
                                  ELSE IF n \in places THEN Append(g[n - 1], s[n]) ELSE g[n - 1]]
           f == CHOOSE g : Recursion(g)
<1>1. Len(s) \in Nat
  OBVIOUS
<1>2. PICK g : FiltersUpTo(g, s, places, X, Len(s))
  BY FilterExists
<1>3. Recursion(g)
  <2>1. g = [n \in 0 .. Len(s) |-> g[n]]
    BY <1>2 DEF FiltersUpTo
  <2>2. \A n \in 0 .. Len(s) : g[n] = IF n = 0 THEN << >>
                                      ELSE IF n \in places THEN Append(g[n - 1], s[n]) ELSE g[n - 1]
    <3> TAKE n \in 0 .. Len(s)
    <3>1. CASE n = 0
      BY <3>1, <1>2 DEF FiltersUpTo
    <3>2. CASE n # 0
      <4>1. n \in 1 .. Len(s)
        BY <3>2, <1>1
      <4>2. g[n] = FilterStep(s, places, n, g[n - 1])
        BY <4>1, <1>2 DEF FiltersUpTo
      <4>. QED BY <3>2, <4>2 DEF FilterStep
    <3>. QED BY <3>1, <3>2
  <2>. QED BY <2>1, <2>2
<1>4. Recursion(f)
  <2> HIDE DEF Recursion
  <2>. QED BY <1>3
<1>5. S!Filtered(s, places) = f[Len(s)]
  BY DEF S!Filtered
<1>6. f[0] = << >> /\ \A n \in 1 .. Len(s) : f[n] = FilterStep(s, places, n, f[n - 1])
  <2> HIDE DEF f
  <2>1. \A n \in 0 .. Len(s) : f[n] = IF n = 0 THEN << >>
                                      ELSE IF n \in places THEN Append(f[n - 1], s[n]) ELSE f[n - 1]
    BY <1>4
  <2>2. 0 \in 0 .. Len(s)
    BY <1>1
  <2>3. f[0] = << >>
    BY <2>1, <2>2
  <2>4. ASSUME NEW n \in 1 .. Len(s)
        PROVE  f[n] = FilterStep(s, places, n, f[n - 1])
    <3>1. n \in 0 .. Len(s) /\ n # 0
      BY <1>1
    <3>. QED BY <2>1, <3>1 DEF FilterStep
  <2>. QED BY <2>3, <2>4
<1> HIDE DEF f, Recursion
<1> DEFINE T == {n \in 0 .. Len(s) : ~(f[n] \in Seq(X) /\ PicksUpTo(f[n], s, places, n))}
<1>7. ASSUME T # {} PROVE FALSE
  <2>1. PICK k \in T : \A m \in T : k <= m
    <3>1. T \subseteq Nat
      BY <1>1
    <3> HIDE DEF T
    <3>. QED BY <1>7, <3>1, LeastNumber
  <2>2. k # 0
    <3>1. << >> \in Seq(X) /\ Len(<< >>) = 0
      OBVIOUS
    <3>2. 1 .. 0 = {}
      OBVIOUS
    <3>3. [i \in {} |-> i] \in [{} -> places \cap (1 .. 0)]
      OBVIOUS
    <3>4. PicksUpTo(<< >>, s, places, 0)
      BY <3>1, <3>2, <3>3 DEF PicksUpTo
    <3>. QED BY <3>1, <3>4, <1>6, <2>1
  <2>3. k \in 1 .. Len(s) /\ k - 1 \in 0 .. Len(s) /\ ~(k <= k - 1)
    BY <1>1, <2>1, <2>2
  <2>4. f[k - 1] \in Seq(X) /\ PicksUpTo(f[k - 1], s, places, k - 1)
    BY <2>1, <2>3
  <2>5. f[k] \in Seq(X) /\ PicksUpTo(f[k], s, places, k)
    BY <1>6, <2>3, <2>4, PicksNext
  <2>. QED BY <2>1, <2>5
<1>8. Len(s) \in 0 .. Len(s)
  BY <1>1
<1>. QED BY <1>5, <1>7, <1>8

\* Which entries these are
LEMMA FilterElements ==
  ASSUME NEW X, NEW s \in Seq(X), NEW places, places \subseteq DOMAIN s
  PROVE  LET t == S!Filtered(s, places)
         IN  /\ t \in Seq(X)
             /\ \A i \in DOMAIN t : \E n \in places : t[i] = s[n]
             /\ \A n \in places : \E i \in DOMAIN t : t[i] = s[n]
<1> DEFINE t == S!Filtered(s, places)
<1>1. t \in Seq(X) /\ PicksUpTo(t, s, places, Len(s))
  BY FilteredGives
<1> HIDE DEF t
<1>2. DOMAIN t = 1 .. Len(t) /\ DOMAIN s = 1 .. Len(s)
  BY <1>1, SequenceIs
<1>3. PICK from \in [1 .. Len(t) -> places \cap (1 .. Len(s))] :
        /\ \A i \in 1 .. Len(t) : t[i] = s[from[i]]
        /\ \A m \in places \cap (1 .. Len(s)) : \E i \in 1 .. Len(t) : from[i] = m
  BY <1>1 DEF PicksUpTo
<1>4. \A i \in DOMAIN t : from[i] \in places /\ t[i] = s[from[i]]
  BY <1>2, <1>3
<1>5. \A n \in places : \E i \in DOMAIN t : t[i] = s[n]
  <2> TAKE n \in places
  <2>1. PICK i \in 1 .. Len(t) : from[i] = n
    BY <1>2, <1>3
  <2>. QED BY <2>1, <1>2, <1>3
<1>6. \A i \in DOMAIN t : \E n \in places : t[i] = s[n]
  BY <1>4
<1>. QED BY <1>1, <1>5, <1>6 DEF t

\* A list without duplicates has the files of the list it is made of, each once.
LEMMA UniqueGives ==
  ASSUME NEW X, NEW s \in Seq(X)
  PROVE  LET u == S!uniqueEepromSources(s)
         IN  /\ u \in Seq(X)
             /\ \A i \in DOMAIN u : \E n \in DOMAIN s : u[i] = s[n]
             /\ S!Files(u) = S!Files(s)
             /\ \A i, j \in DOMAIN u : i # j => u[i].file # u[j].file
<1> DEFINE u == S!uniqueEepromSources(s)
           places == S!FirstOfFile(s)
<1>1. u = S!Filtered(s, places)
  BY DEF S!uniqueEepromSources
<1>2. /\ Len(s) \in Nat /\ DOMAIN s = 1 .. Len(s) /\ places \subseteq DOMAIN s
  BY SequenceIs DEF S!FirstOfFile
<1> HIDE DEF u, places
<1>3. /\ u \in Seq(X) /\ PicksUpTo(u, s, places, Len(s))
      /\ \A i \in DOMAIN u : \E n \in places : u[i] = s[n]
      /\ \A n \in places : \E i \in DOMAIN u : u[i] = s[n]
  BY <1>1, <1>2, FilteredGives, FilterElements
<1>4. Len(u) \in Nat /\ DOMAIN u = 1 .. Len(u)
  BY <1>3, SequenceIs
<1>5. ASSUME NEW n \in DOMAIN s PROVE \E k \in places : s[k].file = s[n].file
  <2> DEFINE T == {m \in DOMAIN s : s[m].file = s[n].file}
  <2>1. T \subseteq Nat /\ T # {}
    BY <1>2
  <2>2. PICK k \in T : \A m \in T : k <= m
    <3> HIDE DEF T
    <3>. QED BY <2>1, LeastNumber
  <2>3. k \in DOMAIN s /\ k \in Nat /\ s[k].file = s[n].file
    BY <2>1
  <2>4. ASSUME NEW i \in 1 .. k - 1 PROVE s[i].file # s[k].file
    <3>1. i \in DOMAIN s /\ ~(k <= i)
      BY <1>2, <2>3
    <3>. QED BY <3>1, <2>2, <2>3
  <2>5. k \in places
    BY <2>3, <2>4 DEF places, S!FirstOfFile, S!sameEepromSource, S!sourcePathKey
  <2>. QED BY <2>3, <2>5
<1>6. S!Files(u) = S!Files(s)
  <2>1. S!Files(u) \subseteq S!Files(s)
    BY <1>2, <1>3 DEF S!Files
  <2>2. ASSUME NEW f \in S!Files(s) PROVE f \in S!Files(u)
    <3>1. PICK n \in DOMAIN s : f = s[n].file
      BY DEF S!Files
    <3>2. PICK k \in places : s[k].file = s[n].file
      BY <1>5
    <3>3. PICK i \in DOMAIN u : u[i] = s[k]
      BY <1>3
    <3>. QED BY <3>1, <3>2, <3>3 DEF S!Files
  <2>. QED BY <2>1, <2>2
<1>7. ASSUME NEW i \in DOMAIN u, NEW j \in DOMAIN u, i < j PROVE u[i].file # u[j].file
  <2>1. PICK from \in [1 .. Len(u) -> places \cap (1 .. Len(s))] :
          /\ \A a, b \in 1 .. Len(u) : a < b => from[a] < from[b]
          /\ \A a \in 1 .. Len(u) : u[a] = s[from[a]]
    BY <1>3 DEF PicksUpTo
  <2>2. from[i] < from[j] /\ from[i] \in 1 .. Len(s) /\ from[j] \in places /\ from[j] \in 1 .. Len(s)
    BY <1>4, <1>7, <2>1
  <2>3. from[i] \in 1 .. from[j] - 1
    BY <2>2
  <2>4. s[from[i]].file # s[from[j]].file
    BY <2>2, <2>3 DEF places, S!FirstOfFile, S!sameEepromSource, S!sourcePathKey
  <2>. QED BY <1>4, <2>1, <2>4
<1>8. \A i, j \in DOMAIN u : i # j => i < j \/ j < i
  BY <1>4
<1>9. \A i, j \in DOMAIN u : i # j => u[i].file # u[j].file
  BY <1>7, <1>8
<1>10. \A i \in DOMAIN u : \E n \in DOMAIN s : u[i] = s[n]
  BY <1>2, <1>3
<1>. QED BY <1>3, <1>6, <1>9, <1>10 DEF u

LEMMA TogetherGives ==
  ASSUME NEW X, NEW s \in Seq(X), NEW t \in Seq(X)
  PROVE  /\ s \o t \in Seq(X)
         /\ \A n \in DOMAIN (s \o t) : (\E i \in DOMAIN s : (s \o t)[n] = s[i]) \/ (\E i \in DOMAIN t : (s \o t)[n] = t[i])
         /\ \A i \in DOMAIN s : i \in DOMAIN (s \o t) /\ (s \o t)[i] = s[i]
<1>1. /\ Len(s) \in Nat /\ DOMAIN s = 1 .. Len(s) /\ Len(t) \in Nat /\ DOMAIN t = 1 .. Len(t)
      /\ s \o t \in Seq(X) /\ DOMAIN (s \o t) = 1 .. Len(s) + Len(t)
  OBVIOUS
<1>2. \A i \in 1 .. Len(s) : (s \o t)[i] = s[i]
  BY <1>1
<1>3. ASSUME NEW n \in DOMAIN (s \o t), n \notin DOMAIN s PROVE \E i \in DOMAIN t : (s \o t)[n] = t[i]
  <2>1. n - Len(s) \in DOMAIN t
    BY <1>1, <1>3
  <2>2. (s \o t)[n] = t[n - Len(s)]
    BY <1>1, <1>3
  <2>. QED BY <2>1, <2>2
<1>. QED BY <1>1, <1>2, <1>3

-----------------------------------------------------------------------------
(* Files that were removed                                                    *)

LEMMA KeysAreOfFiles ==
  ASSUME NEW a, NEW b
  PROVE  /\ a.file # b.file => S!sourceHiddenKeys(a) \cap S!sourceHiddenKeys(b) = {}
         /\ \A f : [path |-> f] \in S!sourceHiddenKeys(a) <=> f = a.file
<1> DEFINE p(x) == [path |-> x.file]
           k(x) == [file |-> x.file, slash |-> x.slash, ordinal |-> x.ordinal]
<1>1. \A x : S!sourceHiddenKeys(x) = {p(x), k(x)}
  BY DEF S!sourceHiddenKeys, S!PathKey, S!fixedEsiKey, S!sourcePathKey
<1>2. \A x, f : [path |-> f] # k(x)
  <2> TAKE x, f
  <2>1. DOMAIN [path |-> f] = {"path"} /\ DOMAIN k(x) = {"file", "slash", "ordinal"}
    OBVIOUS
  <2>. QED BY <2>1
<1>3. \A x, f : [path |-> f] = p(x) => f = x.file
  <2> TAKE x, f
  <2>1. [path |-> f].path = f /\ p(x).path = x.file
    OBVIOUS
  <2>. QED BY <2>1
<1>4. \A x, y : k(x) = k(y) => x.file = y.file
  <2> TAKE x, y
  <2>1. k(x).file = x.file /\ k(y).file = y.file
    OBVIOUS
  <2>. QED BY <2>1
<1>5. \A f : [path |-> f] \in S!sourceHiddenKeys(a) <=> f = a.file
  BY <1>1, <1>2, <1>3, Zenon
<1>6. a.file # b.file => p(a) # p(b) /\ p(a) # k(b) /\ k(a) # p(b) /\ k(a) # k(b)
  BY <1>2, <1>3, <1>4
<1> HIDE DEF p, k
<1>7. a.file # b.file => S!sourceHiddenKeys(a) \cap S!sourceHiddenKeys(b) = {}
  BY <1>1, <1>6
<1>. QED BY <1>5, <1>7

\* What was removed is hidden by its path, whatever it is spelled like, and what is
\* on the fixed list is not hidden by anything.
GoodFixed(fixed, gone) ==
  /\ fixed.favorites \in Seq(S!Listed)
  /\ \A f \in gone : [path |-> f] \in fixed.hidden
  /\ \A i \in DOMAIN fixed.favorites : S!sourceHiddenKeys(fixed.favorites[i]) \cap fixed.hidden = {}

LEMMA ViewGives ==
  ASSUME NEW fixed, NEW gone, GoodFixed(fixed, gone), NEW listed \in Seq(S!Listed)
  PROVE  LET view == S!fixedEsiEntries(fixed, listed)
         IN  /\ S!Files(view) \cap gone = {}
             /\ S!Files(fixed.favorites) \subseteq S!Files(view)
             /\ \A i, j \in DOMAIN view : i # j => ~S!sameEepromSource(view[i], view[j])
<1> DEFINE all == fixed.favorites \o listed
           visible == {n \in DOMAIN all : S!sourceHiddenKeys(all[n]) \cap fixed.hidden = {}}
           kept == S!Filtered(all, visible)
           view == S!fixedEsiEntries(fixed, listed)
<1>1. view = S!uniqueEepromSources(kept)
  BY DEF S!fixedEsiEntries
<1>2. /\ all \in Seq(S!Listed)
      /\ \A i \in DOMAIN fixed.favorites : i \in DOMAIN all /\ all[i] = fixed.favorites[i]
  BY TogetherGives DEF GoodFixed
<1> HIDE DEF all, view
<1>3. visible \subseteq DOMAIN all
  OBVIOUS
<1>4. \A n \in visible : S!sourceHiddenKeys(all[n]) \cap fixed.hidden = {}
  OBVIOUS
<1>5. \A i \in DOMAIN fixed.favorites : i \in visible /\ all[i] = fixed.favorites[i]
  BY <1>2 DEF GoodFixed
<1> HIDE DEF visible
<1>6. /\ kept \in Seq(S!Listed)
      /\ \A i \in DOMAIN kept : \E n \in visible : kept[i] = all[n]
      /\ \A n \in visible : \E i \in DOMAIN kept : kept[i] = all[n]
  BY <1>2, <1>3, FilterElements
<1> HIDE DEF kept
<1>7. S!Files(view) = S!Files(kept) /\ \A i, j \in DOMAIN view : i # j => view[i].file # view[j].file
  BY <1>1, <1>6, UniqueGives
<1>8. ASSUME NEW f \in S!Files(kept), f \in gone PROVE FALSE
  <2>1. PICK n \in visible : f = all[n].file
    BY <1>6 DEF S!Files
  <2>2. [path |-> f] \in S!sourceHiddenKeys(all[n]) /\ [path |-> f] \in fixed.hidden
    BY <1>8, <2>1, KeysAreOfFiles DEF GoodFixed
  <2>. QED BY <2>2, <1>4
<1>9. S!Files(fixed.favorites) \subseteq S!Files(kept)
  <2> SUFFICES ASSUME NEW i \in DOMAIN fixed.favorites PROVE fixed.favorites[i].file \in S!Files(kept)
    BY DEF S!Files
  <2>1. PICK j \in DOMAIN kept : kept[j] = fixed.favorites[i]
    BY <1>5, <1>6
  <2>. QED BY <2>1 DEF S!Files
<1>. QED BY <1>7, <1>8, <1>9 DEF view, S!sameEepromSource, S!sourcePathKey

\* The star of a row
LEMMA TogglingKeeps ==
  ASSUME NEW fixed, NEW gone, GoodFixed(fixed, gone), NEW listed, NEW entry \in S!Listed,
         NEW toggled, toggled = S!Toggled(fixed, listed, entry), NEW traced,
         traced = IF entry.file \in S!Files(S!fixedEsiEntries(fixed, listed))
                    THEN gone \cup {entry.file} ELSE gone \ {entry.file}
  PROVE  GoodFixed(toggled, traced)
<1> DEFINE old == fixed.favorites
<1>1. CASE entry.file \in S!Files(S!fixedEsiEntries(fixed, listed))
  <2> DEFINE matches == {item \in {entry} \cup S!ToSet(old) \cup S!ToSet(listed) : S!sameEepromSource(item, entry)}
             places == S!OfOtherFiles(old, entry)
             new == S!Filtered(old, places)
             hidden == fixed.hidden \cup UNION {S!sourceHiddenKeys(item) : item \in matches}
  <2>1. toggled = [favorites |-> new, hidden |-> hidden]
    BY <1>1 DEF S!Toggled, S!removeFixedEsiEntry, S!Without
  <2>2. entry \in matches /\ \A item \in matches : item.file = entry.file
    BY DEF S!sameEepromSource, S!sourcePathKey
  <2>3. places \subseteq DOMAIN old /\ \A n \in places : old[n].file # entry.file
    BY DEF S!OfOtherFiles, S!sameEepromSource, S!sourcePathKey
  <2> HIDE DEF matches, places
  <2>4. new \in Seq(S!Listed) /\ \A i \in DOMAIN new : \E n \in places : new[i] = old[n]
    BY <2>3, FilterElements DEF GoodFixed
  <2> HIDE DEF new
  <2>5. ASSUME NEW f \in gone \cup {entry.file} PROVE [path |-> f] \in hidden
    <3>1. CASE f = entry.file
      <4>1. [path |-> f] \in S!sourceHiddenKeys(entry)
        BY <3>1, KeysAreOfFiles
      <4>2. entry \in matches
        BY <2>2
      <4>. QED BY <4>1, <4>2
    <3>2. CASE f \in gone
      <4>1. [path |-> f] \in fixed.hidden
        BY <3>2 DEF GoodFixed
      <4>. QED BY <4>1
    <3>. QED BY <3>1, <3>2
  <2>6. ASSUME NEW i \in DOMAIN new PROVE S!sourceHiddenKeys(new[i]) \cap hidden = {}
    <3>1. PICK n \in places : new[i] = old[n]
      BY <2>4
    <3>2. S!sourceHiddenKeys(new[i]) \cap fixed.hidden = {}
      BY <3>1, <2>3 DEF GoodFixed
    <3>3. \A item \in matches : S!sourceHiddenKeys(new[i]) \cap S!sourceHiddenKeys(item) = {}
      BY <3>1, <2>2, <2>3, KeysAreOfFiles
    <3>. QED BY <3>2, <3>3
  <2> HIDE DEF hidden
  <2>. QED BY <1>1, <2>1, <2>4, <2>5, <2>6 DEF GoodFixed
<1>2. CASE entry.file \notin S!Files(S!fixedEsiEntries(fixed, listed))
  <2> DEFINE all == <<entry>> \o old
             new == S!uniqueEepromSources(all)
             hidden == fixed.hidden \ S!sourceHiddenKeys(entry)
  <2>1. toggled = [favorites |-> new, hidden |-> hidden]
    BY <1>2 DEF S!Toggled, S!addFixedEsiEntry
  <2>2. <<entry>> \in Seq(S!Listed) /\ \A i \in DOMAIN <<entry>> : <<entry>>[i] = entry
    OBVIOUS
  <2>3. /\ all \in Seq(S!Listed)
        /\ \A n \in DOMAIN all : all[n] = entry \/ \E i \in DOMAIN old : all[n] = old[i]
    BY <2>2, TogetherGives DEF GoodFixed
  <2> HIDE DEF all
  <2>4. new \in Seq(S!Listed) /\ \A i \in DOMAIN new : \E n \in DOMAIN all : new[i] = all[n]
    BY <2>3, UniqueGives
  <2> HIDE DEF new
  <2>5. ASSUME NEW f \in gone \ {entry.file} PROVE [path |-> f] \in hidden
    <3>1. [path |-> f] \notin S!sourceHiddenKeys(entry)
      BY KeysAreOfFiles
    <3>2. [path |-> f] \in fixed.hidden
      BY DEF GoodFixed
    <3>. QED BY <3>1, <3>2
  <2>6. \A i \in DOMAIN new : S!sourceHiddenKeys(new[i]) \cap hidden = {}
    BY <2>3, <2>4 DEF GoodFixed
  <2> HIDE DEF hidden
  <2>. QED BY <1>2, <2>1, <2>4, <2>5, <2>6 DEF GoodFixed
<1>. QED BY <1>1, <1>2

-----------------------------------------------------------------------------
(* The views of the file lists                                                *)

SourcesInv ==
  /\ {"fixed", "recent", "history"} \subseteq DOMAIN stored
  /\ {"shown", "fixed", "recent", "library", "asked"} \subseteq DOMAIN sourcePanel
  /\ {"open", "fixed", "history", "library", "asked"} \subseteq DOMAIN sourceDialog
  /\ sourceDialog.open \in BOOLEAN /\ sourcePanel.shown \in BOOLEAN
  /\ S!SourcesInStep

LEMMA InitSources == ASSUME S!SourcesInit PROVE SourcesInv
<1>1. /\ {"fixed", "recent", "history"} \subseteq DOMAIN stored
      /\ {"shown", "fixed", "recent", "library", "asked"} \subseteq DOMAIN sourcePanel
      /\ {"open", "fixed", "history", "library", "asked"} \subseteq DOMAIN sourceDialog
      /\ sourceDialog.open = FALSE /\ sourcePanel.shown = FALSE
  BY DEF S!SourcesInit
<1>. QED BY <1>1 DEF SourcesInv, S!SourcesInStep

\* Opening and closing the views, and what their requests bring
LEMMA ViewsKeepSources ==
  ASSUME SourcesInv,
         \/ \E on \in BOOLEAN : S!ShowPanel(on)
         \/ S!OpenDialog \/ S!CloseDialog \/ S!RefreshPanel \/ S!RefreshDialog \/ S!LibraryChanges
         \/ \E succeeds \in BOOLEAN : S!PanelAnswered(succeeds)
         \/ \E listed : S!DialogAnswered(listed)
  PROVE  SourcesInv'
<1>1. CASE \E on \in BOOLEAN : S!ShowPanel(on)
  <2>1. PICK on \in BOOLEAN : S!ShowPanel(on)
    BY <1>1
  <2>2. /\ {"shown", "fixed", "recent", "library", "asked"} \subseteq DOMAIN sourcePanel'
        /\ sourcePanel'.shown = on /\ sourcePanel'.fixed = stored.fixed /\ sourcePanel'.recent = stored.recent
    <3> DEFINE new == [sourcePanel EXCEPT !.shown = on, !.fixed = stored.fixed, !.recent = stored.recent,
                                          !.library = <<>>, !.asked = FALSE]
               fields == {"shown", "fixed", "recent", "library", "asked"}
    <3>1. sourcePanel' = IF on /\ ~sourceDialog.open THEN S!Activated(new) ELSE new
      BY <2>1, Zenon DEF S!ShowPanel
    <3>2. fields \subseteq DOMAIN new /\ new.shown = on /\ new.fixed = stored.fixed /\ new.recent = stored.recent
      BY DEF SourcesInv
    <3> HIDE DEF new
    <3>3. /\ fields \subseteq DOMAIN S!Activated(new) /\ S!Activated(new).shown = on
          /\ S!Activated(new).fixed = stored.fixed /\ S!Activated(new).recent = stored.recent
      BY <3>2 DEF S!Activated
    <3>. QED BY <3>1, <3>2, <3>3, Zenon
  <2>3. UNCHANGED <<stored, sourceDialog>>
    BY <2>1, Zenon DEF S!ShowPanel
  <2>. QED BY <2>2, <2>3, Zenon DEF SourcesInv, S!SourcesInStep
<1>2. CASE S!OpenDialog
  BY <1>2 DEF S!OpenDialog, SourcesInv, S!SourcesInStep
<1>3. CASE S!CloseDialog
  BY <1>3 DEF S!CloseDialog, S!Activated, SourcesInv, S!SourcesInStep
<1>4. CASE S!RefreshPanel \/ \E succeeds \in BOOLEAN : S!PanelAnswered(succeeds)
  BY <1>4, Zenon DEF S!RefreshPanel, S!PanelAnswered, SourcesInv, S!SourcesInStep
<1>5. CASE S!RefreshDialog \/ \E listed : S!DialogAnswered(listed)
  BY <1>5, Zenon DEF S!RefreshDialog, S!DialogAnswered, SourcesInv, S!SourcesInStep
<1>6. CASE S!LibraryChanges
  BY <1>6 DEF S!LibraryChanges, SourcesInv, S!SourcesInStep
<1>. QED BY <1>1, <1>2, <1>3, <1>4, <1>5, <1>6

\* Edits of the lists
LEMMA EditsKeepSources ==
  ASSUME SourcesInv, NEW entry,
         \/ S!StarInPanel(entry) \/ S!StarInDialog(entry) \/ S!LoadedByPage(entry) \/ S!LoadedByDialog(entry)
         \/ S!RemoveRecent(entry) \/ S!Flashed(entry) \/ S!RemoveHistory(entry)
  PROVE  SourcesInv'
<1>1. CASE S!StarInPanel(entry) \/ S!RemoveRecent(entry)
  BY <1>1 DEF S!StarInPanel, S!RemoveRecent, SourcesInv, S!SourcesInStep
<1>2. CASE S!StarInDialog(entry) \/ S!Flashed(entry) \/ S!RemoveHistory(entry)
  BY <1>2 DEF S!StarInDialog, S!Flashed, S!RemoveHistory, SourcesInv, S!SourcesInStep
<1>3. CASE S!LoadedByPage(entry)
  BY <1>3 DEF S!LoadedByPage, SourcesInv, S!SourcesInStep
<1>4. CASE S!LoadedByDialog(entry)
  BY <1>4 DEF S!LoadedByDialog, SourcesInv, S!SourcesInStep
<1>. QED BY <1>1, <1>2, <1>3, <1>4

LEMMA NextSources ==
  ASSUME SourcesInv, [S!SourceSteps]_sourceVars
  PROVE  SourcesInv'
<1>1. CASE UNCHANGED sourceVars
  BY <1>1 DEF sourceVars, SourcesInv, S!SourcesInStep
<1>2. CASE S!SourceSteps
  BY <1>2, ViewsKeepSources, EditsKeepSources DEF S!SourceSteps, S!Edits
<1>. QED BY <1>1, <1>2

\* Every list is one of records, and the fixed list is a good one.
ListsInv ==
  /\ SourcesInv /\ GoodFixed(stored.fixed, removed)
  /\ {library, sourcePanel.library, sourceDialog.library} \subseteq Seq(S!Listed)

LEMMA LibrariesAreLists == S!Libraries \subseteq Seq(S!Listed)
<1>1. SourceRecords \subseteq S!Listed
  BY DEF S!Listed
<1>2. \A a, b \in S!Listed : {<<>>, <<a>>, <<a, b>>} \subseteq Seq(S!Listed)
  OBVIOUS
<1>3. <<>> \in Seq(S!Listed)
  OBVIOUS
<1>4. ASSUME NEW listed \in S!Libraries PROVE listed \in Seq(S!Listed)
  <2>1. \/ listed = <<>> \/ \E a \in SourceRecords : listed = <<a>>
        \/ \E a, b \in SourceRecords : listed = <<a, b>>
    BY DEF S!Libraries
  <2>2. \/ listed = <<>> \/ \E a \in S!Listed : listed = <<a>>
        \/ \E a, b \in S!Listed : listed = <<a, b>>
    BY <1>1, <2>1
  <2>. QED BY <2>2, <1>2, <1>3
<1>. QED BY <1>4

LEMMA InitLists == ASSUME S!SourcesInit PROVE ListsInv
<1>1. stored.fixed.favorites = <<>> /\ removed = {}
  BY DEF S!SourcesInit, S!Nothing
<1>2. GoodFixed(stored.fixed, removed)
  BY <1>1 DEF GoodFixed
<1>3. library \in S!Libraries /\ sourcePanel.library = <<>> /\ sourceDialog.library = <<>>
  BY DEF S!SourcesInit
<1>4. <<>> \in Seq(S!Listed)
  OBVIOUS
<1>. QED BY <1>2, <1>3, <1>4, InitSources, LibrariesAreLists DEF ListsInv

LEMMA StarsKeepLists ==
  ASSUME ListsInv, NEW entry \in S!Listed, S!StarInPanel(entry) \/ S!StarInDialog(entry)
  PROVE  /\ GoodFixed(stored'.fixed, removed')
         /\ {library', sourcePanel'.library, sourceDialog'.library} \subseteq Seq(S!Listed)
<1>1. CASE S!StarInPanel(entry)
  <2>1. stored'.fixed = S!Toggled(stored.fixed, sourcePanel.library, entry)
    BY <1>1 DEF S!StarInPanel, ListsInv, SourcesInv, S!SourcesInStep
  <2>2. removed' = IF entry.file \in S!Files(S!fixedEsiEntries(stored.fixed, sourcePanel.library))
                     THEN removed \cup {entry.file} ELSE removed \ {entry.file}
    BY <1>1 DEF S!StarInPanel, S!Traced, S!PanelFixed, ListsInv, SourcesInv, S!SourcesInStep
  <2>3. library' = library /\ sourcePanel'.library = sourcePanel.library /\ sourceDialog' = sourceDialog
    BY <1>1 DEF S!StarInPanel, ListsInv, SourcesInv
  <2>4. GoodFixed(stored.fixed, removed) /\ {library, sourcePanel.library, sourceDialog.library} \subseteq Seq(S!Listed)
    BY DEF ListsInv
  <2>5. GoodFixed(stored'.fixed, removed')
    BY <2>1, <2>2, <2>4, TogglingKeeps
  <2>. QED BY <2>3, <2>4, <2>5
<1>2. CASE S!StarInDialog(entry)
  <2>1. stored'.fixed = S!Toggled(stored.fixed, sourceDialog.library, entry)
    BY <1>2 DEF S!StarInDialog, ListsInv, SourcesInv, S!SourcesInStep
  <2>2. removed' = IF entry.file \in S!Files(S!fixedEsiEntries(stored.fixed, sourceDialog.library))
                     THEN removed \cup {entry.file} ELSE removed \ {entry.file}
    BY <1>2 DEF S!StarInDialog, S!Traced, S!DialogFixed, ListsInv, SourcesInv, S!SourcesInStep
  <2>3. library' = library /\ sourceDialog'.library = sourceDialog.library /\ sourcePanel' = sourcePanel
    BY <1>2 DEF S!StarInDialog, ListsInv, SourcesInv
  <2>4. GoodFixed(stored.fixed, removed) /\ {library, sourcePanel.library, sourceDialog.library} \subseteq Seq(S!Listed)
    BY DEF ListsInv
  <2>5. GoodFixed(stored'.fixed, removed')
    BY <2>1, <2>2, <2>4, TogglingKeeps
  <2>. QED BY <2>3, <2>4, <2>5
<1>. QED BY <1>1, <1>2

\* The other steps leave the fixed list that is stored; requests bring the library.
LEMMA OthersKeepLists ==
  ASSUME ListsInv, NEW entry,
         \/ \E on \in BOOLEAN : S!ShowPanel(on)
         \/ S!OpenDialog \/ S!CloseDialog \/ S!RefreshPanel \/ S!RefreshDialog \/ S!LibraryChanges
         \/ \E succeeds \in BOOLEAN : S!PanelAnswered(succeeds)
         \/ \E listed \in {library, sourceDialog.library, <<>>} : S!DialogAnswered(listed)
         \/ S!LoadedByPage(entry) \/ S!LoadedByDialog(entry)
         \/ S!RemoveRecent(entry) \/ S!Flashed(entry) \/ S!RemoveHistory(entry)
  PROVE  /\ stored'.fixed = stored.fixed /\ removed' = removed
         /\ {library', sourcePanel'.library, sourceDialog'.library} \subseteq Seq(S!Listed)
<1>1. <<>> \in Seq(S!Listed)
  OBVIOUS
<1>2. CASE \E on \in BOOLEAN : S!ShowPanel(on)
  BY <1>1, <1>2, Zenon DEF S!ShowPanel, S!Activated, ListsInv, SourcesInv
<1>3. CASE S!OpenDialog \/ S!CloseDialog
  BY <1>3 DEF S!OpenDialog, S!CloseDialog, S!Activated, ListsInv, SourcesInv
<1>4. CASE S!RefreshPanel \/ S!RefreshDialog
  BY <1>4 DEF S!RefreshPanel, S!RefreshDialog, ListsInv, SourcesInv
<1>5. CASE S!LibraryChanges
  BY <1>5, LibrariesAreLists DEF S!LibraryChanges, ListsInv, SourcesInv
<1>6. CASE \E succeeds \in BOOLEAN : S!PanelAnswered(succeeds)
  BY <1>6, Zenon DEF S!PanelAnswered, ListsInv, SourcesInv
<1>7. CASE \E listed \in {library, sourceDialog.library, <<>>} : S!DialogAnswered(listed)
  <2>1. PICK listed \in {library, sourceDialog.library, <<>>} : S!DialogAnswered(listed)
    BY <1>7
  <2>2. sourceDialog'.library = listed
    BY <2>1 DEF S!DialogAnswered, ListsInv, SourcesInv
  <2>. QED BY <1>1, <2>1, <2>2, Zenon DEF S!DialogAnswered, ListsInv
<1>8. CASE S!LoadedByPage(entry) \/ S!LoadedByDialog(entry)
  BY <1>8, Zenon DEF S!LoadedByPage, S!LoadedByDialog, ListsInv, SourcesInv
<1>9. CASE S!RemoveRecent(entry) \/ S!Flashed(entry) \/ S!RemoveHistory(entry)
  <2>1. UNCHANGED <<library, removed>>
    BY <1>9, Zenon DEF S!RemoveRecent, S!Flashed, S!RemoveHistory
  <2>2. stored'.fixed = stored.fixed /\ sourcePanel'.library = sourcePanel.library
        /\ sourceDialog'.library = sourceDialog.library
    BY <1>9 DEF S!RemoveRecent, S!Flashed, S!RemoveHistory, ListsInv, SourcesInv
  <2>. QED BY <1>1, <2>1, <2>2, Zenon DEF ListsInv
<1>. QED BY <1>2, <1>3, <1>4, <1>5, <1>6, <1>7, <1>8, <1>9

LEMMA NextLists ==
  ASSUME ListsInv, [S!SourceSteps]_sourceVars
  PROVE  ListsInv'
<1>1. SourcesInv'
  BY NextSources DEF ListsInv
<1>2. CASE UNCHANGED sourceVars
  BY <1>1, <1>2 DEF sourceVars, ListsInv
<1>3. ASSUME NEW entry \in S!Listed, S!StarInPanel(entry) \/ S!StarInDialog(entry)
      PROVE  ListsInv'
  BY <1>1, <1>3, StarsKeepLists DEF ListsInv
<1>4. ASSUME NEW entry,
             \/ \E on \in BOOLEAN : S!ShowPanel(on)
             \/ S!OpenDialog \/ S!CloseDialog \/ S!RefreshPanel \/ S!RefreshDialog \/ S!LibraryChanges
             \/ \E succeeds \in BOOLEAN : S!PanelAnswered(succeeds)
             \/ \E listed \in {library, sourceDialog.library, <<>>} : S!DialogAnswered(listed)
             \/ S!LoadedByPage(entry) \/ S!LoadedByDialog(entry)
             \/ S!RemoveRecent(entry) \/ S!Flashed(entry) \/ S!RemoveHistory(entry)
      PROVE  ListsInv'
  BY <1>1, <1>4, OthersKeepLists DEF ListsInv
<1>5. CASE S!SourceSteps
  BY <1>3, <1>4, <1>5 DEF S!SourceSteps, S!Edits
<1>. QED BY <1>2, <1>5

LEMMA ListsKeepRemoved == ASSUME ListsInv PROVE S!RemovedStaysHidden
<1>1. ASSUME NEW listed \in Seq(S!Listed), NEW view, view = S!fixedEsiEntries(stored.fixed, listed)
      PROVE  /\ S!Files(view) \cap removed = {}
             /\ S!Files(stored.fixed.favorites) \subseteq S!Files(view)
             /\ \A i, j \in DOMAIN view : i # j => ~S!sameEepromSource(view[i], view[j])
  BY <1>1, ViewGives DEF ListsInv
<1>2. sourceDialog.open => S!DialogFixed = S!fixedEsiEntries(stored.fixed, sourceDialog.library)
  BY DEF S!DialogFixed, ListsInv, SourcesInv, S!SourcesInStep
<1>3. sourcePanel.shown /\ ~sourceDialog.open => S!PanelFixed = S!fixedEsiEntries(stored.fixed, sourcePanel.library)
  BY DEF S!PanelFixed, ListsInv, SourcesInv, S!SourcesInStep
<1>. QED BY <1>1, <1>2, <1>3 DEF S!RemovedStaysHidden, ListsInv

\* A file the user took from the fixed list is in no view until it is put back,
\* whatever spelling or Device of it the library brings, one that was put back is
\* in every view, no view holds a file twice, and the view that the user can reach
\* shows what is stored: for any number of edits and all limits of the lists, with
\* the records of the run (two of one file in both spellings, one of another file,
\* and each without a Device) and its libraries.  The proof uses nothing of these records but their fields.
THEOREM FilesStayAway == MCSpec => []SourcesAreKept
<1>1. MCInit => ListsInv
  BY InitLists DEF MCInit
<1>2. ListsInv /\ [MCNext]_allVars => ListsInv'
  <2> SUFFICES ASSUME ListsInv, [MCNext]_allVars
               PROVE  ListsInv'
    OBVIOUS
  <2>1. [S!SourceSteps]_sourceVars
    <3>1. CASE UNCHANGED allVars
      BY <3>1 DEF allVars, sourceVars
    <3>2. CASE MCNext
      <4>1. CASE part = "sources"
        BY <3>2, <4>1 DEF MCNext
      <4>. QED BY <3>2, <4>1 DEF MCNext, Stay
    <3>. QED BY <3>1, <3>2
  <2>. QED BY <2>1, NextLists
<1>3. ListsInv => SourcesAreKept
  BY ListsKeepRemoved DEF SourcesAreKept, ListsInv, SourcesInv
<1>. QED BY <1>1, <1>2, <1>3, PTL DEF MCSpec

-----------------------------------------------------------------------------
(* Algorithms of the pages, for all inputs                                    *)

ListedRegisters == [address : Nat, width : Nat \ {0}]

\* The register that holds the address the user types comes before every other
\* one, and a range finds exactly the registers with a byte in it: for all
\* addresses, widths, ranges and bases.
THEOREM SearchFinds ==
  \A a, b \in ListedRegisters :
    /\ \A address \in Nat : C!Holds(a, address) /\ ~C!Holds(b, address) =>
         \A text \in [{a, b} -> BOOLEAN] : C!ListedBefore(a, b, address, text)
    /\ \A from, to \in Nat : C!RangeMatches(a, from, to) <=> \E byte \in from .. to : C!Holds(a, byte)
<1> SUFFICES ASSUME NEW a \in ListedRegisters, NEW b \in ListedRegisters
             PROVE  /\ \A address \in Nat : C!Holds(a, address) /\ ~C!Holds(b, address) =>
                         \A text \in [{a, b} -> BOOLEAN] : C!ListedBefore(a, b, address, text)
                    /\ \A from, to \in Nat : C!RangeMatches(a, from, to) <=> \E byte \in from .. to : C!Holds(a, byte)
  OBVIOUS
<1>1. /\ a.address \in Nat /\ a.width \in Nat /\ a.width > 0
      /\ b.address \in Nat /\ b.width \in Nat /\ b.width > 0
  BY DEF ListedRegisters
<1>2. ASSUME NEW address \in Nat, C!Holds(a, address), ~C!Holds(b, address), NEW text
      PROVE  C!ListedBefore(a, b, address, text)
  <2>1. C!registerSearchRank(a, address, text[a]) \in {0, 1}
    BY <1>1, <1>2 DEF C!Holds, C!registerSearchRank
  <2>2. C!registerSearchRank(b, address, text[b]) \in {2, 3, 4}
    BY <1>1, <1>2 DEF C!Holds, C!registerSearchRank, C!NoMatch
  <2>. QED BY <2>1, <2>2 DEF C!ListedBefore
<1>3. ASSUME NEW from \in Nat, NEW to \in Nat
      PROVE  C!RangeMatches(a, from, to) <=> \E byte \in from .. to : C!Holds(a, byte)
  <2>1. ASSUME C!RangeMatches(a, from, to)
        PROVE  \E byte \in from .. to : C!Holds(a, byte)
    <3>1. from <= to /\ a.address <= to /\ a.address + a.width > from
      BY <2>1 DEF C!RangeMatches
    <3> DEFINE byte == IF a.address > from THEN a.address ELSE from
    <3>2. byte \in from .. to /\ C!Holds(a, byte)
      BY <1>1, <3>1 DEF C!Holds
    <3>. QED BY <3>2
  <2>2. ASSUME NEW byte \in from .. to, C!Holds(a, byte)
        PROVE  C!RangeMatches(a, from, to)
    BY <1>1, <2>2 DEF C!Holds, C!RangeMatches
  <2>. QED BY <2>1, <2>2
<1>. QED BY <1>2, <1>3

-----------------------------------------------------------------------------
(* The pages of the hex view and the rows of the register list                *)

\* Multiples of one number are in the order of their factors.
LEMMA MultiplesInOrder ==
  ASSUME NEW h \in Nat \ {0}, NEW m \in Nat, NEW n \in Nat
  PROVE  /\ m <= n <=> m * h <= n * h
         /\ m < n <=> m * h < n * h
         /\ (m + 1) * h = m * h + h
         /\ m * h \in Nat
OBVIOUS

LEMMA DivisionGives ==
  ASSUME NEW h \in Nat \ {0}, NEW n \in Nat
  PROVE  n \div h \in Nat /\ (n \div h) * h <= n /\ n < (n \div h) * h + h
OBVIOUS

LEMMA CeilingGives ==
  ASSUME NEW h \in Nat \ {0}, NEW n \in Nat
  PROVE  C!Ceiling(n, h) \in Nat /\ C!Ceiling(n, h) * h >= n
<1>1. n + h - 1 \in Nat
  OBVIOUS
<1>. QED BY <1>1, DivisionGives DEF C!Ceiling

\* The page of the hex view that a jump opens shows the byte jumped to: for all
\* lengths of the data and of a page.
THEOREM AddressIsOnItsPage ==
  ASSUME NEW length \in Nat, NEW offset \in 0 .. length - 1
  PROVE  offset \in C!HexPage(length, C!JumpTo(offset))
<1> DEFINE shownPage == offset \div PageBytes
           pages == C!Ceiling(length, PageBytes)
<1>0. PageBytes \in Nat \ {0}
  BY WindowAssumption
<1>1. shownPage \in Nat /\ shownPage * PageBytes <= offset /\ offset < shownPage * PageBytes + PageBytes
  BY <1>0, DivisionGives
<1>2. pages \in Nat /\ pages * PageBytes >= length
  BY <1>0, CeilingGives
<1>3. shownPage * PageBytes \in Nat /\ pages * PageBytes \in Nat
  BY <1>0, <1>1, <1>2, MultiplesInOrder
<1>4. shownPage < pages
  <2>1. shownPage * PageBytes < pages * PageBytes
    BY <1>1, <1>2, <1>3
  <2>. QED BY <2>1, <1>0, <1>1, <1>2, MultiplesInOrder
<1>5. C!Least(shownPage, C!Greatest(0, pages - 1)) = shownPage
  BY <1>1, <1>2, <1>4 DEF C!Least, C!Greatest
<1>6. C!HexPage(length, shownPage) = shownPage * PageBytes .. C!Least(shownPage * PageBytes + PageBytes, length) - 1
  BY <1>5 DEF C!HexPage
<1>7. offset \in shownPage * PageBytes .. C!Least(shownPage * PageBytes + PageBytes, length) - 1
  <2> HIDE DEF shownPage
  <2>. QED BY <1>0, <1>1, <1>3 DEF C!Least
<1>. QED BY <1>6, <1>7 DEF C!JumpTo

LEMMA RowsInViewAreMounted ==
  ASSUME RowHeight \in Nat \ {0}, Overscan \in Nat,
         NEW count \in Nat, NEW top \in Nat, NEW height \in Nat, NEW row \in 0 .. count - 1,
         C!Visible(row, top, height) # {}
  PROVE  row \in C!MountedRows(count, top, height)
<1> DEFINE above == C!Greatest(0, top - RowHeight)
           first == above \div RowHeight
           last == C!Ceiling(top + height, RowHeight)
           start == C!Greatest(0, C!Least(first - Overscan, count - 1))
           end == C!Least(count, last + Overscan)
<1>1. above \in Nat /\ (above = 0 \/ above = top - RowHeight)
  BY DEF C!Greatest
<1>2. first \in Nat /\ first * RowHeight <= above
  BY <1>1, DivisionGives
<1>3. last \in Nat /\ last * RowHeight >= top + height
  BY CeilingGives
<1>4. /\ row * RowHeight \in Nat /\ first * RowHeight \in Nat /\ last * RowHeight \in Nat
      /\ (row + 1) * RowHeight = row * RowHeight + RowHeight
      /\ 2 * RowHeight = RowHeight + RowHeight
  BY <1>2, <1>3, MultiplesInOrder
<1>5. PICK pixel : /\ pixel \in top + RowHeight .. top + height - 1
                   /\ pixel \in row * RowHeight + RowHeight .. row * RowHeight + 2 * RowHeight - 1
  BY DEF C!Visible
<1>6. top < row * RowHeight + RowHeight /\ row * RowHeight + RowHeight < top + height
  BY <1>4, <1>5
<1>7. first <= row
  <2>1. first * RowHeight <= row * RowHeight
    <3> HIDE DEF first, above
    <3>. QED BY <1>1, <1>2, <1>4, <1>6
  <2>. QED BY <2>1, <1>2, MultiplesInOrder
<1>8. row < last
  <2>1. row * RowHeight < last * RowHeight
    <3> HIDE DEF last
    <3>. QED BY <1>3, <1>4, <1>6
  <2>. QED BY <2>1, <1>3, MultiplesInOrder
<1>9. C!MountedRows(count, top, height) = start .. end - 1
  BY DEF C!MountedRows
<1>10. row \in start .. end - 1
  <2> HIDE DEF first, last
  <2>. QED BY <1>2, <1>3, <1>7, <1>8 DEF C!Least, C!Greatest
<1>. QED BY <1>9, <1>10

LEMMA RowIsScrolledIntoView ==
  ASSUME RowHeight \in Nat \ {0},
         NEW top \in Nat, NEW height \in Nat, height >= 2 * RowHeight, NEW row \in Nat
  PROVE  /\ C!ScrolledTo(row, top, height) \in Nat
         /\ C!Visible(row, C!ScrolledTo(row, top, height), height)
              = row * RowHeight + RowHeight .. row * RowHeight + 2 * RowHeight - 1
         /\ C!Visible(row, C!ScrolledTo(row, top, height), height) # {}
<1> DEFINE rowTop == row * RowHeight
           next == C!ScrolledTo(row, top, height)
<1>1. rowTop \in Nat
  BY MultiplesInOrder
<1>2. next = IF rowTop + RowHeight < top + RowHeight THEN rowTop + RowHeight - RowHeight
             ELSE IF rowTop + RowHeight + RowHeight > top + height THEN rowTop + RowHeight + RowHeight - height ELSE top
  BY DEF C!ScrolledTo
<1> HIDE DEF rowTop, next
<1>3. next \in Nat
  BY <1>1, <1>2
<1>4. next <= rowTop /\ rowTop + 2 * RowHeight <= next + height
  BY <1>1, <1>2
<1>5. rowTop + RowHeight .. rowTop + 2 * RowHeight - 1 \subseteq next + RowHeight .. next + height - 1
  BY <1>1, <1>3, <1>4
<1>6. rowTop + RowHeight \in rowTop + RowHeight .. rowTop + 2 * RowHeight - 1
  BY <1>1
<1>7. C!Visible(row, next, height)
        = (next + RowHeight .. next + height - 1) \cap (rowTop + RowHeight .. rowTop + 2 * RowHeight - 1)
  BY DEF C!Visible, rowTop
<1>. QED BY <1>3, <1>5, <1>6, <1>7 DEF next, rowTop

\* A row of the register list that is in view, if only with one pixel, is mounted;
\* and where the table scrolls to when a key moves to a row, that row is in view as
\* a whole: for all numbers of rows, heights and overscans and wherever the table is.
THEOREM RowsAreMounted ==
  ASSUME NEW count \in Nat, NEW top \in Nat, NEW height \in Nat, height >= 2 * RowHeight,
         NEW row \in 0 .. count - 1
  PROVE  /\ C!Visible(row, top, height) # {} => row \in C!MountedRows(count, top, height)
         /\ LET next == C!ScrolledTo(row, top, height) IN
              /\ C!Visible(row, next, height) = row * RowHeight + RowHeight .. row * RowHeight + 2 * RowHeight - 1
              /\ row \in C!MountedRows(count, next, height)
<1>0. RowHeight \in Nat \ {0} /\ Overscan \in Nat
  BY WindowAssumption
<1>1. row \in Nat
  OBVIOUS
<1> DEFINE next == C!ScrolledTo(row, top, height)
<1>2. /\ next \in Nat
      /\ C!Visible(row, next, height) = row * RowHeight + RowHeight .. row * RowHeight + 2 * RowHeight - 1
      /\ C!Visible(row, next, height) # {}
  BY <1>0, <1>1, RowIsScrolledIntoView
<1> HIDE DEF next
<1>3. row \in C!MountedRows(count, next, height)
  BY <1>0, <1>2, RowsInViewAreMounted
<1>. QED BY <1>0, <1>2, <1>3, RowsInViewAreMounted DEF next

-----------------------------------------------------------------------------
(* The comparison of two images, and the words of the EEPROM prefix           *)

DifferenceRanges == [offset : Nat, length : Nat \ {0}]
\* The ranges are ordered and apart, and cover what differs up to n.
RangesUpTo(ranges, actual, wanted, n) ==
  /\ ranges \in Seq(DifferenceRanges)
  /\ \A i \in 1 .. Len(ranges) : ranges[i].offset + ranges[i].length <= n + 1
  /\ \A i, j \in 1 .. Len(ranges) : i < j => ranges[i].offset + ranges[i].length < ranges[j].offset
  /\ \A i \in 1 .. Len(ranges) : \A m \in C!Covered(ranges[i]) : m \in 1 .. n /\ actual[m] # wanted[m]
  /\ \A m \in 1 .. n : actual[m] # wanted[m] => \E i \in 1 .. Len(ranges) : m \in C!Covered(ranges[i])

LEMMA LastIs ==
  ASSUME NEW ranges \in Seq(DifferenceRanges), ranges # << >>
  PROVE  /\ Len(ranges) \in Nat \ {0} /\ C!Last(ranges) = ranges[Len(ranges)]
         /\ ranges[Len(ranges)].offset \in Nat /\ ranges[Len(ranges)].length \in Nat \ {0}
<1>1. Len(ranges) \in Nat \ {0}
  OBVIOUS
<1>2. ranges[Len(ranges)] \in DifferenceRanges
  BY <1>1
<1>. QED BY <1>1, <1>2 DEF C!Last, DifferenceRanges

LEMMA ExtendedIs ==
  ASSUME NEW ranges \in Seq(DifferenceRanges), NEW n \in Nat
  PROVE  C!Extended(ranges, n) \in Seq(DifferenceRanges)
<1>1. [offset |-> n, length |-> 1] \in DifferenceRanges
  BY DEF DifferenceRanges
<1>2. CASE ranges = << >>
  BY <1>1, <1>2 DEF C!Extended
<1>3. CASE ranges # << >>
  <2> DEFINE k == Len(ranges)
             last == [ranges[k] EXCEPT !.length = @ + 1]
             longer == [ranges EXCEPT ![k] = last]
  <2>1. k \in Nat \ {0} /\ k \in 1 .. k /\ ranges[k] \in DifferenceRanges
    <3>1. k \in Nat \ {0}
      BY <1>3
    <3>. QED BY <3>1
  <2>2. last \in DifferenceRanges
    BY <2>1 DEF DifferenceRanges
  <2>3. longer \in Seq(DifferenceRanges)
    <3> HIDE DEF last
    <3>. QED BY <2>1, <2>2
  <2>. QED BY <1>1, <2>3 DEF C!Extended
<1>. QED BY <1>2, <1>3

LEMMA RangesNext ==
  ASSUME NEW ranges, NEW actual, NEW wanted, NEW n \in Nat \ {0}, RangesUpTo(ranges, actual, wanted, n - 1),
         actual[n] # wanted[n]
  PROVE  RangesUpTo(C!Extended(ranges, n), actual, wanted, n)
<1> DEFINE k == Len(ranges)
<1>1. ranges \in Seq(DifferenceRanges) /\ k \in Nat
  BY DEF RangesUpTo
<1>2. \A i \in 1 .. k : ranges[i].offset \in Nat /\ ranges[i].length \in Nat \ {0}
  <2> TAKE i \in 1 .. k
  <2>1. ranges[i] \in DifferenceRanges
    BY <1>1
  <2>. QED BY <2>1 DEF DifferenceRanges
<1>3. C!Extended(ranges, n) \in Seq(DifferenceRanges)
  BY <1>1, ExtendedIs
<1>4. CASE ranges # << >> /\ C!Last(ranges).offset + C!Last(ranges).length = n
  <2> DEFINE longer == C!Extended(ranges, n)
  <2>1. k \in Nat \ {0} /\ k \in 1 .. k /\ ranges[k].offset + ranges[k].length = n
    BY <1>1, <1>4, LastIs
  <2>2. longer = [ranges EXCEPT ![k].length = @ + 1]
    BY <1>4 DEF C!Extended
  <2>3. /\ Len(longer) = k
        /\ \A i \in 1 .. k : i # k => longer[i] = ranges[i]
        /\ longer[k] = [ranges[k] EXCEPT !.length = @ + 1]
    BY <1>1, <2>1, <2>2
  <2>4. ranges[k] \in DifferenceRanges
    BY <1>1, <2>1
  <2>5. longer[k].offset = ranges[k].offset /\ longer[k].length = ranges[k].length + 1
    BY <2>3, <2>4 DEF DifferenceRanges
  <2> HIDE DEF k, longer
  <2>6. \A i \in 1 .. k : longer[i].offset = ranges[i].offset
    BY <2>3, <2>5
  <2>7. \A i \in 1 .. k : longer[i].offset + longer[i].length <= n + 1
    <3> TAKE i \in 1 .. k
    <3>0. /\ ranges[i].offset \in Nat /\ ranges[i].length \in Nat /\ ranges[k].offset \in Nat /\ ranges[k].length \in Nat
      BY <1>2, <2>1
    <3>1. CASE i = k
      BY <3>0, <3>1, <2>1, <2>5
    <3>2. CASE i # k
      <4>1. longer[i].offset + longer[i].length <= n - 1 + 1
        BY <3>2, <2>3 DEF RangesUpTo, k
      <4>. QED BY <4>1, <3>0, <3>2, <2>3
    <3>. QED BY <3>1, <3>2
  <2>8. \A i, j \in 1 .. k : i < j => longer[i].offset + longer[i].length < longer[j].offset
    <3> TAKE i, j \in 1 .. k
    <3> HAVE i < j
    <3>1. i # k
      BY <2>1
    <3>. QED BY <3>1, <2>3, <2>6 DEF RangesUpTo, k
  <2>9. /\ \A i \in 1 .. k : i # k => C!Covered(longer[i]) = C!Covered(ranges[i])
        /\ C!Covered(longer[k]) = C!Covered(ranges[k]) \cup {n}
    <3>1. \A i \in 1 .. k : i # k => C!Covered(longer[i]) = C!Covered(ranges[i])
      BY <2>3
    <3>2. ranges[k].offset \in Nat /\ ranges[k].length \in Nat \ {0}
      BY <1>2, <2>1
    <3>3. C!Covered(ranges[k]) = ranges[k].offset .. n - 1 /\ C!Covered(longer[k]) = ranges[k].offset .. n
      BY <3>2, <2>1, <2>5 DEF C!Covered
    <3>4. ranges[k].offset .. n = (ranges[k].offset .. n - 1) \cup {n}
      BY <3>2, <2>1
    <3>. QED BY <3>1, <3>3, <3>4
  <2>10. n \in 1 .. n /\ \A m \in 1 .. n - 1 : m \in 1 .. n
    OBVIOUS
  <2>11. \A i \in 1 .. k : \A m \in C!Covered(longer[i]) : m \in 1 .. n /\ actual[m] # wanted[m]
    BY <2>1, <2>9, <2>10 DEF RangesUpTo, k
  <2>12. \A m \in 1 .. n : actual[m] # wanted[m] => \E i \in 1 .. k : m \in C!Covered(longer[i])
    <3> TAKE m \in 1 .. n
    <3> HAVE actual[m] # wanted[m]
    <3>1. CASE m = n
      BY <3>1, <2>1, <2>9
    <3>2. CASE m # n
      <4>1. m \in 1 .. n - 1
        BY <3>2
      <4>. QED BY <4>1, <2>9 DEF RangesUpTo, k
    <3>. QED BY <3>1, <3>2
  <2>. QED BY <1>3, <2>3, <2>7, <2>8, <2>11, <2>12 DEF RangesUpTo, longer
<1>5. CASE ~(ranges # << >> /\ C!Last(ranges).offset + C!Last(ranges).length = n)
  <2> DEFINE more == C!Extended(ranges, n)
             new == [offset |-> n, length |-> 1]
  <2>1. more = Append(ranges, new)
    BY <1>5 DEF C!Extended
  <2>2. Len(more) = k + 1 /\ more[k + 1] = new /\ \A i \in 1 .. k : more[i] = ranges[i]
    BY <1>1, <2>1
  <2>3. \A i \in 1 .. k : ranges[i].offset + ranges[i].length < n
    <3> TAKE i \in 1 .. k
    <3>1. ranges # << >> /\ C!Last(ranges) = ranges[k] /\ k \in 1 .. k
      <4>1. ranges # << >>
        BY <1>1
      <4>. QED BY <4>1, <1>1, LastIs
    <3>2. ranges[k].offset + ranges[k].length <= n /\ ranges[k].offset + ranges[k].length # n
      BY <3>1, <1>5 DEF RangesUpTo
    <3>3. CASE i = k
      BY <3>1, <3>2, <3>3, <1>2
    <3>4. CASE i # k
      <4>1. i < k
        BY <3>4, <1>1
      <4>2. ranges[i].offset + ranges[i].length < ranges[k].offset
        BY <4>1, <3>1 DEF RangesUpTo
      <4>3. /\ ranges[i].offset \in Nat /\ ranges[i].length \in Nat
            /\ ranges[k].offset \in Nat /\ ranges[k].length \in Nat
        BY <3>1, <1>2
      <4>. QED BY <4>2, <4>3, <3>2
    <3>. QED BY <3>3, <3>4
  <2>4. new.offset = n /\ new.length = 1 /\ C!Covered(new) = {n}
    BY DEF C!Covered
  <2> HIDE DEF k, more, new
  <2>5. \A i \in 1 .. k + 1 : i \in 1 .. k \/ i = k + 1
    BY <1>1
  <2>6. \A i \in 1 .. k + 1 : more[i].offset + more[i].length <= n + 1
    BY <1>2, <2>2, <2>3, <2>4, <2>5
  <2>7. \A i, j \in 1 .. k + 1 : i < j => more[i].offset + more[i].length < more[j].offset
    <3> TAKE i, j \in 1 .. k + 1
    <3> HAVE i < j
    <3>1. i \in 1 .. k
      BY <1>1
    <3>2. CASE j = k + 1
      BY <3>1, <3>2, <2>2, <2>3, <2>4
    <3>3. CASE j \in 1 .. k
      BY <3>1, <3>3, <2>2 DEF RangesUpTo, k
    <3>. QED BY <3>2, <3>3, <2>5
  <2>8. n \in 1 .. n /\ \A m \in 1 .. n - 1 : m \in 1 .. n
    OBVIOUS
  <2>9. \A i \in 1 .. k + 1 : \A m \in C!Covered(more[i]) : m \in 1 .. n /\ actual[m] # wanted[m]
    BY <2>2, <2>4, <2>5, <2>8 DEF RangesUpTo, k
  <2>10. \A m \in 1 .. n : actual[m] # wanted[m] => \E i \in 1 .. k + 1 : m \in C!Covered(more[i])
    <3> TAKE m \in 1 .. n
    <3> HAVE actual[m] # wanted[m]
    <3>0. k + 1 \in 1 .. k + 1 /\ \A i \in 1 .. k : i \in 1 .. k + 1
      BY <1>1
    <3>1. CASE m = n
      BY <3>0, <3>1, <2>2, <2>4
    <3>2. CASE m # n
      <4>1. m \in 1 .. n - 1
        BY <3>2
      <4>2. PICK i \in 1 .. k : m \in C!Covered(ranges[i])
        BY <4>1 DEF RangesUpTo, k
      <4>. QED BY <4>2, <3>0, <2>2
    <3>. QED BY <3>1, <3>2
  <2>. QED BY <1>3, <2>2, <2>6, <2>7, <2>9, <2>10 DEF RangesUpTo, more
<1>. QED BY <1>4, <1>5

\* A byte that does not differ leaves the ranges as they are.
LEMMA RangesStay ==
  ASSUME NEW ranges, NEW actual, NEW wanted, NEW n \in Nat \ {0}, RangesUpTo(ranges, actual, wanted, n - 1),
         actual[n] = wanted[n]
  PROVE  RangesUpTo(ranges, actual, wanted, n)
<1>1. \A i \in 1 .. Len(ranges) : ranges[i].offset + ranges[i].length <= n + 1
  <2> TAKE i \in 1 .. Len(ranges)
  <2>1. ranges[i] \in DifferenceRanges
    BY DEF RangesUpTo
  <2>2. ranges[i].offset \in Nat /\ ranges[i].length \in Nat
    BY <2>1 DEF DifferenceRanges
  <2>. QED BY <2>2 DEF RangesUpTo
<1>2. \A m \in 1 .. n : m = n \/ m \in 1 .. n - 1
  OBVIOUS
<1>3. \A m \in 1 .. n - 1 : m \in 1 .. n
  OBVIOUS
<1>. QED BY <1>1, <1>2, <1>3 DEF RangesUpTo

LEMMA ComparisonGives ==
  ASSUME NEW X, NEW actual \in Seq(X), NEW wanted \in Seq(X)
  PROVE  LET least == C!Least(Len(actual), Len(wanted))
         IN  RangesUpTo(C!compareSnapshots(actual, wanted).ranges, actual, wanted, least)
<1> DEFINE k == C!Least(Len(actual), Len(wanted))
           Recursion(g) == g = [n \in 0 .. k |->
                                  IF n = 0 THEN << >>
                                  ELSE IF actual[n] = wanted[n] THEN g[n - 1] ELSE C!Extended(g[n - 1], n)]
           f == CHOOSE g : Recursion(g)
           W == Seq(DifferenceRanges)
           step == [x \in Nat \X W |-> IF actual[x[1]] = wanted[x[1]] THEN x[2] ELSE C!Extended(x[2], x[1])]
<1>1. k \in Nat
  BY DEF C!Least
<1>2. C!compareSnapshots(actual, wanted).ranges = f[k]
  BY DEF C!compareSnapshots
<1> HIDE DEF k
<1>3. << >> \in W
  OBVIOUS
<1>4. step \in [Nat \X W -> W]
  BY ExtendedIs
<1>5. PICK g : Recursive(g, W, << >>, step, k)
  <2> HIDE DEF W, step
  <2>. QED BY <1>1, <1>3, <1>4, RecursionExists
<1>6. /\ g \in [0 .. k -> W]
      /\ \A n \in 1 .. k : n - 1 \in 0 .. k /\ n \in Nat /\ <<n, g[n - 1]>> \in Nat \X W
  <2> HIDE DEF W, step
  <2>. QED BY <1>1, <1>5 DEF Recursive
<1>7. \A n \in 1 .. k : g[n] = IF actual[n] = wanted[n] THEN g[n - 1] ELSE C!Extended(g[n - 1], n)
  <2>1. \A n \in 1 .. k : g[n] = step[<<n, g[n - 1]>>]
    BY <1>5 DEF Recursive
  <2> HIDE DEF W
  <2>. QED BY <2>1, <1>6
<1>8. Recursion(g)
  <2>1. g = [n \in 0 .. k |-> g[n]]
    BY <1>6
  <2>2. \A n \in 0 .. k : g[n] = IF n = 0 THEN << >>
                                 ELSE IF actual[n] = wanted[n] THEN g[n - 1] ELSE C!Extended(g[n - 1], n)
    <3> TAKE n \in 0 .. k
    <3>1. CASE n = 0
      BY <3>1, <1>5 DEF Recursive
    <3>2. CASE n # 0
      <4>1. n \in 1 .. k
        BY <3>2, <1>1
      <4>. QED BY <3>2, <4>1, <1>7
    <3>. QED BY <3>1, <3>2
  <2>. QED BY <2>1, <2>2
<1>9. Recursion(f)
  <2> HIDE DEF Recursion
  <2>. QED BY <1>8
<1>10. \A n \in 0 .. k : f[n] = IF n = 0 THEN << >>
                                ELSE IF actual[n] = wanted[n] THEN f[n - 1] ELSE C!Extended(f[n - 1], n)
  <2> HIDE DEF f
  <2>. QED BY <1>9
<1> HIDE DEF f, Recursion, W, step
<1> DEFINE T == {n \in 0 .. k : RangesUpTo(f[n], actual, wanted, n)}
<1>11. 0 \in T
  <2>1. f[0] = << >> /\ 0 \in 0 .. k
    BY <1>1, <1>10
  <2>2. << >> \in Seq(DifferenceRanges) /\ Len(<< >>) = 0 /\ 1 .. 0 = {}
    OBVIOUS
  <2>3. RangesUpTo(<< >>, actual, wanted, 0)
    BY <2>2 DEF RangesUpTo
  <2>. QED BY <2>1, <2>3
<1>12. ASSUME NEW n \in 1 .. k, n - 1 \in T PROVE n \in T
  <2>1. n \in 0 .. k /\ n # 0 /\ n \in Nat \ {0}
    BY <1>1
  <2>2. RangesUpTo(f[n - 1], actual, wanted, n - 1)
    BY <1>12
  <2>3. RangesUpTo(f[n], actual, wanted, n)
    <3>1. CASE actual[n] = wanted[n]
      BY <3>1, <2>1, <2>2, <1>10, RangesStay
    <3>2. CASE actual[n] # wanted[n]
      BY <3>2, <2>1, <2>2, <1>10, RangesNext
    <3>. QED BY <3>1, <3>2
  <2>. QED BY <2>1, <2>3
<1>13. k \in T
  <2> HIDE DEF T
  <2>. QED BY <1>1, <1>11, <1>12, NumbersAre
<1>. QED BY <1>2, <1>13 DEF k

LEMMA BothCounted ==
  ASSUME NEW n \in Nat, NEW m \in Nat
  PROVE  C!Least(n, m) + C!Greatest(0, m - n) = m /\ C!Least(n, m) + C!Greatest(0, n - m) = n
BY DEF C!Least, C!Greatest

\* The comparison of what was read with what was programmed puts every byte that
\* differs in one range and no other byte in any, the ranges do not touch, and
\* bytes that were not read are counted: for images of any length.
THEOREM DifferencesAreFound ==
  ASSUME NEW X, NEW actual \in Seq(X), NEW wanted \in Seq(X)
  PROVE  C!ExactDifferences(actual, wanted)
<1> DEFINE result == C!compareSnapshots(actual, wanted)
           rs == result.ranges
           k == C!Least(Len(actual), Len(wanted))
<1>1. RangesUpTo(rs, actual, wanted, k)
  BY ComparisonGives
<1>2. /\ result.compared + result.unread = Len(wanted)
      /\ result.compared + result.extra = Len(actual)
  <2>1. Len(actual) \in Nat /\ Len(wanted) \in Nat
    OBVIOUS
  <2>2. /\ result.compared = k
        /\ result.unread = C!Greatest(0, Len(wanted) - Len(actual))
        /\ result.extra = C!Greatest(0, Len(actual) - Len(wanted))
    BY DEF C!compareSnapshots
  <2> HIDE DEF result
  <2>. QED BY <2>1, <2>2, BothCounted
<1> HIDE DEF result, k
<1>3. rs \in Seq(DifferenceRanges) /\ DOMAIN rs = 1 .. Len(rs) /\ Len(rs) \in Nat
  BY <1>1, SequenceIs DEF RangesUpTo
<1>4. C!ToSet(rs) = {rs[i] : i \in 1 .. Len(rs)}
  BY <1>3 DEF C!ToSet
<1>5. UNION {C!Covered(range) : range \in C!ToSet(rs)} = {i \in 1 .. k : actual[i] # wanted[i]}
  <2> HIDE DEF rs
  <2>1. \A i \in UNION {C!Covered(range) : range \in C!ToSet(rs)} : i \in 1 .. k /\ actual[i] # wanted[i]
    BY <1>1, <1>4 DEF RangesUpTo
  <2>2. \A i \in 1 .. k : actual[i] # wanted[i] => i \in UNION {C!Covered(range) : range \in C!ToSet(rs)}
    BY <1>1, <1>4 DEF RangesUpTo
  <2>. QED BY <2>1, <2>2
<1>6. \A a, b \in C!ToSet(rs) : a # b => (a.offset + a.length < b.offset \/ b.offset + b.length < a.offset)
  <2> HIDE DEF rs
  <2> TAKE a, b \in C!ToSet(rs)
  <2> HAVE a # b
  <2>1. PICK i, j \in 1 .. Len(rs) : a = rs[i] /\ b = rs[j]
    BY <1>4
  <2>2. i < j \/ j < i
    BY <2>1, <1>3
  <2>. QED BY <2>1, <2>2, <1>1 DEF RangesUpTo
<1>. QED BY <1>2, <1>5, <1>6 DEF C!ExactDifferences, result, k

\* The overview reads from the EEPROM what the EEPROM page reads from the ConfigData
\* of the file that was programmed: for every ConfigData of up to 14 bytes, be the
\* bytes what they are.
THEOREM PrefixIsRead ==
  ASSUME NEW config \in Seq(Nat), Len(config) \in 1 .. 14
  PROVE  C!SamePrefix(config)
<1> DEFINE size == Len(config)
           zeros == [i \in 1 .. 16 - size |-> 0]
           prefix == config \o zeros
<1>1. size \in 1 .. 14 /\ zeros \in Seq(Nat) /\ Len(zeros) = 16 - size
  <2>1. ASSUME NEW m \in Nat PROVE [i \in 1 .. m |-> 0] \in Seq(Nat) /\ Len([i \in 1 .. m |-> 0]) = m
    <3>1. [i \in 1 .. m |-> 0] \in [1 .. m -> Nat]
      OBVIOUS
    <3>2. [i \in 1 .. m |-> 0] \in Seq(Nat)
      BY <3>1
    <3>. QED BY <3>1, <3>2
  <2>2. size \in 1 .. 14
    OBVIOUS
  <2>3. 16 - size \in Nat
    <3> HIDE DEF size
    <3>. QED BY <2>2
  <2> HIDE DEF size
  <2>. QED BY <2>1, <2>2, <2>3
<1>2. Len(prefix) = 16 /\ \A i \in 1 .. 16 : prefix[i] = IF i <= size THEN config[i] ELSE 0
  <2>1. \A i \in 1 .. 16 - size : zeros[i] = 0
    BY <1>1
  <2>2. config \in Seq(Nat) /\ size = Len(config)
    OBVIOUS
  <2> HIDE DEF zeros, size
  <2>3. Len(prefix) = 16
    BY <1>1, <2>2
  <2>4. \A i \in 1 .. 16 : i <= size => prefix[i] = config[i]
    BY <1>1, <2>2
  <2>5. \A i \in 1 .. 16 : ~(i <= size) => prefix[i] = zeros[i - size] /\ i - size \in 1 .. 16 - size
    BY <1>1, <2>2
  <2>. QED BY <2>1, <2>3, <2>4, <2>5
<1> HIDE DEF zeros, prefix
<1>3. \A offset \in 0 .. 9 : C!ByteAt(config, offset) = C!ByteAt(prefix, offset)
  <2> TAKE offset \in 0 .. 9
  <2>1. offset + 1 \in 1 .. 16 /\ (offset + 1 <= size <=> offset < size) /\ offset < 16
    BY <1>1
  <2>. QED BY <1>2, <2>1 DEF C!ByteAt
<1>4. /\ C!Word(config, 4) = C!Word(prefix, 4) /\ C!Word(config, 6) = C!Word(prefix, 6)
      /\ C!Word(config, 8) = C!Word(prefix, 8)
  BY <1>3 DEF C!Word
<1> HIDE DEF size
<1>5. (2 * size) % 2 = 0 /\ ~(2 * size < 2) /\ ~(2 * size > 28)
  BY <1>1
<1>6. C!decodeConfigData(2 * size, config) = C!decodeEepromPrefix(prefix)
  BY <1>3, <1>4, <1>5 DEF C!decodeConfigData, C!decodeEepromPrefix
<1>. QED BY <1>6 DEF C!SamePrefix, prefix, zeros, size

-----------------------------------------------------------------------------
(* Unchanged slaves keep their object                                         *)

SlavesAt(P, D, ref) == [position : P, data : D, ref : {ref}]
StatusOf(I, P, D, ref) == [session : I, data : D, ref : {ref}, slaves : Seq(SlavesAt(P, D, ref))]

LEMMA SlavesAre ==
  ASSUME NEW P, NEW D, NEW ref, NEW s \in SlavesAt(P, D, ref)
  PROVE  /\ s = [position |-> s.position, data |-> s.data, ref |-> ref]
         /\ s.ref = ref
BY DEF SlavesAt

\* The values of a slave, without its object
Values(s) == [s EXCEPT !.ref = ""]

LEMMA EqualSlaves ==
  ASSUME NEW P, NEW D, NEW x, NEW y, NEW a \in SlavesAt(P, D, x), NEW b \in SlavesAt(P, D, y)
  PROVE  /\ C!equalValue(a, b) <=> a.position = b.position /\ a.data = b.data
         /\ C!equalValue(a, b) => Values(a) = Values(b)
<1>1. a \in [position : P, data : D, ref : {x}] /\ b \in [position : P, data : D, ref : {y}]
  BY DEF SlavesAt
<1>2. C!equalValue(a, b) <=> [a EXCEPT !.ref = b.ref] = b
  BY DEF C!equalValue
<1>3. [a EXCEPT !.ref = b.ref] = b <=> a.position = b.position /\ a.data = b.data
  BY <1>1
<1>4. a.position = b.position /\ a.data = b.data => Values(a) = Values(b)
  BY <1>1, Zenon DEF Values
<1>. QED BY <1>2, <1>3, <1>4

LEMMA KeepsIs ==
  ASSUME NEW P, NEW D, NEW slaves \in Seq(SlavesAt(P, D, "old")), NEW one \in SlavesAt(P, D, "new"),
         \A i, j \in 1 .. Len(slaves) : slaves[i].position = slaves[j].position => i = j
  PROVE  /\ \/ \E i \in 1 .. Len(slaves) : C!Keeps(slaves, one) = slaves[i] /\ C!equalValue(slaves[i], one)
            \/ /\ C!Keeps(slaves, one) = one
               /\ \A i \in 1 .. Len(slaves) : ~C!equalValue(slaves[i], one)
<1> DEFINE places == {i \in DOMAIN slaves : slaves[i].position = one.position}
           latest == CHOOSE i \in places : \A j \in places : j <= i
<1>1. DOMAIN slaves = 1 .. Len(slaves) /\ Len(slaves) \in Nat
  BY SequenceIs
<1>2. \A i \in 1 .. Len(slaves) : slaves[i] \in SlavesAt(P, D, "old")
  OBVIOUS
<1>3. C!Keeps(slaves, one) = IF places # {} /\ C!equalValue(slaves[latest], one) THEN slaves[latest] ELSE one
  BY DEF C!Keeps
<1>4. \A i \in 1 .. Len(slaves) : C!equalValue(slaves[i], one) => i \in places
  <2> SUFFICES ASSUME NEW i \in 1 .. Len(slaves), C!equalValue(slaves[i], one)
               PROVE  i \in places
    OBVIOUS
  <2> DEFINE a == slaves[i]
  <2>1. a \in SlavesAt(P, D, "old") /\ C!equalValue(a, one)
    BY <1>2
  <2>2. a.position = one.position
    <3> HIDE DEF a
    <3>. QED BY <2>1, EqualSlaves
  <2>. QED BY <1>1, <2>2
<1>5. CASE places = {}
  BY <1>3, <1>4, <1>5
<1>6. CASE places # {}
  <2>1. PICK i \in places : TRUE
    BY <1>6
  <2>2. places = {i} /\ i \in 1 .. Len(slaves)
    BY <1>1, <2>1
  <2>3. \E n \in places : \A j \in places : j <= n
    BY <2>2
  <2>4. latest = i
    <3> HIDE DEF places
    <3>1. latest \in places
      BY <2>3
    <3>. QED BY <3>1, <2>2
  <2> HIDE DEF latest, places
  <2>5. CASE C!equalValue(slaves[i], one)
    BY <1>3, <1>6, <2>2, <2>4, <2>5
  <2>6. CASE ~C!equalValue(slaves[i], one)
    <3>1. \A n \in 1 .. Len(slaves) : ~C!equalValue(slaves[n], one)
      BY <1>4, <2>2, <2>6
    <3>. QED BY <3>1, <1>3, <2>4, <2>6
  <2>. QED BY <2>5, <2>6
<1>. QED BY <1>5, <1>6

\* The page shows what came last, and a slave is drawn again exactly when it changed
\* or is of another session: for every number of slaves, each at its position.
THEOREM UnchangedAreKept ==
  ASSUME NEW I, NEW P, NEW D, NEW current \in StatusOf(I, P, D, "old"), NEW incoming \in StatusOf(I, P, D, "new"),
         \A i, j \in DOMAIN current.slaves : current.slaves[i].position = current.slaves[j].position => i = j
  PROVE  C!DrawsChanges(current, incoming)
<1> DEFINE before == current.slaves
           after == incoming.slaves
           merged == [i \in DOMAIN after |-> C!Keeps(before, after[i])]
           next == [incoming EXCEPT !.slaves = merged]
           result == C!reconcileBusSnapshot(current, incoming)
<1>1. /\ before \in Seq(SlavesAt(P, D, "old")) /\ after \in Seq(SlavesAt(P, D, "new"))
      /\ current.session \in I /\ incoming.session \in I
  BY DEF StatusOf
<1>2. /\ DOMAIN before = 1 .. Len(before) /\ DOMAIN after = 1 .. Len(after)
      /\ \A i \in DOMAIN before : before[i] \in SlavesAt(P, D, "old")
      /\ \A i \in DOMAIN after : after[i] \in SlavesAt(P, D, "new")
  BY <1>1, SequenceIs
<1>3. result = IF current.session # incoming.session THEN incoming
               ELSE IF C!Plain(current) = C!Plain(next) THEN current ELSE next
  BY DEF C!reconcileBusSnapshot
<1>4. next.slaves = merged /\ DOMAIN merged = DOMAIN after
  BY DEF StatusOf
<1>5. ASSUME NEW i \in DOMAIN after
      PROVE  \/ /\ merged[i] = after[i]
                /\ \A n \in DOMAIN before : ~C!equalValue(before[n], after[i])
             \/ \E n \in DOMAIN before : merged[i] = before[n] /\ C!equalValue(before[n], after[i])
  <2>1. merged[i] = C!Keeps(before, after[i])
    OBVIOUS
  <2> HIDE DEF before, after, merged
  <2>2. \A k, j \in 1 .. Len(before) : before[k].position = before[j].position => k = j
    BY <1>2 DEF before
  <2>. QED BY <1>1, <1>2, <2>1, <2>2, KeepsIs
<1>6. C!Plain(next) = C!Plain(incoming)
  <2>1. ASSUME NEW i \in DOMAIN after
        PROVE  Values(merged[i]) = Values(after[i])
    <3> HIDE DEF before, after, merged
    <3>1. CASE merged[i] = after[i]
      BY <3>1
    <3>2. CASE \E n \in DOMAIN before : merged[i] = before[n] /\ C!equalValue(before[n], after[i])
      <4>1. PICK a, b : a \in SlavesAt(P, D, "old") /\ b \in SlavesAt(P, D, "new") /\ C!equalValue(a, b)
                          /\ a = merged[i] /\ b = after[i]
        BY <3>2, <1>2
      <4>2. Values(a) = Values(b)
        BY <4>1, EqualSlaves
      <4>. QED BY <4>1, <4>2
    <3>. QED BY <3>1, <3>2, <1>5
  <2> DEFINE plainly(s) == [i \in DOMAIN s |-> [s[i] EXCEPT !.ref = ""]]
  <2>2. plainly(merged) = plainly(after)
    <3> HIDE DEF merged, after
    <3>. QED BY <1>4, <2>1, Zenon DEF Values
  <2>3. C!Plain(next) = [next EXCEPT !.ref = "", !.slaves = plainly(next.slaves)]
    BY DEF C!Plain
  <2>4. C!Plain(incoming) = [incoming EXCEPT !.ref = "", !.slaves = plainly(after)]
    BY DEF C!Plain
  <2>5. next = [session |-> incoming.session, data |-> incoming.data, ref |-> incoming.ref, slaves |-> merged]
    BY DEF StatusOf
  <2>6. incoming = [session |-> incoming.session, data |-> incoming.data, ref |-> incoming.ref, slaves |-> after]
    BY DEF StatusOf
  <2>7. C!Plain(next) = [session |-> incoming.session, data |-> incoming.data, ref |-> "", slaves |-> plainly(merged)]
    <3> HIDE DEF plainly, merged
    <3>. QED BY <2>3, <2>5, Zenon
  <2>8. C!Plain(incoming) = [session |-> incoming.session, data |-> incoming.data, ref |-> "", slaves |-> plainly(after)]
    <3> HIDE DEF plainly, after
    <3>. QED BY <2>4, <2>6, Zenon
  <2> HIDE DEF plainly, merged, after, next
  <2>. QED BY <2>2, <2>7, <2>8, Zenon
<1>7. C!ToSet(before) = {before[i] : i \in DOMAIN before} /\ C!ToSet(after) = {after[i] : i \in DOMAIN after}
      /\ C!ToSet(merged) = {merged[i] : i \in DOMAIN after}
  BY DEF C!ToSet
<1> HIDE DEF before, after, merged, next, result
<1>8. CASE current.session # incoming.session
  <2>1. result = incoming
    BY <1>3, <1>8
  <2>2. \A one \in C!ToSet(incoming.slaves) : one.ref = "new"
    BY <1>2, <1>7, SlavesAre DEF after
  <2>. QED BY <1>8, <2>1, <2>2 DEF C!DrawsChanges, result
<1>9. CASE current.session = incoming.session /\ C!Plain(current) = C!Plain(next)
  <2>1. result = current
    BY <1>3, <1>9
  <2>2. ASSUME NEW one \in C!ToSet(before) PROVE one.ref # "new" /\ C!equalValue(one, one)
    <3>1. one \in SlavesAt(P, D, "old")
      BY <1>2, <1>7
    <3>. QED BY <3>1, SlavesAre, EqualSlaves
  <2>3. C!Plain(result) = C!Plain(incoming)
    BY <2>1, <1>6, <1>9
  <2>. QED BY <1>9, <2>1, <2>2, <2>3 DEF C!DrawsChanges, result, before
<1>10. CASE current.session = incoming.session /\ C!Plain(current) # C!Plain(next)
  <2>1. result = next
    BY <1>3, <1>10
  <2>2. ASSUME NEW one \in C!ToSet(merged)
        PROVE  one.ref = "new" <=> \A old \in C!ToSet(before) : ~C!equalValue(old, one)
    <3>1. PICK i \in DOMAIN after : one = merged[i]
      BY <1>7
    <3>2. CASE /\ merged[i] = after[i]
               /\ \A n \in DOMAIN before : ~C!equalValue(before[n], after[i])
      <4>1. one.ref = "new"
        BY <3>1, <3>2, <1>2, SlavesAre
      <4>. QED BY <4>1, <3>1, <3>2, <1>7
    <3>3. CASE \E n \in DOMAIN before : merged[i] = before[n] /\ C!equalValue(before[n], after[i])
      <4>1. PICK n \in DOMAIN before : one = before[n]
        BY <3>1, <3>3
      <4>2. one.ref # "new" /\ C!equalValue(before[n], one)
        BY <4>1, <1>2, SlavesAre, EqualSlaves
      <4>. QED BY <4>1, <4>2, <1>7
    <3>. QED BY <3>2, <3>3, <1>5
  <2>3. C!Plain(result) = C!Plain(incoming)
    BY <2>1, <1>6
  <2>. QED BY <1>4, <1>10, <2>1, <2>2, <2>3 DEF C!DrawsChanges, result, before
<1>. QED BY <1>8, <1>9, <1>10

-----------------------------------------------------------------------------
(* Powers of two, quotients and remainders                                    *)

\* The powers are a function on all numbers: each of the recursions up to a number
\* is a part of the next.
LEMMA PowersAre ==
  /\ C!PowerOfTwo \in [Nat -> Nat \ {0}] /\ C!PowerOfTwo[0] = 1
  /\ \A n \in Nat : C!PowerOfTwo[n + 1] = 2 * C!PowerOfTwo[n]
<1> DEFINE Power(g) == g = [n \in Nat |-> IF n = 0 THEN 1 ELSE 2 * g[n - 1]]
           Up(g, k) == g \in [0 .. k -> Nat \ {0}] /\ g[0] = 1 /\ \A n \in 1 .. k : g[n] = 2 * g[n - 1]
           some == [k \in Nat |-> CHOOSE g : Up(g, k)]
           all == [k \in Nat |-> some[k][k]]
<1>1. ASSUME NEW k \in Nat PROVE \E g : Up(g, k)
  <2> DEFINE step == [x \in Nat \X (Nat \ {0}) |-> 2 * x[2]]
  <2>1. step \in [Nat \X (Nat \ {0}) -> Nat \ {0}] /\ 1 \in Nat \ {0}
    OBVIOUS
  <2>2. PICK g : Recursive(g, Nat \ {0}, 1, step, k)
    <3> HIDE DEF step
    <3>. QED BY <2>1, RecursionExists
  <2>3. \A n \in 1 .. k : g[n] = 2 * g[n - 1]
    <3> TAKE n \in 1 .. k
    <3>1. <<n, g[n - 1]>> \in Nat \X (Nat \ {0}) /\ g[n] = step[<<n, g[n - 1]>>]
      <4>1. n \in Nat /\ n - 1 \in 0 .. k
        OBVIOUS
      <4>. QED BY <4>1, <2>2 DEF Recursive
    <3>. QED BY <3>1
  <2>4. Up(g, k)
    BY <2>2, <2>3 DEF Recursive
  <2>. QED BY <2>4
<1>2. \A k \in Nat : Up(some[k], k)
  <2> TAKE k \in Nat
  <2>1. some[k] = CHOOSE g : Up(g, k)
    OBVIOUS
  <2> HIDE DEF Up, some
  <2>. QED BY <1>1, <2>1
<1>3. ASSUME NEW k \in Nat
      PROVE  some[k + 1][k] = some[k][k]
  <2>1. Up(some[k], k) /\ Up(some[k + 1], k + 1)
    <3>1. k + 1 \in Nat
      OBVIOUS
    <3> HIDE DEF some, Up
    <3>. QED BY <3>1, <1>2
  <2>2. ASSUME NEW f, NEW h, Up(f, k), Up(h, k + 1)
        PROVE  h[k] = f[k]
    <3> DEFINE T == {n \in 0 .. k : h[n] = f[n]}
    <3>1. 0 \in T
      BY <2>2
    <3>2. ASSUME NEW n \in 1 .. k, n - 1 \in T PROVE n \in T
      <4>1. n \in 1 .. k + 1 /\ n \in 0 .. k
        OBVIOUS
      <4>. QED BY <4>1, <2>2, <3>2
    <3> HIDE DEF T
    <3>3. k \in T
      BY <3>1, <3>2, NumbersAre
    <3>. QED BY <3>3 DEF T
  <2> HIDE DEF some, Up
  <2>. QED BY <2>1, <2>2
<1>4. /\ all \in [Nat -> Nat \ {0}] /\ all[0] = 1
      /\ \A n \in Nat : all[n + 1] = 2 * all[n]
  <2>1. \A k \in Nat : all[k] \in Nat \ {0} /\ all[k] = some[k][k]
    <3> HIDE DEF some
    <3>. QED BY <1>2
  <2>2. all \in [Nat -> Nat \ {0}]
    <3>1. DOMAIN all = Nat /\ all = [k \in Nat |-> all[k]]
      OBVIOUS
    <3> HIDE DEF all
    <3>. QED BY <2>1, <3>1
  <2>3. \A n \in Nat : all[n + 1] = 2 * all[n]
    <3> TAKE n \in Nat
    <3>1. n + 1 \in Nat /\ n + 1 \in 1 .. n + 1 /\ n + 1 - 1 = n
      OBVIOUS
    <3> HIDE DEF some, all
    <3>2. some[n + 1][n + 1] = 2 * some[n + 1][n]
      BY <1>2, <3>1
    <3>. QED BY <2>1, <3>1, <3>2, <1>3
  <2> HIDE DEF some
  <2>. QED BY <1>2, <2>1, <2>2, <2>3
<1>5. Power(all)
  <2>1. all = [n \in Nat |-> all[n]]
    OBVIOUS
  <2> HIDE DEF all
  <2>2. \A n \in Nat : all[n] = IF n = 0 THEN 1 ELSE 2 * all[n - 1]
    <3> TAKE n \in Nat
    <3>1. CASE n = 0
      BY <3>1, <1>4
    <3>2. CASE n # 0
      <4>1. n - 1 \in Nat /\ (n - 1) + 1 = n
        BY <3>2
      <4>. QED BY <3>2, <4>1, <1>4
    <3>. QED BY <3>1, <3>2
  <2>. QED BY <2>1, <2>2
<1> DEFINE P == C!PowerOfTwo
<1>6. Power(P)
  <2>1. P = CHOOSE g : Power(g)
    BY DEF C!PowerOfTwo
  <2> HIDE DEF P, Power, all
  <2>. QED BY <1>5, <2>1
<1> HIDE DEF P, all, some
<1>7. P[0] = 1 /\ \A n \in Nat : P[n + 1] = 2 * P[n]
  <2>1. \A n \in Nat : P[n] = IF n = 0 THEN 1 ELSE 2 * P[n - 1]
    BY <1>6
  <2>2. \A n \in Nat : n + 1 \in Nat /\ n + 1 # 0 /\ n + 1 - 1 = n
    OBVIOUS
  <2>. QED BY <2>1, <2>2
<1>8. ASSUME NEW k \in Nat PROVE P[k] \in Nat \ {0}
  <2> DEFINE T == {n \in 0 .. k : P[n] \in Nat \ {0}}
  <2>1. 0 \in T
    BY <1>7
  <2>2. ASSUME NEW n \in 1 .. k, n - 1 \in T PROVE n \in T
    <3>1. n - 1 \in Nat /\ n - 1 + 1 = n
      OBVIOUS
    <3>2. P[n] = 2 * P[n - 1] /\ P[n - 1] \in Nat \ {0}
      BY <3>1, <1>7, <2>2
    <3>. QED BY <3>2
  <2> HIDE DEF T
  <2>3. k \in T
    BY <2>1, <2>2, NumbersAre
  <2>. QED BY <2>3 DEF T
<1>9. P \in [Nat -> Nat \ {0}]
  <2>1. P = [n \in Nat |-> P[n]]
    <3>1. P = [n \in Nat |-> IF n = 0 THEN 1 ELSE 2 * P[n - 1]]
      BY <1>6
    <3>. QED BY <3>1
  <2>. QED BY <2>1, <1>8
<1>. QED BY <1>7, <1>9 DEF P

LEMMA PowersMultiply ==
  ASSUME NEW n \in Nat, NEW m \in Nat
  PROVE  C!PowerOfTwo[n + m] = C!PowerOfTwo[n] * C!PowerOfTwo[m]
<1> DEFINE P == C!PowerOfTwo
           T == {k \in 0 .. m : P[n + k] = P[n] * P[k]}
<1>0. /\ P \in [Nat -> Nat \ {0}] /\ P[0] = 1
      /\ \A k \in Nat : P[k + 1] = 2 * P[k]
  BY PowersAre
<1> HIDE DEF P
<1>1. 0 \in T
  BY <1>0
<1>2. ASSUME NEW k \in 1 .. m, k - 1 \in T PROVE k \in T
  <2>1. k - 1 \in Nat /\ k - 1 + 1 = k /\ n + (k - 1) \in Nat /\ n + (k - 1) + 1 = n + k
    OBVIOUS
  <2>2. P[k] = 2 * P[k - 1] /\ P[n + k] = 2 * P[n + (k - 1)] /\ P[n + (k - 1)] = P[n] * P[k - 1]
    BY <2>1, <1>0, <1>2
  <2>3. P[n] \in Nat /\ P[k - 1] \in Nat
    BY <2>1, <1>0
  <2>4. 2 * (P[n] * P[k - 1]) = P[n] * (2 * P[k - 1])
    BY <2>3
  <2>. QED BY <2>2, <2>4
<1>3. m \in T
  <2> HIDE DEF T
  <2>. QED BY <1>1, <1>2, NumbersAre
<1>. QED BY <1>3 DEF P

LEMMA DivisionIs ==
  ASSUME NEW b \in Nat \ {0}, NEW a \in Nat
  PROVE  /\ a \div b \in Nat /\ a % b \in Nat /\ a % b < b
         /\ a = (a \div b) * b + (a % b)
<1>1. a = (a \div b) * b + (a % b)
  OBVIOUS
<1>2. a % b \in Nat /\ a % b < b
  OBVIOUS
<1>3. a \div b \in Nat
  OBVIOUS
<1>. QED BY <1>1, <1>2, <1>3

\* The quotient and the remainder are the only ones.
LEMMA QuotientIs ==
  ASSUME NEW b \in Nat \ {0}, NEW q \in Nat, NEW r \in Nat, r < b
  PROVE  (q * b + r) \div b = q /\ (q * b + r) % b = r
<1>1. (q * b + r) \div b = q
  OBVIOUS
<1>2. (q * b + r) % b = r
  OBVIOUS
<1>. QED BY <1>1, <1>2

\* What is below a product has a quotient below the one factor.
LEMMA QuotientBelow ==
  ASSUME NEW b \in Nat \ {0}, NEW c \in Nat \ {0}, NEW a \in Nat, a < c * b
  PROVE  a \div b < c
<1> DEFINE q == a \div b
<1>1. q \in Nat /\ q * b <= a
  BY DivisionGives
<1> HIDE DEF q
<1>2. q * b < c * b
  <2>1. q * b \in Nat /\ c * b \in Nat
    BY <1>1, MultiplesInOrder
  <2>. QED BY <2>1, <1>1
<1>3. q < c
  BY <1>1, <1>2, MultiplesInOrder
<1>. QED BY <1>3 DEF q

\* A digit before digits that make less than their weight makes less than the next.
LEMMA DigitsBelow ==
  ASSUME NEW b \in Nat \ {0}, NEW c \in Nat, NEW a \in Nat, NEW r \in Nat, a < c, r < b
  PROVE  a * b + r \in Nat /\ a * b + r < c * b
<1>1. a + 1 \in Nat /\ a + 1 <= c
  OBVIOUS
<1>2. a * b \in Nat /\ (a + 1) * b = a * b + b /\ (a + 1) * b <= c * b /\ c * b \in Nat
  BY <1>1, MultiplesInOrder
<1>. QED BY <1>2

\* A quotient divided again.
LEMMA DividedTwice ==
  ASSUME NEW b \in Nat \ {0}, NEW c \in Nat \ {0}, NEW a \in Nat
  PROVE  (a \div b) \div c = a \div (b * c)
<1>1. PICK q \in Nat, r \in Nat : q = a \div b /\ r < b /\ a = q * b + r
  BY DivisionIs
<1>2. PICK d \in Nat, e \in Nat : d = q \div c /\ e < c /\ q = d * c + e
  BY DivisionIs
<1>3. b * c \in Nat \ {0} /\ c * b = b * c
  OBVIOUS
<1>4. e * b + r \in Nat /\ e * b + r < b * c
  BY <1>1, <1>2, <1>3, DigitsBelow
<1>5. a = d * (b * c) + (e * b + r)
  <2>1. (d * c + e) * b = d * (b * c) + e * b
    OBVIOUS
  <2>2. q * b = d * (b * c) + e * b
    BY <2>1, <1>2
  <2>3. d * (b * c) \in Nat /\ e * b \in Nat
    OBVIOUS
  <2>. QED BY <1>1, <2>2, <2>3
<1>6. (d * (b * c) + (e * b + r)) \div (b * c) = d
  <2> DEFINE bc == b * c
             low == e * b + r
  <2> HIDE DEF bc, low
  <2>1. bc \in Nat \ {0} /\ low \in Nat /\ low < bc
    BY <1>3, <1>4 DEF bc, low
  <2>2. (d * bc + low) \div bc = d
    BY <2>1, QuotientIs
  <2>. QED BY <2>2 DEF bc, low
<1>. QED BY <1>1, <1>2, <1>5, <1>6

-----------------------------------------------------------------------------
(* Register values: a value is encoded, a field is edited                     *)

LEMMA ByteIs ==
  /\ ByteBits \in Nat \ {0} /\ C!Byte \in Nat \ {0} /\ C!Byte = C!PowerOfTwo[ByteBits]
  /\ \A n \in Nat : n * ByteBits \in Nat /\ C!PowerOfTwo[n * ByteBits] \in Nat \ {0}
  /\ \A n \in Nat : C!PowerOfTwo[(n + 1) * ByteBits] = C!PowerOfTwo[n * ByteBits] * C!Byte
<1>1. ByteBits \in Nat \ {0} /\ C!Byte = C!PowerOfTwo[ByteBits]
  BY CodecAssumption DEF C!Byte
<1>2. C!Byte \in Nat \ {0}
  BY <1>1, PowersAre
<1>3. \A n \in Nat : n * ByteBits \in Nat /\ (n + 1) * ByteBits = n * ByteBits + ByteBits
  BY <1>1, MultiplesInOrder
<1>4. ASSUME NEW n \in Nat
      PROVE  /\ C!PowerOfTwo[n * ByteBits] \in Nat \ {0}
             /\ C!PowerOfTwo[(n + 1) * ByteBits] = C!PowerOfTwo[n * ByteBits] * C!Byte
  <2>1. C!PowerOfTwo[n * ByteBits] \in Nat \ {0}
    BY <1>3, PowersAre
  <2>2. C!PowerOfTwo[n * ByteBits + ByteBits] = C!PowerOfTwo[n * ByteBits] * C!PowerOfTwo[ByteBits]
    BY <1>1, <1>3, PowersMultiply
  <2>. QED BY <2>1, <2>2, <1>1, <1>3
<1>. QED BY <1>1, <1>2, <1>3, <1>4

\* The number of a register, byte after byte from the last one.
Weighed(f, bytes) ==
  /\ DOMAIN f = 0 .. Len(bytes) /\ f[0] = 0 /\ f[Len(bytes)] = C!registerNumber(bytes)
  /\ \A n \in 1 .. Len(bytes) : f[n] = f[n - 1] * C!Byte + bytes[Len(bytes) - n + 1]

LEMMA NumberIsWeighed ==
  ASSUME NEW bytes, Len(bytes) \in Nat, \A i \in 1 .. Len(bytes) : bytes[i] \in Nat
  PROVE  \E f \in [0 .. Len(bytes) -> Nat] : Weighed(f, bytes)
<1> DEFINE k == Len(bytes)
           Recursion(g) == g = [n \in 0 .. k |-> IF n = 0 THEN 0 ELSE g[n - 1] * C!Byte + bytes[k - n + 1]]
           f == CHOOSE g : Recursion(g)
           step == [x \in Nat \X Nat |-> IF x[1] \in 1 .. k THEN x[2] * C!Byte + bytes[k - x[1] + 1] ELSE 0]
<1>1. C!registerNumber(bytes) = f[k]
  BY DEF C!registerNumber
<1>2. step \in [Nat \X Nat -> Nat]
  <2>1. ASSUME NEW n \in 1 .. k, NEW v \in Nat PROVE v * C!Byte + bytes[k - n + 1] \in Nat
    <3>1. v * C!Byte \in Nat /\ k - n + 1 \in 1 .. k
      BY ByteIs, MultiplesInOrder
    <3>. QED BY <3>1
  <2>2. \A x \in Nat \X Nat : x[1] \in Nat /\ x[2] \in Nat
    OBVIOUS
  <2> HIDE DEF k
  <2>. QED BY <2>1, <2>2
<1>3. PICK g : Recursive(g, Nat, 0, step, k)
  <2> HIDE DEF step
  <2>. QED BY <1>2, RecursionExists
<1>4. g \in [0 .. k -> Nat] /\ g[0] = 0
  BY <1>3 DEF Recursive
<1>5. ASSUME NEW n \in 1 .. k PROVE g[n] = g[n - 1] * C!Byte + bytes[k - n + 1]
  <2>1. n \in Nat /\ n - 1 \in 0 .. k
    OBVIOUS
  <2>2. <<n, g[n - 1]>> \in Nat \X Nat /\ g[n] = step[<<n, g[n - 1]>>]
    <3> HIDE DEF step
    <3>. QED BY <2>1, <1>3, <1>4 DEF Recursive
  <2>. QED BY <2>2
<1> HIDE DEF step
<1>6. Recursion(g)
  <2>1. g = [n \in 0 .. k |-> g[n]]
    BY <1>4
  <2>2. \A n \in 0 .. k : n # 0 => n \in 1 .. k
    OBVIOUS
  <2> HIDE DEF k
  <2>. QED BY <2>1, <2>2, <1>4, <1>5
<1>7. Recursion(f)
  <2> HIDE DEF Recursion
  <2>. QED BY <1>6
<1> HIDE DEF f
<1>8. DOMAIN f = 0 .. k /\ \A n \in 0 .. k : f[n] = IF n = 0 THEN 0 ELSE f[n - 1] * C!Byte + bytes[k - n + 1]
  BY <1>7
<1>9. Weighed(f, bytes)
  BY <1>1, <1>8 DEF Weighed
<1> DEFINE T == {n \in 0 .. k : f[n] \in Nat}
<1>10. 0 \in T
  BY <1>8
<1>11. ASSUME NEW n \in 1 .. k, n - 1 \in T PROVE n \in T
  <2>1. f[n - 1] \in Nat /\ bytes[k - n + 1] \in Nat /\ f[n - 1] * C!Byte \in Nat
    <3>1. f[n - 1] \in Nat /\ bytes[k - n + 1] \in Nat
      BY <1>11
    <3>. QED BY <3>1, ByteIs, MultiplesInOrder
  <2>. QED BY <2>1, <1>8
<1>12. \A n \in 0 .. k : n \in T
  <2> TAKE n \in 0 .. k
  <2> HIDE DEF T
  <2>1. n \in Nat /\ \A m \in 1 .. n : m \in 1 .. k
    OBVIOUS
  <2>2. \A m \in 1 .. n : m - 1 \in T => m \in T
    BY <2>1, <1>11
  <2>. QED BY <2>1, <2>2, <1>10, NumbersAre
<1>13. f \in [0 .. k -> Nat]
  <2>1. f = [n \in 0 .. k |-> f[n]]
    BY <1>7
  <2>. QED BY <2>1, <1>12
<1>. QED BY <1>9, <1>13

\* The number is less than the register holds.
LEMMA NumberFits ==
  ASSUME NEW width \in Nat, NEW bytes \in C!Bytes(width), Len(bytes) = width
  PROVE  C!registerNumber(bytes) \in Nat /\ C!registerNumber(bytes) < C!PowerOfTwo[width * ByteBits]
<1> DEFINE P == C!PowerOfTwo
<1>1. \A i \in 1 .. width : bytes[i] \in Nat /\ bytes[i] < C!Byte
  <2>1. C!Byte \in Nat /\ bytes \in [1 .. width -> 0 .. C!Byte - 1]
    BY ByteIs DEF C!Bytes
  <2>. QED BY <2>1
<1>2. PICK f \in [0 .. width -> Nat] : Weighed(f, bytes)
  BY <1>1, NumberIsWeighed
<1> DEFINE T == {n \in 0 .. width : f[n] < P[n * ByteBits]}
<1>3. 0 \in T
  <2>1. f[0] = 0 /\ P[0 * ByteBits] \in Nat \ {0} /\ 0 \in Nat
    BY <1>2, ByteIs DEF Weighed
  <2>. QED BY <2>1
<1>4. ASSUME NEW n \in 1 .. width, n - 1 \in T PROVE n \in T
  <2>1. n - 1 \in Nat /\ n - 1 + 1 = n /\ width - n + 1 \in 1 .. width /\ n - 1 \in 0 .. width
    OBVIOUS
  <2>2. /\ P[n * ByteBits] = P[(n - 1) * ByteBits] * C!Byte
        /\ P[(n - 1) * ByteBits] \in Nat \ {0} /\ C!Byte \in Nat \ {0}
    BY <2>1, ByteIs
  <2>3. f[n] = f[n - 1] * C!Byte + bytes[width - n + 1]
    BY <1>2 DEF Weighed
  <2>4. f[n - 1] \in Nat /\ f[n - 1] < P[(n - 1) * ByteBits]
    BY <2>1, <1>4
  <2> HIDE DEF P
  <2>5. f[n - 1] * C!Byte + bytes[width - n + 1] < P[(n - 1) * ByteBits] * C!Byte
    <3>1. bytes[width - n + 1] \in Nat /\ bytes[width - n + 1] < C!Byte
      BY <2>1, <1>1
    <3>. QED BY <3>1, <2>2, <2>4, DigitsBelow
  <2>. QED BY <2>2, <2>3, <2>5
<1>5. width \in T
  <2> HIDE DEF T
  <2>. QED BY <1>3, <1>4, NumbersAre
<1>. QED BY <1>2, <1>5 DEF Weighed

\* A value is encoded in address order without losing a bit, or refused: for all
\* values and widths.
THEOREM ValuesAreEncoded ==
  ASSUME NEW value \in Nat, NEW width \in Nat
  PROVE  C!EncodesExactly(value, width)
<1> DEFINE P == C!PowerOfTwo
           bytes == C!encodeRegisterInput(value, width)
<1>1. CASE value >= P[width * ByteBits]
  BY <1>1 DEF C!EncodesExactly, C!encodeRegisterInput
<1>2. CASE ~(value >= P[width * ByteBits])
  <2>1. value < P[width * ByteBits] /\ P[width * ByteBits] \in Nat \ {0}
    <3>1. P[width * ByteBits] \in Nat \ {0}
      BY ByteIs
    <3> HIDE DEF P
    <3>. QED BY <1>2, <3>1
  <2>2. bytes = [i \in 1 .. width |-> (value \div P[(i - 1) * ByteBits]) % C!Byte]
    BY <1>2 DEF C!encodeRegisterInput
  <2>3. ASSUME NEW i \in 1 .. width PROVE bytes[i] = (value \div P[(i - 1) * ByteBits]) % C!Byte
    BY <2>2
  <2>4. ASSUME NEW m \in Nat
        PROVE  /\ value \div P[m * ByteBits] \in Nat
               /\ (value \div P[m * ByteBits]) % C!Byte \in Nat
               /\ (value \div P[m * ByteBits]) % C!Byte < C!Byte
               /\ value \div P[m * ByteBits]
                    = (value \div P[(m + 1) * ByteBits]) * C!Byte + ((value \div P[m * ByteBits]) % C!Byte)
    <3> DEFINE q == value \div P[m * ByteBits]
    <3>1. /\ P[m * ByteBits] \in Nat \ {0} /\ C!Byte \in Nat \ {0}
          /\ P[(m + 1) * ByteBits] = P[m * ByteBits] * C!Byte
      BY ByteIs
    <3>2. q \in Nat
      BY <3>1, DivisionIs
    <3>3. q \div C!Byte = value \div P[(m + 1) * ByteBits]
      BY <3>1, DividedTwice
    <3>4. q % C!Byte \in Nat /\ q % C!Byte < C!Byte /\ q = (q \div C!Byte) * C!Byte + (q % C!Byte)
      <4> HIDE DEF q
      <4>. QED BY <3>1, <3>2, DivisionIs
    <3>. QED BY <3>2, <3>3, <3>4
  <2>5. Len(bytes) = width /\ bytes \in C!Bytes(width)
    <3>1. \A i \in 1 .. width : (value \div P[(i - 1) * ByteBits]) % C!Byte \in 0 .. C!Byte - 1
      <4> TAKE i \in 1 .. width
      <4>1. i - 1 \in Nat
        OBVIOUS
      <4> DEFINE d == (value \div P[(i - 1) * ByteBits]) % C!Byte
      <4>2. d \in Nat /\ d < C!Byte
        BY <2>4, <4>1
      <4> HIDE DEF d
      <4>3. d \in 0 .. C!Byte - 1
        BY <4>2, ByteIs
      <4>. QED BY <4>3 DEF d
    <3> HIDE DEF P
    <3>. QED BY <2>2, <3>1 DEF C!Bytes
  <2> HIDE DEF bytes
  <2>6. PICK f \in [0 .. width -> Nat] : Weighed(f, bytes)
    <3>1. \A i \in 1 .. width : bytes[i] \in Nat
      BY <2>5 DEF C!Bytes
    <3>. QED BY <2>5, <3>1, NumberIsWeighed
  <2> DEFINE T == {n \in 0 .. width : f[n] = value \div P[(width - n) * ByteBits]}
  <2>7. 0 \in T
    <3>1. value \div P[width * ByteBits] = 0
      <4>1. value = 0 * P[width * ByteBits] + value
        BY <2>1
      <4>2. (0 * P[width * ByteBits] + value) \div P[width * ByteBits] = 0
        <5> HIDE DEF P
        <5>. QED BY <2>1, QuotientIs
      <4>. QED BY <4>1, <4>2
    <3>2. f[0] = 0 /\ width - 0 = width
      BY <2>6 DEF Weighed
    <3>. QED BY <3>1, <3>2
  <2>8. ASSUME NEW n \in 1 .. width, n - 1 \in T PROVE n \in T
    <3> DEFINE m == width - n
    <3>1. m \in Nat /\ m + 1 = width - (n - 1) /\ m + 1 = width - n + 1 /\ m + 1 \in 1 .. width /\ m + 1 - 1 = m
      OBVIOUS
    <3>2. f[n] = f[n - 1] * C!Byte + bytes[width - n + 1]
      BY <2>5, <2>6 DEF Weighed
    <3>3. f[n - 1] = value \div P[(m + 1) * ByteBits]
      BY <3>1, <2>8
    <3>4. bytes[width - n + 1] = (value \div P[m * ByteBits]) % C!Byte
      BY <3>1, <2>3
    <3> HIDE DEF m
    <3>5. f[n] = value \div P[m * ByteBits]
      BY <3>1, <3>2, <3>3, <3>4, <2>4
    <3>. QED BY <3>5 DEF m
  <2>9. width \in T
    <3> HIDE DEF T
    <3>. QED BY <2>7, <2>8, NumbersAre
  <2>10. f[width] = value
    <3>1. width - width = 0 /\ 0 * ByteBits = 0 /\ P[0] = 1 /\ value \div 1 = value
      BY PowersAre, ByteIs
    <3>. QED BY <2>9, <3>1
  <2>11. C!registerNumber(bytes) = value
    BY <2>5, <2>6, <2>10 DEF Weighed
  <2>. QED BY <1>2, <2>5, <2>11 DEF C!EncodesExactly, bytes
<1>. QED BY <1>1, <1>2

\* The number with these parts below, in and above a field
Parts(high, value, low, s, w) == (high * C!PowerOfTwo[w] + value) * C!PowerOfTwo[s] + low
Above(number, s, w) == number \div C!PowerOfTwo[s + w]

\* The parts of a number around a field
LEMMA FieldParts ==
  ASSUME NEW number \in Nat, NEW s \in Nat, NEW w \in Nat
  PROVE  LET P == C!PowerOfTwo
             field == [shift |-> s, width |-> w]
         IN  \E high \in Nat, low \in Nat :
               /\ low < P[s] /\ C!FieldValue(number, field) \in Nat /\ C!FieldValue(number, field) < P[w]
               /\ number = Parts(high, C!FieldValue(number, field), low, s, w)
               /\ high = Above(number, s, w)
<1> DEFINE P == C!PowerOfTwo
           value == C!FieldValue(number, [shift |-> s, width |-> w])
<1>1. P[s] \in Nat \ {0} /\ P[w] \in Nat \ {0}
  BY PowersAre
<1>2. value = (number \div P[s]) % P[w]
  BY DEF C!FieldValue
<1> HIDE DEF P, value
<1>3. PICK q \in Nat, low \in Nat : q = number \div P[s] /\ low < P[s] /\ number = q * P[s] + low
  <2> DEFINE whole == number \div P[s]
             rest == number % P[s]
  <2>1. whole \in Nat /\ rest \in Nat /\ rest < P[s] /\ number = whole * P[s] + rest
    BY <1>1, DivisionIs
  <2>2. whole = number \div P[s]
    OBVIOUS
  <2> HIDE DEF whole, rest
  <2>. QED BY <2>1, <2>2, Zenon
<1>4. PICK high \in Nat : high = q \div P[w] /\ q = high * P[w] + value /\ value \in Nat /\ value < P[w]
  BY <1>1, <1>2, <1>3, DivisionIs
<1>5. high = number \div P[s + w]
  <2>1. high = number \div (P[s] * P[w])
    BY <1>1, <1>3, <1>4, DividedTwice
  <2>. QED BY <2>1, PowersMultiply DEF P
<1>. QED BY <1>3, <1>4, <1>5 DEF P, value, Parts, Above

\* Another value in the field leaves the parts around it.
Divided(high, value, low, s, w) ==
  LET P == C!PowerOfTwo
      rest == high * P[w] + value
      number == rest * P[s] + low
  IN  /\ P[s] \in Nat \ {0} /\ P[w] \in Nat \ {0}
      /\ rest \in Nat /\ rest \div P[w] = high /\ rest % P[w] = value
      /\ number \in Nat /\ number \div P[s] = rest

LEMMA PartsDivided ==
  ASSUME NEW high \in Nat, NEW low \in Nat, NEW s \in Nat, NEW w \in Nat, NEW value \in Nat,
         low < C!PowerOfTwo[s], value < C!PowerOfTwo[w]
  PROVE  Divided(high, value, low, s, w)
<1> DEFINE P == C!PowerOfTwo
           rest == high * P[w] + value
           number == rest * P[s] + low
<1>1. P[s] \in Nat \ {0} /\ P[w] \in Nat \ {0}
  BY PowersAre
<1>2. rest \in Nat /\ rest \div P[w] = high /\ rest % P[w] = value
  <2>1. high * P[w] \in Nat
    <3> HIDE DEF P
    <3>. QED BY <1>1, MultiplesInOrder
  <2>2. value < P[w]
    OBVIOUS
  <2>3. rest \in Nat
    BY <2>1
  <2> HIDE DEF P
  <2>. QED BY <1>1, <2>2, <2>3, QuotientIs
<1>3. low < P[s]
  OBVIOUS
<1> HIDE DEF rest
<1>4. number \in Nat /\ number \div P[s] = rest
  <2>1. rest * P[s] \in Nat
    <3> HIDE DEF P
    <3>. QED BY <1>1, <1>2, MultiplesInOrder
  <2>2. number \in Nat
    BY <2>1
  <2> HIDE DEF P
  <2>. QED BY <1>1, <1>2, <1>3, <2>2, QuotientIs
<1>. QED BY <1>1, <1>2, <1>4 DEF rest, Divided

LEMMA FieldReplaced ==
  ASSUME NEW high \in Nat, NEW low \in Nat, NEW s \in Nat, NEW w \in Nat, NEW value \in Nat,
         low < C!PowerOfTwo[s], value < C!PowerOfTwo[w]
  PROVE  LET number == Parts(high, value, low, s, w)
         IN  number \in Nat /\ C!FieldValue(number, [shift |-> s, width |-> w]) = value
<1> DEFINE P == C!PowerOfTwo
           rest == high * P[w] + value
           number == rest * P[s] + low
<1>1. rest % P[w] = value /\ number \in Nat /\ number \div P[s] = rest
  <2>1. Divided(high, value, low, s, w)
    BY PartsDivided
  <2>. QED BY <2>1 DEF Divided
<1> HIDE DEF number, rest
<1>2. C!FieldValue(number, [shift |-> s, width |-> w]) = value
  BY <1>1 DEF C!FieldValue
<1>. QED BY <1>1, <1>2 DEF number, rest, Parts

LEMMA AboveReplaced ==
  ASSUME NEW high \in Nat, NEW low \in Nat, NEW s \in Nat, NEW w \in Nat, NEW value \in Nat,
         low < C!PowerOfTwo[s], value < C!PowerOfTwo[w]
  PROVE  Above(Parts(high, value, low, s, w), s, w) = high
<1> DEFINE P == C!PowerOfTwo
           rest == high * P[w] + value
           number == rest * P[s] + low
<1>1. /\ P[s] \in Nat \ {0} /\ P[w] \in Nat \ {0}
      /\ rest \div P[w] = high /\ number \in Nat /\ number \div P[s] = rest
  <2>1. Divided(high, value, low, s, w)
    BY PartsDivided
  <2>. QED BY <2>1 DEF Divided
<1> HIDE DEF number, rest
<1>2. (number \div P[s]) \div P[w] = number \div (P[s] * P[w])
  <2> HIDE DEF P
  <2>. QED BY <1>1, DividedTwice
<1>3. P[s + w] = P[s] * P[w]
  BY PowersMultiply
<1>. QED BY <1>1, <1>2, <1>3 DEF number, rest, Parts, Above

\* A bit below a place does not depend on what is at and above it.
LEMMA LowerBit ==
  ASSUME NEW s \in Nat, NEW bit \in 0 .. s - 1, NEW x \in Nat, NEW low \in Nat, low < C!PowerOfTwo[s]
  PROVE  ((x * C!PowerOfTwo[s] + low) \div C!PowerOfTwo[bit]) % 2 = (low \div C!PowerOfTwo[bit]) % 2
<1> DEFINE p == C!PowerOfTwo[bit]
           c == C!PowerOfTwo[s - bit - 1]
<1>1. bit \in Nat /\ s - bit - 1 \in Nat /\ (s - bit - 1) + 1 = s - bit /\ (s - bit) + bit = s /\ s - bit \in Nat
  OBVIOUS
<1>2. p \in Nat \ {0} /\ c \in Nat \ {0} /\ C!PowerOfTwo[s] = (2 * c) * p
  <2>1. p \in Nat \ {0} /\ c \in Nat \ {0}
    BY <1>1, PowersAre
  <2>2. C!PowerOfTwo[s - bit] = 2 * c
    BY <1>1, PowersAre
  <2>3. C!PowerOfTwo[s] = C!PowerOfTwo[s - bit] * p
    BY <1>1, PowersMultiply
  <2>. QED BY <2>1, <2>2, <2>3
<1> HIDE DEF p, c
<1>3. PICK q \in Nat, r \in Nat : q = low \div p /\ r < p /\ low = q * p + r
  BY <1>2, DivisionIs
<1> DEFINE y == x * c
<1>4. y \in Nat
  BY <1>2
<1>5. x * C!PowerOfTwo[s] + low = (2 * y + q) * p + r
  <2>1. x * ((2 * c) * p) = (2 * (x * c)) * p
    BY <1>2
  <2> HIDE DEF y
  <2>2. (2 * y + q) * p = (2 * y) * p + q * p
    <3> DEFINE z == 2 * y
    <3>1. z \in Nat
      BY <1>4
    <3> HIDE DEF z
    <3>2. (z + q) * p = z * p + q * p
      BY <3>1, <1>2, <1>3
    <3>. QED BY <3>2 DEF z
  <2>3. (2 * y) * p \in Nat /\ q * p \in Nat
    BY <1>2, <1>3, <1>4
  <2>4. x * ((2 * c) * p) = (2 * y) * p
    BY <2>1 DEF y
  <2>. QED BY <2>2, <2>3, <2>4, <1>2, <1>3
<1> HIDE DEF y
<1>6. ((2 * y + q) * p + r) \div p = 2 * y + q
  <2>1. 2 * y + q \in Nat
    BY <1>3, <1>4
  <2>. QED BY <2>1, <1>2, <1>3, QuotientIs
<1>7. (2 * y + q) % 2 = q % 2
  BY <1>3, <1>4
<1>. QED BY <1>3, <1>5, <1>6, <1>7 DEF p

\* A bit at or above a place depends only on what is there.
LEMMA UpperBit ==
  ASSUME NEW s \in Nat, NEW bit \in Nat, bit >= s, NEW a \in Nat
  PROVE  a \div C!PowerOfTwo[bit] = (a \div C!PowerOfTwo[s]) \div C!PowerOfTwo[bit - s]
<1>1. bit - s \in Nat /\ s + (bit - s) = bit
  OBVIOUS
<1>2. /\ C!PowerOfTwo[bit] = C!PowerOfTwo[s] * C!PowerOfTwo[bit - s]
      /\ C!PowerOfTwo[s] \in Nat \ {0} /\ C!PowerOfTwo[bit - s] \in Nat \ {0}
  <2>1. C!PowerOfTwo[s + (bit - s)] = C!PowerOfTwo[s] * C!PowerOfTwo[bit - s]
    BY <1>1, PowersMultiply
  <2>. QED BY <1>1, <2>1, PowersAre
<1>. QED BY <1>2, DividedTwice

LEMMA BitIs ==
  ASSUME NEW bit \in Nat, NEW number
  PROVE  C!FieldValue(number, C!BitField(bit, bit)) = (number \div C!PowerOfTwo[bit]) % 2
<1>1. C!BitField(bit, bit) = [shift |-> bit, width |-> 1]
  BY DEF C!BitField, C!Least, C!Greatest
<1>2. C!PowerOfTwo[1] = 2
  <2>1. 0 \in Nat /\ 0 + 1 = 1
    OBVIOUS
  <2>. QED BY <2>1, PowersAre
<1>. QED BY <1>1, <1>2 DEF C!FieldValue

\* A number with another value in a field that fits fits too.
LEMMA ReplacedFits ==
  ASSUME NEW number \in Nat, NEW high \in Nat, NEW low \in Nat, NEW s \in Nat, NEW w \in Nat, NEW total \in Nat,
         s + w <= total, number < C!PowerOfTwo[total], NEW value \in Nat,
         low < C!PowerOfTwo[s], value < C!PowerOfTwo[w],
         high = Above(number, s, w)
  PROVE  Parts(high, value, low, s, w) < C!PowerOfTwo[total]
<1> DEFINE ps == C!PowerOfTwo[s]
           pw == C!PowerOfTwo[w]
           above == C!PowerOfTwo[total - s - w]
<1>1. /\ total - s - w \in Nat /\ (total - s - w) + w \in Nat /\ ((total - s - w) + w) + s = total
  OBVIOUS
<1>2. ps \in Nat \ {0} /\ pw \in Nat \ {0} /\ above \in Nat \ {0}
  BY <1>1, PowersAre
<1>3. C!PowerOfTwo[total] = (above * pw) * ps
  <2>1. C!PowerOfTwo[(total - s - w) + w] = above * pw
    BY <1>1, PowersMultiply
  <2>2. C!PowerOfTwo[((total - s - w) + w) + s] = C!PowerOfTwo[(total - s - w) + w] * ps
    BY <1>1, PowersMultiply
  <2>. QED BY <2>1, <2>2, <1>1
<1>4. low < ps /\ value < pw /\ number < (above * pw) * ps /\ high = number \div (ps * pw)
  BY <1>3, PowersMultiply DEF Above
<1> HIDE DEF ps, pw, above
<1>5. high < above
  <2>1. (above * pw) * ps = above * (ps * pw)
    BY <1>2
  <2> DEFINE weight == ps * pw
  <2>2. weight \in Nat \ {0} /\ number < above * weight
    BY <2>1, <1>2, <1>4
  <2>3. number \div weight < above
    <3> HIDE DEF weight
    <3>. QED BY <2>2, <1>2, QuotientBelow
  <2>. QED BY <2>3, <1>4
<1>6. high * pw + value \in Nat /\ high * pw + value < above * pw
  BY <1>2, <1>4, <1>5, DigitsBelow
<1>7. above * pw \in Nat
  BY <1>2
<1> DEFINE rest == high * pw + value
           bound == above * pw
<1>8. rest \in Nat /\ bound \in Nat /\ rest < bound
  BY <1>6, <1>7
<1> HIDE DEF rest, bound
<1>9. rest * ps + low < bound * ps
  BY <1>2, <1>4, <1>8, DigitsBelow
<1>. QED BY <1>3, <1>9 DEF rest, bound, ps, pw, Parts

SameBit(a, b, bit) == C!FieldValue(a, C!BitField(bit, bit)) = C!FieldValue(b, C!BitField(bit, bit))

\* Two numbers that only differ in a field have the same other bits.
LEMMA OtherBits ==
  ASSUME NEW high \in Nat, NEW low \in Nat, NEW s \in Nat, NEW w \in Nat, NEW x \in Nat, NEW y \in Nat,
         low < C!PowerOfTwo[s], x < C!PowerOfTwo[w], y < C!PowerOfTwo[w],
         NEW bit \in Nat, bit < s \/ bit >= s + w
  PROVE  SameBit(Parts(high, x, low, s, w), Parts(high, y, low, s, w), bit)
<1> DEFINE P == C!PowerOfTwo
           Number(value) == Parts(high, value, low, s, w)
<1>1. P[s] \in Nat \ {0} /\ P[w] \in Nat \ {0} /\ s + w \in Nat
  BY PowersAre
<1>2. ASSUME NEW value \in Nat, value < P[w]
      PROVE  (Number(value) \div P[bit]) % 2
               = IF bit < s THEN (low \div P[bit]) % 2 ELSE (high \div P[bit - (s + w)]) % 2
  <2>1. CASE bit < s
    <3>1. high * P[w] + value \in Nat
      <4> HIDE DEF P
      <4>1. high * P[w] \in Nat
        BY <1>1
      <4>. QED BY <4>1
    <3>2. bit \in 0 .. s - 1
      BY <2>1
    <3> DEFINE rest == high * P[w] + value
    <3>3. rest \in Nat
      BY <3>1
    <3> HIDE DEF rest
    <3>4. ((rest * P[s] + low) \div P[bit]) % 2 = (low \div P[bit]) % 2
      BY <3>2, <3>3, LowerBit
    <3>. QED BY <2>1, <3>4 DEF rest, Parts
  <2>2. CASE ~(bit < s)
    <3>1. bit >= s + w
      BY <2>2
    <3>0. Number(value) \in Nat
      BY <1>2, FieldReplaced
    <3>2. Above(Number(value), s, w) = high
      BY <1>2, AboveReplaced
    <3> HIDE DEF Number
    <3>3. Number(value) \div P[bit] = (Number(value) \div P[s + w]) \div P[bit - (s + w)]
      BY <1>1, <3>0, <3>1, UpperBit
    <3>. QED BY <2>2, <3>2, <3>3 DEF Above
  <2>. QED BY <2>1, <2>2
<1> HIDE DEF Number
<1>3. (Number(x) \div P[bit]) % 2 = (Number(y) \div P[bit]) % 2
  BY <1>2
<1>4. SameBit(Number(x), Number(y), bit)
  BY <1>3, BitIs DEF SameBit
<1>. QED BY <1>4 DEF Number

\* An edit of a field of a register changes that field and no other bit, or nothing
\* if the value is too large for the field: for all registers, fields and values.
THEOREM FieldsAreEdited ==
  ASSUME NEW width \in Nat, NEW bytes \in C!Bytes(width), NEW field \in [shift : Nat, width : Nat],
         field.shift + field.width <= width * ByteBits, NEW value \in Nat
  PROVE  C!EditsOnlyField(bytes, field, value)
<1> DEFINE P == C!PowerOfTwo
           s == field.shift
           w == field.width
           before == C!registerNumber(bytes)
           after == C!registerNumber(C!editField(bytes, field, value))
           old == C!FieldValue(before, field)
           total == width * ByteBits
<1>1. Len(bytes) = width
  <2>1. ASSUME NEW X, NEW b \in [1 .. width -> X] PROVE Len(b) = width
    OBVIOUS
  <2>. QED BY <2>1 DEF C!Bytes
<1>2. s \in Nat /\ w \in Nat /\ \A n : C!FieldValue(n, field) = C!FieldValue(n, [shift |-> s, width |-> w])
  BY DEF C!FieldValue
<1>3. total \in Nat /\ s + w <= total /\ P[total] \in Nat \ {0} /\ P[s] \in Nat \ {0} /\ P[w] \in Nat \ {0}
  BY <1>2, ByteIs, PowersAre
<1>4. before \in Nat /\ before < P[total]
  BY <1>1, NumberFits
<1> HIDE DEF P, s, w, before, total, old
<1>5. CASE ~(value < P[w])
  <2>1. value >= P[w]
    BY <1>3, <1>5
  <2>2. C!editField(bytes, field, value) = bytes
    BY <2>1 DEF C!editField, P, w
  <2>. QED BY <2>2, <1>5 DEF C!EditsOnlyField, P, w
<1>6. CASE value < P[w]
  <2>1. PICK high \in Nat, low \in Nat :
          /\ low < P[s] /\ old \in Nat /\ old < P[w]
          /\ before = Parts(high, old, low, s, w)
          /\ high = Above(before, s, w)
    <3>1. old = C!FieldValue(before, [shift |-> s, width |-> w])
      BY <1>2 DEF old
    <3>. QED BY <1>2, <1>4, <3>1, FieldParts DEF P
  <2> DEFINE number == Parts(high, value, low, s, w)
  <2>2. /\ number \in Nat /\ C!FieldValue(number, field) = value
    BY <1>2, <1>6, <2>1, FieldReplaced DEF P
  <2>3. before + (value - old) * P[s] = number
    <3>1. before = high * P[w] * P[s] + old * P[s] + low
      BY <2>1, <1>3 DEF Parts, P
    <3>2. number = high * P[w] * P[s] + value * P[s] + low
      BY <2>1, <1>3 DEF Parts, P
    <3>3. (value - old) * P[s] = value * P[s] - old * P[s]
      BY <2>1, <1>3
    <3>4. high * P[w] * P[s] \in Nat /\ old * P[s] \in Nat /\ value * P[s] \in Nat
      BY <2>1, <1>3
    <3>. QED BY <3>1, <3>2, <3>3, <3>4, <2>1
  <2>4. number < P[total]
    BY <1>2, <1>3, <1>4, <1>6, <2>1, ReplacedFits DEF P
  <2>5. after = number
    <3>1. C!editField(bytes, field, value) = C!encodeRegisterInput(before + (value - old) * P[s], Len(bytes))
      <4>1. ~(value >= P[w])
        BY <1>3, <1>6
      <4>. QED BY <4>1 DEF C!editField, P, s, w, before, old
    <3> HIDE DEF number
    <3>2. C!EncodesExactly(number, width)
      BY <2>2, ValuesAreEncoded
    <3>3. ~(number >= P[total])
      BY <2>2, <2>4, <1>3
    <3>. QED BY <1>1, <2>3, <3>1, <3>2, <3>3 DEF C!EncodesExactly, P, total
  <2>6. ASSUME NEW bit \in 0 .. width * ByteBits - 1, bit \notin s .. s + w - 1
        PROVE  C!FieldValue(number, C!BitField(bit, bit)) = C!FieldValue(before, C!BitField(bit, bit))
    <3>1. bit \in Nat
      BY <1>3 DEF total
    <3>2. low < C!PowerOfTwo[s] /\ value < C!PowerOfTwo[w] /\ old < C!PowerOfTwo[w]
      BY <1>6, <2>1 DEF P
    <3>3. /\ high \in Nat /\ low \in Nat /\ s \in Nat /\ w \in Nat /\ value \in Nat /\ old \in Nat
          /\ bit < s \/ bit >= s + w
      BY <1>2, <2>1, <2>6, <3>1
    <3>4. SameBit(Parts(high, value, low, s, w), Parts(high, old, low, s, w), bit)
      BY <3>1, <3>2, <3>3, OtherBits
    <3>. QED BY <2>1, <3>4 DEF SameBit
  <2> HIDE DEF number, after
  <2>7. C!FieldValue(after, field) = value
    BY <2>2, <2>5
  <2>. QED BY <1>1, <1>6, <2>5, <2>6, <2>7 DEF C!EditsOnlyField, P, s, w, before, after
<1>. QED BY <1>5, <1>6

-----------------------------------------------------------------------------
(* The algorithms on the inputs of the run                                    *)

LEMMA ValuesHold == C!ValuesRoundTrip
<1>1. ASSUME NEW width \in 1 .. Small, NEW value \in 0 .. C!PowerOfTwo[width * ByteBits]
      PROVE  C!EncodesExactly(value, width)
  BY ValuesAreEncoded
<1>2. ASSUME NEW width \in 1 .. Small, NEW bytes \in C!Bytes(width), NEW field \in C!FieldsIn(width),
             NEW value \in 0 .. C!PowerOfTwo[Small * ByteBits]
      PROVE  C!EditsOnlyField(bytes, field, value)
  <2>1. PICK high \in 0 .. Small * ByteBits, low \in 0 .. Small * ByteBits :
          /\ field = C!BitField(high, low) /\ field.shift + field.width <= width * ByteBits
    BY DEF C!FieldsIn
  <2>2. field \in [shift : Nat, width : Nat]
    <3>1. high \in Nat /\ low \in Nat
      OBVIOUS
    <3>2. C!Least(high, low) \in Nat /\ C!Greatest(high, low) - C!Least(high, low) + 1 \in Nat
      BY <3>1 DEF C!Least, C!Greatest
    <3>. QED BY <2>1, <3>2 DEF C!BitField
  <2>3. width \in Nat /\ value \in Nat
    OBVIOUS
  <2>. QED BY <2>1, <2>2, <2>3, FieldsAreEdited
<1>. QED BY <1>1, <1>2 DEF C!ValuesRoundTrip

LEMMA FunctionIsSequence ==
  ASSUME NEW n \in Nat, NEW X, NEW f \in [1 .. n -> X]
  PROVE  f \in Seq(X) /\ Len(f) = n
OBVIOUS

LEMMA PrefixesAgree == C!PagesAgree
<1> SUFFICES ASSUME NEW size \in 1 .. 14, NEW fill \in 0 .. 1
             PROVE  C!SamePrefix([i \in 1 .. size |-> (i * i + fill) % C!Byte])
  BY DEF C!PagesAgree
<1> DEFINE config == [i \in 1 .. size |-> (i * i + fill) % C!Byte]
<1>1. C!Byte \in Nat \ {0} /\ size \in Nat
  BY ByteIs
<1>2. \A i \in 1 .. size : (i * i + fill) % C!Byte \in Nat
  <2> TAKE i \in 1 .. size
  <2> DEFINE n == i * i + fill
  <2>1. n \in Nat
    OBVIOUS
  <2> HIDE DEF n
  <2>2. n % C!Byte \in Nat
    BY <1>1, <2>1, DivisionIs
  <2>. QED BY <2>2 DEF n
<1>3. config \in [1 .. size -> Nat]
  BY <1>2
<1> HIDE DEF config
<1>4. config \in Seq(Nat) /\ Len(config) = size
  BY <1>1, <1>3, FunctionIsSequence
<1>5. C!SamePrefix(config)
  BY <1>4, PrefixIsRead
<1>. QED BY <1>5 DEF config

LEMMA ImagesCompare == C!DifferencesAreExact
<1> SUFFICES ASSUME NEW n \in 0 .. Small + 1, NEW m \in 0 .. Small + 1,
                    NEW actual \in [1 .. n -> 0 .. 1], NEW wanted \in [1 .. m -> 0 .. 1]
             PROVE  C!ExactDifferences(actual, wanted)
  BY DEF C!DifferencesAreExact
<1>1. n \in Nat /\ m \in Nat
  OBVIOUS
<1>2. actual \in Seq(0 .. 1) /\ wanted \in Seq(0 .. 1)
  BY <1>1, FunctionIsSequence
<1>. QED BY <1>2, DifferencesAreFound

LEMMA PageIsShown == C!AddressIsShown
<1>0. PageBytes \in Nat \ {0}
  BY WindowAssumption
<1> SUFFICES ASSUME NEW length \in 0 .. 3 * PageBytes, NEW number \in 0 .. 3
             PROVE  /\ length > 0 => C!HexPage(length, number) # {}
                    /\ \A offset \in 0 .. length - 1 : offset \in C!HexPage(length, C!JumpTo(offset))
  BY DEF C!AddressIsShown
<1>1. length \in Nat /\ number \in Nat
  BY <1>0
<1>2. ASSUME length > 0 PROVE C!HexPage(length, number) # {}
  <2> DEFINE pages == C!Ceiling(length, PageBytes)
             current == C!Least(number, C!Greatest(0, pages - 1))
             start == current * PageBytes
  <2>1. pages \in Nat /\ pages * PageBytes >= length /\ pages * PageBytes < length + PageBytes
    <3>1. length + PageBytes - 1 \in Nat
      BY <1>0, <1>1
    <3>. QED BY <3>1, <1>0, <1>1, DivisionGives DEF C!Ceiling
  <2>2. pages # 0
    <3> HIDE DEF pages
    <3>. QED BY <2>1, <1>0, <1>1, <1>2
  <2>3. current \in Nat /\ current + 1 \in Nat /\ current + 1 <= pages
    <3> HIDE DEF pages
    <3>. QED BY <2>1, <2>2, <1>1 DEF C!Least, C!Greatest
  <2>4. C!HexPage(length, number) = start .. C!Least(start + PageBytes, length) - 1
    BY DEF C!HexPage
  <2> HIDE DEF current, pages
  <2>5. start \in Nat /\ (current + 1) * PageBytes = start + PageBytes /\ (current + 1) * PageBytes <= pages * PageBytes
        /\ pages * PageBytes \in Nat
    BY <2>1, <2>3, <1>0, MultiplesInOrder
  <2> HIDE DEF start
  <2>6. start < length
    BY <2>1, <2>5, <1>0, <1>1
  <2>7. start \in start .. C!Least(start + PageBytes, length) - 1
    BY <2>5, <2>6, <1>0, <1>1 DEF C!Least
  <2>. QED BY <2>4, <2>7
<1>3. \A offset \in 0 .. length - 1 : offset \in C!HexPage(length, C!JumpTo(offset))
  BY <1>1, AddressIsOnItsPage
<1>. QED BY <1>2, <1>3

LEMMA SizeIs == \A X : C!Cardinality(X) = Cardinality(X)
BY DEF C!Cardinality, Cardinality

LEMMA SizeOfTwo ==
  ASSUME NEW a, NEW b, a # b
  PROVE  IsFiniteSet({a, b}) /\ Cardinality({a, b}) = 2
<1>1. IsFiniteSet({a}) /\ Cardinality({a}) = 1
  BY FS_Singleton
<1>2. {a, b} = {a} \cup {b} /\ b \notin {a}
  OBVIOUS
<1>3. /\ IsFiniteSet({a} \cup {b})
      /\ Cardinality({a} \cup {b}) = IF b \in {a} THEN Cardinality({a}) ELSE Cardinality({a}) + 1
  BY <1>1, FS_AddElement
<1>. QED BY <1>1, <1>2, <1>3

LEMMA SizeOfThree ==
  ASSUME NEW a, NEW b, NEW c, a # b, c \notin {a, b}
  PROVE  IsFiniteSet({a, b, c}) /\ Cardinality({a, b, c}) = 3
<1> DEFINE two == {a, b}
<1>1. IsFiniteSet(two) /\ Cardinality(two) = 2 /\ {a, b, c} = two \cup {c} /\ c \notin two
  BY SizeOfTwo
<1> HIDE DEF two
<1>2. /\ IsFiniteSet(two \cup {c})
      /\ Cardinality(two \cup {c}) = IF c \in two THEN Cardinality(two) ELSE Cardinality(two) + 1
  BY <1>1, FS_AddElement
<1>. QED BY <1>1, <1>2

LEMMA PortsNamed == C!PortsAreNamedOnce
<1> DEFINE Bits(mode) == {bit \in 2 .. 5 : C!ActiveBit(mode, bit)}
           Named(mode) == {C!PortOfBit(mode, bit) : bit \in Bits(mode)}
<1>1. /\ Bits(0) = {2, 3} /\ Bits(1) = {2, 3, 4} /\ Bits(2) = {2, 3, 4} /\ Bits(3) = {2, 3, 4, 5}
  <2>1. 2 .. 5 = {2, 3, 4, 5}
    OBVIOUS
  <2>2. /\ C!Ports[1] = {0, 1} /\ C!Ports[2] = {0, 1, 2} /\ C!Ports[3] = {0, 1, 3} /\ C!Ports[4] = {0, 1, 2, 3}
    BY DEF C!Ports
  <2>3. Bits(0) = {2, 3}
    BY <2>1, <2>2 DEF C!ActiveBit, C!PortOfBit
  <2>4. Bits(1) = {2, 3, 4}
    BY <2>1, <2>2 DEF C!ActiveBit, C!PortOfBit
  <2>5. Bits(2) = {2, 3, 4}
    BY <2>1, <2>2 DEF C!ActiveBit, C!PortOfBit
  <2>6. Bits(3) = {2, 3, 4, 5}
    BY <2>1, <2>2 DEF C!ActiveBit, C!PortOfBit
  <2>. QED BY <2>3, <2>4, <2>5, <2>6
<1>2. /\ Named(0) = {0, 1} /\ Named(1) = {0, 1, 2} /\ Named(2) = {0, 1, 3} /\ Named(3) = {0, 1, 2, 3}
  <2> HIDE DEF Bits
  <2>. QED BY <1>1 DEF C!PortOfBit
<1>3. /\ C!Ports[0 + 1] = {0, 1} /\ C!Ports[1 + 1] = {0, 1, 2}
      /\ C!Ports[2 + 1] = {0, 1, 3} /\ C!Ports[3 + 1] = {0, 1, 2, 3}
  BY DEF C!Ports
<1>4. /\ Cardinality({2, 3}) = 2 /\ Cardinality({2, 3, 4}) = 3 /\ Cardinality({2, 3, 4, 5}) = 4
      /\ Cardinality({0, 1}) = 2 /\ Cardinality({0, 1, 2}) = 3 /\ Cardinality({0, 1, 3}) = 3
      /\ Cardinality({0, 1, 2, 3}) = 4
  <2>1. /\ 0 # 1 /\ 2 \notin {0, 1} /\ 3 \notin {0, 1} /\ 3 \notin {0, 1, 2}
        /\ 2 # 3 /\ 4 \notin {2, 3} /\ 5 \notin {2, 3, 4}
    OBVIOUS
  <2>2. Cardinality({2, 3}) = 2 /\ Cardinality({0, 1}) = 2
    BY <2>1, SizeOfTwo, Zenon
  <2>3. /\ IsFiniteSet({2, 3, 4}) /\ Cardinality({2, 3, 4}) = 3
        /\ IsFiniteSet({0, 1, 2}) /\ Cardinality({0, 1, 2}) = 3 /\ Cardinality({0, 1, 3}) = 3
    BY <2>1, SizeOfThree, Zenon
  <2>4. Cardinality({2, 3, 4, 5}) = 4
    <3>1. {2, 3, 4, 5} = {2, 3, 4} \cup {5}
      OBVIOUS
    <3>2. Cardinality({2, 3, 4} \cup {5}) = IF 5 \in {2, 3, 4} THEN Cardinality({2, 3, 4}) ELSE Cardinality({2, 3, 4}) + 1
      BY <2>3, FS_AddElement, Zenon
    <3>. QED BY <2>1, <2>3, <3>1, <3>2
  <2>5. Cardinality({0, 1, 2, 3}) = 4
    <3>1. {0, 1, 2, 3} = {0, 1, 2} \cup {3}
      OBVIOUS
    <3>2. Cardinality({0, 1, 2} \cup {3}) = IF 3 \in {0, 1, 2} THEN Cardinality({0, 1, 2}) ELSE Cardinality({0, 1, 2}) + 1
      BY <2>3, FS_AddElement, Zenon
    <3>. QED BY <2>1, <2>3, <3>1, <3>2
  <2>. QED BY <2>2, <2>3, <2>4, <2>5
<1> HIDE DEF Bits, Named
<1>5. ASSUME NEW mode \in 0 .. 3
      PROVE  Named(mode) = C!Ports[mode + 1] /\ C!Cardinality(Bits(mode)) = C!Cardinality(C!Ports[mode + 1])
  <2>1. mode = 0 \/ mode = 1 \/ mode = 2 \/ mode = 3
    OBVIOUS
  <2>2. Named(mode) = C!Ports[mode + 1]
    BY <2>1, <1>2, <1>3
  <2>3. Cardinality(Bits(mode)) = Cardinality(C!Ports[mode + 1])
    BY <2>1, <1>1, <1>3, <1>4
  <2>. QED BY <2>2, <2>3, SizeIs
<1>. QED BY <1>5 DEF C!PortsAreNamedOnce, Bits, Named

LEMMA ChangesAreDrawn == C!OnlyChangesAreDrawn
<1> DEFINE Listed(ref) == C!Slaves(ref)
<1>1. ASSUME NEW ref, NEW snapshot \in C!SnapshotsOf(ref)
      PROVE  /\ snapshot \in StatusOf(1 .. 2, 1 .. 2, 0 .. 1, ref)
             /\ \A i, j \in DOMAIN snapshot.slaves :
                  snapshot.slaves[i].position = snapshot.slaves[j].position => i = j
  <2>1. C!Slaves(ref) = SlavesAt(1 .. 2, 0 .. 1, ref)
    BY DEF C!Slaves, SlavesAt
  <2> DEFINE list == snapshot.slaves
  <2>2. /\ snapshot \in [session : 1 .. 2, data : 0 .. 1, ref : {ref},
                        slaves : {<<>>} \cup {<<a>> : a \in C!Slaves(ref)}
                                 \cup {<<a, b>> : a \in {r \in C!Slaves(ref) : r.position = 1},
                                                  b \in {r \in C!Slaves(ref) : r.position = 2}}]
    BY DEF C!SnapshotsOf
  <2>3. \/ list = <<>>
        \/ \E a \in C!Slaves(ref) : list = <<a>>
        \/ \E a, b \in C!Slaves(ref) : list = <<a, b>> /\ a.position = 1 /\ b.position = 2
    BY <2>2
  <2>4. snapshot = [session |-> snapshot.session, data |-> snapshot.data, ref |-> snapshot.ref, slaves |-> list]
        /\ snapshot.session \in 1 .. 2 /\ snapshot.data \in 0 .. 1 /\ snapshot.ref \in {ref}
    BY <2>2
  <2> HIDE DEF list
  <2>5. list \in Seq(C!Slaves(ref)) /\ \A i, j \in DOMAIN list : list[i].position = list[j].position => i = j
    <3>1. CASE list = <<>>
      BY <3>1
    <3>2. CASE \E a \in C!Slaves(ref) : list = <<a>>
      <4>1. PICK a \in C!Slaves(ref) : list = <<a>>
        BY <3>2
      <4>2. DOMAIN <<a>> = 1 .. 1 /\ <<a>> \in Seq(C!Slaves(ref))
        OBVIOUS
      <4>. QED BY <4>1, <4>2
    <3>3. CASE \E a, b \in C!Slaves(ref) : list = <<a, b>> /\ a.position = 1 /\ b.position = 2
      <4>1. PICK a \in C!Slaves(ref), b \in C!Slaves(ref) : list = <<a, b>> /\ a.position = 1 /\ b.position = 2
        BY <3>3
      <4>2. DOMAIN <<a, b>> = 1 .. 2 /\ <<a, b>> \in Seq(C!Slaves(ref)) /\ <<a, b>>[1] = a /\ <<a, b>>[2] = b
        OBVIOUS
      <4>3. \A i \in 1 .. 2 : i = 1 \/ i = 2
        OBVIOUS
      <4>4. \A i, j \in DOMAIN list : list[i].position = list[j].position => i = j
        BY <4>1, <4>2, <4>3
      <4>. QED BY <4>1, <4>2, <4>4
    <3>. QED BY <2>3, <3>1, <3>2, <3>3
  <2>6. snapshot \in StatusOf(1 .. 2, 1 .. 2, 0 .. 1, ref)
    BY <2>1, <2>4, <2>5 DEF StatusOf
  <2>. QED BY <2>5, <2>6 DEF list
<1>2. ASSUME NEW current \in C!SnapshotsOf("old"), NEW incoming \in C!SnapshotsOf("new")
      PROVE  C!DrawsChanges(current, incoming)
  <2>1. /\ current \in StatusOf(1 .. 2, 1 .. 2, 0 .. 1, "old") /\ incoming \in StatusOf(1 .. 2, 1 .. 2, 0 .. 1, "new")
        /\ \A i, j \in DOMAIN current.slaves : current.slaves[i].position = current.slaves[j].position => i = j
    BY <1>1
  <2>. QED BY <2>1, UnchangedAreKept
<1>. QED BY <1>2 DEF C!OnlyChangesAreDrawn

LEMMA AddressIsFound == C!SearchFindsTheAddress
<1> SUFFICES ASSUME NEW a \in [address : 0 .. 2 * DigitBase, width : 1 .. 2],
                    NEW b \in [address : 0 .. 2 * DigitBase, width : 1 .. 2],
                    NEW address \in 0 .. 2 * DigitBase
             PROVE  /\ C!Holds(a, address) /\ ~C!Holds(b, address) =>
                         \A text \in [{a, b} -> BOOLEAN] : C!ListedBefore(a, b, address, text)
                    /\ C!RangeMatches(a, b.address, b.address + b.width - 1) <=>
                         \E byte \in b.address .. b.address + b.width - 1 : C!Holds(a, byte)
  BY DEF C!SearchFindsTheAddress
<1>1. DigitBase \in Nat
  BY CodecAssumption
<1>2. /\ a.address \in Nat /\ a.width \in Nat \ {0} /\ b.address \in Nat /\ b.width \in Nat \ {0} /\ address \in Nat
      /\ a = [address |-> a.address, width |-> a.width] /\ b = [address |-> b.address, width |-> b.width]
  BY <1>1
<1>3. a \in ListedRegisters /\ b \in ListedRegisters
  BY <1>2 DEF ListedRegisters
<1>4. b.address + b.width - 1 \in Nat
  BY <1>2
<1>. QED BY <1>2, <1>3, <1>4, SearchFinds

LEMMA RowsMounted == C!VisibleRowsAreMounted
<1>0. RowHeight \in Nat \ {0} /\ Overscan \in Nat /\ Small \in Nat
  BY WindowAssumption, CodecAssumption
<1> SUFFICES ASSUME NEW count \in 1 .. Small + 2, NEW height \in 2 * RowHeight .. 4 * RowHeight,
                    NEW top \in 0 .. C!Greatest(0, (count + 1) * RowHeight - height), NEW row \in 0 .. count - 1
             PROVE  /\ C!Visible(row, top, height) # {} => row \in C!MountedRows(count, top, height)
                    /\ LET next == C!ScrolledTo(row, top, height) IN
                         /\ next >= 0 /\ C!Cardinality(C!Visible(row, next, height)) = RowHeight
                         /\ row \in C!MountedRows(count, next, height)
  BY DEF C!VisibleRowsAreMounted
<1>1. count \in Nat /\ height \in Nat /\ height >= 2 * RowHeight /\ row \in Nat
  BY <1>0
<1>2. top \in Nat
  <2>1. (count + 1) * RowHeight \in Nat
    BY <1>0, <1>1
  <2> DEFINE rows == (count + 1) * RowHeight
  <2>2. C!Greatest(0, rows - height) \in Nat
    <3>1. rows \in Nat
      BY <2>1
    <3> HIDE DEF rows
    <3>. QED BY <1>1, <3>1 DEF C!Greatest
  <2>. QED BY <2>2
<1> DEFINE next == C!ScrolledTo(row, top, height)
<1>3. next \in Nat
  BY <1>0, <1>1, <1>2, RowIsScrolledIntoView
<1>4. /\ C!Visible(row, top, height) # {} => row \in C!MountedRows(count, top, height)
      /\ C!Visible(row, next, height) = row * RowHeight + RowHeight .. row * RowHeight + 2 * RowHeight - 1
      /\ row \in C!MountedRows(count, next, height)
  BY <1>1, <1>2, RowsAreMounted
<1> HIDE DEF next
<1>5. C!Cardinality(C!Visible(row, next, height)) = RowHeight
  <2> DEFINE from == row * RowHeight + RowHeight
             to == row * RowHeight + 2 * RowHeight - 1
  <2>1. from \in Int /\ to \in Int /\ to - from + 1 = RowHeight /\ ~(from > to)
    <3> DEFINE rowTop == row * RowHeight
    <3>1. rowTop \in Nat
      BY <1>0, <1>1
    <3> HIDE DEF rowTop
    <3>2. /\ rowTop + RowHeight \in Int /\ rowTop + 2 * RowHeight - 1 \in Int
          /\ (rowTop + 2 * RowHeight - 1) - (rowTop + RowHeight) + 1 = RowHeight
          /\ ~(rowTop + RowHeight > rowTop + 2 * RowHeight - 1)
      BY <1>0, <3>1
    <3>. QED BY <3>2 DEF rowTop
  <2> HIDE DEF from, to
  <2>2. Cardinality(from .. to) = IF from > to THEN 0 ELSE to - from + 1
    BY <2>1, FS_Interval
  <2>3. C!Visible(row, next, height) = from .. to
    BY <1>4 DEF from, to
  <2>. QED BY <2>1, <2>2, <2>3, SizeIs
<1>6. next >= 0
  BY <1>3
<1>. QED BY <1>4, <1>5, <1>6 DEF next

\* The algorithms of the pages compute what they promise, in every state: each of
\* its parts for the lengths, widths, bases and heights that the constants give.
THEOREM AlgorithmsCompute == MCSpec => []AlgorithmsAgree
<1>1. C!AlgorithmsAgree
  BY ValuesHold, PrefixesAgree, ImagesCompare, PageIsShown, PortsNamed, ChangesAreDrawn, AddressIsFound, RowsMounted
  DEF C!AlgorithmsAgree
<1>2. AlgorithmsAgree
  BY <1>1 DEF AlgorithmsAgree
<1>. QED BY <1>2, PTL

-----------------------------------------------------------------------------
(* Lists of records                                                           *)

\* t holds elements of s in their order: the i-th is at from[i] of s.
SeqFrom(s, t, from) ==
  /\ from \in [1 .. Len(t) -> 1 .. Len(s)]
  /\ \A i, j \in 1 .. Len(t) : i < j => from[i] < from[j]
  /\ \A i \in 1 .. Len(t) : t[i] = s[from[i]]

LEMMA Joined ==
  ASSUME NEW X, NEW a \in Seq(X), NEW b \in Seq(X)
  PROVE  a \o b \in Seq(X) /\ Len(a \o b) = Len(a) + Len(b)
OBVIOUS

\* A sequence without its element at one place
LEMMA TakenOut ==
  ASSUME NEW X, NEW s \in Seq(X), NEW k \in 1 .. Len(s)
  PROVE  /\ M!RemoveAt(s, k) \in Seq(X) /\ Len(M!RemoveAt(s, k)) = Len(s) - 1
         /\ \A i \in 1 .. Len(s) - 1 : M!RemoveAt(s, k)[i] = s[IF i < k THEN i ELSE i + 1]
<1> DEFINE a == SubSeq(s, 1, k - 1)
           b == SubSeq(s, k + 1, Len(s))
<1>1. Len(s) \in Nat /\ \A i \in 1 .. Len(s) : s[i] \in X
  OBVIOUS
<1>2. a \in Seq(X) /\ Len(a) = k - 1 /\ \A i \in 1 .. k - 1 : a[i] = s[i]
  BY <1>1
<1>3. b \in Seq(X) /\ Len(b) = Len(s) - k /\ \A i \in 1 .. Len(s) - k : b[i] = s[k + i]
  BY <1>1
<1> HIDE DEF a, b
<1>4. a \o b \in Seq(X) /\ Len(a \o b) = Len(s) - 1
  <2>1. a \o b \in Seq(X) /\ Len(a \o b) = Len(a) + Len(b)
    BY <1>2, <1>3, Joined
  <2>. QED BY <2>1, <1>1, <1>2, <1>3
<1>5. \A i \in 1 .. Len(s) - 1 : (a \o b)[i] = s[IF i < k THEN i ELSE i + 1]
  <2> TAKE i \in 1 .. Len(s) - 1
  <2>1. CASE i < k
    BY <2>1, <1>1, <1>2, <1>3
  <2>2. CASE ~(i < k)
    <3>1. i - (k - 1) \in 1 .. Len(s) - k /\ k + (i - (k - 1)) = i + 1
      BY <2>2, <1>1
    <3>2. (a \o b)[i] = b[i - (k - 1)]
      BY <2>2, <1>1, <1>2, <1>3
    <3>. QED BY <2>2, <3>1, <3>2, <1>3
  <2>. QED BY <2>1, <2>2
<1>. QED BY <1>4, <1>5 DEF M!RemoveAt, a, b

\* The list without the record that repeats, if there is one
Others(s, id) == M!RemoveFirstMatch(s, LAMBDA e : e.id = id)

LEMMA OthersAre ==
  ASSUME NEW X, NEW s \in Seq(X), NEW id, \A i, j \in DOMAIN s : i < j => s[i].id # s[j].id
  PROVE  LET t == Others(s, id)
         IN  /\ t \in Seq(X)
             /\ \E from : SeqFrom(s, t, from)
             /\ \A i \in 1 .. Len(t) : t[i].id # id
<1> DEFINE t == Others(s, id)
<1>1. Len(s) \in Nat /\ DOMAIN s = 1 .. Len(s)
  OBVIOUS
<1>2. CASE ~\E i \in 1 .. Len(s) : s[i].id = id
  <2>1. t = s
    BY <1>2 DEF Others, M!RemoveFirstMatch
  <2>2. SeqFrom(s, s, [i \in 1 .. Len(s) |-> i])
    BY <1>1 DEF SeqFrom
  <2>. QED BY <2>1, <2>2, <1>2
<1>3. CASE \E i \in 1 .. Len(s) : s[i].id = id
  <2>1. PICK k \in 1 .. Len(s) : s[k].id = id
    BY <1>3
  <2>2. \A j \in 1 .. Len(s) : s[j].id = id => j = k
    BY <2>1, <1>1
  <2>3. {i \in 1 .. Len(s) : s[i].id = id} = {k}
    BY <2>1, <2>2
  <2>4. M!Min({k}) = k
    BY <1>1 DEF M!Min
  <2>5. t = M!RemoveAt(s, k)
    BY <1>3, <2>3, <2>4 DEF Others, M!RemoveFirstMatch, M!SelectInSeq
  <2> DEFINE from == [i \in 1 .. Len(s) - 1 |-> IF i < k THEN i ELSE i + 1]
  <2> HIDE DEF t
  <2>6. t \in Seq(X) /\ Len(t) = Len(s) - 1 /\ \A i \in 1 .. Len(s) - 1 : t[i] = s[from[i]]
    BY <2>5, TakenOut
  <2>7. SeqFrom(s, t, from)
    <3>1. from \in [1 .. Len(t) -> 1 .. Len(s)]
      BY <1>1, <2>6
    <3>2. \A i, j \in 1 .. Len(t) : i < j => from[i] < from[j]
      BY <1>1, <2>6
    <3>. QED BY <2>6, <3>1, <3>2 DEF SeqFrom
  <2>8. \A i \in 1 .. Len(t) : t[i].id # id
    <3> TAKE i \in 1 .. Len(t)
    <3>1. from[i] \in 1 .. Len(s) /\ from[i] # k /\ t[i] = s[from[i]]
      BY <1>1, <2>6
    <3>. QED BY <3>1, <2>2
  <2>. QED BY <2>6, <2>7, <2>8 DEF t
<1>. QED BY <1>2, <1>3

\* A record put before a list, of which as many are kept as there is room for
LEMMA ListedFirst ==
  ASSUME NEW X, NEW s \in Seq(X), NEW e, HistoryLimit \in Nat \ {0}
  PROVE  LET t == SubSeq(<<e>> \o s, 1, IF Len(s) >= HistoryLimit THEN HistoryLimit ELSE Len(s) + 1)
         IN  /\ t \in Seq(X \cup {e})
             /\ Len(t) \in 1 .. Len(s) + 1
             /\ t[1] = e
             /\ \A i \in 2 .. Len(t) : t[i] = s[i - 1]
<1> DEFINE n == IF Len(s) >= HistoryLimit THEN HistoryLimit ELSE Len(s) + 1
           U == X \cup {e}
           all == <<e>> \o s
<1>1. Len(s) \in Nat /\ n \in 1 .. Len(s) + 1
  OBVIOUS
<1>2. s \in Seq(U) /\ <<e>> \in Seq(U) /\ Len(<<e>>) = 1 /\ <<e>>[1] = e
  OBVIOUS
<1>3. all \in Seq(U) /\ Len(all) = Len(s) + 1 /\ all[1] = e /\ \A i \in 2 .. Len(s) + 1 : all[i] = s[i - 1]
  BY <1>1, <1>2
<1> HIDE DEF n, U, all
<1>4. \A i \in 1 .. n : all[i] \in U
  BY <1>1, <1>3
<1>5. SubSeq(all, 1, n) \in Seq(U) /\ Len(SubSeq(all, 1, n)) = n /\ \A i \in 1 .. n : SubSeq(all, 1, n)[i] = all[i]
  BY <1>1, <1>3, <1>4
<1>. QED BY <1>1, <1>3, <1>5 DEF n, U, all

-----------------------------------------------------------------------------
(* The history: invariant and steps                                           *)

HistoryTyped ==
  /\ {"seq", "read", "viewing", "repeats", "entries"} \subseteq DOMAIN history
  /\ history.seq \in Nat /\ history.read \in 0 .. history.seq
  /\ \E X : history.entries \in Seq(X)
  /\ \A i \in DOMAIN history.entries : history.entries[i].id \in 1 .. history.seq /\ history.entries[i].last \in 1 .. history.seq

\* The records are seen while the panel shows the newest ones, and only then.
ViewedInPanel ==
  /\ {"open", "latest"} \subseteq DOMAIN panel
  /\ {history.viewing, panel.open, panel.latest} \subseteq BOOLEAN
  /\ history.viewing = (panel.open /\ panel.latest)

MessagesInv == HistoryTyped /\ M!HistoryConsistent /\ ViewedInPanel

\* What a record does to the history
Recorded ==
  \E key, result, fault : history' = M!Append1(history, key, result, fault)

LEMMA AppendKeeps ==
  ASSUME MessagesInv, HistoryLimit \in Nat \ {0}, Recorded, UNCHANGED panel
  PROVE  MessagesInv' /\ M!KeepsUnread
<1>1. PICK key, result, fault : history' = M!Append1(history, key, result, fault)
  BY DEF Recorded
<1>2. PICK X : history.entries \in Seq(X)
  BY DEF MessagesInv, HistoryTyped
<1> DEFINE s == history.entries
           n == Len(s)
           same == {e \in M!ToSet(s) : /\ key \in DOMAIN history.repeats /\ e.id = history.repeats[key]
                                        /\ e.result = result /\ e.fault = fault}
           last == history.seq + 1
           id == IF same = {} THEN last ELSE history.repeats[key]
           entry == [id |-> id, result |-> result, fault |-> fault, last |-> last]
           others == Others(s, entry.id)
           t == SubSeq(<<entry>> \o others, 1,
                       IF Len(others) >= HistoryLimit THEN HistoryLimit ELSE Len(others) + 1)
           repeats == IF key = "none" THEN history.repeats
                      ELSE [k \in DOMAIN history.repeats \cup {key} |-> IF k = key THEN id ELSE history.repeats[k]]
<1>3. history' = [history EXCEPT !.seq = last, !.read = IF history.viewing THEN last ELSE @, !.entries = t,
                                 !.repeats = M!Retained(repeats, t)]
  BY <1>1 DEF M!Append1, Others
<1>4. /\ {"seq", "read", "viewing", "repeats", "entries"} \subseteq DOMAIN history'
      /\ history'.seq = last /\ history'.read = IF history.viewing THEN last ELSE history.read
      /\ history'.viewing = history.viewing /\ history'.entries = t /\ history'.repeats = M!Retained(repeats, t)
  <2> HIDE DEF last, t, repeats
  <2>. QED BY <1>3 DEF MessagesInv, HistoryTyped
<1>5. /\ n \in Nat /\ DOMAIN s = 1 .. n
      /\ \A i, j \in 1 .. n : i < j => s[i].id # s[j].id /\ s[i].last > s[j].last
      /\ \A i \in 1 .. n : s[i].id \in 1 .. history.seq /\ s[i].last \in 1 .. history.seq
      /\ history.seq \in Nat
  BY <1>2, SequenceIs DEF MessagesInv, HistoryTyped, M!HistoryConsistent
<1>6. /\ others \in Seq(X)
      /\ \E from : SeqFrom(s, others, from)
      /\ \A i \in 1 .. Len(others) : others[i].id # id
  <2>1. entry.id = id
    BY DEF entry
  <2> HIDE DEF entry, id, same, last
  <2>2. /\ others \in Seq(X)
        /\ \E from : SeqFrom(s, others, from)
        /\ \A i \in 1 .. Len(others) : others[i].id # entry.id
    BY <1>2, <1>5, OthersAre, Zenon
  <2>. QED BY <2>1, <2>2
<1>7. PICK from : SeqFrom(s, others, from)
  BY <1>6
<1>8. /\ t \in Seq(X \cup {entry}) /\ Len(t) \in 1 .. Len(others) + 1
      /\ t[1] = entry /\ \A i \in 2 .. Len(t) : t[i] = others[i - 1]
  <2> HIDE DEF others, entry
  <2>. QED BY <1>6, ListedFirst
<1>9. Len(others) \in Nat /\ DOMAIN t = 1 .. Len(t) /\ Len(t) \in Nat
  <2>1. Len(others) \in Nat
    BY <1>6
  <2>2. DOMAIN t = 1 .. Len(t) /\ Len(t) \in Nat
    <3>1. t \in Seq(X \cup {entry})
      BY <1>8
    <3>. QED BY <3>1, SequenceIs
  <2>. QED BY <2>1, <2>2
<1>10. id \in 1 .. last /\ (same # {} => \E e \in same : e.id = id /\ e.result = result) /\ (same = {} => id = last)
  <2>1. \A e \in M!ToSet(s) : e.id \in 1 .. history.seq
    BY <1>5 DEF M!ToSet
  <2>. QED BY <1>5, <2>1
<1>11. entry.id = id /\ entry.last = last /\ entry.result = result /\ last = history.seq + 1
  OBVIOUS
<1> HIDE DEF s, n, same, last, id, entry, others, t, repeats
\* What stands behind the new record stood in the list before, in this order.
<1>12. \A i \in 2 .. Len(t) :
         /\ from[i - 1] \in 1 .. n /\ t[i] = s[from[i - 1]] /\ t[i].id # id
         /\ \A j \in 2 .. Len(t) : i < j => from[i - 1] < from[j - 1]
  <2> TAKE i \in 2 .. Len(t)
  <2>1. i - 1 \in 1 .. Len(others) /\ t[i] = others[i - 1]
    BY <1>8, <1>9
  <2>2. \A j \in 2 .. Len(t) : j - 1 \in 1 .. Len(others) /\ (i < j => i - 1 < j - 1)
    BY <1>8, <1>9
  <2>3. from[i - 1] \in 1 .. n /\ others[i - 1] = s[from[i - 1]] /\ others[i - 1].id # id
    BY <2>1, <1>6, <1>7 DEF SeqFrom, n
  <2>4. \A j \in 2 .. Len(t) : i < j => from[i - 1] < from[j - 1]
    BY <2>1, <2>2, <1>7 DEF SeqFrom
  <2>. QED BY <2>1, <2>3, <2>4
<1>13. \A i, j \in 1 .. Len(t) : i < j => t[i].id # t[j].id /\ t[i].last > t[j].last
  <2> TAKE i, j \in 1 .. Len(t)
  <2> HAVE i < j
  <2>1. j \in 2 .. Len(t)
    BY <1>9
  <2>2. CASE i = 1
    <3>1. t[j].id # id /\ t[j] = s[from[j - 1]] /\ from[j - 1] \in 1 .. n
      BY <2>1, <1>12
    <3>2. s[from[j - 1]].last \in 1 .. history.seq
      BY <3>1, <1>5
    <3>3. t[j].last \in 1 .. history.seq
      BY <3>1, <3>2, Zenon
    <3>4. last > t[j].last
      BY <3>3, <1>5, <1>11
    <3>5. t[i].id = id /\ t[i].last = last
      BY <2>2, <1>8, <1>11
    <3>. QED BY <3>1, <3>4, <3>5
  <2>3. CASE i # 1
    <3>1. i \in 2 .. Len(t)
      BY <2>3, <1>9
    <3>2. /\ from[i - 1] \in 1 .. n /\ from[j - 1] \in 1 .. n /\ from[i - 1] < from[j - 1]
          /\ t[i] = s[from[i - 1]] /\ t[j] = s[from[j - 1]]
      BY <2>1, <3>1, <1>12
    <3>3. s[from[i - 1]].id # s[from[j - 1]].id /\ s[from[i - 1]].last > s[from[j - 1]].last
      BY <3>2, <1>5
    <3>. QED BY <3>2, <3>3, Zenon
  <2>. QED BY <2>2, <2>3
<1>14. \A i \in 1 .. Len(t) : t[i].id \in 1 .. last /\ t[i].last \in 1 .. last
  <2> TAKE i \in 1 .. Len(t)
  <2>1. CASE i = 1
    BY <2>1, <1>5, <1>8, <1>10, <1>11
  <2>2. CASE i # 1
    <3>1. i \in 2 .. Len(t)
      BY <2>2, <1>9
    <3>2. from[i - 1] \in 1 .. n /\ t[i] = s[from[i - 1]]
      BY <3>1, <1>12
    <3>3. t[i].id \in 1 .. history.seq /\ t[i].last \in 1 .. history.seq
      BY <3>2, <1>5, Zenon
    <3>. QED BY <3>3, <1>5, <1>11
  <2>. QED BY <2>1, <2>2
<1>15. HistoryTyped'
  <2>1. history'.seq \in Nat /\ history'.read \in 0 .. history'.seq
    BY <1>4, <1>5, <1>11 DEF MessagesInv, HistoryTyped
  <2>. QED BY <2>1, <1>4, <1>8, <1>9, <1>14 DEF HistoryTyped
<1>16. M!HistoryConsistent'
  <2>1. \A k \in DOMAIN history'.repeats : history'.repeats[k] \in M!Ids(t)
    BY <1>4 DEF M!Retained
  <2>2. (M!HistoryConsistent)' <=>
          /\ \A k \in DOMAIN history'.repeats : history'.repeats[k] \in M!Ids(history'.entries)
          /\ \A i, j \in DOMAIN history'.entries :
               i < j => /\ history'.entries[i].id # history'.entries[j].id
                        /\ history'.entries[i].last > history'.entries[j].last
    BY DEF M!HistoryConsistent, M!Ids
  <2>. QED BY <2>1, <2>2, <1>4, <1>9, <1>13
<1>17. ViewedInPanel'
  BY <1>4 DEF MessagesInv, ViewedInPanel
<1>18. M!KeepsUnread
  <2> SUFFICES ASSUME NEW e \in M!Unread(history), e.id \in M!Ids(history'.entries), ~(panel'.open /\ panel'.latest)
               PROVE  e.id \in {u.id : u \in M!Unread(history')}
    BY DEF M!KeepsUnread
  <2>1. history'.read = history.read
    BY <1>4 DEF MessagesInv, ViewedInPanel
  <2>2. PICK p \in 1 .. n : e = s[p] /\ e.last > history.read /\ e.result # "recovered"
    BY <1>5 DEF M!Unread, M!ToSet, s
  <2>3. PICK q \in 1 .. Len(t) : t[q].id = e.id
    BY <1>4, <1>9 DEF M!Ids, M!ToSet
  <2>4. t[q].last > history.read /\ t[q].result # "recovered"
    <3>1. CASE q = 1
      <4>1. e.id = id
        BY <2>3, <3>1, <1>8, <1>11
      <4>2. same # {}
        BY <4>1, <1>5, <1>10, <1>11, <2>2
      <4>3. PICK d \in same : d.id = id /\ d.result = result
        BY <4>2, <1>10
      <4>4. PICK r \in 1 .. n : d = s[r]
        BY <1>5 DEF same, M!ToSet
      <4>5. r = p
        BY <4>1, <4>3, <4>4, <2>2, <1>5
      <4>6. result # "recovered"
        BY <2>2, <4>3, <4>4, <4>5
      <4>7. last > history.read
        BY <1>5, <1>11 DEF MessagesInv, HistoryTyped
      <4>. QED BY <3>1, <4>6, <4>7, <1>8, <1>11
    <3>2. CASE q # 1
      <4>1. q \in 2 .. Len(t)
        BY <3>2, <1>9
      <4>2. from[q - 1] \in 1 .. n /\ t[q] = s[from[q - 1]]
        BY <4>1, <1>12
      <4>3. from[q - 1] = p
        BY <4>2, <2>2, <2>3, <1>5
      <4>. QED BY <4>2, <4>3, <2>2
    <3>. QED BY <3>1, <3>2
  <2>5. t[q] \in M!Unread(history')
    BY <2>1, <2>4, <1>4, <1>9 DEF M!Unread, M!ToSet
  <2>. QED BY <2>3, <2>5
<1>. QED BY <1>15, <1>16, <1>17, <1>18 DEF MessagesInv

LEMMA ViewingKeeps ==
  ASSUME MessagesInv, NEW value \in BOOLEAN, history' = M!SetViewing(history, value),
         {"open", "latest"} \subseteq DOMAIN panel', {panel'.open, panel'.latest} \subseteq BOOLEAN,
         value = (panel'.open /\ panel'.latest)
  PROVE  MessagesInv' /\ M!KeepsUnread
<1>1. /\ {"seq", "read", "viewing", "repeats", "entries"} \subseteq DOMAIN history'
      /\ history'.seq = history.seq /\ history'.read = IF value THEN history.seq ELSE history.read
      /\ history'.viewing = value /\ history'.entries = history.entries /\ history'.repeats = history.repeats
  BY DEF MessagesInv, HistoryTyped, M!SetViewing
<1>2. HistoryTyped'
  <2>1. history'.read \in 0 .. history'.seq
    BY <1>1 DEF MessagesInv, HistoryTyped
  <2>. QED BY <1>1, <2>1 DEF MessagesInv, HistoryTyped
<1>3. M!HistoryConsistent'
  BY <1>1 DEF MessagesInv, M!HistoryConsistent, M!Ids
<1>4. ViewedInPanel'
  BY <1>1 DEF ViewedInPanel
<1>5. M!KeepsUnread
  BY <1>1 DEF M!KeepsUnread, M!Unread, M!Ids
<1>. QED BY <1>2, <1>3, <1>4, <1>5 DEF MessagesInv

\* The list is cleared.
LEMMA ClearKeeps ==
  ASSUME MessagesInv, history' = M!Cleared(history), UNCHANGED panel
  PROVE  MessagesInv' /\ M!KeepsUnread
<1>1. /\ {"seq", "read", "viewing", "repeats", "entries"} \subseteq DOMAIN history'
      /\ history'.seq = history.seq /\ history'.read = history.seq
      /\ history'.viewing = history.viewing /\ history'.entries = << >> /\ history'.repeats = << >>
  BY DEF MessagesInv, HistoryTyped, M!Cleared
<1>2. << >> \in Seq({}) /\ DOMAIN << >> = {}
  OBVIOUS
<1>3. HistoryTyped'
  BY <1>1, <1>2 DEF MessagesInv, HistoryTyped
<1>4. M!HistoryConsistent'
  BY <1>1, <1>2 DEF M!HistoryConsistent
<1>5. ViewedInPanel'
  BY <1>1 DEF MessagesInv, ViewedInPanel
<1>6. M!KeepsUnread
  BY <1>1, <1>2 DEF M!KeepsUnread, M!Ids, M!ToSet
<1>. QED BY <1>3, <1>4, <1>5, <1>6 DEF MessagesInv

\* A series ends.
LEMMA ForgetKeeps ==
  ASSUME MessagesInv, NEW key, history' = [history EXCEPT !.repeats = M!Forget(@, key)], UNCHANGED panel
  PROVE  MessagesInv' /\ M!KeepsUnread
<1>1. /\ {"seq", "read", "viewing", "repeats", "entries"} \subseteq DOMAIN history'
      /\ history'.seq = history.seq /\ history'.read = history.read
      /\ history'.viewing = history.viewing /\ history'.entries = history.entries
      /\ history'.repeats = M!Forget(history.repeats, key)
  BY DEF MessagesInv, HistoryTyped
<1>2. HistoryTyped'
  BY <1>1 DEF MessagesInv, HistoryTyped
<1>3. M!HistoryConsistent'
  BY <1>1 DEF MessagesInv, M!HistoryConsistent, M!Ids, M!Forget
<1>4. ViewedInPanel'
  BY <1>1 DEF MessagesInv, ViewedInPanel
<1>5. M!KeepsUnread
  BY <1>1 DEF M!KeepsUnread, M!Unread, M!Ids
<1>. QED BY <1>2, <1>3, <1>4, <1>5 DEF MessagesInv

LEMMA SameKeeps ==
  ASSUME MessagesInv, UNCHANGED <<history, panel>>
  PROVE  MessagesInv' /\ M!KeepsUnread
<1>1. M!HistoryConsistent'
  BY DEF MessagesInv, M!HistoryConsistent, M!Ids
<1>2. M!KeepsUnread
  BY DEF M!KeepsUnread, M!Unread
<1>. QED BY <1>1, <1>2 DEF MessagesInv, HistoryTyped, ViewedInPanel

LEMMA FinishKeeps ==
  ASSUME MessagesInv, HistoryLimit \in Nat \ {0},
         NEW method, NEW automatic, NEW fault, NEW wrong, M!Finish(method, automatic, fault, wrong)
  PROVE  MessagesInv' /\ M!KeepsUnread
<1> DEFINE verdict == M!Verdict(method, fault, wrong)
           key == IF automatic THEN method ELSE "none"
<1>1. history' = M!Finished(history, method, automatic, fault, wrong) /\ UNCHANGED panel
  BY DEF M!Finish
<1>2. CASE verdict # "none"
  <2>1. history' = M!Append1(history, key, verdict, <<method, fault, wrong>>)
    BY <1>1, <1>2 DEF M!Finished
  <2>. QED BY <1>1, <2>1, AppendKeeps DEF Recorded
<1>3. CASE verdict = "none"
  <2>1. history' = history \/ history' = [history EXCEPT !.repeats = M!Forget(@, key)]
    BY <1>1, <1>3 DEF M!Finished
  <2>. QED BY <1>1, <2>1, SameKeeps, ForgetKeeps
<1>. QED BY <1>2, <1>3

LEMMA ObservationKeeps ==
  ASSUME MessagesInv, HistoryLimit \in Nat \ {0},
         \/ M!CycleFault \/ M!CycleRuns
         \/ \E what \in {"service", "link"}, up \in {"up", "down"} : M!Observed(what, up)
  PROVE  MessagesInv' /\ M!KeepsUnread
<1>1. CASE M!CycleFault \/ M!CycleRuns
  <2>1. Recorded /\ UNCHANGED panel
    BY <1>1 DEF M!CycleFault, M!CycleRuns, M!Record, Recorded
  <2>. QED BY <2>1, AppendKeeps
<1>2. ASSUME NEW what \in {"service", "link"}, NEW up \in {"up", "down"}, M!Observed(what, up)
      PROVE  MessagesInv' /\ M!KeepsUnread
  <2>1. (Recorded \/ UNCHANGED history) /\ UNCHANGED panel
    BY <1>2 DEF M!Observed, M!Record, Recorded
  <2>. QED BY <2>1, AppendKeeps, SameKeeps
<1>. QED BY <1>1, <1>2

LEMMA PanelKeeps ==
  ASSUME MessagesInv, M!OpenPanel \/ M!ClosePanel \/ M!Scroll \/ M!Clear
  PROVE  MessagesInv' /\ M!KeepsUnread
<1>1. CASE M!OpenPanel
  <2>1. \E latest \in BOOLEAN : panel' = [open |-> TRUE, latest |-> latest]
    BY <1>1 DEF M!OpenPanel
  <2>2. history' = M!SetViewing(history, panel'.latest)
    BY <1>1 DEF M!OpenPanel
  <2>3. /\ {"open", "latest"} \subseteq DOMAIN panel'
        /\ panel'.open = TRUE /\ panel'.latest \in BOOLEAN
    BY <2>1
  <2>. QED BY <2>2, <2>3, ViewingKeeps
<1>2. CASE M!ClosePanel
  <2>1. history' = M!SetViewing(history, FALSE) /\ panel' = [panel EXCEPT !.open = FALSE]
    BY <1>2 DEF M!ClosePanel
  <2>2. {"open", "latest"} \subseteq DOMAIN panel' /\ panel'.open = FALSE /\ panel'.latest \in BOOLEAN
    BY <2>1 DEF MessagesInv, ViewedInPanel
  <2>. QED BY <2>1, <2>2, ViewingKeeps
<1>3. CASE M!Scroll
  <2>1. history' = M!SetViewing(history, panel'.latest) /\ panel.open /\ panel' = [panel EXCEPT !.latest = ~@]
    BY <1>3 DEF M!Scroll
  <2>2. {"open", "latest"} \subseteq DOMAIN panel' /\ panel'.open = panel.open /\ panel'.latest = ~panel.latest
    BY <2>1 DEF MessagesInv, ViewedInPanel
  <2>3. panel'.open /\ panel'.open \in BOOLEAN /\ panel'.latest \in BOOLEAN
    BY <2>1, <2>2 DEF MessagesInv, ViewedInPanel
  <2>. QED BY <2>1, <2>2, <2>3, ViewingKeeps
<1>4. CASE M!Clear
  BY <1>4, ClearKeeps DEF M!Clear
<1>. QED BY <1>1, <1>2, <1>3, <1>4

LEMMA DockKeeps ==
  ASSUME MessagesInv,
         \/ M!SetMessage \/ M!DockSteps \/ M!Dismiss \/ M!Hover \/ M!ProgressChanges \/ M!SessionChanges
  PROVE  MessagesInv' /\ M!KeepsUnread
<1>1. UNCHANGED <<history, panel>>
  BY Zenon DEF M!SetMessage, M!DockSteps, M!Settle, M!Announce, M!ReplaceFrame, M!Advance, M!AutoHide, M!ProgressExpires,
         M!Dismiss, M!Hover, M!ProgressChanges, M!SessionChanges
<1>. QED BY <1>1, SameKeeps

LEMMA NextMessages ==
  ASSUME MessagesInv, HistoryLimit \in Nat \ {0}, [MCNext]_allVars
  PROVE  MessagesInv' /\ M!KeepsUnread
<1>1. CASE UNCHANGED <<history, panel>>
  BY <1>1, SameKeeps
<1>2. CASE MCNext /\ part = "verdicts"
  <2>1. M!Finishes
    BY <1>2 DEF MCNext
  <2>. QED BY <2>1, FinishKeeps DEF M!Finishes
<1>3. CASE MCNext /\ part = "history"
  <2>1. HistorySteps
    BY <1>3 DEF MCNext
  <2>. QED BY <2>1, FinishKeeps, ObservationKeeps, PanelKeeps, DockKeeps DEF HistorySteps
<1>4. CASE MCNext /\ part = "dock"
  <2>1. DockSteps
    BY <1>4 DEF MCNext
  <2>. QED BY <2>1, ObservationKeeps, PanelKeeps, DockKeeps DEF DockSteps
<1>5. [MCNext]_allVars => UNCHANGED <<history, panel>> \/ (MCNext /\ part \in {"verdicts", "history", "dock"})
  BY DEF MCNext, Stay, allVars, messageVars
<1>. QED BY <1>1, <1>2, <1>3, <1>4, <1>5

LEMMA InitMessages == ASSUME M!Init PROVE MessagesInv
<1>1. /\ {"seq", "read", "viewing", "repeats", "entries"} \subseteq DOMAIN history
      /\ history.seq = 0 /\ history.read = 0 /\ history.viewing = FALSE
      /\ history.repeats = << >> /\ history.entries = << >>
      /\ {"open", "latest"} \subseteq DOMAIN panel /\ panel.open = FALSE /\ panel.latest = TRUE
  BY DEF M!Init
<1>2. << >> \in Seq({}) /\ DOMAIN << >> = {}
  OBVIOUS
<1>3. HistoryTyped
  BY <1>1, <1>2 DEF HistoryTyped
<1>4. M!HistoryConsistent
  BY <1>1, <1>2 DEF M!HistoryConsistent
<1>5. ViewedInPanel
  BY <1>1 DEF ViewedInPanel
<1>. QED BY <1>3, <1>4, <1>5 DEF MessagesInv

\* The table of verdicts, line by line
LEMMA VerdictsHonest == M!VerdictsAreHonest
<1> SUFFICES ASSUME NEW method \in M!HistoryMethods, NEW fault \in M!Errors, NEW wrong \in SUBSET M!WrongOf(method)
             PROVE  /\ M!Verdict(method, fault, wrong) = "none" =>
                         fault = "cancelled" \/ (fault = "none" /\ (wrong \subseteq {"no_values"} \/ "stopped" \in wrong))
                    /\ fault = "unknown" => M!Verdict(method, fault, wrong) = "warning"
  BY DEF M!VerdictsAreHonest
<1>1. fault \in {"none", "cancelled", "failed", "state", "unknown"}
  BY DEF M!Errors
<1>2. CASE fault = "cancelled"
  BY <1>2
<1>3. CASE method = "request_state" /\ fault # "cancelled"
  <2>1. M!Verdict(method, fault, wrong) = M!StateVerdict(fault, wrong)
    BY <1>1, <1>3 DEF M!Verdict
  <2>2. wrong \subseteq {"failed", "unconfirmed"}
    BY <1>3 DEF M!WrongOf
  <2>3. M!StateVerdict(fault, wrong) = "none" => fault = "none" /\ wrong = {}
    BY <1>1, <1>3, <2>2 DEF M!StateVerdict
  <2>4. fault = "unknown" => M!StateVerdict(fault, wrong) = "warning"
    BY DEF M!StateVerdict
  <2>. QED BY <1>3, <2>1, <2>3, <2>4
<1>4. CASE method # "request_state" /\ fault \in {"failed", "state", "unknown"}
  <2>1. M!Verdict(method, fault, wrong) = IF fault = "unknown" THEN "warning" ELSE "error"
    BY <1>4 DEF M!Verdict
  <2>. QED BY <1>4, <2>1
<1>5. CASE method # "request_state" /\ fault = "none"
  <2>1. M!Verdict(method, fault, wrong) = M!AnswerVerdict(method, wrong)
    BY <1>5 DEF M!Verdict
  <2>2. M!AnswerVerdict(method, wrong) = "none" => wrong \subseteq {"no_values"} \/ "stopped" \in wrong
    BY DEF M!AnswerVerdict
  <2>. QED BY <1>5, <2>1, <2>2
<1>. QED BY <1>1, <1>2, <1>3, <1>4, <1>5

\* The history lists no record twice and in the order of events, its series refer to
\* records that are there, and the verdicts are honest: however many records come,
\* repeat and drop out, whatever the limit of the list.
THEOREM HistoryIsConsistent == MCSpec => []MessagesAreConsistent
<1>1. MCInit => MessagesInv
  BY InitMessages DEF MCInit
<1>2. MessagesInv /\ [MCNext]_allVars => MessagesInv'
  BY NextMessages, HistoryAssumption
<1>3. MessagesInv => MessagesAreConsistent
  BY VerdictsHonest DEF MessagesInv, MessagesAreConsistent
<1>. QED BY <1>1, <1>2, <1>3, PTL DEF MCSpec

\* A fault counts as unread until the newest records are on the screen, or the list
\* is cleared or has no room for it, a fault that repeats included.
THEOREM NothingIsOverlooked == MCSpec => UnreadUntilSeen
<1>1. MCInit => MessagesInv
  BY InitMessages DEF MCInit
<1>2. MessagesInv /\ [MCNext]_allVars => MessagesInv'
  BY NextMessages, HistoryAssumption
<1>3. MessagesInv /\ [MCNext]_allVars => [M!KeepsUnread]_messageVars
  BY NextMessages, HistoryAssumption
<1>. QED BY <1>1, <1>2, <1>3, PTL DEF MCSpec, UnreadUntilSeen
=============================================================================
