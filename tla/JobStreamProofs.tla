-------------------------- MODULE JobStreamProofs ---------------------------
(***************************************************************************)
(* What reaches the browser of a manual refresh, for all bounds, cooldowns *)
(* and kinds: no event of a running task is dropped, the browser has the   *)
(* events of its job from the first one on with none left out, and a green *)
(* verdict is true unless the job ended while its last batch was sent.     *)
(***************************************************************************)
EXTENDS JobStream, SequenceTheorems, TLAPS

-----------------------------------------------------------------------------
(* The inductive invariant *)

RealEvent == AnEvent \ {Synthetic}
Entry == [events : Seq(RealEvent), done : BOOLEAN, created : 1..MaxTime]
Generator == [pc : {"sleeping", "sending"}, last : Nat, batch : Seq(RealEvent), tail : AnEvent]
View == [job : Jobs \cup {NoJob}, of : Jobs \cup {NoJob}, events : Seq(AnEvent),
         isDone : BOOLEAN, error : BOOLEAN, pressed : BOOLEAN]

Typed ==
  /\ now \in 1..MaxTime /\ lastTrigger \in 0..now
  /\ DOMAIN produced \subseteq Jobs /\ produced \in [DOMAIN produced -> Seq(RealEvent)]
  /\ tracker \in [DOMAIN tracker -> Entry]
  /\ task \in [DOMAIN task -> Seq({"trm_backfill", "flex_ytd"}) \ {<<>>}]
  /\ stream \in [DOMAIN stream -> Generator]
  /\ view \in View

Starts(s, t) == Len(s) <= Len(t) /\ \A i \in 1..Len(s) : s[i] = t[i]

\* A task's last event is done or a failure.
Ended(events) == events # <<>> /\ (events[Len(events)] = DoneEvent \/ events[Len(events)].status = "failed")

\* The tracker has what was produced, and done is the last that is.
TrackerInv ==
  /\ DOMAIN task \subseteq DOMAIN tracker /\ DOMAIN tracker \subseteq DOMAIN produced
  /\ \A j \in DOMAIN tracker : tracker[j].events = produced[j]
  /\ \A j \in DOMAIN tracker : tracker[j].done => j \notin DOMAIN task /\ Ended(produced[j])
  /\ \A j \in DOMAIN produced : \A i \in 1..Len(produced[j]) :
       produced[j][i] = DoneEvent => i = Len(produced[j]) /\ j \notin DOMAIN task

\* What generator g of job j has still to send comes next, and is the rest if the job ended
\* before the generator read it.
Sends(g, j) ==
  /\ g.last + Len(g.batch) <= Len(produced[j])
  /\ \A i \in 1..Len(g.batch) : g.batch[i] = produced[j][g.last + i]
  /\ g.pc = "sleeping" => g.batch = <<>>
  /\ (g.pc = "sending" /\ j \in DOMAIN tracker /\ j \notin late /\ tracker[j].done) =>
       g.last + Len(g.batch) = Len(produced[j])

\* Only the job that is shown has a generator, which is as far as the browser.
StreamInv ==
  \A j \in DOMAIN stream :
    /\ j = view.job /\ j # NoJob /\ ~view.error
    /\ Sends(stream[j], j)
    /\ ~view.isDone => Len(view.events) = stream[j].last

\* While the browser waits it has the beginning of what was produced.
Waiting(v) ==
  /\ v.events \in Seq(RealEvent)
  /\ v.of # NoJob => Starts(v.events, produced[v.of])
  /\ \A i \in 1..Len(v.events) : v.events[i] # DoneEvent

\* Once it is done it has everything, or the closing event after a failure or, perhaps,
\* too early.
Closed(v) ==
  /\ v.of # NoJob /\ v.of \notin DOMAIN task
  /\ \/ /\ v.events = produced[v.of] /\ v.events # <<>> /\ v.events[Len(v.events)] = DoneEvent
     \/ \E s \in Seq(RealEvent) :
          /\ v.events = Append(s, Synthetic) /\ Starts(s, produced[v.of])
          /\ v.of \notin late => \E i \in 1..Len(s) : s[i].status = "failed"

ViewInv ==
  /\ view.job \in {NoJob, view.of}
  /\ view.of # NoJob => view.of \in DOMAIN produced
  /\ view.pressed => view.job = NoJob
  /\ IF view.isDone THEN Closed(view) ELSE Waiting(view)

IInv == Typed /\ TrackerInv /\ StreamInv /\ ViewInv

-----------------------------------------------------------------------------
(* Events *)

LEMMA Events ==
  /\ DoneEvent \in RealEvent /\ Synthetic \in AnEvent /\ Synthetic \notin RealEvent
  /\ RealEvent \subseteq AnEvent
  /\ \A step \in {"trm_backfill", "flex_ytd"}, status \in {"running", "ok", "partial", "failed"} :
       Event(step, status) \in RealEvent /\ Event(step, status) # DoneEvent
BY DEF DoneEvent, Synthetic, Event, RealEvent, AnEvent

\* What was produced stays the beginning of what is.
LEMMA Grows ==
  ASSUME NEW s \in Seq(RealEvent), NEW more \in Seq(RealEvent)
  PROVE  /\ s \o more \in Seq(RealEvent) /\ Len(s \o more) = Len(s) + Len(more)
         /\ \A i \in 1..Len(s) : (s \o more)[i] = s[i]
         /\ \A i \in 1..Len(more) : (s \o more)[Len(s) + i] = more[i]
OBVIOUS

LEMMA Pair ==
  ASSUME NEW a \in RealEvent, NEW b \in RealEvent, a # DoneEvent, b # DoneEvent
  PROVE  <<a, b>> \in Seq(RealEvent) /\ \A i \in 1..Len(<<a, b>>) : <<a, b>>[i] # DoneEvent
OBVIOUS

\* What a generator that has sent n events has still to send.
LEMMA Rest ==
  ASSUME NEW s \in Seq(RealEvent), NEW n \in 0..Len(s)
  PROVE  LET rest == SubSeq(s, n + 1, Len(s))
         IN  /\ rest \in Seq(RealEvent) /\ n + Len(rest) = Len(s)
             /\ \A i \in 1..Len(rest) : rest[i] = s[n + i]
<1> DEFINE rest == SubSeq(s, n + 1, Len(s))
<1>1. Len(s) \in Nat /\ n \in Nat /\ n <= Len(s) /\ \A i \in (n + 1)..Len(s) : s[i] \in RealEvent
  OBVIOUS
<1>2. /\ rest \in Seq(RealEvent) /\ Len(rest) = IF n + 1 <= Len(s) THEN Len(s) - (n + 1) + 1 ELSE 0
      /\ \A i \in 1..(Len(s) - (n + 1) + 1) : rest[i] = s[(n + 1) + i - 1]
  BY <1>1, SubSeqProperties
<1> HIDE DEF rest
<1>3. Len(rest) = Len(s) - n
  BY <1>1, <1>2
<1>4. \A i \in 1..Len(rest) : rest[i] = s[n + i]
  BY <1>1, <1>2, <1>3
<1> QED
  BY <1>1, <1>2, <1>3, <1>4 DEF rest

LEMMA StartsGrows ==
  ASSUME NEW s \in Seq(RealEvent), NEW more \in Seq(RealEvent),
         NEW e \in Seq(RealEvent), Starts(e, s)
  PROVE  Starts(e, s \o more)
<1>1. Len(e) <= Len(s) /\ \A i \in 1..Len(e) : e[i] = s[i]
  BY DEF Starts
<1>2. Len(e) \in Nat /\ Len(s) \in Nat /\ Len(more) \in Nat
  OBVIOUS
<1>3. \A i \in 1..Len(e) : i \in 1..Len(s)
  BY <1>1, <1>2
<1>4. \A i \in 1..Len(e) : (s \o more)[i] = e[i]
  BY <1>1, <1>3, Grows
<1>5. Len(e) <= Len(s \o more)
  BY <1>1, <1>2, Grows
<1> QED
  BY <1>4, <1>5 DEF Starts

\* Where a done event may be, after more of them came to none.
LEMMA DoneGrows ==
  ASSUME NEW s \in Seq(RealEvent), NEW more \in Seq(RealEvent),
         \A i \in 1..Len(s) : s[i] # DoneEvent,
         NEW k \in 1..Len(s \o more), (s \o more)[k] = DoneEvent
  PROVE  \E i \in 1..Len(more) : more[i] = DoneEvent /\ k = Len(s) + i
<1>1. Len(s) \in Nat /\ Len(more) \in Nat /\ Len(s \o more) = Len(s) + Len(more)
  OBVIOUS
<1>2. k \notin 1..Len(s)
  BY Grows
<1>3. k - Len(s) \in 1..Len(more) /\ k = Len(s) + (k - Len(s))
  BY <1>1, <1>2
<1>4. more[k - Len(s)] = DoneEvent
  BY <1>3, Grows
<1> QED
  BY <1>3, <1>4

LEMMA EndedGrows ==
  ASSUME NEW s \in Seq(RealEvent), NEW more \in Seq(RealEvent), Ended(more)
  PROVE  Ended(s \o more)
<1>1. Len(more) \in 1..Len(more) /\ Len(s) \in Nat
  BY DEF Ended
<1>2. (s \o more)[Len(s \o more)] = more[Len(more)]
  BY <1>1, Grows
<1>3. s \o more # <<>>
  BY <1>1, Grows
<1> QED
  BY <1>2, <1>3 DEF Ended

\* The properties follow from the invariant.
LEMMA Implied ==
  ASSUME IInv
  PROVE  TypeOK /\ NothingDropped /\ PrefixShown /\ GreenUnlessLate
<1>1. TypeOK
  BY DEF IInv, Typed, TypeOK, TrackerInv, StreamInv, ViewInv, RealEvent, Generator, View
<1>2. NothingDropped
  BY DEF IInv, NothingDropped, TrackerInv
<1>3. PrefixShown
  <2> SUFFICES ASSUME view.of # NoJob
               PROVE  IsPrefix(Shown, produced[view.of])
    BY DEF PrefixShown
  <2> DEFINE t == produced[view.of]
  <2>1. t \in Seq(RealEvent)
    BY DEF IInv, Typed, ViewInv
  <2>2. \E s \in Seq(RealEvent) : Shown = s /\ Starts(s, t)
    <3>1. CASE ~view.isDone
      <4>1. view.events \in Seq(RealEvent) /\ Starts(view.events, t)
        BY <3>1 DEF IInv, ViewInv, Waiting
      <4>2. Shown = view.events
        BY <4>1, Events DEF Shown, Last
      <4> QED
        BY <4>1, <4>2
    <3>2. CASE view.isDone /\ view.events = t
      <4>1. Shown = t
        BY <3>2, <2>1, Events DEF Shown, Last
      <4> QED
        BY <4>1, <2>1 DEF Starts
    <3>3. CASE view.isDone /\ view.events # t
      <4>1. PICK s \in Seq(RealEvent) : view.events = Append(s, Synthetic) /\ Starts(s, t)
        BY <3>3 DEF IInv, ViewInv, Closed
      <4>2. Front(Append(s, Synthetic)) = s
        BY <4>1 DEF Front
      <4>3. Append(s, Synthetic) # <<>> /\ Last(Append(s, Synthetic)) = Synthetic
        BY <4>1 DEF Last
      <4> QED
        BY <4>1, <4>2, <4>3 DEF Shown
    <3> QED
      BY <3>1, <3>2, <3>3
  <2>3. ASSUME NEW s \in Seq(RealEvent), Starts(s, t)
        PROVE  IsPrefix(s, t)
    BY <2>1, <2>3 DEF Starts, IsPrefix
  <2> QED
    BY <2>2, <2>3
<1>4. GreenUnlessLate
  <2> SUFFICES ASSUME view.isDone, ~HasFailed(view), ~HasPartial(view), view.of \notin late
               PROVE  Succeeded(view.of)
    BY DEF GreenUnlessLate, Green
  <2> DEFINE t == produced[view.of]
  <2>1. t \in Seq(RealEvent)
    BY DEF IInv, Typed, ViewInv, Closed
  <2>2. view.events = t /\ t # <<>> /\ t[Len(t)] = DoneEvent
    <3> SUFFICES ASSUME NEW s \in Seq(RealEvent), view.events = Append(s, Synthetic),
                        NEW i \in 1..Len(s), s[i].status = "failed"
                 PROVE  FALSE
      BY DEF IInv, ViewInv, Closed
    <3>1. i \in DOMAIN view.events /\ view.events[i] = s[i]
      OBVIOUS
    <3> QED
      BY <3>1 DEF HasFailed
  <2>3. \A i \in DOMAIN t : t[i].status \in {"running", "ok", "none"}
    <3> SUFFICES ASSUME NEW i \in DOMAIN t
                 PROVE  t[i].status \in {"running", "ok", "none"}
      OBVIOUS
    <3>1. t[i] \in AnEvent
      BY <2>1 DEF RealEvent
    <3>2. t[i].status # "failed" /\ t[i].status # "partial"
      BY <2>2 DEF HasFailed, HasPartial
    <3> QED
      BY <3>1, <3>2 DEF AnEvent
  <2> QED
    BY <2>2, <2>3 DEF Succeeded, Last
<1> QED
  BY <1>1, <1>2, <1>3, <1>4

-----------------------------------------------------------------------------
(* The background task *)

Tasks == Seq({"trm_backfill", "flex_ytd"}) \ {<<>>}

\* A generator that lies within what was produced lies within what is.
LEMMA SendsGrows ==
  ASSUME NEW s \in Seq(RealEvent), NEW more \in Seq(RealEvent), NEW g \in Generator,
         g.last + Len(g.batch) <= Len(s), \A i \in 1..Len(g.batch) : g.batch[i] = s[g.last + i]
  PROVE  /\ g.last + Len(g.batch) <= Len(s \o more)
         /\ \A i \in 1..Len(g.batch) : g.batch[i] = (s \o more)[g.last + i]
<1>1. g.last \in Nat /\ Len(g.batch) \in Nat /\ Len(s) \in Nat /\ Len(more) \in Nat
  BY DEF Generator
<1>2. \A i \in 1..Len(g.batch) : g.last + i \in 1..Len(s)
  BY <1>1
<1>3. g.last + Len(g.batch) <= Len(s \o more)
  BY <1>1, Grows
<1> QED
  BY <1>2, <1>3, Grows

\* A task emits more.  No browser is done with its job, and no generator has passed the
\* end of what it had produced.
LEMMA EmitSafe ==
  ASSUME IInv, NEW j \in DOMAIN task, NEW more \in Seq(RealEvent), Emit(j, more),
         \A i \in 1..Len(more) : more[i] # DoneEvent,
         DOMAIN task' = DOMAIN task, task' \in [DOMAIN task' -> Tasks],
         UNCHANGED <<now, lastTrigger, stream, view, late>>
  PROVE  IInv'
<1>1. j \in DOMAIN tracker /\ j \in DOMAIN produced /\ ~tracker[j].done
      /\ produced[j] \in Seq(RealEvent) /\ tracker[j] \in Entry
  BY DEF IInv, TrackerInv, Typed
<1>2. /\ tracker' = [tracker EXCEPT ![j].events = @ \o more]
      /\ produced' = [produced EXCEPT ![j] = @ \o more]
  BY <1>1 DEF Emit
<1>3. /\ DOMAIN tracker' = DOMAIN tracker /\ DOMAIN produced' = DOMAIN produced
      /\ \A i \in DOMAIN tracker : tracker'[i].done = tracker[i].done
      /\ \A i \in DOMAIN produced \ {j} : produced'[i] = produced[i]
      /\ produced'[j] = produced[j] \o more
  BY <1>1, <1>2 DEF IInv, Typed, Entry
<1>4. produced'[j] \in Seq(RealEvent) /\ Len(produced'[j]) = Len(produced[j]) + Len(more)
      /\ (\A i \in 1..Len(produced[j]) : produced'[j][i] = produced[j][i])
      /\ \A i \in 1..Len(more) : produced'[j][Len(produced[j]) + i] = more[i]
  BY <1>1, <1>3, Grows
<1>5. Typed'
  <2>1. produced' \in [DOMAIN produced' -> Seq(RealEvent)] /\ DOMAIN produced' \subseteq Jobs
    BY <1>1, <1>2, <1>3, <1>4 DEF IInv, Typed
  <2>2. tracker' \in [DOMAIN tracker' -> Entry]
    <3>1. tracker[j].events \o more \in Seq(RealEvent)
      BY <1>1, Grows DEF Entry
    <3> QED
      BY <1>1, <1>2, <1>3, <3>1 DEF IInv, Typed, Entry
  <2>3. task' \in [DOMAIN task' -> Tasks]
    BY <1>2
  <2> QED
    BY <2>1, <2>2, <2>3 DEF IInv, Typed, Tasks
<1>6. TrackerInv'
  <2>1. \A i \in DOMAIN tracker' : tracker'[i].events = produced'[i]
    BY <1>1, <1>2, <1>3 DEF IInv, TrackerInv, Typed, Entry
  <2>2. \A k \in 1..Len(produced'[j]) : produced'[j][k] # DoneEvent
    <3>1. \A k \in 1..Len(produced[j]) : produced[j][k] # DoneEvent
      BY <1>1 DEF IInv, TrackerInv
    <3> QED
      BY <1>1, <1>3, <3>1, DoneGrows
  <2> QED
    BY <1>1, <1>3, <2>1, <2>2 DEF IInv, TrackerInv
<1>7. StreamInv'
  <2> SUFFICES ASSUME NEW i \in DOMAIN stream
               PROVE  Sends(stream[i], i)'
    BY DEF StreamInv, IInv
  <2>1. Sends(stream[i], i) /\ stream[i] \in Generator /\ i \in DOMAIN produced
    BY DEF IInv, StreamInv, Typed, ViewInv
  <2>2. CASE i # j
    BY <1>3, <2>1, <2>2 DEF Sends
  <2>3. CASE i = j
    <3>1. /\ stream[j].last + Len(stream[j].batch) <= Len(produced'[j])
          /\ \A k \in 1..Len(stream[j].batch) : stream[j].batch[k] = produced'[j][stream[j].last + k]
      <4>1. /\ stream[j].last + Len(stream[j].batch) <= Len(produced[j])
            /\ \A k \in 1..Len(stream[j].batch) : stream[j].batch[k] = produced[j][stream[j].last + k]
        BY <2>1, <2>3 DEF Sends
      <4>2. /\ stream[j].last + Len(stream[j].batch) <= Len(produced[j] \o more)
            /\ \A k \in 1..Len(stream[j].batch) : stream[j].batch[k] = (produced[j] \o more)[stream[j].last + k]
        BY <1>1, <2>1, <2>3, <4>1, SendsGrows
      <4> QED
        BY <1>3, <4>2
    <3>2. ~tracker'[j].done
      BY <1>1, <1>3
    <3> QED
      BY <2>1, <2>3, <3>1, <3>2 DEF Sends
  <2> QED
    BY <2>2, <2>3
<1>8. ViewInv'
  <2>1. view.isDone => view.of # j
    BY DEF IInv, ViewInv, Closed
  <2>2. ASSUME NEW e \in Seq(RealEvent), NEW i \in DOMAIN produced, Starts(e, produced[i])
        PROVE  Starts(e, produced'[i])
    BY <1>1, <1>3, <2>2, StartsGrows
  <2>3. CASE view.isDone
    BY <1>3, <2>1, <2>3 DEF IInv, ViewInv, Closed
  <2>4. CASE ~view.isDone
    BY <1>3, <2>2, <2>4 DEF IInv, ViewInv, Waiting
  <2> QED
    BY <2>3, <2>4
<1> QED
  BY <1>5, <1>6, <1>7, <1>8 DEF IInv

\* The same of what a task emits last, after which it is over.
LEMMA EmitLastSafe ==
  ASSUME IInv, NEW j \in DOMAIN task, NEW more \in Seq(RealEvent), EmitLast(j, more), Ended(more),
         \A i \in 1..Len(more) : more[i] = DoneEvent => i = Len(more),
         UNCHANGED <<now, lastTrigger, stream, view>>
  PROVE  IInv'
<1>1. j \in DOMAIN tracker /\ j \in DOMAIN produced /\ ~tracker[j].done
      /\ produced[j] \in Seq(RealEvent) /\ tracker[j] \in Entry
  BY DEF IInv, TrackerInv, Typed
<1>2. /\ tracker' = [tracker EXCEPT ![j].events = @ \o more, ![j].done = TRUE]
      /\ produced' = [produced EXCEPT ![j] = @ \o more]
      /\ DOMAIN task' = DOMAIN task \ {j} /\ \A i \in DOMAIN task' : task'[i] = task[i]
      /\ task' \in [DOMAIN task' -> Tasks]
      /\ late' = IF Sending(j) THEN late \cup {j} ELSE late
  BY <1>1 DEF EmitLast, Without, IInv, Typed, Tasks
<1>3. /\ DOMAIN tracker' = DOMAIN tracker /\ DOMAIN produced' = DOMAIN produced
      /\ \A i \in DOMAIN tracker \ {j} : tracker'[i] = tracker[i]
      /\ \A i \in DOMAIN produced \ {j} : produced'[i] = produced[i]
      /\ produced'[j] = produced[j] \o more
      /\ tracker'[j] = [events |-> tracker[j].events \o more, done |-> TRUE, created |-> tracker[j].created]
  BY <1>1, <1>2 DEF IInv, Typed, Entry
<1>4. produced'[j] \in Seq(RealEvent) /\ Len(produced'[j]) = Len(produced[j]) + Len(more)
      /\ (\A i \in 1..Len(produced[j]) : produced'[j][i] = produced[j][i])
      /\ \A i \in 1..Len(more) : produced'[j][Len(produced[j]) + i] = more[i]
  BY <1>1, <1>3, Grows
<1>5. Typed'
  <2>1. produced' \in [DOMAIN produced' -> Seq(RealEvent)] /\ DOMAIN produced' \subseteq Jobs
    BY <1>1, <1>2, <1>3, <1>4 DEF IInv, Typed
  <2>2. tracker' \in [DOMAIN tracker' -> Entry]
    <3>1. tracker[j].events \o more \in Seq(RealEvent)
      BY <1>1, Grows DEF Entry
    <3> QED
      BY <1>1, <1>2, <1>3, <3>1 DEF IInv, Typed, Entry
  <2>3. task' \in [DOMAIN task' -> Tasks]
    BY <1>2
  <2> QED
    BY <2>1, <2>2, <2>3 DEF IInv, Typed, Tasks
<1>6. TrackerInv'
  <2>1. \A i \in DOMAIN tracker' : tracker'[i].events = produced'[i]
    <3>1. tracker[j].events = produced[j] /\ tracker'[j].events = tracker[j].events \o more
      BY <1>1, <1>3 DEF IInv, TrackerInv
    <3>2. \A i \in DOMAIN tracker \ {j} : tracker'[i].events = produced'[i]
      BY <1>3 DEF IInv, TrackerInv
    <3> QED
      BY <1>1, <1>3, <3>1, <3>2
  <2>2. \A k \in 1..Len(produced'[j]) : produced'[j][k] = DoneEvent => k = Len(produced'[j])
    <3>1. \A k \in 1..Len(produced[j]) : produced[j][k] # DoneEvent
      BY <1>1 DEF IInv, TrackerInv
    <3> QED
      BY <1>1, <1>3, <1>4, <3>1, DoneGrows
  <2>3. Ended(produced'[j])
    BY <1>1, <1>3, EndedGrows
  <2> QED
    BY <1>1, <1>2, <1>3, <2>1, <2>2, <2>3 DEF IInv, TrackerInv
<1>7. StreamInv'
  <2> SUFFICES ASSUME NEW i \in DOMAIN stream
               PROVE  /\ i = view.job /\ i # NoJob /\ ~view.error
                      /\ Sends(stream[i], i)'
                      /\ ~view.isDone => Len(view.events) = stream[i].last
    BY DEF StreamInv
  <2>1. i = view.job /\ i # NoJob /\ ~view.error /\ Sends(stream[i], i) /\ (~view.isDone => Len(view.events) = stream[i].last)
    BY DEF IInv, StreamInv
  <2>2. CASE i # j
    BY <1>2, <1>3, <2>1, <2>2 DEF Sends, IInv, StreamInv, Typed
  <2>3. CASE i = j
    <3>1. stream[j].pc = "sending" => j \in late'
      BY <1>2, <2>3 DEF Sending
    <3>2. stream[j] \in Generator
      BY <2>3 DEF IInv, Typed
    <3>3. /\ stream[j].last + Len(stream[j].batch) <= Len(produced'[j])
          /\ \A k \in 1..Len(stream[j].batch) : stream[j].batch[k] = produced'[j][stream[j].last + k]
      <4>1. /\ stream[j].last + Len(stream[j].batch) <= Len(produced[j])
            /\ \A k \in 1..Len(stream[j].batch) : stream[j].batch[k] = produced[j][stream[j].last + k]
        BY <2>1, <2>3 DEF Sends
      <4>2. /\ stream[j].last + Len(stream[j].batch) <= Len(produced[j] \o more)
            /\ \A k \in 1..Len(stream[j].batch) : stream[j].batch[k] = (produced[j] \o more)[stream[j].last + k]
        BY <1>1, <3>2, <4>1, SendsGrows
      <4> QED
        BY <1>3, <4>2
    <3> QED
      BY <2>1, <2>3, <3>1, <3>3 DEF Sends
  <2> QED
    BY <2>1, <2>2, <2>3
<1>8. ViewInv'
  <2>1. view.isDone => view.of # j
    BY DEF IInv, ViewInv, Closed
  <2>2. ASSUME NEW e \in Seq(RealEvent), NEW i \in DOMAIN produced, Starts(e, produced[i])
        PROVE  Starts(e, produced'[i])
    BY <1>1, <1>3, <2>2, StartsGrows
  <2>3. CASE view.isDone
    BY <1>2, <1>3, <2>1, <2>3 DEF IInv, ViewInv, Closed
  <2>4. CASE ~view.isDone
    BY <1>3, <2>2, <2>4 DEF IInv, ViewInv, Waiting
  <2> QED
    BY <2>3, <2>4
<1> QED
  BY <1>5, <1>6, <1>7, <1>8 DEF IInv

\* The steps of a task.
LEMMA WorkSafe ==
  ASSUME IInv, NEW j \in Jobs, Work(j)
  PROVE  IInv'
<1>1. j \in DOMAIN task
  BY DEF Work, Begin, EndStep, FailStep
<1>2. task[j] \in Seq({"trm_backfill", "flex_ytd"}) /\ task[j] # <<>>
  BY <1>1 DEF IInv, Typed
<1>3. Head(task[j]) \in {"trm_backfill", "flex_ytd"} /\ Tail(task[j]) \in Seq({"trm_backfill", "flex_ytd"})
  BY <1>2
<1>4. CASE Begin(j)
  <2> DEFINE more == <<Event(Head(task[j]), "running")>>
  <2>1. more \in Seq(RealEvent) /\ \A i \in 1..Len(more) : more[i] # DoneEvent
    BY <1>3, Events
  <2>2. Emit(j, more) /\ UNCHANGED <<now, lastTrigger, task, stream, view, late>>
    BY <1>4 DEF Begin
  <2>3. task' \in [DOMAIN task' -> Tasks]
    BY <2>2 DEF IInv, Typed, Tasks
  <2> QED
    BY <1>1, <2>1, <2>2, <2>3, EmitSafe
<1>5. CASE EndStep(j)
  <2>1. PICK status \in {"ok", "partial"} :
          LET ended == Event(Head(task[j]), status)
              rest == Tail(task[j])
          IN  IF rest = <<>>
              THEN EmitLast(j, <<ended, DoneEvent>>)
              ELSE /\ Emit(j, <<ended, Event(Head(rest), "running")>>)
                   /\ task' = [task EXCEPT ![j] = rest]
                   /\ UNCHANGED late
    BY <1>5 DEF EndStep
  <2>2. UNCHANGED <<now, lastTrigger, stream, view>>
    BY <1>5 DEF EndStep
  <2> DEFINE ended == Event(Head(task[j]), status)
             rest == Tail(task[j])
  <2>3. ended \in RealEvent /\ ended # DoneEvent
    BY <1>3, Events
  <2>4. CASE rest = <<>>
    <3> DEFINE more == <<ended, DoneEvent>>
    <3>1. more \in Seq(RealEvent) /\ Len(more) = 2 /\ more[1] = ended /\ more[2] = DoneEvent
      BY <2>3, Events
    <3>2. Ended(more)
      BY <3>1 DEF Ended
    <3>3. EmitLast(j, more)
      BY <2>1, <2>4
    <3> HIDE DEF more
    <3>4. \A i \in 1..Len(more) : more[i] = DoneEvent => i = Len(more)
      BY <2>3, <3>1
    <3> QED
      BY <1>1, <2>2, <3>1, <3>2, <3>3, <3>4, EmitLastSafe
  <2>5. CASE rest # <<>>
    <3> DEFINE more == <<ended, Event(Head(rest), "running")>>
    <3>1. Head(rest) \in {"trm_backfill", "flex_ytd"}
      BY <1>3, <2>5
    <3>2. Event(Head(rest), "running") \in RealEvent /\ Event(Head(rest), "running") # DoneEvent
      BY <3>1, Events
    <3>3. Emit(j, more) /\ task' = [task EXCEPT ![j] = rest] /\ UNCHANGED late
      BY <2>1, <2>5
    <3>5. more \in Seq(RealEvent) /\ \A i \in 1..Len(more) : more[i] # DoneEvent
      BY <2>3, <3>2, Pair
    <3> HIDE DEF more
    <3>4. DOMAIN task' = DOMAIN task /\ task' \in [DOMAIN task' -> Tasks]
      BY <1>1, <1>3, <2>5, <3>3 DEF IInv, Typed, Tasks
    <3> QED
      BY <1>1, <2>2, <3>3, <3>4, <3>5, EmitSafe
  <2> QED
    BY <2>4, <2>5
<1>6. CASE FailStep(j)
  <2> DEFINE more == <<Event(Head(task[j]), "failed")>>
  <2>1. more \in Seq(RealEvent) /\ Len(more) = 1 /\ more[1] = Event(Head(task[j]), "failed")
        /\ more[1] # DoneEvent
    BY <1>3, Events
  <2>2. EmitLast(j, more) /\ UNCHANGED <<now, lastTrigger, stream, view>>
    BY <1>6 DEF FailStep
  <2>3. Ended(more)
    BY <2>1 DEF Ended, Event
  <2> HIDE DEF more
  <2> QED
    BY <1>1, <2>1, <2>2, <2>3, EmitLastSafe
<1> QED
  BY <1>4, <1>5, <1>6 DEF Work

-----------------------------------------------------------------------------
(* The generator *)

\* The end of a round, after a generator with nothing left to send.
LEMMA EndRoundSafe ==
  ASSUME IInv, NEW j \in DOMAIN stream, NEW lastSent, EndRound(j, lastSent),
         stream[j].batch = <<>>,
         (j \in DOMAIN tracker /\ tracker[j].done /\ j \notin late) => stream[j].last = Len(produced[j]),
         UNCHANGED <<now, lastTrigger, tracker, task, produced, late>>
  PROVE  IInv'
<1>1. /\ j = view.job /\ j = view.of /\ j # NoJob /\ j \in DOMAIN produced /\ view \in View
      /\ produced[j] \in Seq(RealEvent) /\ stream[j] \in Generator
      /\ ~view.isDone => Len(view.events) = stream[j].last
  BY DEF IInv, StreamInv, ViewInv, Typed
<1>2. TrackerInv'
  BY DEF IInv, TrackerInv
<1>3. ASSUME ~(j \in DOMAIN tracker /\ tracker[j].done)
      PROVE  Typed' /\ StreamInv' /\ ViewInv'
  <2>1. stream' = [stream EXCEPT ![j].pc = "sleeping"] /\ view' = view
    BY <1>3 DEF EndRound
  <2>2. stream'[j] = [stream[j] EXCEPT !.pc = "sleeping"] /\ DOMAIN stream' = DOMAIN stream
        /\ (\A i \in DOMAIN stream \ {j} : stream'[i] = stream[i])
        /\ stream'[j] \in Generator /\ stream'[j].pc = "sleeping"
        /\ stream'[j].batch = stream[j].batch /\ stream'[j].last = stream[j].last
    BY <1>1, <2>1 DEF Generator, IInv, Typed
  <2>3. Typed'
    BY <2>1, <2>2 DEF IInv, Typed
  <2>4. StreamInv'
    BY <2>1, <2>2 DEF IInv, StreamInv, Sends
  <2>5. ViewInv'
    BY <2>1 DEF IInv, ViewInv, Waiting, Closed
  <2> QED
    BY <2>3, <2>4, <2>5
<1>4. ASSUME j \in DOMAIN tracker, tracker[j].done
      PROVE  Typed' /\ StreamInv' /\ ViewInv'
  <2>1. stream' = Without(stream, j)
    BY <1>4 DEF EndRound
  <2>2. DOMAIN stream' = {}
    BY <2>1, <1>1 DEF Without, IInv, StreamInv
  <2>3. StreamInv' /\ stream' \in [DOMAIN stream' -> Generator]
    BY <2>2, <2>1 DEF StreamInv, Without
  <2>4. CASE view' = view
    BY <2>3, <2>4 DEF IInv, Typed, ViewInv, Waiting, Closed
  <2>5. CASE view' # view
    <3>1. /\ ~view.isDone
          /\ view' = [view EXCEPT !.events = Append(@, Synthetic), !.isDone = TRUE]
      BY <1>4, <2>5 DEF EndRound, Deliver
    <3>2. /\ view' \in View /\ view'.of = j /\ view'.job = j /\ view'.pressed = view.pressed
          /\ view'.events = Append(view.events, Synthetic) /\ view'.isDone
      <4>1. Append(view.events, Synthetic) \in Seq(AnEvent)
        BY <1>1, Events DEF View
      <4> QED
        BY <1>1, <3>1, <4>1 DEF View
    <3>3. /\ view.events \in Seq(RealEvent) /\ Starts(view.events, produced[j])
          /\ \A i \in 1..Len(view.events) : view.events[i] # DoneEvent
      BY <1>1, <3>1 DEF IInv, ViewInv, Waiting
    <3>4. j \notin late => \E i \in 1..Len(view.events) : view.events[i].status = "failed"
      <4> SUFFICES ASSUME j \notin late
                   PROVE  \E i \in 1..Len(view.events) : view.events[i].status = "failed"
        OBVIOUS
      <4>1. Len(view.events) = Len(produced[j]) /\ Ended(produced[j])
        BY <1>1, <1>4, <3>1 DEF IInv, TrackerInv
      <4>2. Len(produced[j]) \in 1..Len(produced[j])
        BY <1>1, <4>1 DEF Ended
      <4>3. view.events[Len(produced[j])] = produced[j][Len(produced[j])]
        BY <3>3, <4>1, <4>2 DEF Starts
      <4> QED
        BY <3>3, <4>1, <4>2, <4>3 DEF Ended
    <3>5. j \notin DOMAIN task
      BY <1>4 DEF IInv, TrackerInv
    <3>6. Closed(view)'
      BY <1>1, <3>2, <3>3, <3>4, <3>5 DEF Closed
    <3>7. ViewInv'
      BY <1>1, <3>2, <3>6 DEF IInv, ViewInv
    <3> QED
      BY <2>3, <3>2, <3>7 DEF IInv, Typed
  <2> QED
    BY <2>4, <2>5, <2>3
<1> QED
  BY <1>2, <1>3, <1>4 DEF IInv

LEMMA PollSafe ==
  ASSUME IInv, NEW j \in Jobs, Poll(j)
  PROVE  IInv'
<1> DEFINE batch == EventsSince(j, stream[j].last)
<1>1. /\ j \in DOMAIN stream /\ stream[j].pc = "sleeping" /\ stream[j] \in Generator
      /\ stream[j].batch = <<>> /\ j = view.job /\ j \in DOMAIN produced
      /\ produced[j] \in Seq(RealEvent) /\ stream[j].last <= Len(produced[j])
  <2>1. j \in DOMAIN stream /\ stream[j].pc = "sleeping"
    BY DEF Poll
  <2>2. stream[j] \in Generator /\ j = view.job /\ j \in DOMAIN produced /\ Sends(stream[j], j)
        /\ produced[j] \in Seq(RealEvent)
    BY <2>1 DEF IInv, StreamInv, ViewInv, Typed
  <2>3. stream[j].batch = <<>> /\ stream[j].last + Len(<<>>) <= Len(produced[j])
    BY <2>1, <2>2 DEF Sends
  <2> QED
    BY <2>1, <2>2, <2>3 DEF Generator
<1>2. stream[j].last \in Nat /\ Len(produced[j]) \in Nat /\ stream[j].last \in 0..Len(produced[j])
  BY <1>1 DEF Generator
<1>3. j \in DOMAIN tracker => tracker[j].events = produced[j]
  BY DEF IInv, TrackerInv
<1>4. UNCHANGED <<now, lastTrigger, tracker, task, produced, late>>
  BY DEF Poll
<1>5. CASE batch = <<>>
  <2>1. EndRound(j, Synthetic)
    BY <1>5 DEF Poll
  <2>2. j \in DOMAIN tracker => stream[j].last = Len(produced[j])
    <3> SUFFICES ASSUME j \in DOMAIN tracker
                 PROVE  stream[j].last = Len(produced[j])
      OBVIOUS
    <3>1. SubSeq(produced[j], stream[j].last + 1, Len(produced[j])) = <<>>
      BY <1>3, <1>5 DEF EventsSince
    <3>2. stream[j].last + Len(<<>>) = Len(produced[j])
      BY <1>1, <1>2, <3>1, Rest
    <3> QED
      BY <1>2, <3>2
  <2> QED
    BY <1>1, <1>4, <2>1, <2>2, EndRoundSafe
<1>6. CASE batch # <<>>
  <2>1. j \in DOMAIN tracker /\ batch = SubSeq(produced[j], stream[j].last + 1, Len(produced[j]))
    BY <1>3, <1>6 DEF EventsSince
  <2>2. stream' = [stream EXCEPT ![j].pc = "sending", ![j].batch = batch] /\ view' = view
    BY <1>6 DEF Poll
  <2>3. /\ batch \in Seq(RealEvent) /\ stream[j].last + Len(batch) = Len(produced[j])
        /\ \A i \in 1..Len(batch) : batch[i] = produced[j][stream[j].last + i]
    <3> DEFINE rest == SubSeq(produced[j], stream[j].last + 1, Len(produced[j]))
    <3>1. /\ rest \in Seq(RealEvent) /\ stream[j].last + Len(rest) = Len(produced[j])
          /\ \A i \in 1..Len(rest) : rest[i] = produced[j][stream[j].last + i]
      BY <1>1, <1>2, Rest
    <3> QED
      BY <2>1, <3>1
  <2> HIDE DEF batch
  <2>4. /\ stream'[j] = [stream[j] EXCEPT !.pc = "sending", !.batch = batch]
        /\ DOMAIN stream' = DOMAIN stream /\ \A i \in DOMAIN stream \ {j} : stream'[i] = stream[i]
    BY <1>1, <2>2 DEF IInv, Typed, Generator
  <2>5. /\ stream'[j] \in Generator /\ stream'[j].pc = "sending" /\ stream'[j].batch = batch
        /\ stream'[j].last = stream[j].last
    BY <1>1, <2>3, <2>4 DEF Generator
  <2>6. Typed'
    BY <1>4, <2>2, <2>4, <2>5 DEF IInv, Typed
  <2>7. TrackerInv' /\ ViewInv'
    BY <1>4, <2>2 DEF IInv, TrackerInv, ViewInv, Waiting, Closed
  <2>8. StreamInv'
    <3> SUFFICES ASSUME NEW i \in DOMAIN stream
                 PROVE  /\ i = view.job /\ i # NoJob /\ ~view.error
                        /\ Sends(stream[i], i)'
                        /\ ~view.isDone => Len(view.events) = stream'[i].last
      BY <2>2, <2>4 DEF StreamInv
    <3>1. ~view.isDone => Len(view.events) = stream[j].last
      BY <1>1 DEF IInv, StreamInv
    <3>2. i = j /\ i = view.job /\ i # NoJob /\ ~view.error
      BY <1>1 DEF IInv, StreamInv
    <3>3. Sends(stream[i], i)'
      <4>1. /\ stream'[j].last + Len(stream'[j].batch) = Len(produced[j]) /\ stream'[j].pc # "sleeping"
            /\ \A k \in 1..Len(stream'[j].batch) : stream'[j].batch[k] = produced[j][stream'[j].last + k]
        BY <2>3, <2>5
      <4> QED
        BY <1>2, <1>4, <3>2, <4>1 DEF Sends
    <3> QED
      BY <2>5, <3>1, <3>2, <3>3
  <2> QED
    BY <2>6, <2>7, <2>8 DEF IInv
<1> QED
  BY <1>5, <1>6

LEMMA EndBatchSafe ==
  ASSUME IInv, NEW j \in Jobs, EndBatch(j)
  PROVE  IInv'
<1>1. j \in DOMAIN stream /\ stream[j].pc = "sending" /\ stream[j].batch = <<>>
  BY DEF EndBatch, Sending
<1>2. (j \in DOMAIN tracker /\ tracker[j].done /\ j \notin late) => stream[j].last = Len(produced[j])
  <2>1. Sends(stream[j], j) /\ stream[j] \in Generator
    BY <1>1 DEF IInv, StreamInv, Typed
  <2> QED
    BY <1>1, <2>1 DEF Sends, Generator
<1> QED
  BY <1>1, <1>2, EndRoundSafe DEF EndBatch

LEMMA Shift ==
  ASSUME NEW a \in Nat, NEW b \in Nat \ {0}, NEW c \in Nat, c = b - 1
  PROVE  a + 1 + c = a + b /\ \A i \in 1..c : i + 1 \in 1..b /\ a + (i + 1) = a + 1 + i
OBVIOUS

\* The browser gets the event that comes next in what was produced.
LEMMA SendSafe ==
  ASSUME IInv, NEW j \in Jobs, Send(j)
  PROVE  IInv'
<1> DEFINE g == stream[j]
           event == Head(g.batch)
<1>1. /\ j \in DOMAIN stream /\ g.pc = "sending" /\ g.batch # <<>> /\ g \in Generator
      /\ j = view.job /\ j = view.of /\ j # NoJob /\ j \in DOMAIN produced /\ view \in View
      /\ produced[j] \in Seq(RealEvent) /\ Sends(g, j)
      /\ ~view.isDone => Len(view.events) = g.last
  BY DEF Send, Sending, IInv, StreamInv, ViewInv, Typed
<1>2. /\ g.last \in Nat /\ Len(g.batch) \in Nat \ {0} /\ Len(produced[j]) \in Nat
      /\ event = g.batch[1] /\ event \in RealEvent
  BY <1>1 DEF Generator
<1> DEFINE rest == Tail(g.batch)
<1>r. /\ rest \in Seq(RealEvent) /\ Len(rest) = Len(g.batch) - 1
       /\ \A i \in 1..Len(rest) : rest[i] = g.batch[i + 1]
  BY <1>1 DEF Generator
<1>3. event = produced[j][g.last + 1] /\ g.last + 1 <= Len(produced[j])
  BY <1>1, <1>2 DEF Sends
<1>4. /\ Deliver(j, event)
      /\ stream' = [stream EXCEPT ![j].batch = Tail(@), ![j].last = @ + 1, ![j].tail = event]
      /\ UNCHANGED <<now, lastTrigger, tracker, task, produced, late>>
  BY DEF Send
<1> HIDE DEF event, rest
<1>5. /\ DOMAIN stream' = DOMAIN stream /\ \A i \in DOMAIN stream \ {j} : stream'[i] = stream[i]
      /\ stream'[j] = [pc |-> g.pc, last |-> g.last + 1, batch |-> rest, tail |-> event]
  BY <1>1, <1>4 DEF IInv, Typed, Generator, rest
<1>6. stream'[j] \in Generator
  BY <1>1, <1>2, <1>r, <1>5, Events DEF Generator
<1>7. Sends(stream[j], j)'
  <2>1. (j \in DOMAIN tracker /\ j \notin late /\ tracker[j].done) => g.last + Len(g.batch) = Len(produced[j])
    BY <1>1 DEF Sends
  <2>2. /\ g.last + 1 + Len(rest) = g.last + Len(g.batch)
        /\ \A i \in 1..Len(rest) : i + 1 \in 1..Len(g.batch) /\ g.last + (i + 1) = g.last + 1 + i
    <3>1. g.last \in Nat
      BY <1>2
    <3>2. Len(g.batch) \in Nat \ {0}
      BY <1>2
    <3>3. Len(rest) \in Nat /\ Len(rest) = Len(g.batch) - 1
      BY <1>r
    <3>4. g.last + 1 + Len(rest) = g.last + Len(g.batch)
      BY ONLY <3>1, <3>2, <3>3, Shift
    <3>5. \A i \in 1..Len(rest) : i + 1 \in 1..Len(g.batch) /\ g.last + (i + 1) = g.last + 1 + i
      BY ONLY <3>1, <3>2, <3>3, Shift
    <3> QED
      BY <3>4, <3>5
  <2>3. g.last + Len(g.batch) <= Len(produced[j])
    BY <1>1 DEF Sends
  <2>4. \A i \in 1..Len(rest) : rest[i] = produced[j][g.last + 1 + i]
    <3> SUFFICES ASSUME NEW i \in 1..Len(rest)
                 PROVE  rest[i] = produced[j][g.last + 1 + i]
      OBVIOUS
    <3>1. i + 1 \in 1..Len(g.batch) /\ g.last + (i + 1) = g.last + 1 + i
      BY <2>2
    <3> QED
      BY <1>1, <1>r, <3>1 DEF Sends
  <2>5. /\ stream'[j].pc = "sending" /\ stream'[j].last = g.last + 1 /\ stream'[j].batch = rest
    BY <1>1, <1>5
  <2> QED
    BY <1>4, <2>1, <2>2, <2>3, <2>4, <2>5 DEF Sends
<1>8. TrackerInv'
  BY <1>4 DEF IInv, TrackerInv
<1>9. /\ view' \in View /\ view'.job = view.job /\ view'.of = view.of /\ view'.pressed = view.pressed
      /\ view'.error = view.error
      /\ ~view'.isDone => Len(view'.events) = g.last + 1
      /\ IF view'.isDone THEN Closed(view)' ELSE Waiting(view)'
  <2>1. CASE view.isDone
    <3>1. view' = view
      BY <2>1, <1>4 DEF Deliver
    <3> QED
      BY <1>1, <1>4, <2>1, <3>1 DEF IInv, ViewInv, Closed
  <2>2. CASE ~view.isDone
    <3>1. /\ ~view.isDone /\ Len(view.events) = g.last
          /\ view' = [view EXCEPT !.events = Append(@, event), !.isDone = event \in {DoneEvent, Synthetic}]
      <4>1. ~view.error
        BY <1>1 DEF IInv, StreamInv
      <4> QED
        BY <1>1, <1>4, <2>2, <4>1 DEF Deliver
    <3>2. Append(view.events, event) \in Seq(AnEvent)
      BY <1>1, <1>2, Events DEF View
    <3>3. /\ view' \in View /\ view'.job = view.job /\ view'.of = view.of /\ view'.pressed = view.pressed
          /\ view'.error = view.error
          /\ view'.events = Append(view.events, event) /\ view'.isDone = (event \in {DoneEvent, Synthetic})
      <4>1. (event \in {DoneEvent, Synthetic}) \in BOOLEAN
        OBVIOUS
      <4> QED
        BY <1>1, <3>1, <3>2, <4>1 DEF View
    <3>4. /\ view.events \in Seq(RealEvent) /\ Starts(view.events, produced[j])
          /\ \A i \in 1..Len(view.events) : view.events[i] # DoneEvent
      BY <1>1, <3>1 DEF IInv, ViewInv, Waiting
    <3>5. /\ view'.events \in Seq(RealEvent) /\ Len(view'.events) = g.last + 1
          /\ view'.events[g.last + 1] = event
          /\ \A i \in 1..(g.last) : view'.events[i] = view.events[i]
      BY <1>2, <3>1, <3>3, <3>4
    <3>6. \A i \in 1..(g.last + 1) : view'.events[i] = produced[j][i]
      BY <1>2, <1>3, <3>1, <3>4, <3>5 DEF Starts
    <3>7. CASE event = DoneEvent
      <4>1. g.last + 1 = Len(produced[j]) /\ j \notin DOMAIN task
        <5>1. g.last + 1 \in 1..Len(produced[j])
          BY <1>2, <1>3
        <5> QED
          BY <1>1, <1>3, <3>7, <5>1 DEF IInv, TrackerInv
      <4>2. view'.events = produced[j]
        BY <1>1, <3>5, <3>6, <4>1, SeqEqual
      <4>3. view'.events # <<>> /\ view'.events[Len(view'.events)] = DoneEvent
        BY <1>2, <3>5, <3>7
      <4> QED
        BY <1>1, <1>4, <3>3, <3>7, <4>1, <4>2, <4>3 DEF Closed
    <3>8. CASE event # DoneEvent
      <4>1. ~view'.isDone
        BY <1>2, <3>3, <3>8, Events
      <4>2. Starts(view'.events, produced[j])
        BY <1>2, <1>3, <3>5, <3>6 DEF Starts
      <4>3. \A i \in 1..Len(view'.events) : view'.events[i] # DoneEvent
        BY <1>2, <3>1, <3>4, <3>5, <3>8
      <4> QED
        BY <1>1, <1>4, <3>3, <3>5, <4>1, <4>2, <4>3 DEF Waiting
    <3> QED
      BY <3>7, <3>8
  <2> QED
    BY <2>1, <2>2
<1>10. StreamInv'
  <2>1. \A i \in DOMAIN stream : i = j
    BY <1>1 DEF IInv, StreamInv
  <2> QED
    <3>1. j = view'.job /\ j # NoJob /\ ~view'.error
      BY <1>1, <1>9 DEF IInv, StreamInv
    <3>2. ~view'.isDone => Len(view'.events) = stream'[j].last
      BY <1>5, <1>9
    <3> QED
      BY <1>5, <1>7, <2>1, <3>1, <3>2 DEF StreamInv
<1>11. ViewInv'
  BY <1>1, <1>4, <1>9 DEF IInv, ViewInv
<1>12. Typed'
  BY <1>1, <1>4, <1>5, <1>6, <1>9 DEF IInv, Typed
<1> QED
  BY <1>8, <1>10, <1>11, <1>12 DEF IInv

-----------------------------------------------------------------------------
(* The browser and the rest of the process *)

\* Without the generator of the job that is shown there is none.
LEMMA NoneLeft ==
  ASSUME IInv
  PROVE  Without(stream, view.job) = <<>> /\ DOMAIN Without(stream, view.job) = {}
<1>1. DOMAIN Without(stream, view.job) = {}
  BY DEF Without, IInv, StreamInv
<1>2. DOMAIN <<>> = {} /\ <<>> = [i \in {} |-> stream[i]]
  OBVIOUS
<1> QED
  BY <1>1, <1>2 DEF Without, IInv, StreamInv

LEMMA PressSafe ==
  ASSUME IInv, Press
  PROVE  IInv'
<1>1. DOMAIN stream' = {} /\ stream' = <<>>
  BY NoneLeft DEF Press
<1>2. /\ view' \in View /\ view'.job = NoJob /\ view'.of = view.of /\ view'.events = view.events
      /\ view'.isDone = view.isDone /\ view'.error = view.error
  BY DEF Press, IInv, Typed, View
<1>3. UNCHANGED <<now, lastTrigger, tracker, task, produced, late>>
  BY DEF Press
<1>4. Typed'
  BY <1>1, <1>2, <1>3 DEF IInv, Typed
<1>5. ViewInv'
  BY <1>2, <1>3 DEF IInv, ViewInv, Waiting, Closed
<1> QED
  BY <1>1, <1>3, <1>4, <1>5 DEF IInv, TrackerInv, StreamInv

LEMMA ThrottleSafe ==
  ASSUME IInv, Throttle
  PROVE  IInv'
<1>1. /\ view' \in View /\ view'.job = view.job /\ view'.of = view.of /\ view'.events = view.events
      /\ view'.isDone = view.isDone /\ view'.error = view.error /\ ~view'.pressed
  BY DEF Throttle, IInv, Typed, View
<1>2. UNCHANGED <<now, lastTrigger, tracker, task, produced, stream, late>>
  BY DEF Throttle
<1>3. Typed' /\ TrackerInv'
  BY <1>1, <1>2 DEF IInv, Typed, TrackerInv
<1>4. StreamInv'
  BY <1>1, <1>2 DEF IInv, StreamInv, Sends
<1>5. ViewInv'
  BY <1>1, <1>2 DEF IInv, ViewInv, Waiting, Closed
<1> QED
  BY <1>3, <1>4, <1>5 DEF IInv

\* A new job has produced nothing, and nobody has seen any of it.
LEMMA AcceptSafe ==
  ASSUME IInv, NEW kind \in Kinds, Accept(kind)
  PROVE  IInv'
<1>1. PICK j \in Jobs :
        /\ j \notin DOMAIN produced
        /\ lastTrigger' = now
        /\ tracker' = With(tracker, j, [events |-> <<>>, done |-> FALSE, created |-> now])
        /\ task' = With(task, j, Plan(kind))
        /\ produced' = With(produced, j, <<>>)
        /\ \/ view' = [NoView EXCEPT !.job = j, !.of = j]
           \/ view' = [view EXCEPT !.pressed = FALSE]
  BY DEF Accept
<1>2. view.pressed /\ view.job = NoJob /\ DOMAIN stream = {} /\ UNCHANGED <<now, stream, late>>
  BY DEF Accept, IInv, ViewInv, StreamInv
<1>3. j \notin DOMAIN tracker /\ j \notin DOMAIN task /\ j # view.of /\ j # NoJob /\ j \in Nat
  BY <1>1, <1>2 DEF IInv, TrackerInv, ViewInv, Jobs, NoJob
<1>4. /\ DOMAIN tracker' = DOMAIN tracker \cup {j} /\ \A i \in DOMAIN tracker : tracker'[i] = tracker[i]
      /\ tracker'[j] = [events |-> <<>>, done |-> FALSE, created |-> now]
  BY <1>1, <1>3 DEF With
<1>5. /\ DOMAIN produced' = DOMAIN produced \cup {j} /\ \A i \in DOMAIN produced : produced'[i] = produced[i]
      /\ produced'[j] = <<>>
  BY <1>1, <1>3 DEF With
<1>6. /\ DOMAIN task' = DOMAIN task \cup {j} /\ \A i \in DOMAIN task : task'[i] = task[i]
      /\ task'[j] \in Tasks
  <2>1. Plan(kind) \in Tasks
    BY StreamAssumption DEF Plan, Tasks
  <2> QED
    BY <1>1, <1>3, <2>1 DEF With
<1>7. /\ view' \in View /\ view'.job \in {NoJob, view'.of}
      /\ ~view'.pressed /\ DOMAIN stream' = {}
      /\ \/ view'.of = j /\ view'.events = <<>> /\ ~view'.isDone
         \/ view'.of = view.of /\ view'.events = view.events /\ view'.isDone = view.isDone
  <2>1. CASE view' = [NoView EXCEPT !.job = j, !.of = j]
    <3>1. <<>> \in Seq(AnEvent)
      OBVIOUS
    <3>2. view' = [job |-> j, of |-> j, events |-> <<>>, isDone |-> FALSE, error |-> FALSE, pressed |-> FALSE]
      BY <2>1 DEF NoView
    <3> QED
      BY <1>1, <1>2, <3>1, <3>2 DEF View
  <2>2. CASE view' = [view EXCEPT !.pressed = FALSE]
    BY <1>2, <2>2 DEF IInv, Typed, ViewInv, View
  <2> QED
    BY <1>1, <2>1, <2>2
<1>8. Typed'
  <2>1. tracker' \in [DOMAIN tracker' -> Entry]
    <3>1. tracker'[j] \in Entry
      BY <1>4 DEF Entry, IInv, Typed
    <3>2. tracker' = [i \in DOMAIN tracker' |-> tracker'[i]]
      BY <1>1 DEF With
    <3> QED
      BY <1>4, <3>1, <3>2 DEF IInv, Typed
  <2>2. produced' \in [DOMAIN produced' -> Seq(RealEvent)] /\ DOMAIN produced' \subseteq Jobs
    <3>1. produced' = [i \in DOMAIN produced' |-> produced'[i]]
      BY <1>1 DEF With
    <3>2. <<>> \in Seq(RealEvent)
      OBVIOUS
    <3>3. \A i \in DOMAIN produced' : produced'[i] \in Seq(RealEvent)
      BY <1>5, <3>2 DEF IInv, Typed
    <3>4. DOMAIN produced' \subseteq Jobs
      BY <1>5 DEF IInv, Typed
    <3> QED
      BY <3>1, <3>3, <3>4
  <2>3. task' \in [DOMAIN task' -> Tasks]
    <3>1. task' = [i \in DOMAIN task' |-> task'[i]]
      BY <1>1 DEF With
    <3> QED
      BY <1>6, <3>1 DEF IInv, Typed, Tasks
  <2>4. stream' \in [DOMAIN stream' -> Generator]
    BY <1>2 DEF IInv, Typed
  <2>5. now' \in 1..MaxTime /\ lastTrigger' \in 0..now'
    BY <1>1, <1>2, StreamAssumption DEF IInv, Typed
  <2> QED
    BY <1>7, <2>1, <2>2, <2>3, <2>4, <2>5 DEF Typed, Tasks
<1>9. TrackerInv'
  <2>1. Len(<<>>) = 0
    OBVIOUS
  <2>2. \A i \in DOMAIN tracker' : tracker'[i].events = produced'[i]
    BY <1>3, <1>4, <1>5 DEF IInv, TrackerInv
  <2>3. \A i \in DOMAIN tracker' : tracker'[i].done => i \notin DOMAIN task' /\ Ended(produced'[i])
    BY <1>3, <1>4, <1>5, <1>6 DEF IInv, TrackerInv
  <2>4. \A i \in DOMAIN produced' : \A k \in 1..Len(produced'[i]) :
          produced'[i][k] = DoneEvent => k = Len(produced'[i]) /\ i \notin DOMAIN task'
    BY <1>1, <1>3, <1>5, <1>6, <2>1 DEF IInv, TrackerInv
  <2> QED
    BY <1>4, <1>5, <1>6, <2>2, <2>3, <2>4 DEF IInv, TrackerInv
<1>10. StreamInv'
  BY <1>7 DEF StreamInv
<1>11. ViewInv'
  <2>1. CASE view'.of = j /\ view'.events = <<>> /\ ~view'.isDone
    <3>1. Waiting(view)'
      BY <1>5, <2>1 DEF Waiting, Starts
    <3> QED
      BY <1>5, <1>7, <2>1, <3>1 DEF ViewInv
  <2>2. CASE view'.of = view.of /\ view'.events = view.events /\ view'.isDone = view.isDone
    <3>1. view.of # NoJob => view.of \in DOMAIN produced
      BY DEF IInv, ViewInv
    <3>2. IF view'.isDone THEN Closed(view)' ELSE Waiting(view)'
      <4>1. CASE view.isDone
        BY <1>2, <1>3, <1>5, <1>6, <2>2, <3>1, <4>1 DEF IInv, ViewInv, Closed
      <4>2. CASE ~view.isDone
        BY <1>5, <2>2, <3>1, <4>2 DEF IInv, ViewInv, Waiting
      <4> QED
        BY <2>2, <4>1, <4>2
    <3> QED
      BY <1>5, <1>7, <2>2, <3>1, <3>2 DEF ViewInv
  <2> QED
    BY <1>7, <2>1, <2>2
<1> QED
  BY <1>8, <1>9, <1>10, <1>11 DEF IInv

\* A generator starts where the browser is, at no event.
LEMMA ConnectSafe ==
  ASSUME IInv, Connect
  PROVE  IInv'
<1> DEFINE j == view.job
           g == [pc |-> "sleeping", last |-> 0, batch |-> <<>>, tail |-> Synthetic]
<1>1. /\ j # NoJob /\ ~view.isDone /\ ~view.error /\ j \notin DOMAIN stream /\ view.events = <<>>
      /\ UNCHANGED <<now, lastTrigger, tracker, task, produced, late>>
  BY DEF Connect
<1>2. j = view.of /\ j \in DOMAIN produced /\ produced[j] \in Seq(RealEvent) /\ DOMAIN stream = {}
  BY <1>1 DEF IInv, Typed, ViewInv, StreamInv
<1>3. TrackerInv'
  BY <1>1 DEF IInv, TrackerInv
<1>4. CASE j \in DOMAIN tracker
  <2>1. stream' = With(stream, j, g) /\ view' = view
    BY <1>4 DEF Connect
  <2>2. DOMAIN stream' = {j} /\ stream'[j] = g
    BY <1>2, <2>1 DEF With
  <2>3. g \in Generator
    BY Events DEF Generator
  <2>4. stream' \in [DOMAIN stream' -> Generator]
    BY <2>1, <2>2, <2>3 DEF With
  <2>5. /\ g.last = 0 /\ g.batch = <<>> /\ Len(<<>>) = 0 /\ g.pc = "sleeping" /\ Len(produced[j]) \in Nat
    BY <1>2
  <2>6. Sends(g, j)'
    BY <1>1, <2>5 DEF Sends
  <2>7. StreamInv'
    BY <1>1, <2>1, <2>2, <2>5, <2>6 DEF StreamInv
  <2>8. Typed' /\ ViewInv'
    BY <1>1, <2>1, <2>4 DEF IInv, Typed, ViewInv, Waiting, Closed
  <2> QED
    BY <1>3, <2>7, <2>8 DEF IInv
<1>5. CASE j \notin DOMAIN tracker
  <2>1. view' = [view EXCEPT !.error = TRUE] /\ stream' = stream
    BY <1>5 DEF Connect
  <2>2. /\ view' \in View /\ view'.job = view.job /\ view'.of = view.of /\ view'.events = view.events
        /\ view'.isDone = view.isDone /\ view'.pressed = view.pressed
    BY <2>1 DEF IInv, Typed, View
  <2>3. Typed'
    BY <1>1, <2>1, <2>2 DEF IInv, Typed
  <2>4. StreamInv'
    BY <1>2, <2>1 DEF StreamInv
  <2>5. ViewInv'
    BY <1>1, <2>2 DEF IInv, ViewInv, Waiting, Closed
  <2> QED
    BY <1>3, <2>3, <2>4, <2>5 DEF IInv
<1> QED
  BY <1>4, <1>5

LEMMA DisconnectSafe ==
  ASSUME IInv, Disconnect
  PROVE  IInv'
<1>1. DOMAIN stream' = {} /\ stream' = <<>>
  BY NoneLeft DEF Disconnect
<1>2. /\ view' \in View /\ view'.job = view.job /\ view'.of = view.of /\ view'.events = view.events
      /\ view'.isDone = view.isDone /\ view'.pressed = view.pressed
  BY DEF Disconnect, IInv, Typed, View
<1>3. UNCHANGED <<now, lastTrigger, tracker, task, produced, late>>
  BY DEF Disconnect
<1>4. Typed'
  BY <1>1, <1>2, <1>3 DEF IInv, Typed
<1>5. ViewInv'
  BY <1>2, <1>3 DEF IInv, ViewInv, Waiting, Closed
<1> QED
  BY <1>1, <1>3, <1>4, <1>5 DEF IInv, TrackerInv, StreamInv

LEMMA EmptyView ==
  /\ NoView \in View /\ NoView.job = NoJob /\ NoView.of = NoJob /\ NoView.events = <<>>
  /\ ~NoView.isDone /\ ~NoView.pressed
<1>1. <<>> \in Seq(AnEvent)
  OBVIOUS
<1> QED
  BY <1>1 DEF NoView, View

LEMMA ReloadSafe ==
  ASSUME IInv, Reload
  PROVE  IInv'
<1>1. DOMAIN stream' = {} /\ stream' = <<>>
  BY NoneLeft DEF Reload
<1>2. view' = NoView /\ UNCHANGED <<now, lastTrigger, tracker, task, produced, late>>
  BY DEF Reload
<1>3. Typed'
  BY <1>1, <1>2, EmptyView DEF IInv, Typed
<1>4. Waiting(view)'
  BY <1>2, EmptyView DEF Waiting
<1>5. ViewInv'
  BY <1>2, <1>4, EmptyView DEF ViewInv
<1> QED
  BY <1>1, <1>2, <1>3, <1>5 DEF IInv, TrackerInv, StreamInv

LEMMA TickSafe ==
  ASSUME IInv, Tick
  PROVE  IInv'
<1>1. now' = now + 1 /\ now < MaxTime /\ UNCHANGED <<lastTrigger, tracker, task, produced, stream, view, late>>
  BY DEF Tick
<1>2. Typed'
  BY <1>1, StreamAssumption DEF IInv, Typed
<1> QED
  BY <1>1, <1>2 DEF IInv, TrackerInv, StreamInv, Sends, ViewInv, Waiting, Closed

\* Only jobs that are done are removed, so no task loses its job.
LEMMA CleanupSafe ==
  ASSUME IInv, Cleanup
  PROVE  IInv'
<1>1. /\ tracker' = [j \in {i \in DOMAIN tracker : ~Old(i)} |-> tracker[j]]
      /\ UNCHANGED <<now, lastTrigger, task, produced, stream, view, late>>
  BY DEF Cleanup
<1>2. DOMAIN tracker' \subseteq DOMAIN tracker /\ \A j \in DOMAIN tracker' : tracker'[j] = tracker[j]
  BY <1>1
<1>3. DOMAIN task \subseteq DOMAIN tracker'
  BY <1>1 DEF Old, IInv, TrackerInv
<1>4. Typed'
  BY <1>1, <1>2 DEF IInv, Typed
<1>5. TrackerInv'
  BY <1>1, <1>2, <1>3 DEF IInv, TrackerInv
<1>6. StreamInv'
  BY <1>1, <1>2 DEF IInv, StreamInv, Sends
<1>7. ViewInv'
  BY <1>1 DEF IInv, ViewInv, Waiting, Closed
<1> QED
  BY <1>4, <1>5, <1>6, <1>7 DEF IInv

LEMMA RestartSafe ==
  ASSUME IInv, Restart
  PROVE  IInv'
<1>1. /\ tracker' = <<>> /\ task' = <<>> /\ stream' = <<>>
      /\ UNCHANGED <<now, lastTrigger, produced, late>>
  BY DEF Restart
<1>2. DOMAIN tracker' = {} /\ DOMAIN task' = {} /\ DOMAIN stream' = {}
  BY <1>1
<1>3. /\ view' \in View /\ view'.job = view.job /\ view'.of = view.of /\ view'.events = view.events
      /\ view'.isDone = view.isDone /\ view'.pressed = view.pressed
  BY DEF Restart, IInv, Typed, View
<1>4. Typed'
  BY <1>1, <1>2, <1>3 DEF IInv, Typed
<1>5. TrackerInv' /\ StreamInv'
  BY <1>1, <1>2 DEF IInv, TrackerInv, StreamInv
<1>6. ViewInv'
  BY <1>1, <1>2, <1>3 DEF IInv, ViewInv, Waiting, Closed
<1> QED
  BY <1>4, <1>5, <1>6 DEF IInv

-----------------------------------------------------------------------------
(* The theorems *)

LEMMA Initial == Init => IInv
<1> SUFFICES ASSUME Init
             PROVE  IInv
  OBVIOUS
<1>1. /\ now = 1 /\ lastTrigger = 0 /\ view = NoView
      /\ tracker = <<>> /\ task = <<>> /\ produced = <<>> /\ stream = <<>>
  BY DEF Init
<1>2. DOMAIN tracker = {} /\ DOMAIN task = {} /\ DOMAIN produced = {} /\ DOMAIN stream = {}
  BY <1>1
<1>3. Typed
  BY <1>1, <1>2, EmptyView, StreamAssumption DEF Typed
<1>4. TrackerInv /\ StreamInv
  BY <1>2 DEF TrackerInv, StreamInv
<1>5. ViewInv
  BY <1>1, EmptyView DEF ViewInv, Waiting
<1> QED
  BY <1>3, <1>4, <1>5 DEF IInv

LEMMA Inductive == IInv /\ [Next]_vars => IInv'
<1> SUFFICES ASSUME IInv, [Next]_vars
             PROVE  IInv'
  OBVIOUS
<1>1. ASSUME NEW j \in Jobs, Work(j)
      PROVE  IInv'
  BY <1>1, WorkSafe
<1>2. ASSUME NEW j \in Jobs, Generate(j)
      PROVE  IInv'
  BY <1>2, PollSafe, SendSafe, EndBatchSafe DEF Generate
<1>3. ASSUME NEW kind \in Kinds, Accept(kind)
      PROVE  IInv'
  BY <1>3, AcceptSafe
<1>4. CASE vars' = vars
  BY <1>4 DEF vars, IInv, Typed, TrackerInv, StreamInv, Sends, ViewInv, Waiting, Closed
<1> QED
  BY <1>1, <1>2, <1>3, <1>4, PressSafe, ThrottleSafe, ConnectSafe, DisconnectSafe, ReloadSafe, TickSafe,
     CleanupSafe, RestartSafe DEF Next

LEMMA Invariance == Spec => []IInv
  BY Initial, Inductive, PTL DEF Spec

\* Tracker, tasks, generators and view stay within their types.
THEOREM TypeCorrect == Spec => []TypeOK
  BY Invariance, Implied, PTL

\* No event a task emits is dropped: neither the hourly cleanup nor the end of another
\* job takes a running job out of the tracker (job_tracker.py).
THEOREM EverythingKept == Spec => []NothingDropped
  BY Invariance, Implied, PTL

\* The browser has the events of its job from the first one on, in order, each once, none
\* left out (api/ingest.py, useIngestStream.ts).
THEOREM PrefixKept == Spec => []PrefixShown
  BY Invariance, Implied, PTL

\* A green verdict is true unless the job ended while its last batch was being sent.
THEOREM GreenTrue == Spec => []GreenUnlessLate
  BY Invariance, Implied, PTL
=============================================================================
