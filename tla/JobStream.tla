------------------------------ MODULE JobStream -----------------------------
(***************************************************************************)
(* The manual refresh, from the button to its verdict: the throttled       *)
(* trigger of api/ingest.py, the background task that emits its progress   *)
(* into the JobTracker, the SSE generator that polls the tracker, the      *)
(* hourly cleanup of the tracker, and the browser that shows what arrived  *)
(* (useIngestStream and ManualRefreshButton), of one user.                 *)
(*                                                                         *)
(* Everything in the backend runs on one event loop: an action is what     *)
(* happens between two awaits.  The generator awaits at every event it     *)
(* yields and for half a second after each poll.                           *)
(***************************************************************************)
EXTENDS Naturals, Sequences, SequencesExt

CONSTANTS
  Kinds,      \* what may be refreshed: a subset of {"trm", "flex", "both"}
  Cooldown,   \* ingest_trigger_cooldown_seconds
  OldAge,     \* cleanup_old: one hour
  MaxTime,    \* bound on the clock
  MaxJobs     \* bound on the jobs

ASSUME StreamAssumption ==
  /\ Kinds \subseteq {"trm", "flex", "both"}
  /\ Cooldown \in Nat /\ OldAge \in Nat /\ MaxTime \in Nat \ {0} /\ MaxJobs \in Nat \ {0}

VARIABLES
  now,
  lastTrigger,  \* organizations.last_ingest_trigger_at; 0 is NULL
  tracker,      \* JobTracker._jobs: [id -> [events, done, created]]
  task,         \* [id -> the steps its background task still has to do]
  produced,     \* history: [id -> every event its task emitted]
  stream,       \* [id -> [pc, last, batch, tail]]: the open SSE generators
  view,         \* the browser: [job, of, events, isDone, error, pressed]; the events
                \* and flags are those of job `of`, also when job is null again
  late          \* history: jobs that ended while their generator was sending

vars == <<now, lastTrigger, tracker, task, produced, stream, view, late>>

Jobs == 1..MaxJobs
NoJob == 0

Event(step, status) == [step |-> step, status |-> status]
DoneEvent == Event("done", "none")
Synthetic == Event("none", "none")   \* the closing data {} of the generator

Plan(kind) ==
  CASE kind = "trm" -> <<"trm_backfill">>
    [] kind = "flex" -> <<"flex_ytd">>
    [] kind = "both" -> <<"trm_backfill", "flex_ytd">>

NoView == [job |-> NoJob, of |-> NoJob, events |-> <<>>, isDone |-> FALSE, error |-> FALSE,
           pressed |-> FALSE]

\* A function without j in its domain, or with it.
Without(f, j) == [i \in DOMAIN f \ {j} |-> f[i]]
With(f, j, v) == [i \in DOMAIN f \cup {j} |-> IF i = j THEN v ELSE f[i]]

Init ==
  /\ now = 1
  /\ lastTrigger = 0
  /\ tracker = <<>>
  /\ task = <<>>
  /\ produced = <<>>
  /\ stream = <<>>
  /\ view = NoView
  /\ late = {}

-----------------------------------------------------------------------------
(* The background task *)

Sending(j) == j \in DOMAIN stream /\ stream[j].pc = "sending"

\* tracker.emit, which drops the events of a job it does not know.
Emit(j, events) ==
  /\ tracker' = IF j \in DOMAIN tracker THEN [tracker EXCEPT ![j].events = @ \o events] ELSE tracker
  /\ produced' = [produced EXCEPT ![j] = @ \o events]

\* The last emit and mark_done, with no await between them.
EmitLast(j, events) ==
  /\ tracker' = IF j \in DOMAIN tracker
                THEN [tracker EXCEPT ![j].events = @ \o events, ![j].done = TRUE] ELSE tracker
  /\ produced' = [produced EXCEPT ![j] = @ \o events]
  /\ task' = Without(task, j)
  /\ late' = IF Sending(j) THEN late \cup {j} ELSE late

\* _run_manual starts its first step.
Begin(j) ==
  /\ j \in DOMAIN task /\ produced[j] = <<>>
  /\ Emit(j, <<Event(Head(task[j]), "running")>>)
  /\ UNCHANGED <<now, lastTrigger, task, stream, view, late>>

\* A step ends, ok or (some connections failed) partial; the next one starts, or
\* the task is done.
EndStep(j) ==
  /\ j \in DOMAIN task /\ produced[j] # <<>>
  /\ \E status \in {"ok"} \cup (IF Head(task[j]) = "flex_ytd" THEN {"partial"} ELSE {}) :
       LET ended == Event(Head(task[j]), status)
           rest == Tail(task[j])
       IN  IF rest = <<>>
           THEN EmitLast(j, <<ended, DoneEvent>>)
           ELSE /\ Emit(j, <<ended, Event(Head(rest), "running")>>)
                /\ task' = [task EXCEPT ![j] = rest]
                /\ UNCHANGED late
  /\ UNCHANGED <<now, lastTrigger, stream, view>>

\* A step raises: the failure is the last event, and there is no done event.
FailStep(j) ==
  /\ j \in DOMAIN task /\ produced[j] # <<>>
  /\ EmitLast(j, <<Event(Head(task[j]), "failed")>>)
  /\ UNCHANGED <<now, lastTrigger, stream, view>>

-----------------------------------------------------------------------------
(* The SSE generator *)

Deliver(j, event) ==
  IF view.job = j /\ ~view.isDone /\ ~view.error
  THEN view' = [view EXCEPT !.events = Append(@, event), !.isDone = event \in {DoneEvent, Synthetic}]
  ELSE UNCHANGED view

\* Mutant: only the done event ends a stream.
EndRoundOnDone(j, lastSent) ==
  /\ stream' = IF lastSent = DoneEvent THEN Without(stream, j)
               ELSE [stream EXCEPT ![j].pc = "sleeping"]
  /\ UNCHANGED view

\* The end of a round: is_done, then the synthetic event unless the last one sent
\* in this round was the real one.
EndRound(j, lastSent) ==
  IF j \in DOMAIN tracker /\ tracker[j].done
  THEN /\ stream' = Without(stream, j)
       /\ IF lastSent = DoneEvent THEN UNCHANGED view ELSE Deliver(j, Synthetic)
  ELSE /\ stream' = [stream EXCEPT ![j].pc = "sleeping"]
       /\ UNCHANGED view

\* Mutant: the last event seen comes again.
EventsSinceInclusive(j, after) ==
  IF j \in DOMAIN tracker
  THEN SubSeq(tracker[j].events, IF after = 0 THEN 1 ELSE after, Len(tracker[j].events)) ELSE <<>>

EventsSince(j, after) ==
  IF j \in DOMAIN tracker
  THEN SubSeq(tracker[j].events, after + 1, Len(tracker[j].events)) ELSE <<>>

\* events_since; a round without events goes straight to its end.
Poll(j) ==
  /\ j \in DOMAIN stream /\ stream[j].pc = "sleeping"
  /\ LET batch == EventsSince(j, stream[j].last)
     IN  IF batch = <<>>
         THEN EndRound(j, Synthetic)
         ELSE /\ stream' = [stream EXCEPT ![j].pc = "sending", ![j].batch = batch]
              /\ UNCHANGED view
  /\ UNCHANGED <<now, lastTrigger, tracker, task, produced, late>>

\* One event is yielded; whoever is next on the event loop may run before the next.
Send(j) ==
  /\ Sending(j) /\ stream[j].batch # <<>>
  /\ Deliver(j, Head(stream[j].batch))
  /\ stream' = [stream EXCEPT ![j].batch = Tail(@), ![j].last = @ + 1,
                              ![j].tail = Head(stream[j].batch)]
  /\ UNCHANGED <<now, lastTrigger, tracker, task, produced, late>>

EndBatch(j) ==
  /\ Sending(j) /\ stream[j].batch = <<>>
  /\ EndRound(j, stream[j].tail)
  /\ UNCHANGED <<now, lastTrigger, tracker, task, produced, late>>

-----------------------------------------------------------------------------
(* The browser *)

\* Mutant: only the last event is looked at.
HasFailedAtEnd(v) == v.events # <<>> /\ Last(v.events).status = "failed"

HasFailed(v) == \E i \in DOMAIN v.events : v.events[i].status = "failed"
HasPartial(v) == \E i \in DOMAIN v.events : v.events[i].status = "partial"
Green(v) == v.isDone /\ ~HasFailed(v) /\ ~HasPartial(v) /\ ~v.error
IsRunning(v) == v.job # NoJob /\ ~v.isDone /\ ~HasFailed(v)

Following == view.job \in DOMAIN stream /\ ~view.isDone /\ ~view.error

\* The button: jobId is null until the answer, so the stream is dropped; what it
\* brought stays on the screen.
Press ==
  /\ ~IsRunning(view) /\ ~view.pressed
  /\ view' = [view EXCEPT !.job = NoJob, !.pressed = TRUE]
  /\ stream' = Without(stream, view.job)
  /\ UNCHANGED <<now, lastTrigger, tracker, task, produced, late>>

MayTrigger == lastTrigger = 0 \/ lastTrigger < now - Cooldown

\* POST /ingest/trigger: the conditional UPDATE lets one trigger of the
\* organization through per cooldown.  The answer may be lost; the job runs.
Accept(kind) ==
  /\ view.pressed /\ MayTrigger
  /\ \E j \in Jobs :
       /\ j \notin DOMAIN produced /\ \A i \in 1..(j - 1) : i \in DOMAIN produced
       /\ lastTrigger' = now
       /\ tracker' = With(tracker, j, [events |-> <<>>, done |-> FALSE, created |-> now])
       /\ task' = With(task, j, Plan(kind))
       /\ produced' = With(produced, j, <<>>)
       /\ \/ view' = [NoView EXCEPT !.job = j, !.of = j]
          \/ view' = [view EXCEPT !.pressed = FALSE]
  /\ UNCHANGED <<now, stream, late>>

\* 429: the verdict of the refresh before is still shown.
Throttle ==
  /\ view.pressed /\ ~MayTrigger
  /\ view' = [view EXCEPT !.pressed = FALSE]
  /\ UNCHANGED <<now, lastTrigger, tracker, task, produced, stream, late>>

\* GET /ingest/stream/{id}; a job the tracker does not know is a 404.
Connect ==
  LET j == view.job
  IN  /\ j # NoJob /\ ~view.isDone /\ ~view.error /\ j \notin DOMAIN stream
      /\ view.events = <<>>
      /\ IF j \in DOMAIN tracker
         THEN /\ stream' = With(stream, j, [pc |-> "sleeping", last |-> 0, batch |-> <<>>,
                                            tail |-> Synthetic])
              /\ UNCHANGED view
         ELSE view' = [view EXCEPT !.error = TRUE] /\ UNCHANGED stream
      /\ UNCHANGED <<now, lastTrigger, tracker, task, produced, late>>

\* The connection breaks: the browser shows an error, the generator is cancelled.
Disconnect ==
  /\ Following
  /\ view' = [view EXCEPT !.error = TRUE]
  /\ stream' = Without(stream, view.job)
  /\ UNCHANGED <<now, lastTrigger, tracker, task, produced, late>>

\* The user reloads the page.
Reload ==
  /\ view # NoView /\ ~view.pressed
  /\ view' = NoView
  /\ stream' = Without(stream, view.job)
  /\ UNCHANGED <<now, lastTrigger, tracker, task, produced, late>>

-----------------------------------------------------------------------------
(* The rest of the process *)

Tick ==
  /\ now < MaxTime
  /\ now' = now + 1
  /\ UNCHANGED <<lastTrigger, tracker, task, produced, stream, view, late>>

\* Mutant: running jobs are removed as well.
OldAnyway(j) == now - tracker[j].created > OldAge

Old(j) == tracker[j].done /\ now - tracker[j].created > OldAge

\* cleanup_old, hourly.
Cleanup ==
  /\ \E j \in DOMAIN tracker : Old(j)
  /\ tracker' = [j \in {i \in DOMAIN tracker : ~Old(i)} |-> tracker[j]]
  /\ UNCHANGED <<now, lastTrigger, task, produced, stream, view, late>>

\* The process dies with everything it has in memory; an open stream breaks.
Restart ==
  /\ DOMAIN tracker # {}
  /\ tracker' = <<>> /\ task' = <<>> /\ stream' = <<>>
  /\ view' = IF Following THEN [view EXCEPT !.error = TRUE] ELSE view
  /\ UNCHANGED <<now, lastTrigger, produced, late>>

-----------------------------------------------------------------------------
Work(j) == Begin(j) \/ EndStep(j) \/ FailStep(j)
Generate(j) == Poll(j) \/ Send(j) \/ EndBatch(j)

Next ==
  \/ \E j \in Jobs : Work(j) \/ Generate(j)
  \/ \E kind \in Kinds : Accept(kind)
  \/ Press \/ Throttle \/ Connect \/ Disconnect \/ Reload \/ Tick \/ Cleanup \/ Restart

\* The task's waits are bounded (client.py) and the event loop serves everybody.
Spec == Init /\ [][Next]_vars /\ \A j \in Jobs : WF_vars(Work(j)) /\ WF_vars(Generate(j))

-----------------------------------------------------------------------------
(* Properties *)

AnEvent == [step : {"trm_backfill", "flex_ytd", "done", "none"},
            status : {"running", "ok", "partial", "failed", "none"}]

TypeOK ==
  /\ now \in 1..MaxTime /\ lastTrigger \in 0..now
  /\ DOMAIN produced \subseteq Jobs
  /\ DOMAIN tracker \subseteq DOMAIN produced /\ DOMAIN task \subseteq DOMAIN tracker
  /\ \A j \in DOMAIN produced : \A i \in DOMAIN produced[j] : produced[j][i] \in AnEvent
  /\ \A j \in DOMAIN stream : stream[j].pc \in {"sleeping", "sending"}
  /\ view.job \in {NoJob, view.of} /\ view.of \in Jobs \cup {NoJob} /\ view.isDone \in BOOLEAN /\ view.error \in BOOLEAN

\* What the browser has got, but for the closing event, which stands for none.
Shown ==
  IF view.events # <<>> /\ Last(view.events) = Synthetic THEN Front(view.events) ELSE view.events

\* However polls, sends and emits interleave, the browser has got the events of
\* its job in order, each once, with none left out before the last it has.
PrefixShown == view.of # NoJob => IsPrefix(Shown, produced[view.of])

\* No event a task emits is dropped: its job is in the tracker, with everything
\* emitted so far, as long as the task runs.
NothingDropped ==
  \A j \in DOMAIN task : j \in DOMAIN tracker /\ tracker[j].events = produced[j]

Succeeded(j) ==
  /\ Last(produced[j]) = DoneEvent
  /\ \A i \in DOMAIN produced[j] : produced[j][i].status \in {"running", "ok", "none"}

\* The green verdict is true unless the job ended while its last batch was being
\* sent.
GreenUnlessLate == (Green(view) /\ view.of \notin late) => Succeeded(view.of)

\* A generator ends with its job, unless the job was removed under it.
StreamEnds ==
  \A j \in Jobs : j \in DOMAIN stream ~> (j \notin DOMAIN stream \/ j \notin DOMAIN tracker)

\* What api/ingest.py:156-158 and ManualRefreshButton promise: whoever sees the
\* refresh end in green has seen every failure there was.  The code does not keep it.
GreenIsTrue == Green(view) => Succeeded(view.of)
=============================================================================
