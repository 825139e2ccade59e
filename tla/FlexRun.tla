------------------------------ MODULE FlexRun -------------------------------
(***************************************************************************)
(* flex/job.py::run for one organization, as the cron and the manual       *)
(* trigger run it, beside the users who change the same connections        *)
(* through api/connections.py and through steps 1 and 2 of the wizard      *)
(* (api/setup.py), none of whom takes the lock.                            *)
(*                                                                         *)
(* A run loads its Connection objects once and keeps them for minutes      *)
(* (expire_on_commit=False).  For each one it fetches and ingests inside   *)
(* an ingest_log_entry, which commits, and then lets connection_state      *)
(* change the object it loaded; that second commit writes only the columns *)
(* whose value in memory differs from the one loaded.  rotate_token holds  *)
(* an object in the same way while it asks IBKR about the new token, and   *)
(* step2_detect, which leaves no row in the log, while it fetches.         *)
(*                                                                         *)
(* The advisory lock is taken here as what Postgres gives one database     *)
(* connection; module AdvisoryLock has the pool between the two.           *)
(***************************************************************************)
EXTENDS ConnectionRecord, FiniteSets, Sequences

CONSTANTS
  Connections,     \* ids of table connections, natural numbers
  Absent,          \* no row with this id
  CronRuns,        \* runs of the cron: an engine of their own, disposed at the end
  ManualRuns,      \* runs of POST /ingest/trigger, on the shared engine
  NoRun,           \* nobody holds the advisory lock
  MaxRuns,         \* bound on the runs started
  MaxRequests,     \* bound on the requests of users
  MaxFailures      \* bound on consecutive_failures, unbounded in the code

ASSUME RunAssumption ==
  /\ Connections \subseteq Nat
  /\ CronRuns \cap ManualRuns = {}
  /\ NoRun \notin CronRuns \cup ManualRuns
  /\ Absent \notin Row
  /\ MaxRuns \in Nat

Runs == CronRuns \cup ManualRuns

VARIABLES
  row,        \* [Connections -> Row, or Absent]: the committed table
  log,        \* [Connections -> Seq(LogEntry)]: committed ingest_log rows of the connection
  lock,       \* the run whose database connection holds the advisory lock
  pc,         \* [Runs -> Stage]
  number,     \* [Runs -> Nat]: which start this is, the identity of the run in the log
  snap,       \* [Runs -> rows as loaded, by id]
  todo,       \* [Runs -> ids the loop has not finished]
  outcome,    \* [Runs -> how the attempt on the current connection ended]
  results,    \* [Runs -> ids in FlexRunSummary.results]
  failures,   \* [Runs -> ids in FlexRunSummary.failures]
  rotations,  \* rotate-token requests in flight: the id and the row as loaded
  detecting,  \* ids a detection of the wizard has not finished
  held,       \* [Connections -> the row as the detection loaded it, or Absent]
  started,    \* runs started so far
  requests,   \* user requests served so far
  touched,    \* history: ids users wrote since the running run loaded its list
  refused,    \* history: those of them whose token a detection found refused
  seen        \* history: [Connections -> how many detections ended ok, and failed]

runVars == <<pc, number, snap, todo, outcome, results, failures, started>>
wizardVars == <<detecting, held, refused, seen>>
userVars == <<rotations, requests, wizardVars>>
vars == <<row, log, lock, runVars, userVars, touched>>

Stage == {"idle", "loop", "attempt", "logged", "ended", "raised", "refused", "aborted"}
Outcome == {"none", "ok", "auth", "transient"}
LogEntry == [run : 0..MaxRuns, status : {"running", "ok", "failed"}]

Present(c) == row[c] # Absent

\* Every loop goes through the connections ORDER BY id.
Least(S) == CHOOSE c \in S : \A d \in S : c <= d
Current(r) == Least(todo[r])
NoneHeld == [c \in Connections |-> Absent]
Selected == {c \in Connections : Present(c) /\ row[c].status # "disabled"}

\* The UPDATE of a flush: only columns whose value in memory is not the loaded one.
Flush(loaded, memory, stored) ==
  [col \in DOMAIN stored |-> IF memory[col] # loaded[col] THEN memory[col] ELSE stored[col]]

\* What connection_state makes of the object for each way an attempt can end.
Marked(c, how, why) ==
  CASE how = "ok" -> MarkSyncOk(c)
    [] how = "auth" -> MarkAuthFailed(c, why)
    [] how = "transient" -> MarkSyncFailed(c, why)

\* Before the first run.  The requests that created the connections count.
Init ==
  /\ row \in [Connections -> {Absent, NewRow}]
  /\ log = [c \in Connections |-> <<>>]
  /\ requests = Cardinality({c \in Connections : Present(c)})
  /\ lock = NoRun
  /\ pc = [r \in Runs |-> "idle"]
  /\ number = [r \in Runs |-> 0]
  /\ snap = [r \in Runs |-> <<>>]
  /\ todo = [r \in Runs |-> {}]
  /\ outcome = [r \in Runs |-> "none"]
  /\ results = [r \in Runs |-> {}]
  /\ failures = [r \in Runs |-> {}]
  /\ rotations = {}
  /\ detecting = {} /\ held = NoneHeld
  /\ started = 0
  /\ touched = {} /\ refused = {}
  /\ seen = [c \in Connections |-> [status \in {"ok", "failed"} |-> 0]]

-----------------------------------------------------------------------------
(* The run *)

\* pg_try_advisory_lock says no: LockHeldError, before anything else is done.
Refuse(r) ==
  /\ pc[r] = "idle" /\ started < MaxRuns
  /\ lock # NoRun
  /\ started' = started + 1
  /\ pc' = [pc EXCEPT ![r] = "refused"]
  /\ UNCHANGED <<row, log, lock, number, snap, todo, outcome, results, failures, userVars, touched>>

Load(r) ==
  /\ started' = started + 1
  /\ number' = [number EXCEPT ![r] = started + 1]
  /\ snap' = [snap EXCEPT ![r] = [c \in Selected |-> row[c]]]
  /\ todo' = [todo EXCEPT ![r] = Selected]
  /\ results' = [results EXCEPT ![r] = {}]
  /\ failures' = [failures EXCEPT ![r] = {}]
  /\ touched' = {} /\ refused' = {}
  /\ IF Selected = {}   \* RuntimeError, the lock is released on the way out
     THEN pc' = [pc EXCEPT ![r] = "raised"] /\ UNCHANGED lock
     ELSE pc' = [pc EXCEPT ![r] = "loop"] /\ lock' = r
  /\ UNCHANGED <<row, log, outcome, rotations, requests, detecting, held, seen>>

\* Mutant: the run does not ask for the lock.
StartUnlocked(r) == pc[r] = "idle" /\ started < MaxRuns /\ Load(r)

Start(r) ==
  /\ pc[r] = "idle" /\ started < MaxRuns
  /\ lock = NoRun
  /\ Load(r)

\* The ingest_log row of the next connection is inserted and its fetch begins.
Attempt(r) ==
  /\ pc[r] = "loop" /\ todo[r] # {}
  /\ Present(Current(r))
  /\ pc' = [pc EXCEPT ![r] = "attempt"]
  /\ UNCHANGED <<row, log, lock, number, snap, todo, outcome, results, failures, started,
                 userVars, touched>>

\* Mutant: the commit of ingest_log_entry is not in a finally, so the row of a
\* failed attempt is rolled back.
FinishOkOnly(r) ==
  /\ pc[r] = "attempt"
  /\ \E how \in Outcome \ {"none"} :
       /\ how = "ok" \/ snap[r][Current(r)].failures < MaxFailures
       /\ outcome' = [outcome EXCEPT ![r] = how]
       /\ log' = [log EXCEPT ![Current(r)] =
                    IF how = "ok" THEN Append(@, [run |-> number[r], status |-> "ok"]) ELSE @]
  /\ pc' = [pc EXCEPT ![r] = "logged"]
  /\ UNCHANGED <<row, lock, number, snap, todo, results, failures, started, userVars, touched>>

\* The attempt ends, one way or the other, and ingest_log_entry commits its row.
Finish(r) ==
  /\ pc[r] = "attempt"
  /\ \E how \in Outcome \ {"none"} :
       /\ how = "ok" \/ snap[r][Current(r)].failures < MaxFailures
       /\ outcome' = [outcome EXCEPT ![r] = how]
       /\ log' = [log EXCEPT ![Current(r)] =
                    Append(@, [run |-> number[r],
                               status |-> IF how = "ok" THEN "ok" ELSE "failed"])]
  /\ pc' = [pc EXCEPT ![r] = "logged"]
  /\ UNCHANGED <<row, lock, number, snap, todo, results, failures, started, userVars, touched>>

Flushed(r, c) ==
  \E why \in Reasons :
    row' = [row EXCEPT ![c] = Flush(snap[r][c], Marked(snap[r][c], outcome[r], why), @)]

\* Mutant: one failed connection ends the loop.
RecordBreaks(r) ==
  LET c == Current(r)
      ok == outcome[r] = "ok"
  IN  /\ pc[r] = "logged" /\ Present(c)
      /\ Flushed(r, c)
      /\ todo' = [todo EXCEPT ![r] = IF ok THEN @ \ {c} ELSE {}]
      /\ results' = [results EXCEPT ![r] = IF ok THEN @ \cup {c} ELSE @]
      /\ failures' = [failures EXCEPT ![r] = IF ok THEN @ ELSE @ \cup {c}]
      /\ outcome' = [outcome EXCEPT ![r] = "none"]
      /\ pc' = [pc EXCEPT ![r] = "loop"]
      /\ UNCHANGED <<log, lock, number, snap, started, userVars, touched>>

\* The transition of the connection's state is committed and the loop goes on.
Record(r) ==
  LET c == Current(r)
      ok == outcome[r] = "ok"
  IN  /\ pc[r] = "logged" /\ Present(c)
      /\ Flushed(r, c)
      /\ todo' = [todo EXCEPT ![r] = @ \ {c}]
      /\ results' = [results EXCEPT ![r] = IF ok THEN @ \cup {c} ELSE @]
      /\ failures' = [failures EXCEPT ![r] = IF ok THEN @ ELSE @ \cup {c}]
      /\ outcome' = [outcome EXCEPT ![r] = "none"]
      /\ pc' = [pc EXCEPT ![r] = "loop"]
      /\ UNCHANGED <<log, lock, number, snap, started, userVars, touched>>

\* The row was deleted meanwhile.  Before the attempt the missing detail (or the
\* log's foreign key), after it the UPDATE that matches no row, ends in an
\* exception outside the loop's try, with a session that refuses the unlock (as any
\* other error of the database there would).
Abort(r) ==
  /\ \/ pc[r] = "loop" /\ todo[r] # {}
     \/ pc[r] = "logged"
  /\ ~Present(Current(r))
  /\ outcome' = [outcome EXCEPT ![r] = "none"]
  /\ pc' = [pc EXCEPT ![r] = "aborted"]
  /\ UNCHANGED <<row, log, lock, number, snap, todo, results, failures, started, userVars, touched>>

\* The loop is over: unlock, then re-raise if nothing succeeded.
Exit(r) ==
  /\ pc[r] = "loop" /\ todo[r] = {}
  /\ lock' = NoRun
  /\ pc' = [pc EXCEPT ![r] = IF results[r] = {} THEN "raised" ELSE "ended"]
  /\ UNCHANGED <<row, log, number, snap, todo, outcome, results, failures, started, userVars, touched>>

Finished(r) == pc[r] \in {"ended", "raised", "refused", "aborted"}

\* The caller forgets the run and may start another.
Reset(r) ==
  /\ pc' = [pc EXCEPT ![r] = "idle"]
  /\ number' = [number EXCEPT ![r] = 0]
  /\ snap' = [snap EXCEPT ![r] = <<>>]
  /\ todo' = [todo EXCEPT ![r] = {}]
  /\ results' = [results EXCEPT ![r] = {}]
  /\ failures' = [failures EXCEPT ![r] = {}]
  /\ UNCHANGED <<row, log, outcome, started, userVars, touched>>

\* Mutant: the cron runs on the shared engine and disposes nothing.
DisposeNothing(r) ==
  /\ r \in CronRuns /\ Finished(r)
  /\ UNCHANGED lock
  /\ Reset(r)

\* _run_flex_for_all_orgs catches whatever the run raised and, at its end,
\* disposes the engine: the database connection closes, and its lock goes with it.
DisposeEngine(r) ==
  /\ r \in CronRuns /\ Finished(r)
  /\ lock' = IF lock = r THEN NoRun ELSE lock
  /\ Reset(r)

\* _run_manual reports the end to the tracker.  A lock its run could not release
\* stays with the pooled connection.
ManualDone(r) ==
  /\ r \in ManualRuns /\ Finished(r)
  /\ lock # r
  /\ UNCHANGED lock
  /\ Reset(r)

\* pool_recycle closes the pooled connection that still held the lock.
RecycleConnection(r) ==
  /\ r \in ManualRuns /\ pc[r] = "aborted" /\ lock = r
  /\ lock' = NoRun
  /\ Reset(r)

\* The process dies: its database connections close, open transactions roll back.
Forget ==
  /\ lock' = NoRun
  /\ pc' = [r \in Runs |-> "idle"]
  /\ number' = [r \in Runs |-> 0]
  /\ snap' = [r \in Runs |-> <<>>]
  /\ todo' = [r \in Runs |-> {}]
  /\ outcome' = [r \in Runs |-> "none"]
  /\ results' = [r \in Runs |-> {}]
  /\ failures' = [r \in Runs |-> {}]
  /\ rotations' = {} /\ detecting' = {} /\ held' = NoneHeld
  /\ UNCHANGED <<row, started, requests, touched, refused, seen>>

Crash ==
  /\ lock # NoRun
  /\ Forget
  /\ UNCHANGED log

\* The process is asked to stop while an attempt waits for IBKR: CancelledError is
\* no Exception, so the finally of ingest_log_entry commits the row still running.
Cancel(r) ==
  /\ pc[r] = "attempt"
  /\ Forget
  /\ log' = [log EXCEPT ![Current(r)] = Append(@, [run |-> number[r], status |-> "running"])]

-----------------------------------------------------------------------------
(* The users *)

Request == requests < MaxRequests /\ requests' = requests + 1

UserWrites(c, new) ==
  /\ row' = [row EXCEPT ![c] = new]
  /\ touched' = touched \cup {c}
  /\ UNCHANGED <<log, lock, runVars>>

\* POST /connections, or the first step1_save.
Create(c) ==
  /\ Request /\ ~Present(c) /\ log[c] = <<>>
  /\ \A r \in Runs : c \notin DOMAIN snap[r]   \* ids are never used twice
  /\ \A t \in rotations : t.id # c
  /\ c \notin detecting
  /\ UserWrites(c, NewRow)
  /\ UNCHANGED <<rotations, wizardVars>>

Disable(c) ==
  /\ Request /\ Present(c)
  /\ UserWrites(c, SetEnabled(row[c], FALSE))
  /\ UNCHANGED <<rotations, wizardVars>>

Enable(c) ==
  /\ Request /\ Present(c)
  /\ UserWrites(c, SetEnabled(row[c], TRUE))
  /\ UNCHANGED <<rotations, wizardVars>>

\* The DELETE waits for an open attempt, whose ingest_log row references the
\* connection; committed log rows stay, with connection_id SET NULL.
Delete(c) ==
  /\ Request /\ Present(c)
  /\ \A r \in Runs : ~(pc[r] = "attempt" /\ Current(r) = c)
  /\ row' = [row EXCEPT ![c] = Absent]
  /\ log' = [log EXCEPT ![c] = <<>>]
  /\ touched' = touched \cup {c}
  /\ seen' = [seen EXCEPT ![c] = [status \in {"ok", "failed"} |-> 0]]
  /\ UNCHANGED <<lock, runVars, rotations, detecting, held, refused>>

\* rotate_token loads the row and asks IBKR about the new token; one request in
\* flight for a connection is a bound of the model.
RotateAsk(c) ==
  /\ Request /\ Present(c)
  /\ \A t \in rotations : t.id # c
  /\ rotations' = rotations \cup {[id |-> c, loaded |-> row[c]]}
  /\ UNCHANGED <<row, log, lock, runVars, touched, wizardVars>>

\* IBKR accepts it: mark_rotated and the flush.
RotateDone(t) ==
  /\ Present(t.id)
  /\ UserWrites(t.id, Flush(t.loaded, MarkRotated(t.loaded), row[t.id]))
  /\ rotations' = rotations \ {t}
  /\ UNCHANGED <<requests, wizardVars>>

\* IBKR rejects it, or the row is gone and the UPDATE matches nothing.
RotateFail(t) ==
  /\ rotations' = rotations \ {t}
  /\ UNCHANGED <<row, log, lock, runVars, requests, touched, wizardVars>>

-----------------------------------------------------------------------------
(* The wizard *)

\* A later step1_save: the first connection is rotated, and IBKR is not asked.
Step1Save ==
  \E c \in Connections :
    /\ Request /\ Present(c) /\ \A d \in Connections : Present(d) => c <= d
    /\ UserWrites(c, MarkRotated(row[c]))
    /\ UNCHANGED <<rotations, wizardVars>>

\* step2_detect loads the connections; one detection at a time is a bound of the model.
DetectBegin ==
  /\ Request /\ detecting = {} /\ Selected # {}
  /\ detecting' = Selected
  /\ held' = [c \in Connections |-> IF c \in Selected THEN row[c] ELSE Absent]
  /\ UNCHANGED <<row, log, lock, runVars, rotations, touched, refused, seen>>

\* On to the next: session.get loads the object unless the session still holds it.
GoOn(kept) ==
  LET left == detecting \ {Least(detecting)}
  IN  /\ detecting' = left
      /\ held' = [c \in Connections |->
                    IF c \notin left THEN Absent
                    ELSE IF kept[c] = Absent /\ c = Least(left) THEN row'[c] ELSE kept[c]]

Counted(c, status) == seen' = [seen EXCEPT ![c][status] = @ + 1]

\* The statement is persisted, the object the session holds marked, and the difference
\* written.
DetectOk ==
  LET c == Least(detecting)
  IN  /\ detecting # {} /\ Present(c) /\ held[c] # Absent
      /\ UserWrites(c, Flush(held[c], MarkSyncOk(held[c]), row[c]))
      /\ GoOn(held)
      /\ Counted(c, "ok")
      /\ UNCHANGED <<requests, rotations, refused>>

\* Whatever fails, the rollback expires every object, and refresh reads the row again
\* before it is marked.
DetectFailed ==
  LET c == Least(detecting)
  IN  /\ detecting # {} /\ Present(c) /\ row[c].failures < MaxFailures
      /\ \E how \in {"auth", "transient"} :
           /\ \E why \in Reasons : UserWrites(c, Marked(row[c], how, why))
           /\ refused' = IF how = "auth" THEN refused \cup {c} ELSE refused
      /\ GoOn(NoneHeld)
      /\ Counted(c, "failed")
      /\ UNCHANGED <<requests, rotations>>

\* The row is gone: the detection ends in an error.
DetectGone ==
  /\ detecting # {} /\ ~Present(Least(detecting))
  /\ detecting' = {} /\ held' = NoneHeld
  /\ UNCHANGED <<row, log, lock, runVars, requests, rotations, touched, refused, seen>>

-----------------------------------------------------------------------------
RunStep(r) ==
  \/ Start(r) \/ Refuse(r) \/ Attempt(r) \/ Finish(r) \/ Record(r) \/ Abort(r) \/ Exit(r)
  \/ DisposeEngine(r) \/ ManualDone(r)

UserStep ==
  \/ \E c \in Connections : Create(c) \/ Disable(c) \/ Enable(c) \/ Delete(c) \/ RotateAsk(c)
  \/ \E t \in rotations : RotateDone(t) \/ RotateFail(t)

WizardStep == Step1Save \/ DetectBegin \/ DetectOk \/ DetectFailed \/ DetectGone

Next ==
  \/ \E r \in Runs : RunStep(r) \/ RecycleConnection(r) \/ Cancel(r)
  \/ Crash
  \/ UserStep
  \/ WizardStep

\* A run of the cron that has begun goes on: every wait for IBKR ends by a bounded
\* number of polls and retries (flex/client.py), and the finally always disposes.
\* Nothing obliges a user, a pooled connection or a restart; nor, for what is claimed
\* here, a manual run.
Continue(r) == Attempt(r) \/ Finish(r) \/ Record(r) \/ Abort(r) \/ Exit(r) \/ DisposeEngine(r)

Spec == Init /\ [][Next]_vars /\ \A r \in CronRuns : WF_vars(Continue(r))

-----------------------------------------------------------------------------
(* Properties *)

TypeOK ==
  /\ row \in [Connections -> Row \cup {Absent}]
  /\ \A c \in Connections : \A i \in DOMAIN log[c] : log[c][i] \in LogEntry
  /\ lock \in Runs \cup {NoRun}
  /\ pc \in [Runs -> Stage]
  /\ \A r \in Runs : DOMAIN snap[r] \subseteq Connections /\ todo[r] \subseteq DOMAIN snap[r]
  /\ \A r \in Runs : \A c \in DOMAIN snap[r] : snap[r][c] \in Row
  /\ outcome \in [Runs -> Outcome]
  /\ \A t \in rotations : t \in [id : Connections, loaded : Row]
  /\ detecting \subseteq Connections /\ held \in [Connections -> Row \cup {Absent}]
  /\ refused \subseteq touched

W4 == INSTANCE ConnectionState WITH conn <- row

\* Every change of a row is one atomic event of the W4 state machine, however long its
\* writer waited for IBKR with the object it loaded, unless somebody else wrote the row
\* meanwhile.  For a run that is a request: other runs write nothing, which is what the
\* advisory lock is for.
ImplementsW4 ==
  [][\A c \in Connections : row'[c] # row[c] =>
       \/ W4!UserEvent(c) \/ W4!SyncEvent(c)
       \/ \E r \in Runs : Record(r) /\ c \in touched
       \/ \E t \in rotations : RotateDone(t) /\ t.loaded # row[c]
       \/ DetectOk /\ held[c] # row[c]]_vars

\* Whatever users do, and however stale the object of the run, a run that ends in a
\* transient failure never turns a connection that waits for a new token into one that
\* does not (connection_state.py: reauth_required is not masked by transient failures),
\* but for one case: a detection of the wizard found the token refused while the run
\* had the row in memory.  Then the run's flush can write degraded over it.
ReauthSurvivesTransient ==
  [][\A r \in Runs, c \in Connections :
       (/\ pc[r] = "logged" /\ outcome[r] = "transient" /\ pc'[r] = "loop" /\ c = Current(r)
        /\ row[c].status = "reauth_required" /\ c \notin refused)
         => row'[c].status = "reauth_required"]_vars

Count(c, status) == Cardinality({i \in DOMAIN log[c] : log[c][i].status = status})
Witnesses(c, status) == Count(c, status) + seen[c][status]

\* The health columns are witnessed, across crashes and concurrent requests: every
\* failure counted has a failed row of its own in the ingest log, or a failed detection
\* of its own, which is not logged; and a last sync reported ok or failed has one that
\* says so.
HealthIsWitnessed ==
  \A c \in Connections : Present(c) =>
    /\ row[c].failures <= Witnesses(c, "failed")
    /\ row[c].lastSync # "none" => Witnesses(c, row[c].lastSync) > 0

Logged(r, c, status) == [run |-> number[r], status |-> status] \in {log[c][i] : i \in DOMAIN log[c]}

\* One connection's failure does not stop the others: a run that ends has
\* tried every connection it selected, reports each of them once, as its log row
\* does, and raises exactly when none succeeded.  One that stops before, because its
\* connection is gone, has tried and reported all those before it.
RunAccountsForAll ==
  \A r \in Runs :
    /\ pc[r] \in {"ended", "raised"} =>
         /\ results[r] \cup failures[r] = DOMAIN snap[r]
         /\ results[r] \cap failures[r] = {}
         /\ \A c \in results[r] : Present(c) => Logged(r, c, "ok")
         /\ \A c \in failures[r] : Present(c) => Logged(r, c, "failed")
         /\ pc[r] = "raised" <=> results[r] = {}
    /\ pc[r] = "aborted" =>
         /\ todo[r] # {}
         /\ results[r] \cup failures[r] = DOMAIN snap[r] \ todo[r]

\* The cron never keeps an organization locked: whatever happens in its run, the
\* lock it took is free again.
CronLetsGo == \A r \in CronRuns : lock = r ~> lock # r

\* What connection_state.py:4 promises, on the stored row: a disabled connection
\* is enabled by nobody but a user.  The code does not keep it.
DisabledIsSticky ==
  [][\A c \in Connections :
       (Present(c) /\ row[c].status = "disabled" /\ row'[c] # Absent) =>
         row'[c].status = "disabled" \/ Enable(c)]_vars
=============================================================================
