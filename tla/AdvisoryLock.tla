---------------------------- MODULE AdvisoryLock ----------------------------
(***************************************************************************)
(* ingest/lock.py on a connection pool.  Postgres gives an advisory lock   *)
(* to a database session, counts how often that session took it, and       *)
(* refuses it to the others.  The code takes and releases it through a     *)
(* SQLAlchemy session, which has a database session only while a           *)
(* transaction is open: a commit puts it back in the engine's pool (first  *)
(* in, first out) and the next statement takes out the one whose turn it   *)
(* is.  Flex runs commit several times between the two; so does trm/job.py *)
(* once.  The cron has an engine of its own; manual runs and API requests  *)
(* share one.                                                              *)
(***************************************************************************)
EXTENDS Integers, FiniteSets, Sequences

CONSTANTS
  Runs,          \* tasks that run under the lock
  Crons,         \* those of them on an engine of their own, disposed at the end
  Requests,      \* API requests, which only use the pool
  Engines,
  Sessions,      \* database sessions an engine may have open at once
  EngineOf,      \* [Runs \cup Requests -> Engines]
  HomeOf,        \* [Sessions -> Engines]: pool_size + max_overflow of them each
  Keys,          \* advisory lock keys, one per source and organization
  KeyOf,         \* [Runs -> Keys]
  PoolSize,      \* idle sessions a pool keeps; those beyond are overflow
  NoSession,
  MaxCommits,    \* bound on the commits of a run
  MaxStarts      \* bound on the runs started

ASSUME PoolAssumption ==
  /\ IsFiniteSet(Runs) /\ Crons \subseteq Runs
  /\ EngineOf \in [Runs \cup Requests -> Engines]
  /\ HomeOf \in [Sessions -> Engines]
  /\ NoSession \notin Sessions
  /\ KeyOf \in [Runs -> Keys]
  /\ PoolSize \in Nat \ {0} /\ MaxCommits \in Nat /\ MaxStarts \in Nat

\* Only its own run uses the engine of a cron.
ASSUME CronAssumption ==
  \A r \in Crons, p \in Runs \cup Requests : p # r => EngineOf[p] # EngineOf[r]

VARIABLES
  locks,    \* [Sessions -> [Keys -> Nat]]: how often the session holds each key
  pool,     \* [Engines -> Seq(Sessions)]: idle sessions
  out,      \* [Runs \cup Requests -> Sessions, or NoSession]: the one checked out
  pc,       \* [Runs -> {"idle", "locked", "ended"}]
  left,     \* [Runs -> 0..MaxCommits]: commits before the run is over
  started,  \* runs started so far
  at,       \* history: the session that took the lock for the run
  lost      \* history: keys whose lock went with a session the pool closed

vars == <<locks, pool, out, pc, left, started, at, lost>>

Users == Runs \cup Requests

Init ==
  /\ locks = [s \in Sessions |-> [k \in Keys |-> 0]]
  /\ pool = [e \in Engines |-> <<>>]
  /\ out = [p \in Users |-> NoSession]
  /\ pc = [r \in Runs |-> "idle"]
  /\ left = [r \in Runs |-> 0]
  /\ started = 0
  /\ at = [r \in Runs |-> NoSession]
  /\ lost = {}

-----------------------------------------------------------------------------
(* The pool *)

Elements(seq) == {seq[i] : i \in DOMAIN seq}

\* Sessions of the engine that are not open.
Unopened(e) == {s \in Sessions : /\ HomeOf[s] = e
                                 /\ s \notin Elements(pool[e])
                                 /\ \A p \in Users : out[p] # s}

\* What p may be given: the session that has been idle longest or, when none is
\* idle, a new one.
Offered(p) ==
  LET e == EngineOf[p]
  IN  IF pool[e] # <<>> THEN {Head(pool[e])} ELSE Unopened(e)

\* The idle sessions after the checkout.
Taken(e) == IF pool[e] # <<>> THEN Tail(pool[e]) ELSE <<>>

Holding(s) == {k \in Keys : locks[s][k] > 0}

Unlocked == [k \in Keys |-> 0]

\* A session returned to a pool that is full is closed.
Overflows(e, idle) == Len(idle) >= PoolSize

Returned(e, idle, s) == [pool EXCEPT ![e] = IF Overflows(e, idle) THEN idle ELSE Append(idle, s)]

\* Checked out and returned within one action: to the idle ones it leaves.
KeepOrClose(e, idle, s, held) ==
  IF Overflows(e, idle)
  THEN /\ locks' = [locks EXCEPT ![s] = Unlocked]
       /\ lost' = lost \cup {k \in Keys : held[k] > 0}
  ELSE /\ locks' = [locks EXCEPT ![s] = held]
       /\ UNCHANGED lost

-----------------------------------------------------------------------------
(* A run under the lock *)

\* Mutant: the lock is not asked for.
GrantsAlways(s, k) == k \in Keys /\ s \in Sessions

\* pg_try_advisory_lock succeeds in session s.
Grants(s, k) == \A t \in Sessions : t # s => locks[t][k] = 0

Acquire(r) ==
  /\ pc[r] = "idle" /\ started < MaxStarts
  /\ \E s \in Offered(r), n \in 0..MaxCommits :
       /\ Grants(s, KeyOf[r])
       /\ locks' = [locks EXCEPT ![s][KeyOf[r]] = @ + 1]
       /\ out' = [out EXCEPT ![r] = s]
       /\ at' = [at EXCEPT ![r] = s]
       /\ left' = [left EXCEPT ![r] = n]
  /\ pool' = [pool EXCEPT ![EngineOf[r]] = Taken(EngineOf[r])]
  /\ pc' = [pc EXCEPT ![r] = "locked"]
  /\ started' = started + 1
  /\ UNCHANGED lost

\* LockHeldError: the session goes back at once.
Refuse(r) ==
  /\ pc[r] = "idle" /\ started < MaxStarts
  /\ \E s \in Offered(r) :
       /\ ~Grants(s, KeyOf[r])
       /\ pool' = Returned(EngineOf[r], Taken(EngineOf[r]), s)
       /\ KeepOrClose(EngineOf[r], Taken(EngineOf[r]), s, locks[s])
  /\ pc' = [pc EXCEPT ![r] = "ended"]
  /\ started' = started + 1
  /\ UNCHANGED <<out, left, at>>

\* A commit of ingest_log_entry or of a transition: the session goes back.
Commit(r) ==
  /\ pc[r] = "locked" /\ left[r] > 0 /\ out[r] # NoSession
  /\ left' = [left EXCEPT ![r] = @ - 1]
  /\ pool' = Returned(EngineOf[r], pool[EngineOf[r]], out[r])
  /\ KeepOrClose(EngineOf[r], pool[EngineOf[r]], out[r], locks[out[r]])
  /\ out' = [out EXCEPT ![r] = NoSession]
  /\ UNCHANGED <<pc, started, at>>

\* The next statement takes a session out again, perhaps another one.
Checkout(p) ==
  /\ out[p] = NoSession
  /\ \E s \in Offered(p) : out' = [out EXCEPT ![p] = s]
  /\ pool' = [pool EXCEPT ![EngineOf[p]] = Taken(EngineOf[p])]
  /\ UNCHANGED <<locks, pc, left, started, at, lost>>

Resume(r) == pc[r] = "locked" /\ Checkout(r)

\* pool_recycle: the session whose turn it is has grown too old and is closed; a
\* new one is opened in its place.
Recycle(e) ==
  /\ pool[e] # <<>> /\ Holding(Head(pool[e])) # {}
  /\ lost' = lost \cup Holding(Head(pool[e]))
  /\ locks' = [locks EXCEPT ![Head(pool[e])] = Unlocked]
  /\ UNCHANGED <<pool, out, pc, left, started, at>>

\* The SQLAlchemy session is closed and what it has checked out goes back.
CloseSession(r, held) ==
  /\ pool' = Returned(EngineOf[r], pool[EngineOf[r]], out[r])
  /\ KeepOrClose(EngineOf[r], pool[EngineOf[r]], out[r], held)
  /\ out' = [out EXCEPT ![r] = NoSession]

\* Mutant: pg_advisory_unlock_all.
NoneLeft(n) == n - n

\* Mutant: the count of a lock that is not held goes down all the same.
OneLessNegative(n) == n - 1

\* pg_advisory_unlock in the session the run has now: one less, or a warning.
OneLess(n) == IF n = 0 THEN 0 ELSE n - 1

Unlock(r) ==
  /\ pc[r] = "locked" /\ left[r] = 0 /\ out[r] # NoSession
  /\ CloseSession(r, [locks[out[r]] EXCEPT ![KeyOf[r]] = OneLess(@)])
  /\ pc' = [pc EXCEPT ![r] = "ended"]
  /\ at' = [at EXCEPT ![r] = NoSession]
  /\ UNCHANGED <<left, started>>

\* A failed flush has left the session unusable: the unlock itself raises.
FailToUnlock(r) ==
  /\ pc[r] = "locked" /\ out[r] # NoSession
  /\ CloseSession(r, locks[out[r]])
  /\ pc' = [pc EXCEPT ![r] = "ended"]
  /\ left' = [left EXCEPT ![r] = 0]
  /\ at' = [at EXCEPT ![r] = NoSession]
  /\ UNCHANGED started

\* Mutant: the cron leaves its engine to the garbage collector.
DisposeNothing(r) ==
  /\ r \in Crons /\ pc[r] = "ended"
  /\ pc' = [pc EXCEPT ![r] = "idle"]
  /\ UNCHANGED <<locks, pool, out, left, started, at, lost>>

\* The finally of the cron: engine.dispose() closes every session of the engine.
Dispose(r) ==
  /\ r \in Crons /\ pc[r] = "ended"
  /\ locks' = [s \in Sessions |-> IF HomeOf[s] = EngineOf[r] THEN Unlocked ELSE locks[s]]
  /\ pool' = [pool EXCEPT ![EngineOf[r]] = <<>>]
  /\ pc' = [pc EXCEPT ![r] = "idle"]
  /\ UNCHANGED <<out, left, started, at, lost>>

\* _run_manual ends; the shared engine stays.
Leave(r) ==
  /\ r \notin Crons /\ pc[r] = "ended"
  /\ pc' = [pc EXCEPT ![r] = "idle"]
  /\ UNCHANGED <<locks, pool, out, left, started, at, lost>>

-----------------------------------------------------------------------------
(* An API request: one transaction *)

Serve(q) == Checkout(q)

\* Mutant: a handler that does not give its session back.
AnswerKeeps(q) == out[q] # NoSession /\ UNCHANGED vars

Answer(q) ==
  /\ out[q] # NoSession
  /\ pool' = Returned(EngineOf[q], pool[EngineOf[q]], out[q])
  /\ KeepOrClose(EngineOf[q], pool[EngineOf[q]], out[q], locks[out[q]])
  /\ out' = [out EXCEPT ![q] = NoSession]
  /\ UNCHANGED <<pc, left, started, at>>

-----------------------------------------------------------------------------
Go(r) == Commit(r) \/ Resume(r) \/ Unlock(r) \/ FailToUnlock(r) \/ Dispose(r) \/ Leave(r)

Next ==
  \/ \E r \in Runs : Acquire(r) \/ Refuse(r) \/ Go(r)
  \/ \E q \in Requests : Serve(q) \/ Answer(q)
  \/ \E e \in Engines : Recycle(e)

\* Waiting users are served in order of arrival (the pool's queue is an asyncio
\* queue), so nobody waits for ever while sessions keep coming back: strong
\* fairness.  Requests answer.
Spec ==
  /\ Init /\ [][Next]_vars
  /\ \A r \in Runs : SF_vars(Go(r))
  /\ \A q \in Requests : WF_vars(Answer(q))

-----------------------------------------------------------------------------
(* Properties *)

TypeOK ==
  /\ locks \in [Sessions -> [Keys -> Nat]]
  /\ pool \in [Engines -> Seq(Sessions)]
  /\ out \in [Users -> Sessions \cup {NoSession}]
  /\ pc \in [Runs -> {"idle", "locked", "ended"}]
  /\ left \in [Runs -> 0..MaxCommits]
  /\ at \in [Runs -> Sessions \cup {NoSession}]
  /\ started \in Nat
  /\ lost \subseteq Keys

\* The runs at work whose lock was taken for key k in session s.
Holders(s, k) == {r \in Runs : pc[r] = "locked" /\ at[r] = s /\ KeyOf[r] = k}

\* Until the pool closes a session that holds the key, every run at work is
\* covered: the session that took the lock for it still counts it, even when its
\* own unlock or another run's goes through another session.
CountCovers ==
  \A k \in Keys \ lost : \A s \in Sessions : locks[s][k] >= Cardinality(Holders(s, k))

\* Until then a cron run is alone: no other run of the organization is at work at
\* the same time, however many locks earlier manual runs have left in their pool.
CronAlone ==
  \A r \in Crons, q \in Runs :
    (r # q /\ pc[r] = "locked" /\ pc[q] = "locked" /\ KeyOf[r] = KeyOf[q]) => KeyOf[r] \in lost

\* A cron that is over has left no lock behind, whatever its run raised.
CronLeavesNothing ==
  \A r \in Crons : pc[r] = "idle" => \A s \in Sessions : HomeOf[s] = EngineOf[r] => Holding(s) = {}

\* A run that has the lock ends: the pool runs dry only for a while, since nobody
\* waits for a session while holding one.
RunsEnd == \A r \in Runs : pc[r] = "locked" ~> pc[r] # "locked"

\* What the docstring of flex/job.py::run promises of the lock: no two runs of
\* one organization at the same time.  The code does not keep it, even while no
\* session is closed under a run.
MutualExclusion ==
  \A r, q \in Runs :
    (r # q /\ pc[r] = "locked" /\ pc[q] = "locked" /\ KeyOf[r] \notin lost) => KeyOf[r] # KeyOf[q]
=============================================================================
