------------------------------ MODULE TrmIngest -----------------------------
(***************************************************************************)
(* ingest/trm: the official exchange rate, one row per day, kept up to     *)
(* date from a public dataset that publishes one row per range of days.    *)
(*                                                                         *)
(* A run takes the lock of its source, which is the same for every         *)
(* organization, reads the latest range start that is stored, asks for the *)
(* ranges that start after it (or for all of them: the full backfill of    *)
(* the wizard), expands them into days, writes them and commits once.  A   *)
(* run that does not get the lock does nothing, and is left out.           *)
(*                                                                         *)
(* Days are numbers from 1; 0 stands for no start at all.  A rate is the   *)
(* version of the row it comes from: 1 as published, more when corrected.  *)
(* The dataset publishes its ranges in order.                              *)
(***************************************************************************)
EXTENDS Naturals, FiniteSetsExt

CONSTANTS
  Runs,        \* runs that can be under way at a time: cron, wizard, manual
  PageLimit,   \* rows one request brings at most
  None,        \* nobody has the lock
  MaxRows, MaxVersion, MaxRuns   \* bounds

VARIABLES
  source,    \* the dataset: its rows, [from, to, version, good]
  days,      \* trm_days: day -> [from, to, version]
  imports,   \* trm_imports: the ranges of days of the runs that stored any
  lock,      \* who has the advisory lock ("trm", None)
  pc,        \* per run: idle, fetching or storing
  since,     \* per run: it asks for ranges that start later
  page,      \* per run: what it was given
  begun,     \* runs begun so far
  taken      \* history: rows in the pages of runs that committed

vars == <<source, days, imports, lock, pc, since, page, begun, taken>>

\* MAX(vigencia_desde) of the days that are stored.
Mark == IF DOMAIN days = {} THEN 0 ELSE Max({days[d].from : d \in DOMAIN days})

\* expand_vigencias: a row that does not parse is passed over.
Expand(rows) == UNION {{[day |-> d, row |-> r] : d \in r.from..r.to} : r \in {x \in rows : x.good}}

Init ==
  /\ source = {} /\ days = <<>> /\ imports = {} /\ taken = {}
  /\ lock = None
  /\ pc = [r \in Runs |-> "idle"]
  /\ since = [r \in Runs |-> 0]
  /\ page = [r \in Runs |-> {}]
  /\ begun = 0

\* The dataset gets its next range, or another version of a row.
Publish ==
  /\ Cardinality(source) < MaxRows
  /\ LET first == IF source = {} THEN 1 ELSE Max({row.to : row \in source}) + 1
     IN  \E last \in first..(first + 1), good \in BOOLEAN :
           source' = source \cup {[from |-> first, to |-> last, version |-> 1, good |-> good]}
  /\ UNCHANGED <<days, imports, lock, pc, since, page, begun, taken>>

Correct ==
  /\ \E row \in source, good \in BOOLEAN :
       /\ row.version < MaxVersion
       /\ source' = (source \ {row}) \cup {[row EXCEPT !.version = @ + 1, !.good = good]}
  /\ UNCHANGED <<days, imports, lock, pc, since, page, begun, taken>>

\* Mutant: without the lock.
BeginUnlocked(r, full) ==
  /\ pc[r] = "idle" /\ begun < MaxRuns
  /\ begun' = begun + 1
  /\ since' = [since EXCEPT ![r] = IF full THEN 0 ELSE Mark]
  /\ pc' = [pc EXCEPT ![r] = "fetching"]
  /\ UNCHANGED <<source, days, imports, lock, page, taken>>

\* The lock, and where to go on from.
Begin(r, full) ==
  /\ pc[r] = "idle" /\ lock = None /\ begun < MaxRuns
  /\ begun' = begun + 1
  /\ lock' = r
  /\ since' = [since EXCEPT ![r] = IF full THEN 0 ELSE Mark]
  /\ pc' = [pc EXCEPT ![r] = "fetching"]
  /\ UNCHANGED <<source, days, imports, page, taken>>

\* Ranges that start after since, the first of them up to the limit of a page.
Reply(after) ==
  LET later == {row \in source : row.from > after}
  IN  {row \in later : Cardinality({x \in later : x.from < row.from}) < PageLimit}

Fetch(r) ==
  /\ pc[r] = "fetching"
  /\ page' = [page EXCEPT ![r] = Reply(since[r])]
  /\ pc' = [pc EXCEPT ![r] = "storing"]
  /\ UNCHANGED <<source, days, imports, lock, since, begun, taken>>

\* The transaction ends and the lock is let go.
End(r) ==
  /\ pc' = [pc EXCEPT ![r] = "idle"]
  /\ since' = [since EXCEPT ![r] = 0]
  /\ page' = [page EXCEPT ![r] = {}]
  /\ lock' = IF lock = r THEN None ELSE lock
  /\ UNCHANGED <<source, begun>>

\* bulk_upsert_days, record_import and the commit; nothing to write if nothing was given.
\* Only rows that parsed give days: if there are rows and no days, min() of no dates
\* raises, and what is left is to fail.
Store(r) ==
  LET expanded == Expand(page[r])
      Of(d) == (CHOOSE e \in expanded : e.day = d).row
      brought == {e.day : e \in expanded}
  IN  /\ pc[r] = "storing" /\ (page[r] = {} \/ expanded # {})
      /\ days' = [d \in DOMAIN days \cup brought |->
                    IF d \in brought THEN [from |-> Of(d).from, to |-> Of(d).to, version |-> Of(d).version]
                                     ELSE days[d]]
      /\ imports' = imports \cup (IF brought = {} THEN {} ELSE {[from |-> Min(brought), to |-> Max(brought)]})
      /\ taken' = taken \cup page[r]
      /\ End(r)

\* An error of the dataset or of the database, rows of which none parses, or a crash.
Fail(r) ==
  /\ pc[r] # "idle"
  /\ End(r)
  /\ UNCHANGED <<days, imports, taken>>

Next ==
  \/ Publish \/ Correct
  \/ \E r \in Runs :
       \/ \E full \in BOOLEAN : Begin(r, full)
       \/ Fetch(r) \/ Store(r) \/ Fail(r)

Spec == Init /\ [][Next]_vars

-----------------------------------------------------------------------------
(* Properties *)

\* A day lies in its range, which some import brought, and a run at work has the lock.
TypeOK ==
  /\ pc \in [Runs -> {"idle", "fetching", "storing"}]
  /\ since \in [Runs -> Nat]
  /\ \A r \in Runs : pc[r] # "idle" <=> lock = r
  /\ \A d \in DOMAIN days : days[d].from <= d /\ d <= days[d].to /\ days[d].version \in 1..MaxVersion
  /\ \A d \in DOMAIN days : \E i \in imports : i.from <= d /\ d <= i.to

\* Below the start from which the next run goes on, no range was missed, and each day has
\* the newest rate of its range that any run was ever given: no gap is left, no later run
\* takes a day back to an older rate, however increments, full backfills, corrections and
\* failures follow each other.  (A range that did not parse when it was given is not asked
\* for again by an increment.)
RatesFollowSource ==
  \A row \in source : row.from <= Mark =>
    LET given == {x \in taken : x.from = row.from}
        parsed == {x \in given : x.good}
    IN  /\ given # {}
        /\ parsed # {} => \A d \in row.from..row.to :
             d \in DOMAIN days /\ days[d].version = Max({x.version : x \in parsed})
=============================================================================
