----------------------------- MODULE ImportStore ----------------------------
(***************************************************************************)
(* What becomes of an XML statement of one organization:                   *)
(* flex/job.py::ingest_xml (uploads, which take no lock) and the second    *)
(* half of _run_one_connection (the fetch of the flex run, one at a time)  *)
(* around flex/persister.py::persist.                                      *)
(*                                                                         *)
(* Every ingest is one READ COMMITTED transaction with a savepoint around  *)
(* the parser and the persister.  A statement sees what others have        *)
(* committed before it; a write waits for the transaction that wrote the   *)
(* same row before.  Stages of a process below stand between statements.   *)
(*                                                                         *)
(* The rows of a statement are abstracted to the snapshot tables (open     *)
(* lots and accruals): one value per natural key, updated by the latest    *)
(* statement that carries it, with a restatement_log entry if it changed.  *)
(* The rows one SQL statement touches are locked at once; an ingest that   *)
(* waits for rows of another one which waits for it is a deadlock, and     *)
(* Postgres fails one of the two.                                          *)
(***************************************************************************)
EXTENDS Naturals, FiniteSets

CONSTANTS
  Uploads,      \* processes of POST /imports/upload
  Fetches,      \* the fetch of the flex run, at most one
  Docs,         \* XML statements, told apart by their hash
  Bad,          \* those the parser refuses
  SealedDocs,   \* those whose period reaches the end of their year
  Years, YearOf,   \* YearOf \in [Docs -> Years]
  Keys,         \* natural keys of snapshot rows
  Values, NoValue, \* NoValue: the statement, or the table, has no such row
  RowOf,        \* [Docs -> [Keys -> Values \cup {NoValue}]]
  NoDoc,
  MaxIngests    \* bound on the statements received

ASSUME StoreAssumption ==
  /\ Uploads \cap Fetches = {}
  /\ Bad \subseteq Docs /\ SealedDocs \subseteq Docs
  /\ YearOf \in [Docs -> Years]
  /\ NoValue \notin Values
  /\ RowOf \in [Docs -> [Keys -> Values \cup {NoValue}]]
  /\ NoDoc \notin Docs
  /\ MaxIngests \in Nat

VARIABLES
  imports,    \* [Docs -> Import, or Absent]: flex_imports, UNIQUE on the hash
  stored,     \* [Keys -> Values, or NoValue]: the snapshot tables
  owner,      \* [Keys -> Docs, or NoDoc]: their flex_import_id, ON DELETE SET NULL
  restated,   \* restatement_log; by is its flex_import_id as inserted
  log,        \* the kinds of closed ingest_log rows there are
  pc, doc,    \* per process: stage and statement at hand
  audit,      \* per process: restatements found, not yet committed
  evicts,     \* per process: statements its DELETE removed, not yet committed
  cause,      \* per process: why its persister failed
  received,   \* statements received so far
  alone       \* history: the process whose transaction has met no other, if any

procVars == <<pc, doc, audit, evicts, cause>>
tables == <<imports, stored, owner, restated, log>>
vars == <<tables, procVars, received, alone>>

Processes == Uploads \cup Fetches
Source(p) == IF p \in Uploads THEN "manual_upload" ELSE "web_service"

Absent == [status |-> "absent", source |-> "none"]
Import == [status : {"ok", "poison"}, source : {"manual_upload", "web_service"}]
Restatement == [key : Keys, old : Values, new : Values, by : Docs]
LogKind == [doc : Docs, status : {"ok", "failed"}, new : BOOLEAN]

Known(d) == imports[d] # Absent
KeysOf(d) == {k \in Keys : RowOf[d][k] # NoValue}

Init ==
  /\ imports = [d \in Docs |-> Absent]
  /\ stored = [k \in Keys |-> NoValue]
  /\ owner = [k \in Keys |-> NoDoc]
  /\ restated = {}
  /\ log = {}
  /\ pc = [p \in Processes |-> "idle"]
  /\ doc = [p \in Processes |-> NoDoc]
  /\ audit = [p \in Processes |-> {}]
  /\ evicts = [p \in Processes |-> {}]
  /\ cause = [p \in Processes |-> "none"]
  /\ received = 0
  /\ alone = {}

Goto(p, stage) == pc' = [pc EXCEPT ![p] = stage]

InTx(p) == pc[p] \notin {"idle", "received"}
HasImport(p) == pc[p] \in {"auditing", "upserting", "evicting", "committing"}
HasRows(p) == pc[p] \in {"evicting", "committing"}

\* Another transaction has inserted or deleted, and not committed, the import of d.
ImportLocked(d, p) ==
  \E q \in Processes \ {p} : (HasImport(q) /\ doc[q] = d) \/ d \in evicts[q]

-----------------------------------------------------------------------------
(* One ingest *)

\* An upload is refused with 409 when its hash is known, with 400 when the parser
\* refuses it; the flex run looks at nothing before it opens its log row.
Receive(p, d) ==
  /\ pc[p] = "idle" /\ received < MaxIngests
  /\ p \in Uploads => ~Known(d) /\ d \notin Bad
  /\ received' = received + 1
  /\ doc' = [doc EXCEPT ![p] = d]
  /\ Goto(p, "received")
  /\ UNCHANGED <<tables, audit, evicts, cause, alone>>

\* Mutant: the statement stays attached to a process that is done with it.
CloseKeepsDoc(p, kind) ==
  /\ log' = log \cup {kind}
  /\ Goto(p, "idle")
  /\ audit' = [audit EXCEPT ![p] = {}]
  /\ evicts' = [evicts EXCEPT ![p] = {}]
  /\ cause' = [cause EXCEPT ![p] = "none"]
  /\ UNCHANGED <<doc, received>>

\* The transaction is over.
Close(p, kind) ==
  /\ log' = log \cup {kind}
  /\ Goto(p, "idle")
  /\ doc' = [doc EXCEPT ![p] = NoDoc]
  /\ audit' = [audit EXCEPT ![p] = {}]
  /\ evicts' = [evicts EXCEPT ![p] = {}]
  /\ cause' = [cause EXCEPT ![p] = "none"]
  /\ UNCHANGED received

Duplicate(p) == [doc |-> doc[p], status |-> "ok", new |-> FALSE]

\* The log row, check_hash_status, and the early return for a known hash.
Check(p) ==
  /\ pc[p] = "received"
  /\ alone' = IF \E q \in Processes : InTx(q) THEN {} ELSE {p}
  /\ \/ /\ ~Known(doc[p])
        /\ Goto(p, "parsing")
        /\ UNCHANGED <<tables, doc, audit, evicts, cause, received>>
     \/ /\ Known(doc[p])
        /\ Close(p, Duplicate(p))
        /\ UNCHANGED <<imports, stored, owner, restated>>

\* The parser accepts the statement and persist looks for its hash once more.
Recheck(p) ==
  /\ pc[p] = "parsing" /\ doc[p] \notin Bad
  /\ \/ /\ ~Known(doc[p])
        /\ Goto(p, "inserting")
        /\ UNCHANGED <<tables, doc, audit, evicts, cause, received, alone>>
     \/ /\ Known(doc[p])
        /\ Close(p, Duplicate(p))
        /\ UNCHANGED <<imports, stored, owner, restated, alone>>

\* The INSERT into flex_imports, which waits for an uncommitted one of the hash.
Insert(p) ==
  /\ pc[p] = "inserting"
  /\ ~ImportLocked(doc[p], p)
  /\ ~Known(doc[p])
  /\ Goto(p, "auditing")
  /\ UNCHANGED <<tables, doc, audit, evicts, cause, received, alone>>

\* Mutant: the upsert writes without comparing first.
AuditNothing(p) ==
  /\ pc[p] = "auditing"
  /\ Goto(p, "upserting")
  /\ UNCHANGED <<tables, doc, audit, evicts, cause, received, alone>>

\* The SELECT of _upsert_snapshot_with_audit, and what differs.
Audit(p) ==
  LET d == doc[p]
      changed == {k \in KeysOf(d) : stored[k] \notin {NoValue, RowOf[d][k]}}
  IN  /\ pc[p] = "auditing"
      /\ audit' = [audit EXCEPT ![p] =
                     {[key |-> k, old |-> stored[k], new |-> RowOf[d][k], by |-> d] : k \in changed}]
      /\ Goto(p, "upserting")
      /\ UNCHANGED <<tables, doc, evicts, cause, received, alone>>

\* Mutant: the upsert waits for every ingest that has begun to write.
UpsertInTurn(p) ==
  /\ pc[p] = "upserting"
  /\ \A q \in Processes \ {p} : ~HasImport(q)
  /\ Goto(p, "evicting")
  /\ UNCHANGED <<tables, doc, audit, evicts, cause, received, alone>>

\* The rows p has written and not committed: those of its statement, and those of
\* the imports it deletes, whose flex_import_id becomes null.
Nulled(d) == {k \in Keys : owner[k] = d}
LockedRows(p) ==
  (IF HasRows(p) THEN KeysOf(doc[p]) ELSE {}) \cup UNION {Nulled(d) : d \in evicts[p]}

\* The INSERT ... ON CONFLICT DO UPDATE, which waits for uncommitted rows.
Upsert(p) ==
  /\ pc[p] = "upserting"
  /\ \A q \in Processes \ {p} : LockedRows(q) \cap KeysOf(doc[p]) = {}
  /\ Goto(p, "evicting")
  /\ UNCHANGED <<tables, doc, audit, evicts, cause, received, alone>>

\* Mutant: the DELETE forgets year_status = 'rolling'.
EvictedWithSealed(p) ==
  {d \in Docs \ {doc[p]} : /\ imports[d] = [status |-> "ok", source |-> Source(p)]
                           /\ YearOf[d] = YearOf[doc[p]]}

\* Mutant: the DELETE cleans up the poison rows instead.
EvictedPoison(p) ==
  {d \in Docs \ {doc[p]} : imports[d] = [status |-> "poison", source |-> Source(p)]}

\* Cleanup R1: the other rolling imports of the year and source, as far as they
\* are committed.
Evicted(p) ==
  {d \in Docs \ {doc[p]} : /\ imports[d] = [status |-> "ok", source |-> Source(p)]
                           /\ YearOf[d] = YearOf[doc[p]]
                           /\ d \notin SealedDocs}

\* The DELETE of p waits for q: for an import q deletes too, or for a row of q that
\* belongs to an import p deletes.
WaitsFor(p, q) ==
  /\ pc[p] = "evicting" /\ q # p
  /\ \E d \in Evicted(p) : d \in evicts[q] \/ Nulled(d) \cap LockedRows(q) # {}

Evict(p) ==
  /\ pc[p] = "evicting"
  /\ \A q \in Processes : ~WaitsFor(p, q)
  /\ evicts' = [evicts EXCEPT ![p] = Evicted(p)]
  /\ Goto(p, "committing")
  /\ UNCHANGED <<tables, doc, audit, cause, received, alone>>

Written(d) == [k \in Keys |-> IF k \in KeysOf(d) THEN RowOf[d][k] ELSE stored[k]]

\* The savepoint is released and the log row committed as ok with the rest.
Commit(p) ==
  /\ pc[p] = "committing"
  /\ imports' = [d \in Docs |-> IF d = doc[p] THEN [status |-> "ok", source |-> Source(p)]
                                ELSE IF d \in evicts[p] THEN Absent ELSE imports[d]]
  /\ stored' = Written(doc[p])
  /\ owner' = [k \in Keys |-> IF k \in KeysOf(doc[p]) THEN doc[p]
                              ELSE IF owner[k] \in evicts[p] THEN NoDoc ELSE owner[k]]
  /\ restated' = restated \cup audit[p]
  /\ Close(p, [doc |-> doc[p], status |-> "ok", new |-> TRUE])
  /\ UNCHANGED alone

-----------------------------------------------------------------------------
(* Failure *)

RollBack(p, why) ==
  /\ Goto(p, "poisoning")
  /\ audit' = [audit EXCEPT ![p] = {}]
  /\ evicts' = [evicts EXCEPT ![p] = {}]
  /\ cause' = [cause EXCEPT ![p] = why]
  /\ UNCHANGED <<tables, doc, received, alone>>

\* The parser refuses the statement.
FailToParse(p) == pc[p] = "parsing" /\ doc[p] \in Bad /\ RollBack(p, "parser")

\* The database refuses a statement of the persister, or goes away for a moment.
FailToPersist(p) ==
  /\ pc[p] \in {"parsing", "inserting"} \/ HasImport(p)
  /\ doc[p] \notin Bad
  /\ RollBack(p, "database")

\* Two DELETEs wait for each other, and the database fails one of them.
Deadlock(p) ==
  /\ \E q \in Processes : WaitsFor(p, q) /\ WaitsFor(q, p)
  /\ RollBack(p, "deadlock")

\* The INSERT meets the UNIQUE of a row committed since the hash was looked for.
FailToInsert(p) ==
  /\ pc[p] = "inserting"
  /\ ~ImportLocked(doc[p], p)
  /\ Known(doc[p])
  /\ RollBack(p, "duplicate")

Failed(p) == [doc |-> doc[p], status |-> "failed", new |-> FALSE]

\* Mutant: the poison row is written inside the savepoint that is rolled back.
PoisonLost(p) ==
  /\ pc[p] = "poisoning"
  /\ Close(p, Failed(p))
  /\ UNCHANGED <<imports, stored, owner, restated, alone>>

\* Mutant: no savepoint, so the commit of the log row takes half the rows along.
PoisonWithRows(p) ==
  /\ pc[p] = "poisoning" /\ ~ImportLocked(doc[p], p)
  /\ imports' = [imports EXCEPT ![doc[p]] =
                   IF @ = Absent THEN [status |-> "poison", source |-> Source(p)] ELSE @]
  /\ stored' = Written(doc[p])
  /\ Close(p, Failed(p))
  /\ UNCHANGED <<owner, restated, alone>>

\* The poison row, ON CONFLICT DO NOTHING, and the log row as failed.
Poison(p) ==
  /\ pc[p] = "poisoning" /\ ~ImportLocked(doc[p], p)
  /\ imports' = [imports EXCEPT ![doc[p]] =
                   IF @ = Absent THEN [status |-> "poison", source |-> Source(p)] ELSE @]
  /\ Close(p, Failed(p))
  /\ UNCHANGED <<stored, owner, restated, alone>>

\* The process dies: its transactions never were.
Crash ==
  /\ \E p \in Processes : InTx(p)
  /\ pc' = [p \in Processes |-> "idle"]
  /\ doc' = [p \in Processes |-> NoDoc]
  /\ audit' = [p \in Processes |-> {}]
  /\ evicts' = [p \in Processes |-> {}]
  /\ cause' = [p \in Processes |-> "none"]
  /\ alone' = {}
  /\ UNCHANGED <<tables, received>>

\* scripts/poison_reset.py.
ResetPoison(d) ==
  /\ imports[d].status = "poison"
  /\ imports' = [imports EXCEPT ![d] = Absent]
  /\ UNCHANGED <<stored, owner, restated, log, procVars, received, alone>>

-----------------------------------------------------------------------------
\* What p does of its own accord.
Progress(p) ==
  \/ Check(p) \/ Recheck(p) \/ Insert(p) \/ Audit(p) \/ Upsert(p) \/ Evict(p) \/ Commit(p)
  \/ FailToParse(p) \/ FailToInsert(p) \/ Deadlock(p) \/ Poison(p)

Next ==
  \/ \E p \in Processes : Progress(p) \/ FailToPersist(p) \/ \E d \in Docs : Receive(p, d)
  \/ \E d \in Docs : ResetPoison(d)
  \/ Crash

\* A transaction that can go on does; nothing obliges the database to fail, so it
\* is no way out for transactions that wait for each other.
Spec == Init /\ [][Next]_vars /\ \A p \in Processes : WF_vars(Progress(p))

-----------------------------------------------------------------------------
(* Properties *)

TypeOK ==
  /\ imports \in [Docs -> Import \cup {Absent}]
  /\ stored \in [Keys -> Values \cup {NoValue}]
  /\ owner \in [Keys -> Docs \cup {NoDoc}]
  /\ restated \subseteq Restatement
  /\ log \subseteq LogKind
  /\ doc \in [Processes -> Docs \cup {NoDoc}]
  /\ \A p \in Processes : doc[p] = NoDoc <=> pc[p] = "idle"
  /\ \A p \in Processes : audit[p] \subseteq Restatement /\ evicts[p] \subseteq Docs \ {doc[p]}

Ingested(d) == [doc |-> d, status |-> "ok", new |-> TRUE] \in log

\* An ingest happens altogether or not at all, whatever fails and wherever the
\* process dies: every stored value, restatement and ok import is of a statement
\* whose ingest ended ok, and a value that names its import names one that is there
\* and has that value.
AllOrNothing ==
  /\ \A k \in Keys : stored[k] # NoValue =>
       \E d \in Docs : Ingested(d) /\ RowOf[d][k] = stored[k]
  /\ \A k \in Keys : owner[k] # NoDoc =>
       imports[owner[k]].status = "ok" /\ RowOf[owner[k]][k] = stored[k]
  /\ \A r \in restated : Ingested(r.by)
  /\ \A d \in Docs : imports[d].status = "ok" => Ingested(d)

\* A failed ingest is remembered: until an operator resets it, its statement is
\* known as poison, or it was ingested by somebody else.
FailureIsRemembered ==
  [][\A d \in Docs :
       LET failed == [doc |-> d, status |-> "failed", new |-> FALSE]
       IN  /\ (failed \in log' \ log) => imports'[d] # Absent
           /\ (imports[d].status = "poison" /\ imports'[d] # imports[d]) => ResetPoison(d)]_vars

Commits(p) == pc[p] = "committing" /\ pc'[p] = "idle" /\ doc[p] \in Docs /\ imports'[doc[p]] # imports[doc[p]]

\* Cleanup R1 keeps one rolling import for each year and source, provided that no
\* other ingest was under way.
LatestOnly ==
  [][\A p \in Processes, d \in Docs :
       (Commits(p) /\ p \in alone /\ d # doc[p] /\ YearOf[d] = YearOf[doc[p]] /\ d \notin SealedDocs)
         => imports'[d] # [status |-> "ok", source |-> Source(p)]]_vars

\* A sealed import is pinned: no ingest removes it, in whatever order or overlap.
SealedStays ==
  [][\A d \in SealedDocs : imports[d].status = "ok" => imports'[d] = imports[d]]_vars

\* Every change of a stored value is in the restatement log with the value it
\* replaced, provided that no other ingest was under way.
ChangesAreAudited ==
  [][\A p \in Processes, k \in Keys :
       (Commits(p) /\ p \in alone /\ stored[k] \notin {NoValue, stored'[k]})
         => [key |-> k, old |-> stored[k], new |-> stored'[k], by |-> doc[p]] \in restated']_vars

\* Ingests that wait for each other's rows do not wait for ever.
IngestEnds == \A p \in Processes : pc[p] # "idle" ~> pc[p] = "idle"

\* What the docstring of ingest_xml promises when two uploads bring the same XML:
\* the second one receives the id of the first.  The code does not keep it.
SecondGetsExistingId ==
  \A p \in Processes : cause[p] = "duplicate" => imports[doc[p]].status # "ok"
=============================================================================
