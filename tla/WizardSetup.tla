----------------------------- MODULE WizardSetup ----------------------------
(***************************************************************************)
(* The setup wizard of one organization and one user (api/setup.py) with   *)
(* its in-memory stash of uploads (api/_step3_stash.py).                   *)
(*                                                                         *)
(* Requests run at the same time and interleave where they await; what a   *)
(* request does between two awaits is one step.  One call of the persister *)
(* is one step too (module ImportStore takes it apart), and so is a save   *)
(* of participations (DatedLedger).  The rest of the system appears as     *)
(* the actions Other...: ingests of the flex run and of /imports/upload,   *)
(* and the connections API.                                                *)
(*                                                                         *)
(* Of a connection's status the wizard reads only whether it is disabled.  *)
(* The counters, and the copies that detections hold, are in FlexRun.      *)
(*                                                                         *)
(* Refused requests (400, 409, 410, 422) change nothing and have no step.  *)
(***************************************************************************)
EXTENDS FlexClient, FiniteSets

CONSTANTS
  Requests,               \* requests that may be under way at the same time
  Docs, Bad, SealedDocs,  \* statements by hash; refused by the parser; with a full year
  YearOf,
  Accounts, Shadow,       \* ibkr_account_ids; those with the suffix F
  AccountsOf,             \* [Docs -> SUBSET Accounts]
  MaxConnections, MaxUploads, MaxRequests,   \* bounds
  StatementOf,            \* [1..MaxConnections -> Docs]: what IBKR has for a connection
  Poisonable              \* statements whose ingest may have failed elsewhere

ASSUME WizardAssumption ==
  /\ Bad \subseteq Docs /\ SealedDocs \subseteq Docs /\ Poisonable \subseteq Docs
  /\ Shadow \subseteq Accounts
  /\ AccountsOf \in [Docs -> SUBSET Accounts]
  /\ StatementOf \in [1..MaxConnections -> Docs]
  /\ MaxConnections \in Nat /\ MaxUploads \in Nat

VARIABLES
  conns,      \* the health of each ibkr_flex connection, by id
  imports,    \* [Docs -> Absent, or status and source]
  open,       \* accounts with an open participation
  step3Xmls,  \* setup_progress["step3_xmls"]
  completed,  \* setup_completed_at is set
  stash,      \* [TempIds -> set of at most one statement]
  uploads,    \* temp_ids given out so far
  pc,         \* per request: its stage
  todo,       \* per request: the connections, or temp_ids, that remain
  found,      \* per request: accounts detected so far
  asked,      \* per request: the statements its validation pass has accepted
  tx,         \* per request: imports inserted and deleted, not yet committed
  received,   \* requests and outside events so far
  alone       \* history: the request that has met nothing else, if any

tables == <<conns, imports, open, step3Xmls, completed>>
memory == <<stash, uploads>>
locals == <<pc, todo, found, asked, tx>>
vars == <<tables, memory, locals, received, alone>>

TempIds == 1..MaxUploads
Health == {"active", "failing", "disabled"}   \* failing: degraded or reauth_required
Absent == [status |-> "absent", source |-> "none"]
Import == [status : {"ok", "poison"}, source : {"manual_upload", "web_service"}]
NoTx == [ins |-> {}, del |-> {}]

NonShadow(d) == AccountsOf[d] \ Shadow

\* _org_imported_account_ids: flex_import_accounts has the accounts of the imports
\* that are there; a poison row has none, and a deleted import takes its own along.
Provenance == UNION {NonShadow(d) : d \in {e \in Docs : imports[e].status = "ok"}}

\* _user_stashed_account_ids.
StashedAccounts == UNION {NonShadow(d) : d \in UNION {stash[i] : i \in TempIds}}

Init ==
  /\ conns = <<>>
  /\ imports = [d \in Docs |-> Absent]
  /\ open = {}
  /\ step3Xmls = FALSE /\ completed = FALSE
  /\ stash = [i \in TempIds |-> {}] /\ uploads = 0
  /\ pc = [r \in Requests |-> "idle"]
  /\ todo = [r \in Requests |-> <<>>]
  /\ found = [r \in Requests |-> {}]
  /\ asked = [r \in Requests |-> {}]
  /\ tx = [r \in Requests |-> NoTx]
  /\ received = 0 /\ alone = {}

-----------------------------------------------------------------------------
(* The persister, as far as the wizard sees it *)

Known(d, t) == d \in t.ins \/ (imports[d] # Absent /\ d \notin t.del)

\* Cleanup R1 within transaction t: the other rolling imports of the year and source,
\* whatever connection they came from.
Evicted(d, source, t) ==
  {e \in Docs \ ({d} \cup SealedDocs) :
     /\ YearOf[e] = YearOf[d]
     /\ e \in t.ins \/ (imports[e] = [status |-> "ok", source |-> source] /\ e \notin t.del)}

\* Transaction t once persist has taken in d; a known hash is left as it is.
Persist(d, source, t) ==
  LET out == Evicted(d, source, t)
  IN  IF Known(d, t) THEN t ELSE [ins |-> (t.ins \ out) \cup {d}, del |-> t.del \cup out]

\* Nobody else has touched, and not committed, a row that t is to touch.
Unlocked(r, t) ==
  \A q \in Requests \ {r} : (t.ins \cup t.del) \cap (tx[q].ins \cup tx[q].del) = {}

Committed(source, t) ==
  [d \in Docs |-> IF d \in t.ins THEN [status |-> "ok", source |-> source]
                  ELSE IF d \in t.del THEN Absent ELSE imports[d]]

-----------------------------------------------------------------------------
(* Requests *)

Goto(r, stage) == pc' = [pc EXCEPT ![r] = stage]

\* A request arrives; it is alone if no other is under way.
Begin(r, stage) ==
  /\ pc[r] = "idle" /\ received < MaxRequests
  /\ received' = received + 1
  /\ alone' = IF \E q \in Requests : pc[q] # "idle" THEN {} ELSE {r}
  /\ Goto(r, stage)

\* Something happens in one step, and is met by whatever is under way.
Event ==
  /\ received < MaxRequests
  /\ received' = received + 1
  /\ alone' = {}
  /\ UNCHANGED locals

End(r) ==
  /\ Goto(r, "idle")
  /\ todo' = [todo EXCEPT ![r] = <<>>]
  /\ found' = [found EXCEPT ![r] = {}]
  /\ asked' = [asked EXCEPT ![r] = {}]
  /\ tx' = [tx EXCEPT ![r] = NoTx]
  /\ UNCHANGED <<received, alone>>

\* mark_rotated: a new token, and active unless it is disabled.
Rotate(i) == conns' = [conns EXCEPT ![i] = IF @ = "disabled" THEN @ ELSE "active"]

\* step1_save: the first connection is rotated; with none to be seen, one is made.
Step1Look(r) ==
  \/ /\ conns = <<>>
     /\ Begin(r, "creating")
     /\ UNCHANGED <<tables, memory, todo, found, asked, tx>>
  \/ /\ conns # <<>>
     /\ Rotate(1) /\ Event
     /\ UNCHANGED <<imports, open, step3Xmls, completed, memory>>

Step1Create(r) ==
  /\ pc[r] = "creating" /\ Len(conns) < MaxConnections
  /\ conns' = Append(conns, "active")
  /\ End(r)
  /\ UNCHANGED <<imports, open, step3Xmls, completed, memory>>

\* step2_detect begins with the ids of the connections that are not disabled.
DetectBegin(r) ==
  LET ids == SelectSeq([i \in DOMAIN conns |-> i], LAMBDA i : conns[i] # "disabled")
  IN  /\ ids # <<>>
      /\ Begin(r, "detecting")
      /\ todo' = [todo EXCEPT ![r] = ids]
      /\ UNCHANGED <<tables, memory, found, asked, tx>>

Detecting(r) == pc[r] = "detecting" /\ todo[r] # <<>>

\* One connection answers with its statement: it is persisted and committed.  What is
\* marked is the object as it was loaded, and only what changes in it is written: active
\* if it was failing then, whatever the row says by now, and nothing if it was not.
DetectOk(r) ==
  LET c == Head(todo[r])
      d == StatementOf[c]
      t == Persist(d, "web_service", NoTx)
  IN  /\ Detecting(r)
      /\ "body" \in FetchOutcomes /\ d \notin Bad /\ Unlocked(r, t)
      /\ imports' = Committed("web_service", t)
      /\ \E health \in {"active", conns[c]} : conns' = [conns EXCEPT ![c] = health]
      /\ found' = [found EXCEPT ![r] = @ \cup NonShadow(d)]
      /\ todo' = [todo EXCEPT ![r] = Tail(@)]
      /\ UNCHANGED <<open, step3Xmls, completed, memory, pc, asked, tx, received, alone>>

\* Or it fails: in the client, or as a body that is refused by the parser or by the
\* database.  The row is read again and marked: failing if the token was refused, or if
\* this was one failure too many.  The loop goes on.
DetectFailed(r) ==
  /\ Detecting(r)
  /\ LET c == Head(todo[r])
     IN  \E o \in FetchOutcomes, health \in {conns[c], "failing"} :
           /\ conns[c] = "disabled" => health = "disabled"
           /\ (FailureClass(o) = "auth" /\ conns[c] # "disabled") => health = "failing"
           /\ conns' = [conns EXCEPT ![c] = health]
  /\ todo' = [todo EXCEPT ![r] = Tail(@)]
  /\ UNCHANGED <<imports, open, step3Xmls, completed, memory, pc, found, asked, tx,
                 received, alone>>

\* The answer: the accounts found, or an error if every connection failed.
DetectAnswer(r) ==
  /\ pc[r] = "detecting" /\ todo[r] = <<>>
  /\ End(r)
  /\ UNCHANGED <<tables, memory>>

\* step2_detect_from_xml.
DetectFromXml(d) ==
  LET t == Persist(d, "manual_upload", NoTx)
  IN  /\ d \notin Bad /\ \A r \in Requests : Unlocked(r, t)
      /\ imports' = Committed("manual_upload", t)
      /\ Event
      /\ UNCHANGED <<conns, open, step3Xmls, completed, memory>>

\* Mutant: the gate forgets shadow accounts.
ClaimShadow(A, seen) == A # {} /\ A \subseteq seen \cup Shadow /\ open' = open \cup A

\* The gate both saves share, and the participations it lets through.
Claim(A, seen) == A # {} /\ A \subseteq seen \ Shadow /\ open' = open \cup A

\* step2_save: what the imports of the organization show may be claimed.
Step2Save(A) ==
  /\ \E d \in Docs : imports[d] # Absent
  /\ Claim(A, Provenance)
  /\ Event
  /\ UNCHANGED <<conns, imports, step3Xmls, completed, memory>>

\* step3_upload: neither imported nor stashed, and it parses; the stash takes it in
\* after one more query.
UploadLook(r, d) ==
  /\ imports[d] = Absent
  /\ \A i \in TempIds : d \notin stash[i]
  /\ d \notin Bad
  /\ Begin(r, "stashing")
  /\ asked' = [asked EXCEPT ![r] = {d}]
  /\ UNCHANGED <<tables, memory, todo, found, tx>>

UploadPut(r) ==
  /\ pc[r] = "stashing" /\ uploads < MaxUploads
  /\ uploads' = uploads + 1
  /\ stash' = [stash EXCEPT ![uploads + 1] = asked[r]]
  /\ End(r)
  /\ UNCHANGED tables

\* step3_save_new_accounts: what the user has staged may be claimed.
Step3Save(A) ==
  /\ Claim(A, StashedAccounts)
  /\ Event
  /\ UNCHANGED <<conns, imports, step3Xmls, completed, memory>>

\* Mutant: the accounts are looked up among those some import shows.
CommitCheckImported(r, ids) ==
  /\ \A k \in DOMAIN ids : stash[ids[k]] # {}
  /\ \A k \in DOMAIN ids : \A d \in stash[ids[k]] : NonShadow(d) \subseteq open \cup Provenance
  /\ Begin(r, "draining")
  /\ todo' = [todo EXCEPT ![r] = ids]
  /\ asked' = [asked EXCEPT ![r] = UNION {stash[ids[k]] : k \in DOMAIN ids}]
  /\ UNCHANGED <<tables, memory, found, tx>>

\* step3_commit, validation pass: every temp_id is staged, every account configured.
CommitCheck(r, ids) ==
  /\ \A k \in DOMAIN ids : stash[ids[k]] # {}
  /\ \A k \in DOMAIN ids : \A d \in stash[ids[k]] : NonShadow(d) \subseteq open
  /\ Begin(r, "draining")
  /\ todo' = [todo EXCEPT ![r] = ids]
  /\ asked' = [asked EXCEPT ![r] = UNION {stash[ids[k]] : k \in DOMAIN ids}]
  /\ UNCHANGED <<tables, memory, found, tx>>

\* Persist pass: an upload that is gone is passed over.
CommitSkip(r) ==
  /\ pc[r] = "draining" /\ todo[r] # <<>>
  /\ stash[Head(todo[r])] = {}
  /\ todo' = [todo EXCEPT ![r] = Tail(@)]
  /\ UNCHANGED <<tables, memory, pc, found, asked, tx, received, alone>>

\* Mutant: each upload is persisted in a session of its own, and the last one committed.
CommitPopAlone(r) ==
  /\ pc[r] = "draining" /\ todo[r] # <<>>
  /\ \E d \in stash[Head(todo[r])] :
       LET t == Persist(d, "manual_upload", NoTx)
       IN  Unlocked(r, t) /\ tx' = [tx EXCEPT ![r] = t]
  /\ stash' = [stash EXCEPT ![Head(todo[r])] = {}]
  /\ todo' = [todo EXCEPT ![r] = Tail(@)]
  /\ UNCHANGED <<tables, uploads, pc, found, asked, received, alone>>

\* Any other leaves the stash, then goes through the persister.
CommitPop(r) ==
  /\ pc[r] = "draining" /\ todo[r] # <<>>
  /\ \E d \in stash[Head(todo[r])] :
       LET t == Persist(d, "manual_upload", tx[r])
       IN  Unlocked(r, t) /\ tx' = [tx EXCEPT ![r] = t]
  /\ stash' = [stash EXCEPT ![Head(todo[r])] = {}]
  /\ todo' = [todo EXCEPT ![r] = Tail(@)]
  /\ UNCHANGED <<tables, uploads, pc, found, asked, received, alone>>

\* The commit of everything, and the answer ok.
CommitDone(r) ==
  /\ pc[r] = "draining" /\ todo[r] = <<>>
  /\ imports' = Committed("manual_upload", tx[r])
  /\ step3Xmls' = TRUE
  /\ End(r)
  /\ UNCHANGED <<conns, open, completed, memory>>

\* A persist fails: the transaction is rolled back, what left the stash is lost.
CommitFails(r) ==
  /\ pc[r] = "draining" /\ todo[r] # <<>> /\ stash[Head(todo[r])] # {}
  /\ stash' = [stash EXCEPT ![Head(todo[r])] = {}]
  /\ End(r)
  /\ UNCHANGED <<tables, uploads>>

\* finish: a participation, and step 3 marked.
Finish ==
  /\ ~completed /\ open # {} /\ step3Xmls
  /\ completed' = TRUE
  /\ Event
  /\ UNCHANGED <<conns, imports, open, step3Xmls, memory>>

-----------------------------------------------------------------------------
(* Everything else *)

\* An upload reaches its time to live.
Expire(i) ==
  /\ stash[i] # {}
  /\ stash' = [stash EXCEPT ![i] = {}]
  /\ Event
  /\ UNCHANGED <<tables, uploads>>

\* The flex run or /imports/upload takes in a statement,
OtherIngest(d, source) ==
  LET t == Persist(d, source, NoTx)
  IN  /\ d \notin Bad /\ imports[d] = Absent /\ \A r \in Requests : Unlocked(r, t)
      /\ imports' = Committed(source, t)
      /\ Event
      /\ UNCHANGED <<conns, open, step3Xmls, completed, memory>>

\* or fails to and remembers its hash as poison.
OtherPoison(d, source) ==
  /\ d \in Poisonable /\ imports[d] = Absent /\ \A r \in Requests : d \notin tx[r].ins
  /\ imports' = [imports EXCEPT ![d] = [status |-> "poison", source |-> source]]
  /\ Event
  /\ UNCHANGED <<conns, open, step3Xmls, completed, memory>>

\* The connections API adds a connection, disables or enables one; or the flex run marks one.
OtherConnection ==
  /\ \/ /\ Len(conns) < MaxConnections
        /\ conns' = Append(conns, "active")
     \/ \E i \in DOMAIN conns, health \in Health : conns' = [conns EXCEPT ![i] = health]
  /\ Event
  /\ UNCHANGED <<imports, open, step3Xmls, completed, memory>>

\* The process dies: no transaction, no request and no upload survives.
Crash ==
  /\ \E r \in Requests : pc[r] # "idle"
  /\ stash' = [i \in TempIds |-> {}]
  /\ pc' = [r \in Requests |-> "idle"]
  /\ todo' = [r \in Requests |-> <<>>]
  /\ found' = [r \in Requests |-> {}]
  /\ asked' = [r \in Requests |-> {}]
  /\ tx' = [r \in Requests |-> NoTx]
  /\ alone' = {}
  /\ UNCHANGED <<tables, uploads, received>>

\* The sequences of temp_ids a commit may be asked for; a client can repeat one.
Orders == UNION {[1..n -> 1..uploads] : n \in 0..2}

Step(r) ==
  \/ Step1Look(r) \/ Step1Create(r)
  \/ DetectBegin(r) \/ DetectOk(r) \/ DetectFailed(r) \/ DetectAnswer(r)
  \/ UploadPut(r) \/ \E d \in Docs : UploadLook(r, d)
  \/ \E ids \in Orders : CommitCheck(r, ids)
  \/ CommitSkip(r) \/ CommitPop(r) \/ CommitDone(r) \/ CommitFails(r)

Next ==
  \/ \E r \in Requests : Step(r)
  \/ \E d \in Docs : DetectFromXml(d)
  \/ \E A \in SUBSET Accounts : Step2Save(A) \/ Step3Save(A)
  \/ Finish
  \/ \E i \in TempIds : Expire(i)
  \/ \E d \in Docs, source \in {"manual_upload", "web_service"} :
       OtherIngest(d, source) \/ OtherPoison(d, source)
  \/ OtherConnection
  \/ Crash

Spec == Init /\ [][Next]_vars

-----------------------------------------------------------------------------
(* Properties *)

TypeOK ==
  /\ conns \in Seq(Health) /\ Len(conns) <= MaxConnections
  /\ imports \in [Docs -> Import \cup {Absent}]
  /\ open \subseteq Accounts \ Shadow
  /\ step3Xmls \in BOOLEAN /\ completed \in BOOLEAN
  /\ stash \in [TempIds -> SUBSET (Docs \ Bad)]
  /\ \A i \in TempIds : Cardinality(stash[i]) <= 1 /\ (i > uploads => stash[i] = {})
  /\ \A r \in Requests : pc[r] = "idle" =>
       todo[r] = <<>> /\ found[r] = {} /\ asked[r] = {} /\ tx[r] = NoTx
  /\ \A r \in Requests : tx[r].ins \subseteq asked[r]
  /\ alone \subseteq Requests /\ Cardinality(alone) <= 1

\* Whatever expires, is claimed twice or committed at the same time between the two
\* passes of step3_commit: the imports it makes show no account that nobody has
\* configured.
ImportedAreConfigured ==
  [][\A r \in Requests, d \in Docs :
       (CommitDone(r) /\ d \in tx[r].ins) => NonShadow(d) \subseteq open]_vars

\* A commit that answers ok, and that met no other request and no expiry, has taken in
\* all it was asked for: each statement is an import now (or was remembered as poison
\* before), unless a later one of its year replaced it.
OkMeansImported ==
  [][\A r \in alone, d \in Docs :
       (CommitDone(r) /\ d \in asked[r]) =>
          \/ imports'[d] # Absent
          \/ d \notin SealedDocs /\ \E e \in asked[r] : imports'[e].status = "ok" /\ YearOf[e] = YearOf[d]]_vars

\* What step2_detect promises of its answer ("across ALL active connections") and
\* step2_save takes for granted: an account that was detected, by a request that met no
\* other, may be saved.  Cleanup R1 is per year and source, and not per connection: the
\* code does not keep it.
DetectedCanBeSaved ==
  \A r \in alone : (pc[r] = "detecting" /\ todo[r] = <<>>) => found[r] \subseteq Provenance
=============================================================================
