------------------------- MODULE ImportStoreProofs --------------------------
(***************************************************************************)
(* What the ingest of a statement guarantees for every set of uploads,     *)
(* statements, keys and values, however ingests overlap, fail and die: it  *)
(* is all or nothing, sealed imports stay, failures are remembered, and,   *)
(* for an ingest that meets no other, the latest rolling import is the     *)
(* only one and every change is audited.                                   *)
(***************************************************************************)
EXTENDS ImportStore, TLAPS

-----------------------------------------------------------------------------
(* The inductive invariant *)

Stages == {"idle", "received", "parsing", "inserting", "auditing", "upserting", "evicting",
           "committing", "poisoning"}

Typed ==
  /\ imports \in [Docs -> Import \cup {Absent}]
  /\ stored \in [Keys -> Values \cup {NoValue}]
  /\ owner \in [Keys -> Docs \cup {NoDoc}]
  /\ restated \subseteq Restatement /\ log \subseteq LogKind
  /\ pc \in [Processes -> Stages] /\ doc \in [Processes -> Docs \cup {NoDoc}]
  /\ audit \in [Processes -> SUBSET Restatement] /\ evicts \in [Processes -> SUBSET Docs]
  /\ cause \in [Processes -> {"none", "parser", "database", "deadlock", "duplicate"}]

\* What a process holds at which stage.
Local ==
  \A p \in Processes :
    /\ doc[p] = NoDoc <=> pc[p] = "idle"
    /\ ~HasImport(p) => audit[p] = {}
    /\ pc[p] # "committing" => evicts[p] = {}
    /\ \A r \in audit[p] : r.by = doc[p]
    /\ doc[p] \notin evicts[p]

\* Whoever has inserted a hash is the only one, and it is not committed yet.
Inserted ==
  \A p \in Processes : HasImport(p) =>
    /\ imports[doc[p]] = Absent
    /\ \A q \in Processes \ {p} : HasImport(q) => doc[q] # doc[p]

\* What is to be deleted is an ok rolling import, deleted by one process alone.
Deleted ==
  \A p \in Processes : \A d \in evicts[p] :
    /\ d \notin SealedDocs /\ imports[d].status = "ok"
    /\ \A q \in Processes \ {p} : d \notin evicts[q]

\* Who is alone sees the tables as they are when it commits.
Undisturbed ==
  \A p \in alone :
    /\ p \in Processes
    /\ \A q \in Processes \ {p} : ~InTx(q)
    /\ pc[p] = "committing" => Evicted(p) \subseteq evicts[p]
    /\ pc[p] \in {"upserting", "evicting", "committing"} =>
         \A k \in KeysOf(doc[p]) : stored[k] \notin {NoValue, RowOf[doc[p]][k]} =>
           [key |-> k, old |-> stored[k], new |-> RowOf[doc[p]][k], by |-> doc[p]] \in audit[p]

IInv == Typed /\ Local /\ Inserted /\ Deleted /\ Undisturbed /\ AllOrNothing

-----------------------------------------------------------------------------
(* What the steps share *)

\* One process moves, in its transaction, and what it holds changes.
Moves(p) ==
  /\ p \in Processes
  /\ pc' = [pc EXCEPT ![p] = pc'[p]] /\ doc' = [doc EXCEPT ![p] = doc'[p]]
  /\ audit' = [audit EXCEPT ![p] = audit'[p]] /\ evicts' = [evicts EXCEPT ![p] = evicts'[p]]
  /\ cause' = [cause EXCEPT ![p] = cause'[p]]

LEMMA Init_IInv == Init => IInv
<1> SUFFICES ASSUME Init PROVE IInv
  OBVIOUS
<1> USE DEF Init
<1>1. Typed
  BY StoreAssumption DEF Typed, Stages
<1>2. Local
  BY StoreAssumption DEF Local, HasImport
<1>3. Inserted /\ Deleted /\ Undisturbed
  BY DEF Inserted, Deleted, Undisturbed, HasImport
<1>4. AllOrNothing
  BY DEF AllOrNothing, Absent
<1> QED
  BY <1>1, <1>2, <1>3, <1>4 DEF IInv

LEMMA KeepAll ==
  ASSUME AllOrNothing, UNCHANGED <<imports, stored, owner, restated>>, log \subseteq log'
  PROVE  AllOrNothing'
<1>1. \A d : Ingested(d) => Ingested(d)'
  BY DEF Ingested
<1> QED
  BY <1>1 DEF AllOrNothing

LEMMA OnlyMe ==
  ASSUME Undisturbed, NEW p \in Processes, InTx(p)
  PROVE  alone \subseteq {p}
  BY DEF Undisturbed

\* A process that stops, or gives up, holds nothing that others could meet.
LEMMA LetsGo ==
  ASSUME IInv, NEW p, Moves(p), InTx(p), UNCHANGED <<tables, alone>>,
         pc'[p] = "poisoning", doc'[p] = doc[p],
         audit'[p] = {}, evicts'[p] = {},
         cause'[p] \in {"none", "parser", "database", "deadlock", "duplicate"}
  PROVE  IInv'
<1> USE DEF IInv, Moves
<1>1. Typed'
  BY DEF Typed, Stages, tables
<1>2. Local'
  BY StoreAssumption DEF Typed, Local, HasImport, InTx
<1>3. Inserted'
  BY DEF Typed, Inserted, HasImport, tables
<1>4. Deleted'
  BY DEF Typed, Deleted, tables
<1>5. Undisturbed'
  BY OnlyMe DEF Typed, Undisturbed, InTx, tables
<1>6. AllOrNothing'
  BY KeepAll DEF tables
<1> QED
  BY <1>1, <1>2, <1>3, <1>4, <1>5, <1>6

LEMMA RollBack_IInv ==
  ASSUME IInv, NEW p \in Processes, InTx(p),
         NEW why \in {"parser", "database", "deadlock", "duplicate"}, RollBack(p, why)
  PROVE  IInv'
<1>1. /\ Moves(p) /\ pc'[p] = "poisoning" /\ doc'[p] = doc[p]
      /\ audit'[p] = {} /\ evicts'[p] = {} /\ cause'[p] = why
  BY DEF IInv, Typed, RollBack, Goto, Moves
<1> QED
  BY <1>1, LetsGo DEF RollBack

\* The end of an ingest that changes no table but the log.
LEMMA Close_IInv ==
  ASSUME IInv, NEW p \in Processes, pc[p] # "idle", NEW kind \in LogKind, Close(p, kind),
         UNCHANGED <<imports, stored, owner, restated>>, alone' \in {alone, {}, {p}},
         \A q \in alone' \ {p} : ~InTx(p),
         alone' = {p} => p \in alone \/ \A q \in Processes \ {p} : ~InTx(q)
  PROVE  IInv'
<1> USE DEF IInv
<1>1. /\ Moves(p) /\ pc'[p] = "idle" /\ doc'[p] = NoDoc
      /\ audit'[p] = {} /\ evicts'[p] = {} /\ cause'[p] = "none"
  BY DEF Typed, Close, Goto, Moves
<1>2. Typed'
  BY <1>1 DEF Typed, Stages, Close, Moves
<1>3. Local'
  BY <1>1, StoreAssumption DEF Typed, Local, HasImport, Moves
<1>4. Inserted' /\ Deleted'
  BY <1>1 DEF Typed, Inserted, Deleted, HasImport, Moves
<1>5. Undisturbed'
  BY <1>1 DEF Typed, Undisturbed, InTx, Moves, Evicted
<1>6. AllOrNothing'
  BY KeepAll DEF Close
<1> QED
  BY <1>2, <1>3, <1>4, <1>5, <1>6

-----------------------------------------------------------------------------
(* The actions *)

LEMMA Receive_IInv ==
  ASSUME IInv, NEW p \in Processes, NEW d \in Docs, Receive(p, d)
  PROVE  IInv'
<1> USE DEF IInv, Receive, Goto
<1>1. /\ Moves(p) /\ pc'[p] = "received" /\ doc'[p] = d /\ pc[p] = "idle"
      /\ audit' = audit /\ evicts' = evicts /\ audit[p] = {} /\ evicts[p] = {}
  BY DEF Typed, Local, HasImport, Moves
<1> HIDE DEF Goto
<1>2. Typed'
  BY <1>1 DEF Typed, Stages, tables, Moves
<1>3. Local'
  BY <1>1, StoreAssumption DEF Typed, Local, HasImport, Moves
<1>4. Inserted' /\ Deleted'
  BY <1>1 DEF Typed, Inserted, Deleted, HasImport, Moves, tables
<1>5. Undisturbed'
  BY <1>1 DEF Typed, Undisturbed, InTx, Moves, Evicted, tables, Source, KeysOf
<1>6. AllOrNothing'
  BY KeepAll DEF tables
<1> QED
  BY <1>2, <1>3, <1>4, <1>5, <1>6

LEMMA Check_IInv ==
  ASSUME IInv, NEW p \in Processes, Check(p)
  PROVE  IInv'
<1> USE DEF IInv
<1>1. pc[p] = "received" /\ alone' \in {{}, {p}}
  BY DEF Check
<1>2. alone' = {p} => \A q \in Processes \ {p} : ~InTx(q)
  BY DEF Check
<1>3. CASE ~Known(doc[p]) /\ Goto(p, "parsing")
             /\ UNCHANGED <<tables, doc, audit, evicts, cause, received>>
  <2>1. /\ Moves(p) /\ pc'[p] = "parsing" /\ doc' = doc
        /\ audit' = audit /\ evicts' = evicts /\ audit[p] = {} /\ evicts[p] = {}
    BY <1>1, <1>3 DEF Typed, Local, HasImport, Moves, Goto
  <2>2. Typed'
    BY <1>3, <2>1 DEF Typed, Stages, tables, Moves
  <2>3. Local' /\ Inserted' /\ Deleted'
    BY <1>1, <1>3, <2>1 DEF Typed, Local, Inserted, Deleted, HasImport, Moves, tables
  <2>4. Undisturbed'
    BY <1>1, <1>2, <1>3, <2>1 DEF Typed, Undisturbed, InTx, Moves
  <2>5. AllOrNothing'
    BY <1>3, KeepAll DEF tables
  <2> QED
    BY <2>2, <2>3, <2>4, <2>5
<1>4. CASE Close(p, Duplicate(p)) /\ UNCHANGED <<imports, stored, owner, restated>>
  <2>1. Duplicate(p) \in LogKind
    BY <1>1, StoreAssumption DEF Typed, Local, LogKind, Duplicate
  <2> QED
    BY <1>1, <1>2, <1>4, <2>1, Close_IInv
<1> QED
  BY <1>3, <1>4 DEF Check

LEMMA Recheck_IInv ==
  ASSUME IInv, NEW p \in Processes, Recheck(p)
  PROVE  IInv'
<1> USE DEF IInv
<1>1. pc[p] = "parsing" /\ InTx(p) /\ alone' = alone
  BY DEF Recheck, InTx
<1>2. alone \subseteq {p}
  BY <1>1, OnlyMe
<1>3. CASE ~Known(doc[p]) /\ Goto(p, "inserting")
             /\ UNCHANGED <<tables, doc, audit, evicts, cause, received, alone>>
  <2>1. /\ Moves(p) /\ pc'[p] = "inserting" /\ doc' = doc
        /\ audit' = audit /\ evicts' = evicts /\ audit[p] = {} /\ evicts[p] = {}
    BY <1>1, <1>3 DEF Typed, Local, HasImport, Moves, Goto
  <2>2. Typed'
    BY <1>3, <2>1 DEF Typed, Stages, tables, Moves
  <2>3. Local' /\ Inserted' /\ Deleted'
    BY <1>1, <1>3, <2>1 DEF Typed, Local, Inserted, Deleted, HasImport, Moves, tables
  <2>4. Undisturbed'
    BY <1>1, <1>2, <1>3, <2>1 DEF Typed, Undisturbed, InTx, Moves
  <2>5. AllOrNothing'
    BY <1>3, KeepAll DEF tables
  <2> QED
    BY <2>2, <2>3, <2>4, <2>5
<1>4. CASE Close(p, Duplicate(p)) /\ UNCHANGED <<imports, stored, owner, restated, alone>>
  <2>1. Duplicate(p) \in LogKind
    BY <1>1, StoreAssumption DEF Typed, Local, LogKind, Duplicate
  <2>2. /\ alone' \in {alone, {}, {p}} /\ \A q \in alone' \ {p} : ~InTx(p)
        /\ alone' = {p} => p \in alone
    BY <1>1, <1>2
  <2> QED
    BY <1>1, <1>4, <2>1, <2>2, Close_IInv
<1> QED
  BY <1>3, <1>4 DEF Recheck

LEMMA Insert_IInv ==
  ASSUME IInv, NEW p \in Processes, Insert(p)
  PROVE  IInv'
<1> USE DEF IInv
<1>1. /\ pc[p] = "inserting" /\ InTx(p) /\ ~ImportLocked(doc[p], p) /\ ~Known(doc[p])
      /\ UNCHANGED <<tables, doc, audit, evicts, cause, received, alone>>
  BY DEF Insert, InTx
<1>2. alone \subseteq {p}
  BY <1>1, OnlyMe
<1>3. /\ Moves(p) /\ pc'[p] = "auditing" /\ audit[p] = {} /\ evicts[p] = {}
  BY <1>1 DEF Insert, Typed, Local, HasImport, Moves, Goto
<1>4. Typed'
  BY <1>1, <1>3 DEF Typed, Stages, tables, Moves
<1>5. Local' /\ Deleted'
  BY <1>1, <1>3 DEF Typed, Local, Deleted, HasImport, Moves, tables
<1>6. Inserted'
  BY <1>1, <1>3 DEF Typed, Inserted, HasImport, Moves, tables, ImportLocked, Known
<1>7. Undisturbed'
  BY <1>1, <1>2, <1>3 DEF Typed, Undisturbed, InTx, Moves
<1>8. AllOrNothing'
  BY <1>1, KeepAll DEF tables
<1> QED
  BY <1>4, <1>5, <1>6, <1>7, <1>8

LEMMA Audit_IInv ==
  ASSUME IInv, NEW p \in Processes, Audit(p)
  PROVE  IInv'
<1> USE DEF IInv
<1> DEFINE changed == {k \in KeysOf(doc[p]) : stored[k] \notin {NoValue, RowOf[doc[p]][k]}}
           found == {[key |-> k, old |-> stored[k], new |-> RowOf[doc[p]][k], by |-> doc[p]]
                       : k \in changed}
<1>1. /\ pc[p] = "auditing" /\ InTx(p) /\ HasImport(p)
      /\ UNCHANGED <<tables, doc, evicts, cause, received, alone>>
  BY DEF Audit, InTx, HasImport
<1>2. alone \subseteq {p}
  BY <1>1, OnlyMe
<1>3. Moves(p) /\ pc'[p] = "upserting" /\ audit'[p] = found /\ evicts[p] = {} /\ doc[p] \in Docs
  BY <1>1, StoreAssumption DEF Audit, Typed, Local, Moves, Goto
<1>4. found \subseteq Restatement
  BY <1>3, StoreAssumption DEF Typed, Restatement, KeysOf
<1> HIDE DEF found
<1>5. Typed'
  BY <1>1, <1>3, <1>4 DEF Typed, Stages, tables, Moves
<1>6. \A r \in found : r.by = doc[p]
  BY DEF found
<1>7. Local'
  BY <1>1, <1>3, <1>6 DEF Typed, Local, HasImport, Moves, tables
<1>8. Inserted' /\ Deleted'
  BY <1>1, <1>3 DEF Typed, Inserted, Deleted, HasImport, Moves, tables
<1>9. \A k \in KeysOf(doc[p]) : stored[k] \notin {NoValue, RowOf[doc[p]][k]} =>
        [key |-> k, old |-> stored[k], new |-> RowOf[doc[p]][k], by |-> doc[p]] \in found
  BY DEF found
<1>10. Undisturbed'
  BY <1>1, <1>2, <1>3, <1>9 DEF Typed, Undisturbed, InTx, Moves, tables, KeysOf
<1>11. AllOrNothing'
  BY <1>1, KeepAll DEF tables
<1> QED
  BY <1>5, <1>7, <1>8, <1>10, <1>11

LEMMA Upsert_IInv ==
  ASSUME IInv, NEW p \in Processes, Upsert(p)
  PROVE  IInv'
<1> USE DEF IInv
<1>1. /\ pc[p] = "upserting" /\ InTx(p) /\ HasImport(p)
      /\ UNCHANGED <<tables, doc, audit, evicts, cause, received, alone>>
  BY DEF Upsert, InTx, HasImport
<1>2. alone \subseteq {p}
  BY <1>1, OnlyMe
<1>3. Moves(p) /\ pc'[p] = "evicting" /\ evicts[p] = {}
  BY <1>1 DEF Upsert, Typed, Local, Moves, Goto
<1>4. Typed'
  BY <1>1, <1>3 DEF Typed, Stages, tables, Moves
<1>5. Local' /\ Inserted' /\ Deleted'
  BY <1>1, <1>3 DEF Typed, Local, Inserted, Deleted, HasImport, Moves, tables
<1>6. Undisturbed'
  BY <1>1, <1>2, <1>3 DEF Typed, Undisturbed, InTx, Moves, tables, KeysOf
<1>7. AllOrNothing'
  BY <1>1, KeepAll DEF tables
<1> QED
  BY <1>4, <1>5, <1>6, <1>7

LEMMA Evict_IInv ==
  ASSUME IInv, NEW p \in Processes, Evict(p)
  PROVE  IInv'
<1> USE DEF IInv
<1>1. /\ pc[p] = "evicting" /\ InTx(p) /\ HasImport(p)
      /\ UNCHANGED <<tables, doc, audit, cause, received, alone>>
  BY DEF Evict, InTx, HasImport
<1>2. alone \subseteq {p}
  BY <1>1, OnlyMe
<1>3. Moves(p) /\ pc'[p] = "committing" /\ evicts'[p] = Evicted(p)
  BY <1>1 DEF Evict, Typed, Moves, Goto
<1>4. Evicted(p) \subseteq Docs \ {doc[p]}
  BY DEF Evicted
<1>5. \A d \in Evicted(p) : /\ d \notin SealedDocs /\ imports[d].status = "ok"
                            /\ \A q \in Processes \ {p} : d \notin evicts[q]
  BY <1>1 DEF Evict, Evicted, WaitsFor
<1>6. Evicted(p)' = Evicted(p)
  BY <1>1 DEF Evicted, tables
<1> HIDE DEF Evicted
<1>7. Typed'
  BY <1>1, <1>3, <1>4 DEF Typed, Stages, tables, Moves
<1>8. Local' /\ Inserted'
  BY <1>1, <1>3, <1>4 DEF Typed, Local, Inserted, HasImport, Moves, tables
<1>9. Deleted'
  BY <1>1, <1>3, <1>5 DEF Typed, Deleted, Moves, tables
<1>10. Undisturbed'
  BY <1>1, <1>2, <1>3, <1>6 DEF Typed, Undisturbed, InTx, Moves, tables, KeysOf
<1>11. AllOrNothing'
  BY <1>1, KeepAll DEF tables
<1> QED
  BY <1>7, <1>8, <1>9, <1>10, <1>11

LEMMA Poison_IInv ==
  ASSUME IInv, NEW p \in Processes, Poison(p)
  PROVE  IInv'
<1> USE DEF IInv
<1> DEFINE poison == [status |-> "poison", source |-> Source(p)]
<1>1. /\ pc[p] = "poisoning" /\ InTx(p) /\ ~ImportLocked(doc[p], p)
      /\ UNCHANGED <<stored, owner, restated, alone>>
  BY DEF Poison, InTx
<1>2. alone \subseteq {p}
  BY <1>1, OnlyMe
<1>3. /\ Moves(p) /\ pc'[p] = "idle" /\ doc'[p] = NoDoc
      /\ audit'[p] = {} /\ evicts'[p] = {} /\ cause'[p] = "none"
  BY DEF Typed, Poison, Close, Goto, Moves
<1>4. doc[p] \in Docs /\ Failed(p) \in LogKind /\ poison \in Import
  BY <1>1, StoreAssumption DEF Typed, Local, LogKind, Failed, Import, Source
<1>5. /\ imports' \in [Docs -> Import \cup {Absent}]
      /\ \A d \in Docs : imports'[d] = imports[d] \/ (d = doc[p] /\ imports[d] = Absent /\ imports'[d] = poison)
  BY <1>4 DEF Typed, Poison
<1>6. log' = log \cup {Failed(p)}
  BY DEF Poison, Close
<1>7. poison.status = "poison" /\ Absent.status = "absent"
  BY DEF Absent
<1> HIDE DEF poison
<1>8. Typed'
  BY <1>1, <1>3, <1>4, <1>5, <1>6 DEF Typed, Stages, Moves
<1>9. Local'
  BY <1>3, StoreAssumption DEF Typed, Local, HasImport, Moves
<1>10. Inserted'
  BY <1>1, <1>3, <1>5 DEF Typed, Local, Inserted, HasImport, Moves, ImportLocked
<1>11. Deleted'
  BY <1>3, <1>5, <1>7 DEF Typed, Deleted, Moves
<1>12. Undisturbed'
  BY <1>1, <1>2, <1>3 DEF Typed, Undisturbed, InTx, Moves
<1>13. AllOrNothing'
  <2>1. \A d : Ingested(d) => Ingested(d)'
    BY <1>6 DEF Ingested
  <2>2. \A d \in Docs : imports'[d].status = "ok" <=> imports[d].status = "ok"
    BY <1>5, <1>7
  <2> QED
    BY <1>1, <1>4, <2>1, <2>2 DEF Typed, AllOrNothing
<1> QED
  BY <1>8, <1>9, <1>10, <1>11, <1>12, <1>13

LEMMA Commit_IInv ==
  ASSUME IInv, NEW p \in Processes, NEW d, doc[p] = d, Commit(p)
  PROVE  IInv'
<1> USE DEF IInv
<1> DEFINE ok == [status |-> "ok", source |-> Source(p)]
           done == [doc |-> d, status |-> "ok", new |-> TRUE]
<1>1. pc[p] = "committing" /\ InTx(p) /\ HasImport(p) /\ alone' = alone
  BY DEF Commit, InTx, HasImport
<1>2. alone \subseteq {p}
  BY <1>1, OnlyMe
<1>3. /\ Moves(p) /\ pc'[p] = "idle" /\ doc'[p] = NoDoc
      /\ audit'[p] = {} /\ evicts'[p] = {} /\ cause'[p] = "none"
  BY DEF Typed, Commit, Close, Goto, Moves
<1>4. d \in Docs /\ done \in LogKind /\ ok \in Import /\ imports[d] = Absent /\ d \notin evicts[p]
  BY <1>1, StoreAssumption DEF Typed, Local, Inserted, LogKind, Import, Source
<1>5. /\ imports' \in [Docs -> Import \cup {Absent}] /\ imports'[d] = ok
      /\ \A e \in evicts[p] : imports'[e] = Absent
      /\ \A e \in Docs \ {d} : e \notin evicts[p] => imports'[e] = imports[e]
  BY <1>4 DEF Typed, Commit
<1>6. log' = log \cup {done}
  BY DEF Commit, Close
<1>7. ok.status = "ok" /\ Absent.status = "absent"
  BY DEF Absent
<1> DEFINE row == RowOf[d]
<1>8. /\ \A k \in KeysOf(d) : /\ k \in Keys /\ row[k] \in Values
                               /\ stored'[k] = row[k] /\ owner'[k] = d
      /\ \A k \in Keys \ KeysOf(d) :
           stored'[k] = stored[k] /\ owner'[k] = IF owner[k] \in evicts[p] THEN NoDoc ELSE owner[k]
  BY <1>4, StoreAssumption DEF Commit, Written, KeysOf
<1>9. stored' \in [Keys -> Values \cup {NoValue}] /\ owner' \in [Keys -> Docs \cup {NoDoc}]
  <2>1. stored' = [k \in Keys |-> stored'[k]] /\ owner' = [k \in Keys |-> owner'[k]]
    BY DEF Commit, Written
  <2>2. \A k \in Keys : stored'[k] \in Values \cup {NoValue} /\ owner'[k] \in Docs \cup {NoDoc}
    BY <1>4, <1>8 DEF Typed
  <2> QED
    BY <2>1, <2>2
<1>10. restated' = restated \cup audit[p]
  BY DEF Commit
<1> HIDE DEF ok, done, row
<1>11. Typed'
  BY <1>1, <1>3, <1>4, <1>5, <1>6, <1>9, <1>10 DEF Typed, Stages, Moves
<1>12. Local'
  BY <1>3, StoreAssumption DEF Typed, Local, HasImport, Moves
<1>13. Inserted'
  <2> SUFFICES ASSUME NEW q \in Processes, HasImport(q)'
               PROVE  /\ imports'[doc'[q]] = Absent
                      /\ \A r \in Processes \ {q} : HasImport(r)' => doc'[r] # doc'[q]
    BY DEF Inserted, HasImport
  <2>1. q # p /\ HasImport(q) /\ doc'[q] = doc[q] /\ doc[q] \in Docs
    BY <1>3 DEF Typed, Local, HasImport, Moves
  <2>2. doc[q] # d /\ imports[doc[q]] = Absent
    BY <1>1, <2>1 DEF Inserted
  <2>3. imports'[doc[q]] = Absent
    BY <1>5, <2>1, <2>2
  <2>4. \A r \in Processes \ {q} : HasImport(r)' => r # p /\ HasImport(r) /\ doc'[r] = doc[r]
    BY <1>3 DEF Typed, HasImport, Moves
  <2> QED
    BY <2>1, <2>3, <2>4 DEF Inserted
<1>14. Deleted'
  <2> SUFFICES ASSUME NEW q \in Processes, NEW e \in evicts'[q]
               PROVE  /\ e \notin SealedDocs /\ imports'[e].status = "ok"
                      /\ \A r \in Processes \ {q} : e \notin evicts'[r]
    BY DEF Deleted
  <2>1. q # p /\ evicts'[q] = evicts[q] /\ e \in evicts[q] /\ e \in Docs
    BY <1>3 DEF Typed, Moves
  <2>2. e \notin evicts[p] /\ imports[e].status = "ok" /\ e \notin SealedDocs
    BY <2>1 DEF Deleted
  <2>3. e # d
    BY <1>4, <1>7, <2>2
  <2>4. \A r \in Processes : evicts'[r] = evicts[r] \/ evicts'[r] = {}
    BY <1>3 DEF Typed, Moves
  <2> QED
    BY <1>5, <2>1, <2>2, <2>3, <2>4 DEF Deleted
<1>15. Undisturbed'
  BY <1>1, <1>2, <1>3 DEF Typed, Undisturbed, InTx, Moves
<1>16. AllOrNothing'
  <2>1. (\A e : Ingested(e) => Ingested(e)') /\ Ingested(d)'
    BY <1>6 DEF Ingested, done
  <2>2. \A k \in Keys : stored'[k] # NoValue => \E e \in Docs : Ingested(e)' /\ RowOf[e][k] = stored'[k]
    <3> TAKE k \in Keys
    <3>1. CASE k \in KeysOf(d)
      BY <1>4, <1>8, <2>1, <3>1 DEF row
    <3>2. CASE k \notin KeysOf(d)
      BY <1>8, <2>1, <3>2 DEF AllOrNothing
    <3> QED
      BY <3>1, <3>2
  <2>3. \A k \in Keys : owner'[k] # NoDoc =>
          imports'[owner'[k]].status = "ok" /\ RowOf[owner'[k]][k] = stored'[k]
    <3> SUFFICES ASSUME NEW k \in Keys, owner'[k] # NoDoc
                 PROVE  imports'[owner'[k]].status = "ok" /\ RowOf[owner'[k]][k] = stored'[k]
      OBVIOUS
    <3>1. CASE k \in KeysOf(d)
      BY <1>5, <1>7, <1>8, <3>1 DEF row
    <3>2. CASE k \notin KeysOf(d)
      <4>1. owner'[k] = owner[k] /\ owner[k] \notin evicts[p] /\ stored'[k] = stored[k]
        BY <1>8, <3>2
      <4>2. imports[owner[k]].status = "ok" /\ RowOf[owner[k]][k] = stored[k] /\ owner[k] \in Docs
        BY <4>1 DEF AllOrNothing, Typed
      <4>3. owner[k] # d
        BY <1>4, <1>7, <4>2
      <4> QED
        BY <1>5, <4>1, <4>2, <4>3
    <3> QED
      BY <3>1, <3>2
  <2>4. \A r \in restated' : Ingested(r.by)'
    BY <1>10, <2>1 DEF AllOrNothing, Local
  <2>5. \A e \in Docs : imports'[e].status = "ok" => Ingested(e)'
    <3> SUFFICES ASSUME NEW e \in Docs, imports'[e].status = "ok" PROVE Ingested(e)'
      OBVIOUS
    <3>1. e = d \/ (e \notin evicts[p] /\ imports'[e] = imports[e])
      BY <1>5, <1>7
    <3> QED
      BY <2>1, <3>1 DEF AllOrNothing
  <2> QED
    BY <2>2, <2>3, <2>4, <2>5 DEF AllOrNothing
<1> QED
  BY <1>11, <1>12, <1>13, <1>14, <1>15, <1>16

LEMMA Crash_IInv ==
  ASSUME IInv, Crash
  PROVE  IInv'
<1> USE DEF IInv, Crash
<1>1. Typed'
  BY DEF Typed, Stages, tables
<1>2. Local'
  BY StoreAssumption DEF Local, HasImport
<1>3. Inserted' /\ Deleted' /\ Undisturbed'
  BY DEF Inserted, Deleted, Undisturbed, HasImport
<1>4. AllOrNothing'
  BY KeepAll DEF tables
<1> QED
  BY <1>1, <1>2, <1>3, <1>4

LEMMA ResetPoison_IInv ==
  ASSUME IInv, NEW d \in Docs, ResetPoison(d)
  PROVE  IInv'
<1> USE DEF IInv
<1>1. /\ imports[d].status = "poison" /\ imports'[d] = Absent
      /\ imports' \in [Docs -> Import \cup {Absent}]
      /\ \A e \in Docs \ {d} : imports'[e] = imports[e]
      /\ UNCHANGED <<stored, owner, restated, log, pc, doc, audit, evicts, cause, received, alone>>
  BY DEF ResetPoison, Typed, procVars
<1>2. Absent.status = "absent"
  BY DEF Absent
<1>3. Typed' /\ Local'
  BY <1>1 DEF Typed, Local, HasImport
<1>4. Inserted'
  BY <1>1 DEF Typed, Local, Inserted, HasImport
<1>5. Deleted'
  BY <1>1, <1>2 DEF Typed, Deleted
<1>6. \A p \in Processes : Evicted(p)' \subseteq Evicted(p)
  <2> SUFFICES ASSUME NEW p \in Processes, NEW e \in Evicted(p)' PROVE e \in Evicted(p)
    OBVIOUS
  <2>1. e \in Docs \ {doc[p]} /\ imports'[e].status = "ok"
    BY <1>1 DEF Evicted
  <2>2. e # d
    BY <1>1, <1>2, <2>1
  <2> QED
    BY <1>1, <2>1, <2>2 DEF Evicted
<1>7. Undisturbed'
  BY <1>1, <1>6 DEF Undisturbed, InTx, KeysOf
<1>8. AllOrNothing'
  <2>1. \A e : Ingested(e)' = Ingested(e)
    BY <1>1 DEF Ingested
  <2>2. \A e \in Docs : imports'[e].status = "ok" <=> imports[e].status = "ok"
    BY <1>1, <1>2
  <2> QED
    BY <1>1, <2>1, <2>2 DEF Typed, AllOrNothing
<1> QED
  BY <1>3, <1>4, <1>5, <1>7, <1>8

LEMMA Next_IInv == IInv /\ [Next]_vars => IInv'
<1> SUFFICES ASSUME IInv, [Next]_vars PROVE IInv'
  OBVIOUS
<1>1. ASSUME NEW p \in Processes, Progress(p) PROVE IInv'
  <2>1. CASE FailToParse(p)
    BY <2>1, RollBack_IInv DEF FailToParse, InTx
  <2>2. CASE FailToInsert(p)
    BY <2>2, RollBack_IInv DEF FailToInsert, InTx
  <2>3. CASE Deadlock(p)
    BY <2>3, RollBack_IInv DEF Deadlock, WaitsFor, InTx
  <2> QED
    BY <1>1, <2>1, <2>2, <2>3, Check_IInv, Recheck_IInv, Insert_IInv, Audit_IInv, Upsert_IInv,
       Evict_IInv, Commit_IInv, Poison_IInv DEF Progress
<1>2. ASSUME NEW p \in Processes, FailToPersist(p) PROVE IInv'
  BY <1>2, RollBack_IInv DEF FailToPersist, HasImport, InTx
<1>3. CASE UNCHANGED vars
  <2>1. UNCHANGED <<imports, stored, owner, restated, log, pc, doc, audit, evicts, cause, received, alone>>
    BY <1>3 DEF vars, tables, procVars
  <2>2. Typed' /\ Local' /\ Inserted' /\ Deleted'
    BY <2>1 DEF IInv, Typed, Local, Inserted, Deleted, HasImport
  <2>3. Undisturbed'
    BY <2>1 DEF IInv, Undisturbed, InTx, Evicted, KeysOf
  <2>4. AllOrNothing'
    BY <2>1, KeepAll DEF IInv
  <2> QED
    BY <2>2, <2>3, <2>4 DEF IInv
<1> QED
  BY <1>1, <1>2, <1>3, Receive_IInv, ResetPoison_IInv, Crash_IInv DEF Next

LEMMA Invariance == Spec => []IInv
BY Init_IInv, Next_IInv, PTL DEF Spec

-----------------------------------------------------------------------------
(* The steps *)

\* Which steps write the table of imports, and which the log a failure.
LEMMA WhoWrites ==
  ASSUME [Next]_vars
  PROVE  \/ UNCHANGED imports
         \/ \E p \in Processes : Commit(p) \/ Poison(p)
         \/ \E d \in Docs : ResetPoison(d)
<1> USE DEF tables
<1>1. ASSUME NEW p \in Processes, Progress(p)
      PROVE  UNCHANGED imports \/ Commit(p) \/ Poison(p)
  <2>1. CASE Check(p) \/ Recheck(p)
    BY <2>1 DEF Check, Recheck
  <2>2. CASE Insert(p) \/ Audit(p) \/ Upsert(p) \/ Evict(p)
    BY <2>2 DEF Insert, Audit, Upsert, Evict
  <2>3. CASE FailToParse(p) \/ FailToInsert(p) \/ Deadlock(p)
    BY <2>3 DEF FailToParse, FailToInsert, Deadlock, RollBack
  <2> QED
    BY <1>1, <2>1, <2>2, <2>3 DEF Progress
<1>2. ASSUME NEW p \in Processes, FailToPersist(p) \/ \E d \in Docs : Receive(p, d)
      PROVE  UNCHANGED imports
  BY <1>2 DEF FailToPersist, RollBack, Receive
<1>3. Crash \/ UNCHANGED vars => UNCHANGED imports
  BY DEF Crash, vars
<1> QED
  BY <1>1, <1>2, <1>3 DEF Next

LEMMA WhoLogs ==
  ASSUME [Next]_vars
  PROVE  \/ \A kind \in log' \ log : kind.status = "ok"
         \/ \E p \in Processes : Poison(p)
<1> USE DEF tables
<1>1. ASSUME NEW p \in Processes, Progress(p)
      PROVE  (\A kind \in log' \ log : kind.status = "ok") \/ Poison(p)
  <2>1. CASE Check(p) \/ Recheck(p)
    BY <2>1 DEF Check, Recheck, Close, Duplicate
  <2>2. CASE Insert(p) \/ Audit(p) \/ Upsert(p) \/ Evict(p)
    BY <2>2 DEF Insert, Audit, Upsert, Evict
  <2>3. CASE FailToParse(p) \/ FailToInsert(p) \/ Deadlock(p)
    BY <2>3 DEF FailToParse, FailToInsert, Deadlock, RollBack
  <2>4. CASE Commit(p)
    BY <2>4 DEF Commit, Close
  <2> QED
    BY <1>1, <2>1, <2>2, <2>3, <2>4 DEF Progress
<1>2. ASSUME NEW p \in Processes, FailToPersist(p) \/ \E d \in Docs : Receive(p, d)
      PROVE  UNCHANGED log
  BY <1>2 DEF FailToPersist, RollBack, Receive
<1>3. Crash \/ UNCHANGED vars \/ (\E d \in Docs : ResetPoison(d)) => UNCHANGED log
  BY DEF Crash, vars, ResetPoison
<1> QED
  BY <1>1, <1>2, <1>3 DEF Next

\* What a commit leaves of the table.
LEMMA AfterCommit ==
  ASSUME IInv, NEW p \in Processes, Commit(p)
  PROVE  /\ doc[p] \in Docs /\ imports[doc[p]] = Absent
         /\ \A d \in Docs \ {doc[p]} : imports'[d] = IF d \in evicts[p] THEN Absent ELSE imports[d]
         /\ \A d \in evicts[p] : d \notin SealedDocs /\ imports[d].status = "ok"
<1>1. pc[p] = "committing" /\ HasImport(p)
  BY DEF Commit, HasImport
<1>2. doc[p] \in Docs
  BY <1>1 DEF IInv, Typed, Local
<1>3. imports[doc[p]] = Absent
  BY <1>1 DEF IInv, Inserted
<1>4. \A d \in evicts[p] : d \notin SealedDocs /\ imports[d].status = "ok"
  BY DEF IInv, Deleted
<1>5. \A d \in Docs \ {doc[p]} : imports'[d] = IF d \in evicts[p] THEN Absent ELSE imports[d]
  BY DEF Commit
<1> QED
  BY <1>2, <1>3, <1>4, <1>5

\* A poison row takes the place of no other row.
LEMMA AfterPoison ==
  ASSUME IInv, NEW p \in Processes, Poison(p)
  PROVE  /\ doc[p] \in Docs /\ imports'[doc[p]] # Absent
         /\ log' = log \cup {Failed(p)}
         /\ \A d \in Docs : imports[d] # Absent => imports'[d] = imports[d]
<1>1. doc[p] \in Docs
  BY DEF Poison, IInv, Typed, Local
<1>2. [status |-> "poison", source |-> Source(p)] # Absent
  BY DEF Absent
<1>3. log' = log \cup {Failed(p)}
  BY DEF Poison, Close
<1> QED
  BY <1>1, <1>2, <1>3 DEF Poison, IInv, Typed

LEMMA AfterReset ==
  ASSUME IInv, NEW d \in Docs, ResetPoison(d)
  PROVE  imports[d].status = "poison" /\ \A e \in Docs \ {d} : imports'[e] = imports[e]
BY DEF IInv, Typed, ResetPoison

\* Only its own commit ends a process at that stage and changes its import.
LEMMA CommitsIsCommit ==
  ASSUME IInv, [Next]_vars, NEW p \in Processes, Commits(p)
  PROVE  Commit(p)
<1>1. /\ pc[p] = "committing" /\ pc'[p] = "idle" /\ doc[p] \in Docs
      /\ imports'[doc[p]] # imports[doc[p]]
  BY DEF Commits
<1>2. ASSUME NEW q \in Processes, Commit(q) \/ Poison(q) PROVE q = p /\ Commit(q)
  BY <1>1, <1>2 DEF Commit, Poison, Close, Goto, IInv, Typed
<1>3. ASSUME NEW d \in Docs PROVE ~ResetPoison(d)
  BY <1>1 DEF ResetPoison, procVars
<1> QED
  BY <1>1, <1>2, <1>3, WhoWrites

-----------------------------------------------------------------------------
(* The theorems *)

\* Imports, stored values, the log and what each process holds keep their value
\* sets: the states of ingest_xml and _run_one_connection.
THEOREM TypeCorrect == Spec => []TypeOK
<1>1. IInv => TypeOK
  BY DEF IInv, Typed, Local, TypeOK
<1> QED
  BY <1>1, Invariance, PTL

\* An ingest happens altogether or not at all, whatever fails and wherever the
\* process dies: the savepoint and the single commit of ingest_xml.
THEOREM WholeOrNothing == Spec => []AllOrNothing
<1>1. IInv => AllOrNothing
  BY DEF IInv
<1> QED
  BY <1>1, Invariance, PTL

\* No ingest removes a sealed import, in whatever order or overlap: the DELETE of
\* persist takes rolling imports only, and nothing seals or unseals one meanwhile.
THEOREM SealedKept == Spec => SealedStays
<1>1. ASSUME IInv, [Next]_vars, NEW d \in SealedDocs, imports[d].status = "ok"
      PROVE  imports'[d] = imports[d]
  <2>1. d \in Docs /\ imports[d] # Absent
    BY <1>1, StoreAssumption DEF Absent
  <2>2. ASSUME NEW p \in Processes, Commit(p) PROVE imports'[d] = imports[d]
    BY <1>1, <2>1, <2>2, AfterCommit
  <2>3. ASSUME NEW p \in Processes, Poison(p) PROVE imports'[d] = imports[d]
    BY <1>1, <2>1, <2>3, AfterPoison
  <2>4. ASSUME NEW e \in Docs, ResetPoison(e) PROVE imports'[d] = imports[d]
    BY <1>1, <2>1, <2>4, AfterReset
  <2> QED
    BY <1>1, <2>2, <2>3, <2>4, WhoWrites
<1>2. IInv /\ [Next]_vars => \A d \in SealedDocs : imports[d].status = "ok" => imports'[d] = imports[d]
  BY <1>1
<1> QED
  BY <1>2, Invariance, PTL DEF SealedStays, Spec

\* A failed ingest leaves its statement known, and only an operator's reset makes a
\* poison row go: _insert_poison_row and poison_reset.
THEOREM FailureKept == Spec => FailureIsRemembered
<1> DEFINE failure(d) == [doc |-> d, status |-> "failed", new |-> FALSE]
<1>1. ASSUME IInv, [Next]_vars, NEW d \in Docs, failure(d) \in log' \ log
      PROVE  imports'[d] # Absent
  <2>1. PICK p \in Processes : Poison(p)
    BY <1>1, WhoLogs
  <2>2. failure(d) = Failed(p)
    BY <1>1, <2>1, AfterPoison
  <2>3. d = doc[p]
    BY <2>2 DEF Failed
  <2> QED
    BY <1>1, <2>1, <2>3, AfterPoison
<1>2. ASSUME IInv, [Next]_vars, NEW d \in Docs,
             imports[d].status = "poison", imports'[d] # imports[d]
      PROVE  ResetPoison(d)
  <2>1. imports[d] # Absent /\ "poison" # "ok"
    BY <1>2 DEF Absent
  <2>2. ASSUME NEW p \in Processes PROVE ~Commit(p)
    BY <1>2, <2>1, AfterCommit
  <2>3. ASSUME NEW p \in Processes PROVE ~Poison(p)
    BY <1>2, <2>1, AfterPoison
  <2>4. PICK e \in Docs : ResetPoison(e)
    BY <1>2, <2>2, <2>3, WhoWrites
  <2> QED
    BY <1>2, <2>4, AfterReset
<1>3. IInv /\ [Next]_vars =>
        \A d \in Docs :
          LET failed == [doc |-> d, status |-> "failed", new |-> FALSE]
          IN  /\ (failed \in log' \ log) => imports'[d] # Absent
              /\ (imports[d].status = "poison" /\ imports'[d] # imports[d]) => ResetPoison(d)
  BY <1>1, <1>2
<1> QED
  BY <1>3, Invariance, PTL DEF FailureIsRemembered, Spec

\* An ingest that met no other leaves one rolling import for its year and source:
\* cleanup R1 of persist.
THEOREM LatestKept == Spec => LatestOnly
<1>1. ASSUME IInv, [Next]_vars, NEW p \in Processes, NEW d \in Docs, Commits(p), p \in alone,
             d # doc[p], YearOf[d] = YearOf[doc[p]], d \notin SealedDocs
      PROVE  imports'[d] # [status |-> "ok", source |-> Source(p)]
  <2>1. Commit(p)
    BY <1>1, CommitsIsCommit
  <2>2. Evicted(p) \subseteq evicts[p]
    BY <1>1 DEF IInv, Undisturbed, Commits
  <2>3. imports[d] = [status |-> "ok", source |-> Source(p)] => d \in evicts[p]
    BY <1>1, <2>2 DEF Evicted
  <2>4. imports'[d] = IF d \in evicts[p] THEN Absent ELSE imports[d]
    BY <1>1, <2>1, AfterCommit
  <2> QED
    BY <2>3, <2>4 DEF Absent
<1>2. IInv /\ [Next]_vars => 
        \A p \in Processes, d \in Docs :
          (Commits(p) /\ p \in alone /\ d # doc[p] /\ YearOf[d] = YearOf[doc[p]] /\ d \notin SealedDocs)
            => imports'[d] # [status |-> "ok", source |-> Source(p)]
  BY <1>1
<1> QED
  BY <1>2, Invariance, PTL DEF LatestOnly, Spec

\* An ingest that met no other logs every value it changes with the one it replaced:
\* _upsert_snapshot_with_audit.
THEOREM ChangesLogged == Spec => ChangesAreAudited
<1>1. ASSUME IInv, [Next]_vars, NEW p \in Processes, NEW k \in Keys, Commits(p), p \in alone,
             stored[k] \notin {NoValue, stored'[k]}
      PROVE  [key |-> k, old |-> stored[k], new |-> stored'[k], by |-> doc[p]] \in restated'
  <2>1. Commit(p)
    BY <1>1, CommitsIsCommit
  <2>2. stored'[k] = IF k \in KeysOf(doc[p]) THEN RowOf[doc[p]][k] ELSE stored[k]
    BY <2>1 DEF Commit, Written
  <2>3. k \in KeysOf(doc[p]) /\ stored'[k] = RowOf[doc[p]][k]
    BY <1>1, <2>2
  <2>4. [key |-> k, old |-> stored[k], new |-> RowOf[doc[p]][k], by |-> doc[p]] \in audit[p]
    BY <1>1, <2>3 DEF IInv, Undisturbed, Commits
  <2> QED
    BY <2>1, <2>3, <2>4 DEF Commit
<1>2. IInv /\ [Next]_vars =>
        \A p \in Processes, k \in Keys :
          (Commits(p) /\ p \in alone /\ stored[k] \notin {NoValue, stored'[k]})
            => [key |-> k, old |-> stored[k], new |-> stored'[k], by |-> doc[p]] \in restated'
  BY <1>1
<1> QED
  BY <1>2, Invariance, PTL DEF ChangesAreAudited, Spec
=============================================================================
