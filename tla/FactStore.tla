------------------------------ MODULE FactStore -----------------------------
(***************************************************************************)
(* The part of flex/persister.py that module ImportStore leaves out: the   *)
(* rows several statements, and several organizations, share.              *)
(*                                                                         *)
(*  - accounts and counterparties, one per organization and id;            *)
(*  - the securities master: instruments, and the identifiers (conid and   *)
(*    isin) that name them, shared by all organizations;                   *)
(*  - the immutable facts: trades, closed lots, cash transactions and      *)
(*    transfers, first seen first stored;                                  *)
(*  - the siblings of closed lots in the restatement log.                  *)
(*                                                                         *)
(* An ingest is a READ COMMITTED transaction: a SELECT sees what is        *)
(* committed and its own writes, an INSERT waits for an uncommitted row    *)
(* with its key.  Stages stand between statements, and between the rows of *)
(* the INSERTs that fill the shared tables.  The other INSERTs, which wait *)
(* only for ingests of the same organization, are one step each: that two  *)
(* of them with common rows in another order may block each other is left  *)
(* out.                                                                    *)
(*                                                                         *)
(* Left out: snapshot rows and the eviction of imports (ImportStore), the  *)
(* attributes of an instrument, whose refresh holds row locks that are     *)
(* taken in the order of ids and after every INSERT of an identifier.      *)
(***************************************************************************)
EXTENDS StatementParser, FiniteSets, SequencesExt

CONSTANTS
  Orgs, Processes,
  Docs, Content,        \* Content \in [Docs -> Seq(element)]
  YearOf, SealedDocs,   \* of a statement; its lots close in its year
  Shadow,               \* accounts with the suffix F
  None,                 \* NULL
  MaxIngests            \* bound

VARIABLES
  shared,     \* committed rows of the shared tables: [key, of]
  facts,      \* committed facts
  siblings,   \* committed sibling rows of restatement_log
  ingested,   \* <<organization, statement>> whose import is stored as ok
  pc, job,    \* per process: stage, and the organization and statement at hand
  todo,       \* per process: keys it has still to insert
  mine,       \* per process: its uncommitted writes
  resolved,   \* per process: conid -> instrument, as _ensure_instruments returns it
  begun,      \* ingests begun so far
  alone       \* history: the process whose transaction has met no other, if any

vars == <<shared, facts, siblings, ingested, pc, job, todo, mine, resolved, begun, alone>>

NoJob == [org |-> None, doc |-> None]
NoWrites == [shared |-> {}, facts |-> {}, siblings |-> {}]
Stages == {"idle", "accounts", "instruments", "trade", "lot", "siblings", "cash", "parties",
           "transfer", "restatements", "committing"}

Rows(d) == Parse(Content[d])
OfTag(d, tags) == {Content[d][i] : i \in {j \in Rows(d) : Content[d][j].tag \in tags}}
Real(e) == e.account \notin Shadow

\* Account ids are strings, put in order by sorted(): numbers stand for them.
ASSUME StatementAssumption ==
  /\ None \notin Orgs
  /\ \A d \in Docs :
       /\ Len(Content[d]) \in Nat /\ DOMAIN Content[d] = 1..Len(Content[d])
       /\ \A i \in Rows(d) :
            /\ Content[d][i].account \in Nat
            /\ "peer" \in Content[d][i].has => Content[d][i].peer \in Nat

Lots == {"Lot", "ClosedLot"}

\* The table of facts a row is for.
KindOf(e) ==
  CASE e.tag = "Trade" -> "trade" [] e.tag \in Lots -> "lot" [] e.tag = "CashTransaction" -> "cash"
    [] e.tag = "Transfer" -> "transfer" [] OTHER -> "none"

-----------------------------------------------------------------------------
(* What a statement brings *)

OwnAccounts(d) == {e.account : e \in OfTag(d, Handled \ {"Transfer"})} \ Shadow

\* _collect_instrument_specs: the rows whose conid may create an instrument, shadow
\* accounts and all.
CreatorRows(d) ==
  OfTag(d, Lots \cup Accruals \cup {"Trade", "OpenPosition"})
    \cup {e \in OfTag(d, {"Transfer"}) : "cash" \notin e.has}
Creators(d) == {e.conid : e \in CreatorRows(d)}

\* The tables are gone through one after the other; the first isin that comes with a conid
\* stays, if there is any.
CreationRank(e) ==
  CASE e.tag = "Trade" -> 1 [] e.tag \in Lots -> 2 [] e.tag = "OpenPosition" -> 3
    [] e.tag = "ChangeInDividendAccrual" -> 4 [] e.tag = "OpenDividendAccrual" -> 5 [] OTHER -> 6
Isins(d, conid) ==
  LET At(i) == Content[d][i]
      said == {i \in Rows(d) : At(i) \in CreatorRows(d) /\ At(i).conid = conid /\ "isin" \in At(i).has}
      Precedes(i, j) == \/ CreationRank(At(i)) < CreationRank(At(j))
                        \/ CreationRank(At(i)) = CreationRank(At(j)) /\ i <= j
  IN  {At(i).isin : i \in {n \in said : \A m \in said : Precedes(n, m)}}

\* A conid only accruals create, none of which says what it is.
Classless(d, conid) == \A e \in CreatorRows(d) : e.conid = conid => "asset" \notin e.has

Resolvers(d) == {e.conid : e \in {x \in OfTag(d, {"CashTransaction"}) : "conid" \in x.has /\ Real(x)}}

Transfers(d) == {e \in OfTag(d, {"Transfer"}) : Real(e) /\ e.peer \notin Shadow}
Peers(d) ==
  UNION {({e.account} \cup (IF "peer" \in e.has THEN {e.peer} ELSE {})) : e \in OfTag(d, {"Transfer"})}
    \ (Shadow \cup OwnAccounts(d))

\* A lot without transaction id gets one made from its place among the statement's lots;
\* rows of the other tables without one have the same, which is empty.
TransactionId(d, i) ==
  LET e == Content[d][i]
      place == Cardinality({j \in Rows(d) : j < i /\ Content[d][j].tag \in Lots})
  IN  IF "tx" \in e.has THEN e.key ELSE IF e.tag \in Lots THEN <<e.key, place>> ELSE None

\* The broker's ids of cash transactions are unique, and a transaction is about one
\* security at most: statements that name its conid name the same.
ASSUME CashAssumption ==
  \A d, e \in Docs : \A i \in Rows(d), j \in Rows(e) :
    LET x == Content[d][i]
        z == Content[e][j]
    IN  (/\ KindOf(x) = "cash" /\ KindOf(z) = "cash" /\ Real(x) /\ Real(z)
         /\ {"tx", "conid"} \subseteq x.has /\ {"tx", "conid"} \subseteq z.has /\ x.key = z.key)
        => x.conid = z.conid

AccountKey(o, a) == <<"account", o, a>>
PartyKey(o, a) == <<"counterparty", o, a>>
ConidKey(c) == <<"conid", c>>
IsinKey(i) == <<"isin", i>>

\* The instrument an ingest makes for a conid.
Instrument(j, conid) == [org |-> j.org, doc |-> j.doc, conid |-> conid]

-----------------------------------------------------------------------------
(* Transactions *)

Visible(p) == shared \cup mine[p].shared
VisibleFacts(p) == facts \cup mine[p].facts
Named(rows, key) == {r \in rows : r.key = key}

\* The instrument each conid of p's statement is an identifier of, as p sees it.
Lookup(p) ==
  LET known == {c \in Creators(job[p].doc) \cup Resolvers(job[p].doc) : Named(Visible(p), ConidKey(c)) # {}}
  IN  [c \in known |-> (CHOOSE r \in Named(Visible(p), ConidKey(c)) : TRUE).of]

FactKey(r) == IF r.kind = "lot" THEN <<r.org, r.kind, r.key, r.val>> ELSE <<r.org, r.kind, r.key>>
FactKeys(rows) == {FactKey(r) : r \in rows}

Fact(p, kind, key, e, i) ==
  [org |-> job[p].org, kind |-> kind, key |-> key, val |-> e.val, instrument |-> i,
   conid |-> IF "conid" \in e.has THEN e.conid ELSE None]

\* The places of the rows a statement has for one table of facts.
Places(d, kind) ==
  {i \in Rows(d) : LET e == Content[d][i]
                   IN  KindOf(e) = kind /\ Real(e) /\ (kind = "transfer" => e.peer \notin Shadow)}

\* The facts p's statement has for a table, by place.
Incoming(p, kind) ==
  LET d == job[p].doc
      Known(e) == "conid" \in e.has /\ "cash" \notin e.has /\ e.conid \in DOMAIN resolved[p]
      Of(e) == IF Known(e) THEN resolved[p][e.conid] ELSE None
  IN  [i \in Places(d, kind) |-> Fact(p, kind, TransactionId(d, i), Content[d][i], Of(Content[d][i]))]

\* Of rows with one key the first is stored, or, of cash transactions, the last.
OnePerKey(kind, rows) ==
  {rows[n] : n \in {m \in DOMAIN rows :
     \A k \in DOMAIN rows : FactKey(rows[k]) = FactKey(rows[m]) => IF kind = "cash" THEN k <= m ELSE k >= m}}

\* Rows q has written and not committed keep p waiting.
RowsBlockedBy(p, kind, q) ==
  q # p /\ FactKeys(Range(Incoming(p, kind))) \cap FactKeys(mine[q].facts) # {}

WaitsFor(p, q) ==
  /\ q # p
  /\ \/ pc[p] \in {"accounts", "instruments", "parties"} /\ todo[p] # <<>>
        /\ Named(mine[q].shared, Head(todo[p]).key) # {}
     \/ pc[p] \in {"trade", "lot", "cash", "transfer"} /\ RowsBlockedBy(p, pc[p], q)

Free(p) == \A q \in Processes : ~WaitsFor(p, q)

Goto(p, stage) == pc' = [pc EXCEPT ![p] = stage]

Write(p, rows) == mine' = [mine EXCEPT ![p].shared = @ \cup rows]

End(p) ==
  /\ Goto(p, "idle")
  /\ job' = [job EXCEPT ![p] = NoJob]
  /\ todo' = [todo EXCEPT ![p] = <<>>]
  /\ mine' = [mine EXCEPT ![p] = NoWrites]
  /\ resolved' = [resolved EXCEPT ![p] = <<>>]

-----------------------------------------------------------------------------
(* One ingest *)

Init ==
  /\ shared = {} /\ facts = {} /\ siblings = {} /\ ingested = {}
  /\ pc = [p \in Processes |-> "idle"]
  /\ job = [p \in Processes |-> NoJob]
  /\ todo = [p \in Processes |-> <<>>]
  /\ mine = [p \in Processes |-> NoWrites]
  /\ resolved = [p \in Processes |-> <<>>]
  /\ begun = 0 /\ alone = {}

\* Accounts and counterparties that are not there yet; their ids in order.
Absent(p, keys) == {k \in keys : Named(Visible(p), k) = {}}
Entries(keys) == {[key |-> k, of |-> None] : k \in keys}
Sorted(rows) ==
  {s \in SetToSeqs(rows) : \A m, n \in DOMAIN s : m < n => s[m].key[3] < s[n].key[3]}

\* Mutant: the missing accounts are inserted in the order of the set.
BeginUnsorted(p, o, d) ==
  /\ pc[p] = "idle" /\ begun < MaxIngests
  /\ <<o, d>> \notin ingested /\ \A q \in Processes : job[q] # [org |-> o, doc |-> d]
  /\ ~Refuses(Content[d])
  /\ begun' = begun + 1
  /\ alone' = IF \E q \in Processes : pc[q] # "idle" THEN {} ELSE {p}
  /\ job' = [job EXCEPT ![p] = [org |-> o, doc |-> d]]
  /\ \E order \in SetToSeqs(Entries(Absent(p, {AccountKey(o, a) : a \in OwnAccounts(d)}))) :
       todo' = [todo EXCEPT ![p] = order]
  /\ Goto(p, "accounts")
  /\ UNCHANGED <<shared, facts, siblings, ingested, mine, resolved>>

\* A statement the parser accepts, of unknown hash; nobody else ingests it for the
\* organization (ImportStore is about those who try).  _ensure_accounts looks for
\* its accounts and sorts the missing ones.
Begin(p, o, d) ==
  LET missing == Absent(p, {AccountKey(o, a) : a \in OwnAccounts(d)})
  IN  /\ pc[p] = "idle" /\ begun < MaxIngests
      /\ <<o, d>> \notin ingested /\ \A q \in Processes : job[q] # [org |-> o, doc |-> d]
      /\ ~Refuses(Content[d])
      /\ begun' = begun + 1
      /\ alone' = IF \E q \in Processes : pc[q] # "idle" THEN {} ELSE {p}
      /\ job' = [job EXCEPT ![p] = [org |-> o, doc |-> d]]
      /\ \E order \in Sorted(Entries(missing)) : todo' = [todo EXCEPT ![p] = order]
      /\ Goto(p, "accounts")
      /\ UNCHANGED <<shared, facts, siblings, ingested, mine, resolved>>

\* The next row of an INSERT ... ON CONFLICT DO NOTHING into a shared table.
InsertShared(p) ==
  /\ pc[p] \in {"accounts", "instruments", "parties"} /\ todo[p] # <<>>
  /\ pc[p] = "instruments" /\ Head(todo[p]).key[1] = "conid" =>
       ~Classless(job[p].doc, Head(todo[p]).of.conid)
  /\ Free(p)
  /\ IF Named(Visible(p), Head(todo[p]).key) = {} THEN Write(p, {Head(todo[p])}) ELSE UNCHANGED mine
  /\ todo' = [todo EXCEPT ![p] = Tail(@)]
  /\ UNCHANGED <<shared, facts, siblings, ingested, pc, job, resolved, begun, alone>>

\* The identifiers of new instruments; the isin of each is inserted after its conid.
Identifiers(j, conids) ==
  {[key |-> ConidKey(c), of |-> Instrument(j, c)] : c \in conids}
    \cup UNION {{[key |-> IsinKey(i), of |-> Instrument(j, c)] : i \in Isins(j.doc, c)} : c \in conids}
InPairs(rows) ==
  {s \in SetToSeqs(rows) : \A n \in DOMAIN s : s[n].key[1] = "isin" =>
     n > 1 /\ s[n - 1].key[1] = "conid" /\ s[n - 1].of = s[n].of}

\* _ensure_instruments: the conids the master knows, and the instruments to create for
\* the others, in the order a set happens to have.
LookForInstruments(p) ==
  LET missing == Creators(job[p].doc) \ DOMAIN Lookup(p)
  IN  /\ pc[p] = "accounts" /\ todo[p] = <<>>
      /\ resolved' = [resolved EXCEPT ![p] = Lookup(p)]
      /\ \E order \in InPairs(Identifiers(job[p], missing)) : todo' = [todo EXCEPT ![p] = order]
      /\ Goto(p, "instruments")
      /\ UNCHANGED <<shared, facts, siblings, ingested, job, mine, begun, alone>>

\* Mutant: whoever created an instrument goes on with it.
ResolveOwn(p) ==
  /\ pc[p] = "instruments" /\ todo[p] = <<>>
  /\ resolved' = [resolved EXCEPT ![p] =
                    [c \in DOMAIN Lookup(p) |-> IF c \in DOMAIN @ THEN @[c]
                                                ELSE IF c \in Creators(job[p].doc) THEN Instrument(job[p], c)
                                                ELSE Lookup(p)[c]]]
  /\ Goto(p, "trade")
  /\ UNCHANGED <<shared, facts, siblings, ingested, job, todo, mine, begun, alone>>

\* If any was missing, all are looked up again: somebody else may have been faster.
Resolve(p) ==
  /\ pc[p] = "instruments" /\ todo[p] = <<>>
  /\ resolved' = [resolved EXCEPT ![p] = IF Creators(job[p].doc) \subseteq DOMAIN @ THEN @ ELSE Lookup(p)]
  /\ Goto(p, "trade")
  /\ UNCHANGED <<shared, facts, siblings, ingested, job, todo, mine, begun, alone>>

\* _upsert_immutable: what is there stays as it is.
Insert(p, kind, next) ==
  /\ pc[p] = kind /\ Free(p)
  /\ mine' = [mine EXCEPT ![p].facts =
                @ \cup {r \in OnePerKey(kind, Incoming(p, kind)) : FactKey(r) \notin FactKeys(VisibleFacts(p))}]
  /\ Goto(p, next)
  /\ UNCHANGED <<shared, facts, siblings, ingested, job, todo, resolved, begun, alone>>

InsertTrades(p) == Insert(p, "trade", "lot")
InsertLots(p) == Insert(p, "lot", "siblings")

SealedYear(o, d) == \E e \in SealedDocs : YearOf[e] = YearOf[d] /\ (<<o, e>> \in ingested \/ e = d)

SiblingsOf(p, r) ==
  {x \in VisibleFacts(p) : x.org = r.org /\ x.kind = "lot" /\ x.key = r.key /\ x.val # r.val}
Logged(p, x, r) ==
  [org |-> r.org, key |-> r.key, old |-> x.val, new |-> r.val, by |-> job[p].doc, sealed |-> FALSE]

\* Mutant: no pairs are remembered.
LogSiblingsTwice(p) ==
  /\ pc[p] = "siblings"
  /\ mine' = [mine EXCEPT ![p].siblings =
                UNION {{Logged(p, x, r) : x \in SiblingsOf(p, r)} : r \in {y \in mine[p].facts : y.kind = "lot"}}]
  /\ Goto(p, "cash")
  /\ UNCHANGED <<shared, facts, siblings, ingested, job, todo, resolved, begun, alone>>

\* _detect_closed_lot_siblings: each new lot against those it can see; of two that are
\* new, the one that comes first in the result finds the other.
LogSiblings(p) ==
  LET new == {r \in mine[p].facts : r.kind = "lot"}
      pairs == UNION {{{x, r} : x \in SiblingsOf(p, r)} : r \in new}
  IN  /\ pc[p] = "siblings"
      /\ mine' = [mine EXCEPT ![p].siblings =
                    {LET r == CHOOSE y \in pair : y \in new
                     IN  Logged(p, CHOOSE x \in pair : x # r, r) : pair \in pairs}]
      /\ Goto(p, "cash")
      /\ UNCHANGED <<shared, facts, siblings, ingested, job, todo, resolved, begun, alone>>

\* Mutant: the DO UPDATE has no WHERE.
InsertCashOverwriting(p) ==
  LET rows == OnePerKey("cash", Incoming(p, "cash"))
  IN  /\ pc[p] = "cash" /\ Free(p)
      /\ mine' = [mine EXCEPT ![p].facts =
                    @ \cup {r \in rows : FactKey(r) \notin FactKeys(VisibleFacts(p))}
                      \cup {[x EXCEPT !.instrument = (CHOOSE r \in rows : FactKey(r) = FactKey(x)).instrument] :
                              x \in {y \in facts : FactKey(y) \in FactKeys(rows)}}]
      /\ Goto(p, "parties")
      /\ todo' = [todo EXCEPT ![p] = <<>>]
      /\ UNCHANGED <<shared, facts, siblings, ingested, job, resolved, begun, alone>>

\* _upsert_immutable_with_resolution: a row that is there gets an instrument if it has
\* none and the statement knows one.  Then the counterparties are looked for.
InsertCash(p) ==
  LET rows == OnePerKey("cash", Incoming(p, "cash"))
      missing == Absent(p, {PartyKey(job[p].org, a) : a \in Peers(job[p].doc)})
      converging == {y \in facts : /\ y.kind = "cash" /\ y.instrument = None
                                   /\ \E r \in rows : FactKey(r) = FactKey(y) /\ r.instrument # None}
  IN  /\ pc[p] = "cash" /\ Free(p)
      /\ mine' = [mine EXCEPT ![p].facts =
                    @ \cup {r \in rows : FactKey(r) \notin FactKeys(VisibleFacts(p))}
                      \cup {[x EXCEPT !.instrument = (CHOOSE r \in rows : FactKey(r) = FactKey(x)).instrument] :
                              x \in converging}]
      /\ \E order \in Sorted(Entries(missing)) : todo' = [todo EXCEPT ![p] = order]
      /\ Goto(p, "parties")
      /\ UNCHANGED <<shared, facts, siblings, ingested, job, resolved, begun, alone>>

PartiesDone(p) ==
  /\ pc[p] = "parties" /\ todo[p] = <<>>
  /\ Goto(p, "transfer")
  /\ UNCHANGED <<shared, facts, siblings, ingested, job, todo, mine, resolved, begun, alone>>

\* Every side of a transfer is an account or a counterparty: the CHECK of the table
\* refuses one without peer, and with it the whole statement.
InsertTransfers(p) ==
  /\ pc[p] = "transfer" /\ \A e \in Transfers(job[p].doc) : "peer" \in e.has
  /\ Insert(p, "transfer", "restatements")

\* _persist_restatements: the entries are written, marked if their year is sealed by now.
PersistRestatements(p) ==
  /\ pc[p] = "restatements"
  /\ mine' = [mine EXCEPT ![p].siblings =
                {[s EXCEPT !.sealed = SealedYear(job[p].org, job[p].doc)] : s \in @}]
  /\ Goto(p, "committing")
  /\ UNCHANGED <<shared, facts, siblings, ingested, job, todo, resolved, begun, alone>>

Commit(p) ==
  /\ pc[p] = "committing"
  /\ shared' = shared \cup mine[p].shared
  /\ facts' = {r \in facts : FactKey(r) \notin FactKeys(mine[p].facts)} \cup mine[p].facts
  /\ siblings' = siblings \cup mine[p].siblings
  /\ ingested' = ingested \cup {<<job[p].org, job[p].doc>>}
  /\ End(p)
  /\ UNCHANGED <<begun, alone>>

\* The database or a check of the persister fails, or the process dies.
Fail(p) ==
  /\ pc[p] # "idle"
  /\ End(p)
  /\ UNCHANGED <<shared, facts, siblings, ingested, begun, alone>>

Next ==
  \E p \in Processes :
    \/ \E o \in Orgs, d \in Docs : Begin(p, o, d)
    \/ InsertShared(p) \/ LookForInstruments(p) \/ Resolve(p)
    \/ InsertTrades(p) \/ InsertLots(p) \/ LogSiblings(p) \/ InsertCash(p)
    \/ PartiesDone(p) \/ InsertTransfers(p) \/ PersistRestatements(p)
    \/ Commit(p) \/ Fail(p)

Spec == Init /\ [][Next]_vars

-----------------------------------------------------------------------------
(* Properties *)

TypeOK ==
  /\ \A r, s \in shared : r.key = s.key => r = s
  /\ \A r, s \in facts : FactKey(r) = FactKey(s) => r = s
  /\ ingested \subseteq Orgs \X Docs
  /\ pc \in [Processes -> Stages]
  /\ \A p \in Processes : pc[p] = "idle" <=> job[p] = NoJob
  /\ \A p \in Processes : pc[p] = "idle" => mine[p] = NoWrites /\ todo[p] = <<>>
  /\ alone \subseteq Processes

\* Whoever wins the race for a conid, in whatever organization: every fact hangs on the
\* instrument its conid is an identifier of, never on one left without identifier.  (A
\* cash transaction first seen without conid has an instrument when a later statement
\* knows it, and still no conid.  All cash transactions without id are one fact, with the
\* conid of the first, and the instrument of a later one if that of the first is unknown.)
OneInstrument ==
  \A r \in facts : r.instrument # None =>
    \E s \in shared :
      /\ s.of = r.instrument
      /\ IF r.conid = None \/ (r.kind = "cash" /\ r.key = None) THEN s.key[1] = "conid"
                                                               ELSE s.key = ConidKey(r.conid)

\* No row is lost between the XML and the tables: of a statement that was ingested, every
\* row with a date and an id (of lots, with or without), that is no rollup and of no shadow
\* account, is there.
NoRowLost ==
  \A x \in ingested :
    LET s == Content[x[2]]
        Rollup(e) == (e.tag = "Lot" /\ e.level # "CLOSED_LOT") \/ (e.tag = "CashTransaction" /\ e.level = "SUMMARY")
        lost == {i \in DOMAIN s :
                   /\ s[i].tag \in {"Trade", "CashTransaction", "Transfer"} \cup Lots
                   /\ "date" \in s[i].has /\ ("tx" \in s[i].has \/ s[i].tag \in Lots) /\ ~Rollup(s[i])
                   /\ Real(s[i]) /\ s[i].peer \notin Shadow
                   /\ \A r \in facts :
                        \/ r.org # x[1] \/ r.kind # KindOf(s[i])
                        \/ "tx" \in s[i].has /\ r.key # s[i].key
                        \/ s[i].tag \in Lots /\ r.val # s[i].val}
    IN  lost = {}

\* A stored fact stays as it was first seen, whatever later statements say of it; only an
\* instrument that was not known may be filled in.
FactsStand ==
  [][\A r \in facts :
       r \in facts' \/ (r.instrument = None /\ r.kind = "cash"
                        /\ \E i \in {x.instrument : x \in facts'} \ {None} : [r EXCEPT !.instrument = i] \in facts')]_vars

\* Two closed lots that differ in nothing but their result are logged once by the ingest,
\* meeting no other, that stores the second of them, and are marked as a change of a
\* sealed year if the year is sealed.
SiblingsLogged ==
  [][\A p \in alone : Commit(p) =>
       \A r \in mine[p].facts, x \in facts' :
         (r.kind = "lot" /\ x.kind = "lot" /\ x.org = r.org /\ x.key = r.key /\ x.val # r.val) =>
            LET entries == {s \in siblings' : s.org = r.org /\ s.key = r.key /\ {s.old, s.new} = {r.val, x.val}}
            IN  /\ Cardinality(entries) = 1
                /\ \A s \in entries : s.sealed <=> SealedYear(job[p].org, job[p].doc)]_vars

\* The tables that are filled in sorted order are in no deadlock: no ingest that waits for
\* an account or a counterparty is waited for by the one it waits for.  (Over identifiers
\* of new instruments, inserted in no fixed order, two ingests do block each other, and
\* Postgres makes one of them fail.)
SortedNeverDeadlocks ==
  \A p, q \in Processes : (WaitsFor(p, q) /\ WaitsFor(q, p)) => pc[p] \notin {"accounts", "parties"}
=============================================================================
