--------------------------- MODULE FactStoreProofs --------------------------
(***************************************************************************)
(* The shared tables and the immutable facts, for every set of             *)
(* organizations, statements and ingests: no row of an ingested statement  *)
(* is lost, no stored fact changes, every fact hangs on the instrument its *)
(* conid names, siblings are logged once, and the tables that are filled   *)
(* in order are in no deadlock.                                            *)
(***************************************************************************)
EXTENDS FactStore, FiniteSetTheorems, WellFoundedInduction, TLAPS

-----------------------------------------------------------------------------
(* What is written *)

Kinds == {"trade", "lot", "cash", "transfer"}

Conids == UNION {{Content[d][i].conid : i \in Rows(d)} : d \in Docs}
IsinIds == UNION {{Content[d][i].isin : i \in Rows(d)} : d \in Docs}

\* Rows of the shared tables, and what an ingest has still to insert.
SharedKeys ==
  ({"account", "counterparty"} \X Orgs \X Nat) \cup ({"conid"} \X Conids) \cup ({"isin"} \X IsinIds)
Entry == [key : SharedKeys, of : [org : Orgs, doc : Docs, conid : Conids] \cup {None}]

IsFact(r) ==
  r = [org |-> r.org, kind |-> r.kind, key |-> r.key, val |-> r.val, instrument |-> r.instrument,
       conid |-> r.conid]
IsLogged(s) ==
  s = [org |-> s.org, key |-> s.key, old |-> s.old, new |-> s.new, by |-> s.by, sealed |-> s.sealed]

\* The tables of facts an ingest has filled by the time it is at a stage, and the keys it
\* may have inserted into the shared tables.
Filled(stage) ==
  CASE stage = "lot" -> {"trade"}
    [] stage \in {"siblings", "cash"} -> {"trade", "lot"}
    [] stage \in {"parties", "transfer"} -> {"trade", "lot", "cash"}
    [] stage \in {"restatements", "committing"} -> Kinds
    [] OTHER -> {}

Claimed(stage) ==
  CASE stage = "accounts" -> {"account"}
    [] stage \in {"parties", "transfer", "restatements", "committing"} ->
         {"account", "conid", "isin", "counterparty"}
    [] OTHER -> {"account", "conid", "isin"}

\* The keys it is inserting.
Claiming(stage) ==
  CASE stage = "accounts" -> {"account"} [] stage = "instruments" -> {"conid", "isin"}
    [] stage = "parties" -> {"counterparty"} [] OTHER -> {}

\* The key of the fact a row becomes.
KeyAt(o, d, i) ==
  LET e == Content[d][i]
  IN  IF KindOf(e) = "lot" THEN <<o, "lot", TransactionId(d, i), e.val>>
                           ELSE <<o, KindOf(e), TransactionId(d, i)>>

LotKey(o, key, val) == <<o, "lot", key, val>>

-----------------------------------------------------------------------------
(* The inductive invariant *)

Typed ==
  /\ shared \subseteq Entry
  /\ \A r \in facts : IsFact(r)
  /\ ingested \subseteq Orgs \X Docs
  /\ pc \in [Processes -> Stages]
  /\ job \in [Processes -> [org : Orgs, doc : Docs] \cup {NoJob}]
  /\ todo \in [Processes -> Seq(Entry)]
  /\ mine = [p \in Processes |->
               [shared |-> mine[p].shared, facts |-> mine[p].facts, siblings |-> mine[p].siblings]]
  /\ resolved = [p \in Processes |-> resolved[p]]
  /\ alone \subseteq Processes

\* What one ingest has in its hands is of its statement, and nothing is left of an ingest
\* that is over.
Staged(p) ==
  /\ pc[p] = "idle" <=> job[p] = NoJob
  /\ pc[p] = "idle" => mine[p] = NoWrites /\ todo[p] = <<>>
  /\ pc[p] # "idle" => ~Refuses(Content[job[p].doc])
  /\ mine[p].shared \subseteq Entry /\ \A s \in mine[p].shared : s.key[1] \in Claimed(pc[p])
  /\ \A r \in mine[p].facts : IsFact(r) /\ r.org = job[p].org /\ r.kind \in Filled(pc[p])
  /\ \A n \in DOMAIN todo[p] : todo[p][n].key[1] \in Claiming(pc[p])

\* Accounts and counterparties are inserted in order.
InOrder(p) ==
  pc[p] \in {"accounts", "parties"} =>
    /\ \A m, n \in DOMAIN todo[p] : m < n => todo[p][m].key[3] < todo[p][n].key[3]
    /\ \A s \in mine[p].shared, n \in DOMAIN todo[p] :
         s.key[1] \in Claiming(pc[p]) => s.key[3] < todo[p][n].key[3]

\* A row that is written again is a cash transaction that gets an instrument.
Converges(x, m) ==
  /\ x.kind = "cash" /\ x.instrument = None /\ m.instrument # None
  /\ m = [x EXCEPT !.instrument = m.instrument]

OneEach(rows) == \A r, s \in rows : r.key = s.key => r = s
OneFactEach(rows) == \A r, s \in rows : FactKey(r) = FactKey(s) => r = s

\* What an ingest sees has one row for each key.
Keyed(p) ==
  /\ OneEach(Visible(p)) /\ OneFactEach(mine[p].facts)
  /\ \A x \in facts, m \in mine[p].facts : FactKey(x) = FactKey(m) => Converges(x, m)

\* The instrument of a fact has an identifier among the rows: the fact's conid, if it has one.
HangsOn(r, rows) ==
  r.instrument # None =>
    \E s \in rows : /\ s.of = r.instrument
                    /\ IF r.conid = None \/ (r.kind = "cash" /\ r.key = None)
                         THEN s.key[1] = "conid" ELSE s.key = ConidKey(r.conid)

\* The conid of a cash transaction was in some statement.
Sourced(r) ==
  (r.kind = "cash" /\ r.conid # None) =>
    \E d \in Docs : \E i \in Places(d, "cash") :
      /\ "conid" \in Content[d][i].has /\ r.conid = Content[d][i].conid
      /\ r.key = TransactionId(d, i)

Hung(p) ==
  /\ \A c \in DOMAIN resolved[p] :
       \E s \in Visible(p) : s.key = ConidKey(c) /\ s.of = resolved[p][c]
  /\ \A r \in mine[p].facts : HangsOn(r, Visible(p)) /\ Sourced(r)

\* The rows of a statement that are in a set of facts, by their keys.
Has(rows, o, d, kinds) == \A k \in kinds : \A i \in Places(d, k) : KeyAt(o, d, i) \in FactKeys(rows)

Full(p) == pc[p] # "idle" => Has(VisibleFacts(p), job[p].org, job[p].doc, Filled(pc[p]))

\* An entry of the log is about two lots that are there.
Backed(s, rows) ==
  /\ LotKey(s.org, s.key, s.old) \in FactKeys(rows)
  /\ LotKey(s.org, s.key, s.new) \in FactKeys(rows)

Siblings(r, x) == r.kind = "lot" /\ x.kind = "lot" /\ x.org = r.org /\ x.key = r.key /\ x.val # r.val
About(s, r, x) == s.org = r.org /\ s.key = r.key /\ {s.old, s.new} = {r.val, x.val}

\* The log of an ingest that met no other has one entry for each pair of siblings.
Paired(p) ==
  /\ pc[p] \in {"accounts", "instruments", "trade", "lot", "siblings"} => mine[p].siblings = {}
  /\ \A s \in mine[p].siblings : IsLogged(s) /\ Backed(s, VisibleFacts(p))
  /\ (p \in alone /\ pc[p] \in {"cash", "parties", "transfer", "restatements", "committing"}) =>
       \A r \in mine[p].facts, x \in VisibleFacts(p) : Siblings(r, x) =>
         \E s \in mine[p].siblings : About(s, r, x) /\ \A t \in mine[p].siblings : About(t, r, x) => t = s
  /\ (p \in alone /\ pc[p] = "committing") =>
       \A s \in mine[p].siblings : s.sealed <=> SealedYear(job[p].org, job[p].doc)

Local(p) == Staged(p) /\ InOrder(p) /\ Keyed(p) /\ Hung(p) /\ Full(p) /\ Paired(p)

\* No two ingests have inserted the same key: the second waits for the first.
Apart(p, q) ==
  /\ \A r \in mine[p].shared, s \in mine[q].shared : r.key # s.key
  /\ FactKeys(mine[p].facts) \cap FactKeys(mine[q].facts) = {}

\* What is committed.
Stored ==
  /\ OneEach(shared) /\ OneFactEach(facts)
  /\ \A r \in facts : HangsOn(r, shared) /\ Sourced(r)
  /\ \A x \in ingested : ~Refuses(Content[x[2]]) /\ Has(facts, x[1], x[2], Kinds)
  /\ \A s \in siblings : Backed(s, facts)

Undisturbed == \A p \in alone : \A q \in Processes \ {p} : pc[q] = "idle"

IInv ==
  /\ Typed /\ Stored /\ Undisturbed
  /\ \A p \in Processes : Local(p)
  /\ \A p, q \in Processes : p # q => Apart(p, q)

-----------------------------------------------------------------------------
(* Rows, keys and orders *)

LEMMA RowsFinite ==
  ASSUME NEW d \in Docs
  PROVE  /\ Len(Content[d]) \in Nat /\ Rows(d) \subseteq 1..Len(Content[d])
         /\ IsFiniteSet(Rows(d))
<1>1. Len(Content[d]) \in Nat /\ Rows(d) \subseteq 1..Len(Content[d])
  BY StatementAssumption DEF Rows, Parse
<1>2. IsFiniteSet(1..Len(Content[d]))
  BY <1>1, FS_Interval
<1> QED
  BY <1>1, <1>2, FS_Subset

\* What is made of the rows of a statement, one of each, is finite.
LEMMA MadeOfRows ==
  ASSUME NEW d \in Docs, NEW g, g = [i \in Rows(d) |-> g[i]], NEW S, S \subseteq {g[i] : i \in Rows(d)}
  PROVE  IsFiniteSet(S)
<1> DEFINE T == {g[i] : i \in Rows(d)}
<1>1. IsFiniteSet(Rows(d))
  BY RowsFinite
<1>2. g \in Surjection(Rows(d), T)
  BY DEF Surjection
<1>3. IsFiniteSet(T)
  BY <1>1, <1>2, FS_Surjection
<1> QED
  BY <1>3, FS_Subset

\* A finite set put in some order is a sequence.
LEMMA OrderIsSeq ==
  ASSUME NEW S, IsFiniteSet(S), NEW s \in SetToSeqs(S)
  PROVE  /\ s \in Seq(S)
         /\ \A n \in DOMAIN s : s[n] \in S
<1>1. Cardinality(S) \in Nat
  BY FS_CardinalityType
<1>2. s \in [1..Cardinality(S) -> S]
  BY DEF SetToSeqs
<1> QED
  BY <1>1, <1>2

LEMMA KeyParts ==
  ASSUME NEW r, NEW s
  PROVE  FactKey(r) = FactKey(s) <=>
           /\ r.org = s.org /\ r.kind = s.kind /\ r.key = s.key
           /\ r.kind = "lot" => r.val = s.val
  BY DEF FactKey

\* A set of natural numbers, none greater than some number, has a greatest and a least.
LEMMA Extremes ==
  ASSUME NEW S, S \subseteq Nat, S # {}, NEW n \in Nat, \A x \in S : x <= n
  PROVE  /\ \E x \in S : \A y \in S : x >= y
         /\ \E x \in S : \A y \in S : x <= y
<1> DEFINE R == {ss \in Nat \X Nat : ss[1] < ss[2]}
           T == {n - x : x \in S}
<1>1. OpToRel(<, Nat) = R
  BY DEF OpToRel
<1>2. IsWellFoundedOn(R, Nat)
  BY <1>1, NatLessThanWellFounded
<1>3. \A a, b \in Nat : <<a, b>> \in R <=> a < b
  OBVIOUS
<1>4. T \subseteq Nat /\ T # {}
  <2>1. \A x \in S : n - x \in Nat
    OBVIOUS
  <2> QED
    BY <2>1
<1> HIDE DEF R
<1>5. PICK x \in S : \A y \in S : ~ (<<y, x>> \in R)
  BY <1>2, WFMin
<1> HIDE DEF T
<1>6. PICK t \in T : \A u \in T : ~ (<<u, t>> \in R)
  BY <1>2, <1>4, WFMin
<1>7. \A y \in S : x <= y
  <2>1. \A y \in S : ~ (y < x)
    BY <1>3, <1>5, Zenon
  <2> QED
    BY <2>1
<1>8. \A u \in T : t <= u
  <2>1. \A u \in T : ~ (u < t)
    BY <1>3, <1>4, <1>6, Zenon
  <2> QED
    BY <1>4, <2>1
<1>9. PICK z \in S : t = n - z
  BY DEF T
<1>10. ASSUME NEW y \in S PROVE z >= y
  <2>1. n - y \in T
    BY DEF T
  <2>2. n - z <= n - y
    BY <1>8, <1>9, <2>1
  <2> QED
    BY <2>2
<1> QED
  BY <1>7, <1>10

\* Of the rows with a key one is kept, and only one.
LEMMA OneIsKept ==
  ASSUME NEW n \in Nat, NEW rows, DOMAIN rows \subseteq 1..n, NEW kind
  PROVE  /\ \A r \in OnePerKey(kind, rows) : \E i \in DOMAIN rows : r = rows[i]
         /\ OneFactEach(OnePerKey(kind, rows))
         /\ \A i \in DOMAIN rows : FactKey(rows[i]) \in FactKeys(OnePerKey(kind, rows))
<1>1. \A r \in OnePerKey(kind, rows) : \E i \in DOMAIN rows : r = rows[i]
  BY DEF OnePerKey
<1>2. OneFactEach(OnePerKey(kind, rows))
  BY DEF OneFactEach, OnePerKey
<1>3. ASSUME NEW i \in DOMAIN rows PROVE FactKey(rows[i]) \in FactKeys(OnePerKey(kind, rows))
  <2> DEFINE S == {j \in DOMAIN rows : FactKey(rows[j]) = FactKey(rows[i])}
  <2>1. S \subseteq Nat /\ S # {} /\ \A x \in S : x <= n
    BY <1>3
  <2> HIDE DEF S
  <2>2. PICK lo \in S : \A y \in S : lo <= y
    BY <2>1, Extremes
  <2>3. PICK hi \in S : \A y \in S : hi >= y
    BY <2>1, Extremes
  <2> USE DEF S
  <2>4. rows[IF kind = "cash" THEN hi ELSE lo] \in OnePerKey(kind, rows)
    BY <2>1, <2>2, <2>3 DEF OnePerKey
  <2> QED
    BY <2>2, <2>3, <2>4 DEF FactKeys
<1> QED
  BY <1>1, <1>2, <1>3

\* Fact r is what p makes of a row of its statement.
MadeOf(r, p, kind, i) ==
  LET d == job[p].doc
      e == Content[d][i]
  IN  /\ IsFact(r) /\ r.org = job[p].org /\ r.kind = kind /\ r.key = TransactionId(d, i)
      /\ FactKey(r) = KeyAt(job[p].org, d, i)
      /\ r.conid # None => "conid" \in e.has /\ r.conid = e.conid
      /\ r.instrument # None =>
           /\ "conid" \in e.has /\ r.conid = e.conid
           /\ e.conid \in DOMAIN resolved[p] /\ r.instrument = resolved[p][e.conid]

LEMMA IncomingFacts ==
  ASSUME NEW p \in Processes, NEW kind \in Kinds
  PROVE  /\ DOMAIN Incoming(p, kind) = Places(job[p].doc, kind)
         /\ Places(job[p].doc, kind) \subseteq Rows(job[p].doc)
         /\ \A i \in Places(job[p].doc, kind) : MadeOf(Incoming(p, kind)[i], p, kind, i)
<1> DEFINE d == job[p].doc
<1>1. DOMAIN Incoming(p, kind) = Places(d, kind) /\ Places(d, kind) \subseteq Rows(d)
  BY DEF Incoming, Places
<1>2. ASSUME NEW i \in Places(d, kind)
      PROVE  MadeOf(Incoming(p, kind)[i], p, kind, i)
  <2> DEFINE e == Content[d][i]
             known == "conid" \in e.has /\ "cash" \notin e.has /\ e.conid \in DOMAIN resolved[p]
             r == [org |-> job[p].org, kind |-> kind, key |-> TransactionId(d, i), val |-> e.val,
                   instrument |-> IF known THEN resolved[p][e.conid] ELSE None,
                   conid |-> IF "conid" \in e.has THEN e.conid ELSE None]
  <2>1. Incoming(p, kind)[i] = r
    BY <1>2 DEF Incoming, Fact
  <2>2. KindOf(e) = kind
    BY <1>2 DEF Places
  <2>3. IsFact(r)
    BY DEF IsFact
  <2>4. FactKey(r) = KeyAt(job[p].org, d, i)
    BY <2>2 DEF FactKey, KeyAt
  <2>5. MadeOf(r, p, kind, i)
    BY <2>3, <2>4 DEF MadeOf
  <2> QED
    BY <2>1, <2>5
<1> QED
  BY <1>1, <1>2

-----------------------------------------------------------------------------
(* What the steps share *)

\* One ingest moves, inside its transaction.
Moves(p) ==
  /\ UNCHANGED <<shared, facts, siblings, ingested>>
  /\ \A q \in Processes \ {p} :
       /\ pc'[q] = pc[q] /\ job'[q] = job[q] /\ todo'[q] = todo[q] /\ mine'[q] = mine[q]
       /\ resolved'[q] = resolved[q]

LEMMA InitInv == Init => IInv
<1> SUFFICES ASSUME Init PROVE IInv
  OBVIOUS
<1> USE DEF Init
<1>1. Typed
  BY DEF Typed, NoWrites, Stages
<1>2. Stored /\ Undisturbed
  BY DEF Stored, Undisturbed, OneEach, OneFactEach
<1>3. ASSUME NEW p \in Processes PROVE Local(p)
  <2>1. Staged(p) /\ InOrder(p)
    BY DEF Staged, InOrder, NoWrites
  <2>2. Keyed(p) /\ Hung(p)
    BY DEF Keyed, Hung, OneEach, OneFactEach, Visible, NoWrites
  <2>3. Full(p) /\ Paired(p)
    BY DEF Full, Paired, NoWrites
  <2> QED
    BY <2>1, <2>2, <2>3 DEF Local
<1>4. ASSUME NEW p \in Processes, NEW q \in Processes PROVE Apart(p, q)
  BY DEF Apart, NoWrites, FactKeys
<1> QED
  BY <1>1, <1>2, <1>3, <1>4 DEF IInv

LEMMA OthersStay ==
  ASSUME NEW p \in Processes, Moves(p), alone' \subseteq alone \cup {p},
         NEW q \in Processes, q # p, Local(q)
  PROVE  Local(q)'
<1>1. /\ pc'[q] = pc[q] /\ job'[q] = job[q] /\ todo'[q] = todo[q] /\ mine'[q] = mine[q]
      /\ resolved'[q] = resolved[q] /\ (q \in alone' => q \in alone)
      /\ shared' = shared /\ facts' = facts /\ ingested' = ingested
      /\ Visible(q)' = Visible(q) /\ VisibleFacts(q)' = VisibleFacts(q)
  BY DEF Moves, Visible, VisibleFacts
<1>2. Staged(q)'
  BY <1>1 DEF Local, Staged
<1>3. InOrder(q)'
  BY <1>1 DEF Local, InOrder
<1>4. Keyed(q)'
  BY <1>1 DEF Local, Keyed
<1>5. Hung(q)'
  BY <1>1 DEF Local, Hung
<1>6. Full(q)'
  BY <1>1 DEF Local, Full
<1>7. Paired(q)'
  BY <1>1 DEF Local, Paired, SealedYear
<1> QED
  BY <1>2, <1>3, <1>4, <1>5, <1>6, <1>7 DEF Local

\* A step of one ingest is looked at where it changes something.
LEMMA OneMoves ==
  ASSUME IInv, NEW p \in Processes, Moves(p), alone' \subseteq alone \cup {p},
         Typed', Undisturbed', Local(p)', \A q \in Processes : q # p => Apart(p, q)'
  PROVE  IInv'
<1>1. ASSUME NEW q \in Processes PROVE Local(q)'
  BY OthersStay DEF IInv
<1>2. ASSUME NEW q \in Processes, NEW r \in Processes, q # r PROVE Apart(q, r)'
  <2>1. CASE q = p
    BY <1>2, <2>1
  <2>2. CASE r = p
    <3>1. Apart(r, q)'
      BY <1>2, <2>2
    <3> QED
      BY <3>1 DEF Apart
  <2>3. CASE q # p /\ r # p
    <3>1. Apart(q, r)
      BY <1>2 DEF IInv
    <3> QED
      BY <2>3, <3>1 DEF Apart, Moves
  <2> QED
    BY <2>1, <2>2, <2>3
<1>3. Stored'
  BY DEF IInv, Stored, Moves
<1> QED
  BY <1>1, <1>2, <1>3 DEF IInv

\* Nobody is disturbed by an ingest that was at work before.
LEMMA StillUndisturbed ==
  ASSUME IInv, NEW p \in Processes, Moves(p), pc[p] # "idle", alone' = alone
  PROVE  Undisturbed'
<1> SUFFICES ASSUME NEW r \in alone, NEW q \in Processes, q # r PROVE pc'[q] = "idle"
  BY DEF Undisturbed
<1>1. pc[q] = "idle"
  BY DEF IInv, Undisturbed
<1> QED
  BY <1>1 DEF Moves

LEMMA WriteShared ==
  ASSUME Typed, NEW p \in Processes, NEW X, mine' = [mine EXCEPT ![p].shared = X]
  PROVE  /\ mine'[p].shared = X /\ mine'[p].facts = mine[p].facts /\ mine'[p].siblings = mine[p].siblings
         /\ \A q \in Processes \ {p} : mine'[q] = mine[q]
         /\ mine' = [q \in Processes |->
                       [shared |-> mine'[q].shared, facts |-> mine'[q].facts, siblings |-> mine'[q].siblings]]
<1> DEFINE m == mine[p]
           u == [m EXCEPT !.shared = X]
<1>1. /\ m = [shared |-> m.shared, facts |-> m.facts, siblings |-> m.siblings]
      /\ DOMAIN mine = Processes
      /\ \A q \in Processes :
           mine[q] = [shared |-> mine[q].shared, facts |-> mine[q].facts, siblings |-> mine[q].siblings]
  BY DEF Typed
<1>2. /\ mine'[p] = u /\ \A q \in Processes \ {p} : mine'[q] = mine[q]
      /\ mine' = [q \in Processes |-> mine'[q]]
  BY <1>1
<1> HIDE DEF m
<1>3. u = [shared |-> u.shared, facts |-> u.facts, siblings |-> u.siblings]
  BY <1>1
<1>4. u.shared = X /\ u.facts = m.facts /\ u.siblings = m.siblings
  BY <1>1
<1> HIDE DEF u
<1>5. \A q \in Processes :
        mine'[q] = [shared |-> mine'[q].shared, facts |-> mine'[q].facts, siblings |-> mine'[q].siblings]
  BY <1>1, <1>2, <1>3
<1> QED
  BY <1>2, <1>4, <1>5 DEF m

LEMMA WriteFacts ==
  ASSUME Typed, NEW p \in Processes, NEW X, mine' = [mine EXCEPT ![p].facts = X]
  PROVE  /\ mine'[p].shared = mine[p].shared /\ mine'[p].facts = X /\ mine'[p].siblings = mine[p].siblings
         /\ \A q \in Processes \ {p} : mine'[q] = mine[q]
         /\ mine' = [q \in Processes |->
                       [shared |-> mine'[q].shared, facts |-> mine'[q].facts, siblings |-> mine'[q].siblings]]
<1> DEFINE m == mine[p]
           u == [m EXCEPT !.facts = X]
<1>1. /\ m = [shared |-> m.shared, facts |-> m.facts, siblings |-> m.siblings]
      /\ DOMAIN mine = Processes
      /\ \A q \in Processes :
           mine[q] = [shared |-> mine[q].shared, facts |-> mine[q].facts, siblings |-> mine[q].siblings]
  BY DEF Typed
<1>2. /\ mine'[p] = u /\ \A q \in Processes \ {p} : mine'[q] = mine[q]
      /\ mine' = [q \in Processes |-> mine'[q]]
  BY <1>1
<1> HIDE DEF m
<1>3. u = [shared |-> u.shared, facts |-> u.facts, siblings |-> u.siblings]
  BY <1>1
<1>4. u.shared = m.shared /\ u.facts = X /\ u.siblings = m.siblings
  BY <1>1
<1> HIDE DEF u
<1>5. \A q \in Processes :
        mine'[q] = [shared |-> mine'[q].shared, facts |-> mine'[q].facts, siblings |-> mine'[q].siblings]
  BY <1>1, <1>2, <1>3
<1> QED
  BY <1>2, <1>4, <1>5 DEF m

LEMMA WriteSiblings ==
  ASSUME Typed, NEW p \in Processes, NEW X, mine' = [mine EXCEPT ![p].siblings = X]
  PROVE  /\ mine'[p].shared = mine[p].shared /\ mine'[p].facts = mine[p].facts /\ mine'[p].siblings = X
         /\ \A q \in Processes \ {p} : mine'[q] = mine[q]
         /\ mine' = [q \in Processes |->
                       [shared |-> mine'[q].shared, facts |-> mine'[q].facts, siblings |-> mine'[q].siblings]]
<1> DEFINE m == mine[p]
           u == [m EXCEPT !.siblings = X]
<1>1. /\ m = [shared |-> m.shared, facts |-> m.facts, siblings |-> m.siblings]
      /\ DOMAIN mine = Processes
      /\ \A q \in Processes :
           mine[q] = [shared |-> mine[q].shared, facts |-> mine[q].facts, siblings |-> mine[q].siblings]
  BY DEF Typed
<1>2. /\ mine'[p] = u /\ \A q \in Processes \ {p} : mine'[q] = mine[q]
      /\ mine' = [q \in Processes |-> mine'[q]]
  BY <1>1
<1> HIDE DEF m
<1>3. u = [shared |-> u.shared, facts |-> u.facts, siblings |-> u.siblings]
  BY <1>1
<1>4. u.shared = m.shared /\ u.facts = m.facts /\ u.siblings = X
  BY <1>1
<1> HIDE DEF u
<1>5. \A q \in Processes :
        mine'[q] = [shared |-> mine'[q].shared, facts |-> mine'[q].facts, siblings |-> mine'[q].siblings]
  BY <1>1, <1>2, <1>3
<1> QED
  BY <1>2, <1>4, <1>5 DEF m

\* An ingest that writes nothing stays apart from the others.
LEMMA StillApart ==
  ASSUME IInv, NEW p \in Processes, Moves(p), mine'[p] = mine[p]
  PROVE  \A q \in Processes : q # p => Apart(p, q)'
<1> SUFFICES ASSUME NEW q \in Processes, q # p PROVE Apart(p, q)'
  OBVIOUS
<1>1. mine'[p] = mine[p] /\ mine'[q] = mine[q] /\ Apart(p, q)
  BY DEF IInv, Moves
<1> QED
  BY <1>1 DEF Apart

-----------------------------------------------------------------------------
(* What is missing from the shared tables *)

LEMMA SortedIsSeq ==
  ASSUME NEW S, IsFiniteSet(S), S \subseteq Entry, NEW s \in Sorted(S)
  PROVE  /\ s \in Seq(Entry) /\ \A n \in DOMAIN s : s[n] \in S
         /\ \A m, n \in DOMAIN s : m < n => s[m].key[3] < s[n].key[3]
<1>1. s \in SetToSeqs(S) /\ \A m, n \in DOMAIN s : m < n => s[m].key[3] < s[n].key[3]
  BY DEF Sorted
<1>2. s \in Seq(S) /\ \A n \in DOMAIN s : s[n] \in S
  BY <1>1, OrderIsSeq
<1> QED
  BY <1>1, <1>2

LEMMA MissingAccounts ==
  ASSUME NEW p \in Processes, NEW o \in Orgs, NEW d \in Docs, NEW S,
         S = Entries(Absent(p, {AccountKey(o, a) : a \in OwnAccounts(d)}))
  PROVE  /\ IsFiniteSet(S) /\ S \subseteq Entry /\ \A e \in S : e.key[1] = "account"
         /\ \A e \in S : Named(Visible(p), e.key) = {}
<1> DEFINE g == [i \in Rows(d) |-> [key |-> AccountKey(o, Content[d][i].account), of |-> None]]
<1>1. ASSUME NEW e \in S
      PROVE  Named(Visible(p), e.key) = {} /\ \E i \in Rows(d) : e = g[i]
  <2>1. PICK a \in OwnAccounts(d) : e = [key |-> AccountKey(o, a), of |-> None] /\ Named(Visible(p), e.key) = {}
    BY <1>1 DEF Entries, Absent
  <2>2. PICK i \in Rows(d) : a = Content[d][i].account
    BY DEF OwnAccounts, OfTag
  <2> QED
    BY <2>1, <2>2
<1>2. IsFiniteSet(S)
  <2>1. S \subseteq {g[i] : i \in Rows(d)} /\ g = [i \in Rows(d) |-> g[i]]
    BY <1>1
  <2> HIDE DEF g
  <2> QED
    BY <2>1, MadeOfRows
<1>3. \A i \in Rows(d) : g[i] \in Entry /\ g[i].key[1] = "account"
  BY StatementAssumption DEF AccountKey, Entry, SharedKeys
<1> HIDE DEF g
<1> QED
  BY <1>1, <1>2, <1>3

LEMMA MissingParties ==
  ASSUME NEW p \in Processes, NEW o \in Orgs, NEW d \in Docs, NEW S,
         S = Entries(Absent(p, {PartyKey(o, a) : a \in Peers(d)}))
  PROVE  /\ IsFiniteSet(S) /\ S \subseteq Entry /\ \A e \in S : e.key[1] = "counterparty"
         /\ \A e \in S : Named(Visible(p), e.key) = {}
<1> DEFINE g == [i \in Rows(d) |-> [key |-> PartyKey(o, Content[d][i].account), of |-> None]]
           h == [i \in Rows(d) |-> [key |-> PartyKey(o, Content[d][i].peer), of |-> None]]
           G == {g[i] : i \in Rows(d)}
           H == {h[i] : i \in Rows(d)}
           N == {i \in Rows(d) : "peer" \in Content[d][i].has}
<1>1. ASSUME NEW e \in S
      PROVE  /\ Named(Visible(p), e.key) = {}
             /\ (\E i \in Rows(d) : e = g[i]) \/ \E i \in N : e = h[i]
  <2>1. PICK a \in Peers(d) : e = [key |-> PartyKey(o, a), of |-> None] /\ Named(Visible(p), e.key) = {}
    BY <1>1 DEF Entries, Absent
  <2>2. PICK i \in Rows(d) : a = Content[d][i].account \/ (a = Content[d][i].peer /\ "peer" \in Content[d][i].has)
    BY DEF Peers, OfTag
  <2> QED
    BY <2>1, <2>2
<1>2. IsFiniteSet(G) /\ IsFiniteSet(H)
  BY MadeOfRows
<1>3. IsFiniteSet(G \cup H)
  BY <1>2, FS_Union
<1>4. IsFiniteSet(S)
  BY <1>1, <1>3, FS_Subset
<1>5. \A i \in Rows(d) : g[i] \in Entry /\ g[i].key[1] = "counterparty"
  BY StatementAssumption DEF PartyKey, Entry, SharedKeys
<1>6. \A i \in N : h[i] \in Entry /\ h[i].key[1] = "counterparty"
  BY StatementAssumption DEF PartyKey, Entry, SharedKeys
<1> HIDE DEF g, h, N
<1>7. ASSUME NEW e \in S PROVE e \in Entry /\ e.key[1] = "counterparty" /\ Named(Visible(p), e.key) = {}
  <2>1. CASE \E i \in Rows(d) : e = g[i]
    BY <1>1, <1>5, <2>1
  <2>2. CASE \E i \in N : e = h[i]
    BY <1>1, <1>6, <2>2
  <2> QED
    BY <1>1, <2>1, <2>2
<1> QED
  BY <1>4, <1>7

LEMMA MissingInstruments ==
  ASSUME NEW j \in [org : Orgs, doc : Docs], NEW C, C \subseteq Creators(j.doc)
  PROVE  /\ IsFiniteSet(Identifiers(j, C)) /\ Identifiers(j, C) \subseteq Entry
         /\ \A e \in Identifiers(j, C) : e.key[1] \in {"conid", "isin"}
<1> DEFINE d == j.doc
           g == [i \in Rows(d) |-> [key |-> ConidKey(Content[d][i].conid), of |-> Instrument(j, Content[d][i].conid)]]
           h == [i \in Rows(d) |-> [key |-> IsinKey(Content[d][i].isin), of |-> Instrument(j, Content[d][i].conid)]]
           G == {g[i] : i \in Rows(d)}
           H == {h[i] : i \in Rows(d)}
           S == Identifiers(j, C)
<1>1. ASSUME NEW e \in S
      PROVE  \E i \in Rows(d) : e = g[i] \/ e = h[i]
  <2>1. CASE \E c \in C : e = [key |-> ConidKey(c), of |-> Instrument(j, c)]
    <3>1. PICK c \in C : e = [key |-> ConidKey(c), of |-> Instrument(j, c)]
      BY <2>1
    <3>2. PICK i \in Rows(d) : c = Content[d][i].conid
      BY <3>1 DEF Creators, CreatorRows, OfTag
    <3> QED
      BY <3>1, <3>2
  <2>2. CASE \E c \in C : \E n \in Isins(d, c) : e = [key |-> IsinKey(n), of |-> Instrument(j, c)]
    <3>1. PICK c \in C : \E n \in Isins(d, c) : e = [key |-> IsinKey(n), of |-> Instrument(j, c)]
      BY <2>2
    <3>2. PICK n \in Isins(d, c) : e = [key |-> IsinKey(n), of |-> Instrument(j, c)]
      BY <3>1
    <3>3. PICK i \in Rows(d) : n = Content[d][i].isin /\ Content[d][i].conid = c
      BY DEF Isins
    <3> QED
      BY <3>2, <3>3
  <2> QED
    BY <1>1, <2>1, <2>2 DEF Identifiers
<1>2. IsFiniteSet(G) /\ IsFiniteSet(H)
  BY MadeOfRows
<1>3. IsFiniteSet(G \cup H)
  BY <1>2, FS_Union
<1>4. IsFiniteSet(S)
  BY <1>1, <1>3, FS_Subset
<1>5. \A i \in Rows(d) : g[i] \in Entry /\ g[i].key[1] = "conid"
  BY DEF ConidKey, Instrument, Entry, SharedKeys, Conids
<1>6. \A i \in Rows(d) : h[i] \in Entry /\ h[i].key[1] = "isin"
  BY DEF IsinKey, Instrument, Entry, SharedKeys, Conids, IsinIds
<1> HIDE DEF g, h, S
<1>7. IsFiniteSet(S) /\ S \subseteq Entry /\ \A e \in S : e.key[1] \in {"conid", "isin"}
  BY <1>1, <1>4, <1>5, <1>6
<1> QED
  BY <1>7 DEF S

-----------------------------------------------------------------------------
(* The steps that write no fact *)

LEMMA BeginKeeps ==
  ASSUME IInv, NEW p \in Processes, NEW o \in Orgs, NEW d \in Docs, Begin(p, o, d)
  PROVE  IInv'
<1> DEFINE S == Entries(Absent(p, {AccountKey(o, a) : a \in OwnAccounts(d)}))
           j == [org |-> o, doc |-> d]
<1>1. PICK order \in Sorted(S) : todo' = [todo EXCEPT ![p] = order]
  BY DEF Begin
<1>2. /\ pc[p] = "idle" /\ pc' = [pc EXCEPT ![p] = "accounts"] /\ job' = [job EXCEPT ![p] = j]
      /\ alone' = IF \E q \in Processes : pc[q] # "idle" THEN {} ELSE {p}
      /\ UNCHANGED <<shared, facts, siblings, ingested, mine, resolved>> /\ ~Refuses(Content[d])
  BY DEF Begin, Goto
<1>3. /\ order \in Seq(Entry) /\ \A n \in DOMAIN order : order[n].key[1] = "account"
      /\ \A m, n \in DOMAIN order : m < n => order[m].key[3] < order[n].key[3]
  BY <1>1, MissingAccounts, SortedIsSeq
<1>4. /\ pc'[p] = "accounts" /\ job'[p] = j /\ todo'[p] = order /\ mine'[p] = mine[p]
      /\ resolved'[p] = resolved[p] /\ j.org = o /\ j.doc = d
  BY <1>1, <1>2 DEF IInv, Typed
<1>5. Moves(p)
  BY <1>1, <1>2 DEF IInv, Typed, Moves
<1>6. Typed'
  BY <1>1, <1>2, <1>3 DEF IInv, Typed, Stages
<1>7. Undisturbed'
  BY <1>2, <1>5 DEF Undisturbed, Moves
<1>8. mine[p] = NoWrites /\ Local(p)
  BY <1>2 DEF IInv, Local, Staged
<1>9. Staged(p)'
  <2>1. j # NoJob
    BY StatementAssumption DEF NoJob
  <2> QED
    BY <1>2, <1>3, <1>4, <1>8, <2>1 DEF Staged, NoWrites, Claiming
<1>10. InOrder(p)'
  BY <1>3, <1>4, <1>8 DEF InOrder, NoWrites
<1>11. Visible(p)' = Visible(p) /\ VisibleFacts(p)' = VisibleFacts(p) /\ facts' = facts
  BY <1>2 DEF Visible, VisibleFacts
<1>12. Keyed(p)' /\ Hung(p)'
  BY <1>4, <1>8, <1>11 DEF Local, Keyed, Hung
<1>13. Full(p)'
  BY <1>4 DEF Full, Has, Filled
<1>14. Paired(p)'
  BY <1>4, <1>8 DEF Paired, NoWrites
<1>15. alone' \subseteq alone \cup {p}
  BY <1>2
<1> QED
  BY <1>5, <1>6, <1>7, <1>9, <1>10, <1>12, <1>13, <1>14, <1>15, StillApart, OneMoves, <1>4 DEF Local

LEMMA InsertSharedKeeps ==
  ASSUME IInv, NEW p \in Processes, InsertShared(p)
  PROVE  IInv'
<1> DEFINE s == todo[p]
           e == Head(s)
<1>1. /\ pc[p] \in {"accounts", "instruments", "parties"} /\ s # <<>> /\ Free(p)
      /\ IF Named(Visible(p), e.key) = {} THEN Write(p, {e}) ELSE UNCHANGED mine
      /\ todo' = [todo EXCEPT ![p] = Tail(s)]
      /\ UNCHANGED <<shared, facts, siblings, ingested, pc, job, resolved, begun, alone>>
  BY DEF InsertShared
<1>2. /\ s \in Seq(Entry) /\ e \in Entry /\ e = s[1] /\ Tail(s) \in Seq(Entry)
      /\ \A n \in DOMAIN Tail(s) : n \in Nat /\ n + 1 \in DOMAIN s /\ Tail(s)[n] = s[n + 1] /\ 1 < n + 1
      /\ 1 \in DOMAIN s
  BY <1>1 DEF IInv, Typed
<1>3. /\ \A q \in Processes \ {p} : mine'[q] = mine[q]
      /\ mine'[p].facts = mine[p].facts /\ mine'[p].siblings = mine[p].siblings
      /\ mine'[p].shared = mine[p].shared \cup (IF Named(Visible(p), e.key) = {} THEN {e} ELSE {})
      /\ mine' = [q \in Processes |->
                    [shared |-> mine'[q].shared, facts |-> mine'[q].facts, siblings |-> mine'[q].siblings]]
  <2>1. CASE Named(Visible(p), e.key) = {}
    <3>1. mine' = [mine EXCEPT ![p].shared = mine[p].shared \cup {e}]
      BY <1>1, <2>1 DEF Write, IInv, Typed
    <3> QED
      BY <2>1, <3>1, WriteShared DEF IInv
  <2>2. CASE Named(Visible(p), e.key) # {}
    BY <1>1, <2>2 DEF IInv, Typed
  <2> QED
    BY <2>1, <2>2
<1>4. /\ pc'[p] = pc[p] /\ job'[p] = job[p] /\ todo'[p] = Tail(s) /\ resolved'[p] = resolved[p]
  BY <1>1 DEF IInv, Typed
<1>5. Moves(p)
  BY <1>1, <1>3 DEF IInv, Typed, Moves
<1>6. Typed'
  BY <1>1, <1>2, <1>3 DEF IInv, Typed
<1>7. Undisturbed'
  BY <1>1, <1>5, StillUndisturbed
<1>8. Local(p)
  BY DEF IInv
<1>9. Staged(p)'
  <2>1. e.key[1] \in Claiming(pc[p]) /\ Claiming(pc[p]) \subseteq Claimed(pc[p])
    BY <1>1, <1>2, <1>8 DEF Local, Staged, Claiming, Claimed
  <2> QED
    BY <1>1, <1>2, <1>3, <1>4, <1>8, <2>1 DEF Local, Staged
<1>10. InOrder(p)'
  <2> SUFFICES ASSUME pc[p] \in {"accounts", "parties"} PROVE InOrder(p)'
    BY <1>4 DEF InOrder
  <2> DEFINE t == Tail(s)
  <2>1. /\ \A m, n \in DOMAIN s : m < n => s[m].key[3] < s[n].key[3]
        /\ \A r \in mine[p].shared, n \in DOMAIN s :
             r.key[1] \in Claiming(pc[p]) => r.key[3] < s[n].key[3]
    BY <1>8 DEF Local, InOrder
  <2> HIDE DEF s, e
  <2>2. \A m, n \in DOMAIN t : m < n => t[m].key[3] < t[n].key[3]
    BY <1>2, <2>1
  <2>3. \A n \in DOMAIN t : e.key[3] < t[n].key[3]
    BY <1>2, <2>1
  <2>4. \A r \in mine'[p].shared : r = e \/ r \in mine[p].shared
    BY <1>3
  <2>5. \A r \in mine'[p].shared, n \in DOMAIN t :
          r.key[1] \in Claiming(pc[p]) => r.key[3] < t[n].key[3]
    BY <1>2, <2>1, <2>3, <2>4
  <2> QED
    BY <1>4, <2>2, <2>5 DEF InOrder
<1>11. /\ Visible(p)' = Visible(p) \cup (IF Named(Visible(p), e.key) = {} THEN {e} ELSE {})
       /\ Visible(p) \subseteq Visible(p)' /\ VisibleFacts(p)' = VisibleFacts(p) /\ facts' = facts
  BY <1>1, <1>3 DEF Visible, VisibleFacts
<1>12. Keyed(p)'
  BY <1>3, <1>8, <1>11 DEF Local, Keyed, OneEach, Named
<1>13. Hung(p)'
  <2>1. \A r : HangsOn(r, Visible(p)) => HangsOn(r, Visible(p)')
    BY <1>11 DEF HangsOn
  <2> QED
    BY <1>3, <1>4, <1>8, <1>11, <2>1 DEF Local, Hung
<1>14. Full(p)'
  BY <1>4, <1>8, <1>11 DEF Local, Full
<1>15. Paired(p)'
  BY <1>1, <1>3, <1>4, <1>8, <1>11 DEF Local, Paired, SealedYear
<1>16. ASSUME NEW q \in Processes, q # p PROVE Apart(p, q)'
  <2>1. ~WaitsFor(p, q)
    BY <1>1 DEF Free
  <2>2. \A r \in mine[q].shared : r.key # e.key
    BY <1>1, <1>16, <2>1 DEF WaitsFor, Named
  <2>3. Apart(p, q) /\ mine'[q] = mine[q]
    BY <1>3, <1>16 DEF IInv
  <2> QED
    BY <1>3, <2>2, <2>3 DEF Apart
<1> QED
  BY <1>1, <1>5, <1>6, <1>7, <1>9, <1>10, <1>12, <1>13, <1>14, <1>15, <1>16, OneMoves DEF Local

\* What becomes of the rest when an ingest goes on and writes nothing.
LEMMA NothingWritten ==
  ASSUME IInv, NEW p \in Processes, Moves(p), mine'[p] = mine[p], alone' = alone
  PROVE  /\ Visible(p)' = Visible(p) /\ VisibleFacts(p)' = VisibleFacts(p) /\ facts' = facts
         /\ Keyed(p)'
         /\ resolved'[p] = resolved[p] => Hung(p)'
<1>1. /\ Visible(p)' = Visible(p) /\ VisibleFacts(p)' = VisibleFacts(p) /\ facts' = facts
      /\ Local(p)
  BY DEF Moves, Visible, VisibleFacts, IInv
<1>2. Keyed(p)'
  BY <1>1 DEF Local, Keyed
<1>3. resolved'[p] = resolved[p] => Hung(p)'
  BY <1>1 DEF Local, Hung
<1> QED
  BY <1>1, <1>2, <1>3

\* A lookup finds identifiers that are there.
LEMMA LookupFinds ==
  ASSUME NEW p \in Processes, NEW c \in DOMAIN Lookup(p)
  PROVE  \E s \in Visible(p) : s.key = ConidKey(c) /\ s.of = Lookup(p)[c]
<1> DEFINE N == Named(Visible(p), ConidKey(c))
           s == CHOOSE r \in N : TRUE
<1>1. N # {} /\ Lookup(p)[c] = s.of
  BY DEF Lookup
<1>2. s \in N
  BY <1>1
<1> QED
  BY <1>1, <1>2 DEF Named

LEMMA LookForInstrumentsKeeps ==
  ASSUME IInv, NEW p \in Processes, LookForInstruments(p)
  PROVE  IInv'
<1> DEFINE C == Creators(job[p].doc) \ DOMAIN Lookup(p)
           S == Identifiers(job[p], C)
<1>1. PICK order \in InPairs(S) : todo' = [todo EXCEPT ![p] = order]
  BY DEF LookForInstruments
<1>2. /\ pc[p] = "accounts" /\ pc' = [pc EXCEPT ![p] = "instruments"]
      /\ resolved' = [resolved EXCEPT ![p] = Lookup(p)]
      /\ UNCHANGED <<shared, facts, siblings, ingested, job, mine, begun, alone>>
  BY DEF LookForInstruments, Goto
<1>3. job[p] \in [org : Orgs, doc : Docs] /\ Local(p)
  BY <1>2 DEF IInv, Local, Staged, Typed
<1>4. order \in Seq(Entry) /\ \A n \in DOMAIN order : order[n].key[1] \in {"conid", "isin"}
  <2>1. order \in SetToSeqs(S)
    BY <1>1 DEF InPairs
  <2>2. IsFiniteSet(S) /\ S \subseteq Entry /\ \A e \in S : e.key[1] \in {"conid", "isin"}
    BY <1>3, MissingInstruments
  <2> HIDE DEF S
  <2>3. order \in Seq(S) /\ \A n \in DOMAIN order : order[n] \in S
    BY <2>1, <2>2, OrderIsSeq
  <2> QED
    BY <2>2, <2>3
<1>5. /\ pc'[p] = "instruments" /\ job'[p] = job[p] /\ todo'[p] = order /\ mine'[p] = mine[p]
      /\ resolved'[p] = Lookup(p)
  BY <1>1, <1>2 DEF IInv, Typed
<1>6. Moves(p)
  BY <1>1, <1>2 DEF IInv, Typed, Moves
<1>7. Typed'
  BY <1>1, <1>2, <1>4 DEF IInv, Typed, Stages
<1>8. Undisturbed'
  BY <1>2, <1>6, StillUndisturbed
<1>9. /\ Visible(p)' = Visible(p) /\ VisibleFacts(p)' = VisibleFacts(p) /\ Keyed(p)'
      /\ \A q \in Processes : q # p => Apart(p, q)'
  BY <1>2, <1>5, <1>6, NothingWritten, StillApart
<1>10. Staged(p)'
  BY <1>2, <1>3, <1>4, <1>5 DEF Local, Staged, Filled, Claimed, Claiming
<1>11. InOrder(p)'
  BY <1>5 DEF InOrder
<1>12. Hung(p)'
  BY <1>3, <1>5, <1>9, LookupFinds DEF Local, Hung
<1>13. Full(p)'
  BY <1>5 DEF Full, Has, Filled
<1>14. Paired(p)'
  BY <1>2, <1>3, <1>5, <1>9 DEF Local, Paired
<1> QED
  BY <1>2, <1>6, <1>7, <1>8, <1>9, <1>10, <1>11, <1>12, <1>13, <1>14, OneMoves DEF Local

LEMMA ResolveKeeps ==
  ASSUME IInv, NEW p \in Processes, Resolve(p)
  PROVE  IInv'
<1>1. /\ pc[p] = "instruments" /\ todo[p] = <<>> /\ pc' = [pc EXCEPT ![p] = "trade"]
      /\ UNCHANGED <<shared, facts, siblings, ingested, job, todo, mine, begun, alone>>
      /\ resolved' = [resolved EXCEPT ![p] = resolved'[p]]
      /\ resolved'[p] = resolved[p] \/ resolved'[p] = Lookup(p)
  BY DEF Resolve, Goto, IInv, Typed
<1>2. Local(p)
  BY DEF IInv
<1>3. /\ pc'[p] = "trade" /\ job'[p] = job[p] /\ todo'[p] = <<>> /\ mine'[p] = mine[p]
  BY <1>1 DEF IInv, Typed
<1>4. Moves(p)
  BY <1>1 DEF IInv, Typed, Moves
<1>5. Typed'
  BY <1>1 DEF IInv, Typed, Stages
<1>6. Undisturbed'
  BY <1>1, <1>4, StillUndisturbed
<1>7. /\ Visible(p)' = Visible(p) /\ VisibleFacts(p)' = VisibleFacts(p) /\ Keyed(p)'
      /\ \A q \in Processes : q # p => Apart(p, q)'
  BY <1>1, <1>3, <1>4, NothingWritten, StillApart
<1>8. Staged(p)'
  BY <1>1, <1>2, <1>3 DEF Local, Staged, Filled, Claimed, Claiming
<1>9. InOrder(p)'
  BY <1>3 DEF InOrder
<1>10. Hung(p)'
  BY <1>1, <1>2, <1>3, <1>7, LookupFinds DEF Local, Hung
<1>11. Full(p)'
  BY <1>3 DEF Full, Has, Filled
<1>12. Paired(p)'
  BY <1>1, <1>2, <1>3, <1>7 DEF Local, Paired
<1> QED
  BY <1>1, <1>4, <1>5, <1>6, <1>7, <1>8, <1>9, <1>10, <1>11, <1>12, OneMoves DEF Local

LEMMA PartiesDoneKeeps ==
  ASSUME IInv, NEW p \in Processes, PartiesDone(p)
  PROVE  IInv'
<1>1. /\ pc[p] = "parties" /\ todo[p] = <<>> /\ pc' = [pc EXCEPT ![p] = "transfer"]
      /\ UNCHANGED <<shared, facts, siblings, ingested, job, todo, mine, resolved, begun, alone>>
  BY DEF PartiesDone, Goto
<1>2. Local(p)
  BY DEF IInv
<1>3. /\ pc'[p] = "transfer" /\ job'[p] = job[p] /\ todo'[p] = <<>> /\ mine'[p] = mine[p]
      /\ resolved'[p] = resolved[p]
  BY <1>1 DEF IInv, Typed
<1>4. Moves(p)
  BY <1>1 DEF IInv, Typed, Moves
<1>5. Typed'
  BY <1>1 DEF IInv, Typed, Stages
<1>6. Undisturbed'
  BY <1>1, <1>4, StillUndisturbed
<1>7. /\ Visible(p)' = Visible(p) /\ VisibleFacts(p)' = VisibleFacts(p) /\ Keyed(p)' /\ Hung(p)'
      /\ \A q \in Processes : q # p => Apart(p, q)'
  BY <1>1, <1>3, <1>4, NothingWritten, StillApart
<1>8. Staged(p)'
  BY <1>1, <1>2, <1>3 DEF Local, Staged, Filled, Claimed, Claiming
<1>9. InOrder(p)'
  BY <1>3 DEF InOrder
<1>10. Full(p)'
  BY <1>1, <1>2, <1>3, <1>7 DEF Local, Full, Filled
<1>11. Paired(p)'
  BY <1>1, <1>2, <1>3, <1>7 DEF Local, Paired
<1> QED
  BY <1>1, <1>4, <1>5, <1>6, <1>7, <1>8, <1>9, <1>10, <1>11, OneMoves DEF Local

-----------------------------------------------------------------------------
(* The steps that write facts *)

\* What an INSERT of facts adds: rows of the statement, one for each key nobody has used.
NewFacts(p, kind) ==
  {r \in OnePerKey(kind, Incoming(p, kind)) : FactKey(r) \notin FactKeys(VisibleFacts(p))}

LEMMA IncomingIsKept ==
  ASSUME IInv, NEW p \in Processes, NEW kind \in Kinds, pc[p] = kind
  PROVE  /\ \A r \in OnePerKey(kind, Incoming(p, kind)) :
              \E i \in Places(job[p].doc, kind) : r = Incoming(p, kind)[i] /\ MadeOf(r, p, kind, i)
         /\ OneFactEach(OnePerKey(kind, Incoming(p, kind)))
         /\ \A i \in Places(job[p].doc, kind) :
              KeyAt(job[p].org, job[p].doc, i) \in FactKeys(OnePerKey(kind, Incoming(p, kind)))
<1> DEFINE d == job[p].doc
           rows == Incoming(p, kind)
<1>1. d \in Docs
  BY DEF IInv, Local, Staged, Typed, Kinds
<1>2. Len(Content[d]) \in Nat /\ Rows(d) \subseteq 1..Len(Content[d])
  BY <1>1, RowsFinite
<1>3. /\ DOMAIN rows = Places(d, kind) /\ Places(d, kind) \subseteq Rows(d)
      /\ \A i \in Places(d, kind) : MadeOf(rows[i], p, kind, i)
  BY IncomingFacts
<1> HIDE DEF rows, d
<1>4. /\ \A r \in OnePerKey(kind, rows) : \E i \in DOMAIN rows : r = rows[i]
      /\ OneFactEach(OnePerKey(kind, rows))
      /\ \A i \in DOMAIN rows : FactKey(rows[i]) \in FactKeys(OnePerKey(kind, rows))
  BY <1>2, <1>3, OneIsKept
<1>5. \A i \in Places(d, kind) : FactKey(rows[i]) = KeyAt(job[p].org, d, i)
  BY <1>3 DEF MadeOf, d
<1>6. /\ \A r \in OnePerKey(kind, rows) : \E i \in Places(d, kind) : r = rows[i] /\ MadeOf(r, p, kind, i)
      /\ OneFactEach(OnePerKey(kind, rows))
      /\ \A i \in Places(d, kind) : KeyAt(job[p].org, d, i) \in FactKeys(OnePerKey(kind, rows))
  BY <1>3, <1>4, <1>5
<1> QED
  BY <1>6 DEF d, rows

\* No other ingest has used a key p is about to use.
LEMMA NobodyElse ==
  ASSUME IInv, NEW p \in Processes, NEW kind \in Kinds, pc[p] = kind, Free(p),
         NEW q \in Processes, q # p, NEW r \in OnePerKey(kind, Incoming(p, kind))
  PROVE  FactKey(r) \notin FactKeys(mine[q].facts)
<1>1. ~WaitsFor(p, q)
  BY DEF Free
<1>2. FactKeys(Range(Incoming(p, kind))) \cap FactKeys(mine[q].facts) = {}
  BY <1>1 DEF WaitsFor, RowsBlockedBy, Kinds
<1>3. \E i \in DOMAIN Incoming(p, kind) : r = Incoming(p, kind)[i]
  BY DEF OnePerKey
<1>4. FactKey(r) \in FactKeys(Range(Incoming(p, kind)))
  BY <1>3 DEF FactKeys, Range
<1> QED
  BY <1>2, <1>4

\* A new fact hangs on an instrument p sees.
LEMMA NewFactHangs ==
  ASSUME IInv, NEW p \in Processes, NEW kind \in Kinds, NEW i \in Places(job[p].doc, kind),
         NEW r, MadeOf(r, p, kind, i), job[p].doc \in Docs
  PROVE  HangsOn(r, Visible(p)) /\ Sourced(r)
<1>1. HangsOn(r, Visible(p))
  <2> SUFFICES ASSUME r.instrument # None PROVE HangsOn(r, Visible(p))
    BY DEF HangsOn
  <2> DEFINE c == Content[job[p].doc][i].conid
  <2>1. r.conid = c /\ c \in DOMAIN resolved[p] /\ r.instrument = resolved[p][c]
    BY DEF MadeOf
  <2>2. PICK s \in Visible(p) : s.key = ConidKey(c) /\ s.of = resolved[p][c]
    BY <2>1 DEF IInv, Local, Hung
  <2>3. ConidKey(c)[1] = "conid"
    BY DEF ConidKey
  <2> QED
    BY <2>1, <2>2, <2>3 DEF HangsOn
<1>2. Sourced(r)
  BY DEF Sourced, MadeOf
<1> QED
  BY <1>1, <1>2

\* Two lots an ingest sees have different keys.
LEMMA LotsDiffer ==
  ASSUME IInv, NEW p \in Processes, NEW r \in VisibleFacts(p), NEW x \in VisibleFacts(p),
         r.kind = "lot", FactKey(r) = FactKey(x)
  PROVE  r = x
<1>1. Keyed(p) /\ OneFactEach(facts)
  BY DEF IInv, Local, Stored
<1>2. x.kind = "lot"
  BY KeyParts
<1> QED
  BY <1>1, <1>2 DEF Keyed, OneFactEach, Converges, VisibleFacts

LEMMA MoreFacts ==
  ASSUME NEW X, NEW Y, X \subseteq Y
  PROVE  /\ FactKeys(X) \subseteq FactKeys(Y)
         /\ \A s : Backed(s, X) => Backed(s, Y)
         /\ \A o, d, kinds : Has(X, o, d, kinds) => Has(Y, o, d, kinds)
<1>1. FactKeys(X) \subseteq FactKeys(Y)
  BY DEF FactKeys
<1> QED
  BY <1>1 DEF Backed, Has

\* Facts of a kind that were not there before are written, and the ingest goes on.
LEMMA FactsKeep ==
  ASSUME IInv, NEW p \in Processes, NEW kind \in Kinds, NEW next, NEW X, pc[p] = kind, Free(p),
         <<kind, next>> \in {<<"trade", "lot">>, <<"lot", "siblings">>, <<"cash", "parties">>,
                             <<"transfer", "restatements">>},
         Moves(p), pc' = [pc EXCEPT ![p] = next], alone' = alone, job' = job, resolved' = resolved,
         mine' = [mine EXCEPT ![p].facts = mine[p].facts \cup X],
         Typed', InOrder(p)', \A n \in DOMAIN todo'[p] : todo'[p][n].key[1] \in Claiming(next),
         NewFacts(p, kind) \subseteq X,
         \A m \in X :
           /\ IsFact(m) /\ m.org = job[p].org /\ m.kind = kind
           /\ HangsOn(m, Visible(p)) /\ Sourced(m)
           /\ \A q \in Processes \ {p} : FactKey(m) \notin FactKeys(mine[q].facts)
           /\ \A x \in facts : FactKey(x) = FactKey(m) => Converges(x, m),
         OneFactEach(X)
  PROVE  IInv'
<1> DEFINE d == job[p].doc
<1>1. Local(p)
  BY DEF IInv
<1>2. /\ mine'[p].shared = mine[p].shared /\ mine'[p].siblings = mine[p].siblings
      /\ mine'[p].facts = mine[p].facts \cup X /\ \A q \in Processes \ {p} : mine'[q] = mine[q]
      /\ pc'[p] = next /\ job'[p] = job[p] /\ resolved'[p] = resolved[p]
  BY WriteFacts DEF IInv, Typed
<1>3. /\ kind \notin Filled(kind) /\ Filled(next) = Filled(kind) \cup {kind}
      /\ Claimed(kind) \subseteq Claimed(next) /\ kind # "idle" /\ next # "idle"
  BY DEF Filled, Claimed, Kinds
<1>4. \A r \in mine[p].facts : r.kind # kind
  BY <1>1, <1>3 DEF Local, Staged
<1>5. /\ Visible(p)' = Visible(p) /\ VisibleFacts(p)' = VisibleFacts(p) \cup X /\ facts' = facts
  BY <1>2 DEF Visible, VisibleFacts, Moves
<1>6. Staged(p)'
  <2>1. \A r \in mine'[p].facts : IsFact(r) /\ r.org = job[p].org /\ r.kind \in Filled(next)
    BY <1>1, <1>2, <1>3 DEF Local, Staged
  <2>2. \A s \in mine'[p].shared : s.key[1] \in Claimed(next)
    BY <1>1, <1>2, <1>3 DEF Local, Staged
  <2> QED
    BY <1>1, <1>2, <1>3, <2>1, <2>2 DEF Local, Staged
<1>7. Keyed(p)'
  <2>1. OneFactEach(mine'[p].facts)
    <3>1. \A r \in mine[p].facts, m \in X : FactKey(r) # FactKey(m)
      BY <1>4, KeyParts
    <3> QED
      BY <1>1, <1>2, <3>1 DEF Local, Keyed, OneFactEach
  <2>2. \A x \in facts, m \in mine'[p].facts : FactKey(x) = FactKey(m) => Converges(x, m)
    BY <1>1, <1>2 DEF Local, Keyed
  <2> QED
    BY <1>1, <1>5, <2>1, <2>2 DEF Local, Keyed
<1>8. Hung(p)'
  BY <1>1, <1>2, <1>5 DEF Local, Hung
<1>9. Full(p)'
  <2>1. Has(VisibleFacts(p)', job[p].org, d, Filled(kind))
    <3>1. Has(VisibleFacts(p), job[p].org, d, Filled(kind))
      BY <1>1, <1>3 DEF Local, Full
    <3> DEFINE Y == VisibleFacts(p)
               Z == Y \cup X
    <3>2. Y \subseteq Z
      OBVIOUS
    <3> HIDE DEF Y, Z
    <3>3. Has(Z, job[p].org, d, Filled(kind))
      BY <3>1, <3>2, MoreFacts DEF Y
    <3> QED
      BY <1>5, <3>3 DEF Y, Z
  <2>2. ASSUME NEW i \in Places(d, kind)
        PROVE  KeyAt(job[p].org, d, i) \in FactKeys(VisibleFacts(p)')
    <3>1. PICK r \in OnePerKey(kind, Incoming(p, kind)) : FactKey(r) = KeyAt(job[p].org, d, i)
      BY IncomingIsKept DEF FactKeys
    <3>2. FactKey(r) \in FactKeys(VisibleFacts(p)) \/ r \in X
      BY <3>1 DEF NewFacts
    <3> QED
      BY <1>5, <3>1, <3>2 DEF FactKeys
  <2> QED
    BY <1>2, <1>3, <2>1, <2>2 DEF Full, Has
<1>10. Paired(p)'
  <2>1. \A s \in mine'[p].siblings : IsLogged(s) /\ Backed(s, VisibleFacts(p)')
    BY <1>1, <1>2, <1>5, MoreFacts DEF Local, Paired
  <2>2. next \in {"lot", "siblings"} => mine'[p].siblings = {}
    BY <1>1, <1>2 DEF Local, Paired
  <2>3. ASSUME next \in {"parties", "restatements"}, p \in alone,
               NEW r \in mine'[p].facts, NEW x \in VisibleFacts(p)', Siblings(r, x)
        PROVE  \E s \in mine'[p].siblings : About(s, r, x) /\ \A t \in mine'[p].siblings : About(t, r, x) => t = s
    <3>1. r \in mine[p].facts /\ x \in VisibleFacts(p)
      BY <1>2, <1>5, <2>3 DEF Siblings
    <3> QED
      BY <1>1, <1>2, <2>3, <3>1 DEF Local, Paired
  <2> QED
    BY <1>2, <2>1, <2>2, <2>3 DEF Paired
<1>11. ASSUME NEW q \in Processes, q # p PROVE Apart(p, q)'
  <2>1. Apart(p, q) /\ mine'[q] = mine[q]
    BY <1>2, <1>11 DEF IInv
  <2>2. \A m \in X : FactKey(m) \notin FactKeys(mine[q].facts)
    BY <1>11
  <2>3. \A r \in mine'[p].shared, s \in mine[q].shared : r.key # s.key
    BY <1>2, <2>1 DEF Apart
  <2>4. ASSUME NEW m \in mine'[p].facts PROVE FactKey(m) \notin FactKeys(mine[q].facts)
    <3>1. CASE m \in mine[p].facts
      BY <2>1, <3>1 DEF Apart, FactKeys
    <3>2. CASE m \in X
      BY <2>2, <3>2
    <3> QED
      BY <1>2, <3>1, <3>2
  <2>5. FactKeys(mine'[p].facts) \cap FactKeys(mine[q].facts) = {}
    BY <2>4 DEF FactKeys
  <2> QED
    BY <2>1, <2>3, <2>5 DEF Apart
<1>12. Undisturbed'
  BY <1>3, StillUndisturbed
<1> QED
  BY <1>6, <1>7, <1>8, <1>9, <1>10, <1>11, <1>12, OneMoves DEF Local

LEMMA NewFactsFit ==
  ASSUME IInv, NEW p \in Processes, NEW kind \in Kinds, pc[p] = kind, Free(p),
         NEW m \in NewFacts(p, kind)
  PROVE  /\ IsFact(m) /\ m.org = job[p].org /\ m.kind = kind
         /\ HangsOn(m, Visible(p)) /\ Sourced(m)
         /\ \A q \in Processes \ {p} : FactKey(m) \notin FactKeys(mine[q].facts)
         /\ FactKey(m) \notin FactKeys(VisibleFacts(p))
         /\ \A x \in facts : FactKey(x) # FactKey(m)
<1>1. m \in OnePerKey(kind, Incoming(p, kind)) /\ FactKey(m) \notin FactKeys(VisibleFacts(p))
  BY DEF NewFacts
<1>2. PICK i \in Places(job[p].doc, kind) : MadeOf(m, p, kind, i)
  BY <1>1, IncomingIsKept
<1>3. job[p].doc \in Docs
  BY DEF IInv, Local, Staged, Typed, Kinds
<1>4. HangsOn(m, Visible(p)) /\ Sourced(m)
  BY <1>2, <1>3, NewFactHangs
<1>5. \A q \in Processes \ {p} : FactKey(m) \notin FactKeys(mine[q].facts)
  BY <1>1, NobodyElse
<1>6. \A x \in facts : FactKey(x) # FactKey(m)
  BY <1>1 DEF VisibleFacts, FactKeys
<1> QED
  BY <1>1, <1>2, <1>4, <1>5, <1>6 DEF MadeOf

LEMMA NewFactsDiffer ==
  ASSUME IInv, NEW p \in Processes, NEW kind \in Kinds, pc[p] = kind
  PROVE  OneFactEach(NewFacts(p, kind))
  BY IncomingIsKept DEF NewFacts, OneFactEach

LEMMA InsertKeeps ==
  ASSUME IInv, NEW p \in Processes, NEW kind, NEW next, Insert(p, kind, next),
         <<kind, next>> \in {<<"trade", "lot">>, <<"lot", "siblings">>, <<"transfer", "restatements">>}
  PROVE  IInv'
<1> DEFINE X == NewFacts(p, kind)
<1>1. /\ pc[p] = kind /\ Free(p) /\ pc' = [pc EXCEPT ![p] = next]
      /\ UNCHANGED <<shared, facts, siblings, ingested, job, todo, resolved, begun, alone>>
      /\ kind \in Kinds /\ Claiming(kind) = {} /\ next \in Stages /\ next \notin {"accounts", "parties"}
  BY DEF Insert, Goto, Kinds, Claiming, Stages
<1>2. mine' = [mine EXCEPT ![p].facts = mine[p].facts \cup X]
  BY DEF Insert, NewFacts, IInv, Typed
<1>3. \A q \in Processes \ {p} : mine'[q] = mine[q]
  BY <1>2, WriteFacts DEF IInv
<1>4. Moves(p)
  BY <1>1, <1>3 DEF IInv, Typed, Moves
<1>5. Typed'
  BY <1>1, <1>2, WriteFacts DEF IInv, Typed
<1>6. InOrder(p)'
  BY <1>1 DEF InOrder, IInv, Typed
<1>7. \A n \in DOMAIN todo'[p] : todo'[p][n].key[1] \in Claiming(next)
  BY <1>1 DEF IInv, Local, Staged
<1>8. /\ OneFactEach(X)
      /\ \A m \in X :
           /\ IsFact(m) /\ m.org = job[p].org /\ m.kind = kind
           /\ HangsOn(m, Visible(p)) /\ Sourced(m)
           /\ \A q \in Processes \ {p} : FactKey(m) \notin FactKeys(mine[q].facts)
           /\ \A x \in facts : FactKey(x) = FactKey(m) => Converges(x, m)
  BY <1>1, NewFactsFit, NewFactsDiffer
<1> HIDE DEF X
<1>9. NewFacts(p, kind) \subseteq X
  BY DEF X
<1> QED
  BY <1>1, <1>2, <1>4, <1>5, <1>6, <1>7, <1>8, <1>9, FactsKeep

\* The cash transactions an ingest gives an instrument, and what they become.
Filling(p) ==
  {y \in facts : /\ y.kind = "cash" /\ y.instrument = None
                 /\ \E r \in OnePerKey("cash", Incoming(p, "cash")) :
                      FactKey(r) = FactKey(y) /\ r.instrument # None}
Given(p, x) ==
  [x EXCEPT !.instrument =
     (CHOOSE r \in OnePerKey("cash", Incoming(p, "cash")) : FactKey(r) = FactKey(x)).instrument]

LEMMA FillingFits ==
  ASSUME IInv, NEW p \in Processes, pc[p] = "cash", Free(p), NEW x \in Filling(p), NEW m, m = Given(p, x)
  PROVE  /\ IsFact(m) /\ m.org = job[p].org /\ m.kind = "cash" /\ FactKey(m) = FactKey(x)
         /\ HangsOn(m, Visible(p)) /\ Sourced(m) /\ Converges(x, m)
         /\ \A q \in Processes \ {p} : FactKey(m) \notin FactKeys(mine[q].facts)
<1> DEFINE rows == OnePerKey("cash", Incoming(p, "cash"))
           r == CHOOSE z \in rows : FactKey(z) = FactKey(x)
<1>1. /\ x \in facts /\ x.kind = "cash" /\ x.instrument = None /\ IsFact(x) /\ Sourced(x)
      /\ \E z \in rows : FactKey(z) = FactKey(x) /\ z.instrument # None
  BY DEF Filling, IInv, Typed, Stored
<1>2. r \in rows /\ FactKey(r) = FactKey(x)
  BY <1>1
<1>3. "cash" \in Kinds
  BY DEF Kinds
<1>4. r.instrument # None
  BY <1>1, <1>2, <1>3, IncomingIsKept DEF OneFactEach
<1>5. m = [x EXCEPT !.instrument = r.instrument]
  BY DEF Given
<1> HIDE DEF r, rows
<1>6. /\ IsFact(m) /\ m.org = x.org /\ m.kind = x.kind /\ m.key = x.key /\ m.val = x.val
      /\ m.conid = x.conid /\ m.instrument = r.instrument
  BY <1>1, <1>5 DEF IsFact
<1>7. FactKey(m) = FactKey(x)
  BY <1>1, <1>6, KeyParts
<1>8. PICK i \in Places(job[p].doc, "cash") : MadeOf(r, p, "cash", i)
  BY <1>2, <1>3, IncomingIsKept DEF rows
<1>9. job[p].doc \in Docs /\ r.org = x.org /\ r.key = x.key /\ r.org = job[p].org
  <2>1. job[p].doc \in Docs
    BY DEF IInv, Local, Staged, Typed
  <2>2. r.org = x.org /\ r.key = x.key
    BY <1>2, KeyParts
  <2> QED
    BY <1>8, <2>1, <2>2 DEF MadeOf
<1>10. HangsOn(r, Visible(p))
  BY <1>3, <1>8, <1>9, NewFactHangs
<1>11. Sourced(m)
  BY <1>1, <1>6 DEF Sourced
<1>12. HangsOn(m, Visible(p))
  <2> DEFINE e == Content[job[p].doc][i]
  <2>1. r.conid = e.conid /\ "conid" \in e.has /\ r.key = TransactionId(job[p].doc, i)
    BY <1>4, <1>8 DEF MadeOf
  <2>2. PICK s \in Visible(p) : s.of = r.instrument /\ s.key[1] = "conid"
                               /\ (r.conid # None /\ x.key # None => s.key = ConidKey(r.conid))
    BY <1>4, <1>9, <1>10 DEF HangsOn, ConidKey
  <2>3. CASE x.conid = None \/ x.key = None
    BY <1>1, <1>6, <2>2, <2>3 DEF HangsOn
  <2>4. CASE x.conid # None /\ x.key # None
    <3>0. PICK d \in Docs : \E k \in Places(d, "cash") :
            "conid" \in Content[d][k].has /\ x.conid = Content[d][k].conid /\ x.key = TransactionId(d, k)
      BY <1>1, <2>4 DEF Sourced
    <3>1. PICK k \in Places(d, "cash") :
            "conid" \in Content[d][k].has /\ x.conid = Content[d][k].conid /\ x.key = TransactionId(d, k)
      BY <3>0
    <3>2. x.conid = e.conid
      <4>1. /\ k \in Rows(d) /\ KindOf(Content[d][k]) = "cash" /\ Real(Content[d][k])
            /\ i \in Rows(job[p].doc) /\ KindOf(e) = "cash" /\ Real(e)
        BY <3>1, <1>8 DEF Places
      <4>2. e.tag \notin Lots /\ Content[d][k].tag \notin Lots
        BY <4>1 DEF KindOf, Lots
      <4>3. "tx" \in e.has /\ "tx" \in Content[d][k].has /\ e.key = Content[d][k].key
        BY <1>9, <2>1, <2>4, <3>1, <4>2 DEF TransactionId
      <4> QED
        BY <1>9, <2>1, <3>1, <4>1, <4>3, CashAssumption
    <3> QED
      BY <1>6, <2>1, <2>2, <2>4, <3>2 DEF HangsOn
  <2> QED
    BY <2>3, <2>4
<1>13. Converges(x, m)
  BY <1>1, <1>4, <1>5, <1>6 DEF Converges
<1>14. \A q \in Processes \ {p} : FactKey(m) \notin FactKeys(mine[q].facts)
  BY <1>2, <1>3, <1>7, NobodyElse DEF rows
<1> QED
  BY <1>1, <1>6, <1>7, <1>9, <1>11, <1>12, <1>13, <1>14

LEMMA InsertCashKeeps ==
  ASSUME IInv, NEW p \in Processes, InsertCash(p)
  PROVE  IInv'
<1> DEFINE N == NewFacts(p, "cash")
           C == {Given(p, x) : x \in Filling(p)}
           X == N \cup C
           S == Entries(Absent(p, {PartyKey(job[p].org, a) : a \in Peers(job[p].doc)}))
<1>1. /\ pc[p] = "cash" /\ Free(p) /\ pc' = [pc EXCEPT ![p] = "parties"]
      /\ UNCHANGED <<shared, facts, siblings, ingested, job, resolved, begun, alone>>
      /\ "cash" \in Kinds /\ "parties" \in Stages
  BY DEF InsertCash, Goto, Kinds, Stages
<1>2. mine' = [mine EXCEPT ![p].facts = mine[p].facts \cup X]
  BY DEF InsertCash, NewFacts, Filling, Given, IInv, Typed
<1>3. PICK order \in Sorted(S) : todo' = [todo EXCEPT ![p] = order]
  BY DEF InsertCash
<1>4. job[p] \in [org : Orgs, doc : Docs] /\ Local(p)
  BY <1>1 DEF IInv, Local, Staged, Typed
<1>5. /\ IsFiniteSet(S) /\ S \subseteq Entry /\ \A e \in S : e.key[1] = "counterparty"
  BY <1>4, MissingParties
<1> HIDE DEF S
<1>6. /\ order \in Seq(Entry) /\ \A n \in DOMAIN order : order[n].key[1] = "counterparty"
      /\ \A m, n \in DOMAIN order : m < n => order[m].key[3] < order[n].key[3]
  BY <1>3, <1>5, SortedIsSeq
<1> HIDE DEF X
<1>7. /\ \A q \in Processes \ {p} : mine'[q] = mine[q]
      /\ mine'[p].shared = mine[p].shared
  BY <1>2, WriteFacts DEF IInv
<1>8. Moves(p) /\ todo'[p] = order /\ pc'[p] = "parties"
  BY <1>1, <1>3, <1>7 DEF IInv, Typed, Moves
<1>9. Typed'
  BY <1>1, <1>2, <1>3, <1>6, WriteFacts DEF IInv, Typed
<1>10. InOrder(p)'
  <2>1. \A s \in mine[p].shared : s.key[1] \notin Claiming("parties")
    BY <1>1, <1>4 DEF Local, Staged, Claimed, Claiming
  <2> QED
    BY <1>6, <1>7, <1>8, <2>1 DEF InOrder
<1>11. \A n \in DOMAIN todo'[p] : todo'[p][n].key[1] \in Claiming("parties")
  BY <1>6, <1>8 DEF Claiming
<1>12. \A m \in N :
         /\ IsFact(m) /\ m.org = job[p].org /\ m.kind = "cash"
         /\ HangsOn(m, Visible(p)) /\ Sourced(m)
         /\ \A q \in Processes \ {p} : FactKey(m) \notin FactKeys(mine[q].facts)
         /\ \A x \in facts : FactKey(x) # FactKey(m)
  BY <1>1, NewFactsFit
<1>13. ASSUME NEW m \in C
       PROVE  /\ IsFact(m) /\ m.org = job[p].org /\ m.kind = "cash"
              /\ HangsOn(m, Visible(p)) /\ Sourced(m)
              /\ \A q \in Processes \ {p} : FactKey(m) \notin FactKeys(mine[q].facts)
              /\ \E x \in Filling(p) : m = Given(p, x) /\ FactKey(m) = FactKey(x)
              /\ \A x \in facts : FactKey(x) = FactKey(m) => Converges(x, m)
  <2>1. PICK x \in Filling(p) : m = Given(p, x)
    BY <1>13
  <2>2. /\ IsFact(m) /\ m.org = job[p].org /\ m.kind = "cash" /\ FactKey(m) = FactKey(x)
        /\ HangsOn(m, Visible(p)) /\ Sourced(m) /\ Converges(x, m)
        /\ \A q \in Processes \ {p} : FactKey(m) \notin FactKeys(mine[q].facts)
    BY <1>1, <2>1, FillingFits
  <2>3. \A z \in facts : FactKey(z) = FactKey(m) => z = x
    BY <2>2 DEF Filling, IInv, Stored, OneFactEach
  <2> QED
    BY <2>1, <2>2, <2>3
<1>14. OneFactEach(X)
  <2>1. OneFactEach(N)
    BY <1>1, NewFactsDiffer
  <2>2. \A m \in C : \E x \in facts : FactKey(m) = FactKey(x)
    BY <1>13 DEF Filling
  <2>3. \A m \in N, c \in C : FactKey(m) # FactKey(c)
    BY <1>12, <2>2
  <2>4. ASSUME NEW m \in C, NEW c \in C, FactKey(m) = FactKey(c) PROVE m = c
    <3>1. PICK x \in Filling(p) : m = Given(p, x) /\ FactKey(m) = FactKey(x)
      BY <1>13
    <3>2. PICK z \in Filling(p) : c = Given(p, z) /\ FactKey(c) = FactKey(z)
      BY <1>13
    <3>3. x = z
      BY <2>4, <3>1, <3>2 DEF Filling, IInv, Stored, OneFactEach
    <3> QED
      BY <3>1, <3>2, <3>3
  <2> HIDE DEF N, C
  <2> QED
    BY <2>1, <2>3, <2>4 DEF OneFactEach, X
<1> HIDE DEF N, C
<1>15. \A m \in X :
         /\ IsFact(m) /\ m.org = job[p].org /\ m.kind = "cash"
         /\ HangsOn(m, Visible(p)) /\ Sourced(m)
         /\ \A q \in Processes \ {p} : FactKey(m) \notin FactKeys(mine[q].facts)
         /\ \A x \in facts : FactKey(x) = FactKey(m) => Converges(x, m)
  BY <1>12, <1>13 DEF X
<1>16. NewFacts(p, "cash") \subseteq X
  BY DEF X, N
<1> QED
  BY <1>1, <1>2, <1>8, <1>9, <1>10, <1>11, <1>14, <1>15, <1>16, FactsKeep

-----------------------------------------------------------------------------
(* The restatement log *)

\* The pairs of siblings one of which is new, and the entry of a pair.
Pairs(p) ==
  LET new == {r \in mine[p].facts : r.kind = "lot"}
  IN  UNION {{{x, r} : x \in SiblingsOf(p, r)} : r \in new}
EntryOf(p, pair) ==
  LET new == {r \in mine[p].facts : r.kind = "lot"}
      r == CHOOSE y \in pair : y \in new
  IN  Logged(p, CHOOSE x \in pair : x # r, r)

LEMMA PairIsLogged ==
  ASSUME IInv, NEW p \in Processes, pc[p] = "siblings", NEW r \in mine[p].facts, r.kind = "lot",
         NEW x \in VisibleFacts(p), Siblings(r, x), NEW s, s = EntryOf(p, {x, r})
  PROVE  /\ IsLogged(s) /\ About(s, r, x) /\ Backed(s, VisibleFacts(p)) /\ s.sealed = FALSE
<1> DEFINE new == {y \in mine[p].facts : y.kind = "lot"}
           pair == {x, r}
           b == CHOOSE y \in pair : y \in new
           a == CHOOSE y \in pair : y # b
<1>1. b \in pair /\ b \in new
  <2>1. \E y \in pair : y \in new
    OBVIOUS
  <2> QED
    BY <2>1
<1>2. x # r
  BY DEF Siblings
<1>3. a \in pair /\ a # b
  <2>1. \E y \in pair : y # b
    BY <1>2
  <2> HIDE DEF b
  <2> QED
    BY <2>1
<1>4. s = Logged(p, a, b)
  BY DEF EntryOf
<1> HIDE DEF a, b
<1>5. (a = x /\ b = r) \/ (a = r /\ b = x)
  BY <1>1, <1>3
<1>6. /\ s = [org |-> b.org, key |-> b.key, old |-> a.val, new |-> b.val, by |-> job[p].doc, sealed |-> FALSE]
  BY <1>4 DEF Logged
<1>7. IsLogged(s) /\ About(s, r, x)
  BY <1>5, <1>6 DEF IsLogged, About, Siblings
<1>8. r \in VisibleFacts(p)
  BY DEF VisibleFacts
<1>9. \A y \in VisibleFacts(p) : y.kind = "lot" => LotKey(y.org, y.key, y.val) \in FactKeys(VisibleFacts(p))
  BY DEF LotKey, FactKeys, FactKey
<1>10. Backed(s, VisibleFacts(p))
  BY <1>5, <1>6, <1>8, <1>9 DEF Siblings, Backed
<1> QED
  BY <1>6, <1>7, <1>10

\* An entry about a pair is the entry of that pair.
LEMMA PairIsLoggedOnce ==
  ASSUME IInv, NEW p \in Processes, pc[p] = "siblings",
         NEW r \in mine[p].facts, NEW x \in VisibleFacts(p), Siblings(r, x),
         NEW q \in mine[p].facts, NEW z \in VisibleFacts(p), Siblings(q, z),
         About(EntryOf(p, {z, q}), r, x)
  PROVE  {z, q} = {x, r}
<1>1. About(EntryOf(p, {z, q}), q, z)
  BY PairIsLogged DEF Siblings
<1>2. /\ q.org = r.org /\ q.key = r.key /\ {q.val, z.val} = {r.val, x.val}
  BY <1>1 DEF About
<1>3. r \in VisibleFacts(p) /\ q \in VisibleFacts(p)
  BY DEF VisibleFacts
<1>4. CASE q.val = r.val
  <2>1. z.val = x.val
    BY <1>2, <1>4 DEF Siblings
  <2>2. FactKey(q) = FactKey(r) /\ FactKey(z) = FactKey(x)
    BY <1>2, <1>4, <2>1, KeyParts DEF Siblings
  <2> QED
    BY <1>3, <2>2, LotsDiffer DEF Siblings
<1>5. CASE q.val # r.val
  <2>1. q.val = x.val /\ z.val = r.val
    BY <1>2, <1>5 DEF Siblings
  <2>2. FactKey(q) = FactKey(x) /\ FactKey(z) = FactKey(r)
    BY <1>2, <2>1, KeyParts DEF Siblings
  <2>3. q = x /\ z = r
    BY <1>3, <2>2, LotsDiffer DEF Siblings
  <2> QED
    BY <2>3
<1> QED
  BY <1>4, <1>5

LEMMA LogSiblingsKeeps ==
  ASSUME IInv, NEW p \in Processes, LogSiblings(p)
  PROVE  IInv'
<1> DEFINE L == {EntryOf(p, pair) : pair \in Pairs(p)}
<1>1. /\ pc[p] = "siblings" /\ pc' = [pc EXCEPT ![p] = "cash"]
      /\ mine' = [mine EXCEPT ![p].siblings = L]
      /\ UNCHANGED <<shared, facts, siblings, ingested, job, todo, resolved, begun, alone>>
  BY DEF LogSiblings, Goto, Pairs, EntryOf
<1>2. Local(p)
  BY DEF IInv
<1>3. \A s \in L : \E r \in mine[p].facts, x \in VisibleFacts(p) :
        r.kind = "lot" /\ Siblings(r, x) /\ s = EntryOf(p, {x, r})
  <2> SUFFICES ASSUME NEW pair \in Pairs(p)
               PROVE  \E r \in mine[p].facts, x \in VisibleFacts(p) :
                        r.kind = "lot" /\ Siblings(r, x) /\ pair = {x, r}
    BY Zenon
  <2>1. PICK r \in {y \in mine[p].facts : y.kind = "lot"} : pair \in {{x, r} : x \in SiblingsOf(p, r)}
    BY DEF Pairs
  <2>2. PICK x \in SiblingsOf(p, r) : pair = {x, r}
    BY <2>1
  <2> QED
    BY <2>1, <2>2 DEF SiblingsOf, Siblings
<1>4. \A r \in mine[p].facts, x \in VisibleFacts(p) : Siblings(r, x) => EntryOf(p, {x, r}) \in L
  <2> SUFFICES ASSUME NEW r \in mine[p].facts, NEW x \in VisibleFacts(p), Siblings(r, x)
               PROVE  {x, r} \in Pairs(p)
    OBVIOUS
  <2>1. x \in SiblingsOf(p, r) /\ r.kind = "lot"
    BY DEF SiblingsOf, Siblings
  <2> QED
    BY <2>1 DEF Pairs
<1> HIDE DEF L
<1>5. /\ mine'[p].shared = mine[p].shared /\ mine'[p].facts = mine[p].facts /\ mine'[p].siblings = L
      /\ \A q \in Processes \ {p} : mine'[q] = mine[q]
      /\ mine' = [q \in Processes |->
                    [shared |-> mine'[q].shared, facts |-> mine'[q].facts, siblings |-> mine'[q].siblings]]
  BY <1>1, WriteSiblings DEF IInv
<1>6. /\ pc'[p] = "cash" /\ job'[p] = job[p] /\ todo'[p] = todo[p] /\ resolved'[p] = resolved[p]
  BY <1>1 DEF IInv, Typed
<1>7. Moves(p)
  BY <1>1, <1>5 DEF IInv, Typed, Moves
<1>8. Typed'
  BY <1>1, <1>5 DEF IInv, Typed, Stages
<1>9. Undisturbed'
  BY <1>1, <1>7, StillUndisturbed
<1>10. Visible(p)' = Visible(p) /\ VisibleFacts(p)' = VisibleFacts(p)
  BY <1>5, <1>7 DEF Visible, VisibleFacts, Moves
<1>11. Staged(p)'
  BY <1>1, <1>2, <1>5, <1>6 DEF Local, Staged, Filled, Claimed, Claiming
<1>12. InOrder(p)'
  BY <1>6 DEF InOrder
<1>13. Keyed(p)' /\ Hung(p)'
  BY <1>1, <1>2, <1>5, <1>6, <1>10 DEF Local, Keyed, Hung
<1>14. Full(p)'
  BY <1>1, <1>2, <1>6, <1>10 DEF Local, Full, Filled
<1>15. Paired(p)'
  <2>1. \A s \in L : IsLogged(s) /\ Backed(s, VisibleFacts(p))
    BY <1>1, <1>3, PairIsLogged
  <2>2. ASSUME NEW r \in mine[p].facts, NEW x \in VisibleFacts(p), Siblings(r, x)
        PROVE  \E s \in L : About(s, r, x) /\ \A t \in L : About(t, r, x) => t = s
    <3>1. EntryOf(p, {x, r}) \in L /\ About(EntryOf(p, {x, r}), r, x)
      BY <1>1, <1>4, <2>2, PairIsLogged DEF Siblings
    <3>2. ASSUME NEW t \in L, About(t, r, x) PROVE t = EntryOf(p, {x, r})
      <4>1. PICK q \in mine[p].facts, z \in VisibleFacts(p) : Siblings(q, z) /\ t = EntryOf(p, {z, q})
        BY <1>3
      <4>2. {z, q} = {x, r}
        BY <1>1, <2>2, <3>2, <4>1, PairIsLoggedOnce
      <4> QED
        BY <4>1, <4>2
    <3> QED
      BY <3>1, <3>2
  <2> QED
    BY <1>5, <1>6, <1>10, <2>1, <2>2 DEF Paired
<1>16. \A q \in Processes : q # p => Apart(p, q)'
  BY <1>5 DEF IInv, Apart
<1> QED
  BY <1>1, <1>7, <1>8, <1>9, <1>11, <1>12, <1>13, <1>14, <1>15, <1>16, OneMoves DEF Local

LEMMA PersistRestatementsKeeps ==
  ASSUME IInv, NEW p \in Processes, PersistRestatements(p)
  PROVE  IInv'
<1> DEFINE sealed == SealedYear(job[p].org, job[p].doc)
           Mark(s) == [s EXCEPT !.sealed = sealed]
           L == {Mark(s) : s \in mine[p].siblings}
<1>1. /\ pc[p] = "restatements" /\ pc' = [pc EXCEPT ![p] = "committing"]
      /\ mine' = [mine EXCEPT ![p].siblings = L]
      /\ UNCHANGED <<shared, facts, siblings, ingested, job, todo, resolved, begun, alone>>
  BY DEF PersistRestatements, Goto, IInv, Typed
<1>2. Local(p)
  BY DEF IInv
<1>3. ASSUME NEW s \in mine[p].siblings
      PROVE  /\ IsLogged(Mark(s)) /\ Mark(s).sealed = sealed /\ Backed(Mark(s), VisibleFacts(p))
             /\ \A r, x : About(Mark(s), r, x) <=> About(s, r, x)
  <2>1. IsLogged(s) /\ Backed(s, VisibleFacts(p))
    BY <1>2 DEF Local, Paired
  <2>2. /\ Mark(s).org = s.org /\ Mark(s).key = s.key /\ Mark(s).old = s.old /\ Mark(s).new = s.new
        /\ Mark(s).sealed = sealed /\ IsLogged(Mark(s))
    BY <2>1 DEF IsLogged
  <2> HIDE DEF Mark
  <2> QED
    BY <2>1, <2>2 DEF Backed, About
<1> HIDE DEF Mark, L
<1>4. /\ mine'[p].shared = mine[p].shared /\ mine'[p].facts = mine[p].facts /\ mine'[p].siblings = L
      /\ \A q \in Processes \ {p} : mine'[q] = mine[q]
      /\ mine' = [q \in Processes |->
                    [shared |-> mine'[q].shared, facts |-> mine'[q].facts, siblings |-> mine'[q].siblings]]
  BY <1>1, WriteSiblings DEF IInv
<1>5. /\ pc'[p] = "committing" /\ job'[p] = job[p] /\ todo'[p] = todo[p] /\ resolved'[p] = resolved[p]
  BY <1>1 DEF IInv, Typed
<1>6. Moves(p)
  BY <1>1, <1>4 DEF IInv, Typed, Moves
<1>7. Typed'
  BY <1>1, <1>4 DEF IInv, Typed, Stages
<1>8. Undisturbed'
  BY <1>1, <1>6, StillUndisturbed
<1>9. Visible(p)' = Visible(p) /\ VisibleFacts(p)' = VisibleFacts(p)
  BY <1>4, <1>6 DEF Visible, VisibleFacts, Moves
<1>10. Staged(p)'
  BY <1>1, <1>2, <1>4, <1>5 DEF Local, Staged, Filled, Claimed, Claiming
<1>11. InOrder(p)'
  BY <1>5 DEF InOrder
<1>12. Keyed(p)' /\ Hung(p)'
  BY <1>1, <1>2, <1>4, <1>5, <1>9 DEF Local, Keyed, Hung
<1>13. Full(p)'
  BY <1>1, <1>2, <1>5, <1>9 DEF Local, Full, Filled
<1>14. Paired(p)'
  <2>1. \A s \in L : IsLogged(s) /\ Backed(s, VisibleFacts(p)) /\ s.sealed = sealed
    BY <1>3 DEF L
  <2>2. sealed' = sealed
    BY <1>1, <1>5 DEF SealedYear
  <2>3. ASSUME p \in alone, NEW r \in mine[p].facts, NEW x \in VisibleFacts(p), Siblings(r, x)
        PROVE  \E s \in L : About(s, r, x) /\ \A t \in L : About(t, r, x) => t = s
    <3>1. PICK s \in mine[p].siblings : About(s, r, x) /\ \A t \in mine[p].siblings : About(t, r, x) => t = s
      BY <1>1, <1>2, <2>3 DEF Local, Paired
    <3>2. Mark(s) \in L /\ About(Mark(s), r, x)
      BY <1>3, <3>1 DEF L
    <3>3. ASSUME NEW t \in L, About(t, r, x) PROVE t = Mark(s)
      <4>1. PICK u \in mine[p].siblings : t = Mark(u)
        BY DEF L
      <4>2. About(u, r, x)
        BY <1>3, <3>3, <4>1
      <4> QED
        BY <3>1, <4>1, <4>2
    <3> QED
      BY <3>2, <3>3
  <2>4. \A s \in L : s.sealed <=> sealed
    BY <2>1
  <2> HIDE DEF sealed
  <2> QED
    BY <1>1, <1>4, <1>5, <1>9, <2>1, <2>2, <2>3, <2>4 DEF Paired, sealed
<1>15. \A q \in Processes : q # p => Apart(p, q)'
  BY <1>4 DEF IInv, Apart
<1> QED
  BY <1>1, <1>6, <1>7, <1>8, <1>10, <1>11, <1>12, <1>13, <1>14, <1>15, OneMoves DEF Local

-----------------------------------------------------------------------------
(* The end of an ingest *)

LEMMA Ended ==
  ASSUME IInv, NEW p \in Processes, End(p)
  PROVE  /\ pc'[p] = "idle" /\ job'[p] = NoJob /\ todo'[p] = <<>> /\ mine'[p] = NoWrites
         /\ resolved'[p] = <<>>
         /\ \A q \in Processes \ {p} :
              /\ pc'[q] = pc[q] /\ job'[q] = job[q] /\ todo'[q] = todo[q] /\ mine'[q] = mine[q]
              /\ resolved'[q] = resolved[q]
         /\ pc' \in [Processes -> Stages] /\ job' \in [Processes -> [org : Orgs, doc : Docs] \cup {NoJob}]
         /\ todo' \in [Processes -> Seq(Entry)]
         /\ mine' = [q \in Processes |->
                       [shared |-> mine'[q].shared, facts |-> mine'[q].facts, siblings |-> mine'[q].siblings]]
         /\ resolved' = [q \in Processes |-> resolved'[q]]
<1>1. /\ pc' = [pc EXCEPT ![p] = "idle"] /\ job' = [job EXCEPT ![p] = NoJob]
      /\ todo' = [todo EXCEPT ![p] = <<>>] /\ mine' = [mine EXCEPT ![p] = NoWrites]
      /\ resolved' = [resolved EXCEPT ![p] = <<>>] /\ Typed
  BY DEF End, Goto, IInv
<1>2. /\ pc' \in [Processes -> Stages] /\ job' \in [Processes -> [org : Orgs, doc : Docs] \cup {NoJob}]
      /\ todo' \in [Processes -> Seq(Entry)] /\ resolved' = [q \in Processes |-> resolved'[q]]
  <2>1. pc' \in [Processes -> Stages]
    BY <1>1 DEF Typed, Stages
  <2> DEFINE Jobs == [org : Orgs, doc : Docs] \cup {NoJob}
             E == Seq(Entry)
  <2>2. NoJob \in Jobs /\ job \in [Processes -> Jobs] /\ <<>> \in E /\ todo \in [Processes -> E]
    BY <1>1 DEF Typed
  <2>3. resolved' = [q \in Processes |-> resolved'[q]]
    BY <1>1 DEF Typed
  <2> HIDE DEF Jobs, E
  <2>4. job' \in [Processes -> Jobs] /\ todo' \in [Processes -> E]
    BY <1>1, <2>2
  <2> QED
    BY <2>1, <2>3, <2>4 DEF Jobs, E
<1>3. /\ pc'[p] = "idle" /\ job'[p] = NoJob /\ todo'[p] = <<>> /\ mine'[p] = NoWrites
      /\ resolved'[p] = <<>>
      /\ \A q \in Processes \ {p} :
           /\ pc'[q] = pc[q] /\ job'[q] = job[q] /\ todo'[q] = todo[q] /\ mine'[q] = mine[q]
           /\ resolved'[q] = resolved[q]
      /\ mine' = [q \in Processes |-> mine'[q]]
  BY <1>1 DEF Typed
<1>4. \A q \in Processes :
        mine[q] = [shared |-> mine[q].shared, facts |-> mine[q].facts, siblings |-> mine[q].siblings]
  BY <1>1 DEF Typed
<1>5. NoWrites = [shared |-> NoWrites.shared, facts |-> NoWrites.facts, siblings |-> NoWrites.siblings]
  BY DEF NoWrites
<1>6. \A q \in Processes :
        mine'[q] = [shared |-> mine'[q].shared, facts |-> mine'[q].facts, siblings |-> mine'[q].siblings]
  BY <1>3, <1>4, <1>5
<1> QED
  BY <1>2, <1>3, <1>6

\* An ingest that is over has nothing to answer for.
LEMMA AtRest ==
  ASSUME NEW p \in Processes, pc'[p] = "idle", job'[p] = NoJob, todo'[p] = <<>>, mine'[p] = NoWrites,
         resolved'[p] = <<>>, OneEach(shared')
  PROVE  Local(p)' /\ \A q : Apart(p, q)'
<1>1. mine'[p].shared = {} /\ mine'[p].facts = {} /\ mine'[p].siblings = {}
  BY DEF NoWrites
<1>2. Staged(p)'
  BY <1>1 DEF Staged
<1>3. InOrder(p)' /\ Full(p)'
  BY DEF InOrder, Full
<1>4. Keyed(p)'
  BY <1>1 DEF Keyed, Visible, OneEach, OneFactEach
<1>5. Hung(p)'
  <2>1. DOMAIN resolved'[p] = {}
    OBVIOUS
  <2> QED
    BY <1>1, <2>1 DEF Hung
<1>6. Paired(p)'
  BY <1>1 DEF Paired
<1>7. \A q : Apart(p, q)'
  BY <1>1 DEF Apart, FactKeys
<1> QED
  BY <1>2, <1>3, <1>4, <1>5, <1>6, <1>7 DEF Local

LEMMA FailKeeps ==
  ASSUME IInv, NEW p \in Processes, Fail(p)
  PROVE  IInv'
<1>1. End(p) /\ pc[p] # "idle" /\ UNCHANGED <<shared, facts, siblings, ingested, begun, alone>>
  BY DEF Fail
<1>2. Moves(p)
  BY <1>1, Ended DEF Moves
<1>3. Local(p)' /\ \A q \in Processes : q # p => Apart(p, q)'
  BY <1>1, Ended, AtRest DEF IInv, Stored
<1>4. Typed'
  BY <1>1, Ended DEF IInv, Typed
<1>5. Undisturbed'
  BY <1>1, <1>2, StillUndisturbed
<1> QED
  BY <1>1, <1>2, <1>3, <1>4, <1>5, OneMoves

\* What a commit does to the tables.
LEMMA Committed ==
  ASSUME IInv, NEW p \in Processes, Commit(p)
  PROVE  /\ shared' = Visible(p) /\ shared \subseteq shared'
         /\ siblings' = siblings \cup mine[p].siblings
         /\ ingested' = ingested \cup {<<job[p].org, job[p].doc>>}
         /\ \A r \in facts' : r \in mine[p].facts \/ (r \in facts /\ FactKey(r) \notin FactKeys(mine[p].facts))
         /\ mine[p].facts \subseteq facts'
         /\ \A r \in facts : r \in facts' \/ \E m \in mine[p].facts : FactKey(m) = FactKey(r)
         /\ FactKeys(VisibleFacts(p)) \subseteq FactKeys(facts')
         /\ FactKeys(facts) \subseteq FactKeys(facts')
<1>1. /\ shared' = shared \cup mine[p].shared /\ siblings' = siblings \cup mine[p].siblings
      /\ facts' = {r \in facts : FactKey(r) \notin FactKeys(mine[p].facts)} \cup mine[p].facts
      /\ ingested' = ingested \cup {<<job[p].org, job[p].doc>>}
  BY DEF Commit
<1>2. \A r \in facts : r \in facts' \/ \E m \in mine[p].facts : FactKey(m) = FactKey(r)
  BY <1>1 DEF FactKeys
<1>3. ASSUME NEW r \in VisibleFacts(p) PROVE FactKey(r) \in FactKeys(facts')
  <2>1. \E m \in facts' : FactKey(m) = FactKey(r)
    BY <1>1, <1>2 DEF VisibleFacts
  <2> QED
    BY <2>1 DEF FactKeys
<1>4. FactKeys(VisibleFacts(p)) \subseteq FactKeys(facts') /\ FactKeys(facts) \subseteq FactKeys(facts')
  BY <1>3 DEF FactKeys, VisibleFacts
<1> QED
  BY <1>1, <1>2, <1>4 DEF Visible

LEMMA CommitKeeps ==
  ASSUME IInv, NEW p \in Processes, Commit(p)
  PROVE  IInv'
<1>1. pc[p] = "committing" /\ End(p) /\ UNCHANGED <<begun, alone>>
  BY DEF Commit
<1>2. Local(p) /\ Typed /\ Stored
  BY DEF IInv
<1>3. job[p] \in [org : Orgs, doc : Docs]
  BY <1>1, <1>2 DEF Local, Staged, Typed
<1>4. OneEach(shared')
  BY <1>2, Committed DEF Local, Keyed
<1>5. Typed'
  <2>1. shared' \subseteq Entry
    BY <1>2, Committed DEF Typed, Local, Staged, Visible
  <2>2. \A r \in facts' : IsFact(r)
    BY <1>2, Committed DEF Typed, Local, Staged
  <2>3. ingested' \subseteq Orgs \X Docs
    BY <1>2, <1>3, Committed DEF Typed
  <2> QED
    BY <1>1, <1>2, <2>1, <2>2, <2>3, Ended DEF Typed
<1>6. Stored'
  <2>1. OneFactEach(facts')
    BY <1>2, Committed DEF Stored, Local, Keyed, OneFactEach, FactKeys
  <2>2. \A r \in facts' : HangsOn(r, shared') /\ Sourced(r)
    <3>1. \A r : HangsOn(r, shared) => HangsOn(r, shared')
      BY Committed DEF HangsOn
    <3>2. \A r \in mine[p].facts : HangsOn(r, shared') /\ Sourced(r)
      BY <1>2, Committed DEF Local, Hung
    <3> QED
      BY <1>2, <3>1, <3>2, Committed DEF Stored
  <2>3. ASSUME NEW x \in ingested' PROVE ~Refuses(Content[x[2]]) /\ Has(facts', x[1], x[2], Kinds)
    <3>1. CASE x \in ingested
      BY <1>2, <3>1, Committed DEF Stored, Has
    <3>2. CASE x = <<job[p].org, job[p].doc>>
      <4>1. ~Refuses(Content[job[p].doc]) /\ Has(VisibleFacts(p), job[p].org, job[p].doc, Kinds)
        BY <1>1, <1>2 DEF Local, Staged, Full, Filled
      <4>2. Has(facts', job[p].org, job[p].doc, Kinds)
        BY <4>1, Committed DEF Has
      <4> QED
        BY <3>2, <4>1, <4>2
    <3> QED
      BY <3>1, <3>2, Committed
  <2>4. \A s \in siblings' : Backed(s, facts')
    BY <1>2, Committed DEF Stored, Local, Paired, Backed
  <2> QED
    BY <1>4, <2>1, <2>2, <2>3, <2>4 DEF Stored
<1>7. Undisturbed'
  <2> SUFFICES ASSUME NEW r \in alone, NEW q \in Processes, q # r PROVE pc'[q] = "idle"
    BY <1>1 DEF Undisturbed
  <2>1. pc[q] = "idle"
    BY DEF IInv, Undisturbed
  <2> QED
    BY <1>1, <2>1, Ended
<1>8. ASSUME NEW q \in Processes, q # p PROVE Local(q)'
  <2>1. /\ pc'[q] = pc[q] /\ job'[q] = job[q] /\ todo'[q] = todo[q] /\ mine'[q] = mine[q]
        /\ resolved'[q] = resolved[q]
    BY <1>1, <1>8, Ended
  <2>2. Local(q) /\ Apart(p, q)
    BY <1>8 DEF IInv
  <2>3. Visible(q)' = Visible(p) \cup mine[q].shared /\ Visible(q) \subseteq Visible(q)'
    BY <2>1, Committed DEF Visible
  <2>4. FactKeys(VisibleFacts(q)) \subseteq FactKeys(VisibleFacts(q)')
    BY <2>1, Committed DEF VisibleFacts, FactKeys
  <2>5. Staged(q)' /\ InOrder(q)'
    BY <2>1, <2>2 DEF Local, Staged, InOrder
  <2>6. Keyed(q)'
    <3>1. OneEach(Visible(q)')
      <4>1. /\ \A r, s \in Visible(p) : r.key = s.key => r = s
            /\ \A r, s \in Visible(q) : r.key = s.key => r = s
            /\ \A r \in mine[p].shared, s \in mine[q].shared : r.key # s.key
        BY <1>2, <2>2 DEF Local, Keyed, OneEach, Apart
      <4> QED
        BY <2>3, <4>1 DEF OneEach, Visible
    <3>2. ASSUME NEW x \in facts', NEW m \in mine[q].facts, FactKey(x) = FactKey(m)
          PROVE  Converges(x, m)
      <4>1. x \notin mine[p].facts
        BY <2>2, <3>2 DEF Apart, FactKeys
      <4> QED
        BY <2>2, <3>2, <4>1, Committed DEF Local, Keyed
    <3> QED
      BY <2>1, <2>2, <3>1, <3>2 DEF Local, Keyed
  <2>7. Hung(q)'
    <3>1. \A r : HangsOn(r, Visible(q)) => HangsOn(r, Visible(q)')
      BY <2>3 DEF HangsOn
    <3> QED
      BY <2>1, <2>2, <2>3, <3>1 DEF Local, Hung
  <2>8. Full(q)'
    BY <2>1, <2>2, <2>4 DEF Local, Full, Has
  <2>9. Paired(q)'
    <3>1. q \notin alone'
      BY <1>1, <1>8 DEF IInv, Undisturbed
    <3>2. \A s \in mine[q].siblings : IsLogged(s) /\ Backed(s, VisibleFacts(q)')
      BY <2>2, <2>4 DEF Local, Paired, Backed
    <3> QED
      BY <2>1, <2>2, <3>1, <3>2 DEF Local, Paired
  <2> QED
    BY <2>5, <2>6, <2>7, <2>8, <2>9 DEF Local
<1>9. Local(p)' /\ \A q : Apart(p, q)'
  BY <1>1, <1>4, Ended, AtRest
<1>10. ASSUME NEW q \in Processes, NEW r \in Processes, q # r PROVE Apart(q, r)'
  <2>1. CASE q = p
    BY <1>9, <2>1
  <2>2. CASE r = p
    <3>1. Apart(r, q)'
      BY <1>9, <2>2
    <3> QED
      BY <3>1 DEF Apart
  <2>3. CASE q # p /\ r # p
    <3>1. Apart(q, r) /\ mine'[q] = mine[q] /\ mine'[r] = mine[r]
      BY <1>1, <1>10, <2>3, Ended DEF IInv
    <3> QED
      BY <3>1 DEF Apart
  <2> QED
    BY <2>1, <2>2, <2>3
<1>11. \A q \in Processes : Local(q)'
  BY <1>8, <1>9
<1> QED
  BY <1>5, <1>6, <1>7, <1>10, <1>11 DEF IInv

LEMMA StutterKeeps ==
  ASSUME IInv, UNCHANGED vars
  PROVE  IInv'
<1>1. Typed' /\ Stored' /\ Undisturbed'
  BY DEF vars, IInv, Typed, Stored, Undisturbed
<1>2. ASSUME NEW p \in Processes PROVE Local(p)'
  <2>1. /\ pc' = pc /\ job' = job /\ todo' = todo /\ mine' = mine /\ resolved' = resolved /\ alone' = alone
        /\ facts' = facts /\ shared' = shared /\ ingested' = ingested
    BY DEF vars
  <2>2. Visible(p)' = Visible(p) /\ VisibleFacts(p)' = VisibleFacts(p)
    BY <2>1 DEF Visible, VisibleFacts
  <2>3. Local(p)
    BY DEF IInv
  <2>4. Staged(p)' /\ InOrder(p)'
    BY <2>1, <2>3 DEF Local, Staged, InOrder
  <2>5. Keyed(p)' /\ Hung(p)'
    BY <2>1, <2>2, <2>3 DEF Local, Keyed, Hung
  <2>6. Full(p)'
    BY <2>1, <2>2, <2>3 DEF Local, Full
  <2>7. Paired(p)'
    BY <2>1, <2>2, <2>3 DEF Local, Paired, SealedYear
  <2> QED
    BY <2>4, <2>5, <2>6, <2>7 DEF Local
<1>3. ASSUME NEW p \in Processes, NEW q \in Processes, p # q PROVE Apart(p, q)'
  BY <1>3 DEF vars, IInv, Apart
<1> QED
  BY <1>1, <1>2, <1>3 DEF IInv

LEMMA InvNext == IInv /\ [Next]_vars => IInv'
<1> SUFFICES ASSUME IInv, [Next]_vars PROVE IInv'
  OBVIOUS
<1>1. CASE UNCHANGED vars
  BY <1>1, StutterKeeps
<1>2. ASSUME NEW p \in Processes, NEW o \in Orgs, NEW d \in Docs, Begin(p, o, d) PROVE IInv'
  BY <1>2, BeginKeeps
<1>3. ASSUME NEW p \in Processes,
             \/ InsertShared(p) \/ LookForInstruments(p) \/ Resolve(p) \/ LogSiblings(p) \/ InsertCash(p)
             \/ PartiesDone(p) \/ PersistRestatements(p) \/ Commit(p) \/ Fail(p)
      PROVE  IInv'
  BY <1>3, InsertSharedKeeps, LookForInstrumentsKeeps, ResolveKeeps, LogSiblingsKeeps, InsertCashKeeps,
     PartiesDoneKeeps, PersistRestatementsKeeps, CommitKeeps, FailKeeps
<1>4. ASSUME NEW p \in Processes, InsertTrades(p) \/ InsertLots(p) \/ InsertTransfers(p) PROVE IInv'
  <2>1. Insert(p, "trade", "lot") \/ Insert(p, "lot", "siblings") \/ Insert(p, "transfer", "restatements")
    BY <1>4 DEF InsertTrades, InsertLots, InsertTransfers
  <2> QED
    BY <2>1, InsertKeeps
<1> QED
  BY <1>1, <1>2, <1>3, <1>4 DEF Next

LEMMA Invariance == Spec => []IInv
  BY InitInv, InvNext, PTL DEF Spec

-----------------------------------------------------------------------------
(* The properties *)

\* Rows and facts keep the keys their tables have as UNIQUE constraints, and an ingest has
\* a job as long as it is under way.
THEOREM TypeCorrect == Spec => []TypeOK
<1>1. IInv => TypeOK
  BY DEF IInv, TypeOK, Typed, Stored, OneEach, OneFactEach, Local, Staged
<1> QED
  BY <1>1, Invariance, PTL

\* Every stored fact hangs on the instrument its conid is an identifier of, whoever
\* created it: _ensure_instruments and its second lookup.
THEOREM InstrumentIsNamed == Spec => []OneInstrument
<1>1. IInv => OneInstrument
  BY DEF IInv, OneInstrument, Stored, HangsOn
<1> QED
  BY <1>1, Invariance, PTL

\* A row of a statement that was not refused has a place among those that become facts.
LEMMA HasAPlace ==
  ASSUME NEW d \in Docs, ~Refuses(Content[d]), NEW i \in DOMAIN Content[d],
         Content[d][i].tag \in {"Trade", "CashTransaction", "Transfer"} \cup Lots,
         "date" \in Content[d][i].has, Real(Content[d][i]), Content[d][i].peer \notin Shadow,
         ~(Content[d][i].tag = "Lot" /\ Content[d][i].level # "CLOSED_LOT"),
         ~(Content[d][i].tag = "CashTransaction" /\ Content[d][i].level = "SUMMARY")
  PROVE  KindOf(Content[d][i]) \in Kinds /\ i \in Places(d, KindOf(Content[d][i]))
<1> DEFINE e == Content[d][i]
<1>1. ParseElement(e) # "error"
  BY DEF Refuses
<1>2. ParseElement(e) = "row"
  BY <1>1 DEF ParseElement, ParseTrades, ParseTrade, ParseLot, ParseClosedLot, ParseCashTransaction,
       ParseTransfer, Read, Lots, Accruals, Ignored
<1>3. i \in Rows(d)
  BY <1>2 DEF Rows, Parse
<1>4. KindOf(e) \in Kinds
  BY DEF KindOf, Kinds, Lots
<1> QED
  BY <1>3, <1>4 DEF Places

\* Every dated row with an id of a statement that was ingested is among the facts, from
\* the parser to _upsert_immutable.
THEOREM RowsKept == Spec => []NoRowLost
<1>1. ASSUME IInv, NEW x \in ingested, NEW i \in DOMAIN Content[x[2]],
             Content[x[2]][i].tag \in {"Trade", "CashTransaction", "Transfer"} \cup Lots,
             "date" \in Content[x[2]][i].has,
             "tx" \in Content[x[2]][i].has \/ Content[x[2]][i].tag \in Lots,
             Real(Content[x[2]][i]), Content[x[2]][i].peer \notin Shadow,
             ~(Content[x[2]][i].tag = "Lot" /\ Content[x[2]][i].level # "CLOSED_LOT"),
             ~(Content[x[2]][i].tag = "CashTransaction" /\ Content[x[2]][i].level = "SUMMARY")
      PROVE  \E r \in facts :
               /\ r.org = x[1] /\ r.kind = KindOf(Content[x[2]][i])
               /\ "tx" \in Content[x[2]][i].has => r.key = Content[x[2]][i].key
               /\ Content[x[2]][i].tag \in Lots => r.val = Content[x[2]][i].val
  <2> DEFINE d == x[2]
             e == Content[d][i]
  <2>1. d \in Docs /\ ~Refuses(Content[d]) /\ Has(facts, x[1], d, Kinds)
    BY <1>1 DEF IInv, Typed, Stored
  <2>2. KindOf(e) \in Kinds /\ i \in Places(d, KindOf(e))
    BY <1>1, <2>1, HasAPlace
  <2>3. KeyAt(x[1], d, i) \in FactKeys(facts)
    BY <2>1, <2>2 DEF Has
  <2>4. PICK r \in facts : FactKey(r) = KeyAt(x[1], d, i)
    BY <2>3 DEF FactKeys
  <2>5. e.tag \in Lots => KindOf(e) = "lot"
    BY DEF KindOf, Lots
  <2>6. "tx" \in e.has => TransactionId(d, i) = e.key
    BY DEF TransactionId
  <2>7. /\ r.org = x[1] /\ r.kind = KindOf(e) /\ r.key = TransactionId(d, i)
        /\ KindOf(e) = "lot" => r.val = e.val
    BY <2>4 DEF FactKey, KeyAt
  <2> QED
    BY <2>5, <2>6, <2>7
<1>2. IInv => NoRowLost
  BY <1>1 DEF NoRowLost
<1> QED
  BY <1>2, Invariance, PTL

\* One of two ingests that fill a table in order has not inserted what the other's next
\* row comes after.
LEMMA OrderedWaits ==
  ASSUME IInv, NEW p \in Processes, NEW q \in Processes, pc[p] \in {"accounts", "parties"}, pc[q] = pc[p],
         WaitsFor(p, q), WaitsFor(q, p)
  PROVE  FALSE
<1>1. /\ todo[p] # <<>> /\ Named(mine[q].shared, Head(todo[p]).key) # {}
      /\ todo[q] # <<>> /\ Named(mine[p].shared, Head(todo[q]).key) # {}
  BY DEF WaitsFor
<1>2. PICK s \in mine[q].shared : s.key = Head(todo[p]).key
  BY <1>1 DEF Named
<1>3. PICK r \in mine[p].shared : r.key = Head(todo[q]).key
  BY <1>1 DEF Named
<1>4. /\ 1 \in DOMAIN todo[p] /\ Head(todo[p]) = todo[p][1] /\ todo[p][1] \in Entry
      /\ 1 \in DOMAIN todo[q] /\ Head(todo[q]) = todo[q][1] /\ todo[q][1] \in Entry
  <2>1. todo[p] \in Seq(Entry) /\ todo[q] \in Seq(Entry)
    BY DEF IInv, Typed
  <2> HIDE DEF Entry
  <2> QED
    BY <1>1, <2>1
<1>5. Local(p) /\ Local(q)
  BY DEF IInv
<1>6. todo[p][1].key[1] \in Claiming(pc[p]) /\ todo[q][1].key[1] \in Claiming(pc[p])
  BY <1>4, <1>5 DEF Local, Staged
<1>7. todo[p][1].key[3] \in Nat /\ todo[q][1].key[3] \in Nat
  <2>1. todo[p][1].key[1] \in {"account", "counterparty"} /\ todo[q][1].key[1] \in {"account", "counterparty"}
    BY <1>6 DEF Claiming
  <2>2. todo[p][1].key \in SharedKeys /\ todo[q][1].key \in SharedKeys
    BY <1>4 DEF Entry
  <2>3. ASSUME NEW k \in SharedKeys, k[1] \in {"account", "counterparty"} PROVE k[3] \in Nat
    BY <2>3 DEF SharedKeys
  <2> QED
    BY <2>1, <2>2, <2>3
<1>8. r.key[3] < todo[p][1].key[3]
  BY <1>3, <1>4, <1>5, <1>6 DEF Local, InOrder
<1>9. s.key[3] < todo[q][1].key[3]
  BY <1>2, <1>4, <1>5, <1>6 DEF Local, InOrder
<1> QED
  BY <1>2, <1>3, <1>4, <1>7, <1>8, <1>9

\* Two ingests over the same accounts, or the same counterparties, in whatever
\* organization and at whatever stage, never wait for each other: the sorted()
\* of _ensure_accounts and _ensure_counterparties.
THEOREM SortedIsSafe == Spec => []SortedNeverDeadlocks
<1>1. ASSUME IInv, NEW p \in Processes, NEW q \in Processes, WaitsFor(p, q), WaitsFor(q, p),
             pc[p] \in {"accounts", "parties"}
      PROVE  FALSE
  <2>1. Local(p) /\ Local(q)
    BY <1>1 DEF IInv
  <2>2. PICK s \in mine[q].shared : s.key = Head(todo[p]).key /\ todo[p] # <<>>
    BY <1>1 DEF WaitsFor, Named
  <2>3. s.key[1] \in Claiming(pc[p])
    <3>1. todo[p] \in Seq(Entry)
      BY <1>1 DEF IInv, Typed
    <3>2. 1 \in DOMAIN todo[p] /\ Head(todo[p]) = todo[p][1]
      <4> HIDE DEF Entry
      <4> QED
        BY <2>2, <3>1
    <3> QED
      BY <2>1, <2>2, <3>2 DEF Local, Staged
  <2>4. s.key[1] \in Claimed(pc[q])
    BY <2>1 DEF Local, Staged
  <2>5. CASE pc[q] \in {"accounts", "instruments", "parties"} /\ pc[q] # pc[p]
    <3>1. PICK r \in mine[p].shared : r.key = Head(todo[q]).key /\ todo[q] # <<>>
      BY <1>1, <2>5 DEF WaitsFor, Named
    <3>2. r.key[1] \in Claiming(pc[q])
      <4>1. todo[q] \in Seq(Entry)
        BY <1>1 DEF IInv, Typed
      <4>2. 1 \in DOMAIN todo[q] /\ Head(todo[q]) = todo[q][1]
        <5> HIDE DEF Entry
        <5> QED
          BY <3>1, <4>1
      <4> QED
        BY <2>1, <3>1, <4>2 DEF Local, Staged
    <3>3. r.key[1] \in Claimed(pc[p])
      BY <2>1 DEF Local, Staged
    <3> QED
      BY <1>1, <2>3, <2>4, <2>5, <3>2, <3>3 DEF Claimed, Claiming
  <2>6. CASE pc[q] \in {"trade", "lot", "cash", "transfer"}
    <3>1. RowsBlockedBy(q, pc[q], p)
      BY <1>1, <2>6 DEF WaitsFor
    <3>2. PICK r \in Range(Incoming(q, pc[q])), m \in mine[p].facts : FactKey(r) = FactKey(m)
      BY <3>1 DEF RowsBlockedBy, FactKeys
    <3>3. r.kind = pc[q]
      <4>1. PICK i \in DOMAIN Incoming(q, pc[q]) : r = Incoming(q, pc[q])[i]
        BY DEF Range
      <4>2. pc[q] \in Kinds
        BY <2>6 DEF Kinds
      <4> QED
        BY <4>1, <4>2, IncomingFacts DEF MadeOf
    <3>4. m.kind = pc[q]
      BY <3>2, <3>3, KeyParts
    <3>5. m.kind \in Filled(pc[p])
      BY <2>1 DEF Local, Staged
    <3> QED
      BY <1>1, <2>3, <2>4, <2>6, <3>4, <3>5 DEF Filled, Claimed, Claiming
  <2>7. CASE pc[q] = pc[p]
    BY <1>1, <2>7, OrderedWaits
  <2> QED
    BY <1>1, <2>5, <2>6, <2>7 DEF WaitsFor
<1>2. IInv => SortedNeverDeadlocks
  BY <1>1 DEF SortedNeverDeadlocks
<1> QED
  BY <1>2, Invariance, PTL

\* Only a commit changes what is stored.
LEMMA OnlyCommits ==
  ASSUME [Next]_vars
  PROVE  facts' = facts \/ \E p \in Processes : Commit(p)
<1>1. UNCHANGED vars => facts' = facts
  BY DEF vars
<1>2. ASSUME NEW p \in Processes, NEW o \in Orgs, NEW d \in Docs, Begin(p, o, d) PROVE facts' = facts
  BY <1>2 DEF Begin
<1>3. ASSUME NEW p \in Processes,
             \/ InsertShared(p) \/ LookForInstruments(p) \/ Resolve(p) \/ InsertTrades(p) \/ InsertLots(p)
             \/ LogSiblings(p) \/ PartiesDone(p) \/ InsertTransfers(p) \/ PersistRestatements(p) \/ Fail(p)
      PROVE  facts' = facts
  BY <1>3 DEF InsertShared, LookForInstruments, Resolve, InsertTrades, InsertLots, LogSiblings, PartiesDone,
       InsertTransfers, PersistRestatements, Fail, Insert
<1>4. ASSUME NEW p \in Processes, InsertCash(p) PROVE facts' = facts
  BY <1>4 DEF InsertCash
<1> QED
  BY <1>1, <1>2, <1>3, <1>4 DEF Next

\* A stored fact never changes but for an instrument that was unknown: _upsert_immutable,
\* and the COALESCE of _upsert_immutable_with_resolution.
THEOREM FactsAreImmutable == Spec => FactsStand
<1>1. ASSUME IInv, [Next]_vars, NEW r \in facts
      PROVE  \/ r \in facts'
             \/ /\ r.instrument = None /\ r.kind = "cash"
                /\ \E i \in {x.instrument : x \in facts'} \ {None} : [r EXCEPT !.instrument = i] \in facts'
  <2>1. CASE facts' = facts
    BY <2>1
  <2>2. ASSUME NEW p \in Processes, Commit(p), r \notin facts'
        PROVE  /\ r.instrument = None /\ r.kind = "cash"
               /\ \E i \in {x.instrument : x \in facts'} \ {None} : [r EXCEPT !.instrument = i] \in facts'
    <3>1. PICK m \in mine[p].facts : FactKey(m) = FactKey(r) /\ m \in facts'
      BY <1>1, <2>2, Committed
    <3>2. Converges(r, m)
      BY <1>1, <3>1 DEF IInv, Local, Keyed
    <3> QED
      BY <3>1, <3>2 DEF Converges
  <2> QED
    BY <1>1, <2>1, <2>2, OnlyCommits
<1>2. IInv /\ [Next]_vars =>
        \A r \in facts :
          r \in facts' \/ (r.instrument = None /\ r.kind = "cash"
                           /\ \E i \in {x.instrument : x \in facts'} \ {None} : [r EXCEPT !.instrument = i] \in facts')
  BY <1>1
<1> QED
  BY <1>2, Invariance, PTL DEF FactsStand, Spec

\* Two closed lots that differ in their result alone are logged once, by the ingest that
\* meets no other and stores the second of them, under the seal of their year:
\* _detect_closed_lot_siblings and _persist_restatements.
THEOREM SiblingsAreLogged == Spec => SiblingsLogged
<1>1. ASSUME IInv, NEW p \in alone, Commit(p), NEW r \in mine[p].facts, NEW x \in facts', Siblings(r, x)
      PROVE  LET entries == {s \in siblings' : About(s, r, x)}
             IN  /\ Cardinality(entries) = 1
                 /\ \A s \in entries : s.sealed <=> SealedYear(job[p].org, job[p].doc)
  <2> DEFINE entries == {s \in siblings' : About(s, r, x)}
  <2>1. p \in Processes /\ pc[p] = "committing" /\ Local(p) /\ Stored
    BY <1>1 DEF IInv, Typed, Commit
  <2>2. x \in VisibleFacts(p) /\ siblings' = siblings \cup mine[p].siblings
    BY <1>1, <2>1, Committed DEF VisibleFacts
  <2>3. PICK s \in mine[p].siblings : About(s, r, x) /\ \A t \in mine[p].siblings : About(t, r, x) => t = s
    BY <1>1, <2>1, <2>2 DEF Local, Paired
  <2>4. ASSUME NEW t \in siblings, About(t, r, x) PROVE FALSE
    <3>1. LotKey(r.org, r.key, r.val) \in FactKeys(facts)
      BY <2>1, <2>4 DEF Stored, Backed, About
    <3>2. FactKey(r) = LotKey(r.org, r.key, r.val)
      BY <1>1 DEF Siblings, FactKey, LotKey
    <3>3. PICK y \in facts : FactKey(y) = FactKey(r)
      BY <3>1, <3>2 DEF FactKeys
    <3>4. y.kind = "lot" /\ Converges(y, r)
      BY <1>1, <2>1, <3>3, KeyParts DEF Siblings, Local, Keyed
    <3> QED
      BY <3>4 DEF Converges
  <2>5. entries = {s}
    BY <2>2, <2>3, <2>4
  <2>6. Cardinality({s}) = 1
    BY FS_Singleton
  <2>7. s.sealed <=> SealedYear(job[p].org, job[p].doc)
    BY <1>1, <2>1, <2>3 DEF Local, Paired
  <2> QED
    BY <2>5, <2>6, <2>7
<1>2. IInv /\ [Next]_vars =>
        \A p \in alone : Commit(p) =>
          \A r \in mine[p].facts, x \in facts' :
            (r.kind = "lot" /\ x.kind = "lot" /\ x.org = r.org /\ x.key = r.key /\ x.val # r.val) =>
               LET entries == {s \in siblings' : s.org = r.org /\ s.key = r.key /\ {s.old, s.new} = {r.val, x.val}}
               IN  /\ Cardinality(entries) = 1
                   /\ \A s \in entries : s.sealed <=> SealedYear(job[p].org, job[p].doc)
  BY <1>1 DEF Siblings, About
<1> QED
  BY <1>2, Invariance, PTL DEF SiblingsLogged, Spec
=============================================================================
