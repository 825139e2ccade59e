---------------------------- MODULE RecordsProofs ---------------------------
(***************************************************************************)
(* The rates of module TrmIngest and the dated rows of module DatedLedger, *)
(* for every set of runs, requests and accounts: the stored rates follow   *)
(* the dataset, and neither a save nor a revocation changes what was in    *)
(* force before its day.                                                   *)
(***************************************************************************)
EXTENDS Records, FactStoreProofs

-----------------------------------------------------------------------------
(* The rates: the inductive invariant *)

Row == [from : Nat \ {0}, to : Nat, version : 1..MaxVersion, good : BOOLEAN]

\* Row x is, or was, a row of the dataset.
OfSource(x) ==
  /\ x \in Row
  /\ \E y \in source : /\ y.from = x.from /\ y.to = x.to /\ x.version <= y.version
                       /\ x.version = y.version => x = y

TrmTyped ==
  /\ source \subseteq Row /\ IsFiniteSet(source)
  /\ tpc \in [Runs -> {"idle", "fetching", "storing"}]
  /\ since \in [Runs -> Nat]
  /\ page = [r \in Runs |-> page[r]]
  /\ \A r \in Runs : tpc[r] # "idle" <=> lock = r

\* The ranges of the dataset, up to some day, have no day in common.
Ranges ==
  /\ \E n \in Nat : \A x \in source : x.to <= n
  /\ \A x \in source : x.from <= x.to
  /\ \A x, y \in source : x = y \/ x.to < y.from \/ y.to < x.from

\* A day has the rate of a row that was given and parsed, and none that is older than a
\* version of its range that was given before.
Dated ==
  /\ \A x \in taken : OfSource(x)
  /\ \A d \in DOMAIN days :
       /\ \E x \in taken : /\ x.good /\ x.from <= d /\ d <= x.to
                           /\ days[d] = [from |-> x.from, to |-> x.to, version |-> x.version]
       /\ \E i \in imports : i.from <= d /\ d <= i.to
  /\ \A x \in taken : x.good =>
       \A d \in x.from..x.to : d \in DOMAIN days /\ x.version <= days[d].version

\* No range was missed up to the last that is stored.
NoneMissed == \A row \in source : row.from <= Trm!Mark => \E x \in taken : x.from = row.from

\* What a run was given: rows no older than any given before, and of the ranges after the
\* start from which it goes on, all up to the last it was given.
Received(r) ==
  /\ tpc[r] # "idle" => since[r] <= Trm!Mark
  /\ tpc[r] # "storing" => page[r] = {}
  /\ \A x \in page[r] : OfSource(x) /\ since[r] < x.from
  /\ \A x, y \in page[r] : x.from = y.from => x = y
  /\ \A x \in page[r], y \in taken : x.from = y.from => y.version <= x.version
  /\ \A x \in page[r], y \in source : (since[r] < y.from /\ y.from <= x.from) =>
       \E z \in page[r] : z.from = y.from

TrmInv == TrmTyped /\ Ranges /\ Dated /\ NoneMissed /\ \A r \in Runs : Received(r)

-----------------------------------------------------------------------------
(* Ranges and the days in them *)

\* Two rows of the dataset with a day in common are of one range.
LEMMA OneRange ==
  ASSUME Ranges, NEW x, NEW y, OfSource(x), OfSource(y), NEW d \in Nat,
         x.from <= d, d <= x.to, y.from <= d, d <= y.to
  PROVE  x.from = y.from /\ x.to = y.to
<1>1. PICK u \in source : u.from = x.from /\ u.to = x.to
  BY DEF OfSource
<1>2. PICK v \in source : v.from = y.from /\ v.to = y.to
  BY DEF OfSource
<1>3. x \in Row /\ y \in Row
  BY DEF OfSource
<1> QED
  BY <1>1, <1>2, <1>3 DEF Ranges, Row

\* Where an increment goes on from.
LEMMA MarkIs ==
  ASSUME TrmInv
  PROVE  /\ Trm!Mark \in Nat
         /\ \A d \in DOMAIN days : days[d].from <= Trm!Mark
         /\ Trm!Mark # 0 => \E d \in DOMAIN days : days[d].from = Trm!Mark
<1> DEFINE S == {days[d].from : d \in DOMAIN days}
<1>1. \A d \in DOMAIN days : \E x \in source : days[d].from = x.from
  BY DEF TrmInv, Dated, OfSource
<1>2. S \subseteq Nat
  BY <1>1 DEF TrmInv, TrmTyped, Row
<1>3. PICK n \in Nat : \A x \in S : x <= n
  <2>1. PICK n \in Nat : \A x \in source : x.to <= n
    BY DEF TrmInv, Ranges
  <2>2. \A x \in source : x.from <= n
    BY <2>1 DEF TrmInv, TrmTyped, Ranges, Row
  <2> QED
    BY <1>1, <2>2
<1>4. CASE DOMAIN days = {}
  BY <1>4 DEF Trm!Mark
<1>5. CASE DOMAIN days # {}
  <2>1. S # {}
    BY <1>5
  <2>2. Trm!Mark = CHOOSE x \in S : \A y \in S : x >= y
    BY <1>5 DEF Trm!Mark, Trm!Max
  <2> HIDE DEF S
  <2>3. \E x \in S : \A y \in S : x >= y
    BY <1>2, <1>3, <2>1, Extremes
  <2>4. Trm!Mark \in S /\ \A y \in S : Trm!Mark >= y
    BY <2>2, <2>3
  <2>5. \A d \in DOMAIN days : days[d].from \in S
    BY DEF S
  <2> QED
    BY <1>2, <2>4, <2>5 DEF S
<1> QED
  BY <1>4, <1>5

-----------------------------------------------------------------------------
(* The rates: the steps of a run *)

LEMMA TrmInitInv == Trm!Init => TrmInv
<1> SUFFICES ASSUME Trm!Init PROVE TrmInv
  OBVIOUS
<1> USE DEF Trm!Init
<1>1. DOMAIN days = {}
  OBVIOUS
<1>2. TrmTyped
  BY TrmAssumption, FS_EmptySet DEF TrmTyped
<1>3. Ranges /\ Dated /\ NoneMissed
  <2>1. \A x \in source : x.to <= 0
    OBVIOUS
  <2> QED
    BY <1>1, <2>1 DEF Ranges, Dated, NoneMissed
<1>4. \A r \in Runs : Received(r)
  BY DEF Received
<1> QED
  BY <1>2, <1>3, <1>4 DEF TrmInv

\* Rows of the dataset stay in it, if only in a later version.
SourceGrows ==
  /\ source' \subseteq Row /\ IsFiniteSet(source') /\ Ranges'
  /\ \A x : OfSource(x) => OfSource(x)'
  /\ \A y \in source' : \/ \E x \in source : x.from = y.from
                        \/ \A x \in source : x.to < y.from

\* A dataset that grows leaves what was given true.
LEMMA SourceStep ==
  ASSUME TrmInv, SourceGrows, UNCHANGED <<days, imports, lock, tpc, since, page, tbegun, taken>>
  PROVE  TrmInv'
<1>1. Trm!Mark' = Trm!Mark
  BY DEF Trm!Mark
<1>2. TrmTyped' /\ Ranges'
  BY DEF TrmInv, TrmTyped, SourceGrows
<1>3. Dated'
  BY DEF TrmInv, Dated, SourceGrows
<1>4. ASSUME NEW y \in source', NEW x, OfSource(x), y.from <= x.from
      PROVE  \E z \in source : z.from = y.from
  <2>1. PICK u \in source : u.from = x.from /\ u.to = x.to
    BY <1>4 DEF OfSource
  <2>2. u.from <= u.to /\ u \in Row /\ y \in Row
    BY DEF TrmInv, TrmTyped, Ranges, SourceGrows
  <2>3. ~(u.to < y.from)
    BY <1>4, <2>1, <2>2 DEF Row
  <2> QED
    BY <2>3 DEF SourceGrows
<1>5. NoneMissed'
  <2> SUFFICES ASSUME NEW y \in source', y.from <= Trm!Mark PROVE \E x \in taken : x.from = y.from
    BY <1>1 DEF NoneMissed
  <2>1. y \in Row
    BY DEF SourceGrows
  <2>2. Trm!Mark # 0
    BY <2>1, MarkIs DEF Row
  <2>3. PICK d \in DOMAIN days : days[d].from = Trm!Mark
    BY <2>2, MarkIs
  <2>4. PICK x \in taken : OfSource(x) /\ x.from = Trm!Mark
    BY <2>3 DEF TrmInv, Dated
  <2>5. PICK z \in source : z.from = y.from
    BY <1>4, <2>4
  <2> QED
    BY <2>5 DEF TrmInv, NoneMissed
<1>6. ASSUME NEW r \in Runs PROVE Received(r)'
  <2>1. Received(r)
    BY DEF TrmInv
  <2>2. \A x \in page[r] : OfSource(x)'
    BY <2>1 DEF Received, SourceGrows
  <2>3. ASSUME NEW x \in page[r], NEW y \in source', since[r] < y.from, y.from <= x.from
        PROVE  \E z \in page[r] : z.from = y.from
    <3>1. OfSource(x)
      BY <2>1 DEF Received
    <3>2. PICK z \in source : z.from = y.from
      BY <1>4, <2>3, <3>1
    <3> QED
      BY <2>1, <2>3, <3>2 DEF Received
  <2> QED
    BY <1>1, <2>1, <2>2, <2>3 DEF Received
<1> QED
  BY <1>2, <1>3, <1>5, <1>6 DEF TrmInv

LEMMA PublishKeeps == TrmInv /\ Trm!Publish => TrmInv'
<1> SUFFICES ASSUME TrmInv, Trm!Publish PROVE TrmInv'
  OBVIOUS
<1> DEFINE S == {row.to : row \in source}
           first == IF source = {} THEN 1 ELSE Trm!Max(S) + 1
<1>1. PICK last \in first..(first + 1), good \in BOOLEAN :
        source' = source \cup {[from |-> first, to |-> last, version |-> 1, good |-> good]}
  BY DEF Trm!Publish
<1>2. UNCHANGED <<days, imports, lock, tpc, since, page, tbegun, taken>>
  BY DEF Trm!Publish
<1>3. first \in Nat \ {0} /\ \A x \in source : x.to < first
  <2>1. CASE source = {}
    BY <2>1
  <2>2. CASE source # {}
    <3>1. S # {} /\ S \subseteq Nat /\ \A x \in source : x.to \in S
      BY <2>2 DEF TrmInv, TrmTyped, Row
    <3>2. PICK n \in Nat : \A x \in S : x <= n
      BY DEF TrmInv, Ranges
    <3>3. Trm!Max(S) = CHOOSE x \in S : \A y \in S : x >= y
      BY DEF Trm!Max
    <3> HIDE DEF S
    <3>4. \E x \in S : \A y \in S : x >= y
      BY <3>1, <3>2, Extremes
    <3>5. Trm!Max(S) \in S /\ \A y \in S : Trm!Max(S) >= y
      BY <3>3, <3>4
    <3>6. first = Trm!Max(S) + 1
      BY <2>2
    <3> HIDE DEF first
    <3>7. Trm!Max(S) \in Nat /\ \A x \in source : x.to \in Nat /\ x.to <= Trm!Max(S)
      BY <3>1, <3>5
    <3> QED
      BY <3>6, <3>7
  <2> QED
    BY <2>1, <2>2
<1> HIDE DEF first
<1> DEFINE row == [from |-> first, to |-> last, version |-> 1, good |-> good]
<1>4. last \in Nat /\ first <= last
  BY <1>3
<1>5. row \in Row
  BY <1>3, <1>4, TrmAssumption DEF Row
<1>6. row.from = first /\ row.to = last
  OBVIOUS
<1>7. source' = source \cup {row}
  BY <1>1
<1> HIDE DEF row
<1>8. SourceGrows
  <2>1. source' \subseteq Row /\ IsFiniteSet(source')
    BY <1>5, <1>7, FS_AddElement DEF TrmInv, TrmTyped
  <2>2. Ranges'
    <3>1. PICK n \in Nat : \A x \in source : x.to <= n
      BY DEF TrmInv, Ranges
    <3>2. \A x \in source' : x.to <= n + last
      BY <1>4, <1>6, <1>7, <2>1, <3>1 DEF Row
    <3>3. \A x \in source' : x.from <= x.to
      BY <1>4, <1>6, <1>7 DEF TrmInv, Ranges
    <3>4. \A x, y \in source' : x = y \/ x.to < y.from \/ y.to < x.from
      BY <1>3, <1>6, <1>7 DEF TrmInv, Ranges
    <3>5. n + last \in Nat
      BY <1>4
    <3> QED
      BY <3>2, <3>3, <3>4, <3>5 DEF Ranges
  <2>3. \A x : OfSource(x) => OfSource(x)'
    BY <1>7 DEF OfSource
  <2>4. \A y \in source' : (\E x \in source : x.from = y.from) \/ \A x \in source : x.to < y.from
    BY <1>3, <1>6, <1>7
  <2> QED
    BY <2>1, <2>2, <2>3, <2>4 DEF SourceGrows
<1> QED
  BY <1>2, <1>8, SourceStep

LEMMA CorrectKeeps == TrmInv /\ Trm!Correct => TrmInv'
<1> SUFFICES ASSUME TrmInv, Trm!Correct PROVE TrmInv'
  OBVIOUS
<1>1. PICK row \in source, good \in BOOLEAN :
        /\ row.version < MaxVersion
        /\ source' = (source \ {row}) \cup {[row EXCEPT !.version = @ + 1, !.good = good]}
  BY DEF Trm!Correct
<1>2. UNCHANGED <<days, imports, lock, tpc, since, page, tbegun, taken>>
  BY DEF Trm!Correct
<1> DEFINE new == [row EXCEPT !.version = @ + 1, !.good = good]
<1>3. row \in Row
  BY DEF TrmInv, TrmTyped
<1>4. new \in Row /\ new.from = row.from /\ new.to = row.to /\ new.version = row.version + 1
  <2>1. new = [from |-> row.from, to |-> row.to, version |-> row.version + 1, good |-> good]
    <3> DEFINE later == [row EXCEPT !.version = @ + 1]
    <3>1. row.version \in Nat
      BY <1>3, TrmAssumption DEF Row
    <3>2. later = [from |-> row.from, to |-> row.to, version |-> row.version + 1, good |-> row.good]
      BY <1>3, <3>1 DEF Row
    <3>3. new = [later EXCEPT !.good = good]
      BY <1>3, <3>1 DEF Row
    <3> HIDE DEF later, new
    <3> QED
      BY <3>2, <3>3
  <2>2. row.version + 1 \in 1..MaxVersion
    BY <1>1, <1>3, TrmAssumption DEF Row
  <2> QED
    BY <1>3, <2>1, <2>2 DEF Row
<1>5. source' = (source \ {row}) \cup {new}
  BY <1>1
<1> HIDE DEF new
<1>6. SourceGrows
  <2>1. source' \subseteq Row /\ IsFiniteSet(source')
    <3>1. IsFiniteSet(source \ {row})
      BY FS_Subset DEF TrmInv, TrmTyped
    <3> QED
      BY <1>4, <1>5, <3>1, FS_AddElement DEF TrmInv, TrmTyped
  <2>2. Ranges'
    <3>1. PICK n \in Nat : \A x \in source : x.to <= n
      BY DEF TrmInv, Ranges
    <3>2. \A x \in source' : x.to <= n /\ x.from <= x.to
      BY <1>4, <1>5, <3>1 DEF TrmInv, Ranges
    <3>3. \A x, y \in source' : x = y \/ x.to < y.from \/ y.to < x.from
      BY <1>4, <1>5 DEF TrmInv, Ranges
    <3> QED
      BY <3>2, <3>3 DEF Ranges
  <2>3. ASSUME NEW x, OfSource(x) PROVE OfSource(x)'
    <3>1. PICK y \in source : /\ y.from = x.from /\ y.to = x.to /\ x.version <= y.version
                              /\ x.version = y.version => x = y
      BY <2>3 DEF OfSource
    <3>2. CASE y # row
      BY <1>5, <2>3, <3>1, <3>2 DEF OfSource
    <3>3. CASE y = row
      <4>1. x \in Row
        BY <2>3 DEF OfSource
      <4>2. x.version <= new.version /\ x.version # new.version
        BY <1>3, <1>4, <3>1, <3>3, <4>1 DEF Row
      <4> QED
        BY <1>4, <1>5, <2>3, <3>1, <3>3, <4>2 DEF OfSource
    <3> QED
      BY <3>2, <3>3
  <2>4. \A y \in source' : \E x \in source : x.from = y.from
    BY <1>4, <1>5
  <2> QED
    BY <2>1, <2>2, <2>3, <2>4 DEF SourceGrows
<1> QED
  BY <1>2, <1>6, SourceStep

LEMMA TrmBeginKeeps ==
  ASSUME TrmInv, NEW r \in Runs, NEW full \in BOOLEAN, Trm!Begin(r, full)
  PROVE  TrmInv'
<1>1. /\ tpc[r] = "idle" /\ lock = None /\ lock' = r
      /\ since' = [since EXCEPT ![r] = IF full THEN 0 ELSE Trm!Mark]
      /\ tpc' = [tpc EXCEPT ![r] = "fetching"]
      /\ UNCHANGED <<source, days, imports, page, taken>>
  BY DEF Trm!Begin
<1>2. Trm!Mark' = Trm!Mark /\ Trm!Mark \in Nat
  BY <1>1, MarkIs DEF Trm!Mark
<1>3. \A q \in Runs : tpc[q] = "idle"
  BY <1>1, TrmAssumption DEF TrmInv, TrmTyped
<1>4. TrmTyped'
  BY <1>1, <1>2, <1>3, TrmAssumption DEF TrmInv, TrmTyped
<1>5. Ranges' /\ Dated' /\ NoneMissed'
  BY <1>1, <1>2 DEF TrmInv, Ranges, Dated, NoneMissed, OfSource
<1>6. ASSUME NEW q \in Runs PROVE Received(q)'
  <2>1. page'[q] = {}
    BY <1>1, <1>3 DEF TrmInv, Received
  <2>2. since'[q] <= Trm!Mark \/ tpc'[q] = "idle"
    BY <1>1, <1>2, <1>3 DEF TrmInv, TrmTyped
  <2> QED
    BY <1>2, <2>1, <2>2 DEF Received
<1> QED
  BY <1>4, <1>5, <1>6 DEF TrmInv

\* A reply has the ranges after the start, up to the last it has.
LEMMA ReplyIsWhole ==
  ASSUME TrmInv, NEW after \in Nat
  PROVE  /\ \A x \in Trm!Reply(after) : x \in source /\ after < x.from
         /\ \A x \in Trm!Reply(after), y \in source :
              (after < y.from /\ y.from <= x.from) => y \in Trm!Reply(after)
<1> DEFINE later == {row \in source : row.from > after}
           Before(x) == {z \in later : z.from < x.from}
<1>1. Trm!Reply(after) = {row \in later : Cardinality(Before(row)) < PageLimit}
  <2>1. Trm!Reply(after) = {row \in later : Trm!Cardinality(Before(row)) < PageLimit}
    BY DEF Trm!Reply
  <2>2. \A S : Trm!Cardinality(S) = Cardinality(S)
    BY DEF Trm!Cardinality, Cardinality
  <2> QED
    BY <2>1, <2>2
<1>2. \A x \in later : x \in source /\ after < x.from
  BY DEF TrmInv, TrmTyped, Row
<1>3. ASSUME NEW x \in Trm!Reply(after), NEW y \in source, after < y.from, y.from <= x.from
      PROVE  y \in Trm!Reply(after)
  <2>1. x \in later /\ y \in later /\ Cardinality(Before(x)) < PageLimit
    BY <1>1, <1>3 DEF TrmInv, TrmTyped, Row
  <2>2. x \in Row /\ y \in Row /\ \A z \in later : z \in Row
    BY <2>1 DEF TrmInv, TrmTyped
  <2>3. Before(y) \subseteq Before(x)
    BY <1>3, <2>2 DEF Row
  <2>4. IsFiniteSet(Before(x))
    BY FS_Subset DEF TrmInv, TrmTyped
  <2> HIDE DEF Before
  <2>5. Cardinality(Before(y)) <= Cardinality(Before(x)) /\ IsFiniteSet(Before(y))
    BY <2>3, <2>4, FS_Subset
  <2>6. Cardinality(Before(x)) \in Nat /\ Cardinality(Before(y)) \in Nat
    BY <2>4, <2>5, FS_CardinalityType
  <2>7. Cardinality(Before(y)) < PageLimit
    BY <2>1, <2>5, <2>6, TrmAssumption
  <2> QED
    BY <1>1, <2>1, <2>7
<1> QED
  BY <1>1, <1>2, <1>3

LEMMA FetchKeeps ==
  ASSUME TrmInv, NEW r \in Runs, Trm!Fetch(r)
  PROVE  TrmInv'
<1> DEFINE P == Trm!Reply(since[r])
<1>1. /\ tpc[r] = "fetching" /\ page' = [page EXCEPT ![r] = P] /\ tpc' = [tpc EXCEPT ![r] = "storing"]
      /\ UNCHANGED <<source, days, imports, lock, since, taken>>
  BY DEF Trm!Fetch
<1>2. since[r] \in Nat
  BY DEF TrmInv, TrmTyped
<1>3. /\ \A x \in P : x \in source /\ since[r] < x.from
      /\ \A x \in P, y \in source : (since[r] < y.from /\ y.from <= x.from) => y \in P
  BY <1>2, ReplyIsWhole
<1> HIDE DEF P
<1>4. Trm!Mark' = Trm!Mark
  BY <1>1 DEF Trm!Mark
<1>5. TrmTyped'
  BY <1>1 DEF TrmInv, TrmTyped
<1>6. Ranges' /\ Dated' /\ NoneMissed'
  BY <1>1, <1>4 DEF TrmInv, Ranges, Dated, NoneMissed, OfSource
<1>7. \A x : OfSource(x)' <=> OfSource(x)
  BY <1>1 DEF OfSource
<1>8. Received(r)'
  <2>1. page'[r] = P /\ tpc'[r] = "storing" /\ since'[r] = since[r]
    BY <1>1 DEF TrmInv, TrmTyped
  <2>2. \A x \in source : OfSource(x)
    BY DEF TrmInv, TrmTyped, Row, OfSource
  <2>3. ASSUME NEW x \in source, NEW y \in source, x.from = y.from PROVE x = y
    <3>1. x.from <= x.to /\ y.from <= y.to /\ x \in Row /\ y \in Row
      BY DEF TrmInv, TrmTyped, Ranges
    <3> QED
      BY <2>3, <3>1 DEF TrmInv, Ranges, Row
  <2>4. ASSUME NEW x \in P, NEW y \in taken, x.from = y.from PROVE y.version <= x.version
    <3>1. PICK z \in source : z.from = y.from /\ y.version <= z.version
      BY DEF TrmInv, Dated, OfSource
    <3> QED
      BY <1>3, <2>3, <2>4, <3>1
  <2>5. since[r] <= Trm!Mark
    BY <1>1 DEF TrmInv, Received
  <2> QED
    BY <1>1, <1>3, <1>4, <1>7, <2>1, <2>2, <2>3, <2>4, <2>5 DEF Received
<1>9. ASSUME NEW q \in Runs, q # r PROVE Received(q)'
  <2>1. page'[q] = page[q] /\ tpc'[q] = tpc[q]
    BY <1>1, <1>9 DEF TrmInv, TrmTyped
  <2> QED
    BY <1>1, <1>4, <1>7, <2>1 DEF TrmInv, Received
<1> QED
  BY <1>5, <1>6, <1>8, <1>9 DEF TrmInv

\* After a run nobody has the lock, and nobody is at work.
LEMMA TrmEnded ==
  ASSUME TrmInv, NEW r \in Runs, Trm!End(r), tpc[r] # "idle"
  PROVE  /\ source' = source /\ TrmTyped' /\ Ranges'
         /\ \A x : OfSource(x)' <=> OfSource(x)
         /\ \A q \in Runs : Received(q)'
<1>1. /\ tpc' = [tpc EXCEPT ![r] = "idle"] /\ since' = [since EXCEPT ![r] = 0]
      /\ page' = [page EXCEPT ![r] = {}] /\ lock' = None /\ source' = source
  BY DEF Trm!End, TrmInv, TrmTyped
<1>2. \A q \in Runs : q # r => tpc[q] = "idle"
  BY DEF TrmInv, TrmTyped
<1>3. TrmTyped' /\ Ranges'
  BY <1>1, <1>2, TrmAssumption DEF TrmInv, TrmTyped, Ranges
<1>4. \A x : OfSource(x)' <=> OfSource(x)
  BY <1>1 DEF OfSource
<1>5. \A q \in Runs : page'[q] = {} /\ tpc'[q] = "idle"
  BY <1>1, <1>2 DEF TrmInv, TrmTyped, Received
<1> QED
  BY <1>1, <1>3, <1>4, <1>5 DEF Received

LEMMA TrmFailKeeps ==
  ASSUME TrmInv, NEW r \in Runs, Trm!Fail(r)
  PROVE  TrmInv'
<1>1. Trm!End(r) /\ tpc[r] # "idle" /\ UNCHANGED <<days, imports, taken>>
  BY DEF Trm!Fail
<1>2. Trm!Mark' = Trm!Mark
  BY <1>1 DEF Trm!Mark
<1>3. Dated' /\ NoneMissed'
  BY <1>1, <1>2, TrmEnded DEF TrmInv, Dated, NoneMissed
<1> QED
  BY <1>1, <1>3, TrmEnded DEF TrmInv

\* What a run stores: each day of a row that parsed gets its rate.
LEMMA DaysStored ==
  ASSUME TrmInv, NEW r \in Runs, Trm!Store(r)
  PROVE  /\ tpc[r] = "storing" /\ Trm!End(r) /\ taken' = taken \cup page[r]
         /\ DOMAIN days \subseteq DOMAIN days'
         /\ \A x \in page[r] : x.good => \A d \in x.from..x.to : d \in DOMAIN days'
         /\ \A d \in DOMAIN days' :
              \/ /\ d \in DOMAIN days /\ days'[d] = days[d]
                 /\ \A x \in page[r] : x.good => d \notin x.from..x.to
              \/ /\ \E x \in page[r] :
                      /\ x.good /\ d \in x.from..x.to
                      /\ days'[d] = [from |-> x.from, to |-> x.to, version |-> x.version]
                 /\ \E i \in imports' : i.from <= d /\ d <= i.to
         /\ imports \subseteq imports'
<1> DEFINE expanded == Trm!Expand(page[r])
           Of(d) == (CHOOSE e \in expanded : e.day = d).row
           brought == {e.day : e \in expanded}
<1>1. /\ tpc[r] = "storing" /\ Trm!End(r) /\ taken' = taken \cup page[r]
      /\ days' = [d \in DOMAIN days \cup brought |->
                    IF d \in brought THEN [from |-> Of(d).from, to |-> Of(d).to, version |-> Of(d).version]
                                     ELSE days[d]]
      /\ imports' = imports \cup
           (IF brought = {} THEN {} ELSE {[from |-> Trm!Min(brought), to |-> Trm!Max(brought)]})
  BY DEF Trm!Store
<1>2. \A x \in page[r] : x \in Row
  BY DEF TrmInv, Received, OfSource
<1>3. \A e : e \in expanded <=>
        \E x \in page[r] : x.good /\ \E d \in x.from..x.to : e = [day |-> d, row |-> x]
  BY DEF Trm!Expand
<1> HIDE DEF expanded
<1>4. \A d : d \in brought <=> \E x \in page[r] : x.good /\ d \in x.from..x.to
  <2>1. ASSUME NEW e \in expanded PROVE \E x \in page[r] : x.good /\ e.day \in x.from..x.to
    BY <1>3
  <2>2. ASSUME NEW x \in page[r], x.good, NEW d \in x.from..x.to PROVE d \in brought
    <3>1. [day |-> d, row |-> x] \in expanded
      BY <1>3, <2>2
    <3>2. [day |-> d, row |-> x].day = d
      OBVIOUS
    <3> QED
      BY <3>1, <3>2
  <2> QED
    BY <2>1, <2>2
<1>5. ASSUME NEW d \in brought
      PROVE  Of(d) \in page[r] /\ Of(d).good /\ d \in Of(d).from..Of(d).to
  <2>1. \E e \in expanded : e.day = d
    BY <1>5
  <2> DEFINE e == CHOOSE e \in expanded : e.day = d
  <2>2. e \in expanded /\ e.day = d
    BY <2>1
  <2> HIDE DEF e
  <2>3. PICK x \in page[r], n \in Nat : x.good /\ n \in x.from..x.to /\ e = [day |-> n, row |-> x]
    BY <1>2, <1>3, <2>2 DEF Row
  <2>4. e.row \in page[r] /\ e.row.good /\ d \in e.row.from..e.row.to
    BY <2>2, <2>3
  <2> QED
    BY <2>4 DEF e
<1>6. \A d \in brought : d \in Nat /\ \E i \in imports' : i.from <= d /\ d <= i.to
  <2> SUFFICES ASSUME NEW d \in brought PROVE d \in Nat /\ \E i \in imports' : i.from <= d /\ d <= i.to
    OBVIOUS
  <2>1. PICK n \in Nat : \A x \in source : x.to <= n
    BY DEF TrmInv, Ranges
  <2>2. \A x \in page[r] : x.to <= n
    BY <2>1 DEF TrmInv, Received, OfSource
  <2>3. brought \subseteq Nat /\ \A c \in brought : c <= n
    <3> SUFFICES ASSUME NEW c \in brought PROVE c \in Nat /\ c <= n
      OBVIOUS
    <3>1. PICK x \in page[r] : c \in x.from..x.to
      BY <1>4
    <3>2. x.from \in Nat /\ x.to \in Nat /\ x.to <= n
      BY <1>2, <2>2 DEF Row
    <3> QED
      BY <3>1, <3>2
  <2>4. /\ Trm!Min(brought) = CHOOSE x \in brought : \A y \in brought : x <= y
        /\ Trm!Max(brought) = CHOOSE x \in brought : \A y \in brought : x >= y
    BY DEF Trm!Min, Trm!Max
  <2>5. [from |-> Trm!Min(brought), to |-> Trm!Max(brought)] \in imports'
    BY <1>1
  <2> HIDE DEF brought
  <2>6. /\ \E x \in brought : \A y \in brought : x <= y
        /\ \E x \in brought : \A y \in brought : x >= y
    BY <2>3, Extremes
  <2>7. /\ Trm!Min(brought) \in brought /\ \A y \in brought : Trm!Min(brought) <= y
        /\ Trm!Max(brought) \in brought /\ \A y \in brought : Trm!Max(brought) >= y
    BY <2>4, <2>6
  <2> QED
    BY <2>3, <2>5, <2>7
<1> HIDE DEF Of, brought
<1>7. ASSUME NEW d \in DOMAIN days', d \notin brought
      PROVE  d \in DOMAIN days /\ days'[d] = days[d] /\ \A x \in page[r] : x.good => d \notin x.from..x.to
  BY <1>1, <1>4, <1>7
<1>8. ASSUME NEW d \in brought
      PROVE  /\ Of(d) \in page[r] /\ Of(d).good /\ d \in Of(d).from..Of(d).to
             /\ days'[d] = [from |-> Of(d).from, to |-> Of(d).to, version |-> Of(d).version]
  BY <1>1, <1>5
<1>9. DOMAIN days' = DOMAIN days \cup brought
  BY <1>1
<1>10. \A x \in page[r] : x.good => \A d \in x.from..x.to : d \in DOMAIN days'
  BY <1>4, <1>9
<1> QED
  BY <1>1, <1>6, <1>7, <1>8, <1>9, <1>10

LEMMA StoreKeeps ==
  ASSUME TrmInv, NEW r \in Runs, Trm!Store(r)
  PROVE  TrmInv'
<1>1. tpc[r] = "storing" /\ Trm!End(r) /\ taken' = taken \cup page[r] /\ imports \subseteq imports'
  BY DaysStored
<1>2. source' = source /\ TrmTyped' /\ Ranges' /\ (\A x : OfSource(x)' <=> OfSource(x))
      /\ \A q \in Runs : Received(q)'
  BY <1>1, TrmEnded
<1>3. Received(r) /\ Dated /\ NoneMissed /\ Ranges
  BY DEF TrmInv
<1>4. \A x \in taken' : OfSource(x) /\ x \in Row
  BY <1>1, <1>3 DEF Received, Dated, OfSource
<1>5. Dated'
  <2>1. ASSUME NEW d \in DOMAIN days'
        PROVE  /\ \E x \in taken' : /\ x.good /\ x.from <= d /\ d <= x.to
                                    /\ days'[d] = [from |-> x.from, to |-> x.to, version |-> x.version]
               /\ \E i \in imports' : i.from <= d /\ d <= i.to
    <3>1. CASE d \in DOMAIN days /\ days'[d] = days[d]
      BY <1>1, <1>3, <3>1 DEF Dated
    <3>2. ASSUME NEW x \in page[r], x.good, d \in x.from..x.to,
                 days'[d] = [from |-> x.from, to |-> x.to, version |-> x.version],
                 \E i \in imports' : i.from <= d /\ d <= i.to
          PROVE  \E z \in taken' : /\ z.good /\ z.from <= d /\ d <= z.to
                                   /\ days'[d] = [from |-> z.from, to |-> z.to, version |-> z.version]
      <4>1. x \in taken' /\ x \in Row
        BY <1>1, <1>4
      <4>2. x.from <= d /\ d <= x.to
        BY <3>2, <4>1 DEF Row
      <4> QED
        BY <3>2, <4>1, <4>2
    <3> QED
      BY <3>1, <3>2, DaysStored
  <2>2. ASSUME NEW x \in taken', x.good, NEW d \in x.from..x.to
        PROVE  d \in DOMAIN days' /\ x.version <= days'[d].version
    <3>1. d \in DOMAIN days'
      BY <1>1, <1>3, <2>2, DaysStored DEF Dated
    <3>2. x \in Row /\ OfSource(x) /\ d \in Nat /\ x.from <= d /\ d <= x.to
      BY <1>4, <2>2 DEF Row
    <3>3. CASE \A z \in page[r] : z.good => d \notin z.from..z.to
      <4>1. x \in taken /\ d \in DOMAIN days /\ days'[d] = days[d]
        BY <1>1, <2>2, <3>1, <3>3, DaysStored
      <4> QED
        BY <1>3, <2>2, <3>1, <4>1 DEF Dated
    <3>4. CASE ~ \A z \in page[r] : z.good => d \notin z.from..z.to
      <4>1. PICK z \in page[r] : /\ z.good /\ d \in z.from..z.to
                                 /\ days'[d] = [from |-> z.from, to |-> z.to, version |-> z.version]
        BY <3>1, <3>4, DaysStored
      <4>2. z \in Row /\ OfSource(z) /\ z.from <= d /\ d <= z.to
        BY <1>1, <1>4, <4>1 DEF Row
      <4>3. z.from = x.from
        BY <1>3, <3>2, <4>2, OneRange
      <4>4. days'[d].version = z.version
        BY <4>1
      <4>5. x \in taken \/ x = z
        BY <1>1, <1>3, <4>3 DEF Received
      <4>6. x.version <= z.version
        BY <1>3, <3>2, <4>3, <4>5 DEF Received, Row
      <4> QED
        BY <3>1, <4>4, <4>6
    <3> QED
      BY <3>3, <3>4
  <2> QED
    BY <1>2, <1>4, <2>1, <2>2 DEF Dated
<1>6. NoneMissed'
  <2> SUFFICES ASSUME NEW y \in source, y.from <= Trm!Mark' PROVE \E x \in taken' : x.from = y.from
    BY <1>2 DEF NoneMissed
  <2>1. CASE y.from <= Trm!Mark
    BY <1>1, <1>3, <2>1 DEF NoneMissed
  <2>2. CASE ~(y.from <= Trm!Mark)
    <3>1. y.from \in Nat /\ y.from # 0 /\ since[r] \in Nat
      BY DEF TrmInv, TrmTyped, Row
    <3>2. Trm!Mark \in Nat /\ \A d \in DOMAIN days : days[d].from <= Trm!Mark
      BY MarkIs
    <3>3. /\ Trm!Mark' \in Nat
          /\ Trm!Mark' # 0 => \E d \in DOMAIN days' : days'[d].from = Trm!Mark'
      <4> DEFINE S == {days'[d].from : d \in DOMAIN days'}
      <4>1. \A d \in DOMAIN days' : \E x \in source : days'[d].from = x.from
        BY <1>4, <1>5 DEF Dated, OfSource
      <4>2. S \subseteq Nat
        BY <4>1 DEF TrmInv, TrmTyped, Row
      <4>3. PICK n \in Nat : \A x \in S : x <= n
        <5>1. PICK n \in Nat : \A x \in source : x.to <= n
          BY DEF TrmInv, Ranges
        <5>2. \A x \in source : x.from <= n
          BY <5>1 DEF TrmInv, TrmTyped, Ranges, Row
        <5> QED
          BY <4>1, <5>2
      <4>4. CASE DOMAIN days' = {}
        BY <4>4 DEF Trm!Mark
      <4>5. CASE DOMAIN days' # {}
        <5>1. S # {}
          BY <4>5
        <5>2. Trm!Mark' = CHOOSE x \in S : \A y1 \in S : x >= y1
          BY <4>5 DEF Trm!Mark, Trm!Max
        <5> HIDE DEF S
        <5>3. \E x \in S : \A y1 \in S : x >= y1
          BY <4>2, <4>3, <5>1, Extremes
        <5>4. Trm!Mark' \in S
          BY <5>2, <5>3
        <5> QED
          BY <4>2, <5>4 DEF S
      <4> QED
        BY <4>4, <4>5
    <3>4. PICK d \in DOMAIN days' : days'[d].from = Trm!Mark'
      BY <3>1, <3>3
    <3>5. ~(d \in DOMAIN days /\ days'[d] = days[d])
      BY <2>2, <3>1, <3>2, <3>3, <3>4
    <3>6. PICK x \in page[r] : days'[d] = [from |-> x.from, to |-> x.to, version |-> x.version]
      BY <3>5, DaysStored
    <3>7. since[r] < y.from /\ y.from <= x.from
      BY <1>1, <1>3, <2>2, <3>1, <3>2, <3>4, <3>6 DEF Received
    <3>8. \E z \in page[r] : z.from = y.from
      BY <1>3, <3>7 DEF Received
    <3> QED
      BY <1>1, <3>8
  <2> QED
    BY <2>1, <2>2
<1> QED
  BY <1>2, <1>5, <1>6 DEF TrmInv

LEMMA TrmInvNext == TrmInv /\ [Trm!Next]_trmVars => TrmInv'
<1> SUFFICES ASSUME TrmInv, [Trm!Next]_trmVars PROVE TrmInv'
  OBVIOUS
<1>1. CASE UNCHANGED trmVars
  <2>1. Trm!Mark' = Trm!Mark
    BY <1>1 DEF trmVars, Trm!Mark
  <2>2. TrmTyped' /\ Ranges' /\ Dated' /\ NoneMissed'
    BY <1>1, <2>1 DEF trmVars, TrmInv, TrmTyped, Ranges, Dated, NoneMissed, OfSource
  <2>3. \A r \in Runs : Received(r)'
    BY <1>1, <2>1 DEF trmVars, TrmInv, Received, OfSource
  <2> QED
    BY <2>2, <2>3 DEF TrmInv
<1>2. CASE Trm!Publish
  BY <1>2, PublishKeeps
<1>3. CASE Trm!Correct
  BY <1>3, CorrectKeeps
<1>4. ASSUME NEW r \in Runs, NEW full \in BOOLEAN, Trm!Begin(r, full) PROVE TrmInv'
  BY <1>4, TrmBeginKeeps
<1>5. ASSUME NEW r \in Runs, Trm!Fetch(r) \/ Trm!Store(r) \/ Trm!Fail(r) PROVE TrmInv'
  BY <1>5, FetchKeeps, StoreKeeps, TrmFailKeeps
<1> QED
  BY <1>1, <1>2, <1>3, <1>4, <1>5 DEF Trm!Next

\* Each component of a behaviour goes by its own specification.
LEMMA TrmRuns == RecordsSpec => Trm!Init /\ [][Trm!Next]_trmVars
<1>1. [RecordsNext]_recordVars => [Trm!Next]_trmVars
  BY DEF RecordsNext, FactStep, TrmStep, LedgerStep, recordVars
<1>2. RecordsInit => Trm!Init
  BY DEF RecordsInit
<1> QED
  BY <1>1, <1>2, PTL DEF RecordsSpec

LEMMA TrmInvariance == RecordsSpec => []TrmInv
  BY TrmRuns, TrmInitInv, TrmInvNext, PTL

\* Up to the range from which the next run goes on none was missed, and each day has the
\* newest rate of its range that any run was given: TRM increments and full backfills
\* under the source's lock.
THEOREM RatesFollow == RecordsSpec => []RatesFollowSource
<1>1. ASSUME TrmInv, NEW row \in source, row.from <= Trm!Mark,
             NEW given, given = {x \in taken : x.from = row.from},
             NEW parsed, parsed = {x \in given : x.good}
      PROVE  /\ given # {}
             /\ parsed # {} => \A d \in row.from..row.to :
                  d \in DOMAIN days /\ days[d].version = Trm!Max({x.version : x \in parsed})
  <2>1. given # {}
    BY <1>1 DEF TrmInv, NoneMissed
  <2>2. ASSUME parsed # {}, NEW d \in row.from..row.to
        PROVE  d \in DOMAIN days /\ days[d].version = Trm!Max({x.version : x \in parsed})
    <3> DEFINE V == {x.version : x \in parsed}
    <3>1. row \in Row /\ OfSource(row) /\ d \in Nat /\ row.from <= d /\ d <= row.to
      <4>1. row \in Row
        BY <1>1 DEF TrmInv, TrmTyped
      <4>2. row.from \in Nat /\ row.to \in Nat /\ row.version \in Nat
        BY <4>1, TrmAssumption DEF Row
      <4> QED
        BY <4>1, <4>2 DEF OfSource
    <3>2. ASSUME NEW x \in parsed
          PROVE  /\ x \in Row /\ x \in taken /\ x.good /\ d \in x.from..x.to
                 /\ d \in DOMAIN days /\ x.version <= days[d].version
      <4>1. x \in taken /\ x.good /\ x.from = row.from /\ OfSource(x)
        BY <1>1 DEF TrmInv, Dated
      <4>2. x.to = row.to
        <5>1. PICK y \in source : y.from = x.from /\ y.to = x.to
          BY <4>1 DEF OfSource
        <5>2. y \in Row /\ y.from <= y.to
          BY <1>1 DEF TrmInv, TrmTyped, Ranges
        <5>3. y = row
          BY <1>1, <3>1, <4>1, <5>1, <5>2 DEF TrmInv, Ranges, Row
        <5> QED
          BY <5>1, <5>3
      <4> QED
        BY <1>1, <4>1, <4>2 DEF TrmInv, Dated, OfSource
    <3>3. d \in DOMAIN days
      BY <2>2, <3>2
    <3>4. PICK z \in taken : /\ z.good /\ z.from <= d /\ d <= z.to
                             /\ days[d] = [from |-> z.from, to |-> z.to, version |-> z.version]
      BY <1>1, <3>3 DEF TrmInv, Dated
    <3>5. z \in parsed
      <4>1. OfSource(z)
        BY <1>1 DEF TrmInv, Dated
      <4>2. z.from = row.from
        BY <1>1, <3>1, <3>4, <4>1, OneRange DEF TrmInv
      <4> QED
        BY <1>1, <3>4, <4>2
    <3>6. days[d].version \in V /\ \A v \in V : v <= days[d].version
      BY <3>2, <3>4, <3>5
    <3>7. V \subseteq Nat
      BY <3>2, TrmAssumption DEF Row
    <3>8. Trm!Max(V) = CHOOSE x \in V : \A y \in V : x >= y
      BY DEF Trm!Max
    <3> HIDE DEF V
    <3>9. Trm!Max(V) \in V /\ \A y \in V : Trm!Max(V) >= y
      <4>1. days[d].version \in V /\ \A y \in V : days[d].version >= y
        BY <3>6, <3>7
      <4>2. \E x \in V : \A y \in V : x >= y
        BY <4>1
      <4> QED
        BY <3>8, <4>2
    <3>10. days[d].version = Trm!Max(V)
      <4>1. /\ days[d].version \in Nat /\ Trm!Max(V) \in Nat
            /\ Trm!Max(V) <= days[d].version /\ Trm!Max(V) >= days[d].version
        BY <3>6, <3>7, <3>9
      <4> QED
        BY <4>1
    <3> QED
      BY <3>3, <3>10 DEF V
  <2> QED
    BY <2>1, <2>2
<1>2. TrmInv => RatesFollowSource
  BY <1>1 DEF RatesFollowSource, Trm!RatesFollowSource
<1> QED
  BY <1>2, TrmInvariance, PTL

-----------------------------------------------------------------------------
(* The dated rows: the inductive invariant *)

Share == [account : Accounts, share : Shares, from : Nat, to : Nat]
Grant == [id : Nat, from : Nat, to : Nat]

LedgerTyped ==
  /\ today \in 1..LastDay
  /\ shares \subseteq Share /\ grants \subseteq Grant /\ IsFiniteSet(grants)
  /\ lpc \in [Requests -> {"idle", "reading", "writing", "done"}]
  /\ kind \in [Requests -> {"save", "revoke"}]
  /\ at \in [Requests -> Nat]
  /\ wanted = [p \in Requests |-> wanted[p]]
  /\ ltodo \in [Requests -> Seq(Accounts \cup Nat)]
  /\ read = [p \in Requests |-> read[p]]
  /\ lmine = [p \in Requests |-> lmine[p]]
  /\ lalone \subseteq Requests

\* A row that was closed is followed by another from the day it ends.
Followed(rows) ==
  \A r \in rows : r.to # Ledger!Forever => \E s \in rows : s.account = r.account /\ s.from = r.to

\* What the table of shares may look like.
Tidy(rows, day) ==
  /\ rows \subseteq Share /\ Ledger!Allowed(rows) /\ Followed(rows)
  /\ \A r \in rows : r.from <= day

\* Before day d0 the shares are as they were.
SameBefore(rows, old, d0) ==
  \A a, d : d \in Nat /\ d < d0 => Ledger!SharesOn(rows, a, d) = Ledger!SharesOn(old, a, d)

\* Grants are numbered, and none ends before it starts.
Numbered ==
  /\ \A g \in grants : g.id \in 1..Cardinality(grants) /\ g.from <= g.to
  /\ \A g, h \in grants : g.id = h.id => g = h

\* What holds of a request at each stage.
AtWork(p) ==
  /\ at[p] <= today
  /\ lpc[p] = "idle" => kind[p] = "save" /\ lmine[p] = {} /\ read[p] = None
  /\ lpc[p] \in {"reading", "writing"} => ltodo[p] # <<>>

\* A save: before its day it sees what is stored, and the row it has read may be another by
\* now, but is there.
Saving(p) ==
  /\ wanted[p] \in Shares /\ lmine[p] \subseteq Share /\ Tidy(Ledger!View(p), today)
  /\ \A n \in DOMAIN ltodo[p] : ltodo[p][n] \in Accounts /\ \A m \in lmine[p] : m.account # ltodo[p][n]
  /\ \A m, n \in DOMAIN ltodo[p] : ltodo[p][m] = ltodo[p][n] => m = n
  /\ SameBefore(Ledger!View(p), shares, at[p])
  /\ (lpc[p] = "writing" /\ read[p] # None) =>
       /\ read[p] \in Share /\ read[p].account = Head(ltodo[p])
       /\ \E r \in Ledger!View(p) : r.account = read[p].account /\ r.from = read[p].from

\* A row puts the share of a save in force.
InForceFrom(r, a, p) == r.account = a /\ r.from = at[p] /\ r.to = Ledger!Forever /\ r.share = wanted[p]

\* A save that meets no other: what it has read is still so.
SavingAlone(p) ==
  /\ \A r \in shares : r.from <= at[p]
  /\ \A m \in lmine[p] : \E r \in Ledger!View(p) : InForceFrom(r, m.account, p)
  /\ (lpc[p] = "writing" /\ read[p] # None) => read[p] \in Ledger!View(p) /\ read[p].to = Ledger!Forever

Revoking(p) ==
  /\ lpc[p] \in {"reading", "writing"} => Len(ltodo[p]) = 1 /\ lmine[p] = {}
  /\ lmine[p] \subseteq Grant /\ \A m, n \in lmine[p] : m = n
  /\ \A m \in lmine[p] : m.from <= m.to /\ \E g \in grants : g.id = m.id /\ g.from = m.from
  /\ lpc[p] = "writing" => \E g \in grants : g.id = Head(ltodo[p]) /\ g.from = read[p].from

RevokingAlone(p) ==
  /\ lpc[p] = "writing" => read[p] \in grants /\ read[p].id = Head(ltodo[p]) /\ at[p] < read[p].to
  /\ lpc[p] = "done" =>
       \E g \in grants : g.from <= at[p] /\ at[p] < g.to /\ lmine[p] = {[g EXCEPT !.to = at[p]]}

Request(p) ==
  /\ AtWork(p)
  /\ (lpc[p] # "idle" /\ kind[p] = "save") => Saving(p) /\ (p \in lalone => SavingAlone(p))
  /\ (lpc[p] # "idle" /\ kind[p] = "revoke") => Revoking(p) /\ (p \in lalone => RevokingAlone(p))

\* No two requests have uncommitted rows of an account, or of a grant.
Held(p, q) ==
  kind[p] = kind[q] =>
    \A m \in lmine[p], n \in lmine[q] : IF kind[p] = "save" THEN m.account # n.account ELSE m.id # n.id

LedgerQuiet == \A p \in lalone : \A q \in Requests \ {p} : lpc[q] = "idle"

LedgerInv ==
  /\ LedgerTyped /\ Tidy(shares, today) /\ Numbered /\ LedgerQuiet
  /\ \A p \in Requests : Request(p)
  /\ \A p, q \in Requests : p # q => Held(p, q)

-----------------------------------------------------------------------------
(* Rows that replace rows *)

\* Ledger!Over, of shares and of grants.
Put(rows, written) ==
  {r \in rows : \A w \in written : ~(r.account = w.account /\ r.from = w.from)} \cup written
Renew(rows, written) == {r \in rows : \A w \in written : r.id # w.id} \cup written

LEMMA OverIsPut ==
  ASSUME NEW rows, rows \subseteq Share, NEW written
  PROVE  Ledger!Over(rows, written) = Put(rows, written)
<1>1. \A r \in rows : DOMAIN r = {"account", "share", "from", "to"}
  BY DEF Share
<1>2. \A r \in rows : "id" \notin DOMAIN r
  BY <1>1
<1>3. \A r \in rows, w \in written : Ledger!SameRow(r, w) <=> (r.account = w.account /\ r.from = w.from)
  BY <1>2 DEF Ledger!SameRow
<1> QED
  BY <1>3 DEF Ledger!Over, Put

LEMMA OverIsRenew ==
  ASSUME NEW rows, rows \subseteq Grant, NEW written
  PROVE  Ledger!Over(rows, written) = Renew(rows, written)
<1>1. \A r \in rows : DOMAIN r = {"id", "from", "to"}
  BY DEF Grant
<1>2. \A r \in rows : "id" \in DOMAIN r
  BY <1>1
<1>3. \A r \in rows, w \in written : Ledger!SameRow(r, w) <=> r.id = w.id
  BY <1>2 DEF Ledger!SameRow
<1> QED
  BY <1>3 DEF Ledger!Over, Renew

\* Rows written over what is written over others.
LEMMA PutTwice ==
  ASSUME NEW S, NEW M, NEW W
  PROVE  Put(S, Put(M, W)) = Put(Put(S, M), W)
BY DEF Put

\* A row keeps its account and first day.
LEMMA PutKeepsKeys ==
  ASSUME NEW S, NEW W
  PROVE  \A r \in S : \E s \in Put(S, W) : s.account = r.account /\ s.from = r.from
BY DEF Put

On(rows, a) == {r \in rows : r.account = a}

\* Accounts that nothing is written for stay as they are.
LEMMA PutElsewhere ==
  ASSUME NEW S, NEW W, NEW a, \A w \in W : w.account # a
  PROVE  On(Put(S, W), a) = On(S, a)
BY DEF On, Put

\* The rows of an account are as those of the one or of the other.
LEMMA PutOnBoth ==
  ASSUME NEW S, NEW M, NEW W, NEW a, \A m \in M, w \in W : m.account # w.account
  PROVE  \/ On(Put(Put(S, M), W), a) = On(Put(S, M), a) /\ \A w \in W : w.account # a
         \/ On(Put(Put(S, M), W), a) = On(Put(S, W), a) /\ \A m \in M : m.account # a
<1>1. CASE \A w \in W : w.account # a
  BY <1>1, PutElsewhere
<1>2. CASE ~ \A w \in W : w.account # a
  <2>1. \A m \in M : m.account # a
    BY <1>2
  <2>2. On(Put(Put(S, M), W), a) = On(Put(S, W), a)
    BY <2>1 DEF On, Put
  <2> QED
    BY <2>1, <2>2
<1> QED
  BY <1>1, <1>2

LEMMA SharesByAccount ==
  ASSUME NEW S, NEW T, NEW a, On(S, a) = On(T, a), NEW d
  PROVE  Ledger!SharesOn(S, a, d) = Ledger!SharesOn(T, a, d)
<1>1. \A r : (r \in S /\ r.account = a) <=> (r \in T /\ r.account = a)
  BY DEF On
<1> QED
  BY <1>1 DEF Ledger!SharesOn

\* Order among the rows of each account is order.
LEMMA TidyByAccount ==
  ASSUME NEW rows, NEW S, NEW T, NEW day, Tidy(S, day), Tidy(T, day),
         \A a : On(rows, a) = On(S, a) \/ On(rows, a) = On(T, a)
  PROVE  Tidy(rows, day)
<1>1. ASSUME NEW r \in rows, NEW U, Tidy(U, day), On(rows, r.account) = On(U, r.account)
      PROVE  /\ r \in Share /\ r.from < r.to /\ r.from <= day
             /\ \A s \in rows : (r.account = s.account /\ r # s) => (r.to <= s.from \/ s.to <= r.from)
             /\ r.to # Ledger!Forever => \E s \in rows : s.account = r.account /\ s.from = r.to
  <2>1. \A s : (s \in rows /\ s.account = r.account) <=> (s \in U /\ s.account = r.account)
    BY <1>1 DEF On
  <2> QED
    BY <1>1, <2>1 DEF Tidy, Followed, Ledger!Allowed
<1>2. \A r \in rows :
        /\ r \in Share /\ r.from < r.to /\ r.from <= day
        /\ \A s \in rows : (r.account = s.account /\ r # s) => (r.to <= s.from \/ s.to <= r.from)
        /\ r.to # Ledger!Forever => \E s \in rows : s.account = r.account /\ s.from = r.to
  BY <1>1
<1> QED
  BY <1>2 DEF Tidy, Followed, Ledger!Allowed

\* A row is known by its account and first day.
LEMMA OneRow ==
  ASSUME NEW rows, NEW day, Tidy(rows, day), NEW r \in rows, NEW s \in rows, r.account = s.account, r.from = s.from
  PROVE  r = s
<1>1. r.from < r.to /\ s.from < s.to /\ r \in Share /\ s \in Share
  BY DEF Tidy, Ledger!Allowed
<1>2. r # s => (r.to <= s.from \/ s.to <= r.from)
  BY DEF Tidy, Ledger!Allowed
<1> QED
  BY <1>1, <1>2 DEF Share

-----------------------------------------------------------------------------
(* What a save does to the rows it sees *)

Opening(a, w, d) == [account |-> a, share |-> w, from |-> d, to |-> Ledger!Forever]

\* Rows that are in force on a day, and have one of the same account and share that is in
\* force in another set, and the other way round.
Alike(S, T, d) ==
  \A r \in S : (r.from <= d /\ d < r.to) =>
    \E s \in T : s.account = r.account /\ s.share = r.share /\ s.from <= d /\ d < s.to

LEMMA SameShares ==
  ASSUME NEW S, NEW T, NEW d0, \A d \in Nat : d < d0 => Alike(S, T, d) /\ Alike(T, S, d)
  PROVE  SameBefore(S, T, d0)
<1> SUFFICES ASSUME NEW a, NEW d \in Nat, d < d0
             PROVE  Ledger!SharesOn(S, a, d) = Ledger!SharesOn(T, a, d)
  BY DEF SameBefore
<1>1. ASSUME NEW U, NEW W, Alike(U, W, d), NEW x \in Ledger!SharesOn(U, a, d)
      PROVE  x \in Ledger!SharesOn(W, a, d)
  <2>1. PICK r \in U : r.account = a /\ r.from <= d /\ d < r.to /\ x = r.share
    BY <1>1 DEF Ledger!SharesOn
  <2>2. PICK s \in W : s.account = a /\ s.share = x /\ s.from <= d /\ d < s.to
    BY <1>1, <2>1 DEF Alike
  <2> QED
    BY <2>2 DEF Ledger!SharesOn
<1>2. Alike(S, T, d) /\ Alike(T, S, d)
  OBVIOUS
<1> DEFINE A == Ledger!SharesOn(S, a, d)
           B == Ledger!SharesOn(T, a, d)
<1>3. A \subseteq B /\ B \subseteq A
  BY <1>1, <1>2
<1>4. A = B
  <2> HIDE DEF A, B
  <2> QED
    BY <1>3
<1> QED
  BY <1>4

LEMMA Corrects ==
  ASSUME NEW V, NEW day \in Nat, Tidy(V, day), NEW c \in V, NEW w \in Shares, NEW d0 \in Nat, d0 <= c.from,
         NEW new, new = [c EXCEPT !.share = w]
  PROVE  Tidy(Put(V, {new}), day) /\ SameBefore(Put(V, {new}), V, d0)
<1>1. c \in Share
  BY DEF Tidy
<1>2. new \in Share /\ new.account = c.account /\ new.from = c.from /\ new.to = c.to
  BY <1>1 DEF Share
<1>3. \A r : r \in Put(V, {new}) <=> (r \in V /\ r # c) \/ r = new
  BY <1>2, OneRow DEF Put
<1>4. Tidy(Put(V, {new}), day)
  <2>1. Ledger!Allowed(Put(V, {new}))
    <3>1. \A u \in V : u.from < u.to
      BY DEF Tidy, Ledger!Allowed
    <3>2. \A u, v \in V : (u.account = v.account /\ u # v) => (u.to <= v.from \/ v.to <= u.from)
      BY DEF Tidy, Ledger!Allowed
    <3>3. ASSUME NEW u \in Put(V, {new}), NEW v \in Put(V, {new}), u.account = v.account, u # v
          PROVE  u.to <= v.from \/ v.to <= u.from
      <4>1. CASE u = new
        BY <1>2, <1>3, <3>2, <3>3, <4>1
      <4>2. CASE v = new
        BY <1>2, <1>3, <3>2, <3>3, <4>2
      <4>3. CASE u # new /\ v # new
        BY <1>3, <3>2, <3>3, <4>3
      <4> QED
        BY <4>1, <4>2, <4>3
    <3> QED
      BY <1>2, <1>3, <3>1, <3>3 DEF Ledger!Allowed
  <2>2. ASSUME NEW r \in Put(V, {new}), r.to # Ledger!Forever
        PROVE  \E s \in Put(V, {new}) : s.account = r.account /\ s.from = r.to
    <3>1. PICK u \in V : u.account = r.account /\ u.to = r.to
      BY <1>2, <1>3
    <3>2. PICK s \in V : s.account = u.account /\ s.from = u.to
      BY <2>2, <3>1 DEF Tidy, Followed
    <3> QED
      BY <3>1, <3>2, PutKeepsKeys
  <2>3. \A r \in Put(V, {new}) : r.from <= day /\ r \in Share
    BY <1>2, <1>3 DEF Tidy
  <2> QED
    BY <2>1, <2>2, <2>3 DEF Tidy, Followed
<1>5. ASSUME NEW d \in Nat, d < d0 PROVE Alike(Put(V, {new}), V, d) /\ Alike(V, Put(V, {new}), d)
  <2>1. ~(c.from <= d) /\ ~(new.from <= d)
    BY <1>1, <1>2, <1>5 DEF Share
  <2> QED
    BY <1>3, <2>1 DEF Alike
<1> QED
  BY <1>4, <1>5, SameShares

LEMMA Opens ==
  ASSUME NEW V, NEW day \in Nat, Tidy(V, day), NEW a \in Accounts, NEW w \in Shares, NEW d0 \in Nat, d0 <= day,
         NEW new, new = Opening(a, w, d0),
         \A r \in V : ~(r.account = a /\ r.from = d0), Ledger!Allowed(V \cup {new}), Ledger!Forever \in Nat
  PROVE  Tidy(Put(V, {new}), day) /\ SameBefore(Put(V, {new}), V, d0)
<1>1. new \in Share /\ new.account = a /\ new.from = d0 /\ new.to = Ledger!Forever
  BY DEF Opening, Share
<1>2. Put(V, {new}) = V \cup {new}
  BY <1>1 DEF Put
<1>3. Tidy(V \cup {new}, day)
  BY <1>1 DEF Tidy, Followed
<1>4. ASSUME NEW d \in Nat, d < d0 PROVE Alike(V \cup {new}, V, d) /\ Alike(V, V \cup {new}, d)
  BY <1>1, <1>4 DEF Alike
<1> QED
  BY <1>2, <1>3, <1>4, SameShares

LEMMA Closes ==
  ASSUME NEW V, NEW day \in Nat, Tidy(V, day), NEW c \in V, NEW w \in Shares, NEW d0 \in Nat, c.from < d0, d0 <= day,
         Ledger!Forever \in Nat, day < Ledger!Forever,
         NEW closed, closed = [c EXCEPT !.to = d0], NEW new, new = Opening(c.account, w, d0),
         \A r \in V : ~(r.account = c.account /\ r.from = d0), Ledger!Allowed(Put(V, {closed, new}))
  PROVE  Tidy(Put(V, {closed, new}), day) /\ SameBefore(Put(V, {closed, new}), V, d0)
<1> DEFINE U == Put(V, {closed, new})
<1>1. c \in Share /\ c.from < c.to
  BY DEF Tidy, Ledger!Allowed
<1>2. /\ closed \in Share /\ closed.account = c.account /\ closed.from = c.from /\ closed.to = d0
      /\ closed.share = c.share
  BY <1>1 DEF Share
<1>3. new \in Share /\ new.account = c.account /\ new.from = d0 /\ new.to = Ledger!Forever
  BY <1>1 DEF Opening, Share
<1>4. \A r : r \in U <=> (r \in V /\ r # c) \/ r = closed \/ r = new
  BY <1>2, <1>3, OneRow DEF Put
<1> HIDE DEF U
<1>5. Tidy(U, day)
  <2>1. ASSUME NEW r \in U, r.to # Ledger!Forever
        PROVE  \E s \in U : s.account = r.account /\ s.from = r.to
    <3>1. CASE r = closed
      BY <1>2, <1>3, <1>4, <3>1
    <3>2. CASE r # closed
      <4>1. PICK s \in V : s.account = r.account /\ s.from = r.to
        BY <1>3, <1>4, <2>1, <3>2 DEF Tidy, Followed
      <4> QED
        BY <1>2, <1>4, <4>1
    <3> QED
      BY <3>1, <3>2
  <2>2. \A r \in U : r.from <= day /\ r \in Share
    BY <1>2, <1>3, <1>4 DEF Tidy
  <2> QED
    BY <2>1, <2>2 DEF Tidy, Followed, U
<1>6. d0 <= c.to
  <2> SUFFICES ASSUME c.to < d0 PROVE FALSE
    BY <1>1 DEF Share
  <2>1. c.to # Ledger!Forever
    BY <1>1 DEF Share
  <2>2. PICK s \in V : s.account = c.account /\ s.from = c.to
    BY <2>1 DEF Tidy, Followed
  <2>3. s \in Share /\ s.from < s.to
    BY DEF Tidy, Ledger!Allowed
  <2>4. s # c /\ s # closed /\ s \in U
    BY <1>1, <1>2, <1>4, <2>2 DEF Share
  <2>5. closed.to <= s.from \/ s.to <= closed.from
    BY <1>2, <1>4, <2>2, <2>4 DEF U, Ledger!Allowed
  <2> QED
    BY <1>1, <1>2, <2>2, <2>3, <2>5 DEF Share
<1>7. ASSUME NEW d \in Nat, d < d0 PROVE Alike(U, V, d) /\ Alike(V, U, d)
  <2>1. ~(new.from <= d) /\ d < c.to /\ d < closed.to
    BY <1>1, <1>2, <1>3, <1>6, <1>7 DEF Share
  <2> QED
    BY <1>2, <1>4, <2>1 DEF Alike
<1> QED
  BY <1>5, <1>7, SameShares DEF U

-----------------------------------------------------------------------------
(* The dated rows: what the steps share *)

LEMMA LedgerInitInv == Ledger!Init => LedgerInv
<1> SUFFICES ASSUME Ledger!Init PROVE LedgerInv
  OBVIOUS
<1> USE DEF Ledger!Init
<1>1. LedgerTyped
  BY LedgerAssumption, FS_EmptySet DEF LedgerTyped
<1>2. Tidy(shares, today)
  BY DEF Tidy, Followed, Ledger!Allowed
<1>3. Numbered /\ LedgerQuiet
  BY DEF Numbered, LedgerQuiet
<1>4. \A p \in Requests : Request(p)
  BY DEF Request, AtWork
<1>5. \A p, q \in Requests : p # q => Held(p, q)
  BY DEF Held
<1> QED
  BY <1>1, <1>2, <1>3, <1>4, <1>5 DEF LedgerInv

\* What a save sees.
LEMMA ViewIsPut ==
  ASSUME LedgerInv, NEW p \in Requests
  PROVE  Ledger!View(p) = IF kind[p] = "save" THEN Put(shares, lmine[p]) ELSE shares
<1>1. shares \subseteq Share
  BY DEF LedgerInv, LedgerTyped
<1>2. \A W : Ledger!Over(shares, W) = Put(shares, W)
  BY <1>1, OverIsPut
<1>3. Put(shares, {}) = shares
  BY DEF Put
<1> QED
  BY <1>2, <1>3 DEF Ledger!View

LEMMA DayBounds ==
  ASSUME LedgerInv
  PROVE  today \in Nat /\ Ledger!Forever \in Nat /\ today < Ledger!Forever
BY LedgerAssumption DEF LedgerInv, LedgerTyped, Ledger!Forever

\* One request moves, inside its transaction.
Turns(p) ==
  /\ UNCHANGED <<today, shares, grants>>
  /\ \A q \in Requests \ {p} :
       /\ lpc'[q] = lpc[q] /\ kind'[q] = kind[q] /\ at'[q] = at[q] /\ wanted'[q] = wanted[q]
       /\ ltodo'[q] = ltodo[q] /\ read'[q] = read[q] /\ lmine'[q] = lmine[q]
       /\ q \in lalone' => q \in lalone

LEMMA OneTurns ==
  ASSUME LedgerInv, NEW p \in Requests, Turns(p), LedgerTyped', LedgerQuiet', Request(p)',
         \A q \in Requests : q # p => Held(p, q)'
  PROVE  LedgerInv'
<1>1. today' = today /\ shares' = shares /\ grants' = grants
  BY DEF Turns
<1>2. Tidy(shares, today)' /\ Numbered'
  BY <1>1 DEF LedgerInv, Numbered
<1>3. ASSUME NEW q \in Requests, q # p PROVE Request(q)'
  <2>1. /\ lpc'[q] = lpc[q] /\ kind'[q] = kind[q] /\ at'[q] = at[q] /\ wanted'[q] = wanted[q]
        /\ ltodo'[q] = ltodo[q] /\ read'[q] = read[q] /\ lmine'[q] = lmine[q]
        /\ q \in lalone' => q \in lalone
    BY <1>3 DEF Turns
  <2>2. Request(q)
    BY DEF LedgerInv
  <2>3. Ledger!View(q)' = Ledger!View(q)
    BY <1>1, <2>1 DEF Ledger!View
  <2>4. AtWork(q)'
    BY <1>1, <2>1, <2>2 DEF Request, AtWork
  <2>5. Saving(q) => Saving(q)'
    BY <1>1, <2>1, <2>3 DEF Saving
  <2>6. SavingAlone(q) => SavingAlone(q)'
    BY <1>1, <2>1, <2>3 DEF SavingAlone, InForceFrom
  <2>7. (Revoking(q) => Revoking(q)') /\ (RevokingAlone(q) => RevokingAlone(q)')
    BY <1>1, <2>1 DEF Revoking, RevokingAlone
  <2> QED
    BY <2>1, <2>2, <2>4, <2>5, <2>6, <2>7 DEF Request
<1>4. ASSUME NEW q \in Requests, NEW r \in Requests, q # r PROVE Held(q, r)'
  <2>1. CASE q = p
    BY <1>4, <2>1
  <2>2. CASE r = p
    <3>1. Held(r, q)'
      BY <1>4, <2>2
    <3> QED
      BY <3>1 DEF Held
  <2>3. CASE q # p /\ r # p
    <3>1. Held(q, r) /\ kind'[q] = kind[q] /\ kind'[r] = kind[r] /\ lmine'[q] = lmine[q] /\ lmine'[r] = lmine[r]
      BY <1>4, <2>3 DEF LedgerInv, Turns
    <3> QED
      BY <3>1 DEF Held
  <2> QED
    BY <2>1, <2>2, <2>3
<1>5. \A q \in Requests : Request(q)'
  BY <1>3
<1> QED
  BY <1>2, <1>4, <1>5 DEF LedgerInv

\* A request at work met no other if it is known to be alone.
LEMMA StillQuiet ==
  ASSUME LedgerInv, NEW p \in Requests, lpc[p] # "idle", lalone' \subseteq lalone,
         \A q \in Requests : q # p => lpc'[q] = lpc[q]
  PROVE  LedgerQuiet'
<1> SUFFICES ASSUME NEW r \in lalone', NEW q \in Requests, q # r PROVE lpc'[q] = "idle"
  BY DEF LedgerQuiet
<1>1. r \in lalone /\ r \in Requests
  BY DEF LedgerInv, LedgerTyped
<1>2. lpc[q] = "idle"
  BY <1>1 DEF LedgerInv, LedgerQuiet
<1>3. q # p
  BY <1>2
<1> QED
  BY <1>2, <1>3

-----------------------------------------------------------------------------
(* The dated rows: reading *)

\* The accounts of a save, in some order, each once.
LEMMA ItemsAreOrdered ==
  ASSUME NEW S \in SUBSET Accounts, NEW items \in Ledger!SetToSeqs(S)
  PROVE  /\ items \in Seq(Accounts)
         /\ \A m, n \in DOMAIN items : items[m] = items[n] => m = n
<1>1. IsFiniteSet(S)
  BY LedgerAssumption, FS_Subset
<1>2. Cardinality(S) \in Nat
  BY <1>1, FS_CardinalityType
<1>3. Ledger!Cardinality(S) = Cardinality(S)
  BY DEF Ledger!Cardinality, Cardinality
<1>4. items \in [1..Cardinality(S) -> S] /\ \A m, n \in 1..Cardinality(S) : m # n => items[m] # items[n]
  BY <1>3 DEF Ledger!SetToSeqs
<1>5. items \in [1..Cardinality(S) -> Accounts] /\ DOMAIN items = 1..Cardinality(S)
  BY <1>4
<1> HIDE DEF Ledger!SetToSeqs
<1>6. items \in Seq(Accounts)
  BY <1>2, <1>5
<1> QED
  BY <1>4, <1>5, <1>6

LEMMA LedgerBeginKeeps ==
  ASSUME LedgerInv, NEW p \in Requests, NEW k, NEW items, NEW w, Ledger!Begin(p, k, items, w),
         items # <<>>,
         \/ /\ k = "save" /\ w \in Shares /\ items \in Seq(Accounts)
            /\ \A m, n \in DOMAIN items : items[m] = items[n] => m = n
         \/ k = "revoke" /\ \E g \in grants : items = <<g.id>>
  PROVE  LedgerInv'
<1>1. /\ lpc[p] = "idle" /\ lalone' = IF \E q \in Requests : lpc[q] # "idle" THEN {} ELSE {p}
      /\ lpc' = [lpc EXCEPT ![p] = "reading"] /\ kind' = [kind EXCEPT ![p] = k]
      /\ at' = [at EXCEPT ![p] = today] /\ wanted' = [wanted EXCEPT ![p] = w]
      /\ ltodo' = [ltodo EXCEPT ![p] = items]
      /\ UNCHANGED <<today, shares, grants, read, lmine>>
  BY DEF Ledger!Begin
<1>2. LedgerTyped /\ Request(p) /\ lmine[p] = {} /\ read[p] = None
  BY <1>1 DEF LedgerInv, Request, AtWork
<1>3. items \in Seq(Accounts \cup Nat) /\ k \in {"save", "revoke"} /\ today \in Nat
  <2>1. CASE k = "save"
    <3>1. items \in Seq(Accounts)
      BY <2>1
    <3> QED
      BY <2>1, <3>1, DayBounds
  <2>2. CASE k = "revoke"
    <3>1. PICK g \in grants : items = <<g.id>>
      BY <2>2
    <3>2. g.id \in Nat
      BY <1>2 DEF LedgerTyped, Grant
    <3> QED
      BY <2>2, <3>1, <3>2, DayBounds
  <2> QED
    BY <2>1, <2>2
<1>4. /\ lpc'[p] = "reading" /\ kind'[p] = k /\ at'[p] = today /\ wanted'[p] = w /\ ltodo'[p] = items
      /\ lmine'[p] = {} /\ read'[p] = None
  BY <1>1, <1>2 DEF LedgerTyped
<1>5. LedgerTyped'
  <2>1. lalone' \subseteq Requests
    BY <1>1
  <2>2. /\ lpc' \in [Requests -> {"idle", "reading", "writing", "done"}]
        /\ kind' \in [Requests -> {"save", "revoke"}] /\ at' \in [Requests -> Nat]
        /\ wanted' = [q \in Requests |-> wanted'[q]]
    BY <1>1, <1>2, <1>3 DEF LedgerTyped
  <2>3. ltodo' \in [Requests -> Seq(Accounts \cup Nat)]
    BY <1>1, <1>2, <1>3 DEF LedgerTyped
  <2> QED
    BY <1>1, <1>2, <2>1, <2>2, <2>3 DEF LedgerTyped
<1>6. Turns(p)
  BY <1>1, <1>2 DEF Turns, LedgerTyped
<1>7. LedgerQuiet'
  BY <1>1, <1>2 DEF LedgerQuiet, LedgerTyped
<1>8. Request(p)'
  <2>1. AtWork(p)'
    BY <1>1, <1>3, <1>4 DEF AtWork
  <2>2. CASE k = "save"
    <3>1. Ledger!View(p)' = shares
      <4>1. Ledger!View(p)' = Ledger!Over(shares, {})
        BY <1>1, <1>4, <2>2 DEF Ledger!View
      <4>2. Ledger!Over(shares, {}) = shares
        BY DEF Ledger!Over
      <4> QED
        BY <4>1, <4>2
    <3>2. Tidy(shares, today) /\ \A r \in shares : r.from <= today
      BY DEF LedgerInv, Tidy
    <3>3. \A n \in DOMAIN items : items[n] \in Accounts
      BY <2>2
    <3>4. Saving(p)'
      BY <1>1, <1>4, <2>2, <3>1, <3>2, <3>3 DEF Saving, SameBefore
    <3>5. SavingAlone(p)'
      BY <1>1, <1>4, <3>2 DEF SavingAlone
    <3> QED
      BY <1>4, <2>1, <2>2, <3>4, <3>5 DEF Request
  <2>3. CASE k = "revoke"
    <3>1. Len(items) = 1
      BY <2>3
    <3>2. Revoking(p)' /\ RevokingAlone(p)'
      BY <1>4, <3>1 DEF Revoking, RevokingAlone
    <3> QED
      BY <1>4, <2>1, <2>3, <3>2 DEF Request
  <2> QED
    BY <2>2, <2>3
<1>9. \A q \in Requests : Held(p, q)'
  BY <1>4 DEF Held
<1> QED
  BY <1>5, <1>6, <1>7, <1>8, <1>9, OneTurns

LEMMA LedgerBegins ==
  ASSUME LedgerInv, NEW p \in Requests, Ledger!BeginSave(p) \/ Ledger!BeginRevoke(p)
  PROVE  LedgerInv'
<1>1. CASE Ledger!BeginSave(p)
  <2>1. PICK S \in SUBSET Accounts, w \in Shares : \E items \in Ledger!SetToSeqs(S) :
          items # <<>> /\ Ledger!Begin(p, "save", items, w)
    BY <1>1 DEF Ledger!BeginSave
  <2>2. PICK items \in Ledger!SetToSeqs(S) : items # <<>> /\ Ledger!Begin(p, "save", items, w)
    BY <2>1
  <2> QED
    BY <2>2, ItemsAreOrdered, LedgerBeginKeeps
<1>2. CASE Ledger!BeginRevoke(p)
  <2>1. PICK g \in grants : Ledger!Begin(p, "revoke", <<g.id>>, None)
    BY <1>2 DEF Ledger!BeginRevoke
  <2>2. <<g.id>> # <<>>
    OBVIOUS
  <2> QED
    BY <2>1, <2>2, LedgerBeginKeeps
<1> QED
  BY <1>1, <1>2

\* What reading does to a request.
LEMMA LedgerReadKeeps ==
  ASSUME LedgerInv, NEW p \in Requests, NEW row, Ledger!Read(p, row), lpc[p] = "reading",
         (kind[p] = "save" /\ row # None) =>
           row \in Ledger!View(p) /\ row.account = Head(ltodo[p]) /\ row.to = Ledger!Forever,
         kind[p] = "revoke" => row \in grants /\ row.id = Head(ltodo[p]) /\ at[p] < row.to
  PROVE  LedgerInv'
<1>1. /\ read' = [read EXCEPT ![p] = row] /\ lpc' = [lpc EXCEPT ![p] = "writing"]
      /\ UNCHANGED <<today, shares, grants, kind, at, wanted, ltodo, lmine, lalone>>
  BY DEF Ledger!Read
<1>2. LedgerTyped /\ Request(p)
  BY DEF LedgerInv
<1>3. /\ lpc'[p] = "writing" /\ read'[p] = row /\ kind'[p] = kind[p] /\ at'[p] = at[p]
      /\ wanted'[p] = wanted[p] /\ ltodo'[p] = ltodo[p] /\ lmine'[p] = lmine[p]
  BY <1>1, <1>2 DEF LedgerTyped
<1>4. LedgerTyped'
  BY <1>1, <1>2 DEF LedgerTyped
<1>5. Turns(p)
  BY <1>1, <1>2 DEF Turns, LedgerTyped
<1>6. LedgerQuiet'
  BY <1>1, <1>2, StillQuiet DEF LedgerTyped
<1>7. Request(p)'
  <2>1. AtWork(p)'
    BY <1>1, <1>2, <1>3 DEF Request, AtWork
  <2>2. Ledger!View(p)' = Ledger!View(p)
    BY <1>1 DEF Ledger!View
  <2>3. CASE kind[p] = "save"
    <3>1. row # None => row \in Share
      BY <1>2, <2>3 DEF Request, Saving, Tidy
    <3>2. Saving(p)'
      BY <1>1, <1>2, <1>3, <2>2, <2>3, <3>1 DEF Request, Saving
    <3>3. p \in lalone => SavingAlone(p)'
      BY <1>1, <1>2, <1>3, <2>2, <2>3 DEF Request, SavingAlone, InForceFrom
    <3> QED
      BY <1>1, <1>3, <2>1, <2>3, <3>2, <3>3 DEF Request
  <2>4. CASE kind[p] = "revoke"
    <3>1. Revoking(p)'
      BY <1>1, <1>2, <1>3, <2>4 DEF Request, Revoking
    <3>2. RevokingAlone(p)'
      BY <1>1, <1>3, <2>4 DEF RevokingAlone
    <3> QED
      BY <1>3, <2>1, <2>4, <3>1, <3>2 DEF Request
  <2> QED
    BY <1>2, <2>3, <2>4 DEF LedgerTyped
<1>8. \A q \in Requests : q # p => Held(p, q)'
  BY <1>1 DEF LedgerInv, Held
<1> QED
  BY <1>4, <1>5, <1>6, <1>7, <1>8, OneTurns

LEMMA LedgerReads ==
  ASSUME LedgerInv, NEW p \in Requests, Ledger!ReadShare(p) \/ Ledger!ReadGrant(p)
  PROVE  LedgerInv'
<1>1. CASE Ledger!ReadShare(p)
  <2> DEFINE open == {r \in Ledger!View(p) : r.account = Head(ltodo[p]) /\ r.to = Ledger!Forever}
             row == IF open = {} THEN None ELSE CHOOSE r \in open : TRUE
  <2>1. lpc[p] = "reading" /\ kind[p] = "save" /\ Ledger!Read(p, row)
    BY <1>1 DEF Ledger!ReadShare
  <2>2. row # None => row \in open
    OBVIOUS
  <2>3. row # None => row \in Ledger!View(p) /\ row.account = Head(ltodo[p]) /\ row.to = Ledger!Forever
    BY <2>2
  <2> HIDE DEF row
  <2> QED
    BY <2>1, <2>3, LedgerReadKeeps
<1>2. CASE Ledger!ReadGrant(p)
  <2>1. PICK g \in grants : /\ lpc[p] = "reading" /\ kind[p] = "revoke" /\ g.id = Head(ltodo[p])
                            /\ g.to > at[p] /\ Ledger!Read(p, g)
    BY <1>2 DEF Ledger!ReadGrant
  <2>2. at[p] < g.to
    BY <2>1 DEF LedgerInv, LedgerTyped, Grant
  <2> QED
    BY <2>1, <2>2, LedgerReadKeeps
<1> QED
  BY <1>1, <1>2

-----------------------------------------------------------------------------
(* The dated rows: writing *)

\* What is left of a sequence without its first element.
LEMMA TailOf ==
  ASSUME NEW S, NEW t \in Seq(S), t # <<>>
  PROVE  /\ Tail(t) \in Seq(S) /\ 1 \in DOMAIN t /\ Head(t) = t[1]
         /\ \A n \in DOMAIN Tail(t) : n \in Nat /\ n + 1 \in DOMAIN t /\ n + 1 # 1 /\ Tail(t)[n] = t[n + 1]
         /\ Len(t) # 1 => Tail(t) # <<>>
<1>1. Len(t) \in Nat \ {0} /\ DOMAIN t = 1..Len(t)
  OBVIOUS
<1>2. /\ Tail(t) \in Seq(S) /\ Len(Tail(t)) = Len(t) - 1 /\ DOMAIN Tail(t) = 1..(Len(t) - 1)
      /\ \A n \in 1..(Len(t) - 1) : Tail(t)[n] = t[n + 1]
  BY <1>1
<1>3. Len(t) # 1 => Tail(t) # <<>>
  <2> SUFFICES ASSUME Tail(t) = <<>> PROVE Len(t) = 1
    OBVIOUS
  <2>1. Len(<<>>) = 0
    OBVIOUS
  <2>2. Len(Tail(t)) = 0
    BY <2>1, Zenon
  <2>3. Len(t) - 1 = 0
    BY <1>2, <2>2
  <2>4. \A n \in Nat : n - 1 = 0 => n = 1
    OBVIOUS
  <2>5. Len(t) \in Nat
    BY <1>1
  <2> QED
    BY <2>3, <2>4, <2>5, Zenon
<1>4. \A n \in DOMAIN Tail(t) : n \in Nat /\ n + 1 \in DOMAIN t /\ n + 1 # 1
  BY <1>1, <1>2
<1>5. 1 \in DOMAIN t /\ Head(t) = t[1]
  BY <1>1
<1> QED
  BY <1>2, <1>3, <1>4, <1>5

\* A write changes what one request has to do and has done, and nothing of the others.
LEMMA WriteTurns ==
  ASSUME LedgerInv, NEW p \in Requests, NEW rows, Ledger!Write(p, rows), lpc[p] = "writing",
         NEW over, over = Ledger!Over(lmine[p], rows)
  PROVE  /\ Turns(p) /\ LedgerTyped' /\ LedgerQuiet' /\ AtWork(p)'
         /\ lmine'[p] = over /\ ltodo'[p] = Tail(ltodo[p]) /\ read'[p] = None
         /\ lpc'[p] = IF Len(ltodo[p]) = 1 THEN "done" ELSE "reading"
         /\ kind' = kind /\ at' = at /\ wanted' = wanted /\ lalone' = lalone
         /\ shares' = shares /\ grants' = grants /\ today' = today
<1>1. /\ lmine' = [lmine EXCEPT ![p] = Ledger!Over(lmine[p], rows)]
      /\ ltodo' = [ltodo EXCEPT ![p] = Tail(ltodo[p])]
      /\ lpc' = [lpc EXCEPT ![p] = IF Len(ltodo[p]) = 1 THEN "done" ELSE "reading"]
      /\ read' = [read EXCEPT ![p] = None]
      /\ UNCHANGED <<today, shares, grants, kind, at, wanted, lbegun, lalone>>
  BY DEF Ledger!Write
<1>2. LedgerTyped /\ Request(p)
  BY DEF LedgerInv
<1>3. ltodo[p] \in Seq(Accounts \cup Nat) /\ ltodo[p] # <<>>
  BY <1>2 DEF LedgerTyped, Request, AtWork
<1>4. Tail(ltodo[p]) \in Seq(Accounts \cup Nat) /\ (Len(ltodo[p]) # 1 => Tail(ltodo[p]) # <<>>)
  BY <1>3, TailOf
<1>5. /\ lmine'[p] = over /\ ltodo'[p] = Tail(ltodo[p]) /\ read'[p] = None
      /\ lpc'[p] = IF Len(ltodo[p]) = 1 THEN "done" ELSE "reading"
  BY <1>1, <1>2 DEF LedgerTyped
<1>6. LedgerTyped'
  <2>1. lpc' \in [Requests -> {"idle", "reading", "writing", "done"}]
    BY <1>1, <1>2 DEF LedgerTyped
  <2>2. ltodo' \in [Requests -> Seq(Accounts \cup Nat)]
    BY <1>1, <1>2, <1>4 DEF LedgerTyped
  <2>3. read' = [q \in Requests |-> read'[q]] /\ lmine' = [q \in Requests |-> lmine'[q]]
    BY <1>1, <1>2 DEF LedgerTyped
  <2> QED
    BY <1>1, <1>2, <2>1, <2>2, <2>3 DEF LedgerTyped
<1>7. Turns(p)
  BY <1>1, <1>2 DEF Turns, LedgerTyped
<1>8. LedgerQuiet'
  <2>1. \A q \in Requests : q # p => lpc'[q] = lpc[q]
    BY <1>7 DEF Turns
  <2> QED
    BY <1>1, <2>1, StillQuiet
<1>9. AtWork(p)'
  <2>1. at'[p] <= today'
    BY <1>1, <1>2 DEF Request, AtWork
  <2> QED
    BY <1>4, <1>5, <2>1 DEF AtWork
<1> QED
  BY <1>1, <1>5, <1>6, <1>7, <1>8, <1>9

\* A save that has written the rows of an account.
LEMMA SaveWrites ==
  ASSUME LedgerInv, NEW p \in Requests, lpc[p] = "writing", kind[p] = "save",
         NEW rows, rows \subseteq Share, \A r \in rows : r.account = Head(ltodo[p]),
         Ledger!Write(p, rows), rows # {} => Ledger!Free(p),
         NEW V, V = Ledger!View(p), Tidy(Put(V, rows), today), SameBefore(Put(V, rows), V, at[p]),
         (p \in lalone /\ rows # {}) => \E r \in Put(V, rows) : InForceFrom(r, Head(ltodo[p]), p)
  PROVE  LedgerInv'
<1>1. Request(p) /\ LedgerTyped /\ Saving(p) /\ (p \in lalone => SavingAlone(p))
  BY DEF LedgerInv, Request
<1> DEFINE M == lmine[p]
           t == ltodo[p]
<1>2. M \subseteq Share /\ Ledger!Over(M, rows) = Put(M, rows)
  BY <1>1, OverIsPut DEF Saving
<1>3. /\ Turns(p) /\ LedgerTyped' /\ LedgerQuiet' /\ AtWork(p)'
      /\ lmine'[p] = Put(M, rows) /\ ltodo'[p] = Tail(t) /\ read'[p] = None
      /\ lpc'[p] \in {"reading", "done"}
      /\ kind' = kind /\ at' = at /\ wanted' = wanted /\ lalone' = lalone
      /\ shares' = shares /\ grants' = grants /\ today' = today
  BY <1>2, WriteTurns
<1>4. t \in Seq(Accounts \cup Nat) /\ t # <<>>
  BY <1>1 DEF LedgerTyped, Request, AtWork
<1>5. /\ 1 \in DOMAIN t /\ Head(t) = t[1]
      /\ \A n \in DOMAIN Tail(t) : n + 1 \in DOMAIN t /\ n \in Nat /\ n + 1 # 1 /\ Tail(t)[n] = t[n + 1]
  BY <1>4, TailOf
<1>6. V = Put(shares, M)
  BY ViewIsPut
<1>7. Ledger!View(p)' = Put(V, rows)
  <2>1. Put(M, rows) \subseteq Share /\ shares \subseteq Share
    BY <1>1, <1>2 DEF Put, LedgerTyped
  <2>2. Ledger!View(p)' = Ledger!Over(shares, Put(M, rows))
    BY <1>3 DEF Ledger!View
  <2> QED
    BY <1>6, <2>1, <2>2, OverIsPut, PutTwice
<1> DEFINE P == Put(V, rows)
<1> HIDE DEF P
<1>8. Saving(p)'
  <2>1. wanted'[p] \in Shares /\ lmine'[p] \subseteq Share
    BY <1>1, <1>2, <1>3 DEF Saving, Put
  <2>2. ASSUME NEW n \in DOMAIN Tail(t)
        PROVE  Tail(t)[n] \in Accounts /\ \A m \in Put(M, rows) : m.account # Tail(t)[n]
    <3>1. n + 1 \in DOMAIN t /\ n + 1 # 1 /\ Tail(t)[n] = t[n + 1] /\ 1 \in DOMAIN t /\ Head(t) = t[1]
      BY <1>5
    <3>2. t[n + 1] \in Accounts /\ (\A m \in M : m.account # t[n + 1]) /\ t[n + 1] # t[1]
      BY <1>1, <3>1 DEF Saving
    <3> QED
      BY <3>1, <3>2 DEF Put
  <2>3. ASSUME NEW m \in DOMAIN Tail(t), NEW n \in DOMAIN Tail(t), Tail(t)[m] = Tail(t)[n] PROVE m = n
    <3>1. m + 1 \in DOMAIN t /\ n + 1 \in DOMAIN t /\ t[m + 1] = t[n + 1] /\ m \in Nat /\ n \in Nat
      BY <1>5, <2>3
    <3>2. m + 1 = n + 1
      BY <1>1, <3>1 DEF Saving
    <3> QED
      BY <3>1, <3>2
  <2>4. Tidy(Ledger!View(p)', today')
    BY <1>3, <1>7
  <2>5. SameBefore(Ledger!View(p)', shares', at'[p])
    BY <1>1, <1>3, <1>7 DEF Saving, SameBefore
  <2> QED
    BY <1>3, <2>1, <2>2, <2>3, <2>4, <2>5 DEF Saving
<1>9. p \in lalone => SavingAlone(p)'
  <2> SUFFICES ASSUME p \in lalone PROVE SavingAlone(p)'
    OBVIOUS
  <2>1. \A r \in shares' : r.from <= at'[p]
    BY <1>1, <1>3 DEF SavingAlone
  <2>2. ASSUME NEW m \in Put(M, rows) PROVE \E r \in Put(V, rows) : InForceFrom(r, m.account, p)
    <3>1. CASE m \in rows
      BY <3>1
    <3>2. CASE m \in M
      <4>1. PICK r \in V : InForceFrom(r, m.account, p)
        BY <1>1, <3>2 DEF SavingAlone
      <4>2. m.account # Head(t)
        BY <1>1, <1>5, <3>2 DEF Saving
      <4>3. r \in Put(V, rows)
        BY <4>1, <4>2 DEF Put, InForceFrom
      <4> QED
        BY <4>1, <4>3
    <3> QED
      BY <3>1, <3>2 DEF Put
  <2>3. \A m \in lmine'[p] : \E r \in Ledger!View(p)' : InForceFrom(r, m.account, p)'
    BY <1>3, <1>7, <2>2 DEF InForceFrom
  <2> QED
    BY <1>3, <2>1, <2>3 DEF SavingAlone
<1>10. Request(p)'
  BY <1>3, <1>8, <1>9 DEF Request
<1>11. ASSUME NEW q \in Requests, q # p PROVE Held(p, q)'
  <2> SUFFICES ASSUME kind[q] = "save", NEW m \in Put(M, rows), NEW n \in lmine[q]
               PROVE  m.account # n.account
    <3>1. lmine'[q] = lmine[q]
      BY <1>3, <1>11 DEF Turns
    <3> QED
      BY <1>3, <3>1 DEF Held
  <2>1. CASE m \in M
    BY <1>11, <2>1 DEF LedgerInv, Held
  <2>2. CASE m \in rows
    <3>1. Ledger!Free(p)
      BY <2>2
    <3> QED
      BY <1>11, <2>2, <3>1 DEF Ledger!Free
  <2> QED
    BY <2>1, <2>2 DEF Put
<1> QED
  BY <1>3, <1>10, <1>11, OneTurns

\* What a save that writes goes by.
LEMMA SaveKnows ==
  ASSUME LedgerInv, NEW p \in Requests, lpc[p] = "writing", kind[p] = "save"
  PROVE  /\ Saving(p) /\ (p \in lalone => SavingAlone(p))
         /\ at[p] \in Nat /\ at[p] <= today /\ wanted[p] \in Shares /\ today \in Nat
         /\ Head(ltodo[p]) \in Accounts /\ \A m \in lmine[p] : m.account # Head(ltodo[p])
         /\ Tidy(Ledger!View(p), today) /\ Ledger!View(p) \subseteq Share
<1>1. Request(p) /\ LedgerTyped /\ Saving(p) /\ (p \in lalone => SavingAlone(p))
  BY DEF LedgerInv, Request
<1>2. 1 \in DOMAIN ltodo[p] /\ Head(ltodo[p]) = ltodo[p][1]
  <2>1. ltodo[p] \in Seq(Accounts \cup Nat) /\ ltodo[p] # <<>>
    BY <1>1 DEF LedgerTyped, Request, AtWork
  <2> QED
    BY <2>1, TailOf
<1>3. Head(ltodo[p]) \in Accounts /\ \A m \in lmine[p] : m.account # Head(ltodo[p])
  BY <1>1, <1>2 DEF Saving
<1>4. at[p] \in Nat /\ at[p] <= today /\ today \in Nat
  BY <1>1, DayBounds DEF LedgerTyped, Request, AtWork
<1> QED
  BY <1>1, <1>3, <1>4 DEF Saving, Tidy

\* The row that was read, as it is by now.
LEMMA CurrentIs ==
  ASSUME LedgerInv, NEW p \in Requests, lpc[p] = "writing", kind[p] = "save", read[p] # None,
         NEW c, c = Ledger!Current(p)
  PROVE  /\ c \in Ledger!View(p) /\ c.account = Head(ltodo[p]) /\ c.from = read[p].from
         /\ p \in lalone => c = read[p] /\ c.to = Ledger!Forever /\ c.from <= at[p]
<1>1. /\ Saving(p) /\ (p \in lalone => SavingAlone(p))
      /\ \A m \in lmine[p] : m.account # Head(ltodo[p])
      /\ Tidy(Ledger!View(p), today) /\ Ledger!View(p) \subseteq Share
  BY SaveKnows
<1>2. \A r \in Ledger!View(p) :
        Ledger!SameRow(r, read[p]) <=> (r.account = read[p].account /\ r.from = read[p].from)
  <2>1. \A r \in Share : "id" \notin DOMAIN r
    BY DEF Share
  <2> QED
    BY <1>1, <2>1 DEF Ledger!SameRow
<1>3. \E r \in Ledger!View(p) : Ledger!SameRow(r, read[p])
  BY <1>1, <1>2 DEF Saving
<1>4. c \in Ledger!View(p) /\ Ledger!SameRow(c, read[p])
  BY <1>3 DEF Ledger!Current
<1>5. c.account = read[p].account /\ c.from = read[p].from /\ read[p].account = Head(ltodo[p])
  BY <1>1, <1>2, <1>4 DEF Saving
<1>6. ASSUME p \in lalone PROVE c = read[p] /\ c.to = Ledger!Forever /\ c.from <= at[p]
  <2>1. read[p] \in Ledger!View(p) /\ read[p].to = Ledger!Forever
    BY <1>1, <1>6 DEF SavingAlone
  <2>2. c = read[p]
    BY <1>1, <1>4, <1>5, <2>1, OneRow
  <2>3. c \in shares
    BY <1>1, <1>4, <1>5, ViewIsPut DEF Put
  <2> QED
    BY <1>1, <1>6, <2>1, <2>2, <2>3 DEF SavingAlone
<1> QED
  BY <1>4, <1>5, <1>6

LEMMA KeepKeeps ==
  ASSUME LedgerInv, NEW p \in Requests, Ledger!KeepShare(p)
  PROVE  LedgerInv'
<1>1. lpc[p] = "writing" /\ kind[p] = "save" /\ Ledger!Write(p, {})
  BY DEF Ledger!KeepShare
<1>2. Put(Ledger!View(p), {}) = Ledger!View(p)
  BY DEF Put
<1>3. Tidy(Ledger!View(p), today) /\ SameBefore(Ledger!View(p), Ledger!View(p), at[p])
  BY <1>1, SaveKnows DEF SameBefore
<1> QED
  BY <1>1, <1>2, <1>3, SaveWrites

LEMMA CorrectShareKeeps ==
  ASSUME LedgerInv, NEW p \in Requests, Ledger!CorrectShare(p)
  PROVE  LedgerInv'
<1> DEFINE V == Ledger!View(p)
           c == Ledger!Current(p)
           new == [c EXCEPT !.share = wanted[p]]
<1>1. /\ lpc[p] = "writing" /\ kind[p] = "save" /\ Ledger!Free(p) /\ read[p] # None
      /\ read[p].from >= at[p] /\ Ledger!Write(p, {new})
  BY DEF Ledger!CorrectShare
<1>2. /\ at[p] \in Nat /\ at[p] <= today /\ wanted[p] \in Shares /\ today \in Nat
      /\ Tidy(V, today) /\ V \subseteq Share
  BY <1>1, SaveKnows
<1>3. /\ c \in V /\ c.account = Head(ltodo[p]) /\ c.from = read[p].from
      /\ p \in lalone => c = read[p] /\ c.to = Ledger!Forever /\ c.from <= at[p]
  BY <1>1, CurrentIs
<1> HIDE DEF V, c
<1>4. c \in Share
  BY <1>2, <1>3
<1>5. at[p] <= c.from
  BY <1>1, <1>2, <1>3, <1>4 DEF Share
<1>6. Tidy(Put(V, {new}), today) /\ SameBefore(Put(V, {new}), V, at[p])
  BY <1>2, <1>3, <1>5, Corrects
<1>7. /\ new \in Share /\ new.account = c.account /\ new.from = c.from /\ new.to = c.to
      /\ new.share = wanted[p]
  BY <1>2, <1>4 DEF Share
<1> HIDE DEF new
<1>8. p \in lalone => \E r \in Put(V, {new}) : InForceFrom(r, Head(ltodo[p]), p)
  <2> SUFFICES ASSUME p \in lalone PROVE InForceFrom(new, Head(ltodo[p]), p)
    BY DEF Put
  <2>1. c.from = at[p]
    BY <1>2, <1>3, <1>4, <1>5 DEF Share
  <2> QED
    BY <1>3, <1>7, <2>1 DEF InForceFrom
<1> QED
  BY <1>1, <1>3, <1>6, <1>7, <1>8, SaveWrites DEF V

\* The row a save opens.
LEMMA NewIs ==
  ASSUME LedgerInv, NEW p \in Requests, lpc[p] = "writing", kind[p] = "save", Ledger!IsNew(p)
  PROVE  /\ Ledger!New(p) = Opening(Head(ltodo[p]), wanted[p], at[p])
         /\ Ledger!New(p) \in Share /\ Ledger!New(p).account = Head(ltodo[p])
         /\ InForceFrom(Ledger!New(p), Head(ltodo[p]), p)
         /\ \A r \in Ledger!View(p) : ~(r.account = Head(ltodo[p]) /\ r.from = at[p])
<1>1. /\ at[p] \in Nat /\ wanted[p] \in Shares /\ Ledger!View(p) \subseteq Share
      /\ Head(ltodo[p]) \in Accounts
  BY SaveKnows
<1>2. Ledger!New(p) = Opening(Head(ltodo[p]), wanted[p], at[p])
  BY DEF Ledger!New, Opening
<1>3. /\ Ledger!New(p) \in Share /\ Ledger!New(p).account = Head(ltodo[p])
      /\ Ledger!New(p).from = at[p] /\ Ledger!New(p).to = Ledger!Forever /\ Ledger!New(p).share = wanted[p]
  BY <1>1, <1>2, DayBounds DEF Opening, Share
<1>4. \A r \in Share : "id" \notin DOMAIN r
  BY DEF Share
<1>5. \A r \in Ledger!View(p) : ~(r.account = Head(ltodo[p]) /\ r.from = at[p])
  BY <1>1, <1>3, <1>4 DEF Ledger!IsNew, Ledger!SameRow
<1> QED
  BY <1>2, <1>3, <1>5 DEF InForceFrom

LEMMA CloseShareKeeps ==
  ASSUME LedgerInv, NEW p \in Requests, Ledger!CloseShare(p)
  PROVE  LedgerInv'
<1> DEFINE V == Ledger!View(p)
           c == Ledger!Current(p)
           closed == [c EXCEPT !.to = at[p]]
           new == Ledger!New(p)
           a == Head(ltodo[p])
<1>1. /\ lpc[p] = "writing" /\ kind[p] = "save" /\ Ledger!Free(p) /\ read[p] # None
      /\ read[p].from < at[p] /\ Ledger!IsNew(p)
      /\ Ledger!Allowed(Ledger!Over(V, {closed, new})) /\ Ledger!Write(p, {closed, new})
  BY DEF Ledger!CloseShare
<1>2. /\ at[p] \in Nat /\ at[p] <= today /\ wanted[p] \in Shares /\ today \in Nat
      /\ Tidy(V, today) /\ V \subseteq Share
  BY <1>1, SaveKnows
<1>3. c \in V /\ c.account = a /\ c.from = read[p].from
  BY <1>1, CurrentIs
<1>4. /\ new = Opening(a, wanted[p], at[p]) /\ new \in Share /\ new.account = a
      /\ InForceFrom(new, a, p) /\ \A r \in V : ~(r.account = a /\ r.from = at[p])
  BY <1>1, NewIs
<1>5. Ledger!Over(V, {closed, new}) = Put(V, {closed, new})
  BY <1>2, OverIsPut
<1> HIDE DEF V, c, new, a
<1>6. c \in Share /\ c.from < at[p]
  BY <1>1, <1>2, <1>3
<1>7. closed \in Share /\ closed.account = a
  BY <1>2, <1>3, <1>6 DEF Share
<1> HIDE DEF closed
<1>8. Ledger!Forever \in Nat /\ today < Ledger!Forever /\ Ledger!Allowed(Put(V, {closed, new}))
  BY <1>1, <1>5, DayBounds
<1>9. Tidy(Put(V, {closed, new}), today) /\ SameBefore(Put(V, {closed, new}), V, at[p])
  <2>1. closed = [c EXCEPT !.to = at[p]] /\ new = Opening(c.account, wanted[p], at[p])
    BY <1>3, <1>4 DEF closed
  <2>2. \A r \in V : ~(r.account = c.account /\ r.from = at[p])
    BY <1>3, <1>4
  <2> QED
    BY <1>2, <1>3, <1>6, <1>8, <2>1, <2>2, Closes
<1>10. \E r \in Put(V, {closed, new}) : InForceFrom(r, a, p)
  BY <1>4 DEF Put
<1> QED
  BY <1>1, <1>4, <1>7, <1>9, <1>10, SaveWrites DEF V, a

LEMMA OpenShareKeeps ==
  ASSUME LedgerInv, NEW p \in Requests, Ledger!OpenShare(p)
  PROVE  LedgerInv'
<1> DEFINE V == Ledger!View(p)
           new == Ledger!New(p)
           a == Head(ltodo[p])
<1>1. /\ lpc[p] = "writing" /\ kind[p] = "save" /\ Ledger!Free(p) /\ Ledger!IsNew(p)
      /\ Ledger!Allowed(V \cup {new}) /\ Ledger!Write(p, {new})
  BY DEF Ledger!OpenShare
<1>2. /\ at[p] \in Nat /\ at[p] <= today /\ wanted[p] \in Shares /\ today \in Nat
      /\ Tidy(V, today) /\ a \in Accounts
  BY <1>1, SaveKnows
<1>3. /\ new = Opening(a, wanted[p], at[p]) /\ new \in Share /\ new.account = a
      /\ InForceFrom(new, a, p) /\ \A r \in V : ~(r.account = a /\ r.from = at[p])
  BY <1>1, NewIs
<1> HIDE DEF V, new, a
<1>4. Tidy(Put(V, {new}), today) /\ SameBefore(Put(V, {new}), V, at[p])
  BY <1>1, <1>2, <1>3, Opens, DayBounds
<1>5. \E r \in Put(V, {new}) : InForceFrom(r, a, p)
  BY <1>3 DEF Put
<1> QED
  BY <1>1, <1>3, <1>4, <1>5, SaveWrites DEF V, a

\* A grant is closed.
LEMMA CloseGrantKeeps ==
  ASSUME LedgerInv, NEW p \in Requests, Ledger!CloseGrant(p)
  PROVE  LedgerInv'
<1> DEFINE a == Head(ltodo[p])
           g == CHOOSE x \in grants : x.id = a
           h == [g EXCEPT !.to = at[p]]
<1>1. /\ lpc[p] = "writing" /\ kind[p] = "revoke" /\ Ledger!Free(p) /\ read[p].from <= at[p]
      /\ Ledger!Write(p, {h})
  BY DEF Ledger!CloseGrant
<1>2. LedgerTyped /\ Numbered /\ Revoking(p) /\ (p \in lalone => RevokingAlone(p))
  BY <1>1 DEF LedgerInv, Request
<1>3. PICK x \in grants : x.id = a /\ x.from = read[p].from
  BY <1>1, <1>2 DEF Revoking
<1>4. g = x
  <2>1. \E y \in grants : y.id = a
    BY <1>3
  <2>2. g \in grants /\ g.id = a
    BY <2>1
  <2> QED
    BY <1>2, <1>3, <2>2 DEF Numbered
<1> HIDE DEF a, g
<1>5. x \in Grant /\ at[p] \in Nat
  BY <1>2, <1>3 DEF LedgerTyped
<1>6. h \in Grant /\ h.id = a /\ h.from = x.from /\ h.to = at[p] /\ h.from <= h.to
  BY <1>1, <1>3, <1>4, <1>5 DEF Grant
<1>7. h = [x EXCEPT !.to = at[p]]
  BY <1>4
<1> HIDE DEF h
<1>8. Ledger!Over(lmine[p], {h}) = {h}
  <2>1. lmine[p] = {}
    BY <1>1, <1>2 DEF Revoking
  <2> QED
    BY <2>1 DEF Ledger!Over
<1>9. Len(ltodo[p]) = 1
  BY <1>1, <1>2 DEF Revoking
<1>10. /\ Turns(p) /\ LedgerTyped' /\ LedgerQuiet' /\ AtWork(p)'
       /\ lmine'[p] = {h} /\ lpc'[p] = "done"
       /\ kind' = kind /\ at' = at /\ lalone' = lalone /\ grants' = grants
  BY <1>1, <1>8, <1>9, WriteTurns
<1>11. Revoking(p)'
  BY <1>3, <1>6, <1>10 DEF Revoking
<1>12. p \in lalone => RevokingAlone(p)'
  <2> SUFFICES ASSUME p \in lalone PROVE RevokingAlone(p)'
    OBVIOUS
  <2>1. read[p] \in grants /\ read[p].id = Head(ltodo[p]) /\ at[p] < read[p].to
    BY <1>1, <1>2 DEF RevokingAlone
  <2>2. read[p] = x
    BY <1>2, <1>3, <2>1 DEF Numbered, a
  <2>3. x \in grants /\ x.from <= at[p] /\ at[p] < x.to /\ {h} = {[x EXCEPT !.to = at[p]]}
    BY <1>1, <1>3, <1>7, <2>1, <2>2
  <2> QED
    BY <1>10, <2>3 DEF RevokingAlone
<1>13. Request(p)'
  BY <1>1, <1>10, <1>11, <1>12 DEF Request
<1>14. ASSUME NEW q \in Requests, q # p PROVE Held(p, q)'
  <2>1. lmine'[q] = lmine[q]
    BY <1>10, <1>14 DEF Turns
  <2>2. kind[q] = kind[p] => \A m \in lmine[q] : m.id # a
    BY <1>1, <1>14 DEF Ledger!Free, a
  <2> QED
    BY <1>1, <1>6, <1>10, <2>1, <2>2 DEF Held
<1> QED
  BY <1>10, <1>13, <1>14, OneTurns

-----------------------------------------------------------------------------
(* The dated rows: days, grants, and the end of a request *)

LEMMA TidyLater ==
  ASSUME NEW rows, NEW day \in Nat, NEW later \in Nat, day <= later, Tidy(rows, day)
  PROVE  Tidy(rows, later)
<1>1. \A r \in rows : r.from <= later
  BY DEF Tidy, Share
<1> QED
  BY <1>1 DEF Tidy

LEMMA TickKeeps == LedgerInv /\ Ledger!Tick => LedgerInv'
<1> SUFFICES ASSUME LedgerInv, Ledger!Tick PROVE LedgerInv'
  OBVIOUS
<1>1. /\ today < LastDay /\ today' = today + 1
      /\ UNCHANGED <<shares, grants, lpc, kind, at, wanted, ltodo, read, lmine, lbegun, lalone>>
  BY DEF Ledger!Tick
<1>2. LedgerTyped /\ today \in Nat /\ today' \in Nat /\ today <= today'
  BY <1>1, DayBounds DEF LedgerInv
<1>3. LedgerTyped'
  <2>1. today' \in 1..LastDay
    BY <1>1, <1>2, LedgerAssumption DEF LedgerTyped
  <2> QED
    BY <1>1, <1>2, <2>1 DEF LedgerTyped
<1>4. \A rows : Tidy(rows, today) => Tidy(rows, today')
  BY <1>2, TidyLater
<1>5. Tidy(shares, today)' /\ Numbered' /\ LedgerQuiet'
  BY <1>1, <1>4 DEF LedgerInv, Numbered, LedgerQuiet
<1>6. ASSUME NEW p \in Requests PROVE Request(p)'
  <2>1. Request(p) /\ Ledger!View(p)' = Ledger!View(p)
    BY <1>1 DEF LedgerInv, Ledger!View
  <2>2. AtWork(p)'
    <3>1. at'[p] <= today'
      BY <1>1, <1>2, <2>1 DEF LedgerTyped, Request, AtWork
    <3> QED
      BY <1>1, <2>1, <3>1 DEF Request, AtWork
  <2>3. Tidy(Ledger!View(p), today) => Tidy(Ledger!View(p)', today')
    BY <1>4, <2>1
  <2>4. Saving(p) => Saving(p)'
    BY <1>1, <2>1, <2>3 DEF Saving
  <2>5. SavingAlone(p) => SavingAlone(p)'
    BY <1>1, <2>1 DEF SavingAlone, InForceFrom
  <2>6. (Revoking(p) => Revoking(p)') /\ (RevokingAlone(p) => RevokingAlone(p)')
    BY <1>1 DEF Revoking, RevokingAlone
  <2> QED
    BY <1>1, <2>1, <2>2, <2>4, <2>5, <2>6 DEF Request
<1>7. ASSUME NEW p \in Requests, NEW q \in Requests, p # q PROVE Held(p, q)'
  BY <1>1, <1>7 DEF LedgerInv, Held
<1> QED
  BY <1>3, <1>5, <1>6, <1>7 DEF LedgerInv

LEMMA CreateGrantKeeps == LedgerInv /\ Ledger!CreateGrant => LedgerInv'
<1> SUFFICES ASSUME LedgerInv, Ledger!CreateGrant PROVE LedgerInv'
  OBVIOUS
<1>1. LedgerTyped /\ Numbered /\ IsFiniteSet(grants) /\ grants \subseteq Grant
  BY DEF LedgerInv, LedgerTyped
<1>2. Ledger!Cardinality(grants) = Cardinality(grants)
  BY DEF Ledger!Cardinality, Cardinality
<1>3. PICK t \in Terms :
        /\ t[1] <= t[2]
        /\ grants' = grants \cup {[id |-> Cardinality(grants) + 1, from |-> t[1], to |-> t[2]]}
  BY <1>2 DEF Ledger!CreateGrant
<1> DEFINE n == Cardinality(grants)
           g == [id |-> n + 1, from |-> t[1], to |-> t[2]]
<1>4. UNCHANGED <<today, shares, lpc, kind, at, wanted, ltodo, read, lmine, lbegun, lalone>>
  BY DEF Ledger!CreateGrant
<1>5. n \in Nat
  BY <1>1, FS_CardinalityType
<1> HIDE DEF n
<1>6. g \in Grant /\ g.id = n + 1 /\ g.from <= g.to
  BY <1>3, <1>5, LedgerAssumption DEF Grant
<1>7. \A x \in grants : x.id \in 1..n /\ x.id # n + 1 /\ x.from <= x.to
  BY <1>1, <1>5 DEF Numbered, n
<1>8. grants' = grants \cup {g}
  BY <1>3 DEF n
<1> HIDE DEF g
<1>9. g \notin grants
  BY <1>6, <1>7
<1>10. IsFiniteSet(grants') /\ Cardinality(grants') = n + 1
  BY <1>1, <1>8, <1>9, FS_AddElement DEF n
<1>11. LedgerTyped'
  BY <1>1, <1>4, <1>6, <1>8, <1>10 DEF LedgerTyped
<1>12. Numbered'
  <2>1. \A x \in grants' : x.id \in 1..(n + 1) /\ x.from <= x.to
    BY <1>5, <1>6, <1>7, <1>8
  <2>2. \A x, y \in grants' : x.id = y.id => x = y
    BY <1>1, <1>6, <1>7, <1>8 DEF Numbered
  <2> QED
    BY <1>10, <2>1, <2>2 DEF Numbered
<1>13. Tidy(shares, today)' /\ LedgerQuiet'
  BY <1>4 DEF LedgerInv, LedgerQuiet
<1>14. ASSUME NEW p \in Requests PROVE Request(p)'
  <2>1. Request(p) /\ Ledger!View(p)' = Ledger!View(p)
    BY <1>4 DEF LedgerInv, Ledger!View
  <2>2. AtWork(p)'
    BY <1>4, <2>1 DEF Request, AtWork
  <2>3. (Saving(p) => Saving(p)') /\ (SavingAlone(p) => SavingAlone(p)')
    BY <1>4, <2>1 DEF Saving, SavingAlone, InForceFrom
  <2>4. (Revoking(p) => Revoking(p)') /\ (RevokingAlone(p) => RevokingAlone(p)')
    BY <1>4, <1>8 DEF Revoking, RevokingAlone
  <2> QED
    BY <1>4, <2>1, <2>2, <2>3, <2>4 DEF Request
<1>15. ASSUME NEW p \in Requests, NEW q \in Requests, p # q PROVE Held(p, q)'
  BY <1>4, <1>15 DEF LedgerInv, Held
<1> QED
  BY <1>11, <1>12, <1>13, <1>14, <1>15 DEF LedgerInv

\* A request that ends leaves nothing, and the others as they are.
LEMMA LedgerEnded ==
  ASSUME LedgerInv, NEW p \in Requests, Ledger!End(p), lpc[p] # "idle",
         shares' \subseteq Share, grants' \subseteq Grant, IsFiniteSet(grants')
  PROVE  /\ LedgerTyped' /\ LedgerQuiet' /\ Request(p)' /\ today' = today
         /\ \A q \in Requests : q # p => Held(p, q)'
         /\ \A q \in Requests \ {p} :
              /\ lpc'[q] = lpc[q] /\ kind'[q] = kind[q] /\ at'[q] = at[q] /\ wanted'[q] = wanted[q]
              /\ ltodo'[q] = ltodo[q] /\ read'[q] = read[q] /\ lmine'[q] = lmine[q]
              /\ q \in lalone' => q \in lalone
<1>1. /\ lpc' = [lpc EXCEPT ![p] = "idle"] /\ kind' = [kind EXCEPT ![p] = "save"]
      /\ at' = [at EXCEPT ![p] = 0] /\ wanted' = [wanted EXCEPT ![p] = None]
      /\ ltodo' = [ltodo EXCEPT ![p] = <<>>] /\ read' = [read EXCEPT ![p] = None]
      /\ lmine' = [lmine EXCEPT ![p] = {}] /\ lalone' = lalone \ {p}
      /\ today' = today
  BY DEF Ledger!End
<1>2. LedgerTyped /\ today \in Nat
  BY DayBounds DEF LedgerInv
<1>3. LedgerTyped'
  <2>1. <<>> \in Seq(Accounts \cup Nat)
    OBVIOUS
  <2>2. ltodo' \in [Requests -> Seq(Accounts \cup Nat)]
    BY <1>1, <1>2, <2>1 DEF LedgerTyped
  <2>3. /\ wanted' = [q \in Requests |-> wanted'[q]] /\ read' = [q \in Requests |-> read'[q]]
        /\ lmine' = [q \in Requests |-> lmine'[q]]
    BY <1>1, <1>2 DEF LedgerTyped
  <2> QED
    BY <1>1, <1>2, <2>2, <2>3 DEF LedgerTyped
<1>4. \A q \in Requests \ {p} :
        /\ lpc'[q] = lpc[q] /\ kind'[q] = kind[q] /\ at'[q] = at[q] /\ wanted'[q] = wanted[q]
        /\ ltodo'[q] = ltodo[q] /\ read'[q] = read[q] /\ lmine'[q] = lmine[q]
        /\ q \in lalone' => q \in lalone
  BY <1>1, <1>2 DEF LedgerTyped
<1>5. LedgerQuiet'
  BY <1>1, <1>4, StillQuiet
<1>6. /\ lpc'[p] = "idle" /\ kind'[p] = "save" /\ at'[p] = 0 /\ lmine'[p] = {} /\ read'[p] = None
  BY <1>1, <1>2 DEF LedgerTyped
<1>7. Request(p)'
  BY <1>1, <1>2, <1>6 DEF Request, AtWork
<1>8. \A q \in Requests : Held(p, q)'
  BY <1>6 DEF Held
<1> QED
  BY <1>1, <1>3, <1>4, <1>5, <1>7, <1>8

LEMMA LedgerFailKeeps ==
  ASSUME LedgerInv, NEW p \in Requests, Ledger!Fail(p)
  PROVE  LedgerInv'
<1>1. lpc[p] # "idle" /\ Ledger!End(p) /\ shares' = shares /\ grants' = grants
  BY DEF Ledger!Fail
<1>2. shares' \subseteq Share /\ grants' \subseteq Grant /\ IsFiniteSet(grants')
  BY <1>1 DEF LedgerInv, LedgerTyped
<1>3. /\ LedgerTyped' /\ LedgerQuiet' /\ Request(p)' /\ today' = today
      /\ \A q \in Requests : q # p => Held(p, q)'
  BY <1>1, <1>2, LedgerEnded
<1>4. Turns(p)
  BY <1>1, <1>2, <1>3, LedgerEnded DEF Turns
<1> QED
  BY <1>3, <1>4, OneTurns

\* Who meets another that ends is not alone.
LEMMA NotAlone ==
  ASSUME LedgerInv, NEW p \in Requests, lpc[p] # "idle", NEW q \in Requests, q # p
  PROVE  q \notin lalone
BY DEF LedgerInv, LedgerQuiet

\* The end of a request, for all the others.
LEMMA OneEnds ==
  ASSUME LedgerInv, NEW p \in Requests, Ledger!End(p), lpc[p] # "idle",
         shares' \subseteq Share, grants' \subseteq Grant, IsFiniteSet(grants'),
         Tidy(shares, today)', Numbered',
         \A q \in Requests : (q # p /\ lpc[q] # "idle") =>
           /\ kind[q] = "save" => Saving(q)'
           /\ kind[q] = "revoke" => Revoking(q)'
  PROVE  LedgerInv'
<1>1. /\ LedgerTyped' /\ LedgerQuiet' /\ Request(p)' /\ today' = today
      /\ \A q \in Requests : q # p => Held(p, q)'
      /\ \A q \in Requests \ {p} :
           /\ lpc'[q] = lpc[q] /\ kind'[q] = kind[q] /\ at'[q] = at[q] /\ wanted'[q] = wanted[q]
           /\ ltodo'[q] = ltodo[q] /\ read'[q] = read[q] /\ lmine'[q] = lmine[q]
           /\ q \in lalone' => q \in lalone
  BY LedgerEnded
<1>2. ASSUME NEW q \in Requests, q # p PROVE Request(q)'
  <2>1. /\ lpc'[q] = lpc[q] /\ kind'[q] = kind[q] /\ at'[q] = at[q]
        /\ ltodo'[q] = ltodo[q] /\ read'[q] = read[q] /\ lmine'[q] = lmine[q]
        /\ q \in lalone' => q \in lalone
    BY <1>1, <1>2
  <2>2. q \notin lalone'
    BY <1>2, <2>1, NotAlone
  <2>3. AtWork(q)'
    BY <1>1, <2>1 DEF LedgerInv, Request, AtWork
  <2> QED
    BY <1>2, <2>1, <2>2, <2>3 DEF Request
<1>3. ASSUME NEW q \in Requests, NEW r \in Requests, q # r PROVE Held(q, r)'
  <2>1. CASE q = p
    BY <1>1, <1>3, <2>1
  <2>2. CASE r = p
    <3>1. Held(r, q)'
      BY <1>1, <1>3, <2>2
    <3> QED
      BY <3>1 DEF Held
  <2>3. CASE q # p /\ r # p
    <3>1. Held(q, r) /\ kind'[q] = kind[q] /\ kind'[r] = kind[r] /\ lmine'[q] = lmine[q] /\ lmine'[r] = lmine[r]
      BY <1>1, <1>3, <2>3 DEF LedgerInv
    <3> QED
      BY <3>1 DEF Held
  <2> QED
    BY <2>1, <2>2, <2>3
<1>4. \A q \in Requests : Request(q)'
  BY <1>1, <1>2
<1> QED
  BY <1>1, <1>3, <1>4 DEF LedgerInv

\* A save is stored: what it saw is now so.
LEMMA StoredIs ==
  ASSUME LedgerInv, NEW p \in Requests, Ledger!Commit(p), kind[p] = "save"
  PROVE  /\ lpc[p] = "done" /\ Saving(p) /\ (p \in lalone => SavingAlone(p)) /\ Ledger!End(p)
         /\ shares' = Ledger!View(p) /\ shares' = Put(shares, lmine[p]) /\ grants' = grants
<1>1. /\ lpc[p] = "done" /\ Ledger!End(p)
      /\ shares' = Ledger!Over(shares, lmine[p]) /\ grants' = grants
  BY DEF Ledger!Commit
<1>2. Ledger!View(p) = Ledger!Over(shares, lmine[p])
  BY DEF Ledger!View
<1> QED
  BY <1>1, <1>2, ViewIsPut DEF LedgerInv, Request

\* A save that goes on while another is stored.
LEMMA SavingGoesOn ==
  ASSUME LedgerInv, NEW p \in Requests, Ledger!Commit(p), kind[p] = "save",
         NEW q \in Requests, q # p, lpc[q] # "idle", kind[q] = "save"
  PROVE  Saving(q)'
<1> DEFINE M == lmine[p]
           N == lmine[q]
           old == Ledger!View(q)
           new == Put(Put(shares, M), N)
<1>1. /\ lpc[p] = "done" /\ Saving(p) /\ Ledger!End(p)
      /\ shares' = Ledger!View(p) /\ shares' = Put(shares, M) /\ grants' = grants
  BY StoredIs
<1>2. Saving(q) /\ shares \subseteq Share /\ shares' \subseteq Share /\ today \in Nat
  BY <1>1, DayBounds DEF LedgerInv, LedgerTyped, Request, Saving, Tidy
<1>3. /\ lpc'[q] = lpc[q] /\ kind'[q] = kind[q] /\ at'[q] = at[q] /\ wanted'[q] = wanted[q]
      /\ ltodo'[q] = ltodo[q] /\ read'[q] = read[q] /\ lmine'[q] = lmine[q] /\ today' = today
  <2>1. grants \subseteq Grant /\ IsFiniteSet(grants)
    BY DEF LedgerInv, LedgerTyped
  <2>2. lpc[p] # "idle"
    BY <1>1
  <2> QED
    BY <1>1, <1>2, <2>1, <2>2, LedgerEnded
<1>4. old = Put(shares, N)
  BY ViewIsPut
<1>5. Ledger!View(q)' = new
  <2>1. Ledger!View(q)' = Ledger!Over(shares', N)
    BY <1>3 DEF Ledger!View
  <2> QED
    BY <1>1, <1>2, <2>1, OverIsPut
<1>6. \A m \in M, n \in N : m.account # n.account
  BY DEF LedgerInv, Held
<1>7. \A a : \/ On(new, a) = On(shares', a)
             \/ On(new, a) = On(old, a) /\ \A m \in M : m.account # a
  BY <1>1, <1>4, <1>6, PutOnBoth
<1>8. Tidy(new, today)
  <2>1. Tidy(shares', today) /\ Tidy(old, today)
    BY <1>1, <1>2 DEF Saving
  <2>2. \A a : On(new, a) = On(shares', a) \/ On(new, a) = On(old, a)
    BY <1>7
  <2> HIDE DEF new, old
  <2> QED
    BY <2>1, <2>2, TidyByAccount
<1>9. SameBefore(new, shares', at[q])
  <2> SUFFICES ASSUME NEW a, NEW d \in Nat, d < at[q]
               PROVE  Ledger!SharesOn(new, a, d) = Ledger!SharesOn(shares', a, d)
    BY DEF SameBefore
  <2>1. CASE On(new, a) = On(shares', a)
    BY <2>1, SharesByAccount
  <2>2. CASE On(new, a) = On(old, a) /\ \A m \in M : m.account # a
    <3>1. On(shares', a) = On(shares, a)
      BY <1>1, <2>2, PutElsewhere
    <3>2. Ledger!SharesOn(new, a, d) = Ledger!SharesOn(old, a, d)
      BY <2>2, SharesByAccount
    <3>3. Ledger!SharesOn(shares', a, d) = Ledger!SharesOn(shares, a, d)
      BY <3>1, SharesByAccount
    <3>4. Ledger!SharesOn(old, a, d) = Ledger!SharesOn(shares, a, d)
      BY <1>2 DEF Saving, SameBefore
    <3> QED
      BY <3>2, <3>3, <3>4, Zenon
  <2> HIDE DEF new, old
  <2> QED
    BY <1>7, <2>1, <2>2
<1>10. \A r \in old : \E s \in new : s.account = r.account /\ s.from = r.from
  <2> SUFFICES ASSUME NEW r \in old PROVE \E s \in new : s.account = r.account /\ s.from = r.from
    OBVIOUS
  <2>1. CASE r \in N
    BY <2>1 DEF Put
  <2>2. CASE r \in shares
    <3>1. PICK s \in Put(shares, M) : s.account = r.account /\ s.from = r.from
      BY <2>2, PutKeepsKeys
    <3> QED
      BY <3>1, PutKeepsKeys
  <2> QED
    BY <1>4, <2>1, <2>2 DEF Put
<1> HIDE DEF new, old, N
<1>11. (lpc[q] = "writing" /\ read[q] # None) =>
         /\ read[q] \in Share /\ read[q].account = Head(ltodo[q])
         /\ \E r \in new : r.account = read[q].account /\ r.from = read[q].from
  <2> SUFFICES ASSUME lpc[q] = "writing", read[q] # None
               PROVE  /\ read[q] \in Share /\ read[q].account = Head(ltodo[q])
                      /\ \E r \in new : r.account = read[q].account /\ r.from = read[q].from
    OBVIOUS
  <2>1. /\ read[q] \in Share /\ read[q].account = Head(ltodo[q])
        /\ \E r \in old : r.account = read[q].account /\ r.from = read[q].from
    BY <1>2 DEF Saving, old
  <2> QED
    BY <1>10, <2>1
<1> QED
  BY <1>2, <1>3, <1>5, <1>8, <1>9, <1>11 DEF Saving

LEMMA CommitSaveKeeps ==
  ASSUME LedgerInv, NEW p \in Requests, Ledger!Commit(p), kind[p] = "save"
  PROVE  LedgerInv'
<1>1. /\ lpc[p] = "done" /\ Saving(p) /\ Ledger!End(p)
      /\ shares' = Ledger!View(p) /\ grants' = grants
  BY StoredIs
<1>2. lpc[p] # "idle"
  BY <1>1
<1>3. shares' \subseteq Share /\ grants' \subseteq Grant /\ IsFiniteSet(grants')
  BY <1>1 DEF LedgerInv, LedgerTyped, Saving, Tidy
<1>4. today' = today
  BY <1>1 DEF Ledger!End
<1>5. Tidy(shares, today)' /\ Numbered'
  BY <1>1, <1>4 DEF Saving, LedgerInv, Numbered
<1>6. ASSUME NEW q \in Requests, q # p, lpc[q] # "idle"
      PROVE  /\ kind[q] = "save" => Saving(q)'
             /\ kind[q] = "revoke" => Revoking(q)'
  <2>1. /\ lpc'[q] = lpc[q] /\ kind'[q] = kind[q] /\ at'[q] = at[q]
        /\ ltodo'[q] = ltodo[q] /\ read'[q] = read[q] /\ lmine'[q] = lmine[q]
    BY <1>1, <1>2, <1>3, <1>6, LedgerEnded
  <2>2. kind[q] = "revoke" => Revoking(q)'
    BY <1>1, <1>6, <2>1 DEF LedgerInv, Request, Revoking
  <2> QED
    BY <1>6, <2>2, SavingGoesOn
<1> QED
  BY <1>1, <1>2, <1>3, <1>5, <1>6, OneEnds

\* A revocation replaces one grant, or none, by one of the same number and first day.
LEMMA RenewedAre ==
  ASSUME LedgerInv, NEW M, M \subseteq Grant, \A m, n \in M : m = n,
         \A m \in M : m.from <= m.to /\ \E g \in grants : g.id = m.id /\ g.from = m.from,
         grants' = Renew(grants, M)
  PROVE  /\ grants' \subseteq Grant /\ IsFiniteSet(grants') /\ Numbered'
         /\ \A g \in grants : \E h \in grants' : h.id = g.id /\ h.from = g.from
<1>1. LedgerTyped /\ Numbered /\ IsFiniteSet(grants) /\ grants \subseteq Grant
  BY DEF LedgerInv, LedgerTyped
<1>2. CASE M = {}
  <2>1. grants' = grants
    BY <1>2 DEF Renew
  <2> QED
    BY <1>1, <2>1 DEF Numbered
<1>3. CASE M # {}
  <2>1. PICK m \in M : TRUE
    BY <1>3
  <2>2. PICK g \in grants : g.id = m.id /\ g.from = m.from
    BY <2>1
  <2>3. M = {m} /\ m \in Grant /\ m.from <= m.to
    BY <2>1
  <2>4. grants' = (grants \ {g}) \cup {m}
    <3>1. \A r \in grants : r.id # m.id <=> r # g
      BY <1>1, <2>2 DEF Numbered
    <3> QED
      BY <2>3, <3>1 DEF Renew
  <2> DEFINE rest == grants \ {g}
             n == Cardinality(grants)
  <2>5. n \in Nat /\ IsFiniteSet(rest) /\ Cardinality(rest) = n - 1
    BY <1>1, <2>2, FS_CardinalityType, FS_RemoveElement
  <2>6. m \notin rest
    BY <1>1, <2>2 DEF Numbered
  <2>7. grants' = rest \cup {m}
    BY <2>4
  <2> HIDE DEF rest
  <2>8. IsFiniteSet(grants') /\ Cardinality(grants') = (n - 1) + 1
    BY <2>5, <2>6, <2>7, FS_AddElement
  <2> HIDE DEF n
  <2>9. Cardinality(grants') = n
    BY <2>5, <2>8
  <2>10. grants' \subseteq Grant
    BY <1>1, <2>3, <2>4
  <2>11. \A x \in grants' : x.id \in 1..n /\ x.from <= x.to
    BY <1>1, <2>2, <2>3, <2>4 DEF Numbered, n
  <2>12. \A x, y \in grants' : x.id = y.id => x = y
    BY <1>1, <2>2, <2>4 DEF Numbered
  <2>13. \A x \in grants : \E y \in grants' : y.id = x.id /\ y.from = x.from
    BY <2>2, <2>4
  <2> QED
    BY <2>8, <2>9, <2>10, <2>11, <2>12, <2>13 DEF Numbered
<1> QED
  BY <1>2, <1>3

LEMMA CommitRevokeKeeps ==
  ASSUME LedgerInv, NEW p \in Requests, Ledger!Commit(p), kind[p] = "revoke"
  PROVE  LedgerInv'
<1>1. /\ lpc[p] = "done" /\ Ledger!End(p)
      /\ grants' = Ledger!Over(grants, lmine[p]) /\ shares' = shares
  BY DEF Ledger!Commit
<1>2. LedgerTyped /\ Revoking(p) /\ lpc[p] # "idle"
  BY <1>1 DEF LedgerInv, Request
<1>3. grants' = Renew(grants, lmine[p])
  BY <1>1, <1>2, OverIsRenew DEF LedgerTyped
<1>4. /\ grants' \subseteq Grant /\ IsFiniteSet(grants') /\ Numbered'
      /\ \A g \in grants : \E h \in grants' : h.id = g.id /\ h.from = g.from
  BY <1>2, <1>3, RenewedAre DEF Revoking
<1>5. shares' \subseteq Share /\ today' = today
  BY <1>1, <1>2 DEF LedgerTyped, Ledger!End
<1>6. Tidy(shares, today)'
  BY <1>1, <1>5 DEF LedgerInv
<1>7. ASSUME NEW q \in Requests, q # p, lpc[q] # "idle"
      PROVE  /\ kind[q] = "save" => Saving(q)'
             /\ kind[q] = "revoke" => Revoking(q)'
  <2>1. /\ lpc'[q] = lpc[q] /\ kind'[q] = kind[q] /\ at'[q] = at[q] /\ wanted'[q] = wanted[q]
        /\ ltodo'[q] = ltodo[q] /\ read'[q] = read[q] /\ lmine'[q] = lmine[q]
    BY <1>1, <1>2, <1>4, <1>5, <1>7, LedgerEnded
  <2>2. Ledger!View(q)' = Ledger!View(q)
    BY <1>1, <2>1 DEF Ledger!View
  <2>3. kind[q] = "save" => Saving(q)'
    BY <1>1, <1>5, <1>7, <2>1, <2>2 DEF LedgerInv, Request, Saving
  <2>4. ASSUME kind[q] = "revoke" PROVE Revoking(q)'
    <3>1. Revoking(q)
      BY <1>7, <2>4 DEF LedgerInv, Request
    <3>2. \A m \in lmine[q] : \E h \in grants' : h.id = m.id /\ h.from = m.from
      <4>1. \A m \in lmine[q] : \E g \in grants : g.id = m.id /\ g.from = m.from
        BY <3>1 DEF Revoking
      <4> QED
        BY <1>4, <4>1
    <3>3. lpc[q] = "writing" => \E h \in grants' : h.id = Head(ltodo[q]) /\ h.from = read[q].from
      <4>1. lpc[q] = "writing" => \E g \in grants : g.id = Head(ltodo[q]) /\ g.from = read[q].from
        BY <3>1 DEF Revoking
      <4> QED
        BY <1>4, <4>1
    <3> QED
      BY <2>1, <3>1, <3>2, <3>3 DEF Revoking
  <2> QED
    BY <2>3, <2>4
<1> QED
  BY <1>1, <1>2, <1>4, <1>5, <1>6, <1>7, OneEnds

LEMMA LedgerInvNext == LedgerInv /\ [Ledger!Next]_ledgerVars => LedgerInv'
<1> SUFFICES ASSUME LedgerInv, [Ledger!Next]_ledgerVars PROVE LedgerInv'
  OBVIOUS
<1>1. CASE UNCHANGED ledgerVars
  <2>1. /\ LedgerTyped' /\ Tidy(shares, today)' /\ Numbered' /\ LedgerQuiet'
    BY <1>1 DEF ledgerVars, LedgerInv, LedgerTyped, Numbered, LedgerQuiet
  <2>2. ASSUME NEW p \in Requests PROVE Request(p)'
    <3>1. Ledger!View(p)' = Ledger!View(p) /\ Request(p)
      BY <1>1 DEF ledgerVars, Ledger!View, LedgerInv
    <3>2. AtWork(p)'
      BY <1>1, <3>1 DEF ledgerVars, Request, AtWork
    <3>3. (Saving(p) => Saving(p)') /\ (SavingAlone(p) => SavingAlone(p)')
      BY <1>1, <3>1 DEF ledgerVars, Saving, SavingAlone, InForceFrom
    <3>4. (Revoking(p) => Revoking(p)') /\ (RevokingAlone(p) => RevokingAlone(p)')
      BY <1>1 DEF ledgerVars, Revoking, RevokingAlone
    <3> QED
      BY <1>1, <3>1, <3>2, <3>3, <3>4 DEF ledgerVars, Request
  <2>3. \A p, q \in Requests : p # q => Held(p, q)'
    BY <1>1 DEF ledgerVars, LedgerInv, Held
  <2> QED
    BY <2>1, <2>2, <2>3 DEF LedgerInv
<1>2. CASE Ledger!Tick \/ Ledger!CreateGrant
  BY <1>2, TickKeeps, CreateGrantKeeps
<1>3. ASSUME NEW p \in Requests,
             Ledger!BeginSave(p) \/ Ledger!BeginRevoke(p) \/ Ledger!ReadShare(p) \/ Ledger!ReadGrant(p)
      PROVE  LedgerInv'
  BY <1>3, LedgerBegins, LedgerReads
<1>4. ASSUME NEW p \in Requests,
             \/ Ledger!KeepShare(p) \/ Ledger!CorrectShare(p) \/ Ledger!CloseShare(p)
             \/ Ledger!OpenShare(p) \/ Ledger!CloseGrant(p)
      PROVE  LedgerInv'
  BY <1>4, KeepKeeps, CorrectShareKeeps, CloseShareKeeps, OpenShareKeeps, CloseGrantKeeps
<1>5. ASSUME NEW p \in Requests, Ledger!Commit(p) \/ Ledger!Fail(p) PROVE LedgerInv'
  <2>1. kind[p] \in {"save", "revoke"}
    BY DEF LedgerInv, LedgerTyped
  <2> QED
    BY <1>5, <2>1, CommitSaveKeeps, CommitRevokeKeeps, LedgerFailKeeps
<1> QED
  BY <1>1, <1>2, <1>3, <1>4, <1>5 DEF Ledger!Next

LEMMA LedgerRuns == RecordsSpec => Ledger!Init /\ [][Ledger!Next]_ledgerVars
<1>1. [RecordsNext]_recordVars => [Ledger!Next]_ledgerVars
  BY DEF RecordsNext, FactStep, TrmStep, LedgerStep, recordVars
<1>2. RecordsInit => Ledger!Init
  BY DEF RecordsInit
<1> QED
  BY <1>1, <1>2, PTL DEF RecordsSpec

LEMMA LedgerInvariance == RecordsSpec => []LedgerInv
  BY LedgerRuns, LedgerInitInv, LedgerInvNext, PTL

-----------------------------------------------------------------------------
(* The dated rows: what a commit does to history *)

\* The only row of an account in force on a day is the one that a save has put in force.
LEMMA OnlyShare ==
  ASSUME LedgerInv, NEW V, Tidy(V, today), NEW p \in Requests, NEW a, NEW r \in V, InForceFrom(r, a, p),
         NEW d \in Nat, at[p] <= d, d < Ledger!Forever
  PROVE  Ledger!SharesOn(V, a, d) = {wanted[p]}
<1>1. r \in Share /\ r.account = a /\ r.from = at[p] /\ r.to = Ledger!Forever /\ r.share = wanted[p]
  BY DEF Tidy, InForceFrom
<1>2. ASSUME NEW s \in V, s.account = a, s.from <= d, d < s.to PROVE s = r
  <2>1. s \in Share /\ s.from <= today
    BY DEF Tidy
  <2>2. s # r => (s.to <= r.from \/ r.to <= s.from)
    BY <1>1, <1>2 DEF Tidy, Ledger!Allowed
  <2> QED
    BY <1>1, <1>2, <2>1, <2>2, DayBounds DEF Share
<1>3. \A x : x \in Ledger!SharesOn(V, a, d) <=> x = wanted[p]
  <2>1. r.from <= d /\ d < r.to
    BY <1>1
  <2> QED
    BY <1>1, <1>2, <2>1 DEF Ledger!SharesOn
<1> HIDE DEF Ledger!SharesOn
<1> QED
  BY <1>3

\* A grant that was in force on its last day now ends there.
LEMMA EndsThere ==
  ASSUME LedgerInv, NEW g \in grants, NEW d0 \in Nat, g.from <= d0, d0 < g.to,
         NEW h, h.id = g.id, h.from = g.from, h.to = d0, grants' = Renew(grants, {h}), NEW d \in Nat
  PROVE  /\ Ledger!InForce(grants', d) \subseteq Ledger!InForce(grants, d)
         /\ \A n : (n \in Ledger!InForce(grants, d) /\ n \notin Ledger!InForce(grants', d)) <=>
              (n = h.id /\ d >= d0 /\ n \in Ledger!InForce(grants, d))
<1>1. Numbered /\ grants \subseteq Grant
  BY DEF LedgerInv, LedgerTyped
<1>2. h.id = g.id /\ h.from = g.from /\ h.to = d0 /\ g \in Grant
  BY <1>1
<1>3. \A x : x \in grants' <=> (x \in grants /\ x # g) \/ x = h
  BY <1>1, <1>2 DEF Renew, Numbered
<1>4. \A rows, n : n \in Ledger!InForce(rows, d) <=> \E x \in rows : x.id = n /\ x.from <= d /\ d < x.to
  BY DEF Ledger!InForce
<1>5. d < h.to => d < g.to
  BY <1>2 DEF Grant
<1>6. \A x \in grants' : (x.from <= d /\ d < x.to) => \E y \in grants : y.id = x.id /\ y.from <= d /\ d < y.to
  BY <1>2, <1>3, <1>5
<1>7. ASSUME NEW n \in Ledger!InForce(grants', d) PROVE n \in Ledger!InForce(grants, d)
  <2>1. PICK x \in grants' : x.id = n /\ x.from <= d /\ d < x.to
    BY <1>4
  <2>2. PICK y \in grants : y.id = n /\ y.from <= d /\ d < y.to
    BY <1>6, <2>1
  <2> QED
    BY <1>4, <2>2
<1>8. ASSUME NEW n, n \in Ledger!InForce(grants, d), n \notin Ledger!InForce(grants', d)
      PROVE  n = h.id /\ d >= d0
  <2>1. PICK x \in grants : x.id = n /\ x.from <= d /\ d < x.to
    BY <1>4, <1>8
  <2>2. x = g
    BY <1>3, <1>4, <1>8, <2>1
  <2>3. ~(d < h.to)
    BY <1>2, <1>3, <1>4, <1>8, <2>1, <2>2
  <2> QED
    BY <1>2, <2>1, <2>2, <2>3
<1>9. ASSUME d >= d0 PROVE h.id \notin Ledger!InForce(grants', d)
  <2> SUFFICES ASSUME NEW x \in grants', x.id = h.id, x.from <= d, d < x.to PROVE FALSE
    BY <1>4
  <2>1. x = h
    BY <1>1, <1>2, <1>3 DEF Numbered
  <2> QED
    BY <1>2, <1>9, <2>1
<1> QED
  BY <1>7, <1>8, <1>9

\* Neither a save nor a revocation changes the days before its own, and one that meets no
\* other has its way from that day on: the closing and opening of rows in
\* db/participations.py, and revoke_grant.
THEOREM LeavesHistory == RecordsSpec => HistoryStands
<1>1. ASSUME LedgerInv, NEW p \in Requests, Ledger!Commit(p), kind[p] = "save",
             NEW a \in Accounts, NEW d \in Ledger!Days
      PROVE  /\ d < at[p] => Ledger!SharesOn(shares', a, d) = Ledger!SharesOn(shares, a, d)
             /\ (d >= at[p] /\ p \in lalone /\ \E m \in lmine[p] : m.account = a)
                  => Ledger!SharesOn(shares', a, d) = {wanted[p]}
  <2>1. Saving(p) /\ (p \in lalone => SavingAlone(p)) /\ shares' = Ledger!View(p)
    BY <1>1, StoredIs
  <2>2. d \in Nat /\ d < Ledger!Forever
    BY LedgerAssumption DEF Ledger!Days, Ledger!Forever
  <2>3. d < at[p] => Ledger!SharesOn(shares', a, d) = Ledger!SharesOn(shares, a, d)
    BY <2>1, <2>2 DEF Saving, SameBefore
  <2>4. ASSUME d >= at[p], p \in lalone, NEW m \in lmine[p], m.account = a
        PROVE  Ledger!SharesOn(shares', a, d) = {wanted[p]}
    <3>1. PICK r \in Ledger!View(p) : InForceFrom(r, a, p)
      BY <2>1, <2>4 DEF SavingAlone
    <3>2. at[p] <= d
      BY <1>1, <2>2, <2>4 DEF LedgerInv, LedgerTyped
    <3>3. Tidy(Ledger!View(p), today)
      BY <2>1 DEF Saving
    <3> QED
      BY <1>1, <2>1, <2>2, <3>1, <3>2, <3>3, OnlyShare
  <2> QED
    BY <2>3, <2>4
<1>2. ASSUME LedgerInv, NEW p \in Requests, Ledger!Commit(p), kind[p] = "revoke", p \in lalone,
             NEW d \in Ledger!Days
      PROVE  /\ Ledger!InForce(grants, d) \ Ledger!InForce(grants', d) =
                  {m.id : m \in {x \in lmine[p] : d >= at[p] /\ x.id \in Ledger!InForce(grants, d)}}
             /\ Ledger!InForce(grants', d) \subseteq Ledger!InForce(grants, d)
  <2>1. lpc[p] = "done" /\ grants' = Ledger!Over(grants, lmine[p])
    BY <1>2 DEF Ledger!Commit
  <2>2. PICK g \in grants : g.from <= at[p] /\ at[p] < g.to /\ lmine[p] = {[g EXCEPT !.to = at[p]]}
    BY <1>2, <2>1 DEF LedgerInv, Request, RevokingAlone
  <2> DEFINE h == [g EXCEPT !.to = at[p]]
             old == Ledger!InForce(grants, d)
             new == Ledger!InForce(grants', d)
  <2>3. grants' = Renew(grants, {h})
    BY <1>2, <2>1, <2>2, OverIsRenew DEF LedgerInv, LedgerTyped
  <2>4. d \in Nat /\ at[p] \in Nat
    BY <1>2, LedgerAssumption DEF Ledger!Days, LedgerInv, LedgerTyped
  <2> HIDE DEF h
  <2>5. /\ new \subseteq old
        /\ \A n : (n \in old /\ n \notin new) <=> (n = h.id /\ d >= at[p] /\ n \in old)
    <3>1. h.id = g.id /\ h.from = g.from /\ h.to = at[p]
      BY <2>2 DEF h, LedgerInv, LedgerTyped, Grant
    <3> QED
      BY <1>2, <2>2, <2>3, <2>4, <3>1, EndsThere
  <2>6. lmine[p] = {h}
    BY <2>2 DEF h
  <2> HIDE DEF old, new
  <2>7. old \ new = {m.id : m \in {x \in lmine[p] : d >= at[p] /\ x.id \in old}}
    BY <2>5, <2>6
  <2> QED
    BY <2>5, <2>7 DEF old, new
<1>3. LedgerInv =>
        \A p \in Requests : Ledger!Commit(p) =>
          /\ kind[p] = "save" =>
               \A a \in Accounts, d \in Ledger!Days :
                 /\ d < at[p] => Ledger!SharesOn(shares', a, d) = Ledger!SharesOn(shares, a, d)
                 /\ (d >= at[p] /\ p \in lalone /\ \E m \in lmine[p] : m.account = a)
                      => Ledger!SharesOn(shares', a, d) = {wanted[p]}
          /\ (kind[p] = "revoke" /\ p \in lalone) =>
               \A d \in Ledger!Days : Ledger!InForce(grants, d) \ Ledger!InForce(grants', d) =
                 {m.id : m \in {x \in lmine[p] : d >= at[p] /\ x.id \in Ledger!InForce(grants, d)}}
                   /\ Ledger!InForce(grants', d) \subseteq Ledger!InForce(grants, d)
  BY <1>1, <1>2
<1> QED
  BY <1>3, LedgerInvariance, PTL DEF HistoryStands, Ledger!HistoryStands

-----------------------------------------------------------------------------
(* The three together *)

LEMMA FactsRun == RecordsSpec => Spec
<1>1. [RecordsNext]_recordVars => [Next]_vars
  BY DEF RecordsNext, FactStep, TrmStep, LedgerStep, recordVars
<1>2. RecordsInit => Init
  BY DEF RecordsInit
<1> QED
  BY <1>1, <1>2, PTL DEF RecordsSpec, Spec

\* The types of the three: a row of a shared table is known by its key and a fact by its
\* own, the source is locked by the run that is at work, and at most one row of an account
\* is in force on a day.
THEOREM RecordsTyped == RecordsSpec => []RecordsTypeOK
<1>1. TrmInv => Trm!TypeOK
  <2> SUFFICES ASSUME TrmInv PROVE Trm!TypeOK
    OBVIOUS
  <2>1. TrmTyped /\ Dated
    BY DEF TrmInv
  <2>2. ASSUME NEW d \in DOMAIN days
        PROVE  days[d].from <= d /\ d <= days[d].to /\ days[d].version \in 1..MaxVersion
    <3>1. PICK x \in taken : /\ x.from <= d /\ d <= x.to
                             /\ days[d] = [from |-> x.from, to |-> x.to, version |-> x.version]
      BY <2>1 DEF Dated
    <3>2. x.version \in 1..MaxVersion
      BY <2>1 DEF Dated, OfSource, Row
    <3> QED
      BY <3>1, <3>2
  <2> QED
    BY <2>1, <2>2 DEF Trm!TypeOK, TrmTyped, Dated
<1>2. LedgerInv => Ledger!TypeOK
  <2> SUFFICES ASSUME LedgerInv PROVE Ledger!TypeOK
    OBVIOUS
  <2>1. \A r, s \in shares : (r.account = s.account /\ r # s) => (r.to <= s.from \/ s.to <= r.from)
    BY DEF LedgerInv, Tidy, Ledger!Allowed
  <2>2. \A p \in Requests : lpc[p] = "idle" => lmine[p] = {} /\ read[p] = None
    BY DEF LedgerInv, Request, AtWork
  <2> QED
    BY <2>1, <2>2 DEF LedgerInv, LedgerTyped, Numbered, Ledger!TypeOK
<1>3. RecordsSpec => []TypeOK
  BY FactsRun, TypeCorrect, PTL
<1>4. RecordsTypeOK <=> TypeOK /\ Trm!TypeOK /\ Ledger!TypeOK
  BY DEF RecordsTypeOK
<1> QED
  BY <1>1, <1>2, <1>3, <1>4, TrmInvariance, LedgerInvariance, PTL

\* What is proved of the facts alone, next to the rates and the dated rows.
THEOREM FactsTogether ==
  RecordsSpec => [](OneInstrument /\ NoRowLost /\ SortedNeverDeadlocks) /\ FactsStand /\ SiblingsLogged
  BY FactsRun, InstrumentIsNamed, RowsKept, SortedIsSafe, FactsAreImmutable, SiblingsAreLogged, PTL
=============================================================================
