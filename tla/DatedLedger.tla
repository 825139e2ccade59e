----------------------------- MODULE DatedLedger ----------------------------
(***************************************************************************)
(* The two tables whose rows hold for a range of days [from, to): who owns *)
(* which share of an account (db/participations.py, saved by steps 2 and 3 *)
(* of the wizard) and whom a party has given access (api/grants.py).       *)
(*                                                                         *)
(* A save writes a share for some accounts, one after the other, in one    *)
(* transaction; a revocation reads a grant and closes it.  Requests are    *)
(* READ COMMITTED transactions that meet others and may last past          *)
(* midnight; the day a request goes by is that of its start.               *)
(*                                                                         *)
(* One organization and one party; a grant is known by a number.           *)
(***************************************************************************)
EXTENDS Naturals, Sequences, SequencesExt

CONSTANTS
  Requests, Accounts, Shares,
  Terms,                              \* first and end day of the grants that are made
  None,                               \* no row
  LastDay, MaxGrants, MaxRequests     \* bounds

VARIABLES
  today,
  shares,   \* participations: [account, share, from, to]
  grants,   \* access_grants: [id, from, to]
  pc,       \* per request: idle, reading, writing, or done and not committed
  kind,     \* per request: save or revoke
  at,       \* per request: its day
  wanted,   \* per request: the share it saves
  todo,     \* per request: accounts it has still to save, or the grant it revokes
  read,     \* per request: the row it has read
  mine,     \* per request: its uncommitted rows
  begun,    \* requests begun so far
  alone     \* history: the request that has met no other, if any

vars == <<today, shares, grants, pc, kind, at, wanted, todo, read, mine, begun, alone>>

Forever == LastDay + 2
Days == 1..(LastDay + 1)

\* A row is known by what it is about and its first day, a grant by its number.
SameRow(r, s) == IF "id" \in DOMAIN r THEN r.id = s.id ELSE r.account = s.account /\ r.from = s.from
Over(rows, written) == {r \in rows : \A w \in written : ~SameRow(r, w)} \cup written

View(p) == Over(shares, IF kind[p] = "save" THEN mine[p] ELSE {})

\* What is owned of an account on a day.
SharesOn(rows, a, d) == {r.share : r \in {x \in rows : x.account = a /\ x.from <= d /\ d < x.to}}
InForce(rows, d) == {g.id : g \in {x \in rows : x.from <= d /\ d < x.to}}

Init ==
  /\ today = 1 /\ shares = {} /\ grants = {} /\ begun = 0 /\ alone = {}
  /\ pc = [p \in Requests |-> "idle"]
  /\ kind = [p \in Requests |-> "save"]
  /\ at = [p \in Requests |-> 0]
  /\ wanted = [p \in Requests |-> None]
  /\ todo = [p \in Requests |-> <<>>]
  /\ read = [p \in Requests |-> None]
  /\ mine = [p \in Requests |-> {}]

Tick ==
  /\ today < LastDay
  /\ today' = today + 1
  /\ UNCHANGED <<shares, grants, pc, kind, at, wanted, todo, read, mine, begun, alone>>

\* create_grant: from a given day on, which may be past or to come, for good or up to a
\* day not before it.
CreateGrant ==
  /\ Cardinality(grants) < MaxGrants
  /\ \E t \in Terms :
       /\ t[1] <= t[2]
       /\ grants' = grants \cup {[id |-> Cardinality(grants) + 1, from |-> t[1], to |-> t[2]]}
  /\ UNCHANGED <<today, shares, pc, kind, at, wanted, todo, read, mine, begun, alone>>

Begin(p, k, items, share) ==
  /\ pc[p] = "idle" /\ begun < MaxRequests
  /\ begun' = begun + 1
  /\ alone' = IF \E q \in Requests : pc[q] # "idle" THEN {} ELSE {p}
  /\ pc' = [pc EXCEPT ![p] = "reading"]
  /\ kind' = [kind EXCEPT ![p] = k]
  /\ at' = [at EXCEPT ![p] = today]
  /\ wanted' = [wanted EXCEPT ![p] = share]
  /\ todo' = [todo EXCEPT ![p] = items]
  /\ UNCHANGED <<today, shares, grants, read, mine>>

BeginSave(p) ==
  \E S \in SUBSET Accounts, share \in Shares : \E items \in SetToSeqs(S) :
    items # <<>> /\ Begin(p, "save", items, share)
BeginRevoke(p) == \E g \in grants : Begin(p, "revoke", <<g.id>>, None)

Read(p, row) ==
  /\ read' = [read EXCEPT ![p] = row]
  /\ pc' = [pc EXCEPT ![p] = "writing"]
  /\ UNCHANGED <<today, shares, grants, kind, at, wanted, todo, mine, begun, alone>>

\* The open row of the next account, if there is one.
ReadShare(p) ==
  LET open == {r \in View(p) : r.account = Head(todo[p]) /\ r.to = Forever}
  IN  /\ pc[p] = "reading" /\ kind[p] = "save"
      /\ Read(p, IF open = {} THEN None ELSE CHOOSE r \in open : TRUE)

\* revoke_grant: a grant that is over is refused.
ReadGrant(p) ==
  \E g \in grants :
    /\ pc[p] = "reading" /\ kind[p] = "revoke"
    /\ g.id = Head(todo[p]) /\ g.to > at[p]
    /\ Read(p, g)

\* Another request has uncommitted rows of the same account, or the same grant.
Free(p) ==
  \A q \in Requests \ {p} : kind[q] = kind[p] =>
    \A m \in mine[q] : IF kind[p] = "save" THEN m.account # Head(todo[p]) ELSE m.id # Head(todo[p])

Write(p, rows) ==
  /\ mine' = [mine EXCEPT ![p] = Over(@, rows)]
  /\ todo' = [todo EXCEPT ![p] = Tail(@)]
  /\ pc' = [pc EXCEPT ![p] = IF Len(todo[p]) = 1 THEN "done" ELSE "reading"]
  /\ read' = [read EXCEPT ![p] = None]
  /\ UNCHANGED <<today, shares, grants, kind, at, wanted, begun, alone>>

\* Mutant: no exclusion constraint.
RangesOnly(rows) == \A r \in rows : r.from < r.to

\* participations_no_overlap and valid_range.
Allowed(rows) ==
  /\ \A r \in rows : r.from < r.to
  /\ \A r, s \in rows : (r.account = s.account /\ r # s) => (r.to <= s.from \/ s.to <= r.from)

\* The row that was read, as it is by now.
Current(p) == CHOOSE r \in View(p) : SameRow(r, read[p])
New(p) == [account |-> Head(todo[p]), share |-> wanted[p], from |-> at[p], to |-> Forever]
IsNew(p) == \A r \in View(p) : ~SameRow(r, New(p))

KeepShare(p) ==
  /\ pc[p] = "writing" /\ kind[p] = "save" /\ read[p] # None /\ read[p].share = wanted[p]
  /\ Write(p, {})

\* A row of today holds no history: it is corrected.
CorrectShare(p) ==
  /\ pc[p] = "writing" /\ kind[p] = "save" /\ Free(p)
  /\ read[p] # None /\ read[p].share # wanted[p] /\ read[p].from >= at[p]
  /\ Write(p, {[Current(p) EXCEPT !.share = wanted[p]]})

\* Mutant: an older row is corrected too.
CloseByCorrecting(p) ==
  /\ pc[p] = "writing" /\ kind[p] = "save" /\ Free(p)
  /\ read[p] # None /\ read[p].share # wanted[p]
  /\ Write(p, {[Current(p) EXCEPT !.share = wanted[p]]})

\* An older row is closed, and another opened.
CloseShare(p) ==
  /\ pc[p] = "writing" /\ kind[p] = "save" /\ Free(p)
  /\ read[p] # None /\ read[p].share # wanted[p] /\ read[p].from < at[p]
  /\ LET rows == {[Current(p) EXCEPT !.to = at[p]], New(p)}
     IN  IsNew(p) /\ Allowed(Over(View(p), rows)) /\ Write(p, rows)

OpenShare(p) ==
  /\ pc[p] = "writing" /\ kind[p] = "save" /\ Free(p) /\ read[p] = None
  /\ IsNew(p) /\ Allowed(View(p) \cup {New(p)})
  /\ Write(p, {New(p)})

\* The CHECK of the table refuses the revocation of a grant that is still to come.
CloseGrant(p) ==
  /\ pc[p] = "writing" /\ kind[p] = "revoke" /\ Free(p) /\ read[p].from <= at[p]
  /\ Write(p, {[(CHOOSE g \in grants : g.id = Head(todo[p])) EXCEPT !.to = at[p]]})

End(p) ==
  /\ pc' = [pc EXCEPT ![p] = "idle"]
  /\ kind' = [kind EXCEPT ![p] = "save"]
  /\ at' = [at EXCEPT ![p] = 0]
  /\ wanted' = [wanted EXCEPT ![p] = None]
  /\ todo' = [todo EXCEPT ![p] = <<>>]
  /\ read' = [read EXCEPT ![p] = None]
  /\ mine' = [mine EXCEPT ![p] = {}]
  /\ alone' = alone \ {p}
  /\ UNCHANGED <<today, begun>>

Commit(p) ==
  /\ pc[p] = "done"
  /\ IF kind[p] = "save" THEN shares' = Over(shares, mine[p]) /\ UNCHANGED grants
                         ELSE grants' = Over(grants, mine[p]) /\ UNCHANGED shares
  /\ End(p)

\* The request is refused, a constraint or the deadlock detector ends it, or it dies.
Fail(p) ==
  /\ pc[p] # "idle"
  /\ End(p)
  /\ UNCHANGED <<shares, grants>>

Next ==
  \/ Tick \/ CreateGrant
  \/ \E p \in Requests :
       \/ BeginSave(p) \/ BeginRevoke(p) \/ ReadShare(p) \/ ReadGrant(p)
       \/ KeepShare(p) \/ CorrectShare(p) \/ CloseShare(p) \/ OpenShare(p) \/ CloseGrant(p)
       \/ Commit(p) \/ Fail(p)

Spec == Init /\ [][Next]_vars

-----------------------------------------------------------------------------
(* Properties *)

\* At most one row of an account is in force on a day.
TypeOK ==
  /\ today \in 1..LastDay
  /\ \A r, s \in shares : (r.account = s.account /\ r # s) => (r.to <= s.from \/ s.to <= r.from)
  /\ \A g \in grants : g.from <= g.to
  /\ pc \in [Requests -> {"idle", "reading", "writing", "done"}]
  /\ \A p \in Requests : pc[p] = "idle" => mine[p] = {} /\ read[p] = None

\* History stands.  Whatever others do meanwhile, a save dated d leaves the shares of the
\* days before d as they are; and one that meets no other puts its share in force from d
\* on.  A revocation that meets no other ends the access from its day on, and changes
\* nothing of the days before.
HistoryStands ==
  [][\A p \in Requests : Commit(p) =>
       /\ kind[p] = "save" =>
            \A a \in Accounts, d \in Days :
              /\ d < at[p] => SharesOn(shares', a, d) = SharesOn(shares, a, d)
              /\ (d >= at[p] /\ p \in alone /\ \E m \in mine[p] : m.account = a)
                   => SharesOn(shares', a, d) = {wanted[p]}
       /\ (kind[p] = "revoke" /\ p \in alone) =>
            \A d \in Days : InForce(grants, d) \ InForce(grants', d) =
              {m.id : m \in {x \in mine[p] : d >= at[p] /\ x.id \in InForce(grants, d)}}
                /\ InForce(grants', d) \subseteq InForce(grants, d)]_vars
=============================================================================
