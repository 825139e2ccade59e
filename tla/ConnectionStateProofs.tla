------------------------ MODULE ConnectionStateProofs -----------------------
(***************************************************************************)
(* Proofs about ConnectionState, for every set of connections and failure  *)
(* texts, every threshold of at least one, and every bound MaxFailures.    *)
(*                                                                         *)
(* One lemma says what the row functions of connection_state.py do to a    *)
(* row that is well formed (typed, and its columns in agreement); one says *)
(* that a step writes one row and writes it with those functions; the      *)
(* invariants and the action properties follow without looking at the      *)
(* actions again.                                                          *)
(***************************************************************************)
EXTENDS ConnectionState, TLAPS

\* The inductive invariant, for one row: its type and both agreements.  Neither
\* agreement is inductive on an untyped row, and StatusAgrees needs the counter
\* to be a number before it can be compared.
GoodRow(row) == row \in Row /\ StatusAgrees(row) /\ HealthAgrees(row)

IInv == conn \in [Connections -> {row \in Row : GoodRow(row)} \cup {Absent}]

\* The rows a step may put in the place of row c.
Successors(c) ==
  {MarkSyncOk(c), MarkRotated(c), SetEnabled(c, TRUE), SetEnabled(c, FALSE)}
    \cup {MarkAuthFailed(c, why) : why \in Reasons}
    \cup {MarkSyncFailed(c, why) : why \in Reasons}

-----------------------------------------------------------------------------
(* The row functions *)

\* An INSERT leaves a good row.
LEMMA NewRowGood == GoodRow(NewRow)
  BY ThresholdAssumption
     DEF GoodRow, NewRow, Row, Status, SyncStatus, StatusAgrees, HealthAgrees

\* Each function of connection_state.py takes a good row to a good row.
LEMMA MarkGood ==
  ASSUME NEW c, GoodRow(c)
  PROVE  /\ GoodRow(MarkSyncOk(c))
         /\ GoodRow(MarkRotated(c))
         /\ GoodRow(SetEnabled(c, TRUE))
         /\ GoodRow(SetEnabled(c, FALSE))
         /\ \A why \in Reasons : GoodRow(MarkAuthFailed(c, why))
         /\ \A why \in Reasons : GoodRow(MarkSyncFailed(c, why))
<1> USE ThresholdAssumption, ReasonAssumption
    DEF GoodRow, Row, Status, SyncStatus, StatusAgrees, HealthAgrees, Unless
<1>p. c.lastSync \in SyncStatus /\ Unless("active", c) \in {"active", "disabled"}
  OBVIOUS
<1>1. GoodRow(MarkSyncOk(c))
  BY DEF MarkSyncOk
<1>q. ASSUME NEW status \in {"active", "disabled"}, NEW sync \in SyncStatus
      PROVE  GoodRow([status |-> status, reason |-> NoReason, failures |-> 0, lastSync |-> sync])
  OBVIOUS
<1>2. GoodRow(MarkRotated(c))
  <2> HIDE DEF GoodRow, SyncStatus, StatusAgrees, HealthAgrees, Status
  <2>1. QED
    BY <1>p, <1>q DEF MarkRotated
<1>3. GoodRow(SetEnabled(c, TRUE))
  <2>1. SetEnabled(c, TRUE) = [status |-> "active", reason |-> NoReason,
                               failures |-> 0, lastSync |-> c.lastSync]
    BY DEF SetEnabled
  <2> HIDE DEF GoodRow, SyncStatus, StatusAgrees, HealthAgrees, Status
  <2>2. QED
    BY <1>p, <1>q, <2>1
<1>4. GoodRow(SetEnabled(c, FALSE))
  BY DEF SetEnabled
<1>5. ASSUME NEW why \in Reasons PROVE GoodRow(MarkAuthFailed(c, why))
  BY DEF MarkAuthFailed
<1>6. ASSUME NEW why \in Reasons PROVE GoodRow(MarkSyncFailed(c, why))
  BY DEF MarkSyncFailed
<1>7. QED
  BY <1>1, <1>2, <1>3, <1>4, <1>5, <1>6

-----------------------------------------------------------------------------
(* The steps *)

\* A step writes the row of one connection: it creates it, deletes it, or
\* applies one of the row functions to it.
LEMMA StepWritesOneRow ==
  ASSUME Next
  PROVE  \E c \in Connections :
           \/ conn' = [conn EXCEPT ![c] = NewRow] /\ ~Present(c)
           \/ conn' = [conn EXCEPT ![c] = Absent]
           \/ Present(c) /\ \E new \in Successors(conn[c]) : conn' = [conn EXCEPT ![c] = new]
<1>1. PICK c \in Connections : SyncEvent(c) \/ UserEvent(c)
  BY DEF Next
<1>2. CASE SyncEvent(c)
  BY <1>2 DEF SyncEvent, SyncOk, AuthFailed, SyncFailed, Set, Successors
<1>3. CASE UserEvent(c)
  BY <1>3 DEF UserEvent, Create, Rotate, Enable, Disable, Delete, Set, Successors
<1>4. QED
  BY <1>1, <1>2, <1>3

LEMMA IInvInit == Init => IInv
  BY DEF Init, IInv

LEMMA IInvNext == IInv /\ [Next]_conn => IInv'
<1> SUFFICES ASSUME IInv, [Next]_conn PROVE IInv'
  OBVIOUS
<1>1. CASE UNCHANGED conn
  BY <1>1 DEF IInv
<1>2. CASE Next
  <2>1. PICK c \in Connections :
           \/ conn' = [conn EXCEPT ![c] = NewRow] /\ ~Present(c)
           \/ conn' = [conn EXCEPT ![c] = Absent]
           \/ Present(c) /\ \E new \in Successors(conn[c]) : conn' = [conn EXCEPT ![c] = new]
    BY <1>2, StepWritesOneRow
  <2>2. CASE conn' = [conn EXCEPT ![c] = NewRow]
    BY <2>2, NewRowGood DEF IInv, GoodRow
  <2>3. CASE conn' = [conn EXCEPT ![c] = Absent]
    BY <2>3 DEF IInv
  <2>4. CASE Present(c) /\ \E new \in Successors(conn[c]) : conn' = [conn EXCEPT ![c] = new]
    <3>1. PICK new \in Successors(conn[c]) : conn' = [conn EXCEPT ![c] = new]
      BY <2>4
    <3>2. GoodRow(conn[c])
      BY <2>4 DEF IInv, Present
    <3>3. GoodRow(new)
      BY <3>1, <3>2, MarkGood DEF Successors
    <3>4. QED
      BY <3>1, <3>3 DEF IInv, GoodRow
  <2>5. QED
    BY <2>1, <2>2, <2>3, <2>4
<1>3. QED
  BY <1>1, <1>2

\* The strengthened invariant holds in every reachable state.
THEOREM Invariance == Spec => []IInv
  BY IInvInit, IInvNext, PTL DEF Spec

\* Type correctness: every row keeps the columns and the value sets of its table.
THEOREM TypeCorrect == Spec => []TypeOK
<1>1. IInv => TypeOK
  BY DEF IInv, TypeOK
<1>2. QED
  BY <1>1, Invariance, PTL

\* The status of a connection always agrees with its failure counter (rule W4).
THEOREM Threshold == Spec => []ThresholdInv
<1>1. IInv => ThresholdInv
  BY DEF IInv, ThresholdInv, GoodRow, Present
<1>2. QED
  BY <1>1, Invariance, PTL

\* status_reason and last_sync_status never contradict the failure counter.
THEOREM Health == Spec => []HealthInv
<1>1. IInv => HealthInv
  BY DEF IInv, HealthInv, GoodRow, Present
<1>2. QED
  BY <1>1, Invariance, PTL
-----------------------------------------------------------------------------
(* The action properties *)

\* Whatever the row functions make of a disabled row but set_enabled(TRUE) is
\* disabled, and a row that waits for a new token leaves that status only with
\* its counter at zero or disabled.
LEMMA SuccessorsRespect ==
  ASSUME NEW c, GoodRow(c), NEW new \in Successors(c)
  PROVE  /\ c.status = "disabled" => new.status = "disabled" \/ new = SetEnabled(c, TRUE)
         /\ c.status = "reauth_required" =>
              new.failures = 0 \/ new.status \in {"reauth_required", "disabled"}
<1> USE DEF GoodRow, Row, Unless
<1>1. CASE new = MarkSyncOk(c)
  BY <1>1 DEF MarkSyncOk
<1>2. CASE new = MarkRotated(c)
  BY <1>2 DEF MarkRotated
<1>3. CASE new = SetEnabled(c, TRUE)
  BY <1>3 DEF SetEnabled
<1>4. CASE new = SetEnabled(c, FALSE)
  BY <1>4 DEF SetEnabled
<1>5. CASE \E why \in Reasons : new = MarkAuthFailed(c, why)
  <2>1. PICK why \in Reasons : new = MarkAuthFailed(c, why)
    BY <1>5
  <2>2. new.status = Unless("reauth_required", c)
    BY <2>1 DEF MarkAuthFailed
  <2>3. QED
    BY <2>2
<1>6. CASE \E why \in Reasons : new = MarkSyncFailed(c, why)
  <2>1. PICK why \in Reasons : new = MarkSyncFailed(c, why)
    BY <1>6
  <2>2. new.status = c.status \/ (new.status = "degraded" /\ c.status \notin {"disabled", "reauth_required"})
    BY <2>1 DEF MarkSyncFailed
  <2>3. QED
    BY <2>2
<1>7. QED
  BY <1>1, <1>2, <1>3, <1>4, <1>5, <1>6 DEF Successors

\* Only a user brings a disabled connection back (rule W4, "disabled is sticky").
THEOREM StickyDisabled == Spec => DisabledIsSticky
<1>1. IInv /\ [Next]_conn =>
      [\A c \in Connections :
         (Present(c) /\ conn[c].status = "disabled" /\ conn'[c] # conn[c]) =>
           \/ conn'[c] = Absent
           \/ conn'[c].status = "disabled"
           \/ Enable(c)]_conn
  <2> SUFFICES ASSUME IInv, Next, NEW c \in Connections,
                      Present(c), conn[c].status = "disabled", conn'[c] # conn[c]
               PROVE  conn'[c] = Absent \/ conn'[c].status = "disabled" \/ Enable(c)
    OBVIOUS
  <2>1. conn \in [Connections -> Row \cup {Absent}] /\ GoodRow(conn[c])
    BY DEF IInv, GoodRow, Present
  <2>2. PICK d \in Connections :
           \/ conn' = [conn EXCEPT ![d] = NewRow] /\ ~Present(d)
           \/ conn' = [conn EXCEPT ![d] = Absent]
           \/ Present(d) /\ \E new \in Successors(conn[d]) : conn' = [conn EXCEPT ![d] = new]
    BY StepWritesOneRow
  <2>3. d = c
    BY <2>1, <2>2
  <2>4. CASE conn' = [conn EXCEPT ![c] = Absent]
    BY <2>1, <2>4
  <2>5. CASE \E new \in Successors(conn[c]) : conn' = [conn EXCEPT ![c] = new]
    <3>1. PICK new \in Successors(conn[c]) : conn' = [conn EXCEPT ![c] = new]
      BY <2>5
    <3>2. conn'[c] = new
      BY <2>1, <3>1
    <3>3. CASE new.status = "disabled"
      BY <3>2, <3>3
    <3>4. CASE new = SetEnabled(conn[c], TRUE)
      BY <3>1, <3>4 DEF Enable, Set
    <3>5. new.status = "disabled" \/ new = SetEnabled(conn[c], TRUE)
      BY <2>1, SuccessorsRespect
    <3>6. QED
      BY <3>3, <3>4, <3>5
  <2>6. QED
    BY <2>2, <2>3, <2>4, <2>5
<1>2. QED
  BY <1>1, Invariance, PTL DEF Spec, DisabledIsSticky

\* A connection that waits for a new token is not hidden behind a later
\* transient failure (rule W4, "reauth_required is not masked").
THEOREM ReauthVisible == Spec => ReauthNotMasked
<1>1. IInv /\ [Next]_conn =>
      [\A c \in Connections :
         (Present(c) /\ conn[c].status = "reauth_required" /\ conn'[c] # Absent) =>
           \/ conn'[c].failures = 0
           \/ conn'[c].status \in {"reauth_required", "disabled"}]_conn
  <2> SUFFICES ASSUME IInv, Next, NEW c \in Connections,
                      Present(c), conn[c].status = "reauth_required", conn'[c] # Absent
               PROVE  conn'[c].failures = 0 \/ conn'[c].status \in {"reauth_required", "disabled"}
    OBVIOUS
  <2>1. conn \in [Connections -> Row \cup {Absent}] /\ GoodRow(conn[c])
    BY DEF IInv, GoodRow, Present
  <2>2. CASE conn'[c] = conn[c]
    BY <2>2
  <2>3. CASE conn'[c] # conn[c]
    <3>1. PICK new \in Successors(conn[c]) : conn' = [conn EXCEPT ![c] = new]
      BY <2>1, <2>3, StepWritesOneRow
    <3>2. conn'[c] = new
      BY <2>1, <3>1
    <3>3. QED
      BY <2>1, <3>2, SuccessorsRespect
  <2>4. QED
    BY <2>2, <2>3
<1>2. QED
  BY <1>1, Invariance, PTL DEF Spec, ReauthNotMasked
=============================================================================
