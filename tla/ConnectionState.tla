-------------------------- MODULE ConnectionState ---------------------------
(***************************************************************************)
(* The state machine rule W4 promises for the connections of one           *)
(* organization: every sync event, token rotation, enable and disable is   *)
(* one atomic read-modify-write of the row.  It is the abstract            *)
(* specification: module FlexRun has the reads, waits and writes of the    *)
(* real callers and says when they still amount to these steps.            *)
(***************************************************************************)
EXTENDS ConnectionRecord

CONSTANTS
  Connections,   \* ids of table connections
  Absent,        \* no row with this id (not created yet, or deleted)
  MaxFailures    \* bound on consecutive_failures, unbounded in the code

ASSUME AbsentAssumption == Absent \notin Row

VARIABLE conn    \* [Connections -> Row, or Absent]

Present(c) == conn[c] # Absent

Set(c, row) == conn' = [conn EXCEPT ![c] = row]

Init == conn = [c \in Connections |-> Absent]

\* POST /connections, and the first save of wizard step 1.
Create(c) == ~Present(c) /\ Set(c, NewRow)

SyncOk(c) == Present(c) /\ Set(c, MarkSyncOk(conn[c]))

AuthFailed(c, why) ==
  /\ Present(c)
  /\ conn[c].failures < MaxFailures
  /\ Set(c, MarkAuthFailed(conn[c], why))

SyncFailed(c, why) ==
  /\ Present(c)
  /\ conn[c].failures < MaxFailures
  /\ Set(c, MarkSyncFailed(conn[c], why))

\* POST /connections/{id}/rotate-token, and every later save of wizard step 1.
Rotate(c) == Present(c) /\ Set(c, MarkRotated(conn[c]))

Enable(c) == Present(c) /\ Set(c, SetEnabled(conn[c], TRUE))

Disable(c) == Present(c) /\ Set(c, SetEnabled(conn[c], FALSE))

Delete(c) == Present(c) /\ Set(c, Absent)

\* What a flex run or a wizard detection may do to the row of c.
SyncEvent(c) ==
  \/ SyncOk(c)
  \/ \E why \in Reasons : AuthFailed(c, why)
  \/ \E why \in Reasons : SyncFailed(c, why)

\* What a user may do to it through the API.
UserEvent(c) == Create(c) \/ Rotate(c) \/ Enable(c) \/ Disable(c) \/ Delete(c)

Next == \E c \in Connections : SyncEvent(c) \/ UserEvent(c)

Spec == Init /\ [][Next]_conn

-----------------------------------------------------------------------------
(* Properties *)

TypeOK == conn \in [Connections -> Row \cup {Absent}]

\* One row's status says what its failure counter says: an active connection
\* is below the threshold, a degraded one has reached it, and reauth_required
\* always stands for a failure that has not been answered yet.
StatusAgrees(row) ==
  /\ row.status = "active" => row.failures < DegradedThreshold
  /\ row.status = "degraded" => row.failures >= DegradedThreshold
  /\ row.status = "reauth_required" => row.failures > 0

\* The columns the health banner shows together tell one story: there is a
\* reason exactly while failures are counted, and none after a good sync.
HealthAgrees(row) ==
  /\ row.reason = NoReason <=> row.failures = 0
  /\ row.lastSync = "ok" => row.failures = 0

\* Whatever the order of syncs, rotations, enables and disables, the status of
\* a connection agrees with its counter of consecutive failures (rule W4 of
\* connection_state.py, shared with the health banner).
ThresholdInv == \A c \in Connections : Present(c) => StatusAgrees(conn[c])

\* Whatever the order of events, status_reason and last_sync_status never
\* contradict consecutive_failures.
HealthInv == \A c \in Connections : Present(c) => HealthAgrees(conn[c])

\* A disabled connection leaves that status only because a user enables or
\* deletes it: no sync, rotation or earlier failure brings it back.
DisabledIsSticky ==
  [][\A c \in Connections :
       (Present(c) /\ conn[c].status = "disabled" /\ conn'[c] # conn[c]) =>
         \/ conn'[c] = Absent
         \/ conn'[c].status = "disabled"
         \/ Enable(c)]_conn

\* A connection that waits for a new token is not hidden behind a later
\* transient failure: while the failure counter does not fall back to zero it
\* stays reauth_required, unless a user disables or deletes it.
ReauthNotMasked ==
  [][\A c \in Connections :
       (Present(c) /\ conn[c].status = "reauth_required" /\ conn'[c] # Absent) =>
         \/ conn'[c].failures = 0
         \/ conn'[c].status \in {"reauth_required", "disabled"}]_conn
=============================================================================
