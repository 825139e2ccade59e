-------------------------- MODULE ConnectionRecord --------------------------
(***************************************************************************)
(* The columns of one row of table connections that describe its health,   *)
(* and the five functions of ingest/connection_state.py, the only door     *)
(* through which status changes.  Each function takes the in-memory ORM    *)
(* object and returns it as it stands afterwards; who persists it, and     *)
(* when, is the caller's business (modules ConnectionState and FlexRun).   *)
(*                                                                         *)
(* last_sync_at is left out: every sync event overwrites it with the       *)
(* current time and nothing of what is modelled reads it.                  *)
(***************************************************************************)
EXTENDS Naturals

CONSTANTS
  DegradedThreshold,   \* transient failures in a row that make a connection degraded
  Reasons,             \* the failure texts a sync can leave in status_reason
  NoReason             \* status_reason IS NULL

ASSUME ThresholdAssumption == DegradedThreshold \in Nat \ {0}
ASSUME ReasonAssumption == NoReason \notin Reasons

Status == {"active", "degraded", "reauth_required", "disabled"}

\* last_sync_status is NULL ("none") until the first sync event.
SyncStatus == {"none", "ok", "failed"}

Row == [status   : Status,
        reason   : Reasons \cup {NoReason},
        failures : Nat,
        lastSync : SyncStatus]

\* The column defaults an INSERT leaves.
NewRow == [status |-> "active", reason |-> NoReason, failures |-> 0, lastSync |-> "none"]

\* Every transition but set_enabled keeps a disabled connection disabled.
Unless(status, c) == IF c.status = "disabled" THEN c.status ELSE status

\* Mutant: a success only pays back one failure.
MarkSyncOkDecrements(c) ==
  [status |-> Unless("active", c), reason |-> NoReason, failures |-> c.failures - 1,
   lastSync |-> "ok"]

\* Mutant: a success revives a disabled connection.
MarkSyncOkRevives(c) ==
  [status |-> "active", reason |-> NoReason, failures |-> 0, lastSync |-> "ok"]

MarkSyncOk(c) ==
  [status |-> Unless("active", c), reason |-> NoReason, failures |-> 0, lastSync |-> "ok"]

MarkAuthFailed(c, why) ==
  [status   |-> Unless("reauth_required", c),
   reason   |-> why,
   failures |-> c.failures + 1,
   lastSync |-> "failed"]

\* Mutant: the guard forgets reauth_required.
MarkSyncFailedMasks(c, why) ==
  [status   |-> IF c.failures + 1 >= DegradedThreshold THEN Unless("degraded", c) ELSE c.status,
   reason   |-> why,
   failures |-> c.failures + 1,
   lastSync |-> "failed"]

MarkSyncFailed(c, why) ==
  LET degrades == /\ c.status \notin {"disabled", "reauth_required"}
                  /\ c.failures + 1 >= DegradedThreshold
  IN  [status   |-> IF degrades THEN "degraded" ELSE c.status,
       reason   |-> why,
       failures |-> c.failures + 1,
       lastSync |-> "failed"]

\* Mutant: a rotation reactivates the connection and keeps its failures.
MarkRotatedKeepsFailures(c) ==
  [status |-> Unless("active", c), reason |-> NoReason, failures |-> c.failures,
   lastSync |-> c.lastSync]

MarkRotated(c) ==
  [status |-> Unless("active", c), reason |-> NoReason, failures |-> 0,
   lastSync |-> c.lastSync]

\* Mutant: enabling keeps the reason of the failures it forgives.
SetEnabledKeepsReason(c, enabled) ==
  IF enabled
  THEN [c EXCEPT !.status = "active", !.failures = 0]
  ELSE [c EXCEPT !.status = "disabled"]

SetEnabled(c, enabled) ==
  IF enabled
  THEN [c EXCEPT !.status = "active", !.failures = 0, !.reason = NoReason]
  ELSE [c EXCEPT !.status = "disabled"]
=============================================================================
