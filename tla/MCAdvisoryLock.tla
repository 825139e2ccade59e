--------------------------- MODULE MCAdvisoryLock ---------------------------
(* AdvisoryLock for one organization: its cron, two manual runs and two API  *)
(* requests, a shared pool that keeps one idle session and may open a second. *)
EXTENDS AdvisoryLock

CONSTANTS cron, m1, m2, q1, q2, own, shared, s0, s1, s2, flex

MCEngineOf == [p \in {cron, m1, m2, q1, q2} |-> IF p = cron THEN own ELSE shared]
MCHomeOf == [s \in {s0, s1, s2} |-> IF s = s0 THEN own ELSE shared]
MCKeyOf == [r \in {cron, m1, m2} |-> flex]
=============================================================================
