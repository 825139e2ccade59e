---------------------------- MODULE MCJobStream -----------------------------
(* JobStream with two refreshes of any kind and a clock of four ticks: the   *)
(* cooldown is one tick, and a job is old after one.                         *)
EXTENDS JobStream
=============================================================================
