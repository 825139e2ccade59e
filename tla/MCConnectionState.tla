------------------------- MODULE MCConnectionState --------------------------
(* ConnectionState on two connections and two failure texts; failures are   *)
(* counted to twice the threshold, so that every status meets every counter. *)
EXTENDS ConnectionState
=============================================================================
