--------------------------- MODULE MCImportStore ----------------------------
(* ImportStore with two uploads and a fetch; four statements of one year: a    *)
(* rolling one with both keys, a rolling one with a newer value of one key, a  *)
(* sealed one with a newer value of the other, and one that does not parse.    *)
EXTENDS ImportStore

CONSTANTS u1, u2, f, a, b, c, bad, k1, k2, v1, v2, y

MCYearOf == [d \in {a, b, c, bad} |-> y]
MCRowOf ==
  [d \in {a, b, c, bad} |->
     [k \in {k1, k2} |-> CASE d = a -> v1
                           [] d = b /\ k = k1 -> v2
                           [] d = c /\ k = k2 -> v2
                           [] OTHER -> NoValue]]
=============================================================================
