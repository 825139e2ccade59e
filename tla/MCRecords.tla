------------------------------ MODULE MCRecords -----------------------------
(* Records with two ingests at a time, two organizations and six statements:         *)
(*   d1  trades and lots of two new conids, two lots that are siblings, a rolled-up  *)
(*       and a stored cash transaction whose conid nobody has created yet;           *)
(*   d2  the same conids in another order, a third sibling, a shadow account, an     *)
(*       element that is ignored; it seals its year;                                 *)
(*   d3  a transfer that creates the conid of that cash transaction, which comes     *)
(*       again without conid; a lot without transaction id;                          *)
(*   d4  a trade without asset class, d5 an accrual that alone brings a conid;       *)
(*   d6  an open position that creates that conid, two trades without id, and the    *)
(*       cash transaction again;                                                     *)
(* two TRM runs over three ranges, and two requests on two accounts and one grant.   *)
EXTENDS Records, TLC

CONSTANTS
  o1, o2, p1, p2, c1, c2, c3, i1, k1, k2, k3, k4, k5, k6, d1, d2, d3, d4, d5, d6, y,
  none, dash, q1, q2, x1, x2

element(tag, account, key, val, conid, has) ==
  [tag |-> tag, account |-> account, key |-> key, val |-> val, conid |-> conid, isin |-> i1, peer |-> 7,
   level |-> CASE tag = "OpenPosition" -> "LOT" [] tag = "Lot" -> "CLOSED_LOT" [] OTHER -> "DETAIL",
   has |-> has \cup {"date", "tx"}]

security == {"asset", "conid"}

MCContent == [d \in {d1, d2, d3, d4, d5, d6} |->
  CASE d = d1 -> <<element("Trade", 2, k1, 1, c1, security \cup {"isin"}),
                   element("Trade", 1, k2, 1, c2, security),
                   element("Lot", 1, k3, 1, c1, security), element("Lot", 1, k3, 2, c1, security),
                   [element("CashTransaction", dash, k4, 9, none, {}) EXCEPT !.level = "SUMMARY"],
                   element("CashTransaction", 1, k4, 1, c3, {"conid"})>>
    [] d = d2 -> <<element("Trade", 1, k5, 1, c2, security),
                   element("Trade", 2, k6, 1, c1, security \cup {"isin"}),
                   element("ClosedLot", 1, k3, 3, c1, security),
                   element("CashTransaction", 9, k5, 1, none, {}),
                   element("Ignored", 1, k1, 1, none, {})>>
    [] d = d3 -> <<element("Transfer", 1, k1, 1, c3, security \cup {"peer"}),
                   element("CashTransaction", 1, k4, 1, none, {}),
                   [element("ClosedLot", 1, k3, 1, c1, security) EXCEPT !.has = @ \ {"tx"}],
                   element("OpenDividendAccrual", dash, k1, 1, none, {})>>
    [] d = d4 -> <<element("Trade", 1, k1, 1, c1, {"conid"})>>
    [] d = d5 -> <<element("OpenDividendAccrual", 1, k1, 1, c3, {"conid"}),
                   element("Transfer", 1, k2, 1, none, {"asset", "cash"})>>
    [] OTHER  -> <<element("OpenPosition", 1, k1, 1, c3, security \cup {"reportDate"}),
                   [element("Trade", 1, k1, 1, c3, security) EXCEPT !.has = @ \ {"tx"}],
                   [element("Trade", 1, k2, 1, c3, security) EXCEPT !.has = @ \ {"tx"}],
                   element("CashTransaction", 1, k4, 1, c3, {"conid"})>>]

MCYearOf == [d \in Docs |-> y]

\* A term that is past when it is given, and one to come.
MCTerms == {<<1, 5>>, <<3, 5>>}

Symmetry ==
  Permutations({o1, o2}) \cup Permutations({p1, p2}) \cup Permutations({q1, q2}) \cup Permutations({x1, x2})
=============================================================================
