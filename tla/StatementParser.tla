--------------------------- MODULE StatementParser --------------------------
(***************************************************************************)
(* ingest/flex/parser.py: which elements of an XML statement become rows,  *)
(* which are passed over, and which make the parser refuse all of it.      *)
(*                                                                         *)
(* A statement is a sequence of elements, in document order.  An element   *)
(* is a record:                                                            *)
(*   tag      the element's tag, or that of the section it stands for      *)
(*   level    its levelOfDetail                                            *)
(*   account  its accountId        peer   the other account of a transfer  *)
(*   key      what identifies it: transaction id, or tx id, time and qty   *)
(*   val      its amounts          conid, isin                             *)
(*   has      which of "date", "reportDate", "asset", "conid", "isin",     *)
(*            "tx", "peer" it carries; "cash" if its assetCategory is CASH *)
(* Conversions of dates and decimals, and the columns no property is       *)
(* about, are left out.                                                    *)
(***************************************************************************)
EXTENDS Naturals, Sequences

CONSTANTS
  Placeholder   \* accountId "-" or "": the row is a rollup over accounts

\* The tags of rows, or of the sections that hold them, and of what is known and ignored.
Accruals == {"ChangeInDividendAccrual", "OpenDividendAccrual"}
Handled == {"AccountInformation", "Trade", "Lot", "ClosedLot", "OpenPosition",
            "CashTransaction", "Transfer"} \cup Accruals
Ignored == {"Ignored"}

\* An element that is passed over, for being a rollup or having no date, makes no row and
\* no error; any other must carry what its row needs.
Read(e, rollup, needs) ==
  IF rollup \/ "date" \notin e.has THEN "skip" ELSE IF needs \subseteq e.has THEN "row" ELSE "error"

Security == {"asset", "conid"}

ParseTrade(e) == Read(e, FALSE, Security)
ParseLot(e) == Read(e, FALSE, Security)
ParseClosedLot(e) == Read(e, FALSE, Security)
ParseOpenPosition(e) == Read(e, e.level # "LOT", Security \cup {"reportDate"})
ParseCashTransaction(e) == Read(e, e.level = "SUMMARY", {})
ParseAccrual(e) == Read(e, e.account = Placeholder, {"conid"})
ParseTransfer(e) == Read(e, FALSE, IF "cash" \in e.has THEN {"asset"} ELSE Security)

\* The section of trades holds lots too, of several levels of detail.
ParseTrades(e) ==
  CASE e.tag = "Trade" -> ParseTrade(e) [] e.level = "CLOSED_LOT" -> ParseLot(e) [] OTHER -> "skip"

\* What becomes of an element: a tag nobody knows is an error.
ParseElement(e) ==
  CASE e.tag = "AccountInformation" -> "row"
    [] e.tag \in {"Trade", "Lot"}    -> ParseTrades(e)
    [] e.tag = "ClosedLot"          -> ParseClosedLot(e)
    [] e.tag = "OpenPosition"       -> ParseOpenPosition(e)
    [] e.tag = "CashTransaction"    -> ParseCashTransaction(e)
    [] e.tag = "Transfer"           -> ParseTransfer(e)
    [] e.tag \in Accruals           -> ParseAccrual(e)
    [] e.tag \in Ignored            -> "skip"
    [] OTHER                        -> "error"

\* Mutant: a row that lacks an attribute is passed over like one without a date.
RefusesUnknownTags(s) == \E i \in DOMAIN s : s[i].tag \notin Handled \cup Ignored

\* One error makes parse raise, and the whole statement is refused.
Refuses(s) == \E i \in DOMAIN s : ParseElement(s[i]) = "error"

\* The places of the elements that become rows of a ParsedXML.
Parse(s) == {i \in DOMAIN s : ParseElement(s[i]) = "row"}
=============================================================================
