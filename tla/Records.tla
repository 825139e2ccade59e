-------------------------------- MODULE Records -----------------------------
(***************************************************************************)
(* FactStore, TrmIngest and DatedLedger in one database.  They share no    *)
(* table and no lock: a behaviour is one of any of them.                   *)
(***************************************************************************)
EXTENDS FactStore

CONSTANTS
  Runs, PageLimit, MaxRows, MaxVersion, MaxRuns,                                   \* of TrmIngest
  Requests, Accounts, Shares, Terms, LastDay, MaxGrants, MaxRequests               \* of DatedLedger

VARIABLES
  source, days, imports, lock, tpc, since, page, tbegun, taken,                    \* of TrmIngest
  today, shares, grants, lpc, kind, at, wanted, ltodo, read, lmine, lbegun, lalone,  \* of DatedLedger
  component    \* the one whose behaviour it is

ASSUME TrmAssumption ==
  /\ None \notin Runs
  /\ PageLimit \in Nat /\ MaxVersion \in Nat \ {0}

ASSUME LedgerAssumption ==
  IsFiniteSet(Accounts) /\ LastDay \in Nat \ {0} /\ Terms \subseteq Nat \X Nat

Trm == INSTANCE TrmIngest WITH pc <- tpc, begun <- tbegun

Ledger == INSTANCE DatedLedger WITH
  pc <- lpc, todo <- ltodo, mine <- lmine, begun <- lbegun, alone <- lalone

trmVars == <<source, days, imports, lock, tpc, since, page, tbegun, taken>>
ledgerVars == <<today, shares, grants, lpc, kind, at, wanted, ltodo, read, lmine, lbegun, lalone>>
recordVars == <<vars, trmVars, ledgerVars, component>>

RecordsInit ==
  /\ Init /\ Trm!Init /\ Ledger!Init
  /\ component \in {"facts", "trm", "ledger"}

FactStep == component = "facts" /\ Next /\ UNCHANGED <<trmVars, ledgerVars, component>>
TrmStep == component = "trm" /\ Trm!Next /\ UNCHANGED <<vars, ledgerVars, component>>
LedgerStep == component = "ledger" /\ Ledger!Next /\ UNCHANGED <<vars, trmVars, component>>

RecordsNext == FactStep \/ TrmStep \/ LedgerStep

RecordsSpec == RecordsInit /\ [][RecordsNext]_recordVars

-----------------------------------------------------------------------------
(* Properties *)

\* The type invariants of the three modules.
RecordsTypeOK == TypeOK /\ Trm!TypeOK /\ Ledger!TypeOK

\* The property of TrmIngest, stated there: the stored rates follow the dataset.
RatesFollowSource == Trm!RatesFollowSource

\* The property of DatedLedger, stated there: a save or a revocation leaves history alone.
HistoryStands == Ledger!HistoryStands
=============================================================================
