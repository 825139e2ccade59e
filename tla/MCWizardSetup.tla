--------------------------- MODULE MCWizardSetup ----------------------------
(* WizardSetup with two requests at a time; two rolling statements of one year,  *)
(* a sealed one of the year before and one that does not parse; two accounts and *)
(* a shadow account.                                                             *)
EXTENDS WizardSetup

CONSTANTS r1, r2, a, b, s, bad, acc1, acc2, accF, y1, y2

MCYearOf == [d \in {a, b, s, bad} |-> IF d = s THEN y1 ELSE y2]
MCAccountsOf ==
  [d \in {a, b, s, bad} |-> CASE d = a -> {acc1, accF}
                              [] d = b -> {acc2}
                              [] d = s -> {acc1, acc2}
                              [] OTHER -> {}]
MCStatementOf == [i \in 1..MaxConnections |-> IF i = 1 THEN a ELSE b]
=============================================================================
