-------------------------- MODULE MCStatementVault --------------------------
(* TLC instance of StatementVault: one mail, whose PDF is locked and lists one purchase;  *)
(* the same PDF, a readable one without purchases, with which the validator is not        *)
(* content, and a broken one to upload.                                                   *)
EXTENDS StatementVault

CONSTANTS a1, p1, p2, p3, acc, l1
MCPdfOf     == [a \in Att |-> p1]
MCKindOf    == [p \in Pdf |-> CASE p = p1 -> "locked" [] p = p2 -> "plain" [] OTHER -> "broken"]
MCKeyOf     == [p \in Pdf |-> CHOOSE k \in Key : TRUE]
MCAccountOf == [a \in Att |-> acc]
MCCardIn    == [p \in Pdf |-> None]
MCLinesOf   == [p \in Pdf |-> IF p = p1 THEN {l1} ELSE {}]
MCReadsAs   == [p \in Pdf |-> IF p = p1 THEN "VALIDATED" ELSE "VALIDATION_FAILED"]
=============================================================================
