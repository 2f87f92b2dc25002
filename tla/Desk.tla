-------------------------------- MODULE Desk --------------------------------
(***************************************************************************)
(* The ledger from the side of those who look at it: the user who labels   *)
(* rows and keeps categories and bills, the ingestion that reads rows, AI  *)
(* providers that suggest labels, and the agent that reads and labels      *)
(* through its server, all over one database.                              *)
(***************************************************************************)
EXTENDS AgentServer

vars == <<taxonomy, rules, tx, dues, cited, left, advice, server, agent>>

Init == TaxonomyInit /\ AdviceInit /\ AgentInit

Next ==
  /\ \/ /\ \/ (Settings \/ Reading) /\ UNCHANGED <<advice, server, walk>>
           \/ (\E t \in Tx : Ask(t) \/ FallBack(t) \/ Answer(t)) /\ UNCHANGED <<server, walk>>
           \/ /\ \E t \in Tx, c \in Category, s \in Subcategory \cup {None} : Classify(t, c, s)
              /\ UNCHANGED <<server, walk>>
           \/ Calls
        /\ UNCHANGED dues
     \/ KeepDues /\ UNCHANGED <<advice, server, walk>>
  /\ Watched

Spec == Init /\ [][Next]_vars
=============================================================================
