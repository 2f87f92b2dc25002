------------------------- MODULE StatementLifecycle -------------------------
(***************************************************************************)
(* What the vault promises about a statement's readings: nothing is read   *)
(* from a statement that has not been opened, what is open stays open, and *)
(* a verdict is passed only on a reading that was begun, once per reading. *)
(***************************************************************************)
CONSTANT Statements
VARIABLES open,      \* the statements that have been unlocked
          reading,   \* the ones being read
          judged     \* the ones with a verdict

vars == <<open, reading, judged>>

Init == open = {} /\ reading = {} /\ judged = {}

\* Unlocking, again too, discards what was read.
Open(i) == open' = open \cup {i} /\ reading' = reading \ {i} /\ judged' = judged \ {i}

Begin(i) == /\ i \in open
            /\ reading' = reading \cup {i} /\ judged' = judged \ {i}
            /\ UNCHANGED open

Judge(i) == /\ i \in reading
            /\ reading' = reading \ {i} /\ judged' = judged \cup {i}
            /\ UNCHANGED open

\* A reading that fails, or cannot be begun.
Fail(i) == /\ reading' = reading \ {i} /\ judged' = judged \ {i}
           /\ UNCHANGED open

Next == \E i \in Statements : Open(i) \/ Begin(i) \/ Judge(i) \/ Fail(i)
Spec == Init /\ [][Next]_vars
=============================================================================
