---------------------------- MODULE JobLifecycle ----------------------------
(***************************************************************************)
(* What the embedding queue promises about one job, whoever works on it    *)
(* and however often a command dies (docs/EMBEDDINGS.md, "Job states"):    *)
(* pending, then running, then done, deferred back to pending, or failed;  *)
(* an outcome is only ever recorded for a job that is running.             *)
(***************************************************************************)
CONSTANT Tx
VARIABLE status    \* [Tx -> {"absent", "pending", "running", "done", "failed"}]

Init == status = [t \in Tx |-> "absent"]

\* The jobs of S move, together, from a state in From to one in To.
Move(S, From, To) ==
  /\ S # {}
  /\ \A t \in S : status[t] \in From
  /\ \E to \in [S -> To] : status' = [t \in Tx |-> IF t \in S THEN to[t] ELSE status[t]]

Enqueue(S) == Move(S, {"absent", "done", "failed"}, {"pending"})
ClaimJobs(S) == Move(S, {"pending", "running"}, {"running"})
Settle(S)  == Move(S, {"running"}, {"done", "pending", "failed"})
Cancel(S)  == Move(S, {"pending", "running", "done", "failed"}, {"absent"})

Next == \E S \in SUBSET Tx : Enqueue(S) \/ ClaimJobs(S) \/ Settle(S) \/ Cancel(S)
Spec == Init /\ [][Next]_status
=============================================================================
