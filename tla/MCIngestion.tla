---------------------------- MODULE MCIngestion ----------------------------
(* TLC instance of Ingestion: readings that share a reference, and readings without one. *)
EXTENDS Ingestion, TLC

CONSTANT Shared    \* the reference all readings of a message carry, or None
MCRefOf == [p \in Reading |-> Shared]
Symmetry == Permutations(Msg) \cup Permutations(Reading)
=============================================================================
