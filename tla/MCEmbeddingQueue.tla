-------------------------- MODULE MCEmbeddingQueue --------------------------
EXTENDS EmbeddingQueue, TLC

\* Transactions, texts and commands are interchangeable.
Symmetry == Permutations(Tx) \cup Permutations(Text) \cup Permutations(Worker)
=============================================================================
