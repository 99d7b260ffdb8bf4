---- MODULE MCIngestQueue ----
EXTENDS IngestQueue, TLC
Symmetry == Permutations(Workers) \cup Permutations(Units)
====
