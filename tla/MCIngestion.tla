---------------------------- MODULE MCIngestion ----------------------------
(* Instances of Ingestion for TLC.                                          *)
EXTENDS Ingestion, TLC

CONSTANTS pA, pB, pC, pG

\* From pA, pB differs in the model, pC in the length and pG in the gateway only.
Lengths == [p \in Profiles |-> IF p = pC THEN 2 ELSE 1]
Names   == [p \in Profiles |-> IF p = pB THEN "other" ELSE "same"]

\* Documents, chunk ids and jobs are interchangeable; only for safety runs.
Interchangeable == Permutations(Docs) \cup Permutations(Chunks) \cup Permutations(Jobs)

=============================================================================
