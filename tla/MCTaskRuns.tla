----------------------------- MODULE MCTaskRuns -----------------------------
(* Instances of TaskRuns for TLC: the sets are model values of the cfg.     *)
EXTENDS TaskRuns, TLC

\* Calls, documents and workers are interchangeable; only for safety runs.
Symmetric == Permutations(Calls) \cup Permutations(Docs) \cup Permutations(Workers)

=============================================================================
