------------------------- MODULE MCPromptTemplates -------------------------
(* Instances of PromptSelection for TLC.                                    *)
EXTENDS PromptSelection, TLC

\* A bucket each for the first candidate, the second and neither.
MCBuckets == {0, 60, 99}

\* Rows and sessions are interchangeable.
Interchangeable == Permutations(Ids) \cup Permutations(Sessions)

=============================================================================
