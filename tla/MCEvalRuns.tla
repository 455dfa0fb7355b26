------------------------------ MODULE MCEvalRuns ------------------------------
(* Instances of EvalRuns for TLC.                                           *)
EXTENDS EvalRuns, TLC

Good ==
  [rank |-> 1, marks |-> <<TRUE, FALSE>>, keywords |-> 2, found |-> 2, named |-> TRUE,
   confident |-> TRUE, reply |-> "verdict", correct |-> TRUE, faithful |-> 153,
   usage |-> "readable"]

\* The evidence comes second and is half of it; the judge says no, but its token counts
\* are garbled, and the keywords decide.
Late ==
  [Good EXCEPT !.rank = 2, !.marks = <<FALSE, TRUE>>, !.found = 1, !.correct = FALSE,
               !.usage = "unreadable"]

Unsure == [Good EXCEPT !.marks = <<TRUE, TRUE>>, !.confident = FALSE]

\* Nothing cited and not the words expected; the judge is pleased beyond 1.0.
Ungrounded ==
  [Good EXCEPT !.rank = 0, !.marks = <<>>, !.found = 0, !.named = FALSE, !.faithful = 200]

\* The reply ends the run.
Broken == [Good EXCEPT !.usage = "no object"]

MCCases == {Good, Late, Unsure, Ungrounded, Broken}

Interchangeable == Permutations(Callers)

=============================================================================
