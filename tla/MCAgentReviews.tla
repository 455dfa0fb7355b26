--------------------------- MODULE MCAgentReviews ---------------------------
(* Instances of AgentReviews for TLC.                                         *)
EXTENDS AgentReviews, TLC

\* Runs, threads and reviewers are interchangeable.
Interchangeable ==
  Permutations(Runs) \cup Permutations(Threads) \cup Permutations(Reviewers)

=============================================================================
