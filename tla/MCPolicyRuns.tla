---------------------------- MODULE MCPolicyRuns ----------------------------
(* Instances of PolicyRuns for TLC.                                          *)
EXTENDS PolicyRuns, TLC

CONSTANTS r1, r2

Ask(domains, topics) == [matches |-> domains, topics |-> topics]

\* One run with a question of two profiles or of none, one with a question of one
\* profile that has a topic of its own, or of none.
Asked ==
  [r \in Runs |->
    {Ask({}, {}),
     IF r = r1 THEN Ask({"hotel", "flight"}, {})
     ELSE Ask({"flight"}, {<<"flight", "approval_requirement">>})}]

=============================================================================
