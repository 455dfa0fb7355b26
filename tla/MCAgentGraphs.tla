--------------------------- MODULE MCAgentGraphs ---------------------------
(* Instances of AgentGraphs for TLC.                                          *)
EXTENDS AgentGraphs

NoSignals == [c \in 1..4 |-> 0]

\* The strategies disagree, or have nothing to say, about a question without signals.
Unclear ==
  [labels : {{}, {"anomaly", "policy"}}, nearest : {"none", "ticket"},
   words : {{}, {"policy"}}, signals : {NoSignals}]

\* All numbers of hits up to two in each category, in questions the router takes
\* for an anomaly.
Hit ==
  [labels : {{"anomaly"}}, nearest : {"none"}, words : {{"anomaly"}, {"policy"}},
   signals : [1..4 -> 0..2]]

SmallQuestions == {q \in Unclear \cup Hit : Consistent(q)}

\* Each amount is on another side of a threshold.
SmallTickets ==
  [expense : {"hotel", "other"}, amount : {1000, 1001, 5001}, identified : BOOLEAN]

=============================================================================
