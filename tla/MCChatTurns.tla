---------------------------- MODULE MCChatTurns -----------------------------
(* Instances of ChatTurns for TLC.                                           *)
EXTENDS ChatTurns, TLC

CONSTANTS e1, e2, p1, t1, q1

\* The first pack is enough for the low threshold only.
Scores == (e1 :> 1) @@ (e2 :> 2)

Saved == {[threshold |-> 1, window |-> 2], [threshold |-> 2, window |-> 1]}

Start ==
  [corpus |-> [q \in Questions |-> e1], prompt |-> p1,
   settings |-> [threshold |-> 1, window |-> 2]]

\* Either turn may begin first: the pairs make every two kinds meet, but for two calls;
\* of two asks one has a blank question.
Requests ==
  [t \in Turns |->
    IF t = t1 THEN [kind : {"ask", "stream"}, question : {q1}]
    ELSE {[kind |-> "stream", question |-> q1], [kind |-> "call", question |-> q1],
          [kind |-> "ask", question |-> Empty]}]

=============================================================================
