---------------------------- MODULE GraphEngine ----------------------------
(* The loop of the in-house graph engine: it calls the node functions of one    *)
(* graph one after the other, counts them against a budget, and writes a        *)
(* numbered timeline.  A graph module gives the node functions; each of them    *)
(* passes the engine the node it returns and the events of its own.  No node of *)
(* this system pauses the run or names a node that is not registered, so those  *)
(* two ends of the loop are left out.                                           *)
EXTENDS Naturals, Sequences

VARIABLES
  node,   \* current_node; "" before the run and after its last node
  steps,  \* node functions that were called
  events, \* the timeline
  ended   \* why the run is over; "no" while it is not

engine == <<node, steps, events, ended>>

EngineInit == node = "" /\ steps = 0 /\ events = <<>> /\ ended = "no"

\* A node's own events carry the sequence number of whoever made them.
Event(type, name) == [sequence |-> 0, type |-> type, name |-> name]

\* Mutant: only the engine's own events are numbered.
NumberedOwn(new) ==
  [i \in 1..Len(new) |->
     IF new[i].type \in {"TOOL_CALL_START", "TOOL_CALL_END"} THEN new[i]
     ELSE [new[i] EXCEPT !.sequence = Len(events) + i - 1]]

\* The engine numbers all of them anew.
Numbered(new) ==
  [i \in 1..Len(new) |-> [new[i] EXCEPT !.sequence = Len(events) + i - 1]]

Emits(new) == events' = events \o Numbered(new)

Running(n) == ended = "no" /\ node = n

Spent(budget) == steps >= budget

\* The node function n returns: its successor, or "" to end the run.
Calls(n, budget, next, own) ==
  /\ Running(n) /\ ~Spent(budget)
  /\ steps' = steps + 1
  /\ node' = next
  /\ ended' = IF next = "" THEN "completed" ELSE "no"
  /\ Emits(<<Event("NODE_START", n)>> \o own \o <<Event("NODE_END", n)>>
           \o (IF next = "" THEN <<Event("GRAPH_END", "")>> ELSE <<>>))

\* It raises: the state stays what it was before the node.
Raises(n, budget) ==
  /\ Running(n) /\ ~Spent(budget)
  /\ steps' = steps + 1
  /\ node' = ""
  /\ ended' = "error"
  /\ Emits(<<Event("NODE_START", n), Event("NODE_ERROR", n)>>)

\* The budget is spent before the next node.
RunsDry(budget) ==
  /\ ended = "no" /\ node # "" /\ Spent(budget)
  /\ ended' = "max_steps"
  /\ node' = ""
  /\ steps' = steps
  /\ Emits(<<Event("GRAPH_MAX_STEPS", node)>>)

=============================================================================
