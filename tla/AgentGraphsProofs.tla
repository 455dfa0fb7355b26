------------------------- MODULE AgentGraphsProofs --------------------------
(* Theorems about AgentGraphs, for every budget, every set of questions and     *)
(* tickets, and every setting of the router and the planner.                    *)
EXTENDS AgentGraphs, FiniteSetTheorems, TLAPS

-----------------------------------------------------------------------------
(* What a ReAct run answers *)

\* The calls of the ReAct graph; its act node never gets a completed call_agent.
ReactCall ==
  {c \in [tool : {"policy_search", "call_agent"}, status : Statuses,
          confident : BOOLEAN, number : Nat] :
     /\ c.tool = "call_agent" => c.status # "completed"
     /\ c.confident => c.status = "completed"}

\* The observations are the calls, except for the last one until it is observed.
Observed(n) ==
  /\ Len(pad.observations) = n
  /\ \A i \in 1..n : pad.observations[i] = tools[i]

\* Where a ReAct run is in its cycle, by the node that is next or the way it ended.
Cycle ==
  \/ /\ ended = "no" /\ node = "plan" /\ steps = 3 * Len(tools)
     /\ Observed(Len(tools))
  \/ /\ ended = "no" /\ node = "act" /\ steps = 3 * Len(tools) + 1
     /\ Observed(Len(tools)) /\ pad.plan \in {"policy_search", "call_agent"}
  \/ /\ ended = "no" /\ node = "observe" /\ steps = 3 * Len(tools) - 1
     /\ tools # <<>> /\ Observed(Len(tools) - 1)
  \/ /\ ended = "no" /\ node = "finalize" /\ steps = 3 * Len(tools) + 1
     /\ Observed(Len(tools))
  \/ ended = "completed" /\ node = "" /\ steps = 3 * Len(tools) + 2
  \/ ended = "error" /\ node = ""
  \/ ended = "max_steps" /\ node = "" /\ MaxReactSteps < 3 * Len(tools) + 2

ReactPad ==
  [plan : {"none", "policy_search", "call_agent", "finalize"},
   observations : Seq(ReactCall), lastStatus : Statuses \cup {"none"},
   queue : {"none"}, category : {0}, final : {"none", "refusal", "answer"},
   answer : Seq(ReactCall)]

ReactInv ==
  /\ steps \in Nat
  /\ tools \in Seq(ReactCall)
  /\ pad \in ReactPad
  /\ steps <= MaxReactSteps
  /\ pad.lastStatus = IF tools = <<>> THEN "none" ELSE tools[Len(tools)].status
  /\ pad.answer = <<>> \/ /\ ended = "completed" /\ tools # <<>>
                          /\ pad.answer = <<tools[Len(tools)]>>
                          /\ tools[Len(tools)].status = "completed"
  /\ Cycle

\* Nothing has happened before the ReAct graph starts.
Fresh == steps = 0 /\ tools = <<>> /\ pad = EmptyPad

GraphInv ==
  /\ agent \in {"none", "supervisor"} => Fresh
  /\ agent = "none" => ended = "no"
  /\ agent = "react" => ReactInv

LEMMA BudgetOfReact == agent = "react" => Budget = MaxReactSteps
  BY DEF Budget

LEMMA PlanKeeps == agent = "react" /\ ReactInv /\ PlanNode => ReactInv'
<1> SUFFICES ASSUME agent = "react", ReactInv, PlanNode PROVE ReactInv'
  OBVIOUS
<1> PICK plan \in Plans :
      /\ Calls("plan", MaxReactSteps, IF plan = "finalize" THEN "finalize" ELSE "act", <<>>)
      /\ pad' = [pad EXCEPT !.plan = plan]
  BY BudgetOfReact DEF PlanNode
<1>1. plan \in {"policy_search", "call_agent", "finalize"}
  BY DEF Plans, HardcodedFallback
<1>2. /\ ended = "no" /\ node = "plan" /\ ended' = "no"
      /\ node' = (IF plan = "finalize" THEN "finalize" ELSE "act")
      /\ steps' = steps + 1 /\ ~(steps >= MaxReactSteps)
      /\ tools' = tools
  BY DEF Calls, Running, Spent, PlanNode
<1>3. /\ pad' \in ReactPad /\ pad'.plan = plan
      /\ pad'.observations = pad.observations /\ pad'.lastStatus = pad.lastStatus
      /\ pad'.answer = pad.answer
  BY <1>1 DEF ReactInv, ReactPad
<1>4. steps = 3 * Len(tools) /\ Observed(Len(tools))
  BY <1>2 DEF ReactInv, Cycle
<1>5. Observed(Len(tools))'
  BY <1>2, <1>3, <1>4 DEF Observed
<1>6. Len(tools) \in Nat /\ steps \in Nat /\ MaxReactSteps \in Nat
  BY AgentAssumption DEF ReactInv
<1>7. Cycle'
  BY <1>1, <1>2, <1>3, <1>4, <1>5, <1>6 DEF Cycle
<1> QED
  BY <1>2, <1>3, <1>6, <1>7 DEF ReactInv

LEMMA ActKeeps == agent = "react" /\ ReactInv /\ ActNode => ReactInv'
<1> SUFFICES ASSUME agent = "react", ReactInv, ActNode PROVE ReactInv'
  OBVIOUS
<1> PICK status \in Returns(pad.plan), confident \in BOOLEAN :
      /\ confident => status = "completed"
      /\ tools' = Append(tools, [tool |-> pad.plan, status |-> status,
                                 confident |-> confident, number |-> Len(tools) + 1])
      /\ pad' = [pad EXCEPT !.lastStatus = status]
  BY DEF ActNode
<1> DEFINE call == [tool |-> pad.plan, status |-> status,
                    confident |-> confident, number |-> Len(tools) + 1]
<1>1. /\ ended = "no" /\ node = "act" /\ ended' = "no" /\ node' = "observe"
      /\ steps' = steps + 1 /\ ~(steps >= MaxReactSteps)
  BY BudgetOfReact DEF ActNode, Calls, Running, Spent
<1>2. /\ steps = 3 * Len(tools) + 1 /\ Observed(Len(tools))
      /\ pad.plan \in {"policy_search", "call_agent"}
  BY <1>1 DEF ReactInv, Cycle
<1>3. Len(tools) \in Nat /\ steps \in Nat /\ MaxReactSteps \in Nat /\ tools \in Seq(ReactCall)
  BY AgentAssumption DEF ReactInv
<1>4. status \in Statuses /\ (pad.plan = "call_agent" => status # "completed")
  BY <1>2 DEF Returns, Statuses
<1>5. call \in ReactCall
  BY <1>2, <1>3, <1>4 DEF ReactCall
<1>6. /\ tools' \in Seq(ReactCall) /\ Len(tools') = Len(tools) + 1
      /\ tools'[Len(tools) + 1] = call /\ tools' # <<>>
      /\ \A i \in 1..Len(tools) : tools'[i] = tools[i]
  <2>1. tools' = Append(tools, call)
    OBVIOUS
  <2> HIDE DEF call
  <2> QED
    BY <1>3, <1>5, <2>1
<1>7. /\ pad' \in ReactPad /\ pad'.lastStatus = status
      /\ pad'.observations = pad.observations /\ pad'.answer = pad.answer
  BY <1>4 DEF ReactInv, ReactPad
<1>8. Observed(Len(tools) - 1)'
  BY <1>2, <1>3, <1>6, <1>7 DEF Observed
<1>9. Cycle'
  BY <1>1, <1>2, <1>3, <1>6, <1>8 DEF Cycle
<1>10. pad.answer = <<>>
  BY <1>1 DEF ReactInv
<1> QED
  BY <1>1, <1>3, <1>6, <1>7, <1>9, <1>10 DEF ReactInv

LEMMA ObserveKeeps == agent = "react" /\ ReactInv /\ ObserveNode => ReactInv'
<1> SUFFICES ASSUME agent = "react", ReactInv, ObserveNode PROVE ReactInv'
  OBVIOUS
<1>1. /\ ended = "no" /\ node = "observe" /\ ended' = "no" /\ node' = "plan"
      /\ steps' = steps + 1 /\ ~(steps >= MaxReactSteps) /\ tools' = tools
  BY BudgetOfReact DEF ObserveNode, Calls, Running, Spent
<1>2. steps = 3 * Len(tools) - 1 /\ tools # <<>> /\ Observed(Len(tools) - 1)
  BY <1>1 DEF ReactInv, Cycle
<1>3. /\ Len(tools) \in Nat /\ steps \in Nat /\ MaxReactSteps \in Nat
      /\ tools \in Seq(ReactCall) /\ Last(tools) = tools[Len(tools)]
      /\ pad.observations \in Seq(ReactCall)
  BY AgentAssumption DEF ReactInv, ReactPad, Last
<1>4. Len(tools) >= 1 /\ tools[Len(tools)] \in ReactCall
  BY <1>2, <1>3
<1>5. pad' = [pad EXCEPT !.observations = Append(pad.observations, tools[Len(tools)])]
  BY <1>3 DEF ObserveNode
<1>6. Append(pad.observations, tools[Len(tools)]) \in Seq(ReactCall)
  BY <1>3, <1>4
<1>7. /\ pad' \in ReactPad
      /\ pad'.observations = Append(pad.observations, tools[Len(tools)])
      /\ pad'.lastStatus = pad.lastStatus /\ pad'.answer = pad.answer
  BY <1>5, <1>6 DEF ReactInv, ReactPad
<1>8. Observed(Len(tools))'
  <2>1. Len(pad.observations) = Len(tools) - 1
    BY <1>2 DEF Observed
  <2>2. /\ Len(pad'.observations) = Len(tools)
        /\ pad'.observations[Len(tools)] = tools[Len(tools)]
        /\ \A i \in 1..(Len(tools) - 1) : pad'.observations[i] = pad.observations[i]
    BY <1>3, <1>4, <1>7, <2>1
  <2>3. \A i \in 1..(Len(tools) - 1) : pad.observations[i] = tools[i]
    BY <1>2 DEF Observed
  <2>4. \A i \in 1..Len(tools) : i = Len(tools) \/ i \in 1..(Len(tools) - 1)
    BY <1>3
  <2> QED
    BY <1>1, <2>2, <2>3, <2>4 DEF Observed
<1>9. Cycle'
  BY <1>1, <1>2, <1>3, <1>8 DEF Cycle
<1>10. pad.answer = <<>>
  BY <1>1 DEF ReactInv
<1> QED
  BY <1>1, <1>3, <1>7, <1>9, <1>10 DEF ReactInv

\* The answer is the output of the last call, and that call completed.
LEMMA SynthesisIsLast ==
  ASSUME ReactInv, Observed(Len(tools))
  PROVE  \/ Synthesis = <<>>
         \/ /\ tools # <<>> /\ Synthesis = <<tools[Len(tools)]>>
            /\ tools[Len(tools)].status = "completed"
<1> SUFFICES ASSUME Synthesis # <<>>
    PROVE  /\ tools # <<>> /\ Synthesis = <<tools[Len(tools)]>>
           /\ tools[Len(tools)].status = "completed"
  OBVIOUS
<1>1. /\ pad.observations # <<>> /\ pad.lastStatus = "completed"
      /\ Synthesis = <<pad.observations[Len(pad.observations)]>>
  BY DEF Synthesis, Last
<1>2. tools \in Seq(ReactCall) /\ pad.observations \in Seq(ReactCall)
  BY DEF ReactInv, ReactPad
<1>3. Len(tools) >= 1 /\ tools # <<>>
  BY <1>1, <1>2 DEF Observed
<1>4. pad.observations[Len(pad.observations)] = tools[Len(tools)]
  BY <1>2, <1>3 DEF Observed
<1> QED
  BY <1>1, <1>3, <1>4 DEF ReactInv

LEMMA FinalizeKeeps == agent = "react" /\ ReactInv /\ FinalizeNode => ReactInv'
<1> SUFFICES ASSUME agent = "react", ReactInv, FinalizeNode PROVE ReactInv'
  OBVIOUS
<1>1. ended = "no" /\ node = "finalize" /\ ended' = "completed" /\ node' = ""
  BY DEF FinalizeNode, Calls, Running
<1>0. steps' = steps + 1 /\ ~(steps >= MaxReactSteps) /\ tools' = tools
  BY BudgetOfReact DEF FinalizeNode, Calls, Spent
<1>2. steps = 3 * Len(tools) + 1 /\ Observed(Len(tools))
  BY <1>1 DEF ReactInv, Cycle
<1>3. /\ Len(tools) \in Nat /\ steps \in Nat /\ MaxReactSteps \in Nat
      /\ tools \in Seq(ReactCall)
  BY AgentAssumption DEF ReactInv
<1>4. \/ Synthesis = <<>>
      \/ /\ tools # <<>> /\ Synthesis = <<tools[Len(tools)]>>
         /\ tools[Len(tools)].status = "completed"
  BY <1>2, SynthesisIsLast
<1>5. Synthesis \in Seq(ReactCall)
  <2>1. CASE Synthesis = <<>>
    BY <2>1
  <2>2. CASE tools # <<>> /\ Synthesis = <<tools[Len(tools)]>>
    <3>1. tools[Len(tools)] \in ReactCall
      BY <1>3, <2>2
    <3> QED
      BY <2>2, <3>1
  <2> QED
    BY <1>4, <2>1, <2>2
<1>6. /\ pad' \in ReactPad /\ pad'.answer = Synthesis
      /\ pad'.lastStatus = pad.lastStatus
  BY <1>5 DEF FinalizeNode, ReactInv, ReactPad
<1>7. Cycle'
  <2>1. steps' = 3 * Len(tools') + 2
    BY <1>0, <1>2, <1>3
  <2> QED
    BY <1>1, <2>1 DEF Cycle
<1>8. \/ pad'.answer = <<>>
      \/ /\ ended' = "completed" /\ tools' # <<>>
         /\ pad'.answer = <<tools'[Len(tools')]>>
         /\ tools'[Len(tools')].status = "completed"
  BY <1>0, <1>1, <1>4, <1>6
<1>9. steps' \in Nat /\ steps' <= MaxReactSteps
  BY <1>0, <1>3
<1>10. pad'.lastStatus = IF tools' = <<>> THEN "none" ELSE tools'[Len(tools')].status
  BY <1>0, <1>6 DEF ReactInv
<1> QED
  BY <1>0, <1>3, <1>6, <1>7, <1>8, <1>9, <1>10 DEF ReactInv

LEMMA PlanRaisesKeeps == agent = "react" /\ ReactInv /\ PlanRaises => ReactInv'
<1> SUFFICES ASSUME agent = "react", ReactInv, PlanRaises PROVE ReactInv'
  OBVIOUS
<1>1. ended = "no" /\ ended' = "error" /\ node' = ""
  BY DEF PlanRaises, Raises, Running
<1>0. /\ steps' = steps + 1 /\ ~(steps >= MaxReactSteps)
      /\ tools' = tools /\ pad' = pad
  BY BudgetOfReact DEF PlanRaises, Raises, Spent
<1>2. Cycle'
  BY <1>1 DEF Cycle
<1>3. steps \in Nat /\ MaxReactSteps \in Nat /\ pad.answer = <<>>
  BY <1>1, AgentAssumption DEF ReactInv
<1>4. steps' \in Nat /\ steps' <= MaxReactSteps
  BY <1>0, <1>3
<1> QED
  BY <1>0, <1>2, <1>3, <1>4 DEF ReactInv

LEMMA OutOfStepsKeeps == agent = "react" /\ ReactInv /\ OutOfSteps => ReactInv'
<1> SUFFICES ASSUME agent = "react", ReactInv, OutOfSteps PROVE ReactInv'
  OBVIOUS
<1>1. ended = "no" /\ ended' = "max_steps" /\ node' = ""
  BY DEF OutOfSteps, RunsDry
<1>0. /\ steps' = steps /\ steps >= MaxReactSteps
      /\ tools' = tools /\ pad' = pad
  BY BudgetOfReact DEF OutOfSteps, RunsDry, Spent
<1>2. Len(tools) \in Nat /\ steps \in Nat /\ MaxReactSteps \in Nat
  BY AgentAssumption DEF ReactInv
<1>3. steps < 3 * Len(tools) + 2
  <2>1. \/ steps = 3 * Len(tools) \/ steps = 3 * Len(tools) + 1
        \/ steps = 3 * Len(tools) - 1
    BY <1>1 DEF ReactInv, Cycle
  <2> QED
    BY <1>2, <2>1
<1>4. Cycle'
  <2>1. MaxReactSteps < 3 * Len(tools') + 2
    BY <1>0, <1>2, <1>3
  <2> QED
    BY <1>1, <2>1 DEF Cycle
<1>5. pad.answer = <<>>
  BY <1>1 DEF ReactInv
<1> QED
  BY <1>0, <1>2, <1>4, <1>5 DEF ReactInv

LEMMA ReactStarts == Fresh /\ SupervisorRaises => ReactInv'
<1> SUFFICES ASSUME Fresh, SupervisorRaises PROVE ReactInv'
  OBVIOUS
<1>1. /\ steps' = 0 /\ tools' = <<>> /\ pad' = EmptyPad
      /\ ended' = "no" /\ node' = "plan"
  BY DEF Fresh, SupervisorRaises
<1>2. EmptyPad \in ReactPad /\ EmptyPad.observations = <<>>
      /\ EmptyPad.lastStatus = "none" /\ EmptyPad.answer = <<>>
  BY DEF EmptyPad, ReactPad
<1>3. Observed(0)'
  BY <1>1, <1>2 DEF Observed
<1>4. Len(tools') = 0 /\ MaxReactSteps \in Nat
  BY <1>1, AgentAssumption
<1>5. Cycle'
  BY <1>1, <1>3, <1>4 DEF Cycle
<1> QED
  BY <1>1, <1>2, <1>4, <1>5 DEF ReactInv

LEMMA GraphInvKept == GraphInv /\ [Next]_vars => GraphInv'
<1> SUFFICES ASSUME GraphInv, [Next]_vars PROVE GraphInv'
  OBVIOUS
<1>1. CASE Route
  BY <1>1 DEF GraphInv, Fresh, Route, Routes, Chosen, Intents
<1>2. CASE SupervisorAnswers
  BY <1>2 DEF GraphInv, Fresh, SupervisorAnswers
<1>3. CASE SupervisorRaises
  BY <1>3, ReactStarts DEF GraphInv, SupervisorRaises
<1>4. CASE OutOfSteps
  BY <1>4, OutOfStepsKeeps DEF GraphInv, OutOfSteps
<1>5. CASE PlanNode
  BY <1>5, PlanKeeps DEF GraphInv, PlanNode
<1>6. CASE PlanRaises
  BY <1>6, PlanRaisesKeeps DEF GraphInv, PlanRaises
<1>7. CASE ActNode
  BY <1>7, ActKeeps DEF GraphInv, ActNode
<1>8. CASE ObserveNode
  BY <1>8, ObserveKeeps DEF GraphInv, ObserveNode
<1>9. CASE FinalizeNode
  BY <1>9, FinalizeKeeps DEF GraphInv, FinalizeNode
<1>10. CASE QueueLookupNode \/ OrderLookupNode \/ OrderLookupRaises \/ TicketFinalizeNode
  BY <1>10 DEF GraphInv, QueueLookupNode, OrderLookupNode, OrderLookupRaises,
               TicketFinalizeNode
<1>11. CASE ClassifyNode \/ RouteNode
  BY <1>11 DEF GraphInv, ClassifyNode, RouteNode
<1>12. CASE UNCHANGED vars
  BY <1>12 DEF GraphInv, ReactInv, Cycle, Observed, Fresh, vars, engine
<1> QED
  BY <1>1, <1>2, <1>3, <1>4, <1>5, <1>6, <1>7, <1>8, <1>9, <1>10, <1>11, <1>12 DEF Next

\* AnswerIsLastSearch, for every budget and whatever planner and tools do.
THEOREM AnswersAreLast == Spec => []AnswerIsLastSearch
<1>1. Init => GraphInv
  BY DEF Init, EngineInit, GraphInv, Fresh
<1>2. GraphInv => AnswerIsLastSearch
  <2> SUFFICES ASSUME GraphInv, agent = "react", Over
      PROVE  /\ \A k \in 1..Len(pad.answer) :
                  /\ ended = "completed"
                  /\ pad.answer[k] = Last(tools)
                  /\ pad.answer[k].tool = "policy_search"
                  /\ pad.answer[k].status = "completed"
             /\ ReactStatus = "completed" => Last(tools).confident
             /\ ended = "completed" => 3 * Len(tools) + 2 <= MaxReactSteps
             /\ ended = "max_steps" => 3 * Len(tools) + 2 > MaxReactSteps
    BY DEF AnswerIsLastSearch
  <2>1. ReactInv /\ Last(tools) = tools[Len(tools)]
    BY DEF GraphInv, Last
  <2>2. CASE pad.answer = <<>>
    <3>1. ReactStatus # "completed" /\ Len(pad.answer) = 0
      BY <2>2 DEF ReactStatus, Confident
    <3>2. Len(tools) \in Nat /\ steps \in Nat /\ MaxReactSteps \in Nat
      BY <2>1, AgentAssumption DEF ReactInv
    <3>3. ended = "completed" => steps = 3 * Len(tools) + 2 /\ steps <= MaxReactSteps
      BY <2>1 DEF ReactInv, Cycle
    <3>4. ended = "max_steps" => MaxReactSteps < 3 * Len(tools) + 2
      BY <2>1 DEF ReactInv, Cycle
    <3> QED
      BY <3>1, <3>2, <3>3, <3>4
  <2>3. CASE pad.answer # <<>>
    <3>1. /\ ended = "completed" /\ tools # <<>> /\ tools \in Seq(ReactCall)
          /\ pad.answer = <<tools[Len(tools)]>>
          /\ tools[Len(tools)].status = "completed"
      BY <2>1, <2>3 DEF ReactInv
    <3>2. tools[Len(tools)] \in ReactCall
      BY <3>1
    <3>3. tools[Len(tools)].tool = "policy_search"
      BY <3>1, <3>2 DEF ReactCall
    <3>4. 3 * Len(tools) + 2 <= MaxReactSteps
      BY <2>1, <3>1, AgentAssumption DEF ReactInv, Cycle
    <3>5. ReactStatus = "completed" => tools[Len(tools)].confident
      BY <3>1 DEF ReactStatus, Confident
    <3> QED
      BY <2>1, <3>1, <3>3, <3>4, <3>5
  <2> QED
    BY <2>2, <2>3
<1> QED
  BY <1>1, <1>2, GraphInvKept, PTL DEF Spec

-----------------------------------------------------------------------------
(* Tickets *)

TicketPad ==
  [plan : {"none"}, observations : {<<>>}, lastStatus : {"none"},
   queue : {"none", "finance-review", "senior-approval", "ops-review"},
   category : {0}, final : {"none", "finance-review", "senior-approval", "ops-review"},
   answer : {<<>>}]

LEMMA QueuesOfTickets ==
  ASSUME NEW t
  PROVE  QueueOf(t) \in {"finance-review", "senior-approval", "ops-review"}
  BY DEF QueueOf

\* What the ticket graph has decided, by the node that is next or the way it ended.
TicketStage ==
  \/ ended = "no" /\ node = "queue_lookup"
  \/ ended = "no" /\ node = "order_lookup" /\ pad.queue = QueueOf(TicketOf)
  \/ ended = "no" /\ node = "finalize" /\ pad.queue = QueueOf(TicketOf) /\ TicketOf.identified
  \/ ended = "completed" /\ pad.final = QueueOf(TicketOf) /\ TicketOf.identified
  \/ ended \in {"error", "max_steps"}

TicketInv ==
  /\ agent = "none" => pad = EmptyPad /\ ended = "no"
  /\ request.ticket # NoTicket => agent \in {"none", "ticket"}
  /\ agent = "ticket" => pad \in TicketPad /\ TicketStage

LEMMA TicketRouted == TicketInv /\ Route => TicketInv'
<1> SUFFICES ASSUME TicketInv, Route PROVE TicketInv'
  OBVIOUS
<1> PICK p \in Providers : \E i \in Routes(p) :
      /\ agent' = IF i = "policy" THEN "supervisor" ELSE i
      /\ node' = Entry[i]
  BY DEF Route
<1> PICK i \in Routes(p) : /\ agent' = IF i = "policy" THEN "supervisor" ELSE i
                           /\ node' = Entry[i]
  OBVIOUS
<1>1. i \in {"ticket", "anomaly", "policy"} /\ (request.ticket # NoTicket => i = "ticket")
  BY DEF Routes, Chosen, Intents
<1>2. pad' = EmptyPad /\ ended' = "no" /\ request' = request
  BY DEF Route, TicketInv
<1>3. i = "ticket" => node' = "queue_lookup"
  <2>1. Entry["ticket"] = "queue_lookup"
    BY Zenon DEF Entry
  <2> QED
    BY <2>1
<1>4. EmptyPad \in TicketPad
  BY DEF EmptyPad, TicketPad
<1>5. agent' = "ticket" => i = "ticket"
  BY <1>1
<1> QED
  BY <1>1, <1>2, <1>3, <1>4, <1>5 DEF TicketInv, TicketStage

LEMMA TicketInvKept == TicketInv /\ [Next]_vars => TicketInv'
<1> SUFFICES ASSUME TicketInv, [Next]_vars PROVE TicketInv'
  OBVIOUS
<1>1. CASE SupervisorAnswers \/ SupervisorRaises
  BY <1>1 DEF TicketInv, SupervisorAnswers, SupervisorRaises
<1>2. CASE PlanNode \/ PlanRaises \/ ActNode \/ ObserveNode \/ FinalizeNode
  BY <1>2 DEF TicketInv, PlanNode, PlanRaises, ActNode, ObserveNode, FinalizeNode
<1>3. CASE ClassifyNode \/ RouteNode
  BY <1>3 DEF TicketInv, ClassifyNode, RouteNode
<1>4. CASE OutOfSteps
  <2>1. ended' = "max_steps" /\ pad' = pad /\ request' = request /\ agent' = agent
        /\ agent # "none"
    BY <1>4 DEF OutOfSteps, RunsDry
  <2> QED
    BY <2>1 DEF TicketInv, TicketStage
<1>5. CASE QueueLookupNode
  <2>1. /\ ended' = "no" /\ node' = "order_lookup" /\ request' = request
        /\ agent = "ticket" /\ agent' = agent
        /\ pad' = [pad EXCEPT !.queue = QueueOf(TicketOf)]
    BY <1>5 DEF QueueLookupNode, Calls
  <2>2. TicketOf' = TicketOf
    BY <2>1 DEF TicketOf
  <2>3. pad' \in TicketPad /\ pad'.queue = QueueOf(TicketOf)
    BY <2>1, QueuesOfTickets DEF TicketInv, TicketPad
  <2>4. QueueOf(TicketOf)' = QueueOf(TicketOf)
    BY <2>2 DEF QueueOf
  <2> QED
    BY <2>1, <2>3, <2>4 DEF TicketInv, TicketStage
<1>6. CASE OrderLookupNode
  <2>1. /\ ended = "no" /\ node = "order_lookup" /\ ended' = "no" /\ node' = "finalize"
        /\ request' = request /\ agent = "ticket" /\ agent' = agent /\ pad' = pad
        /\ TicketOf.identified
    BY <1>6 DEF OrderLookupNode, Calls, Running
  <2>2. TicketOf' = TicketOf /\ QueueOf(TicketOf)' = QueueOf(TicketOf)
    BY <2>1 DEF TicketOf, QueueOf
  <2>3. pad.queue = QueueOf(TicketOf) /\ pad \in TicketPad
    BY <2>1 DEF TicketInv, TicketStage
  <2> QED
    BY <2>1, <2>2, <2>3 DEF TicketInv, TicketStage
<1>7. CASE OrderLookupRaises
  BY <1>7 DEF OrderLookupRaises, Raises, TicketInv, TicketStage
<1>8. CASE TicketFinalizeNode
  <2>1. /\ ended = "no" /\ node = "finalize" /\ ended' = "completed"
        /\ request' = request /\ agent = "ticket" /\ agent' = agent
        /\ pad' = [pad EXCEPT !.final = pad.queue]
    BY <1>8 DEF TicketFinalizeNode, Calls, Running
  <2>2. TicketOf' = TicketOf /\ QueueOf(TicketOf)' = QueueOf(TicketOf)
    BY <2>1 DEF TicketOf, QueueOf
  <2>3. pad.queue = QueueOf(TicketOf) /\ pad \in TicketPad /\ TicketOf.identified
    BY <2>1 DEF TicketInv, TicketStage
  <2>4. pad' \in TicketPad /\ pad'.final = QueueOf(TicketOf)
    BY <2>1, <2>3 DEF TicketPad
  <2> QED
    BY <2>1, <2>2, <2>3, <2>4 DEF TicketInv, TicketStage
<1>9. CASE UNCHANGED vars
  BY <1>9 DEF TicketInv, TicketStage, TicketOf, QueueOf, vars, engine
<1> QED
  BY <1>1, <1>2, <1>3, <1>4, <1>5, <1>6, <1>7, <1>8, <1>9, TicketRouted DEF Next

\* TicketTriage, for all tickets, questions and settings of the router.
THEOREM TicketsAreTriaged == Spec => []TicketTriage
<1>1. Init => TicketInv
  BY DEF Init, EngineInit, TicketInv
<1>2. TicketInv => TicketTriage
  <2> SUFFICES ASSUME TicketInv, agent = "ticket", ended = "completed"
      PROVE  ReportedQueue = QueueOf(TicketOf) /\ TicketOf.identified
    BY DEF TicketInv, TicketTriage
  <2>1. pad.final = QueueOf(TicketOf) /\ TicketOf.identified
    BY DEF TicketInv, TicketStage
  <2>2. pad.final # "none"
    BY <2>1, QueuesOfTickets
  <2> QED
    BY <2>1, <2>2 DEF ReportedQueue
<1> QED
  BY <1>1, <1>2, TicketInvKept, PTL DEF Spec

-----------------------------------------------------------------------------
(* The timeline *)

Starts == {"NODE_START"}
Ends == {"GRAPH_END", "NODE_ERROR", "GRAPH_MAX_STEPS"}
EventTypes == Starts \cup Ends \cup {"NODE_END", "TOOL_CALL_START", "TOOL_CALL_END"}
NodeNames == {"plan", "act", "observe", "finalize", "queue_lookup", "order_lookup",
              "classify", "route"}
Names == {""} \cup NodeNames \cup {"none", "policy_search", "call_agent"}
Events == [sequence : Nat, type : EventTypes, name : Names]

LEMMA EventTyped == ASSUME NEW type \in EventTypes, NEW name \in Names
                    PROVE  Event(type, name) \in Events /\ Event(type, name).type = type
  BY DEF Event, Events

\* Numbering changes no type and no name, and continues where the timeline stands.
LEMMA NumberedContinues ==
  ASSUME events \in Seq(Events), Consecutive,
         NEW new \in Seq(Events), Emits(new)
  PROVE  /\ events' \in Seq(Events) /\ Consecutive'
         /\ Len(events') = Len(events) + Len(new)
         /\ \A i \in 1..Len(events) :
              events'[i].type = events[i].type /\ events'[i].name = events[i].name
         /\ \A i \in 1..Len(new) :
              /\ events'[Len(events) + i].type = new[i].type
              /\ events'[Len(events) + i].name = new[i].name
<1> DEFINE num == Numbered(new)
<1>1. Len(events) \in Nat /\ Len(new) \in Nat
  OBVIOUS
<1>2. \A i \in 1..Len(new) :
        /\ num[i] \in Events /\ num[i].type = new[i].type /\ num[i].name = new[i].name
        /\ num[i].sequence = Len(events) + i - 1
  <2> SUFFICES ASSUME NEW i \in 1..Len(new)
      PROVE  /\ num[i] \in Events /\ num[i].type = new[i].type /\ num[i].name = new[i].name
             /\ num[i].sequence = Len(events) + i - 1
    OBVIOUS
  <2>1. new[i] \in Events /\ i \in Nat /\ i >= 1
    OBVIOUS
  <2>2. Len(events) + i - 1 \in Nat
    BY <1>1, <2>1
  <2>3. num[i] = [new[i] EXCEPT !.sequence = Len(events) + i - 1]
    BY DEF Numbered
  <2> QED
    BY <2>1, <2>2, <2>3 DEF Events
<1>3. num \in Seq(Events) /\ Len(num) = Len(new)
  <2>1. num = [i \in 1..Len(new) |-> num[i]]
    BY DEF Numbered
  <2> HIDE DEF num
  <2> QED
    BY <1>1, <1>2, <2>1
<1>4. events' = events \o num
  BY DEF Emits
<1> HIDE DEF num
<1>5. /\ events' \in Seq(Events) /\ Len(events') = Len(events) + Len(new)
      /\ \A i \in 1..Len(events) : events'[i] = events[i]
      /\ \A i \in 1..Len(new) : events'[Len(events) + i] = num[i]
  BY <1>1, <1>3, <1>4
<1>6. Consecutive'
  <2> SUFFICES ASSUME NEW i \in 1..Len(events') PROVE events'[i].sequence = i - 1
    BY DEF Consecutive
  <2>1. CASE i \in 1..Len(events)
    BY <2>1, <1>5 DEF Consecutive
  <2>2. CASE i \notin 1..Len(events)
    <3>1. PICK k \in 1..Len(new) : i = Len(events) + k
      <4>1. i - Len(events) \in 1..Len(new) /\ i = Len(events) + (i - Len(events))
        BY <1>1, <1>5, <2>2
      <4> QED
        BY <4>1
    <3>2. events'[i].sequence = Len(events) + k - 1
      BY <1>2, <1>5, <3>1
    <3> QED
      BY <3>1, <3>2
  <2> QED
    BY <2>1, <2>2
<1> QED
  BY <1>2, <1>5, <1>6

\* What the engine writes for one node: a start first and no other, and an end only
\* where the run ends.
WritesStep(new, over) ==
  /\ new \in Seq(Events) /\ new # <<>>
  /\ new[1].type = "NODE_START"
  /\ \A i \in 2..Len(new) : new[i].type # "NODE_START"
  /\ \A i \in 1..Len(new) : new[i].type \in Ends <=> (over /\ i = Len(new))

TimelineInv ==
  /\ events \in Seq(Events) /\ Consecutive
  /\ steps \in Nat /\ StartsCounted
  /\ EndIsLast
  /\ node \in Names

LEMMA StartAdded ==
  ASSUME TimelineInv, ended = "no",
         NEW new, NEW over \in BOOLEAN, WritesStep(new, over),
         Emits(new), steps' = steps + 1, Over' <=> over
  PROVE  /\ events' \in Seq(Events) /\ Consecutive'
         /\ steps' \in Nat /\ StartsCounted' /\ EndIsLast'
<1>1. /\ events \in Seq(Events) /\ Consecutive /\ steps \in Nat
      /\ new \in Seq(Events) /\ new # <<>> /\ new[1].type = "NODE_START"
  BY DEF TimelineInv, WritesStep
<1>2. /\ events' \in Seq(Events) /\ Consecutive'
      /\ Len(events') = Len(events) + Len(new)
      /\ \A i \in 1..Len(events) : events'[i].type = events[i].type
      /\ \A i \in 1..Len(new) : events'[Len(events) + i].type = new[i].type
  BY <1>1, NumberedContinues
<1>3. Len(events) \in Nat /\ Len(new) \in Nat /\ Len(new) >= 1
  BY <1>1
<1>4. \A i \in 1..Len(events') :
        \/ i \in 1..Len(events)
        \/ i - Len(events) \in 1..Len(new) /\ i = Len(events) + (i - Len(events))
  BY <1>2, <1>3
<1>5. StartsCounted'
  <2>1. Types(Starts)' = Types(Starts) \cup {Len(events) + 1}
    <3>1. ASSUME NEW i \in Types(Starts)'
          PROVE  i \in Types(Starts) \cup {Len(events) + 1}
      <4>1. i \in 1..Len(events') /\ events'[i].type = "NODE_START"
        BY DEF Types, Starts
      <4>2. CASE i \in 1..Len(events)
        BY <1>2, <4>1, <4>2 DEF Types, Starts
      <4>3. CASE i \notin 1..Len(events)
        <5> DEFINE k == i - Len(events)
        <5>1. k \in 1..Len(new) /\ i = Len(events) + k
          BY <1>4, <4>1, <4>3
        <5> HIDE DEF k
        <5>2. new[k].type = "NODE_START"
          BY <1>2, <4>1, <5>1
        <5>3. k = 1
          BY <1>3, <5>1, <5>2 DEF WritesStep
        <5> QED
          BY <5>1, <5>3
      <4> QED
        BY <4>2, <4>3
    <3>2. ASSUME NEW i \in Types(Starts) PROVE i \in Types(Starts)'
      <4>1. i \in 1..Len(events) /\ events[i].type \in Starts
        BY DEF Types
      <4>2. i \in 1..Len(events')
        BY <1>2, <1>3, <4>1
      <4> QED
        BY <1>2, <4>1, <4>2 DEF Types
    <3>3. Len(events) + 1 \in Types(Starts)'
      <4>1. Len(events) + 1 \in 1..Len(events') /\ 1 \in 1..Len(new)
        BY <1>2, <1>3
      <4>2. events'[Len(events) + 1].type = "NODE_START"
        BY <1>1, <1>2, <4>1
      <4> QED
        BY <4>1, <4>2 DEF Types, Starts
    <3> QED
      BY <3>1, <3>2, <3>3
  <2>2. IsFiniteSet(Types(Starts)) /\ Len(events) + 1 \notin Types(Starts)
    <3>1. Types(Starts) \subseteq 1..Len(events) /\ IsFiniteSet(1..Len(events))
      BY <1>3, FS_Interval DEF Types
    <3>2. Len(events) + 1 \notin 1..Len(events)
      BY <1>3
    <3> QED
      BY <3>1, <3>2, FS_Subset
  <2>3. Cardinality(Types(Starts)') = Cardinality(Types(Starts)) + 1
    BY <2>1, <2>2, FS_AddElement
  <2>4. steps = Cardinality(Types(Starts))
    BY DEF TimelineInv, StartsCounted, Starts
  <2> QED
    BY <2>3, <2>4 DEF StartsCounted, Starts
<1>6. EndIsLast'
  <2>1. Types(Ends) = {}
    BY DEF TimelineInv, EndIsLast, Ends, Over
  <2>2. \A i \in 1..Len(events') : events'[i].type \in Ends <=> (over /\ i = Len(events'))
    <3> SUFFICES ASSUME NEW i \in 1..Len(events')
        PROVE  events'[i].type \in Ends <=> (over /\ i = Len(events'))
      OBVIOUS
    <3>1. CASE i \in 1..Len(events)
      <4>1. events[i].type \notin Ends
        BY <2>1, <3>1 DEF Types
      <4>2. i # Len(events')
        BY <1>2, <1>3, <3>1
      <4> QED
        BY <1>2, <3>1, <4>1, <4>2
    <3>2. CASE i \notin 1..Len(events)
      <4> DEFINE k == i - Len(events)
      <4>1. k \in 1..Len(new) /\ i = Len(events) + k
        BY <1>4, <3>2
      <4>2. k = Len(new) <=> i = Len(events')
        BY <1>2, <1>3, <4>1
      <4> HIDE DEF k
      <4>3. events'[i].type \in Ends <=> (over /\ k = Len(new))
        BY <1>2, <4>1 DEF WritesStep
      <4> QED
        BY <4>2, <4>3
    <3> QED
      BY <3>1, <3>2
  <2>3. Len(events') \in 1..Len(events')
    BY <1>2, <1>3
  <2>4. Types(Ends)' = IF over THEN {Len(events')} ELSE {}
    BY <2>2, <2>3 DEF Types
  <2> QED
    BY <2>4 DEF EndIsLast, Ends
<1>7. steps' \in Nat
  BY <1>1
<1> QED
  BY <1>2, <1>5, <1>6, <1>7

\* The events of one node that returns, from first to last.
LEMMA NodeWrites ==
  ASSUME NEW first \in Events, NEW own \in Seq(Events), NEW last \in Events,
         NEW end \in Events, NEW over \in BOOLEAN,
         first.type = "NODE_START", last.type = "NODE_END", end.type = "GRAPH_END",
         \A i \in 1..Len(own) : own[i].type \notin Starts \cup Ends
  PROVE  WritesStep(<<first>> \o own \o <<last>> \o (IF over THEN <<end>> ELSE <<>>), over)
<1> DEFINE body == <<first>> \o own \o <<last>>
<1>1. Len(own) \in Nat
  OBVIOUS
<1>2. /\ body \in Seq(Events) /\ Len(body) = Len(own) + 2
      /\ body[1] = first /\ body[Len(own) + 2] = last
      /\ \A i \in 2..(Len(own) + 1) : body[i] = own[i - 1]
  BY <1>1
<1>3. \A i \in 2..Len(body) : body[i].type \notin Starts \cup Ends
  <2> SUFFICES ASSUME NEW i \in 2..Len(body) PROVE body[i].type \notin Starts \cup Ends
    OBVIOUS
  <2>1. CASE i = Len(own) + 2
    BY <1>2, <2>1 DEF Starts, Ends
  <2>2. CASE i # Len(own) + 2
    <3>1. i \in 2..(Len(own) + 1) /\ i - 1 \in 1..Len(own)
      BY <1>1, <1>2, <2>2
    <3> QED
      BY <1>2, <3>1
  <2> QED
    BY <2>1, <2>2
<1>4. body[1].type = "NODE_START" /\ body[1].type \notin Ends
  BY <1>2 DEF Ends
<1> HIDE DEF body
<1>5. CASE over
  <2>1. /\ body \o <<end>> \in Seq(Events) /\ Len(body \o <<end>>) = Len(body) + 1
        /\ (body \o <<end>>)[Len(body) + 1] = end
        /\ \A i \in 1..Len(body) : (body \o <<end>>)[i] = body[i]
    BY <1>2
  <2>2. Len(body) \in Nat /\ Len(body) >= 2
    BY <1>1, <1>2
  <2> DEFINE new == body \o <<end>>
  <2>3. new \in Seq(Events) /\ Len(new) = Len(body) + 1 /\ new # <<>>
    BY <2>1, <2>2
  <2>4. new[1].type = "NODE_START"
    BY <1>4, <2>1, <2>2
  <2>5. \A i \in 1..Len(new) : i \in 2..Len(body) \/ i = 1 \/ i = Len(body) + 1
    BY <2>2, <2>3
  <2>6. new[Len(body) + 1].type = "GRAPH_END"
    BY <2>1
  <2>7. \A i \in 2..Len(body) : new[i].type \notin Starts \cup Ends
    BY <1>3, <2>1, <2>2
  <2>8. new[1].type \notin Ends /\ 1 # Len(new)
    BY <1>4, <2>1, <2>2, <2>3
  <2> HIDE DEF new
  <2>9. \A i \in 2..Len(new) : new[i].type # "NODE_START"
    <3> SUFFICES ASSUME NEW i \in 2..Len(new) PROVE new[i].type # "NODE_START"
      OBVIOUS
    <3>1. i \in 2..Len(body) \/ i = Len(body) + 1
      BY <2>2, <2>3
    <3> QED
      BY <2>6, <2>7, <3>1 DEF Starts
  <2>10. \A i \in 1..Len(new) : new[i].type \in Ends <=> i = Len(new)
    BY <2>2, <2>3, <2>5, <2>6, <2>7, <2>8 DEF Ends
  <2>11. WritesStep(new, over)
    BY <1>5, <2>3, <2>4, <2>9, <2>10 DEF WritesStep
  <2> QED
    BY <1>5, <2>11 DEF new, body
<1>6. CASE ~over
  <2>1. body \o <<>> = body
    BY <1>2
  <2>2. body # <<>> /\ Len(body) \in Nat
    BY <1>1, <1>2
  <2>3. \A i \in 1..Len(body) : i = 1 \/ i \in 2..Len(body)
    BY <2>2
  <2>4. WritesStep(body, over)
    BY <1>2, <1>3, <1>4, <1>6, <2>2, <2>3 DEF WritesStep, Starts
  <2> QED
    BY <1>6, <2>1, <2>4 DEF body
<1> QED
  BY <1>5, <1>6

LEMMA CallsKeep ==
  ASSUME TimelineInv, NEW n \in Names, NEW b, NEW next \in Names,
         NEW own \in Seq(Events), \A i \in 1..Len(own) : own[i].type \notin Starts \cup Ends,
         Calls(n, b, next, own)
  PROVE  TimelineInv'
<1> DEFINE over == next = ""
           first == Event("NODE_START", n)
           last == Event("NODE_END", n)
           end == Event("GRAPH_END", "")
           new == <<first>> \o own \o <<last>> \o (IF over THEN <<end>> ELSE <<>>)
<1>1. /\ first \in Events /\ first.type = "NODE_START"
      /\ last \in Events /\ last.type = "NODE_END"
      /\ end \in Events /\ end.type = "GRAPH_END"
  <2>1. {"NODE_START", "NODE_END", "GRAPH_END"} \subseteq EventTypes
    BY DEF EventTypes, Starts, Ends
  <2>2. "" \in Names
    BY Zenon DEF Names
  <2>3. end \in Events /\ end.type = "GRAPH_END"
    BY ONLY Zenon, <2>1, <2>2, EventTyped
  <2> QED
    BY <2>1, <2>3, EventTyped
<1>2. /\ ended = "no" /\ steps' = steps + 1 /\ node' = next
      /\ ended' = IF over THEN "completed" ELSE "no"
      /\ Emits(new)
  BY Zenon DEF Calls, Running
<1>3. over \in BOOLEAN
  BY Zenon
<1> HIDE DEF over, first, last, end
<1>4. WritesStep(new, over)
  BY <1>1, <1>3, NodeWrites
<1>5. Over' <=> over
  BY <1>2, <1>3 DEF Over
<1>6. node' \in Names
  BY <1>2
<1> HIDE DEF new
<1> QED
  BY <1>2, <1>3, <1>4, <1>5, <1>6, StartAdded DEF TimelineInv

LEMMA RaisesKeep ==
  ASSUME TimelineInv, NEW n \in Names, NEW b, Raises(n, b)
  PROVE  TimelineInv'
<1> DEFINE new == <<Event("NODE_START", n), Event("NODE_ERROR", n)>>
<1>1. /\ Event("NODE_START", n) \in Events /\ Event("NODE_START", n).type = "NODE_START"
      /\ Event("NODE_ERROR", n) \in Events /\ Event("NODE_ERROR", n).type = "NODE_ERROR"
  BY EventTyped DEF EventTypes, Starts, Ends
<1>2. /\ ended = "no" /\ steps' = steps + 1 /\ ended' = "error" /\ Emits(new)
  BY DEF Raises, Running
<1>3. node' \in Names
  BY Zenon DEF Raises, Names
<1>4. WritesStep(new, TRUE)
  <2>1. /\ new \in Seq(Events) /\ new # <<>> /\ Len(new) = 2
        /\ new[1].type = "NODE_START" /\ new[2].type = "NODE_ERROR"
    BY <1>1
  <2> HIDE DEF new
  <2>2. \A i \in 1..2 : i = 1 \/ i = 2
    OBVIOUS
  <2>3. \A i \in 2..2 : i = 2
    OBVIOUS
  <2> QED
    BY <2>1, <2>2, <2>3 DEF WritesStep, Ends
<1>5. Over' <=> TRUE
  BY <1>2 DEF Over
<1> HIDE DEF new
<1> QED
  BY <1>2, <1>3, <1>4, <1>5, StartAdded DEF TimelineInv

LEMMA RunsDryKeeps ==
  ASSUME TimelineInv, NEW b, RunsDry(b)
  PROVE  TimelineInv'
<1> DEFINE end == Event("GRAPH_MAX_STEPS", node)
           new == <<end>>
<1>1. end \in Events /\ end.type = "GRAPH_MAX_STEPS"
  BY EventTyped DEF EventTypes, Starts, Ends, TimelineInv
<1>2. ended = "no" /\ steps' = steps /\ ended' = "max_steps" /\ Emits(new)
  BY Zenon DEF RunsDry
<1>3. node' \in Names
  BY Zenon DEF RunsDry, Names
<1> HIDE DEF end
<1>4. new \in Seq(Events) /\ Len(new) = 1 /\ new[1].type = "GRAPH_MAX_STEPS"
  BY <1>1
<1> HIDE DEF new
<1>5. /\ events' \in Seq(Events) /\ Consecutive'
      /\ Len(events') = Len(events) + 1
      /\ \A i \in 1..Len(events) : events'[i].type = events[i].type
      /\ events'[Len(events) + 1].type = "GRAPH_MAX_STEPS"
  <2>1. 1 \in 1..Len(new)
    BY <1>4
  <2> QED
    BY <1>2, <1>4, <2>1, NumberedContinues DEF TimelineInv
<1>6. Len(events) \in Nat /\ Len(events') = Len(events) + 1
  BY <1>5 DEF TimelineInv
<1>7. \A i \in 1..Len(events') : i \in 1..Len(events) \/ i = Len(events')
  BY <1>6
<1>8. 1..Len(events) \subseteq 1..Len(events') /\ Len(events') \in 1..Len(events')
      /\ Len(events') \notin 1..Len(events)
  BY <1>6
<1>9. Types(Starts)' = Types(Starts)
  BY <1>5, <1>6, <1>7, <1>8 DEF Types, Starts
<1>10. Types(Ends)' = {Len(events')}
  <2>1. Types(Ends) = {}
    BY <1>2 DEF TimelineInv, EndIsLast, Ends, Over
  <2>2. \A i \in 1..Len(events) : events'[i].type \notin Ends
    BY <1>5, <2>1 DEF Types
  <2>3. events'[Len(events')].type \in Ends
    BY <1>5, <1>6 DEF Ends
  <2> QED
    BY <1>7, <1>8, <2>2, <2>3 DEF Types
<1>11. StartsCounted'
  BY <1>2, <1>9 DEF TimelineInv, StartsCounted, Starts
<1>12. EndIsLast'
  <2>1. Over'
    BY <1>2 DEF Over
  <2> QED
    BY <1>10, <2>1 DEF EndIsLast, Ends
<1>13. steps' \in Nat
  BY <1>2 DEF TimelineInv
<1> QED
  BY <1>3, <1>5, <1>11, <1>12, <1>13 DEF TimelineInv

\* A step that writes nothing, calls nothing and does not end a graph.
LEMMA QuietKeeps ==
  ASSUME TimelineInv, events' = events, steps' = steps, Over' = Over, node' \in Names
  PROVE  TimelineInv'
<1>1. Types(Starts)' = Types(Starts) /\ Types(Ends)' = Types(Ends)
  BY DEF Types, Starts, Ends
<1> QED
  BY <1>1 DEF TimelineInv, Consecutive, StartsCounted, EndIsLast, Starts, Ends

LEMMA NodesNamed ==
  /\ {"plan", "act", "observe", "finalize", "queue_lookup", "order_lookup",
       "classify", "route"} \subseteq Names
  /\ {"none", "policy_search", "call_agent", "finalize"} \subseteq Names
  /\ "" \in Names
  BY Zenon DEF Names, NodeNames

\* A node without events of its own.
LEMMA PlainCallsKeep ==
  ASSUME TimelineInv, NEW n \in Names, NEW b, NEW next \in Names, Calls(n, b, next, <<>>)
  PROVE  TimelineInv'
<1>1. <<>> \in Seq(Events) /\ Len(<<>>) = 0 /\ \A i \in 1..0 : FALSE
  OBVIOUS
<1>2. \A i \in 1..Len(<<>>) : <<>>[i].type \notin Starts \cup Ends
  BY <1>1
<1> QED
  BY <1>1, <1>2, CallsKeep

LEMMA TimelineKept ==
  GraphInv /\ TimelineInv /\ [Next]_vars => TimelineInv'
<1> SUFFICES ASSUME GraphInv, TimelineInv, [Next]_vars PROVE TimelineInv'
  OBVIOUS
<1>1. CASE Route
  <2>1. node' \in Names
    <3>1. Entry["ticket"] = "queue_lookup" /\ Entry["anomaly"] = "classify"
          /\ Entry["policy"] = ""
      BY Zenon DEF Entry
    <3>2. \E i \in {"ticket", "anomaly", "policy"} : node' = Entry[i]
      BY <1>1 DEF Route, Routes, Chosen, Intents
    <3> QED
      BY Zenon, <3>1, <3>2, NodesNamed
  <2>2. events' = events /\ steps' = steps /\ ended' = ended
    BY <1>1 DEF Route
  <2>3. Over' = Over
    BY <2>2 DEF Over
  <2> QED
    BY <2>1, <2>2, <2>3, QuietKeeps
<1>2. CASE SupervisorAnswers
  <2>1. /\ events' = events /\ steps' = steps /\ node' = node
        /\ ended = "no" /\ ended' = "supervised"
    BY <1>2 DEF SupervisorAnswers
  <2>2. Over' = Over
    BY <2>1 DEF Over
  <2>3. node' \in Names
    BY <2>1 DEF TimelineInv
  <2> QED
    BY <2>1, <2>2, <2>3, QuietKeeps
<1>3. CASE SupervisorRaises
  <2>1. /\ events' = events /\ steps' = steps /\ node' = "plan" /\ ended' = ended
    BY <1>3 DEF SupervisorRaises
  <2>2. Over' = Over
    BY <2>1 DEF Over
  <2>3. node' \in Names
    BY <2>1, NodesNamed
  <2> QED
    BY <2>1, <2>2, <2>3, QuietKeeps
<1>4. CASE OutOfSteps
  BY <1>4, RunsDryKeeps DEF OutOfSteps
<1>5. CASE PlanNode
  <2> PICK plan \in Plans :
        Calls("plan", Budget, IF plan = "finalize" THEN "finalize" ELSE "act", <<>>)
    BY <1>5 DEF PlanNode
  <2> QED
    BY PlainCallsKeep, NodesNamed
<1>6. CASE PlanRaises
  BY <1>6, RaisesKeep, NodesNamed DEF PlanRaises
<1>7. CASE ActNode
  <2> DEFINE start == Event("TOOL_CALL_START", pad.plan)
             end == Event("TOOL_CALL_END", pad.plan)
  <2>1. Calls("act", Budget, "observe", <<start, end>>) /\ agent = "react"
    BY <1>7 DEF ActNode
  <2>2. pad.plan \in Names
    BY <2>1, NodesNamed DEF GraphInv, ReactInv, ReactPad
  <2>3. /\ start \in Events /\ start.type = "TOOL_CALL_START"
        /\ end \in Events /\ end.type = "TOOL_CALL_END"
    BY <2>2, EventTyped DEF EventTypes
  <2> HIDE DEF start, end
  <2>4. <<start, end>> \in Seq(Events)
    BY <2>3
  <2>5. \A i \in 1..Len(<<start, end>>) : <<start, end>>[i].type \notin Starts \cup Ends
    BY <2>3 DEF Starts, Ends
  <2> QED
    BY <2>1, <2>4, <2>5, CallsKeep, NodesNamed
<1>8. CASE ObserveNode
  BY <1>8, PlainCallsKeep, NodesNamed DEF ObserveNode
<1>9. CASE FinalizeNode
  <2>1. Calls("finalize", Budget, "", <<>>)
    BY Zenon, <1>9 DEF FinalizeNode
  <2> QED
    BY Zenon, <2>1, PlainCallsKeep, NodesNamed
<1>10. CASE QueueLookupNode
  BY <1>10, PlainCallsKeep, NodesNamed DEF QueueLookupNode
<1>11. CASE OrderLookupNode
  BY <1>11, PlainCallsKeep, NodesNamed DEF OrderLookupNode
<1>12. CASE OrderLookupRaises
  BY <1>12, RaisesKeep, NodesNamed DEF OrderLookupRaises
<1>13. CASE TicketFinalizeNode
  <2>1. Calls("finalize", Budget, "", <<>>)
    BY Zenon, <1>13 DEF TicketFinalizeNode
  <2> QED
    BY Zenon, <2>1, PlainCallsKeep, NodesNamed
<1>14. CASE ClassifyNode
  BY <1>14, PlainCallsKeep, NodesNamed DEF ClassifyNode
<1>15. CASE RouteNode
  <2>1. Calls("route", Budget, "", <<>>)
    BY Zenon, <1>15 DEF RouteNode
  <2> QED
    BY Zenon, <2>1, PlainCallsKeep, NodesNamed
<1>16. CASE UNCHANGED vars
  <2>1. events' = events /\ steps' = steps /\ node' = node /\ ended' = ended
    BY <1>16 DEF vars, engine
  <2>2. Over' = Over
    BY <2>1 DEF Over
  <2>3. node' \in Names
    BY <2>1 DEF TimelineInv
  <2> QED
    BY <2>1, <2>2, <2>3, QuietKeeps
<1> QED
  BY <1>1, <1>2, <1>3, <1>4, <1>5, <1>6, <1>7, <1>8, <1>9, <1>10, <1>11, <1>12, <1>13,
     <1>14, <1>15, <1>16 DEF Next

LEMMA InitTimeline == Init => TimelineInv
<1> SUFFICES ASSUME Init PROVE TimelineInv
  OBVIOUS
<1>1. events = <<>> /\ steps = 0 /\ ended = "no"
  BY DEF Init, EngineInit
<1>2. node \in Names
  BY Zenon DEF Init, EngineInit, Names
<1>3. events \in Seq(Events) /\ Len(events) = 0 /\ 1..Len(events) = {}
  BY <1>1
<1>4. Types(Starts) = {} /\ Types(Ends) = {}
  BY <1>3 DEF Types
<1>5. Cardinality({}) = 0
  BY FS_EmptySet
<1>6. StartsCounted /\ EndIsLast /\ Consecutive
  BY <1>1, <1>3, <1>4, <1>5 DEF StartsCounted, EndIsLast, Consecutive, Over, Starts, Ends
<1> QED
  BY <1>1, <1>2, <1>3, <1>6 DEF TimelineInv

\* The parts of TimelineReplays that count no tool calls: numbered without a gap, one
\* start for every step taken, an end event exactly when the run is over.
THEOREM TimelineIsWhole == Spec => [](Consecutive /\ StartsCounted /\ EndIsLast)
<1>1. Init => GraphInv
  BY DEF Init, EngineInit, GraphInv, Fresh
<1>2. Init => TimelineInv
  BY InitTimeline
<1>3. TimelineInv => Consecutive /\ StartsCounted /\ EndIsLast
  BY DEF TimelineInv
<1> QED
  BY <1>1, <1>2, <1>3, GraphInvKept, TimelineKept, PTL DEF Spec

-----------------------------------------------------------------------------
(* Anomalies                                                                    *)

Hits == [1..Len(Categories) -> Nat]

LEMMA FourCategories ==
  /\ Len(Categories) = 4
  /\ Categories[1].base = 60 /\ Categories[1].queue = "ops-review"
  /\ Categories[2].base = 65 /\ Categories[2].queue = "cs-escalation"
  /\ Categories[3].base = 70 /\ Categories[3].queue = "risk-review"
  /\ Categories[4].base = 55 /\ Categories[4].queue = "ops-review"
  BY DEF Categories

LEMMA BasesDiffer ==
  /\ \A c \in 1..4 : Categories[c].base \in Nat
  /\ \A c, d \in 1..4 : Categories[c].base = Categories[d].base => c = d
<1>1. 1..4 = {1, 2, 3, 4}
  OBVIOUS
<1> QED
  BY <1>1, FourCategories

\* b is the best of the first n categories, or none of them is hit.
BestUpTo(signals, b, n) ==
  \/ b = 0 /\ \A d \in 1..n : signals[d] = 0
  \/ /\ b \in 1..n /\ signals[b] > 0
     /\ \A d \in 1..n : \/ signals[d] < signals[b]
                        \/ /\ signals[d] = signals[b]
                           /\ Categories[d].base <= Categories[b].base

\* The loop's step keeps its invariant.
LEMMA KeepsBest ==
  ASSUME NEW signals \in Hits, NEW n \in 0..3, NEW b, BestUpTo(signals, b, n)
  PROVE  BestUpTo(signals, Keeps(signals, b, n + 1), n + 1)
<1> DEFINE c == n + 1
<1>1. /\ c \in 1..4 /\ \A d \in 1..c : d \in 1..n \/ d = c
      /\ 1..n \subseteq 1..c /\ c \in 1..c /\ c # 0
  OBVIOUS
<1>2. /\ \A d \in 1..4 : signals[d] \in Nat /\ Categories[d].base \in Nat
      /\ 1..c \subseteq 1..4
  BY FourCategories, BasesDiffer DEF Hits
<1>3. CASE signals[c] = 0
  <2>1. Keeps(signals, b, c) = b
    BY <1>3 DEF Keeps
  <2>2. CASE b = 0 /\ \A d \in 1..n : signals[d] = 0
    BY <1>1, <1>3, <2>1, <2>2 DEF BestUpTo
  <2>3. CASE b \in 1..n /\ signals[b] > 0
    BY <1>1, <1>2, <1>3, <2>1, <2>3 DEF BestUpTo
  <2> QED
    BY <2>2, <2>3 DEF BestUpTo
<1>4. CASE signals[c] # 0 /\ b = 0
  <2>1. Keeps(signals, b, c) = c
    BY <1>4 DEF Keeps
  <2>2. \A d \in 1..n : signals[d] = 0
    BY <1>4 DEF BestUpTo
  <2>3. signals[c] > 0
    BY <1>1, <1>2, <1>4
  <2> HIDE DEF c
  <2>4. \A d \in 1..c : \/ signals[d] < signals[c]
                        \/ signals[d] = signals[c] /\ Categories[d].base <= Categories[c].base
    BY <1>1, <1>2, <2>2, <2>3
  <2>5. BestUpTo(signals, c, c)
    BY <1>1, <2>3, <2>4 DEF BestUpTo
  <2> QED
    BY <2>1, <2>5 DEF c
<1>5. CASE signals[c] # 0 /\ b # 0
  <2>1. /\ b \in 1..n /\ signals[b] > 0
        /\ \A d \in 1..n : \/ signals[d] < signals[b]
                           \/ /\ signals[d] = signals[b]
                              /\ Categories[d].base <= Categories[b].base
    BY <1>5 DEF BestUpTo
  <2>2. CASE Better(signals, c, b)
    <3>1. Keeps(signals, b, c) = c
      BY <1>5, <2>2 DEF Keeps
    <3> HIDE DEF c
    <3>2. \/ signals[c] > signals[b]
          \/ signals[c] = signals[b] /\ Categories[c].base > Categories[b].base
      BY <2>2 DEF Better
    <3>3. \A d \in 1..c : \/ signals[d] < signals[c]
                          \/ signals[d] = signals[c] /\ Categories[d].base <= Categories[c].base
      BY <1>1, <1>2, <2>1, <3>2
    <3>4. BestUpTo(signals, c, c)
      BY <1>1, <1>2, <2>1, <3>2, <3>3 DEF BestUpTo
    <3> QED
      BY <3>1, <3>4 DEF c
  <2>3. CASE ~Better(signals, c, b)
    <3>1. Keeps(signals, b, c) = b
      BY <1>5, <2>3 DEF Keeps
    <3> HIDE DEF c
    <3>2. \/ signals[c] < signals[b]
          \/ signals[c] = signals[b] /\ Categories[c].base <= Categories[b].base
      BY <1>1, <1>2, <2>1, <2>3 DEF Better
    <3>3. \A d \in 1..c : \/ signals[d] < signals[b]
                          \/ signals[d] = signals[b] /\ Categories[d].base <= Categories[b].base
      BY <1>1, <2>1, <3>2
    <3>4. BestUpTo(signals, b, c)
      BY <1>1, <2>1, <3>3 DEF BestUpTo
    <3> QED
      BY <3>1, <3>4 DEF c
  <2> QED
    BY <2>2, <2>3
<1> QED
  BY <1>3, <1>4, <1>5

\* One pass finds the best of all the categories, and no other is as good.
LEMMA DetectFindsBest ==
  ASSUME NEW signals \in Hits
  PROVE  /\ Detect(signals) \in 0..4
         /\ {c \in 1..Len(Categories) : BestOf(signals, c)}
              = IF Detect(signals) = 0 THEN {} ELSE {Detect(signals)}
<1>1. BestUpTo(signals, 0, 0)
  BY DEF BestUpTo
<1>2. PICK b1 : b1 = Keeps(signals, 0, 1) /\ BestUpTo(signals, b1, 1)
  <2>1. BestUpTo(signals, Keeps(signals, 0, 0 + 1), 0 + 1)
    BY <1>1, KeepsBest
  <2> QED
    BY <2>1
<1>3. PICK b2 : b2 = Keeps(signals, b1, 2) /\ BestUpTo(signals, b2, 2)
  <2>1. BestUpTo(signals, Keeps(signals, b1, 1 + 1), 1 + 1)
    BY <1>2, KeepsBest
  <2> QED
    BY <2>1
<1>4. PICK b3 : b3 = Keeps(signals, b2, 3) /\ BestUpTo(signals, b3, 3)
  <2>1. BestUpTo(signals, Keeps(signals, b2, 2 + 1), 2 + 1)
    BY <1>3, KeepsBest
  <2> QED
    BY <2>1
<1>5. PICK b4 : b4 = Keeps(signals, b3, 4) /\ BestUpTo(signals, b4, 4)
  <2>1. BestUpTo(signals, Keeps(signals, b3, 3 + 1), 3 + 1)
    BY <1>4, KeepsBest
  <2> QED
    BY <2>1
<1>6. Detect(signals) = b4
  BY <1>2, <1>3, <1>4, <1>5 DEF Detect
<1>7. \A d \in 1..4 : signals[d] \in Nat
  BY FourCategories DEF Hits
<1>8. CASE b4 = 0
  <2>1. \A c \in 1..4 : ~BestOf(signals, c)
    BY <1>5, <1>8 DEF BestUpTo, BestOf
  <2> QED
    BY <1>6, <1>8, <2>1, FourCategories
<1>9. CASE b4 # 0
  <2>1. b4 \in 1..4 /\ BestOf(signals, b4)
    BY <1>5, <1>9, FourCategories DEF BestUpTo, BestOf
  <2>2. ASSUME NEW c \in 1..4, BestOf(signals, c) PROVE c = b4
    <3>1. \/ signals[c] < signals[b4]
          \/ signals[c] = signals[b4] /\ Categories[c].base <= Categories[b4].base
      BY <2>1, FourCategories DEF BestOf
    <3>2. \/ signals[b4] < signals[c]
          \/ signals[b4] = signals[c] /\ Categories[b4].base <= Categories[c].base
      BY <2>1, <2>2, FourCategories DEF BestOf
    <3>3. signals[c] \in Nat /\ signals[b4] \in Nat
      BY <1>7, <2>1
    <3>4. Categories[c].base \in Nat /\ Categories[b4].base \in Nat
      BY <2>1, BasesDiffer
    <3>5. Categories[c].base = Categories[b4].base
      BY <3>1, <3>2, <3>3, <3>4
    <3> QED
      BY <2>1, <3>5, BasesDiffer
  <2> QED
    BY <1>6, <1>9, <2>1, <2>2, FourCategories
<1> QED
  BY <1>8, <1>9

\* The signals of the question, and where their best category is sent.
Signals == request.question.signals
BestQueue == IF Detect(Signals) = 0 THEN "ops-review" ELSE Categories[Detect(Signals)].queue

AnomalyQueues == {"ops-review", "cs-escalation", "risk-review"}

AnomalyPad ==
  [plan : {"none"}, observations : {<<>>}, lastStatus : {"none"}, queue : {"none"},
   category : 0..4, final : {"none"} \cup AnomalyQueues, answer : {<<>>}]

\* Two nodes, within the budget of four: the graph always ends at its second.
AnomalyStage ==
  \/ ended = "no" /\ node = "classify" /\ steps = 0
  \/ ended = "no" /\ node = "route" /\ steps = 1 /\ pad.category = Detect(Signals)
  \/ ended = "completed" /\ pad.final = BestQueue

AnomalyInv ==
  /\ Signals \in Hits
  /\ agent = "anomaly" => pad \in AnomalyPad /\ AnomalyStage

LEMMA BestQueueIsKnown == ASSUME Signals \in Hits PROVE BestQueue \in AnomalyQueues
<1>1. Detect(Signals) \in 0..4
  BY DetectFindsBest
<1>2. \A c \in 1..4 : Categories[c].queue \in AnomalyQueues
  <2>1. 1..4 = {1, 2, 3, 4}
    OBVIOUS
  <2> QED
    BY <2>1, FourCategories DEF AnomalyQueues
<1> QED
  BY <1>1, <1>2 DEF BestQueue, AnomalyQueues

LEMMA SignalsStay ==
  ASSUME request' = request
  PROVE  Signals' = Signals /\ Detect(Signals)' = Detect(Signals) /\ BestQueue' = BestQueue
<1>1. Signals' = Signals
  BY DEF Signals
<1>2. Detect(Signals)' = Detect(Signals)
  BY <1>1
<1> QED
  BY <1>1, <1>2 DEF BestQueue

LEMMA AnomalyStays ==
  ASSUME AnomalyInv, request' = request, agent' # "anomaly"
  PROVE  AnomalyInv'
  BY SignalsStay DEF AnomalyInv

LEMMA AnomalyInvKept == GraphInv /\ AnomalyInv /\ [Next]_vars => AnomalyInv'
<1> SUFFICES ASSUME GraphInv, AnomalyInv, [Next]_vars PROVE AnomalyInv'
  OBVIOUS
<1>0. request' = request
  BY DEF Next, Route, SupervisorAnswers, SupervisorRaises, OutOfSteps, PlanNode, PlanRaises,
         ActNode, ObserveNode, FinalizeNode, QueueLookupNode, OrderLookupNode,
         OrderLookupRaises, TicketFinalizeNode, ClassifyNode, RouteNode, vars
<1>1. Signals' = Signals /\ Detect(Signals)' = Detect(Signals) /\ BestQueue' = BestQueue
  BY <1>0, SignalsStay
<1>2. CASE Route
  <2>1. steps' = 0 /\ ended' = "no" /\ pad' = EmptyPad
    BY <1>2 DEF Route, GraphInv, Fresh
  <2>2. agent' = "anomaly" => node' = "classify"
    <3>1. Entry["anomaly"] = "classify"
      BY Zenon DEF Entry
    <3> QED
      BY <1>2, <3>1 DEF Route
  <2>3. EmptyPad \in AnomalyPad
    BY DEF EmptyPad, AnomalyPad
  <2> QED
    BY <1>1, <2>1, <2>2, <2>3 DEF AnomalyInv, AnomalyStage
<1>3. CASE SupervisorAnswers \/ SupervisorRaises
  BY <1>0, <1>3, AnomalyStays DEF SupervisorAnswers, SupervisorRaises
<1>4. CASE PlanNode \/ PlanRaises \/ ActNode \/ ObserveNode \/ FinalizeNode
  BY <1>0, <1>4, AnomalyStays DEF PlanNode, PlanRaises, ActNode, ObserveNode, FinalizeNode
<1>5. CASE QueueLookupNode \/ OrderLookupNode \/ OrderLookupRaises \/ TicketFinalizeNode
  BY <1>0, <1>5, AnomalyStays DEF QueueLookupNode, OrderLookupNode, OrderLookupRaises,
                                  TicketFinalizeNode
<1>6. CASE OutOfSteps
  <2>1. agent' = agent /\ ended = "no" /\ steps >= Budget
    BY <1>6 DEF OutOfSteps, RunsDry, Spent
  <2>2. agent # "anomaly"
    BY <2>1 DEF AnomalyInv, AnomalyStage, Budget
  <2> QED
    BY <1>0, <2>1, <2>2, AnomalyStays
<1>7. CASE ClassifyNode
  <2>1. /\ ended = "no" /\ node = "classify" /\ agent = "anomaly" /\ agent' = agent
        /\ steps' = steps + 1 /\ node' = "route" /\ ended' = "no"
        /\ pad' = [pad EXCEPT !.category = Detect(Signals)]
    BY <1>7 DEF ClassifyNode, Calls, Running, Signals
  <2>2. steps = 0 /\ pad \in AnomalyPad
    BY <2>1 DEF AnomalyInv, AnomalyStage
  <2>3. Detect(Signals) \in 0..4
    BY DetectFindsBest DEF AnomalyInv
  <2>4. pad' \in AnomalyPad /\ pad'.category = Detect(Signals)
    BY <2>1, <2>2, <2>3 DEF AnomalyPad
  <2> QED
    BY <1>1, <2>1, <2>2, <2>4 DEF AnomalyInv, AnomalyStage
<1>8. CASE RouteNode
  <2>1. /\ ended = "no" /\ node = "route" /\ agent = "anomaly" /\ agent' = agent
        /\ ended' = "completed"
    BY <1>8 DEF RouteNode, Calls, Running
  <2>2. pad.category = Detect(Signals) /\ pad \in AnomalyPad
    BY <2>1 DEF AnomalyInv, AnomalyStage
  <2>3. pad' = [pad EXCEPT !.final = BestQueue]
    BY <1>8, <2>2 DEF RouteNode, BestQueue
  <2>4. BestQueue \in AnomalyQueues
    BY BestQueueIsKnown DEF AnomalyInv
  <2>5. pad' \in AnomalyPad /\ pad'.final = BestQueue
    BY <2>2, <2>3, <2>4 DEF AnomalyPad
  <2> QED
    BY <1>1, <2>1, <2>5 DEF AnomalyInv, AnomalyStage
<1>9. CASE UNCHANGED vars
  BY <1>1, <1>9 DEF AnomalyInv, AnomalyStage, vars, engine
<1> QED
  BY <1>2, <1>3, <1>4, <1>5, <1>6, <1>7, <1>8, <1>9 DEF Next

\* RightQueue, for all tickets and all numbers of hits: the single pass finds the best
\* category, and neither graph reports another queue than that of its case.
THEOREM CasesReachTheirQueue == Spec => []RightQueue
<1>1. Init => GraphInv /\ AnomalyInv
  <2> SUFFICES ASSUME Init PROVE GraphInv /\ AnomalyInv
    OBVIOUS
  <2>1. GraphInv /\ agent # "anomaly"
    BY DEF Init, EngineInit, GraphInv, Fresh
  <2>2. request.question \in Questions
    BY DEF Init
  <2>3. Signals \in Hits
    BY <2>2, AgentAssumption DEF Signals, Question, Hits
  <2> QED
    BY <2>1, <2>3 DEF AnomalyInv
<1>2. AnomalyInv => AnomalyTriage
  <2> SUFFICES ASSUME AnomalyInv, agent = "anomaly", Over PROVE AnomalyTriage
    BY DEF AnomalyTriage
  <2>1. pad.final = BestQueue /\ Signals \in Hits
    BY DEF AnomalyInv, AnomalyStage, Over
  <2>2. pad.final # "none"
    BY <2>1, BestQueueIsKnown DEF AnomalyQueues
  <2>3. ReportedQueue = BestQueue
    BY <2>1, <2>2 DEF ReportedQueue
  <2>4. {c \in 1..Len(Categories) : BestOf(Signals, c)}
          = IF Detect(Signals) = 0 THEN {} ELSE {Detect(Signals)}
    BY <2>1, DetectFindsBest
  <2>5. CASE Detect(Signals) = 0
    BY <2>3, <2>4, <2>5 DEF AnomalyTriage, BestQueue, Signals
  <2>6. CASE Detect(Signals) # 0
    BY <2>3, <2>4, <2>6 DEF AnomalyTriage, BestQueue, Signals
  <2> QED
    BY <2>5, <2>6
<1>3. Init => TicketInv
  BY DEF Init, EngineInit, TicketInv
<1>4. Spec => []AnomalyTriage
  BY <1>1, <1>2, GraphInvKept, AnomalyInvKept, PTL DEF Spec
<1> QED
  BY <1>4, TicketsAreTriaged, PTL DEF RightQueue

-----------------------------------------------------------------------------
(* The tool calls of the timeline                                               *)

ToolEnds == Types({"TOOL_CALL_END"})

\* Before the ReAct graph there is no event; in it, the n-th end of a tool call is of the
\* n-th call.
CallsInv ==
  /\ agent \in {"none", "supervisor"} => events = <<>>
  /\ agent = "react" =>
       /\ Cardinality(ToolEnds) = Len(tools)
       /\ \A i \in ToolEnds : events[i].name = tools[Cardinality(ToolEnds \cap (1..i))].tool

\* Events none of which ends a tool call.
Quiet(s) == s \in Seq(Events) /\ \A i \in 1..Len(s) : s[i].type # "TOOL_CALL_END"

LEMMA ConcatOf ==
  ASSUME NEW s \in Seq(Events), NEW t \in Seq(Events)
  PROVE  /\ s \o t \in Seq(Events) /\ Len(s \o t) = Len(s) + Len(t)
         /\ \A i \in 1..Len(s) : (s \o t)[i] = s[i]
         /\ \A i \in 1..Len(t) : (s \o t)[Len(s) + i] = t[i]
  OBVIOUS

LEMMA QuietConcat == ASSUME NEW s, NEW t, Quiet(s), Quiet(t) PROVE Quiet(s \o t)
<1>1. s \in Seq(Events) /\ t \in Seq(Events) /\ Len(s) \in Nat /\ Len(t) \in Nat
  BY DEF Quiet
<1>2. /\ s \o t \in Seq(Events) /\ Len(s \o t) = Len(s) + Len(t)
      /\ \A i \in 1..Len(s) : (s \o t)[i] = s[i]
      /\ \A i \in 1..Len(t) : (s \o t)[Len(s) + i] = t[i]
  BY <1>1
<1>3. \A i \in 1..Len(s \o t) :
        \/ i \in 1..Len(s)
        \/ i - Len(s) \in 1..Len(t) /\ i = Len(s) + (i - Len(s))
  BY <1>1, <1>2
<1> QED
  BY <1>2, <1>3 DEF Quiet

LEMMA QuietOne ==
  ASSUME NEW e \in Events, e.type # "TOOL_CALL_END"
  PROVE  Quiet(<<e>>)
  BY DEF Quiet

\* Steps that write no end of a tool call.
LEMMA NoCallWritten ==
  ASSUME CallsInv, TimelineInv, agent = "react", agent' = agent, tools' = tools,
         NEW new, Quiet(new), Emits(new)
  PROVE  CallsInv'
<1>0. new \in Seq(Events) /\ \A i \in 1..Len(new) : new[i].type # "TOOL_CALL_END"
  BY DEF Quiet
<1>1. /\ Len(events') = Len(events) + Len(new)
      /\ \A i \in 1..Len(events) :
           events'[i].type = events[i].type /\ events'[i].name = events[i].name
      /\ \A i \in 1..Len(new) : events'[Len(events) + i].type = new[i].type
  BY <1>0, NumberedContinues DEF TimelineInv
<1>2. Len(events) \in Nat /\ Len(new) \in Nat
  BY <1>0 DEF TimelineInv
<1>3. \A i \in 1..Len(events') :
        \/ i \in 1..Len(events)
        \/ i - Len(events) \in 1..Len(new) /\ i = Len(events) + (i - Len(events))
  BY <1>1, <1>2
<1>4. ToolEnds' = ToolEnds
  <2>1. 1..Len(events) \subseteq 1..Len(events')
    BY <1>1, <1>2
  <2>2. ASSUME NEW i \in ToolEnds' PROVE i \in ToolEnds
    <3>1. i \in 1..Len(events') /\ events'[i].type = "TOOL_CALL_END"
      BY DEF ToolEnds, Types
    <3>2. i \in 1..Len(events)
      BY <1>0, <1>1, <1>3, <3>1
    <3> QED
      BY <1>1, <3>1, <3>2 DEF ToolEnds, Types
  <2>3. ASSUME NEW i \in ToolEnds PROVE i \in ToolEnds'
    BY <1>1, <2>1 DEF ToolEnds, Types
  <2> QED
    BY <2>2, <2>3
<1>5. \A i \in ToolEnds : events'[i].name = events[i].name
  BY <1>1 DEF ToolEnds, Types
<1>6. Cardinality(ToolEnds)' = Cardinality(ToolEnds) /\ tools' = tools
  BY <1>4
<1>7. \A i \in ToolEnds : Cardinality(ToolEnds \cap (1..i))' = Cardinality(ToolEnds \cap (1..i))
  BY <1>4
<1> QED
  BY <1>4, <1>5, <1>6, <1>7 DEF CallsInv

LEMMA PlainWrites ==
  ASSUME NEW n \in Names, NEW b, NEW next \in Names, Calls(n, b, next, <<>>)
  PROVE  \E new : Quiet(new) /\ Emits(new)
<1> DEFINE first == Event("NODE_START", n)
           last == Event("NODE_END", n)
           end == Event("GRAPH_END", "")
           over == IF next = "" THEN <<end>> ELSE <<>>
<1>1. /\ first \in Events /\ first.type = "NODE_START"
      /\ last \in Events /\ last.type = "NODE_END"
      /\ end \in Events /\ end.type = "GRAPH_END"
  <2>1. {"NODE_START", "NODE_END", "GRAPH_END"} \subseteq EventTypes
    BY DEF EventTypes, Starts, Ends
  <2>2. "" \in Names
    BY Zenon DEF Names
  <2>3. end \in Events /\ end.type = "GRAPH_END"
    BY ONLY Zenon, <2>1, <2>2, EventTyped
  <2> QED
    BY <2>1, <2>3, EventTyped
<1>2. Emits(<<first>> \o <<>> \o <<last>> \o over)
  BY Zenon DEF Calls
<1>3. over = <<end>> \/ over = <<>>
  BY Zenon
<1> HIDE DEF first, last, end, over
<1>4. Quiet(<<first>>) /\ Quiet(<<last>>) /\ Quiet(<<end>>)
  BY <1>1, QuietOne
<1>5. Quiet(<<>>)
  BY DEF Quiet
<1>6. Quiet(over)
  BY Zenon, <1>3, <1>4, <1>5
<1>7. Quiet(<<first>> \o <<>>)
  BY Zenon, <1>4, <1>5, QuietConcat
<1>8. Quiet(<<first>> \o <<>> \o <<last>>)
  BY Zenon, <1>4, <1>7, QuietConcat
<1>9. Quiet(<<first>> \o <<>> \o <<last>> \o over)
  BY Zenon, <1>6, <1>8, QuietConcat
<1> QED
  BY Zenon, <1>2, <1>9

\* The act node writes the end of its tool's call third of its four events.
LEMMA ActWrites ==
  ASSUME GraphInv, agent = "react", ActNode
  PROVE  \E new \in Seq(Events) :
           /\ Emits(new) /\ Len(new) = 4
           /\ new[3].type = "TOOL_CALL_END" /\ new[3].name = pad.plan
           /\ \A i \in {1, 2, 4} : new[i].type # "TOOL_CALL_END"
<1> DEFINE first == Event("NODE_START", "act")
           start == Event("TOOL_CALL_START", pad.plan)
           end == Event("TOOL_CALL_END", pad.plan)
           last == Event("NODE_END", "act")
<1>1. /\ first \in Events /\ first.type = "NODE_START"
      /\ last \in Events /\ last.type = "NODE_END"
      /\ start \in Events /\ start.type = "TOOL_CALL_START"
      /\ end \in Events /\ end.type = "TOOL_CALL_END" /\ end.name = pad.plan
  <2>1. {"NODE_START", "NODE_END", "TOOL_CALL_START", "TOOL_CALL_END"} \subseteq EventTypes
    BY DEF EventTypes, Starts, Ends
  <2>2. pad.plan \in Names /\ "act" \in Names
    BY NodesNamed DEF GraphInv, ReactInv, ReactPad
  <2>3. end.name = pad.plan
    BY DEF Event
  <2> HIDE DEF first, start, end, last
  <2> QED
    BY <2>1, <2>2, <2>3, EventTyped DEF first, start, end, last
<1>2. Emits(<<first>> \o <<start, end>> \o <<last>> \o <<>>)
  <2>1. Emits(<<first>> \o <<start, end>> \o <<last>>
              \o (IF "observe" = "" THEN <<Event("GRAPH_END", "")>> ELSE <<>>))
    BY Zenon DEF ActNode, Calls
  <2>2. (IF "observe" = "" THEN <<Event("GRAPH_END", "")>> ELSE <<>>) = <<>>
    OBVIOUS
  <2> QED
    BY <2>1, <2>2, Zenon
<1> HIDE DEF first, start, end, last
<1> DEFINE one == <<first>>
           two == <<start, end>>
           three == one \o two
           four == three \o <<last>>
<1>3. two \in Seq(Events) /\ Len(two) = 2 /\ two[1] = start /\ two[2] = end
  BY <1>1
<1>4. one \in Seq(Events) /\ Len(one) = 1 /\ one[1] = first
  BY <1>1
<1>5. <<last>> \in Seq(Events) /\ Len(<<last>>) = 1 /\ <<last>>[1] = last
  BY <1>1
<1> HIDE DEF one, two
<1>6. three \in Seq(Events) /\ Len(three) = 3 /\ three[1] = first /\ three[2] = start
      /\ three[3] = end
  <2>1. /\ three \in Seq(Events) /\ Len(three) = 3
        /\ \A i \in 1..1 : three[i] = one[i]
        /\ \A j \in 1..2 : three[1 + j] = two[j]
    <3>1. /\ three \in Seq(Events) /\ Len(three) = Len(one) + Len(two)
          /\ \A i \in 1..Len(one) : three[i] = one[i]
          /\ \A j \in 1..Len(two) : three[Len(one) + j] = two[j]
      BY <1>3, <1>4, ConcatOf
    <3> QED
      BY <1>3, <1>4, <3>1
  <2>2. three[1 + 1] = two[1] /\ three[1 + 2] = two[2] /\ three[1] = one[1]
    BY <2>1
  <2> QED
    BY <1>3, <1>4, <2>1, <2>2
<1> HIDE DEF three
<1>7. four \in Seq(Events) /\ Len(four) = 4 /\ four[1] = first /\ four[2] = start
      /\ four[3] = end /\ four[4] = last
  <2> DEFINE tail == <<last>>
  <2> HIDE DEF tail
  <2>1. tail \in Seq(Events) /\ Len(tail) = 1 /\ tail[1] = last
    BY <1>5 DEF tail
  <2>2. /\ three \o tail \in Seq(Events) /\ Len(three \o tail) = 4
        /\ \A i \in 1..3 : (three \o tail)[i] = three[i]
        /\ \A i \in 1..1 : (three \o tail)[3 + i] = tail[i]
    <3>1. /\ three \o tail \in Seq(Events) /\ Len(three \o tail) = Len(three) + Len(tail)
          /\ \A i \in 1..Len(three) : (three \o tail)[i] = three[i]
          /\ \A i \in 1..Len(tail) : (three \o tail)[Len(three) + i] = tail[i]
      BY <1>6, <2>1, ConcatOf
    <3> QED
      BY <1>6, <2>1, <3>1
  <2>3. (three \o tail)[3 + 1] = tail[1]
    BY <2>2
  <2> QED
    BY <1>6, <2>1, <2>2, <2>3 DEF four, tail
<1> HIDE DEF four
<1>8. four \o <<>> = four
  BY <1>7
<1>9. Emits(four)
  BY <1>2, <1>8, Zenon DEF one, two, three, four
<1> QED
  BY <1>1, <1>7, <1>9

\* The call that the act node appends is the one whose end it writes.
LEMMA ActKeepsCalls ==
  ASSUME CallsInv, TimelineInv, GraphInv, agent = "react", ActNode
  PROVE  CallsInv'
<1> PICK new \in Seq(Events) :
      /\ Emits(new) /\ Len(new) = 4
      /\ new[3].type = "TOOL_CALL_END" /\ new[3].name = pad.plan
      /\ \A i \in {1, 2, 4} : new[i].type # "TOOL_CALL_END"
  BY ActWrites
<1> DEFINE n == Len(events)
<1>0. n \in Nat
  BY DEF TimelineInv
<1>1. /\ Len(events') = n + 4
      /\ \A i \in 1..n : events'[i].type = events[i].type /\ events'[i].name = events[i].name
      /\ \A i \in 1..4 : /\ events'[n + i].type = new[i].type
                         /\ events'[n + i].name = new[i].name
  <2>1. events \in Seq(Events) /\ Consecutive
    BY DEF TimelineInv
  <2>2. /\ Len(events') = Len(events) + Len(new)
        /\ \A i \in 1..Len(events) :
             events'[i].type = events[i].type /\ events'[i].name = events[i].name
        /\ \A i \in 1..Len(new) : /\ events'[Len(events) + i].type = new[i].type
                                  /\ events'[Len(events) + i].name = new[i].name
    BY <2>1, NumberedContinues
  <2> QED
    BY <2>2
<1> HIDE DEF n
<1>2. /\ events'[n + 1].type # "TOOL_CALL_END" /\ events'[n + 2].type # "TOOL_CALL_END"
      /\ events'[n + 3].type = "TOOL_CALL_END" /\ events'[n + 3].name = pad.plan
      /\ events'[n + 4].type # "TOOL_CALL_END"
  <2>1. /\ events'[n + 3].type = new[3].type /\ events'[n + 3].name = new[3].name
        /\ \A i \in {1, 2, 4} : events'[n + i].type = new[i].type
    BY <1>1
  <2>2. \A i \in {1, 2, 4} : events'[n + i].type # "TOOL_CALL_END"
    BY <2>1
  <2> QED
    BY <2>1, <2>2
<1>3. \A i \in 1..(n + 4) : i \in 1..n \/ i = n + 1 \/ i = n + 2 \/ i = n + 3 \/ i = n + 4
  BY <1>0
<1>4. ToolEnds \subseteq 1..n /\ IsFiniteSet(ToolEnds) /\ n + 3 \notin ToolEnds
  <2>1. ToolEnds \subseteq 1..n
    BY DEF ToolEnds, Types, n
  <2>2. IsFiniteSet(1..n)
    BY <1>0, FS_Interval
  <2>3. IsFiniteSet(ToolEnds)
    BY <2>1, <2>2, FS_Subset
  <2> QED
    BY <1>0, <2>1, <2>3
<1>5. ToolEnds' = ToolEnds \cup {n + 3}
  <2>1. ASSUME NEW i \in ToolEnds' PROVE i \in ToolEnds \cup {n + 3}
    <3>1. i \in 1..(n + 4) /\ events'[i].type = "TOOL_CALL_END"
      BY <1>1 DEF ToolEnds, Types
    <3>2. i \in 1..n \/ i = n + 3
      BY <1>2, <1>3, <3>1
    <3> QED
      BY <1>1, <3>1, <3>2 DEF ToolEnds, Types, n
  <2>2. ASSUME NEW i \in ToolEnds \cup {n + 3} PROVE i \in ToolEnds'
    <3>1. i \in 1..(n + 4) /\ events'[i].type = "TOOL_CALL_END"
      <4>1. CASE i \in ToolEnds
        BY <1>0, <1>1, <1>4, <4>1 DEF ToolEnds, Types
      <4>2. CASE i = n + 3
        BY <1>0, <1>2, <4>2
      <4> QED
        BY <2>2, <4>1, <4>2
    <3> QED
      BY <1>1, <3>1 DEF ToolEnds, Types
  <2> QED
    BY <2>1, <2>2
<1>6. Cardinality(ToolEnds) = Len(tools) /\ tools \in Seq(ReactCall) /\ Len(tools) \in Nat
  BY DEF CallsInv, GraphInv, ReactInv
<1>7. Cardinality(ToolEnds') = Len(tools) + 1
  <2>1. Cardinality(ToolEnds \cup {n + 3}) = Cardinality(ToolEnds) + 1
    BY <1>4, FS_AddElement
  <2> QED
    BY <1>5, <1>6, <2>1
<1>8. PICK call : tools' = Append(tools, call) /\ call.tool = pad.plan
  BY DEF ActNode
<1>9. /\ Len(tools') = Len(tools) + 1 /\ tools'[Len(tools) + 1] = call
      /\ \A k \in 1..Len(tools) : tools'[k] = tools[k]
  BY <1>6, <1>8
<1>10. ASSUME NEW i \in ToolEnds'
       PROVE  events'[i].name = tools'[Cardinality(ToolEnds' \cap (1..i))].tool
  <2>1. CASE i = n + 3
    <3>1. ToolEnds' \cap (1..i) = ToolEnds'
      <4>1. 1..n \subseteq 1..i /\ n + 3 \in 1..i
        BY <1>0, <2>1
      <4>2. ToolEnds' \subseteq 1..i
        BY <1>4, <1>5, <4>1
      <4> QED
        BY <4>2
    <3> QED
      BY <1>2, <1>7, <1>8, <1>9, <2>1, <3>1
  <2>2. CASE i \in ToolEnds
    <3>1. ToolEnds' \cap (1..i) = ToolEnds \cap (1..i)
      <4>1. n + 3 \notin 1..i
        BY <1>0, <1>4, <2>2
      <4> QED
        BY <1>5, <4>1
    <3> DEFINE k == Cardinality(ToolEnds \cap (1..i))
    <3>2. k \in 1..Len(tools)
      <4>1. ToolEnds \cap (1..i) \subseteq ToolEnds
        OBVIOUS
      <4>2. IsFiniteSet(ToolEnds \cap (1..i)) /\ k <= Cardinality(ToolEnds)
        BY <1>4, <4>1, FS_Subset
      <4>3. i \in ToolEnds \cap (1..i)
        BY <1>4, <2>2
      <4>4. k \in Nat /\ k # 0
        BY <4>2, <4>3, FS_CardinalityType, FS_EmptySet
      <4> QED
        BY <1>6, <4>2, <4>4
    <3>3. events'[i].name = events[i].name /\ events[i].name = tools[k].tool
      BY <1>1, <1>4, <2>2 DEF CallsInv
    <3> HIDE DEF k
    <3>4. tools'[k] = tools[k]
      BY <1>9, <3>2
    <3>5. Cardinality(ToolEnds' \cap (1..i)) = k
      BY <3>1 DEF k
    <3> QED
      BY <3>3, <3>4, <3>5
  <2> QED
    BY <1>5, <2>1, <2>2
<1>11. agent' = agent
  BY DEF ActNode
<1> QED
  BY <1>7, <1>9, <1>10, <1>11 DEF CallsInv

\* A step that writes nothing and neither enters nor leaves the ReAct graph.
LEMMA CallsStay ==
  ASSUME CallsInv, agent' = agent, events' = events, tools' = tools
  PROVE  CallsInv'
<1>1. ToolEnds' = ToolEnds
  BY DEF ToolEnds, Types
<1>2. \A i \in ToolEnds : Cardinality(ToolEnds \cap (1..i))' = Cardinality(ToolEnds \cap (1..i))
  BY <1>1
<1>3. Cardinality(ToolEnds)' = Cardinality(ToolEnds)
  BY <1>1
<1> QED
  BY <1>1, <1>2, <1>3 DEF CallsInv

LEMMA OtherAgents ==
  ASSUME agent' \notin {"none", "supervisor", "react"}
  PROVE  CallsInv'
  BY DEF CallsInv

\* A step of the ReAct graph that ends no tool call.
LEMMA PlainStepKeeps ==
  ASSUME CallsInv, TimelineInv, agent = "react", agent' = agent, tools' = tools,
         NEW n \in Names, NEW b, NEW next \in Names, Calls(n, b, next, <<>>)
  PROVE  CallsInv'
<1>1. PICK new : Quiet(new) /\ Emits(new)
  BY PlainWrites
<1> QED
  BY <1>1, NoCallWritten

LEMMA CallsKeptAlways ==
  GraphInv /\ TimelineInv /\ CallsInv /\ [Next]_vars => CallsInv'
<1> SUFFICES ASSUME GraphInv, TimelineInv, CallsInv, [Next]_vars PROVE CallsInv'
  OBVIOUS
<1>1. CASE Route
  <2>1. events' = events /\ agent = "none" /\ agent' \in {"supervisor", "ticket", "anomaly"}
    BY <1>1 DEF Route, Routes, Chosen, Intents
  <2> QED
    BY <2>1 DEF CallsInv
<1>2. CASE SupervisorAnswers
  BY <1>2, CallsStay DEF SupervisorAnswers
<1>3. CASE SupervisorRaises
  <2>1. events' = <<>> /\ tools' = <<>> /\ agent' = "react"
    BY <1>3 DEF SupervisorRaises, CallsInv, GraphInv, Fresh
  <2>2. ToolEnds' = {}
    BY <2>1 DEF ToolEnds, Types
  <2>3. Cardinality(ToolEnds') = 0 /\ Len(tools') = 0
    BY <2>1, <2>2, FS_EmptySet
  <2> QED
    BY <2>1, <2>2, <2>3 DEF CallsInv
<1>4. CASE OutOfSteps
  <2>1. agent' = agent /\ tools' = tools /\ RunsDry(Budget)
        /\ agent \in {"react", "ticket", "anomaly"}
    BY <1>4 DEF OutOfSteps
  <2>2. CASE agent = "react"
    <3> DEFINE end == Event("GRAPH_MAX_STEPS", node)
    <3>1. end \in Events /\ end.type = "GRAPH_MAX_STEPS"
      BY EventTyped DEF EventTypes, Starts, Ends, TimelineInv
    <3>2. Emits(<<end>>)
      BY <2>1, Zenon DEF RunsDry
    <3> HIDE DEF end
    <3>3. Quiet(<<end>>)
      BY <3>1, QuietOne
    <3> QED
      BY <2>1, <2>2, <3>2, <3>3, NoCallWritten
  <2>3. CASE agent # "react"
    BY <2>1, <2>3, OtherAgents
  <2> QED
    BY <2>2, <2>3
<1>5. CASE PlanNode
  <2> PICK plan \in Plans :
        Calls("plan", Budget, IF plan = "finalize" THEN "finalize" ELSE "act", <<>>)
    BY <1>5 DEF PlanNode
  <2>1. agent = "react" /\ agent' = agent /\ tools' = tools
    BY <1>5 DEF PlanNode
  <2> QED
    BY <2>1, PlainStepKeeps, NodesNamed
<1>6. CASE PlanRaises
  <2> DEFINE first == Event("NODE_START", "plan")
             error == Event("NODE_ERROR", "plan")
  <2>1. agent = "react" /\ agent' = agent /\ tools' = tools
    BY <1>6 DEF PlanRaises
  <2>2. Emits(<<first, error>>)
    BY <1>6, Zenon DEF PlanRaises, Raises
  <2>3. /\ first \in Events /\ first.type = "NODE_START"
        /\ error \in Events /\ error.type = "NODE_ERROR"
    BY EventTyped, NodesNamed DEF EventTypes, Starts, Ends
  <2> HIDE DEF first, error
  <2>4. Quiet(<<first, error>>)
    BY <2>3 DEF Quiet
  <2> QED
    BY <2>1, <2>2, <2>4, NoCallWritten
<1>7. CASE ActNode
  BY <1>7, ActKeepsCalls DEF ActNode
<1>8. CASE ObserveNode
  BY <1>8, PlainStepKeeps, NodesNamed DEF ObserveNode
<1>9. CASE FinalizeNode
  <2>1. /\ Calls("finalize", Budget, "", <<>>)
        /\ agent = "react" /\ agent' = agent /\ tools' = tools
    BY Zenon, <1>9 DEF FinalizeNode
  <2> QED
    BY Zenon, <2>1, PlainStepKeeps, NodesNamed
<1>10. CASE QueueLookupNode \/ OrderLookupNode \/ OrderLookupRaises \/ TicketFinalizeNode
  BY <1>10, OtherAgents DEF QueueLookupNode, OrderLookupNode, OrderLookupRaises,
                            TicketFinalizeNode
<1>11. CASE ClassifyNode \/ RouteNode
  BY <1>11, OtherAgents DEF ClassifyNode, RouteNode
<1>12. CASE UNCHANGED vars
  BY <1>12, CallsStay DEF vars, engine
<1> QED
  BY <1>1, <1>2, <1>3, <1>4, <1>5, <1>6, <1>7, <1>8, <1>9, <1>10, <1>11, <1>12 DEF Next

\* TimelineReplays, for every budget, planner and outcome of the tools: with the three
\* parts above, the n-th end of a tool call in the timeline is of the n-th call kept.
THEOREM TimelineReplaysRun == Spec => []TimelineReplays
<1>1. Init => GraphInv /\ CallsInv
  BY DEF Init, EngineInit, GraphInv, Fresh, CallsInv
<1>2. CallsInv => CallsKept
  BY DEF CallsInv, CallsKept, ToolEnds
<1>3. Spec => []TimelineInv /\ []GraphInv
  BY InitTimeline, <1>1, GraphInvKept, TimelineKept, PTL DEF Spec
<1>4. Spec => []CallsKept
  BY <1>1, <1>2, <1>3, CallsKeptAlways, PTL DEF Spec
<1> QED
  BY <1>4, TimelineIsWhole, PTL DEF TimelineReplays

=============================================================================
