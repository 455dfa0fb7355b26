---------------------------- MODULE AgentGraphs ----------------------------
(* One request to the agents, from the router to the result: the router picks   *)
(* an agent, the agent runs its graph in the engine, and an adapter turns the   *)
(* end of the graph into the result of the run.  The ticket and the anomaly     *)
(* agent have a graph each; the ReAct graph (plan, act, observe, finalize) is   *)
(* what is left of the policy agent when its supervisor raises.  PolicyRuns     *)
(* models the supervisor, the tool runner and its breaker: here a tool call     *)
(* ends in any status the runner can give.                                      *)
EXTENDS GraphEngine, SequencesExt

CONSTANTS
  Questions, \* what the strategies and the anomaly matcher make of a question
  Tickets,   \* ticket payloads
  Providers, \* values the agent_router_provider setting may have
  ReactLlm,  \* agent_react_llm_enabled
  Delegates, \* agent_as_tool_enabled
  MaxReactSteps,
  NoTicket

Intents == {"ticket", "anomaly", "policy"}

\* The catalog, in the order the strategies go through it.
Catalog == <<"ticket", "anomaly", "policy">>

\* The anomaly categories in order, with base confidence and queue.
Categories ==
  <<[code |-> "duplicate_booking", base |-> 60, queue |-> "ops-review"],
    [code |-> "refund_dispute",    base |-> 65, queue |-> "cs-escalation"],
    [code |-> "suspected_fraud",   base |-> 70, queue |-> "risk-review"],
    [code |-> "generic_anomaly",   base |-> 55, queue |-> "ops-review"]>>

\* labels: the intents the answer of the LLM names; nearest: the exemplar closest
\* to the question, if close enough; words: the intents with a keyword in it;
\* signals: how many keywords of each anomaly category are in it.
Question == [labels  : SUBSET Intents,
             nearest : Intents \cup {"none"},
             words   : SUBSET Intents,
             signals : [1..Len(Categories) -> Nat]]

\* identified: ticket_id has between 1 and 64 characters.
Ticket == [expense : {"hotel", "other"}, amount : Nat, identified : BOOLEAN]

\* Some keywords of the router are keywords of the first and of the last category.
Consistent(q) ==
  /\ "anomaly" \in q.words => q.signals[1] > 0 \/ q.signals[4] > 0
  /\ q.signals[1] > 1 \/ q.signals[4] > 1 => "anomaly" \in q.words

ASSUME AgentAssumption ==
  /\ \A q \in Questions : q \in Question /\ Consistent(q)
  /\ Tickets \subseteq Ticket
  /\ NoTicket \notin Tickets
  /\ ReactLlm \in BOOLEAN /\ Delegates \in BOOLEAN
  /\ MaxReactSteps \in Nat

VARIABLES
  request, \* the question and the ticket payload, if there is one
  agent,   \* who has the request: none, ticket, anomaly, supervisor or react
  pad,     \* the scratchpad
  tools    \* tool_calls of the graph's state

vars == <<engine, request, agent, pad, tools>>

EmptyPad == [plan |-> "none", observations |-> <<>>, lastStatus |-> "none",
             queue |-> "none", category |-> 0, final |-> "none", answer |-> <<>>]

Init ==
  /\ EngineInit
  /\ request \in [question : Questions, ticket : Tickets \cup {NoTicket}]
  /\ agent = "none"
  /\ pad = EmptyPad
  /\ tools = <<>>

-----------------------------------------------------------------------------
(* choose_route *)

\* The first intent of the catalog among these.
FirstOf(S) ==
  LET here == SelectSeq(Catalog, LAMBDA i : i \in S)
  IN  IF here = <<>> THEN "none" ELSE Head(here)

\* What a strategy answers; "none" also when it raises or its service is down.
Classify(strategy) ==
  LET q == request.question
  IN  CASE strategy = "llm"       -> {FirstOf(q.labels), "none"}
        [] strategy = "embedding" -> {q.nearest, "none"}
        [] strategy = "keyword"   -> {FirstOf(q.words)}

Chain(primary) ==
  LET first == IF primary \in {"llm", "embedding", "keyword"} THEN primary ELSE "keyword"
  IN  <<first>> \o SelectSeq(<<"embedding", "keyword">>, LAMBDA s : s # first)

\* The intents the chain can come to: that of the first strategy that has one.
Chosen(primary) ==
  LET chain == Chain(primary)
  IN  {i \in Intents :
         \E k \in 1..Len(chain) :
           /\ i \in Classify(chain[k])
           /\ \A j \in 1..(k - 1) : "none" \in Classify(chain[j])}
      \cup {i \in {"policy"} : \A k \in 1..Len(chain) : "none" \in Classify(chain[k])}

\* Mutant: a strategy is asked before the payload is looked at.
RoutesByText(primary) == Chosen(primary)

Routes(primary) == IF request.ticket # NoTicket THEN {"ticket"} ELSE Chosen(primary)

Entry == [ticket |-> "queue_lookup", anomaly |-> "classify", policy |-> ""]

\* run_agent_workflow.
Route ==
  /\ agent = "none"
  /\ \E p \in Providers : \E i \in Routes(p) :
       /\ agent' = IF i = "policy" THEN "supervisor" ELSE i
       /\ node' = Entry[i]
  /\ UNCHANGED <<steps, events, ended, request, pad, tools>>

\* The supervisor answers (PolicyRuns), or it raises and the ReAct graph starts.
SupervisorAnswers ==
  /\ agent = "supervisor" /\ ended = "no"
  /\ ended' = "supervised"
  /\ UNCHANGED <<node, steps, events, request, agent, pad, tools>>

SupervisorRaises ==
  /\ agent = "supervisor" /\ ended = "no"
  /\ agent' = "react" /\ node' = "plan"
  /\ UNCHANGED <<steps, events, ended, request, pad, tools>>

Budget == CASE agent = "react" -> MaxReactSteps [] agent = "ticket" -> 6
            [] agent = "anomaly" -> 4 [] OTHER -> 0

OutOfSteps ==
  /\ agent \in {"react", "ticket", "anomaly"}
  /\ RunsDry(Budget)
  /\ UNCHANGED <<request, agent, pad, tools>>

-----------------------------------------------------------------------------
(* The ReAct graph *)

\* The plan without the LLM: search once, then finalize.
HardcodedFallback == IF pad.observations = <<>> THEN "policy_search" ELSE "finalize"

\* An answer of the LLM that names a tool outside the catalog is replaced, too.
Plans == {HardcodedFallback}
         \cup (IF ReactLlm THEN {"finalize", "policy_search"} ELSE {})
         \cup (IF ReactLlm /\ Delegates THEN {"call_agent"} ELSE {})

PlanNode ==
  /\ agent = "react"
  /\ \E plan \in Plans :
       /\ Calls("plan", Budget, IF plan = "finalize" THEN "finalize" ELSE "act", <<>>)
       /\ pad' = [pad EXCEPT !.plan = plan]
  /\ UNCHANGED <<request, agent, tools>>

\* An exception the planner does not expect: a malformed gateway URL or answer.
PlanRaises ==
  /\ agent = "react" /\ ReactLlm
  /\ Raises("plan", Budget)
  /\ UNCHANGED <<request, agent, pad, tools>>

\* Mutant: the tool gets the arguments the planner chose.
ReturnsWithArguments(tool) == {"completed", "failed", "validation_error", "circuit_open"}

\* act gives every tool the same three fields, and call_agent requires others.
Returns(tool) ==
  IF tool = "call_agent" THEN {"validation_error", "circuit_open"}
  ELSE {"completed", "failed", "validation_error", "circuit_open"}

\* confident: the tool's answer has at least chat_confidence_threshold.
ActNode ==
  /\ agent = "react"
  /\ LET tool == pad.plan
     IN  /\ Calls("act", Budget, "observe", <<Event("TOOL_CALL_START", tool),
                                              Event("TOOL_CALL_END", tool)>>)
         /\ \E status \in Returns(tool) : \E confident \in BOOLEAN :
              /\ confident => status = "completed"
              /\ tools' = Append(tools, [tool |-> tool, status |-> status,
                                         confident |-> confident,
                                         number |-> Len(tools) + 1])
              /\ pad' = [pad EXCEPT !.lastStatus = status]
  /\ UNCHANGED <<request, agent>>

ObserveNode ==
  /\ agent = "react"
  /\ Calls("observe", Budget, "plan", <<>>)
  /\ pad' = [pad EXCEPT !.observations = Append(@, Last(tools))]
  /\ UNCHANGED <<request, agent, tools>>

\* Mutant: the first successful observation, as the node's docstring says.
FirstSuccessful ==
  LET good == SelectSeq(pad.observations, LAMBDA o : o.status = "completed")
  IN  IF good = <<>> THEN good ELSE <<Head(good)>>

\* The observation whose output is the answer; none for a refusal.
Synthesis ==
  IF pad.observations = <<>> \/ pad.lastStatus # "completed" THEN <<>>
  ELSE <<Last(pad.observations)>>

FinalizeNode ==
  /\ agent = "react"
  /\ Calls("finalize", Budget, "", <<>>)
  /\ pad' = [pad EXCEPT !.final = IF Synthesis = <<>> THEN "refusal" ELSE "answer",
                        !.answer = Synthesis]
  /\ UNCHANGED <<request, agent, tools>>

-----------------------------------------------------------------------------
(* The ticket graph; a request without a payload is given an empty one          *)

TicketOf ==
  IF request.ticket = NoTicket THEN [expense |-> "other", amount |-> 0, identified |-> FALSE]
  ELSE request.ticket

QueueOf(t) ==
  CASE t.expense = "hotel" /\ t.amount > 1000 -> "finance-review"
    [] ~(t.expense = "hotel" /\ t.amount > 1000) /\ t.amount > 5000 -> "senior-approval"
    [] OTHER -> "ops-review"

Completed(tool) == [tool |-> tool, status |-> "completed", confident |-> TRUE,
                    number |-> Len(tools) + 1]

QueueLookupNode ==
  /\ agent = "ticket"
  /\ Calls("queue_lookup", Budget, "order_lookup", <<>>)
  /\ pad' = [pad EXCEPT !.queue = QueueOf(TicketOf)]
  /\ tools' = Append(tools, Completed("ticket_queue_lookup"))
  /\ UNCHANGED <<request, agent>>

OrderLookupNode ==
  /\ agent = "ticket" /\ TicketOf.identified
  /\ Calls("order_lookup", Budget, "finalize", <<>>)
  /\ tools' = Append(tools, Completed("order_lookup"))
  /\ UNCHANGED <<request, agent, pad>>

\* OrderLookupInput refuses the ticket_id.
OrderLookupRaises ==
  /\ agent = "ticket" /\ ~TicketOf.identified
  /\ Raises("order_lookup", Budget)
  /\ UNCHANGED <<request, agent, pad, tools>>

TicketFinalizeNode ==
  /\ agent = "ticket"
  /\ Calls("finalize", Budget, "", <<>>)
  /\ pad' = [pad EXCEPT !.final = pad.queue]
  /\ UNCHANGED <<request, agent, tools>>

-----------------------------------------------------------------------------
(* The anomaly graph *)

\* Mutant: any hit count beats a lower one, equal or not.
BetterOrEqual(signals, c, best) == signals[c] >= signals[best]

Better(signals, c, best) ==
  \/ signals[c] > signals[best]
  \/ signals[c] = signals[best] /\ Categories[c].base > Categories[best].base

\* The best of the categories so far, given the best of those before this one.
Keeps(signals, best, c) ==
  IF signals[c] = 0 THEN best
  ELSE IF best = 0 THEN c
  ELSE IF Better(signals, c, best) THEN c ELSE best

\* _detect: one pass through the categories; 0 when none is hit.
Detect(signals) ==
  LET first  == Keeps(signals, 0, 1)
      second == Keeps(signals, first, 2)
      third  == Keeps(signals, second, 3)
  IN  Keeps(signals, third, 4)

ClassifyNode ==
  /\ agent = "anomaly"
  /\ Calls("classify", Budget, "route", <<>>)
  /\ pad' = [pad EXCEPT !.category = Detect(request.question.signals)]
  /\ UNCHANGED <<request, agent, tools>>

RouteNode ==
  /\ agent = "anomaly"
  /\ Calls("route", Budget, "", <<>>)
  /\ pad' = [pad EXCEPT !.final = IF pad.category = 0 THEN "ops-review"
                                  ELSE Categories[pad.category].queue]
  /\ UNCHANGED <<request, agent, tools>>

-----------------------------------------------------------------------------
(* The adapters: what is reported of a run that is over *)

Over == ended \notin {"no", "supervised"}

Confident == pad.answer # <<>> /\ Head(pad.answer).confident

\* The status of a ReAct run.
ReactStatus ==
  IF ended = "error" THEN "failed" ELSE IF Confident THEN "completed" ELSE "needs_review"

\* The queue a ticket or an anomaly run is sent to.
ReportedQueue ==
  CASE pad.final # "none" -> pad.final
    [] pad.final = "none" /\ agent = "ticket" -> "ops-general"
    [] pad.final = "none" /\ agent = "anomaly" -> "ops-review"

-----------------------------------------------------------------------------

Next ==
  \/ Route \/ SupervisorAnswers \/ SupervisorRaises \/ OutOfSteps
  \/ PlanNode \/ PlanRaises \/ ActNode \/ ObserveNode \/ FinalizeNode
  \/ QueueLookupNode \/ OrderLookupNode \/ OrderLookupRaises \/ TicketFinalizeNode
  \/ ClassifyNode \/ RouteNode

\* The request is one synchronous call: it goes on while it can.
Spec == Init /\ [][Next]_vars

-----------------------------------------------------------------------------

Statuses == {"completed", "failed", "validation_error", "circuit_open"}
Call == [tool : {"policy_search", "call_agent", "ticket_queue_lookup", "order_lookup"},
         status : Statuses, confident : BOOLEAN, number : Nat \ {0}]
Queues == {"finance-review", "senior-approval"}
          \cup {Categories[c].queue : c \in 1..Len(Categories)}
Nodes == {"plan", "act", "observe", "finalize", "queue_lookup", "order_lookup",
          "classify", "route"}

\* Every variable has its type.
TypeOK ==
  /\ node \in Nodes \cup {""} /\ steps \in Nat
  /\ events \in Seq([sequence : Nat, type : STRING, name : STRING])
  /\ ended \in {"no", "completed", "error", "max_steps", "supervised"}
  /\ request \in [question : Questions, ticket : Tickets \cup {NoTicket}]
  /\ agent \in {"none", "supervisor", "react", "ticket", "anomaly"}
  /\ tools \in Seq(Call)
  /\ pad \in [plan : {"none", "policy_search", "call_agent", "finalize"},
              observations : Seq(Call), lastStatus : Statuses \cup {"none"},
              queue : Queues \cup {"none"}, category : 0..Len(Categories),
              final : Queues \cup {"none", "refusal", "answer"}, answer : Seq(Call)]

Types(S) == {i \in 1..Len(events) : events[i].type \in S}

\* The timeline is numbered from zero, without a gap or a repetition, although nodes
\* and the tool runner number their own events zero.
Consecutive == \A i \in 1..Len(events) : events[i].sequence = i - 1

\* There is one start for every step counted against the budget.
StartsCounted == steps = Cardinality(Types({"NODE_START"}))

\* The tool events are those of the calls the state keeps, all of them and in the same
\* order: the n-th one is of the n-th call.
CallsKept ==
  agent = "react" =>
    LET at == Types({"TOOL_CALL_END"})
    IN  /\ Cardinality(at) = Len(tools)
        /\ \A i \in at : events[i].name = tools[Cardinality(at \cap (1..i))].tool

\* The run is over exactly when the last event says so.
EndIsLast ==
  Types({"GRAPH_END", "NODE_ERROR", "GRAPH_MAX_STEPS"}) = IF Over THEN {Len(events)} ELSE {}

\* The events a run leaves (agent_event) replay it.
TimelineReplays == Consecutive /\ StartsCounted /\ CallsKept /\ EndIsLast

\* What a ReAct run answers is the output of the last tool call it made, and that
\* call was a policy search that completed: never an earlier search after a later
\* failure, never the output of a call that was not observed before the budget
\* (three nodes a cycle, two to finish) ran out.  Only an answer with enough
\* confidence completes a run without a reviewer.
AnswerIsLastSearch ==
  agent = "react" /\ Over =>
    /\ \A k \in 1..Len(pad.answer) :
         /\ ended = "completed"
         /\ pad.answer[k] = Last(tools)
         /\ pad.answer[k].tool = "policy_search"
         /\ pad.answer[k].status = "completed"
    /\ ReactStatus = "completed" => Last(tools).confident
    /\ ended = "completed" => 3 * Len(tools) + 2 <= MaxReactSteps
    /\ ended = "max_steps" => 3 * Len(tools) + 2 > MaxReactSteps

\* Category c beats every other one: more keywords, or as many and a higher base.
BestOf(signals, c) ==
  /\ signals[c] > 0
  /\ \A d \in 1..Len(Categories) :
       \/ signals[d] < signals[c]
       \/ signals[d] = signals[c] /\ Categories[d].base <= Categories[c].base

\* A request that carries a ticket is never sent elsewhere by what its question says,
\* however the strategies are set and fail, and a ticket run that completes reports
\* the queue of its ticket and looked its order up.
TicketTriage ==
  /\ request.ticket # NoTicket /\ agent # "none" => agent = "ticket"
  /\ agent = "ticket" /\ ended = "completed" =>
       ReportedQueue = QueueOf(TicketOf) /\ TicketOf.identified

\* The single pass over the categories ends at the best of all of them.
AnomalyTriage ==
  agent = "anomaly" /\ Over =>
    LET signals == request.question.signals
        best == {c \in 1..Len(Categories) : BestOf(signals, c)}
    IN  {ReportedQueue} = IF best = {} THEN {"ops-review"}
                          ELSE {Categories[c].queue : c \in best}

\* Cases reach the queue of their kind: the ticket's, or that of the best category.
RightQueue == TicketTriage /\ AnomalyTriage

=============================================================================
