----------------------------- MODULE PolicyRuns -----------------------------
(* The policy supervisor and the tool runner under it.  A run routes its        *)
(* question to the policy profiles it matches; each profile asks policy_search  *)
(* its own questions, one after the other; the profiles of a mixed question work*)
(* in plan order or in parallel threads, and a reducer joins their reports.     *)
(* All the runs of a process share one circuit breaker per tool.                *)
EXTENDS Naturals, Sequences, FiniteSets

CONSTANTS
  Runs,      \* runs of the policy supervisor in one process
  Questions, \* run -> what it can be asked: the profiles matched, the topics found
  Modes,     \* values AGENT_MIXED_EXECUTION may have
  Attempts,  \* RetryPolicy.attempts
  Threshold, \* CircuitPolicy.failure_threshold; 0 disables the breaker
  NoQuestion

\* The dimensions of each profile: those it always requires, and those it requires when
\* the question has their topic.
Dimensions ==
  [hotel |-> {"room_rate_standard", "breakfast_allowance", "invoice_tax",
              "weekend_stay_justification", "booking_channel_compliance"},
   flight |-> {"cabin_policy", "approval_requirement", "change_refund_policy",
               "booking_channel_compliance"},
   reimbursement |-> {"invoice_tax", "approval_requirement", "allowance_policy",
                      "supporting_documents"}]

Listed(s) == {s[i] : i \in 1..Len(s)}

Domains == DOMAIN Dimensions \cup {"generic"}
Topics  == UNION {{d} \X Dimensions[d] : d \in DOMAIN Dimensions}

ASSUME PolicyAssumption ==
  /\ Questions \in [Runs -> SUBSET [matches : SUBSET DOMAIN Dimensions,
                                   topics : SUBSET Topics]]
  /\ \A r \in Runs : NoQuestion \notin Questions[r]
  /\ Modes \subseteq {"serial", "parallel"}
  /\ IsFiniteSet(Runs)
  /\ Attempts \in Nat \ {0}
  /\ Threshold \in Nat

VARIABLES
  mode,     \* read from the environment when the graph is compiled
  breaker,  \* state of the breaker of policy_search
  question, \* run -> the question it was given
  worker,   \* run -> domain -> the worker of that profile
  arrived,  \* run -> the domains whose report is there, in the order they came
  final,    \* run -> what the supervisor returns
  flight,   \* history: calls under way when the breaker opened
  burst     \* history: attempts made since, while it is open

vars == <<mode, breaker, question, worker, arrived, final, flight, burst>>

-----------------------------------------------------------------------------
(* Routing and planning *)

OneIfIn(x, S) == IF x \in S THEN <<x>> ELSE <<>>

\* Profiles in the order of POLICY_PROFILES, and those that come before one.
InOrder(domains) ==
  OneIfIn("generic", domains) \o OneIfIn("hotel", domains)
    \o OneIfIn("flight", domains) \o OneIfIn("reimbursement", domains)

Earlier(d) ==
  CASE d = "flight" -> {"hotel"} [] d = "reimbursement" -> {"hotel", "flight"} [] OTHER -> {}

Chosen(q) == IF q.matches = {} THEN {"generic"} ELSE q.matches

Plan(q) == InOrder(Chosen(q))

AllQuestions == UNION {Questions[r] : r \in Runs}

\* The dimensions in the order they are asked; the first one is always required.
Required ==
  [q \in AllQuestions |-> [d \in Domains |->
    LET Topic(x) == OneIfIn(x, {t[2] : t \in {u \in q.topics : u[1] = d}})
    IN  CASE d = "hotel" ->
               <<"room_rate_standard">> \o Topic("breakfast_allowance") \o Topic("invoice_tax")
                 \o Topic("weekend_stay_justification") \o Topic("booking_channel_compliance")
          [] d = "flight" ->
               <<"cabin_policy">> \o Topic("approval_requirement")
                 \o Topic("change_refund_policy") \o Topic("booking_channel_compliance")
          [] d = "reimbursement" ->
               <<"invoice_tax">> \o Topic("approval_requirement") \o Topic("allowance_policy")
                 \o Topic("supporting_documents")
          [] OTHER -> <<>>]]

Subquestions(q, d) == <<"primary">> \o Required[q][d]

Planned(r) == Chosen(question[r])

-----------------------------------------------------------------------------
(* The breaker.  "cooled": opened, and the cooldown has elapsed since. *)

Closed == [failures |-> 0, opened |-> "no"]

\* Mutant: the count is compared, off by one, instead of the timestamp.
CountExceeds(b) == Threshold > 0 /\ b.failures > Threshold

IsOpen(b) == Threshold > 0 /\ b.opened = "open"

\* is_open pops the timestamp once the cooldown has elapsed.
HalfOpened(b) == IF Threshold > 0 /\ b.opened = "cooled" THEN Closed ELSE b

\* Mutant: the count is reset and the timestamp stays.
KeepsTimestamp(b) == [failures |-> 0, opened |-> b.opened]

RecordSuccess(b) == Closed

RecordFailure(b) ==
  IF Threshold = 0 THEN b
  ELSE [failures |-> b.failures + 1,
        opened |-> IF b.failures + 1 >= Threshold THEN "open" ELSE b.opened]

-----------------------------------------------------------------------------
(* Workers *)

Entering(pc, attempts, results) ==
  [pc |-> pc, attempts |-> attempts, results |-> results]

Idle == Entering("none", 0, <<>>)

Init ==
  /\ mode \in Modes
  /\ breaker = Closed
  /\ question = [r \in Runs |-> NoQuestion]
  /\ worker = [w \in Runs \X Domains |-> Idle]
  /\ arrived = [r \in Runs |-> <<>>]
  /\ final = [r \in Runs |-> [done |-> FALSE, reports |-> <<>>, interrupt |-> FALSE]]
  /\ flight = 0 /\ burst = 0

\* _route_node: one worker for each planned profile, or the generic search.
Start(r, q) ==
  /\ question[r] = NoQuestion
  /\ question' = [question EXCEPT ![r] = q]
  /\ worker' = [w \in Runs \X Domains |->
       IF w[1] = r /\ w[2] \in Chosen(q) THEN Entering("ask", 0, <<>>) ELSE worker[w]]
  /\ UNCHANGED <<mode, breaker, arrived, final, flight, burst>>

\* In serial mode a profile begins when those before it in the plan have reported.
Turn(r, d) ==
  mode = "serial" => \A e \in Planned(r) \cap Earlier(d) : worker[<<r, e>>].pc = "done"

Calls == {w \in Runs \X Domains : worker[w].pc = "call"}

\* The worker's next state when a question ends with this status.
Recorded(r, d, status) ==
  LET results == Append(worker[<<r, d>>].results, status)
  IN  Entering(IF Len(results) = Len(Subquestions(question[r], d)) THEN "done" ELSE "ask",
               0, results)

\* The worker has put its report into parallel_profile_reports, or into the state.
Arrivals(r, d, w) == IF w.pc = "done" THEN Append(arrived[r], d) ELSE arrived[r]

End(r, d, status) ==
  /\ worker' = [worker EXCEPT ![<<r, d>>] = Recorded(r, d, status)]
  /\ arrived' = [arrived EXCEPT ![r] = Arrivals(r, d, Recorded(r, d, status))]

\* Mutant: the call waits for the breaker instead of being refused.
Waits(r, d) == FALSE

\* run_guarded_tool: the gateway allows policy_search; the runner asks the breaker.
Refused(r, d) ==
  /\ worker[<<r, d>>].pc = "ask" /\ Turn(r, d)
  /\ IsOpen(breaker)
  /\ End(r, d, "circuit_open")
  /\ UNCHANGED <<mode, breaker, question, final, flight, burst>>

Admitted(r, d) ==
  /\ worker[<<r, d>>].pc = "ask" /\ Turn(r, d)
  /\ ~IsOpen(breaker)
  /\ breaker' = HalfOpened(breaker)
  /\ worker' = [worker EXCEPT ![<<r, d>>] = Entering("call", 0, worker[<<r, d>>].results)]
  /\ UNCHANGED <<mode, question, arrived, final, flight, burst>>

\* What the breaker's opening leaves under way, and the attempts it makes.
Witness(r, d) ==
  IF breaker'.opened # "open" THEN flight' = 0 /\ burst' = 0
  ELSE IF breaker.opened = "open" THEN flight' = flight /\ burst' = burst + 1
  ELSE flight' = Cardinality(Calls \ {<<r, d>>}) /\ burst' = 0

\* The tool answers: with confidence and citations, or without.
Succeeds(r, d, status) ==
  /\ worker[<<r, d>>].pc = "call"
  /\ breaker' = RecordSuccess(breaker)
  /\ End(r, d, status)
  /\ Witness(r, d)
  /\ UNCHANGED <<mode, question, final>>

MayRetry(w) == w.attempts + 1 < Attempts

\* The tool raises and the runner backs off.
Retries(r, d) ==
  /\ worker[<<r, d>>].pc = "call" /\ MayRetry(worker[<<r, d>>])
  /\ worker' = [worker EXCEPT ![<<r, d>>] =
       Entering("call", worker[<<r, d>>].attempts + 1, worker[<<r, d>>].results)]
  /\ breaker' = breaker
  /\ Witness(r, d)
  /\ UNCHANGED <<mode, question, arrived, final>>

\* The tool raises for the last time.
GivesUp(r, d) ==
  /\ worker[<<r, d>>].pc = "call" /\ ~MayRetry(worker[<<r, d>>])
  /\ breaker' = RecordFailure(breaker)
  /\ End(r, d, "failed")
  /\ Witness(r, d)
  /\ UNCHANGED <<mode, question, final>>

\* The cooldown elapses.
Cools ==
  /\ breaker.opened = "open"
  /\ breaker' = [failures |-> breaker.failures, opened |-> "cooled"]
  /\ flight' = 0 /\ burst' = 0
  /\ UNCHANGED <<mode, question, worker, arrived, final>>

-----------------------------------------------------------------------------
(* Reports *)

\* Mutant: any completed answer covers its dimension.
Completed(r, d, x) ==
  \E i \in 1..Len(worker[<<r, d>>].results) :
    /\ Subquestions(question[r], d)[i] = x
    /\ worker[<<r, d>>].results[i] \in {"good", "weak"}

\* A dimension is covered by a completed, confident answer with citations.
Covered(r, d, x) ==
  \E i \in 1..Len(worker[<<r, d>>].results) :
    /\ Subquestions(question[r], d)[i] = x
    /\ worker[<<r, d>>].results[i] = "good"

Report(r, d) ==
  [domain |-> d,
   missing |-> {x \in Listed(Required[question[r]][d]) : ~Covered(r, d, x)}]

\* _mixed_execute_node: the loop over the planned profiles.
SerialReports(r) ==
  LET plan == Plan(question[r]) IN [i \in 1..Len(plan) |-> Report(r, plan[i])]

\* Mutant: the bundles in the order they came.
ArrivalOrder(r) == [i \in 1..Len(arrived[r]) |-> Report(r, arrived[r][i])]

\* _mixed_reducer_node: planned order, profiles without a bundle skipped.
JoinedReports(r) ==
  LET here == InOrder(Planned(r) \cap Listed(arrived[r]))
  IN  [i \in 1..Len(here) |-> Report(r, here[i])]

\* The graph's barrier: every branch has written its bundle.
Joined(r) == \A d \in Planned(r) : worker[<<r, d>>].pc = "done"

Finish(r) ==
  /\ question[r] # NoQuestion /\ ~final[r].done
  /\ Joined(r)
  /\ LET reports == IF mode = "parallel" THEN JoinedReports(r) ELSE SerialReports(r)
     IN  final' = [final EXCEPT ![r] =
           [done |-> TRUE, reports |-> reports,
            interrupt |-> \E i \in 1..Len(reports) : reports[i].missing # {}]]
  /\ UNCHANGED <<mode, breaker, question, worker, arrived, flight, burst>>

-----------------------------------------------------------------------------
Works(r, d) ==
  \/ Refused(r, d)
  \/ Admitted(r, d)
  \/ \E status \in {"good", "weak"} : Succeeds(r, d, status)
  \/ Retries(r, d)
  \/ GivesUp(r, d)

Next ==
  \/ \E r \in Runs : \E q \in Questions[r] : Start(r, q)
  \/ \E r \in Runs, d \in Domains : Works(r, d)
  \/ \E r \in Runs : Finish(r)
  \/ Cools

Spec == Init /\ [][Next]_vars

\* A run whose threads can go on goes on: a call ends by its timeouts, a backoff
\* elapses.  Nothing is assumed of the clock that cools the breaker.
Fairness ==
  \A r \in Runs : WF_vars((\E d \in Domains : Works(r, d)) \/ Finish(r))

FairSpec == Spec /\ Fairness

-----------------------------------------------------------------------------
(* Properties *)

Statuses == {"good", "weak", "failed", "circuit_open"}

\* Every variable keeps its type, and a call never makes more than Attempts attempts.
TypeOK ==
  /\ mode \in Modes
  /\ breaker \in [failures : Nat, opened : {"no", "open", "cooled"}]
  /\ DOMAIN question = Runs /\ DOMAIN final = Runs
  /\ \A r \in Runs : question[r] \in Questions[r] \cup {NoQuestion}
  /\ worker \in [Runs \X Domains ->
       [pc : {"none", "ask", "call", "done"}, attempts : 0..(Attempts - 1),
        results : Seq(Statuses)]]
  /\ arrived \in [Runs -> Seq(Domains)]
  /\ \A r \in Runs : final[r].done \in BOOLEAN /\ final[r].interrupt \in BOOLEAN
  /\ flight \in Nat /\ burst \in Nat

\* An answer that goes to the user without a review (no interrupt) rests on a
\* confident, cited result of the search made for every dimension of every profile
\* the question matched, whatever failed, was refused or came late in any worker
\* (the completeness check of policy_supervisor.py).
AnswerIsCovered ==
  \A r \in Runs : final[r].done /\ ~final[r].interrupt =>
    \A d \in question[r].matches : \A i \in 2..Len(Subquestions(question[r], d)) :
      worker[<<r, d>>].results[i] = "good"

\* The parallel mode returns what the serial loop makes of the same search results,
\* whichever thread came first (docstring of _mixed_reducer_node).
ParallelMatchesSerial ==
  \A r \in Runs : final[r].done => final[r].reports = SerialReports(r)

\* Nothing a question asked for is lost on the way to its answer, and nothing is
\* assumed of it: neither by a worker nor where the workers meet.
AnswerIsWhole == AnswerIsCovered /\ ParallelMatchesSerial

\* The breaker is open, or waits for the next call after its cooldown, exactly when
\* the last Threshold calls recorded failed: no interleaving of the threads that
\* record results leaves it open with a fresh count, or closed with a full one.
OpenIffFailing ==
  Threshold > 0 => (breaker.opened # "no" <=> breaker.failures >= Threshold)

\* While the breaker is open the tool is called only by the calls that were under
\* way when it opened, and by each at most Attempts times: the protection the
\* runner's docstring promises, with runs that retry in other threads.
OpenStopsTraffic == breaker.opened = "open" => burst <= Attempts * flight

\* Every run that started ends, with the breaker open or closed, the tool failing
\* or not: refusals are answers, and the barrier opens.  (Runs do not start again, so
\* having ended all that started again and again is each of them ending.)
RunsEnd == []<>(\A r \in Runs : question[r] # NoQuestion => final[r].done)

=============================================================================
