--------------------------- MODULE PromptSelection ---------------------------
(***************************************************************************)
(* Which version of a prompt serves a question: select_prompt_variant of   *)
(* services/prompts/selector.py, run by the chat beside the requests of    *)
(* PromptTemplates, and what is recorded of it: the selection log, the     *)
(* assistant's message, the user's feedback and the statistics over them.  *)
(*                                                                         *)
(* A selection reads the candidates, then in a second statement the active *)
(* version; a promotion may commit in between.                             *)
(***************************************************************************)
EXTENDS PromptTemplates, SequencesExt

CONSTANTS
  Buckets,   \* the buckets of the tenants that ask
  Turns,     \* bound: questions of one conversation
  AtOnce     \* bound: requests and conversations in progress together

ASSUME SelectionAssumption ==
  Buckets \subseteq 0 .. 99 /\ IsFiniteSet(Ids) /\ Turns \in Nat /\ AtOnce \in Nat

VARIABLES
  chat,      \* the question being answered
  asked,     \* history: the version that answered each question so far
  log,       \* prompt_selection_log: the rows of each question, {} when lost
  answers,   \* the conversation's assistant messages: the version in their metadata
  feedback   \* prompt_feedback: what the last rating was attributed to

selVars == <<chat, asked, log, answers, feedback>>
allVars == <<vars, selVars>>

-----------------------------------------------------------------------------

NoChat == [pc |-> "idle", bucket |-> 0, order |-> <<>>, skipped |-> {}, id |-> NoId, version |-> 0]

NoFeedback == [id |-> NoId, version |-> 0]

Conversing == chat.pc # "idle" \/ asked # <<>>

InProgress == Cardinality({s \in Sessions : Busy(s)}) + (IF Conversing THEN 1 ELSE 0)

SelInit ==
  Init /\ chat = NoChat /\ asked = <<>> /\ log = <<>> /\ answers = <<>> /\ feedback = NoFeedback

Candidates == {i \in Existing : rows[i].status = "candidate"}

\* ORDER BY version DESC, id ASC; ids are random, so equal versions come in any order.
Orders(S) ==
  {q \in SetToSeqs(S) :
     \A j, k \in 1 .. Len(q) : j < k => rows[q[j]].version >= rows[q[k]].version}

\* What the loop over the candidates has added up after each of them.
Cumulative(order) ==
  LET sum[k \in 0 .. Len(order)] ==
        IF k = 0 THEN 0 ELSE sum[k - 1] + Min({order[k].traffic, 100})
  IN  sum

\* Mutant: the comparison takes the threshold in.
RoutedInclusive(order, b) == {k \in 1 .. Len(order) : b <= Cumulative(order)[k]}

\* The candidates whose threshold a bucket is below.
Routed(order, b) == {k \in 1 .. Len(order) : b < Cumulative(order)[k]}

ReadCandidates(b) ==
  /\ chat.pc = "idle"
  /\ Len(asked) < Turns
  /\ \E q \in Orders({i \in Candidates : rows[i].traffic > 0}) :
       chat' = [NoChat EXCEPT !.pc = "active", !.bucket = b,
                  !.order = [k \in 1 .. Len(q) |->
                    [id |-> q[k], version |-> rows[q[k]].version, traffic |-> rows[q[k]].traffic]],
                  !.skipped = {i \in Candidates : rows[i].traffic <= 0}]
  /\ UNCHANGED <<asked, log, answers, feedback>>

\* ORDER BY version DESC LIMIT 1
Newest(S) == {i \in S : \A j \in S : rows[j].version <= rows[i].version}

\* The choice: the candidate the bucket falls to, else the active version, else the
\* system's default prompt.
Chosen ==
  IF Routed(chat.order, chat.bucket) # {}
  THEN LET k == Min(Routed(chat.order, chat.bucket)) IN
       {[id |-> chat.order[k].id, version |-> chat.order[k].version, group |-> "candidate"]}
  ELSE IF Active # {}
  THEN {[id |-> i, version |-> rows[i].version, group |-> "active"] : i \in Newest(Active)}
  ELSE {[id |-> NoId, version |-> 0, group |-> "default"]}

\* Mutant: the filter on the traffic is forgotten.
SkippedWithTraffic(c) ==
  IF c.group = "default" THEN {}
  ELSE chat.skipped \cup {chat.order[k].id : k \in DOMAIN chat.order}

Skipped(c) == IF c.group = "default" THEN {} ELSE chat.skipped

\* Mutant: the row names the loop's last candidate.
RowsOfLoopVariable(c) ==
  {[id |-> IF chat.order # <<>> THEN Last(chat.order).id ELSE c.id, group |-> c.group]}
    \cup {[id |-> i, group |-> "skipped"] : i \in Skipped(c)}

\* The rows of one selection: the choice, and the candidates without traffic (the
\* default's early return leaves those out).
LogRows(c) ==
  {[id |-> c.id, group |-> c.group]} \cup {[id |-> i, group |-> "skipped"] : i \in Skipped(c)}

\* The rows are committed together; a failure loses them and the answer goes on.
Select ==
  /\ chat.pc = "active"
  /\ \E c \in Chosen, rowsKept \in BOOLEAN :
       /\ chat' = [NoChat EXCEPT !.pc = "answer", !.id = c.id, !.version = c.version]
       /\ asked' = Append(asked, c.id)
       /\ log' = Append(log, IF rowsKept THEN LogRows(c) ELSE {})
  /\ UNCHANGED <<answers, feedback>>

\* The assistant message keeps RetrievalTrace.as_dict(): the version, not the id.
MessageStored ==
  /\ chat.pc = "answer"
  /\ answers' = Append(answers, [id |-> NoId, version |-> chat.version])
  /\ chat' = NoChat
  /\ UNCHANGED <<asked, log, feedback>>

\* The answer failed after its prompt was chosen; nothing is stored.
AnswerFailed ==
  /\ chat.pc = "answer"
  /\ chat' = NoChat
  /\ UNCHANGED <<asked, log, answers, feedback>>

\* post_session_feedback looks up the newest assistant message.
Rate ==
  /\ Conversing
  /\ feedback' = IF answers = <<>> THEN NoFeedback ELSE Last(answers)
  /\ UNCHANGED <<chat, asked, log, answers>>

Leave ==
  /\ chat.pc = "idle"
  /\ Conversing
  /\ asked' = <<>> /\ log' = <<>> /\ answers' = <<>> /\ feedback' = NoFeedback
  /\ UNCHANGED chat

SelNext ==
  \/ \E b \in Buckets : ReadCandidates(b)
  \/ Select \/ MessageStored \/ AnswerFailed \/ Rate \/ Leave

AllNext ==
  /\ \/ Next /\ UNCHANGED selVars
     \/ SelNext /\ UNCHANGED vars
  /\ InProgress' <= AtOnce

SelSpec == SelInit /\ [][AllNext]_allVars

-----------------------------------------------------------------------------
(* What compute_prompt_stats reports of a version *)

\* The log rows that name the version, whatever their group.
TotalRequests(i) == MapThenSumSet(LAMBDA k : Cardinality({r \in log[k] : r.id = i}), DOMAIN log)

\* The ratings that name the version (of the last one, which stands for all).
UpCount(i) == IF feedback # NoFeedback /\ feedback.id = i THEN 1 ELSE 0

-----------------------------------------------------------------------------
(* Properties *)

\* Every candidate serves exactly its traffic_percent of the hundred buckets, or what
\* newer candidates leave of them.
ShareIsExact ==
  chat.pc = "active" =>
    \A k \in DOMAIN chat.order :
      Cardinality({b \in 0 .. 99 :
                     Routed(chat.order, b) # {} /\ Min(Routed(chat.order, b)) = k})
        = Min({chat.order[k].traffic, Max({0, 100 - Cumulative(chat.order)[k - 1]})})

\* A question's log rows tell which version answered it, once; a version both passed
\* over and chosen for the same question was promoted between the two reads.
LogTellsOneStory ==
  \A k \in DOMAIN log : log[k] # {} =>
    /\ \E r \in log[k] : /\ r.group # "skipped" /\ r.id = asked[k]
                         /\ \A q \in log[k] \ {r} : /\ q.group = "skipped"
                                                    /\ q.id = r.id => r.group = "active"

\* "total_requests" of a version is the number of questions it answered, except that
\* lost logs are missing and questions it was passed over in count as well; no rating
\* is ever counted for a version, because the message's metadata do not name it.
StatisticsAddUp ==
  \A i \in Ids :
    /\ LET answered == Cardinality({k \in DOMAIN asked : asked[k] = i}) IN
       /\ TotalRequests(i) < answered => \E k \in DOMAIN log : log[k] = {}
       /\ TotalRequests(i) > answered =>
            \E k \in DOMAIN log : [id |-> i, group |-> "skipped"] \in log[k]
    /\ UpCount(i) = 0

(* Inductive strengthening *)

Offer == [id : Ids, version : Nat, traffic : 1 .. 100]

Served == Ids \cup {NoId}

LogRow == [id : Served, group : {"candidate", "active", "default", "skipped"}]

Answer == [id : {NoId}, version : Nat]

\* What is recorded of a conversation has its types, one list of log rows a question.
SelTypeOK ==
  /\ chat \in [pc : {"idle", "active", "answer"}, bucket : Nat, order : Seq(Offer),
               skipped : SUBSET Ids, id : Served, version : Nat]
  /\ asked \in Seq(Served)
  /\ log \in Seq(SUBSET LogRow) /\ Len(log) = Len(asked)
  /\ answers \in Seq(Answer) /\ feedback \in Answer

\* A candidate is offered or passed over.
OfferedOrSkipped == \A k \in DOMAIN chat.order : chat.order[k].id \notin chat.skipped

=============================================================================
