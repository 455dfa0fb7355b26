----------------------------- MODULE ChatTurns ------------------------------
(* The turns of the chat: POST /ask, POST /ask/stream and the calls of          *)
(* answer_policy_question by agents and evaluations.  A turn loads the thread's *)
(* history, retrieves evidence, declines or takes an answer from the shared     *)
(* cache or from the LLM, and stores its two messages; the middleware then adds *)
(* its tokens to the daily row.  Several API processes serve the same threads.  *)
EXTENDS Naturals, Sequences, FiniteSets, SequencesExt

CONSTANTS
  Turns, Workers, Threads, Questions, Prompts,
  Packs,       \* evidence a retrieval may return: chunks and their scores
  NoEvidence,
  Score,       \* _coverage_aware_confidence of each pack
  Settings,    \* records [threshold, window] an operator may save
  Sends,       \* turn -> the requests it can be, each of a kind, with a question
  Installed,   \* [corpus, prompt, settings] before the first turn
  Crag,        \* CRAG_ENABLED
  Changes,     \* bound on what happens around the turns
  Declined,    \* the fixed text for missing or weak evidence
  Empty,       \* no text: the LLM returned none, or a question is blank
  Unset

Kinds == {"ask", "stream", "call"}

ASSUME ChatAssumption ==
  /\ Score \in [Packs -> Nat]
  /\ Settings \subseteq [threshold : Nat, window : Nat]
  /\ Sends \in [Turns -> SUBSET [kind : Kinds, question : Questions]]
  /\ Installed \in [corpus : [Questions -> Packs], prompt : Prompts, settings : Settings]
  /\ NoEvidence \notin Packs
  /\ IsFiniteSet(Turns)
  /\ Cardinality({Declined, Empty, Unset}) = 3
  /\ {Declined, Empty, Unset} \cap [question : Questions, prompt : Prompts, evidence : Packs] = {}
  /\ Unset \notin Threads \cup Nat
  /\ Crag \in BOOLEAN /\ Changes \in Nat

VARIABLES
  turn,      \* turn -> its local variables
  corpus,    \* question -> what a retrieval finds for it now
  prompt,    \* the prompt version in force
  settings,  \* the saved business settings
  cache,     \* answer_cache_key -> answer
  cacheUp,   \* whether Redis answers
  threads,   \* rows of chat_session
  order,     \* rows of chat_message by (created_at, id), committed or not
  stored,    \* turns whose transaction has committed
  usage,     \* the row of token_usage_daily
  rated,     \* workers started with COST_RATE_* for the model
  changes,   \* changes of the surroundings so far
  raced      \* history: threads with rows out of order or of two turns mixed

outer == <<corpus, prompt, settings, cacheUp, rated, changes>>
rows  == <<threads, order, stored, raced>>
vars  == <<turn, outer, rows, cache, usage>>

-----------------------------------------------------------------------------
(* What a turn holds *)

\* An answer of the LLM, named by what it was generated from.
Answer(q, p, e) == [question |-> q, prompt |-> p, evidence |-> e]

Answers == [question : Questions, prompt : Prompts, evidence : Packs]
Texts   == Answers \cup {Declined, Empty, Unset}

Idle == [pc |-> "idle", kind |-> "ask", worker |-> Unset, thread |-> Unset,
         question |-> Unset, threshold |-> 0, prompt |-> Unset, history |-> <<>>, window |-> 0,
         answered |-> {}, evidence |-> NoEvidence, text |-> Unset,
         tokens |-> FALSE, opens |-> FALSE, rate |-> FALSE]

\* From the answer to the commit a route does not give up its event loop; a stream that
\* has an answer without asking the LLM sends it first.
Writing == {"lookup", "insert", "user", "assistant", "commit"}
Ended   == {"done", "failed", "gone"}

Available(w) == \A u \in Turns : turn[u].worker = w => turn[u].pc \notin Writing

Free(t) == turn[t].pc \in Writing \/ Available(turn[t].worker)

At(t, pc) == turn[t].pc = pc /\ Free(t)

Becomes(t, row) == turn' = [turn EXCEPT ![t] = row]

Goes(t, pc) == Becomes(t, [turn[t] EXCEPT !.pc = pc])

\* What is left of a turn whose transaction never committed, and of one that has.
Lost(pc) == [Idle EXCEPT !.pc = pc]
Left(t, pc) == [turn[t] EXCEPT !.pc = pc, !.worker = Unset, !.history = <<>>,
                               !.window = 0, !.answered = {}, !.opens = FALSE]
Done(t) == Left(t, "done")

Fails(t) == Becomes(t, Lost("failed"))

Init ==
  /\ turn = [t \in Turns |-> Idle]
  /\ corpus = Installed.corpus
  /\ prompt = Installed.prompt
  /\ settings = Installed.settings
  /\ cache = <<>> /\ cacheUp = TRUE
  /\ threads = {} /\ order = <<>> /\ stored = {}
  /\ usage = [requests |-> 0, cost |-> Unset]
  /\ rated = {} /\ changes = 0 /\ raced = {}

-----------------------------------------------------------------------------
(* History *)

Row(t, role) == [turn |-> t, role |-> role]

Content(row) == IF row.role = "user" THEN turn[row.turn].question ELSE turn[row.turn].text

\* Mutant: an empty reply counts as one.
AnyContent(row) == TRUE
HasContent(row) == Content(row) # Empty

\* Positions are numbers in the order of the rows; the k-th of some of them.
Nth(P, k) == CHOOSE i \in P : Cardinality({j \in P : j <= i}) = k

\* Where the messages of a thread are, those without text left out.
Messages(th) ==
  {i \in 1..Len(order) :
     order[i].turn \in stored /\ turn[order[i].turn].thread = th /\ HasContent(order[i])}

\* The user row that is pending at message i: the one just before it.  Another user row
\* would have taken its place, and an assistant row would have used it up.
Pending(M, i) ==
  {j \in M : j < i /\ order[j].role = "user" /\ \A k \in M : k < i => k <= j}

LastOf(s, n) == IF n < Len(s) THEN SubSeq(s, Len(s) - n + 1, Len(s)) ELSE s

\* A user row followed by an assistant row is a completed turn; halves are dropped.
Replies(M) == {i \in M : order[i].role = "assistant" /\ Pending(M, i) # {}}

Pairs(th) ==
  LET M == Messages(th)
      Pair(i) == [asked   |-> order[CHOOSE j \in Pending(M, i) : TRUE].turn,
                  replied |-> order[i].turn]
  IN  [n \in 1..Cardinality(Replies(M)) |-> Pair(Nth(Replies(M), n))]

\* Mutant: the current question counts as a turn of the window.
LoadOneLess(th, window) == IF window <= 1 THEN <<>> ELSE LastOf(Pairs(th), window - 1)

LoadRecentTurns(th, window) == IF window = 0 THEN <<>> ELSE LastOf(Pairs(th), window)

-----------------------------------------------------------------------------
(* From the question to an answer *)

\* Settings, history and the prompt version are read before the first await.
Begin(t, k, w, th, q) ==
  /\ turn[t].pc = "idle"
  /\ Available(w)
  /\ Becomes(t,
       [Idle EXCEPT !.pc = "retrieve", !.kind = k, !.worker = w, !.thread = th,
          !.question = q, !.threshold = settings.threshold, !.prompt = prompt,
          !.window = settings.window,
          !.history = IF k = "call" THEN <<>> ELSE LoadRecentTurns(th, settings.window),
          !.answered = {u \in Turns : turn[u].pc = "done" /\ turn[u].thread = th
                                       /\ turn[u].kind # "call"}])
  /\ UNCHANGED <<outer, rows, cache, usage>>

\* Hybrid, vector and lexical retrieval in a thread of the pool.
Retrieve(t) ==
  /\ At(t, "retrieve")
  /\ Becomes(t, [turn[t] EXCEPT !.pc = "decide", !.evidence = corpus[turn[t].question]])
  /\ UNCHANGED <<outer, rows, cache, usage>>

\* The embedding gateway, the vector store or the database fails: no handler knows it.
RetrieveFails(t) ==
  /\ At(t, "retrieve")
  /\ Fails(t)
  /\ UNCHANGED <<outer, rows, cache, usage>>

\* _run_crag_loop: /ask may go on with other evidence than it retrieved.
Considered(t) ==
  IF turn[t].kind = "ask" /\ Crag /\ turn[t].evidence # NoEvidence
  THEN Packs ELSE {turn[t].evidence}

\* Mutant: a candidate and the active version share the answers.
KeyWithoutPrompt(q, p, e) == <<q, e>>

\* answer_cache_key: question, prompt version, evidence; the history is not part of it.
Key(q, p, e) == <<q, p, e>>

\* A call returns, the others go to the database.
Answered(t, pc, e, text, tokens) ==
  Becomes(t, [turn[t] EXCEPT !.pc = IF turn[t].kind = "call" THEN "done" ELSE pc,
                             !.evidence = e, !.text = text, !.tokens = tokens])

Early(t, e, text) ==
  Answered(t, IF turn[t].kind = "stream" THEN "send" ELSE "lookup", e, text, FALSE)

Enough(t, e) == e # NoEvidence /\ Score[e] >= turn[t].threshold

Decline(t, e) ==
  /\ At(t, "decide") /\ e \in Considered(t)
  /\ ~Enough(t, e)
  /\ Early(t, e, Declined)
  /\ UNCHANGED <<outer, rows, cache, usage>>

CacheHit(t, e) ==
  LET key == Key(turn[t].question, turn[t].prompt, e) IN
  /\ At(t, "decide") /\ e \in Considered(t)
  /\ Enough(t, e) /\ cacheUp /\ key \in DOMAIN cache
  /\ Early(t, e, cache[key])
  /\ UNCHANGED <<outer, rows, cache, usage>>

CacheMiss(t, e) ==
  /\ At(t, "decide") /\ e \in Considered(t)
  /\ Enough(t, e) /\ cacheUp
  /\ Key(turn[t].question, turn[t].prompt, e) \notin DOMAIN cache
  /\ Becomes(t, [turn[t] EXCEPT !.pc = "generate", !.evidence = e])
  /\ UNCHANGED <<outer, rows, cache, usage>>

\* RedisCache.get raises when Redis does not answer, and nothing catches it.
CacheGetFails(t, e) ==
  /\ At(t, "decide") /\ e \in Considered(t)
  /\ Enough(t, e) /\ ~cacheUp
  /\ Fails(t)
  /\ UNCHANGED <<outer, rows, cache, usage>>

Send(t) ==
  /\ At(t, "send")
  /\ Goes(t, "lookup")
  /\ UNCHANGED <<outer, rows, cache, usage>>

\* The stream weighs its answer against the settings of the moment it ends.
Keeps(t, text) ==
  /\ text # Empty
  /\ Score[turn[t].evidence] >=
       IF turn[t].kind = "stream" THEN settings.threshold ELSE turn[t].threshold

Generate(t, text, tokens) ==
  LET key == Key(turn[t].question, turn[t].prompt, turn[t].evidence) IN
  /\ At(t, "generate")
  /\ text \in {Empty, Answer(turn[t].question, turn[t].prompt, turn[t].evidence)}
  /\ turn[t].kind = "call" => ~tokens   \* nobody counts those
  /\ Keeps(t, text) => cacheUp
  /\ cache' = IF Keeps(t, text)
              THEN [k \in DOMAIN cache \cup {key} |-> IF k = key THEN text ELSE cache[k]]
              ELSE cache
  /\ Answered(t, "lookup", turn[t].evidence, text, tokens)
  /\ UNCHANGED <<outer, rows, usage>>

\* The gateway refuses, times out or breaks the stream, or the answer cannot be
\* cached because Redis is down: 503, 504, 500 or an error event, and nothing is stored.
GenerateFails(t) ==
  /\ At(t, "generate")
  /\ Fails(t)
  /\ UNCHANGED <<outer, rows, cache, usage>>

-----------------------------------------------------------------------------
(* Storing the turn: one transaction *)

Peers(t) == {u \in Turns \ {t} : turn[u].thread = turn[t].thread}

Lookup(t) ==
  /\ At(t, "lookup")
  /\ Becomes(t, [turn[t] EXCEPT !.opens = turn[t].thread \notin threads,
                                !.pc = IF turn[t].thread \in threads THEN "user" ELSE "insert"])
  /\ UNCHANGED <<outer, rows, cache, usage>>

\* An INSERT waits while another transaction holds the same primary key.
Contended(t) == \E u \in Peers(t) : turn[u].opens /\ turn[u].pc \in {"user", "assistant", "commit"}

InsertSession(t) ==
  /\ At(t, "insert")
  /\ ~Contended(t) /\ turn[t].thread \notin threads
  /\ Goes(t, "user")
  /\ UNCHANGED <<outer, rows, cache, usage>>

\* Mutant: the conflict is taken for a row of its own, and nothing is written.
Conflicts(t) ==
  /\ At(t, "insert")
  /\ ~Contended(t) /\ turn[t].thread \in threads
  /\ Becomes(t, Done(t))
  /\ UNCHANGED <<outer, rows, cache, usage>>

\* Mutant: the INSERT is tried again.
Insists(t) ==
  /\ At(t, "insert")
  /\ ~Contended(t) /\ turn[t].thread \in threads
  /\ Goes(t, "insert")
  /\ UNCHANGED <<outer, rows, cache, usage>>

\* Another first turn of the thread has committed: the primary key is taken.
InsertConflict(t) ==
  /\ At(t, "insert")
  /\ ~Contended(t) /\ turn[t].thread \in threads
  /\ Fails(t)
  /\ UNCHANGED <<outer, rows, cache, usage>>

\* created_at is taken from the worker's clock when the row is inserted; it may equal
\* or precede that of the last row written, here or by another worker.
Stamp(t, row, late) ==
  /\ order' = IF late THEN Append(order, row)
              ELSE Append(Front(order), row) \o <<Last(order)>>
  /\ raced' =
       IF \/ \E u \in Peers(t) : turn[u].pc = "assistant"
          \/ ~late /\ turn[Last(order).turn].thread = turn[t].thread
       THEN raced \cup {turn[t].thread} ELSE raced

StampUser(t, late) ==
  /\ At(t, "user") /\ (late \/ order # <<>>)
  /\ Stamp(t, Row(t, "user"), late)
  /\ Goes(t, "assistant")
  /\ UNCHANGED <<outer, threads, stored, cache, usage>>

StampAssistant(t, late) ==
  /\ At(t, "assistant")
  /\ Stamp(t, Row(t, "assistant"), late)
  /\ Goes(t, "commit")
  /\ UNCHANGED <<outer, threads, stored, cache, usage>>

\* The stream's done event follows; /ask still has to pass the middleware.
Commit(t) ==
  /\ At(t, "commit")
  /\ threads' = threads \cup {turn[t].thread}
  /\ stored' = stored \cup {t}
  /\ Becomes(t, IF turn[t].kind = "ask" THEN [turn[t] EXCEPT !.pc = "count"] ELSE Done(t))
  /\ UNCHANGED <<outer, order, raced, cache, usage>>

-----------------------------------------------------------------------------
(* The middleware, after the handler of /ask returned.  For a stream it runs when *)
(* the response starts, before the turn has any token to count.                 *)

\* SQL: NULL + n is NULL, and an unknown price leaves the cost as it is.
AddCost(cost, requests, known) ==
  IF requests = 0 THEN IF known THEN 1 ELSE Unset
  ELSE IF known /\ cost # Unset THEN cost + 1 ELSE cost

Accumulate(t) ==
  LET known == turn[t].worker \in rated IN
  [requests |-> usage.requests + 1, cost |-> AddCost(usage.cost, usage.requests, known)]

\* Mutant: a declined or cached turn counts as a request.
CountAny(t) ==
  /\ At(t, "count")
  /\ usage' = Accumulate(t)
  /\ Becomes(t, [Done(t) EXCEPT !.rate = turn[t].worker \in rated])
  /\ UNCHANGED <<outer, rows, cache>>

Count(t) ==
  /\ At(t, "count")
  /\ usage' = IF turn[t].tokens THEN Accumulate(t) ELSE usage
  /\ Becomes(t, [Done(t) EXCEPT !.rate = turn[t].worker \in rated])
  /\ UNCHANGED <<outer, rows, cache>>

-----------------------------------------------------------------------------
(* Around the turns *)

\* The client of a stream goes away: the generator is closed at a yield, or before its
\* first one.  Between the last delta and the commit there is none.
Disconnect(t) ==
  /\ turn[t].kind = "stream"
  /\ \E pc \in {"retrieve", "decide", "send", "generate"} : At(t, pc)
  /\ Becomes(t, Lost("gone"))
  /\ UNCHANGED <<outer, rows, cache, usage>>

\* A process ends: its turns are lost, what they had not committed is rolled back.
Hit(t, w) == turn[t].worker = w /\ turn[t].pc \notin Ended

Kept(w) ==
  {i \in 1..Len(order) : order[i].turn \in stored \/ ~Hit(order[i].turn, w)}

Crash(w) ==
  /\ changes < Changes
  /\ turn' = [t \in Turns |-> IF ~Hit(t, w) THEN turn[t]
                              ELSE IF t \in stored THEN Left(t, "gone") ELSE Lost("gone")]
  /\ order' = [n \in 1..Cardinality(Kept(w)) |-> order[Nth(Kept(w), n)]]
  /\ rated' \in {rated, rated \cup {w}}   \* restarted as it was, or with the rates set
  /\ changes' = changes + 1
  /\ UNCHANGED <<corpus, prompt, settings, cacheUp, threads, stored, raced, cache, usage>>

Around(update) ==
  /\ changes < Changes /\ changes' = changes + 1
  /\ update
  /\ UNCHANGED <<turn, rows, usage, rated>>

Promote(p) == Around(prompt' = p /\ UNCHANGED <<corpus, settings, cacheUp, cache>>)

Reindex(q, e) ==
  Around(corpus' = [corpus EXCEPT ![q] = e] /\ UNCHANGED <<prompt, settings, cacheUp, cache>>)

UpdateSettings(s) == Around(settings' = s /\ UNCHANGED <<corpus, prompt, cacheUp, cache>>)

RedisChanges == Around(cacheUp' = ~cacheUp /\ UNCHANGED <<corpus, prompt, settings, cache>>)

Expire(k) ==
  Around(/\ cache' = [j \in DOMAIN cache \ {k} |-> cache[j]]
         /\ UNCHANGED <<corpus, prompt, settings, cacheUp>>)

Surroundings ==
  \/ \E w \in Workers : Crash(w)
  \/ \E p \in Prompts \ {prompt} : Promote(p)
  \/ \E q \in Questions, e \in Packs \cup {NoEvidence} : corpus[q] # e /\ Reindex(q, e)
  \/ \E s \in Settings \ {settings} : UpdateSettings(s)
  \/ RedisChanges
  \/ \E k \in DOMAIN cache : Expire(k)

Decide(t) == \E e \in Packs \cup {NoEvidence} :
  Decline(t, e) \/ CacheHit(t, e) \/ CacheMiss(t, e) \/ CacheGetFails(t, e)

Reply(t) ==
  \/ \E text \in Texts, tokens \in BOOLEAN : Generate(t, text, tokens)
  \/ GenerateFails(t)
  \/ Send(t)

Store(t) ==
  \/ Lookup(t) \/ InsertSession(t) \/ InsertConflict(t)
  \/ \E late \in BOOLEAN : StampUser(t, late) \/ StampAssistant(t, late)
  \/ Commit(t)

Server(t) == Retrieve(t) \/ RetrieveFails(t) \/ Decide(t) \/ Reply(t) \/ Store(t) \/ Count(t)

Client(t) ==
  \/ \E s \in Sends[t] :
       \/ s.kind # "call" /\ \E w \in Workers, th \in Threads : Begin(t, s.kind, w, th, s.question)
       \/ s.kind = "call" /\ Begin(t, s.kind, Unset, Unset, s.question)
  \/ Disconnect(t)

Next == Surroundings \/ \E t \in Turns : Server(t) \/ Client(t)

Spec == Init /\ [][Next]_vars

\* Every await of a turn ends (the HTTP clients and the drivers have timeouts) and the
\* event loops run what is ready: while some turn can go on, one does.  That is less than
\* fairness to each turn; clients and the surroundings owe nothing.
FairSpec == Spec /\ WF_vars(\E t \in Turns : Server(t))

-----------------------------------------------------------------------------
(* Properties *)

TurnState ==
  [pc : {"idle", "retrieve", "decide", "send", "generate", "count"} \cup Writing \cup Ended,
   kind : Kinds, worker : Workers \cup {Unset}, thread : Threads \cup {Unset},
   question : Questions \cup {Unset}, threshold : Nat, prompt : Prompts \cup {Unset},
   window : Nat, history : Seq([asked : Turns, replied : Turns]), answered : SUBSET Turns,
   evidence : Packs \cup {NoEvidence}, text : Texts, tokens : BOOLEAN,
   opens : BOOLEAN, rate : BOOLEAN]

\* Every variable keeps its type, and a turn writes with its worker to itself.
TypeOK ==
  /\ turn \in [Turns -> TurnState]
  /\ corpus \in [Questions -> Packs \cup {NoEvidence}]
  /\ prompt \in Prompts /\ settings \in Settings
  /\ DOMAIN cache \subseteq Questions \X Prompts \X Packs
  /\ \A k \in DOMAIN cache : cache[k] \in Answers
  /\ cacheUp \in BOOLEAN
  /\ threads \subseteq Threads /\ stored \subseteq Turns /\ raced \subseteq Threads
  /\ order \in Seq([turn : Turns, role : {"user", "assistant"}])
  /\ usage \in [requests : Nat, cost : Nat \cup {Unset}]
  /\ rated \subseteq Workers /\ changes \in 0..Changes
  /\ \A t, u \in Turns :
       t # u /\ {turn[t].pc, turn[u].pc} \subseteq Writing => turn[t].worker # turn[u].worker

Replied(t) == turn[t].text # Empty

\* Threads in which a blank question was stored.
Blank == {turn[t].thread : t \in {u \in stored : turn[u].question = Empty}}

\* Where the questions of a thread are that got a reply, and what they and it make.
Exchanges(th) ==
  {i \in 1..Len(order) : /\ order[i].turn \in stored /\ turn[order[i].turn].thread = th
                         /\ order[i].role = "user" /\ Replied(order[i].turn)}

Conversation(th) ==
  [n \in 1..Cardinality(Exchanges(th)) |->
    LET t == order[Nth(Exchanges(th), n)].turn IN [asked |-> t, replied |-> t]]

\* In a thread whose rows were written in order and one turn after the other, the history
\* is the last turns that have a reply, each with its own, oldest first; whatever happened
\* to other turns, halves and empty replies never shift the pairs.  A blank question does:
\* a reply to it goes with the last question that was left without one.
HistoryIsFaithful ==
  \A th \in Threads \ (raced \cup Blank) : \A s \in Settings :
    LoadRecentTurns(th, s.window) = LastOf(Conversation(th), s.window)

\* A turn begun after the client got a reply in that thread is given that exchange, unless
\* the window is full of others or the thread is one of those.
FollowUpSeesAnswer ==
  \A t \in Turns :
    turn[t].thread \notin raced \cup Blank /\ turn[t].window # Len(turn[t].history) =>
    \A u \in turn[t].answered : Replied(u) =>
      \E i \in 1..Len(turn[t].history) :
        turn[t].history[i].asked = u /\ turn[t].history[i].replied = u

\* What a turn is told of its thread is what happened in it, and the last of it.
HistoryIsTrue == HistoryIsFaithful /\ FollowUpSeesAnswer

\* A reply that is not the declining one was generated for this question by the prompt
\* version the turn selected over the evidence it cites, also when it comes from the cache,
\* and that evidence reaches the threshold the turn began with.
AnswerFitsTurn ==
  \A t \in Turns : turn[t].text \in Answers =>
    /\ turn[t].text = Answer(turn[t].question, turn[t].prompt, turn[t].evidence)
    /\ Score[turn[t].evidence] >= turn[t].threshold

\* A client that is told a turn is done has both its messages stored, a turn that failed
\* has neither, and the messages of a thread come in pairs.
DoneIsStored ==
  /\ \A t \in Turns : turn[t].pc = "done" /\ turn[t].kind # "call" => t \in stored
  /\ \A t \in Turns : turn[t].pc = "failed" => t \notin stored
  /\ \A t \in stored : \A role \in {"user", "assistant"} :
       Cardinality({i \in 1..Len(order) : order[i] = Row(t, role)}) = 1

Counted == {t \in Turns : turn[t].pc = "done" /\ turn[t].kind = "ask" /\ turn[t].tokens}

\* The daily row counts every turn of /ask that spent tokens once, and none that was
\* declined, cached or failed; a cost in it is the cost of the turns with a known price.
UsageIsExact ==
  /\ usage.requests = Cardinality(Counted)
  /\ usage.cost # Unset => usage.cost = Cardinality({t \in Counted : turn[t].rate})

\* A turn that has begun ends, whatever other turns of its thread and its worker do.
TurnsEnd == <>[](\A t \in Turns : turn[t].pc \in Ended \cup {"idle"})

=============================================================================
