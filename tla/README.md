# A verification of the CL_agent backend

CL_agent answers employees' questions about travel policies from an ingested
knowledge base, runs agents on their requests, and puts what the agents are not sure
of in front of reviewers. These modules model its backend (`src/backend/app`) in
TLA+, check the models with TLC and prove the properties that matter most with TLAPS.

Paths below are relative to `src/backend/app` unless they start with `src/`.
Line-by-line correspondence between definitions and code is in the `map` of
`PROJECT.json`; this file explains the shape.

- [1 The system](#1-the-system)
- [2 The plan](#2-the-plan)
- [3 The modules and the code](#3-the-modules-and-the-code)
- [4 The runs](#4-the-runs)
- [5 Fairness](#5-fairness)
- [6 The proofs](#6-the-proofs)
- [7 What is left out](#7-what-is-left-out)
- [8 What the models showed](#8-what-the-models-showed)

To check: `tlc -config X.cfg MCModule.tla` for a row of section 4 and
`tlapm ModuleProofs.tla` for a module of section 6.

## 1 The system

FastAPI processes (two replicas in `src/infra/k8s/api-deployment.yaml`), Celery
worker processes, PostgreSQL under READ COMMITTED with row-level security, Milvus for
vectors, MinIO for files, Redis for the broker and for caches, and a model gateway.
Nearly all state is in rows; the hard behaviour is in transactions that read without a
lock and write later, in stores written in the middle of a transaction, and in
loops that call a model until it is satisfied.

| component | state | operations | talks to |
| --- | --- | --- | --- |
| Background task log (`services/tasks`, `workers`, `api/routes/tasks`) | `task_run` rows, broker messages, revoked ids | submit, execute with retries, cancel, retention | Celery and its broker; runs ingestion jobs |
| Prompt versions (`services/prompts/service`) | `prompt_template` rows | create, transition (promote, roll back), activate | read by chat and policy answers |
| Prompt selection and its statistics (`services/prompts/selector`, `stats`, `api/routes/prompt_templates`) | selection log, feedback | choose by bucket, log, rate, report | prompt rows; chat's messages |
| Knowledge ingestion (`services/ingestion/pipeline`) | documents, chunks, files, vectors, the collection's dimension | upload, ingest, reindex, rechunk, delete | started by the task log or a request; read by retrieval |
| Evidence retrieval (`services/rag`: `query_engine`, `retrievers`, `rerankers`, …) | local to a question; chunks and vectors it reads | rewrite, hybrid search, fusion, rerank, corrective rounds (CRAG) | vector store, PostgreSQL, model gateway |
| Chat turns (`api/routes/chat`, `services/chat_history`, `core/cache`, `token_sink`) | sessions, messages, cached answers, daily token rows | ask, stream, synchronous calls | retrieval, model gateway, Redis |
| Agent graphs, engine and router (`services/agents`: `engine`, `router`, the graphs) | state, events and budget of one run | route, call nodes, stop | policy supervisor, tools |
| Policy supervisor and tool runner (`policy_supervisor`, `tool_runner`) | plan and reports of a run; one circuit breaker per tool and process | route, plan, ask, retry, reduce | chat's answer function as a tool |
| Agent runs and review (`api/routes/agents`, `reviews`, `thread_runtime`) | runs, threads, checkpoints, events, review cases | create, resume, ingest a case | graphs; reviewers |
| Evaluation harness (`services/eval`, `api/routes/evals`) | dataset snapshot, `eval_run` rows | snapshot, answer, judge, gate, compare | retrieval, the judge's gateway |
| Embedding client, vector cache, gateway checks (`rag/embedding_client`, `core/cache`, `llm/client`) | Redis' vectors; settings of each process | embed in batches, cache, check, smoke-test | model gateways; ingestion, retrieval, memory |
| Agent memory (`services/agents/memory`) | `agent_memory` rows | remember, recall | embedding client |
| Chunking, usage and SLO reports, rule definitions, auth, rate limit, audit, guardrails, observability, settings, start-up, frontend, deployment | see `PROJECT.json` | | |

How they meet: an upload stores a document and submits a task; the worker turns the
document into chunks and vectors; a chat turn or a policy search reads those, under
the prompt version its tenant's bucket falls to, and stores an answer; what is embedded for
either, or for an agent's memory, goes through one cache; an agent run asks policy searches
through the tool runner and ends in a result that either stands or waits in the
review queue; resuming it closes run, case and thread.

What makes each of them correct, and hard:

- **Task log.** One execution of a task at a time, one outcome that stays, no row
  resurrected after its deletion, no row open for ever without a reason. Hard: each
  sink function is a SELECT and an UPDATE with other commits between; messages are
  acknowledged on receipt, so a killed worker loses them; cancellation races the
  outcome.
- **Prompt versions.** One active version, traffic only on candidates, fresh version
  numbers. Hard: rows are loaded without a lock and validated before a sibling UPDATE
  that may wait for another promotion.
- **Prompt selection.** A candidate serves the share it was given, the log tells which version
  answered, the statistics add up. Hard: candidates and active version are read in two
  statements, the log may be lost alone, and the feedback finds its version through a message.
- **Ingestion.** Rows, file, vectors and `chunk_count` of a document agree. Hard: two
  stores without transactions, jobs that overlap on one document, crashes, writes the
  database refuses, a changed embedding model that drops the collection, and cached vectors.
- **Retrieval.** Evidence was servable, chunks are not counted twice, the corrective
  loop ends, the strongest chunk decides. Hard: the corpus changes under the question;
  the evaluator may want anything.
- **Chat turns.** History pairs questions with their replies, an answer fits question,
  prompt and evidence even from the cache, both messages or none, exact daily totals.
  Hard: two replicas, streams whose client leaves, a cache shared by prompts.
- **Agent graphs.** The timeline replays the run, the answer is what was observed
  last, cases reach the queue of their kind, and runs end. Hard: a planner and tools that
  may return anything, and a budget that may run out between any two nodes.
- **Policy supervisor.** No unreviewed answer with an uncovered dimension, parallel
  equals serial, the breaker counts right and stops traffic. Hard: threads share the
  breaker and calls recorded late.
- **Agent runs and review.** A run that waits is in the queue; run, case, thread
  and timeline tell one verdict. Hard: creation in three commits, reviewers at once.
- **Evaluation.** Runs of a dataset are comparable, a drop is reported, gates mean what they
  say, and the judge decides only what it judged. Hard: requests that last minutes and overlap,
  a judge that fails for some questions, thresholds of rates that are rounded floats.
- **Model gateways.** A text gets its own vector, spaces are not mixed, and what the readiness
  routes say holds. Hard: a cache that outlives settings, processes redeployed one after the other, and
  three places that each decide from the settings which client is meant.

The hazards, each at its line and with the properties aimed at it, are listed in
`PROJECT.json`.

## 2 The plan

Order is by what a mistake costs. Steps 1 to 11 are done; the rest is the work left.

1. **TaskRuns** and its abstract specification **TaskLifecycle**: at-most-once
   execution, finality, refinement. Theorems for all of them.
2. **PromptTemplates**: which invariants survive overlapping requests. Theorems.
3. **Ingestion**: database and stores, in two runs. Theorems for all its properties.
4. **AgentReviews**: runs, threads and the queue. Theorems for all its properties.
5. **PolicyRuns**: supervisor, runner, breaker. Theorems for its safety properties.
6. **ChatTurns**: turns, cache, history, tokens. Theorems for its safety properties.
7. **EvidencePool**: retrieval and the corrective loop. Theorems for all its properties.
8. **GraphEngine** and **AgentGraphs**: engine, router and graphs, composed: the graphs
   EXTEND the engine and pass it their node functions. Theorems.
9. **PromptSelection**, on top of PromptTemplates: the A/B draw, its log and its
   statistics, beside the requests that change the rows. Theorems for all its properties.
10. **EvalRuns**: snapshot, grading, gates. Theorems for all its properties.
11. **ModelGateways**: clients, cache, memory, verdicts. Theorems for all of them.
12. *Proofs next:* the two abstract specifications below.
13. *Modules next:* the algorithms with a reference definition each (chunk windows,
    redaction); the retries of the rewrite client; the rendering of a thread's
    timeline; the chat page of the frontend.

Abstract specifications worth stating beyond TaskLifecycle: a serial table of prompt
versions, refined by requests that do not overlap (today stated as `SerialIsSafe`), and
a review desk with one verdict per run, refined by AgentReviews for reviewers that do
not overlap (today part of `CaseFollowsRun`).

## 3 The modules and the code

`X` models a component, `MCX` gives its constants values for TLC, `XProofs` holds its
theorems. Three modules hold those of several components: `WorkProofs` (TaskRuns, AgentReviews),
`RagProofs` (EvidencePool, EvalRuns) and `ModelProofs` (PromptTemplates, PromptSelection, ModelGateways); so that these can be
extended together, the specifications of AgentReviews, EvidencePool, PromptSelection and ModelGateways are called `ReviewSpec`, `PoolSpec`,
`SelSpec` and `GatewaySpec`, with `ReviewInit` and so on. `Sums` has the lemmas about induction and sums
that several of them use. Every action is one handler, or one piece of a handler between two points
at which another process can act: a commit, a statement that waits for or ignores a
lock, an await, a call to a store.

**TaskRuns** (`services/tasks/sink.py`, `workers/tasks.py`, `workers/maintenance.py`,
`api/routes/tasks.py`, `services/ingestion/task_run.py`). `rows` is `task_run`, keyed by
the submission that drew the id; `queue` the broker; `worker`, `call` and `cancel` the
processes, each with the row it `seen` when it loaded. `Flush` is the UPDATE of an ORM:
it sends the columns that differ from what was loaded. `lost` and `failedFast` are
history: executions a kill or crash swallowed, and exceptions outside the retry list.
The broker and worker node (`Start`, `Discard`, `RevokeDelivered`, `NodeRestart`) are modelled
from the task's decorator and the revoke call. *TaskLifecycle* is the abstract machine:
submitted, running, attempted again at most `MaxRetries` times, one outcome, deleted
for good. `ImplementsLifecycle` maps a row and the audit log to it (`Stage`, `Shown`).

**PromptTemplates** (`services/prompts/service.py`). `op` is a request in its
transaction: what it loaded, what it will write, which rows it has locked. `LockSiblings` waits for
rows another transaction has updated and re-evaluates its WHERE, as READ COMMITTED
does; `Abort` is the database ending a deadlock. `raced` is history: rows last
written by a request during which another one committed.

**PromptSelection** (`services/prompts/selector.py`, `stats.py`, `api/routes/prompt_templates.py`)
EXTENDS PromptTemplates: one conversation asks, is answered and rates, while requests
change the rows. `ReadCandidates` and `Select` are the selector's two statements; `Cumulative` adds
the shares up in the order of the query and `Routed` compares the bucket with them; `log` has
the rows of each question, `answers` what the message's metadata tell of the version.
`asked` is history. `AtOnce` bounds requests and conversations in progress together.

**Ingestion** (`services/ingestion/pipeline.py`, `rag/vector_store.py`,
`api/routes/knowledge.py`). `chunk` holds committed rows, `job` what a transaction has
read and not committed, `vectors`, `dim` and `file` the stores, which change at once.
`Advance` runs a job to its next store call or its commit, `Die` kills its process anywhere.
`IngestRefused` is an execution that ends without a status, because the database refuses a write and
the except clause commits a session that wants a rollback. `Upsert` embeds through the vector cache, whose
key holds model name and text but not the gateway: a vector is the deployed profile's or, if an earlier
profile of the same name and length may have left one in the cache, that profile's (`Origins`). `retired` are
the profiles that were once deployed. `suspect` and `cut` are history: documents whose jobs overlapped
or broke off, and those whose last execution wrote no status.

**AgentReviews** (`api/routes/agents.py`, `reviews.py`, `services/agents/thread_runtime.py`,
`services/rules/engine.py`). `create` is a POST in its three commits plus the supervisor's
own commit of the thread; `resume` a reviewer's request, from its unlocked read over the
flush, which locks the run's row, to the commit. `early`, `contested` and `crowded` are
history: runs decided before their request ended, by two reviewers at once, and on a
thread where requests met.

**PolicyRuns** (`services/agents/policy_supervisor.py`, `tool_runner.py`, `policy_profiles.py`
and relatives). `worker[r, d]` is the worker of profile *d* in run *r*: in serial mode it
waits for its turn, in parallel mode threads interleave at each attempt. `breaker` is the
breaker of `policy_search`, `burst` and `flight` count attempts made and calls under way
since it opened. `SerialReports` is what the serial loop makes of given search results.

**ChatTurns** (`api/routes/chat.py`, `services/chat_history.py`, `core/cache.py`,
`services/observability/token_sink.py`, `main.py`, parts of `query_engine.py`). A turn goes from
settings and history over retrieval and the cache to storing its two messages and counting its
tokens; an answer is the value `Answer(question, prompt, evidence)`. `order` is the
order `created_at` gives the rows, in which a clock that ties or lags puts a row before
its predecessor (`raced`). The loop that pairs a thread's messages is stated by positions: `Pending` is the user
row just before a message, `Replies` the assistant rows that have one, `Nth` numbers them. `Empty` is a
message without text, a reply's or a question's; `Blank` are the threads with such a question. `Left` is what remains of a
turn when its request or its process is gone: what it stored.

**EvidencePool** (`services/rag/query_engine.py`, `retrievers.py`, `rerankers.py`,
`query_rewriter.py`, `evidence_evaluator.py`, …). `rows` and `vectors` are the corpus,
`channels`, `fused` and `evidence` the lists on their way, `seen`, `rounds` and `fresh` the
corrective loop. Lists are sequences of distinct chunks; a reranker may give any order.

**GraphEngine** (`services/agents/engine.py`) is the loop: `Calls`, `Raises` and `RunsDry`
take the node, its successor and its events. **AgentGraphs** (`router.py`,
`policy_graph.py`, `react_planner.py`, `ticket_router_graph.py`, `anomaly_graph.py`,
`nodes.py`) is a request from the router over its graph to the reported
result. A question is what the strategies and the matcher make of it: the labels a
model names, the nearest exemplar, keywords hit.

**EvalRuns** (`services/eval/runner.py`, `llm_judge.py`, `regression.py`, `retrieval_metrics.py`,
`dataset_loader.py`, `api/routes/evals.py`). A request looks for the snapshot or creates it, grades all
questions and reads the last run (`GradeAndCompare`), inserts and commits. `Case` is what may come of one
question; `Graded` makes a run's metrics of a case for each. A rate over `N` questions is the sum
of its parts, so 1.0 is `N * Unit`; at a threshold that a float may miss the
comparison goes either way (`Regressed`, `RegressionGates`).

**ModelGateways** (`services/rag/embedding_client.py`, `core/cache.py`, `services/agents/memory.py`,
`services/llm/client.py`). Each process has a `Setting` until it is redeployed. A vector is a record of the
gateway, model and text it was made of, and its length. `Begin` looks the texts up in the
cache; `Answered` is one batch, whose items arrive in any order and are put back by index
(`Placed`); `Write` fills the cache and `Use` stores the vectors or compares with them. `Check` and
`Smoke` are the four routes that speak of the gateways. `used` is history: the settings ever deployed.

## 4 The runs

A run that passes ends without an error and fires every action between them. Each
property has at least one mutant in `PROJECT.json`: a plausible bug in a mapped
definition under which TLC finds that property violated with the same `.cfg`.

| run (`.cfg`) | instance | what it shows |
| --- | --- | --- |
| TaskUploads | 2 uploads, 2 workers, 1 cancel, 2 retries | one execution per task; outcomes end their chain; open rows settle unless an execution was lost; TaskLifecycle is implemented, cancellations included |
| TaskEager | eager mode, 2 submissions of one document, 1 retry | what stays open was lost or failed outside the retry list, though two submissions race for one row |
| PromptRaces | 2 rows, 2 requests or 1 and a conversation, 3 buckets | each broken promise (two actives, stray traffic, revived archive, version reused, no active version) needs overlapping requests, or the activation of the active version; shares are exact; the log tells one story; statistics add up, but for two named flaws |
| IngestRaces | 2 documents, 4 chunk batches, 2 jobs, 2 attempts | completed documents lose no rows; stray vectors have a named cause; a lasting `processing` has one of two: a process that died, a write the database refused |
| IngestDeploys | 2 documents, 1 job, 4 profiles in 2 dimensions, 2 model names, 1 changed gateway | what ran alone and to its end is whole or marked for a reindex; its vectors are of the deployed model name and length, and of another gateway only if an earlier profile had both |
| AgentReviews | 2 runs on one thread or none, 2 reviewers, 1 ingested case | one timeline; waiting runs are queued; decisions close; verdicts agree |
| PolicyRuns | 2 runs, one over two profiles, both modes, 2 attempts, threshold 2 | covered answers; parallel = serial; the breaker counts and protects; runs end |
| ChatTurns | 2 turns, every two kinds together but two calls (of two asks, one with a blank question), 2 workers, 1 thread, 1 change around them | faithful history; fitting answers; both messages or none; totals that are exact but for streams; turns end |
| EvidencePool | 4 chunks in 3 documents, up to 3 channels, 2 rounds of 2 queries, 1 corpus change | servable evidence; the trace adds up; progress; the best chunk decides; unanimous order survives fusion |
| AgentGraphs | 0–2 hits in each of 4 categories, 12 tickets, every router setting, 8 nodes | the timeline replays; the last search answers; right queue |
| EvalRuns | 4 questions of 5 cases, 2 requests, 3 runs, 2 editions of the file | one snapshot; drops are reported; a pass means 45 of 100 are right, cited and confident; the judge decides only what it judged |
| ModelGateways | 2 processes, 6 kinds of settings, 2 redeployments, 3 calls, batches of 2, 1 retry | each text has its own vector; spaces meet only under one model name; verdicts hold |

**Why the bounds are enough.** Interference here is pairwise: two submissions, two
promotions, two jobs on a document, two reviewers, two turns, two runs on a breaker.
A third participant does again what a second can do, except in deadlocks, which PromptTemplates
has with two already. Two retries separate the last attempt from the first and
from one between. Four profiles are the fewest that differ from the first in the model, in the
length (which drops the collection) and in the gateway alone (which the cache does not see). `Threshold = Attempts = 2` lets one call fill the breaker
or two share it. Four chunks with `TopK = 2` overflow every cut of EvidencePool
(`MaxPerDoc = 1`, the pool of twice `TopK`) and two rounds reach both anti-loop guards;
`Candidates = 3` reaches exactly the same states. One change (`Changes`,
`MaxChanges`) is enough to separate what a request read from what it later meets.
The budget of AgentGraphs is the code's own: two tool calls and their observations
fit, and a third call runs and is never observed. One question (`Turns = 1`) shows what a promotion
between two statements does, and the buckets 0, 60 and 99 fall to
the first candidate of 60, on the boundary, and to the end of what a second one has, or to neither;
`ShareIsExact` counts all hundred in each state. Four questions are the fewest with
which each rate has a value between the thresholds of a pass and of a warning; `Unit = 180` keeps the
quotients of the scores whole. Three texts with one twice, in batches of two, make a full batch, a
rest and a gap; two redeployments give each process new settings, or one of them twice. Amounts 1000, 1001 and 5001 lie on
both sides of each threshold of the ticket rules (`>` in the code). The ticket and the anomaly
graph are straight lines shorter than their budgets (6 and 4), so only ReAct runs out.

Runs say `CHECK_DEADLOCK FALSE` where the system rightly comes to rest: every
submission, request, job or turn of the instance is over.

`SYMMETRY` is used with invariants and step properties only, never with liveness.

## 5 Fairness

- *TaskRuns*: a web call in progress runs on; a busy worker goes on with what it is
  doing; while messages wait, some worker takes or discards one. That is Celery's
  prefetching pool and a process scheduler. Nothing obliges a user to upload or cancel, a revoke
  broadcast to arrive, or a node to restart.
- *PolicyRuns*: per run, weak fairness of "some worker of this run goes on, or the run
  finishes": calls end by HTTP timeouts and backoffs elapse. The clock that cools the
  breaker owes nothing.
- *ChatTurns*: only that while some turn can go on, one does: event loops run what is
  ready, drivers have timeouts. This is weaker than fairness to each turn, and
  enough, because a turn has finitely many steps. Clients and surroundings owe nothing.
- The other modules claim safety only. What
  EvidencePool says of termination is a safety property (`RoundsMakeProgress`).

## 6 The proofs

Everything below is proved for every value of the constants that meets the named
assumption of the module (`TaskAssumption`, `PromptAssumption`, `PolicyAssumption`,
`EvidenceAssumption`, `AgentAssumption`, `EvalAssumption`, `SomeGrading`, `GatewayAssumption`, `IngestionAssumption`,
`ReviewAssumption`, `ChatAssumption`, `SelectionAssumption`); each run evaluates it on its instance. They say of what kind the constants are
and that the values which stand for "none" are no others; beyond that `IngestionAssumption` has finitely many chunks,
`ChatAssumption` finitely many turns and `SelectionAssumption` finitely many row ids, which properties that count need. Where a
theorem has a further hypothesis (`UniqueUploads`, `~Eager`, `VotesOutrank`), it is named with it, and runs meet it.

Invariants and action properties are proved for every module: each one that a run checks has its theorem.

**WorkProofs**, TaskRuns

| theorem | says | argument |
| --- | --- | --- |
| `TypeCorrect` | types | inductive |
| `PurgedStaysPurged` | `NoResurrection` | from the types: `Flush` of a row that is gone matches nothing |
| `UniqueRows` | `OneRowPerKey` | inductive; INSERT is refused by the unique constraint |
| `SingleExecution` | `OneChain`, for `UniqueUploads` | `ChainInv` |
| `FailedIsExhausted`, `OutcomeIsFinal` | `FailedMeansExhausted`, `OutcomeEndsChain`, for `UniqueUploads` and a real broker (`~Eager`) | `OutcomeInv` |
| `StuckIsAccounted` | `StuckOnlyIfLost`, in every mode, for repeated submissions too | `SettlesInv` |
| `RefinesLifecycle` | `ImplementsLifecycle`, for `UniqueUploads`, `~Eager` | `ProgressInv` |

`OneChain` is not inductive: a second execution comes from a second dispatch of one
task id. `ChainInv` adds that an id is used only by the call that drew it, for a
document no other call has, and that nothing of it lives before its INSERT.
`OutcomeInv` adds what a worker may still believe: the row it loaded is stale in
nothing but a cancellation or a purge, and `mark_failed` runs only when retries are used up.
`SettlesInv` replaces "somebody is at work" by what makes a row move: somebody who has loaded it open, or not loaded it yet
(`AtWork`). A worker that loaded an outcome may store nothing, since an UPDATE sends only what differs; if the row
is open again by then, another worker has set it running after that load, and that one counts.
`ProgressInv` says that the row of a task nobody canceled tells exactly how far its one
execution is. A cancellation may land between a worker's SELECT and its UPDATE, which then overwrites its
status; the mapping therefore reads it off the audit log, which commits with it (`CancelIsLogged`).

`NoResurrection` and `OneRowPerKey` are proved and not run: a database that matches no deleted row and
refuses a second key leaves TLC little to find.

**ModelProofs**, PromptTemplates: `PromptTypes`; `StateMachineHolds` (`StateMachineOnlyByRace`);
`HistoryHolds` (the action property `HistoryOnlyByRace`); `SerialIsSafe`: with one administrator at a time
there is at most one active version and traffic on candidates only. `RequestInv` carries
the argument: while nobody else commits, what a request loaded is what the table holds
(`UpToDate`) and what it is about to write is well formed; `LawfulInv` adds that it writes only what
the state machine allows from what it read. `PromptsBesideChats` carries the two over to `SelSpec`, whose
conversation writes none of these variables (`SelectionKeepsPrompts`: each of its steps is a request's or leaves the rows alone).

**ModelProofs**, PromptSelection: `SelectionTypes`, of which `OfferedOrSkipped` is the part that matters (what the
selector holds between its two statements was a candidate's id and share when it was read); `LogIsTrue` (`LogTellsOneStory`) by `TellsOne`,
what the rows of one question may say at each point of it, and `RowsTell`, all questions at once; `StatisticsHold`
(`StatisticsAddUp`): unless a row was lost or
is a skipped one, the rows of a question count for the version that served it once and for no other (`EachCountsOnce`), so the total of a version,
a sum over the questions (`TotalIs`), is the number it served (`SetSumExists`, `SetSumBounds`); `SharesAreExact` (`ShareIsExact`): the shares are sums that grow (`Cumulative`), so the buckets
of a candidate are those between its own sum and the one before (`BucketsBetween`), as many as its share.

**IngestionProofs**: `IngestionTypes`, `RowsSurviveJobs` (`StoreMatchesRows`), `RestingDocumentsAreServed`
(`ServedWhole`) and `ProcessingHasOwner` (`ProcessingIsOwned`), all from one invariant, because none of them stands alone:
that the rows of a completed document are whole needs to know what every job in progress has loaded, inserted and
dropped. `Tables` is about rows and chunk owners; `Workings` about what a job of each kind holds at each of its steps, and
that two jobs share documents only if these are suspect (`Apart`); `Documents` about rows, count and status (`DocOK`,
`Sound`) and when the vectors of a document have the model name and length its row claims (`Served`; `Current` are the
profiles whose vectors the cache may give, and no collection that holds one is dropped); `Vectors` about where a vector may be
(`Located`) and that what a job did to its chunks' vectors stands (`Stands`). The argument is locality: one lemma per action
says that a step of job *j* changes only the documents of *j* (`Area`), and one lemma per part that such a step leaves the part true
of all others; what remains is *j* itself.

**WorkProofs**, AgentReviews: `ReviewTypes`, `TimelineIsOrdered` (`OneTimeline`), `QueueFollowsRuns`
(`CaseFollowsRun`) and `CheckpointsKeepOwner` (`CheckpointsAreOwn`). `Progress` says what each point of a POST has
stored, `Held` what a reviewer's request has read, `Locking` that the row lock admits one commit per
run. On those rest `Timeline` (sequence numbers grow, and a decision in progress has the highest), `Queue` (a case is open
from the third commit to the decision), `Closing` (a decision that was not early finds the request ended, and closes run and case),
`Verdicts` (an uncontested run has one decision), `Threading` (the only run of a thread tells the
thread's status), and `Meeting`, `Latest` and `Checkpoints` (a run that met no other on its thread finds and leaves its own checkpoint).

**PolicyRunsProofs**: `BreakerCounts` (`OpenIffFailing`, however many threads share the
breaker) by `BreakerInv` and `BreakerStep`, a list of all a step can do to it; `PolicyTypes`. `BreakerStopsTraffic`
(`OpenStopsTraffic`): the bound on the calls made while the breaker is open is not inductive, as it says nothing of the
attempts still to come; `TrafficInv` adds these (`Left`) to those made, and each call under way moves
one from the first to the second. `AnswersAreWhole` (`AnswerIsWhole`): `Working` says what a worker has asked
and handed in at each point, so that when all have arrived the reports are those of the serial loop (`Concluding`), in
whatever order threads ended; that the profiles are sorted without repetition comes from `ConcatOfDistinct`.

**ChatTurnsProofs**: `ChatTypes`, `AnswersFit` (`AnswerFitsTurn`), `MessagesAreStored` (`DoneIsStored`), `UsageCounts`
(`UsageIsExact`) and `HistoryHolds` (`HistoryIsTrue`). Each action has a lemma that says what it does (`BeginDoes`, …);
together they give `TurnStep`, what a step of one turn may do, and `Crashes`. `Base` adds to the types what a turn has at each
point (`Asked`, `Stage`), and which of its rows are written, each once (`RowsIn`, `Once`). `AnswersInv` adds that an
entry of the cache was made of its key, `UsageInv` that the turns counted are those in the row. For histories `OrderInv` says
that in a thread that is not `raced` the two rows of a turn are neighbours (`Orderly`); then the pending question of a reply is its
own, and the n-th reply belongs to the n-th question that got one (`PairsAre`, `NthAlong`). `HistoryInv` adds that what
a turn was told still is what its thread says of the turns that were over when it began (`Follows`, `Over`).

**RagProofs**, EvidencePool: `EvidenceTypes`, by `Types`, which adds that a search has a
channel left to search; `CitedWasLive` (`LiveWhenCited`) by `LiveInv`, which tracks
every list that can become evidence; `LoopMakesProgress` (`RoundsMakeProgress`) by
`ProgressInv`: inside the loop every round so far found something, fewer than the
maximum were made, and the complaint at hand differs from the last one;
`StrongIsAnswered` (`StrongChunkAnswers`) by `StrongInv`: the pool is sorted and, in the
loop, not empty, and coverage never lowers the score of its head. `TraceIsExact` (`TraceAddsUp`) by
`TraceInv`: the pool and what is fresh have no chunk in common, and what was seen are the chunks of the first search and
those each round added, so that the numbers of the trace sum up to it (`AddedIn`).

`AgreedOrderHolds` is `UnanimousOrder`: a chunk that every channel has before another is before it in the fused list. It is proved
under `VotesOutrank`: the votes `1 / (k + rank)` fall with the rank, and any two within reach outweigh one. So only chunks that both lists of a fusion
hold come ahead of one that both hold (`BothWin`), and of two such the agreed order decides (`AgreedScore`). What is ahead of such a
chunk is therefore in the new channel, no longer than `TopK` and within the limit per document, so
neither the cut nor that limit reaches it (`AgreedStays`); it stays so as the next channel is merged (`FusedIsListed`). The code's `rag_rrf_k = 60` meets the hypothesis up to a
`top_k` of 43; the settings page allows 20. It cannot be dropped: section 8 has what happens for `rag_rrf_k = 0`.

**AgentGraphsProofs**: `AnswersAreLast` (`AnswerIsLastSearch`, for every budget) by
`GraphInv`, whose part `Cycle` gives, for each node of the ReAct graph, the steps taken
as a function of the calls made, and which calls have been observed; `TicketsAreTriaged` (`TicketTriage`, a part
of `RightQueue`) by `TicketInv`, which says what each node of the ticket graph has
decided; `CasesReachTheirQueue` (the whole of `RightQueue`) by `AnomalyInv`, its twin for the anomaly graph, where the
loop over four categories keeps the best so far (`BestUpTo`, once per category: no induction); `TimelineIsWhole` (`Consecutive`, `StartsCounted` and `EndIsLast`, parts of
`TimelineReplays`) by `TimelineInv` and one lemma about what a node writes
(`NodeWrites`) and one about appending it (`StartAdded`); `TimelineReplaysRun` (the whole of `TimelineReplays`) adds
`CallsInv`: the calls replayed from the timeline are the tools called, one more for each pair of events.

**RagProofs**, EvalRuns: `EvalTypes`; `SnapshotIsOne` (`OneSnapshot`), `PassMeansPassed` (`PassBound`),
`JudgeIsContained` (`JudgeOnlyWhereItJudged`, its sums of scores by `TotalIsSum`) and `DropsAreReported` (`DropIsReported`), all
from `EvalInv`: a run is made of what its request read, the run it names as previous is the last of those
committed by then, and no two runs have one time. `PassBound` follows from counts of
the same questions (a set's size against its parts'), for every `N`.

**ModelProofs**, ModelGateways: `GatewayTypes`, `NamesAreKept` (`MixedOnlyUnderOneName`), `VectorsAreOwn`
(`EachItsOwn`) and `ReadyMeansReady` (`VerdictsHold`). `GatewayInv` says of everything that holds a
vector, the cache, the memory, the index and a call's hits and fresh ones, which text it is of and
that a client deployed under its name made it; `used` makes "was deployed" something that stays true. That a
batch is put back by index rests on `Arrivals` being onto.

**Sums** is what these proofs need of induction. The library's induction rules take an operator, which no prover here
instantiates; `UpTo` and `UpToSet` say the same of a *set*: a set of numbers that has 0 and with each number the next has them all
(from the well-foundedness of `<`), and likewise for the subsets of a finite set. From these: a function
that sums a sequence exists, is a number at each place, grows, and agrees with that of a longer sequence
(`SumExists`, `SumTypes`, `SumGrows`, `SumExtends`); so do sums over a set, and they lie between their bounds (`SetSumExists`, `SetSumBounds`).

**Only model-checked.** Liveness (`EveryTaskSettles`, `RunsEnd`, `TurnsEnd`): the prover
does not handle fairness.

## 7 What is left out

Whole components without a model are in `PROJECT.json` with their reasons. Inside the models:

- *TaskRuns*: a database outage inside the commits of the sink; row age in the retention job
  (any set of closed rows may be old); what the ingestion does.
- *PromptTemplates*, *PromptSelection*: names, texts, timestamps, reading routes; the hash that gives a
  tenant its bucket; one conversation and its last rating stand for all.
- *Ingestion*: a chunk stands for the batch one run of the chunker makes; the order of
  documents in a rechunk is arbitrary; an upload's row and file are one step;
  empty documents; the no-op store; contents. What the vector cache holds is not a variable here
  (ModelGateways has it): any profile deployed before may have embedded a text, and entries expire, so a
  call may meet a vector of each of them with its model name and length. Where a batch is part cached and part
  fresh, one origin stands for all. A redeployment waits for the jobs (ModelGateways has rolling ones), a length is the
  configured one (ModelGateways has gateways that pad), different profiles have different keys (ModelGateways has a
  provider written with a blank, which has the local model's), and the query's side of a search is not here.
- *AgentReviews*: results are eight kinds; loading the thread and its commit is one
  step; a decision shows at its commit; an edit refused with 422 changes nothing;
  domain, specialist and memory columns; audit rows; the rule engine's queue cases, which
  repeat the ticket route; cases of the chat route.
- *PolicyRuns*: texts and confidence values (good, weak or failed); input validation; process
  death; a search and the recording of its result in the breaker are one step when
  it was the call's last attempt.
- *ChatTurns*: retrieval is a pack of evidence with a score and CRAG an exchange of packs; one
  usage row; the prompt version in force stands for the A/B draw (PromptSelection has it); database outages;
  processes other than the API do not crash.
- *EvidencePool*: query texts are their number; scores are a small set and arbitrary after
  a rerank; ties are broken arbitrarily; one channel is one step; caches of embeddings and answers;
  the cap of the confidence at 1, which no threshold up to 1 can tell.
- *GraphEngine*, *AgentGraphs*: the engine's pause and its unknown node, which no graph uses; the display
  timeline; the breaker (its refusals are a status); `call_agent` beyond its input check,
  which every call from the graph fails.
- *EvalRuns*: texts; the rounding of metrics to four places; metrics no gate reads; the retrieval
  benchmark, which stores nothing; costs of the judge; a dataset that is neither stored nor builtin.
- *ModelGateways*: one record stands for the `EMBEDDING_` and the `LLM_` settings, each read by its own
  side; the text of a memory, its ranking and the timeline events around it; the null store; addresses,
  headers and messages; a cache without Redis, which is one process's own; the query's embedding,
  which is a `recall`; the rewrite client, whose answers are inputs of EvidencePool.

Of the components without a model, parsing, redaction, error mapping and reports are functions without
state; authentication and row-level security decide each request alone; observability
is read by nothing; the frontend's pages are clients of routes whose every order of calls
the models already admit.

## 8 What the models showed

The disagreements between code and comment that a run of section 4 shows are under `findings` in
`PROJECT.json`: the activation of the active version, ratings that reach no version, requests
counted for versions that did not serve them, tokens of streams, replies paired with another turn's question, the judge's token counts, and three of the model
gateways. Others, met while translating the code:

*Task log.* A cancel request may overwrite an outcome stored after its SELECT
(`api/routes/tasks.py:182` against the check at :144), and so may `mark_running` a row that was
cancelled meanwhile (`sink.py:159`). The audit row's previous status always reads
`canceled` (`routes/tasks.py:191`). A second submission of a document that is still
pending starts a second execution (`workers/tasks.py:209`); `OneChain` is therefore
about uploads. An exception that is not retried leaves the row `running`
(`workers/tasks.py:115`), although `sink.py:14` promises a stored error.

*Prompts.* By overlapping requests: two actives (`service.py:196`), a version put back into
production from the archive (:205), traffic on a version that is no candidate (:177);
two promotions may deadlock (:197).

*Ingestion.* Two rechunks of one document leave both sets of rows (`pipeline.py:414`); a
reindex writes back vectors a rechunk removed (:413); a delete during an ingestion
leaves vectors (:487); a retry after a failed ingestion leaves two sets of rows (:240).
A flush that fails in an ingestion (`pipeline.py:215`; the parser's title is a first line or paragraph of any
length, `parser.py:63`, the column has 255 characters, `db/models/knowledge.py:57`) leaves `processing` for good
without any process dying: the session wants a rollback, so the commit of the except clause (:240) raises in its turn,
and `autoretry_for` does not name that exception (`workers/tasks.py:32`).
After a change of the gateway alone, a reindex stores cached vectors of the former gateway and marks the
row with the new profile (:349), since the cache key is model name and text (`cache.py:183`,
`embedding_client.py:688`): `requires_reindex` is false and the vectors are not the profile's. ServedWhole therefore promises
the model name and the length, and the profile itself only where no earlier one had both.
`requires_reindex` is false again after switching back to a former profile, though the switch
dropped the vectors (`vector_store.py:97`), and `monitoring.py:64` counts a JSON key
nothing writes.

*Agent runs.* A run may be decided before its case exists (`agents.py:331`, :422), and
the third commit then overwrites the stored resolution (:363). Two overlapping resumes may leave the run
rejected and the case resolved. A thread shared by runs reads `active` while one of them waits. Only
resume closes a review case. `thread_runtime.py` renders every `TOOL_CALL_END` as
completed and reads `tool_name` where the runner writes `tool`.

*Policy supervisor.* A success under way when the breaker opens closes it early
(`tool_runner.py:134`); after a cooldown every waiting call gets through, not one. When only the
primary search fails, the answer is empty and not sent to review
(`policy_supervisor.py:823`).

*Chat.* An empty message does not reset the pending question (`chat_history.py:83`): after a turn without a reply, the reply to a
blank question is paired with the question before it. The cache key has no history in it (`core/cache.py:192`). With Redis gone, `get` raises
into the turn. A client that leaves mid-stream loses an answer that was paid for. A cost added to
NULL stays NULL (`token_sink.py:124`). A stream reads the threshold again at its end
(`query_engine.py:1280`).

*Retrieval.* `rag_rrf_k` (`config.py:375`) has no lower bound. With 0 a first place alone outweighs what two channels agree
on, and TLC finds a chunk that every channel ranks first of its document cut by the limit per document. "Cap the working set at 2× top_k" (`query_engine.py:484`) is
`max(2k, k + new)`. CRAG can lower the coverage part of the confidence. Channels are fused pairwise over
re-ranked ranks.

*Graphs.* `config.py:145` calls `agent_react_max_steps` a hard cap on ReAct cycles; the
code only shows it to the planner, and the real budget is eight nodes. `_finalize_node`
says "first successful observation" and takes the last. `_act_node` ignores the planner's
arguments, so `call_agent` always fails validation and its depth guard is never reached. A
ticket without a payload, or with a `ticket_id` of more than 64 characters (`tools.py:46`), is
reported `completed` in `ops-general`, whatever queue was decided before.

*Prompt selection.* `traffic_percent` is a share of the hundred tenant buckets: a deployment with one
tenant has one bucket, and a candidate there has all of the traffic or none (`selector.py:127`).

*Evaluation.* A usage block that is no object, or a faithfulness that is NaN, ends the whole run
(`llm_judge.py:277`, `runner.py:384`). A judge that fails for a question may raise its
faithfulness to 1.0, since the keyword match stands for it. `precision_at_k` divides by the number of chunks
returned where its text says k. Overlapping runs are compared with an older one.

*Model gateways.* Without its address or key the answer client is the deterministic one and
nothing says so but the readiness route (`llm/client.py:519`), while the embedding client refuses;
and the embedding client refuses only when a text is not cached (`embedding_client.py:706`).
