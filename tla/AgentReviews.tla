---------------------------- MODULE AgentReviews ----------------------------
(* Agent runs, the threads they share, and the review queue.  POST /agents/runs *)
(* stores a run in three commits (run, review case, link back to the case); the *)
(* policy supervisor stores the thread in a commit of its own before them.      *)
(* POST /agents/runs/{id}/resume decides a run; POST /reviews/ingest adds cases.*)
(*                                                                              *)
(* Rows are read with plain SELECTs; an UPDATE locks its row until the commit   *)
(* and sends the columns whose value differs from the one that was loaded.      *)
EXTENDS Naturals, FiniteSets

CONSTANTS
  Runs,      \* agent runs: one POST /agents/runs each
  Threads,   \* conversation threads the clients name
  Reviewers, \* resume requests in progress at the same time
  Kinds,     \* the kinds of answers the agents give
  Ingests,   \* review cases other systems post for runs
  Deaths,    \* BOOLEAN: the process of a create request may die
  NoRun, NoThread

ASSUME ReviewAssumption ==
  /\ Deaths \in BOOLEAN
  /\ Ingests \in Nat
  /\ Kinds \subseteq {"ticket", "anomaly", "paused", "answered", "unsure", "legacy",
                     "doubtful", "failed"}
  /\ NoRun \notin Runs \cup Reviewers /\ NoThread \notin Threads

VARIABLES
  run,       \* agent_run: run -> row
  thread,    \* agent_thread: thread -> row
  snapshot,  \* agent_thread_checkpoint: the run that wrote it -> row
  case,      \* review_case: source -> run it names -> status
  events,    \* agent_event: run -> the events stored
  create,    \* the request that creates the run, and what it holds
  resume,    \* resume requests in progress
  early,     \* history: runs decided before the request that creates them ended
  contested, \* history: runs two resume requests had loaded at the same time
  crowded    \* history: runs whose request met another one, or a dead one, on its thread

reviewVars == <<run, thread, snapshot, case, events, create, resume, early, contested, crowded>>

-----------------------------------------------------------------------------
(* What an agent returns *)

Answer(status, review, sure, interrupt, saves, writes) ==
  [status |-> status, review |-> review, sure |-> sure, interrupt |-> interrupt,
   saves |-> saves, writes |-> writes]

\* status, requires_human_review, confidence of at least 0.6, an interrupt, the thread
\* saved by the agent itself, a checkpoint for the route to write.
Outcome ==
  [ticket   |-> Answer("completed",    TRUE,  TRUE,  TRUE,  FALSE, TRUE),
   anomaly  |-> Answer("needs_review", TRUE,  TRUE,  TRUE,  FALSE, TRUE),
   paused   |-> Answer("needs_review", TRUE,  FALSE, TRUE,  TRUE,  FALSE),
   answered |-> Answer("completed",    FALSE, TRUE,  FALSE, TRUE,  FALSE),
   unsure   |-> Answer("completed",    FALSE, FALSE, FALSE, TRUE,  FALSE),
   legacy   |-> Answer("completed",    FALSE, TRUE,  FALSE, FALSE, FALSE),
   doubtful |-> Answer("needs_review", TRUE,  FALSE, FALSE, FALSE, FALSE),
   failed   |-> Answer("failed",       TRUE,  FALSE, FALSE, FALSE, FALSE)]

Result(r) == Outcome[create[r].kind]

RunStatus(res) ==
  IF res.review /\ res.status = "completed" THEN "needs_review" ELSE res.status

\* Mutant: only the confidence counts.
DoubtfulOnly(res) == ~res.sure

ShouldCreateCase(res) == res.review \/ ~res.sure

-----------------------------------------------------------------------------
(* Rows *)

Decisions == {"approve", "edit", "reject"}
Sources   == {"agent", "ingest"}

NoRow    == [status |-> "none", review |-> FALSE, output |-> {}]
NoThreadRow == [status |-> "none", pending |-> NoRun, latest |-> NoRun]

\* The columns of an UPDATE: a value that is the one loaded is not sent.
Sent(loaded, new, current) == IF new = loaded THEN current ELSE new

NoCreate == [pc |-> "none", kind |-> "none", thread |-> NoThread,
             loaded |-> NoThreadRow, free |-> FALSE]
NoResume == [pc |-> "idle", run |-> NoRun, loaded |-> NoRow, thread |-> NoThreadRow,
             cases |-> {}, sequence |-> 0]

InProgress(r) == create[r].pc \in {"save", "load", "store", "case", "link"}
Stored(r) == run[r].status # "none"

\* The run's row is locked by a resume that has flushed its UPDATE.
Locked(r) == \E q \in Reviewers : resume[q].pc = "commit" /\ resume[q].run = r

Others(r, t) == {o \in Runs \ {r} : create[o].thread = t /\ create[o].pc # "done"}

ReviewInit ==
  /\ run = [r \in Runs |-> NoRow]
  /\ thread = [t \in Threads |-> NoThreadRow]
  /\ snapshot = [r \in Runs |-> [exists |-> FALSE, run |-> NoRun]]
  /\ case = [s \in Sources |-> [r \in Runs |-> "none"]]
  /\ events = [r \in Runs |-> {}]
  /\ create = [r \in Runs |-> NoCreate]
  /\ resume = [q \in Reviewers |-> NoResume]
  /\ early = {} /\ contested = {} /\ crowded = {}

-----------------------------------------------------------------------------
(* create_agent_run *)

At(r, pc) ==
  create' = [create EXCEPT ![r] =
    [pc |-> pc, kind |-> IF pc \in {"done", "dead"} THEN "none" ELSE create[r].kind,
     thread |-> create[r].thread, loaded |-> NoThreadRow, free |-> FALSE]]

\* The agent runs: routing, tools, models.  Nothing is stored before it returns.
Execute(r, t, k) ==
  /\ create[r].pc = "none"
  /\ create' = [create EXCEPT ![r] =
       [pc |-> IF Outcome[k].saves THEN "save" ELSE "load", kind |-> k, thread |-> t,
        loaded |-> NoThreadRow, free |-> FALSE]]
  /\ crowded' = IF Others(r, t) = {} THEN crowded ELSE crowded \cup {r} \cup Others(r, t)
  /\ UNCHANGED <<run, thread, snapshot, case, events, resume, early, contested>>

\* _persist_thread_state, committed before the run exists; its checkpoint names no run.
SaveThread(r) ==
  /\ create[r].pc = "save"
  /\ thread' = [thread EXCEPT ![create[r].thread] =
       [status |-> IF Result(r).interrupt THEN "awaiting_review" ELSE "active",
        pending |-> IF Result(r).interrupt THEN r ELSE NoRun,
        latest |-> r]]
  /\ snapshot' = [snapshot EXCEPT ![r] = [exists |-> TRUE, run |-> NoRun]]
  /\ At(r, "load")
  /\ UNCHANGED <<run, case, events, resume, early, contested, crowded>>

\* Mutant: a checkpoint is taken over from the run that has it.
TakesOver(c) == snapshot[c].exists

\* The latest checkpoint, when no run has it yet.
Adoptable(c) == snapshot[c].exists /\ snapshot[c].run = NoRun

\* The first transaction loads the thread and its latest checkpoint.
LoadThread(r) ==
  /\ create[r].pc = "load"
  /\ LET row == thread[create[r].thread]
     IN  create' = [create EXCEPT ![r] =
           [pc |-> "store", kind |-> create[r].kind, thread |-> create[r].thread,
            loaded |-> row, free |-> row.latest # NoRun /\ Adoptable(row.latest)]]
  /\ UNCHANGED <<run, thread, snapshot, case, events, resume, early, contested, crowded>>

\* The columns of the thread the first transaction assigns.
ThreadColumns(r, row) ==
  LET res == Result(r)
  IN  [status  |-> IF res.review THEN "awaiting_review" ELSE "active",
       pending |-> IF res.interrupt THEN r
                   ELSE IF res.review THEN row.pending ELSE NoRun,
       latest  |-> IF res.writes THEN r ELSE row.latest]

\* Its commit: run, thread, checkpoint, events.  A thread another request has inserted
\* since then is a duplicate key, and nothing is stored.
StoreRun(r) ==
  LET t == create[r].thread
      old == create[r].loaded
      new == ThreadColumns(r, old)
      taken == IF Result(r).writes THEN r ELSE old.latest
  IN  /\ create[r].pc = "store"
      /\ old.status # "none" \/ thread[t].status = "none"
      /\ run' = [run EXCEPT ![r] = [status |-> RunStatus(Result(r)),
                                    review |-> Result(r).review, output |-> {}]]
      /\ thread' = [thread EXCEPT ![t] =
           [status  |-> Sent(old.status, new.status, thread[t].status),
            pending |-> Sent(old.pending, new.pending, thread[t].pending),
            latest  |-> Sent(old.latest, new.latest, thread[t].latest)]]
      /\ snapshot' = IF Result(r).writes \/ create[r].free
                     THEN [snapshot EXCEPT ![taken] = [exists |-> TRUE, run |-> r]]
                     ELSE snapshot
      /\ events' = [events EXCEPT ![r] = {[by |-> NoRun, sequence |-> 0]}]
      /\ At(r, IF ShouldCreateCase(Result(r)) THEN "case" ELSE "done")
      /\ UNCHANGED <<case, resume, early, contested, crowded>>

DuplicateThread(r) ==
  /\ create[r].pc = "store"
  /\ create[r].loaded.status = "none" /\ thread[create[r].thread].status # "none"
  /\ At(r, "dead")
  /\ UNCHANGED <<run, thread, snapshot, case, events, resume, early, contested, crowded>>

\* create_review_case commits by itself.
CreateCase(r) ==
  /\ create[r].pc = "case"
  /\ case' = [case EXCEPT !["agent"][r] = "open"]
  /\ At(r, "link")
  /\ UNCHANGED <<run, thread, snapshot, events, resume, early, contested, crowded>>

\* The third commit writes the route's own copy of the output, and the status and the
\* review flag where they are not what the first commit stored.
LinkCase(r) ==
  /\ create[r].pc = "link"
  /\ ~Locked(r)
  /\ run' = [run EXCEPT ![r] =
       [status |-> Sent(RunStatus(Result(r)), "needs_review", run[r].status),
        review |-> Sent(Result(r).review, TRUE, run[r].review),
        output |-> {"review_case_id"}]]
  /\ At(r, "done")
  /\ UNCHANGED <<thread, snapshot, case, events, resume, early, contested, crowded>>

\* The process dies or the database refuses: what was committed stays.
CreateDies(r) ==
  /\ Deaths
  /\ InProgress(r)
  /\ At(r, "dead")
  /\ UNCHANGED <<run, thread, snapshot, case, events, resume, early, contested, crowded>>

-----------------------------------------------------------------------------
(* resume_agent_run *)

NextSequence(r) ==
  IF events[r] = {} THEN 0
  ELSE 1 + (CHOOSE n \in {e.sequence : e \in events[r]} : \A e \in events[r] : e.sequence <= n)

\* Mutant: one of them only.
OneCase(r) ==
  {s \in Sources : case[s][r] = "open" /\ (s = "agent" => case["ingest"][r] # "open")}

\* The open cases that name the run, by the foreign key or by their payload.
LinkedCases(r) == {s \in Sources : case[s][r] = "open"}

\* The run is loaded, without a lock, and its status checked.
LoadRun(q, r) ==
  /\ resume[q].pc = "idle"
  /\ run[r].status = "needs_review"
  /\ resume' = [resume EXCEPT ![q] =
       [pc |-> "flush", run |-> r, loaded |-> run[r], thread |-> NoThreadRow,
        cases |-> {}, sequence |-> 0]]
  /\ contested' = IF \E o \in Reviewers : resume[o].run = r THEN contested \cup {r} ELSE contested
  /\ UNCHANGED <<run, thread, snapshot, case, events, create, early, crowded>>

Flushed(q) ==
  LET r == resume[q].run
  IN  /\ resume' = [resume EXCEPT ![q] =
           [pc |-> "commit", run |-> r, loaded |-> resume[q].loaded,
            thread |-> thread[create[r].thread],
            cases |-> LinkedCases(r), sequence |-> NextSequence(r)]]
      /\ early' = IF InProgress(r) THEN early \cup {r} ELSE early
      /\ UNCHANGED <<run, thread, snapshot, case, events, create, contested, crowded>>

\* Mutant: without the flush the row is not locked before the rest is read.
ReadUnlocked(q) == resume[q].pc = "flush" /\ Flushed(q)

\* The UPDATE of the run waits for its row; then thread, events and cases are read.
FlushRun(q) ==
  /\ resume[q].pc = "flush"
  /\ ~Locked(resume[q].run)
  /\ Flushed(q)

Verdict(decision) == IF decision = "reject" THEN "rejected" ELSE "completed"

\* Mutant: an edited answer counts as a rejection.
ApprovedOnly(decision) == IF decision = "approve" THEN "resolved" ELSE "rejected"

CaseVerdict(decision) == IF decision = "reject" THEN "rejected" ELSE "resolved"

\* Mutant: every decided thread goes on.
AlwaysActive(decision) == "active"

ThreadVerdict(decision) == IF decision = "reject" THEN "rejected" ELSE "active"

\* What the reviewer decided shows with the commit.
CommitResume(q, d) ==
  LET r == resume[q].run
      t == create[r].thread
      old == resume[q].thread
  IN  /\ resume[q].pc = "commit"
      /\ run' = [run EXCEPT ![r] =
           [status |-> Verdict(d), review |-> Sent(resume[q].loaded.review, FALSE, run[r].review),
            output |-> resume[q].loaded.output \cup {"resolution"}]]
      /\ thread' = [thread EXCEPT ![t] =
           [status  |-> Sent(old.status, ThreadVerdict(d), thread[t].status),
            pending |-> Sent(old.pending, NoRun, thread[t].pending),
            latest  |-> thread[t].latest]]
      /\ case' = [s \in Sources |-> [o \in Runs |->
           IF o = r /\ s \in resume[q].cases THEN CaseVerdict(d) ELSE case[s][o]]]
      /\ events' = [events EXCEPT ![r] =
           events[r] \cup {[by |-> q, sequence |-> resume[q].sequence]}]
      /\ resume' = [resume EXCEPT ![q] = NoResume]
      /\ UNCHANGED <<snapshot, create, early, contested, crowded>>

\* The request fails before its commit and is rolled back.
ResumeFails(q) ==
  /\ resume[q].pc # "idle"
  /\ resume' = [resume EXCEPT ![q] = NoResume]
  /\ UNCHANGED <<run, thread, snapshot, case, events, create, early, contested, crowded>>

-----------------------------------------------------------------------------
(* ingest_review_case, whose payload may name a run *)

IngestCase(r) ==
  /\ Stored(r)
  /\ case["ingest"][r] = "none"
  /\ Cardinality({o \in Runs : case["ingest"][o] # "none"}) < Ingests
  /\ case' = [case EXCEPT !["ingest"][r] = "open"]
  /\ UNCHANGED <<run, thread, snapshot, events, create, resume, early, contested, crowded>>

-----------------------------------------------------------------------------

CreateStep(r) ==
  \/ \E t \in Threads, k \in Kinds : Execute(r, t, k)
  \/ SaveThread(r) \/ LoadThread(r) \/ StoreRun(r) \/ DuplicateThread(r)
  \/ CreateCase(r) \/ LinkCase(r) \/ CreateDies(r)

ResumeStep(q) ==
  \/ \E r \in Runs : LoadRun(q, r)
  \/ \E d \in Decisions : CommitResume(q, d)
  \/ FlushRun(q) \/ ResumeFails(q)

ReviewNext ==
  \/ \E r \in Runs : CreateStep(r) \/ IngestCase(r)
  \/ \E q \in Reviewers : ResumeStep(q)

ReviewSpec == ReviewInit /\ [][ReviewNext]_reviewVars

-----------------------------------------------------------------------------
(* Properties *)

RunStatuses == {"none", "completed", "needs_review", "failed", "rejected"}

RunRow == [status : RunStatuses, review : BOOLEAN,
           output : SUBSET {"review_case_id", "resolution"}]

ThreadRow == [status : {"none", "active", "awaiting_review", "rejected"},
              pending : Runs \cup {NoRun}, latest : Runs \cup {NoRun}]

\* Every variable has its type: the columns of the tables, and what requests hold.
ReviewTypeOK ==
  /\ run \in [Runs -> RunRow]
  /\ thread \in [Threads -> ThreadRow]
  /\ snapshot \in [Runs -> [exists : BOOLEAN, run : Runs \cup {NoRun}]]
  /\ case \in [Sources -> [Runs -> {"none", "open", "resolved", "rejected"}]]
  /\ \A r \in Runs : events[r] \subseteq [by : Reviewers \cup {NoRun}, sequence : Nat]
  /\ create \in [Runs ->
       [pc : {"none", "save", "load", "store", "case", "link", "done", "dead"},
        kind : Kinds \cup {"none"}, thread : Threads \cup {NoThread}, loaded : ThreadRow,
        free : BOOLEAN]]
  /\ resume \in [Reviewers ->
       [pc : {"idle", "flush", "commit"}, run : Runs \cup {NoRun},
        loaded : RunRow, thread : ThreadRow, cases : SUBSET Sources, sequence : Nat]]
  /\ early \subseteq Runs /\ contested \subseteq Runs /\ crowded \subseteq Runs

Decided(r) == \E e \in events[r] : e.by # NoRun

\* agent_event gives a run's history one order: two decisions that overlap do not
\* store their RESUME events under one sequence number, and none precedes the run's.
OneTimeline ==
  \A r \in Runs : \A e, f \in events[r] :
    e # f => e.sequence # f.sequence /\ (e.by = NoRun => e.sequence < f.sequence)

\* A run that waits for a reviewer is in the queue, once its request has ended.
ReviewIsQueued ==
  \A r \in Runs :
    run[r].status = "needs_review" /\ create[r].pc = "done" => case["agent"][r] = "open"

\* A run's own case leaves the queue with the decision, and the decision stays in the
\* run's output, unless it was taken while the creating request was still at work.
DecisionCloses ==
  \A r \in Runs \ early :
    Decided(r) => /\ case["agent"][r] # "open"
                  /\ "resolution" \in run[r].output

OnlyRunOf(t) == {r \in Runs : create[r].thread = t}

\* Run and case tell the same verdict unless two reviewers decided at once.  The
\* thread of a single run tells the run's verdict too, also after two decisions, and
\* has no interrupt pending any more.
VerdictsAgree ==
  /\ \A r \in Runs \ contested :
       /\ case["agent"][r] = "resolved" => run[r].status = "completed"
       /\ case["agent"][r] = "rejected" => run[r].status = "rejected"
  /\ \A t \in Threads, r \in Runs :
       OnlyRunOf(t) = {r} /\ Decided(r) =>
         /\ thread[t].pending = NoRun
         /\ thread[t].status = IF run[r].status = "rejected" THEN "rejected" ELSE "active"

\* The queue shows the runs that wait for a reviewer and drops them when one decides;
\* case and thread then say what the run says.
CaseFollowsRun == ReviewIsQueued /\ DecisionCloses /\ VerdictsAgree

\* A checkpoint names the run that wrote it, unless requests met on its thread.
CheckpointsAreOwn ==
  \A r \in Runs \ crowded :
    /\ snapshot[r].run \in {NoRun, r}
    /\ snapshot[r].exists /\ create[r].pc = "done" => snapshot[r].run = r

=============================================================================
