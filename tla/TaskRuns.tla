------------------------------ MODULE TaskRuns ------------------------------
(***************************************************************************)
(* The background-task log: one task_run row per submitted ingestion, the  *)
(* web calls that register and publish it, the Celery workers that execute *)
(* it with automatic retries, the operators that cancel it and the cron    *)
(* job that prunes it.                                                     *)
(*                                                                         *)
(* Every sink function runs in a short transaction of its own: a SELECT    *)
(* (session.get), a change of the loaded object, and an UPDATE of the      *)
(* columns whose value changed.  Under READ COMMITTED other transactions   *)
(* commit between the two statements, so SELECT and UPDATE are separate    *)
(* actions here and Flush gives the effect of the UPDATE.                  *)
(*                                                                         *)
(* The uuid a submission draws for its row is represented by the           *)
(* submission itself: Calls is also the set of task ids.                   *)
(***************************************************************************)
EXTENDS Naturals, FiniteSets

CONSTANTS
  Calls,          \* calls of submit_ingestion; each owns the task id it draws
  Docs,           \* document ids; the idempotency key is a hash of the id
  Workers,        \* child processes of the Celery worker node
  Cancels,        \* POST /api/tasks/{id}/cancel requests
  MaxRetries,     \* max_retries of the Celery task
  Eager,          \* CELERY_TASK_ALWAYS_EAGER
  UniqueUploads,  \* TRUE: every call is an upload, which draws a new document
  NoDoc, NoMsg    \* model values: no document, no message

ASSUME TaskAssumption ==
  /\ MaxRetries \in Nat
  /\ Eager \in BOOLEAN
  /\ UniqueUploads \in BOOLEAN
  /\ NoDoc \notin Docs

VARIABLES
  rows,      \* task_run: task id -> row
  queue,     \* messages in the broker
  worker,    \* what each worker process is doing
  revoked,   \* task ids the worker node will refuse or kill
  control,   \* revoke broadcasts on their way to the node
  call,      \* progress of each submit_ingestion call
  cancel,    \* progress of each cancel request
  audit,     \* audit_log rows of task.cancel
  lost,      \* history: tasks of which an execution was lost or killed
  failedFast \* history: tasks an exception ended before the last retry

vars == <<rows, queue, worker, revoked, control, call, cancel, audit,
          lost, failedFast>>

-----------------------------------------------------------------------------
(* The task_run row *)

Terminal == {"succeeded", "failed", "canceled"}
Open     == {"pending", "running"}
Statuses == Terminal \cup Open \cup {"absent"}

Row == [doc     : Docs \cup {NoDoc},
        status  : Statuses,
        result  : BOOLEAN,
        error   : {"none", "exception", "canceled_by_reviewer"},
        retries : 0 .. MaxRetries]

\* What a SELECT of an id without a row returns.
Absent == [doc |-> NoDoc, status |-> "absent", result |-> FALSE,
           error |-> "none", retries |-> 0]

\* A broker message carries the row id as its task id.  Two submissions of one
\* document publish two messages with the same task id; from tells them apart.
Message == [from : Calls, task : Calls, retries : 0 .. MaxRetries]

\* The larger of two retry counters.
AtLeast(a, b) == IF a >= b THEN a ELSE b

(* The changes the sink functions make to the row they loaded.             *)

MarkRunning(row, retries) ==
  IF row.status \in Terminal \cup {"absent"} THEN row
  ELSE [row EXCEPT !.status = "running", !.retries = AtLeast(@, retries)]

MarkSucceeded(row) ==
  IF row.status = "absent" THEN row
  ELSE [row EXCEPT !.status = "succeeded", !.result = TRUE, !.error = "none"]

MarkFailed(row, retries) ==
  IF row.status = "absent" THEN row
  ELSE [row EXCEPT !.status = "failed", !.error = "exception",
                   !.retries = AtLeast(@, retries)]

MarkCanceled(row) ==
  IF row.status \in {"absent", "canceled"} THEN row
  ELSE [row EXCEPT !.status = "canceled", !.error = "canceled_by_reviewer"]

\* UPDATE sets the columns in which the object differs from what was loaded
\* and leaves the others as they are in the table by then.
Flush(current, loaded, new) ==
  [doc     |-> IF new.doc     # loaded.doc     THEN new.doc     ELSE current.doc,
   status  |-> IF new.status  # loaded.status  THEN new.status  ELSE current.status,
   result  |-> IF new.result  # loaded.result  THEN new.result  ELSE current.result,
   error   |-> IF new.error   # loaded.error   THEN new.error   ELSE current.error,
   retries |-> IF new.retries # loaded.retries THEN new.retries ELSE current.retries]

\* The row was deleted after it was loaded: an UPDATE raises StaleDataError.
Stale(t, loaded) == loaded.status # "absent" /\ rows[t].status = "absent"

\* The table after the transaction that loaded a row of t commits.
Committed(t, loaded, new) ==
  IF Stale(t, loaded) THEN rows
  ELSE [rows EXCEPT ![t] = Flush(@, loaded, new)]

-----------------------------------------------------------------------------
(* Who is still going to work on a task *)

Busy(w) == worker[w].pc # "idle"
Executing(w, t) == Busy(w) /\ worker[w].msg.task = t
Dispatching(c, t) ==
  call[c].pc \in {"dispatch", "storeOk", "storeErr"} /\ call[c].task = t

Live(t) == \/ \E m \in queue : m.task = t
           \/ \E w \in Workers : Executing(w, t)
           \/ \E c \in Calls : Dispatching(c, t)

IdleWorker == [pc |-> "idle", msg |-> NoMsg, seen |-> Absent]

Init ==
  /\ rows = [t \in Calls |-> Absent]
  /\ queue = {}
  /\ worker = [w \in Workers |-> IdleWorker]
  /\ revoked = {}
  /\ control = {}
  /\ call = [c \in Calls |-> [pc |-> "idle", doc |-> NoDoc, task |-> c,
                              seen |-> Absent]]
  /\ cancel = [k \in Cancels |-> [pc |-> "idle", task |-> NoDoc, seen |-> Absent]]
  /\ audit = {}
  /\ lost = {}
  /\ failedFast = {}

-----------------------------------------------------------------------------
(* submit_ingestion *)

Registered(d) == {t \in Calls : rows[t].status # "absent" /\ rows[t].doc = d}

\* find_existing: a hit skips the INSERT.
Lookup(c, d) ==
  /\ call[c].pc = "idle"
  /\ UniqueUploads => \A o \in Calls : call[o].doc # d
  /\ \/ /\ Registered(d) = {}
        /\ call' = [call EXCEPT ![c] = [pc |-> "insert", doc |-> d,
                                     task |-> c, seen |-> Absent]]
     \/ \E t \in Registered(d) :
          call' = [call EXCEPT ![c] = [pc |-> "dispatch", doc |-> d,
                                       task |-> t, seen |-> rows[t]]]
  /\ UNCHANGED <<rows, queue, worker, revoked, control, cancel, audit,
                 lost, failedFast>>

NewRow(d) == [Absent EXCEPT !.doc = d, !.status = "pending"]

\* INSERT and COMMIT; the unique constraint refuses a second row of the key.
Insert(c) ==
  /\ call[c].pc = "insert"
  /\ IF Registered(call[c].doc) = {}
     THEN /\ rows' = [rows EXCEPT ![c] = NewRow(call[c].doc)]
          /\ call' = [call EXCEPT ![c] = [pc |-> "dispatch", doc |-> @.doc,
                                          task |-> @.task, seen |-> NewRow(@.doc)]]
     ELSE /\ call' = [call EXCEPT ![c].pc = "error"]
          /\ UNCHANGED rows
  /\ UNCHANGED <<queue, worker, revoked, control, cancel, audit, lost, failedFast>>

\* The row the call registered or found holds a result: nothing to run.
Cached(c) == call[c].seen.status = "succeeded" /\ call[c].seen.result

ReturnCached(c) ==
  /\ call[c].pc = "dispatch"
  /\ Cached(c)
  /\ call' = [call EXCEPT ![c].pc = "done"]
  /\ UNCHANGED <<rows, queue, worker, revoked, control, cancel, audit,
                 lost, failedFast>>

Publish(c) ==
  /\ call[c].pc = "dispatch"
  /\ ~Cached(c) /\ ~Eager
  /\ queue' = queue \cup {[from |-> c, task |-> call[c].task, retries |-> 0]}
  /\ call' = [call EXCEPT ![c].pc = "done"]
  /\ UNCHANGED <<rows, worker, revoked, control, cancel, audit, lost, failedFast>>

\* The web process dies, or apply_async raises because the broker is down.
Abandon(c) ==
  /\ call[c].pc \in {"insert", "dispatch", "storeOk", "storeErr"}
  /\ call' = [call EXCEPT ![c].pc = "error"]
  /\ lost' = IF call[c].pc = "insert" THEN lost ELSE lost \cup {call[c].task}
  /\ UNCHANGED <<rows, queue, worker, revoked, control, cancel, audit, failedFast>>

\* Eager mode: the job runs inside the call, then the row is loaded.
RunInline(c) ==
  /\ call[c].pc = "dispatch"
  /\ ~Cached(c) /\ Eager
  /\ \E outcome \in {"storeOk", "storeErr"} :
       call' = [call EXCEPT ![c] = [pc |-> outcome, doc |-> @.doc, task |-> @.task,
                                    seen |-> rows[@.task]]]
  /\ UNCHANGED <<rows, queue, worker, revoked, control, cancel, audit,
                 lost, failedFast>>

\* Mutant: the eager path re-raises without mark_failed.
StoreInlineOkOnly(c) ==
  /\ call[c].pc \in {"storeOk", "storeErr"}
  /\ rows' = IF call[c].pc = "storeOk"
             THEN Committed(call[c].task, call[c].seen, MarkSucceeded(call[c].seen))
             ELSE rows
  /\ call' = [call EXCEPT ![c].pc = "done"]
  /\ UNCHANGED <<queue, worker, revoked, control, cancel, audit, lost, failedFast>>

StoreInline(c) ==
  /\ call[c].pc \in {"storeOk", "storeErr"}
  /\ LET ok  == call[c].pc = "storeOk"
         new == IF ok THEN MarkSucceeded(call[c].seen)
                ELSE MarkFailed(call[c].seen, 0)
         bad == Stale(call[c].task, call[c].seen)
     IN /\ rows' = Committed(call[c].task, call[c].seen, new)
        /\ call' = [call EXCEPT ![c].pc = IF ok /\ ~bad THEN "done" ELSE "error"]
  /\ UNCHANGED <<queue, worker, revoked, control, cancel, audit, lost, failedFast>>

-----------------------------------------------------------------------------
(* ingest_document_task on a worker; messages are acknowledged on receipt   *)

\* The node drops a message whose id was revoked.
Discard(m) ==
  /\ m \in queue
  /\ m.task \in revoked
  /\ queue' = queue \ {m}
  /\ lost' = lost \cup {m.task}
  /\ UNCHANGED <<rows, worker, revoked, control, call, cancel, audit, failedFast>>

\* Receive a message; mark_running loads the row.
Start(w, m) ==
  /\ m \in queue
  /\ worker[w].pc = "idle"
  /\ m.task \notin revoked
  /\ queue' = queue \ {m}
  /\ worker' = [worker EXCEPT ![w] = [pc |-> "starting", msg |-> m,
                                      seen |-> rows[m.task]]]
  /\ UNCHANGED <<rows, revoked, control, call, cancel, audit, lost, failedFast>>

\* mark_running updates the row; a StaleDataError ends the task.
StoreRunning(w) ==
  /\ worker[w].pc = "starting"
  /\ LET t   == worker[w].msg.task
         old == worker[w].seen
         new == MarkRunning(old, worker[w].msg.retries)
     IN /\ rows' = Committed(t, old, new)
        /\ worker' = [worker EXCEPT ![w] = IF new # old /\ Stale(t, old)
                                           THEN IdleWorker
                                           ELSE [@ EXCEPT !.pc = "running"]]
  /\ UNCHANGED <<queue, revoked, control, call, cancel, audit, lost, failedFast>>

\* run_ingestion_job returned; mark_succeeded loads the row.
JobReturns(w) ==
  /\ worker[w].pc = "running"
  /\ worker' = [worker EXCEPT ![w].pc = "succeeding",
                              ![w].seen = rows[worker[w].msg.task]]
  /\ UNCHANGED <<rows, queue, revoked, control, call, cancel, audit,
                 lost, failedFast>>

StoreSucceeded(w) ==
  /\ worker[w].pc = "succeeding"
  /\ rows' = Committed(worker[w].msg.task, worker[w].seen,
                       MarkSucceeded(worker[w].seen))
  /\ worker' = [worker EXCEPT ![w] = IdleWorker]
  /\ UNCHANGED <<queue, revoked, control, call, cancel, audit, lost, failedFast>>

\* Mutant: the last attempt is taken one too early.
ExhaustedEarly(w) == worker[w].msg.retries + 1 >= MaxRetries

\* retries >= max_retries: mark_failed loads the row.
Exhausted(w) == worker[w].msg.retries >= MaxRetries

JobExhausted(w) ==
  /\ worker[w].pc = "running"
  /\ Exhausted(w)
  /\ worker' = [worker EXCEPT ![w].pc = "failing",
                              ![w].seen = rows[worker[w].msg.task]]
  /\ UNCHANGED <<rows, queue, revoked, control, call, cancel, audit,
                 lost, failedFast>>

StoreFailed(w) ==
  /\ worker[w].pc = "failing"
  /\ rows' = Committed(worker[w].msg.task, worker[w].seen,
                       MarkFailed(worker[w].seen, worker[w].msg.retries))
  /\ worker' = [worker EXCEPT ![w] = IdleWorker]
  /\ UNCHANGED <<queue, revoked, control, call, cancel, audit, lost, failedFast>>

\* Mutants: the attempt goes on after its retry was published; the retry is
\* never published.
JobRetriedGoesOn(w) ==
  /\ worker[w].pc = "running"
  /\ ~Exhausted(w)
  /\ queue' = queue \cup {[worker[w].msg EXCEPT !.retries = @ + 1]}
  /\ UNCHANGED <<rows, worker, revoked, control, call, cancel, audit, lost,
                 failedFast>>

JobRetriedUnpublished(w) ==
  /\ worker[w].pc = "running"
  /\ ~Exhausted(w)
  /\ worker' = [worker EXCEPT ![w] = IdleWorker]
  /\ UNCHANGED <<rows, queue, revoked, control, call, cancel, audit, lost,
                 failedFast>>

\* Mutant: mark_failed on every failed attempt, also when a retry follows.
JobRetriedMarked(w) ==
  /\ worker[w].pc = "running"
  /\ ~Exhausted(w)
  /\ rows' = [rows EXCEPT ![worker[w].msg.task] = MarkFailed(@, MaxRetries)]
  /\ queue' = queue \cup {[worker[w].msg EXCEPT !.retries = @ + 1]}
  /\ worker' = [worker EXCEPT ![w] = IdleWorker]
  /\ UNCHANGED <<revoked, control, call, cancel, audit, lost, failedFast>>

\* An exception in _RETRYABLE_EXCEPTIONS: Celery publishes the next attempt.
JobRetried(w) ==
  /\ worker[w].pc = "running"
  /\ ~Exhausted(w)
  /\ queue' = queue \cup {[worker[w].msg EXCEPT !.retries = @ + 1]}
  /\ worker' = [worker EXCEPT ![w] = IdleWorker]
  /\ UNCHANGED <<rows, revoked, control, call, cancel, audit, lost, failedFast>>

\* Any other exception before the last retry: re-raised, no retry, no mark.
JobFailsFast(w) ==
  /\ worker[w].pc = "running"
  /\ ~Exhausted(w)
  /\ worker' = [worker EXCEPT ![w] = IdleWorker]
  /\ failedFast' = failedFast \cup {worker[w].msg.task}
  /\ UNCHANGED <<rows, queue, revoked, control, call, cancel, audit, lost>>

Killed(t) == [w \in Workers |-> IF Executing(w, t) THEN IdleWorker ELSE worker[w]]

\* revoke(terminate=True) reaches the node: remember the id, kill its process.
RevokeDelivered(t) ==
  /\ t \in control
  /\ control' = control \ {t}
  /\ revoked' = revoked \cup {t}
  /\ worker' = Killed(t)
  /\ lost' = IF \E w \in Workers : Executing(w, t) THEN lost \cup {t} ELSE lost
  /\ UNCHANGED <<rows, queue, call, cancel, audit, failedFast>>

\* The worker node restarts: running jobs and the revoked set are in memory.
NodeRestart ==
  /\ revoked # {} \/ \E w \in Workers : Busy(w)
  /\ worker' = [w \in Workers |-> IdleWorker]
  /\ revoked' = {}
  /\ control' = {}
  /\ lost' = lost \cup {t \in Calls : \E w \in Workers : Executing(w, t)}
  /\ UNCHANGED <<rows, queue, call, cancel, audit, failedFast>>

-----------------------------------------------------------------------------
(* POST /api/tasks/{id}/cancel: the row is loaded once per request          *)

CancelLoad(k, t) ==
  /\ cancel[k].pc = "idle"
  /\ cancel' = [cancel EXCEPT ![k] =
       [pc   |-> IF rows[t].status \in Open THEN "loaded" ELSE "done",
        task |-> t, seen |-> rows[t]]]
  /\ UNCHANGED <<rows, queue, worker, revoked, control, call, audit,
                 lost, failedFast>>

\* control.revoke; an exception is logged and swallowed.
CancelRevoke(k) ==
  /\ cancel[k].pc = "loaded"
  /\ \/ control' = control \cup {cancel[k].task}
     \/ UNCHANGED control
  /\ cancel' = [cancel EXCEPT ![k].pc = "revoked"]
  /\ UNCHANGED <<rows, queue, worker, revoked, call, audit, lost, failedFast>>

\* mark_canceled gets the object loaded before, then the audit row reads
\* row.status from it, then both commit together.
CancelStore(k) ==
  /\ cancel[k].pc = "revoked"
  /\ LET new == MarkCanceled(cancel[k].seen)
         bad == Stale(cancel[k].task, cancel[k].seen)
     IN /\ rows' = Committed(cancel[k].task, cancel[k].seen, new)
        /\ audit' = IF bad THEN audit
                    ELSE audit \cup {[task |-> cancel[k].task,
                                      found |-> cancel[k].seen.status,
                                      previous_status |-> new.status]}
  /\ cancel' = [cancel EXCEPT ![k].pc = "done"]
  /\ UNCHANGED <<queue, worker, revoked, control, call, lost, failedFast>>

\* The request dies before its commit.
CancelAbort(k) ==
  /\ cancel[k].pc \in {"loaded", "revoked"}
  /\ cancel' = [cancel EXCEPT ![k].pc = "done"]
  /\ UNCHANGED <<rows, queue, worker, revoked, control, call, audit,
                 lost, failedFast>>

-----------------------------------------------------------------------------
(* cleanup_old_task_runs: one DELETE of the terminal rows past retention.   *)
(* Age is not modelled: any set of terminal rows may be the old ones.       *)

Prunable == {t \in Calls : rows[t].status \in Terminal}

Cleanup(old) ==
  /\ old # {}
  /\ old \subseteq Prunable
  /\ rows' = [t \in Calls |-> IF t \in old THEN Absent ELSE rows[t]]
  /\ UNCHANGED <<queue, worker, revoked, control, call, cancel, audit,
                 lost, failedFast>>

-----------------------------------------------------------------------------

CallNext(c) ==
  \/ \E d \in Docs : Lookup(c, d)
  \/ Insert(c) \/ ReturnCached(c) \/ Publish(c) \/ Abandon(c)
  \/ RunInline(c) \/ StoreInline(c)

WorkerStep(w) ==
  \/ StoreRunning(w) \/ JobReturns(w) \/ StoreSucceeded(w)
  \/ JobExhausted(w) \/ StoreFailed(w) \/ JobRetried(w) \/ JobFailsFast(w)

CancelNext(k) ==
  \/ \E t \in Calls : CancelLoad(k, t)
  \/ CancelRevoke(k) \/ CancelStore(k) \/ CancelAbort(k)

Next ==
  \/ \E c \in Calls : CallNext(c)
  \/ \E m \in queue : Discard(m)
  \/ \E w \in Workers : WorkerStep(w) \/ \E m \in queue : Start(w, m)
  \/ \E t \in Calls : RevokeDelivered(t)
  \/ NodeRestart
  \/ \E k \in Cancels : CancelNext(k)
  \/ \E old \in SUBSET Calls : Cleanup(old)

Spec == Init /\ [][Next]_vars

\* A web call in progress runs on; a free worker takes a waiting message and a
\* busy one finishes.  Nothing obliges a user to upload or cancel, a broadcast
\* to arrive or a node to restart.
Fairness ==
  /\ \A c \in Calls : WF_vars(Insert(c) \/ ReturnCached(c) \/ Publish(c)
                              \/ RunInline(c) \/ StoreInline(c))
  /\ \A w \in Workers : WF_vars(WorkerStep(w))
  /\ WF_vars(\E m \in queue : Discard(m) \/ \E w \in Workers : Start(w, m))

FairSpec == Spec /\ Fairness

-----------------------------------------------------------------------------
(* Properties *)

WorkerState == [pc   : {"idle", "starting", "running", "succeeding", "failing"},
                msg  : Message \cup {NoMsg},
                seen : Row]
CallState   == [pc   : {"idle", "insert", "dispatch", "storeOk", "storeErr",
                        "done", "error"},
                doc  : Docs \cup {NoDoc},
                task : Calls,
                seen : Row]
CancelState == [pc   : {"idle", "loaded", "revoked", "done"},
                task : Calls \cup {NoDoc},
                seen : Row]
AuditRow    == [task : Calls, found : Statuses, previous_status : Statuses]

\* Every variable has its type; who is at work has something to work on.
TypeOK ==
  /\ rows \in [Calls -> Row]
  /\ queue \subseteq Message
  /\ worker \in [Workers -> WorkerState]
  /\ \A w \in Workers : Busy(w) => worker[w].msg \in Message
  /\ call \in [Calls -> CallState]
  /\ cancel \in [Cancels -> CancelState]
  /\ \A k \in Cancels : cancel[k].pc # "idle" => cancel[k].task \in Calls
  /\ audit \subseteq AuditRow
  /\ revoked \cup control \cup lost \cup failedFast \subseteq Calls

\* A task is in one place at a time: dispatched by the call that registered it,
\* or one message, or one worker.  Two would ingest one document concurrently.
OneChain ==
  \A t \in Calls :
    /\ \A m, n \in queue : m.task = t /\ n.task = t => m = n
    /\ \A v, w \in Workers : Executing(v, t) /\ Executing(w, t) => v = w
    /\ \A c \in Calls, m \in queue : ~(Dispatching(c, t) /\ m.task = t)
    /\ \A c \in Calls, w \in Workers : ~(Dispatching(c, t) /\ Executing(w, t))
    /\ \A w \in Workers, m \in queue : ~(Executing(w, t) /\ m.task = t)

\* mark_failed fires on the last retry only: a row that reads "failed" shows all
\* its retries used up.
FailedMeansExhausted ==
  \A t \in Calls : rows[t].status = "failed" => rows[t].retries = MaxRetries

\* An outcome is final: while a row reads succeeded or failed no message, call or
\* worker is left that could revise it.
OutcomeEndsChain ==
  \A t \in Calls : rows[t].status \in {"succeeded", "failed"} => ~Live(t)

\* A row may read pending or running for ever only for one of two reasons: an
\* execution was lost (a crash, a kill) or an exception was not retryable.
StuckOnlyIfLost ==
  \A t \in Calls : rows[t].status \in Open /\ ~Live(t) => t \in lost \cup failedFast

\* A row the retention job deleted stays deleted, whatever is still running:
\* only the registration of a submission creates rows.
NoResurrection ==
  [][\A t \in Calls : rows[t].status = "absent" /\ rows'[t].status # "absent"
                        => call[t].pc = "insert"]_vars

\* (tenant_id, task_name, idempotency_key) is unique although find_existing and
\* the INSERT are two statements.
OneRowPerKey ==
  \A s, t \in Calls :
    rows[s].status # "absent" /\ rows[t].status # "absent" /\ rows[s].doc = rows[t].doc
    => s = t

\* Every submitted ingestion leaves pending/running, unless one of the two
\* excuses of StuckOnlyIfLost applies.
EveryTaskSettles ==
  \A t \in Calls : rows[t].status \in Open
                     ~> rows[t].status \notin Open \/ t \in lost \cup failedFast

(* Inductive strengthenings *)

\* Somebody at work on t will yet change what its row says: a call or worker that
\* loaded an open row, or one that has not loaded any.
AtWork(t) ==
  \/ \E m \in queue : m.task = t
  \/ \E c \in Calls :
       /\ call[c].task = t
       /\ \/ call[c].pc = "dispatch" /\ ~Cached(c)
          \/ call[c].pc \in {"storeOk", "storeErr"} /\ call[c].seen.status \in Open
  \/ \E w \in Workers :
       /\ Executing(w, t)
       /\ \/ worker[w].pc \in {"starting", "running"}
          \/ worker[w].pc \in {"succeeding", "failing"} /\ worker[w].seen.status \in Open

\* StuckOnlyIfLost holds because it is not enough to be at work.
SettlesInv ==
  /\ \A c \in Calls : call[c].pc \in {"idle", "insert"} => call[c].task = c
  /\ \A t \in Calls :
       rows[t].status \in Open => t \in lost \cup failedFast \/ AtWork(t)

\* For UniqueUploads, OneChain holds because a task id is only ever used by the call that drew it,
\* for a document no other call has.
ChainInv ==
  /\ \A c \in Calls : call[c].task = c
  /\ \A c \in Calls : call[c].pc = "idle" => call[c].doc = NoDoc
  /\ \A c \in Calls : call[c].pc = "insert" => call[c].doc # NoDoc
  /\ \A c, o \in Calls : call[c].doc = call[o].doc /\ call[c].doc # NoDoc => c = o
  /\ \A t \in Calls : rows[t].status # "absent" =>
       rows[t].doc = call[t].doc /\ call[t].doc # NoDoc
  /\ \A t \in Calls : call[t].pc \in {"idle", "insert"} =>
       rows[t].status = "absent" /\ ~Live(t)
  /\ OneChain

\* For ~Eager too, what a worker loaded is stale in nothing but a cancellation or a
\* purge.
LoadedByWorker(w) ==
  LET row == rows[worker[w].msg.task] IN
  worker[w].pc \in {"starting", "succeeding", "failing"} =>
    /\ worker[w].seen.status \notin {"succeeded", "failed"}
    /\ worker[w].seen.status = "absent" => row.status = "absent"
    /\ worker[w].seen.status # "absent" /\ row.status # "absent" =>
         row.retries = worker[w].seen.retries

OutcomeInv ==
  /\ \A c \in Calls : call[c].pc \notin {"storeOk", "storeErr"}
  /\ \A c \in Calls : call[c].pc = "dispatch" => call[c].seen.status = "pending"
  /\ \A w \in Workers : LoadedByWorker(w)
  /\ \A w \in Workers : worker[w].pc = "failing" => Exhausted(w)
  /\ \A k \in Cancels : cancel[k].pc \in {"loaded", "revoked"} =>
       cancel[k].seen.status \in Open
  /\ OutcomeEndsChain
  /\ FailedMeansExhausted

\* Attempt n of t is about to start.
Ready(t, n) ==
  \/ n = 0 /\ rows[t].status = "pending" /\ rows[t].retries = 0
  \/ n > 0 /\ rows[t].status = "running" /\ rows[t].retries + 1 = n

\* Attempt n of t is going on.
Ongoing(t, n) == rows[t].status = "running" /\ rows[t].retries = n

\* An operator's cancellation of t was stored.
Canceled(t) == \E a \in audit : a.task = t

\* The row of a task that nobody canceled tells exactly how far its one execution
\* is, and what a worker loaded of it is never stale.
ProgressInv ==
  /\ \A t \in Calls : rows[t].status = "absent" => rows[t].retries = 0
  /\ \A t \in Calls : rows[t].status = "canceled" => Canceled(t)
  /\ \A t \in Calls : rows[t].status # "absent" => call[t].seen.status # "absent"
  /\ \A c \in Calls : call[c].pc \in {"idle", "insert"} =>
       call[c].seen.status = "absent" /\ ~Canceled(c)
  /\ \A c \in Calls : call[c].pc = "dispatch" => Canceled(c) \/ Ready(c, 0)
  /\ \A m \in queue : Canceled(m.task) \/ Ready(m.task, m.retries)
  /\ \A w \in Workers :
       LET t == worker[w].msg.task
           n == worker[w].msg.retries
       IN Busy(w) /\ ~Canceled(t) =>
            /\ worker[w].pc = "starting" => Ready(t, n)
            /\ worker[w].pc \in {"running", "succeeding", "failing"} => Ongoing(t, n)
            /\ worker[w].pc \in {"starting", "succeeding", "failing"} =>
                 worker[w].seen = rows[t]

\* The lifecycle each task goes through, read off its row and the audit log.
Stage(t) ==
  CASE rows[t].status # "absent" /\ ~Canceled(t) -> rows[t].status
    [] rows[t].status # "absent" /\ Canceled(t) -> "canceled"
    [] rows[t].status = "absent" /\ call[t].seen.status = "absent" -> "none"
    [] rows[t].status = "absent" /\ call[t].seen.status # "absent" -> "purged"

Shown(t) == IF Canceled(t) THEN 0 ELSE rows[t].retries

Lifecycle == INSTANCE TaskLifecycle WITH
  Tasks   <- Calls,
  life    <- [t \in Calls |-> Stage(t)],
  attempt <- [t \in Calls |-> Shown(t)]

\* With uploads only, all the racing transactions, messages, kills and retries
\* amount to the plain lifecycle: one outcome, revised by an operator at most.
ImplementsLifecycle == Lifecycle!LifeSpec

=============================================================================
