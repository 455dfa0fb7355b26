----------------------------- MODULE WorkProofs -----------------------------
(***************************************************************************)
(* Proofs about the records kept of work: the background tasks (TaskRuns), *)
(* for every number of submissions, documents, workers, cancel requests    *)
(* and retries; and the agent runs with their reviews (AgentReviews), for  *)
(* every set of runs, threads and reviewers, every kind of answer, and     *)
(* with requests that die or not.                                          *)
(***************************************************************************)
EXTENDS TaskRuns, AgentReviews, TLAPS

-----------------------------------------------------------------------------
(* TaskRuns: the sink operators keep rows well formed *)

\* Each mark_* function maps a row to a row.
LEMMA MarkTypes ==
  ASSUME NEW row \in Row, NEW n \in 0 .. MaxRetries
  PROVE  /\ MarkRunning(row, n) \in Row
         /\ MarkSucceeded(row) \in Row
         /\ MarkFailed(row, n) \in Row
         /\ MarkCanceled(row) \in Row
BY TaskAssumption
   DEF MarkRunning, MarkSucceeded, MarkFailed, MarkCanceled, Row, AtLeast,
       Statuses, Terminal, Open

\* The record every SELECT of a missing row stands for is well formed.
LEMMA AbsentType == Absent \in Row
BY TaskAssumption DEF Absent, Row, Statuses, Terminal, Open

\* A transaction that loaded a row leaves a well-formed table.
LEMMA CommittedType ==
  ASSUME rows \in [Calls -> Row], NEW t \in Calls,
         NEW loaded \in Row, NEW new \in Row
  PROVE  Committed(t, loaded, new) \in [Calls -> Row]
<1>1. Flush(rows[t], loaded, new) \in Row
  BY DEF Flush, Row
<1>2. QED BY <1>1 DEF Committed

-----------------------------------------------------------------------------
(* Type correctness *)

\* The initial state is well typed.
LEMMA InitType == Init => TypeOK
BY AbsentType, TaskAssumption
   DEF Init, TypeOK, WorkerState, CallState, CancelState, IdleWorker, Busy, Message

\* Every step of a submission keeps the types.
LEMMA CallType ==
  ASSUME TypeOK, NEW c \in Calls, CallNext(c)
  PROVE  TypeOK'
<1>1. ASSUME NEW d \in Docs, Lookup(c, d) PROVE TypeOK'
  <2>1. \A t \in Registered(d) : t \in Calls /\ rows[t] \in Row
    BY DEF TypeOK, Registered
  <2>2. call' \in [Calls -> CallState]
    BY <1>1, <2>1, AbsentType DEF TypeOK, Lookup, CallState
  <2>3. QED BY <1>1, <2>2 DEF TypeOK, Lookup, Busy
<1>2. CASE Insert(c)
  <2>1. NewRow(call[c].doc) \in Row
    BY AbsentType DEF TypeOK, CallState, NewRow, Row, Statuses, Open
  <2>2. rows' \in [Calls -> Row]
    BY <1>2, <2>1 DEF TypeOK, Insert
  <2>3. call' \in [Calls -> CallState]
    BY <1>2, <2>1 DEF TypeOK, Insert, CallState
  <2>4. QED BY <1>2, <2>2, <2>3 DEF TypeOK, Insert, Busy
<1>3. CASE ReturnCached(c)
  BY <1>3 DEF TypeOK, ReturnCached, CallState, Busy
<1>4. CASE Publish(c)
  BY <1>4, TaskAssumption DEF TypeOK, Publish, CallState, Busy, Message
<1>5. CASE Abandon(c)
  BY <1>5 DEF TypeOK, Abandon, CallState, Busy
<1>6. CASE RunInline(c)
  <2>1. rows[call[c].task] \in Row
    BY DEF TypeOK, CallState
  <2>2. call' \in [Calls -> CallState]
    BY <1>6, <2>1 DEF TypeOK, RunInline, CallState
  <2>3. QED BY <1>6, <2>2 DEF TypeOK, RunInline, Busy
<1>7. CASE StoreInline(c)
  <2>1. /\ call[c].task \in Calls /\ call[c].seen \in Row
        /\ 0 \in 0 .. MaxRetries
    BY TaskAssumption DEF TypeOK, CallState
  <2>2. rows' \in [Calls -> Row]
    BY <1>7, <2>1, MarkTypes, CommittedType DEF TypeOK, StoreInline
  <2>3. call' \in [Calls -> CallState]
    BY <1>7 DEF TypeOK, StoreInline, CallState
  <2>4. QED BY <1>7, <2>2, <2>3 DEF TypeOK, StoreInline, Busy
<1>8. QED
  BY <1>1, <1>2, <1>3, <1>4, <1>5, <1>6, <1>7 DEF CallNext

\* Every step of a worker keeps the types.
LEMMA WorkerType ==
  ASSUME TypeOK, NEW w \in Workers, WorkerStep(w)
  PROVE  TypeOK'
<1>1. Busy(w) /\ worker[w].msg \in Message /\ worker[w].seen \in Row
  BY DEF TypeOK, WorkerStep, Busy, WorkerState, StoreRunning, JobReturns,
         StoreSucceeded, JobExhausted, StoreFailed, JobRetried, JobFailsFast
<1>2. worker[w].msg.task \in Calls /\ worker[w].msg.retries \in 0 .. MaxRetries
  BY <1>1 DEF Message
<1>3. IdleWorker \in WorkerState
  BY AbsentType DEF IdleWorker, WorkerState
<1>4. CASE StoreRunning(w)
  <2>1. rows' \in [Calls -> Row]
    BY <1>1, <1>2, <1>4, MarkTypes, CommittedType DEF TypeOK, StoreRunning
  <2>2. worker' \in [Workers -> WorkerState]
    BY <1>3, <1>4 DEF TypeOK, StoreRunning, WorkerState
  <2>3. \A v \in Workers : worker'[v].pc # "idle" => worker'[v].msg \in Message
    BY <1>1, <1>4 DEF TypeOK, StoreRunning, WorkerState, Busy, IdleWorker
  <2>4. QED BY <1>4, <2>1, <2>2, <2>3 DEF TypeOK, StoreRunning, Busy
<1>5. CASE JobReturns(w)
  BY <1>1, <1>2, <1>5 DEF TypeOK, JobReturns, WorkerState, Busy
<1>6. CASE StoreSucceeded(w)
  <2>1. rows' \in [Calls -> Row]
    BY <1>1, <1>2, <1>6, MarkTypes, CommittedType DEF TypeOK, StoreSucceeded
  <2>2. QED
    BY <1>3, <1>6, <2>1 DEF TypeOK, StoreSucceeded, Busy, IdleWorker
<1>7. CASE JobExhausted(w)
  BY <1>1, <1>2, <1>7 DEF TypeOK, JobExhausted, WorkerState, Busy
<1>8. CASE StoreFailed(w)
  <2>1. rows' \in [Calls -> Row]
    BY <1>1, <1>2, <1>8, MarkTypes, CommittedType DEF TypeOK, StoreFailed
  <2>2. QED
    BY <1>3, <1>8, <2>1 DEF TypeOK, StoreFailed, Busy, IdleWorker
<1>9. CASE JobRetried(w)
  <2>1. [worker[w].msg EXCEPT !.retries = @ + 1] \in Message
    BY <1>1, <1>9, TaskAssumption DEF JobRetried, Exhausted, Message
  <2>2. QED
    BY <1>3, <1>9, <2>1 DEF TypeOK, JobRetried, Busy, IdleWorker
<1>10. CASE JobFailsFast(w)
  BY <1>2, <1>3, <1>10 DEF TypeOK, JobFailsFast, Busy, IdleWorker
<1>11. QED
  BY <1>4, <1>5, <1>6, <1>7, <1>8, <1>9, <1>10 DEF WorkerStep

\* Every step of a cancel request keeps the types.
LEMMA CancelType ==
  ASSUME TypeOK, NEW k \in Cancels, CancelNext(k)
  PROVE  TypeOK'
<1>1. ASSUME NEW t \in Calls, CancelLoad(k, t) PROVE TypeOK'
  BY <1>1 DEF TypeOK, CancelLoad, CancelState, Busy
<1>2. CASE CancelRevoke(k)
  BY <1>2 DEF TypeOK, CancelRevoke, CancelState, Busy
<1>3. CASE CancelStore(k)
  <2>1. cancel[k].task \in Calls /\ cancel[k].seen \in Row
    BY <1>3 DEF TypeOK, CancelStore, CancelState
  <2>2. MarkCanceled(cancel[k].seen) \in Row
    BY <2>1, MarkTypes, TaskAssumption
  <2>3. rows' \in [Calls -> Row]
    BY <1>3, <2>1, <2>2, CommittedType DEF TypeOK, CancelStore
  <2>4. audit' \subseteq AuditRow
    BY <1>3, <2>1, <2>2 DEF TypeOK, CancelStore, AuditRow, Row
  <2>5. cancel' \in [Cancels -> CancelState]
    BY <1>3 DEF TypeOK, CancelStore, CancelState
  <2>6. QED
    BY <1>3, <2>3, <2>4, <2>5 DEF TypeOK, CancelStore, CancelState, Busy
<1>4. CASE CancelAbort(k)
  BY <1>4 DEF TypeOK, CancelAbort, CancelState, Busy
<1>5. QED BY <1>1, <1>2, <1>3, <1>4 DEF CancelNext

\* Every step keeps the types.
LEMMA NextType == TypeOK /\ [Next]_vars => TypeOK'
<1> SUFFICES ASSUME TypeOK, [Next]_vars PROVE TypeOK'
  OBVIOUS
<1>1. ASSUME NEW m \in queue, Discard(m) PROVE TypeOK'
  BY <1>1 DEF TypeOK, Discard, Message, Busy
<1>2. ASSUME NEW w \in Workers, NEW m \in queue, Start(w, m) PROVE TypeOK'
  <2>1. m \in Message /\ rows[m.task] \in Row
    BY DEF TypeOK, Message
  <2>2. QED BY <1>2, <2>1 DEF TypeOK, Start, WorkerState, Busy
<1>3. ASSUME NEW t \in Calls, RevokeDelivered(t) PROVE TypeOK'
  BY <1>3, AbsentType DEF TypeOK, RevokeDelivered, Killed, IdleWorker, WorkerState, Busy
<1>4. CASE NodeRestart
  BY <1>4, AbsentType DEF TypeOK, NodeRestart, IdleWorker, WorkerState, Busy
<1>5. ASSUME NEW old \in SUBSET Calls, Cleanup(old) PROVE TypeOK'
  BY <1>5, AbsentType DEF TypeOK, Cleanup, Busy
<1>6. CASE UNCHANGED vars
  BY <1>6 DEF TypeOK, vars, Busy
<1>7. QED
  BY <1>1, <1>2, <1>3, <1>4, <1>5, <1>6, CallType, WorkerType, CancelType DEF Next

\* Type correctness of the task log.
THEOREM TypeCorrect == Spec => []TypeOK
BY InitType, NextType, PTL DEF Spec

-----------------------------------------------------------------------------
(* What a transaction can do to the table *)

\* The outcomes of the four mark_* functions on a loaded row.
Marked(loaded, n) == {MarkRunning(loaded, n), MarkSucceeded(loaded),
                      MarkFailed(loaded, n), MarkCanceled(loaded)}

\* A mark_* transaction touches one row, keeps its document, and neither creates
\* nor deletes a row, however stale the object it had loaded.
LEMMA CommittedFacts ==
  ASSUME TypeOK, NEW t \in Calls, NEW loaded \in Row, NEW n \in 0 .. MaxRetries,
         NEW new \in Marked(loaded, n), NEW s \in Calls
  PROVE  /\ s # t => Committed(t, loaded, new)[s] = rows[s]
         /\ Committed(t, loaded, new)[s].doc = rows[s].doc
         /\ Committed(t, loaded, new)[s].status = "absent" <=> rows[s].status = "absent"
<1>1. /\ new \in Row
      /\ new.doc = loaded.doc
      /\ new.status = "absent" <=> loaded.status = "absent"
      /\ loaded.status = "absent" => new = loaded
  <2>1. new \in Row
    BY MarkTypes DEF Marked
  <2>2. CASE new = MarkRunning(loaded, n)
    BY <2>1, <2>2 DEF MarkRunning, Row, Terminal
  <2>3. CASE new = MarkSucceeded(loaded)
    BY <2>1, <2>3 DEF MarkSucceeded, Row
  <2>4. CASE new = MarkFailed(loaded, n)
    BY <2>1, <2>4 DEF MarkFailed, Row
  <2>5. CASE new = MarkCanceled(loaded)
    BY <2>1, <2>5 DEF MarkCanceled, Row
  <2>6. QED BY <2>1, <2>2, <2>3, <2>4, <2>5 DEF Marked
<1>2. rows \in [Calls -> Row]
  BY DEF TypeOK
<1>3. QED BY <1>1, <1>2 DEF Committed, Stale, Flush, Row

\* How a step can change a row: registration creates it, the retention job
\* deletes it, and everything else leaves its existence and document alone.
RowStep(t) ==
  \/ /\ Insert(t)
     /\ Registered(call[t].doc) = {}
     /\ rows'[t] = NewRow(call[t].doc)
  \/ rows'[t] = Absent
  \/ /\ rows'[t].doc = rows[t].doc
     /\ rows'[t].status = "absent" <=> rows[t].status = "absent"

LEMMA RowSteps ==
  ASSUME TypeOK, [Next]_vars, NEW t \in Calls
  PROVE  RowStep(t)
<1>1. CASE \E c \in Calls : Insert(c)
  <2>1. PICK c \in Calls : Insert(c)
    BY <1>1
  <2>2. QED BY <2>1 DEF TypeOK, Insert, RowStep
<1>2. CASE \E c \in Calls : StoreInline(c)
  <2>1. PICK c \in Calls : StoreInline(c)
    BY <1>2
  <2>2. /\ call[c].task \in Calls /\ call[c].seen \in Row
        /\ 0 \in 0 .. MaxRetries
    BY TaskAssumption DEF TypeOK, CallState
  <2>3. PICK new \in Marked(call[c].seen, 0) :
          rows' = Committed(call[c].task, call[c].seen, new)
    BY <2>1 DEF StoreInline, Marked
  <2>4. QED BY <2>2, <2>3, CommittedFacts DEF RowStep
<1>3. CASE \E w \in Workers : StoreRunning(w) \/ StoreSucceeded(w) \/ StoreFailed(w)
  <2>1. PICK w \in Workers : StoreRunning(w) \/ StoreSucceeded(w) \/ StoreFailed(w)
    BY <1>3
  <2>2. /\ worker[w].msg.task \in Calls /\ worker[w].seen \in Row
        /\ worker[w].msg.retries \in 0 .. MaxRetries
    BY <2>1 DEF TypeOK, StoreRunning, StoreSucceeded, StoreFailed, Busy,
                WorkerState, Message
  <2>3. PICK new \in Marked(worker[w].seen, worker[w].msg.retries) :
          rows' = Committed(worker[w].msg.task, worker[w].seen, new)
    BY <2>1 DEF StoreRunning, StoreSucceeded, StoreFailed, Marked
  <2>4. QED BY <2>2, <2>3, CommittedFacts DEF RowStep
<1>4. CASE \E k \in Cancels : CancelStore(k)
  <2>1. PICK k \in Cancels : CancelStore(k)
    BY <1>4
  <2>2. /\ cancel[k].task \in Calls /\ cancel[k].seen \in Row
        /\ 0 \in 0 .. MaxRetries
    BY <2>1, TaskAssumption DEF TypeOK, CancelState, CancelStore
  <2>3. PICK new \in Marked(cancel[k].seen, 0) :
          rows' = Committed(cancel[k].task, cancel[k].seen, new)
    BY <2>1 DEF CancelStore, Marked
  <2>4. QED BY <2>2, <2>3, CommittedFacts DEF RowStep
<1>5. CASE \E old \in SUBSET Calls : Cleanup(old)
  BY <1>5 DEF Cleanup, RowStep
<1>6. CASE UNCHANGED rows
  BY <1>6 DEF RowStep
<1>7. QED
  BY <1>1, <1>2, <1>3, <1>4, <1>5, <1>6
  DEF Next, vars, CallNext, WorkerStep, CancelNext, Lookup, ReturnCached, Publish,
      Abandon, RunInline, Discard, Start, JobReturns, JobExhausted, JobRetried,
      JobFailsFast, RevokeDelivered, NodeRestart, CancelLoad, CancelRevoke,
      CancelAbort

\* A purged row never comes back: only a registration in progress creates a row.
THEOREM PurgedStaysPurged == Spec => NoResurrection
<1>1. TypeOK /\ [Next]_vars =>
        [\A t \in Calls : rows[t].status = "absent" /\ rows'[t].status # "absent"
                           => call[t].pc = "insert"]_vars
  <2> SUFFICES ASSUME TypeOK, [Next]_vars, NEW t \in Calls,
                      rows[t].status = "absent", rows'[t].status # "absent"
               PROVE  call[t].pc = "insert"
    OBVIOUS
  <2>1. RowStep(t) /\ rows'[t] # Absent
    BY RowSteps DEF Absent
  <2>2. Insert(t)
    BY <2>1 DEF RowStep
  <2>3. QED BY <2>2 DEF Insert
<1>2. QED BY <1>1, TypeCorrect, PTL DEF Spec, NoResurrection

\* One row per document, although find_existing and the INSERT can interleave.
THEOREM UniqueRows == Spec => []OneRowPerKey
<1>1. Init => OneRowPerKey
  BY DEF Init, OneRowPerKey, Absent
<1>2. TypeOK /\ OneRowPerKey /\ [Next]_vars => OneRowPerKey'
  <2> SUFFICES ASSUME TypeOK, OneRowPerKey, [Next]_vars,
                      NEW s \in Calls, NEW t \in Calls,
                      rows'[s].status # "absent", rows'[t].status # "absent",
                      rows'[s].doc = rows'[t].doc
               PROVE  s = t
    BY DEF OneRowPerKey
  <2>1. RowStep(s) /\ RowStep(t)
    BY RowSteps
  <2>2. CASE Insert(s) /\ Registered(call[s].doc) = {}
             /\ rows'[s] = NewRow(call[s].doc)
    <3>1. rows'[s].doc = call[s].doc
      BY <2>2 DEF NewRow, Absent
    <3>2. s # t => rows'[t] = rows[t]
      BY <2>2 DEF Insert, TypeOK
    <3>3. QED BY <2>2, <3>1, <3>2 DEF Registered
  <2>3. CASE Insert(t) /\ Registered(call[t].doc) = {}
             /\ rows'[t] = NewRow(call[t].doc)
    <3>1. rows'[t].doc = call[t].doc
      BY <2>3 DEF NewRow, Absent
    <3>2. s # t => rows'[s] = rows[s]
      BY <2>3 DEF Insert, TypeOK
    <3>3. QED BY <2>3, <3>1, <3>2 DEF Registered
  <2>4. QED BY <2>1, <2>2, <2>3 DEF RowStep, OneRowPerKey, Absent
<1>3. QED BY <1>1, <1>2, TypeCorrect, PTL DEF Spec

-----------------------------------------------------------------------------
(* One chain of executions per uploaded document *)

\* A step that starts no execution anywhere.
Shrinks ==
  /\ queue' \subseteq queue
  /\ \A w \in Workers, t \in Calls : Executing(w, t)' => Executing(w, t)
  /\ \A c \in Calls, t \in Calls : Dispatching(c, t)' => Dispatching(c, t)

\* With uploads only, find_existing never finds a row.
LEMMA NoHit ==
  ASSUME ChainInv, UniqueUploads, NEW c \in Calls, NEW d \in Docs, Lookup(c, d)
  PROVE  /\ Registered(d) = {}
         /\ call' = [call EXCEPT ![c] = [pc |-> "insert", doc |-> d,
                                         task |-> c, seen |-> Absent]]
         /\ \A o \in Calls : call[o].doc # d
BY DEF ChainInv, Lookup, Registered

\* Four actions hand a task on; every other step starts nothing.
LEMMA Moves ==
  ASSUME TypeOK, ChainInv, UniqueUploads, [Next]_vars
  PROVE  \/ Shrinks
         \/ \E c \in Calls : Insert(c) \/ Publish(c)
         \/ \E w \in Workers : JobRetried(w) \/ \E m \in queue : Start(w, m)
<1>1. ASSUME NEW c \in Calls, NEW d \in Docs, Lookup(c, d) PROVE Shrinks
  <2>1. /\ UNCHANGED <<queue, worker>>
        /\ call' = [call EXCEPT ![c] = [pc |-> "insert", doc |-> d,
                                         task |-> c, seen |-> Absent]]
    BY <1>1, NoHit DEF Lookup
  <2>2. QED BY <2>1 DEF Shrinks, Executing, Dispatching, Busy, TypeOK, CallState
<1>2. ASSUME NEW c \in Calls,
             ReturnCached(c) \/ Abandon(c) \/ RunInline(c) \/ StoreInline(c)
      PROVE  Shrinks
  <2>1. /\ UNCHANGED <<queue, worker>>
        /\ \A o \in Calls : call'[o].task = call[o].task
        /\ \A o \in Calls : o # c => call'[o] = call[o]
        /\ call'[c].pc \in {"dispatch", "storeOk", "storeErr"} => call[c].pc = "dispatch"
    BY <1>2 DEF ReturnCached, Abandon, RunInline, StoreInline, TypeOK, CallState
  <2>2. QED BY <2>1 DEF Shrinks, Executing, Dispatching, Busy
<1>3. ASSUME NEW w \in Workers,
             StoreRunning(w) \/ JobReturns(w) \/ StoreSucceeded(w)
               \/ JobExhausted(w) \/ StoreFailed(w) \/ JobFailsFast(w)
      PROVE  Shrinks
  <2>1. /\ UNCHANGED <<queue, call>>
        /\ \A v \in Workers : v # w => worker'[v] = worker[v]
        /\ worker'[w].pc = "idle" \/ worker'[w].msg = worker[w].msg
        /\ worker[w].pc # "idle"
    BY <1>3 DEF StoreRunning, JobReturns, StoreSucceeded, JobExhausted, StoreFailed,
                JobFailsFast, TypeOK, WorkerState, IdleWorker
  <2>2. QED BY <2>1 DEF Shrinks, Executing, Dispatching, Busy
<1>4. ASSUME NEW m \in queue, Discard(m) PROVE Shrinks
  BY <1>4 DEF Discard, Shrinks, Executing, Dispatching, Busy
<1>5. ASSUME NEW t \in Calls, RevokeDelivered(t) PROVE Shrinks
  BY <1>5 DEF RevokeDelivered, Killed, IdleWorker, Shrinks, Executing, Dispatching, Busy
<1>6. CASE NodeRestart
  BY <1>6 DEF NodeRestart, IdleWorker, Shrinks, Executing, Dispatching, Busy
<1>7. CASE UNCHANGED <<queue, worker, call>>
  BY <1>7 DEF Shrinks, Executing, Dispatching, Busy
<1>8. QED
  BY <1>1, <1>2, <1>3, <1>4, <1>5, <1>6, <1>7
  DEF Next, vars, CallNext, WorkerStep, CancelNext, CancelLoad, CancelRevoke,
      CancelStore, CancelAbort, Cleanup

\* A task lives on in at most one place after every step.
LEMMA OneChainStep ==
  ASSUME TypeOK, ChainInv, UniqueUploads, [Next]_vars
  PROVE  OneChain'
<1>1. CASE Shrinks
  BY <1>1 DEF Shrinks, ChainInv, OneChain
<1>2. ASSUME NEW c \in Calls, Insert(c) PROVE OneChain'
  <2>1. /\ UNCHANGED <<queue, worker>>
        /\ ~Live(c)
        /\ \A o \in Calls : call'[o].task = o
        /\ \A o \in Calls : o # c => call'[o] = call[o]
    BY <1>2 DEF Insert, ChainInv, TypeOK, CallState
  <2>2. QED BY <2>1 DEF ChainInv, OneChain, Live, Executing, Dispatching, Busy
<1>3. ASSUME NEW c \in Calls, Publish(c) PROVE OneChain'
  <2>1. /\ queue' = queue \cup {[from |-> c, task |-> c, retries |-> 0]}
        /\ UNCHANGED worker
        /\ Dispatching(c, c)
        /\ \A o \in Calls : call'[o].task = o
        /\ \A o \in Calls : o # c => call'[o] = call[o]
        /\ call'[c].pc = "done"
    BY <1>3 DEF Publish, Dispatching, ChainInv, TypeOK, CallState
  <2>2. QED BY <2>1 DEF ChainInv, OneChain, Executing, Dispatching, Busy
<1>4. ASSUME NEW w \in Workers, NEW m \in queue, Start(w, m) PROVE OneChain'
  <2>1. /\ queue' = queue \ {m}
        /\ UNCHANGED call
        /\ \A v \in Workers : v # w => worker'[v] = worker[v]
        /\ worker'[w].pc = "starting" /\ worker'[w].msg = m
        /\ worker[w].pc = "idle"
    BY <1>4 DEF Start, TypeOK, WorkerState
  <2>2. QED BY <2>1 DEF ChainInv, OneChain, Executing, Dispatching, Busy
<1>5. ASSUME NEW w \in Workers, JobRetried(w) PROVE OneChain'
  <2> DEFINE n == [worker[w].msg EXCEPT !.retries = @ + 1]
  <2>1. n.task = worker[w].msg.task /\ queue' = queue \cup {n}
    BY <1>5 DEF JobRetried, TypeOK, Busy, Message
  <2> HIDE DEF n
  <2>2. /\ UNCHANGED call
        /\ \A v \in Workers : v # w => worker'[v] = worker[v]
        /\ worker'[w].pc = "idle"
        /\ worker[w].pc # "idle"
    BY <1>5 DEF JobRetried, IdleWorker, TypeOK, WorkerState
  <2>3. Executing(w, n.task)
    BY <2>1, <2>2 DEF Executing, Busy
  <2>4. worker[w].msg.task \in Calls
    BY <2>2 DEF TypeOK, Busy, Message
  <2>5. QED BY <2>1, <2>2, <2>3, <2>4 DEF ChainInv, OneChain, Executing, Dispatching, Busy
<1>6. QED BY <1>1, <1>2, <1>3, <1>4, <1>5, Moves

\* A call that has not registered yet is idle or inserting, and stays new to the
\* rest of the system; its id and document are its own.
LEMMA OwnStep ==
  ASSUME TypeOK, ChainInv, UniqueUploads, [Next]_vars
  PROVE  /\ \A c \in Calls : call'[c].task = c
         /\ \A c \in Calls : call'[c].pc = "idle" => call'[c].doc = NoDoc
         /\ \A c \in Calls : call'[c].pc = "insert" => call'[c].doc # NoDoc
         /\ \A c, o \in Calls :
              call'[c].doc = call'[o].doc /\ call'[c].doc # NoDoc => c = o
         /\ \A c \in Calls : call[c].pc # "idle" => call'[c].doc = call[c].doc
         /\ \A c \in Calls : call'[c].pc \in {"idle", "insert"} =>
                               call[c].pc \in {"idle", "insert"}
<1>1. ASSUME NEW c \in Calls, NEW d \in Docs, Lookup(c, d)
      PROVE  /\ call' = [call EXCEPT ![c] = [pc |-> "insert", doc |-> d,
                                         task |-> c, seen |-> Absent]]
             /\ \A o \in Calls : call[o].doc # d
             /\ d # NoDoc
             /\ call[c].pc = "idle"
  BY <1>1, NoHit, TaskAssumption DEF Lookup
<1>2. ASSUME NEW c \in Calls,
             Insert(c) \/ ReturnCached(c) \/ Publish(c) \/ Abandon(c)
               \/ RunInline(c) \/ StoreInline(c)
      PROVE  /\ \A o \in Calls : o # c => call'[o] = call[o]
             /\ call'[c].task = call[c].task /\ call'[c].doc = call[c].doc
             /\ call'[c].pc \notin {"idle", "insert"}
  BY <1>2 DEF Insert, ReturnCached, Publish, Abandon, RunInline, StoreInline,
              TypeOK, CallState
<1>3. CASE \E c \in Calls, d \in Docs : Lookup(c, d)
  <2>1. PICK c \in Calls, d \in Docs : Lookup(c, d)
    BY <1>3
  <2>2. /\ \A o \in Calls : o # c => call'[o] = call[o]
        /\ call'[c].task = c /\ call'[c].doc = d /\ call'[c].pc = "insert"
    BY <1>1, <2>1 DEF TypeOK, CallState
  <2>3. \A o \in Calls : call[o].doc # d
    BY <1>1, <2>1
  <2>4. d # NoDoc /\ call[c].pc = "idle"
    BY <1>1, <2>1
  <2>5. QED BY <2>2, <2>3, <2>4 DEF ChainInv
<1>4. CASE \E c \in Calls : \/ Insert(c) \/ ReturnCached(c) \/ Publish(c)
                            \/ Abandon(c) \/ RunInline(c) \/ StoreInline(c)
  <2>1. PICK c \in Calls : \/ Insert(c) \/ ReturnCached(c) \/ Publish(c)
                           \/ Abandon(c) \/ RunInline(c) \/ StoreInline(c)
    BY <1>4
  <2>2. \A o \in Calls : call'[o].task = call[o].task /\ call'[o].doc = call[o].doc
    BY <1>2, <2>1
  <2>3. \A o \in Calls : call'[o].pc \in {"idle", "insert"} => call'[o] = call[o]
    BY <1>2, <2>1
  <2>4. QED BY <2>2, <2>3 DEF ChainInv
<1>5. CASE UNCHANGED call
  BY <1>5 DEF ChainInv
<1>6. QED
  BY <1>3, <1>4, <1>5
  DEF Next, vars, CallNext, WorkerStep, CancelNext, Discard, Start, StoreRunning,
      JobReturns, StoreSucceeded, JobExhausted, StoreFailed, JobRetried,
      JobFailsFast, RevokeDelivered, NodeRestart, CancelLoad, CancelRevoke,
      CancelStore, CancelAbort, Cleanup

\* Nothing lives before its registration.
LEMMA NewIsDead ==
  ASSUME TypeOK, ChainInv, UniqueUploads, [Next]_vars,
         NEW t \in Calls, call'[t].pc \in {"idle", "insert"}
  PROVE  ~Live(t)'
<1>1. ~Live(t) /\ call[t].pc \in {"idle", "insert"}
  BY OwnStep DEF ChainInv
<1>2. CASE Shrinks
  BY <1>1, <1>2 DEF Shrinks, Live
<1>3. ASSUME NEW c \in Calls, Insert(c) \/ Publish(c) PROVE ~Live(t)'
  <2>1. /\ UNCHANGED worker
        /\ \A o \in Calls : call'[o].task = o
        /\ \A m \in queue' : m \in queue \/ m.task = c
        /\ call'[c].pc \notin {"idle", "insert"}
    BY <1>3, OwnStep DEF Insert, Publish, TypeOK, CallState, ChainInv
  <2>2. QED BY <1>1, <2>1 DEF Live, Executing, Dispatching, Busy
<1>4. ASSUME NEW w \in Workers, NEW m \in queue, Start(w, m) PROVE ~Live(t)'
  <2>1. /\ UNCHANGED call
        /\ queue' \subseteq queue
        /\ \A v \in Workers : v # w => worker'[v] = worker[v]
        /\ worker'[w].msg = m
    BY <1>4 DEF Start, TypeOK, WorkerState
  <2>2. QED BY <1>1, <2>1 DEF Live, Executing, Dispatching, Busy
<1>5. ASSUME NEW w \in Workers, JobRetried(w) PROVE ~Live(t)'
  <2>1. /\ UNCHANGED call
        /\ \A n \in queue' : n \in queue \/ n.task = worker[w].msg.task
        /\ \A v \in Workers : v # w => worker'[v] = worker[v]
        /\ worker'[w].pc = "idle" /\ worker[w].pc # "idle"
    BY <1>5 DEF JobRetried, IdleWorker, TypeOK, WorkerState, Message, Busy
  <2>2. QED BY <1>1, <2>1 DEF Live, Executing, Dispatching, Busy
<1>6. QED BY <1>2, <1>3, <1>4, <1>5, Moves

\* The strengthened invariant holds initially and is kept by every step.
LEMMA ChainInduction ==
  ASSUME UniqueUploads
  PROVE  /\ Init => ChainInv
         /\ TypeOK /\ ChainInv /\ [Next]_vars => ChainInv'
<1>1. Init => ChainInv
  <2> SUFFICES ASSUME Init PROVE ChainInv
    OBVIOUS
  <2>1. /\ \A t \in Calls : ~Live(t) /\ rows[t].status = "absent"
        /\ \A c \in Calls : call[c].task = c /\ call[c].pc = "idle" /\ call[c].doc = NoDoc
    BY DEF Init, Live, Executing, Dispatching, Busy, Absent, IdleWorker
  <2>2. OneChain
    BY <2>1 DEF OneChain, Live
  <2>3. QED BY <2>1, <2>2 DEF ChainInv
<1>2. ASSUME TypeOK, ChainInv, [Next]_vars PROVE ChainInv'
  <2>1. ASSUME NEW t \in Calls, rows'[t].status # "absent"
        PROVE  /\ rows'[t].doc = call'[t].doc /\ call'[t].doc # NoDoc
               /\ call'[t].pc \notin {"idle", "insert"}
    <3>1. CASE Insert(t) /\ rows'[t] = NewRow(call[t].doc)
      BY <1>2, <3>1, OwnStep DEF NewRow, Absent, Insert, ChainInv, TypeOK, CallState
    <3>2. CASE rows'[t].doc = rows[t].doc /\ rows[t].status # "absent"
      BY <1>2, <3>2, OwnStep DEF ChainInv
    <3>3. QED BY <1>2, <2>1, <3>1, <3>2, RowSteps DEF RowStep, Absent
  <2>2. QED BY <1>2, <2>1, OwnStep, OneChainStep, NewIsDead DEF ChainInv
<1>3. QED BY <1>1, <1>2

\* An uploaded document is never ingested by two executions at a time, whatever
\* is retried, lost, killed, cancelled or purged.
THEOREM SingleExecution == ASSUME UniqueUploads PROVE Spec => []OneChain
<1>1. Spec => []ChainInv
  BY ChainInduction, TypeCorrect, PTL DEF Spec
<1>2. ChainInv => OneChain
  BY DEF ChainInv
<1>3. QED BY <1>1, <1>2, PTL

-----------------------------------------------------------------------------
(* Outcomes: when a row may read failed or succeeded *)

\* A cancel request writes "canceled" or finds the row gone.
LEMMA CancelEffect ==
  ASSUME TypeOK, OutcomeInv, NEW k \in Cancels, CancelStore(k)
  PROVE  LET t == cancel[k].task IN
         /\ t \in Calls
         /\ \A s \in Calls : s # t => rows'[s] = rows[s]
         /\ rows'[t].status = IF rows[t].status = "absent" THEN "absent" ELSE "canceled"
         /\ rows'[t].retries = rows[t].retries
<1> DEFINE t == cancel[k].task
           old == cancel[k].seen
<1>1. /\ t \in Calls /\ old \in Row /\ rows \in [Calls -> Row]
      /\ old.status \in Open
      /\ rows' = Committed(t, old, MarkCanceled(old))
  BY DEF CancelStore, TypeOK, CancelState, OutcomeInv
<1>2. /\ MarkCanceled(old).status = "canceled"
      /\ MarkCanceled(old).retries = old.retries
  BY <1>1 DEF MarkCanceled, Open, Row
<1>3. QED BY <1>1, <1>2 DEF Committed, Stale, Flush, Open, Row

\* What the three worker transactions do to the row of the task they work on.
LEMMA WorkerEffect ==
  ASSUME TypeOK, OutcomeInv, NEW w \in Workers,
         StoreRunning(w) \/ StoreSucceeded(w) \/ StoreFailed(w)
  PROVE  LET t == worker[w].msg.task IN
         /\ t \in Calls
         /\ Executing(w, t)
         /\ \A s \in Calls : s # t => rows'[s] = rows[s]
         /\ rows[t].status = "absent" => rows'[t] = rows[t]
         /\ rows[t].status # "absent" =>
              /\ StoreRunning(w) => rows'[t].status \in {"running", rows[t].status}
              /\ StoreSucceeded(w) => rows'[t].status = "succeeded"
              /\ StoreFailed(w) => /\ rows'[t].status = "failed"
                                   /\ rows'[t].retries = MaxRetries
<1> DEFINE t == worker[w].msg.task
           old == worker[w].seen
           n == worker[w].msg.retries
<1>1. /\ t \in Calls /\ old \in Row /\ rows \in [Calls -> Row]
      /\ n \in 0 .. MaxRetries
      /\ worker[w].pc \in {"starting", "succeeding", "failing"}
      /\ Executing(w, t)
  BY DEF StoreRunning, StoreSucceeded, StoreFailed, TypeOK, WorkerState, Message,
         Busy, Executing
<1>2. /\ old.status \notin {"succeeded", "failed"}
      /\ old.status = "absent" => rows[t].status = "absent"
      /\ old.status # "absent" /\ rows[t].status # "absent" =>
           rows[t].retries = old.retries
  BY <1>1 DEF OutcomeInv, LoadedByWorker
<1>3. CASE StoreRunning(w)
  <2>1. rows' = Committed(t, old, MarkRunning(old, n))
    BY <1>3 DEF StoreRunning
  <2>2. MarkRunning(old, n).status \in {"running", old.status}
    BY <1>1 DEF MarkRunning, Row
  <2>3. ~StoreSucceeded(w) /\ ~StoreFailed(w)
    BY <1>3 DEF StoreRunning, StoreSucceeded, StoreFailed
  <2>4. old.status = "absent" => MarkRunning(old, n) = old
    BY DEF MarkRunning
  <2>5. QED BY <1>1, <1>2, <2>1, <2>2, <2>3, <2>4 DEF Committed, Stale, Flush, Row
<1>4. CASE StoreSucceeded(w)
  <2>1. rows' = Committed(t, old, MarkSucceeded(old))
    BY <1>4 DEF StoreSucceeded
  <2>2. old.status # "absent" => MarkSucceeded(old).status = "succeeded"
    BY <1>1 DEF MarkSucceeded, Row
  <2>3. ~StoreRunning(w) /\ ~StoreFailed(w)
    BY <1>4 DEF StoreRunning, StoreSucceeded, StoreFailed
  <2>4. old.status = "absent" => MarkSucceeded(old) = old
    BY DEF MarkSucceeded
  <2>5. QED BY <1>1, <1>2, <2>1, <2>2, <2>3, <2>4 DEF Committed, Stale, Flush, Row
<1>5. CASE StoreFailed(w)
  <2>1. rows' = Committed(t, old, MarkFailed(old, n))
    BY <1>5 DEF StoreFailed
  <2>2. n = MaxRetries
    BY <1>1, <1>5, TaskAssumption DEF OutcomeInv, StoreFailed, Exhausted
  <2>3. old.status # "absent" => /\ MarkFailed(old, n).status = "failed"
                                 /\ MarkFailed(old, n).retries = MaxRetries
    BY <1>1, <2>2, TaskAssumption DEF MarkFailed, AtLeast, Row
  <2>4. ~StoreRunning(w) /\ ~StoreSucceeded(w)
    BY <1>5 DEF StoreRunning, StoreSucceeded, StoreFailed
  <2>5. old.status = "absent" => MarkFailed(old, n) = old
    BY DEF MarkFailed
  <2>6. QED BY <1>1, <1>2, <2>1, <2>3, <2>4, <2>5 DEF Committed, Stale, Flush, Row
<1>6. QED BY <1>3, <1>4, <1>5

\* Who may change the row of t, in broker mode.
RowWriters(t) ==
  \/ rows'[t] = rows[t]
  \/ rows'[t] = Absent /\ UNCHANGED worker
  \/ Insert(t) /\ rows'[t] = NewRow(call[t].doc)
  \/ \E w \in Workers :
       worker[w].msg.task = t
         /\ (StoreRunning(w) \/ StoreSucceeded(w) \/ StoreFailed(w))
  \/ \E k \in Cancels : cancel[k].task = t /\ CancelStore(k)

LEMMA RowWritersStep ==
  ASSUME TypeOK, OutcomeInv, [Next]_vars, NEW t \in Calls
  PROVE  RowWriters(t)
<1>1. ASSUME NEW c \in Calls, Insert(c) PROVE RowWriters(t)
  BY <1>1 DEF Insert, TypeOK, RowWriters
<1>2. ASSUME NEW w \in Workers, StoreRunning(w) \/ StoreSucceeded(w) \/ StoreFailed(w)
      PROVE  RowWriters(t)
  BY <1>2, WorkerEffect DEF RowWriters
<1>3. ASSUME NEW k \in Cancels, CancelStore(k) PROVE RowWriters(t)
  BY <1>3, CancelEffect DEF RowWriters
<1>4. ASSUME NEW old \in SUBSET Calls, Cleanup(old) PROVE RowWriters(t)
  BY <1>4 DEF Cleanup, RowWriters
<1>5. ASSUME NEW c \in Calls PROVE ~StoreInline(c)
  BY DEF StoreInline, OutcomeInv
<1>6. CASE UNCHANGED rows
  BY <1>6 DEF RowWriters
<1>7. QED
  BY <1>1, <1>2, <1>3, <1>4, <1>5, <1>6
  DEF Next, vars, CallNext, WorkerStep, CancelNext, Lookup, ReturnCached, Publish,
      Abandon, RunInline, Discard, Start, JobReturns, JobExhausted, JobRetried,
      JobFailsFast, RevokeDelivered, NodeRestart, CancelLoad, CancelRevoke,
      CancelAbort

\* Only a registration brings a task to life.
LEMMA LiveStep ==
  ASSUME TypeOK, ChainInv, UniqueUploads, [Next]_vars, NEW t \in Calls, Live(t)'
  PROVE  Live(t) \/ Insert(t)
<1>1. CASE Shrinks
  BY <1>1 DEF Shrinks, Live
<1>2. ASSUME NEW c \in Calls, Insert(c) PROVE Live(t) \/ Insert(t)
  <2>1. /\ UNCHANGED <<queue, worker>>
        /\ \A o \in Calls : o # c => call'[o] = call[o]
        /\ call'[c].task = c
    BY <1>2, OwnStep DEF Insert, TypeOK, CallState
  <2>2. QED BY <1>2, <2>1 DEF Live, Executing, Dispatching, Busy
<1>3. ASSUME NEW c \in Calls, Publish(c) PROVE Live(t)
  <2>1. /\ UNCHANGED worker
        /\ \A m \in queue' : m \in queue \/ m.task = c
        /\ \A o \in Calls : o # c => call'[o] = call[o]
        /\ call'[c].task = c
        /\ Dispatching(c, c)
    BY <1>3, OwnStep DEF Publish, Dispatching, TypeOK, CallState, ChainInv
  <2>2. QED BY <2>1 DEF Live, Executing, Dispatching, Busy
<1>4. ASSUME NEW w \in Workers, NEW m \in queue, Start(w, m) PROVE Live(t)
  <2>1. /\ UNCHANGED call
        /\ queue' \subseteq queue
        /\ \A v \in Workers : v # w => worker'[v] = worker[v]
        /\ worker'[w].msg = m
    BY <1>4 DEF Start, TypeOK, WorkerState
  <2>2. QED BY <2>1 DEF Live, Executing, Dispatching, Busy
<1>5. ASSUME NEW w \in Workers, JobRetried(w) PROVE Live(t)
  <2>1. /\ UNCHANGED call
        /\ \A n \in queue' : n \in queue \/ n.task = worker[w].msg.task
        /\ \A v \in Workers : v # w => worker'[v] = worker[v]
        /\ worker'[w].pc = "idle" /\ worker[w].pc # "idle"
    BY <1>5 DEF JobRetried, IdleWorker, TypeOK, WorkerState, Message, Busy
  <2>2. QED BY <2>1 DEF Live, Executing, Dispatching, Busy
<1>6. QED BY <1>1, <1>2, <1>3, <1>4, <1>5, Moves

\* A worker that stores an outcome was the last place its task was in.
LEMMA StoreEnds ==
  ASSUME TypeOK, ChainInv, NEW w \in Workers, StoreSucceeded(w) \/ StoreFailed(w),
         NEW t \in Calls, worker[w].msg.task = t
  PROVE  ~Live(t)'
<1>1. /\ UNCHANGED <<queue, call>>
      /\ \A v \in Workers : v # w => worker'[v] = worker[v]
      /\ worker'[w].pc = "idle"
      /\ Executing(w, t)
  BY DEF StoreSucceeded, StoreFailed, IdleWorker, TypeOK, WorkerState, Message,
         Executing, Busy
<1>2. QED BY <1>1 DEF Live, ChainInv, OneChain, Executing, Dispatching, Busy

\* The prefix of a step's effect the outcome invariants need, row by row.
LEMMA OutcomeStep ==
  ASSUME TypeOK, ChainInv, OutcomeInv, UniqueUploads, [Next]_vars, NEW t \in Calls
  PROVE  /\ rows'[t].status \in {"succeeded", "failed"} => ~Live(t)'
         /\ rows'[t].status = "failed" => rows'[t].retries = MaxRetries
<1>1. CASE rows'[t] = rows[t]
  <2>1. rows[t].status \in {"succeeded", "failed"} => ~Live(t) /\ ~Insert(t)
    BY DEF OutcomeInv, OutcomeEndsChain, ChainInv, Insert
  <2>2. QED BY <1>1, <2>1, LiveStep DEF OutcomeInv, FailedMeansExhausted
<1>2. CASE rows'[t] = Absent
  BY <1>2 DEF Absent
<1>3. CASE rows'[t] = NewRow(call[t].doc)
  BY <1>3 DEF NewRow, Absent
<1>4. ASSUME NEW w \in Workers, worker[w].msg.task = t, StoreRunning(w)
      PROVE  rows'[t].status \notin {"succeeded", "failed"}
  <2>1. rows[t].status \notin {"succeeded", "failed"}
    BY <1>4, WorkerEffect DEF OutcomeInv, OutcomeEndsChain, Live
  <2>2. rows'[t].status \in {"running", "absent", rows[t].status}
    BY <1>4, WorkerEffect
  <2>3. QED BY <2>1, <2>2
<1>5. ASSUME NEW w \in Workers, worker[w].msg.task = t,
             StoreSucceeded(w) \/ StoreFailed(w)
      PROVE  /\ ~Live(t)'
             /\ rows'[t].status = "failed" => rows'[t].retries = MaxRetries
  BY <1>5, WorkerEffect, StoreEnds
<1>6. ASSUME NEW k \in Cancels, cancel[k].task = t, CancelStore(k)
      PROVE  rows'[t].status \in {"absent", "canceled"}
  BY <1>6, CancelEffect
<1>7. CASE \E w \in Workers :
       worker[w].msg.task = t
         /\ (StoreRunning(w) \/ StoreSucceeded(w) \/ StoreFailed(w))
  <2>1. PICK w \in Workers :
       worker[w].msg.task = t
         /\ (StoreRunning(w) \/ StoreSucceeded(w) \/ StoreFailed(w))
    BY <1>7
  <2>2. CASE StoreRunning(w)
    BY <1>4, <2>1, <2>2
  <2>3. CASE StoreSucceeded(w) \/ StoreFailed(w)
    BY <1>5, <2>1, <2>3
  <2>4. QED BY <2>1, <2>2, <2>3
<1>8. CASE \E k \in Cancels : cancel[k].task = t /\ CancelStore(k)
  BY <1>6, <1>8
<1>9. QED
  BY <1>1, <1>2, <1>3, <1>7, <1>8, RowWritersStep DEF RowWriters

\* In broker mode nothing runs inside a call, and a call dispatches only what it
\* registered itself.
LEMMA CallStateStep ==
  ASSUME TypeOK, ChainInv, OutcomeInv, UniqueUploads, ~Eager, [Next]_vars,
         NEW c \in Calls
  PROVE  /\ call'[c].pc \notin {"storeOk", "storeErr"}
         /\ call'[c].pc = "dispatch" => call'[c].seen.status = "pending"
<1>1. ASSUME NEW o \in Calls, NEW d \in Docs, Lookup(o, d)
      PROVE  call'[c] = call[c] \/ call'[c].pc = "insert"
  BY <1>1, NoHit DEF TypeOK
<1>2. ASSUME NEW o \in Calls, Insert(o)
      PROVE  call'[c] = call[c] \/ call'[c].pc = "error" \/
             (call'[c].pc = "dispatch" /\ call'[c].seen.status = "pending")
  <2>1. NewRow(call[o].doc).status = "pending"
    BY DEF NewRow, Absent
  <2>2. CASE o # c
    BY <1>2, <2>2 DEF Insert, TypeOK
  <2>3. CASE o = c
    BY <1>2, <2>1, <2>3 DEF Insert, TypeOK, CallState
  <2>4. QED BY <2>2, <2>3
<1>3. ASSUME NEW o \in Calls,
             ReturnCached(o) \/ Publish(o) \/ Abandon(o) \/ RunInline(o) \/ StoreInline(o)
      PROVE  call'[c] = call[c] \/ call'[c].pc \in {"done", "error"}
  <2>1. ~RunInline(o) /\ ~StoreInline(o)
    BY DEF RunInline, StoreInline, OutcomeInv
  <2>2. QED BY <1>3, <2>1 DEF ReturnCached, Publish, Abandon, TypeOK, CallState
<1>4. CASE UNCHANGED call
  BY <1>4 DEF OutcomeInv
<1>5. CASE \E o \in Calls : CallNext(o)
  BY <1>1, <1>2, <1>3, <1>5 DEF CallNext, OutcomeInv
<1>6. QED
  BY <1>4, <1>5
  DEF Next, vars, WorkerStep, CancelNext, Discard, Start, StoreRunning, JobReturns,
      StoreSucceeded, JobExhausted, StoreFailed, JobRetried, JobFailsFast,
      RevokeDelivered, NodeRestart, CancelLoad, CancelRevoke, CancelStore,
      CancelAbort, Cleanup

\* A cancel request that goes ahead loaded an open row.
LEMMA CancelStateStep ==
  ASSUME TypeOK, OutcomeInv, [Next]_vars, NEW k \in Cancels,
         cancel'[k].pc \in {"loaded", "revoked"}
  PROVE  cancel'[k].seen.status \in Open
<1>1. ASSUME NEW j \in Cancels, NEW t \in Calls, CancelLoad(j, t)
      PROVE  cancel'[k] = cancel[k] \/ cancel'[k].seen.status \in Open
  BY <1>1 DEF CancelLoad, TypeOK
<1>2. ASSUME NEW j \in Cancels, CancelRevoke(j)
      PROVE  cancel'[k].seen = cancel[k].seen /\ cancel[k].pc \in {"loaded", "revoked"}
  BY <1>2 DEF CancelRevoke, TypeOK, CancelState
<1>3. ASSUME NEW j \in Cancels, CancelStore(j) \/ CancelAbort(j)
      PROVE  cancel'[k] = cancel[k]
  BY <1>3 DEF CancelStore, CancelAbort, TypeOK, CancelState
<1>4. CASE UNCHANGED cancel
  BY <1>4 DEF OutcomeInv
<1>5. CASE \E j \in Cancels : CancelNext(j)
  BY <1>1, <1>2, <1>3, <1>5 DEF CancelNext, OutcomeInv
<1>6. QED
  BY <1>4, <1>5
  DEF Next, vars, CallNext, WorkerStep, Lookup, Insert, ReturnCached, Publish,
      Abandon, RunInline, StoreInline, Discard, Start, StoreRunning, JobReturns,
      StoreSucceeded, JobExhausted, StoreFailed, JobRetried, JobFailsFast,
      RevokeDelivered, NodeRestart, Cleanup

\* Where a worker's local state comes from.
LEMMA WorkerStateStep ==
  ASSUME TypeOK, [Next]_vars, NEW w \in Workers,
         worker'[w].pc \in {"starting", "succeeding", "failing"}
  PROVE  \/ /\ worker'[w] = worker[w]
            /\ ~(StoreRunning(w) \/ StoreSucceeded(w) \/ StoreFailed(w))
         \/ /\ worker'[w].seen = rows[worker'[w].msg.task]
            /\ Live(worker'[w].msg.task)
            /\ worker'[w].msg \in Message
            /\ UNCHANGED rows
            /\ worker'[w].pc = "failing" => worker'[w].msg.retries >= MaxRetries
<1> DEFINE P == \/ /\ worker'[w] = worker[w]
                   /\ ~(StoreRunning(w) \/ StoreSucceeded(w) \/ StoreFailed(w))
                \/ /\ worker'[w].seen = rows[worker'[w].msg.task]
                   /\ Live(worker'[w].msg.task)
                   /\ worker'[w].msg \in Message
                   /\ UNCHANGED rows
                   /\ worker'[w].pc = "failing" => worker'[w].msg.retries >= MaxRetries
<1>1. ASSUME NEW v \in Workers, NEW m \in queue, Start(v, m) PROVE P
  <2>1. CASE v = w
    <3>1. /\ worker'[w].msg = m /\ worker'[w].seen = rows[m.task]
          /\ worker'[w].pc = "starting" /\ UNCHANGED rows
      BY <1>1, <2>1 DEF Start, TypeOK
    <3>2. Live(m.task) /\ m \in Message
      BY DEF Live, TypeOK
    <3>3. QED BY <3>1, <3>2
  <2>2. CASE v # w
    BY <1>1, <2>2 DEF Start, TypeOK, StoreRunning, StoreSucceeded, StoreFailed
  <2>3. QED BY <2>1, <2>2
<1>2. ASSUME NEW v \in Workers, JobReturns(v) \/ JobExhausted(v) PROVE P
  <2>1. CASE v = w
    <3>1. /\ worker'[w].msg = worker[w].msg
          /\ worker'[w].seen = rows[worker[w].msg.task]
          /\ worker'[w].pc = "failing" => worker[w].msg.retries >= MaxRetries
          /\ UNCHANGED rows
      BY <1>2, <2>1 DEF JobReturns, JobExhausted, Exhausted, TypeOK, WorkerState
    <3>2. Live(worker[w].msg.task) /\ worker[w].msg \in Message
      BY <1>2, <2>1 DEF Live, Executing, Busy, JobReturns, JobExhausted, TypeOK
    <3>3. QED BY <3>1, <3>2
  <2>2. CASE v # w
    <3>1. worker'[w] = worker[w] /\ worker'[v] # worker[v]
      BY <1>2, <2>2 DEF JobReturns, JobExhausted, TypeOK, WorkerState
    <3>2. StoreRunning(w) \/ StoreSucceeded(w) \/ StoreFailed(w) => worker'[v] = worker[v]
      BY <2>2 DEF StoreRunning, StoreSucceeded, StoreFailed, TypeOK
    <3>3. QED BY <3>1, <3>2
  <2>3. QED BY <2>1, <2>2
<1>3. ASSUME NEW v \in Workers, StoreRunning(v) \/ StoreSucceeded(v) \/ StoreFailed(v)
      PROVE  P
  <2>1. v # w => worker'[w] = worker[w]
    BY <1>3 DEF StoreRunning, StoreSucceeded, StoreFailed, TypeOK
  <2>2. worker'[v].pc \in {"idle", "running"}
    BY <1>3 DEF StoreRunning, StoreSucceeded, StoreFailed, IdleWorker, TypeOK, WorkerState
  <2>3. v # w
    BY <2>2
  <2>4. StoreRunning(w) \/ StoreSucceeded(w) \/ StoreFailed(w) => worker'[v] = worker[v]
    BY <2>3 DEF StoreRunning, StoreSucceeded, StoreFailed, TypeOK
  <2>5. worker[v].pc \in {"starting", "succeeding", "failing"}
    BY <1>3 DEF StoreRunning, StoreSucceeded, StoreFailed
  <2>6. QED BY <2>1, <2>2, <2>3, <2>4, <2>5
<1>4. ASSUME NEW v \in Workers, JobRetried(v) \/ JobFailsFast(v) PROVE P
  <2>1. worker'[w] = worker[w]
    BY <1>4 DEF JobRetried, JobFailsFast, IdleWorker, TypeOK
  <2>2. QED BY <1>4, <2>1 DEF StoreRunning, StoreSucceeded, StoreFailed, JobRetried,
                              JobFailsFast, IdleWorker, TypeOK, WorkerState
<1>5. CASE (\E t \in Calls : RevokeDelivered(t)) \/ NodeRestart
  BY <1>5 DEF RevokeDelivered, NodeRestart, Killed, IdleWorker, StoreRunning,
              StoreSucceeded, StoreFailed
<1>6. CASE UNCHANGED worker
  BY <1>6 DEF StoreRunning, StoreSucceeded, StoreFailed, IdleWorker, TypeOK, WorkerState
<1>7. QED
  BY <1>1, <1>2, <1>3, <1>4, <1>5, <1>6
  DEF Next, vars, CallNext, WorkerStep, CancelNext, Lookup, Insert, ReturnCached,
      Publish, Abandon, RunInline, StoreInline, Discard, CancelLoad, CancelRevoke,
      CancelStore, CancelAbort, Cleanup

\* What a worker loaded differs from the table by a cancellation or purge at most.
LEMMA LoadedStep ==
  ASSUME TypeOK, ChainInv, OutcomeInv, [Next]_vars, NEW w \in Workers
  PROVE  /\ LoadedByWorker(w)'
         /\ worker'[w].pc = "failing" => Exhausted(w)'
<1> SUFFICES ASSUME worker'[w].pc \in {"starting", "succeeding", "failing"}
             PROVE  /\ LoadedByWorker(w)'
                    /\ worker'[w].pc = "failing" => Exhausted(w)'
  BY DEF LoadedByWorker
<1> DEFINE t == worker'[w].msg.task
<1>1. CASE /\ worker'[w] = worker[w]
           /\ ~(StoreRunning(w) \/ StoreSucceeded(w) \/ StoreFailed(w))
  <2>1. Executing(w, t) /\ t \in Calls
    BY <1>1 DEF Executing, Busy, TypeOK, Message
  <2>2. ~Insert(t)
    BY <2>1 DEF ChainInv, Live, Insert
  <2>3. ASSUME NEW v \in Workers, worker[v].msg.task = t,
               StoreRunning(v) \/ StoreSucceeded(v) \/ StoreFailed(v)
        PROVE  FALSE
    BY <1>1, <2>1, <2>3, WorkerEffect DEF ChainInv, OneChain
  <2>4. \/ rows'[t] = rows[t]
        \/ rows'[t] = Absent
        \/ \E k \in Cancels : cancel[k].task = t /\ CancelStore(k)
    BY <2>1, <2>2, <2>3, RowWritersStep DEF RowWriters
  <2>5. \/ rows'[t].status = "absent"
        \/ rows[t].status # "absent" /\ rows'[t].retries = rows[t].retries
    BY <2>1, <2>4, CancelEffect DEF Absent
  <2>6. /\ worker[w].seen.status \notin {"succeeded", "failed"}
        /\ worker[w].seen.status = "absent" => rows'[t].status = "absent"
        /\ worker[w].seen.status # "absent" /\ rows'[t].status # "absent" =>
             rows'[t].retries = worker[w].seen.retries
        /\ worker[w].pc = "failing" => worker[w].msg.retries >= MaxRetries
    BY <1>1, <2>5 DEF OutcomeInv, LoadedByWorker, Exhausted
  <2>7. QED BY <1>1, <2>6 DEF LoadedByWorker, Exhausted
<1>2. CASE /\ worker'[w].seen = rows[t]
           /\ Live(t)
           /\ worker'[w].msg \in Message
           /\ UNCHANGED rows
           /\ worker'[w].pc = "failing" => worker'[w].msg.retries >= MaxRetries
  <2>1. t \in Calls
    BY <1>2 DEF Message
  <2>2. rows[t].status \notin {"succeeded", "failed"}
    BY <1>2, <2>1 DEF OutcomeInv, OutcomeEndsChain
  <2>3. QED BY <1>2, <2>2 DEF LoadedByWorker, Exhausted
<1>3. QED BY <1>1, <1>2, WorkerStateStep

\* OutcomeInv is inductive relative to the chain invariant.
LEMMA OutcomeInduction ==
  ASSUME UniqueUploads, ~Eager
  PROVE  /\ Init => OutcomeInv
         /\ TypeOK /\ ChainInv /\ OutcomeInv /\ [Next]_vars => OutcomeInv'
<1>1. ASSUME Init PROVE OutcomeInv
  <2>1. /\ \A t \in Calls : rows[t].status = "absent"
        /\ \A c \in Calls : call[c].pc = "idle"
        /\ \A w \in Workers : worker[w].pc = "idle"
        /\ \A k \in Cancels : cancel[k].pc = "idle"
    BY <1>1 DEF Init, Absent, IdleWorker
  <2>2. QED BY <2>1 DEF OutcomeInv, LoadedByWorker, OutcomeEndsChain,
                        FailedMeansExhausted, Open
<1>2. ASSUME TypeOK, ChainInv, OutcomeInv, [Next]_vars PROVE OutcomeInv'
  <2>1. /\ \A c \in Calls : call'[c].pc \notin {"storeOk", "storeErr"}
        /\ \A c \in Calls : call'[c].pc = "dispatch" => call'[c].seen.status = "pending"
    BY <1>2, CallStateStep
  <2>2. /\ \A w \in Workers : LoadedByWorker(w)'
        /\ \A w \in Workers : worker'[w].pc = "failing" => Exhausted(w)'
    BY <1>2, LoadedStep
  <2>3. \A k \in Cancels : cancel'[k].pc \in {"loaded", "revoked"} =>
          cancel'[k].seen.status \in Open
    BY <1>2, CancelStateStep
  <2>4. OutcomeEndsChain' /\ FailedMeansExhausted'
    BY <1>2, OutcomeStep DEF OutcomeEndsChain, FailedMeansExhausted
  <2>5. QED BY <2>1, <2>2, <2>3, <2>4 DEF OutcomeInv
<1>3. QED BY <1>1, <1>2

\* The whole strengthened invariant, in broker mode with uploads only.
LEMMA OutcomeCorrect ==
  ASSUME UniqueUploads, ~Eager PROVE Spec => [](ChainInv /\ OutcomeInv)
BY ChainInduction, OutcomeInduction, TypeCorrect, PTL DEF Spec

\* A row reads failed only after its last retry, in spite of cancellations.
THEOREM FailedIsExhausted ==
  ASSUME UniqueUploads, ~Eager PROVE Spec => []FailedMeansExhausted
<1>1. OutcomeInv => FailedMeansExhausted
  BY DEF OutcomeInv
<1>2. QED BY <1>1, OutcomeCorrect, PTL

\* Once a row reads succeeded or failed nothing is left that works on the task.
THEOREM OutcomeIsFinal ==
  ASSUME UniqueUploads, ~Eager PROVE Spec => []OutcomeEndsChain
<1>1. OutcomeInv => OutcomeEndsChain
  BY DEF OutcomeInv
<1>2. QED BY <1>1, OutcomeCorrect, PTL

-----------------------------------------------------------------------------
(* An open row is accounted for, in every mode *)

\* The status a transaction leaves: what it changed, or what others wrote meanwhile.
LEMMA CommittedStatus ==
  ASSUME TypeOK, NEW t \in Calls, NEW loaded \in Row, NEW new \in Row
  PROVE  Committed(t, loaded, new)[t].status =
           IF Stale(t, loaded) THEN "absent"
           ELSE IF new.status = loaded.status THEN rows[t].status ELSE new.status
BY DEF Committed, Stale, Flush, TypeOK

\* An outcome is stored over an open row: whoever loaded it open leaves it closed.
LEMMA OutcomeCloses ==
  ASSUME TypeOK, NEW t \in Calls, NEW loaded \in Row, NEW n \in 0 .. MaxRetries,
         NEW new \in {MarkSucceeded(loaded), MarkFailed(loaded, n), MarkCanceled(loaded)},
         Committed(t, loaded, new)[t].status \in Open
  PROVE  rows[t].status \in Open /\ loaded.status \notin Open
<1>1. /\ new \in Row
      /\ new.status \in {loaded.status, "succeeded", "failed", "canceled"}
      /\ loaded.status \in Open => new.status \in {"succeeded", "failed", "canceled"}
  <2>1. new \in Row
    BY MarkTypes
  <2>2. CASE new = MarkSucceeded(loaded)
    BY <2>1, <2>2 DEF MarkSucceeded, Open, Row
  <2>3. CASE new = MarkFailed(loaded, n)
    BY <2>1, <2>3 DEF MarkFailed, Open, Row
  <2>4. CASE new = MarkCanceled(loaded)
    BY <2>1, <2>4 DEF MarkCanceled, Open, Row
  <2>5. QED BY <2>1, <2>2, <2>3, <2>4
<1>2. QED BY <1>1, CommittedStatus DEF Open

\* The task a call works on is its own until it has looked for another.
LEMMA OwnTask ==
  ASSUME TypeOK, SettlesInv, [Next]_vars, NEW c \in Calls,
         call'[c].pc \in {"idle", "insert"}
  PROVE  call'[c].task = c
<1>1. ASSUME NEW o \in Calls, NEW d \in Docs, Lookup(o, d) PROVE call'[c].task = c
  <2>1. CASE o # c
    BY <1>1, <2>1 DEF Lookup, TypeOK, SettlesInv
  <2>2. CASE o = c
    BY <1>1, <2>2 DEF Lookup, TypeOK, CallState
  <2>3. QED BY <2>1, <2>2
<1>2. ASSUME NEW o \in Calls,
             Insert(o) \/ ReturnCached(o) \/ Publish(o) \/ Abandon(o)
               \/ RunInline(o) \/ StoreInline(o)
      PROVE  call'[c].task = c
  <2>1. /\ \A x \in Calls : x # o => call'[x] = call[x]
        /\ call'[o].pc \notin {"idle", "insert"}
    BY <1>2 DEF Insert, ReturnCached, Publish, Abandon, RunInline, StoreInline,
                TypeOK, CallState
  <2>2. QED BY <2>1 DEF SettlesInv
<1>3. CASE UNCHANGED call
  BY <1>3 DEF SettlesInv
<1>4. QED
  BY <1>1, <1>2, <1>3
  DEF Next, vars, CallNext, WorkerStep, CancelNext, Discard, Start, StoreRunning,
      JobReturns, StoreSucceeded, JobExhausted, StoreFailed, JobRetried,
      JobFailsFast, RevokeDelivered, NodeRestart, CancelLoad, CancelRevoke,
      CancelStore, CancelAbort, Cleanup

\* What a call and a worker contribute to AtWork.
CallAtWork(c, t) ==
  /\ call[c].task = t
  /\ \/ call[c].pc = "dispatch" /\ ~Cached(c)
     \/ call[c].pc \in {"storeOk", "storeErr"} /\ call[c].seen.status \in Open

WorkerAtWork(w, t) ==
  /\ Executing(w, t)
  /\ \/ worker[w].pc \in {"starting", "running"}
     \/ worker[w].pc \in {"succeeding", "failing"} /\ worker[w].seen.status \in Open

Settles(t) == rows[t].status \in Open => t \in lost \cup failedFast \/ AtWork(t)

\* Those who do not move stay at work.
LEMMA OthersAtWork ==
  ASSUME NEW t
  PROVE  /\ AtWork(t) <=> \/ \E m \in queue : m.task = t
                          \/ \E c \in Calls : CallAtWork(c, t)
                          \/ \E w \in Workers : WorkerAtWork(w, t)
         /\ AtWork(t)' <=> \/ \E m \in queue' : m.task = t
                           \/ \E c \in Calls : CallAtWork(c, t)'
                           \/ \E w \in Workers : WorkerAtWork(w, t)'
         /\ \A c \in Calls : call'[c] = call[c] => (CallAtWork(c, t)' <=> CallAtWork(c, t))
         /\ \A w \in Workers : worker'[w] = worker[w] =>
              (WorkerAtWork(w, t)' <=> WorkerAtWork(w, t))
<1>1. /\ AtWork(t) <=> \/ \E m \in queue : m.task = t
                       \/ \E c \in Calls : CallAtWork(c, t)
                       \/ \E w \in Workers : WorkerAtWork(w, t)
      /\ AtWork(t)' <=> \/ \E m \in queue' : m.task = t
                        \/ \E c \in Calls : CallAtWork(c, t)'
                        \/ \E w \in Workers : WorkerAtWork(w, t)'
  BY DEF AtWork, CallAtWork, WorkerAtWork
<1>2. \A c \in Calls : call'[c] = call[c] => (CallAtWork(c, t)' <=> CallAtWork(c, t))
  BY DEF CallAtWork, Cached
<1>3. \A w \in Workers : worker'[w] = worker[w] =>
        (WorkerAtWork(w, t)' <=> WorkerAtWork(w, t))
  BY DEF WorkerAtWork, Executing, Busy
<1>4. QED BY <1>1, <1>2, <1>3

\* The submissions.
LEMMA CallSettles ==
  ASSUME TypeOK, SettlesInv, NEW c \in Calls, CallNext(c), NEW t \in Calls
  PROVE  Settles(t)'
<1> USE DEF Settles
<1>0. /\ Settles(t) /\ UNCHANGED worker /\ UNCHANGED failedFast /\ lost \subseteq lost'
      /\ queue \subseteq queue'
      /\ \A o \in Calls : o # c => call'[o] = call[o]
  BY DEF SettlesInv, CallNext, Lookup, Insert, ReturnCached, Publish, Abandon, RunInline,
         StoreInline, TypeOK
<1>1. ASSUME rows'[t].status \in Open => rows[t].status \in Open,
             CallAtWork(c, t) => CallAtWork(c, t)' \/ (\E m \in queue' : m.task = t)
                                   \/ t \in lost'
      PROVE  Settles(t)'
  BY <1>0, <1>1, OthersAtWork
<1>2. ASSUME NEW d \in Docs, Lookup(c, d) PROVE Settles(t)'
  <2>1. ~CallAtWork(c, t) /\ rows' = rows
    BY <1>2 DEF Lookup, CallAtWork
  <2>2. QED BY <1>1, <2>1
<1>3. CASE Insert(c)
  <2>1. ~CallAtWork(c, t)
    BY <1>3 DEF Insert, CallAtWork
  <2>2. CASE rows'[t] = rows[t]
    BY <1>1, <2>1, <2>2
  <2>3. CASE rows'[t] # rows[t]
    <3>1. /\ t = c
          /\ call'[c] = [pc |-> "dispatch", doc |-> call[c].doc, task |-> call[c].task,
                         seen |-> NewRow(call[c].doc)]
      BY <1>3, <2>3 DEF Insert, TypeOK
    <3>2. call[c].task = c
      BY <1>3 DEF Insert, SettlesInv
    <3>3. call'[c].seen.status = "pending" /\ call'[c].pc = "dispatch" /\ call'[c].task = t
      <4>1. NewRow(call[c].doc).status = "pending"
        BY DEF NewRow, Absent
      <4>2. QED BY <3>1, <3>2, <4>1
    <3>4. CallAtWork(c, t)'
      BY <3>3 DEF CallAtWork, Cached
    <3>5. QED BY <3>4, OthersAtWork
  <2>4. QED BY <2>2, <2>3
<1>4. CASE ReturnCached(c)
  <2>1. ~CallAtWork(c, t) /\ rows' = rows
    BY <1>4 DEF ReturnCached, CallAtWork
  <2>2. QED BY <1>1, <2>1
<1>5. CASE Publish(c)
  <2> DEFINE m == [from |-> c, task |-> call[c].task, retries |-> 0]
  <2>1. m \in queue' /\ m.task = call[c].task /\ rows' = rows
    BY <1>5 DEF Publish
  <2>2. CallAtWork(c, t) => \E n \in queue' : n.task = t
    BY <2>1 DEF CallAtWork
  <2>3. QED BY <1>1, <2>1, <2>2
<1>6. CASE Abandon(c)
  <2>1. rows' = rows /\ (CallAtWork(c, t) => t \in lost')
    BY <1>6 DEF Abandon, CallAtWork
  <2>2. QED BY <1>1, <2>1
<1>7. CASE RunInline(c)
  <2>1. /\ rows' = rows
        /\ call'[c].pc \in {"storeOk", "storeErr"} /\ call'[c].task = call[c].task
        /\ call'[c].seen = rows[call[c].task]
    BY <1>7 DEF RunInline, TypeOK
  <2>2. rows[t].status \in Open /\ CallAtWork(c, t) => CallAtWork(c, t)'
    BY <2>1 DEF CallAtWork
  <2>3. QED BY <1>0, <2>1, <2>2, OthersAtWork
<1>8. CASE StoreInline(c)
  <2>1. PICK s \in Calls, old \in Row : s = call[c].task /\ old = call[c].seen
    BY DEF TypeOK, CallState
  <2>2. 0 \in 0 .. MaxRetries
    BY TaskAssumption
  <2>3. PICK new \in {MarkSucceeded(old), MarkFailed(old, 0), MarkCanceled(old)} :
          rows' = Committed(s, old, new)
    BY <1>8, <2>1 DEF StoreInline
  <2>4. CASE t # s
    <3>1. rows'[t] = rows[t]
      BY <2>2, <2>3, <2>4, CommittedFacts DEF Marked
    <3>2. ~CallAtWork(c, t)
      BY <2>1, <2>4 DEF CallAtWork
    <3>3. QED BY <1>1, <3>1, <3>2
  <2>5. CASE t = s
    <3>1. SUFFICES ASSUME rows'[t].status \in Open PROVE Settles(t)'
      OBVIOUS
    <3>2. rows[t].status \in Open /\ old.status \notin Open
      BY <2>2, <2>3, <2>5, <3>1, OutcomeCloses
    <3>3. ~CallAtWork(c, t)
      BY <1>8, <2>1, <3>2 DEF CallAtWork, StoreInline
    <3>4. QED BY <1>1, <3>2, <3>3
  <2>6. QED BY <2>4, <2>5
<1>9. QED
  BY <1>2, <1>3, <1>4, <1>5, <1>6, <1>7, <1>8 DEF CallNext

\* The workers.
LEMMA WorkerSettles ==
  ASSUME TypeOK, SettlesInv, NEW w \in Workers,
         WorkerStep(w) \/ \E m \in queue : Start(w, m), NEW t \in Calls
  PROVE  Settles(t)'
<1> USE DEF Settles
<1>0. /\ Settles(t) /\ UNCHANGED call /\ UNCHANGED lost /\ failedFast \subseteq failedFast'
      /\ \A v \in Workers : v # w => worker'[v] = worker[v]
  BY DEF SettlesInv, WorkerStep, Start, StoreRunning, JobReturns, StoreSucceeded,
         JobExhausted, StoreFailed, JobRetried, JobFailsFast, TypeOK
<1>1. ASSUME rows'[t].status \in Open => rows[t].status \in Open, queue \subseteq queue',
             WorkerAtWork(w, t) => WorkerAtWork(w, t)' \/ (\E m \in queue' : m.task = t)
                                     \/ t \in failedFast'
      PROVE  Settles(t)'
  BY <1>0, <1>1, OthersAtWork
<1>2. ASSUME NEW m \in queue, Start(w, m) PROVE Settles(t)'
  <2>1. /\ rows' = rows /\ queue' = queue \ {m} /\ ~WorkerAtWork(w, t)
        /\ worker'[w].pc = "starting" /\ worker'[w].msg = m
    BY <1>2 DEF Start, TypeOK, WorkerAtWork
  <2>2. m.task = t => WorkerAtWork(w, t)'
    BY <2>1 DEF WorkerAtWork, Executing, Busy
  <2>3. QED BY <1>0, <2>1, <2>2, OthersAtWork
<1>3. ASSUME worker[w].pc \in {"starting", "succeeding", "failing"}
      PROVE  /\ worker[w].msg \in Message /\ Busy(w)
             /\ worker[w].msg.task \in Calls /\ worker[w].msg.retries \in 0 .. MaxRetries
             /\ worker[w].seen \in Row
  BY <1>3 DEF TypeOK, WorkerState, Busy, Message
<1>4. CASE StoreRunning(w)
  <2>1. PICK s \in Calls, old \in Row, n \in 0 .. MaxRetries :
          s = worker[w].msg.task /\ old = worker[w].seen /\ n = worker[w].msg.retries
    BY <1>3, <1>4 DEF StoreRunning
  <2>2. /\ rows' = Committed(s, old, MarkRunning(old, n)) /\ queue' = queue
        /\ worker' = [worker EXCEPT ![w] = IF MarkRunning(old, n) # old /\ Stale(s, old)
                                           THEN IdleWorker ELSE [@ EXCEPT !.pc = "running"]]
    BY <1>4, <2>1 DEF StoreRunning
  <2>3. CASE t # s
    <3>1. rows'[t] = rows[t]
      BY <2>1, <2>2, <2>3, CommittedFacts DEF Marked
    <3>2. ~WorkerAtWork(w, t)
      BY <2>1, <2>3 DEF WorkerAtWork, Executing
    <3>3. QED BY <1>1, <2>2, <3>1, <3>2
  <2>4. CASE t = s
    <3>1. SUFFICES ASSUME rows'[t].status \in Open PROVE AtWork(t)'
      OBVIOUS
    <3>2. ~Stale(s, old)
      <4>1. MarkRunning(old, n) \in Row
        BY MarkTypes
      <4>2. Stale(s, old) => rows'[t].status = "absent"
        BY <2>2, <2>4, <4>1, CommittedStatus
      <4>3. QED BY <3>1, <4>2 DEF Open
    <3>3. worker'[w].pc = "running" /\ worker'[w].msg = worker[w].msg
      BY <2>2, <3>2 DEF TypeOK, WorkerState
    <3>4. WorkerAtWork(w, t)'
      BY <2>1, <2>4, <3>3 DEF WorkerAtWork, Executing, Busy
    <3>5. QED BY <3>4, OthersAtWork
  <2>5. QED BY <2>3, <2>4
<1>5. CASE JobReturns(w) \/ JobExhausted(w)
  <2>1. /\ rows' = rows /\ queue' = queue
        /\ worker'[w].pc \in {"succeeding", "failing"} /\ worker'[w].msg = worker[w].msg
        /\ worker'[w].seen = rows[worker[w].msg.task]
    BY <1>5 DEF JobReturns, JobExhausted, TypeOK, WorkerState
  <2>2. rows[t].status \in Open /\ WorkerAtWork(w, t) => WorkerAtWork(w, t)'
    BY <2>1 DEF WorkerAtWork, Executing, Busy
  <2>3. QED BY <1>0, <2>1, <2>2, OthersAtWork
<1>6. CASE StoreSucceeded(w) \/ StoreFailed(w)
  <2>1. PICK s \in Calls, old \in Row, n \in 0 .. MaxRetries :
          s = worker[w].msg.task /\ old = worker[w].seen /\ n = worker[w].msg.retries
    BY <1>3, <1>6 DEF StoreSucceeded, StoreFailed
  <2>2. PICK new \in {MarkSucceeded(old), MarkFailed(old, n), MarkCanceled(old)} :
          rows' = Committed(s, old, new) /\ queue' = queue
    BY <1>6, <2>1 DEF StoreSucceeded, StoreFailed
  <2>3. CASE t # s
    <3>1. rows'[t] = rows[t]
      BY <2>1, <2>2, <2>3, CommittedFacts DEF Marked
    <3>2. ~WorkerAtWork(w, t)
      BY <2>1, <2>3 DEF WorkerAtWork, Executing
    <3>3. QED BY <1>1, <2>2, <3>1, <3>2
  <2>4. CASE t = s
    <3>1. SUFFICES ASSUME rows'[t].status \in Open PROVE Settles(t)'
      OBVIOUS
    <3>2. rows[t].status \in Open /\ old.status \notin Open
      BY <2>2, <2>4, <3>1, OutcomeCloses
    <3>3. ~WorkerAtWork(w, t)
      BY <1>6, <2>1, <3>2 DEF WorkerAtWork, StoreSucceeded, StoreFailed
    <3>4. QED BY <1>1, <2>2, <3>2, <3>3
  <2>5. QED BY <2>3, <2>4
<1>7. CASE JobRetried(w)
  <2> DEFINE m == [worker[w].msg EXCEPT !.retries = @ + 1]
  <2>1. m \in queue' /\ queue \subseteq queue' /\ rows' = rows
    BY <1>7 DEF JobRetried
  <2>2. m.task = worker[w].msg.task
    BY <1>7 DEF JobRetried, TypeOK, Busy, Message
  <2>3. WorkerAtWork(w, t) => \E n \in queue' : n.task = t
    BY <2>1, <2>2 DEF WorkerAtWork, Executing
  <2>4. QED BY <1>1, <2>1, <2>3
<1>8. CASE JobFailsFast(w)
  <2>1. rows' = rows /\ queue' = queue /\ (WorkerAtWork(w, t) => t \in failedFast')
    BY <1>8 DEF JobFailsFast, WorkerAtWork, Executing
  <2>2. QED BY <1>1, <2>1
<1>9. QED
  BY <1>2, <1>4, <1>5, <1>6, <1>7, <1>8 DEF WorkerStep

\* What loses an execution says so, and the others start none and end none.
LEMMA RestSettles ==
  ASSUME TypeOK, SettlesInv, NEW t \in Calls,
         \/ \E m \in queue : Discard(m)
         \/ \E s \in Calls : RevokeDelivered(s)
         \/ NodeRestart
         \/ \E k \in Cancels : CancelNext(k)
         \/ \E old \in SUBSET Calls : Cleanup(old)
         \/ UNCHANGED vars
  PROVE  Settles(t)'
<1> USE DEF Settles
<1>0. Settles(t)
  BY DEF SettlesInv
<1>1. ASSUME rows'[t].status \in Open => rows[t].status \in Open,
             UNCHANGED call, lost \subseteq lost', failedFast' = failedFast,
             \A m \in queue : m \in queue' \/ m.task \in lost',
             \A w \in Workers : WorkerAtWork(w, t) => worker'[w] = worker[w] \/ t \in lost'
      PROVE  Settles(t)'
  BY <1>0, <1>1, OthersAtWork
<1>2. ASSUME NEW m \in queue, Discard(m) PROVE Settles(t)'
  <2>1. /\ queue' = queue \ {m} /\ lost' = lost \cup {m.task}
        /\ UNCHANGED <<rows, worker, call, failedFast>>
    BY <1>2 DEF Discard
  <2>2. QED BY <1>1, <2>1
<1>3. ASSUME NEW s \in Calls, RevokeDelivered(s) PROVE Settles(t)'
  <2>1. /\ UNCHANGED <<rows, queue, call, failedFast>> /\ lost \subseteq lost'
        /\ \A w \in Workers : WorkerAtWork(w, t) => worker'[w] = worker[w] \/ t \in lost'
    BY <1>3 DEF RevokeDelivered, Killed, WorkerAtWork, Executing
  <2>2. QED BY <1>1, <2>1
<1>4. CASE NodeRestart
  <2>1. /\ UNCHANGED <<rows, queue, call, failedFast>> /\ lost \subseteq lost'
        /\ \A w \in Workers : WorkerAtWork(w, t) => t \in lost'
    BY <1>4 DEF NodeRestart, WorkerAtWork
  <2>2. QED BY <1>1, <2>1
<1>5. ASSUME NEW k \in Cancels, CancelNext(k) PROVE Settles(t)'
  <2>1. UNCHANGED <<queue, worker, call, lost, failedFast>>
    BY <1>5 DEF CancelNext, CancelLoad, CancelRevoke, CancelStore, CancelAbort
  <2>2. CASE UNCHANGED rows
    BY <1>1, <2>1, <2>2
  <2>3. CASE CancelStore(k)
    <3>1. PICK s \in Calls, old \in Row : s = cancel[k].task /\ old = cancel[k].seen
      BY <2>3 DEF CancelStore, TypeOK, CancelState
    <3>2. rows' = Committed(s, old, MarkCanceled(old)) /\ 0 \in 0 .. MaxRetries
      BY <2>3, <3>1, TaskAssumption DEF CancelStore
    <3>3. rows'[t].status \in Open => rows[t].status \in Open
      <4>1. CASE t # s
        BY <3>1, <3>2, <4>1, CommittedFacts DEF Marked
      <4>2. CASE t = s
        BY <3>2, <4>2, OutcomeCloses
      <4>3. QED BY <4>1, <4>2
    <3>4. QED BY <1>1, <2>1, <3>3
  <2>4. QED BY <1>5, <2>2, <2>3 DEF CancelNext, CancelLoad, CancelRevoke, CancelAbort
<1>6. ASSUME NEW old \in SUBSET Calls, Cleanup(old) PROVE Settles(t)'
  <2>1. UNCHANGED <<queue, worker, call, lost, failedFast>>
    BY <1>6 DEF Cleanup
  <2>2. rows'[t].status \in Open => rows[t].status \in Open
    BY <1>6 DEF Cleanup, Absent, Open
  <2>3. QED BY <1>1, <2>1, <2>2
<1>7. CASE UNCHANGED vars
  BY <1>1, <1>7 DEF vars
<1>8. QED BY <1>2, <1>3, <1>4, <1>5, <1>6, <1>7

\* A row stuck in pending or running had an execution lost or failed fast: with a broker
\* or without, for uploads and for documents submitted again, whatever is canceled.
THEOREM StuckIsAccounted == Spec => []StuckOnlyIfLost
<1>1. Init => SettlesInv
  BY DEF Init, SettlesInv, Absent, Open
<1>2. TypeOK /\ SettlesInv /\ [Next]_vars => SettlesInv'
  <2> SUFFICES ASSUME TypeOK, SettlesInv, [Next]_vars PROVE SettlesInv'
    OBVIOUS
  <2>1. \A c \in Calls : call'[c].pc \in {"idle", "insert"} => call'[c].task = c
    BY OwnTask
  <2>2. ASSUME NEW t \in Calls PROVE Settles(t)'
    BY CallSettles, WorkerSettles, RestSettles DEF Next
  <2>3. QED BY <2>1, <2>2 DEF SettlesInv, Settles
<1>3. SettlesInv => StuckOnlyIfLost
  <2> SUFFICES ASSUME SettlesInv, NEW t \in Calls, rows[t].status \in Open, ~Live(t)
               PROVE  t \in lost \cup failedFast
    BY DEF StuckOnlyIfLost
  <2>1. ~AtWork(t)
    BY DEF AtWork, Live, Dispatching
  <2>2. QED BY <2>1 DEF SettlesInv
<1>4. QED BY <1>1, <1>2, <1>3, TypeCorrect, PTL DEF Spec

-----------------------------------------------------------------------------
(* TaskRuns implements TaskLifecycle *)

AllInv == TypeOK /\ ChainInv /\ OutcomeInv /\ ProgressInv

\* With accurate loads the three worker transactions do exactly what they say.
LEMMA ExactEffect ==
  ASSUME AllInv, NEW w \in Workers,
         StoreRunning(w) \/ StoreSucceeded(w) \/ StoreFailed(w),
         NEW t \in Calls, worker[w].msg.task = t, ~Canceled(t)
  PROVE  /\ Executing(w, t)
         /\ worker[w].msg.retries \in 0 .. MaxRetries
         /\ \A s \in Calls : s # t => rows'[s] = rows[s]
         /\ StoreRunning(w) => /\ Ready(t, worker[w].msg.retries)
                               /\ rows'[t].status = "running"
                               /\ rows'[t].retries = worker[w].msg.retries
                               /\ worker' = [worker EXCEPT ![w].pc = "running"]
         /\ StoreSucceeded(w) => /\ rows[t].status = "running"
                                 /\ rows'[t].status = "succeeded"
                                 /\ rows'[t].retries = rows[t].retries
         /\ StoreFailed(w) => /\ rows[t].status = "running"
                              /\ rows'[t].status = "failed"
                              /\ rows'[t].retries = rows[t].retries
                              /\ rows[t].retries = MaxRetries
<1> DEFINE n == worker[w].msg.retries
<1>0. /\ rows[t] \in Row /\ rows \in [Calls -> Row]
      /\ n \in 0 .. MaxRetries
      /\ worker[w].pc \in {"starting", "succeeding", "failing"}
      /\ Executing(w, t) /\ Busy(w)
  BY DEF StoreRunning, StoreSucceeded, StoreFailed, AllInv, TypeOK, WorkerState,
         Message, Busy, Executing
<1>1. /\ rows[t] \in Row /\ rows \in [Calls -> Row]
      /\ n \in 0 .. MaxRetries
      /\ worker[w].seen = rows[t]
      /\ Executing(w, t) /\ Busy(w)
  BY <1>0 DEF AllInv, ProgressInv
<1>2. ~Stale(t, rows[t])
  BY DEF Stale
<1>3. CASE StoreRunning(w)
  <2>1. Ready(t, n) /\ worker[w].pc = "starting"
    BY <1>1, <1>3 DEF AllInv, ProgressInv, StoreRunning
  <2>2. /\ rows' = Committed(t, rows[t], MarkRunning(rows[t], n))
        /\ worker' = [worker EXCEPT ![w].pc = "running"]
    BY <1>1, <1>2, <1>3 DEF StoreRunning, AllInv, TypeOK, WorkerState
  <2>3. /\ MarkRunning(rows[t], n).status = "running"
        /\ MarkRunning(rows[t], n).retries = n
    BY <1>1, <2>1, TaskAssumption DEF MarkRunning, AtLeast, Ready, Row, Terminal
  <2>4. rows'[t].status = "running" /\ rows'[t].retries = n
    BY <1>1, <1>2, <2>2, <2>3 DEF Committed, Flush, Row
  <2>5. \A s \in Calls : s # t => rows'[s] = rows[s]
    BY <1>1, <1>2, <2>2 DEF Committed
  <2>6. ~StoreSucceeded(w) /\ ~StoreFailed(w)
    BY <2>1 DEF StoreSucceeded, StoreFailed
  <2>7. QED BY <1>1, <2>1, <2>2, <2>4, <2>5, <2>6
<1>4. CASE StoreSucceeded(w)
  <2>1. Ongoing(t, n) /\ worker[w].pc = "succeeding"
    BY <1>1, <1>4 DEF AllInv, ProgressInv, StoreSucceeded
  <2>2. rows' = Committed(t, rows[t], MarkSucceeded(rows[t]))
    BY <1>1, <1>4 DEF StoreSucceeded
  <2>3. /\ MarkSucceeded(rows[t]).status = "succeeded"
        /\ MarkSucceeded(rows[t]).retries = rows[t].retries
    BY <1>1, <2>1 DEF MarkSucceeded, Ongoing, Row
  <2>4. rows'[t].status = "succeeded" /\ rows'[t].retries = rows[t].retries
    BY <1>1, <1>2, <2>2, <2>3 DEF Committed, Flush, Row
  <2>5. \A s \in Calls : s # t => rows'[s] = rows[s]
    BY <1>1, <1>2, <2>2 DEF Committed
  <2>6. ~StoreRunning(w) /\ ~StoreFailed(w)
    BY <2>1 DEF StoreRunning, StoreFailed
  <2>7. QED BY <1>1, <2>1, <2>4, <2>5, <2>6 DEF Ongoing
<1>5. CASE StoreFailed(w)
  <2>1. Ongoing(t, n) /\ worker[w].pc = "failing" /\ n = MaxRetries
    <3>1. worker[w].pc = "failing"
      BY <1>5 DEF StoreFailed
    <3>2. Ongoing(t, n)
      BY <1>1, <3>1 DEF AllInv, ProgressInv
    <3>3. n >= MaxRetries
      BY <3>1 DEF AllInv, OutcomeInv, Exhausted
    <3>4. QED BY <1>1, <3>1, <3>2, <3>3, TaskAssumption
  <2>2. rows' = Committed(t, rows[t], MarkFailed(rows[t], n))
    BY <1>1, <1>5 DEF StoreFailed
  <2>3. /\ MarkFailed(rows[t], n).status = "failed"
        /\ MarkFailed(rows[t], n).retries = n
    BY <1>1, <2>1, TaskAssumption DEF MarkFailed, AtLeast, Ongoing, Row
  <2>4. rows'[t].status = "failed" /\ rows'[t].retries = n
    BY <1>1, <1>2, <2>2, <2>3 DEF Committed, Flush, Row
  <2>5. \A s \in Calls : s # t => rows'[s] = rows[s]
    BY <1>1, <1>2, <2>2 DEF Committed
  <2>6. ~StoreRunning(w) /\ ~StoreSucceeded(w)
    BY <2>1 DEF StoreRunning, StoreSucceeded
  <2>7. QED BY <1>1, <2>1, <2>4, <2>5, <2>6 DEF Ongoing
<1>6. QED BY <1>3, <1>4, <1>5

\* Only registration, the worker's three transactions, a cancel request and the
\* retention job write the table.
TableStep ==
  \/ UNCHANGED rows
  \/ \E c \in Calls : Insert(c) /\ rows' = [rows EXCEPT ![c] = NewRow(call[c].doc)]
  \/ \E w \in Workers : StoreRunning(w) \/ StoreSucceeded(w) \/ StoreFailed(w)
  \/ \E k \in Cancels : CancelStore(k)
  \/ \E old \in SUBSET Calls : Cleanup(old)

LEMMA TableSteps ==
  ASSUME AllInv, [Next]_vars
  PROVE  TableStep
<1>1. \A c \in Calls : Insert(c) => UNCHANGED rows \/
         rows' = [rows EXCEPT ![c] = NewRow(call[c].doc)]
  BY DEF Insert
<1>2. \A c \in Calls : ~StoreInline(c)
  BY DEF StoreInline, AllInv, OutcomeInv
<1>3. QED
  BY <1>1, <1>2
  DEF TableStep, Next, vars, CallNext, WorkerStep, CancelNext, Lookup, ReturnCached,
      Publish, Abandon, RunInline, Discard, Start, JobReturns, JobExhausted,
      JobRetried, JobFailsFast, RevokeDelivered, NodeRestart, CancelLoad, CancelRevoke,
      CancelAbort

\* Unless it was canceled, a row in use is neither created nor purged under the one
\* who uses it.
LEMMA InUse ==
  ASSUME AllInv, NEW t \in Calls, Live(t), ~Canceled(t)
  PROVE  /\ rows[t].status \in Open
         /\ \A old \in SUBSET Calls : Cleanup(old) => rows'[t] = rows[t]
<1>1. rows[t].status \in Open
  <2>1. CASE \E m \in queue : m.task = t
    BY <2>1 DEF AllInv, ProgressInv, Ready, Open
  <2>2. CASE \E w \in Workers : Executing(w, t)
    BY <2>2 DEF AllInv, ProgressInv, Ready, Ongoing, Open, Executing, Busy, TypeOK,
                WorkerState
  <2>3. CASE \E c \in Calls : Dispatching(c, t)
    BY <2>3 DEF AllInv, ProgressInv, ChainInv, OutcomeInv, Ready, Open, Dispatching
  <2>4. QED BY <2>1, <2>2, <2>3 DEF Live
<1>2. QED BY <1>1 DEF Cleanup, Prunable, Terminal, Open

\* A submission is remembered by its call, and by nothing else than registration.
LEMMA SeenStep ==
  ASSUME AllInv, UniqueUploads, ~Eager, [Next]_vars, NEW t \in Calls
  PROVE  \/ call'[t].seen.status = "absent" <=> call[t].seen.status = "absent"
         \/ Insert(t) /\ Registered(call[t].doc) = {}
<1>1. ASSUME NEW c \in Calls, NEW d \in Docs, Lookup(c, d)
      PROVE  call'[t].seen.status = "absent" <=> call[t].seen.status = "absent"
  <2>1. call[c].seen.status = "absent"
    BY <1>1 DEF Lookup, AllInv, ProgressInv
  <2>2. call' = [call EXCEPT ![c] = [pc |-> "insert", doc |-> d,
                                     task |-> c, seen |-> Absent]]
    BY <1>1, NoHit DEF AllInv
  <2>3. QED BY <2>1, <2>2 DEF Absent, AllInv, TypeOK
<1>2. ASSUME NEW c \in Calls, Insert(c), ~(c = t /\ Registered(call[t].doc) = {})
      PROVE  call'[t].seen = call[t].seen
  <2>1. CASE c # t
    BY <1>2, <2>1 DEF Insert, AllInv, TypeOK
  <2>2. CASE c = t
    BY <1>2, <2>2 DEF Insert, AllInv, TypeOK, CallState
  <2>3. QED BY <2>1, <2>2
<1>3. ASSUME NEW c \in Calls,
             ReturnCached(c) \/ Publish(c) \/ Abandon(c) \/ RunInline(c) \/ StoreInline(c)
      PROVE  call'[t].seen = call[t].seen
  <2>1. ~RunInline(c) /\ ~StoreInline(c)
    BY DEF RunInline, StoreInline, AllInv, OutcomeInv
  <2>2. QED BY <1>3, <2>1 DEF ReturnCached, Publish, Abandon, AllInv, TypeOK, CallState
<1>4. CASE \E c \in Calls : CallNext(c)
  BY <1>1, <1>2, <1>3, <1>4 DEF CallNext
<1>5. CASE UNCHANGED call
  BY <1>5
<1>6. QED
  BY <1>4, <1>5
  DEF Next, vars, WorkerStep, CancelNext, Discard, Start, StoreRunning, JobReturns,
      StoreSucceeded, JobExhausted, StoreFailed, JobRetried, JobFailsFast,
      RevokeDelivered, NodeRestart, CancelLoad, CancelRevoke, CancelStore,
      CancelAbort, Cleanup

\* A cancellation is logged together with the row it cancels.
LEMMA CancelIsLogged ==
  ASSUME AllInv, NEW k \in Cancels, CancelStore(k), NEW t \in Calls, cancel[k].task = t
  PROVE  /\ \A s \in Calls : s # t => (Canceled(s)' <=> Canceled(s))
         /\ rows[t].status # "absent" => Canceled(t)'
         /\ rows[t].status = "absent" => audit' = audit
<1> DEFINE entry == [task |-> t, found |-> cancel[k].seen.status,
                     previous_status |-> MarkCanceled(cancel[k].seen).status]
<1>1. cancel[k].seen.status # "absent"
  BY DEF CancelStore, AllInv, OutcomeInv, Open
<1>2. Stale(t, cancel[k].seen) <=> rows[t].status = "absent"
  BY <1>1 DEF Stale
<1>3. audit' = IF rows[t].status = "absent" THEN audit ELSE audit \cup {entry}
  BY <1>2 DEF CancelStore
<1>4. entry.task = t
  OBVIOUS
<1> HIDE DEF entry
<1>5. QED BY <1>3, <1>4 DEF Canceled

\* Nothing takes a cancellation back, and nothing else adds one.
LEMMA CanceledStep ==
  ASSUME AllInv, [Next]_vars
  PROVE  /\ \A t \in Calls : Canceled(t) => Canceled(t)'
         /\ audit' = audit \/ \E k \in Cancels : CancelStore(k)
<1>1. audit' = audit \/ \E k \in Cancels : CancelStore(k)
  BY DEF Next, vars, CallNext, WorkerStep, CancelNext, Lookup, Insert, ReturnCached,
         Publish, Abandon, RunInline, StoreInline, Discard, Start, StoreRunning,
         JobReturns, StoreSucceeded, JobExhausted, StoreFailed, JobRetried, JobFailsFast,
         RevokeDelivered, NodeRestart, CancelLoad, CancelRevoke, CancelAbort, Cleanup
<1>2. audit \subseteq audit'
  BY <1>1 DEF CancelStore
<1>3. QED BY <1>1, <1>2 DEF Canceled

\* What the lifecycle shows of a task depends on the existence of its row, on its
\* cancellation and, without one, on status and retries.
LEMMA StageKept ==
  ASSUME AllInv, UniqueUploads, ~Eager, [Next]_vars, NEW t \in Calls,
         rows'[t].status = "absent" <=> rows[t].status = "absent",
         Canceled(t)' <=> Canceled(t),
         \/ Canceled(t)
         \/ rows'[t].status = rows[t].status /\ rows'[t].retries = rows[t].retries
  PROVE  Stage(t)' = Stage(t) /\ Shown(t)' = Shown(t)
<1>1. ASSUME Insert(t), Registered(call[t].doc) = {} PROVE FALSE
  <2>1. rows[t].status = "absent"
    BY <1>1 DEF Insert, AllInv, ChainInv
  <2>2. rows'[t] = NewRow(call[t].doc)
    BY <1>1 DEF Insert, AllInv, TypeOK
  <2>3. NewRow(call[t].doc).status = "pending"
    BY DEF NewRow, Absent
  <2>4. QED BY <2>1, <2>2, <2>3
<1>2. call'[t].seen.status = "absent" <=> call[t].seen.status = "absent"
  BY <1>1, SeenStep
<1>3. Shown(t)' = Shown(t)
  BY DEF Shown
<1>4. Stage(t) = IF rows[t].status = "absent"
                 THEN IF call[t].seen.status = "absent" THEN "none" ELSE "purged"
                 ELSE IF Canceled(t) THEN "canceled" ELSE rows[t].status
  BY DEF Stage
<1>5. Stage(t)' = IF rows'[t].status = "absent"
                  THEN IF call'[t].seen.status = "absent" THEN "none" ELSE "purged"
                  ELSE IF Canceled(t)' THEN "canceled" ELSE rows'[t].status
  BY DEF Stage
<1>6. QED BY <1>2, <1>3, <1>4, <1>5

\* Every step is a step of the lifecycle, or invisible there.
LEMMA LifecycleStep ==
  ASSUME AllInv, UniqueUploads, ~Eager, [Next]_vars
  PROVE  [Lifecycle!LifeNext]_<<[t \in Calls |-> Stage(t)],
                                [t \in Calls |-> Shown(t)]>>
<1> DEFINE life == [t \in Calls |-> Stage(t)]
           attempt == [t \in Calls |-> Shown(t)]
           Still(t) == Stage(t)' = Stage(t) /\ Shown(t)' = Shown(t)
<1>1. \A t \in Calls : rows[t] \in Row
  BY DEF AllInv, TypeOK
<1>2. \A t \in Calls : rows'[t].status # "absent" =>
        Stage(t)' = IF Canceled(t)' THEN "canceled" ELSE rows'[t].status
  BY DEF Stage
<1>3. \A t \in Calls : rows[t].status # "absent" =>
        Stage(t) = IF Canceled(t) THEN "canceled" ELSE rows[t].status
  BY DEF Stage
<1>4. ASSUME NEW t \in Calls, rows'[t] = rows[t], Canceled(t)' <=> Canceled(t)
      PROVE  Still(t)
  BY <1>4, StageKept
<1>5. ASSUME \A t \in Calls : Still(t)
      PROVE  UNCHANGED <<life, attempt>>
  BY <1>5
<1>6. CASE UNCHANGED rows /\ UNCHANGED audit
  <2>1. \A t \in Calls : Still(t)
    BY <1>4, <1>6 DEF Canceled
  <2>2. QED BY <1>5, <2>1
<1>7. ASSUME NEW c \in Calls, Insert(c),
             rows' = [rows EXCEPT ![c] = NewRow(call[c].doc)]
      PROVE  Lifecycle!Submit(c)
  <2>0. /\ ~Canceled(c) /\ ~Canceled(c)'
        /\ \A s \in Calls : Canceled(s)' <=> Canceled(s)
    <3>1. audit' = audit /\ ~Canceled(c)
      BY <1>7 DEF Insert, AllInv, ProgressInv
    <3>2. QED BY <3>1 DEF Canceled
  <2>1. rows[c].status = "absent" /\ rows[c].retries = 0 /\ Stage(c) = "none"
    BY <1>7 DEF Insert, AllInv, ChainInv, ProgressInv, Stage
  <2>2. rows'[c].status = "pending" /\ rows'[c].retries = 0
    BY <1>7 DEF NewRow, Absent, AllInv, TypeOK
  <2>3. \A s \in Calls : s # c => rows'[s] = rows[s]
    BY <1>7 DEF AllInv, TypeOK
  <2>4. /\ Stage(c)' = "pending" /\ Shown(c)' = Shown(c)
        /\ \A s \in Calls : s # c => Still(s)
    BY <1>2, <1>4, <2>0, <2>1, <2>2, <2>3 DEF Shown
  <2>5. life' = [life EXCEPT ![c] = "pending"] /\ attempt' = attempt
    BY <2>4
  <2>6. QED BY <2>1, <2>5 DEF Lifecycle!Submit, Lifecycle!Move
<1>8. ASSUME NEW w \in Workers, StoreRunning(w) \/ StoreSucceeded(w) \/ StoreFailed(w)
      PROVE  [Lifecycle!LifeNext]_<<life, attempt>>
  <2>0. worker[w].msg \in Message
    BY <1>8 DEF AllInv, TypeOK, StoreRunning, StoreSucceeded, StoreFailed, Busy
  <2>1. PICK t \in Calls, n \in 0 .. MaxRetries :
          t = worker[w].msg.task /\ n = worker[w].msg.retries
    BY <2>0 DEF Message
  <2>a. \A s \in Calls : Canceled(s)' <=> Canceled(s)
    <3>1. audit' = audit
      BY <1>8 DEF StoreRunning, StoreSucceeded, StoreFailed
    <3>2. QED BY <3>1 DEF Canceled
  <2>b. TypeOK /\ OutcomeInv
    BY DEF AllInv
  <2>2. \A s \in Calls : s # t => Still(s)
    <3>1. \A s \in Calls : s # t => rows'[s] = rows[s]
      BY <1>8, <2>1, <2>b, WorkerEffect
    <3>2. QED BY <1>4, <2>a, <3>1
  <2>c. CASE Canceled(t)
    <3>1. rows'[t].status = "absent" <=> rows[t].status = "absent"
      BY <1>8, <2>1, <2>b, WorkerEffect
    <3>2. Still(t)
      BY <2>a, <2>c, <3>1, StageKept
    <3>3. \A s \in Calls : Still(s)
      BY <2>2, <3>2
    <3>4. QED BY <1>5, <3>3
  <2>d. CASE ~Canceled(t)
    <3>0. /\ ~Canceled(t) /\ ~Canceled(t)'
          /\ Shown(t) = rows[t].retries /\ Shown(t)' = rows'[t].retries
          /\ rows[t].status # "absent" => Stage(t) = rows[t].status
          /\ rows'[t].status # "absent" => Stage(t)' = rows'[t].status
      BY <1>2, <1>3, <2>a, <2>d DEF Shown
    <3>1. CASE StoreRunning(w) /\ n = 0
      <4>1. /\ rows[t].status = "pending" /\ rows'[t].status = "running"
            /\ rows[t].retries = 0 /\ rows'[t].retries = 0
        <5>1. /\ Ready(t, n) /\ rows'[t].status = "running"
              /\ rows'[t].retries = n
          BY <2>1, <2>d, <3>1, ExactEffect
        <5>2. QED BY <2>1, <3>1, <5>1 DEF Ready
      <4>2. life' = [life EXCEPT ![t] = "running"] /\ attempt' = attempt
        BY <2>1, <2>2, <3>0, <4>1
      <4>3. Lifecycle!Begin(t)
        BY <2>1, <3>0, <4>1, <4>2 DEF Lifecycle!Begin, Lifecycle!Move
      <4>4. QED BY <2>1, <4>3 DEF Lifecycle!LifeNext
    <3>2. CASE StoreRunning(w) /\ n > 0
      <4>1. /\ rows[t].status = "running" /\ rows'[t].status = "running"
            /\ rows[t].retries + 1 = n /\ rows'[t].retries = n
        BY <2>1, <2>d, <3>2, ExactEffect DEF Ready
      <4>2. rows[t].retries < MaxRetries /\ rows'[t].retries = rows[t].retries + 1
        BY <1>1, <2>1, <4>1, TaskAssumption DEF Row
      <4>3. life' = life
        BY <2>1, <2>2, <3>0, <4>1
      <4>4. attempt' = [attempt EXCEPT ![t] = @ + 1]
        BY <2>1, <2>2, <3>0, <4>2
      <4>5. Lifecycle!Retry(t)
        BY <3>0, <4>1, <4>2, <4>3, <4>4 DEF Lifecycle!Retry
      <4>6. QED BY <4>5 DEF Lifecycle!LifeNext
    <3>3. CASE StoreSucceeded(w)
      <4>1. /\ rows[t].status = "running" /\ rows'[t].status = "succeeded"
            /\ rows'[t].retries = rows[t].retries
        BY <2>1, <2>d, <3>3, ExactEffect
      <4>2. life' = [life EXCEPT ![t] = "succeeded"] /\ attempt' = attempt
        BY <2>1, <2>2, <3>0, <4>1
      <4>3. Lifecycle!Succeed(t)
        BY <2>1, <3>0, <4>1, <4>2 DEF Lifecycle!Succeed, Lifecycle!Move
      <4>4. QED BY <2>1, <4>3 DEF Lifecycle!LifeNext
    <3>4. CASE StoreFailed(w)
      <4>1. /\ rows[t].status = "running" /\ rows'[t].status = "failed"
            /\ rows'[t].retries = rows[t].retries /\ rows[t].retries = MaxRetries
        BY <2>1, <2>d, <3>4, ExactEffect
      <4>2. life' = [life EXCEPT ![t] = "failed"] /\ attempt' = attempt
        BY <2>1, <2>2, <3>0, <4>1
      <4>3. Lifecycle!Fail(t)
        BY <2>1, <3>0, <4>1, <4>2 DEF Lifecycle!Fail, Lifecycle!Move
      <4>4. QED BY <2>1, <4>3 DEF Lifecycle!LifeNext
    <3>5. QED BY <1>8, <2>1, <3>1, <3>2, <3>3, <3>4
  <2>3. QED BY <2>c, <2>d
<1>9. ASSUME NEW old \in SUBSET Calls, Cleanup(old)
      PROVE  Lifecycle!Purge(old)
  <2>0. \A s \in Calls : Canceled(s)' <=> Canceled(s)
    BY <1>9 DEF Cleanup, Canceled
  <2>1. \A t \in old : /\ rows[t].status \in Terminal
                       /\ rows'[t] = Absent
    BY <1>9 DEF Cleanup, Prunable
  <2>2. \A t \in old : Stage(t) \in {"succeeded", "failed", "canceled"}
    BY <1>3, <2>1 DEF Terminal
  <2>3. \A t \in old : Stage(t)' = "purged" /\ Shown(t)' = 0
    <3>1. \A t \in old : call'[t].seen.status # "absent"
      BY <1>9, <2>1 DEF Cleanup, AllInv, ProgressInv, Terminal
    <3>2. QED BY <2>1, <3>1 DEF Stage, Shown, Absent
  <2>4. \A t \in Calls \ old : Still(t)
    BY <1>4, <1>9, <2>0 DEF Cleanup
  <2>5. QED BY <2>2, <2>3, <2>4 DEF Lifecycle!Purge, Lifecycle!Outcomes
<1>10. ASSUME NEW k \in Cancels, CancelStore(k)
       PROVE  [Lifecycle!LifeNext]_<<life, attempt>>
  <2>b. TypeOK /\ OutcomeInv
    BY DEF AllInv
  <2>1. PICK t \in Calls : t = cancel[k].task
    BY <1>10, <2>b, CancelEffect
  <2>2. /\ \A s \in Calls : s # t => rows'[s] = rows[s]
        /\ rows'[t].status = IF rows[t].status = "absent" THEN "absent" ELSE "canceled"
        /\ rows'[t].retries = rows[t].retries
    BY <1>10, <2>b, <2>1, CancelEffect
  <2>3. /\ \A s \in Calls : s # t => (Canceled(s)' <=> Canceled(s))
        /\ rows[t].status # "absent" => Canceled(t)'
        /\ rows[t].status = "absent" => audit' = audit
    BY <1>10, <2>1, CancelIsLogged
  <2>4. \A s \in Calls : s # t => Still(s)
    BY <1>4, <2>2, <2>3
  <2>5. CASE rows[t].status = "absent"
    <3>1. Canceled(t)' <=> Canceled(t)
      BY <2>3, <2>5 DEF Canceled
    <3>2. Still(t)
      BY <2>2, <2>5, <3>1, StageKept
    <3>3. \A s \in Calls : Still(s)
      BY <2>4, <3>2
    <3>4. QED BY <1>5, <3>3
  <2>6. CASE rows[t].status # "absent" /\ Canceled(t)
    <3>1. Canceled(t)' <=> Canceled(t)
      BY <2>3, <2>6
    <3>2. Still(t)
      BY <2>2, <2>6, <3>1, StageKept
    <3>3. \A s \in Calls : Still(s)
      BY <2>4, <3>2
    <3>4. QED BY <1>5, <3>3
  <2>7. CASE rows[t].status # "absent" /\ ~Canceled(t)
    <3>1. rows[t].status # "canceled" /\ rows[t].status \in Statuses
      BY <1>1, <2>7 DEF AllInv, ProgressInv, Row
    <3>2. Stage(t) \in {"pending", "running", "succeeded", "failed"}
      BY <1>3, <2>7, <3>1 DEF Statuses, Terminal, Open
    <3>3. Stage(t)' = "canceled" /\ Shown(t)' = 0
      BY <1>2, <2>2, <2>3, <2>7 DEF Shown
    <3>4. /\ life' = [life EXCEPT ![t] = "canceled"]
          /\ attempt' = [attempt EXCEPT ![t] = 0]
      BY <2>4, <3>3
    <3>5. Lifecycle!Cancel(t)
      BY <3>2, <3>4 DEF Lifecycle!Cancel, Lifecycle!Outcomes
    <3>6. QED BY <3>5 DEF Lifecycle!LifeNext
  <2>8. QED BY <2>5, <2>6, <2>7
<1>11. (UNCHANGED rows) => (UNCHANGED audit) \/ \E k \in Cancels : CancelStore(k)
  BY CanceledStep
<1>12. QED
  BY <1>6, <1>7, <1>8, <1>9, <1>10, <1>11, TableSteps DEF TableStep, Lifecycle!LifeNext

-----------------------------------------------------------------------------
(* ProgressInv is inductive *)

\* The row in use of a task that stays uncanceled changes in the three transactions
\* of the worker that uses it only.
LEMMA InUseIsKept ==
  ASSUME AllInv, [Next]_vars, NEW t \in Calls, Live(t), ~Canceled(t), ~Canceled(t)',
         \A w \in Workers : StoreRunning(w) \/ StoreSucceeded(w) \/ StoreFailed(w)
                              => worker[w].msg.task # t
  PROVE  rows'[t] = rows[t]
<1>1. ASSUME NEW c \in Calls, Insert(c),
             rows' = [rows EXCEPT ![c] = NewRow(call[c].doc)]
      PROVE  rows'[t] = rows[t]
  <2>1. c # t
    BY <1>1 DEF Insert, AllInv, ChainInv
  <2>2. QED BY <1>1, <2>1 DEF AllInv, TypeOK
<1>2. ASSUME NEW w \in Workers, StoreRunning(w) \/ StoreSucceeded(w) \/ StoreFailed(w)
      PROVE  rows'[t] = rows[t]
  <2>1. worker[w].msg \in Message
    BY <1>2 DEF AllInv, TypeOK, StoreRunning, StoreSucceeded, StoreFailed, Busy
  <2>2. PICK u \in Calls : worker[w].msg.task = u
    BY <2>1 DEF Message
  <2>3. u # t
    BY <1>2, <2>2
  <2>4. QED BY <1>2, <2>2, <2>3, WorkerEffect DEF AllInv
<1>3. ASSUME NEW k \in Cancels, CancelStore(k) PROVE rows'[t] = rows[t]
  <2>1. CASE cancel[k].task # t
    BY <1>3, <2>1, CancelEffect DEF AllInv
  <2>2. CASE cancel[k].task = t
    <3>1. rows[t].status = "absent"
      BY <1>3, <2>2, CancelIsLogged
    <3>2. QED BY <3>1, InUse DEF Open
  <2>3. QED BY <2>1, <2>2
<1>4. QED BY <1>1, <1>2, <1>3, InUse, TableSteps DEF TableStep

\* What one step makes of one worker.
LEMMA WorkerMoves ==
  ASSUME TypeOK, [Next]_vars, NEW w \in Workers
  PROVE  \/ worker'[w].pc = "idle"
         \/ worker'[w] = worker[w] /\ Busy(w)
         \/ \E m \in queue : Start(w, m)
         \/ StoreRunning(w) \/ JobReturns(w) \/ JobExhausted(w)
<1>1. ASSUME NEW v \in Workers, WorkerStep(v) \/ \E m \in queue : Start(v, m), v # w
      PROVE  worker'[w] = worker[w]
  BY <1>1 DEF WorkerStep, Start, StoreRunning, JobReturns, StoreSucceeded, JobExhausted,
              StoreFailed, JobRetried, JobFailsFast, TypeOK
<1>2. ASSUME StoreSucceeded(w) \/ StoreFailed(w) \/ JobRetried(w) \/ JobFailsFast(w)
      PROVE  worker'[w].pc = "idle"
  BY <1>2 DEF StoreSucceeded, StoreFailed, JobRetried, JobFailsFast, IdleWorker, TypeOK
<1>3. ASSUME NEW t \in Calls, RevokeDelivered(t)
      PROVE  worker'[w].pc = "idle" \/ worker'[w] = worker[w]
  BY <1>3 DEF RevokeDelivered, Killed, IdleWorker
<1>4. NodeRestart => worker'[w].pc = "idle"
  BY DEF NodeRestart, IdleWorker
<1>5. ASSUME NEW c \in Calls, CallNext(c) PROVE UNCHANGED worker
  BY <1>5 DEF CallNext, Lookup, Insert, ReturnCached, Publish, Abandon, RunInline,
              StoreInline
<1>6. ASSUME NEW k \in Cancels, CancelNext(k) PROVE UNCHANGED worker
  BY <1>6 DEF CancelNext, CancelLoad, CancelRevoke, CancelStore, CancelAbort
<1>7. ASSUME \/ \E m \in queue : Discard(m)
             \/ \E old \in SUBSET Calls : Cleanup(old)
             \/ UNCHANGED vars
      PROVE  UNCHANGED worker
  BY <1>7 DEF Discard, Cleanup, vars
<1>8. worker[w].pc # "idle" \/ ~Busy(w)
  BY DEF Busy
<1>9. QED
  BY <1>1, <1>2, <1>3, <1>4, <1>5, <1>6, <1>7, <1>8 DEF Next, WorkerStep, Busy

\* The part of ProgressInv about one worker.
WorkerProgress(w) ==
  LET t == worker[w].msg.task
      n == worker[w].msg.retries
  IN Busy(w) /\ ~Canceled(t) =>
       /\ worker[w].pc = "starting" => Ready(t, n)
       /\ worker[w].pc \in {"running", "succeeding", "failing"} => Ongoing(t, n)
       /\ worker[w].pc \in {"starting", "succeeding", "failing"} =>
            worker[w].seen = rows[t]

\* Each worker's attempt is where the row says it is, after any step.
LEMMA WorkerProgressStep ==
  ASSUME AllInv, UniqueUploads, ~Eager, [Next]_vars, NEW w \in Workers
  PROVE  WorkerProgress(w)'
<1>0. \A t \in Calls : ~Canceled(t)' => ~Canceled(t)
  BY CanceledStep
<1>1. CASE worker'[w].pc = "idle"
  BY <1>1 DEF WorkerProgress, Busy
<1>2. CASE worker'[w] = worker[w] /\ Busy(w) /\ ~StoreRunning(w)
  <2>1. PICK t \in Calls : worker[w].msg.task = t
    BY <1>2 DEF AllInv, TypeOK, Busy, Message
  <2>2. Executing(w, t) /\ Live(t)
    BY <1>2, <2>1 DEF Executing, Live
  <2>3. ASSUME NEW v \in Workers,
               StoreRunning(v) \/ StoreSucceeded(v) \/ StoreFailed(v),
               worker[v].msg.task = t
        PROVE  FALSE
    <3>1. Executing(v, t)
      BY <2>3 DEF Executing, Busy, StoreRunning, StoreSucceeded, StoreFailed
    <3>2. v = w
      BY <2>2, <3>1 DEF AllInv, ChainInv, OneChain
    <3>3. StoreSucceeded(w) \/ StoreFailed(w)
      BY <1>2, <2>3, <3>2
    <3>4. worker'[w].pc = "idle"
      BY <3>3 DEF StoreSucceeded, StoreFailed, IdleWorker, AllInv, TypeOK
    <3>5. QED BY <1>2, <3>4 DEF Busy
  <2>4. ~Canceled(t)' => rows'[t] = rows[t]
    BY <1>0, <2>2, <2>3, InUseIsKept
  <2>5. WorkerProgress(w)
    BY DEF AllInv, ProgressInv, WorkerProgress
  <2>6. QED BY <1>0, <1>2, <2>1, <2>4, <2>5 DEF WorkerProgress, Ready, Ongoing, Busy
<1>3. CASE \E m \in queue : Start(w, m)
  <2>1. PICK m \in queue : Start(w, m)
    BY <1>3
  <2>2. /\ worker'[w] = [pc |-> "starting", msg |-> m, seen |-> rows[m.task]]
        /\ rows' = rows /\ m.task \in Calls
    BY <2>1 DEF Start, AllInv, TypeOK, Message
  <2>3. Canceled(m.task) \/ Ready(m.task, m.retries)
    BY DEF AllInv, ProgressInv
  <2>4. QED BY <1>0, <2>2, <2>3 DEF WorkerProgress, Ready
<1>4. CASE JobReturns(w) \/ JobExhausted(w)
  <2>1. /\ worker'[w].msg = worker[w].msg
        /\ worker'[w].pc \in {"succeeding", "failing"}
        /\ worker'[w].seen = rows[worker[w].msg.task]
        /\ rows' = rows /\ Busy(w) /\ worker[w].msg.task \in Calls
    BY <1>4 DEF JobReturns, JobExhausted, AllInv, TypeOK, WorkerState, Busy, Message
  <2>2. Canceled(worker[w].msg.task) \/ Ongoing(worker[w].msg.task, worker[w].msg.retries)
    BY <1>4, <2>1 DEF JobReturns, JobExhausted, AllInv, ProgressInv
  <2>3. QED BY <1>0, <2>1, <2>2 DEF WorkerProgress, Ongoing
<1>5. CASE StoreRunning(w)
  <2>1. worker[w].msg \in Message
    BY <1>5 DEF StoreRunning, AllInv, TypeOK, Busy
  <2>2. PICK t \in Calls : worker[w].msg.task = t
    BY <2>1 DEF Message
  <2>3. worker'[w].msg = worker[w].msg \/ worker'[w].pc = "idle"
    BY <1>5 DEF StoreRunning, IdleWorker, AllInv, TypeOK, WorkerState
  <2>4. CASE Canceled(t)
    <3>1. Canceled(t)'
      BY <2>4, <1>0
    <3>2. QED BY <1>1, <2>2, <2>3, <3>1 DEF WorkerProgress
  <2>5. CASE ~Canceled(t)
    <3>1. /\ rows'[t].status = "running"
          /\ rows'[t].retries = worker[w].msg.retries
          /\ worker' = [worker EXCEPT ![w].pc = "running"]
      BY <1>5, <2>2, <2>5, ExactEffect
    <3>2. worker'[w].pc = "running" /\ worker'[w].msg = worker[w].msg
      BY <3>1 DEF AllInv, TypeOK, WorkerState
    <3>3. QED BY <2>2, <3>1, <3>2 DEF WorkerProgress, Ongoing
  <2>6. QED BY <2>4, <2>5
<1>6. TypeOK
  BY DEF AllInv
<1>7. QED BY <1>1, <1>2, <1>3, <1>4, <1>5, <1>6, WorkerMoves

\* A message in the broker announces exactly the next attempt, after any step.
LEMMA MessageProgressStep ==
  ASSUME AllInv, UniqueUploads, ~Eager, [Next]_vars, NEW m \in queue'
  PROVE  (Canceled(m.task) \/ Ready(m.task, m.retries))'
<1>0. \A t \in Calls : ~Canceled(t)' => ~Canceled(t)
  BY CanceledStep
<1>1. CASE m \in queue
  <2>1. m.task \in Calls /\ Live(m.task)
    BY <1>1 DEF AllInv, TypeOK, Message, Live
  <2>2. Canceled(m.task) \/ Ready(m.task, m.retries)
    BY <1>1 DEF AllInv, ProgressInv
  <2>3. ASSUME NEW v \in Workers,
               StoreRunning(v) \/ StoreSucceeded(v) \/ StoreFailed(v)
        PROVE  worker[v].msg.task # m.task
    BY <1>1, <2>1, <2>3
    DEF Executing, Busy, StoreRunning, StoreSucceeded, StoreFailed, AllInv, ChainInv,
        OneChain
  <2>4. ~Canceled(m.task)' => rows'[m.task] = rows[m.task]
    BY <1>0, <2>1, <2>3, InUseIsKept
  <2>5. QED BY <1>0, <2>1, <2>2, <2>4 DEF Ready
<1>2. ASSUME m \notin queue
      PROVE  \/ \E c \in Calls : Publish(c)
             \/ \E w \in Workers : JobRetried(w)
  BY <1>2
  DEF Next, vars, CallNext, WorkerStep, CancelNext, Lookup, Insert, ReturnCached, Abandon,
      RunInline, StoreInline, Discard, Start, StoreRunning, JobReturns, StoreSucceeded,
      JobExhausted, StoreFailed, JobFailsFast, RevokeDelivered, NodeRestart, CancelLoad,
      CancelRevoke, CancelStore, CancelAbort, Cleanup
<1>3. ASSUME NEW c \in Calls, Publish(c), m \notin queue
      PROVE  (Canceled(m.task) \/ Ready(m.task, m.retries))'
  <2>1. m.task = c /\ m.retries = 0 /\ rows' = rows
    BY <1>3 DEF Publish, AllInv, ChainInv
  <2>2. Canceled(c) \/ Ready(c, 0)
    BY <1>3 DEF Publish, AllInv, ProgressInv
  <2>3. QED BY <1>0, <2>1, <2>2 DEF Ready
<1>4. ASSUME NEW w \in Workers, JobRetried(w), m \notin queue
      PROVE  (Canceled(m.task) \/ Ready(m.task, m.retries))'
  <2>1. worker[w].msg \in Message /\ Busy(w)
    BY <1>4 DEF JobRetried, AllInv, TypeOK, Busy
  <2>2. m = [worker[w].msg EXCEPT !.retries = @ + 1] /\ rows' = rows
    BY <1>4 DEF JobRetried
  <2>3. /\ m.task = worker[w].msg.task /\ m.retries = worker[w].msg.retries + 1
        /\ m.task \in Calls
    BY <2>1, <2>2 DEF Message
  <2>4. Canceled(m.task) \/ Ongoing(worker[w].msg.task, worker[w].msg.retries)
    BY <1>4, <2>1, <2>3 DEF JobRetried, AllInv, ProgressInv
  <2>5. worker[w].msg.retries \in Nat
    BY <2>1, TaskAssumption DEF Message
  <2>6. QED BY <1>0, <2>2, <2>3, <2>4, <2>5 DEF Ready, Ongoing
<1>5. QED BY <1>1, <1>2, <1>3, <1>4

\* A submission is forgotten by nothing and enters dispatch by registration.
LEMMA PcStep ==
  ASSUME TypeOK, ChainInv, OutcomeInv, UniqueUploads, ~Eager, [Next]_vars,
         NEW c \in Calls
  PROVE  /\ call'[c].pc \in {"idle", "insert"} => call[c].pc \in {"idle", "insert"}
         /\ call'[c].pc = "dispatch" =>
              call[c].pc = "dispatch" \/ (Insert(c) /\ Registered(call[c].doc) = {})
<1>1. ASSUME NEW o \in Calls, NEW d \in Docs, Lookup(o, d)
      PROVE  call'[c] = call[c] \/ (call[c].pc = "idle" /\ call'[c].pc = "insert")
  BY <1>1, NoHit DEF TypeOK, Lookup
<1>2. ASSUME NEW o \in Calls, Insert(o)
      PROVE  call'[c] = call[c] \/ call'[c].pc = "error" \/
             (call'[c].pc = "dispatch" /\ Insert(c) /\ Registered(call[c].doc) = {})
  <2>1. CASE o # c
    BY <1>2, <2>1 DEF Insert, TypeOK
  <2>2. CASE o = c
    BY <1>2, <2>2 DEF Insert, TypeOK, CallState
  <2>3. QED BY <2>1, <2>2
<1>3. ASSUME NEW o \in Calls,
             ReturnCached(o) \/ Publish(o) \/ Abandon(o) \/ RunInline(o) \/ StoreInline(o)
      PROVE  call'[c] = call[c] \/ call'[c].pc \in {"done", "error"}
  <2>1. ~RunInline(o) /\ ~StoreInline(o)
    BY DEF RunInline, StoreInline, OutcomeInv
  <2>2. QED BY <1>3, <2>1 DEF ReturnCached, Publish, Abandon, TypeOK, CallState
<1>4. CASE UNCHANGED call
  BY <1>4
<1>5. CASE \E o \in Calls : CallNext(o)
  BY <1>1, <1>2, <1>3, <1>5 DEF CallNext
<1>6. QED
  BY <1>4, <1>5
  DEF Next, vars, WorkerStep, CancelNext, Discard, Start, StoreRunning, JobReturns,
      StoreSucceeded, JobExhausted, StoreFailed, JobRetried, JobFailsFast,
      RevokeDelivered, NodeRestart, CancelLoad, CancelRevoke, CancelStore,
      CancelAbort, Cleanup

\* A row is created by its registration only, and without one it has no retries.
LEMMA SubmissionRowStep ==
  ASSUME AllInv, UniqueUploads, ~Eager, [Next]_vars, NEW t \in Calls
  PROVE  /\ rows'[t].status = "absent" => rows'[t].retries = 0
         /\ rows'[t].status = "canceled" => Canceled(t)'
         /\ rows'[t].status # "absent" /\ rows[t].status = "absent" =>
              Insert(t) /\ Registered(call[t].doc) = {}
<1> DEFINE Sane == /\ rows'[t].status = "absent" => rows'[t].retries = 0
                   /\ rows'[t].status = "canceled" => Canceled(t)'
<1>0. TypeOK /\ OutcomeInv
  BY DEF AllInv
<1>1. rows[t].status = "canceled" => Canceled(t)'
  BY CanceledStep DEF AllInv, ProgressInv
<1>2. CASE rows'[t] = rows[t]
  BY <1>1, <1>2 DEF AllInv, ProgressInv
<1>3. CASE rows'[t] = Absent
  BY <1>3 DEF Absent
<1>4. CASE Insert(t) /\ rows'[t] = NewRow(call[t].doc)
  <2>1. Sane
    BY <1>4 DEF NewRow, Absent
  <2>2. Registered(call[t].doc) = {} \/ rows' = rows
    BY <1>4 DEF Insert
  <2>3. QED BY <1>4, <2>1, <2>2
<1>5. ASSUME NEW w \in Workers, worker[w].msg.task = t,
             StoreRunning(w) \/ StoreSucceeded(w) \/ StoreFailed(w)
      PROVE  /\ Sane
             /\ rows[t].status = "absent" => rows'[t].status = "absent"
  <2>1. CASE rows[t].status = "absent"
    BY <1>0, <1>2, <1>5, <2>1, WorkerEffect
  <2>2. CASE rows[t].status # "absent"
    <3>1. rows'[t].status \in {"running", "succeeded", "failed", rows[t].status}
      BY <1>0, <1>5, <2>2, WorkerEffect
    <3>2. QED BY <1>1, <2>2, <3>1
  <2>3. QED BY <2>1, <2>2
<1>6. ASSUME NEW k \in Cancels, cancel[k].task = t, CancelStore(k)
      PROVE  /\ Sane
             /\ rows[t].status = "absent" => rows'[t].status = "absent"
  <2>1. /\ rows'[t].status = IF rows[t].status = "absent" THEN "absent" ELSE "canceled"
        /\ rows'[t].retries = rows[t].retries
    BY <1>0, <1>6, CancelEffect
  <2>2. rows[t].status # "absent" => Canceled(t)'
    BY <1>6, CancelIsLogged
  <2>3. QED BY <2>1, <2>2 DEF AllInv, ProgressInv
<1>7. QED BY <1>0, <1>2, <1>3, <1>4, <1>5, <1>6, RowWritersStep DEF RowWriters

\* The parts of ProgressInv about rows and their submissions.
LEMMA SubmissionProgressStep ==
  ASSUME AllInv, UniqueUploads, ~Eager, [Next]_vars, NEW t \in Calls
  PROVE  /\ rows'[t].status # "absent" => call'[t].seen.status # "absent"
         /\ call'[t].pc \in {"idle", "insert"} =>
              call'[t].seen.status = "absent" /\ ~Canceled(t)'
         /\ call'[t].pc = "dispatch" => (Canceled(t) \/ Ready(t, 0))'
<1>1. CASE Insert(t) /\ Registered(call[t].doc) = {}
  <2>1. call'[t] = [pc |-> "dispatch", doc |-> call[t].doc, task |-> call[t].task,
                    seen |-> NewRow(call[t].doc)]
    BY <1>1 DEF Insert, AllInv, TypeOK
  <2>2. rows'[t] = NewRow(call[t].doc)
    BY <1>1 DEF Insert, AllInv, TypeOK
  <2>3. NewRow(call[t].doc).status = "pending" /\ NewRow(call[t].doc).retries = 0
    BY DEF NewRow, Absent
  <2>4. Ready(t, 0)'
    BY <2>2, <2>3 DEF Ready
  <2>5. /\ call'[t].seen.status = "pending"
        /\ call'[t].pc = "dispatch"
    BY <2>1, <2>3
  <2>6. QED BY <2>4, <2>5
<1>2. CASE ~(Insert(t) /\ Registered(call[t].doc) = {})
  <2>1. call'[t].seen.status = "absent" <=> call[t].seen.status = "absent"
    BY <1>2, SeenStep
  <2>2. rows'[t].status # "absent" => rows[t].status # "absent"
    BY <1>2, SubmissionRowStep
  <2>3. call'[t].pc \in {"idle", "insert"} => call[t].pc \in {"idle", "insert"}
    BY PcStep DEF AllInv
  <2>4. call'[t].pc = "dispatch" => call[t].pc = "dispatch"
    BY <1>2, PcStep DEF AllInv
  <2>5. ASSUME call[t].pc \in {"idle", "insert"} PROVE ~Canceled(t)'
    <3>1. ~Canceled(t) /\ rows[t].status = "absent"
      BY <2>5 DEF AllInv, ProgressInv, ChainInv
    <3>2. CASE audit' = audit
      BY <3>1, <3>2 DEF Canceled
    <3>3. ASSUME NEW k \in Cancels, CancelStore(k) PROVE ~Canceled(t)'
      <4>1. CASE cancel[k].task = t
        <5>1. audit' = audit
          BY <3>1, <3>3, <4>1, CancelIsLogged
        <5>2. QED BY <3>2, <5>1
      <4>2. CASE cancel[k].task # t
        <5>1. PICK u \in Calls : cancel[k].task = u
          BY <3>3, CancelEffect DEF AllInv
        <5>2. QED BY <3>1, <3>3, <4>2, <5>1, CancelIsLogged
      <4>3. QED BY <4>1, <4>2
    <3>4. QED BY <3>2, <3>3, CanceledStep
  <2>6. call'[t].pc = "dispatch" => (Canceled(t) \/ Ready(t, 0))'
    <3>1. SUFFICES ASSUME call[t].pc = "dispatch", ~Canceled(t)' PROVE Ready(t, 0)'
      BY <2>4
    <3>2. ~Canceled(t)
      BY <3>1, CanceledStep
    <3>3. Dispatching(t, t) /\ Live(t) /\ Ready(t, 0)
      BY <3>1, <3>2 DEF Dispatching, Live, AllInv, ChainInv, ProgressInv
    <3>4. ASSUME NEW v \in Workers,
                 StoreRunning(v) \/ StoreSucceeded(v) \/ StoreFailed(v)
          PROVE  worker[v].msg.task # t
      BY <3>3, <3>4
      DEF Executing, Busy, StoreRunning, StoreSucceeded, StoreFailed, AllInv, ChainInv,
          OneChain
    <3>5. rows'[t] = rows[t]
      BY <3>1, <3>2, <3>3, <3>4, InUseIsKept
    <3>6. QED BY <3>3, <3>5 DEF Ready
  <2>7. QED BY <2>1, <2>2, <2>3, <2>5, <2>6 DEF AllInv, ProgressInv
<1>3. QED BY <1>1, <1>2

\* ProgressInv is inductive, whatever is canceled.
LEMMA ProgressInduction ==
  ASSUME UniqueUploads, ~Eager
  PROVE  /\ Init => ProgressInv
         /\ AllInv /\ [Next]_vars => ProgressInv'
<1>1. ASSUME Init PROVE ProgressInv
  <2>1. /\ \A t \in Calls : rows[t].status = "absent" /\ rows[t].retries = 0
        /\ \A c \in Calls : call[c].pc = "idle" /\ call[c].seen.status = "absent"
        /\ \A w \in Workers : ~Busy(w)
        /\ queue = {} /\ audit = {}
    BY <1>1 DEF Init, Absent, IdleWorker, Busy
  <2>2. QED BY <2>1 DEF ProgressInv, Canceled
<1>2. ASSUME AllInv, [Next]_vars PROVE ProgressInv'
  <2>1. \A t \in Calls :
          /\ rows'[t].status = "absent" => rows'[t].retries = 0
          /\ rows'[t].status = "canceled" => Canceled(t)'
    BY <1>2, SubmissionRowStep
  <2>2. \A t \in Calls :
          /\ rows'[t].status # "absent" => call'[t].seen.status # "absent"
          /\ call'[t].pc \in {"idle", "insert"} =>
               call'[t].seen.status = "absent" /\ ~Canceled(t)'
          /\ call'[t].pc = "dispatch" => (Canceled(t) \/ Ready(t, 0))'
    BY <1>2, SubmissionProgressStep
  <2>3. \A m \in queue' : (Canceled(m.task) \/ Ready(m.task, m.retries))'
    BY <1>2, MessageProgressStep
  <2>4. \A w \in Workers : WorkerProgress(w)'
    BY <1>2, WorkerProgressStep
  <2>5. QED BY <2>1, <2>2, <2>3, <2>4 DEF ProgressInv, WorkerProgress
<1>3. QED BY <1>1, <1>2

\* With uploads only and a broker the whole machine implements the lifecycle: rows of
\* submit_ingestion, the Celery retries, the cancel requests and the retention job
\* follow TaskLifecycle.
THEOREM RefinesLifecycle ==
  ASSUME UniqueUploads, ~Eager
  PROVE  Spec => ImplementsLifecycle
<1> DEFINE life == [t \in Calls |-> Stage(t)]
           attempt == [t \in Calls |-> Shown(t)]
<1>1. Init => Lifecycle!LifeInit
  BY DEF Init, Lifecycle!LifeInit, Stage, Shown, Canceled, Absent
<1>2. AllInv /\ [Next]_vars => [Lifecycle!LifeNext]_<<life, attempt>>
  BY LifecycleStep
<1>3. TypeOK /\ ChainInv /\ OutcomeInv /\ ProgressInv /\ [Next]_vars => ProgressInv'
  BY ProgressInduction DEF AllInv
<1>4. Spec => []ProgressInv
  BY <1>3, ProgressInduction, OutcomeCorrect, TypeCorrect, PTL DEF Spec
<1>5. Spec => []AllInv
  <2>1. TypeOK /\ ChainInv /\ OutcomeInv /\ ProgressInv => AllInv
    BY DEF AllInv
  <2>2. QED BY <1>4, <2>1, OutcomeCorrect, TypeCorrect, PTL
<1>6. QED BY <1>1, <1>2, <1>5, PTL DEF Spec, ImplementsLifecycle, Lifecycle!LifeSpec


-----------------------------------------------------------------------------
(* AgentReviews: the inductive invariant, in parts *)

Event == [by : Reviewers \cup {NoRun}, sequence : Nat]

Types == ReviewTypeOK /\ events \in [Runs -> SUBSET Event]

Working == {"save", "load", "store", "case", "link"}

\* What a request has stored at each point.
Progress(r) ==
  /\ create[r].pc \in Working => create[r].kind \in Kinds
  /\ create[r].pc = "none" => create[r].thread = NoThread
  /\ create[r].pc # "none" => create[r].thread \in Threads
  /\ create[r].pc \in {"none", "save", "load", "store"} =>
       run[r].status = "none" /\ events[r] = {}
  /\ create[r].pc \in {"none", "save", "load", "store", "case"} => case["agent"][r] = "none"
  /\ create[r].free => create[r].loaded.latest # NoRun

\* A run under decision is stored, and its own case exists when the request closes it.
Held(q) ==
  /\ resume[q].pc = "idle" <=> resume[q].run = NoRun
  /\ resume[q].pc # "idle" => run[resume[q].run].status # "none"
  /\ resume[q].pc = "commit" /\ "agent" \in resume[q].cases =>
       create[resume[q].run].pc # "case"

Requests == (\A r \in Runs : Progress(r)) /\ (\A q \in Reviewers : Held(q))

\* The row lock: two requests do not commit a decision on one run at once.
Locking ==
  \A p, q \in Reviewers :
    resume[p].pc = "commit" /\ resume[q].pc = "commit" /\ resume[p].run = resume[q].run => p = q

\* The events of a run have a last one, and a decision in progress comes after it.
Timeline ==
  /\ \A r \in Runs :
       /\ events[r] # {} => \E m \in events[r] : \A e \in events[r] : e.sequence <= m.sequence
       /\ \A e \in events[r] : e.by = NoRun => e.sequence = 0
       /\ \A e, f \in events[r] : e # f => e.sequence # f.sequence
  /\ \A q \in Reviewers : resume[q].pc = "commit" =>
       \A e \in events[resume[q].run] : e.sequence < resume[q].sequence

\* A run whose answer does not ask for review is not decided before it is linked.
Queued(r) ==
  /\ run[r].status = "needs_review" /\ create[r].pc \in {"link", "done"} =>
       case["agent"][r] = "open"
  /\ create[r].pc \in {"case", "link"} /\ RunStatus(Result(r)) # "needs_review" =>
       /\ run[r].status # "needs_review"
       /\ ~Decided(r)
       /\ \A q \in Reviewers : resume[q].run # r
       /\ create[r].pc = "link" => case["agent"][r] = "open"

Queue == \A r \in Runs : Queued(r)

Ended(r) == create[r].pc \in {"done", "dead"}

\* A decision that was not early found the request ended and the case in the queue.
ClosesIn(q) ==
  resume[q].pc = "commit" /\ resume[q].run \notin early =>
    /\ Ended(resume[q].run)
    /\ case["agent"][resume[q].run] = "open" => "agent" \in resume[q].cases

Closed(r) ==
  r \notin early /\ Decided(r) =>
    /\ Ended(r)
    /\ case["agent"][r] # "open"
    /\ "resolution" \in run[r].output

Closing == (\A q \in Reviewers : ClosesIn(q)) /\ (\A r \in Runs : Closed(r))

\* A run that was never contested has one decision at a time, on an open case.
OneVerdict(r) ==
  r \notin contested =>
    /\ \A p, q \in Reviewers : resume[p].run = r /\ resume[q].run = r => p = q
    /\ \A q \in Reviewers : resume[q].run = r => case["agent"][r] \notin {"resolved", "rejected"}
    /\ case["agent"][r] = "resolved" => run[r].status = "completed"
    /\ case["agent"][r] = "rejected" => run[r].status = "rejected"

Verdicts == \A r \in Runs : OneVerdict(r)

Alone(r, t) == \A o \in Runs : create[o].thread = t <=> o = r

\* The decision on a thread's only run writes the thread it has read.
TellsVerdict(r, t) ==
  Alone(r, t) =>
    /\ \A q \in Reviewers : resume[q].pc = "commit" /\ resume[q].run = r =>
         resume[q].thread = thread[t]
    /\ Decided(r) =>
         /\ thread[t].pending = NoRun
         /\ thread[t].status = IF run[r].status = "rejected" THEN "rejected" ELSE "active"

Threading == \A r \in Runs, t \in Threads : TellsVerdict(r, t)

\* Requests that did not meet: one of them has ended.
Meeting ==
  \A r \in Runs \ crowded, o \in Runs :
    o # r /\ create[r].pc # "none" /\ create[o].thread = create[r].thread =>
      create[r].pc = "done" \/ create[o].pc = "done"

\* The latest checkpoint of a thread is one of its own.
Latest ==
  \A t \in Threads : thread[t].latest # NoRun => create[thread[t].latest].thread = t

\* The checkpoint of a run that met no other, at each point of its request.
OwnCheckpoint(r) ==
  r \notin crowded =>
    /\ snapshot[r].run \in {NoRun, r}
    /\ create[r].pc \in {"none", "save"} => ~snapshot[r].exists
    /\ create[r].pc = "load" /\ snapshot[r].exists =>
         thread[create[r].thread].latest = r /\ snapshot[r].run = NoRun
    /\ create[r].pc = "store" /\ snapshot[r].exists =>
         create[r].loaded.latest = r /\ create[r].free
    /\ create[r].pc \in {"case", "link", "done"} /\ snapshot[r].exists => snapshot[r].run = r

\* What a request is about to adopt is its own, or was left by a run it met.
Adopts(r) ==
  create[r].pc = "store" /\ create[r].free =>
    create[r].loaded.latest = r \/ create[r].loaded.latest \in crowded

Checkpoints == \A r \in Runs : OwnCheckpoint(r) /\ Adopts(r)

Core == Types /\ Requests /\ Locking

IInv ==
  /\ Core
  /\ Timeline /\ Queue /\ Closing /\ Verdicts /\ Threading
  /\ Meeting /\ Latest /\ Checkpoints

-----------------------------------------------------------------------------
(* What the operators return                                                    *)

CreateRow ==
  [pc : {"none", "save", "load", "store", "case", "link", "done", "dead"},
   kind : Kinds \cup {"none"}, thread : Threads \cup {NoThread}, loaded : ThreadRow,
   free : BOOLEAN]

ResumeRow ==
  [pc : {"idle", "flush", "commit"}, run : Runs \cup {NoRun}, loaded : RunRow,
   thread : ThreadRow, cases : SUBSET Sources, sequence : Nat]

SnapshotRow == [exists : BOOLEAN, run : Runs \cup {NoRun}]

AnswerRow ==
  [status : {"completed", "needs_review", "failed"}, review : BOOLEAN, sure : BOOLEAN,
   interrupt : BOOLEAN, saves : BOOLEAN, writes : BOOLEAN]

LEMMA TypesInParts ==
  Types <=> /\ run \in [Runs -> RunRow]
            /\ thread \in [Threads -> ThreadRow]
            /\ snapshot \in [Runs -> SnapshotRow]
            /\ case \in [Sources -> [Runs -> {"none", "open", "resolved", "rejected"}]]
            /\ events \in [Runs -> SUBSET Event]
            /\ create \in [Runs -> CreateRow]
            /\ resume \in [Reviewers -> ResumeRow]
            /\ early \subseteq Runs /\ contested \subseteq Runs /\ crowded \subseteq Runs
  BY DEF Types, ReviewTypeOK, CreateRow, ResumeRow, SnapshotRow, Event

LEMMA TypesInPartsNext ==
  Types' <=> /\ run' \in [Runs -> RunRow]
             /\ thread' \in [Threads -> ThreadRow]
             /\ snapshot' \in [Runs -> SnapshotRow]
             /\ case' \in [Sources -> [Runs -> {"none", "open", "resolved", "rejected"}]]
             /\ events' \in [Runs -> SUBSET Event]
             /\ create' \in [Runs -> CreateRow]
             /\ resume' \in [Reviewers -> ResumeRow]
             /\ early' \subseteq Runs /\ contested' \subseteq Runs /\ crowded' \subseteq Runs
  BY DEF Types, ReviewTypeOK, CreateRow, ResumeRow, SnapshotRow, Event

\* What the agents return: an answer that needs review asks for it.
LEMMA AnswersAreTyped ==
  ASSUME NEW k \in Kinds
  PROVE  Outcome[k] \in AnswerRow /\ (Outcome[k].status = "needs_review" => Outcome[k].review)
<1> DEFINE Fits(a) == a \in AnswerRow /\ (a.status = "needs_review" => a.review)
<1>1. \A st \in {"completed", "failed"}, review, sure, interrupt, saves, writes \in BOOLEAN :
        Fits(Answer(st, review, sure, interrupt, saves, writes))
  BY DEF Answer, AnswerRow
<1>2. \A sure, interrupt, saves, writes \in BOOLEAN :
        Fits(Answer("needs_review", TRUE, sure, interrupt, saves, writes))
  BY DEF Answer, AnswerRow
<1> HIDE DEF Fits
<1>3. Fits(Outcome.ticket) /\ Fits(Outcome.anomaly) /\ Fits(Outcome.paused)
  BY <1>1, <1>2 DEF Outcome
<1>4. Fits(Outcome.answered) /\ Fits(Outcome.unsure) /\ Fits(Outcome.legacy)
  BY <1>1, <1>2 DEF Outcome
<1>5. Fits(Outcome.doubtful) /\ Fits(Outcome.failed)
  BY <1>1, <1>2 DEF Outcome
<1>6. k \in {"ticket", "anomaly", "paused", "answered", "unsure", "legacy", "doubtful", "failed"}
  BY ReviewAssumption
<1>7. Fits(Outcome[k])
  BY <1>3, <1>4, <1>5, <1>6
<1> QED
  BY <1>7 DEF Fits

\* The stored status is never "rejected", and a run that needs review gets a case.
LEMMA StatusOfAnswers ==
  ASSUME NEW res \in AnswerRow, res.status = "needs_review" => res.review
  PROVE  /\ RunStatus(res) \in {"completed", "needs_review", "failed"}
         /\ RunStatus(res) = "needs_review" => ShouldCreateCase(res)
  BY DEF RunStatus, ShouldCreateCase, AnswerRow

LEMMA ResultsAreTyped ==
  ASSUME Types, NEW r \in Runs, create[r].kind \in Kinds
  PROVE  /\ Result(r) \in AnswerRow
         /\ RunStatus(Result(r)) \in {"completed", "needs_review", "failed"}
         /\ RunStatus(Result(r)) = "needs_review" => ShouldCreateCase(Result(r))
<1>1. Result(r) \in AnswerRow /\ (Result(r).status = "needs_review" => Result(r).review)
  BY AnswersAreTyped DEF Result
<1> QED
  BY <1>1, StatusOfAnswers

LEMMA EmptyRowsAreTyped ==
  /\ NoRow \in RunRow /\ NoThreadRow \in ThreadRow
  /\ NoThreadRow.latest = NoRun /\ NoThreadRow.status = "none"
  /\ NoCreate \in CreateRow /\ NoResume \in ResumeRow
  BY DEF NoRow, NoThreadRow, RunRow, ThreadRow, RunStatuses, NoCreate, NoResume, CreateRow,
         ResumeRow

\* The number of the next event comes after every event stored.
LEMMA NextSequenceIsNew ==
  ASSUME Types, Timeline, NEW r \in Runs
  PROVE  NextSequence(r) \in Nat /\ \A e \in events[r] : e.sequence < NextSequence(r)
<1>1. CASE events[r] = {}
  BY <1>1 DEF NextSequence
<1>2. CASE events[r] # {}
  <2>1. \A e \in events[r] : e.sequence \in Nat
    BY TypesInParts DEF Event
  <2> DEFINE Last(n) == \A e \in events[r] : e.sequence <= n
             Numbers == {e.sequence : e \in events[r]}
             last == CHOOSE n \in Numbers : Last(n)
  <2>2. \E n \in Numbers : Last(n)
    BY <1>2 DEF Timeline
  <2>3. last \in Numbers /\ Last(last)
    <3> HIDE DEF Last, Numbers
    <3> QED
      BY <2>2
  <2>4. Numbers \subseteq Nat
    BY <2>1
  <2>5. NextSequence(r) = 1 + last
    BY <1>2 DEF NextSequence
  <2>6. \A e \in events[r] : e.sequence <= last
    BY <2>3
  <2>7. last \in Nat
    BY <2>3, <2>4
  <2> HIDE DEF last
  <2> QED
    BY <2>1, <2>5, <2>6, <2>7
<1> QED
  BY <1>1, <1>2

-----------------------------------------------------------------------------
(* What the actions do, a row at a time                                         *)

\* A request moves on, and no other request does.
LEMMA AtMoves ==
  ASSUME Types, NEW r \in Runs,
         NEW pc \in {"load", "case", "link", "done", "dead"}, At(r, pc)
  PROVE  /\ create' \in [Runs -> CreateRow]
         /\ create'[r].pc = pc /\ create'[r].thread = create[r].thread
         /\ create'[r].loaded = NoThreadRow /\ create'[r].free = FALSE
         /\ pc \notin {"done", "dead"} => create'[r].kind = create[r].kind
         /\ \A o \in Runs : o # r => create'[o] = create[o]
         /\ \A o \in Runs : create'[o].thread = create[o].thread
<1>1. create \in [Runs -> CreateRow]
  BY TypesInParts
<1> DEFINE row == [pc |-> pc, kind |-> IF pc \in {"done", "dead"} THEN "none" ELSE create[r].kind,
                   thread |-> create[r].thread, loaded |-> NoThreadRow, free |-> FALSE]
<1>2. create' = [create EXCEPT ![r] = row]
  BY DEF At
<1>3. row \in CreateRow
  BY <1>1, EmptyRowsAreTyped DEF CreateRow
<1>4. create'[r] = row /\ \A o \in Runs : o # r => create'[o] = create[o]
  BY <1>1, <1>2
<1>5. create' \in [Runs -> CreateRow]
  BY <1>1, <1>2, <1>3
<1>6. \A o \in Runs : create'[o].thread = create[o].thread
  BY <1>4
<1> QED
  BY <1>4, <1>5, <1>6

\* The agent's answer is there; runs that meet on the thread are crowded.
LEMMA ExecuteDoes ==
  ASSUME Types, NEW r \in Runs, NEW t \in Threads, NEW k \in Kinds, Execute(r, t, k)
  PROVE  /\ create' \in [Runs -> CreateRow]
         /\ create[r].pc = "none" /\ create'[r].pc \in {"save", "load"}
         /\ create'[r].kind = k /\ create'[r].thread = t /\ create'[r].free = FALSE
         /\ \A o \in Runs : o # r => create'[o] = create[o]
         /\ crowded \subseteq crowded' /\ crowded' \subseteq Runs
         /\ \A o \in Runs : o # r /\ create[o].thread = t /\ create[o].pc # "done" =>
              r \in crowded' /\ o \in crowded'
<1>1. create \in [Runs -> CreateRow] /\ crowded \subseteq Runs
  BY TypesInParts
<1> DEFINE row == [pc |-> IF Outcome[k].saves THEN "save" ELSE "load", kind |-> k,
                   thread |-> t, loaded |-> NoThreadRow, free |-> FALSE]
<1>2. create' = [create EXCEPT ![r] = row] /\ create[r].pc = "none"
  BY DEF Execute
<1>3. row \in CreateRow
  BY EmptyRowsAreTyped DEF CreateRow
<1>4. create'[r] = row /\ \A o \in Runs : o # r => create'[o] = create[o]
  BY <1>1, <1>2
<1>5. create' \in [Runs -> CreateRow]
  BY <1>1, <1>2, <1>3
<1>6. crowded' = IF Others(r, t) = {} THEN crowded ELSE crowded \cup {r} \cup Others(r, t)
  BY DEF Execute
<1>7. Others(r, t) \subseteq Runs
  BY DEF Others
<1>8. \A o \in Runs : o # r /\ create[o].thread = t /\ create[o].pc # "done" => o \in Others(r, t)
  BY DEF Others
<1>9. crowded \subseteq crowded' /\ crowded' \subseteq Runs
  BY <1>1, <1>6, <1>7
<1>10. \A o \in Runs : o # r /\ create[o].thread = t /\ create[o].pc # "done" =>
         r \in crowded' /\ o \in crowded'
  BY <1>6, <1>8
<1> QED
  BY <1>2, <1>4, <1>5, <1>9, <1>10

\* The agent saves the thread and the checkpoint of its run.
LEMMA SaveDoes ==
  ASSUME Types, Requests, NEW r \in Runs, SaveThread(r)
  PROVE  /\ thread' \in [Threads -> ThreadRow] /\ snapshot' \in [Runs -> SnapshotRow]
         /\ create[r].pc = "save" /\ create[r].thread \in Threads /\ At(r, "load")
         /\ thread'[create[r].thread].latest = r
         /\ \A t \in Threads : t # create[r].thread => thread'[t] = thread[t]
         /\ snapshot'[r].exists /\ snapshot'[r].run = NoRun
         /\ \A o \in Runs : o # r => snapshot'[o] = snapshot[o]
<1>1. thread \in [Threads -> ThreadRow] /\ snapshot \in [Runs -> SnapshotRow]
  BY TypesInParts
<1>2. create[r].pc = "save" /\ At(r, "load")
  BY DEF SaveThread
<1>3. create[r].thread \in Threads
  BY <1>2 DEF Requests, Progress
<1> DEFINE row == [status |-> IF Result(r).interrupt THEN "awaiting_review" ELSE "active",
                   pending |-> IF Result(r).interrupt THEN r ELSE NoRun, latest |-> r]
           copy == [exists |-> TRUE, run |-> NoRun]
<1>4. thread' = [thread EXCEPT ![create[r].thread] = row] /\ snapshot' = [snapshot EXCEPT ![r] = copy]
  BY DEF SaveThread
<1>5. row \in ThreadRow /\ row.latest = r /\ copy \in SnapshotRow
  BY DEF ThreadRow, SnapshotRow
<1>6. thread' \in [Threads -> ThreadRow] /\ thread'[create[r].thread].latest = r
  <2> HIDE DEF row
  <2> QED
    BY <1>1, <1>3, <1>4, <1>5
<1>7. \A t \in Threads : t # create[r].thread => thread'[t] = thread[t]
  BY <1>1, <1>4
<1>8. /\ snapshot' \in [Runs -> SnapshotRow] /\ snapshot'[r] = copy
      /\ \A o \in Runs : o # r => snapshot'[o] = snapshot[o]
  <2> HIDE DEF copy
  <2> QED
    BY <1>1, <1>4, <1>5
<1> QED
  BY <1>2, <1>3, <1>6, <1>7, <1>8

\* The first transaction holds the thread as it is, and what it may adopt.
LEMMA LoadDoes ==
  ASSUME Types, Requests, NEW r \in Runs, LoadThread(r)
  PROVE  /\ create' \in [Runs -> CreateRow]
         /\ create[r].pc = "load" /\ create'[r].pc = "store"
         /\ create'[r].kind = create[r].kind /\ create'[r].thread = create[r].thread
         /\ create[r].thread \in Threads /\ create'[r].loaded = thread[create[r].thread]
         /\ create'[r].free <=> /\ create'[r].loaded.latest # NoRun
                                /\ snapshot[create'[r].loaded.latest].exists
                                /\ snapshot[create'[r].loaded.latest].run = NoRun
         /\ \A o \in Runs : o # r => create'[o] = create[o]
<1>1. create \in [Runs -> CreateRow] /\ thread \in [Threads -> ThreadRow]
  BY TypesInParts
<1>2. create[r].pc = "load"
  BY DEF LoadThread
<1>3. create[r].thread \in Threads
  BY <1>2 DEF Requests, Progress
<1> DEFINE held == thread[create[r].thread]
           row == [pc |-> "store", kind |-> create[r].kind, thread |-> create[r].thread,
                   loaded |-> held, free |-> held.latest # NoRun /\ Adoptable(held.latest)]
<1>4. create' = [create EXCEPT ![r] = row]
  BY DEF LoadThread
<1>5. held \in ThreadRow
  BY <1>1, <1>3
<1>6. row \in CreateRow
  BY <1>1, <1>5 DEF CreateRow
<1>7. create'[r] = row /\ \A o \in Runs : o # r => create'[o] = create[o]
  BY <1>1, <1>4
<1>8. create' \in [Runs -> CreateRow]
  BY <1>1, <1>4, <1>6
<1>9. /\ create'[r].pc = "store" /\ create'[r].kind = create[r].kind
      /\ create'[r].thread = create[r].thread /\ create'[r].loaded = held
      /\ create'[r].free = (held.latest # NoRun /\ Adoptable(held.latest))
  BY <1>7
<1>10. create'[r].free <=> /\ held.latest # NoRun
                           /\ snapshot[held.latest].exists
                           /\ snapshot[held.latest].run = NoRun
  BY <1>9 DEF Adoptable
<1> HIDE DEF row
<1> QED
  BY <1>2, <1>3, <1>7, <1>8, <1>9, <1>10

\* The first transaction stores the run, what changed of the thread, one checkpoint
\* (the run's own or the one it adopts) and the first event.
LEMMA StoreDoes ==
  ASSUME Types, Requests, NEW r \in Runs, StoreRun(r)
  PROVE  /\ create[r].pc = "store" /\ create[r].thread \in Threads /\ create[r].kind \in Kinds
         /\ At(r, IF ShouldCreateCase(Result(r)) THEN "case" ELSE "done")
         /\ run' \in [Runs -> RunRow] /\ run'[r].status = RunStatus(Result(r))
         /\ \A o \in Runs : o # r => run'[o] = run[o]
         /\ thread' \in [Threads -> ThreadRow]
         /\ thread'[create[r].thread].latest \in {r, thread[create[r].thread].latest}
         /\ \A t \in Threads : t # create[r].thread => thread'[t] = thread[t]
         /\ snapshot' \in [Runs -> SnapshotRow]
         /\ \A o \in Runs :
              \/ snapshot'[o] = snapshot[o]
              \/ /\ snapshot'[o].run = r
                 /\ o = r \/ (create[r].free /\ create[r].loaded.latest = o)
         /\ create[r].free /\ create[r].loaded.latest = r => snapshot'[r].run = r
         /\ events' \in [Runs -> SUBSET Event] /\ events'[r] = {[by |-> NoRun, sequence |-> 0]}
         /\ \A o \in Runs : o # r => events'[o] = events[o]
<1> USE TypesInParts
<1>1. create[r].pc = "store" /\ create[r] \in CreateRow
  BY DEF StoreRun
<1>2. create[r].thread \in Threads /\ create[r].kind \in Kinds
  BY <1>1 DEF Requests, Progress, Working
<1>3. /\ Result(r) \in AnswerRow
      /\ RunStatus(Result(r)) \in {"completed", "needs_review", "failed"}
  BY <1>2, ResultsAreTyped
<1>4. At(r, IF ShouldCreateCase(Result(r)) THEN "case" ELSE "done")
  BY DEF StoreRun
<1>5. /\ run' \in [Runs -> RunRow] /\ run'[r].status = RunStatus(Result(r))
      /\ \A o \in Runs : o # r => run'[o] = run[o]
  <2> DEFINE row == [status |-> RunStatus(Result(r)), review |-> Result(r).review, output |-> {}]
  <2>1. run' = [run EXCEPT ![r] = row]
    BY DEF StoreRun
  <2>2. row \in RunRow /\ row.status = RunStatus(Result(r))
    BY <1>3 DEF RunRow, RunStatuses, AnswerRow
  <2> HIDE DEF row
  <2> QED
    BY <2>1, <2>2
<1> DEFINE t == create[r].thread
           old == create[r].loaded
           new == ThreadColumns(r, old)
<1>6. old \in ThreadRow /\ thread[t] \in ThreadRow
  BY <1>1, <1>2 DEF CreateRow
<1>7. new \in ThreadRow /\ new.latest \in {r, old.latest}
  BY <1>3, <1>6 DEF ThreadColumns, ThreadRow, AnswerRow
<1>8. /\ thread' \in [Threads -> ThreadRow]
      /\ thread'[t].latest \in {r, thread[t].latest}
      /\ \A u \in Threads : u # t => thread'[u] = thread[u]
  <2> DEFINE row == [status  |-> Sent(old.status, new.status, thread[t].status),
                     pending |-> Sent(old.pending, new.pending, thread[t].pending),
                     latest  |-> Sent(old.latest, new.latest, thread[t].latest)]
  <2>1. thread' = [thread EXCEPT ![t] = row]
    BY DEF StoreRun
  <2> HIDE DEF old, new
  <2>2. row \in ThreadRow /\ row.latest \in {r, thread[t].latest}
    BY <1>6, <1>7 DEF ThreadRow, Sent
  <2> HIDE DEF row
  <2> QED
    BY <1>2, <2>1, <2>2
<1>9. /\ snapshot' \in [Runs -> SnapshotRow]
      /\ \A o \in Runs :
           \/ snapshot'[o] = snapshot[o]
           \/ /\ snapshot'[o].run = r
              /\ o = r \/ (create[r].free /\ old.latest = o)
      /\ create[r].free /\ old.latest = r => snapshot'[r].run = r
  <2> DEFINE taken == IF Result(r).writes THEN r ELSE old.latest
             copy == [exists |-> TRUE, run |-> r]
  <2>1. snapshot' = IF Result(r).writes \/ create[r].free
                    THEN [snapshot EXCEPT ![taken] = copy] ELSE snapshot
    BY DEF StoreRun
  <2>2. copy \in SnapshotRow /\ copy.run = r
    BY DEF SnapshotRow
  <2>3. Result(r).writes => taken = r
    OBVIOUS
  <2>4. ~Result(r).writes => taken = old.latest
    BY <1>3 DEF AnswerRow
  <2>5. create[r].free => old.latest \in Runs
    BY <1>6 DEF Requests, Progress, ThreadRow
  <2>6. CASE Result(r).writes \/ create[r].free
    <3>1. taken \in Runs
      BY <2>3, <2>4, <2>5, <2>6
    <3>2. taken = r \/ (create[r].free /\ old.latest = taken)
      BY <2>3, <2>4, <2>6
    <3>3. create[r].free /\ old.latest = r => taken = r
      BY <2>3, <2>4
    <3>4. snapshot' = [snapshot EXCEPT ![taken] = copy]
      BY <2>1, <2>6
    <3> HIDE DEF taken, copy
    <3>5. snapshot' \in [Runs -> SnapshotRow] /\ snapshot'[taken].run = r
      BY <2>2, <3>1, <3>4
    <3>6. \A o \in Runs : o # taken => snapshot'[o] = snapshot[o]
      BY <3>1, <3>4
    <3> QED
      BY <3>2, <3>3, <3>5, <3>6
  <2>7. CASE ~(Result(r).writes \/ create[r].free)
    BY <2>1, <2>7
  <2> QED
    BY <2>6, <2>7
<1>10. /\ events' \in [Runs -> SUBSET Event] /\ events'[r] = {[by |-> NoRun, sequence |-> 0]}
       /\ \A o \in Runs : o # r => events'[o] = events[o]
  BY DEF StoreRun, Event
<1> QED
  BY <1>1, <1>2, <1>4, <1>5, <1>8, <1>9, <1>10

\* The case of the run's own request.
LEMMA CaseDoes ==
  ASSUME Types, NEW r \in Runs, CreateCase(r)
  PROVE  /\ create[r].pc = "case" /\ At(r, "link")
         /\ case' \in [Sources -> [Runs -> {"none", "open", "resolved", "rejected"}]]
         /\ case'["agent"][r] = "open"
         /\ \A o \in Runs : o # r => case'["agent"][o] = case["agent"][o]
<1>1. case \in [Sources -> [Runs -> {"none", "open", "resolved", "rejected"}]]
  BY TypesInParts
<1> DEFINE opened == [case["agent"] EXCEPT ![r] = "open"]
<1>2. case' = [case EXCEPT !["agent"] = opened] /\ create[r].pc = "case" /\ At(r, "link")
  BY DEF CreateCase
<1>3. "agent" \in Sources
  BY DEF Sources
<1>4. /\ opened \in [Runs -> {"none", "open", "resolved", "rejected"}]
      /\ opened[r] = "open" /\ \A o \in Runs : o # r => opened[o] = case["agent"][o]
  BY <1>1, <1>3
<1> HIDE DEF opened
<1> QED
  BY <1>1, <1>2, <1>3, <1>4

\* The link to the case writes the status only where it is not the one stored.
LEMMA LinkDoes ==
  ASSUME Types, Requests, NEW r \in Runs, LinkCase(r)
  PROVE  /\ create[r].pc = "link" /\ At(r, "done") /\ create[r].kind \in Kinds /\ ~Locked(r)
         /\ run' \in [Runs -> RunRow]
         /\ run'[r].status = IF RunStatus(Result(r)) = "needs_review" THEN run[r].status
                             ELSE "needs_review"
         /\ \A o \in Runs : o # r => run'[o] = run[o]
<1>1. create[r].pc = "link" /\ At(r, "done") /\ ~Locked(r)
  BY DEF LinkCase
<1>2. create[r].kind \in Kinds
  BY <1>1 DEF Requests, Progress, Working
<1>3. run \in [Runs -> RunRow]
  BY TypesInParts
<1> DEFINE row == [status |-> Sent(RunStatus(Result(r)), "needs_review", run[r].status),
                   review |-> Sent(Result(r).review, TRUE, run[r].review),
                   output |-> {"review_case_id"}]
<1>4. run' = [run EXCEPT ![r] = row]
  BY DEF LinkCase
<1>5. /\ row \in RunRow
      /\ row.status = IF RunStatus(Result(r)) = "needs_review" THEN run[r].status
                      ELSE "needs_review"
  BY <1>3 DEF RunRow, RunStatuses, Sent
<1> HIDE DEF row
<1> QED
  BY <1>1, <1>2, <1>3, <1>4, <1>5

\* A run under decision is stored, so its request is past its first commit.
LEMMA HeldRunsAreStored ==
  ASSUME Types, Requests, NEW q \in Reviewers, resume[q].pc # "idle"
  PROVE  /\ resume[q].run \in Runs
         /\ create[resume[q].run].pc \in {"case", "link", "done", "dead"}
         /\ create[resume[q].run].thread \in Threads
<1>1. resume[q] \in ResumeRow
  BY TypesInParts
<1>2. resume[q].run \in Runs /\ run[resume[q].run].status # "none"
  BY <1>1 DEF Requests, Held, ResumeRow
<1>3. create[resume[q].run] \in CreateRow
  BY <1>2, TypesInParts
<1>4. create[resume[q].run].pc \in {"case", "link", "done", "dead"}
  BY <1>2, <1>3 DEF Requests, Progress, CreateRow
<1> QED
  BY <1>2, <1>4 DEF Requests, Progress

\* The run is loaded while it waits for a reviewer.
LEMMA LoadRunDoes ==
  ASSUME Types, NEW q \in Reviewers, NEW r \in Runs, LoadRun(q, r)
  PROVE  /\ resume' \in [Reviewers -> ResumeRow]
         /\ resume[q].pc = "idle" /\ run[r].status = "needs_review"
         /\ resume'[q].pc = "flush" /\ resume'[q].run = r
         /\ \A p \in Reviewers : p # q => resume'[p] = resume[p]
         /\ contested \subseteq contested' /\ contested' \subseteq Runs
         /\ \A p \in Reviewers : resume[p].run = r => r \in contested'
<1>1. /\ resume \in [Reviewers -> ResumeRow] /\ run \in [Runs -> RunRow]
      /\ contested \subseteq Runs
  BY TypesInParts
<1> DEFINE row == [pc |-> "flush", run |-> r, loaded |-> run[r], thread |-> NoThreadRow,
                   cases |-> {}, sequence |-> 0]
<1>2. /\ resume' = [resume EXCEPT ![q] = row]
      /\ resume[q].pc = "idle" /\ run[r].status = "needs_review"
  BY DEF LoadRun
<1>3. row \in ResumeRow /\ row.pc = "flush" /\ row.run = r
  BY <1>1, EmptyRowsAreTyped DEF ResumeRow
<1>4. contested' = IF \E o \in Reviewers : resume[o].run = r THEN contested \cup {r} ELSE contested
  BY DEF LoadRun
<1>5. /\ contested \subseteq contested' /\ contested' \subseteq Runs
      /\ \A p \in Reviewers : resume[p].run = r => r \in contested'
  BY <1>1, <1>4
<1> HIDE DEF row
<1> QED
  BY <1>1, <1>2, <1>3, <1>5

\* With the run locked, the thread, the open cases and the next number are read.
LEMMA FlushDoes ==
  ASSUME Types, Requests, Timeline, NEW q \in Reviewers, FlushRun(q)
  PROVE  /\ resume[q].pc = "flush" /\ ~Locked(resume[q].run)
         /\ resume' \in [Reviewers -> ResumeRow]
         /\ resume'[q].pc = "commit" /\ resume'[q].run = resume[q].run
         /\ resume'[q].thread = thread[create[resume[q].run].thread]
         /\ resume'[q].cases = LinkedCases(resume[q].run)
         /\ resume'[q].sequence = NextSequence(resume[q].run)
         /\ \A p \in Reviewers : p # q => resume'[p] = resume[p]
         /\ early \subseteq early' /\ early' \subseteq Runs
         /\ InProgress(resume[q].run) => resume[q].run \in early'
<1>1. resume[q].pc = "flush" /\ ~Locked(resume[q].run)
  BY DEF FlushRun
<1>2. resume[q].run \in Runs /\ create[resume[q].run].thread \in Threads
  BY <1>1, HeldRunsAreStored
<1>3. NextSequence(resume[q].run) \in Nat
  BY <1>2, NextSequenceIsNew
<1>4. /\ resume \in [Reviewers -> ResumeRow] /\ thread \in [Threads -> ThreadRow]
      /\ early \subseteq Runs
  BY TypesInParts
<1> DEFINE row == [pc |-> "commit", run |-> resume[q].run, loaded |-> resume[q].loaded,
                   thread |-> thread[create[resume[q].run].thread],
                   cases |-> LinkedCases(resume[q].run),
                   sequence |-> NextSequence(resume[q].run)]
<1>5. /\ resume' = [resume EXCEPT ![q] = row]
      /\ early' = IF InProgress(resume[q].run) THEN early \cup {resume[q].run} ELSE early
  BY DEF FlushRun, Flushed
<1>6. LinkedCases(resume[q].run) \subseteq Sources
  BY DEF LinkedCases
<1>7. row \in ResumeRow
  BY <1>2, <1>3, <1>4, <1>6 DEF ResumeRow
<1>8. /\ row.pc = "commit" /\ row.run = resume[q].run
      /\ row.thread = thread[create[resume[q].run].thread]
      /\ row.cases = LinkedCases(resume[q].run)
      /\ row.sequence = NextSequence(resume[q].run)
  OBVIOUS
<1> HIDE DEF row
<1> QED
  BY <1>1, <1>2, <1>4, <1>5, <1>7, <1>8

\* The decision: run, thread, the cases that were open, and one event.
LEMMA CommitDoes ==
  ASSUME Types, Requests, NEW q \in Reviewers, NEW d \in Decisions, CommitResume(q, d),
         NEW r, r = resume[q].run
  PROVE  /\ resume[q].pc = "commit" /\ r \in Runs /\ create[r].thread \in Threads
         /\ run' \in [Runs -> RunRow] /\ run'[r].status = Verdict(d)
         /\ "resolution" \in run'[r].output
         /\ \A o \in Runs : o # r => run'[o] = run[o]
         /\ thread' \in [Threads -> ThreadRow]
         /\ thread'[create[r].thread].latest = thread[create[r].thread].latest
         /\ resume[q].thread = thread[create[r].thread] =>
              /\ thread'[create[r].thread].status = ThreadVerdict(d)
              /\ thread'[create[r].thread].pending = NoRun
         /\ \A t \in Threads : t # create[r].thread => thread'[t] = thread[t]
         /\ case' \in [Sources -> [Runs -> {"none", "open", "resolved", "rejected"}]]
         /\ case'["agent"][r] = IF "agent" \in resume[q].cases THEN CaseVerdict(d)
                                ELSE case["agent"][r]
         /\ \A o \in Runs : o # r => case'["agent"][o] = case["agent"][o]
         /\ events' \in [Runs -> SUBSET Event]
         /\ events'[r] = events[r] \cup {[by |-> q, sequence |-> resume[q].sequence]}
         /\ \A o \in Runs : o # r => events'[o] = events[o]
<1>1. resume[q].pc = "commit"
  BY DEF CommitResume
<1>2. r \in Runs /\ create[r].thread \in Threads
  BY <1>1, HeldRunsAreStored
<1>3. resume[q] \in ResumeRow
  BY TypesInParts
<1>4. /\ run' \in [Runs -> RunRow] /\ run'[r].status = Verdict(d)
      /\ "resolution" \in run'[r].output
      /\ \A o \in Runs : o # r => run'[o] = run[o]
  <2> DEFINE row == [status |-> Verdict(d),
                     review |-> Sent(resume[q].loaded.review, FALSE, run[r].review),
                     output |-> resume[q].loaded.output \cup {"resolution"}]
  <2>1. run' = [run EXCEPT ![r] = row]
    BY DEF CommitResume
  <2>2. run \in [Runs -> RunRow] /\ run[r] \in RunRow /\ resume[q].loaded \in RunRow
    BY <1>2, <1>3, TypesInParts DEF ResumeRow
  <2>3. row \in RunRow
    BY <2>2 DEF RunRow, RunStatuses, Sent, Verdict
  <2>4. row.status = Verdict(d) /\ "resolution" \in row.output
    OBVIOUS
  <2> HIDE DEF row
  <2> QED
    BY <1>2, <2>1, <2>2, <2>3, <2>4
<1> DEFINE t == create[r].thread
           old == resume[q].thread
<1>5. /\ thread' \in [Threads -> ThreadRow]
      /\ thread'[t].latest = thread[t].latest
      /\ old = thread[t] => thread'[t].status = ThreadVerdict(d) /\ thread'[t].pending = NoRun
      /\ \A u \in Threads : u # t => thread'[u] = thread[u]
  <2> DEFINE row == [status  |-> Sent(old.status, ThreadVerdict(d), thread[t].status),
                     pending |-> Sent(old.pending, NoRun, thread[t].pending),
                     latest  |-> thread[t].latest]
  <2>1. thread' = [thread EXCEPT ![t] = row]
    BY DEF CommitResume
  <2>2. thread \in [Threads -> ThreadRow] /\ thread[t] \in ThreadRow /\ old \in ThreadRow
    BY <1>2, <1>3, TypesInParts DEF ResumeRow
  <2>3. row \in ThreadRow /\ row.latest = thread[t].latest
    BY <2>2 DEF ThreadRow, Sent, ThreadVerdict
  <2>4. old = thread[t] => row.status = ThreadVerdict(d) /\ row.pending = NoRun
    BY DEF Sent
  <2> HIDE DEF row
  <2> QED
    BY <1>2, <2>1, <2>2, <2>3, <2>4
<1>6. /\ case' \in [Sources -> [Runs -> {"none", "open", "resolved", "rejected"}]]
      /\ case'["agent"][r] = IF "agent" \in resume[q].cases THEN CaseVerdict(d)
                             ELSE case["agent"][r]
      /\ \A o \in Runs : o # r => case'["agent"][o] = case["agent"][o]
  <2>1. case' = [s \in Sources |-> [o \in Runs |->
           IF o = r /\ s \in resume[q].cases THEN CaseVerdict(d) ELSE case[s][o]]]
    BY DEF CommitResume
  <2>2. case \in [Sources -> [Runs -> {"none", "open", "resolved", "rejected"}]]
    BY TypesInParts
  <2>3. CaseVerdict(d) \in {"resolved", "rejected"} /\ "agent" \in Sources
    BY DEF CaseVerdict, Sources
  <2> QED
    BY <1>2, <2>1, <2>2, <2>3
<1>7. /\ events' \in [Runs -> SUBSET Event]
      /\ events'[r] = events[r] \cup {[by |-> q, sequence |-> resume[q].sequence]}
      /\ \A o \in Runs : o # r => events'[o] = events[o]
  <2> DEFINE event == [by |-> q, sequence |-> resume[q].sequence]
  <2>1. event \in Event
    BY <1>3 DEF Event, ResumeRow
  <2>2. events' = [events EXCEPT ![r] = events[r] \cup {event}]
    BY DEF CommitResume
  <2>3. events \in [Runs -> SUBSET Event]
    BY TypesInParts
  <2> HIDE DEF event
  <2>4. events' \in [Runs -> SUBSET Event] /\ events'[r] = events[r] \cup {event}
    BY <1>2, <2>1, <2>2, <2>3
  <2>5. \A o \in Runs : o # r => events'[o] = events[o]
    BY <1>2, <2>2, <2>3
  <2> QED
    BY <2>4, <2>5 DEF event
<1> QED
  BY <1>1, <1>2, <1>4, <1>5, <1>6, <1>7

\* A request that commits or fails holds nothing any more.
LEMMA Releases ==
  ASSUME Types, NEW q \in Reviewers, resume' = [resume EXCEPT ![q] = NoResume]
  PROVE  /\ resume' \in [Reviewers -> ResumeRow]
         /\ resume'[q].pc = "idle" /\ resume'[q].run = NoRun
         /\ \A p \in Reviewers : p # q => resume'[p] = resume[p]
<1>1. resume \in [Reviewers -> ResumeRow]
  BY TypesInParts
<1>2. NoResume \in ResumeRow /\ NoResume.pc = "idle" /\ NoResume.run = NoRun
  BY EmptyRowsAreTyped DEF NoResume
<1> QED
  BY <1>1, <1>2

\* A case another system posts is not the run's own.
LEMMA IngestDoes ==
  ASSUME Types, NEW r \in Runs, IngestCase(r)
  PROVE  /\ case' \in [Sources -> [Runs -> {"none", "open", "resolved", "rejected"}]]
         /\ case'["agent"] = case["agent"]
<1>1. case \in [Sources -> [Runs -> {"none", "open", "resolved", "rejected"}]]
  BY TypesInParts
<1> DEFINE opened == [case["ingest"] EXCEPT ![r] = "open"]
<1>2. case' = [case EXCEPT !["ingest"] = opened]
  BY DEF IngestCase
<1>3. "agent" \in Sources /\ "ingest" \in Sources
  BY DEF Sources
<1>4. opened \in [Runs -> {"none", "open", "resolved", "rejected"}]
  BY <1>1, <1>3
<1> HIDE DEF opened
<1> QED
  BY <1>1, <1>2, <1>3, <1>4

\* A request that ends without a word changes nothing but itself.
LEMMA DiesDoes ==
  ASSUME NEW r \in Runs, DuplicateThread(r) \/ CreateDies(r)
  PROVE  /\ create[r].pc \in Working /\ At(r, "dead")
         /\ UNCHANGED <<run, thread, snapshot, case, events, resume, early, contested, crowded>>
  BY DEF DuplicateThread, CreateDies, InProgress, Working

-----------------------------------------------------------------------------
(* Types, the progress of the requests, and the row lock                        *)

LEMMA CoreAtStart == ReviewInit => Core
<1> SUFFICES ASSUME ReviewInit PROVE Core
  OBVIOUS
<1>1. Types
  BY EmptyRowsAreTyped, TypesInParts DEF ReviewInit, SnapshotRow
<1>2. Requests
  BY ReviewAssumption
  DEF ReviewInit, Requests, Progress, Held, NoCreate, NoResume, NoRow, NoThreadRow, Working, Sources
<1>3. Locking
  BY DEF ReviewInit, Locking, NoResume
<1> QED
  BY <1>1, <1>2, <1>3 DEF Core

LEMMA TypesKept == ASSUME Types, Requests, Timeline, [ReviewNext]_reviewVars PROVE Types'
<1> USE TypesInParts, TypesInPartsNext
<1>1. ASSUME NEW r \in Runs, NEW t \in Threads, NEW k \in Kinds, Execute(r, t, k) PROVE Types'
  BY <1>1, ExecuteDoes DEF Execute
<1>2. ASSUME NEW r \in Runs, SaveThread(r) PROVE Types'
  BY <1>2, SaveDoes, AtMoves DEF SaveThread
<1>3. ASSUME NEW r \in Runs, LoadThread(r) PROVE Types'
  BY <1>3, LoadDoes DEF LoadThread
<1>4. ASSUME NEW r \in Runs, StoreRun(r) PROVE Types'
  <2>1. create' \in [Runs -> CreateRow]
    BY <1>4, StoreDoes, AtMoves
  <2> QED
    BY <1>4, <2>1, StoreDoes DEF StoreRun
<1>5. ASSUME NEW r \in Runs, DuplicateThread(r) \/ CreateDies(r) PROVE Types'
  BY <1>5, DiesDoes, AtMoves
<1>6. ASSUME NEW r \in Runs, CreateCase(r) PROVE Types'
  BY <1>6, CaseDoes, AtMoves DEF CreateCase
<1>7. ASSUME NEW r \in Runs, LinkCase(r) PROVE Types'
  BY <1>7, LinkDoes, AtMoves DEF LinkCase
<1>8. ASSUME NEW q \in Reviewers, NEW r \in Runs, LoadRun(q, r) PROVE Types'
  BY <1>8, LoadRunDoes DEF LoadRun
<1>9. ASSUME NEW q \in Reviewers, FlushRun(q) PROVE Types'
  BY <1>9, FlushDoes DEF FlushRun, Flushed
<1>10. ASSUME NEW q \in Reviewers, NEW d \in Decisions, CommitResume(q, d) PROVE Types'
  <2>1. resume' \in [Reviewers -> ResumeRow]
    BY <1>10, Releases DEF CommitResume
  <2>2. /\ run' \in [Runs -> RunRow] /\ thread' \in [Threads -> ThreadRow]
        /\ case' \in [Sources -> [Runs -> {"none", "open", "resolved", "rejected"}]]
        /\ events' \in [Runs -> SUBSET Event]
    BY <1>10, CommitDoes
  <2> QED
    BY <1>10, <2>1, <2>2 DEF CommitResume
<1>11. ASSUME NEW q \in Reviewers, ResumeFails(q) PROVE Types'
  BY <1>11, Releases DEF ResumeFails
<1>12. ASSUME NEW r \in Runs, IngestCase(r) PROVE Types'
  BY <1>12, IngestDoes DEF IngestCase
<1>13. ASSUME UNCHANGED reviewVars PROVE Types'
  BY <1>13 DEF reviewVars
<1> QED
  BY <1>1, <1>2, <1>3, <1>4, <1>5, <1>6, <1>7, <1>8, <1>9, <1>10, <1>11, <1>12, <1>13
  DEF ReviewNext, CreateStep, ResumeStep

\* A request stays where it is when its rows do.
LEMMA ProgressStays ==
  ASSUME NEW o, Progress(o), create'[o] = create[o], run'[o] = run[o], events'[o] = events[o],
         case'["agent"][o] = case["agent"][o]
  PROVE  Progress(o)'
  BY DEF Progress

LEMMA RequestsKept == ASSUME Types, Requests, Timeline, [ReviewNext]_reviewVars PROVE Requests'
<1>1. ASSUME NEW r \in Runs, NEW t \in Threads, NEW k \in Kinds, Execute(r, t, k) PROVE Requests'
  BY <1>1, ExecuteDoes DEF Execute, Requests, Progress, Held
<1>2. ASSUME NEW r \in Runs, SaveThread(r) PROVE Requests'
  <2>1. UNCHANGED <<run, case, events, resume>>
    BY <1>2 DEF SaveThread
  <2>2. Progress(r)'
    BY <1>2, <2>1, SaveDoes, AtMoves DEF Requests, Progress, Working
  <2>3. \A o \in Runs : o # r => create'[o] = create[o]
    BY <1>2, SaveDoes, AtMoves
  <2>4. \A o \in Runs : o # r => Progress(o)'
    BY <2>1, <2>3, ProgressStays DEF Requests
  <2>5. ASSUME NEW q \in Reviewers PROVE Held(q)'
    BY <2>1, <2>3, HeldRunsAreStored, SaveDoes, <1>2 DEF Requests, Held
  <2> QED
    BY <2>2, <2>4, <2>5 DEF Requests
<1>3. ASSUME NEW r \in Runs, LoadThread(r) PROVE Requests'
  <2>1. UNCHANGED <<run, case, events, resume>>
    BY <1>3 DEF LoadThread
  <2>2. Progress(r)'
    BY <1>3, <2>1, LoadDoes DEF Requests, Progress, Working
  <2>3. \A o \in Runs : o # r => Progress(o)'
    BY <1>3, <2>1, LoadDoes, ProgressStays DEF Requests
  <2>4. ASSUME NEW q \in Reviewers PROVE Held(q)'
    BY <1>3, <2>1, LoadDoes, HeldRunsAreStored DEF Requests, Held
  <2> QED
    BY <2>2, <2>3, <2>4 DEF Requests
<1>4. ASSUME NEW r \in Runs, StoreRun(r) PROVE Requests'
  <2>1. UNCHANGED <<case, resume>> /\ case["agent"][r] = "none" /\ run[r].status = "none"
    BY <1>4, StoreDoes DEF StoreRun, Requests, Progress
  <2> DEFINE pc == IF ShouldCreateCase(Result(r)) THEN "case" ELSE "done"
  <2>2. pc \in {"case", "done"} /\ At(r, pc)
    BY <1>4, StoreDoes
  <2> HIDE DEF pc
  <2>3. Progress(r)'
    BY <1>4, <2>1, <2>2, StoreDoes, AtMoves DEF Progress, Working
  <2>4. \A o \in Runs : o # r => create'[o] = create[o]
    BY <2>2, AtMoves
  <2>5. \A o \in Runs : o # r => Progress(o)'
    BY <1>4, <2>1, <2>4, StoreDoes, ProgressStays DEF Requests
  <2>6. \A q \in Reviewers : resume[q].pc # "idle" => resume[q].run # r
    BY <2>1 DEF Requests, Held
  <2>7. ASSUME NEW q \in Reviewers PROVE Held(q)'
    BY <1>4, <2>1, <2>4, <2>6, StoreDoes, HeldRunsAreStored DEF Requests, Held
  <2> QED
    BY <2>3, <2>5, <2>7 DEF Requests
<1>5. ASSUME NEW r \in Runs, DuplicateThread(r) \/ CreateDies(r) PROVE Requests'
  <2>1. UNCHANGED <<run, case, events, resume>> /\ At(r, "dead") /\ create[r].pc \in Working
    BY <1>5, DiesDoes
  <2>2. Progress(r)'
    BY <2>1, AtMoves DEF Requests, Progress, Working
  <2>3. \A o \in Runs : o # r => Progress(o)'
    BY <2>1, AtMoves, ProgressStays DEF Requests
  <2>4. ASSUME NEW q \in Reviewers PROVE Held(q)'
    BY <2>1, AtMoves, HeldRunsAreStored DEF Requests, Held
  <2> QED
    BY <2>2, <2>3, <2>4 DEF Requests
<1>6. ASSUME NEW r \in Runs, CreateCase(r) PROVE Requests'
  <2>1. UNCHANGED <<run, events, resume>>
    BY <1>6 DEF CreateCase
  <2>2. Progress(r)'
    BY <1>6, <2>1, CaseDoes, AtMoves DEF Requests, Progress, Working
  <2>3. \A o \in Runs : o # r => Progress(o)'
    <3>1. At(r, "link")
      BY <1>6, CaseDoes
    <3>2. \A o \in Runs : o # r =>
            /\ create'[o] = create[o] /\ run'[o] = run[o] /\ events'[o] = events[o]
            /\ case'["agent"][o] = case["agent"][o]
      <4>1. \A o \in Runs : o # r => create'[o] = create[o]
        BY <3>1, AtMoves
      <4>2. \A o \in Runs : o # r => case'["agent"][o] = case["agent"][o]
        BY <1>6, CaseDoes
      <4> QED
        BY <2>1, <4>1, <4>2
    <3> QED
      BY <3>2, ProgressStays DEF Requests
  <2>4. create'[r].pc # "case" /\ \A o \in Runs : o # r => create'[o] = create[o]
    BY <1>6, CaseDoes, AtMoves
  <2>5. ASSUME NEW q \in Reviewers PROVE Held(q)'
    BY <2>1, <2>4, HeldRunsAreStored DEF Requests, Held
  <2> QED
    BY <2>2, <2>3, <2>5 DEF Requests
<1>7. ASSUME NEW r \in Runs, LinkCase(r) PROVE Requests'
  <2>1. UNCHANGED <<case, events, resume>>
    BY <1>7 DEF LinkCase
  <2>2. Progress(r)'
    BY <1>7, <2>1, LinkDoes, AtMoves DEF Requests, Progress, Working
  <2>3. \A o \in Runs : o # r => Progress(o)'
    <3>1. At(r, "done")
      BY <1>7, LinkDoes
    <3>2. \A o \in Runs : o # r =>
            /\ create'[o] = create[o] /\ run'[o] = run[o] /\ events'[o] = events[o]
            /\ case'["agent"][o] = case["agent"][o]
      BY <1>7, <2>1, <3>1, LinkDoes, AtMoves
    <3> QED
      BY <3>2, ProgressStays DEF Requests
  <2>4. create'[r].pc # "case" /\ \A o \in Runs : o # r => create'[o] = create[o]
    BY <1>7, LinkDoes, AtMoves
  <2>5. \A o \in Runs : run[o].status # "none" => run'[o].status # "none"
    BY <1>7, LinkDoes
  <2>6. ASSUME NEW q \in Reviewers PROVE Held(q)'
    BY <2>1, <2>4, <2>5, HeldRunsAreStored DEF Requests, Held
  <2> QED
    BY <2>2, <2>3, <2>6 DEF Requests
<1>8. ASSUME NEW q \in Reviewers, NEW r \in Runs, LoadRun(q, r) PROVE Requests'
  BY <1>8, LoadRunDoes, ReviewAssumption DEF LoadRun, Requests, Progress, Held
<1>9. ASSUME NEW q \in Reviewers, FlushRun(q) PROVE Requests'
  <2>1. UNCHANGED <<run, case, events, create>>
    BY <1>9 DEF FlushRun, Flushed
  <2>2. \A r \in Runs : Progress(r)'
    BY <2>1 DEF Requests, Progress
  <2>3. resume[q].run \in Runs
    BY <1>9, FlushDoes, HeldRunsAreStored
  <2>4. "agent" \in LinkedCases(resume[q].run) => create[resume[q].run].pc # "case"
    BY <2>3 DEF LinkedCases, Requests, Progress
  <2>5. ASSUME NEW p \in Reviewers PROVE Held(p)'
    BY <1>9, <2>1, <2>4, FlushDoes DEF Requests, Held
  <2> QED
    BY <2>2, <2>5 DEF Requests
<1>10. ASSUME NEW q \in Reviewers, NEW d \in Decisions, CommitResume(q, d) PROVE Requests'
  <2>1. UNCHANGED create /\ resume[q].pc = "commit" /\ resume' = [resume EXCEPT ![q] = NoResume]
    BY <1>10 DEF CommitResume
  <2> PICK r \in Runs : r = resume[q].run
    BY <2>1, HeldRunsAreStored
  <2>2. create[r].pc \in {"case", "link", "done", "dead"}
    BY <2>1, HeldRunsAreStored
  <2>3. run'[r].status # "none"
    BY <1>10, CommitDoes DEF Verdict
  <2>4. \A o \in Runs : o # r => Progress(o)'
    BY <1>10, <2>1, CommitDoes, ProgressStays DEF Requests
  <2>5. create[r].pc = "case" => case'["agent"][r] = case["agent"][r]
    BY <1>10, <2>1, CommitDoes DEF Requests, Held
  <2>6. Progress(r)'
    BY <2>1, <2>2, <2>5 DEF Requests, Progress
  <2>7. \A o \in Runs : o # r => run'[o] = run[o]
    BY <1>10, CommitDoes
  <2>8. ASSUME NEW p \in Reviewers PROVE Held(p)'
    <3>1. CASE p = q
      BY <2>1, <3>1, Releases DEF Held
    <3>2. CASE p # q
      BY <2>1, <2>3, <2>7, <3>2, Releases, HeldRunsAreStored DEF Requests, Held
    <3> QED
      BY <3>1, <3>2
  <2> QED
    BY <2>4, <2>6, <2>8 DEF Requests
<1>11. ASSUME NEW q \in Reviewers, ResumeFails(q) PROVE Requests'
  BY <1>11, Releases DEF ResumeFails, Requests, Progress, Held
<1>12. ASSUME NEW r \in Runs, IngestCase(r) PROVE Requests'
  BY <1>12, IngestDoes DEF IngestCase, Requests, Progress, Held
<1>13. ASSUME UNCHANGED reviewVars PROVE Requests'
  BY <1>13 DEF reviewVars, Requests, Progress, Held
<1> QED
  BY <1>1, <1>2, <1>3, <1>4, <1>5, <1>6, <1>7, <1>8, <1>9, <1>10, <1>11, <1>12, <1>13
  DEF ReviewNext, CreateStep, ResumeStep

LEMMA LockingKept == ASSUME Types, Requests, Timeline, Locking, [ReviewNext]_reviewVars PROVE Locking'
<1>1. CASE resume' = resume
  BY <1>1 DEF Locking
<1>2. ASSUME NEW q \in Reviewers, NEW r \in Runs, LoadRun(q, r) PROVE Locking'
  BY <1>2, LoadRunDoes DEF Locking
<1>3. ASSUME NEW q \in Reviewers, FlushRun(q) PROVE Locking'
  BY <1>3, FlushDoes DEF Locking, Locked
<1>4. ASSUME NEW q \in Reviewers, NEW d \in Decisions, CommitResume(q, d) PROVE Locking'
  <2>1. resume' = [resume EXCEPT ![q] = NoResume]
    BY <1>4 DEF CommitResume
  <2>2. resume'[q].pc = "idle" /\ \A p \in Reviewers : p # q => resume'[p] = resume[p]
    BY <2>1, Releases
  <2> QED
    BY <2>2 DEF Locking
<1>5. ASSUME NEW q \in Reviewers, ResumeFails(q) PROVE Locking'
  BY <1>5, Releases DEF ResumeFails, Locking
<1> QED
  BY <1>1, <1>2, <1>3, <1>4, <1>5
  DEF ReviewNext, CreateStep, ResumeStep, Execute, SaveThread, LoadThread, StoreRun, DuplicateThread,
      CreateCase, LinkCase, CreateDies, IngestCase, reviewVars

-----------------------------------------------------------------------------
(* The timeline of a run                                                        *)

LEMMA TimelineAtStart == ReviewInit => Timeline
  BY DEF ReviewInit, Timeline, NoResume

LEMMA TimelineKept ==
  ASSUME Core, Timeline, [ReviewNext]_reviewVars
  PROVE  Timeline'
<1> USE DEF Core
<1>1. CASE UNCHANGED <<events, resume>>
  BY <1>1 DEF Timeline
<1>2. ASSUME NEW r \in Runs, StoreRun(r) PROVE Timeline'
  <2>1. events'[r] = {[by |-> NoRun, sequence |-> 0]} /\ \A o \in Runs : o # r => events'[o] = events[o]
    BY <1>2, StoreDoes
  <2>2. resume' = resume
    BY <1>2 DEF StoreRun
  <2>3. run[r].status = "none"
    BY <1>2, StoreDoes DEF Requests, Progress
  <2>4. \A q \in Reviewers : resume[q].pc = "commit" => resume[q].run \in Runs /\ resume[q].run # r
    BY <2>3, HeldRunsAreStored DEF Requests, Held
  <2>5. \A o \in Runs : o # r =>
          /\ events'[o] # {} => \E m \in events'[o] : \A e \in events'[o] : e.sequence <= m.sequence
          /\ \A e \in events'[o] : e.by = NoRun => e.sequence = 0
          /\ \A e, f \in events'[o] : e # f => e.sequence # f.sequence
    BY <2>1 DEF Timeline
  <2>6. /\ \E m \in events'[r] : \A e \in events'[r] : e.sequence <= m.sequence
        /\ \A e \in events'[r] : e.by = NoRun => e.sequence = 0
        /\ \A e, f \in events'[r] : e # f => e.sequence # f.sequence
    BY <2>1
  <2>7. \A q \in Reviewers : resume'[q].pc = "commit" =>
          \A e \in events'[resume'[q].run] : e.sequence < resume'[q].sequence
    BY <2>1, <2>2, <2>4 DEF Timeline
  <2> QED
    BY <2>5, <2>6, <2>7 DEF Timeline
<1>3. ASSUME NEW q \in Reviewers, NEW r \in Runs, LoadRun(q, r) PROVE Timeline'
  BY <1>3, LoadRunDoes DEF LoadRun, Timeline
<1>4. ASSUME NEW q \in Reviewers, FlushRun(q) PROVE Timeline'
  <2>1. resume[q].run \in Runs
    BY <1>4, FlushDoes, HeldRunsAreStored
  <2>2. \A e \in events[resume[q].run] : e.sequence < NextSequence(resume[q].run)
    BY <2>1, NextSequenceIsNew
  <2>3. events' = events
    BY <1>4 DEF FlushRun, Flushed
  <2> QED
    BY <1>4, <2>2, <2>3, FlushDoes DEF Timeline
<1>5. ASSUME NEW q \in Reviewers, NEW d \in Decisions, CommitResume(q, d) PROVE Timeline'
  <2>1. resume[q].pc = "commit" /\ resume' = [resume EXCEPT ![q] = NoResume]
    BY <1>5 DEF CommitResume
  <2> PICK r \in Runs : r = resume[q].run
    BY <2>1, HeldRunsAreStored
  <2> DEFINE last == [by |-> q, sequence |-> resume[q].sequence]
  <2>2. events'[r] = events[r] \cup {last} /\ \A o \in Runs : o # r => events'[o] = events[o]
    BY <1>5, CommitDoes
  <2>3. /\ last.by # NoRun /\ last.sequence \in Nat
        /\ \A e \in events[r] : e.sequence \in Nat /\ e.sequence < last.sequence
    BY <2>1, ReviewAssumption, TypesInParts DEF Timeline, ResumeRow, Event
  <2>4. resume'[q].pc = "idle" /\ \A p \in Reviewers : p # q => resume'[p] = resume[p]
    BY <2>1, Releases
  <2>5. \A p \in Reviewers : p # q /\ resume[p].pc = "commit" =>
          resume[p].run \in Runs /\ resume[p].run # r
    BY <2>1, HeldRunsAreStored DEF Locking
  <2> HIDE DEF last
  <2>6. \A o \in Runs : o # r =>
          /\ events'[o] # {} => \E m \in events'[o] : \A e \in events'[o] : e.sequence <= m.sequence
          /\ \A e \in events'[o] : e.by = NoRun => e.sequence = 0
          /\ \A e, f \in events'[o] : e # f => e.sequence # f.sequence
    BY <2>2 DEF Timeline
  <2>7. \E m \in events'[r] : \A e \in events'[r] : e.sequence <= m.sequence
    <3>1. \A e \in events'[r] : e.sequence <= last.sequence
      BY <2>2, <2>3
    <3> QED
      BY <2>2, <3>1
  <2>8. \A e \in events'[r] : e.by = NoRun => e.sequence = 0
    BY <2>2, <2>3 DEF Timeline
  <2>9. \A e, f \in events'[r] : e # f => e.sequence # f.sequence
    BY <2>2, <2>3 DEF Timeline
  <2>10. \A p \in Reviewers : resume'[p].pc = "commit" =>
           \A e \in events'[resume'[p].run] : e.sequence < resume'[p].sequence
    BY <2>2, <2>4, <2>5 DEF Timeline
  <2> QED
    BY <2>6, <2>7, <2>8, <2>9, <2>10 DEF Timeline
<1>6. ASSUME NEW q \in Reviewers, ResumeFails(q) PROVE Timeline'
  BY <1>6, Releases DEF ResumeFails, Timeline
<1> QED
  BY <1>1, <1>2, <1>3, <1>4, <1>5, <1>6
  DEF ReviewNext, CreateStep, ResumeStep, Execute, SaveThread, LoadThread, DuplicateThread, CreateCase,
      LinkCase, CreateDies, IngestCase, reviewVars

LEMMA TimelineIsOne == ASSUME Types, Timeline PROVE OneTimeline
<1> SUFFICES ASSUME NEW r \in Runs, NEW e \in events[r], NEW f \in events[r], e # f
             PROVE  e.sequence # f.sequence /\ (e.by = NoRun => e.sequence < f.sequence)
  BY DEF OneTimeline
<1>1. e.sequence \in Nat /\ f.sequence \in Nat
  BY TypesInParts DEF Event
<1> QED
  BY <1>1 DEF Timeline

\* The steps that store nothing a reviewer sees.
Quietly(r) ==
  \/ \E t \in Threads, k \in Kinds : Execute(r, t, k)
  \/ SaveThread(r) \/ LoadThread(r) \/ DuplicateThread(r) \/ CreateDies(r)

LEMMA QuietSteps ==
  ASSUME Types, Requests, NEW r \in Runs, Quietly(r)
  PROVE  /\ UNCHANGED <<run, case, events, resume, early, contested>>
         /\ create[r].pc \notin {"done", "dead"}
         /\ create'[r].pc \in {"save", "load", "store", "dead"}
         /\ \A o \in Runs : o # r => create'[o] = create[o]
<1>1. ASSUME NEW t \in Threads, NEW k \in Kinds, Execute(r, t, k)
      PROVE  /\ create[r].pc = "none" /\ create'[r].pc \in {"save", "load"}
             /\ UNCHANGED <<run, case, events, resume, early, contested>>
             /\ \A o \in Runs : o # r => create'[o] = create[o]
  BY <1>1, ExecuteDoes DEF Execute
<1>2. CASE SaveThread(r)
  BY <1>2, SaveDoes, AtMoves DEF SaveThread
<1>3. CASE LoadThread(r)
  BY <1>3, LoadDoes DEF LoadThread
<1>4. CASE DuplicateThread(r) \/ CreateDies(r)
  BY <1>4, DiesDoes, AtMoves DEF Working
<1> QED
  BY <1>1, <1>2, <1>3, <1>4 DEF Quietly

-----------------------------------------------------------------------------
(* The queue                                                                    *)

LEMMA QueueAtStart == ReviewInit => Queue
  BY DEF ReviewInit, Queue, Queued, NoCreate

\* What a request holds after its first commit is what the agent returned.
LEMMA ResultStays ==
  ASSUME NEW o, create'[o].kind = create[o].kind
  PROVE  Result(o)' = Result(o)
  BY DEF Result

LEMMA QueuedStays ==
  ASSUME NEW o, Queued(o), create'[o] = create[o], run'[o] = run[o], events'[o] = events[o],
         case'["agent"][o] = case["agent"][o],
         \A q \in Reviewers : resume'[q].run = o => \E p \in Reviewers : resume[p].run = o
  PROVE  Queued(o)'
<1>1. Result(o)' = Result(o)
  BY ResultStays
<1>2. Decided(o)' = Decided(o)
  BY DEF Decided
<1> QED
  BY <1>1, <1>2 DEF Queued

LEMMA QueueKept ==
  ASSUME Core, Timeline, Queue, [ReviewNext]_reviewVars
  PROVE  Queue'
<1> USE DEF Core
<1>1. ASSUME NEW r \in Runs, Quietly(r) PROVE Queue'
  <2>1. /\ UNCHANGED <<run, case, events, resume>>
        /\ create'[r].pc \in {"save", "load", "store", "dead"}
        /\ \A o \in Runs : o # r => create'[o] = create[o]
    BY <1>1, QuietSteps
  <2>2. \A o \in Runs : o # r => Queued(o)'
    BY <2>1, QueuedStays DEF Queue
  <2> QED
    BY <2>1, <2>2 DEF Queue, Queued
<1>2. ASSUME NEW r \in Runs, StoreRun(r) PROVE Queue'
  <2>1. UNCHANGED <<case, resume>>
    BY <1>2 DEF StoreRun
  <2> DEFINE pc == IF ShouldCreateCase(Result(r)) THEN "case" ELSE "done"
  <2>2. pc \in {"case", "done"} /\ At(r, pc) /\ create[r].kind \in Kinds /\ run[r].status = "none"
    BY <1>2, StoreDoes DEF Requests, Progress
  <2>3. RunStatus(Result(r)) = "needs_review" => pc = "case"
    BY <2>2, ResultsAreTyped
  <2> HIDE DEF pc
  <2>4. create'[r].pc = pc /\ \A o \in Runs : o # r => create'[o] = create[o]
    BY <2>2, AtMoves
  <2>5. pc = "case" => Result(r)' = Result(r)
    BY <2>2, AtMoves, ResultStays
  <2>6. run'[r].status = RunStatus(Result(r)) /\ ~Decided(r)'
    BY <1>2, StoreDoes DEF Decided
  <2>7. \A q \in Reviewers : resume'[q].run # r
    BY <2>1, <2>2, ReviewAssumption DEF Requests, Held
  <2>8. Queued(r)'
    BY <2>2, <2>3, <2>4, <2>5, <2>6, <2>7 DEF Queued
  <2>9. \A o \in Runs : o # r => run'[o] = run[o] /\ events'[o] = events[o]
    BY <1>2, StoreDoes
  <2>10. \A o \in Runs : o # r => Queued(o)'
    BY <2>1, <2>4, <2>9, QueuedStays DEF Queue
  <2> QED
    BY <2>8, <2>10 DEF Queue
<1>3. ASSUME NEW r \in Runs, CreateCase(r) PROVE Queue'
  <2>1. UNCHANGED <<run, events, resume>>
    BY <1>3 DEF CreateCase
  <2>2. /\ create'[r].pc = "link" /\ create[r].pc = "case" /\ create'[r].kind = create[r].kind
        /\ \A o \in Runs : o # r => create'[o] = create[o]
    BY <1>3, CaseDoes, AtMoves
  <2>3. case'["agent"][r] = "open" /\ \A o \in Runs : o # r => case'["agent"][o] = case["agent"][o]
    BY <1>3, CaseDoes
  <2>4. Result(r)' = Result(r) /\ Decided(r)' = Decided(r)
    BY <2>1, <2>2, ResultStays DEF Decided
  <2>5. Queued(r)'
    BY <2>1, <2>2, <2>3, <2>4 DEF Queue, Queued
  <2>6. \A o \in Runs : o # r => Queued(o)'
    BY <2>1, <2>2, <2>3, QueuedStays DEF Queue
  <2> QED
    BY <2>5, <2>6 DEF Queue
<1>4. ASSUME NEW r \in Runs, LinkCase(r) PROVE Queue'
  <2>1. UNCHANGED <<case, events, resume>>
    BY <1>4 DEF LinkCase
  <2>2. /\ create'[r].pc = "done" /\ create[r].pc = "link"
        /\ \A o \in Runs : o # r => create'[o] = create[o]
    BY <1>4, LinkDoes, AtMoves
  <2>3. /\ run'[r].status = IF RunStatus(Result(r)) = "needs_review" THEN run[r].status
                            ELSE "needs_review"
        /\ \A o \in Runs : o # r => run'[o] = run[o]
    BY <1>4, LinkDoes
  <2>4. Queued(r)'
    BY <2>1, <2>2, <2>3 DEF Queue, Queued
  <2>5. \A o \in Runs : o # r => Queued(o)'
    BY <2>1, <2>2, <2>3, QueuedStays DEF Queue
  <2> QED
    BY <2>4, <2>5 DEF Queue
<1>5. ASSUME NEW q \in Reviewers, NEW r \in Runs, LoadRun(q, r) PROVE Queue'
  <2>1. UNCHANGED <<run, case, events, create>> /\ run[r].status = "needs_review"
    BY <1>5 DEF LoadRun
  <2>2. resume'[q].run = r /\ \A p \in Reviewers : p # q => resume'[p] = resume[p]
    BY <1>5, LoadRunDoes
  <2>3. Queued(r)'
    BY <2>1 DEF Queue, Queued, Result, Decided
  <2>4. \A o \in Runs : o # r => Queued(o)'
    BY <2>1, <2>2, QueuedStays DEF Queue
  <2> QED
    BY <2>3, <2>4 DEF Queue
<1>6. ASSUME NEW q \in Reviewers, FlushRun(q) PROVE Queue'
  <2>1. UNCHANGED <<run, case, events, create>>
    BY <1>6 DEF FlushRun, Flushed
  <2>2. \A p \in Reviewers : resume'[p].run = resume[p].run
    BY <1>6, FlushDoes
  <2> QED
    BY <2>1, <2>2, QueuedStays DEF Queue
<1>7. ASSUME NEW q \in Reviewers, NEW d \in Decisions, CommitResume(q, d) PROVE Queue'
  <2>1. /\ resume[q].pc = "commit" /\ resume' = [resume EXCEPT ![q] = NoResume]
        /\ UNCHANGED create
    BY <1>7 DEF CommitResume
  <2> PICK r \in Runs : r = resume[q].run
    BY <2>1, HeldRunsAreStored
  <2>2. /\ run'[r].status = Verdict(d)
        /\ \A o \in Runs : o # r => run'[o] = run[o]
        /\ \A o \in Runs : o # r => case'["agent"][o] = case["agent"][o]
        /\ \A o \in Runs : o # r => events'[o] = events[o]
    BY <1>7, CommitDoes
  <2>3. Result(r)' = Result(r)
    BY <2>1, ResultStays
  <2>4. Queued(r)'
    BY <2>1, <2>2, <2>3 DEF Queue, Queued, Verdict
  <2>5. \A p \in Reviewers : resume'[p].run = NoRun \/ resume'[p].run = resume[p].run
    BY <2>1, Releases
  <2>6. \A o \in Runs : o # r => Queued(o)'
    BY <2>1, <2>2, <2>5, QueuedStays, ReviewAssumption DEF Queue
  <2> QED
    BY <2>4, <2>6 DEF Queue
<1>8. ASSUME NEW q \in Reviewers, ResumeFails(q) PROVE Queue'
  <2>1. UNCHANGED <<run, case, events, create>> /\ resume' = [resume EXCEPT ![q] = NoResume]
    BY <1>8 DEF ResumeFails
  <2>2. \A p \in Reviewers : resume'[p].run = NoRun \/ resume'[p].run = resume[p].run
    BY <2>1, Releases
  <2> QED
    BY <2>1, <2>2, QueuedStays, ReviewAssumption DEF Queue
<1>9. ASSUME NEW r \in Runs, IngestCase(r) PROVE Queue'
  <2>1. UNCHANGED <<run, events, create, resume>>
    BY <1>9 DEF IngestCase
  <2>2. case'["agent"] = case["agent"]
    BY <1>9, IngestDoes
  <2> QED
    BY <2>1, <2>2, QueuedStays DEF Queue
<1>10. ASSUME UNCHANGED reviewVars PROVE Queue'
  BY <1>10, QueuedStays DEF reviewVars, Queue
<1> QED
  BY <1>1, <1>2, <1>3, <1>4, <1>5, <1>6, <1>7, <1>8, <1>9, <1>10
  DEF ReviewNext, CreateStep, ResumeStep, Quietly

-----------------------------------------------------------------------------
(* A decision closes the run's case                                             *)

LEMMA ClosingAtStart == ReviewInit => Closing
  BY DEF ReviewInit, Closing, ClosesIn, Closed, Decided, NoResume

LEMMA ClosedStays ==
  ASSUME NEW o, Closed(o), early \subseteq early', create'[o] = create[o], run'[o] = run[o],
         events'[o] = events[o], case'["agent"][o] = case["agent"][o]
  PROVE  Closed(o)'
  BY DEF Closed, Decided, Ended

LEMMA ClosesInStays ==
  ASSUME Types, Requests, NEW p \in Reviewers, ClosesIn(p), early \subseteq early',
         resume'[p] = resume[p], create'[resume[p].run] = create[resume[p].run],
         case'["agent"][resume[p].run] = case["agent"][resume[p].run]
  PROVE  ClosesIn(p)'
  BY DEF ClosesIn, Ended

LEMMA ClosingKept ==
  ASSUME Core, Timeline, Closing, [ReviewNext]_reviewVars
  PROVE  Closing'
<1> USE DEF Core
<1>1. ASSUME NEW r \in Runs, ~Ended(r), \A o \in Runs : o # r => create'[o] = create[o],
             \A o \in Runs : o # r => case'["agent"][o] = case["agent"][o],
             \A o \in Runs : o # r => run'[o] = run[o],
             UNCHANGED <<events, resume, early>>
      PROVE  Closing'
  <2>1. \A o \in Runs : o # r => Closed(o)'
    BY <1>1, ClosedStays DEF Closing
  <2>2. Closed(r)'
    BY <1>1 DEF Closing, Closed, Decided
  <2>3. ASSUME NEW q \in Reviewers, resume[q].pc = "commit", resume[q].run \notin early
        PROVE  resume[q].run \in Runs /\ resume[q].run # r
    BY <1>1, <2>3, HeldRunsAreStored DEF Closing, ClosesIn
  <2>4. ASSUME NEW q \in Reviewers PROVE ClosesIn(q)'
    BY <1>1, <2>3 DEF Closing, ClosesIn, Ended
  <2> QED
    BY <2>1, <2>2, <2>4 DEF Closing
<1>2. ASSUME NEW r \in Runs, Quietly(r) PROVE Closing'
  BY <1>1, <1>2, QuietSteps DEF Ended
<1>3. ASSUME NEW r \in Runs, StoreRun(r) PROVE Closing'
  <2>1. UNCHANGED <<case, resume, early>>
    BY <1>3 DEF StoreRun
  <2>2. run[r].status = "none" /\ \A o \in Runs : o # r => run'[o] = run[o] /\ events'[o] = events[o]
    BY <1>3, StoreDoes DEF Requests, Progress
  <2>3. ~Decided(r)'
    BY <1>3, StoreDoes DEF Decided
  <2> DEFINE pc == IF ShouldCreateCase(Result(r)) THEN "case" ELSE "done"
  <2>4. pc \in {"case", "done"} /\ At(r, pc)
    BY <1>3, StoreDoes
  <2> HIDE DEF pc
  <2>5. \A o \in Runs : o # r => create'[o] = create[o]
    BY <2>4, AtMoves
  <2>6. \A o \in Runs : o # r => Closed(o)'
    BY <2>1, <2>2, <2>5, ClosedStays DEF Closing
  <2>7. ASSUME NEW q \in Reviewers PROVE ClosesIn(q)'
    <3>1. CASE resume[q].pc = "commit"
      <4>1. resume[q].run \in Runs /\ resume[q].run # r
        BY <2>2, <3>1, HeldRunsAreStored DEF Requests, Held
      <4> QED
        BY <2>1, <2>5, <4>1, ClosesInStays DEF Closing
    <3>2. CASE resume[q].pc # "commit"
      BY <2>1, <3>2 DEF ClosesIn
    <3> QED
      BY <3>1, <3>2
  <2> QED
    BY <2>3, <2>6, <2>7 DEF Closing, Closed
<1>4. ASSUME NEW r \in Runs, CreateCase(r) PROVE Closing'
  <2>1. UNCHANGED <<run, events, resume, early>>
    BY <1>4 DEF CreateCase
  <2>2. create[r].pc = "case" /\ \A o \in Runs : o # r => create'[o] = create[o]
    BY <1>4, CaseDoes, AtMoves
  <2>3. \A o \in Runs : o # r => case'["agent"][o] = case["agent"][o]
    BY <1>4, CaseDoes
  <2> QED
    BY <1>1, <2>1, <2>2, <2>3 DEF Ended
<1>5. ASSUME NEW r \in Runs, LinkCase(r) PROVE Closing'
  <2>1. UNCHANGED <<case, events, resume, early>>
    BY <1>5 DEF LinkCase
  <2>2. create[r].pc = "link" /\ \A o \in Runs : o # r => create'[o] = create[o]
    BY <1>5, LinkDoes, AtMoves
  <2>3. \A o \in Runs : o # r => run'[o] = run[o]
    BY <1>5, LinkDoes
  <2> QED
    BY <1>1, <2>1, <2>2, <2>3 DEF Ended
<1>6. ASSUME NEW q \in Reviewers, NEW r \in Runs, LoadRun(q, r) PROVE Closing'
  <2>1. UNCHANGED <<run, case, events, create, early>>
    BY <1>6 DEF LoadRun
  <2>2. resume'[q].pc = "flush" /\ \A p \in Reviewers : p # q => resume'[p] = resume[p]
    BY <1>6, LoadRunDoes
  <2>3. ASSUME NEW p \in Reviewers PROVE ClosesIn(p)'
    BY <2>1, <2>2, ClosesInStays DEF Closing, ClosesIn
  <2>4. \A o \in Runs : Closed(o)'
    BY <2>1, ClosedStays DEF Closing
  <2> QED
    BY <2>3, <2>4 DEF Closing
<1>7. ASSUME NEW q \in Reviewers, FlushRun(q) PROVE Closing'
  <2>1. UNCHANGED <<run, case, events, create>>
    BY <1>7 DEF FlushRun, Flushed
  <2>2. /\ resume[q].pc = "flush" /\ resume'[q].run = resume[q].run
        /\ resume'[q].cases = LinkedCases(resume[q].run)
        /\ \A p \in Reviewers : p # q => resume'[p] = resume[p]
        /\ early \subseteq early' /\ (InProgress(resume[q].run) => resume[q].run \in early')
    BY <1>7, FlushDoes
  <2>3. create[resume[q].run].pc \in {"case", "link", "done", "dead"}
    BY <2>2, HeldRunsAreStored
  <2>4. resume[q].run \notin early' => Ended(resume[q].run)
    BY <2>2, <2>3 DEF InProgress, Ended
  <2>5. case["agent"][resume[q].run] = "open" => "agent" \in LinkedCases(resume[q].run)
    BY DEF LinkedCases, Sources
  <2>6. ClosesIn(q)'
    BY <2>1, <2>2, <2>4, <2>5 DEF ClosesIn, Ended
  <2>7. \A p \in Reviewers : p # q => ClosesIn(p)'
    BY <2>1, <2>2, ClosesInStays DEF Closing
  <2>8. \A o \in Runs : Closed(o)'
    BY <2>1, <2>2, ClosedStays DEF Closing
  <2> QED
    BY <2>6, <2>7, <2>8 DEF Closing
<1>8. ASSUME NEW q \in Reviewers, NEW d \in Decisions, CommitResume(q, d) PROVE Closing'
  <2>1. /\ resume[q].pc = "commit" /\ resume' = [resume EXCEPT ![q] = NoResume]
        /\ UNCHANGED <<create, early>>
    BY <1>8 DEF CommitResume
  <2> PICK r \in Runs : r = resume[q].run
    BY <2>1, HeldRunsAreStored
  <2>2. /\ "resolution" \in run'[r].output
        /\ case'["agent"][r] = IF "agent" \in resume[q].cases THEN CaseVerdict(d)
                               ELSE case["agent"][r]
        /\ \A o \in Runs : o # r => /\ run'[o] = run[o]
                                    /\ case'["agent"][o] = case["agent"][o]
                                    /\ events'[o] = events[o]
    BY <1>8, CommitDoes
  <2>3. resume'[q].pc = "idle" /\ \A p \in Reviewers : p # q => resume'[p] = resume[p]
    BY <2>1, Releases
  <2>4. r \notin early => Ended(r) /\ (case["agent"][r] = "open" => "agent" \in resume[q].cases)
    BY <2>1 DEF Closing, ClosesIn
  <2>5. Closed(r)'
    BY <2>1, <2>2, <2>4 DEF Closed, CaseVerdict, Ended
  <2>6. \A o \in Runs : o # r => Closed(o)'
    BY <2>1, <2>2, ClosedStays DEF Closing
  <2>7. ASSUME NEW p \in Reviewers, p # q PROVE ClosesIn(p)'
    <3>1. CASE resume[p].pc = "commit"
      <4>1. resume[p].run \in Runs /\ resume[p].run # r
        BY <2>1, <2>7, <3>1, HeldRunsAreStored DEF Locking
      <4> QED
        BY <2>1, <2>2, <2>3, <2>7, <4>1, ClosesInStays DEF Closing
    <3>2. CASE resume[p].pc # "commit"
      BY <2>3, <2>7, <3>2 DEF ClosesIn
    <3> QED
      BY <3>1, <3>2
  <2>8. ClosesIn(q)'
    BY <2>3 DEF ClosesIn
  <2> QED
    BY <2>5, <2>6, <2>7, <2>8 DEF Closing
<1>9. ASSUME NEW q \in Reviewers, ResumeFails(q) PROVE Closing'
  <2>1. /\ UNCHANGED <<run, case, events, create, early>>
        /\ resume' = [resume EXCEPT ![q] = NoResume]
    BY <1>9 DEF ResumeFails
  <2>2. resume'[q].pc = "idle" /\ \A p \in Reviewers : p # q => resume'[p] = resume[p]
    BY <2>1, Releases
  <2>3. ASSUME NEW p \in Reviewers PROVE ClosesIn(p)'
    BY <2>1, <2>2, ClosesInStays DEF Closing, ClosesIn
  <2>4. \A o \in Runs : Closed(o)'
    BY <2>1, ClosedStays DEF Closing
  <2> QED
    BY <2>3, <2>4 DEF Closing
<1>10. CASE /\ UNCHANGED <<run, events, create, resume, early>>
            /\ case'["agent"] = case["agent"]
  BY <1>10, ClosedStays, ClosesInStays DEF Closing
<1>11. ASSUME NEW r \in Runs, IngestCase(r) PROVE Closing'
  BY <1>10, <1>11, IngestDoes DEF IngestCase
<1>12. ASSUME UNCHANGED reviewVars PROVE Closing'
  BY <1>10, <1>12 DEF reviewVars
<1> QED
  BY <1>2, <1>3, <1>4, <1>5, <1>6, <1>7, <1>8, <1>9, <1>11, <1>12
  DEF ReviewNext, CreateStep, ResumeStep, Quietly

-----------------------------------------------------------------------------
(* Run and case tell one verdict                                                *)

LEMMA VerdictsAtStart == ReviewInit => Verdicts
  BY ReviewAssumption DEF ReviewInit, Verdicts, OneVerdict, NoResume, Sources

LEMMA OneVerdictStays ==
  ASSUME NEW o, OneVerdict(o), contested \subseteq contested', run'[o].status = run[o].status,
         case'["agent"][o] = case["agent"][o],
         \A q \in Reviewers : resume'[q].run = o => resume[q].run = o
  PROVE  OneVerdict(o)'
  BY DEF OneVerdict

LEMMA VerdictsKept ==
  ASSUME Core, Timeline, Queue, Verdicts, [ReviewNext]_reviewVars
  PROVE  Verdicts'
<1> USE DEF Core
<1>1. CASE UNCHANGED <<run, case, resume, contested>>
  BY <1>1, OneVerdictStays DEF Verdicts
<1>2. ASSUME NEW r \in Runs, Quietly(r) PROVE Verdicts'
  BY <1>1, <1>2, QuietSteps
<1>3. ASSUME NEW r \in Runs, StoreRun(r) PROVE Verdicts'
  <2>1. UNCHANGED <<case, resume, contested>>
    BY <1>3 DEF StoreRun
  <2>2. case["agent"][r] = "none" /\ \A o \in Runs : o # r => run'[o] = run[o]
    BY <1>3, StoreDoes DEF Requests, Progress
  <2>3. OneVerdict(r)'
    BY <2>1, <2>2 DEF Verdicts, OneVerdict
  <2>4. \A o \in Runs : o # r => OneVerdict(o)'
    BY <2>1, <2>2, OneVerdictStays DEF Verdicts
  <2> QED
    BY <2>3, <2>4 DEF Verdicts
<1>4. ASSUME NEW r \in Runs, CreateCase(r) PROVE Verdicts'
  <2>1. UNCHANGED <<run, resume, contested>>
    BY <1>4 DEF CreateCase
  <2>2. case'["agent"][r] = "open" /\ \A o \in Runs : o # r => case'["agent"][o] = case["agent"][o]
    BY <1>4, CaseDoes
  <2>3. OneVerdict(r)'
    BY <2>1, <2>2 DEF Verdicts, OneVerdict
  <2>4. \A o \in Runs : o # r => OneVerdict(o)'
    BY <2>1, <2>2, OneVerdictStays DEF Verdicts
  <2> QED
    BY <2>3, <2>4 DEF Verdicts
<1>5. ASSUME NEW r \in Runs, LinkCase(r) PROVE Verdicts'
  <2>1. UNCHANGED <<case, resume, contested>>
    BY <1>5 DEF LinkCase
  <2>2. /\ create[r].pc = "link"
        /\ run'[r].status = IF RunStatus(Result(r)) = "needs_review" THEN run[r].status
                            ELSE "needs_review"
        /\ \A o \in Runs : o # r => run'[o] = run[o]
    BY <1>5, LinkDoes
  <2>3. RunStatus(Result(r)) # "needs_review" => case["agent"][r] = "open"
    BY <2>2 DEF Queue, Queued
  <2>4. OneVerdict(r)'
    BY <2>1, <2>2, <2>3 DEF Verdicts, OneVerdict
  <2>5. \A o \in Runs : o # r => OneVerdict(o)'
    BY <2>1, <2>2, OneVerdictStays DEF Verdicts
  <2> QED
    BY <2>4, <2>5 DEF Verdicts
<1>6. ASSUME NEW q \in Reviewers, NEW r \in Runs, LoadRun(q, r) PROVE Verdicts'
  <2>1. UNCHANGED <<run, case>> /\ run[r].status = "needs_review"
    BY <1>6 DEF LoadRun
  <2>2. /\ resume'[q].run = r /\ \A p \in Reviewers : p # q => resume'[p] = resume[p]
        /\ contested \subseteq contested' /\ \A p \in Reviewers : resume[p].run = r => r \in contested'
    BY <1>6, LoadRunDoes
  <2>3. OneVerdict(r)'
    BY <2>1, <2>2 DEF Verdicts, OneVerdict
  <2>4. \A o \in Runs : o # r => OneVerdict(o)'
    BY <2>1, <2>2, OneVerdictStays DEF Verdicts
  <2> QED
    BY <2>3, <2>4 DEF Verdicts
<1>7. ASSUME NEW q \in Reviewers, FlushRun(q) PROVE Verdicts'
  <2>1. UNCHANGED <<run, case, contested>>
    BY <1>7 DEF FlushRun, Flushed
  <2>2. \A p \in Reviewers : resume'[p].run = resume[p].run
    BY <1>7, FlushDoes
  <2> QED
    BY <2>1, <2>2, OneVerdictStays DEF Verdicts
<1>8. ASSUME NEW q \in Reviewers, NEW d \in Decisions, CommitResume(q, d) PROVE Verdicts'
  <2>1. /\ resume[q].pc = "commit" /\ resume' = [resume EXCEPT ![q] = NoResume]
        /\ UNCHANGED contested
    BY <1>8 DEF CommitResume
  <2> PICK r \in Runs : r = resume[q].run
    BY <2>1, HeldRunsAreStored
  <2>2. /\ run'[r].status = Verdict(d)
        /\ case'["agent"][r] = IF "agent" \in resume[q].cases THEN CaseVerdict(d)
                               ELSE case["agent"][r]
        /\ \A o \in Runs : o # r => run'[o] = run[o] /\ case'["agent"][o] = case["agent"][o]
    BY <1>8, CommitDoes
  <2>3. resume'[q].run = NoRun /\ \A p \in Reviewers : p # q => resume'[p] = resume[p]
    BY <2>1, Releases
  <2>4. OneVerdict(r)'
    BY <2>1, <2>2, <2>3, ReviewAssumption DEF Verdicts, OneVerdict, Verdict, CaseVerdict
  <2>5. \A o \in Runs : o # r => OneVerdict(o)'
    BY <2>1, <2>2, <2>3, OneVerdictStays, ReviewAssumption DEF Verdicts
  <2> QED
    BY <2>4, <2>5 DEF Verdicts
<1>9. ASSUME NEW q \in Reviewers, ResumeFails(q) PROVE Verdicts'
  <2>1. UNCHANGED <<run, case, contested>> /\ resume' = [resume EXCEPT ![q] = NoResume]
    BY <1>9 DEF ResumeFails
  <2>2. \A p \in Reviewers : resume'[p].run = NoRun \/ resume'[p].run = resume[p].run
    BY <2>1, Releases
  <2> QED
    BY <2>1, <2>2, OneVerdictStays, ReviewAssumption DEF Verdicts
<1>10. ASSUME NEW r \in Runs, IngestCase(r) PROVE Verdicts'
  <2>1. UNCHANGED <<run, resume, contested>> /\ case'["agent"] = case["agent"]
    BY <1>10, IngestDoes DEF IngestCase
  <2> QED
    BY <2>1, OneVerdictStays DEF Verdicts
<1>11. ASSUME UNCHANGED reviewVars PROVE Verdicts'
  BY <1>1, <1>11 DEF reviewVars
<1> QED
  BY <1>2, <1>3, <1>4, <1>5, <1>6, <1>7, <1>8, <1>9, <1>10, <1>11
  DEF ReviewNext, CreateStep, ResumeStep, Quietly

-----------------------------------------------------------------------------
(* The thread of a single run tells its verdict                                 *)

LEMMA ThreadingAtStart == ReviewInit => Threading
  BY DEF ReviewInit, Threading, TellsVerdict, Decided, NoResume

LEMMA TellsVerdictStays ==
  ASSUME NEW r, NEW t, TellsVerdict(r, t), Alone(r, t)' => Alone(r, t), thread'[t] = thread[t],
         run'[r].status = run[r].status, events'[r] = events[r],
         \A q \in Reviewers : resume'[q].pc = "commit" /\ resume'[q].run = r =>
           resume'[q] = resume[q]
  PROVE  TellsVerdict(r, t)'
  BY DEF TellsVerdict, Decided

\* A run that no request decides, and none has, says nothing of its thread.
LEMMA UndecidedTellsNothing ==
  ASSUME NEW r, NEW t, ~Decided(r)', \A q \in Reviewers : resume'[q].run # r
  PROVE  TellsVerdict(r, t)'
  BY DEF TellsVerdict, Decided

LEMMA ThreadingKept ==
  ASSUME Core, Timeline, Queue, Threading, [ReviewNext]_reviewVars
  PROVE  Threading'
<1> USE DEF Core
<1>1. ASSUME \A o \in Runs : create'[o].thread = create[o].thread, NEW r, NEW t
      PROVE  Alone(r, t)' <=> Alone(r, t)
  BY <1>1 DEF Alone
<1>2. ASSUME NEW r \in Runs, run[r].status = "none"
      PROVE  \A q \in Reviewers : resume[q].run # r
  BY <1>2, ReviewAssumption DEF Requests, Held
<1>3. ASSUME NEW x \in Runs, NEW u \in Threads, NEW k \in Kinds, Execute(x, u, k)
      PROVE  Threading'
  <2>1. UNCHANGED <<run, thread, events, resume>>
    BY <1>3 DEF Execute
  <2>2. /\ create[x].thread \notin Threads /\ create'[x].thread = u
        /\ run[x].status = "none" /\ events[x] = {}
        /\ \A o \in Runs : o # x => create'[o] = create[o]
    BY <1>3, ExecuteDoes, ReviewAssumption DEF Requests, Progress
  <2>3. \A t \in Threads : TellsVerdict(x, t)'
    BY <1>2, <2>1, <2>2, UndecidedTellsNothing DEF Decided
  <2>4. ASSUME NEW r \in Runs, NEW t \in Threads, r # x PROVE Alone(r, t)' => Alone(r, t)
    BY <2>2, <2>4 DEF Alone
  <2>5. \A r \in Runs, t \in Threads : r # x => TellsVerdict(r, t)'
    BY <2>1, <2>4, TellsVerdictStays DEF Threading
  <2> QED
    BY <2>3, <2>5 DEF Threading
<1>4. ASSUME NEW x \in Runs, SaveThread(x) PROVE Threading'
  <2>1. UNCHANGED <<run, events, resume>>
    BY <1>4 DEF SaveThread
  <2>2. /\ run[x].status = "none" /\ events[x] = {}
        /\ \A t \in Threads : t # create[x].thread => thread'[t] = thread[t]
    BY <1>4, SaveDoes DEF Requests, Progress
  <2>3. \A o \in Runs : create'[o].thread = create[o].thread
    BY <1>4, SaveDoes, AtMoves
  <2>4. \A t \in Threads : TellsVerdict(x, t)'
    BY <1>2, <2>1, <2>2, UndecidedTellsNothing DEF Decided
  <2>5. ASSUME NEW r \in Runs, NEW t \in Threads, r # x PROVE TellsVerdict(r, t)'
    <3>1. CASE t = create[x].thread
      BY <1>1, <2>3, <2>5, <3>1 DEF TellsVerdict, Alone
    <3>2. CASE t # create[x].thread
      BY <1>1, <2>1, <2>2, <2>3, <3>2, TellsVerdictStays DEF Threading
    <3> QED
      BY <3>1, <3>2
  <2> QED
    BY <2>4, <2>5 DEF Threading
<1>5. ASSUME NEW x \in Runs, StoreRun(x) PROVE Threading'
  <2>1. UNCHANGED resume
    BY <1>5 DEF StoreRun
  <2>2. /\ run[x].status = "none" /\ ~Decided(x)'
        /\ \A o \in Runs : o # x => run'[o] = run[o] /\ events'[o] = events[o]
        /\ \A t \in Threads : t # create[x].thread => thread'[t] = thread[t]
    BY <1>5, StoreDoes DEF Requests, Progress, Decided
  <2>3. \A o \in Runs : create'[o].thread = create[o].thread
    <3> DEFINE pc == IF ShouldCreateCase(Result(x)) THEN "case" ELSE "done"
    <3>1. pc \in {"case", "done"} /\ At(x, pc)
      BY <1>5, StoreDoes
    <3> HIDE DEF pc
    <3> QED
      BY <3>1, AtMoves
  <2>4. \A t \in Threads : TellsVerdict(x, t)'
    BY <1>2, <2>1, <2>2, UndecidedTellsNothing
  <2>5. ASSUME NEW r \in Runs, NEW t \in Threads, r # x PROVE TellsVerdict(r, t)'
    <3>1. CASE t = create[x].thread
      BY <1>1, <2>3, <2>5, <3>1 DEF TellsVerdict, Alone
    <3>2. CASE t # create[x].thread
      BY <1>1, <2>1, <2>2, <2>3, <2>5, <3>2, TellsVerdictStays DEF Threading
    <3> QED
      BY <3>1, <3>2
  <2> QED
    BY <2>4, <2>5 DEF Threading
<1>6. CASE /\ UNCHANGED <<run, thread, events, resume>>
           /\ \A o \in Runs : create'[o].thread = create[o].thread
  BY <1>1, <1>6, TellsVerdictStays DEF Threading
<1>7. ASSUME NEW x \in Runs, LoadThread(x) \/ DuplicateThread(x) \/ CreateDies(x) \/ CreateCase(x)
      PROVE  Threading'
  <2>1. CASE LoadThread(x)
    BY <1>6, <2>1, LoadDoes DEF LoadThread
  <2>2. CASE DuplicateThread(x) \/ CreateDies(x)
    BY <1>6, <2>2, DiesDoes, AtMoves
  <2>3. CASE CreateCase(x)
    BY <1>6, <2>3, CaseDoes, AtMoves DEF CreateCase
  <2> QED
    BY <1>7, <2>1, <2>2, <2>3
<1>8. ASSUME NEW x \in Runs, LinkCase(x) PROVE Threading'
  <2>1. UNCHANGED <<thread, events, resume>>
    BY <1>8 DEF LinkCase
  <2>2. /\ create[x].pc = "link"
        /\ run'[x].status = IF RunStatus(Result(x)) = "needs_review" THEN run[x].status
                            ELSE "needs_review"
        /\ \A o \in Runs : o # x => run'[o] = run[o]
    BY <1>8, LinkDoes
  <2>3. \A o \in Runs : create'[o].thread = create[o].thread
    BY <1>8, LinkDoes, AtMoves
  <2>4. ASSUME NEW r \in Runs, NEW t \in Threads, run'[r].status = run[r].status
        PROVE  TellsVerdict(r, t)'
    BY <1>1, <2>1, <2>3, <2>4, TellsVerdictStays DEF Threading
  <2>5. CASE RunStatus(Result(x)) = "needs_review"
    BY <2>2, <2>4, <2>5 DEF Threading
  <2>6. CASE RunStatus(Result(x)) # "needs_review"
    <3>1. ~Decided(x) /\ \A q \in Reviewers : resume[q].run # x
      BY <2>2, <2>6 DEF Queue, Queued
    <3>2. ~Decided(x)' /\ \A q \in Reviewers : resume'[q].run # x
      BY <2>1, <3>1 DEF Decided
    <3>3. \A t \in Threads : TellsVerdict(x, t)'
      BY <3>2, UndecidedTellsNothing
    <3> QED
      BY <2>2, <2>4, <3>3 DEF Threading
  <2> QED
    BY <2>5, <2>6
<1>9. ASSUME NEW q \in Reviewers, NEW r \in Runs, LoadRun(q, r) PROVE Threading'
  <2>1. UNCHANGED <<run, thread, events, create>>
    BY <1>9 DEF LoadRun
  <2>2. resume'[q].pc = "flush" /\ \A p \in Reviewers : p # q => resume'[p] = resume[p]
    BY <1>9, LoadRunDoes
  <2> QED
    BY <1>1, <2>1, <2>2, TellsVerdictStays DEF Threading
<1>10. ASSUME NEW q \in Reviewers, FlushRun(q) PROVE Threading'
  <2>1. UNCHANGED <<run, thread, events, create>>
    BY <1>10 DEF FlushRun, Flushed
  <2>2. /\ resume'[q].run = resume[q].run
        /\ resume'[q].thread = thread[create[resume[q].run].thread]
        /\ \A p \in Reviewers : p # q => resume'[p] = resume[p]
    BY <1>10, FlushDoes
  <2>3. ASSUME NEW r \in Runs, NEW t \in Threads, Alone(r, t)' PROVE TellsVerdict(r, t)'
    <3>1. Alone(r, t) /\ create[r].thread = t
      BY <2>1, <2>3 DEF Alone
    <3>2. \A p \in Reviewers : resume'[p].pc = "commit" /\ resume'[p].run = r =>
            resume'[p].thread = thread'[t]
      BY <2>1, <2>2, <3>1 DEF Threading, TellsVerdict
    <3> QED
      BY <2>1, <3>1, <3>2 DEF Threading, TellsVerdict, Decided
  <2> QED
    BY <2>3 DEF Threading, TellsVerdict
<1>11. ASSUME NEW q \in Reviewers, NEW d \in Decisions, CommitResume(q, d) PROVE Threading'
  <2>1. /\ resume[q].pc = "commit" /\ resume' = [resume EXCEPT ![q] = NoResume]
        /\ UNCHANGED create
    BY <1>11 DEF CommitResume
  <2> PICK x \in Runs : x = resume[q].run
    BY <2>1, HeldRunsAreStored
  <2>2. /\ run'[x].status = Verdict(d)
        /\ resume[q].thread = thread[create[x].thread] =>
             /\ thread'[create[x].thread].status = ThreadVerdict(d)
             /\ thread'[create[x].thread].pending = NoRun
        /\ \A o \in Runs : o # x => run'[o] = run[o] /\ events'[o] = events[o]
        /\ \A t \in Threads : t # create[x].thread => thread'[t] = thread[t]
    BY <1>11, CommitDoes
  <2>3. resume'[q].pc = "idle" /\ \A p \in Reviewers : p # q => resume'[p] = resume[p]
    BY <2>1, Releases
  <2>4. ASSUME NEW t \in Threads, Alone(x, t)' PROVE TellsVerdict(x, t)'
    <3>1. Alone(x, t) /\ create[x].thread = t
      BY <2>1, <2>4 DEF Alone
    <3>2. resume[q].thread = thread[t]
      BY <2>1, <3>1 DEF Threading, TellsVerdict
    <3>3. \A p \in Reviewers : ~(resume'[p].pc = "commit" /\ resume'[p].run = x)
      BY <2>1, <2>3 DEF Locking
    <3>4. /\ thread'[t].pending = NoRun
          /\ thread'[t].status = IF run'[x].status = "rejected" THEN "rejected" ELSE "active"
      BY <2>2, <3>1, <3>2 DEF Verdict, ThreadVerdict
    <3> QED
      BY <3>3, <3>4 DEF TellsVerdict
  <2>5. ASSUME NEW r \in Runs, NEW t \in Threads, r # x PROVE TellsVerdict(r, t)'
    <3>1. CASE t = create[x].thread
      BY <2>1, <2>5, <3>1 DEF TellsVerdict, Alone
    <3>2. CASE t # create[x].thread
      BY <1>1, <2>1, <2>2, <2>3, <2>5, <3>2, TellsVerdictStays DEF Threading
    <3> QED
      BY <3>1, <3>2
  <2> QED
    BY <2>4, <2>5 DEF Threading, TellsVerdict
<1>12. ASSUME NEW q \in Reviewers, ResumeFails(q) PROVE Threading'
  <2>1. UNCHANGED <<run, thread, events, create>> /\ resume' = [resume EXCEPT ![q] = NoResume]
    BY <1>12 DEF ResumeFails
  <2>2. resume'[q].pc = "idle" /\ \A p \in Reviewers : p # q => resume'[p] = resume[p]
    BY <2>1, Releases
  <2> QED
    BY <1>1, <2>1, <2>2, TellsVerdictStays DEF Threading
<1>13. ASSUME NEW r \in Runs, IngestCase(r) PROVE Threading'
  BY <1>6, <1>13 DEF IngestCase
<1>14. ASSUME UNCHANGED reviewVars PROVE Threading'
  BY <1>6, <1>14 DEF reviewVars
<1> QED
  BY <1>3, <1>4, <1>5, <1>7, <1>8, <1>9, <1>10, <1>11, <1>12, <1>13, <1>14
  DEF ReviewNext, CreateStep, ResumeStep

-----------------------------------------------------------------------------
(* Runs that meet, and the checkpoints of those that do not                     *)

LEMMA MeetingAtStart == ReviewInit => Meeting /\ Latest /\ Checkpoints
  BY DEF ReviewInit, Meeting, Latest, Checkpoints, OwnCheckpoint, Adopts, NoCreate, NoThreadRow

\* A request moves on: it is not yet at its end, and stays on its thread.
Advances(x) ==
  /\ create[x].pc \in Working /\ create'[x].pc # "none"
  /\ create'[x].thread = create[x].thread
  /\ \A o \in Runs : o # x => create'[o] = create[o]
  /\ crowded' = crowded

LEMMA StepsOfRequests ==
  ASSUME Core, [ReviewNext]_reviewVars
  PROVE  \/ \E x \in Runs, t \in Threads, k \in Kinds : Execute(x, t, k)
         \/ \E x \in Runs : Advances(x)
         \/ UNCHANGED <<create, crowded>>
<1> USE DEF Core, Working
<1>1. ASSUME NEW x \in Runs, SaveThread(x) PROVE Advances(x)
  BY <1>1, SaveDoes, AtMoves DEF SaveThread, Advances
<1>2. ASSUME NEW x \in Runs, LoadThread(x) PROVE Advances(x)
  BY <1>2, LoadDoes DEF LoadThread, Advances
<1>3. ASSUME NEW x \in Runs, StoreRun(x) PROVE Advances(x)
  <2> DEFINE pc == IF ShouldCreateCase(Result(x)) THEN "case" ELSE "done"
  <2>1. pc \in {"case", "done"} /\ At(x, pc) /\ create[x].pc = "store"
    BY <1>3, StoreDoes
  <2>2. crowded' = crowded
    BY <1>3 DEF StoreRun
  <2> HIDE DEF pc
  <2> QED
    BY <2>1, <2>2, AtMoves DEF Advances
<1>4. ASSUME NEW x \in Runs, DuplicateThread(x) \/ CreateDies(x) PROVE Advances(x)
  BY <1>4, DiesDoes, AtMoves DEF Advances
<1>5. ASSUME NEW x \in Runs, CreateCase(x) PROVE Advances(x)
  BY <1>5, CaseDoes, AtMoves DEF CreateCase, Advances
<1>6. ASSUME NEW x \in Runs, LinkCase(x) PROVE Advances(x)
  BY <1>6, LinkDoes, AtMoves DEF LinkCase, Advances
<1>7. ASSUME NEW q \in Reviewers, ResumeStep(q) PROVE UNCHANGED <<create, crowded>>
  BY <1>7 DEF ResumeStep, LoadRun, FlushRun, Flushed, CommitResume, ResumeFails
<1>8. ASSUME NEW r \in Runs, IngestCase(r) PROVE UNCHANGED <<create, crowded>>
  BY <1>8 DEF IngestCase
<1> QED
  BY <1>1, <1>2, <1>3, <1>4, <1>5, <1>6, <1>7, <1>8 DEF ReviewNext, CreateStep, reviewVars

LEMMA MeetingKept ==
  ASSUME Core, Meeting, [ReviewNext]_reviewVars
  PROVE  Meeting'
<1>1. ASSUME NEW x \in Runs, NEW t \in Threads, NEW k \in Kinds, Execute(x, t, k)
      PROVE  Meeting'
  <2>1. /\ create'[x].thread = t /\ crowded \subseteq crowded'
        /\ \A o \in Runs : o # x => create'[o] = create[o]
        /\ \A o \in Runs : o # x /\ create[o].thread = t /\ create[o].pc # "done" =>
             x \in crowded' /\ o \in crowded'
    BY <1>1, ExecuteDoes DEF Core
  <2> SUFFICES ASSUME NEW r \in Runs \ crowded', NEW o \in Runs, o # r, create'[r].pc # "none",
                      create'[o].thread = create'[r].thread
               PROVE  create'[r].pc = "done" \/ create'[o].pc = "done"
    BY DEF Meeting
  <2>2. CASE r = x
    BY <2>1, <2>2
  <2>3. CASE o = x
    BY <2>1, <2>3
  <2>4. CASE r # x /\ o # x
    BY <2>1, <2>4 DEF Meeting
  <2> QED
    BY <2>2, <2>3, <2>4
<1>2. ASSUME NEW x \in Runs, Advances(x) PROVE Meeting'
  BY <1>2 DEF Advances, Working, Meeting
<1>3. CASE UNCHANGED <<create, crowded>>
  BY <1>3 DEF Meeting
<1> QED
  BY <1>1, <1>2, <1>3, StepsOfRequests

LEMMA LatestKept ==
  ASSUME Core, Latest, [ReviewNext]_reviewVars
  PROVE  Latest'
<1> USE DEF Core
<1>1. ASSUME thread' = thread, \A o \in Runs : create'[o].thread = create[o].thread
      PROVE  Latest'
  BY <1>1, TypesInParts DEF Latest, ThreadRow
<1>2. ASSUME NEW x \in Runs, NEW t \in Threads, NEW k \in Kinds, Execute(x, t, k)
      PROVE  Latest'
  <2>1. thread' = thread
    BY <1>2 DEF Execute
  <2>2. create[x].thread \notin Threads /\ \A o \in Runs : o # x => create'[o] = create[o]
    BY <1>2, ExecuteDoes, ReviewAssumption DEF Requests, Progress
  <2> QED
    BY <2>1, <2>2, TypesInParts DEF Latest, ThreadRow
<1>3. ASSUME NEW x \in Runs, At(x, "load") \/ At(x, "case") \/ At(x, "done"),
             create[x].thread \in Threads,
             thread'[create[x].thread].latest \in {x, thread[create[x].thread].latest},
             \A t \in Threads : t # create[x].thread => thread'[t] = thread[t]
      PROVE  Latest'
  <2>1. \A o \in Runs : create'[o].thread = create[o].thread
    BY <1>3, AtMoves
  <2>2. \A t \in Threads : thread[t].latest \in Runs \cup {NoRun}
    BY TypesInParts DEF ThreadRow
  <2> QED
    BY <1>3, <2>1, <2>2 DEF Latest
<1>4. ASSUME NEW x \in Runs, SaveThread(x) PROVE Latest'
  BY <1>3, <1>4, SaveDoes
<1>5. ASSUME NEW x \in Runs, StoreRun(x) PROVE Latest'
  <2>1. At(x, "case") \/ At(x, "done")
    <3>1. At(x, IF ShouldCreateCase(Result(x)) THEN "case" ELSE "done")
      BY <1>5, StoreDoes
    <3>2. CASE ShouldCreateCase(Result(x))
      BY <3>1, <3>2
    <3>3. CASE ~ShouldCreateCase(Result(x))
      BY <3>1, <3>3
    <3> QED
      BY <3>2, <3>3
  <2>2. /\ create[x].thread \in Threads
        /\ thread'[create[x].thread].latest \in {x, thread[create[x].thread].latest}
        /\ \A t \in Threads : t # create[x].thread => thread'[t] = thread[t]
    BY <1>5, StoreDoes
  <2> QED
    BY <1>3, <2>1, <2>2
<1>6. ASSUME NEW q \in Reviewers, NEW d \in Decisions, CommitResume(q, d) PROVE Latest'
  <2>1. resume[q].pc = "commit" /\ create' = create
    BY <1>6 DEF CommitResume
  <2> PICK x \in Runs : x = resume[q].run
    BY <2>1, HeldRunsAreStored
  <2>2. \A t \in Threads : thread'[t].latest = thread[t].latest
    BY <1>6, CommitDoes
  <2> QED
    BY <2>1, <2>2 DEF Latest
<1>7. ASSUME NEW x \in Runs, LoadThread(x) PROVE Latest'
  BY <1>1, <1>7, LoadDoes DEF LoadThread
<1>8. ASSUME NEW x \in Runs, DuplicateThread(x) \/ CreateDies(x) PROVE Latest'
  BY <1>1, <1>8, DiesDoes, AtMoves
<1>9. ASSUME NEW x \in Runs, CreateCase(x) PROVE Latest'
  BY <1>1, <1>9, CaseDoes, AtMoves DEF CreateCase
<1>10. ASSUME NEW x \in Runs, LinkCase(x) PROVE Latest'
  BY <1>1, <1>10, LinkDoes, AtMoves DEF LinkCase
<1>11. CASE UNCHANGED <<thread, create>>
  BY <1>1, <1>11
<1>12. ASSUME NEW q \in Reviewers, FlushRun(q) \/ ResumeFails(q) PROVE Latest'
  BY <1>11, <1>12 DEF FlushRun, Flushed, ResumeFails
<1>13. ASSUME NEW q \in Reviewers, NEW r \in Runs, LoadRun(q, r) PROVE Latest'
  BY <1>11, <1>13 DEF LoadRun
<1>14. ASSUME NEW r \in Runs, IngestCase(r) PROVE Latest'
  BY <1>11, <1>14 DEF IngestCase
<1> QED
  BY <1>2, <1>4, <1>5, <1>6, <1>7, <1>8, <1>9, <1>10, <1>11, <1>12, <1>13, <1>14
  DEF ReviewNext, CreateStep, ResumeStep, reviewVars

\* A checkpoint stays its run's own while nothing writes it or its thread.
LEMMA OwnCheckpointStays ==
  ASSUME NEW r, OwnCheckpoint(r), crowded \subseteq crowded', snapshot'[r] = snapshot[r],
         create'[r] = create[r],
         create[r].pc = "load" => thread'[create[r].thread].latest = thread[create[r].thread].latest
  PROVE  OwnCheckpoint(r)'
  BY DEF OwnCheckpoint

LEMMA AdoptsStays ==
  ASSUME NEW r, Adopts(r), crowded \subseteq crowded', create'[r] = create[r]
  PROVE  Adopts(r)'
  BY DEF Adopts

\* A run about to load its thread, that met no other, shares it with no request at work.
LEMMA LoadsAlone ==
  ASSUME Meeting, NEW r \in Runs \ crowded, NEW x \in Runs, r # x, create[r].pc = "load",
         create[x].pc \in {"save", "store"}
  PROVE  create[r].thread # create[x].thread
  BY DEF Meeting

LEMMA CheckpointsKept ==
  ASSUME Core, Meeting, Latest, Checkpoints, [ReviewNext]_reviewVars
  PROVE  Checkpoints'
<1> USE DEF Core
<1>1. ASSUME NEW x \in Runs, NEW t \in Threads, NEW k \in Kinds, Execute(x, t, k)
      PROVE  Checkpoints'
  <2>1. UNCHANGED <<thread, snapshot>>
    BY <1>1 DEF Execute
  <2>2. /\ create[x].pc = "none" /\ create'[x].pc \in {"save", "load"}
        /\ crowded \subseteq crowded' /\ \A o \in Runs : o # x => create'[o] = create[o]
    BY <1>1, ExecuteDoes
  <2>3. OwnCheckpoint(x)'
    BY <2>1, <2>2 DEF Checkpoints, OwnCheckpoint
  <2>4. Adopts(x)'
    BY <2>2 DEF Adopts
  <2>5. \A o \in Runs : o # x => OwnCheckpoint(o)' /\ Adopts(o)'
    BY <2>1, <2>2, OwnCheckpointStays, AdoptsStays DEF Checkpoints
  <2> QED
    BY <2>3, <2>4, <2>5 DEF Checkpoints
<1>2. ASSUME NEW x \in Runs, SaveThread(x) PROVE Checkpoints'
  <2>1. crowded' = crowded
    BY <1>2 DEF SaveThread
  <2>2. /\ create[x].pc = "save" /\ thread'[create[x].thread].latest = x
        /\ \A t \in Threads : t # create[x].thread => thread'[t] = thread[t]
        /\ snapshot'[x].run = NoRun /\ \A o \in Runs : o # x => snapshot'[o] = snapshot[o]
    BY <1>2, SaveDoes
  <2>3. /\ create'[x].pc = "load" /\ create'[x].thread = create[x].thread
        /\ \A o \in Runs : o # x => create'[o] = create[o]
    BY <1>2, SaveDoes, AtMoves
  <2>4. OwnCheckpoint(x)' /\ Adopts(x)'
    BY <2>2, <2>3 DEF OwnCheckpoint, Adopts
  <2>5. ASSUME NEW o \in Runs, o # x PROVE OwnCheckpoint(o)' /\ Adopts(o)'
    <3>1. o \notin crowded /\ create[o].pc = "load" =>
            thread'[create[o].thread].latest = thread[create[o].thread].latest
      BY <2>2, <2>5, LoadsAlone DEF Requests, Progress
    <3>2. OwnCheckpoint(o)'
      BY <2>1, <2>2, <2>3, <2>5, <3>1 DEF Checkpoints, OwnCheckpoint
    <3> QED
      BY <2>1, <2>3, <2>5, <3>2, AdoptsStays DEF Checkpoints
  <2> QED
    BY <2>4, <2>5 DEF Checkpoints
<1>3. ASSUME NEW x \in Runs, LoadThread(x) PROVE Checkpoints'
  <2>1. UNCHANGED <<thread, snapshot, crowded>>
    BY <1>3 DEF LoadThread
  <2>2. /\ create[x].pc = "load" /\ create'[x].pc = "store" /\ create[x].thread \in Threads
        /\ create'[x].loaded = thread[create[x].thread]
        /\ create'[x].free <=> /\ create'[x].loaded.latest # NoRun
                               /\ snapshot[create'[x].loaded.latest].exists
                               /\ snapshot[create'[x].loaded.latest].run = NoRun
        /\ \A o \in Runs : o # x => create'[o] = create[o]
    BY <1>3, LoadDoes
  <2>3. OwnCheckpoint(x)'
    BY <2>1, <2>2, ReviewAssumption DEF Checkpoints, OwnCheckpoint
  <2>4. ASSUME create'[x].free, NEW o \in Runs, o = create'[x].loaded.latest, o # x,
               o \notin crowded
        PROVE  FALSE
    <3>1. create[o].thread = create[x].thread
      BY <2>2, <2>4 DEF Latest
    <3>2. snapshot[o].exists /\ snapshot[o].run = NoRun
      BY <2>2, <2>4
    <3>3. create[o].pc # "none"
      BY <2>4, <3>2 DEF Checkpoints, OwnCheckpoint
    <3>4. create[o].pc = "done"
      BY <2>2, <2>4, <3>1, <3>3 DEF Meeting
    <3> QED
      BY <2>4, <3>2, <3>4, ReviewAssumption DEF Checkpoints, OwnCheckpoint
  <2>5. thread[create[x].thread].latest \in Runs \cup {NoRun}
    BY <2>2, TypesInParts DEF ThreadRow
  <2>6. Adopts(x)'
    BY <2>1, <2>2, <2>4, <2>5 DEF Adopts
  <2>7. \A o \in Runs : o # x => OwnCheckpoint(o)' /\ Adopts(o)'
    BY <2>1, <2>2, OwnCheckpointStays, AdoptsStays DEF Checkpoints
  <2> QED
    BY <2>3, <2>6, <2>7 DEF Checkpoints
<1>4. ASSUME NEW x \in Runs, StoreRun(x) PROVE Checkpoints'
  <2>1. crowded' = crowded
    BY <1>4 DEF StoreRun
  <2> DEFINE pc == IF ShouldCreateCase(Result(x)) THEN "case" ELSE "done"
  <2>2. pc \in {"case", "done"} /\ At(x, pc) /\ create[x].pc = "store"
    BY <1>4, StoreDoes
  <2> HIDE DEF pc
  <2>3. create'[x].pc \in {"case", "done"} /\ \A o \in Runs : o # x => create'[o] = create[o]
    BY <2>2, AtMoves
  <2>4. /\ \A t \in Threads : t # create[x].thread => thread'[t] = thread[t]
        /\ \A o \in Runs :
             \/ snapshot'[o] = snapshot[o]
             \/ /\ snapshot'[o].run = x
                /\ o = x \/ (create[x].free /\ create[x].loaded.latest = o)
        /\ create[x].free /\ create[x].loaded.latest = x => snapshot'[x].run = x
    BY <1>4, StoreDoes
  <2>5. OwnCheckpoint(x)'
    BY <2>1, <2>2, <2>3, <2>4 DEF Checkpoints, OwnCheckpoint
  <2>6. Adopts(x)'
    BY <2>3 DEF Adopts
  <2>7. ASSUME NEW o \in Runs, o # x PROVE OwnCheckpoint(o)' /\ Adopts(o)'
    <3>1. o \notin crowded => snapshot'[o] = snapshot[o]
      BY <2>2, <2>4, <2>7 DEF Checkpoints, Adopts
    <3>2. o \notin crowded /\ create[o].pc = "load" =>
            thread'[create[o].thread].latest = thread[create[o].thread].latest
      BY <2>2, <2>4, <2>7, LoadsAlone DEF Requests, Progress
    <3>3. OwnCheckpoint(o)'
      BY <2>1, <2>3, <2>7, <3>1, <3>2 DEF Checkpoints, OwnCheckpoint
    <3> QED
      BY <2>1, <2>3, <2>7, <3>3, AdoptsStays DEF Checkpoints
  <2> QED
    BY <2>5, <2>6, <2>7 DEF Checkpoints
<1>5. ASSUME NEW x \in Runs, create[x].pc \in Working, create'[x].pc \in {"link", "done", "dead"},
             create'[x].pc # "dead" => create[x].pc \in {"case", "link"},
             \A o \in Runs : o # x => create'[o] = create[o],
             UNCHANGED <<thread, snapshot, crowded>>
      PROVE  Checkpoints'
  <2>1. OwnCheckpoint(x)' /\ Adopts(x)'
    BY <1>5 DEF Checkpoints, OwnCheckpoint, Adopts
  <2>2. \A o \in Runs : o # x => OwnCheckpoint(o)' /\ Adopts(o)'
    BY <1>5, OwnCheckpointStays, AdoptsStays DEF Checkpoints
  <2> QED
    BY <2>1, <2>2 DEF Checkpoints
<1>6. ASSUME NEW x \in Runs, DuplicateThread(x) \/ CreateDies(x) PROVE Checkpoints'
  BY <1>5, <1>6, DiesDoes, AtMoves
<1>7. ASSUME NEW x \in Runs, CreateCase(x) PROVE Checkpoints'
  BY <1>5, <1>7, CaseDoes, AtMoves DEF CreateCase, Working
<1>8. ASSUME NEW x \in Runs, LinkCase(x) PROVE Checkpoints'
  BY <1>5, <1>8, LinkDoes, AtMoves DEF LinkCase, Working
<1>9. CASE /\ \A t \in Threads : thread'[t].latest = thread[t].latest
           /\ UNCHANGED <<snapshot, create, crowded>>
  <2>1. ASSUME NEW o \in Runs PROVE OwnCheckpoint(o)' /\ Adopts(o)'
    <3>1. create[o].pc = "load" => create[o].thread \in Threads
      BY DEF Requests, Progress
    <3> QED
      BY <1>9, <3>1, OwnCheckpointStays, AdoptsStays DEF Checkpoints
  <2> QED
    BY <2>1 DEF Checkpoints
<1>10. ASSUME NEW q \in Reviewers, NEW d \in Decisions, CommitResume(q, d) PROVE Checkpoints'
  <2>1. resume[q].pc = "commit" /\ UNCHANGED <<snapshot, create, crowded>>
    BY <1>10 DEF CommitResume
  <2> PICK x \in Runs : x = resume[q].run
    BY <2>1, HeldRunsAreStored
  <2>2. \A t \in Threads : thread'[t].latest = thread[t].latest
    BY <1>10, CommitDoes
  <2> QED
    BY <1>9, <2>1, <2>2
<1>11. ASSUME NEW q \in Reviewers, FlushRun(q) \/ ResumeFails(q) PROVE Checkpoints'
  BY <1>9, <1>11 DEF FlushRun, Flushed, ResumeFails
<1>12. ASSUME NEW q \in Reviewers, NEW r \in Runs, LoadRun(q, r) PROVE Checkpoints'
  BY <1>9, <1>12 DEF LoadRun
<1>13. ASSUME NEW r \in Runs, IngestCase(r) PROVE Checkpoints'
  BY <1>9, <1>13 DEF IngestCase
<1>14. ASSUME UNCHANGED reviewVars PROVE Checkpoints'
  BY <1>9, <1>14 DEF reviewVars
<1> QED
  BY <1>1, <1>2, <1>3, <1>4, <1>6, <1>7, <1>8, <1>10, <1>11, <1>12, <1>13, <1>14
  DEF ReviewNext, CreateStep, ResumeStep

-----------------------------------------------------------------------------
(* The whole invariant                                                          *)

LEMMA InvariantAtStart == ReviewInit => IInv
  BY CoreAtStart, TimelineAtStart, QueueAtStart, ClosingAtStart, VerdictsAtStart,
     ThreadingAtStart, MeetingAtStart DEF IInv

LEMMA InvariantKept == IInv /\ [ReviewNext]_reviewVars => IInv'
<1> SUFFICES ASSUME IInv, [ReviewNext]_reviewVars PROVE IInv'
  OBVIOUS
<1>1. Core'
  BY TypesKept, RequestsKept, LockingKept DEF IInv, Core
<1>2. Timeline' /\ Queue' /\ Closing'
  BY TimelineKept, QueueKept, ClosingKept DEF IInv
<1>3. Verdicts' /\ Threading'
  BY VerdictsKept, ThreadingKept DEF IInv
<1>4. Meeting' /\ Latest' /\ Checkpoints'
  BY MeetingKept, LatestKept, CheckpointsKept DEF IInv
<1> QED
  BY <1>1, <1>2, <1>3, <1>4 DEF IInv

LEMMA ReviewInvariant == ReviewSpec => []IInv
<1> QED
  BY InvariantAtStart, InvariantKept, PTL DEF ReviewSpec

-----------------------------------------------------------------------------
(* The theorems                                                                 *)

\* ReviewTypeOK, with no bound on the events of a run.
THEOREM ReviewTypes == ReviewSpec => []ReviewTypeOK
<1>1. IInv => ReviewTypeOK
  BY DEF IInv, Core, Types
<1> QED
  BY <1>1, ReviewInvariant, PTL

\* OneTimeline: the row lock, and the flush before the count, give the events of a run one
\* order for every number of reviewers.
THEOREM TimelineIsOrdered == ReviewSpec => []OneTimeline
<1>1. IInv => OneTimeline
  BY TimelineIsOne DEF IInv, Core
<1> QED
  BY <1>1, ReviewInvariant, PTL

\* CaseFollowsRun: queue, case and thread follow the run for every kind of answer, with
\* requests that die and reviewers that decide at once.
THEOREM QueueFollowsRuns == ReviewSpec => []CaseFollowsRun
<1>1. IInv => ReviewIsQueued
  BY DEF IInv, Queue, Queued, ReviewIsQueued
<1>2. IInv => DecisionCloses
  BY DEF IInv, Closing, Closed, DecisionCloses
<1>3. IInv => VerdictsAgree
  <2>1. ASSUME IInv, NEW r \in Runs \ contested
        PROVE  /\ case["agent"][r] = "resolved" => run[r].status = "completed"
               /\ case["agent"][r] = "rejected" => run[r].status = "rejected"
    BY <2>1 DEF IInv, Verdicts, OneVerdict
  <2>2. ASSUME IInv, NEW t \in Threads, NEW r \in Runs, OnlyRunOf(t) = {r}, Decided(r)
        PROVE  /\ thread[t].pending = NoRun
               /\ thread[t].status = IF run[r].status = "rejected" THEN "rejected" ELSE "active"
    <3>1. Alone(r, t)
      BY <2>2 DEF OnlyRunOf, Alone
    <3> QED
      BY <2>2, <3>1 DEF IInv, Threading, TellsVerdict
  <2> QED
    BY <2>1, <2>2 DEF VerdictsAgree
<1>4. IInv => CaseFollowsRun
  BY <1>1, <1>2, <1>3 DEF CaseFollowsRun
<1> QED
  BY <1>4, ReviewInvariant, PTL

\* CheckpointsAreOwn: a checkpoint changes hands only between runs that met on a thread.
THEOREM CheckpointsKeepOwner == ReviewSpec => []CheckpointsAreOwn
<1>1. IInv => CheckpointsAreOwn
  BY DEF IInv, Checkpoints, OwnCheckpoint, CheckpointsAreOwn
<1> QED
  BY <1>1, ReviewInvariant, PTL

=============================================================================
