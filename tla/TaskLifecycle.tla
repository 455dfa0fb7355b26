--------------------------- MODULE TaskLifecycle ---------------------------
(***************************************************************************)
(* What the task log promises about one task: it is submitted once, runs,  *)
(* is attempted again at most MaxRetries times one attempt after the       *)
(* other, and gets one outcome, which stays until the retention job        *)
(* deletes the row for good.  A cancellation may come at any time, even on *)
(* top of an outcome; what the row says after it is nobody's promise.      *)
(* There are no transactions, messages or workers here; TaskRuns           *)
(* implements this in any interleaving of those as long as no document is  *)
(* submitted twice.                                                        *)
(***************************************************************************)
EXTENDS Naturals

CONSTANTS Tasks, MaxRetries

VARIABLES
  life,     \* where each task is in its life
  attempt   \* the highest attempt its row shows; 0 once canceled

Stages   == {"none", "pending", "running", "succeeded", "failed", "canceled",
             "purged"}
Outcomes == {"succeeded", "failed"}

LifeInit ==
  /\ life = [t \in Tasks |-> "none"]
  /\ attempt = [t \in Tasks |-> 0]

Move(t, from, to) ==
  /\ life[t] = from
  /\ life' = [life EXCEPT ![t] = to]

Submit(t)  == Move(t, "none", "pending") /\ UNCHANGED attempt
Begin(t)   == Move(t, "pending", "running") /\ UNCHANGED attempt
Succeed(t) == Move(t, "running", "succeeded") /\ UNCHANGED attempt

\* Only the last attempt may turn into a failure.
Fail(t) ==
  /\ Move(t, "running", "failed")
  /\ attempt[t] = MaxRetries
  /\ UNCHANGED attempt

\* The next attempt starts.
Retry(t) ==
  /\ life[t] = "running"
  /\ attempt[t] < MaxRetries
  /\ attempt' = [attempt EXCEPT ![t] = @ + 1]
  /\ UNCHANGED life

\* The row still shows the attempts, but the promise about them is off.
Cancel(t) ==
  /\ life[t] \in {"pending", "running"} \cup Outcomes
  /\ life' = [life EXCEPT ![t] = "canceled"]
  /\ attempt' = [attempt EXCEPT ![t] = 0]

Purge(old) ==
  /\ \A t \in old : life[t] \in Outcomes \cup {"canceled"}
  /\ life' = [t \in Tasks |-> IF t \in old THEN "purged" ELSE life[t]]
  /\ attempt' = [t \in Tasks |-> IF t \in old THEN 0 ELSE attempt[t]]

LifeNext ==
  \/ \E t \in Tasks : Submit(t) \/ Begin(t) \/ Succeed(t) \/ Fail(t) \/ Retry(t)
                        \/ Cancel(t)
  \/ \E old \in SUBSET Tasks : Purge(old)

LifeSpec == LifeInit /\ [][LifeNext]_<<life, attempt>>

=============================================================================
