------------------------------- MODULE EvalRuns -------------------------------
(***************************************************************************)
(* Evaluation runs of one builtin dataset: create_eval_run of              *)
(* api/routes/evals.py, run by several requests at once.                   *)
(*                                                                         *)
(* A request takes the dataset's snapshot, or makes it from the file on    *)
(* disk, has every question answered and judged, compares the metrics with *)
(* the last run in the table and stores its own.  Nothing is stored before *)
(* the end.  A rate over the N questions is kept as a sum: N * Unit is 1.0.*)
(***************************************************************************)
EXTENDS Integers, Sequences, FiniteSets, FiniteSetsExt

CONSTANTS
  Callers,    \* requests that may be in progress at the same time
  N,          \* questions of the dataset
  Unit,       \* parts of 1.0 in which one question's scores are counted
  Cases,      \* what may come of one question: an answer and the judge's reply
  Editions,   \* bound: the editions of the file on disk
  MaxRuns     \* bound: runs inserted, those that fail before their commit included

\* rank is the place of the expected citation among the answer's (0: missing), marks
\* which of them are relevant, keywords the expected ones, of which found are in the
\* citations; named tells that the answer has them all, confident that its confidence
\* is 0.6 or more.  reply and usage are what the judge's gateway sent.
Case ==
  [rank : Nat, marks : Seq(BOOLEAN), keywords : Nat, found : Nat,
   named : BOOLEAN, confident : BOOLEAN,
   reply : {"none", "verdict", "nan"}, correct : BOOLEAN, faithful : Int,
   usage : {"readable", "unreadable", "no object"}]

ASSUME EvalAssumption ==
  /\ N \in Nat \ {0} /\ Unit \in Nat \ {0} /\ MaxRuns \in Nat
  /\ Cases \subseteq Case
  /\ Editions \in Nat \ {0}

VARIABLES
  file,     \* the edition of the JSONL file on disk
  dataset,  \* eval_dataset: the edition of the snapshot, 0 while there is no row
  runs,     \* eval_run, in the order of their commits
  clock,    \* the last created_at given to a run
  call      \* what each request is doing

vars == <<file, dataset, runs, clock, call>>

-----------------------------------------------------------------------------
(* Grading one question *)

Min2(a, b) == IF a < b THEN a ELSE b

Cited(c) == c.rank # 0

\* With no keywords expected the citation decides.
Matched(c) == IF c.keywords = 0 THEN Cited(c) ELSE c.named

Passed(c) == Matched(c) /\ Cited(c) /\ c.confident

\* int() on a count the gateway garbled raises inside the guarded call, which gives
\* the verdict up; a usage block that is no object raises past it.
Judged(c) == c.reply = "verdict" /\ c.usage = "readable"

\* The exception that ends the run: AttributeError on the usage block, or a NaN that
\* the JSON column refuses.
Breaks(c) == c.reply = "nan" \/ (c.reply = "verdict" /\ c.usage = "no object")

\* Some question can be graded.
ASSUME SomeGrading == \E c \in Cases : ~Breaks(c)

\* Mutant: the judge's verdict is also taken when its call failed.
RightByReply(c) == c.correct

JudgedRight(c) == IF Judged(c) THEN c.correct ELSE Matched(c)

Clamp(x) == IF x < 0 THEN 0 ELSE Min2(x, Unit)

\* Grounded in citations only; without a verdict a keyword match stands for it.
Faithfulness(c) ==
  IF c.marks = <<>> THEN 0
  ELSE IF Judged(c) THEN Clamp(c.faithful)
  ELSE IF Matched(c) THEN Unit ELSE 0

ReciprocalRank(c) == IF Cited(c) THEN Unit \div c.rank ELSE 0

\* context_precision: the mean of precision@k over the ranks of relevant chunks.
ContextPrecision(c) ==
  LET hits == {k \in DOMAIN c.marks : c.marks[k]}
      upTo(k) == Cardinality({j \in hits : j <= k})
  IN  IF hits = {} THEN 0
      ELSE MapThenSumSet(LAMBDA k : (upTo(k) * Unit) \div k, hits) \div Cardinality(hits)

ContextRecall(c) ==
  IF c.keywords = 0 THEN Unit
  ELSE IF c.marks = <<>> THEN 0 ELSE (c.found * Unit) \div c.keywords

-----------------------------------------------------------------------------
(* One run's metrics *)

Questions == 1 .. N

Whole == N * Unit

Count(P(_), f) == Cardinality({q \in Questions : P(f[q])})

Total(score(_), f) == MapThenSumSet(LAMBDA q : score(f[q]), Questions)

Gating ==
  {"judge_answer_correctness", "answer_correctness", "faithfulness", "context_precision",
   "context_recall", "retrieval_mrr", "citation_hit_rate", "low_confidence_rate"}

Graded(f) ==
  LET low(c) == ~c.confident
      fell(c) == ~Judged(c)
      grounded(c) == c.marks # <<>>
      metrics == [m \in Gating |->
        CASE m = "judge_answer_correctness" -> Unit * Count(JudgedRight, f)
          [] m = "answer_correctness"       -> Unit * Count(Matched, f)
          [] m = "faithfulness"             -> Total(Faithfulness, f)
          [] m = "context_precision"        -> Total(ContextPrecision, f)
          [] m = "context_recall"           -> Total(ContextRecall, f)
          [] m = "retrieval_mrr"            -> Total(ReciprocalRank, f)
          [] m = "citation_hit_rate"        -> Unit * Count(Cited, f)
          [] m = "low_confidence_rate"      -> Unit * Count(low, f)]
  IN  [metrics |-> metrics, passed |-> Count(Passed, f),
       fallbacks |-> Count(fell, f), grounded |-> Count(grounded, f)]

Gradings == {Graded(f) : f \in [Questions -> {c \in Cases : ~Breaks(c)}]}

AtLeast(x, percent) == 100 * x >= percent * Whole

\* Mutant: the low-confidence rate is not looked at.
QualityWithoutConfidence(m) ==
  IF /\ AtLeast(m["answer_correctness"], 80)
     /\ AtLeast(m["citation_hit_rate"], 85)
     /\ AtLeast(m["retrieval_mrr"], 70)
  THEN "pass" ELSE "fail"

\* quality_gate
Quality(m) ==
  IF /\ AtLeast(m["answer_correctness"], 80)
     /\ AtLeast(m["citation_hit_rate"], 85)
     /\ AtLeast(m["retrieval_mrr"], 70)
     /\ 100 * m["low_confidence_rate"] <= 20 * Whole
  THEN "pass"
  ELSE IF /\ AtLeast(m["answer_correctness"], 60)
          /\ AtLeast(m["citation_hit_rate"], 70)
          /\ 100 * m["retrieval_mrr"] >= 55 * Whole
          /\ 100 * m["low_confidence_rate"] <= 35 * Whole
  THEN "warn"
  ELSE "fail"

-----------------------------------------------------------------------------
(* The comparison with the previous run *)

\* How much worse a metric became; a rate of uncertain answers is better lower.
Loss(name, now, before) ==
  IF name = "low_confidence_rate" THEN now[name] - before[name] ELSE before[name] - now[name]

\* The sets of metrics the code may call regressed: worse by more than 0.05.  The
\* difference of two rounded floats that is 0.05 exactly falls on either side.
Regressed(now, before) ==
  LET sure   == {m \in Gating : 20 * Loss(m, now, before) > Whole}
      atEdge == {m \in Gating : 20 * Loss(m, now, before) = Whole}
  IN  {sure \cup part : part \in SUBSET atEdge}

\* regression_gate; a single loss of 0.15 exactly falls on either side as well.
RegressionGates(now, before) ==
  UNION {IF bad = {} THEN {"pass"}
         ELSE IF Cardinality(bad) >= 2 THEN {"fail"}
         ELSE {IF 100 * Loss(m, now, before) > 15 * Whole THEN "fail" ELSE "warn" : m \in bad}
                \cup {"fail" : m \in {x \in bad : 100 * Loss(x, now, before) = 15 * Whole}}
         : bad \in Regressed(now, before)}

-----------------------------------------------------------------------------
(* Requests *)

NoRun == [edition |-> 0, stamp |-> 0, seen |-> 0, previous |-> 0,
          graded |-> CHOOSE g \in Gradings : TRUE, quality |-> "fail", regression |-> "pass"]

Doing(pc, edition, run) == [pc |-> pc, edition |-> edition, run |-> run]

Idle == Doing("idle", 0, NoRun)

Init ==
  /\ file = 1
  /\ dataset = 0
  /\ runs = <<>>
  /\ clock = 0
  /\ call = [h \in Callers |-> Idle]

\* A deployment brings another edition of the file (which is not read any more once
\* there is a snapshot).
EditFile ==
  /\ file < Editions
  /\ dataset = 0
  /\ file' = file + 1
  /\ UNCHANGED <<dataset, runs, clock, call>>

\* The row is looked up; without one the file is read.
Look(h) ==
  /\ call[h].pc = "idle"
  /\ clock + Cardinality({g \in Callers : call[g].pc \in {"create", "grade", "store"}}) < MaxRuns
  /\ call' = [call EXCEPT ![h] =
       IF dataset # 0 THEN Doing("grade", dataset, NoRun) ELSE Doing("create", file, NoRun)]
  /\ UNCHANGED <<file, dataset, runs, clock>>

\* Mutant: no unique name, the later snapshot is the one found.
AlwaysFree(h) == TRUE

\* The name is unique.
NameFree(h) == dataset = 0

Create(h) ==
  /\ call[h].pc = "create"
  /\ NameFree(h)
  /\ dataset' = call[h].edition
  /\ call' = [call EXCEPT ![h] = Doing("grade", call[h].edition, call[h].run)]
  /\ UNCHANGED <<file, runs, clock>>

\* Mutant: the first run stays the reference.
OldestRuns == IF runs = <<>> THEN {0} ELSE {1}

\* ORDER BY created_at DESC LIMIT 1; 0 when there is none.
LatestRuns ==
  IF runs = <<>> THEN {0}
  ELSE {i \in DOMAIN runs : \A j \in DOMAIN runs : runs[j].stamp <= runs[i].stamp}

\* All questions are answered and graded, then the last run is read.
GradeAndCompare(h) ==
  /\ call[h].pc = "grade"
  /\ \E g \in Gradings, previous \in LatestRuns :
     \E gate \in IF previous = 0 THEN {"pass"}
                 ELSE RegressionGates(g.metrics, runs[previous].graded.metrics) :
       call' = [call EXCEPT ![h] = Doing("store", call[h].edition,
         [edition |-> call[h].edition, stamp |-> 0, seen |-> Len(runs), previous |-> previous,
          graded |-> g, quality |-> Quality(g.metrics), regression |-> gate])]
  /\ UNCHANGED <<file, dataset, runs, clock>>

\* The INSERT takes the time, the commit comes after it.
Insert(h) ==
  /\ call[h].pc = "store"
  /\ clock' = clock + 1
  /\ call' = [call EXCEPT ![h] =
       Doing("commit", call[h].edition, [call[h].run EXCEPT !.stamp = clock + 1])]
  /\ UNCHANGED <<file, dataset, runs>>

Commit(h) ==
  /\ call[h].pc = "commit"
  /\ runs' = Append(runs, call[h].run)
  /\ call' = [call EXCEPT ![h] = Idle]
  /\ UNCHANGED <<file, dataset, clock>>

\* A failed answer, a broken case, a second snapshot, a lost connection: the request
\* ends in an error and leaves nothing behind.
Fail(h) ==
  /\ call[h].pc # "idle"
  /\ call' = [call EXCEPT ![h] = Idle]
  /\ UNCHANGED <<file, dataset, runs, clock>>

Next ==
  \/ EditFile
  \/ \E h \in Callers :
       Look(h) \/ Create(h) \/ GradeAndCompare(h) \/ Insert(h) \/ Commit(h) \/ Fail(h)

Spec == Init /\ [][Next]_vars

-----------------------------------------------------------------------------
(* Properties *)

\* All runs of a dataset were graded on the same questions, so that their metrics may
\* be compared, whatever is deployed and however many requests met its first use.
OneSnapshot == \A i, j \in DOMAIN runs : runs[i].edition = runs[j].edition

\* i is the run before j in the table's order.
Precedes(i, j) ==
  /\ runs[i].stamp < runs[j].stamp
  /\ \A k \in DOMAIN runs : runs[k].stamp <= runs[i].stamp \/ runs[j].stamp <= runs[k].stamp

Worse(now, before) == \E m \in Gating : 20 * Loss(m, now, before) > Whole

\* A metric that fell by more than 0.05 from one run in the table to the next is
\* reported by the later one's regression_gate, unless the two overlapped.
DropIsReported ==
  \A i, j \in DOMAIN runs :
    /\ Precedes(i, j)
    /\ i <= runs[j].seen
    /\ Worse(runs[j].graded.metrics, runs[i].graded.metrics)
    => runs[j].regression # "pass"

\* quality_gate never looks at answer_pass_rate; still a run that passes it has at
\* least 45 of 100 answers that are right, cited and confident.
PassBound ==
  \A i \in DOMAIN runs :
    runs[i].quality = "pass" => 100 * runs[i].graded.passed >= 45 * N

Distance(a, b) == IF a > b THEN a - b ELSE b - a

\* The judge changes the keyword grading in the questions it judged only.
VerdictsWithin(g) ==
  Distance(g.metrics["judge_answer_correctness"], g.metrics["answer_correctness"])
    <= Unit * (N - g.fallbacks)

\* Faithfulness is earned by answers with citations only, at most 1.0 each.
GroundedOnly(g) == g.metrics["faithfulness"] <= Unit * g.grounded

\* What the judge adds to the metrics stays within the questions it could judge.
JudgeOnlyWhereItJudged ==
  \A i \in DOMAIN runs : VerdictsWithin(runs[i].graded) /\ GroundedOnly(runs[i].graded)

(* Inductive strengthening *)

\* previous is the last by created_at of the first runs of the table.
LastOf(previous, seen, table) ==
  IF seen = 0 THEN previous = 0
  ELSE /\ previous \in 1 .. seen
       /\ \A j \in 1 .. seen : table[j].stamp <= table[previous].stamp

\* What a request stores is made of what it read.
WellMade(r, table) ==
  /\ r.quality = Quality(r.graded.metrics)
  /\ r.seen \in 0 .. Len(table)
  /\ LastOf(r.previous, r.seen, table)
  /\ r.previous # 0 =>
       r.regression \in RegressionGates(r.graded.metrics, table[r.previous].graded.metrics)

Stamped(r, table, now) ==
  /\ r.stamp \in 1 .. now
  /\ \A j \in 1 .. r.seen : table[j].stamp < r.stamp

Stored(r, table, now, snapshot) ==
  /\ WellMade(r, table) /\ Stamped(r, table, now)
  /\ r.edition = snapshot /\ snapshot # 0

Underway(c, table, now, snapshot) ==
  /\ c.pc = "create" => c.edition # 0
  /\ c.pc \in {"grade", "store", "commit"} => c.edition = snapshot /\ snapshot # 0
  /\ c.pc \in {"store", "commit"} => WellMade(c.run, table) /\ c.run.edition = snapshot
  /\ c.pc = "commit" => /\ Stamped(c.run, table, now)
                        /\ \A i \in DOMAIN table : table[i].stamp # c.run.stamp

\* No two runs, stored or about to be, have the same time.
OneEach ==
  /\ \A i, j \in DOMAIN runs : runs[i].stamp = runs[j].stamp => i = j
  /\ \A g, h \in Callers :
       call[g].pc = "commit" /\ call[h].pc = "commit" /\ g # h
         => call[g].run.stamp # call[h].run.stamp

EvalInv ==
  /\ \A i \in DOMAIN runs : Stored(runs[i], runs, clock, dataset)
  /\ \A h \in Callers : Underway(call[h], runs, clock, dataset)
  /\ OneEach

RunRecord ==
  [edition : Nat, stamp : Nat, seen : Nat, previous : Nat, graded : Gradings,
   quality : {"pass", "warn", "fail"}, regression : {"pass", "warn", "fail"}]

CallRecord ==
  [pc : {"idle", "create", "grade", "store", "commit"}, edition : 0 .. Editions,
   run : RunRecord]

\* Files, snapshot, runs and requests have their types.
TypeOK ==
  /\ file \in 1 .. Editions
  /\ dataset \in 0 .. Editions
  /\ runs \in Seq(RunRecord)
  /\ clock \in Nat
  /\ call \in [Callers -> CallRecord]

=============================================================================
