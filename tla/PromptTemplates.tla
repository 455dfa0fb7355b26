--------------------------- MODULE PromptTemplates ---------------------------
(***************************************************************************)
(* The versions of one prompt (one task_type) and the administrators'      *)
(* requests that create, promote, roll back and activate them.             *)
(*                                                                         *)
(* A request is one database transaction under READ COMMITTED.  It loads   *)
(* the version it is about, may UPDATE its siblings, and last UPDATEs the  *)
(* columns it changed and commits.  A row another transaction updated and  *)
(* has not committed is locked: an UPDATE that matches it waits, and then  *)
(* evaluates its WHERE again.  Other task_types never meet these rows.     *)
(***************************************************************************)
EXTENDS Naturals, FiniteSets

CONSTANTS
  Ids,       \* the rows there is room for
  Sessions,  \* requests that may be in progress at the same time
  Traffic,   \* the traffic_percent values the operators use
  NoId       \* model value: no row

ASSUME PromptAssumption == Traffic \subseteq 0 .. 100 /\ 0 \in Traffic /\ NoId \notin Ids

VARIABLES
  rows,  \* prompt_template: id -> row
  op,    \* what each session is doing
  raced  \* history: rows last written by a request that another one overlapped

vars == <<rows, op, raced>>

-----------------------------------------------------------------------------

Statuses == {"draft", "candidate", "active", "archived"}

Row == [status : Statuses \cup {"none"}, traffic : Traffic, version : Nat]

NoRow == [status |-> "none", traffic |-> 0, version |-> 0]

Existing == {i \in Ids : rows[i].status # "none"}
Active   == {i \in Ids : rows[i].status = "active"}

Allowed(status) ==
  CASE status = "draft"     -> {"candidate", "active", "archived"}
    [] status = "candidate" -> {"active", "archived", "draft"}
    [] status = "active"    -> {"archived"}
    [] status = "archived"  -> {"draft"}

\* op[s]: seen is the row as loaded, new the object as the request changed it,
\* match the rows the sibling UPDATE selected, held those it locked; rival tells
\* that another request committed since this one began.
Idle == [pc |-> "idle", kind |-> "none", id |-> NoId,
         seen |-> NoRow, new |-> NoRow, match |-> {}, held |-> {}, rival |-> FALSE]

Busy(s) == op[s].pc # "idle"

LockedByOther(s, i) == \E r \in Sessions \ {s} : i \in op[r].held

\* Every commit is noticed, in the model only, by the requests in progress.
Committed(s) ==
  [r \in Sessions |-> IF r = s THEN Idle
                      ELSE [op[r] EXCEPT !.rival = op[r].pc # "idle"]]

Init ==
  /\ rows = [i \in Ids |-> NoRow]
  /\ op = [s \in Sessions |-> Idle]
  /\ raced = {}

-----------------------------------------------------------------------------
(* create_prompt_template: the next version is read, then inserted          *)

\* Mutant: archived rows do not count.
IsNextOfLiving(v) ==
  v = 1 + Cardinality({i \in Existing : rows[i].status # "archived"})

\* coalesce(max(version), 0) + 1
IsNext(v) ==
  /\ \A i \in Existing : rows[i].version < v
  /\ v = 1 \/ \E i \in Existing : rows[i].version + 1 = v

CreateRead(s) ==
  /\ ~Busy(s)
  /\ Existing # Ids
  /\ \E v \in {1} \cup {rows[i].version + 1 : i \in Existing} :
       /\ IsNext(v)
       /\ op' = [op EXCEPT ![s] =
            [pc |-> "insert", kind |-> "create", id |-> NoId, seen |-> NoRow,
             new |-> [status |-> "draft", traffic |-> 0, version |-> v],
             match |-> {}, held |-> {}, rival |-> FALSE]]
  /\ UNCHANGED <<rows, raced>>

CreateInsert(s, i) ==
  /\ op[s].pc = "insert"
  /\ rows[i].status = "none"
  /\ rows' = [rows EXCEPT ![i] = op[s].new]
  /\ raced' = IF op[s].rival THEN raced \cup {i} ELSE raced \ {i}
  /\ op' = Committed(s)

-----------------------------------------------------------------------------
(* transition_prompt_template, activate_prompt_template                     *)

\* Mutant: promotion does not look at its siblings.
AfterLoadNoSweep(kind, target) == "write"

\* Only an entry into active touches other rows.
AfterLoad(kind, target) == IF target = "active" THEN "siblings" ELSE "write"

Load(s, kind, i, target, traffic) ==
  op' = [op EXCEPT ![s] =
    [pc    |-> AfterLoad(kind, target),
     kind  |-> kind,
     id    |-> i,
     seen  |-> rows[i],
     new   |-> [status |-> target, traffic |-> traffic, version |-> rows[i].version],
     match |-> {}, held |-> {}, rival |-> FALSE]]

\* Mutant: any traffic with any target.
TrafficAnywhere(target, traffic) == TRUE

\* traffic_percent > 0 is refused for anything but a candidate.
TrafficAccepted(target, traffic) == traffic > 0 => target = "candidate"

\* Mutant: a transition table without the detour of archived rows over draft.
AcceptsReactivation(status, target) ==
  target \in Allowed(status) \/ target = "candidate" \/ target = "active"

\* A candidate may stay one with another share; a request for the status the row
\* already has changes nothing otherwise.
Accepts(status, target) ==
  target \in Allowed(status) \/ (status = "candidate" /\ target = "candidate")

Transition(s, i, target, traffic) ==
  /\ ~Busy(s)
  /\ i \in Existing
  /\ TrafficAccepted(target, traffic)
  /\ Accepts(rows[i].status, target)
  /\ Load(s, "transition", i, target, traffic)
  /\ UNCHANGED <<rows, raced>>

Activate(s, i) ==
  /\ ~Busy(s)
  /\ i \in Existing
  /\ Load(s, "activate", i, "active", 0)
  /\ UNCHANGED <<rows, raced>>

\* The WHERE of the sibling UPDATE: a promotion takes the other active and
\* candidate rows, the legacy activation takes every row, its own included.
Matches(s) ==
  IF op[s].kind = "activate" THEN Existing
  ELSE {j \in Ids \ {op[s].id} : rows[j].status \in {"active", "candidate"}}

SelectSiblings(s) ==
  /\ op[s].pc = "siblings"
  /\ op' = [op EXCEPT ![s].pc = "locking", ![s].match = Matches(s)]
  /\ UNCHANGED <<rows, raced>>

\* All matched rows are free; the WHERE is evaluated on them again.
LockSiblings(s) ==
  /\ op[s].pc = "locking"
  /\ \A j \in op[s].match : ~LockedByOther(s, j)
  /\ op' = [op EXCEPT ![s].pc = "write", ![s].held = op[s].match \cap Matches(s)]
  /\ UNCHANGED <<rows, raced>>

\* What the sibling UPDATE makes of a row.
Demoted(s, row) ==
  [status  |-> IF op[s].kind = "activate" THEN "draft" ELSE "archived",
   traffic |-> 0,
   version |-> row.version]

\* The UPDATE of the loaded object: the columns that differ from what was loaded.
Flush(s, row) ==
  [status  |-> IF op[s].new.status # op[s].seen.status THEN op[s].new.status
               ELSE row.status,
   traffic |-> IF op[s].new.traffic # op[s].seen.traffic THEN op[s].new.traffic
               ELSE row.traffic,
   version |-> row.version]

AfterSiblings(s, j) == IF j \in op[s].held THEN Demoted(s, rows[j]) ELSE rows[j]

Commit(s) ==
  /\ op[s].pc = "write"
  /\ ~LockedByOther(s, op[s].id) \/ op[s].new = op[s].seen
  /\ rows' = [j \in Ids |-> IF j = op[s].id THEN Flush(s, AfterSiblings(s, j))
                            ELSE AfterSiblings(s, j)]
  /\ raced' = IF op[s].rival THEN raced \cup {op[s].id} ELSE raced \ {op[s].id}
  /\ op' = Committed(s)

\* The request dies, or the database picks it as the victim of a deadlock.
Abort(s) ==
  /\ Busy(s)
  /\ op' = [op EXCEPT ![s] = Idle]
  /\ UNCHANGED <<rows, raced>>

-----------------------------------------------------------------------------

Next ==
  \E s \in Sessions :
    \/ CreateRead(s)
    \/ \E i \in Ids : CreateInsert(s, i)
    \/ \E i \in Ids, target \in Statuses, traffic \in Traffic :
         Transition(s, i, target, traffic)
    \/ \E i \in Ids : Activate(s, i)
    \/ SelectSiblings(s) \/ LockSiblings(s) \/ Commit(s) \/ Abort(s)

Spec == Init /\ [][Next]_vars

-----------------------------------------------------------------------------
(* Properties *)

OpState ==
  [pc    : {"idle", "insert", "siblings", "locking", "write"},
   kind  : {"none", "create", "transition", "activate"},
   id    : Ids \cup {NoId}, seen : Row, new : Row,
   match : SUBSET Ids, held : SUBSET Ids, rival : BOOLEAN]

\* Rows and requests have their types and no row is locked twice.
TypeOK ==
  /\ rows \in [Ids -> Row]
  /\ op \in [Sessions -> OpState]
  /\ raced \subseteq Ids
  /\ \A s \in Sessions : op[s].pc \in {"siblings", "locking", "write"} =>
       op[s].id \in Existing /\ op[s].new.status # "none"
  /\ \A r, s \in Sessions : r # s => op[r].held \cap op[s].held = {}

\* There is one production version, unless two requests overlapped: of two active
\* rows at least one was written by a request during which another committed.
TwoActivesOnlyByRace ==
  \A i, j \in Active : i # j => i \in raced \/ j \in raced

\* Only candidates have a share of the traffic, unless requests overlapped.
TrafficOnlyByRace ==
  \A i \in Ids : rows[i].traffic > 0 /\ rows[i].status # "candidate" => i \in raced

\* Both: the state machine is left only by overlapping requests.
StateMachineOnlyByRace == TwoActivesOnlyByRace /\ TrafficOnlyByRace

\* An archived version is not put back into production by a transition that did
\* not first make it a draft, unless requests overlapped.
RevivedOnlyByRace(s) ==
  Commit(s) /\ op[s].kind = "transition" /\ rows[op[s].id].status = "archived" =>
    \/ rows'[op[s].id].status \in {"archived", "draft"}
    \/ op[s].id \in raced'

\* A new row gets a version number of its own, unless its creation overlapped.
VersionFreshUnlessRace ==
  \A i \in Ids \ Existing :
    rows'[i].status # "none" =>
      i \in raced' \/ \A j \in Existing : rows[j].version # rows'[i].version

\* Production ends only when a transition archives the active version, when the active
\* version is activated again (its own sweep makes it a draft, and the unit of work
\* has no change to send after that), or by overlapping requests.
ProductionEndsOnPurpose(s) ==
  Commit(s) /\ Active # {} /\ Active' = {} =>
    \/ op[s].kind = "transition" /\ op[s].new.status = "archived"
    \/ op[s].kind = "activate" /\ op[s].seen.status = "active"
    \/ op[s].rival

\* The steps the state machine forbids are taken by overlapping requests only.
HistoryOnlyByRace ==
  [][/\ VersionFreshUnlessRace
     /\ \A s \in Sessions : RevivedOnlyByRace(s) /\ ProductionEndsOnPurpose(s)]_vars

(* Inductive strengthening *)

\* What a request is about to write.
WellFormed(s) ==
  /\ op[s].pc = "insert" => op[s].new.status = "draft" /\ op[s].new.traffic = 0
  /\ op[s].pc \in {"siblings", "locking", "write"} =>
       /\ op[s].kind \in {"transition", "activate"}
       /\ op[s].new.traffic > 0 => op[s].new.status = "candidate"
       /\ op[s].kind = "activate" => op[s].new.status = "active"
       /\ op[s].kind = "transition" => op[s].id \notin op[s].held
       /\ op[s].kind = "transition" /\ op[s].new.status = "active" =>
            op[s].seen.status # "active"
  /\ op[s].pc \in {"siblings", "locking"} => op[s].new.status = "active"

\* While no other request commits, what a request read is what the table holds.
UpToDate(s) ==
  /\ op[s].pc \in {"siblings", "locking", "write"} => rows[op[s].id] = op[s].seen
  /\ op[s].pc = "locking" => op[s].match = Matches(s)
  /\ op[s].pc = "write" /\ op[s].new.status = "active" => op[s].held = Matches(s)

RequestInv == \A s \in Sessions : WellFormed(s) /\ (~op[s].rival => UpToDate(s))

\* A request writes only what the state machine allows from what it read.
Lawful(s) ==
  /\ op[s].pc = "insert" => op[s].rival \/ IsNext(op[s].new.version)
  /\ op[s].kind = "transition" => Accepts(op[s].seen.status, op[s].new.status)
  /\ op[s].pc = "write" /\ op[s].new.status # "active" => op[s].held = {}
  /\ op[s].held \subseteq Existing

LawfulInv == \A s \in Sessions : Lawful(s)

-----------------------------------------------------------------------------
(* What the code's comments promise *)

\* transition_prompt_template: "at most one active" (it holds with one request at a
\* time, ModelProofs; see TwoActivesOnlyByRace for overlapping requests).
AtMostOneActive == \A i, j \in Active : i = j

\* transition_prompt_template: "only candidates can have traffic_percent > 0".
OnlyCandidatesHaveTraffic ==
  \A i \in Ids : rows[i].traffic > 0 => rows[i].status = "candidate"

=============================================================================
