------------------------------ MODULE ModelProofs ------------------------------
(***************************************************************************)
(* Proofs about what calls to models rest on: the versions of the prompts  *)
(* (PromptTemplates), for any number of rows and sessions; the calls they  *)
(* serve, the log and the statistics made of it (PromptSelection); and the *)
(* gateways with their vectors (ModelGateways): every vector that is       *)
(* stored or used is of its text, has the length its owner was configured  *)
(* for, and was made by a client deployed under the name it is stored      *)
(* under, and what a process says of its gateways holds for its calls.     *)
(***************************************************************************)
EXTENDS PromptSelection, ModelGateways, Sums, TLAPS

-----------------------------------------------------------------------------
(* PromptTemplates: types *)

\* What a commit leaves in a row is a row.
LEMMA WrittenTypes ==
  ASSUME TypeOK, NEW s \in Sessions, NEW j \in Ids
  PROVE  /\ AfterSiblings(s, j) \in Row
         /\ Flush(s, AfterSiblings(s, j)) \in Row
<1>1. rows[j] \in Row /\ op[s].new \in Row /\ 0 \in Traffic
  BY PromptAssumption DEF TypeOK, OpState
<1>2. AfterSiblings(s, j) \in Row
  BY <1>1 DEF AfterSiblings, Demoted, Row, Statuses
<1>3. Flush(s, AfterSiblings(s, j)) \in Row
  BY <1>1, <1>2 DEF Flush, Row, Statuses
<1>4. QED BY <1>2, <1>3

\* A request in progress keeps all but its notice of the commit.
Kept(old, new) ==
  /\ new.pc = old.pc /\ new.kind = old.kind /\ new.id = old.id
  /\ new.seen = old.seen /\ new.new = old.new
  /\ new.match = old.match /\ new.held = old.held
  /\ new.rival = (old.pc # "idle")

\* The idle record and the records a commit leaves behind are well typed.
LEMMA CommittedType ==
  ASSUME TypeOK, NEW s \in Sessions
  PROVE  /\ Idle \in OpState
         /\ Committed(s) \in [Sessions -> OpState]
         /\ \A r \in Sessions : Committed(s)[r].held \subseteq op[r].held
         /\ \A r \in Sessions : Committed(s)[r].pc = "idle" \/
              (r # s /\ Kept(op[r], Committed(s)[r]))
<1>1. Idle \in OpState
  BY PromptAssumption DEF Idle, OpState, NoRow, Row
<1>2. ASSUME NEW r \in Sessions
      PROVE  /\ Committed(s)[r] \in OpState
             /\ Committed(s)[r].held \subseteq op[r].held
             /\ Committed(s)[r].pc = "idle" \/
                  (r # s /\ Kept(op[r], Committed(s)[r]))
  <2>1. CASE r = s
    BY <1>1, <2>1 DEF Committed, Idle
  <2>2. CASE r # s
    <3>1. op[r] \in OpState
      BY DEF TypeOK
    <3>2. Committed(s)[r] = [op[r] EXCEPT !.rival = op[r].pc # "idle"]
      BY <2>2 DEF Committed
    <3>3. QED BY <2>2, <3>1, <3>2 DEF OpState, Kept
  <2>3. QED BY <2>1, <2>2
<1>3. Committed(s) \in [Sessions -> OpState]
  BY <1>2 DEF Committed
<1>4. QED BY <1>1, <1>2, <1>3

\* After a commit the requests in progress are as well typed as before it.
LEMMA CommitType ==
  ASSUME TypeOK, NEW s \in Sessions, op' = Committed(s),
         rows' \in [Ids -> Row], raced' \subseteq Ids, Existing \subseteq Existing'
  PROVE  TypeOK'
<1>1. op' \in [Sessions -> OpState]
  BY CommittedType
<1>2. \A q \in Sessions : op'[q].held \subseteq op[q].held
  BY CommittedType
<1>3. ASSUME NEW q \in Sessions, op'[q].pc \in {"siblings", "locking", "write"}
      PROVE  op'[q].id \in Existing' /\ op'[q].new.status # "none"
  <2>1. op'[q].pc = op[q].pc /\ op'[q].id = op[q].id /\ op'[q].new = op[q].new
    BY <1>3, CommittedType DEF Kept
  <2>2. QED BY <1>3, <2>1 DEF TypeOK
<1>4. \A q, r \in Sessions : q # r => op'[q].held \cap op'[r].held = {}
  BY <1>2 DEF TypeOK
<1>5. QED BY <1>1, <1>3, <1>4 DEF TypeOK

\* Initially there is nothing.
LEMMA InitType == Init => TypeOK
<1>1. NoRow \in Row
  BY PromptAssumption DEF NoRow, Row
<1>2. Idle \in OpState
  BY PromptAssumption DEF Idle, OpState, NoRow, Row
<1>3. QED BY <1>1, <1>2 DEF Init, TypeOK, Idle

\* Rows are created, never deleted.
LEMMA NextType == TypeOK /\ [Next]_vars => TypeOK'
<1> SUFFICES ASSUME TypeOK, [Next]_vars PROVE TypeOK'
  OBVIOUS
<1>1. ASSUME NEW s \in Sessions, CreateRead(s) PROVE TypeOK'
  <2>0. \A i \in Ids : rows[i].version + 1 \in Nat
    BY DEF TypeOK, Row
  <2>1. PICK v \in {1} \cup {rows[i].version + 1 : i \in Existing} :
          op' = [op EXCEPT ![s] =
            [pc |-> "insert", kind |-> "create", id |-> NoId, seen |-> NoRow,
             new |-> [status |-> "draft", traffic |-> 0, version |-> v],
             match |-> {}, held |-> {}, rival |-> FALSE]]
    BY <1>1 DEF CreateRead
  <2>9. v \in Nat
    BY <2>0 DEF Existing
  <2>2. op'[s] \in OpState /\ op'[s].held = {} /\ op'[s].pc = "insert"
    BY <2>1, <2>9, PromptAssumption DEF TypeOK, OpState, NoRow, Row, Statuses
  <2>3. \A r \in Sessions : r # s => op'[r] = op[r]
    BY <2>1 DEF TypeOK
  <2>4. op' \in [Sessions -> OpState]
    BY <2>1, <2>2 DEF TypeOK
  <2>5. rows' = rows /\ raced' = raced
    BY <1>1 DEF CreateRead
  <2>6. QED BY <2>2, <2>3, <2>4, <2>5 DEF TypeOK, Existing
<1>2. ASSUME NEW s \in Sessions, NEW i \in Ids, CreateInsert(s, i) PROVE TypeOK'
  <2>1. rows' = [rows EXCEPT ![i] = op[s].new] /\ op' = Committed(s)
    BY <1>2 DEF CreateInsert
  <2>2. op[s].new \in Row
    BY DEF TypeOK, OpState
  <2>3. rows' \in [Ids -> Row] /\ raced' \subseteq Ids
    BY <1>2, <2>1, <2>2 DEF TypeOK, CreateInsert
  <2>4. \A j \in Existing : j = i \/ rows'[j] = rows[j]
    BY <2>1 DEF TypeOK
  <2>5. i \notin Existing
    BY <1>2 DEF CreateInsert, Existing
  <2>6. Existing \subseteq Existing'
    BY <2>4, <2>5 DEF Existing
  <2>7. QED BY <2>1, <2>3, <2>6, CommitType
<1>3. ASSUME NEW s \in Sessions, NEW kind \in {"transition", "activate"}, NEW i \in Ids,
             NEW target \in Statuses, NEW traffic \in Traffic,
             i \in Existing, Load(s, kind, i, target, traffic),
             UNCHANGED <<rows, raced>>
      PROVE  TypeOK'
  <2>1. rows[i] \in Row /\ rows[i].version \in Nat
    BY DEF TypeOK, Row
  <2>2. AfterLoad(kind, target) \in {"siblings", "write"}
    BY DEF AfterLoad
  <2>3. /\ op'[s] \in OpState /\ op'[s].held = {} /\ op'[s].id \in Existing
        /\ op'[s].new.status # "none"
    BY <1>3, <2>1, <2>2 DEF Load, TypeOK, OpState, Row, Statuses
  <2>4. \A r \in Sessions : r # s => op'[r] = op[r]
    BY <1>3 DEF Load, TypeOK
  <2>5. op' \in [Sessions -> OpState]
    BY <1>3, <2>3 DEF Load, TypeOK
  <2>6. QED BY <1>3, <2>3, <2>4, <2>5 DEF TypeOK, Existing
<1>4. ASSUME NEW s \in Sessions, SelectSiblings(s) PROVE TypeOK'
  <2>1. Matches(s) \subseteq Ids
    BY DEF Matches, Existing
  <2>2. /\ op'[s] \in OpState /\ op'[s].held = op[s].held
        /\ op'[s].id = op[s].id /\ op'[s].new = op[s].new
    BY <1>4, <2>1 DEF SelectSiblings, TypeOK, OpState
  <2>3. \A r \in Sessions : r # s => op'[r] = op[r]
    BY <1>4 DEF SelectSiblings, TypeOK
  <2>4. op' \in [Sessions -> OpState]
    BY <1>4, <2>2 DEF SelectSiblings, TypeOK
  <2>5. rows' = rows /\ raced' = raced /\ op[s].pc = "siblings"
    BY <1>4 DEF SelectSiblings
  <2>6. QED BY <2>2, <2>3, <2>4, <2>5 DEF TypeOK, Existing
<1>5. ASSUME NEW s \in Sessions, LockSiblings(s) PROVE TypeOK'
  <2>1. /\ op'[s] \in OpState /\ op'[s].id = op[s].id /\ op'[s].new = op[s].new
        /\ op'[s].held = op[s].match \cap Matches(s)
    BY <1>5 DEF LockSiblings, TypeOK, OpState
  <2>2. \A r \in Sessions : r # s => op'[r] = op[r]
    BY <1>5 DEF LockSiblings, TypeOK
  <2>3. op' \in [Sessions -> OpState]
    BY <1>5, <2>1 DEF LockSiblings, TypeOK
  <2>4. rows' = rows /\ raced' = raced /\ op[s].pc = "locking"
    BY <1>5 DEF LockSiblings
  <2>5. \A r \in Sessions : r # s => op'[s].held \cap op[r].held = {}
    BY <1>5, <2>1 DEF LockSiblings, LockedByOther
  <2>6. \A q, r \in Sessions : q # r => op'[q].held \cap op'[r].held = {}
    BY <2>2, <2>5 DEF TypeOK
  <2>7. QED BY <2>1, <2>2, <2>3, <2>4, <2>6 DEF TypeOK, Existing
<1>6. ASSUME NEW s \in Sessions, Commit(s) PROVE TypeOK'
  <2>1. /\ rows' = [j \in Ids |-> IF j = op[s].id THEN Flush(s, AfterSiblings(s, j))
                                  ELSE AfterSiblings(s, j)]
        /\ op' = Committed(s)
    BY <1>6 DEF Commit
  <2>2. rows' \in [Ids -> Row]
    BY <2>1, WrittenTypes
  <2>3. op[s].id \in Existing
    BY <1>6 DEF Commit, TypeOK
  <2>4. raced' \subseteq Ids
    BY <1>6, <2>3 DEF Commit, TypeOK, Existing
  <2>5. ASSUME NEW j \in Existing PROVE rows'[j].status # "none"
    <3>1. AfterSiblings(s, j).status # "none"
      BY DEF AfterSiblings, Demoted, Existing
    <3>2. op[s].new.status # "none"
      BY <1>6 DEF Commit, TypeOK
    <3>3. QED BY <2>1, <3>1, <3>2 DEF Flush, Existing
  <2>6. Existing \subseteq Existing'
    BY <2>5 DEF Existing
  <2>7. QED BY <2>1, <2>2, <2>4, <2>6, CommitType
<1>7. ASSUME NEW s \in Sessions, Abort(s) PROVE TypeOK'
  <2>1. /\ op' = [op EXCEPT ![s] = Idle] /\ Idle \in OpState
        /\ Idle.held = {} /\ Idle.pc = "idle"
    BY <1>7, CommittedType DEF Abort, Idle
  <2>2. rows' = rows /\ raced' = raced
    BY <1>7 DEF Abort
  <2>3. op'[s] = Idle /\ \A r \in Sessions : r # s => op'[r] = op[r]
    BY <2>1 DEF TypeOK
  <2>4. QED BY <2>1, <2>2, <2>3 DEF TypeOK, Existing
<1>8. CASE UNCHANGED vars
  BY <1>8 DEF vars, TypeOK, Existing
<1>9. ASSUME NEW s \in Sessions, NEW i \in Ids, Activate(s, i) PROVE TypeOK'
  BY <1>3, <1>9, PromptAssumption DEF Activate, Statuses
<1>10. ASSUME NEW s \in Sessions, NEW i \in Ids, NEW target \in Statuses,
              NEW traffic \in Traffic, Transition(s, i, target, traffic)
       PROVE  TypeOK'
  BY <1>3, <1>10 DEF Transition
<1>11. QED
  BY <1>1, <1>2, <1>4, <1>5, <1>6, <1>7, <1>8, <1>9, <1>10 DEF Next

\* Rows, requests and locks keep their types.
THEOREM PromptTypes == Spec => []TypeOK
BY InitType, NextType, PTL DEF Spec

-----------------------------------------------------------------------------
(* PromptTemplates: what a request read and what it will write *)

\* The rows a WHERE selects depend on the table and the request's target only.
LEMMA MatchesSame ==
  ASSUME TypeOK, NEW s \in Sessions, rows' = rows,
         op'[s].kind = op[s].kind, op'[s].id = op[s].id
  PROVE  Matches(s)' = Matches(s)
BY DEF Matches, Existing

\* A commit finds every other request warned, and resets its own.
LEMMA AfterCommit ==
  ASSUME TypeOK, RequestInv, NEW s \in Sessions, op' = Committed(s)
  PROVE  RequestInv'
<1> SUFFICES ASSUME NEW r \in Sessions
             PROVE  WellFormed(r)' /\ (~op'[r].rival => UpToDate(r)')
  BY DEF RequestInv
<1>1. CASE op'[r].pc = "idle"
  BY <1>1 DEF WellFormed, UpToDate
<1>2. CASE op'[r].pc # "idle"
  <2>1. /\ op'[r].pc = op[r].pc /\ op'[r].kind = op[r].kind /\ op'[r].id = op[r].id
        /\ op'[r].seen = op[r].seen /\ op'[r].new = op[r].new
        /\ op'[r].held = op[r].held
    BY <1>2, CommittedType DEF Kept
  <2>2. op'[r].rival = (op[r].pc # "idle")
    BY <1>2, CommittedType DEF Kept
  <2>3. op'[r].rival
    BY <1>2, <2>1, <2>2
  <2>4. WellFormed(r)
    BY DEF RequestInv
  <2>5. QED BY <2>1, <2>3, <2>4 DEF WellFormed
<1>3. QED BY <1>1, <1>2

\* A step of one request that writes nothing leaves the others as they were.
LEMMA OthersKept ==
  ASSUME TypeOK, RequestInv, NEW s \in Sessions, rows' = rows,
         \A r \in Sessions : r # s => op'[r] = op[r],
         WellFormed(s)', ~op'[s].rival => UpToDate(s)'
  PROVE  RequestInv'
<1> SUFFICES ASSUME NEW r \in Sessions, r # s
             PROVE  WellFormed(r)' /\ (~op'[r].rival => UpToDate(r)')
  BY DEF RequestInv
<1>1. op'[r] = op[r] /\ WellFormed(r) /\ (~op[r].rival => UpToDate(r))
  BY DEF RequestInv
<1>2. Matches(r)' = Matches(r)
  BY <1>1, MatchesSame
<1>3. WellFormed(r)'
  BY <1>1 DEF WellFormed
<1>4. ASSUME ~op'[r].rival PROVE UpToDate(r)'
  BY <1>1, <1>2, <1>4 DEF UpToDate
<1>5. QED BY <1>3, <1>4

\* RequestInv is inductive.
LEMMA RequestInduction ==
  /\ Init => RequestInv
  /\ TypeOK /\ RequestInv /\ [Next]_vars => RequestInv'
<1>1. ASSUME Init PROVE RequestInv
  <2>1. \A s \in Sessions : op[s].pc = "idle"
    BY <1>1 DEF Init, Idle
  <2>2. QED BY <2>1 DEF RequestInv, WellFormed, UpToDate
<1>2. SUFFICES ASSUME TypeOK, RequestInv, [Next]_vars PROVE RequestInv'
  BY <1>1
<1>3. ASSUME NEW s \in Sessions, CreateRead(s) PROVE RequestInv'
  <2>1. PICK v : op' = [op EXCEPT ![s] =
            [pc |-> "insert", kind |-> "create", id |-> NoId, seen |-> NoRow,
             new |-> [status |-> "draft", traffic |-> 0, version |-> v],
             match |-> {}, held |-> {}, rival |-> FALSE]]
    BY <1>3 DEF CreateRead
  <2>2. /\ op'[s].pc = "insert" /\ op'[s].new.status = "draft"
        /\ op'[s].new.traffic = 0
        /\ \A r \in Sessions : r # s => op'[r] = op[r]
    BY <1>2, <2>1 DEF TypeOK
  <2>3. WellFormed(s)' /\ UpToDate(s)' /\ rows' = rows
    BY <1>3, <2>2 DEF WellFormed, UpToDate, CreateRead
  <2>4. QED BY <1>2, <2>2, <2>3, OthersKept
<1>4. ASSUME NEW s \in Sessions, NEW i \in Ids, CreateInsert(s, i) PROVE RequestInv'
  BY <1>2, <1>4, AfterCommit DEF CreateInsert
<1>5. ASSUME NEW s \in Sessions, NEW i \in Ids, NEW target \in Statuses,
             NEW traffic \in Traffic, NEW kind \in {"transition", "activate"},
             Load(s, kind, i, target, traffic), rows' = rows,
             traffic > 0 => target = "candidate",
             kind = "activate" => target = "active",
             kind = "transition" /\ target = "active" => rows[i].status # "active"
      PROVE  RequestInv'
  <2>1. op'[s] = [pc    |-> AfterLoad(kind, target),
                  kind  |-> kind, id |-> i, seen  |-> rows[i],
                  new   |-> [status |-> target, traffic |-> traffic,
                             version |-> rows[i].version],
                  match |-> {}, held |-> {}, rival |-> FALSE]
    BY <1>2, <1>5 DEF Load, TypeOK
  <2>2. \A r \in Sessions : r # s => op'[r] = op[r]
    BY <1>2, <1>5 DEF Load, TypeOK
  <2>3. /\ AfterLoad(kind, target) \in {"siblings", "write"}
        /\ AfterLoad(kind, target) = "siblings" <=> target = "active"
    BY DEF AfterLoad
  <2>4. WellFormed(s)'
    BY <1>5, <2>1, <2>3 DEF WellFormed
  <2>5. UpToDate(s)'
    BY <1>5, <2>1, <2>3 DEF UpToDate
  <2>6. QED BY <1>2, <1>5, <2>2, <2>4, <2>5, OthersKept
<1>6. ASSUME NEW s \in Sessions, NEW i \in Ids, Activate(s, i) PROVE RequestInv'
  <2>1. "active" \in Statuses /\ 0 \in Traffic /\ Load(s, "activate", i, "active", 0)
        /\ rows' = rows
    BY <1>6, PromptAssumption DEF Activate, Statuses
  <2>2. QED BY <1>5, <2>1
<1>7. ASSUME NEW s \in Sessions, NEW i \in Ids, NEW target \in Statuses,
             NEW traffic \in Traffic, Transition(s, i, target, traffic)
      PROVE  RequestInv'
  <2>1. /\ Load(s, "transition", i, target, traffic) /\ rows' = rows
        /\ traffic > 0 => target = "candidate"
        /\ Accepts(rows[i].status, target)
    BY <1>7 DEF Transition, TrafficAccepted
  <2>2. target = "active" => rows[i].status # "active"
    BY <2>1 DEF Accepts, Allowed
  <2>3. QED BY <1>5, <2>1, <2>2
<1>8. ASSUME NEW s \in Sessions, SelectSiblings(s) PROVE RequestInv'
  <2>1. /\ op'[s].pc = "locking" /\ op'[s].match = Matches(s)
        /\ op'[s].kind = op[s].kind /\ op'[s].id = op[s].id /\ op'[s].seen = op[s].seen
        /\ op'[s].new = op[s].new /\ op'[s].held = op[s].held
        /\ op'[s].rival = op[s].rival
        /\ op[s].pc = "siblings" /\ rows' = rows
    BY <1>2, <1>8 DEF SelectSiblings, TypeOK, OpState
  <2>2. \A r \in Sessions : r # s => op'[r] = op[r]
    BY <1>2, <1>8 DEF SelectSiblings, TypeOK
  <2>3. Matches(s)' = Matches(s)
    BY <1>2, <2>1, MatchesSame
  <2>4. WellFormed(s) /\ (~op[s].rival => UpToDate(s))
    BY <1>2 DEF RequestInv
  <2>5. WellFormed(s)'
    BY <2>1, <2>4 DEF WellFormed
  <2>6. ~op'[s].rival => UpToDate(s)'
    BY <2>1, <2>3, <2>4 DEF UpToDate
  <2>7. QED BY <1>2, <2>1, <2>2, <2>5, <2>6, OthersKept
<1>9. ASSUME NEW s \in Sessions, LockSiblings(s) PROVE RequestInv'
  <2>1. /\ op'[s].pc = "write" /\ op'[s].held = op[s].match \cap Matches(s)
        /\ op'[s].kind = op[s].kind /\ op'[s].id = op[s].id /\ op'[s].seen = op[s].seen
        /\ op'[s].new = op[s].new /\ op'[s].rival = op[s].rival
        /\ op[s].pc = "locking" /\ rows' = rows
    BY <1>2, <1>9 DEF LockSiblings, TypeOK, OpState
  <2>2. \A r \in Sessions : r # s => op'[r] = op[r]
    BY <1>2, <1>9 DEF LockSiblings, TypeOK
  <2>3. Matches(s)' = Matches(s)
    BY <1>2, <2>1, MatchesSame
  <2>4. WellFormed(s) /\ (~op[s].rival => UpToDate(s))
    BY <1>2 DEF RequestInv
  <2>5. op[s].kind = "transition" => op[s].id \notin Matches(s)
    BY DEF Matches
  <2>6. WellFormed(s)'
    BY <2>1, <2>4, <2>5 DEF WellFormed
  <2>7. ~op'[s].rival => UpToDate(s)'
    BY <2>1, <2>3, <2>4 DEF UpToDate
  <2>8. QED BY <1>2, <2>1, <2>2, <2>6, <2>7, OthersKept
<1>10. ASSUME NEW s \in Sessions, Commit(s) PROVE RequestInv'
  BY <1>2, <1>10, AfterCommit DEF Commit
<1>11. ASSUME NEW s \in Sessions, Abort(s) PROVE RequestInv'
  <2>1. op'[s].pc = "idle" /\ rows' = rows
    BY <1>2, <1>11 DEF Abort, Idle, TypeOK
  <2>2. \A r \in Sessions : r # s => op'[r] = op[r]
    BY <1>2, <1>11 DEF Abort, TypeOK
  <2>3. WellFormed(s)' /\ UpToDate(s)'
    BY <2>1 DEF WellFormed, UpToDate
  <2>4. QED BY <1>2, <2>1, <2>2, <2>3, OthersKept
<1>12. CASE UNCHANGED vars
  BY <1>2, <1>12 DEF vars, RequestInv, WellFormed, UpToDate, Matches, Existing
<1>13. QED
  BY <1>2, <1>3, <1>4, <1>6, <1>7, <1>8, <1>9, <1>10, <1>11, <1>12 DEF Next

-----------------------------------------------------------------------------
(* PromptTemplates: what a commit writes *)

\* The row a transaction commits, when nothing else committed since it was loaded.
LEMMA CleanCommit ==
  ASSUME TypeOK, RequestInv, NEW s \in Sessions, Commit(s), ~op[s].rival
  PROVE  LET i == op[s].id IN
         /\ rows'[i].status = "active" =>
              \A j \in Ids \ {i} : rows'[j].status # "active"
         /\ rows'[i].traffic > 0 => rows'[i].status = "candidate"
<1> DEFINE i == op[s].id
<1>1. /\ i \in Ids /\ rows[i] = op[s].seen /\ rows[i] \in Row /\ op[s].new \in Row
      /\ WellFormed(s) /\ UpToDate(s) /\ op[s].pc = "write"
      /\ op[s].kind \in {"transition", "activate"}
  BY DEF Commit, TypeOK, Existing, RequestInv, UpToDate, WellFormed, OpState
<1>2. /\ rows'[i] = Flush(s, AfterSiblings(s, i))
      /\ \A j \in Ids \ {i} : rows'[j] = AfterSiblings(s, j)
  BY <1>1 DEF Commit
<1>3. CASE op[s].new.status = "active"
  <2>1. op[s].held = Matches(s)
    BY <1>1, <1>3 DEF UpToDate
  <2>2. ASSUME NEW j \in Ids \ {i} PROVE rows'[j].status # "active"
    <3>1. CASE j \in Matches(s)
      <4>1. rows'[j] = Demoted(s, rows[j])
        BY <1>2, <2>1, <2>2, <3>1 DEF AfterSiblings
      <4>2. Demoted(s, rows[j]).status # "active"
        BY DEF Demoted
      <4>3. QED BY <4>1, <4>2
    <3>2. CASE j \notin Matches(s)
      <4>1. rows[j].status # "active"
        BY <1>1, <2>2, <3>2 DEF Matches, Existing
      <4>2. QED BY <1>2, <2>1, <3>2, <4>1 DEF AfterSiblings
    <3>3. QED BY <3>1, <3>2
  <2>3. op[s].new.traffic = 0
    <3>1. op[s].new.traffic \in 0 .. 100
      BY <1>1, PromptAssumption DEF Row
    <3>2. ~(op[s].new.traffic > 0)
      BY <1>1, <1>3 DEF WellFormed
    <3>3. QED BY <3>1, <3>2
  <2>4. rows'[i].traffic = 0
    <3>1. AfterSiblings(s, i).traffic = 0 \/ AfterSiblings(s, i) = op[s].seen
      BY <1>1 DEF AfterSiblings, Demoted
    <3>2. QED BY <1>2, <2>3, <3>1 DEF Flush
  <2>5. QED BY <2>2, <2>4
<1>4. CASE op[s].new.status # "active"
  <2>1. op[s].kind = "transition"
    BY <1>1, <1>4 DEF WellFormed
  <2>2. AfterSiblings(s, i) = op[s].seen
    BY <1>1, <2>1 DEF WellFormed, AfterSiblings
  <2>3. rows'[i].status = op[s].new.status /\ rows'[i].traffic = op[s].new.traffic
    BY <1>2, <2>2 DEF Flush
  <2>4. QED BY <1>1, <1>4, <2>3 DEF WellFormed
<1>5. QED BY <1>3, <1>4

\* Rows other than its own a transaction can only take out of production.
LEMMA CommitDemotes ==
  ASSUME TypeOK, NEW s \in Sessions, Commit(s), NEW j \in Ids, j # op[s].id
  PROVE  /\ rows'[j].status = "active" => rows[j].status = "active"
         /\ rows'[j].traffic > 0 => rows'[j] = rows[j]
         /\ j \in raced => j \in raced'
<1>1. rows'[j] = AfterSiblings(s, j)
  BY DEF Commit
<1>2. rows'[j] = rows[j] \/ (rows'[j].status # "active" /\ rows'[j].traffic = 0)
  BY <1>1 DEF AfterSiblings, Demoted
<1>3. j \in raced => j \in raced'
  BY DEF Commit
<1>4. QED BY <1>2, <1>3

\* One step keeps both properties.
LEMMA RaceStep ==
  ASSUME TypeOK, RequestInv, TwoActivesOnlyByRace, TrafficOnlyByRace, [Next]_vars
  PROVE  TwoActivesOnlyByRace' /\ TrafficOnlyByRace'
<1>1. ASSUME NEW s \in Sessions, NEW i \in Ids, CreateInsert(s, i)
      PROVE  TwoActivesOnlyByRace' /\ TrafficOnlyByRace'
  <2>1. rows'[i].status = "draft" /\ rows'[i].traffic = 0
    BY <1>1 DEF CreateInsert, RequestInv, WellFormed, TypeOK
  <2>2. \A j \in Ids : j # i => rows'[j] = rows[j] /\ (j \in raced => j \in raced')
    BY <1>1 DEF CreateInsert, TypeOK
  <2>3. TwoActivesOnlyByRace'
    BY <2>1, <2>2 DEF TwoActivesOnlyByRace, Active
  <2>4. TrafficOnlyByRace'
    BY <2>1, <2>2 DEF TrafficOnlyByRace
  <2>5. QED BY <2>3, <2>4
<1>2. ASSUME NEW s \in Sessions, Commit(s)
      PROVE  TwoActivesOnlyByRace' /\ TrafficOnlyByRace'
  <2>1. PICK i \in Ids : i = op[s].id
    BY <1>2 DEF Commit, TypeOK, Existing
  <2>2. \A j \in Ids : j # i =>
          /\ rows'[j].status = "active" => rows[j].status = "active"
          /\ rows'[j].traffic > 0 => rows'[j] = rows[j]
          /\ j \in raced => j \in raced'
    BY <1>2, <2>1, CommitDemotes
  <2>3. CASE op[s].rival
    <3>1. i \in raced'
      BY <1>2, <2>1, <2>3 DEF Commit
    <3>2. TwoActivesOnlyByRace'
      BY <2>2, <3>1 DEF TwoActivesOnlyByRace, Active
    <3>3. TrafficOnlyByRace'
      BY <2>2, <3>1 DEF TrafficOnlyByRace
    <3>4. QED BY <3>2, <3>3
  <2>4. CASE ~op[s].rival
    <3>1. /\ rows'[i].status = "active" =>
               \A j \in Ids \ {i} : rows'[j].status # "active"
          /\ rows'[i].traffic > 0 => rows'[i].status = "candidate"
      BY <1>2, <2>1, <2>4, CleanCommit
    <3>2. TwoActivesOnlyByRace'
      BY <2>2, <3>1 DEF TwoActivesOnlyByRace, Active
    <3>3. TrafficOnlyByRace'
      BY <2>2, <3>1 DEF TrafficOnlyByRace
    <3>4. QED BY <3>2, <3>3
  <2>5. QED BY <2>3, <2>4
<1>3. CASE rows' = rows /\ raced' = raced
  BY <1>3 DEF TwoActivesOnlyByRace, TrafficOnlyByRace, Active
<1>4. QED
  BY <1>1, <1>2, <1>3
  DEF Next, vars, CreateRead, Transition, Activate, SelectSiblings, LockSiblings, Abort

\* At most one version is in production, and only candidates share the traffic,
\* whatever the administrators do, as long as their requests do not overlap.
THEOREM StateMachineHolds == Spec => []StateMachineOnlyByRace
<1>1. Init => StateMachineOnlyByRace
  BY DEF Init, StateMachineOnlyByRace, TwoActivesOnlyByRace, TrafficOnlyByRace, Active, NoRow
<1>2. TypeOK /\ RequestInv /\ StateMachineOnlyByRace /\ [Next]_vars => StateMachineOnlyByRace'
  BY RaceStep DEF StateMachineOnlyByRace
<1>3. QED BY <1>1, <1>2, RequestInduction, PromptTypes, PTL DEF Spec

-----------------------------------------------------------------------------
(* PromptTemplates: what the state machine forbids *)

\* A commit leaves the other requests where they were, warned.
LEMMA CommittedKeeps ==
  ASSUME TypeOK, NEW s \in Sessions, NEW r \in Sessions, r # s
  PROVE  Kept(op[r], Committed(s)[r])
BY DEF Kept, Committed, TypeOK, OpState

\* A commit deletes no row.
LEMMA CommitKeepsRows ==
  ASSUME TypeOK, NEW s \in Sessions, Commit(s)
  PROVE  Existing \subseteq Existing'
<1> SUFFICES ASSUME NEW j \in Existing PROVE rows'[j].status # "none"
  BY DEF Existing
<1>1. rows'[j] = IF j = op[s].id THEN Flush(s, AfterSiblings(s, j)) ELSE AfterSiblings(s, j)
  BY DEF Commit, Existing
<1>2. AfterSiblings(s, j).status # "none"
  BY DEF AfterSiblings, Demoted, Existing
<1>3. op[s].new.status # "none"
  BY DEF Commit, TypeOK
<1>4. QED BY <1>1, <1>2, <1>3 DEF Flush

\* While the table stands still, the requests that do not move stay lawful.
LEMMA LawfulKept ==
  ASSUME TypeOK, LawfulInv, NEW s \in Sessions, rows' = rows,
         \A r \in Sessions : r # s => op'[r] = op[r], Lawful(s)'
  PROVE  LawfulInv'
<1> SUFFICES ASSUME NEW r \in Sessions, r # s PROVE Lawful(r)'
  BY DEF LawfulInv
<1>1. Lawful(r) /\ op'[r] = op[r] /\ Existing' = Existing
  BY DEF LawfulInv, Existing
<1>2. \A v : IsNext(v)' <=> IsNext(v)
  BY DEF IsNext, Existing
<1>3. QED BY <1>1, <1>2 DEF Lawful

\* A commit finds every other request warned.
LEMMA LawfulAfterCommit ==
  ASSUME TypeOK, LawfulInv, NEW s \in Sessions, op' = Committed(s), Existing \subseteq Existing'
  PROVE  LawfulInv'
<1> SUFFICES ASSUME NEW r \in Sessions PROVE Lawful(r)'
  BY DEF LawfulInv
<1>1. CASE r = s
  <2>1. op'[r] = Idle
    BY <1>1 DEF Committed
  <2>2. QED BY <2>1 DEF Idle, Lawful
<1>2. CASE r # s
  <2>1. /\ op'[r].pc = op[r].pc /\ op'[r].kind = op[r].kind /\ op'[r].seen = op[r].seen
        /\ op'[r].new = op[r].new /\ op'[r].held = op[r].held
        /\ op'[r].rival = (op[r].pc # "idle")
    BY <1>2, CommittedKeeps DEF Kept
  <2>2. Lawful(r)
    BY DEF LawfulInv
  <2>3. QED BY <2>1, <2>2 DEF Lawful
<1>3. QED BY <1>1, <1>2

\* What a request is about to write stays lawful.
LEMMA LawfulInduction ==
  /\ Init => LawfulInv
  /\ TypeOK /\ RequestInv /\ LawfulInv /\ [Next]_vars => LawfulInv'
<1>1. ASSUME Init PROVE LawfulInv
  <2>1. \A s \in Sessions : op[s] = Idle
    BY <1>1 DEF Init
  <2>2. QED BY <2>1 DEF LawfulInv, Lawful, Idle
<1>2. SUFFICES ASSUME TypeOK, RequestInv, LawfulInv, [Next]_vars PROVE LawfulInv'
  BY <1>1
<1>3. ASSUME NEW s \in Sessions, CreateRead(s) PROVE LawfulInv'
  <2>1. PICK v \in {1} \cup {rows[i].version + 1 : i \in Existing} :
          /\ IsNext(v)
          /\ op' = [op EXCEPT ![s] =
            [pc |-> "insert", kind |-> "create", id |-> NoId, seen |-> NoRow,
             new |-> [status |-> "draft", traffic |-> 0, version |-> v],
             match |-> {}, held |-> {}, rival |-> FALSE]]
    BY <1>3 DEF CreateRead
  <2>2. /\ op'[s].pc = "insert" /\ op'[s].new.version = v
        /\ op'[s].kind = "create" /\ op'[s].held = {}
        /\ \A r \in Sessions : r # s => op'[r] = op[r]
    BY <1>2, <2>1 DEF TypeOK
  <2>3. rows' = rows
    BY <1>3 DEF CreateRead
  <2>4. IsNext(v)'
    BY <2>1, <2>3 DEF IsNext, Existing
  <2>5. Lawful(s)'
    BY <2>2, <2>4 DEF Lawful
  <2>6. QED BY <1>2, <2>2, <2>3, <2>5, LawfulKept
<1>4. ASSUME NEW s \in Sessions, NEW i \in Ids, CreateInsert(s, i) PROVE LawfulInv'
  <2>1. \A j \in Ids : j # i => rows'[j] = rows[j]
    BY <1>2, <1>4 DEF CreateInsert, TypeOK
  <2>2. Existing \subseteq Existing'
    BY <1>4, <2>1 DEF CreateInsert, Existing
  <2>3. QED BY <1>2, <1>4, <2>2, LawfulAfterCommit DEF CreateInsert
<1>5. ASSUME NEW s \in Sessions, NEW kind, NEW i \in Ids, NEW target, NEW traffic,
             Load(s, kind, i, target, traffic), rows' = rows,
             kind = "transition" => Accepts(rows[i].status, target)
      PROVE  LawfulInv'
  <2>1. op'[s] = [pc    |-> AfterLoad(kind, target),
                  kind  |-> kind, id |-> i, seen  |-> rows[i],
                  new   |-> [status |-> target, traffic |-> traffic,
                             version |-> rows[i].version],
                  match |-> {}, held |-> {}, rival |-> FALSE]
    BY <1>2, <1>5 DEF Load, TypeOK
  <2>2. \A r \in Sessions : r # s => op'[r] = op[r]
    BY <1>2, <1>5 DEF Load, TypeOK
  <2>3. AfterLoad(kind, target) # "insert"
    BY DEF AfterLoad
  <2>4. Lawful(s)'
    BY <1>5, <2>1, <2>3 DEF Lawful
  <2>5. QED BY <1>2, <1>5, <2>2, <2>4, LawfulKept
<1>6. ASSUME NEW s \in Sessions, NEW i \in Ids, Activate(s, i) PROVE LawfulInv'
  BY <1>5, <1>6 DEF Activate
<1>7. ASSUME NEW s \in Sessions, NEW i \in Ids, NEW target \in Statuses,
             NEW traffic \in Traffic, Transition(s, i, target, traffic)
      PROVE  LawfulInv'
  BY <1>5, <1>7 DEF Transition
<1>8. ASSUME NEW s \in Sessions, SelectSiblings(s) PROVE LawfulInv'
  <2>1. /\ op'[s].pc = "locking" /\ op'[s].kind = op[s].kind /\ op'[s].seen = op[s].seen
        /\ op'[s].new = op[s].new /\ op'[s].held = op[s].held /\ rows' = rows
        /\ \A r \in Sessions : r # s => op'[r] = op[r]
    BY <1>2, <1>8 DEF SelectSiblings, TypeOK, OpState
  <2>2. Lawful(s) /\ Existing' = Existing
    BY <1>2, <2>1 DEF LawfulInv, Existing
  <2>3. Lawful(s)'
    BY <2>1, <2>2 DEF Lawful
  <2>4. QED BY <1>2, <2>1, <2>3, LawfulKept
<1>9. ASSUME NEW s \in Sessions, LockSiblings(s) PROVE LawfulInv'
  <2>1. /\ op'[s].pc = "write" /\ op'[s].held = op[s].match \cap Matches(s)
        /\ op'[s].kind = op[s].kind /\ op'[s].seen = op[s].seen
        /\ op'[s].new = op[s].new /\ rows' = rows /\ op[s].pc = "locking"
        /\ \A r \in Sessions : r # s => op'[r] = op[r]
    BY <1>2, <1>9 DEF LockSiblings, TypeOK, OpState
  <2>2. Lawful(s) /\ WellFormed(s) /\ Existing' = Existing
    BY <1>2, <2>1 DEF LawfulInv, RequestInv, Existing
  <2>3. Matches(s) \subseteq Existing
    BY <1>2 DEF Matches, Existing
  <2>4. Lawful(s)'
    BY <2>1, <2>2, <2>3 DEF Lawful, WellFormed
  <2>5. QED BY <1>2, <2>1, <2>4, LawfulKept
<1>10. ASSUME NEW s \in Sessions, Commit(s) PROVE LawfulInv'
  <2>1. Existing \subseteq Existing'
    BY <1>2, <1>10, CommitKeepsRows
  <2>2. QED BY <1>2, <1>10, <2>1, LawfulAfterCommit DEF Commit
<1>11. ASSUME NEW s \in Sessions, Abort(s) PROVE LawfulInv'
  <2>1. op'[s] = Idle /\ rows' = rows /\ \A r \in Sessions : r # s => op'[r] = op[r]
    BY <1>2, <1>11 DEF Abort, TypeOK
  <2>2. Lawful(s)'
    BY <2>1 DEF Lawful, Idle
  <2>3. QED BY <1>2, <2>1, <2>2, LawfulKept
<1>12. CASE UNCHANGED vars
  BY <1>2, <1>12 DEF vars, LawfulInv, Lawful, IsNext, Existing
<1>13. QED
  BY <1>2, <1>3, <1>4, <1>6, <1>7, <1>8, <1>9, <1>10, <1>11, <1>12 DEF Next

\* What an undisturbed transaction makes of the row it is about.
LEMMA CleanWrite ==
  ASSUME TypeOK, RequestInv, NEW s \in Sessions, Commit(s), ~op[s].rival
  PROVE  /\ op[s].id \in Ids
         /\ rows[op[s].id] = op[s].seen
         /\ op[s].new.status # op[s].seen.status =>
              rows'[op[s].id].status = op[s].new.status
<1>1. op[s].id \in Ids /\ WellFormed(s) /\ UpToDate(s) /\ op[s].pc = "write"
  BY DEF Commit, TypeOK, Existing, RequestInv
<1>2. rows[op[s].id] = op[s].seen
  BY <1>1 DEF UpToDate
<1>3. rows'[op[s].id] = Flush(s, AfterSiblings(s, op[s].id))
  BY <1>1 DEF Commit
<1>4. QED BY <1>1, <1>2, <1>3 DEF Flush

\* Archived versions come back over draft only.
LEMMA RevivedStep ==
  ASSUME TypeOK, RequestInv, LawfulInv, NEW s \in Sessions
  PROVE  RevivedOnlyByRace(s)
<1> SUFFICES ASSUME Commit(s), op[s].kind = "transition",
                    rows[op[s].id].status = "archived"
             PROVE  \/ rows'[op[s].id].status \in {"archived", "draft"}
                    \/ op[s].id \in raced'
  BY DEF RevivedOnlyByRace
<1>1. CASE op[s].rival
  BY <1>1 DEF Commit
<1>2. CASE ~op[s].rival
  <2>1. Accepts("archived", op[s].new.status)
    BY <1>2, CleanWrite DEF LawfulInv, Lawful
  <2>2. op[s].new.status = "draft"
    BY <2>1 DEF Accepts, Allowed
  <2>3. QED BY <1>2, <2>2, CleanWrite
<1>3. QED BY <1>1, <1>2

\* Production ends on purpose.
LEMMA ProductionStep ==
  ASSUME TypeOK, RequestInv, LawfulInv, NEW s \in Sessions
  PROVE  ProductionEndsOnPurpose(s)
<1> SUFFICES ASSUME Commit(s), Active # {}, Active' = {}, ~op[s].rival
             PROVE  \/ op[s].kind = "transition" /\ op[s].new.status = "archived"
                    \/ op[s].kind = "activate" /\ op[s].seen.status = "active"
  BY DEF ProductionEndsOnPurpose
<1>1. WellFormed(s) /\ Lawful(s) /\ op[s].pc = "write"
  BY DEF RequestInv, LawfulInv, Commit
<1>2. CASE op[s].new.status = "active"
  <2>1. op[s].seen.status = "active"
    BY <1>2, CleanWrite DEF Active
  <2>2. QED BY <1>1, <1>2, <2>1 DEF WellFormed
<1>3. CASE op[s].new.status # "active"
  <2>1. op[s].kind = "transition" /\ op[s].held = {}
    BY <1>1, <1>3 DEF WellFormed, Lawful
  <2>2. PICK a \in Active : TRUE
    OBVIOUS
  <2>3. CASE a # op[s].id
    <3>1. rows'[a] = rows[a]
      BY <2>1, <2>2, <2>3 DEF Commit, AfterSiblings, Active
    <3>2. QED BY <2>2, <3>1 DEF Active
  <2>4. CASE a = op[s].id
    <3>1. op[s].seen.status = "active"
      BY <2>2, <2>4, CleanWrite DEF Active
    <3>2. Accepts("active", op[s].new.status)
      BY <1>1, <2>1, <3>1 DEF Lawful
    <3>3. QED BY <2>1, <3>2 DEF Accepts, Allowed
  <2>5. QED BY <2>3, <2>4
<1>4. QED BY <1>2, <1>3

\* A version number is new, unless its creation overlapped with a commit.
LEMMA FreshStep ==
  ASSUME TypeOK, LawfulInv, [Next]_vars
  PROVE  VersionFreshUnlessRace
<1> SUFFICES ASSUME NEW i \in Ids \ Existing, rows'[i].status # "none"
             PROVE  i \in raced' \/ \A j \in Existing : rows[j].version # rows'[i].version
  BY DEF VersionFreshUnlessRace
<1>1. rows[i].status = "none"
  BY DEF Existing
<1>2. ASSUME NEW s \in Sessions, NEW k \in Ids, CreateInsert(s, k)
      PROVE  i \in raced' \/ \A j \in Existing : rows[j].version # rows'[i].version
  <2>1. k = i
    BY <1>1, <1>2 DEF CreateInsert, TypeOK
  <2>2. rows'[i] = op[s].new /\ (op[s].rival => i \in raced')
    BY <1>2, <2>1 DEF CreateInsert, TypeOK
  <2>3. op[s].rival \/ IsNext(op[s].new.version)
    BY <1>2 DEF CreateInsert, LawfulInv, Lawful
  <2>4. op[s].new.version \in Nat /\ \A j \in Existing : rows[j].version \in Nat
    BY DEF TypeOK, OpState, Row, Existing
  <2>5. QED BY <2>2, <2>3, <2>4 DEF IsNext
<1>3. ASSUME NEW s \in Sessions, Commit(s) PROVE FALSE
  <2>1. op[s].id \in Existing /\ op[s].held \subseteq Existing
    BY <1>3 DEF Commit, TypeOK, LawfulInv, Lawful
  <2>2. rows'[i] = rows[i]
    BY <1>3, <2>1 DEF Commit, AfterSiblings
  <2>3. QED BY <1>1, <2>2
<1>4. rows' # rows
  BY <1>1
<1>5. QED
  BY <1>2, <1>3, <1>4
  DEF Next, vars, CreateRead, Transition, Activate, SelectSiblings, LockSiblings, Abort

\* No archived version is revived, no version number used twice and production never
\* ended by accident, unless requests overlap, for every set of rows and requests.
THEOREM HistoryHolds == Spec => HistoryOnlyByRace
<1>1. TypeOK /\ RequestInv /\ LawfulInv /\ [Next]_vars =>
        [/\ VersionFreshUnlessRace
         /\ \A s \in Sessions : RevivedOnlyByRace(s) /\ ProductionEndsOnPurpose(s)]_vars
  BY FreshStep, RevivedStep, ProductionStep
<1>2. QED BY <1>1, RequestInduction, LawfulInduction, PromptTypes, PTL DEF Spec, HistoryOnlyByRace

\* With one administrator at a time there is never a second active version.
THEOREM SerialIsSafe ==
  ASSUME \A r, s \in Sessions : r = s
  PROVE  Spec => [](AtMostOneActive /\ OnlyCandidatesHaveTraffic)
<1> DEFINE Alone == raced = {} /\ \A s \in Sessions : ~op[s].rival
<1>1. Init => Alone
  BY DEF Init, Idle
<1>2. TypeOK /\ Alone /\ [Next]_vars => Alone'
  <2> SUFFICES ASSUME TypeOK, Alone, [Next]_vars PROVE Alone'
    OBVIOUS
  <2>1. ASSUME NEW s \in Sessions, op' = Committed(s) PROVE ~op'[s].rival
    BY <2>1 DEF Committed, Idle
  <2>2. ASSUME NEW s \in Sessions, NEW new, op' = [op EXCEPT ![s] = new], ~new.rival,
               raced' = raced
        PROVE  Alone'
    BY <2>2 DEF TypeOK
  <2>3. ASSUME NEW s \in Sessions, NEW i, op' = Committed(s), raced' = raced \ {i}
        PROVE  Alone'
    BY <2>1, <2>3
  <2>4. ASSUME NEW s \in Sessions, CreateRead(s) PROVE Alone'
    <3>1. PICK v : op' = [op EXCEPT ![s] =
            [pc |-> "insert", kind |-> "create", id |-> NoId, seen |-> NoRow,
             new |-> [status |-> "draft", traffic |-> 0, version |-> v],
             match |-> {}, held |-> {}, rival |-> FALSE]]
      BY <2>4 DEF CreateRead
    <3>2. QED BY <2>2, <2>4, <3>1 DEF CreateRead
  <2>5. ASSUME NEW s \in Sessions, NEW i \in Ids, CreateInsert(s, i) PROVE Alone'
    BY <2>3, <2>5 DEF CreateInsert
  <2>6. ASSUME NEW s \in Sessions, Commit(s) PROVE Alone'
    BY <2>3, <2>6 DEF Commit
  <2>7. ASSUME NEW s \in Sessions, NEW kind, NEW i, NEW target, NEW traffic,
               Load(s, kind, i, target, traffic), raced' = raced
        PROVE  Alone'
    BY <2>2, <2>7 DEF Load
  <2>8. ASSUME NEW s \in Sessions, SelectSiblings(s) \/ LockSiblings(s) PROVE Alone'
    <3>1. op'[s].rival = op[s].rival /\ raced' = raced
      BY <2>8 DEF SelectSiblings, LockSiblings, TypeOK, OpState
    <3>2. QED BY <3>1
  <2>9. ASSUME NEW s \in Sessions, Abort(s) PROVE Alone'
    BY <2>2, <2>9 DEF Abort, Idle
  <2>10. QED
    BY <2>4, <2>5, <2>6, <2>7, <2>8, <2>9 DEF Next, vars, Transition, Activate
<1>3. Alone /\ StateMachineOnlyByRace
        => AtMostOneActive /\ OnlyCandidatesHaveTraffic
  BY DEF AtMostOneActive, OnlyCandidatesHaveTraffic, StateMachineOnlyByRace,
         TwoActivesOnlyByRace, TrafficOnlyByRace
<1>4. QED BY <1>1, <1>2, <1>3, StateMachineHolds, PromptTypes, PTL DEF Spec

-----------------------------------------------------------------------------
(* PromptSelection: types, and the log *)

\* The administrators' requests beside the chats are those of PromptTemplates.
LEMMA SelectionKeepsPrompts == SelSpec => Spec
<1>1. SelInit => Init
  BY DEF SelInit
<1>2. [AllNext]_allVars => [Next]_vars
  BY DEF AllNext, allVars, vars, selVars
<1>3. QED BY <1>1, <1>2, PTL DEF SelSpec, Spec

\* So what was shown of them holds beside any number of chats: every step of either is
\* one of PromptTemplates or changes no row.
THEOREM PromptsBesideChats == SelSpec => []StateMachineOnlyByRace /\ HistoryOnlyByRace
BY SelectionKeepsPrompts, StateMachineHolds, HistoryHolds

\* The least of a set of numbers.
LEMMA MinOfSet ==
  ASSUME NEW T \in SUBSET Nat, T # {}
  PROVE  Min(T) \in T /\ \A y \in T : Min(T) <= y
<1>1. \E x \in T : \A y \in T : x <= y
  BY Least
<1>2. QED BY <1>1 DEF Min

\* The lesser of two numbers.
LEMMA MinOfTwo ==
  ASSUME NEW a \in Int, NEW b \in Int
  PROVE  Min({a, b}) = IF a <= b THEN a ELSE b
<1>1. \E x \in {a, b} : \A y \in {a, b} : x <= y
  OBVIOUS
<1>2. Min({a, b}) \in {a, b} /\ \A y \in {a, b} : Min({a, b}) <= y
  BY <1>1 DEF Min
<1>3. QED BY <1>2

\* The greater of two numbers.
LEMMA MaxOfTwo ==
  ASSUME NEW a \in Int, NEW b \in Int
  PROVE  Max({a, b}) = IF a >= b THEN a ELSE b
<1>1. \E x \in {a, b} : \A y \in {a, b} : x >= y
  OBVIOUS
<1>2. Max({a, b}) \in {a, b} /\ \A y \in {a, b} : Max({a, b}) >= y
  BY <1>1 DEF Max
<1>3. QED BY <1>2

\* The candidates in any order are a sequence of them.
LEMMA OrdersAre ==
  ASSUME TypeOK, NEW S \in SUBSET Ids, NEW q \in Orders(S)
  PROVE  q \in Seq(S) /\ Len(q) = Cardinality(S) /\ Cardinality(S) \in Nat
<1>1. Cardinality(S) \in Nat
  BY SelectionAssumption, FS_Subset, FS_CardinalityType
<1>2. q \in [1 .. Cardinality(S) -> S]
  BY DEF Orders, SetToSeqs
<1>3. QED BY <1>1, <1>2

\* What is chosen has the types of what is recorded of it.
LEMMA ChosenTypes ==
  ASSUME TypeOK, SelTypeOK, NEW c \in Chosen
  PROVE  /\ c = [id |-> c.id, version |-> c.version, group |-> c.group]
         /\ c.id \in Served /\ c.version \in Nat
         /\ c.group \in {"candidate", "active", "default"}
         /\ c.group = "candidate" =>
              \E k \in DOMAIN chat.order : c.id = chat.order[k].id
<1>1. CASE Routed(chat.order, chat.bucket) # {}
  <2> DEFINE R == Routed(chat.order, chat.bucket)
             k == Min(R)
  <2>1. chat.order \in Seq(Offer)
    BY DEF SelTypeOK
  <2>2. R \subseteq 1 .. Len(chat.order)
    BY DEF Routed
  <2>3. k \in 1 .. Len(chat.order)
    <3>1. R \in SUBSET Nat /\ R # {}
      BY <1>1, <2>1, <2>2
    <3> HIDE DEF R
    <3>2. QED BY <2>2, <3>1, MinOfSet
  <2> HIDE DEF k
  <2>4. chat.order[k] \in Offer /\ k \in DOMAIN chat.order
    BY <2>1, <2>3
  <2>5. c = [id |-> chat.order[k].id, version |-> chat.order[k].version, group |-> "candidate"]
    BY <1>1 DEF Chosen, k
  <2>6. QED BY <2>4, <2>5 DEF Offer, Served
<1>2. CASE Routed(chat.order, chat.bucket) = {} /\ Active # {}
  <2>1. PICK i \in Newest(Active) :
          c = [id |-> i, version |-> rows[i].version, group |-> "active"]
    BY <1>2 DEF Chosen
  <2>2. i \in Ids /\ rows[i].version \in Nat
    BY DEF Newest, Active, TypeOK, Row
  <2>3. QED BY <2>1, <2>2 DEF Served
<1>3. CASE Routed(chat.order, chat.bucket) = {} /\ Active = {}
  <2>1. c = [id |-> NoId, version |-> 0, group |-> "default"]
    BY <1>3 DEF Chosen
  <2>2. QED BY <2>1 DEF Served
<1>4. QED BY <1>1, <1>2, <1>3

\* A selection records log rows.
LEMMA LogRowTypes ==
  ASSUME TypeOK, SelTypeOK, NEW c \in Chosen
  PROVE  Skipped(c) \in SUBSET Ids /\ LogRows(c) \in SUBSET LogRow
<1>1. chat.skipped \in SUBSET Ids
  BY DEF SelTypeOK
<1>2. Skipped(c) \in SUBSET Ids
  BY <1>1 DEF Skipped
<1>3. [id |-> c.id, group |-> c.group] \in LogRow
  BY ChosenTypes DEF LogRow
<1>4. \A i \in Skipped(c) : [id |-> i, group |-> "skipped"] \in LogRow
  BY <1>2 DEF LogRow, Served
<1>5. QED BY <1>2, <1>3, <1>4 DEF LogRows

\* What the candidates are read into.
LEMMA OffersRead ==
  ASSUME TypeOK, SelTypeOK, NEW b \in Buckets, ReadCandidates(b)
  PROVE  SelTypeOK' /\ OfferedOrSkipped'
<1> DEFINE S == {i \in Candidates : rows[i].traffic > 0}
           offers(q) == [k \in 1 .. Len(q) |->
             [id |-> q[k], version |-> rows[q[k]].version, traffic |-> rows[q[k]].traffic]]
<1>1. PICK q \in Orders(S) :
        chat' = [NoChat EXCEPT !.pc = "active", !.bucket = b, !.order = offers(q),
                               !.skipped = {i \in Candidates : rows[i].traffic <= 0}]
  BY DEF ReadCandidates
<1>2. S \in SUBSET Ids /\ Candidates \subseteq Ids
  BY DEF Candidates, Existing
<1>3. \A i \in Ids : rows[i].traffic \in 0 .. 100 /\ rows[i].version \in Nat
  BY PromptAssumption DEF TypeOK, Row
<1>4. q \in Seq(S)
  BY <1>2, OrdersAre
<1>5. ASSUME NEW k \in 1 .. Len(q)
      PROVE  offers(q)[k] \in Offer /\ offers(q)[k].id \in S
  <2>1. q[k] \in S /\ q[k] \in Ids /\ rows[q[k]].traffic > 0
    BY <1>2, <1>4
  <2>2. rows[q[k]].traffic \in 1 .. 100 /\ rows[q[k]].version \in Nat
    <3>1. rows[q[k]].traffic \in 0 .. 100 /\ rows[q[k]].version \in Nat
      BY <1>3, <2>1
    <3>2. rows[q[k]].traffic > 0
      BY <2>1
    <3>3. QED BY <3>1, <3>2
  <2>3. QED BY <2>1, <2>2 DEF Offer
<1>6. Len(q) \in Nat
  BY <1>4
<1>7. offers(q) \in Seq(Offer) /\ DOMAIN offers(q) = 1 .. Len(q)
  <2> DEFINE o == offers(q)
  <2>1. o = [k \in 1 .. Len(q) |-> o[k]] /\ DOMAIN o = 1 .. Len(q)
    OBVIOUS
  <2>2. \A k \in 1 .. Len(q) : o[k] \in Offer
    BY <1>5
  <2> HIDE DEF o
  <2>3. o \in Seq(Offer)
    BY <1>6, <2>1, <2>2
  <2>4. QED BY <2>1, <2>3 DEF o
<1>8. b \in Nat /\ NoId \in Served
  BY SelectionAssumption DEF Served
<1>9. /\ chat' = [pc |-> "active", bucket |-> b, order |-> offers(q),
                  skipped |-> {i \in Candidates : rows[i].traffic <= 0},
                  id |-> NoId, version |-> 0]
      /\ UNCHANGED <<asked, log, answers, feedback>>
  BY <1>1 DEF NoChat, ReadCandidates
<1>10. SelTypeOK'
  <2> HIDE DEF offers
  <2>1. {i \in Candidates : rows[i].traffic <= 0} \in SUBSET Ids
    BY <1>2
  <2>2. QED BY <1>7, <1>8, <1>9, <2>1 DEF SelTypeOK
<1>11. OfferedOrSkipped'
  <2>1. \A k \in 1 .. Len(q) : offers(q)[k].id \notin {i \in Candidates : rows[i].traffic <= 0}
    <3>1. ASSUME NEW k \in 1 .. Len(q), offers(q)[k].id \in {i \in Candidates : rows[i].traffic <= 0}
          PROVE  FALSE
      <4>1. offers(q)[k].id \in S /\ offers(q)[k].id \in Ids
        BY <1>2, <1>5
      <4>2. PICK i \in Ids : i = offers(q)[k].id
        BY <4>1
      <4>3. PICK t \in 0 .. 100 : t = rows[i].traffic
        BY <1>3
      <4> HIDE DEF offers
      <4>4. t > 0 /\ t <= 0
        BY <3>1, <4>1, <4>2, <4>3
      <4>5. QED BY <4>4
    <3>2. QED BY <3>1
  <2> HIDE DEF offers
  <2>2. QED BY <1>7, <1>9, <2>1 DEF OfferedOrSkipped
<1>12. QED BY <1>10, <1>11

\* The record of a chat that does nothing has its type.
LEMMA NoChatType ==
  /\ NoChat \in [pc : {"idle", "active", "answer"}, bucket : Nat, order : Seq(Offer),
                 skipped : SUBSET Ids, id : Served, version : Nat]
  /\ NoFeedback \in Answer
BY DEF NoChat, NoFeedback, Served, Answer

\* Questions are asked, answered and rated by chats in progress, with the types of
\* what is recorded of them, and a candidate is never offered and passed over.
LEMMA SelTypeStep ==
  TypeOK /\ SelTypeOK /\ OfferedOrSkipped /\ [AllNext]_allVars => SelTypeOK' /\ OfferedOrSkipped'
<1> SUFFICES ASSUME TypeOK, SelTypeOK, OfferedOrSkipped, [AllNext]_allVars
             PROVE  SelTypeOK' /\ OfferedOrSkipped'
  OBVIOUS
<1>1. CASE UNCHANGED selVars
  BY <1>1 DEF selVars, SelTypeOK, OfferedOrSkipped
<1>2. ASSUME NEW b \in Buckets, ReadCandidates(b) PROVE SelTypeOK' /\ OfferedOrSkipped'
  BY <1>2, OffersRead
<1>3. CASE Select
  <2>1. PICK c \in Chosen, rowsKept \in BOOLEAN :
          /\ chat' = [NoChat EXCEPT !.pc = "answer", !.id = c.id, !.version = c.version]
          /\ asked' = Append(asked, c.id)
          /\ log' = Append(log, IF rowsKept THEN LogRows(c) ELSE {})
    BY <1>3 DEF Select
  <2>2. c.id \in Served /\ c.version \in Nat
    BY ChosenTypes
  <2>3. (IF rowsKept THEN LogRows(c) ELSE {}) \in SUBSET LogRow
    BY LogRowTypes
  <2>4. chat' \in [pc : {"idle", "active", "answer"}, bucket : Nat, order : Seq(Offer),
                   skipped : SUBSET Ids, id : Served, version : Nat] /\ chat'.order = <<>>
    <3>1. chat' = [pc |-> "answer", bucket |-> 0, order |-> <<>>, skipped |-> {},
                   id |-> c.id, version |-> c.version]
      BY <2>1 DEF NoChat
    <3>2. QED BY <2>2, <3>1
  <2>5. /\ asked' \in Seq(Served) /\ log' \in Seq(SUBSET LogRow)
        /\ Len(asked') = Len(asked) + 1 /\ Len(log') = Len(log) + 1
    BY <2>1, <2>2, <2>3 DEF SelTypeOK
  <2>6. UNCHANGED <<answers, feedback>>
    BY <1>3 DEF Select
  <2>7. QED BY <2>4, <2>5, <2>6 DEF SelTypeOK, OfferedOrSkipped
<1>4. CASE MessageStored
  <2>1. [id |-> NoId, version |-> chat.version] \in Answer
    BY DEF SelTypeOK, Answer
  <2>2. answers' \in Seq(Answer)
    BY <1>4, <2>1 DEF MessageStored, SelTypeOK
  <2>3. chat' = NoChat /\ UNCHANGED <<asked, log, feedback>>
    BY <1>4 DEF MessageStored
  <2>4. chat'.order = <<>>
    BY <2>3 DEF NoChat
  <2>5. QED BY <2>2, <2>3, <2>4, NoChatType DEF SelTypeOK, OfferedOrSkipped
<1>5. CASE AnswerFailed
  <2>1. chat' = NoChat /\ UNCHANGED <<asked, log, answers, feedback>>
    BY <1>5 DEF AnswerFailed
  <2>2. chat'.order = <<>>
    BY <2>1 DEF NoChat
  <2>3. QED BY <2>1, <2>2, NoChatType DEF SelTypeOK, OfferedOrSkipped
<1>6. CASE Rate
  <2>1. feedback' \in Answer
    <3>1. CASE answers = <<>>
      BY <1>6, <3>1, NoChatType DEF Rate
    <3>2. CASE answers # <<>>
      <4>1. feedback' = answers[Len(answers)]
        BY <1>6, <3>2 DEF Rate, Last
      <4>2. answers \in Seq(Answer)
        BY DEF SelTypeOK
      <4>3. QED BY <3>2, <4>1, <4>2
    <3>3. QED BY <3>1, <3>2
  <2>2. UNCHANGED <<chat, asked, log, answers>>
    BY <1>6 DEF Rate
  <2>3. QED BY <2>1, <2>2 DEF SelTypeOK, OfferedOrSkipped
<1>7. CASE Leave
  <2>1. UNCHANGED chat /\ asked' = <<>> /\ log' = <<>> /\ answers' = <<>> /\ feedback' = NoFeedback
    BY <1>7 DEF Leave
  <2>2. QED BY <2>1, NoChatType DEF SelTypeOK, OfferedOrSkipped
<1>8. QED
  BY <1>1, <1>2, <1>3, <1>4, <1>5, <1>6, <1>7 DEF AllNext, allVars, SelNext

\* What is recorded of a conversation has its types, whatever the administrators do.
THEOREM SelectionTypes == SelSpec => [](TypeOK /\ SelTypeOK /\ OfferedOrSkipped)
<1>1. SelInit => SelTypeOK /\ OfferedOrSkipped
  <2> SUFFICES ASSUME SelInit PROVE SelTypeOK /\ OfferedOrSkipped
    OBVIOUS
  <2>1. chat.order = <<>>
    BY DEF SelInit, NoChat
  <2>2. QED BY <2>1, NoChatType DEF SelInit, SelTypeOK, OfferedOrSkipped
<1>2. SelSpec => []TypeOK
  BY SelectionKeepsPrompts, PromptTypes, PTL
<1>3. QED BY <1>1, <1>2, SelTypeStep, PTL DEF SelSpec

-----------------------------------------------------------------------------
(* PromptSelection: what the log tells *)

\* The rows of one question.
TellsOne(L, served) ==
  L # {} =>
    \E r \in L : /\ r.group # "skipped" /\ r.id = served
                 /\ \A q \in L \ {r} : q.group = "skipped" /\ (q.id = r.id => r.group = "active")

\* What a selection records tells its choice from what it passed over.
LEMMA RowsTell ==
  ASSUME TypeOK, SelTypeOK, OfferedOrSkipped, NEW c \in Chosen
  PROVE  TellsOne(LogRows(c), c.id)
<1> DEFINE r == [id |-> c.id, group |-> c.group]
<1>1. r \in LogRows(c) /\ r.id = c.id /\ r.group \in {"candidate", "active", "default"}
  BY ChosenTypes DEF LogRows
<1>2. ASSUME NEW q \in LogRows(c) \ {r}
      PROVE  q.group = "skipped" /\ (q.id = r.id => r.group = "active")
  <2>1. PICK i \in Skipped(c) : q = [id |-> i, group |-> "skipped"]
    BY <1>2 DEF LogRows
  <2>2. c.group # "default" /\ i \in chat.skipped
    BY <2>1 DEF Skipped
  <2>3. ASSUME c.group = "candidate" PROVE i # c.id
    <3>1. PICK k \in DOMAIN chat.order : c.id = chat.order[k].id
      BY <2>3, ChosenTypes
    <3>2. QED BY <2>2, <3>1 DEF OfferedOrSkipped
  <2>4. QED BY <1>1, <2>1, <2>2, <2>3
<1> HIDE DEF r
<1>3. r.group # "skipped"
  BY <1>1
<1>4. QED BY <1>1, <1>2, <1>3 DEF TellsOne

\* The invariant, question by question.
LEMMA LogTells ==
  SelTypeOK => (LogTellsOneStory <=> \A k \in DOMAIN log : TellsOne(log[k], asked[k]))
BY DEF LogTellsOneStory, TellsOne

\* Whatever the administrators promote meanwhile, the log rows of a question tell which
\* version answered it: one row does, the others name versions that were passed over,
\* and a version is both only when it was promoted between the two reads.
THEOREM LogIsTrue == SelSpec => []LogTellsOneStory
<1> DEFINE LogInv == \A k \in DOMAIN log : TellsOne(log[k], asked[k])
<1>1. SelInit => LogInv
  BY DEF SelInit
<1>2. TypeOK /\ SelTypeOK /\ OfferedOrSkipped /\ LogInv /\ [AllNext]_allVars => LogInv'
  <2> SUFFICES ASSUME TypeOK, SelTypeOK, OfferedOrSkipped, LogInv, [AllNext]_allVars
               PROVE  LogInv'
    OBVIOUS
  <2>1. CASE Select
    <3>1. PICK c \in Chosen, rowsKept \in BOOLEAN :
            /\ asked' = Append(asked, c.id)
            /\ log' = Append(log, IF rowsKept THEN LogRows(c) ELSE {})
      BY <2>1 DEF Select
    <3>2. TellsOne(IF rowsKept THEN LogRows(c) ELSE {}, c.id)
      BY RowsTell DEF TellsOne
    <3>3. PICK n \in Nat : n = Len(log) /\ n = Len(asked)
      BY DEF SelTypeOK
    <3>4. DOMAIN log = 1 .. n /\ DOMAIN log' = 1 .. (n + 1)
      BY <3>1, <3>3 DEF SelTypeOK
    <3>5. ASSUME NEW k \in 1 .. (n + 1) PROVE TellsOne(log'[k], asked'[k])
      <4>1. CASE k = n + 1
        <5>1. log'[k] = (IF rowsKept THEN LogRows(c) ELSE {}) /\ asked'[k] = c.id
          BY <3>1, <3>3, <4>1 DEF SelTypeOK
        <5>2. QED BY <3>2, <5>1
      <4>2. CASE k # n + 1
        <5>1. k \in 1 .. n
          BY <4>2
        <5>2. log'[k] = log[k] /\ asked'[k] = asked[k]
          BY <3>1, <3>3, <5>1 DEF SelTypeOK
        <5>3. QED BY <3>4, <5>1, <5>2
      <4>3. QED BY <4>1, <4>2
    <3>6. QED BY <3>4, <3>5
  <2>2. CASE Leave
    BY <2>2 DEF Leave
  <2>3. CASE UNCHANGED <<log, asked>>
    BY <2>3
  <2>4. QED
    BY <2>1, <2>2, <2>3
    DEF AllNext, SelNext, allVars, selVars, ReadCandidates, MessageStored, AnswerFailed, Rate
<1>3. SelSpec => []LogInv
  BY <1>1, <1>2, SelectionTypes, PTL DEF SelSpec
<1>4. SelTypeOK /\ LogInv => LogTellsOneStory
  BY LogTells
<1>5. QED BY <1>3, <1>4, SelectionTypes, PTL

-----------------------------------------------------------------------------
(* PromptSelection: the statistics *)

\* The rows of one question that name a version.
Naming(L, i) == {r \in L : r.id = i}

\* Each question counts once for the version that answered it when its rows were kept,
\* and for no other unless it was passed over.
LEMMA EachCountsOnce ==
  ASSUME NEW L \in SUBSET LogRow, NEW served \in Served, TellsOne(L, served), NEW i \in Ids
  PROVE  /\ Cardinality(Naming(L, i)) \in Nat
         /\ L # {} /\ served = i => Cardinality(Naming(L, i)) >= 1
         /\ [id |-> i, group |-> "skipped"] \notin L =>
              Cardinality(Naming(L, i)) <= IF served = i THEN 1 ELSE 0
<1>1. IsFiniteSet(L)
  <2>1. IsFiniteSet(Served)
    BY SelectionAssumption, FS_AddElement DEF Served
  <2>2. IsFiniteSet({"candidate", "active", "default", "skipped"})
    <3>1. IsFiniteSet({"candidate"})
      BY FS_Singleton
    <3>2. IsFiniteSet({"candidate", "active"})
      BY <3>1, FS_AddElement, {"candidate", "active"} = {"candidate"} \cup {"active"}
    <3>3. IsFiniteSet({"candidate", "active", "default"})
      BY <3>2, FS_AddElement,
         {"candidate", "active", "default"} = {"candidate", "active"} \cup {"default"}
    <3>4. {"candidate", "active", "default", "skipped"}
            = {"candidate", "active", "default"} \cup {"skipped"}
      OBVIOUS
    <3>5. QED BY <3>3, <3>4, FS_AddElement
  <2>3. IsFiniteSet(Served \X {"candidate", "active", "default", "skipped"})
    BY <2>1, <2>2, FS_Product
  <2> DEFINE pairs == {<<r.id, r.group>> : r \in L}
             f == [r \in L |-> <<r.id, r.group>>]
  <2>4. IsFiniteSet(pairs)
    BY <2>3, FS_Subset DEF LogRow
  <2>5. f \in Injection(L, pairs)
    BY DEF LogRow, Injection, IsInjective
  <2>6. QED BY <2>4, <2>5, FS_Injection
<1>2. IsFiniteSet(Naming(L, i)) /\ Cardinality(Naming(L, i)) \in Nat
  BY <1>1, FS_Subset, FS_CardinalityType DEF Naming
<1>3. ASSUME L # {}, served = i PROVE Cardinality(Naming(L, i)) >= 1
  <2>1. Naming(L, i) # {}
    BY <1>3 DEF TellsOne, Naming
  <2>2. QED BY <1>2, <2>1, FS_EmptySet
<1>4. ASSUME [id |-> i, group |-> "skipped"] \notin L
      PROVE  Cardinality(Naming(L, i)) <= IF served = i THEN 1 ELSE 0
  <2>1. \A q \in Naming(L, i) : q.group # "skipped"
    BY <1>4 DEF Naming, LogRow
  <2>2. CASE Naming(L, i) = {}
    BY <2>2, FS_EmptySet
  <2>3. CASE Naming(L, i) # {}
    <3>1. PICK r \in L : /\ r.group # "skipped" /\ r.id = served
                         /\ \A q \in L \ {r} : q.group = "skipped"
      BY <2>3 DEF TellsOne, Naming
    <3>2. Naming(L, i) \subseteq {r}
      BY <2>1, <3>1 DEF Naming
    <3>3. Naming(L, i) = {r} /\ served = i
      BY <2>3, <3>1, <3>2 DEF Naming
    <3>4. Cardinality({r}) = 1
      BY FS_Singleton
    <3>5. QED BY <3>3, <3>4
  <2>4. QED BY <2>2, <2>3
<1>5. QED BY <1>2, <1>3, <1>4

\* The sum the statistics take is one of the sums over a set.
LEMMA TotalIs ==
  ASSUME NEW i
  PROVE  LET counts == [k \in DOMAIN log |-> Cardinality(Naming(log[k], i))] IN
         TotalRequests(i) = (CHOOSE g : IsSetSum(g, counts, DOMAIN log))[DOMAIN log]
<1> DEFINE D == DOMAIN log
           counts == [k \in D |-> Cardinality(Naming(log[k], i))]
           F(g) == [s \in SUBSET D |-> IF s = {} THEN 0
                      ELSE Cardinality({r \in log[First(s)] : r.id = i}) + g[s \ {First(s)}]]
           G(g) == [s \in SUBSET D |-> IF s = {} THEN 0 ELSE counts[First(s)] + g[s \ {First(s)}]]
<1>1. TotalRequests(i) = (CHOOSE g : g = F(g))[D]
  BY DEF TotalRequests, MapThenSumSet, MapThenFoldSet, First
<1>2. ASSUME NEW g PROVE F(g) = G(g)
  <2>1. ASSUME NEW s \in SUBSET D, s # {}
        PROVE  Cardinality({r \in log[First(s)] : r.id = i}) = counts[First(s)]
    <3>1. First(s) \in D
      BY <2>1 DEF First
    <3>2. QED BY <3>1 DEF Naming
  <2>2. QED BY <2>1
<1>3. (CHOOSE g : g = F(g)) = CHOOSE g : g = G(g)
  <2> HIDE DEF F, G
  <2>1. QED BY <1>2
<1>4. QED BY <1>1, <1>3 DEF IsSetSum

\* For every conversation, the questions a version answered are the ones it is counted
\* for, but for lost logs and questions it was passed over in, and no rating is counted
\* for any version.
THEOREM StatisticsHold == SelSpec => []StatisticsAddUp
<1>1. TypeOK /\ SelTypeOK /\ LogTellsOneStory => StatisticsAddUp
  <2> SUFFICES ASSUME SelTypeOK, LogTellsOneStory, NEW i \in Ids
               PROVE  LET answered == Cardinality({k \in DOMAIN asked : asked[k] = i}) IN
                      /\ TotalRequests(i) < answered => \E k \in DOMAIN log : log[k] = {}
                      /\ TotalRequests(i) > answered =>
                           \E k \in DOMAIN log : [id |-> i, group |-> "skipped"] \in log[k]
                      /\ UpCount(i) = 0
    BY DEF StatisticsAddUp
  <2> DEFINE D == DOMAIN log
             A == {k \in DOMAIN asked : asked[k] = i}
             counts == [k \in D |-> Cardinality(Naming(log[k], i))]
  <2>1. IsFiniteSet(D) /\ A \in SUBSET D /\ DOMAIN asked = D
    <3>1. PICK n \in Nat : n = Len(log) /\ n = Len(asked)
      BY DEF SelTypeOK
    <3>2. D = 1 .. n /\ DOMAIN asked = 1 .. n
      BY <3>1 DEF SelTypeOK
    <3>3. QED BY <3>2, FS_Interval
  <2>2. ASSUME NEW k \in D
        PROVE  /\ counts[k] \in Nat
               /\ log[k] # {} /\ k \in A => counts[k] >= 1
               /\ [id |-> i, group |-> "skipped"] \notin log[k] =>
                    counts[k] <= IF k \in A THEN 1 ELSE 0
    <3>1. log[k] \in SUBSET LogRow /\ asked[k] \in Served
      BY <2>1 DEF SelTypeOK
    <3>2. TellsOne(log[k], asked[k])
      BY LogTells
    <3>3. k \in A <=> asked[k] = i
      BY <2>1
    <3>4. counts[k] = Cardinality(Naming(log[k], i))
      OBVIOUS
    <3> HIDE DEF counts, A
    <3>5. QED BY <3>1, <3>2, <3>3, <3>4, EachCountsOnce
  <2>3. counts \in [D -> Nat]
    BY <2>2
  <2>4. PICK g : IsSetSum(g, counts, D) /\ TotalRequests(i) = g[D]
    <3>1. TotalRequests(i) = (CHOOSE g : IsSetSum(g, counts, D))[D]
      BY TotalIs
    <3>2. \E g : IsSetSum(g, counts, D)
      BY <2>1, <2>3, SetSumExists
    <3> HIDE DEF D, counts
    <3>3. IsSetSum(CHOOSE g : IsSetSum(g, counts, D), counts, D)
      BY <3>2
    <3>4. QED BY <3>1, <3>3
  <2>5. /\ g[D] \in Nat /\ Cardinality(A) \in Nat
        /\ (\A k \in A : counts[k] >= 1) => g[D] >= Cardinality(A)
        /\ (\A k \in D : counts[k] <= IF k \in A THEN 1 ELSE 0) => g[D] <= 1 * Cardinality(A)
    <3> HIDE DEF D, counts, A
    <3>1. QED BY <2>1, <2>3, <2>4, SetSumBounds
  <2>6. TotalRequests(i) < Cardinality(A) => \E k \in D : log[k] = {}
    <3>1. ASSUME \A k \in D : log[k] # {} PROVE TotalRequests(i) >= Cardinality(A)
      <4> HIDE DEF D, counts, A
      <4>1. QED BY <2>1, <2>2, <2>4, <2>5, <3>1
    <3> HIDE DEF D, counts, A
    <3>2. QED BY <2>4, <2>5, <3>1
  <2>7. TotalRequests(i) > Cardinality(A) =>
          \E k \in D : [id |-> i, group |-> "skipped"] \in log[k]
    <3>1. ASSUME \A k \in D : [id |-> i, group |-> "skipped"] \notin log[k]
          PROVE  TotalRequests(i) <= Cardinality(A)
      <4> HIDE DEF D, counts, A
      <4>1. QED BY <2>1, <2>2, <2>4, <2>5, <3>1
    <3> HIDE DEF D, counts, A
    <3>2. QED BY <2>4, <2>5, <3>1
  <2>8. UpCount(i) = 0
    <3>1. feedback.id = NoId /\ i # NoId
      BY PromptAssumption DEF SelTypeOK, Answer
    <3>2. QED BY <3>1 DEF UpCount
  <2>9. QED BY <2>6, <2>7, <2>8
<1>2. QED BY <1>1, SelectionTypes, LogIsTrue, PTL

-----------------------------------------------------------------------------
(* PromptSelection: the shares of the traffic *)

\* The shares of the candidates are numbers that can be summed.
LEMMA OffersHold ==
  ASSUME NEW order \in Seq(Offer)
  PROVE  /\ Len(order) \in Nat /\ DOMAIN order = 1 .. Len(order)
         /\ \A k \in 1 .. Len(order) : order[k].traffic \in 1 .. 100
         /\ [k \in 1 .. Len(order) |-> order[k].traffic] \in [1 .. Len(order) -> Nat]
<1>1. Len(order) \in Nat /\ DOMAIN order = 1 .. Len(order)
  OBVIOUS
<1>2. ASSUME NEW k \in 1 .. Len(order)
      PROVE  order[k].traffic \in 1 .. 100 /\ order[k].traffic \in Nat
  <2>1. order[k] \in Offer
    OBVIOUS
  <2>2. PICK t \in 1 .. 100 : t = order[k].traffic
    BY <2>1 DEF Offer
  <2>3. t \in Nat
    OBVIOUS
  <2>4. QED BY <2>2, <2>3
<1>3. QED BY <1>1, <1>2

\* What the candidates add up to are the sums of their shares.
LEMMA CumulativeIs ==
  ASSUME NEW order \in Seq(Offer)
  PROVE  IsSum(Cumulative(order), [k \in 1 .. Len(order) |-> order[k].traffic], Len(order))
<1> DEFINE n == Len(order)
           v == [k \in 1 .. n |-> order[k].traffic]
           F(g) == [k \in 0 .. n |-> IF k = 0 THEN 0 ELSE g[k - 1] + Min({order[k].traffic, 100})]
           G(g) == [k \in 0 .. n |-> IF k = 0 THEN 0 ELSE g[k - 1] + v[k]]
<1>1. n \in Nat /\ \A k \in 1 .. n : order[k].traffic \in 1 .. 100
  BY OffersHold
<1>2. ASSUME NEW k \in 1 .. n PROVE Min({order[k].traffic, 100}) = order[k].traffic
  <2>1. PICK t \in 1 .. 100 : t = order[k].traffic
    BY <1>1
  <2>2. Min({t, 100}) = t
    BY MinOfTwo
  <2>3. QED BY <2>1, <2>2
<1>3. ASSUME NEW g PROVE F(g) = G(g)
  BY <1>1, <1>2
<1>4. Cumulative(order) = CHOOSE g : g = F(g)
  BY DEF Cumulative
<1>5. v \in [1 .. n -> Nat]
  BY OffersHold
<1>6. \E g : g = G(g)
  <2> HIDE DEF n, v
  <2>1. QED BY <1>1, <1>5, SumExists DEF IsSum
<1>7. \E g : g = F(g)
  BY <1>3, <1>6
<1>8. LET c == Cumulative(order) IN c = F(c)
  <2> HIDE DEF F
  <2>1. QED BY <1>4, <1>7
<1>9. LET c == Cumulative(order) IN c = G(c)
  BY <1>3, <1>8
<1>10. QED BY <1>9 DEF IsSum

\* How many of the hundred buckets lie between two thresholds.
LEMMA BucketsBetween ==
  ASSUME NEW a \in Nat, NEW t \in 1 .. 100
  PROVE  Cardinality({b \in 0 .. 99 : a <= b /\ b < a + t}) = Min({t, Max({0, 100 - a})})
<1> DEFINE low == IF a <= 100 THEN a ELSE 100
           high == IF a + t <= 100 THEN a + t ELSE 100
<1>1. low \in 0 .. 100 /\ high \in 0 .. 100 /\ low <= high
  OBVIOUS
<1>2. {b \in 0 .. 99 : a <= b /\ b < a + t} = low .. (high - 1)
  OBVIOUS
<1>3. Cardinality(low .. (high - 1)) = high - low
  <2>1. low \in Int /\ high - 1 \in Int /\ low <= high
    OBVIOUS
  <2> HIDE DEF low, high
  <2>2. Cardinality(low .. (high - 1))
          = IF low > high - 1 THEN 0 ELSE (high - 1) - low + 1
    BY <2>1, FS_Interval
  <2>3. QED BY <1>1, <2>2
<1>4. Max({0, 100 - a}) = IF a <= 100 THEN 100 - a ELSE 0
  BY MaxOfTwo
<1>5. Min({t, Max({0, 100 - a})}) = high - low
  <2>1. CASE a <= 100
    <3>1. Min({t, 100 - a}) = IF t <= 100 - a THEN t ELSE 100 - a
      BY MinOfTwo
    <3>2. QED BY <1>4, <2>1, <3>1
  <2>2. CASE a > 100
    <3>1. Min({t, 0}) = IF t <= 0 THEN t ELSE 0
      BY MinOfTwo
    <3>2. QED BY <1>4, <2>2, <3>1
  <2>3. QED BY <2>1, <2>2
<1>6. QED BY <1>2, <1>3, <1>5

\* Whatever candidates there are, with whatever shares, each one serves exactly its
\* percentage of the buckets or what the ones before it leave of them.
THEOREM SharesAreExact == SelSpec => []ShareIsExact
<1>1. SelTypeOK => ShareIsExact
  <2> SUFFICES ASSUME SelTypeOK, NEW k \in DOMAIN chat.order
               PROVE  Cardinality({b \in 0 .. 99 : /\ Routed(chat.order, b) # {}
                                                   /\ Min(Routed(chat.order, b)) = k})
                        = Min({chat.order[k].traffic,
                               Max({0, 100 - Cumulative(chat.order)[k - 1]})})
    BY DEF ShareIsExact
  <2> DEFINE order == chat.order
             sum == Cumulative(order)
             v == [j \in 1 .. Len(order) |-> order[j].traffic]
  <2>1. order \in Seq(Offer)
    BY DEF SelTypeOK
  <2>2. PICK n \in Nat : n = Len(order)
    BY <2>1
  <2>3. k \in 1 .. n /\ DOMAIN order = 1 .. n
    BY <2>1, <2>2
  <2>4. \A j \in 1 .. n : order[j].traffic \in 1 .. 100
    BY <2>1, <2>2, OffersHold
  <2>5. v \in [1 .. n -> Nat] /\ \A j \in 1 .. n : v[j] = order[j].traffic
    <3>1. v \in [1 .. Len(order) -> Nat]
      <4> HIDE DEF order
      <4>1. QED BY <2>1, OffersHold
    <3>2. QED BY <2>2, <3>1
  <2>6. IsSum(sum, v, n)
    BY <2>1, <2>2, CumulativeIs
  <2> HIDE DEF order, sum, v
  <2>7. sum \in [0 .. n -> Nat] /\ \A i, j \in 0 .. n : i <= j => sum[i] <= sum[j]
    BY <2>5, <2>6, SumTypes, SumGrows
  <2>8. sum[k] = sum[k - 1] + order[k].traffic /\ sum[k - 1] \in Nat
    <3>1. \A j \in 0 .. n : sum[j] = IF j = 0 THEN 0 ELSE sum[j - 1] + v[j]
      BY <2>6 DEF IsSum
    <3>2. k \in 0 .. n /\ k # 0 /\ k - 1 \in 0 .. n
      BY <2>3
    <3>3. QED BY <2>3, <2>5, <2>7, <3>1, <3>2
  <2>9. ASSUME NEW b \in 0 .. 99
        PROVE  (Routed(order, b) # {} /\ Min(Routed(order, b)) = k) <=>
                 (sum[k - 1] <= b /\ b < sum[k])
    <3> DEFINE R == Routed(order, b)
    <3>1. R = {j \in 1 .. n : b < sum[j]}
      BY <2>2 DEF Routed, sum
    <3>2. ASSUME R # {}, Min(R) = k PROVE sum[k - 1] <= b /\ b < sum[k]
      <4>1. R \in SUBSET Nat
        BY <3>1
      <4>2. k \in R /\ \A j \in R : k <= j
        <5> HIDE DEF R
        <5>1. QED BY <3>2, <4>1, MinOfSet
      <4>3. b < sum[k]
        BY <3>1, <4>2
      <4>4. CASE k = 1
        <5>1. sum[0] = 0
          BY <2>6 DEF IsSum
        <5>2. QED BY <4>3, <4>4, <5>1
      <4>5. CASE k # 1
        <5>1. k - 1 \in 1 .. n /\ k - 1 \notin R
          BY <2>3, <4>2, <4>5
        <5>2. ~(b < sum[k - 1])
          BY <3>1, <5>1
        <5>3. QED BY <2>8, <4>3, <5>2
      <4>6. QED BY <4>4, <4>5
    <3>3. ASSUME sum[k - 1] <= b, b < sum[k] PROVE R # {} /\ Min(R) = k
      <4>1. k \in R
        BY <2>3, <3>1, <3>3
      <4>2. ASSUME NEW j \in R PROVE k <= j
        <5> SUFFICES ASSUME j < k PROVE FALSE
          BY <2>3, <3>1
        <5>1. j \in 1 .. n /\ b < sum[j]
          BY <3>1
        <5>2. j \in 0 .. n /\ k - 1 \in 0 .. n /\ j <= k - 1
          BY <2>3, <5>1
        <5>3. sum[j] <= sum[k - 1] /\ sum[j] \in Nat
          BY <2>7, <5>2
        <5>4. QED BY <2>8, <3>3, <5>1, <5>3
      <4>3. R \in SUBSET Nat
        BY <3>1
      <4>4. Min(R) \in R /\ \A y \in R : Min(R) <= y
        <5> HIDE DEF R
        <5>1. QED BY <4>1, <4>3, MinOfSet
      <4>5. Min(R) \in Nat
        BY <4>3, <4>4
      <4>6. QED BY <2>3, <4>1, <4>2, <4>4, <4>5
    <3>4. QED BY <3>2, <3>3
  <2>10. {b \in 0 .. 99 : Routed(order, b) # {} /\ Min(Routed(order, b)) = k}
           = {b \in 0 .. 99 : sum[k - 1] <= b /\ b < sum[k - 1] + order[k].traffic}
    BY <2>8, <2>9
  <2>11. order[k].traffic \in 1 .. 100
    BY <2>3, <2>4
  <2>12. Cardinality({b \in 0 .. 99 : Routed(order, b) # {} /\ Min(Routed(order, b)) = k})
           = Min({order[k].traffic, Max({0, 100 - sum[k - 1]})})
    BY <2>8, <2>10, <2>11, BucketsBetween
  <2>13. QED BY <2>12 DEF order, sum
<1>2. QED BY <1>1, SelectionTypes, PTL

-----------------------------------------------------------------------------
(* ModelGateways: what a call keeps *)

\* A call in a process with settings s: its vectors are those of its texts, made by
\* clients deployed under the name the process goes by, of its length.
SlotOK(deployed, s, t, v) ==
  v # None => MadeUnder(deployed, Name(s), t, v) /\ v.length = s.dimension

FreshOK(s, t, v) ==
  v # None => EmbeddingClient(s) # "error" /\ v = Own(s, t) /\ v.length = s.dimension

CallOK(deployed, s, c) ==
  /\ DOMAIN c.slots = DOMAIN c.texts /\ DOMAIN c.fresh = DOMAIN c.texts
  /\ \A i \in DOMAIN c.texts : SlotOK(deployed, s, c.texts[i], c.slots[i]) /\ FreshOK(s, c.texts[i], c.fresh[i])
  /\ c.pc = "embed" => EmbeddingClient(s) # "error"
  /\ c.pc = "write" => \A i \in DOMAIN c.texts : c.slots[i] # None \/ c.fresh[i] # None
  /\ c.pc = "use" => \A i \in DOMAIN c.texts : c.slots[i] # None

CacheOK == \A k \in Keys : cache[k] # None => MadeUnder(used, k[1], k[2], cache[k])

MemoryOK == \A m \in memory : MadeUnder(used, m.name, m.text, m.vector)

IndexedOK ==
  \A t \in Texts : indexed[t] # None =>
    /\ MadeUnder(used, indexed[t].profile.model, t, indexed[t].vector)
    /\ indexed[t].vector.length = indexed[t].profile.dimension

CallsOK == \A p \in Processes : CallOK(used, setting[p], call[p])

Deployed == \A p \in Processes : setting[p] \in used

GatewayInv == GatewayTypeOK /\ Deployed /\ CacheOK /\ MemoryOK /\ IndexedOK /\ CallsOK

-----------------------------------------------------------------------------
(* ModelGateways: sequences of vectors, and calls *)

\* A function on the places of a sequence is a sequence.
LEMMA Alongside ==
  ASSUME NEW T, NEW S, NEW q \in Seq(T), NEW f \in [DOMAIN q -> S]
  PROVE  f \in Seq(S) /\ DOMAIN f = DOMAIN q
  OBVIOUS

\* What the client makes is a vector of the text, under the settings' name if it has one.
LEMMA OwnIsVector ==
  ASSUME NEW s \in Settings, NEW t \in Texts
  PROVE  /\ Own(s, t) \in Vectors
         /\ Own(s, t).text = t
         /\ Fits(s) \/ EmbeddingClient(s) # "gateway" => Own(s, t).length = s.dimension
<1>1. Own(s, t) \in Vectors
  BY DEF Vectors
<1>2. Own(s, t).text = t
  BY DEF Own
<1>3. Fits(s) \/ EmbeddingClient(s) # "gateway" => Own(s, t).length = s.dimension
  BY DEF Own, Fits
<1>4. QED BY <1>1, <1>2, <1>3

LEMMA AskedType ==
  ASSUME NEW pc \in {"idle", "embed", "write", "use"}, NEW w,
         w.purpose \in Purposes, w.texts \in Seq(Texts),
         NEW slots \in Seq(Vectors \cup {None}), NEW fresh \in Seq(Vectors \cup {None}),
         NEW tried \in 0..Retries
  PROVE  /\ Asked(pc, w, slots, fresh, tried) \in CallTypes
         /\ Asked(pc, w, slots, fresh, tried).pc = pc
         /\ Asked(pc, w, slots, fresh, tried).texts = w.texts
         /\ Asked(pc, w, slots, fresh, tried).slots = slots
         /\ Asked(pc, w, slots, fresh, tried).fresh = fresh
  BY DEF Asked, CallTypes

LEMMA CallFields ==
  ASSUME NEW c \in CallTypes
  PROVE  /\ c.purpose \in Purposes /\ c.texts \in Seq(Texts)
         /\ c.slots \in Seq(Vectors \cup {None}) /\ c.fresh \in Seq(Vectors \cup {None})
         /\ c.tried \in 0..Retries
  BY DEF CallTypes

LEMMA NoCallIsOK ==
  ASSUME NEW s \in Settings, NEW deployed
  PROVE  NoCall \in CallTypes /\ CallOK(deployed, s, NoCall)
<1>1. /\ <<>> \in Seq(Texts) /\ <<>> \in Seq(Vectors \cup {None})
      /\ 0 \in 0..Retries /\ "recall" \in Purposes
      /\ "idle" \in {"idle", "embed", "write", "use"}
  BY GatewayAssumption DEF Purposes
<1> DEFINE w == [purpose |-> "recall", texts |-> <<>>]
<1>2. w.purpose = "recall" /\ w.texts = <<>>
  OBVIOUS
<1> HIDE DEF w
<1>a. w.purpose \in Purposes /\ w.texts \in Seq(Texts)
  BY <1>1, <1>2
<1>3. Asked("idle", w, <<>>, <<>>, 0) \in CallTypes
  BY <1>1, <1>a, AskedType
<1>4. NoCall = Asked("idle", w, <<>>, <<>>, 0)
  BY DEF NoCall, w
<1>5. /\ NoCall.pc = "idle" /\ NoCall.texts = <<>> /\ NoCall.slots = <<>> /\ NoCall.fresh = <<>>
  BY <1>2, <1>4 DEF Asked
<1>6. CallOK(deployed, s, NoCall)
  BY <1>5 DEF CallOK
<1>7. QED BY <1>3, <1>4, <1>6

\* A call in one of its states, from its parts.
LEMMA AskedIsOK ==
  ASSUME NEW deployed, NEW s, NEW pc \in {"embed", "write", "use"}, NEW w, NEW slots, NEW fresh, NEW tried,
         DOMAIN slots = DOMAIN w.texts, DOMAIN fresh = DOMAIN w.texts,
         \A i \in DOMAIN w.texts : SlotOK(deployed, s, w.texts[i], slots[i]) /\ FreshOK(s, w.texts[i], fresh[i]),
         pc = "embed" => EmbeddingClient(s) # "error",
         pc = "write" => Missing(slots, fresh) = {},
         pc = "use" => \A i \in DOMAIN w.texts : slots[i] # None
  PROVE  CallOK(deployed, s, Asked(pc, w, slots, fresh, tried))
<1> DEFINE c == Asked(pc, w, slots, fresh, tried)
<1>1. c.pc = pc /\ c.texts = w.texts /\ c.slots = slots /\ c.fresh = fresh
  BY DEF Asked
<1> HIDE DEF c
<1>2. pc = "write" => \A i \in DOMAIN w.texts : slots[i] # None \/ fresh[i] # None
  BY DEF Missing
<1>3. CallOK(deployed, s, c)
  BY <1>1, <1>2 DEF CallOK
<1>4. QED BY <1>3 DEF c

\* A deployment takes no vector's maker away.
LEMMA CallKept ==
  ASSUME NEW deployed, NEW later, deployed \subseteq later, NEW s, NEW c,
         CallOK(deployed, s, c)
  PROVE  CallOK(later, s, c)
  BY DEF CallOK, SlotOK, MadeUnder

LEMMA MadeKept ==
  ASSUME NEW deployed, NEW later, deployed \subseteq later, NEW name, NEW t, NEW v,
         MadeUnder(deployed, name, t, v)
  PROVE  MadeUnder(later, name, t, v)
  BY DEF MadeUnder

\* A vector of a text under a name has that text.
LEMMA MadeOfText ==
  ASSUME NEW deployed, deployed \subseteq Settings, NEW name, NEW t \in Texts, NEW v,
         MadeUnder(deployed, name, t, v)
  PROVE  v.text = t
  BY OwnIsVector DEF MadeUnder

\* What a process makes now is made under its name.
LEMMA FreshIsMade ==
  ASSUME NEW deployed, NEW s \in deployed, NEW t, NEW v, v # None, FreshOK(s, t, v)
  PROVE  MadeUnder(deployed, Name(s), t, v) /\ v.length = s.dimension
  BY DEF MadeUnder, FreshOK

-----------------------------------------------------------------------------
(* ModelGateways: the steps *)

LEMMA InitIsOK == GatewayInit => GatewayInv
<1> SUFFICES ASSUME GatewayInit PROVE GatewayInv
  OBVIOUS
<1>0. PICK s \in Settings : setting = [p \in Processes |-> s]
  BY DEF GatewayInit
<1>1. setting \in [Processes -> Settings] /\ used \subseteq Settings /\ Deployed
  BY <1>0 DEF GatewayInit, Deployed
<1>2. \A p \in Processes : call[p] = NoCall /\ setting[p] \in Settings
  BY <1>1 DEF GatewayInit
<1>3. CallsOK /\ call \in [Processes -> CallTypes]
  BY <1>1, <1>2, NoCallIsOK DEF CallsOK, GatewayInit
<1>4. cache \in [Keys -> Vectors \cup {None}] /\ CacheOK
  BY DEF GatewayInit, CacheOK
<1>5. memory \subseteq [text : Texts, name : Names, vector : Vectors] /\ MemoryOK
  BY DEF GatewayInit, MemoryOK
<1>6. /\ indexed \in [Texts -> [profile : {ProfileOf(x) : x \in Settings}, vector : Vectors]
                                 \cup {None}]
      /\ IndexedOK
  BY DEF GatewayInit, IndexedOK
<1>7. /\ verdict \in [Processes -> VerdictTypes \cup {None}]
      /\ left \in [deployments : 0..Deployments, calls : 0..Calls]
  BY GatewayAssumption DEF GatewayInit
<1>8. GatewayTypeOK
  BY <1>1, <1>3, <1>4, <1>5, <1>6, <1>7 DEF GatewayTypeOK
<1>9. QED BY <1>1, <1>3, <1>4, <1>5, <1>6, <1>8 DEF GatewayInv

\* A call moves on, and nothing else that counts.
LEMMA CallMoves ==
  ASSUME GatewayInv, NEW p \in Processes, NEW c \in CallTypes,
         CallOK(used, setting[p], c), call' = [call EXCEPT ![p] = c],
         UNCHANGED <<setting, used>>
  PROVE  call' \in [Processes -> CallTypes] /\ CallsOK' /\ Deployed'
<1>1. call \in [Processes -> CallTypes]
  BY DEF GatewayInv, GatewayTypeOK
<1>2. ASSUME NEW q \in Processes PROVE CallOK(used', setting'[q], call'[q])
  <2>1. CASE q = p
    BY <1>1, <2>1
  <2>2. CASE q # p
    BY <1>1, <2>2 DEF GatewayInv, CallsOK
  <2>3. QED BY <2>1, <2>2
<1>3. CallsOK'
  BY <1>2 DEF CallsOK
<1>4. QED BY <1>1, <1>3 DEF GatewayInv, Deployed

\* The counters stay within their bounds.
LEMMA CountersStep ==
  ASSUME GatewayTypeOK
  PROVE  /\ left.deployments > 0 => [left EXCEPT !.deployments = left.deployments - 1]
                                      \in [deployments : 0..Deployments, calls : 0..Calls]
         /\ left.calls > 0 => [left EXCEPT !.calls = left.calls - 1]
                                      \in [deployments : 0..Deployments, calls : 0..Calls]
<1>1. left \in [deployments : 0..Deployments, calls : 0..Calls]
  BY DEF GatewayTypeOK
<1>2. QED BY <1>1, GatewayAssumption

LEMMA DeployKeeps ==
  ASSUME GatewayInv, NEW p \in Processes, NEW s \in Settings, Deploy(p, s)
  PROVE  GatewayInv'
<1>1. /\ setting' = [setting EXCEPT ![p] = s] /\ used' = used \cup {s}
      /\ call' = [call EXCEPT ![p] = NoCall] /\ verdict' = [verdict EXCEPT ![p] = None]
      /\ UNCHANGED <<cache, memory, indexed>>
  BY DEF Deploy
<1>2. setting \in [Processes -> Settings] /\ call \in [Processes -> CallTypes] /\ used \subseteq Settings
  BY DEF GatewayInv, GatewayTypeOK
<1>3. setting' \in [Processes -> Settings] /\ used' \subseteq Settings /\ Deployed'
  BY <1>1, <1>2 DEF GatewayInv, Deployed
<1>4. call' \in [Processes -> CallTypes]
  BY <1>1, <1>2, NoCallIsOK
<1>5. ASSUME NEW q \in Processes PROVE CallOK(used', setting'[q], call'[q])
  <2>1. CASE q = p
    BY <1>1, <1>2, <2>1, NoCallIsOK
  <2>2. CASE q # p
    <3>1. CallOK(used, setting[q], call[q])
      BY DEF GatewayInv, CallsOK
    <3>2. setting'[q] = setting[q] /\ call'[q] = call[q]
      BY <1>1, <1>2, <2>2
    <3>3. QED BY <1>1, <3>1, <3>2, CallKept
  <2>3. QED BY <2>1, <2>2
<1>6. CallsOK'
  BY <1>5 DEF CallsOK
<1>7. CacheOK'
  BY <1>1, MadeKept DEF GatewayInv, CacheOK
<1>8. MemoryOK'
  BY <1>1, MadeKept DEF GatewayInv, MemoryOK
<1>9. IndexedOK'
  BY <1>1, MadeKept DEF GatewayInv, IndexedOK
<1>10. left' \in [deployments : 0..Deployments, calls : 0..Calls]
  BY CountersStep DEF GatewayInv, Deploy
<1>11. verdict' \in [Processes -> VerdictTypes \cup {None}]
  BY <1>1 DEF GatewayInv, GatewayTypeOK
<1>12. GatewayTypeOK'
  BY <1>1, <1>3, <1>4, <1>10, <1>11 DEF GatewayInv, GatewayTypeOK
<1>13. QED BY <1>3, <1>6, <1>7, <1>8, <1>9, <1>12 DEF GatewayInv

\* The invariant after a step that leaves stores, settings and verdicts alone.
LEMMA OnlyCallMoves ==
  ASSUME GatewayInv, NEW p \in Processes, NEW c \in CallTypes,
         CallOK(used, setting[p], c), call' = [call EXCEPT ![p] = c],
         UNCHANGED <<setting, used, cache, memory, indexed, verdict>>,
         left' \in [deployments : 0..Deployments, calls : 0..Calls]
  PROVE  GatewayInv'
<1>1. call' \in [Processes -> CallTypes] /\ CallsOK' /\ Deployed'
  BY CallMoves
<1>2. CacheOK' /\ MemoryOK' /\ IndexedOK'
  BY DEF GatewayInv, CacheOK, MemoryOK, IndexedOK
<1>3. GatewayTypeOK'
  BY <1>1 DEF GatewayInv, GatewayTypeOK
<1>4. QED BY <1>1, <1>2, <1>3 DEF GatewayInv

\* A hit was made under the name the process goes by, in its length.
LEMMA FoundIsOK ==
  ASSUME GatewayInv, NEW s \in Settings, NEW texts \in Seq(Texts), NEW lost
  PROVE  /\ Found(s, texts, lost) \in [DOMAIN texts -> Vectors \cup {None}]
         /\ \A i \in DOMAIN texts : SlotOK(used, s, texts[i], Found(s, texts, lost)[i])
<1>1. ASSUME NEW i \in DOMAIN texts
      PROVE  /\ cache[Key(s, texts[i])] \in Vectors \cup {None}
             /\ Usable(cache[Key(s, texts[i])], s) => SlotOK(used, s, texts[i], cache[Key(s, texts[i])])
  <2>1. texts[i] \in Texts
    OBVIOUS
  <2> DEFINE t == texts[i]
  <2> HIDE DEF t
  <2>2. /\ Key(s, t) \in Keys /\ Key(s, t)[1] = Name(s) /\ Key(s, t)[2] = t
    BY <2>1 DEF Key, Keys, Names, t
  <2>3. cache[Key(s, t)] \in Vectors \cup {None}
    BY <2>2 DEF GatewayInv, GatewayTypeOK
  <2>4. cache[Key(s, t)] # None => MadeUnder(used, Name(s), t, cache[Key(s, t)])
    BY <2>2 DEF GatewayInv, CacheOK
  <2>5. QED BY <2>3, <2>4 DEF t, SlotOK, Usable
<1>2. QED BY <1>1 DEF Found, SlotOK

LEMMA BeginKeeps ==
  ASSUME GatewayInv, NEW p \in Processes, NEW w \in Work, NEW lost, Begin(p, w, lost)
  PROVE  GatewayInv'
<1> DEFINE s == setting[p]
           slots == Found(s, w.texts, lost)
           fresh == [i \in DOMAIN w.texts |->
                      IF slots[i] = None /\ EmbeddingClient(s) = "local"
                      THEN Own(s, w.texts[i]) ELSE None]
<1>1. s \in Settings
  BY DEF GatewayInv, GatewayTypeOK
<1>2. w.texts \in Seq(Texts) /\ w.purpose \in Purposes
  BY GatewayAssumption DEF Purposes
<1>3. /\ call' = [call EXCEPT ![p] =
           IF Missing(slots, fresh) = {} THEN Asked("write", w, slots, fresh, 0)
           ELSE IF EmbeddingClient(s) = "error" THEN NoCall
           ELSE Asked("embed", w, slots, fresh, 0)]
      /\ UNCHANGED <<setting, used, cache, memory, indexed, verdict>>
  BY DEF Begin
<1>4. left' \in [deployments : 0..Deployments, calls : 0..Calls]
  BY CountersStep DEF GatewayInv, Begin
<1>5. /\ slots \in [DOMAIN w.texts -> Vectors \cup {None}]
      /\ \A i \in DOMAIN w.texts : SlotOK(used, s, w.texts[i], slots[i])
  BY <1>1, <1>2, FoundIsOK
<1> HIDE DEF slots
<1>6. ASSUME NEW i \in DOMAIN w.texts
      PROVE  fresh[i] \in Vectors \cup {None} /\ FreshOK(s, w.texts[i], fresh[i])
  <2>1. w.texts[i] \in Texts
    BY <1>2
  <2>2. QED BY <1>1, <2>1, OwnIsVector DEF FreshOK
<1>7. fresh \in [DOMAIN w.texts -> Vectors \cup {None}]
  BY <1>6
<1> HIDE DEF fresh, s
<1>8. /\ slots \in Seq(Vectors \cup {None}) /\ DOMAIN slots = DOMAIN w.texts
      /\ fresh \in Seq(Vectors \cup {None}) /\ DOMAIN fresh = DOMAIN w.texts
  BY <1>2, <1>5, <1>7, Alongside
<1>9. 0 \in 0..Retries
  BY GatewayAssumption
<1>10. CASE Missing(slots, fresh) = {}
  <2> DEFINE c == Asked("write", w, slots, fresh, 0)
  <2>1. c \in CallTypes
    BY <1>2, <1>8, <1>9, AskedType
  <2>2. CallOK(used, s, c)
    BY <1>5, <1>6, <1>8, <1>10, AskedIsOK
  <2>3. call' = [call EXCEPT ![p] = c]
    BY <1>3, <1>10
  <2> HIDE DEF c
  <2>4. QED BY <1>3, <1>4, <2>1, <2>2, <2>3, OnlyCallMoves DEF s
<1>11. CASE Missing(slots, fresh) # {} /\ EmbeddingClient(s) = "error"
  <2>1. call' = [call EXCEPT ![p] = NoCall]
    BY <1>3, <1>11
  <2>2. QED BY <1>1, <1>3, <1>4, <2>1, NoCallIsOK, OnlyCallMoves DEF s
<1>12. CASE Missing(slots, fresh) # {} /\ EmbeddingClient(s) # "error"
  <2> DEFINE c == Asked("embed", w, slots, fresh, 0)
  <2>1. c \in CallTypes
    BY <1>2, <1>8, <1>9, AskedType
  <2>2. CallOK(used, s, c)
    BY <1>5, <1>6, <1>8, <1>12, AskedIsOK
  <2>3. call' = [call EXCEPT ![p] = c]
    BY <1>3, <1>12
  <2> HIDE DEF c
  <2>4. QED BY <1>3, <1>4, <2>1, <2>2, <2>3, OnlyCallMoves DEF s
<1>13. QED BY <1>10, <1>11, <1>12

LEMMA FailKeeps ==
  ASSUME GatewayInv, NEW p \in Processes, Fail(p)
  PROVE  GatewayInv'
<1>1. setting[p] \in Settings /\ left' \in [deployments : 0..Deployments, calls : 0..Calls]
  BY DEF GatewayInv, GatewayTypeOK, Fail
<1>2. /\ call' = [call EXCEPT ![p] = NoCall]
      /\ UNCHANGED <<setting, used, cache, memory, indexed, verdict>>
  BY DEF Fail
<1>3. QED BY <1>1, <1>2, NoCallIsOK, OnlyCallMoves

\* What is known of a call under way.
LEMMA CallKnown ==
  ASSUME GatewayInv, NEW p \in Processes
  PROVE  /\ setting[p] \in Settings /\ setting[p] \in used /\ used \subseteq Settings
         /\ call[p] \in CallTypes /\ CallOK(used, setting[p], call[p])
         /\ left \in [deployments : 0..Deployments, calls : 0..Calls]
  BY DEF GatewayInv, GatewayTypeOK, Deployed, CallsOK

LEMMA RetryKeeps ==
  ASSUME GatewayInv, NEW p \in Processes, Retry(p)
  PROVE  GatewayInv'
<1> DEFINE c == call[p]
           again == Asked("embed", c, c.slots, c.fresh, c.tried + 1)
<1>1. /\ c.pc = "embed" /\ c.tried < Retries /\ call' = [call EXCEPT ![p] = again]
      /\ UNCHANGED <<setting, used, cache, memory, indexed, verdict, left>>
  BY DEF Retry
<1>2. c \in CallTypes /\ CallOK(used, setting[p], c)
  BY CallKnown
<1>3. left' \in [deployments : 0..Deployments, calls : 0..Calls]
  BY <1>1, CallKnown
<1> HIDE DEF c
<1>4. c.tried + 1 \in 0..Retries
  BY <1>1, <1>2, CallFields, GatewayAssumption
<1>5. again \in CallTypes
  BY <1>2, <1>4, CallFields, AskedType
<1>6. CallOK(used, setting[p], again)
  <2>1. /\ DOMAIN c.slots = DOMAIN c.texts /\ DOMAIN c.fresh = DOMAIN c.texts
        /\ \A i \in DOMAIN c.texts : /\ SlotOK(used, setting[p], c.texts[i], c.slots[i])
                                      /\ FreshOK(setting[p], c.texts[i], c.fresh[i])
        /\ EmbeddingClient(setting[p]) # "error"
    BY <1>1, <1>2 DEF CallOK
  <2>2. QED BY <2>1, AskedIsOK
<1> HIDE DEF again
<1>7. QED BY <1>1, <1>3, <1>5, <1>6, OnlyCallMoves

\* Sorting by index gives every text of the batch its own item.
LEMMA PlacedRight ==
  ASSUME NEW B, NEW order \in Arrivals(B), NEW i \in B
  PROVE  order[Placed(order, i)] = i
<1>1. DOMAIN order = B /\ \E j \in B : order[j] = i
  BY DEF Arrivals
<1>2. QED BY <1>1 DEF Placed

LEMMA AnsweredKeeps ==
  ASSUME GatewayInv, NEW p \in Processes, NEW order, Answered(p, order)
  PROVE  GatewayInv'
<1> DEFINE c == call[p]
           s == setting[p]
           fresh == [i \in DOMAIN c.texts |->
              IF i \in Batch(c) THEN Own(s, c.texts[order[Placed(order, i)]]) ELSE c.fresh[i]]
<1>1. /\ c.pc = "embed" /\ order \in Arrivals(Batch(c))
      /\ call' = [call EXCEPT ![p] =
           IF ~Fits(s) THEN NoCall
           ELSE IF Missing(c.slots, fresh) = {} THEN Asked("write", c, c.slots, fresh, 0)
           ELSE Asked("embed", c, c.slots, fresh, 0)]
      /\ UNCHANGED <<setting, used, cache, memory, indexed, verdict, left>>
  BY DEF Answered
<1>2. c \in CallTypes /\ CallOK(used, s, c) /\ s \in Settings
  BY CallKnown
<1>3. left' \in [deployments : 0..Deployments, calls : 0..Calls]
  BY <1>1, CallKnown
<1>4. CASE ~Fits(s)
  <2>1. call' = [call EXCEPT ![p] = NoCall]
    BY <1>1, <1>4
  <2>2. QED BY <1>1, <1>2, <1>3, <2>1, NoCallIsOK, OnlyCallMoves
<1>5. CASE Fits(s)
  <2> HIDE DEF c
  <2>1. c.texts \in Seq(Texts) /\ c.slots \in Seq(Vectors \cup {None})
        /\ c.fresh \in Seq(Vectors \cup {None}) /\ c.purpose \in Purposes /\ 0 \in 0..Retries
    BY <1>2, CallFields, GatewayAssumption
  <2>2. /\ DOMAIN c.slots = DOMAIN c.texts /\ DOMAIN c.fresh = DOMAIN c.texts
        /\ EmbeddingClient(s) # "error"
        /\ \A i \in DOMAIN c.texts : /\ SlotOK(used, s, c.texts[i], c.slots[i])
                                      /\ FreshOK(s, c.texts[i], c.fresh[i])
    BY <1>1, <1>2 DEF CallOK
  <2>3. ASSUME NEW i \in DOMAIN c.texts
        PROVE  fresh[i] \in Vectors \cup {None} /\ FreshOK(s, c.texts[i], fresh[i])
    <3>1. CASE i \in Batch(c)
      <4>1. fresh[i] = Own(s, c.texts[i])
        BY <1>1, <3>1, PlacedRight
      <4>2. c.texts[i] \in Texts
        BY <2>1
      <4> HIDE DEF fresh
      <4>3. QED BY <1>2, <1>5, <2>2, <4>1, <4>2, OwnIsVector DEF FreshOK
    <3>2. CASE i \notin Batch(c)
      <4>1. fresh[i] = c.fresh[i]
        BY <3>2
      <4> HIDE DEF fresh
      <4>2. QED BY <2>1, <2>2, <4>1
    <3>3. QED BY <3>1, <3>2
  <2>4. fresh \in [DOMAIN c.texts -> Vectors \cup {None}]
    BY <2>3
  <2> HIDE DEF fresh, s
  <2>5. fresh \in Seq(Vectors \cup {None}) /\ DOMAIN fresh = DOMAIN c.texts
    BY <2>1, <2>4, Alongside
  <2>6. CASE Missing(c.slots, fresh) = {}
    <3> DEFINE d == Asked("write", c, c.slots, fresh, 0)
    <3>1. d \in CallTypes
      BY <2>1, <2>5, AskedType
    <3>2. CallOK(used, s, d)
      BY <2>2, <2>3, <2>5, <2>6, AskedIsOK
    <3>3. call' = [call EXCEPT ![p] = d]
      BY <1>1, <1>5, <2>6
    <3> HIDE DEF d
    <3>4. QED BY <1>1, <1>3, <3>1, <3>2, <3>3, OnlyCallMoves DEF s
  <2>7. CASE Missing(c.slots, fresh) # {}
    <3> DEFINE d == Asked("embed", c, c.slots, fresh, 0)
    <3>1. d \in CallTypes
      BY <2>1, <2>5, AskedType
    <3>2. CallOK(used, s, d)
      BY <2>2, <2>3, <2>5, AskedIsOK
    <3>3. call' = [call EXCEPT ![p] = d]
      BY <1>1, <1>5, <2>7
    <3> HIDE DEF d
    <3>4. QED BY <1>1, <1>3, <3>1, <3>2, <3>3, OnlyCallMoves DEF s
  <2>8. QED BY <2>6, <2>7
<1>6. QED BY <1>4, <1>5

LEMMA WriteKeeps ==
  ASSUME GatewayInv, NEW p \in Processes, NEW kept, Write(p, kept)
  PROVE  GatewayInv'
<1> DEFINE c == call[p]
           s == setting[p]
           of(k) == {i \in kept : Key(s, c.texts[i]) = k}
           used_call == Asked("use", c, Whole(c), c.fresh, c.tried)
<1>1. /\ c.pc = "write" /\ kept \subseteq {i \in DOMAIN c.texts : c.slots[i] = None}
      /\ cache' = [k \in Keys |-> IF of(k) = {} THEN cache[k] ELSE c.fresh[CHOOSE i \in of(k) : TRUE]]
      /\ call' = [call EXCEPT ![p] = used_call]
      /\ UNCHANGED <<setting, used, memory, indexed, verdict, left>>
  BY DEF Write
<1>2. /\ c \in CallTypes /\ CallOK(used, s, c) /\ s \in Settings /\ s \in used
      /\ left' \in [deployments : 0..Deployments, calls : 0..Calls]
  BY <1>1, CallKnown
<1> HIDE DEF c, s
<1>3. /\ c.texts \in Seq(Texts) /\ c.slots \in Seq(Vectors \cup {None})
      /\ c.fresh \in Seq(Vectors \cup {None}) /\ c.purpose \in Purposes /\ c.tried \in 0..Retries
  BY <1>2, CallFields
<1>4. /\ DOMAIN c.slots = DOMAIN c.texts /\ DOMAIN c.fresh = DOMAIN c.texts
      /\ \A i \in DOMAIN c.texts : SlotOK(used, s, c.texts[i], c.slots[i])
      /\ \A i \in DOMAIN c.texts : FreshOK(s, c.texts[i], c.fresh[i])
      /\ \A i \in DOMAIN c.texts : c.slots[i] # None \/ c.fresh[i] # None
  BY <1>1, <1>2 DEF CallOK
<1>5. ASSUME NEW i \in DOMAIN c.texts
      PROVE  /\ Whole(c)[i] \in Vectors \cup {None} /\ Whole(c)[i] # None
             /\ SlotOK(used, s, c.texts[i], Whole(c)[i])
  <2>1. Whole(c)[i] = IF c.slots[i] = None THEN c.fresh[i] ELSE c.slots[i]
    BY DEF Whole
  <2>b. SlotOK(used, s, c.texts[i], c.slots[i]) /\ FreshOK(s, c.texts[i], c.fresh[i])
    BY <1>4, Zenon
  <2>2. /\ c.slots[i] # None \/ c.fresh[i] # None
        /\ c.slots[i] \in Vectors \cup {None} /\ c.fresh[i] \in Vectors \cup {None}
    BY <1>3, <1>4
  <2> DEFINE t == c.texts[i]
             a == c.slots[i]
             v == c.fresh[i]
  <2>3. SlotOK(used, s, t, a) /\ FreshOK(s, t, v)
    BY <2>b
  <2>a. /\ Whole(c)[i] = IF a = None THEN v ELSE a
        /\ a # None \/ v # None
        /\ a \in Vectors \cup {None} /\ v \in Vectors \cup {None}
    BY <2>1, <2>2
  <2>d. ASSUME SlotOK(used, s, t, Whole(c)[i]) PROVE SlotOK(used, s, c.texts[i], Whole(c)[i])
    BY <2>d
  <2> HIDE DEF t, a, v
  <2>4. v # None => SlotOK(used, s, t, v)
    BY <1>2, <2>3, FreshIsMade DEF SlotOK
  <2>5. SlotOK(used, s, t, Whole(c)[i])
    BY <2>3, <2>4, <2>a
  <2>6. QED BY <2>5, <2>a, <2>d
<1>6. Whole(c) \in [DOMAIN c.texts -> Vectors \cup {None}]
  BY <1>5 DEF Whole
<1>7. Whole(c) \in Seq(Vectors \cup {None}) /\ DOMAIN Whole(c) = DOMAIN c.texts
  BY <1>3, <1>6, Alongside
<1>8. used_call \in CallTypes
  BY <1>3, <1>7, AskedType
<1>9. CallOK(used, s, used_call)
  <2>1. /\ \A i \in DOMAIN c.texts : /\ SlotOK(used, s, c.texts[i], Whole(c)[i])
                                      /\ FreshOK(s, c.texts[i], c.fresh[i])
        /\ \A i \in DOMAIN c.texts : Whole(c)[i] # None
    BY <1>4, <1>5, Zenon
  <2>2. DOMAIN c.fresh = DOMAIN c.texts
    BY <1>4
  <2>3. QED BY <1>7, <2>1, <2>2, AskedIsOK
<1> HIDE DEF used_call
<1>10. call' \in [Processes -> CallTypes] /\ CallsOK' /\ Deployed'
  BY <1>1, <1>8, <1>9, CallMoves DEF s
<1>11. ASSUME NEW k \in Keys
       PROVE  /\ cache'[k] \in Vectors \cup {None}
              /\ cache'[k] # None => MadeUnder(used, k[1], k[2], cache'[k])
  <2>1. CASE of(k) = {}
    <3>1. cache'[k] = cache[k]
      BY <1>1, <2>1
    <3>2. QED BY <3>1 DEF GatewayInv, GatewayTypeOK, CacheOK
  <2>2. CASE of(k) # {}
    <3>1. PICK i \in of(k) : cache'[k] = c.fresh[i]
      BY <1>1, <2>2
    <3>2. i \in DOMAIN c.texts /\ c.slots[i] = None /\ Key(s, c.texts[i]) = k
      BY <1>1
    <3>3. c.fresh[i] # None /\ FreshOK(s, c.texts[i], c.fresh[i]) /\ c.fresh[i] \in Vectors \cup {None}
      <4>1. c.slots[i] # None \/ c.fresh[i] # None
        BY <1>4, <3>2
      <4>2. FreshOK(s, c.texts[i], c.fresh[i])
        BY <1>4, <3>2, Zenon
      <4>3. c.fresh[i] \in Vectors \cup {None}
        BY <1>3, <1>4, <3>2
      <4>4. QED BY <3>2, <4>1, <4>2, <4>3
    <3>4. MadeUnder(used, Name(s), c.texts[i], c.fresh[i])
      BY <1>2, <3>3, FreshIsMade
    <3>5. k[1] = Name(s) /\ k[2] = c.texts[i]
      BY <3>2 DEF Key
    <3>6. QED BY <3>1, <3>3, <3>4, <3>5
  <2>3. QED BY <2>1, <2>2
<1>12. cache' \in [Keys -> Vectors \cup {None}]
  BY <1>1, <1>11
<1>13. CacheOK'
  BY <1>1, <1>11 DEF CacheOK
<1>14. MemoryOK' /\ IndexedOK'
  BY <1>1 DEF GatewayInv, MemoryOK, IndexedOK
<1>15. GatewayTypeOK'
  BY <1>1, <1>2, <1>10, <1>12 DEF GatewayInv, GatewayTypeOK
<1>16. QED BY <1>10, <1>13, <1>14, <1>15 DEF GatewayInv

\* What a call that reached its use hands over.
LEMMA UseIsMade ==
  ASSUME GatewayInv, NEW p \in Processes, call[p].pc = "use", NEW i \in DOMAIN call[p].texts
  PROVE  /\ call[p].texts[i] \in Texts /\ call[p].slots[i] \in Vectors
         /\ MadeUnder(used, Name(setting[p]), call[p].texts[i], call[p].slots[i])
         /\ call[p].slots[i].length = setting[p].dimension
<1> DEFINE c == call[p]
           t == c.texts[i]
           v == c.slots[i]
<1>1. c \in CallTypes /\ CallOK(used, setting[p], c) /\ c.pc = "use" /\ i \in DOMAIN c.texts
  BY CallKnown
<1> HIDE DEF c
<1>2. c.texts \in Seq(Texts) /\ c.slots \in Seq(Vectors \cup {None})
  BY <1>1, CallFields
<1>3. DOMAIN c.slots = DOMAIN c.texts /\ v # None
  BY <1>1 DEF CallOK
<1>4. SlotOK(used, setting[p], t, v)
  BY <1>1 DEF CallOK
<1>5. t \in Texts /\ v \in Vectors
  BY <1>1, <1>2, <1>3
<1>6. MadeUnder(used, Name(setting[p]), t, v) /\ v.length = setting[p].dimension
  BY <1>3, <1>4 DEF SlotOK
<1>7. QED BY <1>5, <1>6 DEF c

LEMMA UseKeeps ==
  ASSUME GatewayInv, NEW p \in Processes, Use(p)
  PROVE  GatewayInv'
<1> DEFINE c == call[p]
           s == setting[p]
           new == {[text |-> c.texts[i], name |-> Name(s), vector |-> c.slots[i]]
                     : i \in DOMAIN c.texts}
           at(t) == {i \in DOMAIN c.texts : c.texts[i] = t}
           row(t) == [profile |-> ProfileOf(s), vector |-> c.slots[CHOOSE i \in at(t) : TRUE]]
<1>1. /\ c.pc = "use" /\ call' = [call EXCEPT ![p] = NoCall]
      /\ memory' = memory \/ memory' = memory \cup new
      /\ \/ indexed' = indexed
         \/ indexed' = [t \in Texts |-> IF at(t) = {} THEN indexed[t] ELSE row(t)]
      /\ UNCHANGED <<setting, used, cache, verdict, left>>
  BY DEF Use
<1>2. s \in Settings /\ left' \in [deployments : 0..Deployments, calls : 0..Calls]
  BY <1>1, CallKnown
<1>3. \A i \in DOMAIN c.texts :
        /\ c.texts[i] \in Texts /\ c.slots[i] \in Vectors
        /\ MadeUnder(used, Name(s), c.texts[i], c.slots[i])
        /\ c.slots[i].length = s.dimension
  BY <1>1, UseIsMade
<1>4. call' \in [Processes -> CallTypes] /\ CallsOK' /\ Deployed'
  BY <1>1, <1>2, NoCallIsOK, CallMoves
<1>5. Name(s) \in Names /\ ProfileOf(s) \in {ProfileOf(x) : x \in Settings}
      /\ ProfileOf(s).model = Name(s) /\ ProfileOf(s).dimension = s.dimension
  BY <1>2 DEF Names, ProfileOf
<1> HIDE DEF c, s
<1>6. \A m \in new : /\ m \in [text : Texts, name : Names, vector : Vectors]
                     /\ MadeUnder(used, m.name, m.text, m.vector)
  BY <1>3, <1>5
<1>7. memory' \subseteq [text : Texts, name : Names, vector : Vectors]
  <2>1. memory \subseteq [text : Texts, name : Names, vector : Vectors]
    BY DEF GatewayInv, GatewayTypeOK
  <2> HIDE DEF new
  <2>2. QED BY <1>1, <1>6, <2>1
<1>8. MemoryOK'
  <2>1. \A m \in memory : MadeUnder(used, m.name, m.text, m.vector)
    BY DEF GatewayInv, MemoryOK
  <2> HIDE DEF new
  <2>2. \A m \in memory' : MadeUnder(used, m.name, m.text, m.vector)
    BY <1>1, <1>6, <2>1
  <2>3. QED BY <1>1, <2>2 DEF MemoryOK
<1>9. ASSUME NEW t \in Texts, at(t) # {}
      PROVE  /\ row(t) \in [profile : {ProfileOf(x) : x \in Settings}, vector : Vectors]
             /\ MadeUnder(used, row(t).profile.model, t, row(t).vector)
             /\ row(t).vector.length = row(t).profile.dimension
  <2>1. PICK i \in at(t) : i = CHOOSE j \in at(t) : TRUE
    BY <1>9
  <2>2. i \in DOMAIN c.texts /\ c.texts[i] = t
    OBVIOUS
  <2>3. row(t).profile = ProfileOf(s) /\ row(t).vector = c.slots[i]
    BY <2>1
  <2>4. row(t) = [profile |-> ProfileOf(s), vector |-> c.slots[i]]
    BY <2>1
  <2> HIDE DEF row, at
  <2>5. QED BY <1>3, <1>5, <2>2, <2>3, <2>4
<1>10. /\ indexed \in [Texts -> [profile : {ProfileOf(x) : x \in Settings}, vector : Vectors]
                               \cup {None}]
       /\ IndexedOK
  BY DEF GatewayInv, GatewayTypeOK
<1> HIDE DEF at, row
<1>11. ASSUME NEW t \in Texts
       PROVE  /\ indexed'[t] \in [profile : {ProfileOf(x) : x \in Settings}, vector : Vectors]
                                 \cup {None}
              /\ indexed'[t] # None =>
                   /\ MadeUnder(used, indexed'[t].profile.model, t, indexed'[t].vector)
                   /\ indexed'[t].vector.length = indexed'[t].profile.dimension
  <2>1. CASE indexed'[t] = indexed[t]
    BY <1>10, <2>1 DEF IndexedOK
  <2>2. CASE at(t) # {} /\ indexed'[t] = row(t)
    BY <1>9, <2>2
  <2>3. QED BY <1>1, <2>1, <2>2
<1>12. indexed' \in [Texts -> [profile : {ProfileOf(x) : x \in Settings}, vector : Vectors]
                             \cup {None}]
  BY <1>1, <1>10, <1>11
<1>13. IndexedOK'
  BY <1>1, <1>11 DEF IndexedOK
<1>14. CacheOK'
  BY <1>1 DEF GatewayInv, CacheOK
<1>15. GatewayTypeOK'
  BY <1>1, <1>2, <1>4, <1>7, <1>12 DEF GatewayInv, GatewayTypeOK
<1>16. QED BY <1>4, <1>8, <1>13, <1>14, <1>15 DEF GatewayInv

\* A verdict is taken down, for the settings of its process, and nothing else.
LEMMA VerdictKeeps ==
  ASSUME GatewayInv, NEW p \in Processes, NEW v \in VerdictTypes,
         verdict' = [verdict EXCEPT ![p] = v],
         UNCHANGED <<setting, used, cache, memory, indexed, call>>,
         left' \in [deployments : 0..Deployments, calls : 0..Calls]
  PROVE  GatewayInv'
<1>1. verdict' \in [Processes -> VerdictTypes \cup {None}]
  BY DEF GatewayInv, GatewayTypeOK
<1>2. GatewayTypeOK'
  BY <1>1 DEF GatewayInv, GatewayTypeOK
<1>3. CacheOK' /\ MemoryOK' /\ IndexedOK' /\ CallsOK' /\ Deployed'
  BY DEF GatewayInv, CacheOK, MemoryOK, IndexedOK, CallsOK, Deployed
<1>4. QED BY <1>2, <1>3 DEF GatewayInv

LEMMA SettingProvider ==
  ASSUME NEW s \in Settings
  PROVE  s.provider \in {"deterministic", "openai-compatible", "padded"}
  BY GatewayAssumption DEF Setting

LEMMA CheckHolds ==
  ASSUME GatewayInv, NEW p \in Processes, NEW side \in Sides,
         NEW listing, NEW up, Check(p, side, listing, up)
  PROVE  \E v \in VerdictTypes : /\ verdict' = [verdict EXCEPT ![p] = v]
                                /\ HoldsFor(v, setting[p])
<1> DEFINE s == setting[p]
<1>1. s.provider \in {"deterministic", "openai-compatible", "padded"}
  BY CallKnown, SettingProvider
<1>2. side = "embedding" \/ side = "answer"
  BY DEF Sides
<1>3. verdict' = [verdict EXCEPT ![p] =
           IF ~Remote(s) THEN Said(side, "local", "ready", "settings")
           ELSE IF ~Reached(s) THEN Said(side, "gateway", "missing_config", "settings")
           ELSE IF listing = "listed" THEN Said(side, "gateway", "ready", "list")
           ELSE IF listing = "absent" /\ up /\ Serves(side, s)
                THEN Said(side, "gateway", "ready", "request")
           ELSE Said(side, "gateway", "unreachable", "request")]
  BY DEF Check, Readiness
<1> HIDE DEF s
<1>4. CASE ~Remote(s)
  <2> DEFINE v == Said(side, "local", "ready", "settings")
  <2>1. v \in VerdictTypes
    BY DEF Said, VerdictTypes
  <2>2. HoldsFor(v, s)
    BY <1>1, <1>2, <1>4 DEF Said, HoldsFor, ClientOf, Remote, AnswerClient, EmbeddingClient, Profiled
  <2>3. QED BY <1>3, <1>4, <2>1, <2>2 DEF s
<1>5. CASE Remote(s) /\ ~Reached(s)
  <2> DEFINE v == Said(side, "gateway", "missing_config", "settings")
  <2>1. v \in VerdictTypes
    BY DEF Said, VerdictTypes
  <2>2. HoldsFor(v, s)
    BY <1>1, <1>2, <1>5 DEF Said, HoldsFor, ClientOf, Remote, AnswerClient, EmbeddingClient, Profiled
  <2>3. QED BY <1>3, <1>5, <2>1, <2>2 DEF s
<1>6. CASE Remote(s) /\ Reached(s) /\ listing = "listed"
  <2> DEFINE v == Said(side, "gateway", "ready", "list")
  <2>1. v \in VerdictTypes
    BY DEF Said, VerdictTypes
  <2>2. HoldsFor(v, s)
    BY <1>1, <1>2, <1>6 DEF Said, HoldsFor, ClientOf, Remote, AnswerClient, EmbeddingClient, Profiled
  <2>3. QED BY <1>3, <1>6, <2>1, <2>2 DEF s
<1>7. CASE Remote(s) /\ Reached(s) /\ listing = "absent" /\ up /\ Serves(side, s)
  <2> DEFINE v == Said(side, "gateway", "ready", "request")
  <2>1. v \in VerdictTypes
    BY DEF Said, VerdictTypes
  <2>2. HoldsFor(v, s)
    BY <1>1, <1>2, <1>7
       DEF Said, HoldsFor, ClientOf, Remote, AnswerClient, EmbeddingClient, Profiled, Serves
  <2>3. QED BY <1>3, <1>7, <2>1, <2>2 DEF s
<1>8. CASE Remote(s) /\ Reached(s) /\ listing # "listed" /\ ~(listing = "absent" /\ up /\ Serves(side, s))
  <2> DEFINE v == Said(side, "gateway", "unreachable", "request")
  <2>1. v \in VerdictTypes
    BY DEF Said, VerdictTypes
  <2>2. HoldsFor(v, s)
    BY DEF Said, HoldsFor
  <2>3. QED BY <1>3, <1>8, <2>1, <2>2 DEF s
<1>9. QED BY <1>4, <1>5, <1>6, <1>7, <1>8

LEMMA SmokeHolds ==
  ASSUME GatewayInv, NEW p \in Processes, NEW side \in Sides,
         NEW up, Smoke(p, side, up)
  PROVE  \E v \in VerdictTypes : /\ verdict' = [verdict EXCEPT ![p] = v]
                                /\ HoldsFor(v, setting[p])
<1> DEFINE s == setting[p]
<1>1. s.provider \in {"deterministic", "openai-compatible", "padded"}
  BY CallKnown, SettingProvider
<1>2. side = "embedding" \/ side = "answer"
  BY DEF Sides
<1>3. verdict' = [verdict EXCEPT ![p] =
           IF ~Remote(s) THEN Said(side, "local", "ready", "request")
           ELSE IF ~Reached(s) THEN Said(side, "gateway", "missing_config", "settings")
           ELSE IF up /\ Serves(side, s) THEN Said(side, "gateway", "ready", "request")
           ELSE Said(side, "gateway", "failed", "request")]
  BY DEF Smoke, SmokeTest
<1> HIDE DEF s
<1>4. CASE ~Remote(s)
  <2> DEFINE v == Said(side, "local", "ready", "request")
  <2>1. v \in VerdictTypes
    BY DEF Said, VerdictTypes
  <2>2. HoldsFor(v, s)
    BY <1>1, <1>2, <1>4 DEF Said, HoldsFor, ClientOf, Remote, AnswerClient, EmbeddingClient, Profiled
  <2>3. QED BY <1>3, <1>4, <2>1, <2>2 DEF s
<1>5. CASE Remote(s) /\ ~Reached(s)
  <2> DEFINE v == Said(side, "gateway", "missing_config", "settings")
  <2>1. v \in VerdictTypes
    BY DEF Said, VerdictTypes
  <2>2. HoldsFor(v, s)
    BY <1>1, <1>2, <1>5 DEF Said, HoldsFor, ClientOf, Remote, AnswerClient, EmbeddingClient, Profiled
  <2>3. QED BY <1>3, <1>5, <2>1, <2>2 DEF s
<1>6. CASE Remote(s) /\ Reached(s) /\ up /\ Serves(side, s)
  <2> DEFINE v == Said(side, "gateway", "ready", "request")
  <2>1. v \in VerdictTypes
    BY DEF Said, VerdictTypes
  <2>2. HoldsFor(v, s)
    BY <1>1, <1>2, <1>6
       DEF Said, HoldsFor, ClientOf, Remote, AnswerClient, EmbeddingClient, Profiled, Serves
  <2>3. QED BY <1>3, <1>6, <2>1, <2>2 DEF s
<1>7. CASE Remote(s) /\ Reached(s) /\ ~(up /\ Serves(side, s))
  <2> DEFINE v == Said(side, "gateway", "failed", "request")
  <2>1. v \in VerdictTypes
    BY DEF Said, VerdictTypes
  <2>2. HoldsFor(v, s)
    BY DEF Said, HoldsFor
  <2>3. QED BY <1>3, <1>7, <2>1, <2>2 DEF s
<1>8. QED BY <1>4, <1>5, <1>6, <1>7

\* A readiness check or a smoke test, of either gateway.
Probes(p) ==
  \E side \in Sides, up \in BOOLEAN :
    \/ \E listing \in {"listed", "absent", "broken"} : Check(p, side, listing, up)
    \/ Smoke(p, side, up)

LEMMA ProbeKeeps ==
  ASSUME GatewayInv, NEW p \in Processes, Probes(p)
  PROVE  /\ GatewayInv' /\ UNCHANGED setting
         /\ \E v \in VerdictTypes : verdict' = [verdict EXCEPT ![p] = v] /\ HoldsFor(v, setting[p])
<1>1. \E v \in VerdictTypes : verdict' = [verdict EXCEPT ![p] = v] /\ HoldsFor(v, setting[p])
  BY CheckHolds, SmokeHolds DEF Probes
<1>2. /\ UNCHANGED <<setting, used, cache, memory, indexed, call>>
      /\ left.calls > 0 /\ left' = [left EXCEPT !.calls = left.calls - 1]
  BY DEF Probes, Check, Smoke
<1>3. left' \in [deployments : 0..Deployments, calls : 0..Calls]
  BY <1>2, CountersStep DEF GatewayInv
<1>4. QED BY <1>1, <1>2, <1>3, VerdictKeeps

LEMMA InvariantStep == GatewayInv /\ [GatewayNext]_gatewayVars => GatewayInv'
<1> SUFFICES ASSUME GatewayInv, [GatewayNext]_gatewayVars PROVE GatewayInv'
  OBVIOUS
<1>1. ASSUME NEW p \in Processes, NEW s \in Settings, Deploy(p, s) PROVE GatewayInv'
  BY <1>1, DeployKeeps
<1>2. ASSUME NEW p \in Processes, NEW w \in Work, NEW lost, Begin(p, w, lost) PROVE GatewayInv'
  BY <1>2, BeginKeeps
<1>3. ASSUME NEW p \in Processes, NEW order, Answered(p, order) PROVE GatewayInv'
  BY <1>3, AnsweredKeeps
<1>4. ASSUME NEW p \in Processes, Retry(p) \/ Fail(p) PROVE GatewayInv'
  BY <1>4, RetryKeeps, FailKeeps
<1>5. ASSUME NEW p \in Processes, NEW kept, Write(p, kept) PROVE GatewayInv'
  BY <1>5, WriteKeeps
<1>6. ASSUME NEW p \in Processes, Use(p) PROVE GatewayInv'
  BY <1>6, UseKeeps
<1>7. ASSUME NEW p \in Processes, Probes(p) PROVE GatewayInv'
  BY <1>7, ProbeKeeps
<1>8. CASE UNCHANGED gatewayVars
  BY <1>8 DEF gatewayVars, GatewayInv, GatewayTypeOK, Deployed, CacheOK, MemoryOK, IndexedOK, CallsOK
<1>9. QED BY <1>1, <1>2, <1>3, <1>4, <1>5, <1>6, <1>7, <1>8 DEF GatewayNext, Probes

LEMMA GatewayInvariant == GatewaySpec => []GatewayInv
BY InitIsOK, InvariantStep, PTL DEF GatewaySpec

-----------------------------------------------------------------------------

\* Settings, cache, memory, index, calls and verdicts keep their types, for any number of
\* processes and texts and any settings that may be deployed.
THEOREM GatewayTypes == GatewaySpec => []GatewayTypeOK
<1>1. GatewayInv => GatewayTypeOK
  BY DEF GatewayInv
<1>2. QED BY <1>1, GatewayInvariant, PTL

\* MixedOnlyUnderOneName: what lies under a name was made by a client deployed under it,
\* whatever the processes cached, lost and redeployed in between.
THEOREM NamesAreKept == GatewaySpec => []MixedOnlyUnderOneName
<1>1. GatewayInv => MixedOnlyUnderOneName
  BY DEF GatewayInv, CacheOK, MemoryOK, IndexedOK, MixedOnlyUnderOneName
<1>2. QED BY <1>1, GatewayInvariant, PTL

\* EachItsOwn: whatever the batches, the order of the answers and the gaps of the cache,
\* a text is used and stored with its own vector, of the length asked for.
THEOREM VectorsAreOwn == GatewaySpec => []EachItsOwn
<1>1. GatewayInv => EachItsOwn
  <2> SUFFICES ASSUME GatewayInv PROVE EachItsOwn
    OBVIOUS
  <2>0. used \subseteq Settings
    BY DEF GatewayInv, GatewayTypeOK
  <2>1. ASSUME NEW p \in Processes, call[p].pc = "use", NEW i \in DOMAIN call[p].texts
        PROVE  /\ call[p].slots[i].text = call[p].texts[i]
               /\ call[p].slots[i].length = setting[p].dimension
    BY <2>0, <2>1, UseIsMade, MadeOfText
  <2>2. ASSUME NEW m \in memory PROVE m.vector.text = m.text
    <3>1. m.text \in Texts /\ MadeUnder(used, m.name, m.text, m.vector)
      BY DEF GatewayInv, GatewayTypeOK, MemoryOK
    <3>2. QED BY <2>0, <3>1, MadeOfText
  <2>3. ASSUME NEW t \in Texts, indexed[t] # None
        PROVE  /\ indexed[t].vector.text = t
               /\ indexed[t].vector.length = indexed[t].profile.dimension
    BY <2>0, <2>3, MadeOfText DEF GatewayInv, IndexedOK
  <2>4. QED BY <2>1, <2>2, <2>3 DEF EachItsOwn
<1>2. QED BY <1>1, GatewayInvariant, PTL

\* VerdictsHold: what a process said of a gateway holds for its calls until it is replaced,
\* for any settings.
THEOREM ReadyMeansReady == GatewaySpec => []VerdictsHold
<1>1. GatewayInit => VerdictsHold
  BY DEF GatewayInit, VerdictsHold
<1>2. GatewayInv /\ VerdictsHold /\ [GatewayNext]_gatewayVars => VerdictsHold'
  <2> SUFFICES ASSUME GatewayInv, VerdictsHold, [GatewayNext]_gatewayVars PROVE VerdictsHold'
    OBVIOUS
  <2>0. /\ setting \in [Processes -> Settings]
        /\ verdict \in [Processes -> VerdictTypes \cup {None}]
    BY DEF GatewayInv, GatewayTypeOK
  <2>1. ASSUME NEW p \in Processes, NEW s \in Settings, Deploy(p, s) PROVE VerdictsHold'
    <3>1. setting' = [setting EXCEPT ![p] = s] /\ verdict' = [verdict EXCEPT ![p] = None]
      BY <2>1 DEF Deploy
    <3>2. QED BY <2>0, <3>1 DEF VerdictsHold
  <2>2. ASSUME NEW p \in Processes, Probes(p) PROVE VerdictsHold'
    <3>1. UNCHANGED setting
      BY <2>2, ProbeKeeps
    <3>2. PICK v \in VerdictTypes : verdict' = [verdict EXCEPT ![p] = v] /\ HoldsFor(v, setting[p])
      BY <2>2, ProbeKeeps
    <3>3. QED BY <2>0, <3>1, <3>2 DEF VerdictsHold
  <2>3. CASE UNCHANGED <<setting, verdict>>
    BY <2>3 DEF VerdictsHold
  <2>4. ASSUME NEW p \in Processes,
               \/ \E w \in Work : \E lost \in SUBSET DOMAIN w.texts : Begin(p, w, lost)
               \/ \E order \in Arrivals(Batch(call[p])) : Answered(p, order)
               \/ Retry(p) \/ Fail(p)
               \/ \E kept \in SUBSET DOMAIN call[p].texts : Write(p, kept)
               \/ Use(p)
        PROVE  UNCHANGED <<setting, verdict>>
    BY <2>4 DEF Begin, Answered, Retry, Fail, Write, Use
  <2>5. QED
    BY <2>1, <2>2, <2>3, <2>4 DEF GatewayNext, Probes, gatewayVars
<1>3. QED BY <1>1, <1>2, GatewayInvariant, PTL DEF GatewaySpec

=============================================================================
