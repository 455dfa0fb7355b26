-------------------------- MODULE PolicyRunsProofs --------------------------
(* Theorems about PolicyRuns, for every set of runs, every question, every     *)
(* threshold and every number of attempts.                                     *)
EXTENDS PolicyRuns, FiniteSetTheorems, TLAPS

States == [failures : Nat, opened : {"no", "open", "cooled"}]

-----------------------------------------------------------------------------
(* The breaker *)

BreakerInv == breaker \in States /\ OpenIffFailing

\* What a step does to the breaker: one of its three methods, the clock, or nothing.
BreakerStep ==
  \/ breaker' = breaker
  \/ breaker' = HalfOpened(breaker)
  \/ breaker' = RecordSuccess(breaker)
  \/ breaker' = RecordFailure(breaker)
  \/ /\ breaker.opened = "open"
     /\ breaker' = [failures |-> breaker.failures, opened |-> "cooled"]

LEMMA StepsOfTheBreaker == [Next]_vars => BreakerStep
  BY DEF Next, Works, Start, Refused, Admitted, Succeeds, Retries, GivesUp, Finish, Cools,
         BreakerStep, vars

\* Each method keeps the count and the timestamp in step.
LEMMA BreakerKeepsCount == BreakerInv /\ BreakerStep => BreakerInv'
<1> SUFFICES ASSUME BreakerInv, BreakerStep PROVE BreakerInv'
  OBVIOUS
<1> USE PolicyAssumption DEF BreakerInv, OpenIffFailing, States
<1>1. CASE breaker' = breaker
  BY <1>1
<1>2. CASE breaker' = HalfOpened(breaker)
  BY <1>2 DEF HalfOpened, Closed
<1>3. CASE breaker' = RecordSuccess(breaker)
  BY <1>3 DEF RecordSuccess, Closed
<1>4. CASE breaker' = RecordFailure(breaker)
  BY <1>4 DEF RecordFailure
<1>5. CASE /\ breaker.opened = "open"
           /\ breaker' = [failures |-> breaker.failures, opened |-> "cooled"]
  BY <1>5
<1> QED
  BY <1>1, <1>2, <1>3, <1>4, <1>5 DEF BreakerStep

\* OpenIffFailing, whatever the number of threads that share the breaker.
THEOREM BreakerCounts == Spec => []OpenIffFailing
<1>1. Init => BreakerInv
  BY PolicyAssumption DEF Init, Closed, BreakerInv, OpenIffFailing, States
<1>2. BreakerInv /\ [Next]_vars => BreakerInv'
  BY StepsOfTheBreaker, BreakerKeepsCount
<1>3. BreakerInv => OpenIffFailing
  BY DEF BreakerInv
<1> QED
  BY <1>1, <1>2, <1>3, PTL DEF Spec

-----------------------------------------------------------------------------
(* Types *)

WorkerType == [pc : {"none", "ask", "call", "done"}, attempts : 0..(Attempts - 1),
               results : Seq(Statuses)]

LEMMA EnteringIsTyped ==
  ASSUME NEW pc \in {"none", "ask", "call", "done"}, NEW n \in 0..(Attempts - 1),
         NEW s \in Seq(Statuses)
  PROVE  Entering(pc, n, s) \in WorkerType
  BY DEF Entering, WorkerType

\* A question that ends leaves its worker and the list of reports well typed.
LEMMA EndKeepsTypes ==
  ASSUME TypeOK, NEW r \in Runs, NEW d \in Domains, NEW status \in Statuses,
         End(r, d, status)
  PROVE  /\ worker' \in [Runs \X Domains -> WorkerType]
         /\ arrived' \in [Runs -> Seq(Domains)]
<1>1. worker \in [Runs \X Domains -> WorkerType] /\ arrived \in [Runs -> Seq(Domains)]
  BY DEF TypeOK, WorkerType
<1>2. <<r, d>> \in Runs \X Domains
  OBVIOUS
<1>3. worker[<<r, d>>] \in WorkerType
  BY <1>1, <1>2
<1>4. Append(worker[<<r, d>>].results, status) \in Seq(Statuses)
  BY <1>3 DEF WorkerType
<1>5. 0 \in 0..(Attempts - 1)
  BY PolicyAssumption
<1>6. Recorded(r, d, status) \in WorkerType
  BY <1>4, <1>5, EnteringIsTyped DEF Recorded
<1>7. arrived[r] \in Seq(Domains) /\ Append(arrived[r], d) \in Seq(Domains)
  BY <1>1
<1>8. Arrivals(r, d, Recorded(r, d, status)) \in Seq(Domains)
  BY <1>7 DEF Arrivals
<1> QED
  BY <1>1, <1>2, <1>6, <1>8 DEF End

LEMMA CallsAreFinite == IsFiniteSet(Runs \X Domains)
<1>1. Domains = (({"generic"} \cup {"hotel"}) \cup {"flight"}) \cup {"reimbursement"}
  BY DEF Domains, Dimensions
<1>2. IsFiniteSet({"generic"})
  BY FS_Singleton
<1>3. IsFiniteSet({"generic"} \cup {"hotel"})
  BY <1>2, FS_AddElement
<1>4. IsFiniteSet(({"generic"} \cup {"hotel"}) \cup {"flight"})
  BY <1>3, FS_AddElement
<1>5. IsFiniteSet(Domains)
  BY <1>1, <1>4, FS_AddElement
<1> QED
  BY <1>5, PolicyAssumption, FS_Product

\* The calls under way, but for one, can be counted.
LEMMA CallsAreCounted ==
  ASSUME NEW w
  PROVE  Cardinality(Calls \ {w}) \in Nat
<1>1. Calls \ {w} \subseteq Runs \X Domains
  BY DEF Calls
<1> QED
  BY <1>1, CallsAreFinite, FS_Subset, FS_CardinalityType

\* The history of an opening keeps its types.
LEMMA WitnessKeepsTypes ==
  ASSUME flight \in Nat, burst \in Nat, NEW r, NEW d, Witness(r, d)
  PROVE  flight' \in Nat /\ burst' \in Nat
<1>1. CASE breaker'.opened # "open"
  BY <1>1 DEF Witness
<1>2. CASE breaker'.opened = "open" /\ breaker.opened = "open"
  BY <1>2 DEF Witness
<1>3. CASE breaker'.opened = "open" /\ breaker.opened # "open"
  <2>1. Cardinality(Calls \ {<<r, d>>}) \in Nat
    BY CallsAreCounted
  <2>2. flight' = Cardinality(Calls \ {<<r, d>>}) /\ burst' = 0
    BY <1>3 DEF Witness
  <2> QED
    BY <2>1, <2>2
<1> QED
  BY <1>1, <1>2, <1>3

LEMMA InitIsTyped == Init => TypeOK
<1> SUFFICES ASSUME Init PROVE TypeOK
  OBVIOUS
<1>1. Idle \in WorkerType
  BY PolicyAssumption DEF Idle, Entering, WorkerType
<1>2. worker \in [Runs \X Domains -> WorkerType]
  BY <1>1 DEF Init
<1>3. mode \in Modes /\ breaker \in States /\ flight \in Nat /\ burst \in Nat
  BY DEF Init, Closed, States
<1>4. /\ DOMAIN question = Runs /\ DOMAIN final = Runs
      /\ \A r \in Runs : question[r] \in Questions[r] \cup {NoQuestion}
  BY DEF Init
<1>5. arrived \in [Runs -> Seq(Domains)]
  BY DEF Init
<1>6. \A r \in Runs : final[r].done \in BOOLEAN /\ final[r].interrupt \in BOOLEAN
  BY DEF Init
<1> QED
  BY <1>2, <1>3, <1>4, <1>5, <1>6 DEF TypeOK, WorkerType, States

LEMMA StepKeepsTypes == TypeOK /\ [Next]_vars => TypeOK'
<1> SUFFICES ASSUME TypeOK, [Next]_vars PROVE TypeOK'
  OBVIOUS
<1>0. BreakerStep
  BY StepsOfTheBreaker
<1>1. breaker' \in States
  BY <1>0 DEF TypeOK, BreakerStep, States, HalfOpened, RecordSuccess, RecordFailure, Closed
<1>2. mode' \in Modes
  BY DEF TypeOK, Next, Works, Start, Refused, Admitted, Succeeds, Retries, GivesUp, Finish,
         Cools, vars
<1> DEFINE Sound ==
      /\ DOMAIN question' = Runs /\ DOMAIN final' = Runs
      /\ \A r \in Runs : question'[r] \in Questions[r] \cup {NoQuestion}
      /\ worker' \in [Runs \X Domains -> WorkerType]
      /\ arrived' \in [Runs -> Seq(Domains)]
      /\ \A r \in Runs : final'[r].done \in BOOLEAN /\ final'[r].interrupt \in BOOLEAN
      /\ flight' \in Nat /\ burst' \in Nat
<1>3. /\ DOMAIN question = Runs /\ DOMAIN final = Runs
      /\ \A r \in Runs : question[r] \in Questions[r] \cup {NoQuestion}
      /\ worker \in [Runs \X Domains -> WorkerType]
      /\ arrived \in [Runs -> Seq(Domains)]
      /\ \A r \in Runs : final[r].done \in BOOLEAN /\ final[r].interrupt \in BOOLEAN
      /\ flight \in Nat /\ burst \in Nat
  BY DEF TypeOK, WorkerType
<1>4. ASSUME NEW r \in Runs, NEW q \in Questions[r], Start(r, q) PROVE Sound
  <2>1. Entering("ask", 0, <<>>) \in WorkerType
    BY PolicyAssumption DEF Entering, WorkerType
  <2>2. worker' \in [Runs \X Domains -> WorkerType]
    BY <2>1, <1>3, <1>4 DEF Start
  <2>3. \A o \in Runs : question'[o] \in Questions[o] \cup {NoQuestion}
    BY <1>3, <1>4 DEF Start
  <2> QED
    BY <2>2, <2>3, <1>3, <1>4 DEF Start
<1>5. ASSUME NEW r \in Runs, NEW d \in Domains, Refused(r, d) PROVE Sound
  <2>1. End(r, d, "circuit_open") /\ "circuit_open" \in Statuses
    BY <1>5 DEF Refused, Statuses
  <2>2. worker' \in [Runs \X Domains -> WorkerType] /\ arrived' \in [Runs -> Seq(Domains)]
    BY <2>1, EndKeepsTypes
  <2> QED
    BY <2>2, <1>3, <1>5 DEF Refused
<1>6. ASSUME NEW r \in Runs, NEW d \in Domains, Admitted(r, d) PROVE Sound
  <2>1. <<r, d>> \in Runs \X Domains /\ worker[<<r, d>>].results \in Seq(Statuses)
    BY <1>3 DEF WorkerType
  <2>2. 0 \in 0..(Attempts - 1)
    BY PolicyAssumption
  <2>3. Entering("call", 0, worker[<<r, d>>].results) \in WorkerType
    BY <2>1, <2>2, EnteringIsTyped
  <2> QED
    BY <2>1, <2>3, <1>3, <1>6 DEF Admitted
<1>7. ASSUME NEW r \in Runs, NEW d \in Domains, NEW status \in {"good", "weak"},
             Succeeds(r, d, status)
      PROVE  Sound
  <2>1. End(r, d, status) /\ status \in Statuses /\ Witness(r, d)
    BY <1>7 DEF Succeeds, Statuses
  <2>2. worker' \in [Runs \X Domains -> WorkerType] /\ arrived' \in [Runs -> Seq(Domains)]
    BY <2>1, EndKeepsTypes
  <2>3. flight' \in Nat /\ burst' \in Nat
    BY <2>1, <1>3, WitnessKeepsTypes
  <2> QED
    BY <2>2, <2>3, <1>3, <1>7 DEF Succeeds
<1>8. ASSUME NEW r \in Runs, NEW d \in Domains, Retries(r, d) PROVE Sound
  <2>1. <<r, d>> \in Runs \X Domains /\ worker[<<r, d>>] \in WorkerType
    BY <1>3
  <2>2. worker[<<r, d>>].attempts + 1 \in 0..(Attempts - 1)
    BY <2>1, <1>8, PolicyAssumption DEF WorkerType, Retries, MayRetry
  <2>3. worker[<<r, d>>].results \in Seq(Statuses)
    BY <2>1 DEF WorkerType
  <2>4. Entering("call", worker[<<r, d>>].attempts + 1, worker[<<r, d>>].results) \in WorkerType
    BY <2>2, <2>3, EnteringIsTyped
  <2>5. flight' \in Nat /\ burst' \in Nat
    BY <1>8, <1>3, WitnessKeepsTypes DEF Retries
  <2> QED
    BY <2>1, <2>4, <2>5, <1>3, <1>8 DEF Retries
<1>9. ASSUME NEW r \in Runs, NEW d \in Domains, GivesUp(r, d) PROVE Sound
  <2>1. End(r, d, "failed") /\ "failed" \in Statuses /\ Witness(r, d)
    BY <1>9 DEF GivesUp, Statuses
  <2>2. worker' \in [Runs \X Domains -> WorkerType] /\ arrived' \in [Runs -> Seq(Domains)]
    BY <2>1, EndKeepsTypes
  <2>3. flight' \in Nat /\ burst' \in Nat
    BY <2>1, <1>3, WitnessKeepsTypes
  <2> QED
    BY <2>2, <2>3, <1>3, <1>9 DEF GivesUp
<1>10. ASSUME NEW r \in Runs, Finish(r) PROVE Sound
  <2> DEFINE Open(s) == \E i \in 1..Len(s) : s[i].missing # {}
  <2>0. PICK reports :
          final' = [final EXCEPT ![r] =
                      [done |-> TRUE, reports |-> reports, interrupt |-> Open(reports)]]
    BY <1>10 DEF Finish
  <2>a. Open(reports) \in BOOLEAN
    OBVIOUS
  <2> HIDE DEF Open
  <2>1. PICK open \in BOOLEAN :
          final' = [final EXCEPT ![r] =
                      [done |-> TRUE, reports |-> reports, interrupt |-> open]]
    BY <2>0, <2>a, Zenon
  <2>2. final'[r] = [done |-> TRUE, reports |-> reports, interrupt |-> open]
    BY <2>1, <1>3
  <2>3. final'[r].done \in BOOLEAN /\ final'[r].interrupt \in BOOLEAN
    BY <2>2
  <2>4. \A o \in Runs \ {r} : final'[o] = final[o]
    BY <2>1, <1>3
  <2>5. DOMAIN final' = Runs
    BY <2>1, <1>3
  <2>6. \A o \in Runs : final'[o].done \in BOOLEAN /\ final'[o].interrupt \in BOOLEAN
    BY <2>3, <2>4, <1>3
  <2> QED
    BY <2>5, <2>6, <1>3, <1>10 DEF Finish
<1>11. ASSUME Cools PROVE Sound
  BY <1>3, <1>11 DEF Cools
<1>12. ASSUME UNCHANGED vars PROVE Sound
  BY <1>3, <1>12 DEF vars
<1>13. Sound
  BY <1>4, <1>5, <1>6, <1>7, <1>8, <1>9, <1>10, <1>11, <1>12 DEF Next, Works
<1> QED
  BY <1>1, <1>2, <1>13 DEF TypeOK, WorkerType, States

\* TypeOK: among the rest, a call is never attempted more than Attempts times.
THEOREM PolicyTypes == Spec => []TypeOK
<1> QED
  BY InitIsTyped, StepKeepsTypes, PTL DEF Spec

-----------------------------------------------------------------------------
(* An open breaker stops the traffic                                            *)

\* The attempts that the calls under way may still make.
Left == {c \in Calls \X (0..(Attempts - 1)) : worker[c[1]].attempts <= c[2]}

TrafficInv ==
  /\ Threshold = 0 => breaker.opened = "no"
  /\ breaker.opened = "open" => burst + Cardinality(Left) <= Attempts * flight

LEMMA LeftIsFinite == IsFiniteSet(Left)
<1>1. IsFiniteSet(Calls)
  BY CallsAreFinite, FS_Subset DEF Calls
<1>2. IsFiniteSet(0..(Attempts - 1))
  BY PolicyAssumption, FS_Interval
<1>3. IsFiniteSet(Calls \X (0..(Attempts - 1)))
  BY <1>1, <1>2, FS_Product
<1> QED
  BY <1>3, FS_Subset DEF Left

\* Calls that each have at most Attempts attempts have at most so many left together.
LEMMA AttemptsPerCall ==
  ASSUME NEW S, S \subseteq Calls \X (0..(Attempts - 1)), NEW C, C \subseteq Calls,
         \A c \in S : c[1] \in C
  PROVE  Cardinality(S) \in Nat /\ Cardinality(S) <= Attempts * Cardinality(C)
<1>1. IsFiniteSet(C)
  <2>1. C \subseteq Runs \X Domains
    BY DEF Calls
  <2> QED
    BY <2>1, CallsAreFinite, FS_Subset
<1>2. IsFiniteSet(0..(Attempts - 1)) /\ Cardinality(0..(Attempts - 1)) = Attempts
  BY PolicyAssumption, FS_Interval
<1>3. /\ IsFiniteSet(C \X (0..(Attempts - 1)))
      /\ Cardinality(C \X (0..(Attempts - 1))) = Cardinality(C) * Attempts
  BY <1>1, <1>2, FS_Product
<1>4. S \subseteq C \X (0..(Attempts - 1))
  OBVIOUS
<1>5. IsFiniteSet(S) /\ Cardinality(S) <= Cardinality(C) * Attempts
  BY <1>3, <1>4, FS_Subset
<1>6. Cardinality(S) \in Nat /\ Cardinality(C) \in Nat
  BY <1>1, <1>5, FS_CardinalityType
<1> QED
  BY <1>5, <1>6, PolicyAssumption

LEMMA FewerLeft ==
  ASSUME NEW S, S \subseteq Left
  PROVE  Cardinality(S) \in Nat /\ Cardinality(S) <= Cardinality(Left)
  BY LeftIsFinite, FS_Subset, FS_CardinalityType

LEMMA OneFewerLeft ==
  ASSUME NEW c \in Left, NEW S, S \subseteq Left \ {c}
  PROVE  /\ Cardinality(S) \in Nat /\ Cardinality(Left) \in Nat
         /\ Cardinality(S) + 1 <= Cardinality(Left)
<1>1. IsFiniteSet(Left \ {c}) /\ Cardinality(Left \ {c}) = Cardinality(Left) - 1
  BY LeftIsFinite, FS_RemoveElement
<1>2. IsFiniteSet(S) /\ Cardinality(S) <= Cardinality(Left \ {c})
  BY <1>1, FS_Subset
<1> QED
  BY <1>1, <1>2, LeftIsFinite, FS_CardinalityType

\* Where no call is added and none has more attempts left, the bound stays.
LEMMA TrafficStays ==
  ASSUME TypeOK, TrafficInv, UNCHANGED <<breaker, flight, burst>>, Left' \subseteq Left
  PROVE  TrafficInv'
<1>1. Cardinality(Left') \in Nat /\ Cardinality(Left') <= Cardinality(Left)
  BY FewerLeft
<1>2. Cardinality(Left)' = Cardinality(Left')
  OBVIOUS
<1>3. flight \in Nat /\ burst \in Nat /\ Attempts * flight \in Nat /\ Cardinality(Left) \in Nat
  BY PolicyAssumption, LeftIsFinite, FS_CardinalityType DEF TypeOK
<1> QED
  BY <1>1, <1>2, <1>3 DEF TrafficInv

LEMMA TrafficClosed ==
  ASSUME breaker'.opened # "open", Threshold = 0 => breaker'.opened = "no"
  PROVE  TrafficInv'
  BY DEF TrafficInv

LEMMA TrafficKept == ASSUME TypeOK, TrafficInv, [Next]_vars PROVE TrafficInv'
<1>0. worker \in [Runs \X Domains -> WorkerType]
  BY DEF TypeOK, WorkerType
<1>1. ASSUME NEW r \in Runs, NEW q \in Questions[r], Start(r, q) PROVE TrafficInv'
  <2>1. Left' \subseteq Left
    BY <1>0, <1>1 DEF Start, Left, Calls, Entering
  <2> QED
    BY <1>1, <2>1, TrafficStays DEF Start
<1>2. ASSUME NEW r \in Runs, NEW d \in Domains, Refused(r, d) PROVE TrafficInv'
  <2>1. Recorded(r, d, "circuit_open").pc # "call"
    BY DEF Recorded, Entering
  <2>2. worker' = [worker EXCEPT ![<<r, d>>] = Recorded(r, d, "circuit_open")]
    BY <1>2 DEF Refused, End
  <2>3. Left' \subseteq Left
    BY <1>0, <2>1, <2>2 DEF Left, Calls
  <2> QED
    BY <1>2, <2>3, TrafficStays DEF Refused
<1>3. ASSUME NEW r \in Runs, NEW d \in Domains, Admitted(r, d) PROVE TrafficInv'
  <2>1. breaker' = HalfOpened(breaker) /\ ~IsOpen(breaker)
    BY <1>3 DEF Admitted
  <2>2. breaker.opened # "open"
    BY <2>1, PolicyAssumption DEF IsOpen, TrafficInv
  <2>3. breaker' = Closed \/ breaker' = breaker
    BY <2>1 DEF HalfOpened
  <2>4. Threshold = 0 => breaker.opened = "no"
    BY DEF TrafficInv
  <2>5. breaker'.opened # "open" /\ (Threshold = 0 => breaker'.opened = "no")
    BY <2>2, <2>3, <2>4 DEF Closed
  <2> QED
    BY <2>5, TrafficClosed
<1>4. ASSUME NEW r \in Runs, NEW d \in Domains, NEW status \in {"good", "weak"},
             Succeeds(r, d, status)
      PROVE  TrafficInv'
  BY <1>4, TrafficClosed DEF Succeeds, RecordSuccess, Closed
<1>5. ASSUME NEW r \in Runs, NEW d \in Domains, Retries(r, d) PROVE TrafficInv'
  <2>1. CASE breaker.opened # "open"
    BY <1>5, <2>1, TrafficClosed DEF Retries, TrafficInv
  <2>2. CASE breaker.opened = "open"
    <3>1. flight' = flight /\ burst' = burst + 1 /\ breaker' = breaker
      BY <1>5, <2>2 DEF Retries, Witness
    <3> DEFINE w == worker[<<r, d>>]
               more == Entering("call", w.attempts + 1, w.results)
               spent == <<<<r, d>>, w.attempts>>
    <3>2. worker' = [worker EXCEPT ![<<r, d>>] = more] /\ w.pc = "call"
      BY <1>5 DEF Retries
    <3>3. w.attempts \in 0..(Attempts - 1) /\ <<r, d>> \in Runs \X Domains
      BY <1>0 DEF WorkerType
    <3>4. spent \in Left
      BY <3>2, <3>3, PolicyAssumption DEF Left, Calls
    <3>5. more.pc = "call" /\ more.attempts = w.attempts + 1
      BY DEF Entering
    <3>6. Left' \subseteq Left \ {spent}
      <4> SUFFICES ASSUME NEW c \in Left' PROVE c \in Left /\ c # spent
        OBVIOUS
      <4>1. /\ c \in (Runs \X Domains) \X (0..(Attempts - 1)) /\ worker'[c[1]].pc = "call"
            /\ worker'[c[1]].attempts <= c[2]
        BY DEF Left, Calls
      <4>2. CASE c[1] = <<r, d>>
        <5>1. worker'[c[1]] = more
          BY <1>0, <3>2, <3>3, <4>2
        <5>2. w.attempts + 1 <= c[2] /\ w.attempts <= c[2]
          BY <3>3, <3>5, <4>1, <5>1, PolicyAssumption
        <5>3. c # spent
          BY <3>3, <5>2, PolicyAssumption
        <5> QED
          BY <3>2, <3>3, <4>1, <4>2, <5>2, <5>3 DEF Left, Calls
      <4>3. CASE c[1] # <<r, d>>
        <5>1. worker'[c[1]] = worker[c[1]]
          BY <1>0, <3>2, <4>1, <4>3
        <5> QED
          BY <4>1, <4>3, <5>1 DEF Left, Calls
      <4> QED
        BY <4>2, <4>3
    <3> HIDE DEF spent
    <3>7. /\ Cardinality(Left') \in Nat /\ Cardinality(Left) \in Nat
          /\ Cardinality(Left') + 1 <= Cardinality(Left)
      BY <3>4, <3>6, OneFewerLeft
    <3>8. flight \in Nat /\ burst \in Nat /\ Attempts * flight \in Nat
      BY PolicyAssumption DEF TypeOK
    <3>9. burst + Cardinality(Left) <= Attempts * flight
      BY <2>2 DEF TrafficInv
    <3>10. burst' + Cardinality(Left') <= Attempts * flight'
      BY <3>1, <3>7, <3>8, <3>9
    <3> QED
      BY <3>1, <3>10 DEF TrafficInv
  <2> QED
    BY <2>1, <2>2
<1>6. ASSUME NEW r \in Runs, NEW d \in Domains, GivesUp(r, d) PROVE TrafficInv'
  <2>1. /\ worker[<<r, d>>].pc = "call" /\ worker[<<r, d>>].attempts + 1 >= Attempts
        /\ breaker' = RecordFailure(breaker) /\ Witness(r, d)
        /\ worker' = [worker EXCEPT ![<<r, d>>] = Recorded(r, d, "failed")]
    <3>1. worker[<<r, d>>].attempts \in 0..(Attempts - 1)
      BY <1>0 DEF WorkerType
    <3> QED
      BY <1>6, <3>1, PolicyAssumption DEF GivesUp, MayRetry, End
  <2>2. Recorded(r, d, "failed").pc # "call"
    BY DEF Recorded, Entering
  <2>3. Left' \subseteq Left /\ \A c \in Left' : c[1] # <<r, d>>
    BY <1>0, <2>1, <2>2 DEF Left, Calls
  <2>4. CASE Threshold = 0
    BY <2>1, <2>4, TrafficClosed DEF TrafficInv, RecordFailure
  <2>5. CASE breaker'.opened # "open" /\ Threshold # 0
    BY <2>5, TrafficClosed
  <2>6. CASE breaker'.opened = "open" /\ breaker.opened = "open" /\ Threshold # 0
    <3>1. flight' = flight /\ burst' = burst + 1
      BY <2>1, <2>6 DEF Witness
    <3> DEFINE spent == <<<<r, d>>, worker[<<r, d>>].attempts>>
    <3>2. spent \in Left
      <4>1. worker[<<r, d>>].attempts \in 0..(Attempts - 1) /\ <<r, d>> \in Runs \X Domains
        BY <1>0 DEF WorkerType
      <4> QED
        BY <2>1, <4>1, PolicyAssumption DEF Left, Calls
    <3>3. Left' \subseteq Left \ {spent}
      BY <2>3
    <3> HIDE DEF spent
    <3>4. /\ Cardinality(Left') \in Nat /\ Cardinality(Left) \in Nat
          /\ Cardinality(Left') + 1 <= Cardinality(Left)
      BY <3>2, <3>3, OneFewerLeft
    <3>5. flight \in Nat /\ burst \in Nat /\ Attempts * flight \in Nat
      BY PolicyAssumption DEF TypeOK
    <3>6. burst + Cardinality(Left) <= Attempts * flight
      BY <2>6 DEF TrafficInv
    <3>7. burst' + Cardinality(Left') <= Attempts * flight'
      BY <3>1, <3>4, <3>5, <3>6
    <3> QED
      BY <2>6, <3>7 DEF TrafficInv
  <2>7. CASE breaker'.opened = "open" /\ breaker.opened # "open" /\ Threshold # 0
    <3>1. flight' = Cardinality(Calls \ {<<r, d>>}) /\ burst' = 0
      BY <2>1, <2>7 DEF Witness
    <3>2. Left' \subseteq Calls \X (0..(Attempts - 1)) /\ \A c \in Left' : c[1] \in Calls \ {<<r, d>>}
      BY <2>3 DEF Left
    <3>3. /\ Cardinality(Left') \in Nat
          /\ Cardinality(Left') <= Attempts * Cardinality(Calls \ {<<r, d>>})
      BY <3>2, AttemptsPerCall
    <3>4. burst' + Cardinality(Left') <= Attempts * flight'
      BY <3>1, <3>3
    <3> QED
      BY <2>7, <3>4 DEF TrafficInv
  <2> QED
    BY <2>4, <2>5, <2>6, <2>7
<1>7. CASE UNCHANGED <<worker, breaker, flight, burst>>
  <2>1. Left' = Left
    BY <1>7 DEF Left, Calls
  <2> QED
    BY <1>7, <2>1, TrafficStays
<1>8. ASSUME NEW r \in Runs, Finish(r) PROVE TrafficInv'
  BY <1>7, <1>8 DEF Finish
<1>9. ASSUME Cools PROVE TrafficInv'
  BY <1>9, TrafficClosed, PolicyAssumption DEF Cools, TrafficInv
<1>10. ASSUME UNCHANGED vars PROVE TrafficInv'
  BY <1>7, <1>10 DEF vars
<1> QED
  BY <1>1, <1>2, <1>3, <1>4, <1>5, <1>6, <1>8, <1>9, <1>10 DEF Next, Works

\* OpenStopsTraffic, for every number of runs and attempts: the bound counts the attempts
\* that the calls under way had left when the breaker opened.
THEOREM BreakerStopsTraffic == Spec => []OpenStopsTraffic
<1>1. Init => TypeOK /\ TrafficInv
  BY InitIsTyped DEF Init, Closed, TrafficInv
<1>2. TypeOK /\ TrafficInv /\ [Next]_vars => (TypeOK /\ TrafficInv)'
  BY StepKeepsTypes, TrafficKept
<1>3. TypeOK /\ TrafficInv => OpenStopsTraffic
  <2> SUFFICES ASSUME TypeOK, TrafficInv, breaker.opened = "open"
               PROVE  burst <= Attempts * flight
    BY DEF OpenStopsTraffic
  <2>1. Cardinality(Left) \in Nat /\ burst \in Nat /\ Attempts * flight \in Nat
    BY LeftIsFinite, FS_CardinalityType, PolicyAssumption DEF TypeOK
  <2> QED
    BY <2>1 DEF TrafficInv
<1> QED
  BY <1>1, <1>2, <1>3, PTL DEF Spec

-----------------------------------------------------------------------------
(* Sequences without repetition                                                 *)

Distinct(s) == \A i, j \in 1..Len(s) : s[i] = s[j] => i = j

LEMMA ConcatOfDistinct ==
  ASSUME NEW U, NEW s \in Seq(U), NEW t \in Seq(U)
  PROVE  /\ s \o t \in Seq(U) /\ Len(s \o t) = Len(s) + Len(t)
         /\ Listed(s \o t) = Listed(s) \cup Listed(t)
         /\ Distinct(s) /\ Distinct(t) /\ Listed(s) \cap Listed(t) = {} => Distinct(s \o t)
<1>1. /\ s \o t \in Seq(U) /\ Len(s \o t) = Len(s) + Len(t)
      /\ Len(s) \in Nat /\ Len(t) \in Nat
      /\ \A i \in 1..Len(s) : (s \o t)[i] = s[i]
      /\ \A i \in 1..Len(t) : (s \o t)[Len(s) + i] = t[i]
  OBVIOUS
<1>2. ASSUME NEW i \in 1..Len(s \o t)
      PROVE  \/ i \in 1..Len(s) /\ (s \o t)[i] = s[i]
             \/ i - Len(s) \in 1..Len(t) /\ (s \o t)[i] = t[i - Len(s)]
  BY <1>1
<1>3. Listed(s \o t) \subseteq Listed(s) \cup Listed(t)
  BY <1>2 DEF Listed
<1>4. Listed(s) \cup Listed(t) \subseteq Listed(s \o t)
  <2>1. \A i \in 1..Len(s) : i \in 1..Len(s \o t)
    BY <1>1
  <2>2. \A i \in 1..Len(t) : Len(s) + i \in 1..Len(s \o t)
    BY <1>1
  <2> QED
    BY <1>1, <2>1, <2>2 DEF Listed
<1>5. ASSUME Distinct(s), Distinct(t), Listed(s) \cap Listed(t) = {} PROVE Distinct(s \o t)
  <2> SUFFICES ASSUME NEW i \in 1..Len(s \o t), NEW j \in 1..Len(s \o t),
                      (s \o t)[i] = (s \o t)[j]
               PROVE  i = j
    BY DEF Distinct
  <2>1. CASE i \in 1..Len(s) /\ j \in 1..Len(s)
    BY <1>1, <1>5, <2>1 DEF Distinct
  <2>2. CASE i - Len(s) \in 1..Len(t) /\ j - Len(s) \in 1..Len(t)
    <3>1. (s \o t)[i] = t[i - Len(s)] /\ (s \o t)[j] = t[j - Len(s)]
      BY <1>1, <2>2
    <3>2. i - Len(s) = j - Len(s)
      BY <1>5, <2>2, <3>1 DEF Distinct
    <3> QED
      BY <1>1, <3>2
  <2>3. \A k \in 1..Len(s), l \in 1..Len(t) : s[k] # t[l]
    BY <1>5 DEF Listed
  <2>4. CASE i \in 1..Len(s) /\ j - Len(s) \in 1..Len(t)
    <3>1. (s \o t)[i] = s[i] /\ (s \o t)[j] = t[j - Len(s)]
      BY <1>1, <2>4
    <3> QED
      BY <2>3, <2>4, <3>1
  <2>5. CASE j \in 1..Len(s) /\ i - Len(s) \in 1..Len(t)
    <3>1. (s \o t)[j] = s[j] /\ (s \o t)[i] = t[i - Len(s)]
      BY <1>1, <2>5
    <3> QED
      BY <2>3, <2>5, <3>1
  <2> QED
    BY <1>2, <2>1, <2>2, <2>4, <2>5
<1> QED
  BY <1>1, <1>3, <1>4, <1>5

\* The names of profiles and dimensions.
Names == {"primary", "generic", "hotel", "flight", "reimbursement", "room_rate_standard",
          "breakfast_allowance", "invoice_tax", "weekend_stay_justification",
          "booking_channel_compliance", "cabin_policy", "approval_requirement",
          "change_refund_policy", "allowance_policy", "supporting_documents"}

\* A list of some of these names, none of them twice.
Selects(s, names) == s \in Seq(Names) /\ Distinct(s) /\ Listed(s) \subseteq names

LEMMA OneIsSelected ==
  ASSUME NEW x \in Names
  PROVE  Selects(<<x>>, {x}) /\ Listed(<<x>>) = {x}
<1>1. Len(<<x>>) = 1 /\ <<x>>[1] = x /\ <<x>> \in Seq(Names) /\ 1..1 = {1}
  OBVIOUS
<1>2. Listed(<<x>>) = {x}
  BY <1>1 DEF Listed
<1> QED
  BY <1>1, <1>2 DEF Distinct, Selects

\* One more name, if it is asked for and not there yet, at the end of the list.
LEMMA OneMore ==
  ASSUME NEW s, NEW names, Selects(s, names), NEW x \in Names, x \notin names, NEW S
  PROVE  Selects(s \o OneIfIn(x, S), names \cup {x})
<1>0. s \in Seq(Names) /\ Distinct(s) /\ Listed(s) \subseteq names
  BY DEF Selects
<1>1. CASE x \in S
  <2> DEFINE one == <<x>>
  <2>1. one \in Seq(Names) /\ Distinct(one) /\ Listed(one) = {x}
    BY OneIsSelected DEF Selects
  <2>2. OneIfIn(x, S) = one
    BY <1>1 DEF OneIfIn
  <2> HIDE DEF one
  <2>3. s \o one \in Seq(Names) /\ Listed(s \o one) = Listed(s) \cup {x}
    BY <1>0, <2>1, ConcatOfDistinct
  <2>4. Distinct(s \o one)
    <3>1. Listed(s) \cap Listed(one) = {}
      BY <1>0, <2>1
    <3> QED
      BY <1>0, <2>1, <3>1, ConcatOfDistinct
  <2> QED
    BY <1>0, <2>2, <2>3, <2>4 DEF Selects
<1>2. CASE x \notin S
  <2>1. s \o OneIfIn(x, S) = s
    BY <1>0, <1>2 DEF OneIfIn
  <2> QED
    BY <1>0, <1>2, <2>1 DEF Selects
<1> QED
  BY <1>1, <1>2

LEMMA OneMoreListed ==
  ASSUME NEW s \in Seq(Names), NEW x \in Names, NEW S
  PROVE  /\ s \o OneIfIn(x, S) \in Seq(Names)
         /\ Listed(s \o OneIfIn(x, S)) = Listed(s) \cup (IF x \in S THEN {x} ELSE {})
<1>1. CASE x \in S
  <2> DEFINE one == <<x>>
  <2>1. one \in Seq(Names) /\ Listed(one) = {x}
    BY OneIsSelected DEF Selects
  <2>3. OneIfIn(x, S) = one
    BY <1>1 DEF OneIfIn
  <2> HIDE DEF one
  <2>2. s \o one \in Seq(Names) /\ Listed(s \o one) = Listed(s) \cup Listed(one)
    BY <2>1, ConcatOfDistinct
  <2> QED
    BY <1>1, <2>1, <2>2, <2>3
<1>2. CASE x \notin S
  BY <1>2 DEF OneIfIn
<1> QED
  BY <1>1, <1>2

\* The plan holds every profile of a set, and no other.
LEMMA InOrderLists ==
  ASSUME NEW S \in SUBSET Domains
  PROVE  InOrder(S) \in Seq(Names) /\ Listed(InOrder(S)) = S
<1> DEFINE none == <<>>
           g == none \o OneIfIn("generic", S)
           h == g \o OneIfIn("hotel", S)
           f == h \o OneIfIn("flight", S)
           m == f \o OneIfIn("reimbursement", S)
           In(d) == IF d \in S THEN {d} ELSE {}
<1>1. Domains = {"hotel", "flight", "reimbursement", "generic"} /\ Domains \subseteq Names
  BY DEF Domains, Dimensions, Names
<1>2. none \in Seq(Names) /\ Listed(none) = {}
  BY DEF Listed
<1>3. InOrder(S) = m
  <2>1. none \o OneIfIn("generic", S) = OneIfIn("generic", S)
    BY DEF OneIfIn
  <2> QED
    BY <2>1 DEF InOrder
<1> HIDE DEF none
<1>4. g \in Seq(Names) /\ Listed(g) = Listed(none) \cup In("generic")
  BY <1>1, <1>2, OneMoreListed
<1> HIDE DEF g
<1>5. h \in Seq(Names) /\ Listed(h) = Listed(g) \cup In("hotel")
  BY <1>1, <1>4, OneMoreListed
<1> HIDE DEF h
<1>6. f \in Seq(Names) /\ Listed(f) = Listed(h) \cup In("flight")
  BY <1>1, <1>5, OneMoreListed
<1> HIDE DEF f
<1>7. m \in Seq(Names) /\ Listed(m) = Listed(f) \cup In("reimbursement")
  BY <1>1, <1>6, OneMoreListed
<1> HIDE DEF m
<1>8. Listed(m) = S
  <2>1. Listed(m) = In("generic") \cup In("hotel") \cup In("flight") \cup In("reimbursement")
    BY <1>2, <1>4, <1>5, <1>6, <1>7
  <2>2. S \subseteq Listed(m)
    BY <1>1, <2>1
  <2>3. Listed(m) \subseteq S
    BY <2>1
  <2> QED
    BY <2>2, <2>3
<1> QED
  BY <1>3, <1>7, <1>8

\* The dimensions that a profile asks are different from each other.
LEMMA RequiredDiffer ==
  ASSUME NEW q \in AllQuestions, NEW d \in Domains
  PROVE  /\ Required[q][d] \in Seq(Names) /\ Distinct(Required[q][d])
         /\ "primary" \notin Listed(Required[q][d])
<1> DEFINE asked == {t[2] : t \in {u \in q.topics : u[1] = d}}
<1>1. Domains = {"hotel", "flight", "reimbursement", "generic"}
  BY DEF Domains, Dimensions
<1>2. CASE d = "hotel"
  <2> DEFINE s0 == <<"room_rate_standard">>
             n0 == {"room_rate_standard"}
             s1 == s0 \o OneIfIn("breakfast_allowance", asked)
             n1 == n0 \cup {"breakfast_allowance"}
             s2 == s1 \o OneIfIn("invoice_tax", asked)
             n2 == n1 \cup {"invoice_tax"}
             s3 == s2 \o OneIfIn("weekend_stay_justification", asked)
             n3 == n2 \cup {"weekend_stay_justification"}
             s4 == s3 \o OneIfIn("booking_channel_compliance", asked)
             n4 == n3 \cup {"booking_channel_compliance"}
  <2>1. Required[q][d] = s4
    BY <1>2 DEF Required
  <2>2. Selects(s0, n0)
    BY OneIsSelected DEF Names
  <2> HIDE DEF asked, s0
  <2>3. Selects(s1, n1)
    BY <2>2, OneMore DEF Names
  <2> HIDE DEF s1
  <2>4. Selects(s2, n2)
    BY <2>3, OneMore DEF Names
  <2> HIDE DEF s2
  <2>5. Selects(s3, n3)
    BY <2>4, OneMore DEF Names
  <2> HIDE DEF s3
  <2>6. Selects(s4, n4)
    BY <2>5, OneMore DEF Names
  <2> HIDE DEF s4
  <2>7. "primary" \notin n4
    OBVIOUS
  <2> QED
    BY <2>1, <2>6, <2>7 DEF Selects
<1>3. CASE d = "flight"
  <2> DEFINE s0 == <<"cabin_policy">>
             n0 == {"cabin_policy"}
             s1 == s0 \o OneIfIn("approval_requirement", asked)
             n1 == n0 \cup {"approval_requirement"}
             s2 == s1 \o OneIfIn("change_refund_policy", asked)
             n2 == n1 \cup {"change_refund_policy"}
             s3 == s2 \o OneIfIn("booking_channel_compliance", asked)
             n3 == n2 \cup {"booking_channel_compliance"}
  <2>1. Required[q][d] = s3
    BY <1>3 DEF Required
  <2>2. Selects(s0, n0)
    BY OneIsSelected DEF Names
  <2> HIDE DEF asked, s0
  <2>3. Selects(s1, n1)
    BY <2>2, OneMore DEF Names
  <2> HIDE DEF s1
  <2>4. Selects(s2, n2)
    BY <2>3, OneMore DEF Names
  <2> HIDE DEF s2
  <2>5. Selects(s3, n3)
    BY <2>4, OneMore DEF Names
  <2> HIDE DEF s3
  <2>6. "primary" \notin n3
    OBVIOUS
  <2> QED
    BY <2>1, <2>5, <2>6 DEF Selects
<1>4. CASE d = "reimbursement"
  <2> DEFINE s0 == <<"invoice_tax">>
             n0 == {"invoice_tax"}
             s1 == s0 \o OneIfIn("approval_requirement", asked)
             n1 == n0 \cup {"approval_requirement"}
             s2 == s1 \o OneIfIn("allowance_policy", asked)
             n2 == n1 \cup {"allowance_policy"}
             s3 == s2 \o OneIfIn("supporting_documents", asked)
             n3 == n2 \cup {"supporting_documents"}
  <2>1. Required[q][d] = s3
    BY <1>4 DEF Required
  <2>2. Selects(s0, n0)
    BY OneIsSelected DEF Names
  <2> HIDE DEF asked, s0
  <2>3. Selects(s1, n1)
    BY <2>2, OneMore DEF Names
  <2> HIDE DEF s1
  <2>4. Selects(s2, n2)
    BY <2>3, OneMore DEF Names
  <2> HIDE DEF s2
  <2>5. Selects(s3, n3)
    BY <2>4, OneMore DEF Names
  <2> HIDE DEF s3
  <2>6. "primary" \notin n3
    OBVIOUS
  <2> QED
    BY <2>1, <2>5, <2>6 DEF Selects
<1>5. CASE d = "generic"
  <2>1. Required[q][d] = <<>>
    BY <1>5 DEF Required
  <2> QED
    BY <2>1 DEF Distinct, Listed
<1> QED
  BY <1>1, <1>2, <1>3, <1>4, <1>5

\* A worker asks different questions: the first one, and one for each dimension.
LEMMA SubquestionsDiffer ==
  ASSUME NEW q \in AllQuestions, NEW d \in Domains
  PROVE  /\ Subquestions(q, d) \in Seq(Names) /\ Distinct(Subquestions(q, d))
         /\ \A i \in 2..Len(Subquestions(q, d)) :
              Subquestions(q, d)[i] \in Listed(Required[q][d])
<1> DEFINE s == Required[q][d]
           one == <<"primary">>
<1>1. s \in Seq(Names) /\ Distinct(s) /\ "primary" \notin Listed(s)
  BY RequiredDiffer
<1>2. one \in Seq(Names) /\ Distinct(one) /\ Listed(one) = {"primary"} /\ Len(one) = 1
  BY OneIsSelected DEF Selects, Names
<1>3. Subquestions(q, d) = one \o s
  BY DEF Subquestions
<1> HIDE DEF s, one
<1>4. Listed(one) \cap Listed(s) = {}
  BY <1>1, <1>2
<1>5. one \o s \in Seq(Names) /\ Distinct(one \o s)
  BY <1>1, <1>2, <1>4, ConcatOfDistinct
<1>b. Len(s) \in Nat
  BY <1>1
<1>c. Len(one \o s) = Len(one) + Len(s)
  BY <1>1, <1>2, ConcatOfDistinct
<1>a. Len(one \o s) = Len(one) + Len(s) /\ Len(s) \in Nat
  BY <1>b, <1>c
<1>6. ASSUME NEW i \in 2..Len(one \o s) PROVE (one \o s)[i] \in Listed(s)
  <2>2. i - 1 \in 1..Len(s) /\ (one \o s)[i] = s[i - 1]
    BY <1>1, <1>2, <1>a
  <2> QED
    BY <2>2 DEF Listed
<1> QED
  BY <1>3, <1>5, <1>6 DEF s

-----------------------------------------------------------------------------
(* The answer is whole                                                          *)

\* A worker belongs to a planned profile, has asked no more than its questions, and has
\* handed in its report when it has asked them all.
Working(r, d) ==
  worker[<<r, d>>].pc # "none" =>
    /\ question[r] # NoQuestion /\ d \in Planned(r)
    /\ worker[<<r, d>>].pc # "done" =>
         Len(worker[<<r, d>>].results) < Len(Subquestions(question[r], d))
    /\ worker[<<r, d>>].pc = "done" =>
         /\ Len(worker[<<r, d>>].results) = Len(Subquestions(question[r], d))
         /\ d \in Listed(arrived[r])

\* What the supervisor returned is the serial loop's, made of the final results.
Concluding(r) ==
  final[r].done =>
    /\ question[r] # NoQuestion /\ Joined(r)
    /\ final[r].reports = SerialReports(r)
    /\ final[r].interrupt <=>
         \E i \in 1..Len(SerialReports(r)) : SerialReports(r)[i].missing # {}

AnswerInv == \A r \in Runs : Concluding(r) /\ \A d \in Domains : Working(r, d)

LEMMA ChosenAreDomains ==
  ASSUME NEW r \in Runs, NEW q \in Questions[r]
  PROVE  /\ q \in AllQuestions /\ Chosen(q) \in SUBSET Domains
         /\ q.matches \subseteq Chosen(q) \ {"generic"}
<1>1. q.matches \subseteq DOMAIN Dimensions
  BY PolicyAssumption
<1>2. q \in AllQuestions
  BY DEF AllQuestions
<1>3. DOMAIN Dimensions = {"hotel", "flight", "reimbursement"}
  BY DEF Dimensions
<1> QED
  BY <1>1, <1>2, <1>3 DEF Chosen, Domains

\* What a worker's step does: it asks on, or calls, or records a result.
LEMMA WorkerSteps ==
  ASSUME TypeOK, NEW r \in Runs, NEW d \in Domains, Works(r, d)
  PROVE  /\ worker[<<r, d>>].pc \in {"ask", "call"}
         /\ UNCHANGED <<question, final>>
         /\ \A c \in (Runs \X Domains) \ {<<r, d>>} : worker'[c] = worker[c]
         /\ \A o \in Runs \ {r} : arrived'[o] = arrived[o]
         /\ \/ /\ worker'[<<r, d>>].pc = "call" /\ arrived'[r] = arrived[r]
               /\ worker'[<<r, d>>].results = worker[<<r, d>>].results
            \/ \E status \in Statuses :
                 /\ worker'[<<r, d>>] = Recorded(r, d, status)
                 /\ arrived'[r] = Arrivals(r, d, Recorded(r, d, status))
<1> DEFINE Does ==
      /\ \A c \in (Runs \X Domains) \ {<<r, d>>} : worker'[c] = worker[c]
      /\ \A o \in Runs \ {r} : arrived'[o] = arrived[o]
      /\ \/ /\ worker'[<<r, d>>].pc = "call" /\ arrived'[r] = arrived[r]
            /\ worker'[<<r, d>>].results = worker[<<r, d>>].results
         \/ \E status \in Statuses :
              /\ worker'[<<r, d>>] = Recorded(r, d, status)
              /\ arrived'[r] = Arrivals(r, d, Recorded(r, d, status))
<1>1. /\ worker \in [Runs \X Domains -> WorkerType] /\ DOMAIN arrived = Runs
      /\ <<r, d>> \in Runs \X Domains
  BY DEF TypeOK, WorkerType
<1>2. ASSUME NEW status \in Statuses, End(r, d, status) PROVE Does
  BY <1>1, <1>2 DEF End
<1>3. ASSUME Refused(r, d) PROVE Does
  BY <1>2, <1>3 DEF Refused, Statuses
<1>4. ASSUME Admitted(r, d) PROVE Does
  <2>1. worker'[<<r, d>>] = Entering("call", 0, worker[<<r, d>>].results)
    BY <1>1, <1>4 DEF Admitted
  <2>2. \A c \in (Runs \X Domains) \ {<<r, d>>} : worker'[c] = worker[c]
    BY <1>1, <1>4 DEF Admitted
  <2> QED
    BY <1>4, <2>1, <2>2 DEF Admitted, Entering
<1>5. ASSUME NEW status \in {"good", "weak"}, Succeeds(r, d, status) PROVE Does
  BY <1>2, <1>5 DEF Succeeds, Statuses
<1>6. ASSUME Retries(r, d) PROVE Does
  <2>1. worker'[<<r, d>>] =
          Entering("call", worker[<<r, d>>].attempts + 1, worker[<<r, d>>].results)
    BY <1>1, <1>6 DEF Retries
  <2>2. \A c \in (Runs \X Domains) \ {<<r, d>>} : worker'[c] = worker[c]
    BY <1>1, <1>6 DEF Retries
  <2> QED
    BY <1>6, <2>1, <2>2 DEF Retries, Entering
<1>7. ASSUME GivesUp(r, d) PROVE Does
  BY <1>2, <1>7 DEF GivesUp, Statuses
<1>8. Does
  BY <1>3, <1>4, <1>5, <1>6, <1>7 DEF Works
<1>9. worker[<<r, d>>].pc \in {"ask", "call"} /\ UNCHANGED <<question, final>>
  BY DEF Works, Refused, Admitted, Succeeds, Retries, GivesUp
<1> QED
  BY <1>8, <1>9

\* The reports of a run follow from its question and its workers' results.
LEMMA ReportsStay ==
  ASSUME NEW r \in Runs, question[r] \in Questions[r], question'[r] = question[r],
         \A d \in Domains : worker'[<<r, d>>] = worker[<<r, d>>]
  PROVE  SerialReports(r)' = SerialReports(r) /\ (Joined(r)' <=> Joined(r))
<1>1. /\ question[r] \in AllQuestions /\ Chosen(question[r]) \in SUBSET Domains
  BY ChosenAreDomains
<1>2. PICK plan \in Seq(Names) : plan = Plan(question[r]) /\ Listed(plan) \subseteq Domains
  BY <1>1, InOrderLists DEF Plan
<1>3. Plan(question[r])' = plan
  BY <1>2 DEF Plan
<1>4. \A i \in 1..Len(plan) : plan[i] \in Domains
  BY <1>2 DEF Listed
<1>5. ASSUME NEW d \in Domains PROVE Report(r, d)' = Report(r, d)
  <2>1. worker'[<<r, d>>] = worker[<<r, d>>]
    OBVIOUS
  <2> QED
    BY <2>1 DEF Report, Covered
<1>6. SerialReports(r) = [i \in 1..Len(plan) |-> Report(r, plan[i])]
  BY <1>2 DEF SerialReports
<1>7. SerialReports(r)' = [i \in 1..Len(plan) |-> Report(r, plan[i])']
  BY <1>3 DEF SerialReports
<1>8. SerialReports(r)' = SerialReports(r)
  BY <1>4, <1>5, <1>6, <1>7
<1>9. Joined(r)' <=> Joined(r)
  BY <1>1 DEF Joined, Planned
<1> QED
  BY <1>8, <1>9

LEMMA WorkingStays ==
  ASSUME NEW r \in Runs, NEW d \in Domains, Working(r, d), question'[r] = question[r],
         worker'[<<r, d>>] = worker[<<r, d>>], Listed(arrived[r]) \subseteq Listed(arrived'[r])
  PROVE  Working(r, d)'
<1>1. Listed(arrived[r])' = Listed(arrived'[r])
  OBVIOUS
<1> QED
  BY <1>1 DEF Working, Planned

LEMMA ConcludingStays ==
  ASSUME NEW r \in Runs, question[r] \in Questions[r] \cup {NoQuestion}, Concluding(r),
         question'[r] = question[r], final'[r] = final[r],
         \A d \in Domains : worker'[<<r, d>>] = worker[<<r, d>>]
  PROVE  Concluding(r)'
<1>1. CASE ~final[r].done
  BY <1>1 DEF Concluding
<1>2. CASE final[r].done
  <2>1. question[r] \in Questions[r]
    BY <1>2 DEF Concluding
  <2>2. SerialReports(r)' = SerialReports(r) /\ (Joined(r)' <=> Joined(r))
    BY <2>1, ReportsStay
  <2> QED
    BY <1>2, <2>2 DEF Concluding
<1> QED
  BY <1>1, <1>2

\* A list that grows keeps what it lists.
LEMMA AppendLists ==
  ASSUME NEW U, NEW s \in Seq(U), NEW x \in U
  PROVE  Listed(s) \subseteq Listed(Append(s, x)) /\ x \in Listed(Append(s, x))
<1>1. /\ Len(Append(s, x)) = Len(s) + 1 /\ Len(s) \in Nat
      /\ \A i \in 1..Len(s) : Append(s, x)[i] = s[i]
      /\ Append(s, x)[Len(s) + 1] = x
  OBVIOUS
<1>2. \A i \in 1..Len(s) : i \in 1..Len(Append(s, x))
  BY <1>1
<1>3. Len(s) + 1 \in 1..Len(Append(s, x))
  BY <1>1
<1> QED
  BY <1>1, <1>2, <1>3 DEF Listed

LEMMA WorksKeepsAnswers ==
  ASSUME TypeOK, AnswerInv, NEW r \in Runs, NEW d \in Domains, Works(r, d)
  PROVE  AnswerInv'
<1> DEFINE w == worker[<<r, d>>]
<1>1. /\ w.pc \in {"ask", "call"}
      /\ UNCHANGED <<question, final>>
      /\ \A c \in (Runs \X Domains) \ {<<r, d>>} : worker'[c] = worker[c]
      /\ \A o \in Runs \ {r} : arrived'[o] = arrived[o]
      /\ \/ /\ worker'[<<r, d>>].pc = "call" /\ arrived'[r] = arrived[r]
            /\ worker'[<<r, d>>].results = w.results
         \/ \E status \in Statuses :
              /\ worker'[<<r, d>>] = Recorded(r, d, status)
              /\ arrived'[r] = Arrivals(r, d, Recorded(r, d, status))
  BY WorkerSteps
<1>2. /\ question[r] # NoQuestion /\ d \in Planned(r)
      /\ Len(w.results) < Len(Subquestions(question[r], d))
  BY <1>1 DEF AnswerInv, Working
<1>3. w.results \in Seq(Statuses) /\ arrived[r] \in Seq(Domains)
  BY DEF TypeOK
<1>4. Len(Subquestions(question[r], d)) \in Nat
  <2>1. question[r] \in AllQuestions
    BY <1>2, ChosenAreDomains DEF TypeOK
  <2> QED
    BY <2>1, SubquestionsDiffer
<1>5. Working(r, d)' /\ Listed(arrived[r]) \subseteq Listed(arrived'[r])
  <2>1. CASE /\ worker'[<<r, d>>].pc = "call" /\ arrived'[r] = arrived[r]
             /\ worker'[<<r, d>>].results = w.results
    BY <1>1, <1>2, <2>1 DEF Working, Planned
  <2>2. ASSUME NEW status \in Statuses, worker'[<<r, d>>] = Recorded(r, d, status),
               arrived'[r] = Arrivals(r, d, Recorded(r, d, status))
        PROVE  Working(r, d)' /\ Listed(arrived[r]) \subseteq Listed(arrived'[r])
    <3> DEFINE results == Append(w.results, status)
    <3>1. /\ Len(results) = Len(w.results) + 1 /\ Len(w.results) \in Nat
      BY <1>3
    <3>2. /\ worker'[<<r, d>>].results = results
          /\ worker'[<<r, d>>].pc =
               IF Len(results) = Len(Subquestions(question[r], d)) THEN "done" ELSE "ask"
      BY <2>2 DEF Recorded, Entering
    <3>3. CASE Len(results) = Len(Subquestions(question[r], d))
      <4>1. worker'[<<r, d>>].pc = "done"
        BY <3>2, <3>3
      <4>2. arrived'[r] = Append(arrived[r], d)
        BY <2>2, <4>1 DEF Arrivals
      <4>3. Listed(arrived[r]) \subseteq Listed(arrived'[r]) /\ d \in Listed(arrived'[r])
        BY <1>3, <4>2, AppendLists
      <4> QED
        BY <1>1, <1>2, <3>2, <3>3, <4>1, <4>3 DEF Working, Planned
    <3>4. CASE Len(results) # Len(Subquestions(question[r], d))
      <4>1. worker'[<<r, d>>].pc = "ask"
        BY <3>2, <3>4
      <4>2. arrived'[r] = arrived[r]
        BY <2>2, <4>1 DEF Arrivals
      <4>3. Len(results) < Len(Subquestions(question[r], d))
        BY <1>2, <1>4, <3>1, <3>4
      <4> QED
        BY <1>1, <1>2, <3>2, <4>1, <4>2, <4>3 DEF Working, Planned
    <3> QED
      BY <3>3, <3>4
  <2> QED
    BY <1>1, <2>1, <2>2
<1>6. ASSUME NEW o \in Runs, NEW e \in Domains PROVE Working(o, e)'
  <2>1. CASE <<o, e>> = <<r, d>>
    BY <1>5, <2>1
  <2>2. CASE <<o, e>> # <<r, d>>
    <3>1. worker'[<<o, e>>] = worker[<<o, e>>] /\ question'[o] = question[o]
      BY <1>1, <2>2
    <3>2. Listed(arrived[o]) \subseteq Listed(arrived'[o])
      BY <1>1, <1>5
    <3> QED
      BY <3>1, <3>2, WorkingStays DEF AnswerInv
  <2> QED
    BY <2>1, <2>2
<1>7. ASSUME NEW o \in Runs PROVE Concluding(o)'
  <2>1. CASE o = r
    <3>1. ~final[r].done
      BY <1>1, <1>2 DEF AnswerInv, Concluding, Joined
    <3> QED
      BY <1>1, <2>1, <3>1 DEF Concluding
  <2>2. CASE o # r
    <3>1. \A e \in Domains : worker'[<<o, e>>] = worker[<<o, e>>]
      BY <1>1, <2>2
    <3> QED
      BY <1>1, <3>1, ConcludingStays DEF AnswerInv, TypeOK
  <2> QED
    BY <2>1, <2>2
<1> QED
  BY <1>6, <1>7 DEF AnswerInv

LEMMA StartKeepsAnswers ==
  ASSUME TypeOK, AnswerInv, NEW r \in Runs, NEW q \in Questions[r], Start(r, q)
  PROVE  AnswerInv'
<1>1. /\ question[r] = NoQuestion /\ question'[r] = q /\ q # NoQuestion
      /\ \A o \in Runs \ {r} : question'[o] = question[o]
      /\ \A w \in Runs \X Domains :
           worker'[w] = IF w[1] = r /\ w[2] \in Chosen(q) THEN Entering("ask", 0, <<>>)
                                                         ELSE worker[w]
      /\ UNCHANGED <<arrived, final>>
  BY PolicyAssumption DEF Start, TypeOK
<1>2. ASSUME NEW o \in Runs, NEW d \in Domains PROVE Working(o, d)'
  <2>1. CASE o # r
    <3>1. worker'[<<o, d>>] = worker[<<o, d>>] /\ question'[o] = question[o]
      BY <1>1, <2>1
    <3> QED
      BY <1>1, <3>1, WorkingStays DEF AnswerInv
  <2>2. CASE o = r /\ d \in Chosen(q)
    <3>1. worker'[<<r, d>>] = Entering("ask", 0, <<>>)
      BY <1>1, <2>2
    <3>2. Len(Subquestions(q, d)) \in Nat \ {0}
      <4>1. q \in AllQuestions
        BY ChosenAreDomains
      <4>2. <<"primary">> \in Seq(Names) /\ Required[q][d] \in Seq(Names) /\ Len(<<"primary">>) = 1
        BY <4>1, RequiredDiffer DEF Names
      <4>3. Len(<<"primary">> \o Required[q][d]) = Len(<<"primary">>) + Len(Required[q][d])
        BY <4>2, ConcatOfDistinct
      <4> QED
        BY <4>2, <4>3 DEF Subquestions
    <3> QED
      BY <1>1, <2>2, <3>1, <3>2 DEF Working, Planned, Entering
  <2>3. CASE o = r /\ d \notin Chosen(q)
    <3>1. worker'[<<r, d>>] = worker[<<r, d>>]
      BY <1>1, <2>3
    <3>2. worker[<<r, d>>].pc = "none"
      BY <1>1 DEF AnswerInv, Working
    <3> QED
      BY <2>3, <3>1, <3>2 DEF Working
  <2> QED
    BY <2>1, <2>2, <2>3
<1>3. ASSUME NEW o \in Runs PROVE Concluding(o)'
  <2>1. CASE o = r
    <3>1. ~final[r].done
      BY <1>1 DEF AnswerInv, Concluding
    <3> QED
      BY <1>1, <2>1, <3>1 DEF Concluding
  <2>2. CASE o # r
    <3>1. \A d \in Domains : worker'[<<o, d>>] = worker[<<o, d>>]
      BY <1>1, <2>2
    <3>2. question'[o] = question[o] /\ final'[o] = final[o]
      BY <1>1, <2>2
    <3> QED
      BY <3>1, <3>2, ConcludingStays DEF AnswerInv, TypeOK
  <2> QED
    BY <2>1, <2>2
<1> QED
  BY <1>2, <1>3 DEF AnswerInv

\* The reducer's join is the loop's list: every planned profile has reported.
LEMMA FinishKeepsAnswers ==
  ASSUME TypeOK, AnswerInv, NEW r \in Runs, Finish(r)
  PROVE  AnswerInv'
<1>1. /\ question[r] # NoQuestion /\ Joined(r) /\ DOMAIN final = Runs
      /\ UNCHANGED <<question, worker, arrived>>
  BY DEF Finish, TypeOK
<1>2. question[r] \in Questions[r]
  BY <1>1 DEF TypeOK
<1>3. Planned(r) \cap Listed(arrived[r]) = Planned(r)
  <2>1. Planned(r) \subseteq Domains
    BY <1>2, ChosenAreDomains DEF Planned
  <2> QED
    BY <1>1, <2>1 DEF Joined, AnswerInv, Working
<1>4. JoinedReports(r) = SerialReports(r)
  BY <1>3 DEF JoinedReports, SerialReports, Plan, Planned
<1>5. PICK reports : reports = SerialReports(r)
  OBVIOUS
<1>6. final' = [final EXCEPT ![r] =
                  [done |-> TRUE, reports |-> reports,
                   interrupt |-> \E i \in 1..Len(reports) : reports[i].missing # {}]]
  BY <1>4, <1>5 DEF Finish
<1>7. PICK open \in BOOLEAN : open <=> \E i \in 1..Len(reports) : reports[i].missing # {}
  OBVIOUS
<1>8. final' = [final EXCEPT ![r] = [done |-> TRUE, reports |-> reports, interrupt |-> open]]
  BY <1>6, <1>7, Zenon
<1>9. final'[r] = [done |-> TRUE, reports |-> reports, interrupt |-> open]
  BY <1>1, <1>8
<1>10. SerialReports(r)' = SerialReports(r) /\ (Joined(r)' <=> Joined(r))
  BY <1>1, <1>2, ReportsStay
<1>11. Concluding(r)'
  BY <1>1, <1>5, <1>7, <1>9, <1>10 DEF Concluding
<1>12. ASSUME NEW o \in Runs, o # r PROVE Concluding(o)'
  <2>1. final'[o] = final[o]
    BY <1>1, <1>8, <1>12
  <2> QED
    BY <1>1, <2>1, ConcludingStays DEF AnswerInv, TypeOK
<1>13. ASSUME NEW o \in Runs, NEW d \in Domains PROVE Working(o, d)'
  BY <1>1, WorkingStays DEF AnswerInv
<1> QED
  BY <1>11, <1>12, <1>13 DEF AnswerInv

LEMMA AnswersKept == ASSUME TypeOK, AnswerInv, [Next]_vars PROVE AnswerInv'
<1>1. CASE UNCHANGED <<question, worker, arrived, final>>
  <2>1. ASSUME NEW o \in Runs PROVE Concluding(o)'
    BY <1>1, ConcludingStays DEF AnswerInv, TypeOK
  <2>2. ASSUME NEW o \in Runs, NEW d \in Domains PROVE Working(o, d)'
    BY <1>1, WorkingStays DEF AnswerInv
  <2> QED
    BY <2>1, <2>2 DEF AnswerInv
<1>2. CASE Cools \/ UNCHANGED vars
  BY <1>1, <1>2 DEF Cools, vars
<1>3. ASSUME NEW r \in Runs, NEW q \in Questions[r], Start(r, q) PROVE AnswerInv'
  BY <1>3, StartKeepsAnswers
<1>4. ASSUME NEW r \in Runs, NEW d \in Domains, Works(r, d) PROVE AnswerInv'
  BY <1>4, WorksKeepsAnswers
<1>5. ASSUME NEW r \in Runs, Finish(r) PROVE AnswerInv'
  BY <1>5, FinishKeepsAnswers
<1> QED
  BY <1>2, <1>3, <1>4, <1>5 DEF Next

\* A review is spared only by good results for every dimension of every profile.
LEMMA NoGapWithoutReview ==
  ASSUME TypeOK, AnswerInv, NEW r \in Runs, final[r].done, ~final[r].interrupt,
         NEW d \in question[r].matches, NEW i \in 2..Len(Subquestions(question[r], d))
  PROVE  worker[<<r, d>>].results[i] = "good"
<1> DEFINE q == question[r]
<1>1. /\ q \in Questions[r]
      /\ \A k \in 1..Len(SerialReports(r)) : SerialReports(r)[k].missing = {}
  BY DEF AnswerInv, Concluding, TypeOK
<1>2. /\ q \in AllQuestions /\ Chosen(q) \in SUBSET Domains
      /\ q.matches \subseteq Chosen(q) \ {"generic"}
  BY <1>1, ChosenAreDomains
<1>3. PICK plan \in Seq(Names) : plan = Plan(q) /\ Listed(plan) = Chosen(q)
  BY <1>2, InOrderLists DEF Plan
<1>4. PICK k \in 1..Len(plan) : plan[k] = d
  BY <1>2, <1>3 DEF Listed
<1>5. SerialReports(r) = [j \in 1..Len(plan) |-> Report(r, plan[j])]
  BY <1>3 DEF SerialReports
<1>6. Len(SerialReports(r)) = Len(plan) /\ SerialReports(r)[k] = Report(r, d)
  BY <1>3, <1>4, <1>5
<1>7. \A x \in Listed(Required[q][d]) : Covered(r, d, x)
  BY <1>1, <1>4, <1>6 DEF Report
<1>8. /\ Distinct(Subquestions(q, d)) /\ Subquestions(q, d) \in Seq(Names)
      /\ Subquestions(q, d)[i] \in Listed(Required[q][d])
  BY <1>2, SubquestionsDiffer
<1>9. PICK j \in 1..Len(worker[<<r, d>>].results) :
        /\ Subquestions(q, d)[j] = Subquestions(q, d)[i]
        /\ worker[<<r, d>>].results[j] = "good"
  BY <1>7, <1>8 DEF Covered
<1>10. Len(worker[<<r, d>>].results) = Len(Subquestions(q, d))
  BY <1>2 DEF AnswerInv, Concluding, Working, Joined, Planned
<1>11. i \in 1..Len(Subquestions(q, d)) /\ j \in 1..Len(Subquestions(q, d))
  BY <1>8, <1>9, <1>10
<1>12. i = j
  BY <1>8, <1>9, <1>11 DEF Distinct
<1> QED
  BY <1>9, <1>12

\* AnswerIsWhole, for every question, in both modes: what the threads share is joined in
\* the plan's order, and a dimension is covered only by its own search.
THEOREM AnswersAreWhole == Spec => []AnswerIsWhole
<1>1. Init => TypeOK /\ AnswerInv
  BY InitIsTyped DEF Init, AnswerInv, Concluding, Working, Idle, Entering
<1>2. TypeOK /\ AnswerInv /\ [Next]_vars => (TypeOK /\ AnswerInv)'
  BY StepKeepsTypes, AnswersKept
<1>3. TypeOK /\ AnswerInv => AnswerIsWhole
  <2> SUFFICES ASSUME TypeOK, AnswerInv PROVE AnswerIsWhole
    OBVIOUS
  <2>1. AnswerIsCovered
    BY NoGapWithoutReview DEF AnswerIsCovered
  <2>2. ParallelMatchesSerial
    BY DEF AnswerInv, Concluding, ParallelMatchesSerial
  <2> QED
    BY <2>1, <2>2 DEF AnswerIsWhole
<1> QED
  BY <1>1, <1>2, <1>3, PTL DEF Spec

=============================================================================
