---------------------------- MODULE DomainProofs ----------------------------
(***************************************************************************)
(* What internal/domain accepts, for plans, results and graphs of any      *)
(* size: PlanInv, ResultInv and GraphInv are invariants of PlanValidation, *)
(* ResultDecoding and GraphValidation, and each verdict is the one that    *)
(* the definition of what is acceptable gives.                             *)
(***************************************************************************)
EXTENDS
  PlanValidation, ResultDecoding, GraphValidation,
  FiniteSetTheorems, SequenceTheorems, TLAPS

-----------------------------------------------------------------------------
(* Plans *)

(* A sequence has as many elements as members exactly if none is repeated. *)
LEMMA MembersAreCounted ==
  ASSUME NEW S, NEW s \in Seq(S)
  PROVE  Cardinality({s[i] : i \in 1..Len(s)}) = Len(s) <=> NoRepeats(s)
<1> PICK T : T = {s[i] : i \in 1..Len(s)}
  OBVIOUS
<1>1. Len(s) \in Nat /\ s \in [1..Len(s) -> S]
  BY LenProperties
<1>2. \A i \in 1..Len(s) : s[i] \in T
  OBVIOUS
<1>3. s \in [1..Len(s) -> T]
  BY <1>1, <1>2
<1>4. s \in Surjection(1..Len(s), T)
  <2>1. \A t \in T : \E i \in 1..Len(s) : s[i] = t
    OBVIOUS
  <2>2. QED
    BY <1>3, <2>1 DEF Surjection
<1>5. IsFiniteSet(1..Len(s)) /\ Cardinality(1..Len(s)) = Len(s)
  BY <1>1, FS_Interval
<1>6. Cardinality(T) = Len(s) <=> s \in Injection(1..Len(s), T)
  BY <1>4, <1>5, FS_Surjection
<1>7. s \in Injection(1..Len(s), T) <=> \A i, j \in 1..Len(s) : s[i] = s[j] => i = j
  BY <1>3 DEF Injection, IsInjective
<1>8. QED
  BY <1>6, <1>7 DEF NoRepeats

(* The types of a plan. *)
PlanTyped == Len(actions) \in 0..MaxActions /\ actions \in [1..Len(actions) -> Actions]

LEMMA UpToMeans ==
  ASSUME NEW S, NEW n \in Nat, NEW s \in UpTo(n, S)
  PROVE  s \in Seq(S)
BY DEF UpTo

LEMMA ListedMeans ==
  ASSUME PlanTyped
  PROVE  /\ Len(actions) \in Nat /\ actions \in Seq(Actions)
         /\ \A i \in 1..Len(actions) : actions[i] \in Listed
         /\ \A a \in Listed : /\ a.id \in Ids /\ a \in Actions
                              /\ a.dependencies \in Seq(ActionIds)
                              /\ \E i \in 1..Len(actions) : a = actions[i]
         /\ \A id \in Ids : \E a \in Listed : a.id = id
<1>1. Len(actions) \in Nat /\ actions \in Seq(Actions)
  BY PlanAssumptions DEF PlanTyped
<1>2. ASSUME NEW a \in Actions PROVE a.dependencies \in Seq(ActionIds)
  BY PlanAssumptions, UpToMeans DEF Actions
<1>3. QED
  BY <1>1, <1>2 DEF PlanTyped, Listed, Ids

(* What the first two loops check is what a plan needs of its dependencies. *)
LEMMA KnownMeans ==
  ASSUME PlanTyped
  PROVE  DependenciesAreKnown <=>
           /\ Cardinality(Ids) = Len(actions)
           /\ \A a \in Listed :
                /\ WaitsFor(a) \subseteq Ids \ {a.id}
                /\ Cardinality(WaitsFor(a)) = Len(a.dependencies)
<1> PICK s : s = [i \in 1..Len(actions) |-> actions[i].id]
  OBVIOUS
<1>1. s \in Seq(ActionIds) /\ Len(s) = Len(actions) /\ \A i \in 1..Len(s) : s[i] = actions[i].id
  <2>1. \A i \in 1..Len(actions) : actions[i].id \in ActionIds
    BY ListedMeans DEF Actions
  <2>2. QED
    BY <2>1, ListedMeans
<1>2. Ids = {s[i] : i \in 1..Len(s)}
  BY <1>1 DEF Ids, Listed
<1>3. Cardinality(Ids) = Len(actions) <=> NoRepeats(s)
  <2>1. Cardinality({s[i] : i \in 1..Len(s)}) = Len(s) <=> NoRepeats(s)
    BY <1>1, MembersAreCounted
  <2>2. QED
    BY <1>1, <1>2, <2>1
<1>4. ASSUME NEW a \in Listed
      PROVE  Cardinality(WaitsFor(a)) = Len(a.dependencies) <=> NoRepeats(a.dependencies)
  BY ListedMeans, MembersAreCounted DEF WaitsFor
<1>5. QED
  BY <1>3, <1>4 DEF DependenciesAreKnown

(* The map of dependencies, while the plan is walked. *)
LEMMA DependenciesMean ==
  ASSUME PlanTyped, WalkInv
  PROVE  /\ \A a \in Listed : WaitsFor(a) = {dependencies[a.id][j] : j \in 1..Len(dependencies[a.id])}
         /\ \A id \in Ids : /\ Len(dependencies[id]) \in Nat
                            /\ \A j \in 1..Len(dependencies[id]) : dependencies[id][j] \in Ids
<1>1. ASSUME NEW a \in Listed
      PROVE  /\ WaitsFor(a) = {dependencies[a.id][j] : j \in 1..Len(dependencies[a.id])}
             /\ Len(dependencies[a.id]) \in Nat
             /\ \A j \in 1..Len(dependencies[a.id]) : dependencies[a.id][j] \in Ids
  <2>1. dependencies[a.id] = a.dependencies /\ WaitsFor(a) \subseteq Ids
    BY DEF WalkInv, DependenciesAreKnown
  <2>2. Len(a.dependencies) \in Nat
    BY ListedMeans
  <2>3. QED
    BY <2>1, <2>2 DEF WaitsFor
<1>2. QED
  BY <1>1, ListedMeans

-----------------------------------------------------------------------------
(* The verdicts on a plan *)

LEMMA RefusalsAreRight ==
  ASSUME PlanInv, RefuseDependencies
  PROVE  PlanInv'
<1>1. PlanTyped /\ ~CanBeCarriedOut
  BY KnownMeans DEF PlanInv, PlanTyped, RefuseDependencies, CanBeCarriedOut
<1>2. CanBeCarriedOut' <=> CanBeCarriedOut
  BY DEF RefuseDependencies, CanBeCarriedOut, Listed, Ids, WaitsFor, Orderly
<1>3. QED
  BY <1>1, <1>2 DEF PlanInv, RefuseDependencies, PlansCanBeCarriedOut

(* The plan and what its dependencies are stays the same. *)
PlanStays == actions' = actions

LEMMA PlanMeansTheSame ==
  ASSUME PlanStays
  PROVE  /\ Listed' = Listed /\ Ids' = Ids
         /\ DependenciesAreKnown' <=> DependenciesAreKnown
         /\ CanBeCarriedOut' <=> CanBeCarriedOut
         /\ \A ids : Orderly(ids)' <=> Orderly(ids)
         /\ PlanTyped' <=> PlanTyped
BY DEF PlanStays, Listed, Ids, DependenciesAreKnown, WaitsFor, CanBeCarriedOut, Orderly, PlanTyped

(* A walk that has visited every action has found an order of them. *)
LEMMA AcceptancesAreRight ==
  ASSUME PlanInv, AcceptPlan
  PROVE  PlanInv'
<1>1. PlanTyped /\ WalkInv /\ begun = Len(actions) /\ calls = <<>>
  BY DEF PlanInv, PlanTyped, AcceptPlan
<1>2. \A i \in 1..Len(actions) : actions[i].id \in Visited
  BY <1>1 DEF WalkInv
<1>3. Ids = Visited
  BY <1>1, <1>2, ListedMeans DEF Visited
<1>4. Orderly(Ids) /\ DependenciesAreKnown
  BY <1>1, <1>3 DEF WalkInv, VisitedIsOrderly
<1>5. CanBeCarriedOut
  BY <1>1, <1>4, KnownMeans DEF CanBeCarriedOut
<1>6. PlanStays
  BY DEF AcceptPlan, PlanStays
<1>7. QED
  BY <1>5, <1>6, PlanMeansTheSame DEF PlanInv, AcceptPlan, PlansCanBeCarriedOut

(* The calls as a sequence. *)
LEMMA CallsMean ==
  ASSUME WalkInv
  PROVE  /\ calls \in Seq(Visits) /\ Len(calls) \in Nat
         /\ \A k \in 1..Len(calls) : calls[k].id \in Ids /\ calls[k].next \in Nat \ {0}
         /\ calls # <<>> => Len(calls) \in 1..Len(calls) /\ Top = calls[Len(calls)]
<1>1. calls \in Seq(Visits)
  BY DEF WalkInv, CallsAreAPath
<1>2. /\ Len(calls) \in Nat /\ \A k \in 1..Len(calls) : calls[k] \in Visits
      /\ calls # <<>> => Len(calls) # 0
  BY <1>1, EmptySeq
<1>3. QED
  BY <1>1, <1>2 DEF Visits, Top

(* A dependency that is being visited is on the path of the calls: those from *)
(* there on wait for each other.                                              *)
LEMMA CyclesAreFound ==
  ASSUME PlanTyped, WalkInv, calls # <<>>, Top.next <= Len(dependencies[Top.id]),
         states[dependencies[Top.id][Top.next]] = "visiting"
  PROVE  ~CanBeCarriedOut
<1> PICK n : n = Len(calls)
  OBVIOUS
<1>1. /\ calls \in Seq([id : Ids, next : Nat \ {0}])
      /\ n \in Nat \ {0} /\ n \in 1..Len(calls) /\ Top = calls[n]
      /\ \A k \in 1..n : calls[k].id \in Ids /\ calls[k].next \in Nat \ {0}
  BY CallsMean DEF Visits
<1>2. PICK j \in 1..n : calls[j].id = dependencies[Top.id][Top.next]
  <2>1. Top.next \in 1..Len(dependencies[Top.id]) /\ Top.id \in Ids
    BY <1>1, DependenciesMean
  <2>2. dependencies[Top.id][Top.next] \in Visiting
    BY <2>1, DependenciesMean DEF Visiting
  <2>3. QED
    BY <2>2 DEF WalkInv, CallsAreAPath
<1> PICK group : group = {calls[k].id : k \in j..n}
  OBVIOUS
<1>3. group \in (SUBSET Ids) \ {{}}
  <2>1. calls[n].id \in group
    BY <1>1
  <2>2. group \subseteq Ids
    BY <1>1
  <2>3. QED
    BY <2>1, <2>2
<1>4. ASSUME NEW a \in Listed, a.id \in group PROVE WaitsFor(a) \cap group # {}
  <2>1. PICK k \in j..n : a.id = calls[k].id
    BY <1>4
  <2>2. PICK m \in 1..Len(dependencies[a.id]) : dependencies[a.id][m] \in group
    <3>1. CASE k = n
      <4>1. Top.next \in 1..Len(dependencies[Top.id])
        BY <1>1, DependenciesMean
      <4>2. dependencies[a.id][Top.next] = calls[j].id /\ a.id = Top.id
        BY <1>1, <1>2, <2>1, <3>1
      <4>3. calls[j].id \in group
        BY <1>1
      <4>4. QED
        BY <4>1, <4>2, <4>3
    <3>2. CASE k # n
      <4>1. k \in 1..Len(calls) /\ k < Len(calls) /\ k + 1 \in j..n
        BY <1>1, <2>1, <3>2
      <4>2. /\ calls[k].next <= Len(dependencies[calls[k].id]) + 1 /\ calls[k].next > 1
            /\ dependencies[calls[k].id][calls[k].next - 1] = calls[k + 1].id
        BY <4>1 DEF WalkInv, CallsAreAPath, IsAt
      <4>3. calls[k].next - 1 \in 1..Len(dependencies[calls[k].id])
        <5>1. calls[k].next \in Nat /\ calls[k].id \in Ids
          BY <1>1, <4>1
        <5>2. Len(dependencies[calls[k].id]) \in Nat
          BY <5>1, DependenciesMean
        <5>3. QED
          BY <4>2, <5>1, <5>2
      <4>4. calls[k + 1].id \in group
        BY <4>1
      <4>5. QED
        BY <2>1, <4>2, <4>3, <4>4
    <3>3. QED
      BY <3>1, <3>2
  <2>3. dependencies[a.id][m] \in WaitsFor(a)
    BY DependenciesMean
  <2>4. QED
    BY <2>2, <2>3
<1>5. QED
  BY <1>3, <1>4 DEF CanBeCarriedOut, Orderly

-----------------------------------------------------------------------------
(* Steps of the walk *)

LEMMA StatesMean ==
  ASSUME WalkInv, NEW id \in Ids
  PROVE  /\ states[id] = "visited" <=> id \in Visited
         /\ states[id] = "visiting" <=> id \in Visiting
BY DEF Visited, Visiting

(* A step that leaves the marks and the calls alone. *)
LEMMA WalkStays ==
  ASSUME WalkInv, PlanStays, UNCHANGED <<dependencies, states, calls>>, begun \in Nat,
         \/ begun' = begun
         \/ begun' = begun + 1 /\ calls = <<>> /\ actions[begun + 1].id \in Visited
  PROVE  WalkInv'
<1>1. /\ Listed' = Listed /\ Ids' = Ids /\ (DependenciesAreKnown' <=> DependenciesAreKnown)
      /\ \A ids : Orderly(ids)' <=> Orderly(ids)
  BY PlanMeansTheSame
<1>2. Visited' = Visited /\ Visiting' = Visiting
  BY <1>1 DEF Visited, Visiting
<1>3. CallsAreAPath'
  BY <1>1, <1>2 DEF WalkInv, CallsAreAPath, IsAt, Visits, GoneThrough
<1>4. VisitedIsOrderly'
  BY <1>1, <1>2 DEF WalkInv, VisitedIsOrderly, WaitsFor
<1>5. \A i \in 1..begun' :
        \/ actions'[i].id \in Visited'
        \/ calls' # <<>> /\ i = begun' /\ calls'[1].id = actions'[i].id
  <2>1. CASE begun' = begun
    BY <1>2, <2>1 DEF WalkInv, PlanStays
  <2>2. CASE begun' # begun
    <3>1. /\ begun' = begun + 1 /\ actions[begun + 1].id \in Visited
          /\ \A i \in 1..begun : actions[i].id \in Visited
      BY <2>2 DEF WalkInv
    <3>2. \A i \in 1..begun + 1 : i = begun + 1 \/ i \in 1..begun
      OBVIOUS
    <3>3. QED
      BY <1>2, <3>1, <3>2 DEF PlanStays
  <2>3. QED
    BY <2>1, <2>2
<1>6. QED
  BY <1>1, <1>3, <1>4, <1>5 DEF WalkInv

(* An ID is marked as visiting when its visit begins: nothing else is marked. *)
LEMMA MarkedVisiting ==
  ASSUME WalkInv, PlanStays, NEW x \in Ids, states[x] = "unvisited",
         states' = [states EXCEPT ![x] = "visiting"]
  PROVE  /\ states' \in [Ids -> {"unvisited", "visiting", "visited"}]
         /\ Visited' = Visited /\ Visiting' = Visiting \cup {x} /\ x \notin Visiting
<1>1. states \in [Ids -> {"unvisited", "visiting", "visited"}] /\ Ids' = Ids
  BY PlanMeansTheSame DEF WalkInv
<1>2. QED
  BY <1>1 DEF Visited, Visiting

(* The parts of WalkInv that a new visit does not disturb. *)
LEMMA VisitFrames ==
  ASSUME WalkInv, PlanStays, UNCHANGED dependencies, NEW x \in Ids, states[x] = "unvisited",
         states' = [states EXCEPT ![x] = "visiting"], CallsAreAPath', begun \in Nat,
         calls' # <<>>,
         \/ begun' = begun /\ calls # <<>> /\ calls'[1].id = calls[1].id
         \/ begun' = begun + 1 /\ calls = <<>> /\ calls'[1].id = actions[begun + 1].id
  PROVE  WalkInv'
<1>1. /\ Listed' = Listed /\ Ids' = Ids /\ (DependenciesAreKnown' <=> DependenciesAreKnown)
      /\ \A ids : Orderly(ids)' <=> Orderly(ids)
  BY PlanMeansTheSame
<1>2. Visited' = Visited /\ states' \in [Ids -> {"unvisited", "visiting", "visited"}]
  BY MarkedVisiting
<1>3. VisitedIsOrderly'
  BY <1>1, <1>2 DEF WalkInv, VisitedIsOrderly, WaitsFor
<1>4. \A i \in 1..begun' :
        \/ actions'[i].id \in Visited'
        \/ calls' # <<>> /\ i = begun' /\ calls'[1].id = actions'[i].id
  <2>1. CASE begun' = begun
    <3>1. calls # <<>> /\ calls'[1].id = calls[1].id
      BY <2>1
    <3>2. QED
      BY <1>2, <2>1, <3>1 DEF WalkInv, PlanStays
  <2>2. CASE begun' # begun
    <3>1. /\ begun' = begun + 1 /\ calls'[1].id = actions[begun + 1].id
          /\ \A i \in 1..begun : actions[i].id \in Visited
      BY <2>2 DEF WalkInv
    <3>2. \A i \in 1..begun + 1 : i = begun + 1 \/ i \in 1..begun
      OBVIOUS
    <3>3. QED
      BY <1>2, <3>1, <3>2 DEF PlanStays
  <2>3. QED
    BY <2>1, <2>2
<1>5. QED
  BY <1>1, <1>2, <1>3, <1>4 DEF WalkInv

(* The first visit of a path is that of an action. *)
LEMMA ActionsAreVisited ==
  ASSUME PlanTyped, WalkInv, begun \in Nat, VisitAction, states[actions[begun + 1].id] = "unvisited"
  PROVE  WalkInv'
<1> PICK x : x = actions[begun + 1].id
  OBVIOUS
<1>1. begun + 1 \in 1..Len(actions)
  BY ListedMeans DEF VisitAction
<1>2. x \in Ids /\ PlanStays
  BY <1>1, ListedMeans DEF VisitAction, PlanStays
<1>3. /\ states' = [states EXCEPT ![x] = "visiting"]
      /\ calls' = Append(<<>>, [id |-> x, next |-> 1]) /\ dependencies' = dependencies
  BY DEF VisitAction, Visit
<1>4. /\ calls' \in Seq(Visits) /\ Len(calls') = 1
      /\ calls'[1] = [id |-> x, next |-> 1] /\ calls' # <<>>
  <2>1. [id |-> x, next |-> 1] \in Visits
    BY <1>2 DEF Visits
  <2>2. calls' = << [id |-> x, next |-> 1] >>
    BY <1>3
  <2>3. QED
    BY <2>1, <2>2
<1>5. Ids' = Ids /\ Visited' = Visited /\ Visiting' = Visiting \cup {x}
  BY <1>2, <1>3, MarkedVisiting, PlanMeansTheSame
<1>6. Visiting = {}
  <2>1. Visiting = {calls[k].id : k \in 1..Len(calls)} /\ Len(calls) = 0
    BY DEF WalkInv, CallsAreAPath, VisitAction
  <2>2. QED
    BY <2>1
<1>7. Len(dependencies[x]) \in Nat
  BY <1>2, DependenciesMean
<1>8. CallsAreAPath'
  <2>1. \A k \in 1..Len(calls') : k = 1
    BY <1>4
  <2>2. Visiting' = {calls'[k].id : k \in 1..Len(calls')}
    BY <1>4, <1>5, <1>6, <2>1
  <2>3. GoneThrough(1)' = {}
    BY <1>3, <1>4, <1>7 DEF GoneThrough
  <2>4. IsAt(1)'
    BY <1>3, <1>4, <1>7, <2>3 DEF IsAt
  <2>5. \A j, k \in 1..Len(calls') : calls'[j].id = calls'[k].id => j = k
    BY <2>1
  <2>6. calls' \in Seq(Visits')
    BY <1>4, <1>5 DEF Visits
  <2>7. \A k \in 1..Len(calls') : IsAt(k)'
    BY <2>1, <2>4
  <2>8. QED
    BY <2>2, <2>5, <2>6, <2>7 DEF CallsAreAPath
<1>9. /\ begun' = begun + 1 /\ calls = <<>> /\ calls'[1].id = actions[begun + 1].id
      /\ UNCHANGED dependencies /\ states[x] = "unvisited"
  BY <1>3, <1>4 DEF VisitAction
<1>10. QED
  BY <1>2, <1>3, <1>4, <1>8, <1>9, VisitFrames

(* The calls after the top one has gone on to its next dependency. *)
Advanced == [calls EXCEPT ![Len(calls)].next = @ + 1]

LEMMA AdvancedMeans ==
  ASSUME WalkInv, calls # <<>>
  PROVE  /\ Advanced \in Seq(Visits) /\ Len(Advanced) = Len(calls) /\ Advanced # <<>>
         /\ \A k \in 1..Len(calls) :
              /\ Advanced[k].id = calls[k].id
              /\ Advanced[k].next = IF k = Len(calls) THEN Top.next + 1 ELSE calls[k].next
<1> PICK n : n = Len(calls)
  OBVIOUS
<1> PICK v : v = [calls[n] EXCEPT !.next = @ + 1]
  OBVIOUS
<1>1. n \in 1..Len(calls) /\ calls \in Seq(Visits) /\ Top = calls[n] /\ calls[n] \in Visits
  <2>1. n \in 1..Len(calls) /\ calls \in Seq(Visits) /\ Top = calls[n]
    BY CallsMean
  <2>2. QED
    BY <2>1, ElementOfSeq
<1>2. v \in Visits /\ v.id = calls[n].id /\ v.next = Top.next + 1
  BY <1>1 DEF Visits
<1>3. Advanced = [calls EXCEPT ![n] = v]
  BY DEF Advanced
<1>4. /\ Advanced \in Seq(Visits) /\ Len(Advanced) = Len(calls)
      /\ \A k \in 1..Len(calls) : Advanced[k] = IF k = n THEN v ELSE calls[k]
  BY <1>1, <1>2, <1>3, ExceptSeq
<1>5. Advanced # <<>>
  BY <1>1, <1>4, EmptySeq
<1>6. QED
  BY <1>1, <1>2, <1>4, <1>5

(* A dependency that has been visited already is gone through at once. *)
LEMMA DependenciesAreSkipped ==
  ASSUME PlanTyped, WalkInv, VisitDependency, begun \in Nat,
         states[dependencies[Top.id][Top.next]] = "visited"
  PROVE  WalkInv'
<1>1. /\ calls # <<>> /\ Top.next <= Len(dependencies[Top.id]) /\ PlanStays
      /\ UNCHANGED <<dependencies, states, begun>> /\ calls' = Advanced
  BY DEF VisitDependency, Visit, PlanStays, Advanced
<1>2. /\ Listed' = Listed /\ Ids' = Ids /\ (DependenciesAreKnown' <=> DependenciesAreKnown)
      /\ \A ids : Orderly(ids)' <=> Orderly(ids)
  BY <1>1, PlanMeansTheSame
<1>3. Visited' = Visited /\ Visiting' = Visiting
  BY <1>1, <1>2 DEF Visited, Visiting
<1> PICK n : n = Len(calls)
  OBVIOUS
<1>4. /\ n \in 1..n /\ n \in Nat /\ Len(calls') = n /\ Top = calls[n] /\ Top.id \in Ids
      /\ Top.next \in 1..Len(dependencies[Top.id]) /\ Len(dependencies[Top.id]) \in Nat
      /\ \A k \in 1..n : /\ calls'[k].id = calls[k].id
                         /\ calls'[k].next = IF k = n THEN Top.next + 1 ELSE calls[k].next
  BY <1>1, CallsMean, AdvancedMeans, DependenciesMean
<1>5. calls' \in Seq(Visits') /\ calls' # <<>>
  BY <1>1, <1>2, AdvancedMeans DEF Visits
<1>6. Visiting' = {calls'[k].id : k \in 1..Len(calls')}
  <2>1. Visiting = {calls[k].id : k \in 1..n}
    BY DEF WalkInv, CallsAreAPath
  <2>2. QED
    BY <1>3, <1>4, <2>1
<1>7. \A j, k \in 1..Len(calls') : calls'[j].id = calls'[k].id => j = k
  <2>1. \A j, k \in 1..n : calls[j].id = calls[k].id => j = k
    BY DEF WalkInv, CallsAreAPath
  <2>2. QED
    BY <1>4, <2>1
<1>8. ASSUME NEW k \in 1..n PROVE IsAt(k)'
  <2>1. IsAt(k)
    BY <1>8 DEF WalkInv, CallsAreAPath
  <2>2. CASE k = n
    <3>1. GoneThrough(k)' = GoneThrough(k) \cup {Top.next}
      BY <1>1, <1>4, <2>2 DEF GoneThrough
    <3>2. dependencies[Top.id][Top.next] \in Visited
      BY <1>4, DependenciesMean DEF Visited
    <3>3. /\ calls'[k].id = Top.id /\ calls'[k].next = Top.next + 1 /\ calls[k].id = Top.id
          /\ ~(k < Len(calls')) /\ UNCHANGED dependencies /\ Visited' = Visited
      BY <1>1, <1>3, <1>4, <2>2
    <3>4. calls'[k].next <= Len(dependencies'[calls'[k].id]) + 1
      BY <1>1, <1>4, <3>3
    <3>5. \A j \in GoneThrough(k)' : dependencies'[calls'[k].id][j] \in Visited'
      BY <2>1, <3>1, <3>2, <3>3 DEF IsAt
    <3>6. QED
      BY <3>3, <3>4, <3>5, Zenon DEF IsAt
  <2>3. CASE k # n
    <3>1. k + 1 \in 1..n /\ k < n
      BY <1>4, <2>3
    <3>2. GoneThrough(k)' = GoneThrough(k)
      BY <1>1, <1>4, <2>3 DEF GoneThrough
    <3>3. calls'[k].next = calls[k].next /\ calls'[k].id = calls[k].id /\ calls'[k + 1].id = calls[k + 1].id
      BY <1>4, <2>3, <3>1
    <3>4. QED
      BY <1>1, <1>3, <1>4, <2>1, <3>1, <3>2, <3>3 DEF IsAt
  <2>4. QED
    BY <2>2, <2>3
<1>9. CallsAreAPath'
  BY <1>4, <1>5, <1>6, <1>7, <1>8 DEF CallsAreAPath
<1>10. VisitedIsOrderly'
  BY <1>2, <1>3 DEF WalkInv, VisitedIsOrderly, WaitsFor
<1>11. \A i \in 1..begun' :
         \/ actions'[i].id \in Visited'
         \/ calls' # <<>> /\ i = begun' /\ calls'[1].id = actions'[i].id
  <2>1. calls'[1].id = calls[1].id /\ begun' = begun /\ actions' = actions
    BY <1>1, <1>4 DEF PlanStays
  <2>2. \A i \in 1..begun : \/ actions[i].id \in Visited
                            \/ i = begun /\ calls[1].id = actions[i].id
    BY DEF WalkInv
  <2>3. QED
    BY <1>3, <1>5, <2>1, <2>2
<1>12. QED
  BY <1>1, <1>2, <1>9, <1>10, <1>11 DEF WalkInv

(* A dependency that has no mark is visited in turn. *)
LEMMA DependenciesAreVisited ==
  ASSUME PlanTyped, WalkInv, VisitDependency, begun \in Nat,
         states[dependencies[Top.id][Top.next]] = "unvisited"
  PROVE  WalkInv'
<1> PICK x, n, v : x = dependencies[Top.id][Top.next] /\ n = Len(calls) /\ v = [id |-> x, next |-> 1]
  OBVIOUS
<1>1. /\ calls # <<>> /\ Top.next <= Len(dependencies[Top.id]) /\ PlanStays
      /\ UNCHANGED <<dependencies, begun>> /\ calls' = Append(Advanced, v)
      /\ states' = [states EXCEPT ![x] = "visiting"]
  BY DEF VisitDependency, Visit, PlanStays, Advanced
<1>2. /\ n \in 1..n /\ n \in Nat /\ Len(Advanced) = n /\ Top = calls[n] /\ Top.id \in Ids
      /\ Top.next \in 1..Len(dependencies[Top.id]) /\ Len(dependencies[Top.id]) \in Nat
      /\ Advanced \in Seq(Visits)
  BY <1>1, CallsMean, AdvancedMeans, DependenciesMean
<1>3. x \in Ids /\ v \in Visits /\ v.id = x /\ v.next = 1 /\ Len(dependencies[x]) \in Nat
  <2>1. x \in Ids
    BY <1>2, DependenciesMean
  <2>2. QED
    BY <2>1, DependenciesMean DEF Visits
<1>4. /\ calls' \in Seq(Visits) /\ Len(calls') = n + 1 /\ calls'[n + 1] = v /\ calls' # <<>>
      /\ \A k \in 1..n : calls'[k] = Advanced[k]
  BY <1>1, <1>2, <1>3, AppendProperties
<1>5. \A k \in 1..n : /\ calls'[k].id = calls[k].id
                      /\ calls'[k].next = IF k = n THEN Top.next + 1 ELSE calls[k].next
  BY <1>1, <1>4, AdvancedMeans
<1>6. \A k \in 1..Len(calls') : k \in 1..n \/ k = n + 1
  BY <1>2, <1>4
<1>7. /\ Ids' = Ids /\ Visited' = Visited /\ Visiting' = Visiting \cup {x} /\ x \notin Visiting
  BY <1>1, <1>3, MarkedVisiting, PlanMeansTheSame
<1>8. /\ Visiting = {calls[k].id : k \in 1..n}
      /\ \A j, k \in 1..n : calls[j].id = calls[k].id => j = k
  BY DEF WalkInv, CallsAreAPath
<1>9. Visiting' = {calls'[k].id : k \in 1..Len(calls')}
  <2>1. \A k \in 1..n : calls'[k].id \in Visiting
    BY <1>5, <1>8
  <2>2. \A y \in Visiting : \E k \in 1..n : calls'[k].id = y
    BY <1>5, <1>8
  <2>3. n + 1 \in 1..Len(calls') /\ calls'[n + 1].id = x /\ 1..n \subseteq 1..Len(calls')
    BY <1>2, <1>3, <1>4
  <2>4. QED
    BY <1>6, <1>7, <2>1, <2>2, <2>3
<1>10. \A j, k \in 1..Len(calls') : calls'[j].id = calls'[k].id => j = k
  <2>1. \A k \in 1..n : calls'[k].id # x
    BY <1>5, <1>7, <1>8
  <2>2. calls'[n + 1].id = x
    BY <1>3, <1>4
  <2>3. \A j, k \in 1..n : calls'[j].id = calls'[k].id => j = k
    BY <1>5, <1>8
  <2>4. \A k \in 1..n : calls'[k].id # calls'[n + 1].id
    BY <2>1, <2>2
  <2>5. ASSUME NEW j \in 1..Len(calls'), NEW k \in 1..Len(calls'), calls'[j].id = calls'[k].id
        PROVE  j = k
    <3>1. (j \in 1..n \/ j = n + 1) /\ (k \in 1..n \/ k = n + 1)
      BY <1>6
    <3>2. QED
      BY <2>3, <2>4, <2>5, <3>1
  <2>6. QED
    BY <2>5
<1>11. ASSUME NEW k \in 1..n PROVE IsAt(k)'
  <2>1. IsAt(k) /\ Len(calls) = n
    BY <1>11 DEF WalkInv, CallsAreAPath
  <2>2. k < Len(calls') /\ k # Len(calls') /\ k \in Nat
    BY <1>2, <1>4
  <2>3. CASE k = n
    <3>1. GoneThrough(k)' = GoneThrough(k)
      <4>1. calls'[k].id = calls[k].id /\ calls'[k].next = calls[k].next + 1
        BY <1>2, <1>5, <2>3
      <4>2. calls[k].next \in Nat /\ calls[k].next + 1 - 1 = calls[k].next
        BY <1>2, <2>3
      <4>3. GoneThrough(k)' = {j \in 1..Len(dependencies'[calls'[k].id]) : j < calls'[k].next - 1}
        BY <2>2 DEF GoneThrough
      <4>4. GoneThrough(k) = {j \in 1..Len(dependencies[calls[k].id]) : j < calls[k].next}
        BY <2>1, <2>3 DEF GoneThrough
      <4>5. dependencies'[calls'[k].id] = dependencies[calls[k].id] /\ calls'[k].next - 1 = calls[k].next
        <5>1. calls'[k].next - 1 = calls[k].next
          BY <4>1, <4>2
        <5>2. dependencies' = dependencies
          BY <1>1
        <5>3. QED
          BY <4>1, <5>1, <5>2, Zenon
      <4>6. QED
        BY <4>3, <4>4, <4>5
    <3>2. calls'[k].next = Top.next + 1 /\ calls'[k].id = Top.id
      <4>1. calls'[k].id = calls[k].id /\ calls'[k].next = Top.next + 1
        BY <1>5, <2>3
      <4>2. QED
        BY <1>2, <2>3, <4>1
    <3>3. calls'[k].next - 1 = Top.next /\ calls'[k].next > 1
          /\ calls'[k].next <= Len(dependencies[Top.id]) + 1
      BY <1>2, <3>2
    <3>4. calls'[k + 1].id = x
      BY <1>3, <1>4, <2>3
    <3>5. dependencies'[calls'[k].id][calls'[k].next - 1] = calls'[k + 1].id
      BY <1>1, <3>2, <3>3, <3>4
    <3>6. \A j \in GoneThrough(k)' : dependencies'[calls'[k].id][j] \in Visited'
      <4>1. calls[k].id = Top.id
        BY <1>2, <2>3
      <4>2. QED
        BY <1>1, <1>7, <2>1, <3>1, <3>2, <4>1 DEF IsAt
    <3>7. QED
      BY <1>1, <3>2, <3>3, <3>5, <3>6 DEF IsAt
  <2>4. CASE k # n
    <3>1. k + 1 \in 1..n /\ k < n
      BY <1>2, <2>4
    <3>2. GoneThrough(k)' = GoneThrough(k)
      BY <1>1, <1>5, <2>1, <2>2, <2>4 DEF GoneThrough
    <3>3. calls'[k].next = calls[k].next /\ calls'[k].id = calls[k].id /\ calls'[k + 1].id = calls[k + 1].id
      BY <1>5, <2>4, <3>1
    <3>4. QED
      BY <1>1, <1>7, <2>1, <3>1, <3>2, <3>3 DEF IsAt
  <2>5. QED
    BY <2>3, <2>4
<1>12. IsAt(n + 1)'
  <2>1. GoneThrough(n + 1)' = {}
    BY <1>1, <1>3, <1>4 DEF GoneThrough
  <2>2. dependencies' = dependencies /\ calls'[n + 1].id = x /\ calls'[n + 1].next = 1
    BY <1>1, <1>3, <1>4
  <2>3. calls'[n + 1].next <= Len(dependencies'[calls'[n + 1].id]) + 1
    BY <1>3, <2>2
  <2>4. ~(n + 1 < Len(calls'))
    BY <1>2, <1>4
  <2>5. QED
    BY <2>1, <2>3, <2>4 DEF IsAt
<1>13. CallsAreAPath'
  <2>1. \A k \in 1..Len(calls') : IsAt(k)'
    BY <1>6, <1>11, <1>12
  <2>2. calls' \in Seq(Visits')
    BY <1>4, <1>7 DEF Visits
  <2>3. QED
    BY <1>9, <1>10, <2>1, <2>2 DEF CallsAreAPath
<1>14. begun' = begun /\ calls # <<>> /\ calls'[1].id = calls[1].id /\ UNCHANGED dependencies
  BY <1>1, <1>2, <1>5
<1>15. QED
  BY <1>1, <1>3, <1>4, <1>13, <1>14, VisitFrames

(* What has been visited stays orderly if one is added that waits for these. *)
LEMMA OrderlyGrows ==
  ASSUME PlanTyped, VisitedIsOrderly, NEW x \in Ids, x \notin Visited,
         \A a \in Listed : a.id = x => WaitsFor(a) \subseteq Visited
  PROVE  /\ Orderly(Visited \cup {x})
         /\ \A a \in Listed : a.id \in Visited \cup {x} => WaitsFor(a) \subseteq Visited \cup {x}
<1>1. ASSUME NEW group \in (SUBSET (Visited \cup {x})) \ {{}}
      PROVE  \E a \in Listed : a.id \in group /\ WaitsFor(a) \cap group = {}
  <2>1. CASE group \ {x} # {}
    <3>1. group \ {x} \in (SUBSET Visited) \ {{}}
      BY <2>1
    <3>2. PICK a \in Listed : a.id \in group \ {x} /\ WaitsFor(a) \cap (group \ {x}) = {}
      BY <3>1 DEF VisitedIsOrderly, Orderly
    <3>3. WaitsFor(a) \subseteq Visited
      BY <3>1, <3>2 DEF VisitedIsOrderly
    <3>4. QED
      BY <3>2, <3>3
  <2>2. CASE group \ {x} = {}
    <3>1. group = {x}
      BY <2>2
    <3>2. PICK a \in Listed : a.id = x
      BY ListedMeans
    <3>3. QED
      BY <3>1, <3>2
  <2>3. QED
    BY <2>1, <2>2
<1>2. Orderly(Visited \cup {x})
  BY <1>1 DEF Orderly
<1>3. ASSUME NEW a \in Listed, a.id \in Visited \cup {x}
      PROVE  WaitsFor(a) \subseteq Visited \cup {x}
  BY <1>3 DEF VisitedIsOrderly
<1>4. QED
  BY <1>2, <1>3

(* A visit ends when all its dependencies have been visited. *)
LEMMA VisitsEnd ==
  ASSUME PlanTyped, WalkInv, EndVisit, begun \in Nat
  PROVE  WalkInv'
<1> PICK x, n : x = Top.id /\ n = Len(calls)
  OBVIOUS
<1>1. /\ calls # <<>> /\ Top.next > Len(dependencies[x]) /\ PlanStays
      /\ UNCHANGED <<dependencies, begun>> /\ calls' = SubSeq(calls, 1, n - 1)
      /\ states' = [states EXCEPT ![x] = "visited"]
  BY DEF EndVisit, PlanStays
<1>2. /\ n \in 1..n /\ n \in Nat \ {0} /\ n - 1 \in Nat /\ Top = calls[n] /\ x \in Ids
      /\ Top.next \in Nat \ {0} /\ Len(dependencies[x]) \in Nat /\ calls \in Seq(Visits)
  BY <1>1, CallsMean, DependenciesMean
<1>3. /\ Visiting = {calls[k].id : k \in 1..n}
      /\ \A j, k \in 1..n : calls[j].id = calls[k].id => j = k
      /\ \A k \in 1..n : IsAt(k)
  BY DEF WalkInv, CallsAreAPath
<1>4. x \in Visiting /\ x \notin Visited
  <2>1. x \in Visiting
    BY <1>2, <1>3
  <2>2. QED
    BY <2>1 DEF Visiting, Visited
<1>5. /\ Ids' = Ids /\ Visited' = Visited \cup {x} /\ Visiting' = Visiting \ {x}
      /\ states' \in [Ids' -> {"unvisited", "visiting", "visited"}]
  <2>1. states \in [Ids -> {"unvisited", "visiting", "visited"}] /\ Ids' = Ids
    BY <1>1, PlanMeansTheSame DEF WalkInv
  <2>2. QED
    BY <1>1, <1>2, <2>1 DEF Visited, Visiting
<1>6. /\ calls' \in Seq(Visits) /\ Len(calls') = n - 1
      /\ \A k \in 1..n - 1 : calls'[k] = calls[k] /\ k \in 1..n
  <2>1. \A k \in 1..n - 1 : k \in 1..n /\ calls[k] \in Visits
    BY <1>2, ElementOfSeq
  <2>2. /\ SubSeq(calls, 1, n - 1) \in Seq(Visits)
        /\ Len(SubSeq(calls, 1, n - 1)) = IF 1 <= n - 1 THEN (n - 1) - 1 + 1 ELSE 0
        /\ \A k \in 1..((n - 1) - 1 + 1) : SubSeq(calls, 1, n - 1)[k] = calls[1 + k - 1]
    BY <1>2, <2>1, SubSeqProperties
  <2>3. (n - 1) - 1 + 1 = n - 1 /\ Len(calls') = n - 1
    BY <1>1, <1>2, <2>2
  <2>4. \A k \in 1..n - 1 : calls'[k] = calls[1 + k - 1] /\ 1 + k - 1 = k
    BY <1>1, <2>2, <2>3
  <2>5. QED
    BY <1>1, <2>1, <2>2, <2>3, <2>4
<1>7. Visiting' = {calls'[k].id : k \in 1..Len(calls')}
  <2>1. \A k \in 1..n - 1 : calls[k].id \in Visiting \ {x}
    <3>1. \A k \in 1..n - 1 : k \in 1..n /\ k # n
      BY <1>2
    <3>2. \A k \in 1..n - 1 : calls[k].id # calls[n].id
      BY <1>2, <1>3, <3>1
    <3>3. QED
      BY <1>2, <1>3, <3>1, <3>2
  <2>2. \A y \in Visiting \ {x} : \E k \in 1..n - 1 : calls[k].id = y
    <3>1. \A k \in 1..n : k = n \/ k \in 1..n - 1
      BY <1>2
    <3>2. QED
      BY <1>2, <1>3, <3>1
  <2>3. \A k \in 1..Len(calls') : calls'[k].id \in Visiting'
    BY <1>5, <1>6, <2>1
  <2>4. \A y \in Visiting' : \E k \in 1..Len(calls') : calls'[k].id = y
    BY <1>5, <1>6, <2>2
  <2>5. QED
    BY <2>3, <2>4
<1>8. \A j, k \in 1..Len(calls') : calls'[j].id = calls'[k].id => j = k
  BY <1>3, <1>6
<1>9. ASSUME NEW k \in 1..n - 1 PROVE IsAt(k)'
  <2>1. IsAt(k) /\ Len(calls) = n /\ calls'[k] = calls[k] /\ k \in 1..n /\ k < n /\ k \in Nat
    BY <1>2, <1>3, <1>6
  <2>2. /\ calls[k].next <= Len(dependencies[calls[k].id]) + 1 /\ calls[k].next > 1
        /\ dependencies[calls[k].id][calls[k].next - 1] = calls[k + 1].id
        /\ \A j \in GoneThrough(k) : dependencies[calls[k].id][j] \in Visited
    BY <2>1 DEF IsAt
  <2>3. calls[k].next \in Nat /\ Len(dependencies[calls[k].id]) \in Nat
    BY <2>1, CallsMean, DependenciesMean
  <2>4. CASE k = n - 1
    <3>1. GoneThrough(k)' = GoneThrough(k) \cup {calls[k].next - 1}
      <4>1. k = Len(calls') /\ k # Len(calls)
        BY <1>2, <1>6, <2>1, <2>4
      <4>2. GoneThrough(k)' = {j \in 1..Len(dependencies[calls[k].id]) : j < calls[k].next}
        BY <1>1, <2>1, <4>1 DEF GoneThrough
      <4>3. GoneThrough(k) = {j \in 1..Len(dependencies[calls[k].id]) : j < calls[k].next - 1}
        BY <4>1 DEF GoneThrough
      <4>4. /\ calls[k].next - 1 \in 1..Len(dependencies[calls[k].id])
            /\ \A j \in 1..Len(dependencies[calls[k].id]) :
                 j < calls[k].next <=> j < calls[k].next - 1 \/ j = calls[k].next - 1
        BY <2>2, <2>3
      <4>5. QED
        <5>1. GoneThrough(k)' \subseteq GoneThrough(k) \cup {calls[k].next - 1}
          BY <4>2, <4>3, <4>4
        <5>2. GoneThrough(k) \subseteq GoneThrough(k)'
          BY <4>2, <4>3, <4>4
        <5>3. calls[k].next - 1 \in GoneThrough(k)'
          <6>1. calls[k].next - 1 < calls[k].next
            BY <2>3
          <6>2. QED
            BY <4>2, <4>4, <6>1
        <5>4. QED
          BY <5>1, <5>2, <5>3
    <3>2. calls[k + 1].id = x
      BY <1>2, <2>4
    <3>3. \A j \in GoneThrough(k)' : dependencies'[calls'[k].id][j] \in Visited'
      <4>1. dependencies' = dependencies /\ calls'[k] = calls[k] /\ Visited' = Visited \cup {x}
        BY <1>1, <1>5, <2>1
      <4>2. dependencies[calls[k].id][calls[k].next - 1] = x
        BY <2>2, <3>2
      <4>3. QED
        BY <2>2, <3>1, <4>1, <4>2
    <3>4. ~(k < Len(calls'))
      BY <1>2, <1>6, <2>4
    <3>5. calls'[k].next <= Len(dependencies'[calls'[k].id]) + 1
      BY <1>1, <2>1, <2>2
    <3>6. QED
      BY <3>3, <3>4, <3>5 DEF IsAt
  <2>5. CASE k # n - 1
    <3>1. k + 1 \in 1..n - 1 /\ k < n - 1
      <4>1. n \in Nat /\ k \in 1..n - 1
        BY <1>2
      <4>2. QED
        BY <2>5, <4>1
    <3>2. GoneThrough(k)' = GoneThrough(k)
      BY <1>1, <1>6, <2>1, <2>5 DEF GoneThrough
    <3>3. calls'[k + 1] = calls[k + 1]
      BY <1>6, <3>1
    <3>4. QED
      BY <1>1, <1>5, <1>6, <2>1, <2>2, <3>1, <3>2, <3>3 DEF IsAt
  <2>6. QED
    BY <2>4, <2>5
<1>10. CallsAreAPath'
  <2>1. calls' \in Seq(Visits')
    BY <1>5, <1>6 DEF Visits
  <2>2. \A k \in 1..Len(calls') : IsAt(k)'
    BY <1>6, <1>9
  <2>3. QED
    BY <1>7, <1>8, <2>1, <2>2 DEF CallsAreAPath
<1>11. \A a \in Listed : a.id = x => WaitsFor(a) \subseteq Visited
  <2>1. IsAt(n) /\ Len(calls) = n
    BY <1>2, <1>3
  <2>2. GoneThrough(n) = 1..Len(dependencies[x])
    BY <1>1, <1>2, <2>1 DEF GoneThrough
  <2>3. \A j \in 1..Len(dependencies[x]) : dependencies[x][j] \in Visited
    BY <1>2, <2>1, <2>2 DEF IsAt
  <2>4. QED
    BY <2>3, DependenciesMean
<1>12. VisitedIsOrderly'
  <2>1. VisitedIsOrderly
    BY DEF WalkInv
  <2>2. /\ Orderly(Visited \cup {x})
        /\ \A a \in Listed : a.id \in Visited \cup {x} => WaitsFor(a) \subseteq Visited \cup {x}
    BY <1>2, <1>4, <1>11, <2>1, OrderlyGrows
  <2>3. Listed' = Listed /\ \A ids : Orderly(ids)' <=> Orderly(ids)
    BY <1>1, PlanMeansTheSame
  <2>4. QED
    BY <1>5, <2>2, <2>3 DEF VisitedIsOrderly, WaitsFor
<1>13. ASSUME NEW i \in 1..begun'
       PROVE  \/ actions'[i].id \in Visited'
              \/ calls' # <<>> /\ i = begun' /\ calls'[1].id = actions'[i].id
  <2>1. i \in 1..begun /\ begun' = begun /\ actions' = actions
    BY <1>1 DEF PlanStays
  <2>2. CASE actions[i].id \in Visited
    BY <1>5, <2>1, <2>2
  <2>3. CASE i = begun /\ calls[1].id = actions[i].id
    <3>1. CASE n = 1
      BY <1>2, <1>5, <2>1, <2>3, <3>1
    <3>2. CASE n # 1
      <4>1. 1 \in 1..n - 1
        BY <1>2, <3>2
      <4>2. calls'[1] = calls[1] /\ Len(calls') # 0
        BY <1>2, <1>6, <3>2, <4>1
      <4>3. calls' # <<>>
        BY <4>2
      <4>4. QED
        BY <2>1, <2>3, <4>2, <4>3
    <3>3. QED
      BY <3>1, <3>2
  <2>4. QED
    BY <2>1, <2>2, <2>3 DEF WalkInv
<1>14. /\ DependenciesAreKnown' /\ DOMAIN dependencies' = Ids'
       /\ \A a \in Listed' : dependencies'[a.id] = a.dependencies
  BY <1>1, <1>5, PlanMeansTheSame DEF WalkInv
<1>15. QED
  BY <1>5, <1>10, <1>12, <1>13, <1>14 DEF WalkInv

-----------------------------------------------------------------------------
(* Every step keeps the invariant *)

(* While the walk goes on, no verdict is given. *)
LEMMA WalkSuffices ==
  ASSUME PlanInv, PlanStays, status' = "walking", begun' \in 0..Len(actions), WalkInv'
  PROVE  PlanInv'
BY DEF PlanInv, PlanStays, PlansCanBeCarriedOut

LEMMA WalkBegins ==
  ASSUME PlanInv, BeginWalk
  PROVE  PlanInv'
<1>1. /\ PlanStays /\ PlanTyped /\ DependenciesAreKnown /\ begun' = 0 /\ calls' = <<>>
      /\ states' = [id \in Ids |-> "unvisited"] /\ status' = "walking"
      /\ dependencies' = [id \in Ids |-> (CHOOSE a \in Listed : a.id = id).dependencies]
  BY DEF PlanInv, PlanTyped, PlanStays, BeginWalk
<1>2. Listed' = Listed /\ Ids' = Ids /\ DependenciesAreKnown'
  BY <1>1, PlanMeansTheSame
<1>3. ASSUME NEW a \in Listed PROVE dependencies'[a.id] = a.dependencies
  <2>1. a.id \in Ids
    BY <1>1, ListedMeans
  <2>2. ASSUME NEW b \in Listed, b.id = a.id PROVE b = a
    <3> PICK s : s = [i \in 1..Len(actions) |-> actions[i].id]
      OBVIOUS
    <3>1. PICK i, j \in 1..Len(actions) : a = actions[i] /\ b = actions[j]
      BY <1>1, <2>2, ListedMeans
    <3>2. Len(actions) \in Nat
      BY <1>1, ListedMeans
    <3>3. Len(s) = Len(actions) /\ s[i] = s[j]
      BY <2>2, <3>1, <3>2
    <3>4. i = j
      BY <1>1, <3>3 DEF DependenciesAreKnown, NoRepeats
    <3>5. QED
      BY <3>1, <3>4
  <2>3. (CHOOSE b \in Listed : b.id = a.id) = a
    BY <2>2
  <2>4. QED
    BY <1>1, <2>1, <2>3
<1>4. Visited' = {} /\ Visiting' = {} /\ states' \in [Ids' -> {"unvisited", "visiting", "visited"}]
  BY <1>1, <1>2 DEF Visited, Visiting
<1>5. CallsAreAPath'
  <2>1. calls' \in Seq(Visits') /\ Len(calls') = 0
    BY <1>1
  <2>2. QED
    BY <1>4, <2>1 DEF CallsAreAPath
<1>6. VisitedIsOrderly'
  BY <1>4 DEF VisitedIsOrderly, Orderly
<1>7. WalkInv'
  BY <1>1, <1>2, <1>3, <1>4, <1>5, <1>6 DEF WalkInv
<1>8. begun' \in 0..Len(actions)
  BY <1>1, ListedMeans
<1>9. QED
  BY <1>1, <1>7, <1>8, WalkSuffices

LEMMA ActionVisits ==
  ASSUME PlanInv, VisitAction
  PROVE  PlanInv'
<1> PICK x : x = actions[begun + 1].id
  OBVIOUS
<1>1. /\ PlanTyped /\ WalkInv /\ PlanStays /\ begun \in Nat /\ Len(actions) \in Nat
      /\ begun < Len(actions) /\ begun' = begun + 1 /\ calls = <<>> /\ status = "walking"
      /\ UNCHANGED dependencies
  <2>1. PlanTyped
    BY DEF PlanInv, PlanTyped
  <2>2. QED
    BY <2>1, ListedMeans DEF PlanInv, VisitAction, PlanStays
<1>2. x \in Ids /\ begun' \in 0..Len(actions)
  <2>1. begun + 1 \in 1..Len(actions)
    BY <1>1
  <2>2. QED
    BY <1>1, <2>1, ListedMeans
<1>3. CASE states[x] = "visited"
  <2>1. UNCHANGED <<states, calls, status>>
    BY <1>1, <1>3 DEF VisitAction, Visit
  <2>2. x \in Visited
    BY <1>2, <1>3 DEF Visited
  <2>3. WalkInv'
    BY <1>1, <2>1, <2>2, WalkStays
  <2>4. QED
    BY <1>1, <1>2, <2>1, <2>3, WalkSuffices
<1>4. CASE states[x] = "visiting"
  <2>1. x \in Visiting
    BY <1>2, <1>4 DEF Visiting
  <2>2. Visiting = {calls[k].id : k \in 1..Len(calls)} /\ Len(calls) = 0
    BY <1>1 DEF WalkInv, CallsAreAPath
  <2>3. QED
    BY <2>1, <2>2
<1>5. CASE states[x] = "unvisited"
  <2>1. WalkInv'
    BY <1>1, <1>5, ActionsAreVisited
  <2>2. status' = "walking"
    BY <1>1, <1>5 DEF VisitAction, Visit
  <2>3. QED
    BY <1>1, <1>2, <2>1, <2>2, WalkSuffices
<1>6. QED
  <2>1. states[x] \in {"unvisited", "visiting", "visited"}
    BY <1>1, <1>2 DEF WalkInv
  <2>2. QED
    BY <1>3, <1>4, <1>5, <2>1

LEMMA DependencyVisits ==
  ASSUME PlanInv, VisitDependency
  PROVE  PlanInv'
<1> PICK x : x = dependencies[Top.id][Top.next]
  OBVIOUS
<1>1. /\ PlanTyped /\ WalkInv /\ PlanStays /\ begun \in Nat /\ begun' \in 0..Len(actions)
      /\ calls # <<>> /\ Top.next <= Len(dependencies[Top.id]) /\ status = "walking"
  <2>1. PlanTyped
    BY DEF PlanInv, PlanTyped
  <2>2. QED
    BY <2>1, ListedMeans DEF PlanInv, VisitDependency, PlanStays
<1>2. x \in Ids
  <2>1. Top.id \in Ids /\ Top.next \in 1..Len(dependencies[Top.id])
    BY <1>1, CallsMean, DependenciesMean
  <2>2. QED
    BY <1>1, <2>1, DependenciesMean
<1>3. CASE states[x] = "visited"
  <2>1. WalkInv'
    BY <1>1, <1>3, DependenciesAreSkipped
  <2>2. status' = "walking"
    BY <1>1, <1>3 DEF VisitDependency, Visit
  <2>3. QED
    BY <1>1, <2>1, <2>2, WalkSuffices
<1>4. CASE states[x] = "visiting"
  <2>1. ~CanBeCarriedOut
    BY <1>1, <1>4, CyclesAreFound
  <2>2. status' = "rejected"
    BY <1>4 DEF VisitDependency, Visit
  <2>3. QED
    BY <1>1, <2>1, <2>2, PlanMeansTheSame DEF PlanInv, PlanTyped, PlanStays, PlansCanBeCarriedOut
<1>5. CASE states[x] = "unvisited"
  <2>1. WalkInv'
    BY <1>1, <1>5, DependenciesAreVisited
  <2>2. status' = "walking"
    BY <1>1, <1>5 DEF VisitDependency, Visit
  <2>3. QED
    BY <1>1, <2>1, <2>2, WalkSuffices
<1>6. QED
  <2>1. states[x] \in {"unvisited", "visiting", "visited"}
    BY <1>1, <1>2 DEF WalkInv
  <2>2. QED
    BY <1>3, <1>4, <1>5, <2>1

LEMMA PlanNextKeeps ==
  ASSUME PlanInv, [PlanNext]_planVars
  PROVE  PlanInv'
<1>1. CASE RefuseDependencies
  BY <1>1, RefusalsAreRight
<1>2. CASE BeginWalk
  BY <1>2, WalkBegins
<1>3. CASE VisitAction
  BY <1>3, ActionVisits
<1>4. CASE VisitDependency
  BY <1>4, DependencyVisits
<1>5. CASE EndVisit
  <2>1. PlanTyped /\ WalkInv /\ PlanStays /\ begun \in Nat /\ status' = "walking"
        /\ begun' \in 0..Len(actions)
    <3>1. PlanTyped
      BY DEF PlanInv, PlanTyped
    <3>2. QED
      BY <1>5, <3>1, ListedMeans DEF PlanInv, EndVisit, PlanStays
  <2>2. WalkInv'
    BY <1>5, <2>1, VisitsEnd
  <2>3. QED
    BY <2>1, <2>2, WalkSuffices
<1>6. CASE AcceptPlan
  BY <1>6, AcceptancesAreRight
<1>7. CASE UNCHANGED planVars
  <2>1. PlanStays /\ UNCHANGED <<status, dependencies, states, begun, calls>>
    BY <1>7 DEF planVars, PlanStays
  <2>2. ASSUME status = "walking" PROVE WalkInv'
    <3>1. begun \in Nat
      BY DEF PlanInv
    <3>2. QED
      BY <2>1, <2>2, <3>1, WalkStays DEF PlanInv
  <2>3. QED
    BY <2>1, <2>2, PlanMeansTheSame DEF PlanInv, PlanStays, PlansCanBeCarriedOut
<1>8. QED
  BY <1>1, <1>2, <1>3, <1>4, <1>5, <1>6, <1>7 DEF PlanNext

(***************************************************************************)
(* What a walk of a plan's dependencies knows: the visits under way are a  *)
(* path, and what is visited waits for nothing else and can be carried     *)
(* out, for plans of any number of actions and dependencies (domain,       *)
(* validatePlanActions).                                                   *)
(***************************************************************************)
THEOREM PlanInvariantHolds == PlanSpec => []PlanInv
<1>1. PlanInit => PlanInv
  <2>1. ASSUME PlanInit PROVE Len(actions) \in 0..MaxActions /\ actions \in [1..Len(actions) -> Actions]
    BY <2>1 DEF PlanInit
  <2>2. QED
    BY <2>1 DEF PlanInit, PlanInv, PlansCanBeCarriedOut
<1>2. QED
  BY <1>1, PlanNextKeeps, PTL DEF PlanSpec

(***************************************************************************)
(* A plan is accepted only if its actions can be carried out in some       *)
(* order, and rejected only if they cannot (validatePlanActions).          *)
(***************************************************************************)
THEOREM PlansAreJudged == PlanSpec => []PlansCanBeCarriedOut
<1>1. PlanInv => PlansCanBeCarriedOut
  BY DEF PlanInv
<1>2. QED
  BY <1>1, PlanInvariantHolds, PTL


-----------------------------------------------------------------------------
(* Results *)

(* Validate, with the fields written out, judges a result by what it says. *)
LEMMA NormalizedMeans ==
  ASSUME NEW r \in Terminals
  PROVE  /\ Normalized(r) \in Terminals /\ Normalized(r).outcome = r.outcome
         /\ Normalized(r).reconciliation = "required" <=> r.reconciliation = "required"
         /\ Normalized(r) = r <=> r.reconciliation # "" /\ r.recovery # ""
BY DEF Normalized, Terminals

LEMMA PlainMeans ==
  ASSUME NEW r \in Terminals, r.reconciliation # "", r.recovery # ""
  PROVE  TerminalAccepted(r) <=> Plain(r)
<1>1. Normalized(r) = r
  BY NormalizedMeans
<1>2. /\ r.outcome \in Outcomes /\ r.attempted \in BOOLEAN /\ r.handle \in BOOLEAN /\ r.effect \in BOOLEAN
      /\ r.reconciliation \in {"not_required", "required"}
      /\ r.recovery \in {"not_applicable", "retained", "restored"}
  BY DEF Terminals
<1>3. TerminalAccepted(r) <=>
        /\ OutcomeHolds(r)
        /\ r.outcome # "success" =>
             /\ r.handle => r.outcome = "drifted" /\ r.attempted /\ r.recovery = "retained"
             /\ ~r.effect
        /\ RecoveryHolds(r)
  BY <1>1 DEF TerminalAccepted
<1>4. OutcomeHolds(r) <=>
        /\ r.outcome \in {"success", "failed", "indeterminate"} => r.attempted
        /\ r.outcome \in {"skipped", "denied", "unsupported", "interrupted"} => ~r.attempted
        /\ r.outcome = "drifted" /\ r.attempted => r.recovery \in {"retained", "restored"}
        /\ r.outcome = "indeterminate" => r.reconciliation = "required" /\ r.probe # "none"
        /\ r.outcome # "indeterminate" => r.reconciliation = "not_required" /\ r.probe = "none"
  BY <1>2 DEF OutcomeHolds, NoReconciliation, Outcomes
<1>5. RecoveryHolds(r) <=>
        /\ r.handle <=> r.recovery = "retained"
        /\ r.recovery # "not_applicable" => KnownRecovery(r) /\ ~r.effect
  BY <1>2 DEF RecoveryHolds
<1>6. QED
  BY <1>2, <1>3, <1>4, <1>5 DEF Plain, KnownRecovery, Outcomes

LEMMA AcceptedMeans ==
  ASSUME NEW r \in Terminals, TerminalAccepted(r)
  PROVE  /\ r.reconciliation = "required" <=> r.outcome = "indeterminate"
         /\ Normalized(r) = r => Plain(r)
<1>1. OutcomeHolds(Normalized(r))
  BY DEF TerminalAccepted
<1>2. Normalized(r).reconciliation = "required" <=> Normalized(r).outcome = "indeterminate"
  BY <1>1 DEF OutcomeHolds, NoReconciliation
<1>3. QED
  BY <1>2, NormalizedMeans, PlainMeans

(* A count of the first n results, and of one more. *)
LEMMA CountsAreFinite ==
  ASSUME NEW n \in Nat, NEW outcomes
  PROVE  /\ IsFiniteSet(Of(outcomes, n)) /\ Cardinality(Of(outcomes, n)) \in Nat
         /\ Of(outcomes, 0) = {}
<1>1. IsFiniteSet(1..n)
  BY FS_Interval
<1>2. Of(outcomes, n) \subseteq 1..n /\ Of(outcomes, 0) = {}
  BY DEF Of
<1>3. QED
  BY <1>1, <1>2, FS_Subset, FS_CardinalityType

LEMMA OneMoreIsCounted ==
  ASSUME NEW n \in Nat, NEW outcomes
  PROVE  /\ Of(outcomes, n + 1) =
              Of(outcomes, n) \cup (IF results[n + 1].outcome \in outcomes THEN {n + 1} ELSE {})
         /\ Cardinality(Of(outcomes, n + 1)) =
              Cardinality(Of(outcomes, n)) + (IF results[n + 1].outcome \in outcomes THEN 1 ELSE 0)
<1>1. \A i : i \in 1..(n + 1) <=> i \in 1..n \/ i = n + 1
  OBVIOUS
<1>2. Of(outcomes, n + 1) =
        Of(outcomes, n) \cup (IF results[n + 1].outcome \in outcomes THEN {n + 1} ELSE {})
  <2>1. \A i : i \in Of(outcomes, n) <=> i \in 1..n /\ results[i].outcome \in outcomes
    BY DEF Of
  <2>2. \A i : i \in Of(outcomes, n + 1) <=> i \in 1..(n + 1) /\ results[i].outcome \in outcomes
    BY DEF Of
  <2>3. QED
    BY <1>1, <2>1, <2>2
<1>3. n + 1 \notin Of(outcomes, n)
  BY DEF Of
<1>4. Cardinality(Of(outcomes, n) \cup {n + 1}) = Cardinality(Of(outcomes, n)) + 1
  BY <1>3, CountsAreFinite, FS_AddElement
<1>5. Cardinality(Of(outcomes, n)) \in Nat
  BY CountsAreFinite
<1>6. CASE results[n + 1].outcome \in outcomes
  BY <1>2, <1>4, <1>6
<1>7. CASE results[n + 1].outcome \notin outcomes
  BY <1>2, <1>5, <1>7
<1>8. QED
  BY <1>6, <1>7

-----------------------------------------------------------------------------
(* The steps of reading a result *)

LEMMA CanonicalMeans ==
  ASSUME results \in Seq(Terminals)
  PROVE  /\ Len(results) \in Nat
         /\ \A i \in 1..Len(results) : results[i] \in Terminals /\ Canonical[i] = Normalized(results[i])
         /\ results = Canonical <=>
              \A i \in 1..Len(results) : results[i].reconciliation # "" /\ results[i].recovery # ""
<1>1. /\ Len(results) \in Nat /\ results \in [1..Len(results) -> Terminals]
      /\ \A i \in 1..Len(results) : results[i] \in Terminals
  BY ElementOfSeq, LenProperties
<1>2. \A i \in 1..Len(results) : Canonical[i] = Normalized(results[i])
  BY DEF Canonical
<1>3. DOMAIN Canonical = 1..Len(results) /\ Canonical = [i \in 1..Len(results) |-> Canonical[i]]
  BY DEF Canonical
<1>4. results = Canonical <=> \A i \in 1..Len(results) : results[i] = Canonical[i]
  BY <1>1, <1>3
<1>5. QED
  BY <1>1, <1>2, <1>4, NormalizedMeans

(* A result that is read is either one more that is accepted, or the last. *)
LEMMA ReadKeepsInv ==
  ASSUME ResultInv, ReadResult
  PROVE  ResultInv'
<1>1. /\ stage = "reading" /\ results \in Seq(Terminals) /\ Len(results) \in Nat
      /\ counted = 0 /\ any = [success |-> FALSE, nonSuccess |-> FALSE]
      /\ \A i \in 1..Len(results) : TerminalAccepted(results[i])
  BY LenProperties DEF ResultInv, ReadResult
<1>2. PICK r \in Terminals : /\ results' = Append(results, r)
                             /\ stage' = IF TerminalAccepted(r) THEN stage ELSE "rejected"
  BY DEF ReadResult
<1>3. UNCHANGED <<counted, any, summary, claimed>>
  BY DEF ReadResult
<1>4. /\ results' \in Seq(Terminals) /\ Len(results') = Len(results) + 1
      /\ results'[Len(results')] = r /\ \A i \in 1..Len(results) : results'[i] = results[i]
  BY <1>1, <1>2, AppendProperties
<1>5. Len(results') \in 1..Len(results') /\ \A i \in 1..Len(results') : i \in 1..Len(results) \/ i = Len(results')
  BY <1>1, <1>4
<1>6. CASE TerminalAccepted(r)
  <2>1. stage' = "reading"
    BY <1>1, <1>2, <1>6
  <2>2. \A i \in 1..Len(results') : TerminalAccepted(results'[i])
    BY <1>1, <1>4, <1>5, <1>6
  <2>3. QED
    BY <1>1, <1>3, <1>4, <2>1, <2>2 DEF ResultInv, ResultsTellWhatIsOpen
<1>7. CASE ~TerminalAccepted(r)
  <2>1. stage' = "rejected"
    BY <1>2, <1>7
  <2>2. ~Plain(r)
    BY <1>7, PlainMeans DEF Plain
  <2>3. ~TellsWhatIsOpen'
    BY <1>4, <1>5, <2>2 DEF TellsWhatIsOpen
  <2>4. QED
    BY <1>4, <2>1, <2>3 DEF ResultInv, ResultsTellWhatIsOpen
<1>8. QED
  BY <1>6, <1>7

LEMMA BeginKeepsInv ==
  ASSUME ResultInv, BeginSummary
  PROVE  ResultInv'
<1>1. /\ stage = "reading" /\ results \in Seq(Terminals) /\ Len(results) \in Nat
      /\ counted = 0 /\ any = [success |-> FALSE, nonSuccess |-> FALSE]
      /\ \A i \in 1..Len(results) : TerminalAccepted(results[i])
  BY LenProperties DEF ResultInv, BeginSummary
<1>2. /\ UNCHANGED <<results, counted, any, claimed>> /\ stage' = "deriving"
      /\ summary' = [total |-> Len(results), count |-> [o \in Outcomes |-> 0], partial |-> FALSE,
                     reconciliation_required |-> FALSE]
  BY DEF BeginSummary
<1>3. ASSUME NEW outcomes PROVE Of(outcomes, 0)' = {}
  BY DEF Of
<1>4. DerivedUpTo(0)'
  <2>1. summary' \in Summaries /\ summary'.total = Len(results') /\ ~summary'.reconciliation_required
    BY <1>1, <1>2 DEF Summaries
  <2>2. \A o \in Outcomes : summary'.count[o] = Cardinality(Of({o}, 0)')
    BY <1>2, <1>3, FS_EmptySet
  <2>3. QED
    BY <2>1, <2>2 DEF DerivedUpTo
<1>5. DerivedUpTo(counted)'
  BY <1>1, <1>2, <1>4
<1>6. /\ counted' \in 0..Len(results') /\ any' \in [success : BOOLEAN, nonSuccess : BOOLEAN]
      /\ ~any'.success /\ ~any'.nonSuccess /\ ~summary'.partial
  BY <1>1, <1>2
<1>7. ASSUME NEW outcomes PROVE Of(outcomes, counted)' = {}
  BY <1>1, <1>2, <1>3
<1>8. QED
  BY <1>1, <1>2, <1>5, <1>6, <1>7 DEF ResultInv, ResultsTellWhatIsOpen

LEMMA CountKeepsInv ==
  ASSUME ResultInv, CountResult
  PROVE  ResultInv'
<1> PICK n, r : n = counted /\ r = results[counted + 1]
  OBVIOUS
<1>1. /\ stage = "deriving" /\ results \in Seq(Terminals) /\ Len(results) \in Nat
      /\ n \in Nat /\ n < Len(results) /\ n + 1 \in 1..Len(results) /\ r \in Terminals
      /\ \A i \in 1..Len(results) : TerminalAccepted(results[i])
      /\ Canonical[n + 1] = Normalized(r)
  <2>1. stage = "deriving" /\ results \in Seq(Terminals) /\ Len(results) \in Nat
    BY CanonicalMeans DEF ResultInv, CountResult
  <2>2. n \in Nat /\ n < Len(results) /\ n + 1 \in 1..Len(results)
    BY <2>1 DEF ResultInv, CountResult
  <2>3. QED
    BY <2>1, <2>2, CanonicalMeans DEF ResultInv
<1>2. /\ UNCHANGED <<results, stage, claimed>> /\ counted' = n + 1
      /\ summary' = [summary EXCEPT
           !.count[Canonical[n + 1].outcome] = @ + 1,
           !.partial = @ \/ Canonical[n + 1].outcome = "indeterminate",
           !.reconciliation_required = @ \/ Canonical[n + 1].reconciliation = "required"]
      /\ any' = [success |-> any.success \/ Canonical[n + 1].outcome = "success",
                 nonSuccess |-> any.nonSuccess \/ Canonical[n + 1].outcome \notin {"success", "skipped"}]
  BY DEF CountResult
<1>3. /\ Canonical[n + 1].outcome = r.outcome /\ r.outcome \in Outcomes
      /\ Canonical[n + 1].reconciliation = "required" <=> r.reconciliation = "required"
  <2>1. r.outcome \in Outcomes
    BY <1>1 DEF Terminals
  <2>2. QED
    BY <1>1, <2>1, NormalizedMeans
<1>4. /\ DerivedUpTo(n) /\ any \in [success : BOOLEAN, nonSuccess : BOOLEAN]
      /\ any.success <=> Of({"success"}, n) # {}
      /\ any.nonSuccess <=> Of(Outcomes \ {"success", "skipped"}, n) # {}
      /\ summary.partial <=> Of({"indeterminate"}, n) # {}
  BY <1>1 DEF ResultInv
<1>5. ASSUME NEW outcomes
      PROVE  /\ Of(outcomes, counted)' =
                  Of(outcomes, n) \cup (IF r.outcome \in outcomes THEN {n + 1} ELSE {})
             /\ Cardinality(Of(outcomes, counted)') =
                  Cardinality(Of(outcomes, n)) + (IF r.outcome \in outcomes THEN 1 ELSE 0)
  <2>1. Of(outcomes, counted)' = Of(outcomes, n + 1)
    BY <1>2 DEF Of
  <2>2. QED
    BY <1>1, <2>1, OneMoreIsCounted
<1>6. summary \in Summaries
  BY <1>4 DEF DerivedUpTo
<1>7. /\ summary' \in Summaries /\ summary'.total = summary.total
      /\ \A o \in Outcomes : summary'.count[o] = summary.count[o] + (IF r.outcome = o THEN 1 ELSE 0)
      /\ summary'.partial <=> summary.partial \/ r.outcome = "indeterminate"
      /\ summary'.reconciliation_required <=>
           summary.reconciliation_required \/ r.reconciliation = "required"
  <2>1. /\ DOMAIN summary = {"total", "count", "partial", "reconciliation_required"}
        /\ summary.total \in Nat /\ summary.count \in [Outcomes -> Nat]
        /\ summary.partial \in BOOLEAN /\ summary.reconciliation_required \in BOOLEAN
    BY <1>6 DEF Summaries
  <2>2. /\ summary' = [total |-> summary'.total, count |-> summary'.count, partial |-> summary'.partial,
                       reconciliation_required |-> summary'.reconciliation_required]
        /\ summary'.total = summary.total
        /\ summary'.count = [summary.count EXCEPT ![r.outcome] = @ + 1]
    BY <1>2, <1>3, <2>1
  <2>3. /\ summary'.partial = (summary.partial \/ r.outcome = "indeterminate")
        /\ summary'.reconciliation_required =
             (summary.reconciliation_required \/ r.reconciliation = "required")
    BY <1>2, <1>3, <2>1
  <2>4. /\ summary'.count \in [Outcomes -> Nat]
        /\ \A o \in Outcomes : summary'.count[o] = summary.count[o] + (IF r.outcome = o THEN 1 ELSE 0)
    BY <1>3, <2>1, <2>2
  <2>5. summary' \in Summaries
    BY <2>1, <2>2, <2>3, <2>4 DEF Summaries
  <2>6. QED
    BY <2>2, <2>3, <2>4, <2>5
<1>8. /\ any' \in [success : BOOLEAN, nonSuccess : BOOLEAN]
      /\ any'.success <=> any.success \/ r.outcome = "success"
      /\ any'.nonSuccess <=> any.nonSuccess \/ r.outcome \in Outcomes \ {"success", "skipped"}
  BY <1>2, <1>3, <1>4
<1>9. DerivedUpTo(counted)'
  <2>1. \A o \in Outcomes : summary'.count[o] = Cardinality(Of({o}, counted)')
    <3>1. ASSUME NEW o \in Outcomes PROVE summary'.count[o] = Cardinality(Of({o}, counted)')
      <4>1. summary.count[o] = Cardinality(Of({o}, n))
        BY <1>4 DEF DerivedUpTo
      <4>2. Cardinality(Of({o}, counted)') =
              Cardinality(Of({o}, n)) + (IF r.outcome = o THEN 1 ELSE 0)
        BY <1>5
      <4>3. QED
        BY <1>7, <4>1, <4>2
    <3>2. QED
      BY <3>1
  <2>2. \A i : i \in 1..(n + 1) <=> i \in 1..n \/ i = n + 1
    BY <1>1
  <2>3. summary.reconciliation_required <=> \E i \in 1..n : results[i].reconciliation = "required"
    BY <1>4 DEF DerivedUpTo
  <2>4. summary'.reconciliation_required <=> \E i \in 1..counted' : results'[i].reconciliation = "required"
    BY <1>2, <1>7, <2>2, <2>3
  <2>5. summary'.total = Len(results')
    BY <1>2, <1>4, <1>7 DEF DerivedUpTo
  <2>6. QED
    BY <1>7, <2>1, <2>4, <2>5 DEF DerivedUpTo
<1>10. /\ any'.success <=> Of({"success"}, counted)' # {}
       /\ any'.nonSuccess <=> Of(Outcomes \ {"success", "skipped"}, counted)' # {}
       /\ summary'.partial <=> Of({"indeterminate"}, counted)' # {}
  <2>1. any'.success <=> Of({"success"}, counted)' # {}
    BY <1>4, <1>5, <1>8
  <2>2. any'.nonSuccess <=> Of(Outcomes \ {"success", "skipped"}, counted)' # {}
    <3> PICK failures : failures = Outcomes \ {"success", "skipped"}
      OBVIOUS
    <3>1. Of(failures, counted)' =
            Of(failures, n) \cup (IF r.outcome \in failures THEN {n + 1} ELSE {})
      BY <1>5
    <3>2. any'.nonSuccess <=> Of(failures, n) # {} \/ r.outcome \in failures
      BY <1>4, <1>8
    <3>3. Of(failures, counted)' # {} <=> Of(failures, n) # {} \/ r.outcome \in failures
      BY <3>1
    <3>4. QED
      BY <3>2, <3>3
  <2>3. summary'.partial <=> Of({"indeterminate"}, counted)' # {}
    BY <1>4, <1>5, <1>7
  <2>4. QED
    BY <2>1, <2>2, <2>3
<1>11. counted' \in 0..Len(results') /\ stage' = "deriving" /\ results' = results
  BY <1>1, <1>2
<1>12. QED
  BY <1>1, <1>8, <1>9, <1>10, <1>11 DEF ResultInv, ResultsTellWhatIsOpen

LEMMA EndKeepsInv ==
  ASSUME ResultInv, EndSummary
  PROVE  ResultInv'
<1> PICK n : n = Len(results)
  OBVIOUS
<1>1. /\ stage = "deriving" /\ counted = n /\ results \in Seq(Terminals)
      /\ \A i \in 1..Len(results) : TerminalAccepted(results[i])
      /\ DerivedUpTo(n) /\ any \in [success : BOOLEAN, nonSuccess : BOOLEAN]
      /\ any.success <=> Of({"success"}, n) # {}
      /\ any.nonSuccess <=> Of(Outcomes \ {"success", "skipped"}, n) # {}
      /\ summary.partial <=> Of({"indeterminate"}, n) # {}
  BY DEF ResultInv, EndSummary
<1>2. /\ UNCHANGED <<results, counted, any, claimed>> /\ stage' = "validating"
      /\ summary' = [summary EXCEPT !.partial = @ \/ (any.success /\ any.nonSuccess)]
  BY DEF EndSummary
<1>3. /\ summary' \in Summaries /\ summary'.total = summary.total /\ summary'.count = summary.count
      /\ summary'.partial <=> summary.partial \/ (any.success /\ any.nonSuccess)
      /\ summary'.reconciliation_required <=> summary.reconciliation_required
  BY <1>1, <1>2 DEF DerivedUpTo, Summaries
<1>4. ASSUME NEW outcomes PROVE Of(outcomes, Len(results))' = Of(outcomes, n)
  BY <1>2 DEF Of
<1>5. DerivedUpTo(Len(results))'
  <2>1. \A o \in Outcomes : summary'.count[o] = Cardinality(Of({o}, Len(results))')
    BY <1>1, <1>3, <1>4 DEF DerivedUpTo
  <2>2. QED
    BY <1>1, <1>2, <1>3, <2>1 DEF DerivedUpTo
<1>6. summary'.partial <=>
        \/ Of({"indeterminate"}, Len(results))' # {}
        \/ /\ Of({"success"}, Len(results))' # {}
           /\ Of(Outcomes \ {"success", "skipped"}, Len(results))' # {}
  BY <1>1, <1>3, <1>4
<1>7. QED
  BY <1>1, <1>2, <1>5, <1>6 DEF ResultInv, ResultsTellWhatIsOpen

LEMMA RefuseKeepsInv ==
  ASSUME ResultInv, RefuseLength \/ RefuseResult
  PROVE  ResultInv'
<1>1. CASE RefuseLength
  BY <1>1 DEF ResultInv, RefuseLength, ResultsTellWhatIsOpen
<1>2. CASE RefuseResult
  <2>1. ~TellsWhatIsOpen'
    BY <1>2 DEF RefuseResult, ResultAccepted, TellsWhatIsOpen
  <2>2. QED
    BY <1>2, <2>1 DEF ResultInv, RefuseResult, ResultsTellWhatIsOpen
<1>3. QED
  BY <1>1, <1>2

(* Two summaries that count the same are the same. *)
LEMMA SummariesAreTheirFields ==
  ASSUME NEW s \in Summaries, NEW t \in Summaries,
         s.total = t.total, \A o \in Outcomes : s.count[o] = t.count[o],
         s.partial <=> t.partial, s.reconciliation_required <=> t.reconciliation_required
  PROVE  s = t
<1>1. /\ s.count \in [Outcomes -> Nat] /\ t.count \in [Outcomes -> Nat]
      /\ s.partial \in BOOLEAN /\ t.partial \in BOOLEAN
      /\ s.reconciliation_required \in BOOLEAN /\ t.reconciliation_required \in BOOLEAN
  BY DEF Summaries
<1>2. s.count = t.count
  BY <1>1
<1>3. s.partial = t.partial /\ s.reconciliation_required = t.reconciliation_required
  BY <1>1
<1>4. QED
  BY <1>2, <1>3 DEF Summaries

(* A record passes the comparison exactly when it tells what is open: the *)
(* terminals are written out, and the summary is the one that is derived. *)
LEMMA CompareKeepsInv ==
  ASSUME ResultInv, CompareRecord
  PROVE  ResultInv'
<1> PICK n : n = Len(results)
  OBVIOUS
<1>1. /\ results \in Seq(Terminals) /\ ResultAccepted /\ DerivedUpTo(n) /\ claimed' \in Summaries
      /\ \A i \in 1..n : results[i] \in Terminals /\ TerminalAccepted(results[i])
      /\ summary.partial <=>
            \/ Of({"indeterminate"}, n) # {}
            \/ Of({"success"}, n) # {} /\ Of(Outcomes \ {"success", "skipped"}, n) # {}
  <2>1. stage = "validating" /\ ResultAccepted /\ results \in Seq(Terminals) /\ claimed' \in Summaries
    BY ResultAssumptions DEF ResultInv, CompareRecord
  <2>2. \A i \in 1..n : results[i] \in Terminals
    BY <2>1, CanonicalMeans
  <2>3. QED
    BY <2>1, <2>2 DEF ResultInv
<1>2. /\ UNCHANGED results
      /\ stage' = IF results = Canonical /\ claimed' = summary THEN "accepted" ELSE "rejected"
  BY DEF CompareRecord
<1>3. summary \in Summaries /\ summary.total = n /\ \A o \in Outcomes : summary.count[o] = Cardinality(Of({o}, n))
  BY <1>1 DEF DerivedUpTo
<1>4. summary.reconciliation_required <=> Of({"indeterminate"}, n) # {}
  <2>1. \A i \in 1..n : results[i].reconciliation = "required" <=> results[i].outcome = "indeterminate"
    BY <1>1, AcceptedMeans
  <2>2. summary.reconciliation_required <=> \E i \in 1..n : results[i].reconciliation = "required"
    BY <1>1 DEF DerivedUpTo
  <2>3. QED
    BY <2>1, <2>2 DEF Of
<1>5. ASSUME NEW outcomes PROVE Of(outcomes, Len(results))' = Of(outcomes, n)
  BY <1>2 DEF Of
<1>6. TellsWhatIsOpen' <=>
        /\ \A i \in 1..n : Plain(results[i])
        /\ claimed'.total = n
        /\ \A o \in Outcomes : claimed'.count[o] = Cardinality(Of({o}, n))
        /\ claimed'.reconciliation_required <=> Of({"indeterminate"}, n) # {}
        /\ claimed'.partial <=>
             \/ Of({"indeterminate"}, n) # {}
             \/ Of({"success"}, n) # {} /\ Of(Outcomes \ {"success", "skipped"}, n) # {}
  <2>1. ResultAccepted'
    BY <1>1, <1>2 DEF ResultAccepted
  <2>2. Len(results') = n /\ \A i \in 1..n : results'[i] = results[i]
    BY <1>2
  <2>3. QED
    BY <1>5, <2>1, <2>2 DEF TellsWhatIsOpen
<1>7. results = Canonical <=> \A i \in 1..n : Plain(results[i])
  <2>1. results = Canonical <=> \A i \in 1..n : results[i].reconciliation # "" /\ results[i].recovery # ""
    BY <1>1, CanonicalMeans
  <2>2. \A i \in 1..n : Plain(results[i]) <=> results[i].reconciliation # "" /\ results[i].recovery # ""
    <3>1. ASSUME NEW i \in 1..n
          PROVE  Plain(results[i]) <=> results[i].reconciliation # "" /\ results[i].recovery # ""
      <4>1. CASE results[i].reconciliation # "" /\ results[i].recovery # ""
        BY <1>1, <4>1, PlainMeans
      <4>2. CASE ~(results[i].reconciliation # "" /\ results[i].recovery # "")
        BY <4>2 DEF Plain
      <4>3. QED
        BY <4>1, <4>2
    <3>2. QED
      BY <3>1
  <2>3. QED
    BY <2>1, <2>2
<1>8. claimed' = summary <=>
        /\ claimed'.total = n
        /\ \A o \in Outcomes : claimed'.count[o] = Cardinality(Of({o}, n))
        /\ claimed'.reconciliation_required <=> Of({"indeterminate"}, n) # {}
        /\ claimed'.partial <=>
             \/ Of({"indeterminate"}, n) # {}
             \/ Of({"success"}, n) # {} /\ Of(Outcomes \ {"success", "skipped"}, n) # {}
  <2>1. ASSUME /\ claimed'.total = n
               /\ \A o \in Outcomes : claimed'.count[o] = Cardinality(Of({o}, n))
               /\ claimed'.reconciliation_required <=> summary.reconciliation_required
               /\ claimed'.partial <=> summary.partial
        PROVE  claimed' = summary
    <3>1. claimed'.total = summary.total /\ \A o \in Outcomes : claimed'.count[o] = summary.count[o]
      BY <1>3, <2>1
    <3>2. QED
      BY <1>1, <1>3, <2>1, <3>1, SummariesAreTheirFields
  <2>2. QED
    BY <1>1, <1>3, <1>4, <2>1
<1>9. TellsWhatIsOpen' <=> results = Canonical /\ claimed' = summary
  BY <1>6, <1>7, <1>8
<1>10. stage' \in {"accepted", "rejected"} /\ (stage' = "accepted" <=> TellsWhatIsOpen')
  BY <1>2, <1>9
<1>11. QED
  BY <1>1, <1>2, <1>10 DEF ResultInv, ResultsTellWhatIsOpen

(* The result of a run is read back only in the one spelling, and a read that *)
(* was not refused counts what it has read.                                   *)
THEOREM ResultInvariantHolds == ResultSpec => []ResultInv
<1>1. ResultInit => ResultInv
  BY DEF ResultInit, ResultInv, ResultsTellWhatIsOpen
<1>2. ResultInv /\ [ResultNext]_resultVars => ResultInv'
  <2> SUFFICES ASSUME ResultInv, [ResultNext]_resultVars PROVE ResultInv'
    OBVIOUS
  <2>1. CASE ReadResult
    BY <2>1, ReadKeepsInv
  <2>2. CASE BeginSummary
    BY <2>2, BeginKeepsInv
  <2>3. CASE CountResult
    BY <2>3, CountKeepsInv
  <2>4. CASE EndSummary
    BY <2>4, EndKeepsInv
  <2>5. CASE RefuseLength \/ RefuseResult
    BY <2>5, RefuseKeepsInv
  <2>6. CASE CompareRecord
    BY <2>6, CompareKeepsInv
  <2>7. CASE UNCHANGED resultVars
    BY <2>7 DEF resultVars, ResultInv, DerivedUpTo, Of, ResultsTellWhatIsOpen, TellsWhatIsOpen, ResultAccepted
  <2>8. QED
    BY <2>1, <2>2, <2>3, <2>4, <2>5, <2>6, <2>7 DEF ResultNext
<1>3. QED
  BY <1>1, <1>2, PTL DEF ResultSpec

(* For any number of results: what is read back is a result that says what is *)
(* open, with the summary of it, and what is refused is not.                  *)
THEOREM ResultsAreRead == ResultSpec => []ResultsTellWhatIsOpen
<1>1. ResultInv => ResultsTellWhatIsOpen
  BY DEF ResultInv
<1>2. QED
  BY <1>1, ResultInvariantHolds, PTL


-----------------------------------------------------------------------------
(* Graphs: references and edges are in a strict total order *)

LEMMA RefsAreOrdered ==
  /\ \A r \in Refs : ~RefBefore(r, r)
  /\ \A r, s, t \in Refs : RefBefore(r, s) /\ RefBefore(s, t) => RefBefore(r, t)
  /\ \A r, s \in Refs : RefBefore(r, s) \/ r = s \/ RefBefore(s, r)
<1>1. \A r \in Refs : r[1] \in Nat /\ r[2] \in Nat /\ r = <<r[1], r[2]>>
  BY GraphAssumptions
<1>2. QED
  BY <1>1 DEF RefBefore

LEMMA EdgesAreOrdered ==
  /\ \A e \in Edges : ~EdgeBefore(e, e)
  /\ \A e, f, g \in Edges : EdgeBefore(e, f) /\ EdgeBefore(f, g) => EdgeBefore(e, g)
  /\ \A e, f \in Edges : EdgeBefore(e, f) \/ e = f \/ EdgeBefore(f, e)
<1>1. \A e \in Edges : e.from \in Refs /\ e.to \in Refs /\ e.reason \in Nat
  BY GraphAssumptions DEF Edges
<1>2. \A e, f \in Edges : e.from = f.from /\ e.to = f.to /\ e.reason = f.reason => e = f
  BY DEF Edges
<1>3. \A e \in Edges : ~EdgeBefore(e, e)
  BY <1>1, RefsAreOrdered DEF EdgeBefore
<1>4. ASSUME NEW e \in Edges, NEW f \in Edges, NEW g \in Edges, EdgeBefore(e, f), EdgeBefore(f, g)
      PROVE  EdgeBefore(e, g)
  <2>1. CASE RefBefore(e.from, f.from) \/ RefBefore(f.from, g.from)
    <3>1. RefBefore(e.from, g.from)
      BY <1>1, <1>4, <2>1, RefsAreOrdered DEF EdgeBefore
    <3>2. QED
      BY <3>1 DEF EdgeBefore
  <2>2. CASE ~(RefBefore(e.from, f.from) \/ RefBefore(f.from, g.from))
    <3>1. e.from = g.from
      BY <1>4, <2>2 DEF EdgeBefore
    <3>2. RefBefore(e.to, f.to) \/ (e.to = f.to /\ e.reason < f.reason)
      BY <1>4, <2>2 DEF EdgeBefore
    <3>3. RefBefore(f.to, g.to) \/ (f.to = g.to /\ f.reason < g.reason)
      BY <1>4, <2>2 DEF EdgeBefore
    <3>4. RefBefore(e.to, g.to) \/ (e.to = g.to /\ e.reason < g.reason)
      BY <1>1, <3>2, <3>3, RefsAreOrdered
    <3>5. QED
      BY <3>1, <3>4 DEF EdgeBefore
  <2>3. QED
    BY <2>1, <2>2
<1>5. ASSUME NEW e \in Edges, NEW f \in Edges
      PROVE  EdgeBefore(e, f) \/ e = f \/ EdgeBefore(f, e)
  <2>1. RefBefore(e.from, f.from) \/ e.from = f.from \/ RefBefore(f.from, e.from)
    BY <1>1, RefsAreOrdered
  <2>2. RefBefore(e.to, f.to) \/ e.to = f.to \/ RefBefore(f.to, e.to)
    BY <1>1, RefsAreOrdered
  <2>3. e.reason < f.reason \/ e.reason = f.reason \/ f.reason < e.reason
    BY <1>1
  <2>4. QED
    BY <1>2, <2>1, <2>2, <2>3 DEF EdgeBefore
<1>6. QED
  BY <1>3, <1>4, <1>5

-----------------------------------------------------------------------------
(* Sequences that ascend *)

LEMMA SetsRepeatNothing ==
  ASSUME NEW S, NEW s \in Seq(S)
  PROVE  IsSet(s) <=> NoRepeats(s)
BY MembersAreCounted DEF IsSet, Items

(* The check of one more item, and what it tells when it fails. *)
LEMMA RefsAscendFurther ==
  ASSUME NEW s \in Seq(Refs), NEW n \in Nat, n < Len(s), AscendUpTo(n, s, RefBefore)
  PROVE  /\ (n > 0 => RefBefore(s[n], s[n + 1])) => AscendUpTo(n + 1, s, RefBefore)
         /\ ~(n > 0 => RefBefore(s[n], s[n + 1])) =>
              /\ ~AscendUpTo(Len(s), s, RefBefore)
              /\ Given(s, RefBefore) /\ sorts => ~IsSet(s)
<1>1. Len(s) \in Nat /\ \A i \in 1..Len(s) : s[i] \in Refs
  BY ElementOfSeq, LenProperties
<1>2. ASSUME n > 0 => RefBefore(s[n], s[n + 1])
      PROVE  AscendUpTo(n + 1, s, RefBefore)
  <2>1. ASSUME NEW i \in 1..(n + 1), NEW j \in 1..(n + 1), i < j
        PROVE  RefBefore(s[i], s[j])
    <3>1. CASE j <= n
      BY <2>1, <3>1 DEF AscendUpTo
    <3>2. CASE j = n + 1 /\ i = n
      BY <1>2, <2>1, <3>2
    <3>3. CASE j = n + 1 /\ i < n
      <4>1. RefBefore(s[i], s[n])
        BY <2>1, <3>3 DEF AscendUpTo
      <4>2. RefBefore(s[n], s[n + 1]) /\ i \in 1..Len(s) /\ n \in 1..Len(s) /\ n + 1 \in 1..Len(s)
        BY <1>1, <1>2, <2>1, <3>3
      <4>3. QED
        BY <1>1, <3>3, <4>1, <4>2, RefsAreOrdered
    <3>4. QED
      BY <2>1, <3>1, <3>2, <3>3
  <2>2. QED
    BY <2>1 DEF AscendUpTo
<1>3. ASSUME n > 0, ~RefBefore(s[n], s[n + 1])
      PROVE  /\ ~AscendUpTo(Len(s), s, RefBefore)
             /\ Given(s, RefBefore) /\ sorts => ~IsSet(s)
  <2>1. n \in 1..Len(s) /\ n + 1 \in 1..Len(s) /\ n < n + 1 /\ n # n + 1
    BY <1>1, <1>3
  <2>2. ~AscendUpTo(Len(s), s, RefBefore)
    BY <1>3, <2>1 DEF AscendUpTo
  <2>3. ASSUME Given(s, RefBefore), sorts PROVE ~IsSet(s)
    <3>1. ~RefBefore(s[n + 1], s[n])
      BY <2>1, <2>3 DEF Given
    <3>2. s[n] = s[n + 1]
      BY <1>1, <1>3, <2>1, <3>1, RefsAreOrdered
    <3>3. ~NoRepeats(s)
      BY <2>1, <3>2 DEF NoRepeats
    <3>4. QED
      BY <3>3, SetsRepeatNothing
  <2>4. QED
    BY <2>2, <2>3
<1>4. QED
  BY <1>2, <1>3

LEMMA EdgesAscendFurther ==
  ASSUME NEW s \in Seq(Edges), NEW n \in Nat, n < Len(s), AscendUpTo(n, s, EdgeBefore)
  PROVE  /\ (n > 0 => EdgeBefore(s[n], s[n + 1])) => AscendUpTo(n + 1, s, EdgeBefore)
         /\ ~(n > 0 => EdgeBefore(s[n], s[n + 1])) =>
              /\ ~AscendUpTo(Len(s), s, EdgeBefore)
              /\ Given(s, EdgeBefore) /\ sorts => ~IsSet(s)
<1>1. Len(s) \in Nat /\ \A i \in 1..Len(s) : s[i] \in Edges
  BY ElementOfSeq, LenProperties
<1>2. ASSUME n > 0 => EdgeBefore(s[n], s[n + 1])
      PROVE  AscendUpTo(n + 1, s, EdgeBefore)
  <2>1. ASSUME NEW i \in 1..(n + 1), NEW j \in 1..(n + 1), i < j
        PROVE  EdgeBefore(s[i], s[j])
    <3>1. CASE j <= n
      BY <2>1, <3>1 DEF AscendUpTo
    <3>2. CASE j = n + 1 /\ i = n
      BY <1>2, <2>1, <3>2
    <3>3. CASE j = n + 1 /\ i < n
      <4>1. EdgeBefore(s[i], s[n])
        BY <2>1, <3>3 DEF AscendUpTo
      <4>2. EdgeBefore(s[n], s[n + 1]) /\ i \in 1..Len(s) /\ n \in 1..Len(s) /\ n + 1 \in 1..Len(s)
        BY <1>1, <1>2, <2>1, <3>3
      <4>3. QED
        BY <1>1, <3>3, <4>1, <4>2, EdgesAreOrdered
    <3>4. QED
      BY <2>1, <3>1, <3>2, <3>3
  <2>2. QED
    BY <2>1 DEF AscendUpTo
<1>3. ASSUME n > 0, ~EdgeBefore(s[n], s[n + 1])
      PROVE  /\ ~AscendUpTo(Len(s), s, EdgeBefore)
             /\ Given(s, EdgeBefore) /\ sorts => ~IsSet(s)
  <2>1. n \in 1..Len(s) /\ n + 1 \in 1..Len(s) /\ n < n + 1 /\ n # n + 1
    BY <1>1, <1>3
  <2>2. ~AscendUpTo(Len(s), s, EdgeBefore)
    BY <1>3, <2>1 DEF AscendUpTo
  <2>3. ASSUME Given(s, EdgeBefore), sorts PROVE ~IsSet(s)
    <3>1. ~EdgeBefore(s[n + 1], s[n])
      BY <2>1, <2>3 DEF Given
    <3>2. s[n] = s[n + 1]
      BY <1>1, <1>3, <2>1, <3>1, EdgesAreOrdered
    <3>3. ~NoRepeats(s)
      BY <2>1, <3>2 DEF NoRepeats
    <3>4. QED
      BY <3>3, SetsRepeatNothing
  <2>4. QED
    BY <2>2, <2>3
<1>4. QED
  BY <1>2, <1>3

LEMMA AscendingAreSets ==
  /\ \A s \in Seq(Refs) : AscendUpTo(Len(s), s, RefBefore) => IsSet(s)
  /\ \A s \in Seq(Edges) : AscendUpTo(Len(s), s, EdgeBefore) => IsSet(s)
<1>1. ASSUME NEW s \in Seq(Refs), AscendUpTo(Len(s), s, RefBefore) PROVE IsSet(s)
  <2>1. Len(s) \in Nat /\ \A i \in 1..Len(s) : s[i] \in Refs
    BY ElementOfSeq, LenProperties
  <2>2. \A i, j \in 1..Len(s) : i < j => s[i] # s[j]
    BY <1>1, <2>1, RefsAreOrdered DEF AscendUpTo
  <2>3. \A i, j \in 1..Len(s) : s[i] = s[j] => i = j
    BY <2>1, <2>2
  <2>4. QED
    BY <2>3, SetsRepeatNothing DEF NoRepeats
<1>2. ASSUME NEW s \in Seq(Edges), AscendUpTo(Len(s), s, EdgeBefore) PROVE IsSet(s)
  <2>1. Len(s) \in Nat /\ \A i \in 1..Len(s) : s[i] \in Edges
    BY ElementOfSeq, LenProperties
  <2>2. \A i, j \in 1..Len(s) : i < j => s[i] # s[j]
    BY <1>2, <2>1, EdgesAreOrdered DEF AscendUpTo
  <2>3. \A i, j \in 1..Len(s) : s[i] = s[j] => i = j
    BY <2>1, <2>2
  <2>4. QED
    BY <2>3, SetsRepeatNothing DEF NoRepeats
<1>3. QED
  BY <1>1, <1>2

-----------------------------------------------------------------------------
(* sort.Search *)

LEMMA SearchHalves ==
  ASSUME NEW s \in Seq(Refs), AscendUpTo(Len(s), s, RefBefore), NEW r \in Refs,
         NEW l \in Nat, NEW h \in Nat, l < h, h <= Len(s), NEW m, m = (l + h) \div 2
  PROVE  /\ m \in Nat /\ l <= m /\ m < h
         /\ RefBefore(s[m + 1], r) => \A i \in 1..(m + 1) : RefBefore(s[i], r)
         /\ ~RefBefore(s[m + 1], r) => \A i \in (m + 1)..Len(s) : ~RefBefore(s[i], r)
<1>1. m \in Nat /\ l <= m /\ m < h
  OBVIOUS
<1>2. Len(s) \in Nat /\ m + 1 \in 1..Len(s) /\ \A i \in 1..Len(s) : s[i] \in Refs
  BY <1>1, ElementOfSeq, LenProperties
<1>3. ASSUME NEW i \in 1..(m + 1), RefBefore(s[m + 1], r) PROVE RefBefore(s[i], r)
  <2>1. i \in 1..Len(s) /\ (i = m + 1 \/ i < m + 1)
    BY <1>1, <1>2
  <2>2. i = m + 1 \/ RefBefore(s[i], s[m + 1])
    BY <1>2, <2>1 DEF AscendUpTo
  <2>3. QED
    BY <1>2, <1>3, <2>1, <2>2, RefsAreOrdered
<1>4. ASSUME NEW i \in (m + 1)..Len(s), ~RefBefore(s[m + 1], r) PROVE ~RefBefore(s[i], r)
  <2>1. i \in 1..Len(s) /\ (i = m + 1 \/ m + 1 < i)
    BY <1>1, <1>2
  <2>2. i = m + 1 \/ RefBefore(s[m + 1], s[i])
    BY <1>2, <2>1 DEF AscendUpTo
  <2>3. QED
    BY <1>2, <1>4, <2>1, <2>2, RefsAreOrdered
<1>5. QED
  BY <1>1, <1>3, <1>4

LEMMA SearchFinds ==
  ASSUME NEW s \in Seq(Refs), AscendUpTo(Len(s), s, RefBefore), NEW r \in Refs,
         NEW l \in Nat, l <= Len(s),
         \A i \in 1..l : RefBefore(s[i], r), \A i \in (l + 1)..Len(s) : ~RefBefore(s[i], r)
  PROVE  (l < Len(s) /\ s[l + 1] = r) <=> r \in Items(s)
<1>1. Len(s) \in Nat /\ \A i \in 1..Len(s) : s[i] \in Refs
  BY ElementOfSeq, LenProperties
<1>2. ASSUME l < Len(s), s[l + 1] = r PROVE r \in Items(s)
  <2>1. l + 1 \in 1..Len(s)
    BY <1>1, <1>2
  <2>2. QED
    BY <1>2, <2>1 DEF Items
<1>3. ASSUME r \in Items(s) PROVE l < Len(s) /\ s[l + 1] = r
  <2>1. PICK i \in 1..Len(s) : s[i] = r
    BY <1>3 DEF Items
  <2>2. ~RefBefore(s[i], r)
    BY <2>1, RefsAreOrdered
  <2>3. i >= l + 1 /\ l < Len(s) /\ l + 1 \in (l + 1)..Len(s) /\ l + 1 \in 1..Len(s)
    BY <1>1, <2>1, <2>2
  <2>4. ~RefBefore(s[l + 1], r)
    BY <2>3
  <2>5. i = l + 1 \/ RefBefore(s[l + 1], s[i])
    BY <1>1, <2>3 DEF AscendUpTo
  <2>6. QED
    BY <2>1, <2>3, <2>4, <2>5
<1>4. QED
  BY <1>2, <1>3

-----------------------------------------------------------------------------
(* The steps of the check of a graph *)

PartsStay == UNCHANGED <<sorts, nodes, edges, kind, covered>>

LEMMA PartsMeanTheSame ==
  ASSUME GraphTyped, PartsStay
  PROVE  /\ Sound' <=> Sound
         /\ Ascending' <=> Ascending
         /\ NodesChecked' <=> NodesChecked
         /\ CoversEnough' <=> CoversEnough
         /\ CoveredChecked' <=> CoveredChecked
         /\ EdgesChecked(Len(edges))' <=> EdgesChecked(Len(edges))
         /\ EdgesChecked(checked)' <=> EdgesChecked(checked')
         /\ Items(nodes)' = Items(nodes) /\ Items(covered)' = Items(covered)
         /\ sorts' \in BOOLEAN /\ kind' \in GuaranteeKinds \cup {"none"}
         /\ nodes' \in Seq(Refs) /\ edges' \in Seq(Edges) /\ covered' \in Seq(Refs)
         /\ Given(nodes, RefBefore)' /\ Given(edges, EdgeBefore)' /\ Given(covered, RefBefore)'
<1>1. Sound' <=> Sound
  BY DEF PartsStay, Sound, IsSet, Items
<1>2. Ascending' <=> Ascending
  BY DEF PartsStay, Ascending, AscendUpTo
<1>3. NodesChecked' <=> NodesChecked
  BY DEF PartsStay, NodesChecked, AscendUpTo
<1>4. CoversEnough' <=> CoversEnough
  BY DEF PartsStay, CoversEnough
<1>5. CoveredChecked' <=> CoveredChecked
  BY <1>4 DEF PartsStay, CoveredChecked, AscendUpTo
<1>6. /\ EdgesChecked(Len(edges))' <=> EdgesChecked(Len(edges))
      /\ EdgesChecked(checked)' <=> EdgesChecked(checked')
  BY DEF PartsStay, EdgesChecked, AscendUpTo, Items
<1>7. Items(nodes)' = Items(nodes) /\ Items(covered)' = Items(covered)
  BY DEF PartsStay, Items
<1>8. /\ sorts' \in BOOLEAN /\ kind' \in GuaranteeKinds \cup {"none"}
      /\ nodes' \in Seq(Refs) /\ edges' \in Seq(Edges) /\ covered' \in Seq(Refs)
  BY DEF PartsStay, GraphTyped
<1>9. Given(nodes, RefBefore)' /\ Given(edges, EdgeBefore)' /\ Given(covered, RefBefore)'
  BY DEF PartsStay, GraphTyped, Given
<1>10. QED
  BY <1>1, <1>2, <1>3, <1>4, <1>5, <1>6, <1>7, <1>8, <1>9

LEMMA PartsMean ==
  ASSUME GraphTyped
  PROVE  /\ Len(nodes) \in Nat /\ \A i \in 1..Len(nodes) : nodes[i] \in Refs
         /\ Len(edges) \in Nat /\ \A i \in 1..Len(edges) : edges[i] \in Edges
         /\ Len(covered) \in Nat /\ \A i \in 1..Len(covered) : covered[i] \in Refs
BY ElementOfSeq, LenProperties DEF GraphTyped

(* What refuses a graph is that it is not sound, or not in order. *)
LEMMA RefusalsHold ==
  ASSUME GraphTyped, PartsStay, NoSearch, Refuse, ~(Sound /\ (sorts \/ Ascending))
  PROVE  GraphInv'
<1>1. phase' = "rejected" /\ checked' \in Nat /\ low' \in Nat /\ high' \in Nat
  BY DEF Refuse, NoSearch, GraphTyped
<1>2. GraphTyped'
  BY <1>1, PartsMeanTheSame DEF GraphTyped
<1>3. GraphsAreCanonical'
  BY <1>1, PartsMeanTheSame DEF GraphsAreCanonical, PartsStay
<1>4. ~Searching'
  BY <1>1 DEF Searching
<1>5. QED
  BY <1>1, <1>2, <1>3, <1>4 DEF GraphInv

LEMMA CheckNodeKeepsInv ==
  ASSUME GraphInv, CheckNode
  PROVE  GraphInv'
<1>1. /\ GraphTyped /\ PartsStay /\ NoSearch /\ phase = "nodes" /\ checked \in Nat /\ checked < Len(nodes)
      /\ nodes \in Seq(Refs) /\ Len(nodes) \in Nat /\ Given(nodes, RefBefore)
      /\ AscendUpTo(checked, nodes, RefBefore)
      /\ IF InOrder(nodes, RefBefore) THEN Advance ELSE Refuse
  BY PartsMean DEF GraphInv, CheckNode, PartsStay, GraphTyped
<1>2. CASE InOrder(nodes, RefBefore)
  <2>1. phase' = "nodes" /\ checked' = checked + 1
    BY <1>1, <1>2 DEF Advance
  <2>2. AscendUpTo(checked + 1, nodes, RefBefore)
    BY <1>1, <1>2, RefsAscendFurther DEF InOrder, Item
  <2>3. AscendUpTo(checked, nodes, RefBefore)'
    BY <1>1, <2>1, <2>2 DEF PartsStay, AscendUpTo
  <2>4. GraphTyped'
    BY <1>1, <2>1, PartsMeanTheSame DEF GraphTyped, NoSearch
  <2>5. checked' <= Len(nodes')
    BY <1>1, <2>1 DEF PartsStay
  <2>6. ~Searching'
    BY <2>1 DEF Searching
  <2>7. QED
    BY <2>1, <2>3, <2>4, <2>5, <2>6 DEF GraphInv, GraphsAreCanonical
<1>3. CASE ~InOrder(nodes, RefBefore)
  <2>1. ~AscendUpTo(Len(nodes), nodes, RefBefore) /\ (sorts => ~IsSet(nodes))
    BY <1>1, <1>3, RefsAscendFurther DEF InOrder, Item
  <2>2. ~(Sound /\ (sorts \/ Ascending))
    BY <2>1 DEF Sound, Ascending
  <2>3. QED
    BY <1>1, <1>3, <2>2, RefusalsHold
<1>4. QED
  BY <1>2, <1>3

LEMMA EndNodesKeepsInv ==
  ASSUME GraphInv, EndNodes
  PROVE  GraphInv'
<1>1. /\ GraphTyped /\ phase = "nodes" /\ checked = Len(nodes)
      /\ NoSearch /\ UNCHANGED <<sorts, nodes, kind, covered>>
      /\ AscendUpTo(Len(nodes), nodes, RefBefore)
  BY DEF GraphInv, EndNodes
<1>2. CASE nodes = <<>>
  <2>1. Refuse /\ PartsStay
    BY <1>1, <1>2 DEF EndNodes, PartsStay
  <2>2. Items(nodes) = {}
    BY <1>2 DEF Items
  <2>3. QED
    BY <1>1, <2>1, <2>2, RefusalsHold DEF Sound
<1>3. CASE nodes # <<>>
  <2>1. /\ phase' = "edge" /\ checked' = 0 /\ Given(edges', EdgeBefore)
        /\ \E n \in 0..MaxEdges : edges' \in [1..n -> Edges]
    BY <1>3 DEF EndNodes, Enter
  <2>2. edges' \in Seq(Edges) /\ Len(edges') \in Nat
    BY <2>1, GraphAssumptions
  <2>3. /\ nodes' \in Seq(Refs) /\ covered' \in Seq(Refs) /\ sorts' \in BOOLEAN
        /\ kind' \in GuaranteeKinds \cup {"none"}
        /\ Given(nodes, RefBefore)' /\ Given(covered, RefBefore)'
    BY <1>1 DEF GraphTyped, Given
  <2>4. Given(edges, EdgeBefore)'
    BY <1>1, <2>1 DEF Given
  <2>5. GraphTyped'
    BY <1>1, <2>1, <2>2, <2>3, <2>4 DEF GraphTyped, NoSearch
  <2>6. NodesChecked'
    BY <1>1, <1>3 DEF NodesChecked, AscendUpTo
  <2>7. EdgesChecked(checked)'
    BY <2>1, <2>2 DEF EdgesChecked, AscendUpTo
  <2>8. ~Searching'
    BY <2>1 DEF Searching
  <2>9. QED
    BY <2>1, <2>5, <2>6, <2>7, <2>8 DEF GraphInv, GraphsAreCanonical
<1>4. QED
  BY <1>2, <1>3

LEMMA BeginEdgeKeepsInv ==
  ASSUME GraphInv, BeginEdge
  PROVE  GraphInv'
<1> PICK e : e = Item(edges)
  OBVIOUS
<1>1. /\ GraphTyped /\ PartsStay /\ phase = "edge" /\ checked < Len(edges)
      /\ NodesChecked /\ EdgesChecked(checked)
      /\ IF e.from = e.to THEN Refuse /\ NoSearch
         ELSE phase' = "from" /\ UNCHANGED checked /\ BeginSearch
  BY DEF GraphInv, BeginEdge, PartsStay
<1>2. checked \in Nat /\ Len(nodes) \in Nat /\ checked + 1 \in 1..Len(edges) /\ e = edges[checked + 1]
  BY <1>1, PartsMean DEF GraphTyped, Item
<1>3. CASE e.from = e.to
  <2>1. e \in Items(edges)
    BY <1>2 DEF Items
  <2>2. ~Sound
    BY <1>3, <2>1 DEF Sound
  <2>3. QED
    BY <1>1, <1>3, <2>2, RefusalsHold
<1>4. CASE e.from # e.to
  <2>1. phase' = "from" /\ checked' = checked /\ low' = 0 /\ high' = Len(nodes) /\ nodes' = nodes /\ edges' = edges
    BY <1>1, <1>4 DEF BeginSearch, PartsStay
  <2>2. GraphTyped'
    BY <1>1, <1>2, <2>1, PartsMeanTheSame DEF GraphTyped
  <2>3. NodesChecked' /\ EdgesChecked(checked)'
    BY <1>1, <2>1, PartsMeanTheSame
  <2>4. checked' < Len(edges') /\ Item(edges)'.from # Item(edges)'.to
    BY <1>1, <1>4, <2>1 DEF Item
  <2>5. SearchInv'
    BY <1>2, <2>1 DEF SearchInv
  <2>6. QED
    BY <2>1, <2>2, <2>3, <2>4, <2>5 DEF GraphInv, GraphsAreCanonical
<1>5. QED
  BY <1>3, <1>4

LEMMA EndEdgesKeepsInv ==
  ASSUME GraphInv, EndEdges
  PROVE  GraphInv'
<1>1. /\ GraphTyped /\ phase = "edge" /\ checked = Len(edges) /\ NodesChecked /\ EdgesChecked(Len(edges))
      /\ NoSearch /\ UNCHANGED <<sorts, nodes, edges>>
      /\ phase' = "guarantee" /\ checked' = 0 /\ kind' \in GuaranteeKinds
      /\ \E n \in 0..MaxNodes : covered' \in [1..n -> Refs]
      /\ Given(covered', RefBefore)
  BY DEF GraphInv, EndEdges, Enter
<1>2. covered' \in Seq(Refs) /\ Len(covered') \in Nat
  BY <1>1, GraphAssumptions
<1>3. Given(nodes, RefBefore)' /\ Given(edges, EdgeBefore)' /\ Given(covered, RefBefore)'
  BY <1>1 DEF GraphTyped, Given
<1>4. GraphTyped'
  BY <1>1, <1>2, <1>3 DEF GraphTyped, NoSearch
<1>5. NodesChecked' /\ EdgesChecked(Len(edges))'
  BY <1>1 DEF NodesChecked, EdgesChecked, AscendUpTo, Items
<1>6. checked' <= Len(covered') /\ AscendUpTo(checked, covered, RefBefore)'
  BY <1>1, <1>2 DEF AscendUpTo
<1>7. ~Searching'
  BY <1>1 DEF Searching
<1>8. ~(checked' > 0)
  BY <1>1
<1>9. QED
  BY <1>1, <1>4, <1>5, <1>6, <1>7, <1>8 DEF GraphInv, GraphsAreCanonical

(* What is sought while a search is on. *)
LEMMA SoughtMeans ==
  ASSUME GraphInv, Searching
  PROVE  /\ Sought \in Refs /\ NodesChecked /\ SearchInv
         /\ phase \in {"from", "to"} => /\ checked + 1 \in 1..Len(edges) /\ Item(edges) \in Edges
                                        /\ Item(edges) = edges[checked + 1]
         /\ phase = "from" => Sought = Item(edges).from
         /\ phase = "to" => Sought = Item(edges).to
         /\ phase = "covered" => Sought = covered[checked + 1] /\ checked + 1 \in 1..Len(covered)
<1>1. GraphTyped /\ NodesChecked /\ SearchInv /\ phase \in {"from", "to", "covered"} /\ checked \in Nat
  BY DEF GraphInv, Searching, GraphTyped
<1>2. ASSUME phase \in {"from", "to"}
      PROVE  /\ checked + 1 \in 1..Len(edges) /\ Item(edges) = edges[checked + 1]
             /\ Item(edges) \in Edges /\ Item(edges).from \in Refs /\ Item(edges).to \in Refs
  <2>1. checked < Len(edges) /\ Len(edges) \in Nat
    BY <1>1, <1>2, PartsMean DEF GraphInv
  <2>2. checked + 1 \in 1..Len(edges) /\ Item(edges) = edges[checked + 1]
    BY <1>1, <2>1 DEF Item
  <2>3. Item(edges) \in Edges
    BY <1>1, <2>2, PartsMean
  <2>4. QED
    BY <2>2, <2>3 DEF Edges
<1>3. ASSUME phase = "covered"
      PROVE  checked + 1 \in 1..Len(covered) /\ Item(covered) = covered[checked + 1] /\ Item(covered) \in Refs
  <2>1. checked < Len(covered) /\ Len(covered) \in Nat
    BY <1>1, <1>3, PartsMean DEF Searching
  <2>2. checked + 1 \in 1..Len(covered) /\ Item(covered) = covered[checked + 1]
    BY <1>1, <2>1 DEF Item
  <2>3. QED
    BY <1>1, <2>2, PartsMean
<1>4. /\ phase = "from" => Sought = Item(edges).from
      /\ phase = "to" => Sought = Item(edges).to
      /\ phase = "covered" => Sought = Item(covered)
  BY DEF Sought
<1>5. QED
  BY <1>1, <1>2, <1>3, <1>4

LEMMA HalveKeepsInv ==
  ASSUME GraphInv, Halve
  PROVE  GraphInv'
<1> PICK m : m = (low + high) \div 2
  OBVIOUS
<1>1. /\ GraphTyped /\ PartsStay /\ Searching /\ low < high /\ UNCHANGED <<phase, checked>>
      /\ \/ RefBefore(nodes[m + 1], Sought) /\ low' = m + 1 /\ high' = high
         \/ ~RefBefore(nodes[m + 1], Sought) /\ high' = m /\ low' = low
  BY DEF GraphInv, Halve, PartsStay
<1>2. /\ nodes \in Seq(Refs) /\ Len(nodes) \in Nat /\ low \in Nat /\ high \in Nat
      /\ AscendUpTo(Len(nodes), nodes, RefBefore) /\ Sought \in Refs /\ SearchInv
  BY <1>1, SoughtMeans, PartsMean DEF NodesChecked, GraphTyped
<1>3. /\ low <= high /\ high <= Len(nodes)
      /\ \A i \in 1..low : RefBefore(nodes[i], Sought)
      /\ \A i \in (high + 1)..Len(nodes) : ~RefBefore(nodes[i], Sought)
  BY <1>2 DEF SearchInv
<1>4. /\ m \in Nat /\ low <= m /\ m < high
      /\ RefBefore(nodes[m + 1], Sought) => \A i \in 1..(m + 1) : RefBefore(nodes[i], Sought)
      /\ ~RefBefore(nodes[m + 1], Sought) => \A i \in (m + 1)..Len(nodes) : ~RefBefore(nodes[i], Sought)
  <2>1. low < high /\ high <= Len(nodes) /\ m = (low + high) \div 2
    BY <1>1, <1>3
  <2>2. /\ nodes \in Seq(Refs) /\ AscendUpTo(Len(nodes), nodes, RefBefore) /\ Sought \in Refs
        /\ low \in Nat /\ high \in Nat
    BY <1>2
  <2>3. QED
    BY <2>1, <2>2, SearchHalves
<1>5. Sought' = Sought /\ nodes' = nodes /\ (Searching' <=> Searching)
  BY <1>1 DEF PartsStay, Sought, Searching, Item
<1>6. SearchInv'
  BY <1>1, <1>2, <1>3, <1>4, <1>5 DEF SearchInv
<1>7. low' \in Nat /\ high' \in Nat
  BY <1>1, <1>2, <1>4
<1>8. GraphTyped'
  BY <1>1, <1>7, PartsMeanTheSame DEF GraphTyped
<1>9. phase' = phase /\ checked' = checked /\ phase \in {"from", "to", "covered"}
  BY <1>1 DEF Searching
<1>10. /\ phase \in {"from", "to"} => NodesChecked' /\ EdgesChecked(checked)'
       /\ phase = "covered" =>
            NodesChecked' /\ EdgesChecked(Len(edges))' /\ kind' \in GuaranteeKinds /\ CoveredChecked'
  <2>1. /\ phase \in {"from", "to"} => NodesChecked /\ EdgesChecked(checked)
        /\ phase = "covered" =>
             NodesChecked /\ EdgesChecked(Len(edges)) /\ kind \in GuaranteeKinds /\ CoveredChecked
    BY DEF GraphInv
  <2>2. kind' = kind
    BY <1>1 DEF PartsStay
  <2>3. QED
    BY <1>1, <1>9, <2>1, <2>2, PartsMeanTheSame
<1>11. /\ phase \in {"from", "to"} => checked' < Len(edges') /\ Item(edges)'.from # Item(edges)'.to
       /\ phase = "to" => Item(edges)'.from \in Items(nodes)'
       /\ phase = "covered" =>
            checked' <= Len(covered') /\ \A i \in 1..checked' : covered'[i] \in Items(nodes)'
  <2>1. edges' = edges /\ covered' = covered /\ Items(nodes)' = Items(nodes) /\ Item(edges)' = Item(edges)
    BY <1>1, <1>9, PartsMeanTheSame DEF PartsStay, Item
  <2>2. QED
    BY <1>9, <2>1 DEF GraphInv
<1>12. QED
  BY <1>6, <1>8, <1>9, <1>10, <1>11 DEF GraphInv, GraphsAreCanonical

(* A search ends at the node that is sought, if there is one. *)
LEMMA SearchTells ==
  ASSUME GraphInv, Searching, low = high
  PROVE  Found <=> Sought \in Items(nodes)
<1>1. /\ nodes \in Seq(Refs) /\ low \in Nat /\ Sought \in Refs
      /\ AscendUpTo(Len(nodes), nodes, RefBefore)
  BY SoughtMeans DEF GraphInv, GraphTyped, NodesChecked
<1>2. /\ low <= Len(nodes) /\ \A i \in 1..low : RefBefore(nodes[i], Sought)
      /\ \A i \in (low + 1)..Len(nodes) : ~RefBefore(nodes[i], Sought)
  BY SoughtMeans DEF SearchInv
<1>3. QED
  BY <1>1, <1>2, SearchFinds DEF Found

LEMMA MissesRefuse ==
  ASSUME GraphInv, EndSearch, ~Found
  PROVE  GraphInv'
<1>1. GraphTyped /\ PartsStay /\ NoSearch /\ Refuse /\ Searching /\ low = high
  BY DEF GraphInv, EndSearch, PartsStay
<1>2. Sought \notin Items(nodes)
  BY <1>1, SearchTells
<1>3. CASE phase \in {"from", "to"}
  <2>1. Item(edges) \in Items(edges) /\ (Sought = Item(edges).from \/ Sought = Item(edges).to)
    BY <1>1, <1>3, SoughtMeans DEF Items
  <2>2. ~Sound
    BY <1>2, <2>1 DEF Sound
  <2>3. QED
    BY <1>1, <2>2, RefusalsHold
<1>4. CASE phase = "covered"
  <2>1. Sought \in Items(covered)
    BY <1>1, <1>4, SoughtMeans DEF Items
  <2>2. ~Sound
    BY <1>2, <2>1 DEF Sound
  <2>3. QED
    BY <1>1, <2>2, RefusalsHold
<1>5. QED
  BY <1>1, <1>3, <1>4 DEF Searching

LEMMA FoundFromKeepsInv ==
  ASSUME GraphInv, EndSearch, Found, phase = "from"
  PROVE  GraphInv'
<1>1. /\ GraphTyped /\ PartsStay /\ Searching /\ low = high
      /\ phase' = "to" /\ checked' = checked /\ low' = 0 /\ high' = Len(nodes)
      /\ nodes' = nodes /\ edges' = edges
  BY DEF GraphInv, EndSearch, PartsStay, BeginSearch
<1>2. NodesChecked /\ EdgesChecked(checked) /\ checked < Len(edges) /\ Item(edges).from # Item(edges).to
  BY DEF GraphInv
<1>3. Item(edges).from \in Items(nodes)
  BY <1>1, SearchTells, SoughtMeans
<1>4. Item(edges)' = Item(edges) /\ Items(nodes)' = Items(nodes) /\ Len(nodes) \in Nat /\ checked \in Nat
  BY <1>1, PartsMean DEF Item, Items, GraphTyped
<1>5. GraphTyped'
  BY <1>1, <1>4, PartsMeanTheSame DEF GraphTyped
<1>6. NodesChecked' /\ EdgesChecked(checked)'
  BY <1>1, <1>2, PartsMeanTheSame
<1>7. SearchInv'
  BY <1>1, <1>4 DEF SearchInv
<1>8. QED
  BY <1>1, <1>2, <1>3, <1>4, <1>5, <1>6, <1>7 DEF GraphInv, GraphsAreCanonical

LEMMA FoundToKeepsInv ==
  ASSUME GraphInv, EndSearch, Found, phase = "to"
  PROVE  GraphInv'
<1> PICK e : e = Item(edges)
  OBVIOUS
<1>1. /\ GraphTyped /\ PartsStay /\ NoSearch /\ Searching /\ low = high
      /\ IF InOrder(edges, EdgeBefore) THEN phase' = "edge" /\ checked' = checked + 1 ELSE Refuse
  BY DEF GraphInv, EndSearch, PartsStay
<1>2. /\ NodesChecked /\ EdgesChecked(checked) /\ checked < Len(edges) /\ checked \in Nat
      /\ e.from # e.to /\ e.from \in Items(nodes) /\ Len(edges) \in Nat
  BY <1>1, PartsMean DEF GraphInv, GraphTyped
<1>3. e.to \in Items(nodes) /\ e = edges[checked + 1] /\ e = Item(edges)
  BY <1>1, SearchTells, SoughtMeans
<1>4. edges \in Seq(Edges) /\ Given(edges, EdgeBefore) /\ AscendUpTo(checked, edges, EdgeBefore)
  BY <1>1, <1>2 DEF GraphTyped, EdgesChecked
<1>5. CASE InOrder(edges, EdgeBefore)
  <2>1. phase' = "edge" /\ checked' = checked + 1
    BY <1>1, <1>5
  <2>2. AscendUpTo(checked + 1, edges, EdgeBefore)
    BY <1>2, <1>4, <1>5, EdgesAscendFurther DEF InOrder, Item
  <2>3. \A i \in 1..(checked + 1) : i \in 1..checked \/ i = checked + 1
    BY <1>2
  <2>4. \A i \in 1..(checked + 1) : /\ edges[i].from # edges[i].to
                                    /\ edges[i].from \in Items(nodes) /\ edges[i].to \in Items(nodes)
    BY <1>2, <1>3, <2>3 DEF EdgesChecked
  <2>5. EdgesChecked(checked + 1)
    BY <1>2, <2>2, <2>4 DEF EdgesChecked
  <2>6. NodesChecked' /\ EdgesChecked(checked)'
    BY <1>1, <1>2, <2>1, <2>5, PartsMeanTheSame
  <2>7. GraphTyped'
    BY <1>1, <1>2, <2>1, PartsMeanTheSame DEF GraphTyped, NoSearch
  <2>8. ~Searching'
    BY <2>1 DEF Searching
  <2>9. QED
    BY <2>1, <2>6, <2>7, <2>8 DEF GraphInv, GraphsAreCanonical
<1>6. CASE ~InOrder(edges, EdgeBefore)
  <2>1. ~AscendUpTo(Len(edges), edges, EdgeBefore) /\ (sorts => ~IsSet(edges))
    BY <1>2, <1>4, <1>6, EdgesAscendFurther DEF InOrder, Item
  <2>2. ~(Sound /\ (sorts \/ Ascending))
    BY <2>1 DEF Sound, Ascending
  <2>3. QED
    BY <1>1, <1>6, <2>2, RefusalsHold
<1>7. QED
  BY <1>5, <1>6

LEMMA FoundCoveredKeepsInv ==
  ASSUME GraphInv, EndSearch, Found, phase = "covered"
  PROVE  GraphInv'
<1>1. /\ GraphTyped /\ PartsStay /\ Searching /\ low = high
      /\ phase' = "covered" /\ checked' = checked + 1 /\ low' = 0 /\ high' = Len(nodes)
      /\ nodes' = nodes /\ covered' = covered /\ kind' = kind
  BY DEF GraphInv, EndSearch, PartsStay, BeginSearch, Advance
<1>2. /\ NodesChecked /\ EdgesChecked(Len(edges)) /\ kind \in GuaranteeKinds /\ CoveredChecked
      /\ checked \in Nat /\ \A i \in 1..checked : covered[i] \in Items(nodes)
  BY <1>1 DEF GraphInv, GraphTyped
<1>3. covered[checked + 1] \in Items(nodes) /\ checked + 1 <= Len(covered) /\ Len(nodes) \in Nat
  BY <1>1, SearchTells, SoughtMeans, PartsMean
<1>4. \A i \in 1..(checked + 1) : covered[i] \in Items(nodes)
  <2>1. \A i \in 1..(checked + 1) : i \in 1..checked \/ i = checked + 1
    BY <1>2
  <2>2. QED
    BY <1>2, <1>3, <2>1
<1>5. Items(nodes)' = Items(nodes)
  BY <1>1, PartsMeanTheSame
<1>6. GraphTyped'
  BY <1>1, <1>2, <1>3, PartsMeanTheSame DEF GraphTyped
<1>7. NodesChecked' /\ EdgesChecked(Len(edges))' /\ CoveredChecked'
  BY <1>1, <1>2, PartsMeanTheSame
<1>8. SearchInv'
  BY <1>1, <1>3 DEF SearchInv
<1>9. QED
  BY <1>1, <1>2, <1>3, <1>4, <1>5, <1>6, <1>7, <1>8 DEF GraphInv, GraphsAreCanonical

LEMMA EndSearchKeepsInv ==
  ASSUME GraphInv, EndSearch
  PROVE  GraphInv'
<1>1. phase \in {"from", "to", "covered"}
  BY DEF EndSearch, Searching
<1>2. QED
  BY <1>1, MissesRefuse, FoundFromKeepsInv, FoundToKeepsInv, FoundCoveredKeepsInv

LEMMA CoversEnoughMeans ==
  ASSUME GraphTyped, kind \in GuaranteeKinds, IsSet(covered)
  PROVE  CoversEnough <=>
           /\ kind = "read_only_inventory" <=> Items(covered) = {}
           /\ kind = "exact_target" => Cardinality(Items(covered)) = 1
<1>1. Cardinality(Items(covered)) = Len(covered)
  BY DEF IsSet
<1>2. Items(covered) = {} <=> covered = <<>>
  <2>1. covered \in Seq(Refs) /\ Len(covered) \in Nat
    BY PartsMean DEF GraphTyped
  <2>2. covered # <<>> => 1 \in 1..Len(covered)
    BY <2>1
  <2>3. QED
    BY <2>2 DEF Items
<1>3. Len(covered) = 1 => covered # <<>>
  OBVIOUS
<1>4. CASE kind = "read_only_inventory"
  BY <1>2, <1>4 DEF CoversEnough
<1>5. CASE kind = "exact_target"
  BY <1>1, <1>2, <1>3, <1>5 DEF CoversEnough
<1>6. CASE kind \in {"bounded_effect", "exact_graph"}
  BY <1>2, <1>6 DEF CoversEnough
<1>7. QED
  BY <1>4, <1>5, <1>6 DEF GuaranteeKinds

LEMMA CheckGuaranteeKeepsInv ==
  ASSUME GraphInv, CheckGuarantee
  PROVE  GraphInv'
<1>1. /\ GraphTyped /\ PartsStay /\ NoSearch /\ phase = "guarantee" /\ checked \in Nat /\ checked < Len(covered)
      /\ covered \in Seq(Refs) /\ Len(covered) \in Nat /\ Given(covered, RefBefore)
      /\ AscendUpTo(checked, covered, RefBefore)
      /\ NodesChecked /\ EdgesChecked(Len(edges)) /\ kind \in GuaranteeKinds
      /\ IF CoversEnough /\ InOrder(covered, RefBefore) THEN Advance ELSE Refuse
  BY PartsMean DEF GraphInv, CheckGuarantee, PartsStay, GraphTyped
<1>2. CASE CoversEnough /\ InOrder(covered, RefBefore)
  <2>1. phase' = "guarantee" /\ checked' = checked + 1 /\ covered' = covered /\ kind' = kind
    BY <1>1, <1>2 DEF Advance, PartsStay
  <2>2. AscendUpTo(checked + 1, covered, RefBefore)
    BY <1>1, <1>2, RefsAscendFurther DEF InOrder, Item
  <2>3. AscendUpTo(checked, covered, RefBefore)' /\ checked' <= Len(covered')
    BY <1>1, <2>1, <2>2 DEF AscendUpTo
  <2>4. GraphTyped'
    BY <1>1, <2>1, PartsMeanTheSame DEF GraphTyped, NoSearch
  <2>5. NodesChecked' /\ EdgesChecked(Len(edges))' /\ CoversEnough'
    BY <1>1, <1>2, PartsMeanTheSame
  <2>6. ~Searching'
    BY <2>1 DEF Searching
  <2>7. QED
    BY <1>1, <2>1, <2>3, <2>4, <2>5, <2>6 DEF GraphInv, GraphsAreCanonical
<1>3. CASE ~CoversEnough
  <2>1. ~Sound
    BY <1>1, <1>3, CoversEnoughMeans DEF Sound
  <2>2. QED
    BY <1>1, <1>3, <2>1, RefusalsHold
<1>4. CASE ~InOrder(covered, RefBefore)
  <2>1. ~AscendUpTo(Len(covered), covered, RefBefore) /\ (sorts => ~IsSet(covered))
    BY <1>1, <1>4, RefsAscendFurther DEF InOrder, Item
  <2>2. ~(Sound /\ (sorts \/ Ascending))
    BY <2>1 DEF Sound, Ascending
  <2>3. QED
    BY <1>1, <1>4, <2>2, RefusalsHold
<1>5. QED
  BY <1>2, <1>3, <1>4

LEMMA EndGuaranteeKeepsInv ==
  ASSUME GraphInv, EndGuarantee
  PROVE  GraphInv'
<1>1. /\ GraphTyped /\ PartsStay /\ phase = "guarantee" /\ checked = Len(covered)
      /\ AscendUpTo(Len(covered), covered, RefBefore)
      /\ NodesChecked /\ EdgesChecked(Len(edges)) /\ kind \in GuaranteeKinds
      /\ Len(covered) \in Nat /\ Len(nodes) \in Nat
      /\ IF CoversEnough THEN Enter("covered") /\ BeginSearch ELSE Refuse /\ NoSearch
  BY PartsMean DEF GraphInv, EndGuarantee, PartsStay
<1>2. CASE CoversEnough
  <2>1. /\ phase' = "covered" /\ checked' = 0 /\ low' = 0 /\ high' = Len(nodes)
        /\ nodes' = nodes /\ covered' = covered /\ kind' = kind
    BY <1>1, <1>2 DEF Enter, BeginSearch, PartsStay
  <2>2. GraphTyped'
    BY <1>1, <2>1, PartsMeanTheSame DEF GraphTyped
  <2>3. NodesChecked' /\ EdgesChecked(Len(edges))' /\ CoveredChecked'
    BY <1>1, <1>2, PartsMeanTheSame DEF CoveredChecked
  <2>4. SearchInv'
    BY <1>1, <2>1 DEF SearchInv
  <2>5. checked' <= Len(covered') /\ \A i \in 1..checked' : covered'[i] \in Items(nodes)'
    BY <1>1, <2>1
  <2>6. QED
    BY <1>1, <2>1, <2>2, <2>3, <2>4, <2>5 DEF GraphInv, GraphsAreCanonical
<1>3. CASE ~CoversEnough
  <2>1. IsSet(covered)
    BY <1>1, AscendingAreSets DEF GraphTyped
  <2>2. ~Sound
    BY <1>1, <1>3, <2>1, CoversEnoughMeans DEF Sound
  <2>3. QED
    BY <1>1, <1>3, <2>2, RefusalsHold
<1>4. QED
  BY <1>2, <1>3

(* All the parts are checked; an exact graph must be covered, besides. *)
LEMMA CheckedIsSound ==
  ASSUME GraphTyped, NodesChecked, EdgesChecked(Len(edges)), CoveredChecked, kind \in GuaranteeKinds,
         \A i \in 1..Len(covered) : covered[i] \in Items(nodes)
  PROVE  Ascending /\ (Sound <=> (kind = "exact_graph" => Items(covered) = Items(nodes)))
<1>1. Ascending
  BY DEF Ascending, NodesChecked, EdgesChecked, CoveredChecked
<1>2. IsSet(nodes) /\ IsSet(edges) /\ IsSet(covered)
  BY <1>1, AscendingAreSets DEF GraphTyped, Ascending
<1>3. Items(nodes) # {}
  <2>1. nodes # <<>> /\ nodes \in Seq(Refs) /\ Len(nodes) \in Nat
    BY PartsMean DEF NodesChecked, GraphTyped
  <2>2. 1 \in 1..Len(nodes)
    BY <2>1
  <2>3. QED
    BY <2>2 DEF Items
<1>4. \A e \in Items(edges) : e.from # e.to /\ {e.from, e.to} \subseteq Items(nodes)
  <2>1. ASSUME NEW e \in Items(edges) PROVE e.from # e.to /\ e.from \in Items(nodes) /\ e.to \in Items(nodes)
    <3>1. PICK i \in 1..Len(edges) : e = edges[i]
      BY DEF Items
    <3>2. QED
      BY <3>1 DEF EdgesChecked
  <2>2. QED
    BY <2>1
<1>5. Items(covered) \subseteq Items(nodes)
  <2>1. ASSUME NEW r \in Items(covered) PROVE r \in Items(nodes)
    <3>1. PICK i \in 1..Len(covered) : r = covered[i]
      BY DEF Items
    <3>2. QED
      BY <3>1
  <2>2. QED
    BY <2>1
<1>6. /\ kind = "read_only_inventory" <=> Items(covered) = {}
      /\ kind = "exact_target" => Cardinality(Items(covered)) = 1
  BY <1>2, CoversEnoughMeans DEF CoveredChecked
<1>7. QED
  BY <1>1, <1>2, <1>3, <1>4, <1>5, <1>6 DEF Sound

LEMMA AcceptancesHold ==
  ASSUME GraphTyped, PartsStay, NoSearch, Enter("accepted"), Sound, Ascending
  PROVE  GraphInv'
<1>1. phase' = "accepted" /\ checked' \in Nat /\ low' \in Nat /\ high' \in Nat
  BY DEF Enter, NoSearch, GraphTyped
<1>2. GraphTyped'
  BY <1>1, PartsMeanTheSame DEF GraphTyped
<1>3. GraphsAreCanonical'
  BY <1>1, PartsMeanTheSame DEF GraphsAreCanonical
<1>4. ~Searching'
  BY <1>1 DEF Searching
<1>5. QED
  BY <1>1, <1>2, <1>3, <1>4 DEF GraphInv

LEMMA EndCoveredKeepsInv ==
  ASSUME GraphInv, EndCovered
  PROVE  GraphInv'
<1>1. /\ GraphTyped /\ PartsStay /\ NoSearch /\ phase = "covered"
      /\ NodesChecked /\ EdgesChecked(Len(edges)) /\ CoveredChecked /\ kind \in GuaranteeKinds
      /\ \A i \in 1..Len(covered) : covered[i] \in Items(nodes)
      /\ Len(nodes) \in Nat /\ Len(covered) \in Nat
      /\ IF kind # "exact_graph" THEN Enter("accepted")
         ELSE IF Len(covered) = Len(nodes) THEN Enter("same") ELSE Refuse
  BY PartsMean DEF GraphInv, EndCovered, PartsStay
<1>2. Ascending /\ (Sound <=> (kind = "exact_graph" => Items(covered) = Items(nodes)))
  BY <1>1, CheckedIsSound
<1>3. CASE kind # "exact_graph"
  BY <1>1, <1>2, <1>3, AcceptancesHold
<1>4. CASE kind = "exact_graph" /\ Len(covered) # Len(nodes)
  <2>1. ~Sound
    BY <1>4 DEF Sound, IsSet
  <2>2. QED
    BY <1>1, <1>4, <2>1, RefusalsHold
<1>5. CASE kind = "exact_graph" /\ Len(covered) = Len(nodes)
  <2>1. phase' = "same" /\ checked' = 0 /\ nodes' = nodes /\ covered' = covered /\ kind' = kind
    BY <1>1, <1>5 DEF Enter, PartsStay
  <2>2. GraphTyped'
    BY <1>1, <2>1, PartsMeanTheSame DEF GraphTyped, NoSearch
  <2>3. NodesChecked' /\ EdgesChecked(Len(edges))' /\ CoveredChecked'
    BY <1>1, PartsMeanTheSame
  <2>4. Items(covered)' \subseteq Items(nodes)'
    <3>1. Items(covered) \subseteq Items(nodes)
      BY <1>1 DEF Items
    <3>2. QED
      BY <1>1, <3>1, PartsMeanTheSame
  <2>5. checked' <= Len(nodes') /\ \A i \in 1..checked' : nodes'[i] = covered'[i]
    BY <1>1, <2>1
  <2>6. ~Searching'
    BY <2>1 DEF Searching
  <2>7. QED
    BY <1>1, <1>5, <2>1, <2>2, <2>3, <2>4, <2>5, <2>6 DEF GraphInv, GraphsAreCanonical
<1>6. QED
  BY <1>3, <1>4, <1>5

(* Ascending sequences that part at some item are not of one set: the smaller *)
(* of the two items is nowhere in the other sequence.                         *)
LEMMA AscendingPart ==
  ASSUME NEW s \in Seq(Refs), NEW t \in Seq(Refs),
         AscendUpTo(Len(s), s, RefBefore), AscendUpTo(Len(t), t, RefBefore),
         NEW k \in 1..Len(s), k \in 1..Len(t), \A i \in 1..(k - 1) : s[i] = t[i],
         RefBefore(s[k], t[k])
  PROVE  s[k] \in Items(s) /\ s[k] \notin Items(t)
<1>1. /\ Len(s) \in Nat /\ \A i \in 1..Len(s) : s[i] \in Refs
      /\ Len(t) \in Nat /\ \A i \in 1..Len(t) : t[i] \in Refs
  BY ElementOfSeq, LenProperties
<1>2. ASSUME NEW j \in 1..Len(t), t[j] = s[k] PROVE FALSE
  <2>1. CASE j < k
    <3>1. j \in 1..(k - 1) /\ j \in 1..Len(s) /\ k \in 1..Len(s)
      BY <1>1, <2>1
    <3>2. s[j] = s[k] /\ RefBefore(s[j], s[k])
      BY <1>2, <2>1, <3>1 DEF AscendUpTo
    <3>3. QED
      BY <1>1, <3>1, <3>2, RefsAreOrdered
  <2>2. CASE j = k
    BY <1>1, <1>2, <2>2, RefsAreOrdered
  <2>3. CASE k < j
    <3>1. RefBefore(t[k], t[j])
      BY <2>3 DEF AscendUpTo
    <3>2. QED
      BY <1>1, <1>2, <3>1, RefsAreOrdered
  <2>4. QED
    BY <1>1, <2>1, <2>2, <2>3
<1>3. QED
  BY <1>2 DEF Items

LEMMA CompareKeepsGraphInv ==
  ASSUME GraphInv, CompareNode \/ EndCompare
  PROVE  GraphInv'
<1>1. /\ GraphTyped /\ PartsStay /\ NoSearch /\ phase = "same" /\ checked \in Nat
      /\ NodesChecked /\ EdgesChecked(Len(edges)) /\ CoveredChecked
      /\ kind = "exact_graph" /\ kind \in GuaranteeKinds
      /\ Len(covered) = Len(nodes) /\ Items(covered) \subseteq Items(nodes)
      /\ checked <= Len(nodes) /\ \A i \in 1..checked : nodes[i] = covered[i]
      /\ Len(nodes) \in Nat /\ nodes \in Seq(Refs) /\ covered \in Seq(Refs)
  BY PartsMean DEF GraphInv, CompareNode, EndCompare, PartsStay, GraphTyped
<1>2. \A i \in 1..Len(covered) : covered[i] \in Items(nodes)
  BY <1>1 DEF Items
<1>3. Ascending /\ (Sound <=> Items(covered) = Items(nodes))
  BY <1>1, <1>2, CheckedIsSound
<1>4. CASE CompareNode /\ Item(nodes) = Item(covered)
  <2>1. /\ phase' = "same" /\ checked' = checked + 1 /\ checked < Len(nodes)
        /\ nodes' = nodes /\ covered' = covered /\ kind' = kind
    BY <1>1, <1>4 DEF CompareNode, Advance, PartsStay
  <2>2. checked' <= Len(nodes') /\ \A i \in 1..checked' : nodes'[i] = covered'[i]
    <3>1. \A i \in 1..(checked + 1) : i \in 1..checked \/ i = checked + 1
      BY <1>1
    <3>2. QED
      BY <1>1, <1>4, <2>1, <3>1 DEF Item
  <2>3. GraphTyped'
    BY <1>1, <2>1, PartsMeanTheSame DEF GraphTyped, NoSearch
  <2>4. NodesChecked' /\ EdgesChecked(Len(edges))' /\ CoveredChecked' /\ Items(covered)' \subseteq Items(nodes)'
    BY <1>1, PartsMeanTheSame
  <2>5. ~Searching'
    BY <2>1 DEF Searching
  <2>6. QED
    BY <1>1, <2>1, <2>2, <2>3, <2>4, <2>5 DEF GraphInv, GraphsAreCanonical
<1>5. CASE CompareNode /\ Item(nodes) # Item(covered)
  <2> PICK k : k = checked + 1
    OBVIOUS
  <2>1. /\ k \in 1..Len(nodes) /\ k \in 1..Len(covered) /\ nodes[k] # covered[k]
        /\ \A i \in 1..(k - 1) : nodes[i] = covered[i]
    BY <1>1, <1>5 DEF CompareNode, Item
  <2>2. nodes[k] \in Refs /\ covered[k] \in Refs
    BY <1>1, <2>1, PartsMean
  <2>3. RefBefore(nodes[k], covered[k]) \/ RefBefore(covered[k], nodes[k])
    BY <2>1, <2>2, RefsAreOrdered
  <2>4. AscendUpTo(Len(nodes), nodes, RefBefore) /\ AscendUpTo(Len(covered), covered, RefBefore)
    BY <1>3 DEF Ascending
  <2>5. Items(covered) # Items(nodes)
    <3>1. CASE RefBefore(nodes[k], covered[k])
      BY <1>1, <2>1, <2>4, <3>1, AscendingPart
    <3>2. CASE RefBefore(covered[k], nodes[k])
      BY <1>1, <2>1, <2>4, <3>2, AscendingPart
    <3>3. QED
      BY <2>3, <3>1, <3>2
  <2>6. QED
    BY <1>1, <1>3, <1>5, <2>5, RefusalsHold DEF CompareNode
<1>6. CASE EndCompare
  <2>1. \A i \in 1..Len(nodes) : nodes[i] = covered[i]
    BY <1>1, <1>6 DEF EndCompare
  <2>2. Items(covered) = Items(nodes)
    BY <1>1, <2>1 DEF Items
  <2>3. QED
    BY <1>1, <1>3, <1>6, <2>2, AcceptancesHold DEF EndCompare
<1>7. QED
  BY <1>4, <1>5, <1>6

-----------------------------------------------------------------------------
(* What is checked of a graph so far holds, and a search keeps what it seeks *)
(* between its bounds.                                                       *)
THEOREM GraphInvariantHolds == GraphSpec => []GraphInv
<1>1. GraphInit => GraphInv
  <2> SUFFICES ASSUME GraphInit PROVE GraphInv
    OBVIOUS
  <2>1. /\ nodes \in Seq(Refs) /\ Len(nodes) \in Nat
        /\ edges = <<>> /\ covered = <<>> /\ kind = "none" /\ sorts \in BOOLEAN
        /\ phase = "nodes" /\ checked = 0 /\ low = 0 /\ high = 0
    BY GraphAssumptions DEF GraphInit
  <2>2. Given(nodes, RefBefore) /\ Given(edges, EdgeBefore) /\ Given(covered, RefBefore)
    BY <2>1 DEF GraphInit, Given
  <2>3. GraphTyped
    BY <2>1, <2>2 DEF GraphTyped
  <2>4. checked <= Len(nodes) /\ AscendUpTo(checked, nodes, RefBefore)
    BY <2>1 DEF AscendUpTo
  <2>5. ~Searching
    BY <2>1 DEF Searching
  <2>6. QED
    BY <2>1, <2>3, <2>4, <2>5 DEF GraphInv, GraphsAreCanonical
<1>2. GraphInv /\ [GraphNext]_graphVars => GraphInv'
  <2> SUFFICES ASSUME GraphInv, [GraphNext]_graphVars PROVE GraphInv'
    OBVIOUS
  <2>1. CASE CheckNode \/ EndNodes
    BY <2>1, CheckNodeKeepsInv, EndNodesKeepsInv
  <2>2. CASE BeginEdge \/ EndEdges
    BY <2>2, BeginEdgeKeepsInv, EndEdgesKeepsInv
  <2>3. CASE Halve \/ EndSearch
    BY <2>3, HalveKeepsInv, EndSearchKeepsInv
  <2>4. CASE CheckGuarantee \/ EndGuarantee \/ EndCovered
    BY <2>4, CheckGuaranteeKeepsInv, EndGuaranteeKeepsInv, EndCoveredKeepsInv
  <2>5. CASE CompareNode \/ EndCompare
    BY <2>5, CompareKeepsGraphInv
  <2>6. CASE UNCHANGED graphVars
    <3>1. GraphTyped /\ PartsStay /\ UNCHANGED <<phase, checked, low, high, nodes, edges, covered, kind, sorts>>
      BY <2>6 DEF graphVars, PartsStay, GraphInv
    <3>2. GraphTyped' /\ GraphsAreCanonical'
      BY <3>1, PartsMeanTheSame DEF GraphTyped, GraphInv, GraphsAreCanonical
    <3>3. /\ Item(edges)' = Item(edges) /\ Item(nodes)' = Item(nodes) /\ Item(covered)' = Item(covered)
          /\ (Searching' <=> Searching)
      BY <3>1 DEF Item, Searching
    <3>4. Sought' = Sought
      BY <3>1, <3>3 DEF Sought
    <3>5. SearchInv' <=> SearchInv
      BY <3>1, <3>4 DEF SearchInv
    <3>6. /\ AscendUpTo(checked, nodes, RefBefore)' <=> AscendUpTo(checked, nodes, RefBefore)
          /\ AscendUpTo(checked, covered, RefBefore)' <=> AscendUpTo(checked, covered, RefBefore)
      BY <3>1 DEF AscendUpTo
    <3>7. /\ (NodesChecked' <=> NodesChecked) /\ (CoveredChecked' <=> CoveredChecked)
          /\ (EdgesChecked(checked)' <=> EdgesChecked(checked))
          /\ (EdgesChecked(Len(edges))' <=> EdgesChecked(Len(edges)))
          /\ (CoversEnough' <=> CoversEnough)
          /\ Items(nodes)' = Items(nodes) /\ Items(covered)' = Items(covered)
      BY <3>1, PartsMeanTheSame
    <3>8. QED
      BY <3>1, <3>2, <3>3, <3>5, <3>6, <3>7 DEF GraphInv
  <2>7. QED
    BY <2>1, <2>2, <2>3, <2>4, <2>5, <2>6 DEF GraphNext
<1>3. QED
  BY <1>1, <1>2, PTL DEF GraphSpec

(* For any number of nodes and edges: the search misses no node, and a graph *)
(* is accepted exactly when it is sound, in the one order of its parts.      *)
THEOREM GraphsAreJudged == GraphSpec => []GraphsAreCanonical
<1>1. GraphInv => GraphsAreCanonical
  BY DEF GraphInv
<1>2. QED
  BY <1>1, GraphInvariantHolds, PTL
=============================================================================
