--------------------------- MODULE PlanValidation ---------------------------
(***************************************************************************)
(* validatePlanActions of internal/domain: the dependencies of a plan's    *)
(* actions are checked one by one, and then walked depth first with three  *)
(* marks.  A behaviour is the validation of one plan, and the recursion of *)
(* visitActionDependencies is its stack of calls.                          *)
(*                                                                         *)
(* An action is an ID and the IDs it depends on; what the check of a field *)
(* alone can reject is left out.                                           *)
(***************************************************************************)
EXTENDS Naturals, Sequences, FiniteSets

CONSTANTS
  ActionIds,       \* the IDs of actions
  MaxActions,      \* bound: actions of a plan
  MaxDependencies  \* bound: dependencies that an action lists

ASSUME PlanAssumptions == MaxActions \in Nat /\ MaxDependencies \in Nat

VARIABLES
  actions,       \* the actions of the plan, in order
  status,        \* how far the validation is, or its verdict
  dependencies,  \* what each ID depends on, once that is checked
  states,        \* dependencyVisitState of each ID
  begun,         \* the actions whose visit has begun
  calls          \* the visits under way: an ID and the dependency visited next

planVars == <<actions, status, dependencies, states, begun, calls>>

UpTo(n, S) == UNION {[1..m -> S] : m \in 0..n}

Actions == [id : ActionIds, dependencies : UpTo(MaxDependencies, ActionIds)]

Listed == {actions[i] : i \in 1..Len(actions)}
Ids == {a.id : a \in Listed}
WaitsFor(a) == {a.dependencies[i] : i \in 1..Len(a.dependencies)}

PlanInit ==
  /\ \E n \in 0..MaxActions : actions \in [1..n -> Actions]
  /\ status = "unchecked"
  /\ dependencies = <<>> /\ states = <<>>
  /\ begun = 0 /\ calls = <<>>

-----------------------------------------------------------------------------
(* The first two loops: IDs, and each dependency by itself. *)

NoRepeats(s) == \A i, j \in 1..Len(s) : s[i] = s[j] => i = j

DependenciesAreKnown ==
  /\ NoRepeats([i \in 1..Len(actions) |-> actions[i].id])
  /\ \A a \in Listed : NoRepeats(a.dependencies) /\ WaitsFor(a) \subseteq Ids \ {a.id}

RefuseDependencies ==
  /\ status = "unchecked" /\ ~DependenciesAreKnown
  /\ status' = "rejected"
  /\ UNCHANGED <<actions, dependencies, states, begun, calls>>

BeginWalk ==
  /\ status = "unchecked" /\ DependenciesAreKnown
  /\ status' = "walking"
  /\ dependencies' = [id \in Ids |-> (CHOOSE a \in Listed : a.id = id).dependencies]
  /\ states' = [id \in Ids |-> "unvisited"]
  /\ UNCHANGED <<actions, begun, calls>>

-----------------------------------------------------------------------------
(* visitActionDependencies *)

(* A visit of id by the last of the callers.  An error ends them all. *)
VisitEagerly(id, callers) ==  \* slip: an action is visited once it is reached
  /\ calls' = IF states[id] = "unvisited" THEN Append(callers, [id |-> id, next |-> 1]) ELSE callers
  /\ states' = [states EXCEPT ![id] = "visited"]
  /\ UNCHANGED status

Visit(id, callers) ==
  \/ /\ states[id] = "visited"
     /\ calls' = callers /\ UNCHANGED <<states, status>>
  \/ /\ states[id] = "visiting"
     /\ calls' = <<>> /\ status' = "rejected" /\ UNCHANGED states
  \/ /\ states[id] = "unvisited"
     /\ states' = [states EXCEPT ![id] = "visiting"]
     /\ calls' = Append(callers, [id |-> id, next |-> 1]) /\ UNCHANGED status

Top == calls[Len(calls)]

VisitAction ==
  /\ status = "walking" /\ calls = <<>> /\ begun < Len(actions)
  /\ begun' = begun + 1
  /\ Visit(actions[begun + 1].id, calls)
  /\ UNCHANGED <<actions, dependencies>>

VisitDependency ==
  /\ status = "walking" /\ calls # <<>>
  /\ Top.next <= Len(dependencies[Top.id])
  /\ Visit(dependencies[Top.id][Top.next], [calls EXCEPT ![Len(calls)].next = @ + 1])
  /\ UNCHANGED <<actions, dependencies, begun>>

EndVisit ==
  /\ status = "walking" /\ calls # <<>>
  /\ Top.next > Len(dependencies[Top.id])
  /\ states' = [states EXCEPT ![Top.id] = "visited"]
  /\ calls' = SubSeq(calls, 1, Len(calls) - 1)
  /\ UNCHANGED <<actions, status, dependencies, begun>>

AcceptPlan ==
  /\ status = "walking" /\ calls = <<>> /\ begun = Len(actions)
  /\ status' = "accepted"
  /\ UNCHANGED <<actions, dependencies, states, begun, calls>>

PlanNext ==
  RefuseDependencies \/ BeginWalk \/ VisitAction \/ VisitDependency \/ EndVisit \/ AcceptPlan

PlanSpec == PlanInit /\ [][PlanNext]_planVars

-----------------------------------------------------------------------------
(* Properties *)

(* Some order carries the actions out: in every group of them, one waits for *)
(* no other of the group.                                                    *)
Orderly(ids) ==
  \A group \in (SUBSET ids) \ {{}} :
    \E a \in Listed : a.id \in group /\ WaitsFor(a) \cap group = {}

CanBeCarriedOut ==
  /\ Cardinality(Ids) = Len(actions)
  /\ \A a \in Listed :
       WaitsFor(a) \subseteq Ids \ {a.id} /\ Cardinality(WaitsFor(a)) = Len(a.dependencies)
  /\ Orderly(Ids)

(* A plan is accepted exactly when its actions can be carried out: the IDs are *)
(* distinct, every dependency is another action of the plan, listed once, and  *)
(* no group of actions waits for itself.  The code knows only the marks of one *)
(* walk, which stops at the first error (validatePlanActions).                 *)
PlansCanBeCarriedOut ==
  /\ status = "accepted" => CanBeCarriedOut
  /\ status = "rejected" => ~CanBeCarriedOut

-----------------------------------------------------------------------------
(* The inductive invariant *)

Visited == {id \in Ids : states[id] = "visited"}
Visiting == {id \in Ids : states[id] = "visiting"}

(* The dependencies that a visit has gone through; the last one of a visit *)
(* that is not the top is being visited by the next.                       *)
GoneThrough(k) ==
  {j \in 1..Len(dependencies[calls[k].id]) :
     IF k = Len(calls) THEN j < calls[k].next ELSE j < calls[k].next - 1}

(* Visit k is at a dependency of its ID, and all before that one are visited. *)
IsAt(k) ==
  /\ calls[k].next <= Len(dependencies[calls[k].id]) + 1
  /\ \A j \in GoneThrough(k) : dependencies[calls[k].id][j] \in Visited
  /\ k < Len(calls) =>
       /\ calls[k].next > 1
       /\ dependencies[calls[k].id][calls[k].next - 1] = calls[k + 1].id

Visits == [id : Ids, next : Nat \ {0}]

(* The calls are a path along the dependencies, through what is being visited. *)
CallsAreAPath ==
  /\ calls \in Seq(Visits)
  /\ Visiting = {calls[k].id : k \in 1..Len(calls)}
  /\ \A j, k \in 1..Len(calls) : calls[j].id = calls[k].id => j = k
  /\ \A k \in 1..Len(calls) : IsAt(k)

(* What is visited waits for nothing else, and an order carries it out. *)
VisitedIsOrderly ==
  /\ \A a \in Listed : a.id \in Visited => WaitsFor(a) \subseteq Visited
  /\ Orderly(Visited)

WalkInv ==
  /\ DependenciesAreKnown
  /\ DOMAIN dependencies = Ids /\ \A a \in Listed : dependencies[a.id] = a.dependencies
  /\ states \in [Ids -> {"unvisited", "visiting", "visited"}]
  /\ CallsAreAPath
  /\ VisitedIsOrderly
  /\ \A i \in 1..begun :
       \/ actions[i].id \in Visited
       \/ calls # <<>> /\ i = begun /\ calls[1].id = actions[i].id

PlanInv ==
  /\ Len(actions) \in 0..MaxActions /\ actions \in [1..Len(actions) -> Actions]
  /\ begun \in 0..Len(actions)
  /\ status \in {"unchecked", "walking", "accepted", "rejected"}
  /\ status = "unchecked" => begun = 0 /\ calls = <<>>
  /\ status = "walking" => WalkInv
  /\ PlansCanBeCarriedOut
=============================================================================
