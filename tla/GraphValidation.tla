-------------------------- MODULE GraphValidation --------------------------
(***************************************************************************)
(* NewTransactionGraph of internal/domain, which sorts the graph of a      *)
(* package transaction before it checks it, and TransactionGraph.Validate  *)
(* of a graph that was decoded, which takes it in the order it has.  Edges *)
(* and covered objects are looked up by binary search in the nodes.        *)
(*                                                                         *)
(* A node is its reference, an ID and a scope; a part of the graph is      *)
(* chosen when the check comes to it.                                      *)
(***************************************************************************)
EXTENDS Naturals, Sequences, FiniteSets

CONSTANTS
  Refs,      \* manager object references: an ID and a scope, both numbers in their order
  Reasons,   \* the reasons of edges, in their order
  MaxNodes,  \* bound: nodes, and covered objects
  MaxEdges   \* bound: edges

ASSUME GraphAssumptions ==
  /\ Refs \subseteq Nat \X Nat /\ Reasons \subseteq Nat
  /\ MaxNodes \in Nat /\ MaxEdges \in Nat

VARIABLES
  sorts,     \* whether the graph is made, and so sorted, or decoded
  nodes, edges, kind, covered,
  phase,     \* what is checked, or the verdict
  checked,   \* the items of it that are
  low, high  \* the bounds of sort.Search

graphVars == <<sorts, nodes, edges, kind, covered, phase, checked, low, high>>

Edges == [from : Refs, to : Refs, reason : Reasons]
GuaranteeKinds == {"read_only_inventory", "bounded_effect", "exact_target", "exact_graph"}

(* compareManagerObjectRef and compareTransactionEdge *)
RefBefore(r, s) == r[1] < s[1] \/ (r[1] = s[1] /\ r[2] < s[2])

EdgeBefore(e, f) ==
  \/ RefBefore(e.from, f.from)
  \/ e.from = f.from /\ RefBefore(e.to, f.to)
  \/ e.from = f.from /\ e.to = f.to /\ e.reason < f.reason

(* sort.Slice leaves no item before one that it comes after. *)
Given(s, Before(_, _)) == sorts => \A i, j \in 1..Len(s) : i < j => ~Before(s[j], s[i])

GraphInit ==
  /\ sorts \in BOOLEAN
  /\ \E n \in 0..MaxNodes : nodes \in [1..n -> Refs]
  /\ Given(nodes, RefBefore)
  /\ edges = <<>> /\ kind = "none" /\ covered = <<>>
  /\ phase = "nodes" /\ checked = 0
  /\ low = 0 /\ high = 0

-----------------------------------------------------------------------------
(* Steps of the check *)

Item(s) == s[checked + 1]

(* Each item of a part comes after the one before it. *)
InOrder(s, Before(_, _)) == checked > 0 => Before(s[checked], Item(s))

Advance == phase' = phase /\ checked' = checked + 1
Enter(next) == phase' = next /\ checked' = 0
Refuse == phase' = "rejected" /\ UNCHANGED checked

BeginSearch == low' = 0 /\ high' = Len(nodes)
NoSearch == UNCHANGED <<low, high>>

CheckNode ==
  /\ phase = "nodes" /\ checked < Len(nodes)
  /\ IF InOrder(nodes, RefBefore) THEN Advance ELSE Refuse
  /\ NoSearch /\ UNCHANGED <<sorts, nodes, edges, kind, covered>>

EndNodes ==
  /\ phase = "nodes" /\ checked = Len(nodes)
  /\ IF nodes = <<>> THEN Refuse /\ UNCHANGED edges
     ELSE /\ Enter("edge")
          /\ \E n \in 0..MaxEdges : edges' \in [1..n -> Edges]
          /\ Given(edges', EdgeBefore)
  /\ NoSearch /\ UNCHANGED <<sorts, nodes, kind, covered>>

BeginEdge ==
  /\ phase = "edge" /\ checked < Len(edges)
  /\ IF Item(edges).from = Item(edges).to THEN Refuse /\ NoSearch
     ELSE phase' = "from" /\ UNCHANGED checked /\ BeginSearch
  /\ UNCHANGED <<sorts, nodes, edges, kind, covered>>

EndEdges ==
  /\ phase = "edge" /\ checked = Len(edges)
  /\ Enter("guarantee")
  /\ kind' \in GuaranteeKinds
  /\ \E n \in 0..MaxNodes : covered' \in [1..n -> Refs]
  /\ Given(covered', RefBefore)
  /\ NoSearch /\ UNCHANGED <<sorts, nodes, edges>>

-----------------------------------------------------------------------------
(* hasNode: sort.Search for the first node that is not before the reference *)

Sought ==
  CASE phase = "from" -> Item(edges).from
    [] phase = "to" -> Item(edges).to
    [] phase = "covered" -> Item(covered)

Searching == phase \in {"from", "to"} \/ (phase = "covered" /\ checked < Len(covered))

Halve ==
  /\ Searching /\ low < high
  /\ LET middle == (low + high) \div 2 IN
       IF RefBefore(nodes[middle + 1], Sought)
       THEN low' = middle + 1 /\ UNCHANGED high
       ELSE high' = middle /\ UNCHANGED low
  /\ UNCHANGED <<sorts, nodes, edges, kind, covered, phase, checked>>

FoundBelow == low + 1 < Len(nodes) /\ nodes[low + 1] = Sought  \* slip: the last node is left out

Found == low < Len(nodes) /\ nodes[low + 1] = Sought

EndSearch ==
  /\ Searching /\ low = high
  /\ IF ~Found THEN Refuse /\ NoSearch
     ELSE \/ phase = "from" /\ phase' = "to" /\ UNCHANGED checked /\ BeginSearch
          \/ /\ phase = "to" /\ NoSearch
             /\ IF InOrder(edges, EdgeBefore) THEN phase' = "edge" /\ checked' = checked + 1 ELSE Refuse
          \/ phase = "covered" /\ Advance /\ BeginSearch
  /\ UNCHANGED <<sorts, nodes, edges, kind, covered>>

-----------------------------------------------------------------------------
(* ProviderGuarantee.Validate, and what the graph asks of it *)

CoversEnough ==
  CASE kind = "read_only_inventory" -> covered = <<>>
    [] kind = "exact_target" -> Len(covered) = 1
    [] OTHER -> covered # <<>>

CheckGuarantee ==
  /\ phase = "guarantee" /\ checked < Len(covered)
  /\ IF CoversEnough /\ InOrder(covered, RefBefore) THEN Advance ELSE Refuse
  /\ NoSearch /\ UNCHANGED <<sorts, nodes, edges, kind, covered>>

EndGuarantee ==
  /\ phase = "guarantee" /\ checked = Len(covered)
  /\ IF CoversEnough THEN Enter("covered") /\ BeginSearch ELSE Refuse /\ NoSearch
  /\ UNCHANGED <<sorts, nodes, edges, kind, covered>>

(* sameNodeSet compares them one by one. *)
EndCovered ==
  /\ phase = "covered" /\ checked = Len(covered)
  /\ IF kind # "exact_graph" THEN Enter("accepted")
     ELSE IF Len(covered) = Len(nodes) THEN Enter("same") ELSE Refuse
  /\ NoSearch /\ UNCHANGED <<sorts, nodes, edges, kind, covered>>

CompareNode ==
  /\ phase = "same" /\ checked < Len(nodes)
  /\ IF Item(nodes) = Item(covered) THEN Advance ELSE Refuse
  /\ NoSearch /\ UNCHANGED <<sorts, nodes, edges, kind, covered>>

EndCompare ==
  /\ phase = "same" /\ checked = Len(nodes)
  /\ Enter("accepted")
  /\ NoSearch /\ UNCHANGED <<sorts, nodes, edges, kind, covered>>

GraphNext ==
  \/ CheckNode \/ EndNodes
  \/ BeginEdge \/ Halve \/ EndSearch \/ EndEdges
  \/ CheckGuarantee \/ EndGuarantee \/ EndCovered \/ CompareNode \/ EndCompare

GraphSpec == GraphInit /\ [][GraphNext]_graphVars

-----------------------------------------------------------------------------
(* Properties *)

Items(s) == {s[i] : i \in 1..Len(s)}
IsSet(s) == Cardinality(Items(s)) = Len(s)

(* The graph as sets: nothing twice, and nothing that dangles. *)
Sound ==
  /\ IsSet(nodes) /\ IsSet(edges) /\ IsSet(covered) /\ Items(nodes) # {}
  /\ \A e \in Items(edges) : e.from # e.to /\ {e.from, e.to} \subseteq Items(nodes)
  /\ Items(covered) \subseteq Items(nodes)
  /\ kind = "read_only_inventory" <=> Items(covered) = {}
  /\ kind = "exact_target" => Cardinality(Items(covered)) = 1
  /\ kind = "exact_graph" => Items(covered) = Items(nodes)

AscendUpTo(n, s, Before(_, _)) == \A i, j \in 1..n : i < j => Before(s[i], s[j])

Ascending ==
  /\ AscendUpTo(Len(nodes), nodes, RefBefore)
  /\ AscendUpTo(Len(edges), edges, EdgeBefore)
  /\ AscendUpTo(Len(covered), covered, RefBefore)

(* A graph is accepted exactly when its nodes, edges and covered objects are   *)
(* sets, no edge dangles or loops, and the guarantee covers what its kind may. *)
(* It is then in the one order of these sets, and a graph that is made is not  *)
(* refused for the order it was given in (NewTransactionGraph, hasNode).       *)
GraphsAreCanonical ==
  /\ phase = "accepted" => Sound /\ Ascending
  /\ phase = "rejected" => ~(Sound /\ (sorts \/ Ascending))

-----------------------------------------------------------------------------
(* The inductive invariant *)

NodesChecked == nodes # <<>> /\ AscendUpTo(Len(nodes), nodes, RefBefore)

EdgesChecked(n) ==
  /\ n <= Len(edges) /\ AscendUpTo(n, edges, EdgeBefore)
  /\ \A i \in 1..n : /\ edges[i].from # edges[i].to
                     /\ edges[i].from \in Items(nodes) /\ edges[i].to \in Items(nodes)

CoveredChecked == CoversEnough /\ AscendUpTo(Len(covered), covered, RefBefore)

(* What is below the bounds of the search is before what is sought, and what *)
(* is above them is not.                                                     *)
SearchInv ==
  /\ low <= high /\ high <= Len(nodes)
  /\ \A i \in 1..low : RefBefore(nodes[i], Sought)
  /\ \A i \in (high + 1)..Len(nodes) : ~RefBefore(nodes[i], Sought)

GraphTyped ==
  /\ sorts \in BOOLEAN /\ kind \in GuaranteeKinds \cup {"none"}
  /\ nodes \in Seq(Refs) /\ edges \in Seq(Edges) /\ covered \in Seq(Refs)
  /\ phase \in {"nodes", "edge", "from", "to", "guarantee", "covered", "same", "accepted", "rejected"}
  /\ checked \in Nat /\ low \in Nat /\ high \in Nat
  /\ Given(nodes, RefBefore) /\ Given(edges, EdgeBefore) /\ Given(covered, RefBefore)

GraphInv ==
  /\ GraphTyped
  /\ phase = "nodes" => checked <= Len(nodes) /\ AscendUpTo(checked, nodes, RefBefore)
  /\ phase \in {"edge", "from", "to"} => NodesChecked /\ EdgesChecked(checked)
  /\ phase \in {"from", "to"} => checked < Len(edges) /\ Item(edges).from # Item(edges).to
  /\ phase = "to" => Item(edges).from \in Items(nodes)
  /\ phase \in {"guarantee", "covered", "same"} =>
       NodesChecked /\ EdgesChecked(Len(edges)) /\ kind \in GuaranteeKinds
  /\ phase = "guarantee" =>
       /\ checked <= Len(covered) /\ AscendUpTo(checked, covered, RefBefore)
       /\ checked > 0 => CoversEnough
  /\ phase \in {"covered", "same"} => CoveredChecked
  /\ phase = "covered" => checked <= Len(covered) /\ \A i \in 1..checked : covered[i] \in Items(nodes)
  /\ phase = "same" =>
       /\ kind = "exact_graph" /\ Len(covered) = Len(nodes) /\ Items(covered) \subseteq Items(nodes)
       /\ checked <= Len(nodes) /\ \A i \in 1..checked : nodes[i] = covered[i]
  /\ Searching => SearchInv
  /\ GraphsAreCanonical
=============================================================================
