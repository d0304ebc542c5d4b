---------------------------- MODULE MCDecisions ----------------------------
(* What the pure parts of the program decide, in one run: a behaviour is the  *)
(* validation of one plan, the reading of one result, the check of one graph, *)
(* or one draft of an encoding, and the others stay idle.                     *)
EXTENDS PlanValidation, ResultDecoding, GraphValidation, Drafts, TLC

(* The IDs of actions are only compared: any permutation of them is a symmetry. *)
IdSymmetry == Permutations(ActionIds) \cup Permutations(ResultIds)

-----------------------------------------------------------------------------
(* Summaries of up to MaxResults results, right or wrong about them. *)

MCCounts ==
  {[o \in Outcomes |-> Cardinality({i \in 1..n : f[i] = o})] :
     n \in 0..MaxResults, f \in [1..MaxResults -> Outcomes]}

MCClaims ==
  {[total |-> SumFunction(c), count |-> c, partial |-> p, reconciliation_required |-> q] :
     c \in MCCounts, p, q \in BOOLEAN}

(* Three references, of which two share an ID, and so each node can be the    *)
(* first, the last or the middle one.                                         *)
MCRefs == {<<1, 1>>, <<1, 2>>, <<2, 1>>}

(* Frames are put together from: 0; 24 in one byte more, and the head that    *)
(* announces it; 256 and 24 in two bytes; a tag; null; a text; two-byte        *)
(* characters, whole and cut; arrays and maps of one and two; a string that is *)
(* too long; the two known keys.                                               *)
MCMaps == {<<161>>, <<162>>}
MCChunks ==
  {<<0>>, <<24>>, <<25, 1, 0>>, <<25, 0, 24>>, <<192>>, <<246>>, <<97>>, <<98, 195, 169>>, <<195>>,
   <<129>>, <<130>>, <<76>> \o [i \in 1..12 |-> 0],
   <<106>> \o ComponentsKey, <<103>> \o ActionsKey} \cup MCMaps

(* '%', '.', '/', '0', '2', 'F', 'a', 'f' *)
MCSymbols == {37, 46, 47, 48, 50, 70, 97, 102}
(* NUL, space, '.', '/', 'a', 255 *)
MCBytes == {0, 32, 46, 47, 97, 255}

MCLimits ==
  [frame_bytes |-> 26, depth |-> 2, actions |-> 1, map_pairs |-> 2, array_items |-> 2, scalar_bytes |-> 10,
   path_components |-> 1, encoded_path_bytes |-> 14, input_bytes |-> 8, components |-> 2, decoded_bytes |-> 3]

-----------------------------------------------------------------------------
PlanIdle ==
  /\ status = "idle" /\ actions = <<>> /\ dependencies = <<>> /\ states = <<>>
  /\ begun = 0 /\ calls = <<>>

ResultIdle ==
  /\ stage = "idle" /\ results = <<>> /\ counted = 0 /\ any = "none"
  /\ summary = "none" /\ claimed = "none"

GraphIdle ==
  /\ phase = "idle" /\ sorts = FALSE /\ nodes = <<>> /\ edges = <<>> /\ covered = <<>>
  /\ kind = "none" /\ checked = 0 /\ low = 0 /\ high = 0

DraftIdle == draft = [kind |-> "none"]

DecisionInit ==
  \/ PlanInit /\ ResultIdle /\ GraphIdle /\ DraftIdle
  \/ PlanIdle /\ ResultInit /\ GraphIdle /\ DraftIdle
  \/ PlanIdle /\ ResultIdle /\ GraphInit /\ DraftIdle
  \/ PlanIdle /\ ResultIdle /\ GraphIdle /\ Init

DecisionNext ==
  \/ PlanNext /\ UNCHANGED <<resultVars, graphVars, draft>>
  \/ ResultNext /\ UNCHANGED <<planVars, graphVars, draft>>
  \/ GraphNext /\ UNCHANGED <<planVars, resultVars, draft>>
  \/ Next /\ UNCHANGED <<planVars, resultVars, graphVars>>

DecisionSpec == DecisionInit /\ [][DecisionNext]_<<planVars, resultVars, graphVars, draft>>
=============================================================================
