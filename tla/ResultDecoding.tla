--------------------------- MODULE ResultDecoding ---------------------------
(***************************************************************************)
(* How the result of a run is read back (fromResultWire of planproto, with *)
(* NewResult of domain): its action results are checked one by one, the    *)
(* summary is derived from them in one pass, and what the record carries   *)
(* must be exactly what was derived.  A behaviour is the reading of one    *)
(* record, whose parts are chosen as they are read.                        *)
(*                                                                         *)
(* IDs, targets and digests are opaque; what the check of a field alone    *)
(* can reject is left out.                                                 *)
(***************************************************************************)
EXTENDS Naturals, Sequences, FiniteSets

CONSTANTS
  ResultIds,   \* the IDs of actions
  MaxResults,  \* DecodeLimits.MaxActions
  Claims       \* bound: the summaries that a record may carry

VARIABLES
  results,  \* the action results read so far
  stage,    \* how far the reading is, or its verdict
  counted,  \* the action results that the summary counts
  any,      \* whether a success, and whether a failure of some kind, was counted
  summary,  \* the summary that is derived
  claimed   \* the summary that the record carries, once it is compared

resultVars == <<results, stage, counted, any, summary, claimed>>

Outcomes ==
  {"success", "skipped", "drifted", "denied", "unsupported", "failed", "interrupted",
   "indeterminate"}

(* An action result: its VerifiedEffect is a claim or none; a probe is for a *)
(* target or a graph, or for a state record, of this action or of another.   *)
Terminals ==
  [id : ResultIds, outcome : Outcomes, attempted : BOOLEAN,
   reconciliation : {"", "not_required", "required"},
   probe : {"none", "target", "own_record", "other_record"},
   recovery : {"", "not_applicable", "retained", "restored"},
   handle : BOOLEAN, effect : BOOLEAN]

Summaries ==
  [total : Nat, count : [Outcomes -> Nat], partial : BOOLEAN, reconciliation_required : BOOLEAN]

ASSUME ResultAssumptions == MaxResults \in Nat /\ Claims \subseteq Summaries

ResultInit ==
  /\ results = <<>> /\ stage = "reading"
  /\ counted = 0 /\ any = [success |-> FALSE, nonSuccess |-> FALSE]
  /\ summary = "none" /\ claimed = "none"

-----------------------------------------------------------------------------
(* ActionResult.Validate *)

(* An empty field means the ordinary state, and NewResult writes it out. *)
Normalized(r) ==
  [r EXCEPT !.reconciliation = IF @ = "" THEN "not_required" ELSE @,
            !.recovery = IF @ = "" THEN "not_applicable" ELSE @]

NoReconciliation(r) == r.reconciliation = "not_required" /\ r.probe = "none"

OutcomeHoldsProbing(n) ==  \* slip: only an indeterminate result is looked at for a probe
  CASE n.outcome \in {"success", "failed"} -> n.attempted
    [] n.outcome = "indeterminate" -> n.attempted /\ n.reconciliation = "required" /\ n.probe # "none"
    [] n.outcome = "drifted" -> n.attempted => n.recovery \in {"retained", "restored"}
    [] OTHER -> ~n.attempted

OutcomeHolds(n) ==
  CASE n.outcome \in {"success", "failed"} -> n.attempted /\ NoReconciliation(n)
    [] n.outcome = "indeterminate" -> n.attempted /\ n.reconciliation = "required" /\ n.probe # "none"
    [] n.outcome = "drifted" ->
         NoReconciliation(n) /\ (n.attempted => n.recovery \in {"retained", "restored"})
    [] OTHER -> ~n.attempted /\ NoReconciliation(n)

(* Only a success, or a drift found once the content was staged. *)
KnownRecovery(n) == n.outcome = "success" \/ (n.outcome = "drifted" /\ n.attempted)

RecoveryHolds(n) ==
  CASE n.recovery = "not_applicable" -> ~n.handle
    [] n.recovery = "retained" -> KnownRecovery(n) /\ n.handle /\ ~n.effect
    [] n.recovery = "restored" -> KnownRecovery(n) /\ ~n.handle /\ ~n.effect

TerminalAccepted(r) ==
  LET n == Normalized(r) IN
  /\ OutcomeHolds(n)
  /\ n.outcome # "success" =>
       /\ n.handle => n.outcome = "drifted" /\ n.attempted /\ n.recovery = "retained"
       /\ ~n.effect
  /\ RecoveryHolds(n)

-----------------------------------------------------------------------------
(* The action results *)

(* The record has more than the limit; nothing of it is looked at. *)
RefuseLength ==
  /\ stage = "reading" /\ results = <<>>
  /\ stage' = "oversized"
  /\ UNCHANGED <<results, counted, any, summary, claimed>>

ReadResult ==
  /\ stage = "reading" /\ Len(results) < MaxResults
  /\ \E r \in Terminals :
       /\ results' = Append(results, r)
       /\ stage' = IF TerminalAccepted(r) THEN stage ELSE "rejected"
  /\ UNCHANGED <<counted, any, summary, claimed>>

-----------------------------------------------------------------------------
(* NewResult: deriveExitSummary, and Result.Validate of what it made *)

Canonical == [i \in 1..Len(results) |-> Normalized(results[i])]

BeginSummary ==
  /\ stage = "reading"
  /\ stage' = "deriving"
  /\ summary' = [total |-> Len(results), count |-> [o \in Outcomes |-> 0], partial |-> FALSE,
                 reconciliation_required |-> FALSE]
  /\ UNCHANGED <<results, counted, any, claimed>>

CountResult ==
  /\ stage = "deriving" /\ counted < Len(results)
  /\ LET r == Canonical[counted + 1] IN
       /\ summary' = [summary EXCEPT
            !.count[r.outcome] = @ + 1,
            !.partial = @ \/ r.outcome = "indeterminate",
            !.reconciliation_required = @ \/ r.reconciliation = "required"]
       /\ any' = [success |-> any.success \/ r.outcome = "success",
                  nonSuccess |-> any.nonSuccess \/ r.outcome \notin {"success", "skipped"}]
  /\ counted' = counted + 1
  /\ UNCHANGED <<results, stage, claimed>>

EndSummary ==
  /\ stage = "deriving" /\ counted = Len(results)
  /\ summary' = [summary EXCEPT !.partial = @ \/ (any.success /\ any.nonSuccess)]
  /\ stage' = "validating"
  /\ UNCHANGED <<results, counted, any, claimed>>

(* Every ID once, and a state-record probe for this run and this action; the  *)
(* terminals were accepted when they were read, and the summary is the one    *)
(* that deriveExitSummary returns again.                                      *)
ResultAccepted ==
  /\ \A i, j \in 1..Len(results) : results[i].id = results[j].id => i = j
  /\ \A i \in 1..Len(results) : results[i].probe # "other_record"

RefuseResult ==
  /\ stage = "validating" /\ ~ResultAccepted
  /\ stage' = "rejected"
  /\ UNCHANGED <<results, counted, any, summary, claimed>>

-----------------------------------------------------------------------------
(* The canonical record of what was made must be the record that was read. *)
CompareRecord ==
  /\ stage = "validating" /\ ResultAccepted
  /\ claimed' \in Claims
  /\ stage' = IF results = Canonical /\ claimed' = summary THEN "accepted" ELSE "rejected"
  /\ UNCHANGED <<results, counted, any, summary>>

ResultNext ==
  \/ RefuseLength \/ ReadResult
  \/ BeginSummary \/ CountResult \/ EndSummary
  \/ RefuseResult \/ CompareRecord

ResultSpec == ResultInit /\ [][ResultNext]_resultVars

-----------------------------------------------------------------------------
(* Properties *)

(* What an action result says of itself. *)
Plain(r) ==
  /\ r.attempted <=> \/ r.outcome \in {"success", "failed", "indeterminate"}
                     \/ r.outcome = "drifted" /\ r.recovery # "not_applicable"
  /\ r.outcome = "indeterminate" <=> r.reconciliation = "required"
  /\ r.outcome = "indeterminate" <=> r.probe # "none"
  /\ r.handle <=> r.recovery = "retained"
  /\ r.recovery # "not_applicable" => r.outcome \in {"success", "drifted"}
  /\ r.effect => r.outcome = "success" /\ r.recovery = "not_applicable"
  /\ r.reconciliation # "" /\ r.recovery # ""

(* The first n results that have an outcome of the set. *)
Of(outcomes, n) == {i \in 1..n : results[i].outcome \in outcomes}

TellsWhatIsOpen ==
  LET n == Len(results)
      indeterminate == Of({"indeterminate"}, n)
  IN  /\ ResultAccepted /\ \A i \in 1..n : Plain(results[i])
      /\ claimed.total = n
      /\ \A o \in Outcomes : claimed.count[o] = Cardinality(Of({o}, n))
      /\ claimed.reconciliation_required <=> indeterminate # {}
      /\ claimed.partial <=>
           \/ indeterminate # {}
           \/ Of({"success"}, n) # {} /\ Of(Outcomes \ {"success", "skipped"}, n) # {}

(* A result is read back exactly when it says what is open, in one spelling:   *)
(* an indeterminate outcome, and no other, has reconciliation due and a probe  *)
(* for it; what holds retained content has the handle to it and claims no      *)
(* freed space; what was never attempted claims nothing; and the summary that  *)
(* comes with it counts every result once, demands reconciliation exactly when *)
(* an outcome is unknown, and is partial when something is unknown or only     *)
(* some of it was done (fromResultWire, NewResult).                            *)
ResultsTellWhatIsOpen ==
  /\ stage = "accepted" => TellsWhatIsOpen
  /\ stage = "rejected" => ~TellsWhatIsOpen

-----------------------------------------------------------------------------
(* The inductive invariant *)

(* What is derived from the first n results. *)
DerivedUpTo(n) ==
  /\ summary \in Summaries /\ summary.total = Len(results)
  /\ \A o \in Outcomes : summary.count[o] = Cardinality(Of({o}, n))
  /\ summary.reconciliation_required <=> \E i \in 1..n : results[i].reconciliation = "required"

ResultInv ==
  /\ results \in Seq(Terminals)
  /\ stage \in {"reading", "oversized", "deriving", "validating", "accepted", "rejected"}
  /\ stage \in {"reading", "deriving", "validating"} =>
       \A i \in 1..Len(results) : TerminalAccepted(results[i])
  /\ stage = "reading" => counted = 0 /\ any = [success |-> FALSE, nonSuccess |-> FALSE]
  /\ stage = "deriving" =>
       /\ counted \in 0..Len(results) /\ DerivedUpTo(counted)
       /\ any \in [success : BOOLEAN, nonSuccess : BOOLEAN]
       /\ any.success <=> Of({"success"}, counted) # {}
       /\ any.nonSuccess <=> Of(Outcomes \ {"success", "skipped"}, counted) # {}
       /\ summary.partial <=> Of({"indeterminate"}, counted) # {}
  /\ stage = "validating" =>
       /\ DerivedUpTo(Len(results))
       /\ summary.partial <=>
            \/ Of({"indeterminate"}, Len(results)) # {}
            \/ /\ Of({"success"}, Len(results)) # {}
               /\ Of(Outcomes \ {"success", "skipped"}, Len(results)) # {}
  /\ ResultsTellWhatIsOpen
=============================================================================
