--------------------------- MODULE RecoveryFacts ---------------------------
(***************************************************************************)
(* The closed vocabulary of the recovery ledger and the transition graph   *)
(* over it: which fact may follow which in the history of one reservation. *)
(* Operators only; internal/state/recovery_ledger.go is the source.        *)
(*                                                                         *)
(* A frame keeps the three fields the graph looks at.  The immutable       *)
(* binding of a reservation (source, destination, schema) is kept once per *)
(* token by RecoveryLedger, and the predecessor digest is represented by a *)
(* frame's position in its history.                                        *)
(***************************************************************************)
EXTENDS Naturals, Sequences

Destinations == {"trash", "quarantine"}

(* The schema a history was written with.  New reservations use v2. *)
Schemas == {"v1", "v2"}

Events ==
  { "intent_reserved",
    "metadata_dispatch_recorded", "metadata_verified", "metadata_indeterminate",
    "move_dispatch_recorded", "move_verified", "move_indeterminate",
    "restore_dispatch_recorded", "restore_verified", "restore_indeterminate",
    "reconciliation_resolved" }

Outcomes == {"not_applied", "move_verified", "restore_verified"}

MetadataDispositions == {"absent", "retained"}

Frames == [event : Events,
           outcome : Outcomes \cup {"none"},
           metadata : MetadataDispositions \cup {"none"}]

(* A fact that carries no reconciliation and no metadata disposition. *)
Fact(event) == [event |-> event, outcome |-> "none", metadata |-> "none"]

Resolution(outcome, metadata) ==
  [event |-> "reconciliation_resolved", outcome |-> outcome, metadata |-> metadata]

Intent == Fact("intent_reserved")

(* What stands for the fact of a token that reserves nothing yet. *)
NoFact == [event |-> "unreserved", outcome |-> "none", metadata |-> "none"]

(* What a caller may ask Transition to append. *)
Proposals ==
  {Fact(e) : e \in Events} \cup {Resolution(o, m) : o \in Outcomes,
                                                    m \in MetadataDispositions \cup {"none"}}

IsOrdinary(f) == f.outcome = "none" /\ f.metadata = "none"

(***************************************************************************)
(* A reconciliation that verified a retained move leaves the recovery      *)
(* open, at the same stage as a directly verified move.                    *)
(***************************************************************************)
Closed(f) ==
  \/ f.event = "restore_verified"
  \/ f.event = "reconciliation_resolved" /\ f.outcome # "move_verified"

Stage(f) ==
  IF f.event = "reconciliation_resolved" /\ f.outcome = "move_verified"
  THEN "move_verified"
  ELSE f.event

OrdinaryEdgesRetrying(destination) ==  \* slip: an indeterminate move is dispatched again
  {<<e, "move_dispatch_recorded">> :
     e \in {"intent_reserved", "metadata_verified", "move_indeterminate"}}
    \cup {<<"move_dispatch_recorded", "move_indeterminate">>}

(* The edges of the graph whose new fact is an ordinary one. *)
OrdinaryEdges(destination) ==
  { <<"intent_reserved", IF destination = "trash" THEN "metadata_dispatch_recorded"
                                                  ELSE "move_dispatch_recorded">>,
    <<"metadata_dispatch_recorded", "metadata_verified">>,
    <<"metadata_dispatch_recorded", "metadata_indeterminate">>,
    <<"metadata_verified", "move_dispatch_recorded">>,
    <<"move_dispatch_recorded", "move_verified">>,
    <<"move_dispatch_recorded", "move_indeterminate">>,
    <<"move_verified", "restore_dispatch_recorded">>,
    <<"restore_dispatch_recorded", "restore_verified">>,
    <<"restore_dispatch_recorded", "restore_indeterminate">> }

(* Nothing happened to the content: says what became of the Trash metadata. *)
NoEffectResolutions(destination) ==
  IF destination = "trash"
  THEN {Resolution("not_applied", m) : m \in MetadataDispositions}
  ELSE {Resolution("not_applied", "absent")}

ResolutionsForgetting(destination, stage) ==  \* slip: a failed restore resolves as not applied
  IF stage \in {"move_indeterminate", "restore_indeterminate"}
  THEN {Resolution(o, "none") : o \in Outcomes}
  ELSE NoEffectResolutions(destination)

(* The resolutions an open stage accepts. *)
Resolutions(destination, stage) ==
  CASE stage \in {"intent_reserved", "metadata_verified", "metadata_indeterminate"} ->
         NoEffectResolutions(destination)
    [] stage = "move_indeterminate" ->
         {Resolution("not_applied", "none"), Resolution("move_verified", "none")}
    [] stage = "restore_indeterminate" ->
         {Resolution("move_verified", "none"), Resolution("restore_verified", "none")}
    [] OTHER -> {}

(***************************************************************************)
(* May frame g be appended to an open history that ends with frame f?      *)
(***************************************************************************)
ValidTransition(destination, f, g) ==
  /\ ~Closed(f)
  /\ \/ IsOrdinary(g) /\ <<Stage(f), g.event>> \in OrdinaryEdges(destination)
     \/ g \in Resolutions(destination, Stage(f))

(* A history the ledger replays: an intent followed by valid transitions. *)
ValidHistory(destination, h) ==
  /\ h # << >>
  /\ h[1] = Intent
  /\ \A i \in 1 .. Len(h) - 1 : ValidTransition(destination, h[i], h[i + 1])
=============================================================================
