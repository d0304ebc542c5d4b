--------------------------- MODULE TrashInvariant ---------------------------
(***************************************************************************)
(* The inductive invariant of TrashMove: what a caller at each step knows  *)
(* of its recovery and of the Trash, and what the ledger's facts alone     *)
(* say of it.  What a token holds is only known as long as nobody else has *)
(* changed its entries.                                                    *)
(***************************************************************************)
EXTENDS TrashMove

MovingSteps ==
  {"dispatchMetadata", "metadataWritten", "metadataUnsure", "select", "notSelected",
   "dispatchMove", "moved", "moveUnsure", "notApplied", "cancelMove"}
    \cup WriteSteps \cup MoveSteps

MetadataProbes == {"probeMetadata", "metadataAbsent", "metadataRetained"}

ContentProbes == (ProbeSteps \ {"probeMetadata"}) \cup {"contentRetained"}

Moving(c) == pc[c] \in MovingSteps

Durable(kind, t) == <<kind, t>> \notin volatile

Pending(t) == fact[t] # NoFact /\ ~Closed(fact[t])

(* A reserved token binds a source, and no other open recovery binds it. *)
ReservationsExclude ==
  /\ \A t \in Tokens : fact[t] # NoFact => source[t] \in Sources
  /\ \A t, u \in Tokens : Pending(t) /\ Pending(u) /\ source[t] = source[u] => t = u

(* No two callers move under one token. *)
MoversApart ==
  \A c, d \in Callers : Moving(c) /\ Moving(d) /\ ticket[c] = ticket[d] => c = d

(* What a caller holds. *)
Holds(c) ==
  /\ pc[c] = "validated" => target[c] \in Sources
  /\ Moving(c) => /\ ticket[c] \in Tokens
                  /\ target[c] \in Sources
                  /\ source[ticket[c]] = target[c]
  /\ pc[c] \in MetadataProbes \cup ContentProbes => ticket[c] \in Tokens

(***************************************************************************)
(* The fact of the recovery a caller works on.  A caller that moves is the *)
(* only one to record a fact, until it has recorded an indeterminate one:  *)
(* a reconciler may come before its last record.                           *)
(***************************************************************************)
Stands(c) ==
  LET f == fact[ticket[c]] IN
  /\ pc[c] = "dispatchMetadata" => f = Intent
  /\ pc[c] \in WriteSteps \cup {"metadataWritten", "metadataUnsure"} =>
       f = Fact("metadata_dispatch_recorded")
  /\ pc[c] \in {"select", "notSelected", "dispatchMove"} => f = Fact("metadata_verified")
  /\ pc[c] \in MoveSteps \cup {"moved", "moveUnsure", "notApplied"} =>
       f = Fact("move_dispatch_recorded")
  /\ pc[c] = "cancelMove" =>
       f \in {Fact("move_indeterminate"), Resolution("move_verified", "none")}
  /\ pc[c] \in MetadataProbes =>
       \/ f.event = "metadata_indeterminate"
       \/ f \in {Resolution("not_applied", "absent"), Resolution("not_applied", "retained")}
  /\ pc[c] \in ContentProbes =>
       \/ f.event = "move_indeterminate"
       \/ f \in {Resolution("move_verified", "none"), Resolution("not_applied", "none")}

(* What a caller knows of the Trash entries under its token. *)
Knows(c) ==
  LET t == ticket[c] IN
  t \notin touched =>
    /\ pc[c] = "metadataWritten" => info[t] = "whole" /\ Durable("info", t)
    /\ pc[c] \in {"check", "rename", "notApplied", "cancelMove"} => files[t] = "none"
    /\ pc[c] \in {"syncMove", "reprove", "moved"} => files[t] = "planned"
    /\ pc[c] \in {"reprove", "moved"} => Durable("move", t)
    /\ pc[c] = "metadataAbsent" => info[t] = "absent"

(* What the last fact of a token says of its Trash entries. *)
MovingStages == {"move_dispatch_recorded", "move_indeterminate", "move_verified"}

EntriesAgree(t) ==
  t \notin touched =>
    /\ info[t] = "absent" => Durable("info", t)
    /\ Stage(fact[t]) \in MovingStages \cup {"metadata_verified"} =>
         info[t] = "whole" /\ Durable("info", t)
    /\ files[t] # "none" => Stage(fact[t]) \in MovingStages
    /\ fact[t].event = "move_verified" => files[t] = "planned" /\ Durable("move", t)
    /\ fact[t] = Resolution("not_applied", "absent") => info[t] = "absent"

(* The conjunction is what every step preserves. *)
TrashInv ==
  /\ TypeOK
  /\ ReservationsExclude
  /\ MoversApart
  /\ \A c \in Callers : Holds(c) /\ Stands(c) /\ Knows(c)
  /\ \A t \in Tokens : EntriesAgree(t)
-----------------------------------------------------------------------------
(***************************************************************************)
(* What is also invariant while no power is lost: what a reconciler has    *)
(* observed, and what a resolution says of the Trash, stays true of it.  A *)
(* reconciler syncs nothing, so a power loss can undo what it has found.   *)
(***************************************************************************)
Observed(c) ==
  LET t == ticket[c] IN
  t \notin touched =>
    /\ pc[c] = "metadataRetained" => info[t] = "whole"
    /\ pc[c] \in {"sourceStillGone", "metadataStillThere", "contentRetained"} =>
         files[t] = "planned"

Settled(t) ==
  t \notin touched =>
    /\ fact[t].metadata = "absent" => info[t] = "absent"
    /\ fact[t].metadata = "retained" => info[t] = "whole"
    /\ Stage(fact[t]) = "move_verified" => files[t] = "planned"

SettledInv == TrashInv /\ (\A c \in Callers : Observed(c)) /\ (\A t \in Tokens : Settled(t))
=============================================================================
