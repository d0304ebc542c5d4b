-------------------------- MODULE TrashMoveProofs --------------------------
(***************************************************************************)
(* TrashInv is an invariant of TrashMove, and what the runs check of the   *)
(* Trash move follows from it, for any number of callers, sources and      *)
(* tokens and for every environment.                                       *)
(***************************************************************************)
EXTENDS TrashInvariant, TLAPS

(* The ledger's instance of the vocabulary is this one. *)
LEMMA SameClosed ==
  /\ Ledger!NoFact = NoFact
  /\ Ledger!Intent = Intent
  /\ \A f : Ledger!Closed(f) <=> Closed(f)
BY DEF Ledger!NoFact, NoFact, Ledger!Intent, Intent, Ledger!Fact, Fact, Ledger!Closed, Closed

(* What the two ledger calls do, in the words of this module. *)
LEMMA AdvanceMeans ==
  ASSUME NEW t \in Tokens, NEW g, Ledger!Advance(t, g)
  PROVE  /\ Pending(t)
         /\ fact' = [fact EXCEPT ![t] = g]
         /\ source' = source
BY SameClosed DEF Ledger!Advance, Ledger!ValidTransition, Pending

LEMMA ReserveMeans ==
  ASSUME NEW t \in Tokens, NEW s, Ledger!Reserve(t, s, "trash")
  PROVE  /\ fact[t] = NoFact
         /\ \A u \in Tokens : Pending(u) => source[u] # s
         /\ fact' = [fact EXCEPT ![t] = Intent]
         /\ source' = [source EXCEPT ![t] = s]
BY SameClosed DEF Ledger!Reserve, Ledger!Open, Pending

-----------------------------------------------------------------------------

OthersStay(c) ==
  \A d \in Callers \ {c} : pc'[d] = pc[d] /\ target'[d] = target[d] /\ ticket'[d] = ticket[d]

OnlyEntryOf(t) ==
  /\ touched' = touched
  /\ \A u \in Tokens \ {t} : /\ files'[u] = files[u]
                             /\ info'[u] = info[u]
                             /\ \A k \in {"info", "move"} : Durable(k, u)' = Durable(k, u)

LEMMA InitHolds == Init => TrashInv
<1> SUFFICES ASSUME Init PROVE TrashInv
  OBVIOUS
<1>1. TypeOK
  BY DEF Init, TypeOK, Contents, InfoStates, Effects, Steps
<1>2. ReservationsExclude
  BY DEF Init, ReservationsExclude, Pending
<1>3. MoversApart
  BY DEF Init, MoversApart, Moving, MovingSteps, WriteSteps, MoveSteps
<1>4. ASSUME NEW c \in Callers PROVE Holds(c) /\ Stands(c) /\ Knows(c)
  BY DEF Init, Holds, Stands, Knows, Moving, MovingSteps, WriteSteps, MoveSteps, MetadataProbes,
         ContentProbes, ProbeSteps
<1>5. ASSUME NEW t \in Tokens PROVE EntriesAgree(t)
  BY DEF Init, EntriesAgree, Durable, Stage, MovingStages, NoFact, Resolution
<1>6. QED
  BY <1>1, <1>2, <1>3, <1>4, <1>5 DEF TrashInv

(***************************************************************************)
(* A step of one caller that changes neither the ledger nor the names: it  *)
(* is enough to look at that caller.                                       *)
(***************************************************************************)
LEMMA QuietStep ==
  ASSUME TrashInv, NEW c \in Callers, OthersStay(c),
         UNCHANGED <<ledgerVars, namespaceVars>>,
         TypeOK',
         Moving(c)' => Moving(c) /\ ticket'[c] = ticket[c],
         Holds(c)', Stands(c)', Knows(c)'
  PROVE  TrashInv'
<1>1. ReservationsExclude'
  BY DEF TrashInv, ReservationsExclude, Pending, ledgerVars
<1>2. MoversApart'
  BY DEF TrashInv, MoversApart, Moving, OthersStay
<1>3. ASSUME NEW d \in Callers \ {c} PROVE Holds(d)' /\ Stands(d)' /\ Knows(d)'
  <2>1. Holds(d) /\ Stands(d) /\ Knows(d)
    BY DEF TrashInv
  <2>2. Holds(d)'
    BY <2>1 DEF Holds, Moving, OthersStay, ledgerVars
  <2>3. Stands(d)'
    BY <2>1 DEF Stands, OthersStay, ledgerVars
  <2>4. Knows(d)'
    BY <2>1 DEF Knows, Durable, OthersStay, namespaceVars
  <2>5. QED
    BY <2>2, <2>3, <2>4
<1>4. ASSUME NEW t \in Tokens PROVE EntriesAgree(t)'
  BY DEF TrashInv, EntriesAgree, Durable, ledgerVars, namespaceVars
<1>5. QED
  BY <1>1, <1>2, <1>3, <1>4 DEF TrashInv

(* Nobody else is at a step of the recovery whose effect a caller makes. *)
LEMMA EffectIsAlone ==
  ASSUME TrashInv, NEW c \in Callers, InEffect(c),
         NEW d \in Callers, d # c, ticket[d] = ticket[c]
  PROVE  ~Moving(d) /\ pc[d] \notin MetadataProbes \cup ContentProbes
<1>1. Stands(c) /\ Stands(d) /\ Moving(c)
  BY DEF TrashInv, InEffect, Moving, MovingSteps
<1>2. ~Moving(d)
  BY <1>1 DEF TrashInv, MoversApart
<1>3. fact[ticket[c]].event \in {"metadata_dispatch_recorded", "move_dispatch_recorded"}
  BY <1>1 DEF Stands, InEffect, Fact
<1>4. pc[d] \in MetadataProbes \cup ContentProbes =>
        fact[ticket[c]].event \in {"metadata_indeterminate", "move_indeterminate",
                                   "reconciliation_resolved"}
  <2>1. CASE pc[d] \in MetadataProbes
    BY <1>1, <2>1 DEF Stands, Fact, Resolution
  <2>2. CASE pc[d] \in ContentProbes
    BY <1>1, <2>2 DEF Stands, Fact, Resolution
  <2>3. QED
    BY <2>1, <2>2
<1>5. QED
  BY <1>2, <1>3, <1>4

(***************************************************************************)
(* A step of a caller whose effect is under way: it is enough to look at   *)
(* that caller and at its token.                                           *)
(***************************************************************************)
LEMMA EffectStep ==
  ASSUME TrashInv, NEW c \in Callers, InEffect(c), OthersStay(c),
         UNCHANGED ledgerVars, OnlyEntryOf(ticket[c]),
         ticket'[c] = ticket[c],
         TypeOK', Holds(c)', Stands(c)', Knows(c)', EntriesAgree(ticket[c])'
  PROVE  TrashInv'
<1>0. Moving(c) /\ ticket[c] \in Tokens
  BY DEF TrashInv, Holds, InEffect, Moving, MovingSteps
<1>1. ReservationsExclude'
  BY DEF TrashInv, ReservationsExclude, Pending, ledgerVars
<1>2. MoversApart'
  BY <1>0 DEF TrashInv, MoversApart, Moving, OthersStay
<1>3. ASSUME NEW d \in Callers \ {c} PROVE Holds(d)' /\ Stands(d)' /\ Knows(d)'
  <2>1. Holds(d) /\ Stands(d) /\ Knows(d)
    BY DEF TrashInv
  <2>2. Holds(d)'
    BY <2>1 DEF Holds, Moving, OthersStay, ledgerVars
  <2>3. Stands(d)'
    BY <2>1 DEF Stands, OthersStay, ledgerVars
  <2>4. CASE ticket[d] = ticket[c]
    <3>1. ~Moving(d) /\ pc[d] \notin MetadataProbes
      BY <2>4, EffectIsAlone
    <3>2. Knows(d)'
      BY <3>1 DEF Knows, OthersStay, Moving, MovingSteps, WriteSteps, MoveSteps, MetadataProbes
    <3>3. QED
      BY <2>2, <2>3, <3>2
  <2>5. CASE ticket[d] # ticket[c]
    <3>1. CASE ticket[d] \in Tokens
      BY <2>1, <2>2, <2>3, <2>5, <3>1 DEF Knows, OthersStay, OnlyEntryOf
    <3>2. CASE ticket[d] \notin Tokens
      <4>1. ~Moving(d) /\ pc[d] \notin MetadataProbes
        BY <2>1, <3>2 DEF Holds
      <4>2. Knows(d)'
        BY <4>1 DEF Knows, OthersStay, Moving, MovingSteps, WriteSteps, MoveSteps, MetadataProbes
      <4>3. QED
        BY <2>2, <2>3, <4>2
    <3>3. QED
      BY <3>1, <3>2
  <2>6. QED
    BY <2>4, <2>5
<1>4. ASSUME NEW t \in Tokens PROVE EntriesAgree(t)'
  <2>1. CASE t = ticket[c]
    BY <2>1
  <2>2. CASE t # ticket[c]
    BY <2>2 DEF TrashInv, EntriesAgree, OnlyEntryOf, ledgerVars
  <2>3. QED
    BY <2>1, <2>2
<1>5. QED
  BY <1>1, <1>2, <1>3, <1>4 DEF TrashInv

-----------------------------------------------------------------------------
(* What a step does to the callers. *)

CallersTyped ==
  /\ pc \in [Callers -> Steps]
  /\ target \in [Callers -> Sources \cup {NoSource}]
  /\ ticket \in [Callers -> Tokens \cup {NoToken}]

LEMMA GoMeans ==
  ASSUME TrashInv, NEW c \in Callers, NEW step \in Steps, Go(c, step)
  PROVE  /\ OthersStay(c) /\ CallersTyped'
         /\ pc'[c] = step /\ target'[c] = target[c] /\ ticket'[c] = ticket[c]
BY DEF TrashInv, TypeOK, Go, OthersStay, CallersTyped

LEMMA StopMeans ==
  ASSUME TrashInv, NEW c \in Callers, Stop(c)
  PROVE  /\ OthersStay(c) /\ CallersTyped' /\ pc'[c] = "idle"
         /\ ~Moving(c)' /\ Holds(c)' /\ Stands(c)' /\ Knows(c)'
<1>1. OthersStay(c) /\ CallersTyped' /\ pc'[c] = "idle"
  BY DEF TrashInv, TypeOK, Stop, OthersStay, CallersTyped, Steps
<1>2. ~Moving(c)' /\ Holds(c)'
  BY <1>1 DEF Moving, MovingSteps, WriteSteps, MoveSteps, Holds, MetadataProbes, ContentProbes,
              ProbeSteps
<1>3. Stands(c)'
  BY <1>1 DEF Stands, WriteSteps, MoveSteps, MetadataProbes, ContentProbes, ProbeSteps
<1>4. Knows(c)'
  BY <1>1 DEF Knows
<1>5. QED
  BY <1>1, <1>2, <1>3, <1>4

(* A call that returns, or is stopped, without touching anything. *)
LEMMA StopPreserves ==
  ASSUME TrashInv, NEW c \in Callers, Stop(c), UNCHANGED <<ledgerVars, namespaceVars>>
  PROVE  TrashInv'
<1>1. TypeOK'
  BY StopMeans DEF TrashInv, TypeOK, CallersTyped, ledgerVars, namespaceVars
<1>2. QED
  BY <1>1, StopMeans, QuietStep

-----------------------------------------------------------------------------
(* The steps under an effect. *)

LEMMA EffectKnows ==
  ASSUME TrashInv, NEW c \in Callers, InEffect(c)
  PROVE  /\ Moving(c) /\ Stands(c) /\ Knows(c)
         /\ ticket[c] \in Tokens /\ target[c] \in Sources /\ source[ticket[c]] = target[c]
         /\ EntriesAgree(ticket[c])
BY DEF TrashInv, Holds, InEffect, Moving, MovingSteps

(***************************************************************************)
(* A caller in effect goes on to a step under the same fact: what is left  *)
(* to show is what it knows then, and that its entries agree.              *)
(***************************************************************************)
LEMMA GoesOn ==
  ASSUME TrashInv, NEW c \in Callers, InEffect(c), NEW step \in Steps, Go(c, step),
         NEW t, t = ticket[c], UNCHANGED ledgerVars, OnlyEntryOf(t),
         \/ /\ pc[c] \in WriteSteps
            /\ step \in WriteSteps \cup {"metadataWritten", "metadataUnsure"}
         \/ /\ pc[c] \in MoveSteps
            /\ step \in MoveSteps \cup {"moved", "moveUnsure", "notApplied"},
         at' \in [Sources -> Contents], files' \in [Tokens -> Contents],
         info' \in [Tokens -> InfoStates], volatile' \subseteq Effects,
         Knows(c)', EntriesAgree(t)'
  PROVE  TrashInv'
<1>1. /\ OthersStay(c) /\ CallersTyped'
      /\ pc'[c] = step /\ target'[c] = target[c] /\ ticket'[c] = ticket[c]
  BY GoMeans
<1>2. /\ Moving(c) /\ Stands(c)
      /\ ticket[c] \in Tokens /\ target[c] \in Sources /\ source[ticket[c]] = target[c]
  BY EffectKnows
<1>3. TypeOK'
  BY <1>1 DEF TrashInv, TypeOK, CallersTyped, ledgerVars, OnlyEntryOf
<1>4. Holds(c)'
  BY <1>1, <1>2 DEF Holds, Moving, MovingSteps, WriteSteps, MoveSteps, MetadataProbes,
                    ContentProbes, ProbeSteps, ledgerVars
<1>5. Stands(c)'
  BY <1>1, <1>2 DEF Stands, WriteSteps, MoveSteps, MetadataProbes, ContentProbes, ProbeSteps,
                    ledgerVars
<1>6. EntriesAgree(ticket[c])'
  BY <1>1
<1>7. QED
  BY <1>1, <1>3, <1>4, <1>5, <1>6, EffectStep

LEMMA CreateInfoPreserves ==
  ASSUME TrashInv, NEW c \in Callers, CreateInfo(c)
  PROVE  TrashInv'
<1> PICK t : t = ticket[c]
  OBVIOUS
<1> PICK step \in {"complete", "metadataUnsure"} : Go(c, step)
  BY DEF CreateInfo
<1>1. InEffect(c) /\ pc[c] \in WriteSteps /\ step \in Steps
  BY DEF CreateInfo, InEffect, WriteSteps, Steps, Recording
<1>2. t \in Tokens /\ Stands(c) /\ EntriesAgree(t)
  BY <1>1, EffectKnows
<1>3. /\ ticket'[c] = t /\ pc'[c] = step
  BY <1>1, GoMeans
<1>4. OnlyEntryOf(t)
  BY <1>2 DEF CreateInfo, OnlyEntryOf, Durable, TrashInv, TypeOK
<1>5. /\ at' \in [Sources -> Contents] /\ files' \in [Tokens -> Contents]
      /\ info' \in [Tokens -> InfoStates] /\ volatile' \subseteq Effects
  BY <1>2 DEF CreateInfo, TrashInv, TypeOK, InfoStates, Effects
<1>6. Knows(c)'
  BY <1>3 DEF Knows
<1>7. EntriesAgree(t)'
  <2>1. fact[t] = Fact("metadata_dispatch_recorded")
    BY <1>1, <1>2 DEF Stands
  <2>2. /\ Stage(fact[t]) \notin MovingStages \cup {"metadata_verified"}
        /\ fact[t].event # "move_verified" /\ fact[t] # Resolution("not_applied", "absent")
    BY <2>1 DEF Stage, MovingStages, Fact, Resolution
  <2>3. info'[t] = "absent" => info[t] = "absent" /\ volatile' = volatile
    BY <1>2 DEF CreateInfo, TrashInv, TypeOK
  <2>4. fact' = fact /\ files' = files /\ touched' = touched
    BY DEF CreateInfo, ledgerVars
  <2>5. QED
    BY <1>2, <2>2, <2>3, <2>4 DEF EntriesAgree, Durable
<1>8. QED
  BY <1>1, <1>4, <1>5, <1>6, <1>7, GoesOn DEF CreateInfo, WriteSteps

LEMMA CompleteInfoPreserves ==
  ASSUME TrashInv, NEW c \in Callers, CompleteInfo(c)
  PROVE  TrashInv'
<1> PICK t : t = ticket[c]
  OBVIOUS
<1> PICK step \in {"syncInfo", "metadataUnsure"} : Go(c, step)
  BY DEF CompleteInfo
<1>1. InEffect(c) /\ pc[c] \in WriteSteps /\ step \in Steps
  BY DEF CompleteInfo, InEffect, WriteSteps, Steps, Recording
<1>2. t \in Tokens /\ Stands(c) /\ EntriesAgree(t)
  BY <1>1, EffectKnows
<1>3. /\ ticket'[c] = t /\ pc'[c] = step
  BY <1>1, GoMeans
<1>4. OnlyEntryOf(t)
  BY <1>2 DEF CompleteInfo, OnlyEntryOf, Durable, TrashInv, TypeOK
<1>5. /\ at' \in [Sources -> Contents] /\ files' \in [Tokens -> Contents]
      /\ info' \in [Tokens -> InfoStates] /\ volatile' \subseteq Effects
  BY <1>2 DEF CompleteInfo, TrashInv, TypeOK, InfoStates
<1>6. Knows(c)'
  BY <1>3 DEF Knows
<1>7. EntriesAgree(t)'
  <2>1. fact[t] = Fact("metadata_dispatch_recorded")
    BY <1>1, <1>2 DEF Stands
  <2>2. /\ Stage(fact[t]) \notin MovingStages \cup {"metadata_verified"}
        /\ fact[t].event # "move_verified" /\ fact[t] # Resolution("not_applied", "absent")
    BY <2>1 DEF Stage, MovingStages, Fact, Resolution
  <2>3. info'[t] = "absent" => info[t] = "absent"
    BY <1>2 DEF CompleteInfo, TrashInv, TypeOK
  <2>4. fact' = fact /\ files' = files /\ touched' = touched /\ volatile' = volatile
    BY DEF CompleteInfo, ledgerVars
  <2>5. QED
    BY <1>2, <2>2, <2>3, <2>4 DEF EntriesAgree, Durable
<1>8. QED
  BY <1>1, <1>4, <1>5, <1>6, <1>7, GoesOn DEF CompleteInfo, WriteSteps

LEMMA SyncInfoPreserves ==
  ASSUME TrashInv, NEW c \in Callers, SyncInfo(c)
  PROVE  TrashInv'
<1> PICK t : t = ticket[c]
  OBVIOUS
<1> PICK step \in {"metadataWritten", "metadataUnsure"} :
      /\ Go(c, step)
      /\ step = "metadataWritten" => info[t] = "whole" /\ <<"info", t>> \notin volatile'
  BY DEF SyncInfo
<1>1. InEffect(c) /\ pc[c] \in WriteSteps /\ step \in Steps
  BY DEF SyncInfo, InEffect, WriteSteps, Steps, Recording
<1>2. t \in Tokens /\ EntriesAgree(t)
  BY <1>1, EffectKnows
<1>3. /\ ticket'[c] = t /\ pc'[c] = step
  BY <1>1, GoMeans
<1>4. OnlyEntryOf(t)
  BY <1>2 DEF SyncInfo, OnlyEntryOf, Durable
<1>5. /\ at' \in [Sources -> Contents] /\ files' \in [Tokens -> Contents]
      /\ info' \in [Tokens -> InfoStates] /\ volatile' \subseteq Effects
  BY DEF SyncInfo, TrashInv, TypeOK
<1>6. Knows(c)'
  BY <1>3 DEF SyncInfo, Knows, Durable
<1>7. EntriesAgree(t)'
  BY <1>2 DEF SyncInfo, EntriesAgree, Durable, ledgerVars
<1>8. QED
  BY <1>1, <1>4, <1>5, <1>6, <1>7, GoesOn DEF SyncInfo, WriteSteps

(* A check or a verification changes nothing but what the caller knows. *)
LEMMA LooksOn ==
  ASSUME TrashInv, NEW c \in Callers,
         NEW step \in MoveSteps \cup {"moved", "moveUnsure", "notApplied"},
         pc[c] \in MoveSteps, Go(c, step), UNCHANGED <<ledgerVars, namespaceVars>>, Knows(c)'
  PROVE  TrashInv'
<1> PICK t : t = ticket[c]
  OBVIOUS
<1>1. InEffect(c) /\ step \in Steps
  BY DEF InEffect, Steps, Recording, MoveSteps
<1>2. EntriesAgree(t)
  BY <1>1, EffectKnows
<1>3. OnlyEntryOf(t) /\ EntriesAgree(t)'
  BY <1>2 DEF OnlyEntryOf, EntriesAgree, Durable, ledgerVars, namespaceVars
<1>4. /\ at' \in [Sources -> Contents] /\ files' \in [Tokens -> Contents]
      /\ info' \in [Tokens -> InfoStates] /\ volatile' \subseteq Effects
  BY DEF namespaceVars, TrashInv, TypeOK
<1>5. QED
  BY <1>1, <1>3, <1>4, GoesOn DEF namespaceVars

LEMMA CheckMovePreserves ==
  ASSUME TrashInv, NEW c \in Callers, CheckMove(c)
  PROVE  TrashInv'
<1> PICK step \in {"rename", "notApplied"} : Go(c, step)
  BY DEF CheckMove
<1>1. InEffect(c) /\ pc[c] = "check" /\ step \in Steps
  BY DEF CheckMove, InEffect, WriteSteps, MoveSteps, Steps, Recording
<1>2. Knows(c) /\ pc'[c] = step /\ ticket'[c] = ticket[c]
  BY <1>1, EffectKnows, GoMeans
<1>3. Knows(c)'
  BY <1>1, <1>2 DEF CheckMove, Knows, Durable, namespaceVars
<1>4. QED
  BY <1>1, <1>3, LooksOn DEF CheckMove, MoveSteps

LEMMA VerifyMovePreserves ==
  ASSUME TrashInv, NEW c \in Callers, VerifyMove(c)
  PROVE  TrashInv'
<1> PICK step \in {"syncMove", "moveUnsure"} :
      Go(c, step) /\ (step = "syncMove" => files[ticket[c]] = "planned")
  BY DEF VerifyMove
<1>1. InEffect(c) /\ pc[c] = "verify" /\ step \in Steps
  BY DEF VerifyMove, InEffect, WriteSteps, MoveSteps, Steps, Recording
<1>2. pc'[c] = step /\ ticket'[c] = ticket[c]
  BY <1>1, GoMeans
<1>3. Knows(c)'
  BY <1>2 DEF VerifyMove, Knows, Durable, namespaceVars
<1>4. QED
  BY <1>1, <1>3, LooksOn DEF VerifyMove, MoveSteps

LEMMA ReproveMetadataPreserves ==
  ASSUME TrashInv, NEW c \in Callers, ReproveMetadata(c)
  PROVE  TrashInv'
<1> PICK step \in {"moved", "moveUnsure"} : Go(c, step)
  BY DEF ReproveMetadata
<1>1. InEffect(c) /\ pc[c] = "reprove" /\ step \in Steps
  BY DEF ReproveMetadata, InEffect, WriteSteps, MoveSteps, Steps, Recording
<1>2. Knows(c) /\ pc'[c] = step /\ ticket'[c] = ticket[c]
  BY <1>1, EffectKnows, GoMeans
<1>3. Knows(c)'
  BY <1>1, <1>2 DEF ReproveMetadata, Knows, Durable, namespaceVars
<1>4. QED
  BY <1>1, <1>3, LooksOn DEF ReproveMetadata, MoveSteps

(* A move under way stands dispatched: whatever it does is accounted for. *)
LEMMA DispatchedAgrees ==
  ASSUME TrashInv, NEW c \in Callers, pc[c] \in MoveSteps
  PROVE  /\ Stage(fact[ticket[c]]) \in MovingStages
         /\ fact[ticket[c]].event # "move_verified"
         /\ fact[ticket[c]] # Resolution("not_applied", "absent")
<1>1. fact[ticket[c]] = Fact("move_dispatch_recorded")
  BY EffectKnows DEF InEffect, Stands
<1>2. QED
  BY <1>1 DEF Stage, MovingStages, Fact, Resolution

LEMMA RenamePreserves ==
  ASSUME TrashInv, NEW c \in Callers, Rename(c)
  PROVE  TrashInv'
<1> PICK t : t = ticket[c]
  OBVIOUS
<1> PICK step \in {"verify", "notApplied", "moveUnsure"} :
      /\ Go(c, step)
      /\ step = "notApplied" => files' = files
  BY DEF Rename
<1>1. InEffect(c) /\ pc[c] = "rename" /\ pc[c] \in MoveSteps /\ step \in Steps
  BY DEF Rename, InEffect, WriteSteps, MoveSteps, Steps, Recording
<1>2. t \in Tokens /\ target[c] \in Sources /\ EntriesAgree(t) /\ Knows(c)
  BY <1>1, EffectKnows
<1>3. /\ ticket'[c] = t /\ pc'[c] = step
  BY <1>1, GoMeans
<1>4. OnlyEntryOf(t) /\ Durable("info", t)' = Durable("info", t)
  BY <1>2 DEF Rename, ApplyRename, OnlyEntryOf, Durable, TrashInv, TypeOK
<1>5. /\ at' \in [Sources -> Contents] /\ files' \in [Tokens -> Contents]
      /\ info' \in [Tokens -> InfoStates] /\ volatile' \subseteq Effects
  BY <1>2 DEF Rename, ApplyRename, TrashInv, TypeOK, Contents, Effects
<1>6. Knows(c)'
  BY <1>1, <1>2, <1>3 DEF Rename, Knows
<1>7. EntriesAgree(t)'
  BY <1>1, <1>2, <1>4, DispatchedAgrees DEF Rename, EntriesAgree, ledgerVars
<1>8. QED
  BY <1>1, <1>4, <1>5, <1>6, <1>7, GoesOn DEF Rename, MoveSteps

LEMMA SyncMovePreserves ==
  ASSUME TrashInv, NEW c \in Callers, SyncMove(c)
  PROVE  TrashInv'
<1> PICK t : t = ticket[c]
  OBVIOUS
<1> PICK step \in {"reprove", "moveUnsure"} :
      /\ Go(c, step)
      /\ step = "reprove" => <<"move", t>> \notin volatile'
  BY DEF SyncMove
<1>1. InEffect(c) /\ pc[c] = "syncMove" /\ pc[c] \in MoveSteps /\ step \in Steps
  BY DEF SyncMove, InEffect, WriteSteps, MoveSteps, Steps, Recording
<1>2. t \in Tokens /\ EntriesAgree(t) /\ Knows(c)
  BY <1>1, EffectKnows
<1>3. /\ ticket'[c] = t /\ pc'[c] = step
  BY <1>1, GoMeans
<1>4. OnlyEntryOf(t) /\ Durable("info", t)' = Durable("info", t)
  BY <1>2 DEF SyncMove, OnlyEntryOf, Durable
<1>5. /\ at' \in [Sources -> Contents] /\ files' \in [Tokens -> Contents]
      /\ info' \in [Tokens -> InfoStates] /\ volatile' \subseteq Effects
  BY DEF SyncMove, TrashInv, TypeOK
<1>6. Knows(c)'
  BY <1>1, <1>2, <1>3 DEF SyncMove, Knows, Durable
<1>7. EntriesAgree(t)'
  BY <1>1, <1>2, <1>4, DispatchedAgrees DEF SyncMove, EntriesAgree, ledgerVars
<1>8. QED
  BY <1>1, <1>4, <1>5, <1>6, <1>7, GoesOn DEF SyncMove, MoveSteps

-----------------------------------------------------------------------------
(* The steps between the effects, and the probes of the reconcilers. *)

LEMMA ValidatePreserves ==
  ASSUME TrashInv, NEW c \in Callers, NEW s \in Sources, Validate(c, s)
  PROVE  TrashInv'
<1>1. /\ OthersStay(c) /\ CallersTyped'
      /\ pc'[c] = "validated" /\ target'[c] = s /\ ticket' = ticket
  BY DEF Validate, OthersStay, CallersTyped, TrashInv, TypeOK, Steps
<1>2. TypeOK'
  BY <1>1 DEF Validate, TrashInv, TypeOK, CallersTyped, ledgerVars, namespaceVars
<1>3. ~Moving(c)' /\ Holds(c)'
  BY <1>1 DEF Moving, MovingSteps, WriteSteps, MoveSteps, Holds, MetadataProbes, ContentProbes,
              ProbeSteps
<1>4. Stands(c)'
  BY <1>1 DEF Stands, WriteSteps, MoveSteps, MetadataProbes, ContentProbes, ProbeSteps
<1>5. Knows(c)'
  BY <1>1 DEF Knows
<1>6. QED
  BY <1>1, <1>2, <1>3, <1>4, <1>5, QuietStep DEF Validate

LEMMA SelectDirectoriesPreserves ==
  ASSUME TrashInv, NEW c \in Callers, SelectDirectories(c)
  PROVE  TrashInv'
<1> PICK step \in {"dispatchMove", "notSelected"} : Go(c, step)
  BY DEF SelectDirectories
<1>1. pc[c] = "select" /\ step \in Steps
  BY DEF SelectDirectories, Steps, Recording
<1>2. /\ OthersStay(c) /\ CallersTyped'
      /\ pc'[c] = step /\ target'[c] = target[c] /\ ticket'[c] = ticket[c]
  BY <1>1, GoMeans
<1>3. TypeOK'
  BY <1>2 DEF SelectDirectories, TrashInv, TypeOK, CallersTyped, ledgerVars, namespaceVars
<1>4. Moving(c) /\ Holds(c) /\ Stands(c)
  BY <1>1 DEF TrashInv, Moving, MovingSteps
<1>5. Holds(c)'
  BY <1>2, <1>4 DEF SelectDirectories, Holds, Moving, MovingSteps, WriteSteps, MoveSteps,
                    MetadataProbes, ContentProbes, ProbeSteps, ledgerVars
<1>6. Stands(c)'
  BY <1>1, <1>2, <1>4 DEF SelectDirectories, Stands, WriteSteps, MoveSteps, MetadataProbes,
                          ContentProbes, ProbeSteps, ledgerVars
<1>7. Knows(c)'
  BY <1>2 DEF Knows
<1>8. QED
  BY <1>2, <1>3, <1>4, <1>5, <1>6, <1>7, QuietStep DEF SelectDirectories

(* A probe changes nothing but what its caller knows. *)
LEMMA Probes ==
  ASSUME TrashInv, NEW c \in Callers, NEW step \in Steps, Go(c, step),
         UNCHANGED <<ledgerVars, namespaceVars>>, Knows(c)',
         \/ pc[c] \in MetadataProbes /\ step \in MetadataProbes
         \/ pc[c] \in ContentProbes /\ step \in ContentProbes
  PROVE  TrashInv'
<1>1. /\ OthersStay(c) /\ CallersTyped'
      /\ pc'[c] = step /\ target'[c] = target[c] /\ ticket'[c] = ticket[c]
  BY GoMeans
<1>2. TypeOK'
  BY <1>1 DEF TrashInv, TypeOK, CallersTyped, ledgerVars, namespaceVars
<1>3. Holds(c) /\ Stands(c)
  BY DEF TrashInv
<1>4. ~Moving(c)' /\ Holds(c)'
  BY <1>1, <1>3 DEF Moving, MovingSteps, WriteSteps, MoveSteps, Holds, MetadataProbes,
                    ContentProbes, ProbeSteps
<1>5. Stands(c)'
  BY <1>1, <1>3 DEF Stands, WriteSteps, MoveSteps, MetadataProbes, ContentProbes, ProbeSteps,
                    ledgerVars
<1>6. QED
  BY <1>1, <1>2, <1>4, <1>5, QuietStep

LEMMA ProbeMetadataPreserves ==
  ASSUME TrashInv, NEW c \in Callers, ProbeMetadata(c)
  PROVE  TrashInv'
<1> PICK step \in {"metadataAbsent", "metadataRetained"} :
      Go(c, step) /\ (step = "metadataAbsent" => info[ticket[c]] = "absent")
  BY DEF ProbeMetadata
<1>1. step \in Steps /\ step \in MetadataProbes /\ pc[c] \in MetadataProbes
  BY DEF ProbeMetadata, Steps, Recording, MetadataProbes
<1>2. pc'[c] = step /\ ticket'[c] = ticket[c]
  BY <1>1, GoMeans
<1>3. Knows(c)'
  BY <1>2 DEF ProbeMetadata, Knows, namespaceVars
<1>4. QED
  BY <1>1, <1>3, Probes DEF ProbeMetadata

LEMMA ProveMovePreserves ==
  ASSUME TrashInv, NEW c \in Callers, ProveMove(c)
  PROVE  TrashInv'
<1> PICK step \in ContentProbes :
      Go(c, step) /\ pc[c] \in ContentProbes /\ UNCHANGED <<ledgerVars, namespaceVars>>
  BY DEF ProveMove, Observe, ContentProbes, ProbeSteps
<1>1. step \in Steps
  BY DEF Steps, Recording, ContentProbes
<1>2. pc'[c] = step
  BY <1>1, GoMeans
<1>3. Knows(c)'
  BY <1>2 DEF Knows, ContentProbes, ProbeSteps
<1>4. QED
  BY <1>1, <1>3, Probes

LEMMA ReloadPreserves ==
  ASSUME TrashInv, NEW c \in Callers, NEW t \in Tokens, Reload(c, t)
  PROVE  TrashInv'
<1>1. /\ OthersStay(c) /\ CallersTyped'
      /\ pc'[c] = FirstProbe(fact[t].event) /\ ticket'[c] = t
  BY DEF Reload, OthersStay, CallersTyped, TrashInv, TypeOK, Steps, ProbeSteps, FirstProbe
<1>2. TypeOK'
  BY <1>1 DEF Reload, TrashInv, TypeOK, CallersTyped, ledgerVars, namespaceVars
<1>3. pc'[c] \in {"probeMetadata", "metadataThere"}
  BY <1>1 DEF FirstProbe
<1>4. ~Moving(c)' /\ Holds(c)'
  BY <1>1, <1>3 DEF Moving, MovingSteps, WriteSteps, MoveSteps, Holds, MetadataProbes,
                    ContentProbes, ProbeSteps
<1>5. Stands(c)'
  BY <1>1, <1>3 DEF Reload, Stands, WriteSteps, MoveSteps, MetadataProbes, ContentProbes,
                    ProbeSteps, ledgerVars, FirstProbe, Reconcilable
<1>6. Knows(c)'
  BY <1>3 DEF Knows
<1>7. QED
  BY <1>1, <1>2, <1>4, <1>5, <1>6, QuietStep DEF Reload

LEMMA ReservePreserves ==
  ASSUME TrashInv, NEW c \in Callers, NEW t \in Tokens, Reserve(c, t)
  PROVE  TrashInv'
<1> PICK s : s = target[c]
  OBVIOUS
<1>1. s \in Sources /\ Holds(c)
  BY DEF Reserve, TrashInv, Holds
<1>2. /\ fact[t] = NoFact
      /\ \A u \in Tokens : Pending(u) => source[u] # s
      /\ fact' = [fact EXCEPT ![t] = Intent]
      /\ source' = [source EXCEPT ![t] = s]
  BY ReserveMeans DEF Reserve
<1>3. /\ OthersStay(c) /\ CallersTyped' /\ pc'[c] \in {"idle", "dispatchMetadata"}
      /\ pc'[c] = "dispatchMetadata" => ticket'[c] = t /\ target'[c] = s
  BY DEF Reserve, Stop, OthersStay, CallersTyped, TrashInv, TypeOK, Steps, Recording
<1>4. Intent \in Frames /\ ~Closed(Intent)
  BY DEF Intent, Fact, Frames, Events, Closed
<1>5. TypeOK'
  BY <1>1, <1>2, <1>3, <1>4 DEF Reserve, TrashInv, TypeOK, CallersTyped, namespaceVars
<1>6. ReservationsExclude'
  <2>1. \A u \in Tokens : u # t => Pending(u)' = Pending(u) /\ source'[u] = source[u]
    BY <1>2 DEF Pending, TrashInv, TypeOK
  <2>2. fact'[t] # NoFact /\ source'[t] = s
    BY <1>2 DEF TrashInv, TypeOK, Intent, NoFact, Fact
  <2>3. \A u \in Tokens : u # t => (fact'[u] # NoFact => source'[u] \in Sources)
    BY <1>2 DEF TrashInv, TypeOK, ReservationsExclude
  <2>4. QED
    BY <1>1, <1>2, <2>1, <2>2, <2>3 DEF TrashInv, ReservationsExclude
(* Nobody is at work under a token that was not reserved. *)
<1>7. ASSUME NEW d \in Callers, ticket[d] = t
      PROVE  ~Moving(d) /\ pc[d] \notin MetadataProbes \cup ContentProbes
  <2>1. Stands(d)
    BY DEF TrashInv
  <2>2. fact[ticket[d]].event = "unreserved"
    BY <1>2, <1>7 DEF NoFact
  <2>3. QED
    BY <2>1, <2>2 DEF Stands, Moving, MovingSteps, WriteSteps, MoveSteps, MetadataProbes,
                      ContentProbes, Fact, Resolution, Intent
<1>8. MoversApart'
  BY <1>3, <1>7 DEF TrashInv, MoversApart, Moving, MovingSteps, OthersStay, WriteSteps, MoveSteps
<1>9. ASSUME NEW d \in Callers PROVE Holds(d)' /\ Stands(d)' /\ Knows(d)'
  <2>1. CASE d = c /\ pc'[c] = "idle"
    <3>1. Holds(d)'
      BY <2>1 DEF Holds, Moving, MovingSteps, WriteSteps, MoveSteps, MetadataProbes,
                  ContentProbes, ProbeSteps
    <3>2. Stands(d)' /\ Knows(d)'
      BY <2>1 DEF Stands, Knows, WriteSteps, MoveSteps, MetadataProbes, ContentProbes, ProbeSteps
    <3>3. QED
      BY <3>1, <3>2
  <2>2. CASE d = c /\ pc'[c] = "dispatchMetadata"
    <3>1. Holds(d)'
      BY <1>1, <1>2, <1>3, <2>2 DEF Holds, MetadataProbes, ContentProbes, ProbeSteps, TrashInv, TypeOK
    <3>2. Stands(d)' /\ Knows(d)'
      BY <1>2, <1>3, <2>2 DEF Stands, Knows, WriteSteps, MoveSteps, MetadataProbes, ContentProbes,
                              ProbeSteps, TrashInv, TypeOK
    <3>3. QED
      BY <3>1, <3>2
  <2>3. CASE d # c /\ ticket[d] = t
    <3>1. ~Moving(d)' /\ pc'[d] \notin MetadataProbes \cup ContentProbes
      BY <1>3, <1>7, <2>3 DEF Moving, OthersStay
    <3>2. Holds(d)'
      BY <1>3, <2>3, <3>1 DEF Holds, OthersStay, TrashInv
    <3>3. Stands(d)' /\ Knows(d)'
      BY <3>1 DEF Stands, Knows, Moving, MovingSteps, WriteSteps, MoveSteps, MetadataProbes
    <3>4. QED
      BY <3>2, <3>3
  <2>4. CASE d # c /\ ticket[d] # t
    <3>1. Holds(d) /\ Stands(d) /\ Knows(d)
      BY DEF TrashInv
    <3>2. fact'[ticket[d]] = fact[ticket[d]] /\ source'[ticket[d]] = source[ticket[d]]
      BY <1>2, <2>4 DEF TrashInv, TypeOK
    <3>3. Holds(d)'
      BY <1>3, <2>4, <3>1, <3>2 DEF Holds, Moving, OthersStay
    <3>4. Stands(d)'
      BY <1>3, <2>4, <3>1, <3>2 DEF Stands, OthersStay
    <3>5. Knows(d)'
      BY <1>3, <2>4, <3>1 DEF Knows, Durable, OthersStay, Reserve, namespaceVars
    <3>6. QED
      BY <3>3, <3>4, <3>5
  <2>5. QED
    BY <1>3, <2>1, <2>2, <2>3, <2>4
<1>10. ASSUME NEW u \in Tokens PROVE EntriesAgree(u)'
  <2>1. CASE u = t
    <3>1. EntriesAgree(t) /\ fact[t] = NoFact /\ fact'[t] = Intent
      BY <1>2 DEF TrashInv, TypeOK
    <3>2. /\ Stage(Intent) \notin MovingStages \cup {"metadata_verified"}
          /\ Stage(NoFact) \notin MovingStages
          /\ Intent.event # "move_verified" /\ Intent # Resolution("not_applied", "absent")
      BY DEF Stage, MovingStages, Intent, Fact, NoFact, Resolution
    <3>3. QED
      BY <2>1, <3>1, <3>2 DEF EntriesAgree, Durable, Reserve, namespaceVars
  <2>2. CASE u # t
    BY <1>2, <2>2 DEF EntriesAgree, Durable, Reserve, namespaceVars, TrashInv, TypeOK
  <2>3. QED
    BY <2>1, <2>2
<1>11. QED
  BY <1>5, <1>6, <1>8, <1>9, <1>10 DEF TrashInv

-----------------------------------------------------------------------------
(* Recording a fact. *)

LEMMA RecordingMeans ==
  ASSUME NEW step \in DOMAIN Recording, NEW g, g = Recording[step].new,
         NEW next, next = Recording[step].next
  PROVE  \/ step = "dispatchMetadata" /\ g = Fact("metadata_dispatch_recorded") /\ next = "write"
         \/ step = "metadataWritten" /\ g = Fact("metadata_verified") /\ next = "select"
         \/ step = "metadataUnsure" /\ g = Fact("metadata_indeterminate") /\ next = "idle"
         \/ step = "notSelected" /\ g = Resolution("not_applied", "retained") /\ next = "idle"
         \/ step = "dispatchMove" /\ g = Fact("move_dispatch_recorded") /\ next = "check"
         \/ step = "moved" /\ g = Fact("move_verified") /\ next = "idle"
         \/ step = "moveUnsure" /\ g = Fact("move_indeterminate") /\ next = "idle"
         \/ step = "notApplied" /\ g = Fact("move_indeterminate") /\ next = "cancelMove"
         \/ step = "cancelMove" /\ g = Resolution("not_applied", "none") /\ next = "idle"
         \/ step = "metadataAbsent" /\ g = Resolution("not_applied", "absent") /\ next = "idle"
         \/ step = "metadataRetained" /\ g = Resolution("not_applied", "retained") /\ next = "idle"
         \/ step = "contentRetained" /\ g = Resolution("move_verified", "none") /\ next = "idle"
BY DEF Recording

(* The facts a caller at a step of either kind may find. *)
LEMMA KindsOfFacts ==
  ASSUME TrashInv, NEW c \in Callers
  PROVE  /\ Moving(c) /\ pc[c] # "cancelMove" =>
              fact[ticket[c]].event \in {"intent_reserved", "metadata_dispatch_recorded",
                                         "metadata_verified", "move_dispatch_recorded"}
         /\ pc[c] = "cancelMove" \/ pc[c] \in ContentProbes =>
              \/ fact[ticket[c]].event = "move_indeterminate"
              \/ fact[ticket[c]] \in {Resolution("move_verified", "none"),
                                      Resolution("not_applied", "none")}
         /\ pc[c] \in MetadataProbes =>
              \/ fact[ticket[c]].event = "metadata_indeterminate"
              \/ fact[ticket[c]] \in {Resolution("not_applied", "absent"),
                                      Resolution("not_applied", "retained")}
<1>1. Stands(c)
  BY DEF TrashInv
<1>2. CASE Moving(c) /\ pc[c] # "cancelMove"
  <2>1. pc[c] \notin MetadataProbes \cup ContentProbes
    BY <1>2 DEF Moving, MovingSteps, WriteSteps, MoveSteps, MetadataProbes, ContentProbes, ProbeSteps
  <2>2. QED
    BY <1>1, <1>2, <2>1 DEF Stands, Moving, MovingSteps, Fact, Intent
<1>3. CASE pc[c] = "cancelMove"
  BY <1>1, <1>3 DEF Stands, Fact, MetadataProbes
<1>4. CASE ~Moving(c)
  BY <1>1, <1>4 DEF Stands, Moving, MovingSteps
<1>5. QED
  BY <1>2, <1>3, <1>4

(***************************************************************************)
(* Two callers that may record a fact of one token are both reconcilers of *)
(* the same kind, or one is the last step of a move and the other probes   *)
(* the content: the fact one records is one the other may find.            *)
(***************************************************************************)
LEMMA OthersStand ==
  ASSUME TrashInv, NEW c \in Callers, NEW d \in Callers, d # c, ticket[d] = ticket[c],
         pc[c] \in DOMAIN Recording,
         pc'[d] = pc[d], fact'[ticket'[d]] = Recording[pc[c]].new
  PROVE  Stands(d)'
<1> PICK g, next : g = Recording[pc[c]].new /\ next = Recording[pc[c]].next
  OBVIOUS
<1>1. CASE Moving(c) /\ pc[c] # "cancelMove"
  <2>1. ~Moving(d)
    BY <1>1 DEF TrashInv, MoversApart
  <2>2. pc[d] \notin MetadataProbes \cup ContentProbes
    BY <1>1, KindsOfFacts DEF Resolution
  <2>3. QED
    BY <2>1, <2>2 DEF Stands, Moving, MovingSteps
<1>2. CASE pc[c] = "cancelMove"
  <2>1. Moving(c) /\ g = Resolution("not_applied", "none")
    BY <1>2, RecordingMeans DEF Moving, MovingSteps
  <2>2. ~Moving(d)
    BY <2>1 DEF TrashInv, MoversApart
  <2>3. pc[d] \notin MetadataProbes
    BY <1>2, KindsOfFacts DEF Resolution
  <2>4. QED
    BY <2>1, <2>2, <2>3 DEF Stands, Moving, MovingSteps
<1>3. CASE ~Moving(c)
  <2>1. \/ /\ pc[c] \in MetadataProbes
           /\ g \in {Resolution("not_applied", "absent"), Resolution("not_applied", "retained")}
        \/ /\ pc[c] \in ContentProbes
           /\ g = Resolution("move_verified", "none")
    BY <1>3, RecordingMeans DEF Moving, MovingSteps, MetadataProbes, ContentProbes
  <2>2. CASE pc[c] \in MetadataProbes
    <3>1. pc[d] \notin ContentProbes /\ ~Moving(d)
      BY <2>2, KindsOfFacts DEF Resolution
    <3>2. QED
      BY <2>1, <2>2, <3>1 DEF Stands, Moving, MovingSteps, MetadataProbes, ContentProbes, ProbeSteps
  <2>3. CASE pc[c] \in ContentProbes
    <3>1. pc[d] \notin MetadataProbes /\ (Moving(d) => pc[d] = "cancelMove")
      BY <2>3, KindsOfFacts DEF Resolution
    <3>2. g = Resolution("move_verified", "none")
      BY <2>1, <2>3 DEF MetadataProbes, ContentProbes, ProbeSteps
    <3>3. QED
      BY <3>1, <3>2 DEF Stands, Moving, MovingSteps, WriteSteps, MoveSteps
  <2>4. QED
    BY <2>1, <2>2, <2>3
<1>4. QED
  BY <1>1, <1>2, <1>3

LEMMA RecordedFacts ==
  ASSUME NEW step \in DOMAIN Recording
  PROVE  Recording[step].new \in Frames /\ Recording[step].next \in Steps
BY RecordingMeans
   DEF Fact, Resolution, Frames, Events, Outcomes, MetadataDispositions, Steps, WriteSteps,
       MoveSteps, Recording

(* What a caller stands on, and knows, when its record is confirmed. *)
LEMMA RecordStands ==
  ASSUME TrashInv, NEW c \in Callers, pc[c] \in DOMAIN Recording,
         ticket[c] \in Tokens, fact'[ticket[c]] = Recording[pc[c]].new,
         source' = source, UNCHANGED namespaceVars,
         Go(c, Recording[pc[c]].next), Recording[pc[c]].next # "idle"
  PROVE  /\ Moving(c) /\ ticket'[c] = ticket[c]
         /\ Holds(c)' /\ Stands(c)' /\ Knows(c)'
<1> PICK g, next : g = Recording[pc[c]].new /\ next = Recording[pc[c]].next
  OBVIOUS
<1>1. pc'[c] = next /\ target'[c] = target[c] /\ ticket'[c] = ticket[c]
  BY GoMeans, RecordedFacts
<1>2. \/ pc[c] = "dispatchMetadata" /\ g = Fact("metadata_dispatch_recorded") /\ next = "write"
      \/ pc[c] = "metadataWritten" /\ g = Fact("metadata_verified") /\ next = "select"
      \/ pc[c] = "dispatchMove" /\ g = Fact("move_dispatch_recorded") /\ next = "check"
      \/ pc[c] = "notApplied" /\ g = Fact("move_indeterminate") /\ next = "cancelMove"
  BY RecordingMeans
<1>3. Moving(c) /\ Holds(c) /\ Stands(c) /\ Knows(c) /\ EntriesAgree(ticket[c])
  BY <1>2 DEF TrashInv, Moving, MovingSteps
<1>4. Holds(c)'
  BY <1>1, <1>2, <1>3 DEF Holds, Moving, MovingSteps, WriteSteps, MoveSteps, MetadataProbes,
                          ContentProbes, ProbeSteps
<1>5. Stands(c)'
  BY <1>1, <1>2 DEF Stands, WriteSteps, MoveSteps, MetadataProbes, ContentProbes, ProbeSteps
<1>6. Knows(c)'
  <2>1. CASE next = "check"
    <3>1. fact[ticket[c]] = Fact("metadata_verified")
      BY <1>2, <1>3, <2>1 DEF Stands
    <3>2. Stage(fact[ticket[c]]) \notin MovingStages
      BY <3>1 DEF Stage, Fact, MovingStages
    <3>3. QED
      BY <1>1, <1>3, <2>1, <3>2 DEF Knows, EntriesAgree, namespaceVars
  <2>2. CASE next = "cancelMove"
    BY <1>1, <1>2, <1>3, <2>2 DEF Knows, namespaceVars
  <2>3. CASE next \in {"write", "select"}
    BY <1>1, <2>3 DEF Knows
  <2>4. QED
    BY <1>2, <2>1, <2>2, <2>3
<1>7. QED
  BY <1>1, <1>3, <1>4, <1>5, <1>6

(* A recorded fact agrees with the entries under its token. *)
LEMMA RecordAgrees ==
  ASSUME TrashInv, NEW c \in Callers, pc[c] \in DOMAIN Recording,
         NEW t \in Tokens, t = ticket[c], Pending(t), fact'[t] = Recording[pc[c]].new,
         UNCHANGED namespaceVars
  PROVE  EntriesAgree(t)'
<1> PICK g, next : g = Recording[pc[c]].new /\ next = Recording[pc[c]].next
  OBVIOUS
<1>1. Stands(c) /\ Knows(c) /\ EntriesAgree(t)
  BY DEF TrashInv
<1>2. /\ fact'[t] = g
      /\ files' = files /\ info' = info /\ volatile' = volatile /\ touched' = touched
  BY DEF namespaceVars
<1>0. /\ g.event = "metadata_verified" => pc[c] = "metadataWritten"
      /\ g.event = "move_verified" => pc[c] = "moved"
      /\ g = Resolution("not_applied", "absent") => pc[c] = "metadataAbsent"
      /\ g = Resolution("not_applied", "none") => pc[c] = "cancelMove"
  <2>1. /\ pc[c] # "metadataWritten" => g.event # "metadata_verified"
        /\ pc[c] # "moved" => g.event # "move_verified"
    BY RecordingMeans DEF Fact, Resolution
  <2>2. /\ pc[c] # "metadataAbsent" => g.metadata # "absent"
        /\ pc[c] # "cancelMove" => g.outcome # "not_applied" \/ g.metadata # "none"
    BY RecordingMeans DEF Fact, Resolution
  <2>3. QED
    BY <2>1, <2>2 DEF Resolution
<1>3. CASE g \in {Fact("metadata_dispatch_recorded"), Fact("metadata_indeterminate"),
                  Resolution("not_applied", "retained"), Resolution("not_applied", "absent")}
  <2>1. \/ pc[c] \in {"dispatchMetadata", "metadataUnsure", "notSelected"}
        \/ pc[c] \in {"metadataAbsent", "metadataRetained"}
    BY <1>3, RecordingMeans DEF Fact, Resolution
  <2>2. Stage(fact[t]) \notin MovingStages
    BY <1>1, <2>1 DEF Stands, Stage, MovingStages, Fact, Resolution, Intent, MetadataProbes
  <2>3. g = Resolution("not_applied", "absent") => pc[c] = "metadataAbsent"
    BY <1>0
  <2>4. /\ Stage(g) \notin MovingStages \cup {"metadata_verified"}
        /\ g.event # "move_verified"
    BY <1>3 DEF Stage, MovingStages, Fact, Resolution
  <2>5. QED
    BY <1>1, <1>2, <2>2, <2>3, <2>4 DEF Knows, EntriesAgree, Durable
<1>4. CASE g = Fact("metadata_verified")
  <2>1. pc[c] = "metadataWritten"
    BY <1>0, <1>4 DEF Fact
  <2>2. fact[t] = Fact("metadata_dispatch_recorded")
    BY <1>1, <2>1 DEF Stands
  <2>3. Stage(fact[t]) \notin MovingStages
    BY <2>2 DEF Stage, MovingStages, Fact
  <2>4. g.event # "move_verified" /\ g # Resolution("not_applied", "absent")
    BY <1>4 DEF Fact, Resolution
  <2>5. QED
    BY <1>1, <1>2, <2>1, <2>3, <2>4 DEF Knows, EntriesAgree, Durable
<1>5. CASE g = Fact("move_verified")
  <2>1. pc[c] = "moved"
    BY <1>0, <1>5 DEF Fact
  <2>2. fact[t] = Fact("move_dispatch_recorded")
    BY <1>1, <2>1 DEF Stands
  <2>3. Stage(fact[t]) \in MovingStages
    BY <2>2 DEF Stage, MovingStages, Fact
  <2>4. Stage(g) \in MovingStages /\ g # Resolution("not_applied", "absent")
    BY <1>5 DEF Stage, MovingStages, Fact, Resolution
  <2>5. QED
    BY <1>1, <1>2, <2>1, <2>3, <2>4 DEF Knows, EntriesAgree, Durable
<1>6. CASE g \in {Fact("move_dispatch_recorded"), Fact("move_indeterminate"),
                  Resolution("move_verified", "none")}
  <2>1. pc[c] \in {"dispatchMove", "moveUnsure", "notApplied", "contentRetained"}
    BY <1>6, RecordingMeans DEF Fact, Resolution
  <2>2. /\ Stage(g) \in MovingStages
        /\ g.event # "move_verified" /\ g # Resolution("not_applied", "absent")
    BY <1>6 DEF Stage, MovingStages, Fact, Resolution
  <2>3. fact[t] # Resolution("not_applied", "none")
    BY DEF Pending, Closed, Resolution
  <2>4. Stage(fact[t]) \in MovingStages \cup {"metadata_verified"}
    BY <1>1, <2>1, <2>3 DEF Stands, Stage, MovingStages, Fact, Resolution, ContentProbes
  <2>5. QED
    BY <1>1, <1>2, <2>2, <2>4 DEF EntriesAgree, Durable
<1>7. CASE g = Resolution("not_applied", "none")
  <2>1. pc[c] = "cancelMove"
    BY <1>0, <1>7
  <2>2. /\ Stage(g) \notin MovingStages \cup {"metadata_verified"}
        /\ g.event # "move_verified" /\ g # Resolution("not_applied", "absent")
    BY <1>7 DEF Stage, MovingStages, Resolution
  <2>3. QED
    BY <1>1, <1>2, <2>1, <2>2 DEF Knows, EntriesAgree, Durable
<1>8. QED
  BY <1>3, <1>4, <1>5, <1>6, <1>7, RecordingMeans

LEMMA RecordPreserves ==
  ASSUME TrashInv, NEW c \in Callers, Record(c)
  PROVE  TrashInv'
<1> PICK t, g, next : /\ t = ticket[c]
                      /\ g = Recording[pc[c]].new /\ next = Recording[pc[c]].next
  OBVIOUS
<1>1. pc[c] \in DOMAIN Recording
  BY DEF Record
<1>2. t \in Tokens
  <2>1. Moving(c) \/ pc[c] \in MetadataProbes \cup ContentProbes
    BY <1>1, RecordingMeans DEF Moving, MovingSteps, MetadataProbes, ContentProbes
  <2>2. QED
    BY <2>1 DEF TrashInv, Holds
<1>3. CASE UNCHANGED ledgerVars /\ Stop(c)
  BY <1>3, StopPreserves DEF Record
<1>4. CASE Ledger!Advance(t, g) /\ (Continue(c, next) \/ Stop(c))
  <2>1. Pending(t) /\ fact' = [fact EXCEPT ![t] = g] /\ source' = source /\ UNCHANGED namespaceVars
    BY <1>2, <1>4, AdvanceMeans DEF Record
  <2>2. fact'[t] = g /\ \A u \in Tokens : u # t => fact'[u] = fact[u]
    BY <1>2, <2>1 DEF TrashInv, TypeOK
  <2>3. Stop(c) \/ (Go(c, next) /\ next # "idle")
    BY <1>4 DEF Continue
  <2>4. /\ OthersStay(c) /\ CallersTyped'
        /\ Moving(c)' => Moving(c) /\ ticket'[c] = ticket[c]
        /\ Holds(c)' /\ Stands(c)' /\ Knows(c)'
    <3>1. CASE Stop(c)
      BY <3>1, StopMeans
    <3>2. CASE Go(c, next) /\ next # "idle"
      <4>1. OthersStay(c) /\ CallersTyped'
        BY <1>1, <3>2, GoMeans, RecordedFacts
      <4>2. Moving(c) /\ ticket'[c] = ticket[c] /\ Holds(c)' /\ Stands(c)' /\ Knows(c)'
        BY <1>1, <1>2, <2>1, <2>2, <3>2, RecordStands
      <4>3. QED
        BY <4>1, <4>2
    <3>3. QED
      BY <2>3, <3>1, <3>2
  <2>5. TypeOK'
    BY <1>1, <2>1, <2>4, RecordedFacts DEF TrashInv, TypeOK, CallersTyped, namespaceVars
  <2>6. ReservationsExclude'
    <3>1. \A u \in Tokens : Pending(u)' => Pending(u)
      BY <2>1, <2>2 DEF Pending
    <3>2. fact[t] # NoFact
      BY <2>1 DEF Pending
    <3>3. QED
      BY <1>2, <2>1, <2>2, <3>1, <3>2 DEF TrashInv, ReservationsExclude
  <2>7. MoversApart'
    BY <2>4 DEF TrashInv, MoversApart, Moving, OthersStay
  <2>8. ASSUME NEW d \in Callers \ {c} PROVE Holds(d)' /\ Stands(d)' /\ Knows(d)'
    <3>1. Holds(d) /\ Stands(d) /\ Knows(d)
      BY DEF TrashInv
    <3>2. pc'[d] = pc[d] /\ target'[d] = target[d] /\ ticket'[d] = ticket[d]
      BY <2>4 DEF OthersStay
    <3>3. Holds(d)'
      BY <2>1, <3>1, <3>2 DEF Holds, Moving
    <3>4. Stands(d)'
      <4>1. CASE ticket[d] = t
        BY <1>1, <2>2, <3>2, <4>1, OthersStand
      <4>2. CASE ticket[d] # t
        <5>1. fact'[ticket[d]] = fact[ticket[d]]
          BY <2>1, <4>2 DEF TrashInv, TypeOK
        <5>2. QED
          BY <3>1, <3>2, <5>1 DEF Stands
      <4>3. QED
        BY <4>1, <4>2
    <3>5. Knows(d)'
      BY <2>1, <3>1, <3>2 DEF Knows, Durable, namespaceVars
    <3>6. QED
      BY <3>3, <3>4, <3>5
  <2>9. ASSUME NEW u \in Tokens PROVE EntriesAgree(u)'
    <3>1. CASE u = t
      BY <1>1, <1>2, <2>1, <2>2, <3>1, RecordAgrees
    <3>2. CASE u # t
      BY <2>1, <2>2, <3>2 DEF TrashInv, EntriesAgree, Durable, namespaceVars
    <3>3. QED
      BY <3>1, <3>2
  <2>10. QED
    BY <2>4, <2>5, <2>6, <2>7, <2>8, <2>9 DEF TrashInv
<1>5. QED
  BY <1>1, <1>3, <1>4 DEF Record

-----------------------------------------------------------------------------
(* What else happens. *)

LEMMA PowerLossPreserves ==
  ASSUME TrashInv, PowerLoss
  PROVE  TrashInv'
<1> PICK undone \in SUBSET {t \in Tokens : <<"move", t>> \in volatile} :
      /\ files' = [t \in Tokens |-> IF t \in undone THEN "none" ELSE files[t]]
      /\ at' = [s \in Sources |->
                 IF \E t \in undone : source[t] = s
                 THEN files[CHOOSE t \in undone : source[t] = s]
                 ELSE at[s]]
  BY DEF PowerLoss
<1>1. TypeOK'
  <2>1. at' \in [Sources -> Contents]
    <3>1. ASSUME NEW s \in Sources, \E t \in undone : source[t] = s
          PROVE  files[CHOOSE t \in undone : source[t] = s] \in Contents
      BY <3>1 DEF TrashInv, TypeOK
    <3>2. QED
      BY <3>1 DEF TrashInv, TypeOK
  <2>2. files' \in [Tokens -> Contents]
    BY DEF TrashInv, TypeOK, Contents
  <2>3. CallersTyped'
    BY DEF PowerLoss, CallersTyped, Steps
  <2>4. QED
    BY <2>1, <2>2, <2>3 DEF PowerLoss, TrashInv, TypeOK, CallersTyped, ledgerVars
<1>2. ReservationsExclude'
  BY DEF PowerLoss, TrashInv, ReservationsExclude, Pending, ledgerVars
<1>3. \A c \in Callers : pc'[c] = "idle"
  BY DEF PowerLoss
<1>4. MoversApart'
  BY <1>3 DEF MoversApart, Moving, MovingSteps, WriteSteps, MoveSteps
<1>5. ASSUME NEW c \in Callers PROVE Holds(c)' /\ Stands(c)' /\ Knows(c)'
  <2>1. Holds(c)'
    BY <1>3 DEF Holds, Moving, MovingSteps, WriteSteps, MoveSteps, MetadataProbes,
                ContentProbes, ProbeSteps
  <2>2. Stands(c)'
    BY <1>3 DEF Stands, WriteSteps, MoveSteps, MetadataProbes, ContentProbes, ProbeSteps
  <2>3. Knows(c)'
    BY <1>3 DEF Knows
  <2>4. QED
    BY <2>1, <2>2, <2>3
<1>6. ASSUME NEW t \in Tokens PROVE EntriesAgree(t)'
  <2>1. EntriesAgree(t)
    BY DEF TrashInv
  <2>2. /\ fact' = fact /\ touched' = touched
        /\ Durable("info", t)' /\ Durable("move", t)'
    BY DEF PowerLoss, ledgerVars, Durable
  <2>3. Durable("info", t) => info'[t] = info[t]
    BY DEF PowerLoss, InfoRemains, Durable
  <2>4. /\ files'[t] \in {files[t], "none"}
        /\ Durable("move", t) => files'[t] = files[t]
    BY DEF Durable
  <2>5. QED
    BY <2>1, <2>2, <2>3, <2>4 DEF EntriesAgree
<1>7. QED
  BY <1>1, <1>2, <1>4, <1>5, <1>6 DEF TrashInv

LEMMA ChangeSourcePreserves ==
  ASSUME TrashInv, NEW s \in Sources, ChangeSource(s)
  PROVE  TrashInv'
<1>1. TypeOK'
  BY DEF ChangeSource, TrashInv, TypeOK, Contents, ledgerVars, callerVars
<1>2. ReservationsExclude' /\ MoversApart'
  BY DEF ChangeSource, TrashInv, ReservationsExclude, Pending, MoversApart, Moving, ledgerVars,
         callerVars
<1>3. ASSUME NEW c \in Callers PROVE Holds(c)' /\ Stands(c)' /\ Knows(c)'
  <2>1. Holds(c) /\ Stands(c) /\ Knows(c)
    BY DEF TrashInv
  <2>2. Holds(c)' /\ Stands(c)'
    BY <2>1 DEF ChangeSource, Holds, Stands, Moving, ledgerVars, callerVars
  <2>3. Knows(c)'
    BY <2>1 DEF ChangeSource, Knows, Durable, callerVars
  <2>4. QED
    BY <2>2, <2>3
<1>4. ASSUME NEW t \in Tokens PROVE EntriesAgree(t)'
  BY DEF ChangeSource, TrashInv, EntriesAgree, Durable, ledgerVars
<1>5. QED
  BY <1>1, <1>2, <1>3, <1>4 DEF TrashInv

LEMMA ChangeTrashPreserves ==
  ASSUME TrashInv, NEW t \in Tokens, ChangeTrash(t)
  PROVE  TrashInv'
<1>1. TypeOK'
  <2>1. source[t] \in Sources
    BY DEF ChangeTrash, TrashInv, TypeOK
  <2>2. fact' = fact /\ source' = source /\ pc' = pc /\ target' = target /\ ticket' = ticket
    BY DEF ChangeTrash, ledgerVars, callerVars
  <2>3. at' \in [Sources -> Contents] /\ files' \in [Tokens -> Contents]
    BY <2>1 DEF ChangeTrash, TrashInv, TypeOK, Contents
  <2>4. info' \in [Tokens -> InfoStates] /\ volatile' \subseteq Effects /\ touched' \subseteq Tokens
    BY DEF ChangeTrash, TrashInv, TypeOK, InfoStates
  <2>5. QED
    BY <2>2, <2>3, <2>4 DEF TrashInv, TypeOK
<1>2. ReservationsExclude' /\ MoversApart'
  BY DEF ChangeTrash, TrashInv, ReservationsExclude, Pending, MoversApart, Moving, ledgerVars,
         callerVars
<1>3. /\ touched' = touched \cup {t}
      /\ \A u \in Tokens \ {t} : /\ files'[u] = files[u] /\ info'[u] = info[u]
                                 /\ \A k \in {"info", "move"} : Durable(k, u)' = Durable(k, u)
  BY DEF ChangeTrash, TrashInv, TypeOK, Durable
<1>4. ASSUME NEW c \in Callers PROVE Holds(c)' /\ Stands(c)' /\ Knows(c)'
  <2>1. Holds(c) /\ Stands(c) /\ Knows(c)
    BY DEF TrashInv
  <2>2. Holds(c)' /\ Stands(c)'
    BY <2>1 DEF ChangeTrash, Holds, Stands, Moving, ledgerVars, callerVars
  <2>3. pc' = pc /\ ticket' = ticket
    BY DEF ChangeTrash, callerVars
  <2>4. CASE ticket[c] = t
    BY <1>3, <2>2, <2>3, <2>4 DEF Knows
  <2>5. CASE ticket[c] \in Tokens \ {t}
    BY <1>3, <2>1, <2>2, <2>3, <2>5 DEF Knows
  <2>6. CASE ticket[c] \notin Tokens
    <3>1. ~Moving(c) /\ pc[c] \notin MetadataProbes
      BY <2>1, <2>6 DEF Holds
    <3>2. Knows(c)'
      BY <2>3, <3>1 DEF Knows, Moving, MovingSteps, WriteSteps, MoveSteps, MetadataProbes
    <3>3. QED
      BY <2>2, <3>2
  <2>7. QED
    BY <2>4, <2>5, <2>6
<1>5. ASSUME NEW u \in Tokens PROVE EntriesAgree(u)'
  <2>1. EntriesAgree(u) /\ fact' = fact
    BY DEF ChangeTrash, TrashInv, ledgerVars
  <2>2. CASE u = t
    BY <1>3, <2>2 DEF EntriesAgree
  <2>3. CASE u # t
    BY <1>3, <2>1, <2>3 DEF EntriesAgree
  <2>4. QED
    BY <2>2, <2>3
<1>6. QED
  BY <1>1, <1>2, <1>4, <1>5 DEF TrashInv

-----------------------------------------------------------------------------

LEMMA NextPreserves == TrashInv /\ [Next]_vars => TrashInv'
<1> SUFFICES ASSUME TrashInv, [Next]_vars PROVE TrashInv'
  OBVIOUS
<1>1. CASE UNCHANGED vars
  <2>1. TypeOK' /\ ReservationsExclude' /\ MoversApart'
    BY <1>1 DEF vars, TrashInv, TypeOK, ReservationsExclude, Pending, MoversApart, Moving
  <2>2. ASSUME NEW c \in Callers PROVE Holds(c)' /\ Stands(c)' /\ Knows(c)'
    BY <1>1 DEF vars, TrashInv, Holds, Stands, Knows, Moving, Durable
  <2>3. ASSUME NEW t \in Tokens PROVE EntriesAgree(t)'
    BY <1>1 DEF vars, TrashInv, EntriesAgree, Durable
  <2>4. QED
    BY <2>1, <2>2, <2>3 DEF TrashInv
<1>2. ASSUME NEW c \in Callers, Move(c) PROVE TrashInv'
  BY <1>2, ValidatePreserves, ReservePreserves, CreateInfoPreserves, CompleteInfoPreserves,
     SyncInfoPreserves, SelectDirectoriesPreserves, CheckMovePreserves, RenamePreserves,
     VerifyMovePreserves, SyncMovePreserves, ReproveMetadataPreserves DEF Move
<1>3. ASSUME NEW c \in Callers, Reconcile(c) PROVE TrashInv'
  BY <1>3, ReloadPreserves, ProbeMetadataPreserves, ProveMovePreserves DEF Reconcile
<1>4. ASSUME NEW c \in Callers, GiveUp(c) \/ Crash(c) PROVE TrashInv'
  BY <1>4, StopPreserves DEF GiveUp, Crash
<1>5. ASSUME NEW c \in Callers, Program(c) PROVE TrashInv'
  BY <1>2, <1>3, <1>4, <1>5, RecordPreserves DEF Program
<1>6. CASE Disturbance
  BY <1>4, <1>6, PowerLossPreserves, ChangeSourcePreserves, ChangeTrashPreserves DEF Disturbance
<1>7. QED
  BY <1>1, <1>5, <1>6 DEF Next

(***************************************************************************)
(* The invariant: every step, whoever takes it and whatever else happens,  *)
(* keeps what callers know and what the ledger says in agreement with the  *)
(* names in the Trash.                                                     *)
(***************************************************************************)
THEOREM TrashInvariantHolds == Spec => []TrashInv
BY InitHolds, NextPreserves, PTL DEF Spec

(***************************************************************************)
(* MoveToTrash never leaves content in the Trash that the ledger does not  *)
(* account for by an open recovery.                                        *)
(***************************************************************************)
THEOREM MovesAreAccountedFor == Spec => []MovedContentIsAccountedFor
<1>1. TrashInv => MovedContentIsAccountedFor
  BY DEF TrashInv, EntriesAgree, MovingStages, MovedContentIsAccountedFor
<1>2. QED
  BY <1>1, TrashInvariantHolds, PTL

(***************************************************************************)
(* Metadata that names the source is durable before content arrives in the *)
(* Trash: PublishTrashInfoDurable comes before the rename.                 *)
(***************************************************************************)
THEOREM MetadataComesFirst == Spec => []ContentHasDurableMetadata
<1>1. TrashInv => ContentHasDurableMetadata
  BY DEF TrashInv, EntriesAgree, Durable, ContentHasDurableMetadata
<1>2. QED
  BY <1>1, TrashInvariantHolds, PTL

(***************************************************************************)
(* A move that MoveToTrash recorded as verified is there to stay.          *)
(***************************************************************************)
THEOREM VerifiedMovesSurvive == Spec => []VerifiedMoveSurvives
<1>1. TrashInv => VerifiedMoveSurvives
  BY DEF TrashInv, EntriesAgree, Durable, VerifiedMoveSurvives
<1>2. QED
  BY <1>1, TrashInvariantHolds, PTL

(***************************************************************************)
(* ReconcileIndeterminateTrashMetadata closes a recovery as one without    *)
(* metadata only if none will appear any more.                             *)
(***************************************************************************)
THEOREM AbsenceIsFinal == Spec => []AbsentMetadataStaysAbsent
<1>1. TrashInv => AbsentMetadataStaysAbsent
  BY DEF TrashInv, EntriesAgree, AbsentMetadataStaysAbsent
<1>2. QED
  BY <1>1, TrashInvariantHolds, PTL

(***************************************************************************)
(* No two callers have an effect under way on one source, and each acts    *)
(* under the fact it recorded for its effect.                              *)
(***************************************************************************)
THEOREM EffectsAreExclusive == Spec => []EffectsAreReserved
<1>1. ASSUME TrashInv, NEW c \in Callers, InEffect(c)
      PROVE  /\ fact[ticket[c]] = Fact(IF pc[c] \in WriteSteps THEN "metadata_dispatch_recorded"
                                                             ELSE "move_dispatch_recorded")
             /\ \A d \in Callers \ {c} : InEffect(d) => target[d] # target[c]
  <2>1. ASSUME NEW d \in Callers, InEffect(d)
        PROVE  /\ Moving(d) /\ ticket[d] \in Tokens /\ source[ticket[d]] = target[d]
               /\ fact[ticket[d]] = Fact(IF pc[d] \in WriteSteps THEN "metadata_dispatch_recorded"
                                                               ELSE "move_dispatch_recorded")
               /\ Pending(ticket[d])
    <3>1. Moving(d) /\ Stands(d) /\ ticket[d] \in Tokens /\ source[ticket[d]] = target[d]
      BY <1>1, <2>1, EffectKnows
    <3>2. fact[ticket[d]] = Fact(IF pc[d] \in WriteSteps THEN "metadata_dispatch_recorded"
                                                       ELSE "move_dispatch_recorded")
      BY <2>1, <3>1 DEF InEffect, Stands
    <3>3. Pending(ticket[d])
      BY <3>2 DEF Pending, Closed, Fact, NoFact
    <3>4. QED
      BY <3>1, <3>2, <3>3
  <2>2. ASSUME NEW d \in Callers \ {c}, InEffect(d), target[d] = target[c] PROVE FALSE
    <3>1. ticket[d] = ticket[c]
      BY <1>1, <2>1, <2>2 DEF TrashInv, ReservationsExclude
    <3>2. QED
      BY <1>1, <2>1, <2>2, <3>1 DEF TrashInv, MoversApart
  <2>3. QED
    BY <1>1, <2>1, <2>2
<1>2. TrashInv => EffectsAreReserved
  BY <1>1 DEF EffectsAreReserved
<1>3. QED
  BY <1>2, TrashInvariantHolds, PTL

-----------------------------------------------------------------------------
(* While no power is lost. *)

(***************************************************************************)
(* No step but a power loss takes content or a whole record from under a   *)
(* token, and only the caller that dispatched a record writes one where    *)
(* there was none; what others do to the entries is left aside.            *)
(***************************************************************************)
EntriesStay(t) ==
  t \notin touched' =>
    /\ t \notin touched
    /\ info[t] = "whole" => info'[t] = "whole"
    /\ files[t] = "planned" => files'[t] = "planned"
    /\ info[t] = "absent" => \/ info'[t] = "absent"
                             \/ fact[t] = Fact("metadata_dispatch_recorded") /\ fact' = fact

LEMMA EffectsKeepEntries ==
  ASSUME TrashInv, NEW c \in Callers, CreateInfo(c) \/ CompleteInfo(c) \/ Rename(c),
         NEW t \in Tokens
  PROVE  EntriesStay(t)
<1> PICK u : u = ticket[c]
  OBVIOUS
<1>1. InEffect(c)
  BY DEF CreateInfo, CompleteInfo, Rename, InEffect, WriteSteps, MoveSteps
<1>2. u \in Tokens /\ Stands(c)
  BY <1>1, EffectKnows
<1>3. touched' = touched /\ fact' = fact
  BY DEF CreateInfo, CompleteInfo, Rename, ledgerVars
<1>4. CASE CreateInfo(c)
  <2>1. fact[u] = Fact("metadata_dispatch_recorded") /\ files' = files
    BY <1>2, <1>4 DEF CreateInfo, Stands, WriteSteps
  <2>2. info' = info \/ (info[u] = "absent" /\ info' = [info EXCEPT ![u] = "damaged"])
    BY <1>4 DEF CreateInfo
  <2>3. t # u => info'[t] = info[t]
    BY <2>2 DEF TrashInv, TypeOK
  <2>4. info[u] = "whole" => info'[u] = "whole"
    BY <2>2
  <2>5. QED
    BY <1>3, <2>1, <2>3, <2>4 DEF EntriesStay
<1>5. CASE CompleteInfo(c)
  <2>1. files' = files
    BY <1>5 DEF CompleteInfo
  <2>2. \/ info' = info
        \/ info' = [info EXCEPT ![u] = IF info[u] = "damaged" THEN "whole" ELSE info[u]]
    BY <1>5 DEF CompleteInfo
  <2>3. info[t] # "damaged" => info'[t] = info[t]
    BY <1>2, <2>2 DEF TrashInv, TypeOK
  <2>4. QED
    BY <1>3, <2>1, <2>3 DEF EntriesStay
<1>6. CASE Rename(c)
  <2>1. info' = info
    BY <1>6 DEF Rename
  <2>2. \/ files' = files
        \/ files[u] = "none" /\ files' = [files EXCEPT ![u] = at[target[c]]]
    BY <1>6 DEF Rename, ApplyRename, RenameMayApply
  <2>3. files[t] = "planned" => files'[t] = "planned"
    BY <1>2, <2>2 DEF TrashInv, TypeOK
  <2>4. QED
    BY <1>3, <2>1, <2>3 DEF EntriesStay
<1>7. QED
  BY <1>4, <1>5, <1>6

LEMMA StepKeepsEntries ==
  ASSUME TrashInv, [Next]_vars, "power_loss" \notin Environment, NEW t \in Tokens
  PROVE  EntriesStay(t)
<1>0. ASSUME info' = info, files' = files, touched' = touched
      PROVE  EntriesStay(t)
  BY <1>0 DEF EntriesStay
<1>1. CASE UNCHANGED vars
  BY <1>0, <1>1 DEF vars
<1>2. ASSUME NEW c \in Callers, Program(c) PROVE EntriesStay(t)
  <2>1. CASE CreateInfo(c) \/ CompleteInfo(c) \/ Rename(c)
    BY <2>1, EffectsKeepEntries
  <2>2. ASSUME NEW s \in Sources, Validate(c, s) PROVE EntriesStay(t)
    BY <1>0, <2>2 DEF Validate, namespaceVars
  <2>3. ASSUME NEW u \in Tokens, Reserve(c, u) \/ Reload(c, u) PROVE EntriesStay(t)
    BY <1>0, <2>3 DEF Reserve, Reload, namespaceVars
  <2>4. CASE SyncInfo(c) \/ SyncMove(c)
    BY <1>0, <2>4 DEF SyncInfo, SyncMove
  <2>5. CASE SelectDirectories(c) \/ CheckMove(c) \/ VerifyMove(c) \/ ReproveMetadata(c)
    BY <1>0, <2>5 DEF SelectDirectories, CheckMove, VerifyMove, ReproveMetadata, namespaceVars
  <2>6. CASE ProbeMetadata(c) \/ ProveMove(c)
    BY <1>0, <2>6 DEF ProbeMetadata, ProveMove, Observe, namespaceVars
  <2>7. CASE Record(c) \/ GiveUp(c)
    BY <1>0, <2>7 DEF Record, GiveUp, namespaceVars
  <2>8. QED
    BY <1>2, <2>1, <2>2, <2>3, <2>4, <2>5, <2>6, <2>7 DEF Program, Move, Reconcile
<1>3. ASSUME NEW c \in Callers, Crash(c) PROVE EntriesStay(t)
  BY <1>0, <1>3 DEF Crash, namespaceVars
<1>4. ASSUME NEW s \in Sources, ChangeSource(s) PROVE EntriesStay(t)
  BY <1>0, <1>4 DEF ChangeSource
<1>5. ASSUME NEW u \in Tokens, ChangeTrash(u) PROVE EntriesStay(t)
  <2>1. touched' = touched \cup {u}
    BY <1>5 DEF ChangeTrash
  <2>2. t # u => files'[t] = files[t] /\ info'[t] = info[t]
    BY <1>5 DEF ChangeTrash, TrashInv, TypeOK
  <2>3. QED
    BY <2>1, <2>2 DEF EntriesStay
<1>6. ~PowerLoss
  BY DEF PowerLoss
<1>7. QED
  BY <1>1, <1>2, <1>3, <1>4, <1>5, <1>6 DEF Next, Disturbance

(* A fact is what stood before, an intent, or what a caller records. *)
LEMMA FactsAreRecorded ==
  ASSUME TrashInv, [Next]_vars, NEW t \in Tokens
  PROVE  \/ fact'[t] = fact[t]
         \/ fact'[t] = Intent
         \/ \E c \in Callers : /\ ticket[c] = t /\ pc[c] \in DOMAIN Recording
                               /\ fact'[t] = Recording[pc[c]].new
                               /\ Pending(t) /\ UNCHANGED namespaceVars
<1>1. ASSUME fact' = fact PROVE fact'[t] = fact[t]
  BY <1>1
<1>2. ASSUME NEW c \in Callers, Record(c)
      PROVE  \/ fact'[t] = fact[t]
             \/ /\ ticket[c] = t /\ pc[c] \in DOMAIN Recording
                /\ fact'[t] = Recording[pc[c]].new
                /\ Pending(t) /\ UNCHANGED namespaceVars
  <2> PICK u, g : u = ticket[c] /\ g = Recording[pc[c]].new
    OBVIOUS
  <2>1. pc[c] \in DOMAIN Recording /\ UNCHANGED namespaceVars
    BY <1>2 DEF Record
  <2>2. u \in Tokens
    <3>1. Moving(c) \/ pc[c] \in MetadataProbes \cup ContentProbes
      BY <2>1, RecordingMeans DEF Moving, MovingSteps, MetadataProbes, ContentProbes
    <3>2. QED
      BY <3>1 DEF TrashInv, Holds
  <2>3. fact' = fact \/ Ledger!Advance(u, g)
    BY <1>2 DEF Record, ledgerVars
  <2>4. fact' = fact \/ (Pending(u) /\ fact' = [fact EXCEPT ![u] = g])
    BY <2>2, <2>3, AdvanceMeans
  <2>5. QED
    BY <2>1, <2>2, <2>4 DEF TrashInv, TypeOK
<1>3. ASSUME NEW c \in Callers, NEW u \in Tokens, Reserve(c, u)
      PROVE  fact'[t] = fact[t] \/ fact'[t] = Intent
  <2>1. Ledger!Reserve(u, target[c], "trash")
    BY <1>3 DEF Reserve
  <2>2. fact' = [fact EXCEPT ![u] = Intent]
    BY <2>1, ReserveMeans
  <2>3. QED
    BY <2>2 DEF TrashInv, TypeOK
<1>4. ASSUME NEW c \in Callers, Program(c) PROVE \/ fact' = fact \/ Record(c)
                                                \/ \E u \in Tokens : Reserve(c, u)
  <2>1. CASE Move(c)
    BY <2>1 DEF Move, Validate, CreateInfo, CompleteInfo, SyncInfo, SelectDirectories, CheckMove,
                Rename, VerifyMove, SyncMove, ReproveMetadata, ledgerVars
  <2>2. CASE Reconcile(c)
    BY <2>2 DEF Reconcile, Reload, ProbeMetadata, ProveMove, Observe, ledgerVars
  <2>3. QED
    BY <1>4, <2>1, <2>2 DEF Program, GiveUp, ledgerVars
<1>5. CASE Disturbance \/ UNCHANGED vars
  <2>1. fact' = fact
    BY <1>5 DEF Disturbance, Crash, PowerLoss, ChangeSource, ChangeTrash, ledgerVars, vars
  <2>2. QED
    BY <2>1
<1>6. QED
  BY <1>1, <1>2, <1>3, <1>4, <1>5 DEF Next

ObservingSteps ==
  {"metadataRetained", "sourceStillGone", "metadataStillThere", "contentRetained"}

(* A caller comes to what it has observed by observing it. *)
LEMMA ObservationsAreMade ==
  ASSUME TrashInv, [Next]_vars, NEW c \in Callers, pc'[c] \in ObservingSteps
  PROVE  /\ ticket'[c] = ticket[c]
         /\ pc'[c] = "metadataRetained" =>
              pc[c] = "metadataRetained" \/ info[ticket[c]] = "whole"
         /\ pc'[c] # "metadataRetained" =>
              \/ pc[c] \in ObservingSteps \ {"metadataRetained"}
              \/ files[ticket[c]] = "planned"
<1> DEFINE Q == /\ ticket'[c] = ticket[c]
                /\ pc'[c] = "metadataRetained" =>
                     pc[c] = "metadataRetained" \/ info[ticket[c]] = "whole"
                /\ pc'[c] # "metadataRetained" =>
                     \/ pc[c] \in ObservingSteps \ {"metadataRetained"}
                     \/ files[ticket[c]] = "planned"
<1>1. ASSUME pc'[c] = pc[c], ticket'[c] = ticket[c] PROVE Q
  BY <1>1 DEF ObservingSteps
<1>2. ASSUME NEW d \in Callers, d # c, OthersStay(d) PROVE Q
  BY <1>1, <1>2 DEF OthersStay
<1>3. ASSUME NEW d \in Callers, Stop(d) PROVE Q
  <2>1. OthersStay(d) /\ pc'[d] = "idle"
    BY <1>3, StopMeans
  <2>2. d # c
    BY <2>1 DEF ObservingSteps
  <2>3. QED
    BY <1>2, <2>1, <2>2
<1>4. ASSUME NEW d \in Callers, NEW step \in Steps \ ObservingSteps, Go(d, step) PROVE Q
  <2>1. OthersStay(d) /\ pc'[d] = step
    BY <1>4, GoMeans
  <2>2. QED
    BY <1>2, <2>1
<1>5. ASSUME NEW d \in Callers, Move(d) PROVE Q
  <2>1. ASSUME NEW s \in Sources, Validate(d, s) PROVE Q
    <3>1. OthersStay(d) /\ pc'[d] = "validated"
      BY <2>1 DEF Validate, OthersStay, TrashInv, TypeOK
    <3>2. QED
      BY <1>2, <3>1 DEF ObservingSteps
  <2>2. ASSUME NEW t \in Tokens, Reserve(d, t) PROVE Q
    <3>1. CASE Stop(d)
      BY <1>3, <3>1
    <3>2. CASE ~Stop(d)
      <4>1. OthersStay(d) /\ pc'[d] = "dispatchMetadata"
        BY <2>2, <3>2 DEF Reserve, OthersStay, TrashInv, TypeOK
      <4>2. QED
        BY <1>2, <4>1 DEF ObservingSteps
    <3>3. QED
      BY <3>1, <3>2
  <2>3. CASE \E step \in {"complete", "metadataUnsure", "syncInfo", "metadataWritten",
                          "dispatchMove", "notSelected", "rename", "notApplied", "verify",
                          "moveUnsure", "syncMove", "reprove", "moved"} : Go(d, step)
    BY <1>4, <2>3 DEF Steps, WriteSteps, MoveSteps, Recording, ObservingSteps
  <2>4. QED
    BY <1>5, <2>1, <2>2, <2>3 DEF Move, CreateInfo, CompleteInfo, SyncInfo, SelectDirectories,
                                  CheckMove, Rename, VerifyMove, SyncMove, ReproveMetadata
<1>6. ASSUME NEW d \in Callers, Reconcile(d) PROVE Q
  <2>1. ASSUME NEW t \in Tokens, Reload(d, t) PROVE Q
    <3>1. OthersStay(d) /\ pc'[d] \in {"probeMetadata", "metadataThere"}
      BY <2>1 DEF Reload, FirstProbe, OthersStay, TrashInv, TypeOK
    <3>2. QED
      BY <1>2, <3>1 DEF ObservingSteps
  <2>2. CASE ProbeMetadata(d)
    <3>1. CASE Go(d, "metadataAbsent")
      BY <1>4, <3>1 DEF Steps, Recording, ObservingSteps
    <3>2. CASE info[ticket[d]] = "whole" /\ Go(d, "metadataRetained")
      <4>1. OthersStay(d) /\ pc'[d] = "metadataRetained" /\ ticket'[d] = ticket[d]
        BY <3>2, GoMeans DEF Steps, Recording
      <4>2. CASE d = c
        BY <3>2, <4>1, <4>2
      <4>3. QED
        BY <1>2, <4>1, <4>2
    <3>3. QED
      BY <2>2, <3>1, <3>2 DEF ProbeMetadata
  <2>3. CASE ProveMove(d)
    <3>1. CASE \E step \in {"sourceGone", "contentThere"} : Go(d, step)
      BY <1>4, <3>1 DEF Steps, ProbeSteps, ObservingSteps
    <3>2. ASSUME NEW step \in {"sourceStillGone", "metadataStillThere", "contentRetained"},
                 Go(d, step),
                 \/ pc[d] \in ObservingSteps \ {"metadataRetained"}
                 \/ files[ticket[d]] = "planned"
          PROVE  Q
      <4>1. OthersStay(d) /\ pc'[d] = step /\ ticket'[d] = ticket[d]
        BY <3>2, GoMeans DEF Steps, ProbeSteps, Recording
      <4>2. CASE d = c
        BY <3>2, <4>1, <4>2
      <4>3. QED
        BY <1>2, <4>1, <4>2
    <3>3. QED
      BY <2>3, <3>1, <3>2 DEF ProveMove, Observe, ObservingSteps
  <2>4. QED
    BY <1>6, <2>1, <2>2, <2>3 DEF Reconcile
<1>7. ASSUME NEW d \in Callers, Record(d) PROVE Q
  <2>1. CASE Stop(d)
    BY <1>3, <2>1
  <2>2. CASE ~Stop(d)
    <3>1. PICK next : next = Recording[pc[d]].next /\ Go(d, next) /\ next # "idle"
      BY <1>7, <2>2 DEF Record, Continue
    <3>2. pc[d] \in DOMAIN Recording
      BY <1>7 DEF Record
    <3>3. next \in Steps \ ObservingSteps
      <4>1. next \in {"write", "select", "check", "cancelMove"}
        BY <3>1, <3>2, RecordingMeans
      <4>2. QED
        BY <4>1 DEF Steps, WriteSteps, MoveSteps, Recording, ObservingSteps
    <3>4. QED
      BY <1>4, <3>1, <3>3
  <2>3. QED
    BY <2>1, <2>2
<1>8. CASE Disturbance
  <2>1. ASSUME NEW d \in Callers, Crash(d) PROVE Q
    BY <1>3, <2>1 DEF Crash
  <2>2. ~PowerLoss
    BY DEF PowerLoss, ObservingSteps
  <2>3. CASE pc' = pc /\ ticket' = ticket
    BY <1>1, <2>3
  <2>4. QED
    BY <1>8, <2>1, <2>2, <2>3 DEF Disturbance, ChangeSource, ChangeTrash, callerVars
<1>9. CASE UNCHANGED vars
  BY <1>1, <1>9 DEF vars
<1>10. ASSUME NEW d \in Callers, GiveUp(d) PROVE Q
  BY <1>3, <1>10 DEF GiveUp
<1>11. Q
  BY <1>5, <1>6, <1>7, <1>8, <1>9, <1>10 DEF Next, Program
<1>12. QED
  BY <1>11

LEMMA ObservedStays ==
  ASSUME TrashInv, [Next]_vars, "power_loss" \notin Environment,
         NEW c \in Callers, Observed(c)
  PROVE  Observed(c)'
<1>1. CASE pc'[c] \notin ObservingSteps
  BY <1>1 DEF Observed, ObservingSteps
<1>2. CASE pc'[c] \in ObservingSteps
  <2> PICK t : t = ticket[c]
    OBVIOUS
  <2>1. /\ ticket'[c] = t
        /\ pc'[c] = "metadataRetained" => pc[c] = "metadataRetained" \/ info[t] = "whole"
        /\ pc'[c] # "metadataRetained" => \/ pc[c] \in ObservingSteps \ {"metadataRetained"}
                                          \/ files[t] = "planned"
    BY <1>2, ObservationsAreMade
  <2>2. t \in Tokens
    <3>1. TrashInv'
      BY NextPreserves
    <3>2. Holds(c)'
      BY <3>1 DEF TrashInv
    <3>3. QED
      BY <1>2, <2>1, <3>2 DEF Holds, ObservingSteps, MetadataProbes, ContentProbes, ProbeSteps
  <2>3. EntriesStay(t)
    BY <2>2, StepKeepsEntries
  <2>4. t \notin touched' /\ pc'[c] = "metadataRetained" => info'[t] = "whole"
    BY <2>1, <2>3 DEF EntriesStay, Observed
  <2>5. t \notin touched' /\ pc'[c] # "metadataRetained" => files'[t] = "planned"
    BY <2>1, <2>3 DEF EntriesStay, Observed, ObservingSteps
  <2>6. QED
    BY <2>1, <2>4, <2>5 DEF Observed
<1>3. QED
  BY <1>1, <1>2

(* A caller records of the Trash what it knows or has observed of it. *)
LEMMA RecordSettles ==
  ASSUME TrashInv, NEW c \in Callers, Observed(c), pc[c] \in DOMAIN Recording,
         NEW t \in Tokens, t = ticket[c], fact'[t] = Recording[pc[c]].new,
         UNCHANGED namespaceVars
  PROVE  Settled(t)'
<1> PICK g, next : g = Recording[pc[c]].new /\ next = Recording[pc[c]].next
  OBVIOUS
<1>1. Stands(c) /\ Knows(c) /\ EntriesAgree(t)
  BY DEF TrashInv
<1>2. fact'[t] = g /\ files' = files /\ info' = info /\ touched' = touched
  BY DEF namespaceVars
<1>3. /\ g.metadata = "absent" => pc[c] = "metadataAbsent"
      /\ g.metadata = "retained" => pc[c] \in {"notSelected", "metadataRetained"}
  BY RecordingMeans DEF Fact, Resolution
<1>4. Stage(g) = "move_verified" => pc[c] \in {"moved", "contentRetained"}
  BY RecordingMeans DEF Fact, Resolution, Stage
<1>5. ASSUME t \notin touched, g.metadata = "absent" PROVE info[t] = "absent"
  BY <1>1, <1>3, <1>5 DEF Knows
<1>6. ASSUME t \notin touched, g.metadata = "retained" PROVE info[t] = "whole"
  <2>1. CASE pc[c] = "notSelected"
    <3>1. fact[t] = Fact("metadata_verified")
      BY <1>1, <2>1 DEF Stands
    <3>2. Stage(fact[t]) = "metadata_verified"
      BY <3>1 DEF Stage, Fact
    <3>3. QED
      BY <1>1, <1>6, <3>2 DEF EntriesAgree
  <2>2. CASE pc[c] = "metadataRetained"
    BY <1>6, <2>2 DEF Observed
  <2>3. QED
    BY <1>3, <1>6, <2>1, <2>2
<1>7. ASSUME t \notin touched, Stage(g) = "move_verified" PROVE files[t] = "planned"
  <2>1. CASE pc[c] = "moved"
    BY <1>1, <1>7, <2>1 DEF Knows
  <2>2. CASE pc[c] = "contentRetained"
    BY <1>7, <2>2 DEF Observed
  <2>3. QED
    BY <1>4, <1>7, <2>1, <2>2
<1>8. QED
  BY <1>2, <1>5, <1>6, <1>7 DEF Settled

LEMMA SettledStays ==
  ASSUME SettledInv, [Next]_vars, "power_loss" \notin Environment, NEW t \in Tokens
  PROVE  Settled(t)'
<1>1. TrashInv /\ Settled(t)
  BY DEF SettledInv
<1>2. EntriesStay(t)
  BY <1>1, StepKeepsEntries
<1>3. CASE fact'[t] = fact[t]
  <2>1. fact[t].metadata = "absent" => fact[t] # Fact("metadata_dispatch_recorded")
    BY DEF Fact
  <2>2. QED
    BY <1>1, <1>2, <1>3, <2>1 DEF Settled, EntriesStay
<1>4. CASE fact'[t] = Intent
  <2>1. Intent.metadata = "none" /\ Stage(Intent) # "move_verified"
    BY DEF Intent, Fact, Stage
  <2>2. QED
    BY <1>4, <2>1 DEF Settled
<1>5. ASSUME NEW c \in Callers, ticket[c] = t, pc[c] \in DOMAIN Recording,
             fact'[t] = Recording[pc[c]].new, UNCHANGED namespaceVars
      PROVE  Settled(t)'
  BY <1>1, <1>5, RecordSettles DEF SettledInv
<1>6. QED
  BY <1>1, <1>3, <1>4, <1>5, FactsAreRecorded

LEMMA SettledInitially == Init => SettledInv
<1> SUFFICES ASSUME Init PROVE SettledInv
  OBVIOUS
<1>1. TrashInv
  BY InitHolds
<1>2. ASSUME NEW c \in Callers PROVE Observed(c)
  BY DEF Init, Observed
<1>3. ASSUME NEW t \in Tokens PROVE Settled(t)
  <2>1. fact[t] = NoFact
    BY DEF Init
  <2>2. NoFact.metadata = "none" /\ Stage(NoFact) # "move_verified"
    BY DEF NoFact, Stage
  <2>3. QED
    BY <2>1, <2>2 DEF Settled
<1>4. QED
  BY <1>1, <1>2, <1>3 DEF SettledInv

(***************************************************************************)
(* While no power is lost, what the reconcilers have seen and what they    *)
(* resolve stays true of the Trash, whatever other callers do meanwhile.   *)
(***************************************************************************)
THEOREM SettledHolds ==
  ASSUME "power_loss" \notin Environment
  PROVE  Spec => []SettledInv
<1>1. SettledInv /\ [Next]_vars => SettledInv'
  <2> SUFFICES ASSUME SettledInv, [Next]_vars PROVE SettledInv'
    OBVIOUS
  <2>1. TrashInv'
    BY NextPreserves DEF SettledInv
  <2>2. ASSUME NEW c \in Callers PROVE Observed(c)'
    BY ObservedStays DEF SettledInv
  <2>3. ASSUME NEW t \in Tokens PROVE Settled(t)'
    BY SettledStays
  <2>4. QED
    BY <2>1, <2>2, <2>3 DEF SettledInv
<1>2. QED
  BY <1>1, SettledInitially, PTL DEF Spec

(***************************************************************************)
(* ReconcileIndeterminateTrashMove and MoveToTrash verify a move only of   *)
(* content that is in the Trash and stays there.                           *)
(***************************************************************************)
THEOREM VerifiedContentStays ==
  ASSUME "power_loss" \notin Environment
  PROVE  Spec => []VerifiedContentIsRetained
<1>1. SettledInv => VerifiedContentIsRetained
  BY DEF SettledInv, Settled, VerifiedContentIsRetained
<1>2. QED
  BY <1>1, SettledHolds, PTL

(***************************************************************************)
(* A recovery that is closed as not applied says truly, and for good,      *)
(* whether metadata is left behind.                                        *)
(***************************************************************************)
THEOREM ResolutionsTellTheMetadata ==
  ASSUME "power_loss" \notin Environment
  PROVE  Spec => []ResolvedMetadataIsAsStated
<1>1. SettledInv => ResolvedMetadataIsAsStated
  BY DEF SettledInv, Settled, ResolvedMetadataIsAsStated
<1>2. QED
  BY <1>1, SettledHolds, PTL
=============================================================================
