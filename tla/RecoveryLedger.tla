--------------------------- MODULE RecoveryLedger ---------------------------
(***************************************************************************)
(* The durable recovery ledger of internal/state/recovery_ledger.go, used  *)
(* by several callers (processes or goroutines) at once.                   *)
(*                                                                         *)
(* The durable part is a directory of immutable records.  A record is      *)
(* identified by a reservation token and an ordinal; ledger[t][k] is the   *)
(* body of record (t, k-1).  Every call runs inside one private-ledger     *)
(* session: it takes the cross-process lock, replays every record, decides *)
(* and, when it writes, publishes exactly one new record before it lets    *)
(* the lock go.  Because no record is ever modified and a session reads    *)
(* only under the lock, replay and decision are one step; the publication  *)
(* is several, and a caller may stop between any two of them.              *)
(***************************************************************************)
EXTENDS RecoveryFacts, FiniteSets

CONSTANTS
  Callers,        \* the processes and goroutines that use the ledger
  Sources,        \* trusted root and source path pairs
  Tokens,         \* reservation tokens newRecoveryToken may generate
  LegacyTokens,   \* tokens of schema-v1 histories retained from before
  MaxRecords,     \* maximumRecoveryLedgerRecords
  MaxOrdinal,     \* linuxfsMaximumLedgerOrdinal
  NoCaller

ASSUME LedgerAssumptions ==
  /\ IsFiniteSet(Tokens)
  /\ LegacyTokens \subseteq Tokens
  /\ NoCaller \notin Callers
  /\ MaxRecords \in Nat \ {0}
  /\ MaxOrdinal \in Nat \ {0}

VARIABLES
  ledger,    \* the retained records, per token, in ordinal order
  binding,   \* what every frame of a token repeats: its immutable reservation
  minted,    \* the tokens generated so far
  writer,    \* the caller inside a write session, or NoCaller
  pc,        \* where each caller is
  pending,   \* the record a caller has decided to publish
  known,     \* the recovery identities each caller holds
  result     \* how each caller's last call ended

durableVars == <<ledger, binding>>
callerVars == <<minted, writer, pc, pending, known, result>>
vars == <<ledger, binding, minted, writer, pc, pending, known, result>>

-----------------------------------------------------------------------------

(* A record that was created but not completely written: it never decodes. *)
Torn == [event |-> "torn", outcome |-> "none", metadata |-> "none"]

Bodies == Frames \cup {Torn}

Bindings == [source : Sources, destination : Destinations, schema : Schemas]

NoBinding == [source |-> "none", destination |-> "none", schema |-> "none"]

PendingRecords == [token : Tokens, ordinal : Nat, frame : Frames]

NoPending == [token |-> "none", ordinal |-> 0, frame |-> Intent]

LastOf(h) == h[Len(h)]

(* Every record of t decodes and the chain replays. *)
Replays(t) ==
  /\ \A i \in 1 .. Len(ledger[t]) : ledger[t][i] \in Frames
  /\ Len(ledger[t]) <= MaxOrdinal + 1
  /\ ValidHistory(binding[t].destination, ledger[t])

Retained == {t \in Tokens : ledger[t] # << >>}

OpenIn(t) == ledger[t] # << >> /\ ~Closed(LastOf(ledger[t]))

Records == {r \in Tokens \X (1 .. MaxOrdinal + 1) : r[2] <= Len(ledger[r[1]])}

(* readRecoveryHistories: one bad record, or one source retained twice,    *)
(* fails the whole ledger.                                                 *)
Readable ==
  /\ \A t \in Retained : Replays(t)
  /\ \A t, u \in Retained :
       OpenIn(t) /\ OpenIn(u) /\ binding[t].source = binding[u].source => t = u
  /\ Cardinality(Records) <= MaxRecords

HasCapacityInclusive == Cardinality(Records) <= MaxRecords  \* slip: off by one

HasCapacity == Cardinality(Records) < MaxRecords

OutstandingCurrent(s) ==  \* slip: v1 histories are not looked at
  {t \in Retained : OpenIn(t) /\ binding[t] = [binding[t] EXCEPT !.source = s, !.schema = "v2"]}

Outstanding(s) == {t \in Retained : OpenIn(t) /\ binding[t].source = s}

AllOutstanding == {t \in Retained : OpenIn(t)}

-----------------------------------------------------------------------------

(* The ledger may already hold v1 histories, left by an earlier release. *)
LegacyHistories ==
  { <<Intent>>,
    <<Intent, Resolution("not_applied", "absent")>> }

Init ==
  /\ ledger \in [Tokens -> LegacyHistories \cup {<< >>}]
  /\ \A t \in Tokens : ledger[t] # << >> <=> t \in LegacyTokens
  /\ binding \in [Tokens -> Bindings \cup {NoBinding}]
  /\ \A t \in Tokens :
       IF t \in LegacyTokens THEN binding[t] # NoBinding /\ binding[t].schema = "v1"
                             ELSE binding[t] = NoBinding
  /\ minted = LegacyTokens
  /\ Readable
  /\ writer = NoCaller
  /\ pc = [c \in Callers |-> "idle"]
  /\ pending = [c \in Callers |-> NoPending]
  /\ known = [c \in Callers |-> {}]
  /\ result = [c \in Callers |-> "none"]

MayEnterShared(c) == pc[c] = "idle"  \* slip: the writer's lock is shared

(* A call may start: no session holds the exclusive lock. *)
MayEnter(c) == pc[c] = "idle" /\ writer = NoCaller

Return(c, r) == result' = [result EXCEPT ![c] = r]

(* A call that ends without publishing anything. *)
Refuse(c) ==
  /\ Return(c, "failed")
  /\ UNCHANGED <<ledger, binding, minted, writer, pc, pending, known>>

Prepare(c, t, ordinal, f) ==
  /\ writer' = c
  /\ pc' = [pc EXCEPT ![c] = "publishing"]
  /\ pending' = [pending EXCEPT ![c] = [token |-> t, ordinal |-> ordinal, frame |-> f]]
  /\ Return(c, "none")

MayReserveUnread(s) == HasCapacity /\ Outstanding(s) = {}  \* slip: the replay's error is lost
MayReserveAgain(s) == Readable /\ HasCapacity  \* slip: no look for an outstanding recovery

(***************************************************************************)
(* Reserve, up to the publication of the intent.  The token is minted      *)
(* before the histories are read, so that it is fresh whatever they say.   *)
(***************************************************************************)
MayReserve(s) == Readable /\ HasCapacity /\ Outstanding(s) = {}

Reserve(c, t, s, d) ==
  /\ MayEnter(c)
  /\ t \notin minted
  /\ MayReserve(s)
  /\ minted' = minted \cup {t}
  /\ binding' = [binding EXCEPT ![t] = [source |-> s, destination |-> d, schema |-> "v2"]]
  /\ Prepare(c, t, 0, Intent)
  /\ UNCHANGED <<ledger, known>>

RefuseReserve(c, s) ==
  /\ MayEnter(c)
  /\ ~MayReserve(s)
  /\ Refuse(c)

MayTransitionAnywhere(t, f) ==  \* slip: the fact before is not looked at
  /\ Readable /\ t \in Retained /\ binding[t].schema = "v2"
  /\ HasCapacity /\ Len(ledger[t]) <= MaxOrdinal

(***************************************************************************)
(* Transition, up to the publication of the fact.  Only the identity of    *)
(* the caller's recovery is used; ordinal and predecessor come from the    *)
(* histories replayed under the lock.                                      *)
(***************************************************************************)
MayTransition(t, f) ==
  /\ Readable
  /\ t \in Retained
  /\ binding[t].schema = "v2"
  /\ HasCapacity
  /\ Len(ledger[t]) <= MaxOrdinal
  /\ ValidTransition(binding[t].destination, LastOf(ledger[t]), f)

Transition(c, t, f) ==
  /\ MayEnter(c)
  /\ t \in known[c]
  /\ MayTransition(t, f)
  /\ Prepare(c, t, Len(ledger[t]), f)
  /\ UNCHANGED <<ledger, binding, minted, known>>

RefuseTransition(c, t, f) ==
  /\ MayEnter(c)
  /\ t \in known[c]
  /\ ~MayTransition(t, f)
  /\ Refuse(c)

-----------------------------------------------------------------------------
(* Publication of the pending record, and the end of the write session. *)

Leave(c) ==
  /\ writer' = NoCaller
  /\ pc' = [pc EXCEPT ![c] = "idle"]
  /\ pending' = [pending EXCEPT ![c] = NoPending]

Learn(c, ts) == known' = [known EXCEPT ![c] = @ \cup ts]

(* The session ends with ErrInterrupted: the candidate is returned. *)
ReturnInterrupted(c) ==
  /\ Leave(c)
  /\ Learn(c, {pending[c].token})
  /\ Return(c, "interrupted")

(* O_CREAT|O_EXCL made the directory entry; it is still empty. *)
CreateRecord(c) ==
  LET p == pending[c] IN
  /\ pc[c] = "publishing"
  /\ Len(ledger[p.token]) = p.ordinal
  /\ ledger' = [ledger EXCEPT ![p.token] = Append(@, Torn)]
  /\ pc' = [pc EXCEPT ![c] = "created"]
  /\ UNCHANGED <<binding, minted, writer, pending, known, result>>

(* Nothing was created: the preflight was interrupted or open failed with  *)
(* EINTR or EAGAIN (the candidate is returned all the same), or any other  *)
(* failure (it is not).                                                    *)
FailBeforeCreate(c) ==
  /\ pc[c] = "publishing"
  /\ \/ ReturnInterrupted(c)
     \/ Leave(c) /\ Return(c, "failed") /\ UNCHANGED known
  /\ UNCHANGED <<ledger, binding, minted>>

(* The whole body reached the file. *)
WriteRecord(c) ==
  LET p == pending[c] IN
  /\ pc[c] = "created"
  /\ ledger' = [ledger EXCEPT ![p.token][p.ordinal + 1] = p.frame]
  /\ pc' = [pc EXCEPT ![c] = "written"]
  /\ UNCHANGED <<binding, minted, writer, pending, known, result>>

(* Cancelled or failed after the entry exists and before it is complete. *)
InterruptCreated(c) ==
  /\ pc[c] = "created"
  /\ ReturnInterrupted(c)
  /\ UNCHANGED <<ledger, binding, minted>>

(***************************************************************************)
(* After the write: every check passed (ok); a sync, a close, the final    *)
(* verification or the release of the lock failed (interrupted); or the    *)
(* last recheck of the session, whose error is returned as it is, saw the  *)
(* private directory or the lock drift (failed).                           *)
(***************************************************************************)
Finish(c) ==
  /\ pc[c] = "written"
  /\ Leave(c)
  /\ \/ Learn(c, {pending[c].token}) /\ Return(c, "ok")
     \/ Learn(c, {pending[c].token}) /\ Return(c, "interrupted")
     \/ UNCHANGED known /\ Return(c, "failed")
  /\ UNCHANGED <<ledger, binding, minted>>

(***************************************************************************)
(* The caller stops: its lock is released and what it knew is gone.  What  *)
(* it had created but not yet synced may be kept, cut short or lost.       *)
(***************************************************************************)
AfterCrash(c) ==
  LET t == pending[c].token
      before == SubSeq(ledger[t], 1, pending[c].ordinal)
  IN  IF pc[c] \in {"created", "written"}
      THEN { [ledger EXCEPT ![t] = h] : h \in {before, Append(before, Torn), ledger[t]} }
      ELSE {ledger}

Crash(c) ==
  /\ ledger' \in AfterCrash(c)
  /\ writer' = IF writer = c THEN NoCaller ELSE writer
  /\ pc' = [pc EXCEPT ![c] = "idle"]
  /\ pending' = [pending EXCEPT ![c] = NoPending]
  /\ known' = [known EXCEPT ![c] = {}]
  /\ result' = [result EXCEPT ![c] = "none"]
  /\ UNCHANGED <<binding, minted>>

-----------------------------------------------------------------------------
(* The calls that only read.  What they return is what the caller knows. *)

ReadReturns(c, ts) ==
  /\ Learn(c, ts)
  /\ Return(c, "ok")
  /\ UNCHANGED <<ledger, binding, minted, writer, pc, pending>>

FindOutstanding(c, s) ==
  /\ MayEnter(c)
  /\ IF Readable THEN ReadReturns(c, Outstanding(s)) ELSE Refuse(c)

(* Never truncates: one recovery too many is an error. *)
ListOutstanding(c, limit) ==
  /\ MayEnter(c)
  /\ IF Readable /\ Cardinality(AllOutstanding) <= limit
     THEN ReadReturns(c, AllOutstanding)
     ELSE Refuse(c)

Reload(c, t) ==
  /\ MayEnter(c)
  /\ t \in known[c]
  /\ IF Readable /\ t \in Retained THEN ReadReturns(c, {t}) ELSE Refuse(c)

-----------------------------------------------------------------------------

Publication(c) ==
  \/ CreateRecord(c)
  \/ FailBeforeCreate(c)
  \/ WriteRecord(c)
  \/ InterruptCreated(c)
  \/ Finish(c)

Call(c) ==
  \/ \E t \in Tokens, s \in Sources, d \in Destinations : Reserve(c, t, s, d)
  \/ \E s \in Sources : RefuseReserve(c, s)
  \/ \E t \in Tokens, f \in Proposals : Transition(c, t, f)
  \/ \E t \in Tokens, f \in Proposals : RefuseTransition(c, t, f)
  \/ \E s \in Sources : FindOutstanding(c, s)
  \/ \E limit \in 1 .. MaxRecords : ListOutstanding(c, limit)
  \/ \E t \in Tokens : Reload(c, t)

Next == \E c \in Callers : Call(c) \/ Publication(c) \/ Crash(c)

Spec == Init /\ [][Next]_vars
-----------------------------------------------------------------------------
(* What the records say to whoever enters a session next. *)

InFlight(c, t) == pc[c] \in {"created", "written"} /\ pending[c].token = t

(***************************************************************************)
(* The first FactCount(t) records of t are complete and not being          *)
(* published: they are what the next session will replay as facts.         *)
(***************************************************************************)
FactCount(t) ==
  IF \/ \E c \in Callers : InFlight(c, t)
     \/ ledger[t] # << >> /\ LastOf(ledger[t]) = Torn
  THEN Len(ledger[t]) - 1
  ELSE Len(ledger[t])

LastFact(t) == ledger[t][FactCount(t)]

FactOpen(t) == FactCount(t) > 0 /\ ~Closed(LastFact(t))
FactClosed(t) == FactCount(t) > 0 /\ Closed(LastFact(t))

(* A torn record left behind by a publication that is over. *)
TornLeft(t) ==
  /\ ledger[t] # << >> /\ LastOf(ledger[t]) = Torn
  /\ \A c \in Callers : ~InFlight(c, t)

MovesDispatched(t) ==
  {i \in 1 .. Len(ledger[t]) : ledger[t][i].event = "move_dispatch_recorded"}

SaysMoved(f) == f.event = "move_verified" \/ f.outcome = "move_verified"
SaysRestored(f) == f.event = "restore_verified" \/ f.outcome = "restore_verified"

-----------------------------------------------------------------------------

TypeOK ==
  /\ ledger \in [Tokens -> Seq(Bodies)]
  /\ binding \in [Tokens -> Bindings \cup {NoBinding}]
  /\ minted \in SUBSET Tokens
  /\ writer \in Callers \cup {NoCaller}
  /\ pc \in [Callers -> {"idle", "publishing", "created", "written"}]
  /\ pending \in [Callers -> PendingRecords \cup {NoPending}]
  /\ known \in [Callers -> SUBSET Tokens]
  /\ result \in [Callers -> {"none", "ok", "interrupted", "failed"}]

(***************************************************************************)
(* No source ever has two open recoveries, whoever reserves concurrently   *)
(* and wherever a caller stops: Reserve looks for an outstanding recovery  *)
(* and publishes its intent in one write session.                          *)
(***************************************************************************)
OneOutstandingPerSource ==
  \A t, u \in Tokens :
    FactOpen(t) /\ FactOpen(u) /\ binding[t].source = binding[u].source => t = u

(***************************************************************************)
(* What the ledger writes it can replay: between sessions, only a record   *)
(* that was cut short makes it unreadable.  Concurrent callers with stale  *)
(* recoveries, a full ledger and a full history never do.                  *)
(***************************************************************************)
OnlyTornRecordsBlock ==
  writer = NoCaller /\ (\A t \in Tokens : ~TornLeft(t)) => Readable

(***************************************************************************)
(* The content of a reservation is dispatched at most once: no order of    *)
(* transitions, by however many holders of the same recovery, reaches      *)
(* move_dispatch_recorded a second time.                                   *)
(***************************************************************************)
MoveDispatchedOnce ==
  \A t \in Tokens : \A i, j \in MovesDispatched(t) : i = j

(***************************************************************************)
(* A recovery that ever recorded its content as moved is closed only by a  *)
(* record that says the content was restored, never as not applied.        *)
(***************************************************************************)
MovedContentIsNotForgotten ==
  \A t \in Tokens :
    FactClosed(t) /\ (\E i \in 1 .. FactCount(t) : SaysMoved(ledger[t][i]))
      => SaysRestored(LastFact(t))

(***************************************************************************)
(* Fail closed: once a record is torn, no call adds a record to any        *)
(* history, and no step repairs or removes one.                            *)
(***************************************************************************)
TornLedgerIsFrozen ==
  [][(\E t \in Tokens : TornLeft(t)) => UNCHANGED ledger]_vars

(***************************************************************************)
(* The ledger implements exclusive reservation of sources.                 *)
(***************************************************************************)
Reservation == INSTANCE SourceReservation WITH
  held <- {<<t, binding[t].source>> : t \in {u \in Tokens : FactOpen(u)}},
  settled <- {t \in Tokens : FactClosed(t)}

ImplementsReservation == Reservation!Spec

(***************************************************************************)
(* The ledger implements the one its callers use: whatever they and the    *)
(* crashes do, a fact appears whole, one at a time, after the one before.  *)
(***************************************************************************)
Standing(t) == IF FactCount(t) > 0 THEN LastFact(t) ELSE NoFact
StandingBinding(t) == IF FactCount(t) > 0 THEN binding[t] ELSE NoBinding

Facts == INSTANCE FactLedger WITH
  fact <- [t \in Tokens |-> Standing(t)],
  source <- [t \in Tokens |-> StandingBinding(t).source],
  destination <- [t \in Tokens |-> StandingBinding(t).destination]

ImplementsFacts == Facts!Spec
=============================================================================
