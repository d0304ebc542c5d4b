------------------------ MODULE RecoveryLedgerProofs ------------------------
(***************************************************************************)
(* Proofs about RecoveryLedger for every set of callers, sources and       *)
(* tokens and every value of the two limits, and that it implements the    *)
(* specifications of what it promises.                                     *)
(***************************************************************************)
EXTENDS LedgerInvariant, SequenceTheorems, FiniteSetTheorems, TLAPS

-----------------------------------------------------------------------------
(* The operators the model is built from. *)

LEMMA TornIsNoFrame == Torn \notin Frames
BY DEF Torn, Frames, Events

LEMMA IntentIsFrame == Intent \in Frames
BY DEF Intent, Fact, Frames, Events

(* Only frames can be the new fact of a valid transition. *)
LEMMA ProposalsAreFrames == Proposals \subseteq Frames
BY DEF Proposals, Fact, Resolution, Frames, Events

(* A closed fact has no successor. *)
LEMMA ClosedIsFinal ==
  ASSUME NEW d, NEW f, NEW g, Closed(f)
  PROVE  ~ValidTransition(d, f, g)
BY DEF ValidTransition

LEMMA TypeOfAppend ==
  ASSUME NEW S, NEW s \in Seq(S), NEW x \in S
  PROVE  /\ Append(s, x) \in Seq(S)
         /\ Len(Append(s, x)) = Len(s) + 1
         /\ Append(s, x)[Len(s) + 1] = x
         /\ \A i \in 1 .. Len(s) : Append(s, x)[i] = s[i]
BY AppendProperties

LEMMA TypeOfReplace ==
  ASSUME NEW S, NEW s \in Seq(S), NEW x \in S, NEW k \in 1 .. Len(s)
  PROVE  /\ [s EXCEPT ![k] = x] \in Seq(S)
         /\ Len([s EXCEPT ![k] = x]) = Len(s)
         /\ [s EXCEPT ![k] = x][k] = x
         /\ \A i \in 1 .. Len(s) : i # k => [s EXCEPT ![k] = x][i] = s[i]
BY ExceptSeq

LEMMA TypeOfPrefix ==
  ASSUME NEW S, NEW s \in Seq(S), NEW k \in 0 .. Len(s)
  PROVE  /\ SubSeq(s, 1, k) \in Seq(S)
         /\ Len(SubSeq(s, 1, k)) = k
         /\ \A i \in 1 .. k : SubSeq(s, 1, k)[i] = s[i]
BY SubSeqProperties

-----------------------------------------------------------------------------
(* The initial states. *)

LEMMA InitialHistories ==
  ASSUME Init, NEW t \in Tokens
  PROVE  /\ ledger[t] \in Seq(Bodies)
         /\ \A i \in 1 .. Len(ledger[t]) : ledger[t][i] \in Frames
         /\ FactCount(t) = Len(ledger[t])
<1> DEFINE h == ledger[t]
<1>1. h \in LegacyHistories \cup {<< >>}
  BY DEF Init
<1>2. Resolution("not_applied", "absent") \in Frames
  BY DEF Resolution, Frames, Events, Outcomes, MetadataDispositions
<1>3. h \in Seq(Frames) /\ \A i \in 1 .. Len(h) : h[i] \in Frames
  <2> DEFINE r == Resolution("not_applied", "absent")
  <2> HIDE DEF r
  <2>1. <<Intent>> \in Seq(Frames) /\ <<Intent, r>> \in Seq(Frames) /\ << >> \in Seq(Frames)
    BY <1>2, IntentIsFrame DEF r
  <2>2. h \in Seq(Frames)
    BY <1>1, <2>1 DEF LegacyHistories, r
  <2>3. QED
    BY <2>2
<1>4. h \in Seq(Bodies)
  BY <1>3 DEF Bodies
<1>5. h # << >> => LastOf(h) # Torn
  BY <1>1, <1>2, TornIsNoFrame, IntentIsFrame DEF LegacyHistories, LastOf
<1>6. \A c \in Callers : ~InFlight(c, t)
  BY DEF Init, InFlight
<1>7. QED
  BY <1>3, <1>4, <1>5, <1>6 DEF FactCount

LEMMA InitInvariant == Init => LedgerInv
<1> SUFFICES ASSUME Init PROVE LedgerInv
  OBVIOUS
<1>1. TypeOK
  <2>1. ledger \in [Tokens -> Seq(Bodies)]
    BY InitialHistories DEF Init
  <2>2. QED
    BY <2>1, LedgerAssumptions DEF Init, TypeOK
<1>2. SessionInv
  BY LedgerAssumptions DEF Init, SessionInv
<1>3. HistoryInv
  <2> USE DEF HistoryInv, HistoryOK
  <2> TAKE t \in Tokens
  <2>1. ledger[t] # << >> => t \in minted
    BY DEF Init
  <2>2. t \in minted => binding[t] \in Bindings
    BY DEF Init
  <2>3. CASE ledger[t] = << >>
    BY <2>1, <2>2, <2>3, LedgerAssumptions
  <2>4. CASE ledger[t] # << >>
    <3>1. Replays(t)
      BY <2>4 DEF Init, Readable, Retained
    <3>2. QED
      BY <2>1, <2>2, <3>1, InitialHistories DEF Replays, ValidHistory
  <2>5. QED
    BY <2>3, <2>4
<1>4. PendingInv
  BY DEF Init, PendingInv, PendingOK
<1>5. OneOutstandingPerSource
  <2> SUFFICES ASSUME NEW t \in Tokens, NEW u \in Tokens,
                      FactOpen(t), FactOpen(u), binding[t].source = binding[u].source
               PROVE  t = u
    BY DEF OneOutstandingPerSource
  <2>1. FactCount(t) = Len(ledger[t]) /\ FactCount(u) = Len(ledger[u])
    BY InitialHistories
  <2>2. OpenIn(t) /\ OpenIn(u) /\ t \in Retained /\ u \in Retained
    BY <2>1, InitialHistories DEF FactOpen, OpenIn, LastFact, LastOf, Retained
  <2>3. QED
    BY <2>2 DEF Init, Readable
<1>6. QED
  BY <1>1, <1>2, <1>3, <1>4, <1>5 DEF LedgerInv

-----------------------------------------------------------------------------
(* Steps that touch neither the records nor the sessions. *)

LEMMA ObservationKeepsInvariant ==
  ASSUME LedgerInv,
         UNCHANGED <<ledger, binding, minted, writer, pc, pending>>,
         known' \in [Callers -> SUBSET Tokens],
         result' \in [Callers -> {"none", "ok", "interrupted", "failed"}]
  PROVE  LedgerInv'
<1>1. TypeOK'
  BY DEF LedgerInv, TypeOK
<1>2. SessionInv' /\ HistoryInv'
  BY DEF LedgerInv, SessionInv, HistoryInv, HistoryOK
<1>3. PendingInv' /\ OneOutstandingPerSource'
  BY DEF LedgerInv, PendingInv, PendingOK, OneOutstandingPerSource, FactOpen, LastFact, FactCount,
         InFlight, TornLeft, LastOf
<1>4. QED
  BY <1>1, <1>2, <1>3 DEF LedgerInv

-----------------------------------------------------------------------------
(* How the facts read off the records. *)

LEMMA FactCountBounds ==
  ASSUME LedgerInv, NEW t \in Tokens
  PROVE  /\ ledger[t] \in Seq(Bodies)
         /\ Len(ledger[t]) \in Nat
         /\ FactCount(t) \in 0 .. Len(ledger[t])
         /\ \A i \in 1 .. FactCount(t) : ledger[t][i] \in Frames
<1>1. ledger[t] \in Seq(Bodies) /\ Len(ledger[t]) \in Nat
  BY DEF LedgerInv, TypeOK
<1>2. \A i \in 1 .. Len(ledger[t]) - 1 : ledger[t][i] \in Frames
  BY <1>1 DEF LedgerInv, HistoryInv, HistoryOK
<1>3. CASE \E c \in Callers : InFlight(c, t)
  <2>1. Len(ledger[t]) > 0
    BY <1>3 DEF LedgerInv, PendingInv, PendingOK, InFlight, PendingRecords
  <2>2. QED
    BY <1>1, <1>2, <1>3, <2>1 DEF FactCount
<1>4. CASE ledger[t] # << >> /\ LastOf(ledger[t]) = Torn
  BY <1>1, <1>2, <1>4 DEF FactCount
<1>5. CASE /\ ~ \E c \in Callers : InFlight(c, t)
           /\ ~ (ledger[t] # << >> /\ LastOf(ledger[t]) = Torn)
  <2>1. FactCount(t) = Len(ledger[t])
    BY <1>5 DEF FactCount
  <2>2. Len(ledger[t]) > 0 => ledger[t][Len(ledger[t])] \in Frames
    BY <1>1, <1>5 DEF LastOf, Bodies
  <2>3. QED
    BY <1>1, <1>2, <2>1, <2>2
<1>6. QED
  BY <1>3, <1>4, <1>5

(* A readable ledger has no torn record, so every record is a fact. *)
LEMMA ReadableFacts ==
  ASSUME LedgerInv, Readable, writer = NoCaller, NEW t \in Tokens
  PROVE  /\ \A c \in Callers : pc[c] = "idle"
         /\ ~TornLeft(t)
         /\ FactCount(t) = Len(ledger[t])
         /\ FactOpen(t) <=> t \in Retained /\ OpenIn(t)
<1>1. \A c \in Callers : pc[c] = "idle"
  BY LedgerAssumptions DEF LedgerInv, SessionInv
<1>2. ledger[t] # << >> => LastOf(ledger[t]) # Torn
  BY FactCountBounds, TornIsNoFrame DEF Readable, Retained, Replays, LastOf
<1>3. FactCount(t) = Len(ledger[t])
  BY <1>1, <1>2 DEF FactCount, InFlight
<1>4. QED
  BY <1>1, <1>2, <1>3, FactCountBounds
     DEF TornLeft, FactOpen, OpenIn, LastFact, LastOf, Retained

(* The facts depend only on the records and on who is in flight. *)
LEMMA SameFacts ==
  ASSUME NEW t \in Tokens, ledger'[t] = ledger[t],
         (\E c \in Callers : InFlight(c, t)') <=> (\E c \in Callers : InFlight(c, t))
  PROVE  /\ FactCount(t)' = FactCount(t)
         /\ LastFact(t)' = LastFact(t)
         /\ FactOpen(t)' <=> FactOpen(t)
         /\ FactClosed(t)' <=> FactClosed(t)
<1>1. FactCount(t)' = FactCount(t)
  BY DEF FactCount, LastOf
<1>2. QED
  BY <1>1 DEF LastFact, FactOpen, FactClosed

-----------------------------------------------------------------------------
(* The decisions of Reserve and Transition. *)

LEMMA ReserveKeepsInvariant ==
  ASSUME LedgerInv, NEW c \in Callers, NEW t \in Tokens, NEW s \in Sources,
         NEW d \in Destinations, Reserve(c, t, s, d)
  PROVE  LedgerInv'
<1> USE DEF Reserve, MayEnter, MayReserve, Prepare
<1>1. \A x \in Callers : pc[x] = "idle"
  BY ReadableFacts
<1>2. TypeOK'
  <2>1. [token |-> t, ordinal |-> 0, frame |-> Intent] \in PendingRecords
    BY IntentIsFrame DEF PendingRecords
  <2>2. [source |-> s, destination |-> d, schema |-> "v2"] \in Bindings
    BY DEF Bindings, Schemas
  <2>3. QED
    BY <2>1, <2>2 DEF LedgerInv, TypeOK, Return
<1>3. SessionInv'
  BY <1>1, LedgerAssumptions DEF LedgerInv, TypeOK, SessionInv
<1>4. ledger[t] = << >>
  BY DEF LedgerInv, HistoryInv, HistoryOK
<1>5. HistoryInv'
  <2> SUFFICES ASSUME NEW u \in Tokens
               PROVE  HistoryOK(u)'
    BY DEF HistoryInv, HistoryOK
  <2>1. CASE u = t
    BY <1>4, <2>1, LedgerAssumptions DEF LedgerInv, TypeOK, Bindings, Schemas, HistoryOK
  <2>2. CASE u # t
    BY <2>2 DEF LedgerInv, TypeOK, HistoryInv, HistoryOK
  <2>3. QED
    BY <2>1, <2>2
<1>6. \A u \in Tokens : ~ \E x \in Callers : InFlight(x, u)
  BY <1>1 DEF InFlight
<1>7. \A u \in Tokens : ~ \E x \in Callers : InFlight(x, u)'
  BY <1>1 DEF InFlight, LedgerInv, TypeOK
<1>8. \A u \in Tokens : FactOpen(u)' <=> FactOpen(u)
  BY <1>6, <1>7, SameFacts
<1>9. \A u \in Tokens : FactOpen(u) => u # t /\ binding[u].source # s
  BY <1>4, ReadableFacts DEF Outstanding, Retained
<1>10. \A u \in Tokens : u # t => binding'[u] = binding[u]
  BY DEF LedgerInv, TypeOK
<1>11. binding'[t].source = s
  BY DEF LedgerInv, TypeOK
<1>12. PendingInv'
  <2> SUFFICES ASSUME NEW x \in Callers, pc'[x] # "idle"
               PROVE  PendingOK(x)'
    BY DEF PendingInv, PendingOK
  <2>1. x = c
    BY <1>1 DEF LedgerInv, TypeOK
  <2>2. /\ pc'[c] = "publishing"
        /\ pending'[c] = [token |-> t, ordinal |-> 0, frame |-> Intent]
    BY DEF LedgerInv, TypeOK
  <2>3. \A u \in Tokens : ~TornLeft(u)'
    BY <1>6, <1>7, ReadableFacts DEF TornLeft
  <2>4. QED
    BY <1>4, <1>8, <1>9, <1>10, <1>11, <2>1, <2>2, <2>3, IntentIsFrame, LedgerAssumptions
       DEF PendingRecords, PendingOK
<1>13. OneOutstandingPerSource'
  BY <1>8, <1>9, <1>10 DEF LedgerInv, OneOutstandingPerSource
<1>14. QED
  BY <1>2, <1>3, <1>5, <1>12, <1>13 DEF LedgerInv

LEMMA TransitionKeepsInvariant ==
  ASSUME LedgerInv, NEW c \in Callers, NEW t \in Tokens, NEW f \in Proposals,
         Transition(c, t, f)
  PROVE  LedgerInv'
<1> USE DEF Transition, MayEnter, MayTransition, Prepare
<1> DEFINE k == Len(ledger[t])
<1>1. \A x \in Callers : pc[x] = "idle"
  BY ReadableFacts
<1>2. k \in Nat /\ k > 0 /\ k <= MaxOrdinal /\ f \in Frames
  BY FactCountBounds, ProposalsAreFrames DEF Retained
<1>3. [token |-> t, ordinal |-> k, frame |-> f] \in PendingRecords
  BY <1>2 DEF PendingRecords
<1> HIDE DEF k
<1>4. TypeOK'
  BY <1>3 DEF LedgerInv, TypeOK, Return, k
<1>5. SessionInv'
  BY <1>1, LedgerAssumptions DEF LedgerInv, TypeOK, SessionInv
<1>6. HistoryInv'
  BY DEF LedgerInv, HistoryInv, HistoryOK
<1>7. \A u \in Tokens : /\ ~ \E x \in Callers : InFlight(x, u)
                        /\ ~ \E x \in Callers : InFlight(x, u)'
  BY <1>1 DEF InFlight, LedgerInv, TypeOK
<1>8. \A u \in Tokens : FactOpen(u)' <=> FactOpen(u)
  BY <1>7, SameFacts
<1>9. PendingInv'
  <2> SUFFICES ASSUME NEW x \in Callers, pc'[x] # "idle"
               PROVE  PendingOK(x)'
    BY DEF PendingInv
  <2>1. x = c
    BY <1>1 DEF LedgerInv, TypeOK
  <2>2. /\ pc'[c] = "publishing"
        /\ pending'[c] = [token |-> t, ordinal |-> k, frame |-> f]
    BY DEF LedgerInv, TypeOK, k
  <2>3. \A u \in Tokens : ~TornLeft(u)'
    BY <1>7, ReadableFacts DEF TornLeft
  <2>4. t \in minted
    BY DEF LedgerInv, HistoryInv, HistoryOK, Retained
  <2>5. ValidTransition(binding[t].destination, ledger[t][k], f)
    BY DEF LastOf, k
  <2>6. QED
    BY <1>2, <1>3, <2>1, <2>2, <2>3, <2>4, <2>5 DEF PendingOK, k
<1>10. OneOutstandingPerSource'
  BY <1>8 DEF LedgerInv, OneOutstandingPerSource
<1>11. QED
  BY <1>4, <1>5, <1>6, <1>9, <1>10 DEF LedgerInv

-----------------------------------------------------------------------------
(* The publication of one record. *)

(* A step that leaves every fact and the session alone but moves one caller *)
(* through its publication keeps the reservations exclusive.                *)
LEMMA SameFactsKeepExclusive ==
  ASSUME LedgerInv, UNCHANGED binding,
         \A u \in Tokens : FactOpen(u)' <=> FactOpen(u)
  PROVE  OneOutstandingPerSource'
BY DEF LedgerInv, OneOutstandingPerSource

LEMMA CreateRecordKeepsInvariant ==
  ASSUME LedgerInv, NEW c \in Callers, CreateRecord(c)
  PROVE  LedgerInv'
<1> USE DEF CreateRecord
<1> DEFINE t == pending[c].token
           k == pending[c].ordinal
<1>1. PendingOK(c) /\ writer = c /\ t \in Tokens /\ k \in Nat
  BY DEF LedgerInv, PendingInv, PendingOK, SessionInv, PendingRecords
<1>2. \A x \in Callers : x # c => pc[x] = "idle"
  BY <1>1 DEF LedgerInv, SessionInv
<1>3. /\ ledger[t] \in Seq(Bodies)
      /\ Len(ledger[t]) = k
      /\ \A u \in Tokens : u # t => ledger'[u] = ledger[u]
      /\ ledger'[t] = Append(ledger[t], Torn)
  BY <1>1 DEF LedgerInv, TypeOK
<1>4. /\ ledger'[t] \in Seq(Bodies)
      /\ Len(ledger'[t]) = k + 1
      /\ ledger'[t][k + 1] = Torn
      /\ \A i \in 1 .. k : ledger'[t][i] = ledger[t][i]
  BY <1>3, TypeOfAppend DEF Bodies
<1>5. TypeOK'
  BY <1>1, <1>3, <1>4 DEF LedgerInv, TypeOK
<1>6. \A u \in Tokens : ~ \E x \in Callers : InFlight(x, u)
  BY <1>2 DEF InFlight
<1>7. pc'[c] = "created" /\ \A x \in Callers : x # c => pc'[x] = "idle"
  BY <1>2 DEF LedgerInv, TypeOK
<1>8. \A u \in Tokens : (\E x \in Callers : InFlight(x, u)') <=> u = t
  BY <1>7 DEF InFlight
<1>9. FactCount(t) = k
  BY <1>1, <1>3, <1>6 DEF FactCount, TornLeft, PendingOK, InFlight
<1>10. FactCount(t)' = k
  BY <1>1, <1>4, <1>8 DEF FactCount
<1>11. FactOpen(t)' <=> FactOpen(t)
  BY <1>1, <1>4, <1>9, <1>10 DEF FactOpen, LastFact
<1>12. \A u \in Tokens : u # t => (FactOpen(u)' <=> FactOpen(u))
  BY <1>3, <1>6, <1>8, SameFacts
<1>13. HistoryInv'
  <2> SUFFICES ASSUME NEW u \in Tokens
               PROVE  HistoryOK(u)'
    BY DEF HistoryInv
  <2>1. CASE u # t
    BY <1>3, <2>1 DEF LedgerInv, HistoryInv, HistoryOK
  <2>2. CASE u = t
    <3>1. \A i \in 1 .. k : ledger[t][i] \in Frames
      BY <1>9, FactCountBounds, <1>1
    <3>2. HistoryOK(t) /\ t \in minted /\ k <= MaxOrdinal
      BY <1>1 DEF LedgerInv, HistoryInv, PendingOK
    <3>3. ledger'[t][1] \in {Intent, Torn}
      BY <1>1, <1>3, <1>4, <3>2 DEF HistoryOK
    <3>4. \A i \in 1 .. k :
            \/ ledger'[t][i + 1] = Torn
            \/ ValidTransition(binding[t].destination, ledger'[t][i], ledger'[t][i + 1])
      <4> TAKE i \in 1 .. k
      <4>1. CASE i = k
        BY <1>4, <4>1
      <4>2. CASE i # k
        <5>1. i + 1 \in 1 .. k /\ i \in 1 .. Len(ledger[t]) - 1
          BY <1>1, <1>3, <4>2
        <5>2. ledger'[t][i] = ledger[t][i] /\ ledger'[t][i + 1] = ledger[t][i + 1]
          BY <1>4, <5>1
        <5>3. \/ ledger[t][i + 1] = Torn
              \/ ValidTransition(binding[t].destination, ledger[t][i], ledger[t][i + 1])
          BY <3>2, <5>1 DEF HistoryOK
        <5>4. QED
          BY <5>2, <5>3
      <4>3. QED
        BY <4>1, <4>2
    <3>5. QED
      BY <1>1, <1>4, <2>2, <3>1, <3>2, <3>3, <3>4, LedgerAssumptions DEF HistoryOK
  <2>3. QED
    BY <2>1, <2>2
<1>14. \A u \in Tokens : ~TornLeft(u)'
  <2>1. \A u \in Tokens : u # t => ~TornLeft(u)'
    BY <1>1, <1>3, <1>6 DEF TornLeft, PendingOK
  <2>2. ~TornLeft(t)'
    BY <1>1, <1>8 DEF TornLeft
  <2>3. QED
    BY <2>1, <2>2
<1>15. PendingOK(c)'
  BY <1>1, <1>3, <1>4, <1>7, <1>11, <1>12, <1>14 DEF PendingOK
<1>16. PendingInv' /\ SessionInv'
  BY <1>1, <1>7, <1>15, LedgerAssumptions DEF LedgerInv, PendingInv, SessionInv
<1>17. OneOutstandingPerSource'
  BY <1>11, <1>12, SameFactsKeepExclusive
<1>18. QED
  BY <1>5, <1>13, <1>16, <1>17 DEF LedgerInv

(* What is known of a caller between its decision and its return. *)
LEMMA PublisherContext ==
  ASSUME LedgerInv, NEW c \in Callers, pc[c] # "idle"
  PROVE  /\ PendingOK(c)
         /\ writer = c
         /\ pending[c].token \in Tokens
         /\ pending[c].ordinal \in Nat
         /\ pending[c].frame \in Frames
         /\ ledger[pending[c].token] \in Seq(Bodies)
         /\ HistoryOK(pending[c].token)
         /\ \A x \in Callers : x # c => pc[x] = "idle"
<1>1. PendingOK(c) /\ writer = c
  BY DEF LedgerInv, PendingInv, SessionInv
<1>2. pending[c] \in PendingRecords
  BY <1>1 DEF PendingOK
<1>3. QED
  BY <1>1, <1>2 DEF LedgerInv, TypeOK, HistoryInv, SessionInv, PendingRecords

(* Before its record is complete, the facts of the pending token are the   *)
(* ones the caller replayed.                                               *)
LEMMA PublisherFacts ==
  ASSUME LedgerInv, NEW c \in Callers, pc[c] # "idle"
  PROVE  FactCount(pending[c].token) = pending[c].ordinal
<1> DEFINE t == pending[c].token
           k == pending[c].ordinal
<1>1. CASE pc[c] = "publishing"
  <2>1. Len(ledger[t]) = k /\ ~TornLeft(t)
    BY <1>1, PublisherContext DEF PendingOK
  <2>2. ~ \E x \in Callers : InFlight(x, t)
    BY <1>1, PublisherContext DEF InFlight
  <2>3. QED
    BY <2>1, <2>2 DEF FactCount, TornLeft
<1>2. CASE pc[c] \in {"created", "written"}
  <2>1. Len(ledger[t]) = k + 1 /\ k \in Nat
    BY <1>2, PublisherContext DEF PendingOK
  <2>2. InFlight(c, t)
    BY <1>2 DEF InFlight
  <2>3. QED
    BY <2>1, <2>2 DEF FactCount
<1>3. QED
  BY <1>1, <1>2 DEF LedgerInv, TypeOK

LEMMA WriteRecordKeepsInvariant ==
  ASSUME LedgerInv, NEW c \in Callers, WriteRecord(c)
  PROVE  LedgerInv'
<1> USE DEF WriteRecord
<1> DEFINE t == pending[c].token
           k == pending[c].ordinal
           f == pending[c].frame
<1>1. /\ PendingOK(c) /\ writer = c
      /\ t \in Tokens /\ k \in Nat /\ f \in Frames
      /\ ledger[t] \in Seq(Bodies) /\ HistoryOK(t)
      /\ \A x \in Callers : x # c => pc[x] = "idle"
  BY PublisherContext
<1>2. Len(ledger[t]) = k + 1
  BY <1>1 DEF PendingOK
<1>3. /\ \A u \in Tokens : u # t => ledger'[u] = ledger[u]
      /\ ledger'[t] = [ledger[t] EXCEPT ![k + 1] = f]
  BY <1>1 DEF LedgerInv, TypeOK
<1>4. /\ ledger'[t] \in Seq(Bodies)
      /\ Len(ledger'[t]) = k + 1
      /\ ledger'[t][k + 1] = f
      /\ \A i \in 1 .. k : ledger'[t][i] = ledger[t][i]
  <2>1. f \in Bodies /\ k + 1 \in 1 .. Len(ledger[t])
    BY <1>1, <1>2 DEF Bodies
  <2>2. QED
    BY <1>1, <1>2, <1>3, <2>1, TypeOfReplace
<1>5. TypeOK'
  BY <1>1, <1>3, <1>4 DEF LedgerInv, TypeOK
<1>6. pc'[c] = "written" /\ \A x \in Callers : x # c => pc'[x] = "idle"
  BY <1>1 DEF LedgerInv, TypeOK
<1>7. \A u \in Tokens : /\ (\E x \in Callers : InFlight(x, u)) <=> u = t
                        /\ (\E x \in Callers : InFlight(x, u)') <=> u = t
  BY <1>1, <1>6 DEF InFlight
<1>8. FactCount(t) = k /\ FactCount(t)' = k
  BY <1>1, <1>2, <1>4, <1>7 DEF FactCount
<1>9. \A u \in Tokens : FactOpen(u)' <=> FactOpen(u)
  <2>1. FactOpen(t)' <=> FactOpen(t)
    BY <1>1, <1>4, <1>8 DEF FactOpen, LastFact
  <2>2. \A u \in Tokens : u # t => (FactOpen(u)' <=> FactOpen(u))
    BY <1>3, <1>7, SameFacts
  <2>3. QED
    BY <2>1, <2>2
<1>10. \A i \in 1 .. k : ledger[t][i] \in Frames
  BY <1>1, <1>8, FactCountBounds
<1>11. HistoryInv'
  <2> SUFFICES ASSUME NEW u \in Tokens
               PROVE  HistoryOK(u)'
    BY DEF HistoryInv
  <2>1. CASE u # t
    BY <1>3, <2>1 DEF LedgerInv, HistoryInv, HistoryOK
  <2>2. CASE u = t
    <3>1. t \in minted /\ k <= MaxOrdinal
      BY <1>1 DEF PendingOK
    <3>2. ledger'[t][1] \in {Intent, Torn}
      BY <1>1, <1>2, <1>4 DEF HistoryOK, PendingOK
    <3>3. \A i \in 1 .. k :
            \/ ledger'[t][i + 1] = Torn
            \/ ValidTransition(binding[t].destination, ledger'[t][i], ledger'[t][i + 1])
      <4> TAKE i \in 1 .. k
      <4>1. CASE i = k
        BY <1>1, <1>4, <4>1 DEF PendingOK
      <4>2. CASE i # k
        <5>1. i + 1 \in 1 .. k
          BY <1>1, <4>2
        <5>2. ledger'[t][i] = ledger[t][i] /\ ledger'[t][i + 1] = ledger[t][i + 1]
          BY <1>4, <5>1
        <5>3. i \in 1 .. Len(ledger[t]) - 1
          BY <1>1, <1>2
        <5>4. QED
          BY <1>1, <5>2, <5>3 DEF HistoryOK
      <4>3. QED
        BY <4>1, <4>2
    <3>4. QED
      BY <1>1, <1>4, <1>10, <2>2, <3>1, <3>2, <3>3, LedgerAssumptions DEF HistoryOK
  <2>3. QED
    BY <2>1, <2>2
<1>12. \A u \in Tokens : ~TornLeft(u)'
  BY <1>1, <1>3, <1>7 DEF TornLeft, PendingOK
<1>13. PendingOK(c)'
  BY <1>1, <1>4, <1>6, <1>9, <1>12 DEF PendingOK
<1>14. PendingInv' /\ SessionInv'
  BY <1>1, <1>6, <1>13, LedgerAssumptions DEF LedgerInv, PendingInv, SessionInv
<1>15. OneOutstandingPerSource'
  BY <1>9, SameFactsKeepExclusive
<1>16. QED
  BY <1>5, <1>11, <1>14, <1>15 DEF LedgerInv

(* What every end of a publication has in common: the session is left and  *)
(* the pending record is kept, cut short or gone.                          *)
Leaves(c) ==
  /\ pc[c] # "idle"
  /\ writer' = NoCaller
  /\ pc' = [pc EXCEPT ![c] = "idle"]
  /\ pending' = [pending EXCEPT ![c] = NoPending]
  /\ UNCHANGED <<binding, minted>>
  /\ ledger' \in AfterCrash(c)

LEMMA LeavingRecords ==
  ASSUME LedgerInv, NEW c \in Callers, Leaves(c),
         NEW t, NEW k, t = pending[c].token, k = pending[c].ordinal
  PROVE  /\ \A u \in Tokens : u # t => ledger'[u] = ledger[u]
         /\ ledger'[t] \in Seq(Bodies)
         /\ Len(ledger'[t]) \in {k, k + 1}
         /\ \A i \in 1 .. k : ledger'[t][i] = ledger[t][i]
         /\ Len(ledger'[t]) = k + 1 => ledger'[t][k + 1] \in {Torn, pending[c].frame}
         /\ ledger' \in [Tokens -> Seq(Bodies)]
<1>1. /\ PendingOK(c)
      /\ t \in Tokens /\ k \in Nat
      /\ ledger[t] \in Seq(Bodies)
  BY PublisherContext DEF Leaves
<1>2. CASE pc[c] = "publishing"
  BY <1>1, <1>2 DEF Leaves, AfterCrash, LedgerInv, TypeOK, PendingOK
<1>3. CASE pc[c] \in {"created", "written"}
  <2> DEFINE before == SubSeq(ledger[t], 1, k)
  <2>1. Len(ledger[t]) = k + 1 /\ ledger[t][k + 1] \in {Torn, pending[c].frame}
    BY <1>1, <1>3 DEF PendingOK
  <2>2. /\ before \in Seq(Bodies)
        /\ Len(before) = k
        /\ \A i \in 1 .. k : before[i] = ledger[t][i]
    <3>1. k \in 0 .. Len(ledger[t])
      BY <1>1, <2>1
    <3>2. QED
      BY <1>1, <3>1, TypeOfPrefix
  <2>3. /\ Append(before, Torn) \in Seq(Bodies)
        /\ Len(Append(before, Torn)) = k + 1
        /\ Append(before, Torn)[k + 1] = Torn
        /\ \A i \in 1 .. k : Append(before, Torn)[i] = ledger[t][i]
    BY <1>1, <2>2, TypeOfAppend DEF Bodies
  <2>4. PICK h \in {before, Append(before, Torn), ledger[t]} :
          ledger' = [ledger EXCEPT ![t] = h]
    BY <1>3 DEF Leaves, AfterCrash
  <2> HIDE DEF before
  <2>5. /\ h \in Seq(Bodies)
        /\ Len(h) \in {k, k + 1}
        /\ \A i \in 1 .. k : h[i] = ledger[t][i]
        /\ Len(h) = k + 1 => h[k + 1] \in {Torn, pending[c].frame}
    <3>1. CASE h = before
      BY <1>1, <2>2, <3>1
    <3>2. CASE h = Append(before, Torn)
      BY <1>1, <2>3, <3>2
    <3>3. CASE h = ledger[t]
      BY <1>1, <2>1, <3>3
    <3>4. QED
      BY <2>4, <3>1, <3>2, <3>3
  <2>6. ledger'[t] = h /\ \A u \in Tokens : u # t => ledger'[u] = ledger[u]
    BY <1>1, <2>4 DEF LedgerInv, TypeOK
  <2>7. ledger' \in [Tokens -> Seq(Bodies)]
    BY <1>1, <2>4, <2>5 DEF LedgerInv, TypeOK
  <2>8. QED
    BY <2>5, <2>6, <2>7
<1>4. QED
  BY <1>2, <1>3 DEF Leaves, LedgerInv, TypeOK

(* The facts of every other token stand; the pending record becomes the    *)
(* next fact of its token, or nothing does.                                *)
LEMMA LeavingFacts ==
  ASSUME LedgerInv, NEW c \in Callers, Leaves(c),
         NEW t, NEW k, t = pending[c].token, k = pending[c].ordinal
  PROVE  /\ \A u \in Tokens : u # t => /\ FactOpen(u)' <=> FactOpen(u)
                                       /\ FactClosed(u)' <=> FactClosed(u)
         /\ FactCount(t) = k
         /\ \/ /\ FactCount(t)' = k
               /\ FactOpen(t)' <=> FactOpen(t)
               /\ FactClosed(t)' <=> FactClosed(t)
            \/ FactCount(t)' = k + 1 /\ LastFact(t)' = pending[c].frame
         /\ \A u \in Tokens, x \in Callers : ~InFlight(x, u)'
<1>1. /\ t \in Tokens /\ k \in Nat /\ pending[c].frame \in Frames
      /\ \A x \in Callers : x # c => pc[x] = "idle"
  BY PublisherContext DEF Leaves
<1>2. \A u \in Tokens, x \in Callers : ~InFlight(x, u)'
  BY <1>1 DEF Leaves, InFlight, LedgerInv, TypeOK
<1>3. \A u \in Tokens : u # t => ~ \E x \in Callers : InFlight(x, u)
  BY <1>1 DEF InFlight
<1>4. FactCount(t) = k
  BY PublisherFacts DEF Leaves
<1>5. \A u \in Tokens : u # t => /\ FactOpen(u)' <=> FactOpen(u)
                                 /\ FactClosed(u)' <=> FactClosed(u)
  BY <1>2, <1>3, LeavingRecords, SameFacts
<1>6. \A i \in 1 .. k : ledger[t][i] \in Frames /\ ledger'[t][i] = ledger[t][i]
  BY <1>1, <1>4, FactCountBounds, LeavingRecords
<1>7. CASE Len(ledger'[t]) = k
  <2>1. ledger'[t] # << >> => LastOf(ledger'[t]) # Torn
    BY <1>1, <1>6, <1>7, TornIsNoFrame, LeavingRecords DEF LastOf
  <2>2. FactCount(t)' = k
    BY <1>1, <1>2, <1>7, <2>1 DEF FactCount, LastOf
  <2>3. QED
    BY <1>1, <1>2, <1>4, <1>5, <1>6, <2>2 DEF FactOpen, FactClosed, LastFact
<1>8. CASE Len(ledger'[t]) = k + 1 /\ ledger'[t][k + 1] = Torn
  <2>1. ledger'[t] # << >> /\ LastOf(ledger'[t]) = Torn
    BY <1>1, <1>8, LeavingRecords DEF LastOf
  <2>2. FactCount(t)' = k
    BY <1>1, <1>8, <2>1 DEF FactCount, LastOf
  <2>3. QED
    BY <1>1, <1>2, <1>4, <1>5, <1>6, <2>2 DEF FactOpen, FactClosed, LastFact
<1>9. CASE Len(ledger'[t]) = k + 1 /\ ledger'[t][k + 1] = pending[c].frame
  <2>1. LastOf(ledger'[t]) # Torn
    BY <1>1, <1>9, TornIsNoFrame DEF LastOf
  <2>2. FactCount(t)' = k + 1
    BY <1>1, <1>2, <1>9, <2>1 DEF FactCount, LastOf
  <2>3. QED
    BY <1>1, <1>2, <1>4, <1>5, <1>9, <2>2 DEF LastFact
<1>10. QED
  BY <1>7, <1>8, <1>9, LeavingRecords

LEMMA LeavingKeepsInvariant ==
  ASSUME LedgerInv, NEW c \in Callers, Leaves(c),
         known' \in [Callers -> SUBSET Tokens],
         result' \in [Callers -> {"none", "ok", "interrupted", "failed"}]
  PROVE  LedgerInv'
<1> PICK t, k, f : t = pending[c].token /\ k = pending[c].ordinal /\ f = pending[c].frame
  OBVIOUS
<1>1. /\ PendingOK(c) /\ writer = c
      /\ t \in Tokens /\ k \in Nat /\ f \in Frames
      /\ HistoryOK(t)
      /\ \A x \in Callers : x # c => pc[x] = "idle"
  BY PublisherContext DEF Leaves
<1>2. \A x \in Callers : pc'[x] = "idle" /\ pending'[x] = NoPending
  BY <1>1 DEF Leaves, LedgerInv, TypeOK, SessionInv
<1>3. TypeOK'
  BY LeavingRecords DEF Leaves, LedgerInv, TypeOK
<1>4. SessionInv' /\ PendingInv'
  BY <1>2, LedgerAssumptions DEF Leaves, SessionInv, PendingInv
<1>5. /\ FactCount(t) = k
      /\ \A i \in 1 .. k : ledger[t][i] \in Frames /\ ledger'[t][i] = ledger[t][i]
  BY <1>1, LeavingFacts, LeavingRecords, FactCountBounds
<1>6. HistoryInv'
  <2> SUFFICES ASSUME NEW u \in Tokens
               PROVE  HistoryOK(u)'
    BY DEF HistoryInv
  <2>1. CASE u # t
    <3>1. ledger'[u] = ledger[u]
      BY <2>1, LeavingRecords
    <3>2. binding' = binding /\ minted' = minted
      BY DEF Leaves
    <3>3. QED
      BY <3>1, <3>2 DEF LedgerInv, HistoryInv, HistoryOK
  <2>2. CASE u = t
    <3>1. t \in minted /\ k <= MaxOrdinal /\ Len(ledger'[t]) \in {k, k + 1}
      BY <1>1, LeavingRecords DEF PendingOK
    <3>2. k > 0 => ledger'[t][1] = Intent
      <4>1. k > 0 => ledger[t] # << >> /\ ledger[t][1] \in Frames
        BY <1>1, <1>5, FactCountBounds
      <4>2. QED
        BY <1>1, <1>5, <4>1, TornIsNoFrame DEF HistoryOK
    <3>3. Len(ledger'[t]) = k + 1 => ledger'[t][k + 1] \in {Torn, f}
      BY LeavingRecords
    <3>4. k = 0 /\ ledger'[t] # << >> => ledger'[t][1] \in {Intent, Torn}
      <4>1. ledger'[t] # << >> => Len(ledger'[t]) > 0
        BY LeavingRecords
      <4>2. QED
        BY <1>1, <3>1, <3>3, <4>1 DEF PendingOK
    <3>5. \A i \in 1 .. Len(ledger'[t]) - 1 :
            \/ ledger'[t][i + 1] = Torn
            \/ ValidTransition(binding[t].destination, ledger'[t][i], ledger'[t][i + 1])
      <4> SUFFICES ASSUME NEW i \in 1 .. Len(ledger'[t]) - 1, ledger'[t][i + 1] # Torn
                   PROVE  ValidTransition(binding[t].destination, ledger'[t][i], ledger'[t][i + 1])
        OBVIOUS
      <4>1. i \in 1 .. k
        BY <1>1, <3>1
      <4>2. CASE i = k
        <5>1. k > 0 /\ Len(ledger'[t]) = k + 1
          BY <1>1, <3>1, <4>1, <4>2
        <5>2. ledger'[t][k + 1] = f /\ ledger'[t][k] = ledger[t][k]
          BY <1>1, <1>5, <3>3, <4>1, <4>2, <5>1
        <5>3. ValidTransition(binding[t].destination, ledger[t][k], f)
          BY <1>1, <5>1 DEF PendingOK
        <5>4. QED
          BY <4>2, <5>2, <5>3
      <4>3. CASE i # k
        <5>1. i + 1 \in 1 .. k
          BY <1>1, <4>1, <4>3
        <5>2. /\ ledger'[t][i] = ledger[t][i]
              /\ ledger'[t][i + 1] = ledger[t][i + 1]
              /\ ledger[t][i + 1] # Torn
          BY <1>5, <4>1, <5>1, TornIsNoFrame
        <5>3. i \in 1 .. Len(ledger[t]) - 1
          BY <1>1, <1>5, <5>1, FactCountBounds
        <5>4. QED
          BY <1>1, <5>2, <5>3 DEF HistoryOK
      <4>4. QED
        BY <4>2, <4>3
    <3>6. \A i \in 1 .. Len(ledger'[t]) - 1 : ledger'[t][i] \in Frames
      BY <1>1, <1>5, <3>1
    <3>7. t \in minted' /\ binding'[t] \in Bindings /\ binding'[t] = binding[t]
      BY <1>1, <3>1 DEF Leaves, HistoryOK
    <3>8. Len(ledger'[t]) <= MaxOrdinal + 1
      BY <1>1, <3>1, LedgerAssumptions
    <3>9. ledger'[t] # << >> => ledger'[t][1] \in {Intent, Torn}
      BY <1>1, <3>2, <3>4
    <3>10. HistoryOK(t)'
      <4>1. \A i \in 1 .. Len(ledger'[t]) - 1 :
              \/ ledger'[t][i + 1] = Torn
              \/ ValidTransition(binding'[t].destination, ledger'[t][i], ledger'[t][i + 1])
        BY <3>5, <3>7
      <4>2. QED
        BY <3>6, <3>7, <3>8, <3>9, <4>1 DEF HistoryOK
    <3>11. QED
      BY <2>2, <3>10
  <2>3. QED
    BY <2>1, <2>2
<1>7. OneOutstandingPerSource'
  <2> SUFFICES ASSUME NEW u \in Tokens, NEW v \in Tokens, FactOpen(u)', FactOpen(v)',
                      binding[u].source = binding[v].source
               PROVE  u = v
    BY DEF OneOutstandingPerSource, Leaves
  <2>1. \A w \in Tokens : w # t => (FactOpen(w)' <=> FactOpen(w))
    BY LeavingFacts
  <2>2. CASE FactOpen(t)' <=> FactOpen(t)
    BY <2>1, <2>2 DEF LedgerInv, OneOutstandingPerSource
  <2>3. CASE k = 0
    BY <1>1, <2>1, <2>3 DEF PendingOK, LedgerInv, OneOutstandingPerSource
  <2>4. CASE k > 0
    <3>1. FactOpen(t)
      BY <1>1, <1>5, <2>4, ClosedIsFinal DEF PendingOK, FactOpen, LastFact
    <3>2. QED
      BY <2>1, <3>1 DEF LedgerInv, OneOutstandingPerSource
  <2>5. QED
    BY <1>1, <2>3, <2>4
<1>8. QED
  BY <1>3, <1>4, <1>6, <1>7 DEF LedgerInv

-----------------------------------------------------------------------------
(* Every action is one of the kinds above. *)

LEMMA ReturnType ==
  ASSUME TypeOK, NEW c \in Callers, NEW r \in {"none", "ok", "interrupted", "failed"},
         Return(c, r)
  PROVE  result' \in [Callers -> {"none", "ok", "interrupted", "failed"}]
BY DEF TypeOK, Return

LEMMA LearnType ==
  ASSUME TypeOK, NEW c \in Callers, NEW ts \in SUBSET Tokens, Learn(c, ts)
  PROVE  known' \in [Callers -> SUBSET Tokens]
BY DEF TypeOK, Learn

(* FailBeforeCreate, InterruptCreated and Finish leave the records alone. *)
LEMMA LeaveIsLeaving ==
  ASSUME LedgerInv, NEW c \in Callers, pc[c] # "idle", Leave(c),
         UNCHANGED <<ledger, binding, minted>>
  PROVE  Leaves(c)
BY DEF Leave, Leaves, AfterCrash, LedgerInv, TypeOK

LEMMA PublicationKeepsInvariant ==
  ASSUME LedgerInv, NEW c \in Callers, Publication(c)
  PROVE  LedgerInv'
<1>1. TypeOK
  BY DEF LedgerInv
<1>2. pc[c] # "idle"
  BY DEF Publication, CreateRecord, FailBeforeCreate, WriteRecord, InterruptCreated, Finish
<1>3. {pending[c].token} \in SUBSET Tokens
  BY <1>2, PublisherContext
<1>4. CASE CreateRecord(c)
  BY <1>4, CreateRecordKeepsInvariant
<1>5. CASE WriteRecord(c)
  BY <1>5, WriteRecordKeepsInvariant
<1>6. CASE FailBeforeCreate(c) \/ InterruptCreated(c) \/ Finish(c)
  <2>1. Leave(c) /\ UNCHANGED <<ledger, binding, minted>>
    BY <1>6 DEF FailBeforeCreate, InterruptCreated, Finish, ReturnInterrupted
  <2>2. known' \in [Callers -> SUBSET Tokens]
    BY <1>1, <1>3, <1>6, LearnType
       DEF FailBeforeCreate, InterruptCreated, Finish, ReturnInterrupted, TypeOK
  <2>3. result' \in [Callers -> {"none", "ok", "interrupted", "failed"}]
    BY <1>1, <1>6, ReturnType DEF FailBeforeCreate, InterruptCreated, Finish, ReturnInterrupted
  <2>4. QED
    BY <1>2, <2>1, <2>2, <2>3, LeaveIsLeaving, LeavingKeepsInvariant
<1>7. QED
  BY <1>4, <1>5, <1>6 DEF Publication

LEMMA CrashKeepsInvariant ==
  ASSUME LedgerInv, NEW c \in Callers, Crash(c)
  PROVE  LedgerInv'
<1>1. /\ known' \in [Callers -> SUBSET Tokens]
      /\ result' \in [Callers -> {"none", "ok", "interrupted", "failed"}]
  BY DEF Crash, LedgerInv, TypeOK
<1>2. CASE pc[c] = "idle"
  <2>1. ledger' = ledger
    BY <1>2 DEF Crash, AfterCrash
  <2>2. writer # c /\ pending[c] = NoPending
    BY <1>2 DEF LedgerInv, SessionInv
  <2>3. pc' = pc /\ pending' = pending
    BY <1>2, <2>2 DEF Crash, LedgerInv, TypeOK
  <2>4. writer' = writer /\ binding' = binding /\ minted' = minted
    BY <2>2 DEF Crash
  <2>5. QED
    BY <1>1, <2>1, <2>3, <2>4, ObservationKeepsInvariant
<1>3. CASE pc[c] # "idle"
  <2>1. Leaves(c)
    BY <1>3, PublisherContext DEF Crash, Leaves
  <2>2. QED
    BY <1>1, <2>1, LeavingKeepsInvariant
<1>4. QED
  BY <1>2, <1>3

(* The calls that publish nothing. *)
LEMMA RefusalOrReadKeepsInvariant ==
  ASSUME LedgerInv, NEW c \in Callers,
         Refuse(c) \/ \E ts \in SUBSET Tokens : ReadReturns(c, ts)
  PROVE  LedgerInv'
<1>1. CASE Refuse(c)
  BY <1>1, ReturnType, ObservationKeepsInvariant DEF Refuse, LedgerInv, TypeOK
<1>2. CASE \E ts \in SUBSET Tokens : ReadReturns(c, ts)
  BY <1>2, ReturnType, LearnType, ObservationKeepsInvariant DEF ReadReturns, LedgerInv
<1>3. QED
  BY <1>1, <1>2

LEMMA CallKeepsInvariant ==
  ASSUME LedgerInv, NEW c \in Callers, Call(c)
  PROVE  LedgerInv'
<1>1. CASE \E t \in Tokens, s \in Sources, d \in Destinations : Reserve(c, t, s, d)
  BY <1>1, ReserveKeepsInvariant
<1>2. CASE \E t \in Tokens, f \in Proposals : Transition(c, t, f)
  BY <1>2, TransitionKeepsInvariant
<1>3. CASE \/ \E s \in Sources : RefuseReserve(c, s)
           \/ \E t \in Tokens, f \in Proposals : RefuseTransition(c, t, f)
  BY <1>3, RefusalOrReadKeepsInvariant DEF RefuseReserve, RefuseTransition
<1>4. CASE \E s \in Sources : FindOutstanding(c, s)
  BY <1>4, RefusalOrReadKeepsInvariant DEF FindOutstanding, Outstanding, Retained
<1>5. CASE \E limit \in 1 .. MaxRecords : ListOutstanding(c, limit)
  BY <1>5, RefusalOrReadKeepsInvariant DEF ListOutstanding, AllOutstanding, Retained
<1>6. CASE \E t \in Tokens : Reload(c, t)
  <2>1. PICK t \in Tokens : Reload(c, t)
    BY <1>6
  <2>2. {t} \in SUBSET Tokens
    OBVIOUS
  <2>3. QED
    BY <2>1, <2>2, RefusalOrReadKeepsInvariant DEF Reload
<1>7. QED
  BY <1>1, <1>2, <1>3, <1>4, <1>5, <1>6 DEF Call

LEMMA NextKeepsInvariant == LedgerInv /\ [Next]_vars => LedgerInv'
<1> SUFFICES ASSUME LedgerInv, [Next]_vars PROVE LedgerInv'
  OBVIOUS
<1>1. CASE \E c \in Callers : Call(c) \/ Publication(c) \/ Crash(c)
  BY <1>1, CallKeepsInvariant, PublicationKeepsInvariant, CrashKeepsInvariant
<1>2. CASE UNCHANGED vars
  BY <1>2, ObservationKeepsInvariant DEF vars, LedgerInv, TypeOK
<1>3. QED
  BY <1>1, <1>2 DEF Next

-----------------------------------------------------------------------------
(* The course of a history.  Two things a record says hold of every later  *)
(* one: that the move was dispatched, and that the content was moved.      *)

Past(f) ==
  f.event \in { "move_dispatch_recorded", "move_verified", "move_indeterminate",
                "restore_dispatch_recorded", "restore_verified", "restore_indeterminate",
                "reconciliation_resolved" }

Moved(f) ==
  \/ f.event \in { "move_verified", "restore_dispatch_recorded", "restore_verified",
                   "restore_indeterminate" }
  \/ f.event = "reconciliation_resolved" /\ f.outcome \in {"move_verified", "restore_verified"}

(* Only a reconciliation has an outcome. *)
Plain(f) == f.event # "reconciliation_resolved" => f.outcome = "none"

Follows(f, g) ==
  /\ Past(f) => Past(g) /\ g.event # "move_dispatch_recorded"
  /\ Moved(f) => Moved(g)

CourseOK(t) ==
  /\ \A i \in 1 .. Len(ledger[t]) : Plain(ledger[t][i])
  /\ \A i, j \in 1 .. Len(ledger[t]) :
       i < j /\ ledger[t][i] \in Frames /\ ledger[t][j] \in Frames =>
         Follows(ledger[t][i], ledger[t][j])

CourseInv == \A t \in Tokens : CourseOK(t)

LEMMA ResolutionsSay ==
  ASSUME NEW d, NEW s, NEW g \in Resolutions(d, s)
  PROVE  /\ g.event = "reconciliation_resolved"
         /\ s = "restore_indeterminate" => g.outcome \in {"move_verified", "restore_verified"}
         /\ s \notin {"move_dispatch_recorded", "move_verified", "restore_dispatch_recorded"}
BY DEF Resolutions, NoEffectResolutions, Resolution, MetadataDispositions

LEMMA EdgesSay ==
  ASSUME NEW d, NEW s, NEW e, <<s, e>> \in OrdinaryEdges(d)
  PROVE  \/ s \in {"intent_reserved", "metadata_dispatch_recorded", "metadata_verified"}
         \/ s = "move_dispatch_recorded" /\ e \in {"move_verified", "move_indeterminate"}
         \/ s = "move_verified" /\ e = "restore_dispatch_recorded"
         \/ s = "restore_dispatch_recorded" /\ e \in {"restore_verified", "restore_indeterminate"}
BY DEF OrdinaryEdges

LEMMA TransitionFollows ==
  ASSUME NEW d, NEW f \in Frames, NEW g \in Frames, ValidTransition(d, f, g)
  PROVE  Follows(f, g) /\ Plain(g)
<1>1. ~Closed(f)
  BY DEF ValidTransition
<1>2. PICK s : s = Stage(f)
  OBVIOUS
<1>3. \/ f.event = "reconciliation_resolved" /\ f.outcome = "move_verified" /\ s = "move_verified"
      \/ f.event # "reconciliation_resolved" /\ s = f.event
  BY <1>1, <1>2 DEF Stage, Closed
<1>4. Past(f) => s \in { "move_dispatch_recorded", "move_verified", "move_indeterminate",
                         "restore_dispatch_recorded", "restore_indeterminate" }
  BY <1>1, <1>3 DEF Past, Closed
<1>5. Moved(f) => s \in {"move_verified", "restore_dispatch_recorded", "restore_indeterminate"}
  BY <1>1, <1>3 DEF Moved, Closed
<1>6. CASE IsOrdinary(g) /\ <<Stage(f), g.event>> \in OrdinaryEdges(d)
  <2>1. \/ s \in {"intent_reserved", "metadata_dispatch_recorded", "metadata_verified"}
        \/ s = "move_dispatch_recorded" /\ g.event \in {"move_verified", "move_indeterminate"}
        \/ s = "move_verified" /\ g.event = "restore_dispatch_recorded"
        \/ s = "restore_dispatch_recorded" /\ g.event \in {"restore_verified", "restore_indeterminate"}
    BY <1>2, <1>6, EdgesSay
  <2>2. Plain(g)
    BY <1>6 DEF IsOrdinary, Plain
  <2>3. Past(f) => Past(g) /\ g.event # "move_dispatch_recorded"
    BY <1>4, <2>1 DEF Past
  <2>4. Moved(f) => Moved(g)
    BY <1>5, <2>1 DEF Moved
  <2>5. QED
    BY <2>2, <2>3, <2>4 DEF Follows
<1>7. CASE g \in Resolutions(d, s)
  <2>1. /\ g.event = "reconciliation_resolved"
        /\ s = "restore_indeterminate" => g.outcome \in {"move_verified", "restore_verified"}
        /\ s \notin {"move_dispatch_recorded", "move_verified", "restore_dispatch_recorded"}
    BY <1>7, ResolutionsSay
  <2>2. QED
    BY <1>5, <2>1 DEF Follows, Past, Moved, Plain
<1>8. QED
  BY <1>2, <1>6, <1>7 DEF ValidTransition

(* A step that keeps the facts of every history and at most adds the record *)
(* of a caller to its own, or a torn one.                                   *)
LEMMA OneMoreKeepsCourse ==
  ASSUME LedgerInv, CourseInv, NEW c \in Callers, pc[c] # "idle",
         NEW t, NEW k, t = pending[c].token, k = pending[c].ordinal,
         \A u \in Tokens : u # t => ledger'[u] = ledger[u],
         Len(ledger'[t]) \in {k, k + 1},
         \A i \in 1 .. k : ledger'[t][i] = ledger[t][i],
         Len(ledger'[t]) = k + 1 => ledger'[t][k + 1] \in {Torn, pending[c].frame}
  PROVE  CourseInv'
<1> SUFFICES ASSUME NEW u \in Tokens
             PROVE  CourseOK(u)'
  BY DEF CourseInv
<1>1. CASE u # t
  BY <1>1 DEF CourseInv, CourseOK
<1>2. CASE u = t
  <2>1. /\ k \in Nat /\ pending[c].frame \in Frames /\ t \in Tokens /\ PendingOK(c)
        /\ \A i \in 1 .. k : ledger[t][i] \in Frames
        /\ k <= Len(ledger[t]) /\ Len(ledger[t]) \in Nat
    BY PublisherContext, PublisherFacts, FactCountBounds
  <2>p. ASSUME NEW i \in 1 .. Len(ledger'[t])
        PROVE  Plain(ledger'[t][i])
    <3>1. CASE i \in 1 .. k
      <4>1. i \in 1 .. Len(ledger[t]) /\ ledger'[t][i] = ledger[t][i]
        BY <2>1, <3>1
      <4>2. QED
        BY <2>1, <4>1 DEF CourseInv, CourseOK
    <3>2. CASE i \notin 1 .. k
      <4>1. ledger'[t][i] \in {Torn, pending[c].frame}
        BY <2>1, <3>2
      <4>2. Plain(Torn) /\ Plain(Intent)
        BY DEF Plain, Torn, Intent, Fact
      <4>3. k = 0 => pending[c].frame = Intent
        BY <2>1 DEF PendingOK
      <4>4. k > 0 => Plain(pending[c].frame)
        <5>1. k > 0 => /\ ValidTransition(binding[t].destination, ledger[t][k], pending[c].frame)
                       /\ ledger[t][k] \in Frames
          BY <2>1 DEF PendingOK
        <5>2. QED
          BY <2>1, <5>1, TransitionFollows
      <4>5. QED
        BY <2>1, <4>1, <4>2, <4>3, <4>4
    <3>3. QED
      BY <3>1, <3>2
  <2> SUFFICES ASSUME NEW i \in 1 .. Len(ledger'[t]), NEW j \in 1 .. Len(ledger'[t]), i < j,
                      ledger'[t][i] \in Frames, ledger'[t][j] \in Frames
               PROVE  Follows(ledger'[t][i], ledger'[t][j])
    BY <1>2, <2>p DEF CourseOK
  <2>2. i \in 1 .. k /\ ledger'[t][i] = ledger[t][i] /\ ledger[t][i] \in Frames
    BY <2>1
  <2>3. CASE j \in 1 .. k
    <3>1. /\ ledger'[t][j] = ledger[t][j]
          /\ i \in 1 .. Len(ledger[t]) /\ j \in 1 .. Len(ledger[t])
      BY <2>1, <2>2, <2>3
    <3>2. QED
      BY <2>1, <2>2, <2>3, <3>1 DEF CourseInv, CourseOK
  <2>4. CASE j \notin 1 .. k
    <3>1. j = k + 1 /\ k > 0 /\ ledger'[t][j] = pending[c].frame
      BY <2>1, <2>2, <2>4, TornIsNoFrame
    <3>2. Follows(ledger[t][k], pending[c].frame)
      <4>1. ValidTransition(binding[t].destination, ledger[t][k], pending[c].frame)
        BY <2>1, <3>1 DEF PendingOK
      <4>2. ledger[t][k] \in Frames
        BY <2>1, <3>1
      <4>3. QED
        BY <2>1, <4>1, <4>2, TransitionFollows
    <3>3. CASE i = k
      BY <2>2, <3>1, <3>2, <3>3
    <3>4. CASE i # k
      <4>1. i < k /\ k \in 1 .. k /\ i \in 1 .. Len(ledger[t]) /\ k \in 1 .. Len(ledger[t])
        BY <2>1, <2>2, <3>4
      <4>2. Follows(ledger[t][i], ledger[t][k])
        BY <2>1, <2>2, <4>1 DEF CourseInv, CourseOK
      <4>3. QED
        BY <2>2, <3>1, <3>2, <4>2 DEF Follows
    <3>5. QED
      BY <3>3, <3>4
  <2>5. QED
    BY <2>3, <2>4
<1>3. QED
  BY <1>1, <1>2

LEMMA CreateRecordAppends ==
  ASSUME LedgerInv, NEW c \in Callers, CreateRecord(c),
         NEW t, NEW k, t = pending[c].token, k = pending[c].ordinal
  PROVE  /\ \A u \in Tokens : u # t => ledger'[u] = ledger[u]
         /\ Len(ledger'[t]) = k + 1
         /\ \A i \in 1 .. k : ledger'[t][i] = ledger[t][i]
         /\ ledger'[t][k + 1] = Torn
<1>1. /\ pc[c] # "idle" /\ Len(ledger[t]) = k
      /\ ledger' = [ledger EXCEPT ![t] = Append(ledger[t], Torn)]
  BY DEF CreateRecord
<1>2. t \in Tokens /\ ledger[t] \in Seq(Bodies)
  BY <1>1, PublisherContext
<1>3. ledger'[t] = Append(ledger[t], Torn) /\ \A u \in Tokens : u # t => ledger'[u] = ledger[u]
  BY <1>1, <1>2 DEF LedgerInv, TypeOK
<1>4. QED
  BY <1>1, <1>2, <1>3, TypeOfAppend DEF Bodies

LEMMA WriteRecordCompletes ==
  ASSUME LedgerInv, NEW c \in Callers, WriteRecord(c),
         NEW t, NEW k, t = pending[c].token, k = pending[c].ordinal
  PROVE  /\ \A u \in Tokens : u # t => ledger'[u] = ledger[u]
         /\ Len(ledger'[t]) = k + 1
         /\ \A i \in 1 .. k : ledger'[t][i] = ledger[t][i]
         /\ ledger'[t][k + 1] = pending[c].frame
<1>1. /\ pc[c] = "created"
      /\ ledger' = [ledger EXCEPT ![t] = [ledger[t] EXCEPT ![k + 1] = pending[c].frame]]
  BY DEF WriteRecord
<1>2. /\ t \in Tokens /\ ledger[t] \in Seq(Bodies) /\ k \in Nat /\ Len(ledger[t]) = k + 1
      /\ pending[c].frame \in Bodies
  BY <1>1, PublisherContext DEF PendingOK, Bodies
<1>3. /\ ledger'[t] = [ledger[t] EXCEPT ![k + 1] = pending[c].frame]
      /\ \A u \in Tokens : u # t => ledger'[u] = ledger[u]
  BY <1>1, <1>2 DEF LedgerInv, TypeOK
<1>4. k + 1 \in 1 .. Len(ledger[t]) /\ \A i \in 1 .. k : i \in 1 .. Len(ledger[t]) /\ i # k + 1
  BY <1>2
<1>5. QED
  BY <1>2, <1>3, <1>4, TypeOfReplace

(* A step that changes the records is one of a caller in its publication. *)
LEMMA OnlyPublicationsWrite ==
  ASSUME LedgerInv, Next
  PROVE  \/ UNCHANGED ledger
         \/ \E c \in Callers : /\ pc[c] # "idle"
                               /\ CreateRecord(c) \/ WriteRecord(c) \/ Leaves(c)
<1>1. PICK c \in Callers : Call(c) \/ Publication(c) \/ Crash(c)
  BY DEF Next
<1>2. CASE Call(c)
  BY <1>2 DEF Call, Reserve, RefuseReserve, Transition, RefuseTransition, FindOutstanding,
     ListOutstanding, Reload, Refuse, ReadReturns
<1>3. CASE Publication(c)
  BY <1>3 DEF Publication, CreateRecord, FailBeforeCreate, WriteRecord, InterruptCreated, Finish
<1>4. CASE Crash(c)
  <2>1. CASE pc[c] = "idle"
    BY <1>4, <2>1 DEF Crash, AfterCrash
  <2>2. CASE pc[c] # "idle"
    <3>1. Leaves(c)
      BY <1>4, <2>2, PublisherContext DEF Crash, Leaves
    <3>2. QED
      BY <2>2, <3>1
  <2>3. QED
    BY <2>1, <2>2
<1>5. QED
  BY <1>1, <1>2, <1>3, <1>4

LEMMA NextKeepsCourse == LedgerInv /\ CourseInv /\ [Next]_vars => CourseInv'
<1> SUFFICES ASSUME LedgerInv, CourseInv, [Next]_vars
             PROVE  CourseInv'
  OBVIOUS
<1>1. CASE UNCHANGED ledger
  BY <1>1 DEF CourseInv, CourseOK
<1>2. ASSUME NEW c \in Callers, pc[c] # "idle", CreateRecord(c) \/ WriteRecord(c) \/ Leaves(c)
      PROVE  CourseInv'
  <2> PICK t, k : t = pending[c].token /\ k = pending[c].ordinal
    OBVIOUS
  <2>1. CASE CreateRecord(c)
    BY <1>2, <2>1, CreateRecordAppends, OneMoreKeepsCourse
  <2>2. CASE WriteRecord(c)
    BY <1>2, <2>2, WriteRecordCompletes, OneMoreKeepsCourse
  <2>3. CASE Leaves(c)
    BY <1>2, <2>3, LeavingRecords, OneMoreKeepsCourse
  <2>4. QED
    BY <1>2, <2>1, <2>2, <2>3
<1>3. QED
  BY <1>1, <1>2, OnlyPublicationsWrite DEF vars

LEMMA InitCourse == Init => CourseInv
<1> SUFFICES ASSUME Init, NEW t \in Tokens
             PROVE  CourseOK(t)
  BY DEF CourseInv
<1>1. PICK h : h = ledger[t] /\ h \in {<<>>, <<Intent>>, <<Intent, Resolution("not_applied", "absent")>>}
  BY DEF Init, LegacyHistories
<1>2. \A i \in 1 .. Len(h) : Plain(h[i]) /\ (i < Len(h) => h[i] = Intent)
  <2>1. Plain(Intent) /\ Plain(Resolution("not_applied", "absent"))
    BY DEF Plain, Intent, Fact, Resolution
  <2>2. CASE h = <<>>
    BY <2>2
  <2>3. CASE h = <<Intent>>
    BY <2>1, <2>3
  <2>4. CASE h = <<Intent, Resolution("not_applied", "absent")>>
    BY <2>1, <2>4
  <2>5. QED
    BY <1>1, <2>2, <2>3, <2>4
<1>3. \A g : Follows(Intent, g)
  BY DEF Follows, Past, Moved, Intent, Fact
<1>4. Len(h) \in Nat
  BY <1>1
<1>5. QED
  BY <1>1, <1>2, <1>3, <1>4 DEF CourseOK

-----------------------------------------------------------------------------
(* The capacity of the ledger: who publishes found room for one record.    *)

CapacityInv ==
  /\ Cardinality(Records) <= MaxRecords
  /\ \A c \in Callers : pc[c] = "publishing" => HasCapacity

LEMMA FewRecordNames == IsFiniteSet(Tokens \X (1 .. MaxOrdinal + 1))
<1>1. IsFiniteSet(1 .. MaxOrdinal + 1)
  BY LedgerAssumptions, FS_Interval
<1>2. QED
  BY <1>1, LedgerAssumptions, FS_Product

LEMMA RecordsAreFinite == IsFiniteSet(Records) /\ Cardinality(Records) \in Nat
<1>1. Records \subseteq Tokens \X (1 .. MaxOrdinal + 1)
  BY DEF Records
<1>2. QED
  BY <1>1, FewRecordNames, FS_Subset, FS_CardinalityType

LEMMA NewRecordsAreFinite == IsFiniteSet(Records') /\ Cardinality(Records') \in Nat
<1>1. Records' \subseteq Tokens \X (1 .. MaxOrdinal + 1)
  BY DEF Records
<1>2. QED
  BY <1>1, FewRecordNames, FS_Subset, FS_CardinalityType

(* Histories that grow nowhere need no more room. *)
LEMMA NoLongerNoMore ==
  ASSUME \A u \in Tokens : /\ Len(ledger[u]) \in Nat /\ Len(ledger'[u]) \in Nat
                           /\ Len(ledger'[u]) <= Len(ledger[u])
  PROVE  Cardinality(Records') <= Cardinality(Records)
<1>1. Records' \subseteq Records
  BY DEF Records
<1>2. QED
  BY <1>1, RecordsAreFinite, FS_Subset

LEMMA OneRecordMore ==
  ASSUME NEW t \in Tokens, Len(ledger[t]) \in Nat, Len(ledger'[t]) = Len(ledger[t]) + 1,
         \A u \in Tokens : u # t => ledger'[u] = ledger[u]
  PROVE  Cardinality(Records') <= Cardinality(Records) + 1
<1> PICK r : r = <<t, Len(ledger'[t])>>
  OBVIOUS
<1>1. Records' \subseteq Records \cup {r}
  <2> SUFFICES ASSUME NEW x \in Tokens \X (1 .. MaxOrdinal + 1),
                      x[2] <= Len(ledger'[x[1]]), x \notin Records
               PROVE  x = r
    BY DEF Records
  <2>1. ~(x[2] <= Len(ledger[x[1]])) /\ x[1] \in Tokens /\ x[2] \in Nat /\ x = <<x[1], x[2]>>
    BY LedgerAssumptions DEF Records
  <2>2. x[1] = t
    BY <2>1
  <2>3. QED
    BY <2>1, <2>2
<1> PICK S : S = Records
  OBVIOUS
<1>2. IsFiniteSet(S) /\ Cardinality(S) \in Nat
  BY RecordsAreFinite
<1>3. IsFiniteSet(S \cup {r}) /\ Cardinality(S \cup {r}) \in Nat
  BY <1>2, FS_AddElement, FS_CardinalityType
<1>4. Cardinality(S \cup {r}) <= Cardinality(S) + 1
  <2>1. Cardinality(S \cup {r}) = IF r \in S THEN Cardinality(S) ELSE Cardinality(S) + 1
    BY <1>2, FS_AddElement
  <2>2. QED
    BY <1>2, <2>1
<1>5. Cardinality(Records') <= Cardinality(S \cup {r})
  BY <1>1, <1>3, FS_Subset
<1>6. QED
  BY <1>2, <1>3, <1>4, <1>5, NewRecordsAreFinite

LEMMA CallKeepsCapacity ==
  ASSUME LedgerInv, CapacityInv, NEW c \in Callers, Call(c)
  PROVE  CapacityInv'
<1>1. UNCHANGED ledger /\ Records' = Records
  BY DEF Call, Reserve, RefuseReserve, Transition, RefuseTransition, FindOutstanding,
     ListOutstanding, Reload, Refuse, ReadReturns, Records
<1>2. \A x \in Callers : pc'[x] = "publishing" => HasCapacity
  <2>1. CASE HasCapacity
    BY <2>1
  <2>2. CASE ~HasCapacity
    BY <2>2 DEF CapacityInv, Call, Reserve, RefuseReserve, Transition, RefuseTransition,
       FindOutstanding, ListOutstanding, Reload, Refuse, ReadReturns, MayReserve, MayTransition
  <2>3. QED
    BY <2>1, <2>2
<1>3. QED
  BY <1>1, <1>2 DEF CapacityInv, HasCapacity

LEMMA NextKeepsCapacity == LedgerInv /\ CapacityInv /\ [Next]_vars => CapacityInv'
<1> SUFFICES ASSUME LedgerInv, CapacityInv, [Next]_vars
             PROVE  CapacityInv'
  OBVIOUS
<1>1. \A u \in Tokens : ledger[u] \in Seq(Bodies) /\ Len(ledger[u]) \in Nat
  BY FactCountBounds
<1>2. \A u \in Tokens : ledger'[u] \in Seq(Bodies) /\ Len(ledger'[u]) \in Nat
  BY NextKeepsInvariant DEF LedgerInv, TypeOK
<1>3. MaxRecords \in Nat
  BY LedgerAssumptions
<1>4. Cardinality(Records') \in Nat
  BY NewRecordsAreFinite
<1>5. CASE UNCHANGED vars
  BY <1>5 DEF CapacityInv, HasCapacity, Records, vars
<1>6. ASSUME NEW c \in Callers, Call(c) PROVE CapacityInv'
  BY <1>6, CallKeepsCapacity
<1>7. ASSUME NEW c \in Callers, pc[c] # "idle", \A x \in Callers : pc'[x] # "publishing",
             CreateRecord(c) \/ WriteRecord(c) \/ Leaves(c)
      PROVE  CapacityInv'
  <2> PICK t, k : t = pending[c].token /\ k = pending[c].ordinal
    OBVIOUS
  <2>1. t \in Tokens /\ k \in Nat /\ PendingOK(c)
    BY <1>7, PublisherContext
  <2>2. CASE CreateRecord(c)
    <3>1. pc[c] = "publishing" /\ Len(ledger[t]) = k
      BY <2>2 DEF CreateRecord
    <3>2. Cardinality(Records') <= Cardinality(Records) + 1
      BY <2>1, <2>2, <3>1, CreateRecordAppends, OneRecordMore
    <3>3. Cardinality(Records) < MaxRecords
      BY <3>1 DEF CapacityInv, HasCapacity
    <3>4. QED
      BY <1>3, <1>4, <1>7, <3>2, <3>3, RecordsAreFinite DEF CapacityInv
  <2>3. CASE WriteRecord(c) \/ Leaves(c)
    <3>1. \A u \in Tokens : Len(ledger'[u]) <= Len(ledger[u])
      <4>1. CASE WriteRecord(c)
        <5>1. pc[c] = "created"
          BY <4>1 DEF WriteRecord
        <5>2. Len(ledger[t]) = k + 1
          BY <2>1, <5>1 DEF PendingOK
        <5>3. QED
          BY <1>1, <2>1, <4>1, <5>2, WriteRecordCompletes
      <4>2. CASE Leaves(c)
        <5>1. CASE pc[c] = "publishing"
          BY <1>1, <4>2, <5>1 DEF Leaves, AfterCrash
        <5>2. CASE pc[c] # "publishing"
          <6>1. Len(ledger[t]) = k + 1
            BY <1>7, <2>1, <5>2 DEF PendingOK, LedgerInv, TypeOK
          <6>2. Len(ledger'[t]) \in {k, k + 1} /\ \A u \in Tokens : u # t => ledger'[u] = ledger[u]
            BY <4>2, LeavingRecords
          <6>3. QED
            BY <1>1, <2>1, <6>1, <6>2
        <5>3. QED
          BY <5>1, <5>2
      <4>3. QED
        BY <2>3, <4>1, <4>2
    <3>2. Cardinality(Records') <= Cardinality(Records)
      BY <1>1, <1>2, <3>1, NoLongerNoMore
    <3>3. QED
      BY <1>3, <1>4, <1>7, <3>2, RecordsAreFinite DEF CapacityInv
  <2>4. QED
    BY <1>7, <2>2, <2>3
<1>8. ASSUME NEW c \in Callers, Publication(c) PROVE CapacityInv'
  <2>1. pc[c] # "idle" /\ \A x \in Callers : x # c => pc[x] = "idle"
    <3>1. pc[c] # "idle"
      BY <1>8 DEF Publication, CreateRecord, FailBeforeCreate, WriteRecord, InterruptCreated, Finish
    <3>2. QED
      BY <3>1, PublisherContext
  <2>2. \A x \in Callers : pc'[x] # "publishing"
    BY <1>8, <2>1 DEF Publication, CreateRecord, FailBeforeCreate, WriteRecord, InterruptCreated,
       Finish, ReturnInterrupted, Leave, LedgerInv, TypeOK
  <2>3. CreateRecord(c) \/ WriteRecord(c) \/ Leaves(c)
    <3>1. CASE FailBeforeCreate(c) \/ InterruptCreated(c) \/ Finish(c)
      BY <2>1, <3>1, LeaveIsLeaving DEF FailBeforeCreate, InterruptCreated, Finish, ReturnInterrupted
    <3>2. QED
      BY <1>8, <3>1 DEF Publication
  <2>4. QED
    BY <1>7, <2>1, <2>2, <2>3
<1>9. ASSUME NEW c \in Callers, Crash(c) PROVE CapacityInv'
  <2>1. CASE pc[c] = "idle"
    BY <1>9, <2>1 DEF Crash, AfterCrash, CapacityInv, HasCapacity, Records, LedgerInv, TypeOK
  <2>2. CASE pc[c] # "idle"
    <3>1. Leaves(c)
      BY <1>9, <2>2, PublisherContext DEF Crash, Leaves
    <3>2. \A x \in Callers : pc'[x] # "publishing"
      BY <1>9, <2>2, PublisherContext DEF Crash, LedgerInv, TypeOK
    <3>3. QED
      BY <1>7, <2>2, <3>1, <3>2
  <2>3. QED
    BY <2>1, <2>2
<1>10. QED
  BY <1>5, <1>6, <1>8, <1>9 DEF Next

LEMMA InitCapacity == Init => CapacityInv
BY DEF Init, Readable, CapacityInv

-----------------------------------------------------------------------------
(* The theorems. *)

(* Every reachable state of the ledger satisfies the inductive invariant. *)
THEOREM InvariantHolds == Spec => []LedgerInv
BY InitInvariant, NextKeepsInvariant, PTL DEF Spec

(* Type correctness: records, sessions and callers keep their types. *)
THEOREM TypeCorrect == Spec => []TypeOK
<1>1. LedgerInv => TypeOK
  BY DEF LedgerInv
<1>2. QED
  BY <1>1, InvariantHolds, PTL

(* However many callers reserve, fail and crash, no source ever has two    *)
(* open recoveries in the ledger (Reserve, recovery_ledger.go).            *)
THEOREM ReservationsAreExclusive == Spec => []OneOutstandingPerSource
<1>1. LedgerInv => OneOutstandingPerSource
  BY DEF LedgerInv
<1>2. QED
  BY <1>1, InvariantHolds, PTL

LEMMA CourseHolds == Spec => [](LedgerInv /\ CourseInv)
<1>1. Init => LedgerInv /\ CourseInv
  BY InitInvariant, InitCourse
<1>2. LedgerInv /\ CourseInv /\ [Next]_vars => (LedgerInv /\ CourseInv)'
  BY NextKeepsInvariant, NextKeepsCourse
<1>3. QED
  BY <1>1, <1>2, PTL DEF Spec

(* No history has a second move_dispatch_recorded, whoever holds stale     *)
(* copies of its recovery (Transition, recovery_ledger.go).                *)
THEOREM DispatchedOnce == Spec => []MoveDispatchedOnce
<1>1. LedgerInv /\ CourseInv => MoveDispatchedOnce
  <2> SUFFICES ASSUME LedgerInv, CourseInv, NEW t \in Tokens,
                      NEW i \in MovesDispatched(t), NEW j \in MovesDispatched(t), i < j
               PROVE  FALSE
    BY FactCountBounds DEF MoveDispatchedOnce, MovesDispatched
  <2>1. ledger[t] \in Seq(Bodies)
    BY FactCountBounds
  <2>2. /\ i \in 1 .. Len(ledger[t]) /\ j \in 1 .. Len(ledger[t])
        /\ ledger[t][i].event = "move_dispatch_recorded"
        /\ ledger[t][j].event = "move_dispatch_recorded"
    BY DEF MovesDispatched
  <2>3. ledger[t][i] \in Bodies /\ ledger[t][j] \in Bodies
    BY <2>1, <2>2, ElementOfSeq
  <2>4. ledger[t][i] \in Frames /\ ledger[t][j] \in Frames
    BY <2>2, <2>3 DEF Bodies, Torn
  <2>5. QED
    BY <2>2, <2>4 DEF CourseInv, CourseOK, Follows, Past
<1>2. QED
  BY <1>1, CourseHolds, PTL

(* Content that was recorded as moved is given up only as restored, by any *)
(* path round the restore loop (recovery_ledger.go, the transition graph). *)
THEOREM MovesAreRemembered == Spec => []MovedContentIsNotForgotten
<1>1. LedgerInv /\ CourseInv => MovedContentIsNotForgotten
  <2> SUFFICES ASSUME LedgerInv, CourseInv, NEW t \in Tokens, FactClosed(t),
                      NEW i \in 1 .. FactCount(t), SaysMoved(ledger[t][i])
               PROVE  SaysRestored(LastFact(t))
    BY DEF MovedContentIsNotForgotten
  <2> PICK n : n = FactCount(t)
    OBVIOUS
  <2>1. /\ n \in 1 .. Len(ledger[t]) /\ i \in 1 .. Len(ledger[t]) /\ i <= n
        /\ ledger[t][i] \in Frames /\ ledger[t][n] \in Frames
        /\ LastFact(t) = ledger[t][n] /\ Closed(ledger[t][n])
    BY FactCountBounds DEF FactClosed, LastFact
  <2>2. Moved(ledger[t][i])
    <3>1. Plain(ledger[t][i])
      BY <2>1 DEF CourseInv, CourseOK
    <3>2. QED
      BY <3>1 DEF Plain, Moved, SaysMoved
  <2>3. Moved(ledger[t][n])
    BY <2>1, <2>2 DEF CourseInv, CourseOK, Follows
  <2>4. QED
    BY <2>1, <2>3 DEF Moved, Closed, SaysRestored
<1>2. QED
  BY <1>1, CourseHolds, PTL

(* A torn record stops every writer: no session of the ledger can publish  *)
(* while one is left, and nothing repairs or removes it.                   *)
THEOREM TornRecordsFreeze == Spec => TornLedgerIsFrozen
<1>1. LedgerInv /\ [Next]_vars => [(\E t \in Tokens : TornLeft(t)) => UNCHANGED ledger]_vars
  <2> SUFFICES ASSUME LedgerInv, Next, NEW t \in Tokens, TornLeft(t)
               PROVE  UNCHANGED ledger
    OBVIOUS
  <2>1. \A c \in Callers : pc[c] = "idle"
    BY PublisherContext DEF PendingOK
  <2>2. QED
    BY <2>1, OnlyPublicationsWrite
<1>2. QED
  BY <1>1, InvariantHolds, PTL DEF Spec, TornLedgerIsFrozen
(* What the ledger writes it can replay: however the calls interleave and  *)
(* fail, between sessions only a record cut short makes readRecoveryHistories *)
(* refuse; a full ledger or a full history never does.                     *)
THEOREM OnlyTornRecordsRefuse == Spec => []OnlyTornRecordsBlock
<1>1. LedgerInv /\ CapacityInv => OnlyTornRecordsBlock
  <2> SUFFICES ASSUME LedgerInv, CapacityInv, writer = NoCaller, \A t \in Tokens : ~TornLeft(t)
               PROVE  Readable
    BY DEF OnlyTornRecordsBlock
  <2>1. \A c \in Callers : pc[c] = "idle"
    BY LedgerAssumptions DEF LedgerInv, SessionInv
  <2>2. ASSUME NEW t \in Tokens
        PROVE  /\ FactCount(t) = Len(ledger[t]) /\ ledger[t] \in Seq(Bodies)
               /\ \A i \in 1 .. Len(ledger[t]) : ledger[t][i] \in Frames
    BY <2>1, FactCountBounds DEF FactCount, TornLeft, InFlight
  <2>3. ASSUME NEW t \in Retained
        PROVE  Replays(t)
    <3>1. /\ t \in Tokens /\ ledger[t] # << >> /\ HistoryOK(t)
          /\ ledger[t] \in Seq(Bodies) /\ Len(ledger[t]) > 0
          /\ \A i \in 1 .. Len(ledger[t]) : ledger[t][i] \in Frames
      BY <2>2 DEF Retained, LedgerInv, HistoryInv
    <3>2. ledger[t][1] = Intent
      BY <3>1, TornIsNoFrame DEF HistoryOK
    <3>3. ASSUME NEW i \in 1 .. Len(ledger[t]) - 1
          PROVE  ValidTransition(binding[t].destination, ledger[t][i], ledger[t][i + 1])
      <4>1. i + 1 \in 1 .. Len(ledger[t])
        BY <3>1
      <4>2. ledger[t][i + 1] # Torn
        BY <3>1, <4>1, TornIsNoFrame
      <4>3. QED
        BY <3>1, <4>2 DEF HistoryOK
    <3>4. QED
      BY <3>1, <3>2, <3>3 DEF Replays, ValidHistory, HistoryOK
  <2>4. \A t, u \in Retained :
          OpenIn(t) /\ OpenIn(u) /\ binding[t].source = binding[u].source => t = u
    BY <2>2 DEF Retained, OpenIn, LastOf, FactOpen, LastFact, LedgerInv, OneOutstandingPerSource
  <2>5. QED
    BY <2>3, <2>4 DEF Readable, CapacityInv
<1>2. Spec => [](LedgerInv /\ CapacityInv)
  <2>1. Init => LedgerInv /\ CapacityInv
    BY InitInvariant, InitCapacity
  <2>2. LedgerInv /\ CapacityInv /\ [Next]_vars => (LedgerInv /\ CapacityInv)'
    BY NextKeepsInvariant, NextKeepsCapacity
  <2>3. QED
    BY <2>1, <2>2, PTL DEF Spec
<1>3. QED
  BY <1>1, <1>2, PTL


-----------------------------------------------------------------------------
(* The ledger implements the two specifications of what it promises:      *)
(* FactLedger, which its callers use, and SourceReservation.  Both follow *)
(* from one lemma about its steps: a step of the ledger keeps every fact, *)
(* or adds one to one token.                                              *)

(* The facts of u, and what binds them, are as before. *)
Kept(u) ==
  /\ FactCount(u)' = FactCount(u)
  /\ FactCount(u) > 0 => LastFact(u)' = LastFact(u) /\ binding'[u] = binding[u]

(* The fact f is added to the history of t. *)
Grows(t, f) ==
  /\ \A u \in Tokens : u # t => Kept(u)
  /\ f \in Frames
  /\ FactCount(t)' = FactCount(t) + 1
  /\ LastFact(t)' = f
  /\ binding'[t] = binding[t] /\ binding[t] \in Bindings
  /\ FactCount(t) = 0 =>
       /\ f = Intent
       /\ \A u \in Tokens : FactOpen(u) => binding[u].source # binding[t].source
  /\ FactCount(t) > 0 => ValidTransition(binding[t].destination, LastFact(t), f)

(* Facts of a token depend only on its records and on who is in flight. *)
LEMMA SameRecordsKept ==
  ASSUME NEW t \in Tokens, ledger'[t] = ledger[t],
         FactCount(t) > 0 => binding'[t] = binding[t],
         (\E c \in Callers : InFlight(c, t)') <=> (\E c \in Callers : InFlight(c, t))
  PROVE  Kept(t)
BY SameFacts DEF Kept

(* A token with facts was minted. *)
LEMMA FactsAreMinted ==
  ASSUME LedgerInv, NEW t \in Tokens, FactCount(t) > 0
  PROVE  t \in minted /\ binding[t] \in Bindings
<1>1. ledger[t] # << >>
  BY FactCountBounds
<1>2. QED
  BY <1>1 DEF LedgerInv, HistoryInv, HistoryOK

(* The end of a session: the record in flight became a fact, or it did not. *)
LEMMA LeavingStands ==
  ASSUME LedgerInv, NEW c \in Callers, Leaves(c)
  PROVE  \/ \A u \in Tokens : Kept(u)
         \/ \E t \in Tokens, f \in Frames : Grows(t, f)
<1> PICK t, k, f : t = pending[c].token /\ k = pending[c].ordinal /\ f = pending[c].frame
  OBVIOUS
<1>1. /\ PendingOK(c) /\ t \in Tokens /\ k \in Nat /\ f \in Frames
      /\ \A x \in Callers : x # c => pc[x] = "idle"
  BY PublisherContext DEF Leaves
<1>2. /\ FactCount(t) = k
      /\ \A u \in Tokens, x \in Callers : ~InFlight(x, u)'
  BY LeavingFacts
<1>3. binding' = binding
  BY DEF Leaves
<1>4. \A u \in Tokens : u # t => Kept(u)
  <2>1. \A u \in Tokens : u # t => ~ \E x \in Callers : InFlight(x, u)
    BY <1>1 DEF InFlight
  <2>2. QED
    BY <1>2, <1>3, <2>1, LeavingRecords, SameRecordsKept
<1>5. \A i \in 1 .. k : ledger[t][i] \in Frames /\ ledger'[t][i] = ledger[t][i]
  BY <1>1, <1>2, FactCountBounds, LeavingRecords
<1>6. CASE Len(ledger'[t]) = k
  <2>1. ledger'[t] # << >> => LastOf(ledger'[t]) # Torn
    BY <1>1, <1>5, <1>6, TornIsNoFrame, LeavingRecords DEF LastOf
  <2>2. FactCount(t)' = k
    BY <1>1, <1>2, <1>6, <2>1 DEF FactCount, LastOf
  <2>3. Kept(t)
    BY <1>1, <1>2, <1>3, <1>5, <2>2 DEF Kept, LastFact
  <2>4. QED
    BY <1>4, <2>3
<1>7. CASE Len(ledger'[t]) = k + 1 /\ ledger'[t][k + 1] = Torn
  <2>1. ledger'[t] # << >> /\ LastOf(ledger'[t]) = Torn
    BY <1>1, <1>7, LeavingRecords DEF LastOf
  <2>2. FactCount(t)' = k
    BY <1>1, <1>7, <2>1 DEF FactCount, LastOf
  <2>3. Kept(t)
    BY <1>1, <1>2, <1>3, <1>5, <2>2 DEF Kept, LastFact
  <2>4. QED
    BY <1>4, <2>3
<1>8. CASE Len(ledger'[t]) = k + 1 /\ ledger'[t][k + 1] = f
  <2>1. LastOf(ledger'[t]) # Torn
    BY <1>1, <1>8, TornIsNoFrame DEF LastOf
  <2>2. FactCount(t)' = k + 1
    BY <1>1, <1>2, <1>8, <2>1 DEF FactCount, LastOf
  <2>3. LastFact(t)' = f
    BY <1>1, <1>8, <2>2 DEF LastFact
  <2>4. binding[t] \in Bindings
    BY <1>1 DEF PendingOK, LedgerInv, HistoryInv, HistoryOK
  <2>5. /\ k = 0 => /\ f = Intent
                    /\ \A u \in Tokens : FactOpen(u) => binding[u].source # binding[t].source
        /\ k > 0 => ValidTransition(binding[t].destination, LastFact(t), f)
    BY <1>1, <1>2 DEF PendingOK, LastFact
  <2>6. Grows(t, f)
    BY <1>1, <1>2, <1>3, <1>4, <2>2, <2>3, <2>4, <2>5 DEF Grows
  <2>7. QED
    BY <1>1, <2>6
<1>9. QED
  BY <1>6, <1>7, <1>8, LeavingRecords

(* Deciding what to publish changes no record and puts nothing in flight. *)
LEMMA DecisionsKeep ==
  ASSUME LedgerInv, NEW c \in Callers,
         \/ \E t \in Tokens, s \in Sources, d \in Destinations : Reserve(c, t, s, d)
         \/ \E t \in Tokens, f \in Proposals : Transition(c, t, f)
  PROVE  \A u \in Tokens : Kept(u)
<1>1. Readable /\ writer = NoCaller /\ ledger' = ledger /\ pc' = [pc EXCEPT ![c] = "publishing"]
  BY DEF Reserve, Transition, MayEnter, MayReserve, MayTransition, Prepare
<1>2. \A x \in Callers : pc[x] = "idle"
  BY <1>1, ReadableFacts
<1>3. \A u \in Tokens : /\ ~ \E x \in Callers : InFlight(x, u)
                        /\ ~ \E x \in Callers : InFlight(x, u)'
  BY <1>1, <1>2 DEF InFlight, LedgerInv, TypeOK
<1>4. \A u \in minted : binding'[u] = binding[u]
  BY DEF Reserve, Transition, LedgerInv, TypeOK
<1>5. QED
  BY <1>1, <1>3, <1>4, FactsAreMinted, SameRecordsKept

(* The record in flight is no fact yet, created or written. *)
LEMMA WritingKeeps ==
  ASSUME LedgerInv, NEW c \in Callers, CreateRecord(c) \/ WriteRecord(c)
  PROVE  \A u \in Tokens : Kept(u)
<1> PICK t, k : t = pending[c].token /\ k = pending[c].ordinal
  OBVIOUS
<1>1. pc[c] # "idle" /\ pending' = pending /\ binding' = binding
  BY DEF CreateRecord, WriteRecord
<1>2. /\ PendingOK(c) /\ t \in Tokens /\ k \in Nat /\ ledger[t] \in Seq(Bodies)
      /\ \A x \in Callers : x # c => pc[x] = "idle"
  BY <1>1, PublisherContext
<1>3. FactCount(t) = k
  BY <1>1, PublisherFacts
<1>4. /\ pc'[c] \in {"created", "written"}
      /\ \A x \in Callers : x # c => pc'[x] = "idle"
  BY <1>2 DEF CreateRecord, WriteRecord, LedgerInv, TypeOK
<1>5. \A u \in Tokens : (\E x \in Callers : InFlight(x, u)') <=> u = t
  BY <1>1, <1>4 DEF InFlight
<1>6. \A u \in Tokens : (\E x \in Callers : InFlight(x, u)) => u = t
  BY <1>2 DEF InFlight
<1>7. \A u \in Tokens : u # t => ledger'[u] = ledger[u]
  BY DEF CreateRecord, WriteRecord, LedgerInv, TypeOK
<1>8. /\ Len(ledger'[t]) = k + 1
      /\ \A i \in 1 .. k : ledger'[t][i] = ledger[t][i]
  <2>1. CASE CreateRecord(c)
    <3>1. Len(ledger[t]) = k /\ ledger'[t] = Append(ledger[t], Torn)
      BY <1>2, <2>1 DEF CreateRecord, LedgerInv, TypeOK
    <3>2. QED
      BY <1>2, <3>1, TypeOfAppend DEF Bodies
  <2>2. CASE WriteRecord(c)
    <3>1. /\ Len(ledger[t]) = k + 1
          /\ ledger'[t] = [ledger[t] EXCEPT ![k + 1] = pending[c].frame]
      BY <1>2, <2>2 DEF WriteRecord, LedgerInv, TypeOK, PendingOK
    <3>2. pending[c].frame \in Bodies /\ k + 1 \in 1 .. Len(ledger[t])
      BY <1>1, <1>2, <3>1, PublisherContext DEF Bodies
    <3>3. QED
      BY <1>2, <3>1, <3>2, TypeOfReplace
  <2>3. QED
    BY <2>1, <2>2
<1>9. FactCount(t)' = k
  BY <1>2, <1>5, <1>8 DEF FactCount
<1>10. Kept(t)
  <2>1. k > 0 => ledger'[t][k] = ledger[t][k]
    <3>1. k > 0 => k \in 1 .. k
      BY <1>2
    <3>2. QED
      BY <1>8, <3>1
  <2>2. LastFact(t) = ledger[t][k] /\ LastFact(t)' = ledger'[t][k]
    BY <1>3, <1>9 DEF LastFact
  <2>3. QED
    BY <1>1, <1>3, <1>9, <2>1, <2>2 DEF Kept
<1>11. \A u \in Tokens : u # t => Kept(u)
  BY <1>1, <1>5, <1>6, <1>7, SameRecordsKept
<1>12. QED
  BY <1>10, <1>11

(* Reads, refusals and the crash of an idle caller keep the facts. *)
LEMMA ObservationKeeps ==
  ASSUME UNCHANGED <<ledger, binding, pc, pending>>
  PROVE  \A u \in Tokens : Kept(u)
BY DEF Kept, LastFact, FactCount, InFlight, LastOf

(* Every step of the ledger keeps the facts or adds one. *)
LEMMA NextStands ==
  ASSUME LedgerInv, [Next]_vars
  PROVE  \/ \A u \in Tokens : Kept(u)
         \/ \E t \in Tokens, f \in Frames : Grows(t, f)
<1>1. CASE UNCHANGED vars
  BY <1>1, ObservationKeeps DEF vars
<1>2. ASSUME NEW c \in Callers, Publication(c)
      PROVE  \/ \A u \in Tokens : Kept(u)
             \/ \E t \in Tokens, f \in Frames : Grows(t, f)
  <2>1. CASE CreateRecord(c) \/ WriteRecord(c)
    BY <2>1, WritingKeeps
  <2>2. CASE FailBeforeCreate(c) \/ InterruptCreated(c) \/ Finish(c)
    <3>1. pc[c] # "idle" /\ Leave(c) /\ UNCHANGED <<ledger, binding, minted>>
      BY <2>2 DEF FailBeforeCreate, InterruptCreated, Finish, ReturnInterrupted
    <3>2. QED
      BY <3>1, LeaveIsLeaving, LeavingStands
  <2>3. QED
    BY <1>2, <2>1, <2>2 DEF Publication
<1>3. ASSUME NEW c \in Callers, Crash(c)
      PROVE  \/ \A u \in Tokens : Kept(u)
             \/ \E t \in Tokens, f \in Frames : Grows(t, f)
  <2>1. CASE pc[c] = "idle"
    <3>1. UNCHANGED <<ledger, binding, pc, pending>>
      BY <1>3, <2>1 DEF Crash, AfterCrash, LedgerInv, SessionInv, TypeOK
    <3>2. QED
      BY <3>1, ObservationKeeps
  <2>2. CASE pc[c] # "idle"
    <3>1. Leaves(c)
      BY <1>3, <2>2, PublisherContext DEF Crash, Leaves
    <3>2. QED
      BY <3>1, LeavingStands
  <2>3. QED
    BY <2>1, <2>2
<1>4. ASSUME NEW c \in Callers, Call(c)
      PROVE  \A u \in Tokens : Kept(u)
  <2>1. CASE \/ \E t \in Tokens, s \in Sources, d \in Destinations : Reserve(c, t, s, d)
             \/ \E t \in Tokens, f \in Proposals : Transition(c, t, f)
    BY <2>1, DecisionsKeep
  <2>2. CASE UNCHANGED <<ledger, binding, pc, pending>>
    BY <2>2, ObservationKeeps
  <2>3. QED
    BY <1>4, <2>1, <2>2
       DEF Call, RefuseReserve, RefuseTransition, FindOutstanding, ListOutstanding, Reload,
           Refuse, ReadReturns
<1>5. QED
  BY <1>1, <1>2, <1>3, <1>4 DEF Next

-----------------------------------------------------------------------------
(* FactLedger. *)

(* FactLedger speaks the vocabulary of RecoveryFacts. *)
LEMMA SameVocabulary ==
  /\ Facts!NoFact = NoFact
  /\ Facts!Intent = Intent
  /\ Facts!Frames = Frames
  /\ Facts!Proposals = Proposals
  /\ Facts!Destinations = Destinations
  /\ \A f : Facts!Closed(f) <=> Closed(f)
  /\ \A d, f, g : Facts!ValidTransition(d, f, g) <=> ValidTransition(d, f, g)
<1>1. /\ Facts!NoFact = NoFact
      /\ Facts!Intent = Intent
      /\ Facts!Frames = Frames
      /\ Facts!Destinations = Destinations
      /\ \A f : Facts!Closed(f) <=> Closed(f)
  BY DEF Facts!NoFact, NoFact, Facts!Intent, Intent, Facts!Fact, Fact, Facts!Frames, Frames,
         Facts!Events, Events, Facts!Outcomes, Outcomes, Facts!MetadataDispositions,
         MetadataDispositions, Facts!Destinations, Destinations, Facts!Closed, Closed
<1>2. Facts!Proposals = Proposals
  BY DEF Facts!Proposals, Proposals, Facts!Fact, Fact, Facts!Resolution, Resolution,
         Facts!Events, Events, Facts!Outcomes, Outcomes, Facts!MetadataDispositions,
         MetadataDispositions
<1>3. /\ \A f : Facts!IsOrdinary(f) <=> IsOrdinary(f)
      /\ \A f : Facts!Stage(f) = Stage(f)
      /\ \A d : Facts!OrdinaryEdges(d) = OrdinaryEdges(d)
  BY DEF Facts!IsOrdinary, IsOrdinary, Facts!Stage, Stage, Facts!OrdinaryEdges, OrdinaryEdges
<1>4. \A d : Facts!NoEffectResolutions(d) = NoEffectResolutions(d)
  BY DEF Facts!NoEffectResolutions, NoEffectResolutions, Facts!Resolution, Resolution,
         Facts!MetadataDispositions, MetadataDispositions
<1>5. \A o, m : Facts!Resolution(o, m) = Resolution(o, m)
  BY DEF Facts!Resolution, Resolution
<1>6. \A d, e : Facts!Resolutions(d, e) = Resolutions(d, e)
  BY <1>4, <1>5, Zenon DEF Facts!Resolutions, Resolutions
<1>7. \A d, f, g : Facts!ValidTransition(d, f, g) <=> ValidTransition(d, f, g)
  BY <1>1, <1>3, <1>6 DEF Facts!ValidTransition, ValidTransition
<1>8. QED
  BY <1>1, <1>2, <1>7

(* A valid transition is to something a caller may propose. *)
LEMMA ValidIsProposed ==
  ASSUME NEW d, NEW f, NEW g \in Frames, ValidTransition(d, f, g)
  PROVE  g \in Proposals
<1>1. CASE IsOrdinary(g)
  BY <1>1 DEF IsOrdinary, Frames, Proposals, Fact
<1>2. CASE g \in Resolutions(d, Stage(f))
  <2>1. NoEffectResolutions(d) \subseteq Proposals
    BY DEF NoEffectResolutions, Resolution, Proposals, Outcomes, MetadataDispositions
  <2>2. {Resolution(o, "none") : o \in Outcomes} \subseteq Proposals
    BY DEF Proposals
  <2>3. \/ Resolutions(d, Stage(f)) = NoEffectResolutions(d)
        \/ Resolutions(d, Stage(f)) \subseteq {Resolution(o, "none") : o \in Outcomes}
    BY DEF Resolutions, Outcomes
  <2>4. QED
    BY <1>2, <2>1, <2>2, <2>3
<1>3. QED
  BY <1>1, <1>2 DEF ValidTransition

FactsNow == [t \in Tokens |-> Standing(t)]
SourcesNow == [t \in Tokens |-> StandingBinding(t).source]
DestinationsNow == [t \in Tokens |-> StandingBinding(t).destination]

LEMMA KeptStands ==
  ASSUME NEW u \in Tokens, Kept(u)
  PROVE  Standing(u)' = Standing(u) /\ StandingBinding(u)' = StandingBinding(u)
BY DEF Kept, Standing, StandingBinding

LEMMA InitFacts ==
  ASSUME Init
  PROVE  Facts!Init
<1>1. LedgerInv
  BY InitInvariant
<1>2. FactsNow \in [Tokens -> Frames \cup {NoFact}]
  BY <1>1, FactCountBounds DEF FactsNow, Standing, LastFact
<1>3. \A t \in Tokens : Facts!Open(t) =>
        FactOpen(t) /\ SourcesNow[t] = binding[t].source
  BY SameVocabulary DEF Facts!Open, FactOpen, Standing, StandingBinding, SourcesNow
<1>4. QED
  BY <1>1, <1>2, <1>3, SameVocabulary DEF Facts!Init, FactsNow, SourcesNow, LedgerInv, OneOutstandingPerSource

LEMMA GrowthIsFactStep ==
  ASSUME LedgerInv, NEW t \in Tokens, NEW f \in Frames, Grows(t, f)
  PROVE  Facts!Next
<1>1. /\ \A u \in Tokens : u # t => /\ Standing(u)' = Standing(u)
                                    /\ StandingBinding(u)' = StandingBinding(u)
      /\ FactCount(t) \in Nat
  BY KeptStands, FactCountBounds DEF Grows
<1>2. Standing(t)' = f /\ StandingBinding(t)' = binding[t]
  BY <1>1 DEF Grows, Standing, StandingBinding
<1> PICK s, d : s = binding[t].source /\ d = binding[t].destination
  OBVIOUS
<1>3. s \in Sources /\ d \in Destinations
  BY DEF Grows, Bindings
<1>4. FactsNow' = [FactsNow EXCEPT ![t] = f]
  BY <1>1, <1>2 DEF FactsNow
<1>5. CASE FactCount(t) = 0
  <2>1. /\ SourcesNow' = [SourcesNow EXCEPT ![t] = s]
        /\ DestinationsNow' = [DestinationsNow EXCEPT ![t] = d]
    BY <1>1, <1>2 DEF SourcesNow, DestinationsNow
  <2>2. FactsNow[t] = NoFact
    BY <1>5 DEF FactsNow, Standing
  <2>3. \A u \in Tokens : Facts!Open(u) => SourcesNow[u] # s
    BY <1>5, FactCountBounds, SameVocabulary
       DEF Facts!Open, Grows, FactOpen, Standing, StandingBinding, SourcesNow
  <2>4. Facts!Reserve(t, s, d)
    BY <1>4, <1>5, <2>1, <2>2, <2>3, SameVocabulary DEF Facts!Reserve, Grows, FactsNow, SourcesNow, DestinationsNow
  <2>5. QED
    BY <1>3, <2>4, SameVocabulary, Zenon DEF Facts!Next
<1>6. CASE FactCount(t) > 0
  <2>1. SourcesNow' = SourcesNow /\ DestinationsNow' = DestinationsNow
    BY <1>1, <1>2, <1>6 DEF SourcesNow, DestinationsNow, StandingBinding
  <2>2. /\ FactsNow[t] = LastFact(t) /\ DestinationsNow[t] = d
        /\ FactsNow[t] # NoFact
    BY <1>6, FactCountBounds
       DEF FactsNow, DestinationsNow, Standing, StandingBinding, LastFact, NoFact, Frames, Events
  <2>3. ValidTransition(DestinationsNow[t], FactsNow[t], f)
    BY <1>6, <2>2 DEF Grows
  <2>4. Facts!Advance(t, f)
    BY <1>4, <2>1, <2>2, <2>3, SameVocabulary DEF Facts!Advance, FactsNow, SourcesNow, DestinationsNow
  <2>5. f \in Facts!Following(DestinationsNow[t], FactsNow[t])
    BY <2>3, ValidIsProposed, SameVocabulary DEF Facts!Following
  <2>6. QED
    BY <2>4, <2>5, Zenon DEF Facts!Next, FactsNow, DestinationsNow
<1>7. QED
  BY <1>1, <1>5, <1>6

(* The ledger of records, sessions, failures and crashes implements the    *)
(* one its callers use: every step adds one valid fact, or none.           *)
THEOREM LedgerKeepsFacts == Spec => ImplementsFacts
<1>1. Init => Facts!Init
  BY InitFacts
<1>2. LedgerInv /\ [Next]_vars =>
        [Facts!Next]_<<[t \in Tokens |-> Standing(t)],
                       [t \in Tokens |-> StandingBinding(t).source],
                       [t \in Tokens |-> StandingBinding(t).destination]>>
  <2> SUFFICES ASSUME LedgerInv, [Next]_vars
               PROVE  Facts!Next \/ UNCHANGED <<FactsNow, SourcesNow, DestinationsNow>>
    BY DEF FactsNow, SourcesNow, DestinationsNow
  <2>1. CASE \A u \in Tokens : Kept(u)
    BY <2>1, KeptStands DEF FactsNow, SourcesNow, DestinationsNow
  <2>2. CASE \E t \in Tokens, f \in Frames : Grows(t, f)
    BY <2>2, GrowthIsFactStep
  <2>3. QED
    BY <2>1, <2>2, NextStands
<1>3. QED
  BY <1>1, <1>2, InvariantHolds, PTL DEF Spec, ImplementsFacts, Facts!Spec

-----------------------------------------------------------------------------
(* SourceReservation. *)

HeldNow == {<<t, binding[t].source>> : t \in {u \in Tokens : FactOpen(u)}}
SettledNow == {t \in Tokens : FactClosed(t)}

(* What is kept is held or settled as before. *)
LEMMA KeptIsHeld ==
  ASSUME NEW u \in Tokens, Kept(u)
  PROVE  /\ FactOpen(u)' <=> FactOpen(u)
         /\ FactClosed(u)' <=> FactClosed(u)
         /\ FactOpen(u) => binding'[u] = binding[u]
BY DEF Kept, FactOpen, FactClosed

(* What is open is bound to one of the sources. *)
LEMMA OpenIsBound ==
  ASSUME LedgerInv, NEW t \in Tokens, FactOpen(t)
  PROVE  binding[t].source \in Sources
<1>1. Len(ledger[t]) \in Nat /\ (ledger[t] = << >> => Len(ledger[t]) = 0)
  BY DEF LedgerInv, TypeOK
<1>2. ledger[t] # << >>
  BY <1>1 DEF FactOpen, FactCount
<1>3. QED
  BY <1>2 DEF LedgerInv, HistoryInv, HistoryOK, Bindings

LEMMA InitReservation ==
  ASSUME Init
  PROVE  Reservation!Init
<1>1. LedgerInv
  BY InitInvariant
<1>2. HeldNow \in SUBSET (Tokens \X Sources)
  <2>1. \A t \in Tokens : FactOpen(t) => binding[t].source \in Sources
    BY <1>1, OpenIsBound
  <2>2. QED
    BY <2>1 DEF HeldNow
<1>3. \A g, h \in HeldNow : g[1] = h[1] \/ g[2] = h[2] => g = h
  BY <1>1 DEF HeldNow, LedgerInv, OneOutstandingPerSource
<1>4. SettledNow \in SUBSET (Tokens \ Reservation!HeldTokens)
  BY DEF SettledNow, FactClosed, FactOpen, Reservation!HeldTokens
<1>5. QED
  BY <1>2, <1>3, <1>4 DEF Reservation!Init, HeldNow, SettledNow

(* A first fact reserves, a closing one settles, any other changes nothing. *)
LEMMA GrowthReserves ==
  ASSUME LedgerInv, NEW t \in Tokens, NEW f \in Frames, Grows(t, f)
  PROVE  \/ HeldNow' = HeldNow /\ SettledNow' = SettledNow
         \/ \E s \in Sources : Reservation!Reserve(t, s) \/ Reservation!Settle(t, s)
<1> PICK s : s = binding[t].source
  OBVIOUS
<1>1. /\ \A u \in Tokens : u # t => /\ FactOpen(u)' <=> FactOpen(u)
                                    /\ FactClosed(u)' <=> FactClosed(u)
                                    /\ FactOpen(u) => binding'[u] = binding[u]
      /\ FactCount(t) \in Nat
  BY KeptIsHeld, FactCountBounds DEF Grows
<1>2. /\ FactOpen(t)' <=> ~Closed(f)
      /\ FactClosed(t)' <=> Closed(f)
      /\ binding'[t] = binding[t] /\ s \in Sources
  BY <1>1 DEF Grows, FactOpen, FactClosed, Bindings
<1>3. CASE FactCount(t) = 0
  <2>1. ~FactOpen(t) /\ ~FactClosed(t)
    BY <1>3 DEF FactOpen, FactClosed
  <2>2. ~Closed(f)
    BY <1>3 DEF Grows, Closed, Intent, Fact
  <2>3. \A u \in Tokens : FactOpen(u) => binding[u].source # s
    BY <1>3 DEF Grows
  <2>4. HeldNow' = HeldNow \cup {<<t, s>>}
    BY <1>1, <1>2, <2>1, <2>2 DEF HeldNow
  <2>5. SettledNow' = SettledNow
    BY <1>1, <1>2, <2>1, <2>2 DEF SettledNow
  <2>6. t \notin Reservation!HeldTokens \cup SettledNow
    BY <2>1 DEF Reservation!HeldTokens, SettledNow
  <2>7. s \notin Reservation!HeldSources
    BY <2>3 DEF Reservation!HeldSources
  <2>8. Reservation!Reserve(t, s)
    BY <2>4, <2>5, <2>6, <2>7 DEF Reservation!Reserve, HeldNow, SettledNow
  <2>9. QED
    BY <1>2, <2>8, Zenon
<1>4. CASE FactCount(t) > 0
  <2>1. FactOpen(t) /\ ~FactClosed(t)
    BY <1>4, ClosedIsFinal DEF Grows, FactOpen, FactClosed
  <2>2. CASE Closed(f)
    <3>1. HeldNow' = HeldNow \ {<<t, s>>}
      BY <1>1, <1>2, <2>1, <2>2 DEF HeldNow
    <3>2. SettledNow' = SettledNow \cup {t}
      BY <1>1, <1>2, <2>2 DEF SettledNow
    <3>3. <<t, s>> \in HeldNow
      BY <1>2, <2>1 DEF HeldNow
    <3>4. Reservation!Settle(t, s)
      BY <3>1, <3>2, <3>3 DEF Reservation!Settle, HeldNow, SettledNow
    <3>5. QED
      BY <1>2, <3>4, Zenon
  <2>3. CASE ~Closed(f)
    <3>1. HeldNow' = HeldNow /\ SettledNow' = SettledNow
      BY <1>1, <1>2, <2>1, <2>3 DEF HeldNow, SettledNow
    <3>2. QED
      BY <3>1
  <2>4. QED
    BY <2>2, <2>3
<1>5. QED
  BY <1>1, <1>3, <1>4

(* The ledger, with its records, sessions, failures and crashes,           *)
(* implements exclusive reservation: every step of it reserves a free      *)
(* source for a new token, settles one, or changes no reservation.         *)
THEOREM LedgerReservesExclusively == Spec => ImplementsReservation
<1>1. Init => Reservation!Init
  BY InitReservation
<1>2. LedgerInv /\ [Next]_vars =>
        [Reservation!Next]_<<{<<t, binding[t].source>> : t \in {u \in Tokens : FactOpen(u)}},
                             {t \in Tokens : FactClosed(t)}>>
  <2> SUFFICES ASSUME LedgerInv, [Next]_vars
               PROVE  Reservation!Next \/ UNCHANGED <<HeldNow, SettledNow>>
    BY DEF HeldNow, SettledNow
  <2>1. CASE \A u \in Tokens : Kept(u)
    BY <2>1, KeptIsHeld DEF HeldNow, SettledNow
  <2>2. CASE \E t \in Tokens, f \in Frames : Grows(t, f)
    BY <2>2, GrowthReserves DEF Reservation!Next
  <2>3. QED
    BY <2>1, <2>2, NextStands
<1>3. QED
  BY <1>1, <1>2, InvariantHolds, PTL DEF Spec, ImplementsReservation, Reservation!Spec
=============================================================================
