----------------------- MODULE QuarantineRetainProofs -----------------------
(***************************************************************************)
(* RetainInv is inductive, for any stores, callers, sources and tokens and *)
(* in every environment; what the run checks as invariants follows.        *)
(***************************************************************************)
EXTENDS QuarantineRetain, TLAPS

Kinds == {NoFact, Intent, Dispatch, Verified, Indeterminate}

(* The facts of a quarantine recovery are five, and none of them closes it. *)
LEMMA FactsDiffer ==
  /\ Kinds \subseteq Frames \cup {NoFact}
  /\ NoFact \notin {Intent, Dispatch, Verified, Indeterminate}
  /\ Intent \notin {Dispatch, Verified, Indeterminate}
  /\ Dispatch \notin {Verified, Indeterminate}
  /\ Verified # Indeterminate
  /\ \A f \in Kinds : ~Closed(f)
BY DEF Kinds, Frames, Events, Outcomes, MetadataDispositions, NoFact, Intent, Dispatch, Verified,
       Indeterminate, Fact, Closed

(* The ledger's instance of the vocabulary is this one. *)
LEMMA SameFacts ==
  /\ Ledger!NoFact = NoFact
  /\ Ledger!Intent = Intent
  /\ \A f : Ledger!Closed(f) <=> Closed(f)
BY DEF Ledger!NoFact, NoFact, Ledger!Intent, Intent, Ledger!Fact, Fact, Ledger!Closed, Closed

LEMMA AdvanceMeans ==
  ASSUME NEW t \in Tokens, NEW g, Ledger!Advance(t, g)
  PROVE  fact' = [fact EXCEPT ![t] = g] /\ source' = source
BY DEF Ledger!Advance

LEMMA ReserveMeans ==
  ASSUME RetainInv, NEW t \in Tokens, NEW s, Ledger!Reserve(t, s, "quarantine")
  PROVE  /\ fact[t] = NoFact
         /\ \A u \in Tokens : fact[u] # NoFact => source[u] # s
         /\ fact' = [fact EXCEPT ![t] = Intent]
         /\ source' = [source EXCEPT ![t] = s]
<1>1. \A u \in Tokens : fact[u] \in Kinds
  BY DEF RetainInv, Kinds
<1>2. \A u \in Tokens : fact[u] # NoFact => Ledger!Open(u)
  BY <1>1, SameFacts, FactsDiffer DEF Ledger!Open
<1>3. QED
  BY <1>2, SameFacts DEF Ledger!Reserve

-----------------------------------------------------------------------------

(* What the invariant says of one token. *)
TokenAgrees(t) ==
  /\ fact[t] \in Kinds
  /\ fact[t] = NoFact <=> source[t] = NoSource
  /\ retained[t] = "none" => unsynced \cap DirectoryChanges(t) = {}
  /\ retained[t] # "none" => fact[t] \in {Dispatch, Verified, Indeterminate}
  /\ fact[t] = Verified => retained[t] = "planned" /\ unsynced \cap DirectoryChanges(t) = {}

LEMMA InvariantParts ==
  RetainInv <=>
    /\ TypeOK /\ ClosedStoresAreIdle /\ SourcesAreMovedOnce
    /\ \A t \in Tokens : TokenAgrees(t)
    /\ \A c \in Callers : Holds(c) /\ Stands(c)
<1>1. RetainInv => \A t \in Tokens : TokenAgrees(t)
  BY DEF RetainInv, RetainedIsOnRecord, VerifiedIsRetained, TokenAgrees, Kinds
<1>2. (\A t \in Tokens : TokenAgrees(t)) => RetainedIsOnRecord
  BY FactsDiffer DEF TokenAgrees, RetainedIsOnRecord
<1>3. (\A t \in Tokens : TokenAgrees(t)) => VerifiedIsRetained
  BY DEF TokenAgrees, VerifiedIsRetained
<1>4. (\A t \in Tokens : TokenAgrees(t)) =>
        \A t \in Tokens :
          /\ fact[t] \in {NoFact, Intent, Dispatch, Verified, Indeterminate}
          /\ fact[t] = NoFact <=> source[t] = NoSource
          /\ retained[t] = "none" => unsynced \cap DirectoryChanges(t) = {}
  BY DEF TokenAgrees, Kinds
<1>5. QED
  BY <1>1, <1>2, <1>3, <1>4 DEF RetainInv

LEMMA NextFromParts ==
  ASSUME TypeOK', ClosedStoresAreIdle', SourcesAreMovedOnce',
         \A t \in Tokens : TokenAgrees(t)',
         \A c \in Callers : Holds(c)' /\ Stands(c)'
  PROVE  RetainInv'
<1>1. RetainedIsOnRecord' /\ VerifiedIsRetained'
  BY FactsDiffer DEF TokenAgrees, RetainedIsOnRecord, VerifiedIsRetained
<1>2. \A t \in Tokens :
        (/\ fact[t] \in {NoFact, Intent, Dispatch, Verified, Indeterminate}
         /\ fact[t] = NoFact <=> source[t] = NoSource
         /\ retained[t] = "none" => unsynced \cap DirectoryChanges(t) = {})'
  BY DEF TokenAgrees, Kinds
<1>3. QED
  BY <1>1, <1>2 DEF RetainInv

LEMMA InitHolds == Init => RetainInv
<1> SUFFICES ASSUME Init PROVE RetainInv
  OBVIOUS
<1>1. TypeOK
  BY FactsDiffer DEF Init, TypeOK, Contents, Steps, Kinds
<1>2. ClosedStoresAreIdle /\ SourcesAreMovedOnce
  BY DEF Init, ClosedStoresAreIdle, SourcesAreMovedOnce
<1>3. ASSUME NEW t \in Tokens PROVE TokenAgrees(t)
  BY FactsDiffer DEF Init, TokenAgrees, Kinds
<1>4. ASSUME NEW c \in Callers PROVE Holds(c) /\ Stands(c)
  BY DEF Init, Holds, Stands
<1>5. QED
  BY <1>1, <1>2, <1>3, <1>4, InvariantParts

-----------------------------------------------------------------------------
(* How the variables of the calls change. *)

OthersStay(c) ==
  \A d \in Callers \ {c} :
    step'[d] = step[d] /\ using'[d] = using[d] /\ target'[d] = target[d] /\ ticket'[d] = ticket[d]

CallTypes ==
  /\ step \in [Callers -> Steps]
  /\ using \in [Callers -> Stores \cup {NoStore}]
  /\ target \in [Callers -> Sources \cup {NoSource}]
  /\ ticket \in [Callers -> Tokens \cup {NoToken}]

LEMMA GoMeans ==
  ASSUME RetainInv, NEW c \in Callers, NEW n \in Steps, Go(c, n)
  PROVE  /\ OthersStay(c) /\ CallTypes'
         /\ step'[c] = n /\ using'[c] = using[c] /\ target'[c] = target[c] /\ ticket'[c] = ticket[c]
BY DEF RetainInv, TypeOK, Go, OthersStay, CallTypes

LEMMA StopMeans ==
  ASSUME RetainInv, NEW calls \in SUBSET Callers, Stop(calls)
  PROVE  /\ CallTypes'
         /\ \A c \in calls : /\ step'[c] = "idle" /\ using'[c] = NoStore
                             /\ target'[c] = NoSource /\ ticket'[c] = NoToken
         /\ \A d \in Callers \ calls : /\ step'[d] = step[d] /\ using'[d] = using[d]
                                       /\ target'[d] = target[d] /\ ticket'[d] = ticket[d]
BY DEF RetainInv, TypeOK, Stop, Steps, CallTypes

LEMMA StoppedOne ==
  ASSUME RetainInv, NEW c \in Callers, Stop({c})
  PROVE  /\ OthersStay(c) /\ CallTypes'
         /\ step'[c] = "idle" /\ using'[c] = NoStore
         /\ Holds(c)' /\ Stands(c)'
BY StopMeans DEF OthersStay, Holds, Stands

(* A call that stays in its store or leaves it disturbs no other. *)
LEMMA StoresStayIdle ==
  ASSUME RetainInv, NEW c \in Callers, OthersStay(c), open' = open,
         using'[c] \in {using[c], NoStore}
  PROVE  ClosedStoresAreIdle'
<1> SUFFICES ASSUME NEW d \in Callers, using'[d] # NoStore
             PROVE  using'[d] \in open' /\ Inside(using[d])' = {d}
  BY DEF ClosedStoresAreIdle
<1>1. using'[d] = using[d] /\ \A e \in Callers : using'[e] = using'[d] => using[e] = using[d]
  BY DEF OthersStay
<1>2. using[d] \in open /\ Inside(using[d]) = {d}
  BY <1>1 DEF RetainInv, ClosedStoresAreIdle
<1>3. QED
  BY <1>1, <1>2 DEF Inside

(* A step changes one token, or none; syncs reach the others, too. *)
OnlyToken(t) ==
  \A u \in Tokens \ {t} :
    /\ fact'[u] = fact[u] /\ source'[u] = source[u] /\ retained'[u] = retained[u]
    /\ unsynced' \cap DirectoryChanges(u) \subseteq unsynced \cap DirectoryChanges(u)

LEMMA OthersStand ==
  ASSUME RetainInv, NEW t, OnlyToken(t), NEW d \in Callers, ticket[d] # t,
         step'[d] = step[d], using'[d] = using[d], target'[d] = target[d], ticket'[d] = ticket[d],
         \A e \in Callers \ {d} : ticket'[e] \in {ticket[e], NoToken, t}
  PROVE  Holds(d)' /\ Stands(d)'
<1>1. Holds(d) /\ Stands(d)
  BY DEF RetainInv
<1>2. Holds(d)'
  BY <1>1 DEF Holds
<1>3. CASE ticket[d] = NoToken
  BY <1>2, <1>3 DEF Stands
<1>4. CASE ticket[d] # NoToken
  <2>1. ticket[d] \in Tokens \ {t}
    BY <1>4 DEF RetainInv, TypeOK
  <2>2. /\ fact'[ticket[d]] = fact[ticket[d]] /\ source'[ticket[d]] = source[ticket[d]]
        /\ retained'[ticket[d]] = retained[ticket[d]]
        /\ \A u \in DirectoryChanges(ticket[d]) : u \notin unsynced => u \notin unsynced'
    BY <2>1 DEF OnlyToken
  <2>3. <<ticket[d], "quarantine">> \in DirectoryChanges(ticket[d])
        /\ <<ticket[d], "source">> \in DirectoryChanges(ticket[d])
    BY DEF DirectoryChanges
  <2>4. \A e \in Callers \ {d} : ticket'[e] # ticket[d]
    BY <1>1, <1>4, <2>1 DEF Stands
  <2>5. QED
    BY <1>1, <1>2, <1>4, <2>2, <2>3, <2>4 DEF Stands
<1>5. QED
  BY <1>2, <1>3, <1>4

LEMMA OthersAgree ==
  ASSUME RetainInv, NEW t, OnlyToken(t), NEW u \in Tokens, u # t
  PROVE  TokenAgrees(u)'
<1>1. TokenAgrees(u)
  BY InvariantParts
<1>2. QED
  BY <1>1 DEF TokenAgrees, OnlyToken

(***************************************************************************)
(* A step of one call: it is enough to look at that call and at its token. *)
(***************************************************************************)
LEMMA StepOfOne ==
  ASSUME RetainInv, NEW c \in Callers, NEW t \in Tokens \cup {NoToken},
         OthersStay(c), OnlyToken(t), \A d \in Callers \ {c} : ticket[d] # t \/ t = NoToken,
         ticket'[c] \in {ticket[c], NoToken, t}, ticket[c] \in {NoToken, t},
         TypeOK', ClosedStoresAreIdle', SourcesAreMovedOnce',
         t \in Tokens => TokenAgrees(t)',
         Holds(c)', Stands(c)'
  PROVE  RetainInv'
<1>1. ASSUME NEW d \in Callers PROVE Holds(d)' /\ Stands(d)'
  <2>1. CASE d = c
    BY <2>1
  <2>2. CASE d # c /\ ticket[d] # t
    <3>1. \A e \in Callers \ {d} : ticket'[e] \in {ticket[e], NoToken, t}
      BY DEF OthersStay
    <3>2. QED
      BY <2>2, <3>1, OthersStand DEF OthersStay
  <2>3. CASE d # c /\ ticket[d] = t
    <3>1. t = NoToken /\ Holds(d) /\ ticket'[d] = NoToken
      BY <2>3 DEF OthersStay, RetainInv
    <3>2. QED
      BY <2>3, <3>1 DEF OthersStay, Holds, Stands
  <2>4. QED
    BY <2>1, <2>2, <2>3
<1>2. ASSUME NEW u \in Tokens PROVE TokenAgrees(u)'
  BY OthersAgree
<1>3. QED
  BY <1>1, <1>2, NextFromParts

LEMMA TicketIsOwn ==
  ASSUME RetainInv, NEW c \in Callers
  PROVE  /\ ticket[c] \in Tokens \cup {NoToken}
         /\ \A d \in Callers \ {c} : ticket[d] # ticket[c] \/ ticket[c] = NoToken
BY DEF RetainInv, TypeOK, Stands

(* A step that goes on or ends, and changes no more than some syncs do. *)
LEMMA QuietStep ==
  ASSUME RetainInv, NEW c \in Callers,
         OthersStay(c), CallTypes', using'[c] \in {using[c], NoStore},
         ticket'[c] \in {ticket[c], NoToken},
         UNCHANGED <<ledgerVars, at, retained, open>>, unsynced' \subseteq unsynced,
         Holds(c)', Stands(c)'
  PROVE  RetainInv'
<1>1. TypeOK' /\ SourcesAreMovedOnce'
  BY DEF RetainInv, TypeOK, CallTypes, SourcesAreMovedOnce, ledgerVars
<1>2. ClosedStoresAreIdle'
  BY StoresStayIdle
<1>3. OnlyToken(ticket[c])
  BY DEF OnlyToken, ledgerVars
<1>4. ASSUME NEW u \in Tokens PROVE TokenAgrees(u)'
  BY InvariantParts DEF TokenAgrees, ledgerVars
<1>5. QED
  BY <1>1, <1>2, <1>3, <1>4, TicketIsOwn, StepOfOne

LEMMA QuietStop ==
  ASSUME RetainInv, NEW c \in Callers, Stop({c}), UNCHANGED <<ledgerVars, entryVars, open>>
  PROVE  RetainInv'
<1>1. OthersStay(c) /\ CallTypes' /\ using'[c] = NoStore /\ ticket'[c] = NoToken
  BY StopMeans, StoppedOne
<1>2. QED
  BY <1>1, StoppedOne, QuietStep DEF entryVars

LEMMA EnterKeeps ==
  ASSUME RetainInv, NEW c \in Callers, NEW store \in Stores, NEW s \in Sources, Enter(c, store, s)
  PROVE  RetainInv'
<1>1. OthersStay(c) /\ CallTypes' /\ ticket[c] = NoToken /\ ticket' = ticket
  BY DEF Enter, OthersStay, CallTypes, RetainInv, TypeOK, Steps, Holds
<1>2. step'[c] = "validate" /\ using'[c] = store /\ target'[c] = s
  BY DEF Enter, RetainInv, TypeOK
<1>3. Holds(c)' /\ Stands(c)'
  BY <1>1, <1>2, RetainAssumptions DEF Holds, Stands
<1>4. TypeOK' /\ SourcesAreMovedOnce'
  BY <1>1 DEF Enter, RetainInv, TypeOK, CallTypes, SourcesAreMovedOnce, ledgerVars, entryVars
<1>5. ClosedStoresAreIdle'
  <2> SUFFICES ASSUME NEW d \in Callers, using'[d] # NoStore
               PROVE  using'[d] \in open' /\ Inside(using[d])' = {d}
    BY DEF ClosedStoresAreIdle
  <2>1. \A e \in Callers \ {c} : using'[e] = using[e] /\ using[e] # store
    BY <1>1 DEF Enter, Inside, OthersStay
  <2>2. CASE d = c
    BY <1>2, <2>1, <2>2 DEF Enter, Inside
  <2>3. CASE d # c
    <3>1. using[d] \in open /\ Inside(using[d]) = {d} /\ using[d] # store /\ using'[d] = using[d]
      BY <2>1, <2>3 DEF RetainInv, ClosedStoresAreIdle
    <3>2. QED
      BY <1>2, <2>1, <2>3, <3>1 DEF Enter, Inside
  <2>4. QED
    BY <2>2, <2>3
<1>6. OnlyToken(NoToken) /\ NoToken \notin Tokens
  BY RetainAssumptions DEF Enter, OnlyToken, ledgerVars, entryVars
<1>7. QED
  BY <1>1, <1>3, <1>4, <1>5, <1>6, StepOfOne

LEMMA ValidateKeeps ==
  ASSUME RetainInv, NEW c \in Callers, Validate(c)
  PROVE  RetainInv'
<1>1. "reserve" \in Steps /\ Go(c, "reserve") /\ step[c] = "validate"
  BY DEF Validate, Steps
<1>2. Holds(c)' /\ Stands(c)'
  BY <1>1, GoMeans DEF RetainInv, Holds, Stands
<1>3. QED
  BY <1>1, <1>2, GoMeans, QuietStep DEF Validate, entryVars

LEMMA CheckKeeps ==
  ASSUME RetainInv, NEW c \in Callers, Check(c)
  PROVE  RetainInv'
<1>1. "rename" \in Steps /\ Go(c, "rename") /\ step[c] = "check"
  BY DEF Check, Steps, MoveSteps
<1>2. ticket[c] \in Tokens /\ Holds(c) /\ Stands(c)
  BY <1>1 DEF RetainInv, TypeOK, Holds
<1>3. Holds(c)' /\ Stands(c)'
  BY <1>1, <1>2, GoMeans DEF Holds, Stands, Check, ledgerVars, entryVars, OthersStay
<1>4. QED
  BY <1>1, <1>3, GoMeans, QuietStep DEF Check, entryVars

LEMMA VerifyKeeps ==
  ASSUME RetainInv, NEW c \in Callers, Verify(c)
  PROVE  RetainInv'
<1>1. "syncQuarantine" \in Steps /\ Go(c, "syncQuarantine") /\ step[c] = "verify"
  BY DEF Verify, Steps, MoveSteps
<1>2. ticket[c] \in Tokens /\ Holds(c) /\ Stands(c)
  BY <1>1 DEF RetainInv, TypeOK, Holds
<1>3. Holds(c)' /\ Stands(c)'
  BY <1>1, <1>2, GoMeans DEF Holds, Stands, Verify, ledgerVars, entryVars, OthersStay
<1>4. QED
  BY <1>1, <1>3, GoMeans, QuietStep DEF Verify, entryVars

LEMMA FailKeeps ==
  ASSUME RetainInv, NEW c \in Callers, Fail(c)
  PROVE  RetainInv'
<1>1. CASE Stop({c})
  BY <1>1, QuietStop DEF Fail
<1>2. CASE step[c] \in MoveSteps /\ Go(c, "uncertain")
  <2>1. "uncertain" \in Steps
    BY DEF Steps, Recording
  <2>2. ticket[c] \in Tokens /\ Holds(c) /\ Stands(c)
    BY <1>2 DEF RetainInv, TypeOK, Holds, MoveSteps
  <2>3. Holds(c)' /\ Stands(c)'
    BY <1>2, <2>1, <2>2, GoMeans DEF Holds, Stands, Fail, ledgerVars, entryVars, OthersStay, MoveSteps
  <2>4. QED
    BY <1>2, <2>1, <2>3, GoMeans, QuietStep DEF Fail, entryVars
<1>3. QED
  BY <1>1, <1>2 DEF Fail

LEMMA SyncKeeps ==
  ASSUME RetainInv, NEW c \in Callers, SyncQuarantine(c) \/ SyncSource(c)
  PROVE  RetainInv'
<1>1. PICK n \in {"syncSource", "kept", "uncertain"} : Go(c, n)
  BY DEF SyncQuarantine, SyncSource
<1>2. n \in Steps
  BY DEF Steps, MoveSteps, Recording
<1>3. ticket[c] \in Tokens /\ Holds(c) /\ Stands(c)
  BY DEF SyncQuarantine, SyncSource, RetainInv, TypeOK, Holds
<1>4. unsynced' \subseteq unsynced
  BY DEF SyncQuarantine, SyncSource
<1>5. Holds(c)'
  BY <1>1, <1>2, <1>3, GoMeans DEF Holds, SyncQuarantine, SyncSource
<1>6. Stands(c)'
  <2>1. \A d \in Callers \ {c} : ticket'[d] # ticket'[c]
    BY <1>1, <1>2, <1>3, GoMeans, RetainAssumptions DEF OthersStay, Stands
  <2>2. CASE SyncQuarantine(c)
    <3>1. step'[c] \in {"syncSource", "uncertain"}
      BY <1>2, <2>2, GoMeans DEF SyncQuarantine, Steps, MoveSteps, Recording
    <3>2. <<ticket[c], "quarantine">> \notin unsynced'
      BY <2>2 DEF SyncQuarantine
    <3>3. QED
      BY <1>1, <1>2, <1>3, <2>1, <2>2, <3>1, <3>2, GoMeans DEF Stands, SyncQuarantine, ledgerVars
  <2>3. CASE SyncSource(c)
    <3>1. step'[c] \in {"kept", "uncertain"}
      BY <1>2, <2>3, GoMeans DEF SyncSource, Steps, MoveSteps, Recording
    <3>2. <<ticket[c], "source">> \notin unsynced' /\ <<ticket[c], "quarantine">> \notin unsynced'
      BY <1>3, <2>3, RetainAssumptions DEF SyncSource, Stands
    <3>3. QED
      BY <1>1, <1>2, <1>3, <2>1, <2>3, <3>1, <3>2, GoMeans DEF Stands, SyncSource, ledgerVars
  <2>4. QED
    BY <2>2, <2>3
<1>7. UNCHANGED <<ledgerVars, at, retained, open>>
  BY DEF SyncQuarantine, SyncSource
<1>8. QED
  BY <1>1, <1>2, <1>4, <1>5, <1>6, <1>7, GoMeans, QuietStep

-----------------------------------------------------------------------------
(* The steps that change the ledger, and the rename. *)

LEMMA ReserveKeeps ==
  ASSUME RetainInv, NEW c \in Callers, NEW t \in Tokens, Reserve(c, t)
  PROVE  RetainInv'
<1>1. /\ step[c] = "reserve" /\ ticket[c] = NoToken /\ using[c] # NoStore
      /\ target[c] \in Sources /\ target[c] # NoSource
  BY DEF Reserve, RetainInv, TypeOK, Holds
<1>2. /\ fact[t] = NoFact
      /\ \A u \in Tokens : fact[u] # NoFact => source[u] # target[c]
      /\ fact' = [fact EXCEPT ![t] = Intent]
      /\ source' = [source EXCEPT ![t] = target[c]]
  BY ReserveMeans DEF Reserve
<1>3. retained[t] = "none" /\ unsynced \cap DirectoryChanges(t) = {}
  BY <1>2, FactsDiffer, InvariantParts DEF TokenAgrees
<1>4. \A d \in Callers \ {c} : ticket[d] # t
  <2>1. ASSUME NEW d \in Callers \ {c}, ticket[d] = t
        PROVE  FALSE
    <3>1. t # NoToken
      BY RetainAssumptions
    <3>2. Stands(d)
      BY DEF RetainInv
    <3>3. fact[t] \in {Intent, Dispatch}
      BY <2>1, <3>1, <3>2 DEF Stands
    <3>4. QED
      BY <1>2, <3>3, FactsDiffer
  <2>2. QED
    BY <2>1
<1>5. /\ OthersStay(c) /\ CallTypes' /\ using'[c] \in {using[c], NoStore}
      /\ ticket'[c] \in {t, NoToken} /\ Holds(c)' /\ Stands(c)'
  <2>1. CASE Stop({c})
    BY <2>1, StopMeans, StoppedOne
  <2>2. CASE /\ step' = [step EXCEPT ![c] = "dispatch"]
             /\ ticket' = [ticket EXCEPT ![c] = t]
             /\ UNCHANGED <<using, target>>
    <3>1. OthersStay(c) /\ CallTypes' /\ step'[c] = "dispatch" /\ ticket'[c] = t
      BY <2>2 DEF OthersStay, CallTypes, RetainInv, TypeOK, Steps, Recording
    <3>2. source'[t] = target[c] /\ fact'[t] = Intent /\ retained' = retained
      BY <1>2 DEF RetainInv, TypeOK, Reserve, entryVars
    <3>3. Holds(c)'
      BY <1>1, <2>2, <3>1, RetainAssumptions DEF Holds
    <3>4. Stands(c)'
      BY <1>3, <1>4, <2>2, <3>1, <3>2 DEF Stands, OthersStay
    <3>5. QED
      BY <2>2, <3>1, <3>3, <3>4
  <2>3. QED
    BY <2>1, <2>2 DEF Reserve
<1>6. TypeOK'
  BY <1>1, <1>2, <1>5, FactsDiffer DEF RetainInv, TypeOK, CallTypes, Reserve, entryVars, Kinds
<1>7. TokenAgrees(t)' /\ OnlyToken(t)
  BY <1>1, <1>2, <1>3, FactsDiffer DEF RetainInv, TypeOK, TokenAgrees, OnlyToken, Reserve, entryVars, Kinds
<1>8. SourcesAreMovedOnce'
  BY <1>2 DEF RetainInv, TypeOK, SourcesAreMovedOnce
<1>9. ClosedStoresAreIdle'
  BY <1>5, StoresStayIdle DEF Reserve
<1>10. QED
  BY <1>1, <1>4, <1>5, <1>6, <1>7, <1>8, <1>9, StepOfOne

(* A fact that is appended to a recovery by the call that works on it. *)
LEMMA AppendStep ==
  ASSUME RetainInv, NEW c \in Callers, NEW f \in {Dispatch, Verified, Indeterminate},
         Ledger!Advance(ticket[c], f), ticket[c] \in Tokens,
         f = Verified => /\ retained[ticket[c]] = "planned"
                         /\ unsynced \cap DirectoryChanges(ticket[c]) = {},
         UNCHANGED <<entryVars, open>>,
         OthersStay(c), CallTypes', using'[c] \in {using[c], NoStore},
         ticket'[c] \in {ticket[c], NoToken}, Holds(c)', Stands(c)'
  PROVE  RetainInv'
<1>0. PICK t \in Tokens : t = ticket[c]
  OBVIOUS
<1>1. fact' = [fact EXCEPT ![t] = f] /\ source' = source
  BY <1>0, AdvanceMeans
<1>2. fact[t] # NoFact
  BY <1>0, SameFacts DEF Ledger!Advance
<1>3. TypeOK'
  BY <1>1, FactsDiffer DEF RetainInv, TypeOK, CallTypes, entryVars, Kinds
<1>4. TokenAgrees(t)
  BY InvariantParts
<1>5. fact'[t] = f /\ f \in Kinds /\ f # NoFact
  BY <1>1, FactsDiffer DEF RetainInv, TypeOK, Kinds
<1>6. TokenAgrees(t)' /\ OnlyToken(t)
  BY <1>0, <1>1, <1>2, <1>4, <1>5, FactsDiffer DEF RetainInv, TypeOK, TokenAgrees, OnlyToken, entryVars
<1>7. SourcesAreMovedOnce'
  BY <1>1, <1>2 DEF RetainInv, TypeOK, SourcesAreMovedOnce
<1>8. ClosedStoresAreIdle'
  BY StoresStayIdle
<1>9. QED
  BY <1>0, <1>3, <1>6, <1>7, <1>8, TicketIsOwn, StepOfOne

LEMMA RecordKeeps ==
  ASSUME RetainInv, NEW c \in Callers, Record(c)
  PROVE  RetainInv'
<1>1. step[c] \in {"dispatch", "kept", "uncertain"} /\ UNCHANGED <<entryVars, open>>
  BY DEF Record, Recording
<1>2. ticket[c] \in Tokens /\ Holds(c) /\ Stands(c)
  BY <1>1 DEF RetainInv, TypeOK, Holds
<1>3. CASE UNCHANGED ledgerVars /\ Stop({c})
  BY <1>1, <1>3, QuietStop
<1>4. ASSUME NEW f \in {Dispatch, Verified, Indeterminate}, Ledger!Advance(ticket[c], f), Stop({c}),
             f = Verified => step[c] = "kept"
      PROVE  RetainInv'
  <2>1. f = Verified => /\ retained[ticket[c]] = "planned"
                        /\ unsynced \cap DirectoryChanges(ticket[c]) = {}
    BY <1>2, <1>4, RetainAssumptions DEF Stands, DirectoryChanges
  <2>2. OthersStay(c) /\ CallTypes' /\ using'[c] = NoStore /\ ticket'[c] = NoToken
    BY <1>4, StopMeans, StoppedOne
  <2>3. QED
    BY <1>1, <1>2, <1>4, <2>1, <2>2, StoppedOne, AppendStep
<1>5. CASE step[c] = "dispatch" /\ Ledger!Advance(ticket[c], Dispatch) /\ Go(c, "check")
  <2>1. "check" \in Steps
    BY DEF Steps, MoveSteps
  <2>2. fact'[ticket[c]] = Dispatch /\ source' = source
    BY <1>2, <1>5, AdvanceMeans DEF RetainInv, TypeOK
  <2>3. Holds(c)' /\ Stands(c)'
    BY <1>1, <1>2, <1>5, <2>1, <2>2, GoMeans, RetainAssumptions DEF Holds, Stands, OthersStay, entryVars
  <2>4. QED
    BY <1>1, <1>2, <1>5, <2>1, <2>3, GoMeans, FactsDiffer, AppendStep
<1>6. \/ UNCHANGED ledgerVars /\ Stop({c})
      \/ \E f \in {Dispatch, Verified, Indeterminate} :
           Ledger!Advance(ticket[c], f) /\ Stop({c}) /\ (f = Verified => step[c] = "kept")
      \/ step[c] = "dispatch" /\ Ledger!Advance(ticket[c], Dispatch) /\ Go(c, "check")
  <2>1. CASE step[c] = "dispatch"
    <3>1. Recording[step[c]].new = Dispatch /\ Recording[step[c]].next = "check"
      BY <2>1 DEF Recording
    <3>2. QED
      BY <2>1, <3>1, FactsDiffer DEF Record, Continue
  <2>2. CASE step[c] = "kept"
    <3>1. Recording[step[c]].new = Verified /\ Recording[step[c]].next = "idle"
      BY <2>2 DEF Recording
    <3>2. QED
      BY <2>2, <3>1 DEF Record, Continue
  <2>3. CASE step[c] = "uncertain"
    <3>1. Recording[step[c]].new = Indeterminate /\ Recording[step[c]].next = "idle"
      BY <2>3 DEF Recording
    <3>2. QED
      BY <2>3, <3>1, FactsDiffer DEF Record, Continue
  <2>4. QED
    BY <1>1, <2>1, <2>2, <2>3
<1>7. QED
  BY <1>3, <1>4, <1>5, <1>6

LEMMA RenameKeeps ==
  ASSUME RetainInv, NEW c \in Callers, Rename(c)
  PROVE  RetainInv'
<1>0. /\ ticket[c] \in Tokens /\ target[c] \in Sources /\ step[c] = "rename"
      /\ Holds(c) /\ Stands(c)
  BY DEF Rename, RetainInv, TypeOK, Holds
<1>1. PICK t \in Tokens, s \in Sources :
        /\ t = ticket[c] /\ s = target[c] /\ t # NoToken
        /\ fact[t] = Dispatch /\ retained[t] = "none" /\ source[t] = s
  BY <1>0, RetainAssumptions DEF Stands
<1>2. PICK n \in {"verify", "uncertain"} : Go(c, n)
  BY DEF Rename
<1>3. n \in Steps
  BY DEF Steps, MoveSteps, Recording
<1>4. /\ at[s] \in Contents /\ at[s] # "none"
      /\ retained' = [retained EXCEPT ![t] = at[s]]
      /\ at' = [at EXCEPT ![s] = "none"]
      /\ unsynced' = unsynced \cup DirectoryChanges(t)
      /\ UNCHANGED <<fact, source, open>>
  BY <1>1 DEF Rename, ApplyRename, RetainInv, TypeOK, ledgerVars
<1>5. OthersStay(c) /\ CallTypes' /\ using'[c] = using[c] /\ ticket'[c] = t
  BY <1>1, <1>2, <1>3, GoMeans
<1>6. TypeOK'
  BY <1>1, <1>4, <1>5 DEF RetainInv, TypeOK, CallTypes, Contents
<1>7. TokenAgrees(t)'
  <2>1. retained'[t] # "none" /\ fact'[t] = Dispatch /\ source'[t] = source[t]
    BY <1>1, <1>4 DEF RetainInv, TypeOK
  <2>2. TokenAgrees(t)
    BY <1>1, InvariantParts
  <2>3. QED
    BY <1>1, <2>1, <2>2, FactsDiffer DEF TokenAgrees
<1>8. OnlyToken(t)
  BY <1>1, <1>4 DEF OnlyToken, DirectoryChanges, RetainInv, TypeOK
<1>9. Holds(c)' /\ Stands(c)'
  <2>1. Holds(c)'
    BY <1>0, <1>1, <1>2, <1>3, GoMeans DEF Holds
  <2>2. \A d \in Callers \ {c} : ticket'[d] # t
    BY <1>0, <1>1, <1>5 DEF Stands, OthersStay
  <2>3. /\ source'[t] = target'[c] /\ fact'[t] = Dispatch /\ ticket'[c] = t
        /\ step'[c] \in {"verify", "uncertain"}
    BY <1>1, <1>2, <1>3, <1>4, GoMeans
  <2>4. QED
    BY <2>1, <2>2, <2>3 DEF Stands
<1>10. SourcesAreMovedOnce' /\ ClosedStoresAreIdle'
  BY <1>4, <1>5, StoresStayIdle DEF RetainInv, SourcesAreMovedOnce
<1>11. QED
  BY <1>0, <1>1, <1>5, <1>6, <1>7, <1>8, <1>9, <1>10, TicketIsOwn, StepOfOne

-----------------------------------------------------------------------------
(* Stores, and what else happens. *)

LEMMA StoreKeeps ==
  ASSUME RetainInv, NEW store \in Stores, OpenStore(store) \/ Close(store)
  PROVE  RetainInv'
<1>1. UNCHANGED <<ledgerVars, entryVars, callVars>> /\ open' \subseteq Stores
  BY DEF OpenStore, Close, RetainInv, TypeOK
<1>2. \A c \in Callers : using[c] # NoStore => using[c] \in open'
  BY DEF OpenStore, Close, RetainInv, ClosedStoresAreIdle, Inside
<1>3. ClosedStoresAreIdle'
  BY <1>1, <1>2 DEF ClosedStoresAreIdle, RetainInv, Inside, callVars
<1>4. TypeOK' /\ SourcesAreMovedOnce'
  BY <1>1 DEF RetainInv, TypeOK, SourcesAreMovedOnce, ledgerVars, entryVars, callVars
<1>5. ASSUME NEW t \in Tokens PROVE TokenAgrees(t)'
  BY <1>1, InvariantParts DEF TokenAgrees, ledgerVars, entryVars
<1>6. ASSUME NEW c \in Callers PROVE Holds(c)' /\ Stands(c)'
  BY <1>1 DEF RetainInv, Holds, Stands, ledgerVars, entryVars, callVars
<1>7. QED
  BY <1>3, <1>4, <1>5, <1>6, NextFromParts

LEMMA CrashKeeps ==
  ASSUME RetainInv, NEW store \in Stores, Crash(store)
  PROVE  RetainInv'
<1>1. Inside(store) \in SUBSET Callers /\ Stop(Inside(store))
  BY DEF Crash, Inside
<1>2. UNCHANGED <<ledgerVars, entryVars>> /\ open' = open \ {store}
  BY DEF Crash
<1>3. TypeOK' /\ SourcesAreMovedOnce'
  BY <1>1, <1>2, StopMeans DEF RetainInv, TypeOK, SourcesAreMovedOnce, CallTypes, ledgerVars, entryVars
<1>4. ASSUME NEW t \in Tokens PROVE TokenAgrees(t)'
  BY <1>2, InvariantParts DEF TokenAgrees, ledgerVars, entryVars
<1>5. ASSUME NEW d \in Callers PROVE Holds(d)' /\ Stands(d)'
  <2>1. CASE d \in Inside(store)
    BY <1>1, <2>1, StopMeans DEF Holds, Stands
  <2>2. CASE d \notin Inside(store)
    <3>1. OnlyToken(NoToken) /\ \A e \in Callers \ {d} : ticket'[e] \in {ticket[e], NoToken}
      BY <1>1, <1>2, StopMeans DEF OnlyToken, ledgerVars, entryVars
    <3>2. CASE ticket[d] = NoToken
      BY <1>1, <2>2, <3>2, StopMeans DEF RetainInv, Holds, Stands
    <3>3. CASE ticket[d] # NoToken
      BY <1>1, <2>2, <3>1, <3>3, StopMeans, OthersStand
    <3>4. QED
      BY <3>2, <3>3
  <2>3. QED
    BY <2>1, <2>2
<1>6. ClosedStoresAreIdle'
  <2> SUFFICES ASSUME NEW d \in Callers, using'[d] # NoStore
               PROVE  using'[d] \in open' /\ Inside(using[d])' = {d}
    BY DEF ClosedStoresAreIdle
  <2>1. \A e \in Callers : using'[e] # NoStore => using'[e] = using[e] /\ using[e] # store
    BY <1>1, StopMeans DEF Inside
  <2>2. using[d] \in open /\ Inside(using[d]) = {d}
    BY <2>1 DEF RetainInv, ClosedStoresAreIdle
  <2>3. QED
    BY <1>2, <2>1, <2>2 DEF Inside
<1>7. QED
  BY <1>3, <1>4, <1>5, <1>6, NextFromParts

LEMMA PowerLossKeeps ==
  ASSUME RetainInv, PowerLoss
  PROVE  RetainInv'
<1>1. PICK undone \in SUBSET {t \in Tokens : /\ unsynced \cap DirectoryChanges(t) # {}
                                            /\ retained[t] # "none"
                                            /\ at[source[t]] = "none"} :
        /\ retained' = [t \in Tokens |-> IF t \in undone THEN "none" ELSE retained[t]]
        /\ at' = [s \in Sources |->
                    IF \E t \in undone : source[t] = s
                    THEN retained[CHOOSE t \in undone : source[t] = s]
                    ELSE at[s]]
  BY DEF PowerLoss
<1>2. UNCHANGED ledgerVars /\ unsynced' = {} /\ open' = {} /\ Stop(Callers)
  BY DEF PowerLoss
<1>3. CallTypes' /\ \A c \in Callers : (Holds(c) /\ Stands(c) /\ using[c] = NoStore)'
  BY <1>2, StopMeans DEF Holds, Stands
<1>4. at' \in [Sources -> Contents]
  <2>1. ASSUME NEW s \in Sources, \E t \in undone : source[t] = s
        PROVE  retained[CHOOSE t \in undone : source[t] = s] \in Contents
    <3>1. (CHOOSE t \in undone : source[t] = s) \in Tokens
      BY <2>1
    <3>2. QED
      BY <3>1 DEF RetainInv, TypeOK
  <2>2. QED
    BY <1>1, <2>1 DEF RetainInv, TypeOK
<1>5. TypeOK' /\ SourcesAreMovedOnce'
  BY <1>1, <1>2, <1>3, <1>4 DEF RetainInv, TypeOK, SourcesAreMovedOnce, CallTypes, Contents, ledgerVars
<1>6. ClosedStoresAreIdle'
  BY <1>3 DEF ClosedStoresAreIdle
<1>7. ASSUME NEW t \in Tokens PROVE TokenAgrees(t)'
  <2>1. TokenAgrees(t)
    BY InvariantParts
  <2>2. retained'[t] = IF t \in undone THEN "none" ELSE retained[t]
    BY <1>1
  <2>3. QED
    BY <1>1, <1>2, <2>1, <2>2 DEF TokenAgrees, ledgerVars
<1>8. QED
  BY <1>3, <1>5, <1>6, <1>7, NextFromParts

LEMMA SourceChangeKeeps ==
  ASSUME RetainInv, NEW s \in Sources, SourceChange(s)
  PROVE  RetainInv'
<1>1. UNCHANGED <<ledgerVars, retained, unsynced, open, callVars>>
  BY DEF SourceChange
<1>2. TypeOK'
  BY DEF SourceChange, RetainInv, TypeOK, Contents, ledgerVars, callVars
<1>3. SourcesAreMovedOnce' /\ ClosedStoresAreIdle'
  BY <1>1 DEF RetainInv, SourcesAreMovedOnce, ClosedStoresAreIdle, Inside, ledgerVars, callVars
<1>4. ASSUME NEW t \in Tokens PROVE TokenAgrees(t)'
  BY <1>1, InvariantParts DEF TokenAgrees, ledgerVars
<1>5. ASSUME NEW c \in Callers PROVE Holds(c)' /\ Stands(c)'
  BY <1>1 DEF RetainInv, Holds, Stands, ledgerVars, callVars
<1>6. QED
  BY <1>2, <1>3, <1>4, <1>5, NextFromParts

LEMMA NextKeeps ==
  ASSUME RetainInv, [Next]_vars
  PROVE  RetainInv'
<1>1. ASSUME NEW c \in Callers, Program(c) PROVE RetainInv'
  BY <1>1, EnterKeeps, ValidateKeeps, ReserveKeeps, RecordKeeps, CheckKeeps, RenameKeeps,
     VerifyKeeps, SyncKeeps, FailKeeps DEF Program
<1>2. CASE UNCHANGED vars
  <2>1. TypeOK' /\ ClosedStoresAreIdle' /\ SourcesAreMovedOnce'
    BY <1>2 DEF vars, RetainInv, TypeOK, ClosedStoresAreIdle, Inside, SourcesAreMovedOnce
  <2>2. ASSUME NEW t \in Tokens PROVE TokenAgrees(t)'
    BY <1>2, InvariantParts DEF vars, TokenAgrees
  <2>3. ASSUME NEW c \in Callers PROVE Holds(c)' /\ Stands(c)'
    BY <1>2 DEF vars, RetainInv, Holds, Stands
  <2>4. QED
    BY <2>1, <2>2, <2>3, NextFromParts
<1>3. QED
  BY <1>1, <1>2, StoreKeeps, CrashKeeps, SourceChangeKeeps, PowerLossKeeps DEF Next

-----------------------------------------------------------------------------

(***************************************************************************)
(* What every call of Retain holds and relies on at each of its steps,     *)
(* with what the ledger says of each token, is an invariant.               *)
(***************************************************************************)
THEOREM RetainInvariantHolds == Spec => []RetainInv
<1>1. Init => RetainInv
  BY InitHolds
<1>2. RetainInv /\ [Next]_vars => RetainInv'
  BY NextKeeps
<1>3. QED
  BY <1>1, <1>2, PTL DEF Spec

(* No call works under a store that is closed, or beside another call. *)
THEOREM StoresAreIdleWhenClosed == Spec => []ClosedStoresAreIdle
<1>1. RetainInv => ClosedStoresAreIdle
  BY DEF RetainInv
<1>2. QED
  BY <1>1, RetainInvariantHolds, PTL

(* What is in the quarantine was put there after its dispatch was durable. *)
THEOREM RetainedContentIsOnRecord == Spec => []RetainedIsOnRecord
<1>1. RetainInv => RetainedIsOnRecord
  BY DEF RetainInv
<1>2. QED
  BY <1>1, RetainInvariantHolds, PTL

(* A verified move is one of the planned content, and durable. *)
THEOREM VerifiedRetainsSurvive == Spec => []VerifiedIsRetained
<1>1. RetainInv => VerifiedIsRetained
  BY DEF RetainInv
<1>2. QED
  BY <1>1, RetainInvariantHolds, PTL

(* No source is reserved by this package a second time. *)
THEOREM RetainIsNeverRetried == Spec => []SourcesAreMovedOnce
<1>1. RetainInv => SourcesAreMovedOnce
  BY DEF RetainInv
<1>2. QED
  BY <1>1, RetainInvariantHolds, PTL
=============================================================================
