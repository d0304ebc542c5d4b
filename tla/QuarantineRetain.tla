-------------------------- MODULE QuarantineRetain --------------------------
(***************************************************************************)
(* Retaining content in the private quarantine directory of its mount, as  *)
(* in internal/quarantine (Store, Retain) over the recovery ledger and     *)
(* linuxfs.RetainQuarantineNoReplace.                                      *)
(*                                                                         *)
(* A process has a Store, whose mutex one call holds from its first check  *)
(* to its last record; Close waits for it.  Stores of several processes    *)
(* share the directory and the ledger, which is the one of FactLedger.     *)
(* There is no reconciler: a recovery that is not verified stays open.     *)
(***************************************************************************)
EXTENDS RecoveryFacts, FiniteSets

CONSTANTS
  Stores,       \* the stores, each of a process of its own
  Callers,      \* the goroutines that call Retain
  Sources,      \* the names of planned quarantine actions
  Tokens,       \* reservation tokens
  Environment,  \* what else may happen, a subset of Disturbances
  NoStore, NoSource, NoToken

Disturbances == {"crash", "power_loss", "source_change"}

ASSUME RetainAssumptions ==
  /\ Environment \subseteq Disturbances
  /\ NoStore \notin Stores
  /\ NoSource \notin Sources
  /\ NoToken \notin Tokens

VARIABLES
  fact,      \* the last durable fact of each reservation, or NoFact
  source,    \* the source each reservation binds
  at,        \* what each source name holds
  retained,  \* what the quarantine directory holds under each token
  unsynced,  \* the directory changes of each move that may still be lost
  open,      \* the stores that are not closed
  step,      \* where each call is
  using,     \* the store it holds
  target,    \* the source it is to retain
  ticket     \* its recovery

ledgerVars == <<fact, source>>
entryVars == <<at, retained, unsynced>>
callVars == <<step, using, target, ticket>>
vars == <<fact, source, at, retained, unsynced, open, step, using, target, ticket>>

-----------------------------------------------------------------------------

Contents == {"planned", "other", "none"}

DirectoryChanges(t) == {<<t, "quarantine">>, <<t, "source">>}

(* Every reservation of this package is for the quarantine. *)
Ledger == INSTANCE FactLedger WITH destination <- [t \in Tokens |-> "quarantine"]

Dispatch == Fact("move_dispatch_recorded")
Verified == Fact("move_verified")
Indeterminate == Fact("move_indeterminate")

(* Where a call records a fact, and where it goes on when that is confirmed. *)
Recording ==
  [dispatch  |-> [new |-> Dispatch, next |-> "check"],
   kept      |-> [new |-> Verified, next |-> "idle"],
   uncertain |-> [new |-> Indeterminate, next |-> "idle"]]

(* The steps of RetainQuarantineNoReplace. *)
MoveSteps == {"check", "rename", "verify", "syncQuarantine", "syncSource"}

Steps == {"idle", "validate", "reserve"} \cup DOMAIN Recording \cup MoveSteps

Init ==
  /\ fact = [t \in Tokens |-> NoFact]
  /\ source = [t \in Tokens |-> NoSource]
  /\ at \in [Sources -> Contents]
  /\ retained = [t \in Tokens |-> "none"]
  /\ unsynced = {}
  /\ open = {}
  /\ step = [c \in Callers |-> "idle"]
  /\ using = [c \in Callers |-> NoStore]
  /\ target = [c \in Callers |-> NoSource]
  /\ ticket = [c \in Callers |-> NoToken]

Go(c, next) == step' = [step EXCEPT ![c] = next] /\ UNCHANGED <<using, target, ticket>>

(* The calls return, or their processes stop: the mutex is free. *)
Stop(calls) ==
  /\ step' = [c \in Callers |-> IF c \in calls THEN "idle" ELSE step[c]]
  /\ using' = [c \in Callers |-> IF c \in calls THEN NoStore ELSE using[c]]
  /\ target' = [c \in Callers |-> IF c \in calls THEN NoSource ELSE target[c]]
  /\ ticket' = [c \in Callers |-> IF c \in calls THEN NoToken ELSE ticket[c]]

Continue(c, next) == IF next = "idle" THEN Stop({c}) ELSE Go(c, next)

(* The calls that hold the mutex of a store. *)
Inside(store) == {c \in Callers : using[c] = store}

-----------------------------------------------------------------------------
(* The Store. *)

OpenStore(store) ==
  /\ store \notin open
  /\ open' = open \cup {store}
  /\ UNCHANGED <<ledgerVars, entryVars, callVars>>

Close(store) ==
  /\ store \in open
  /\ Inside(store) = {}
  /\ open' = open \ {store}
  /\ UNCHANGED <<ledgerVars, entryVars, callVars>>

(* withRetain: a closed store refuses. *)
Enter(c, store, s) ==
  /\ step[c] = "idle"
  /\ store \in open
  /\ Inside(store) = {}
  /\ step' = [step EXCEPT ![c] = "validate"]
  /\ using' = [using EXCEPT ![c] = store]
  /\ target' = [target EXCEPT ![c] = s]
  /\ UNCHANGED <<ticket, ledgerVars, entryVars, open>>

-----------------------------------------------------------------------------
(* Retain. *)

(* newQuarantineRetainRequest: the source still has the planned identity. *)
Validate(c) ==
  /\ step[c] = "validate"
  /\ at[target[c]] = "planned"
  /\ Go(c, "reserve")
  /\ UNCHANGED <<ledgerVars, entryVars, open>>

(* The reservation is confirmed, or made and yet reported as failed. *)
Reserve(c, t) ==
  /\ step[c] = "reserve"
  /\ Ledger!Reserve(t, target[c], "quarantine")
  /\ \/ /\ step' = [step EXCEPT ![c] = "dispatch"]
        /\ ticket' = [ticket EXCEPT ![c] = t]
        /\ UNCHANGED <<using, target>>
     \/ Stop({c})
  /\ UNCHANGED <<entryVars, open>>

RecordOrGoOn(c) ==  \* slip: a transition that fails does not end the call
  LET r == Recording[step[c]] IN
  /\ step[c] \in DOMAIN Recording
  /\ Ledger!Advance(ticket[c], r.new) \/ UNCHANGED ledgerVars
  /\ Continue(c, r.next)
  /\ UNCHANGED <<entryVars, open>>

(* Confirmed, appended and yet reported as failed, or failed. *)
Record(c) ==
  LET r == Recording[step[c]] IN
  /\ step[c] \in DOMAIN Recording
  /\ \/ Ledger!Advance(ticket[c], r.new) /\ (Continue(c, r.next) \/ Stop({c}))
     \/ UNCHANGED ledgerVars /\ Stop({c})
  /\ UNCHANGED <<entryVars, open>>

(* An error before the reservation ends the call.  From the dispatch on    *)
(* every result but a verified move is recorded as indeterminate, "not     *)
(* applied" included.                                                      *)
Fail(c) ==
  /\ \/ step[c] \in {"validate", "reserve"} /\ Stop({c})
     \/ step[c] \in MoveSteps /\ Go(c, "uncertain")
  /\ UNCHANGED <<ledgerVars, entryVars, open>>

-----------------------------------------------------------------------------
(* RetainQuarantineNoReplace. *)

Check(c) ==
  /\ step[c] = "check"
  /\ at[target[c]] = "planned"
  /\ Go(c, "rename")
  /\ UNCHANGED <<ledgerVars, entryVars, open>>

(* It takes whatever the source name holds by now. *)
ApplyRename(c) ==
  LET s == target[c]
      t == ticket[c]
  IN  /\ at[s] # "none" /\ retained[t] = "none"
      /\ retained' = [retained EXCEPT ![t] = at[s]]
      /\ at' = [at EXCEPT ![s] = "none"]
      /\ unsynced' = unsynced \cup DirectoryChanges(t)

(* An error of the rename may leave it applied; Fail has the listed ones   *)
(* that say it was not.                                                    *)
Rename(c) ==
  /\ step[c] = "rename"
  /\ ApplyRename(c)
  /\ Go(c, "verify") \/ Go(c, "uncertain")
  /\ UNCHANGED <<ledgerVars, open>>

VerifyPresent(c) ==  \* slip: any entry under the token will do
  /\ step[c] = "verify"
  /\ retained[ticket[c]] # "none"
  /\ Go(c, "syncQuarantine")
  /\ UNCHANGED <<ledgerVars, entryVars, open>>

Verify(c) ==
  /\ step[c] = "verify"
  /\ retained[ticket[c]] = "planned"
  /\ Go(c, "syncQuarantine")
  /\ UNCHANGED <<ledgerVars, entryVars, open>>

SyncOne(c) ==  \* slip: only the quarantine directory is synced
  /\ step[c] = "syncQuarantine"
  /\ unsynced' = {u \in unsynced : u[2] # "quarantine"}
  /\ Go(c, "kept")
  /\ UNCHANGED <<ledgerVars, at, retained, open>>

(* The quarantine directory first: it holds the entries of every token.    *)
(* A sync that reports an error may have been done all the same.           *)
SyncQuarantine(c) ==
  /\ step[c] = "syncQuarantine"
  /\ unsynced' = {u \in unsynced : u[2] # "quarantine"}
  /\ Go(c, "syncSource") \/ Go(c, "uncertain")
  /\ UNCHANGED <<ledgerVars, at, retained, open>>

SyncSource(c) ==
  /\ step[c] = "syncSource"
  /\ unsynced' = unsynced \ {<<ticket[c], "source">>}
  /\ Go(c, "kept") \/ Go(c, "uncertain")
  /\ UNCHANGED <<ledgerVars, at, retained, open>>

-----------------------------------------------------------------------------
(* What else happens. *)

(* A process stops, with its store and its calls. *)
Crash(store) ==
  /\ "crash" \in Environment
  /\ open' = open \ {store}
  /\ Stop(Inside(store))
  /\ UNCHANGED <<ledgerVars, entryVars>>

(***************************************************************************)
(* A move neither of whose directories was synced, or only one, may be     *)
(* undone: the content is back under its source name, if nothing else is   *)
(* there by now.  Whatever the power loss has left is durable.             *)
(***************************************************************************)
PowerLoss ==
  /\ "power_loss" \in Environment
  /\ \E undone \in SUBSET {t \in Tokens : /\ unsynced \cap DirectoryChanges(t) # {}
                                         /\ retained[t] # "none"
                                         /\ at[source[t]] = "none"} :
       /\ \A t, u \in undone : source[t] = source[u] => t = u
       /\ retained' = [t \in Tokens |-> IF t \in undone THEN "none" ELSE retained[t]]
       /\ at' = [s \in Sources |->
                   IF \E t \in undone : source[t] = s
                   THEN retained[CHOOSE t \in undone : source[t] = s]
                   ELSE at[s]]
  /\ unsynced' = {}
  /\ open' = {}
  /\ Stop(Callers)
  /\ UNCHANGED ledgerVars

(* Another process of the same user replaces, removes or creates a source. *)
SourceChange(s) ==
  /\ "source_change" \in Environment
  /\ \E content \in {"other", "none"} \ {at[s]} : at' = [at EXCEPT ![s] = content]
  /\ UNCHANGED <<ledgerVars, retained, unsynced, open, callVars>>

-----------------------------------------------------------------------------

Program(c) ==
  \/ \E store \in Stores, s \in Sources : Enter(c, store, s)
  \/ Validate(c)
  \/ \E t \in Tokens : Reserve(c, t)
  \/ Record(c)
  \/ Check(c)
  \/ Rename(c)
  \/ Verify(c)
  \/ SyncQuarantine(c)
  \/ SyncSource(c)
  \/ Fail(c)

Next ==
  \/ \E c \in Callers : Program(c)
  \/ \E store \in Stores : OpenStore(store) \/ Close(store) \/ Crash(store)
  \/ \E s \in Sources : SourceChange(s)
  \/ PowerLoss

Spec == Init /\ [][Next]_vars
-----------------------------------------------------------------------------

TypeOK ==
  /\ fact \in [Tokens -> Frames \cup {NoFact}]
  /\ source \in [Tokens -> Sources \cup {NoSource}]
  /\ at \in [Sources -> Contents]
  /\ retained \in [Tokens -> Contents]
  /\ unsynced \subseteq UNION {DirectoryChanges(t) : t \in Tokens}
  /\ open \subseteq Stores
  /\ step \in [Callers -> Steps]
  /\ using \in [Callers -> Stores \cup {NoStore}]
  /\ target \in [Callers -> Sources \cup {NoSource}]
  /\ ticket \in [Callers -> Tokens \cup {NoToken}]

(***************************************************************************)
(* A call works only under a store that is open, and alone: Close returns  *)
(* after the last effect and the last record, so that a process that has   *)
(* closed its store may close the ledger and the leases.                   *)
(***************************************************************************)
ClosedStoresAreIdle ==
  \A c \in Callers : using[c] # NoStore => using[c] \in open /\ Inside(using[c]) = {c}

(***************************************************************************)
(* Content is never moved ahead of its record: what the quarantine holds   *)
(* under a token, after any crash or power loss, has a recovery that was   *)
(* dispatched and is open, for the source it came from.                    *)
(***************************************************************************)
RetainedIsOnRecord ==
  \A t \in Tokens : retained[t] # "none" =>
    fact[t] \in {Dispatch, Verified, Indeterminate} /\ source[t] # NoSource

(***************************************************************************)
(* A recovery says "move_verified" only of the planned content, and it is  *)
(* retained durably: no later power loss takes it back.                    *)
(***************************************************************************)
VerifiedIsRetained ==
  \A t \in Tokens : fact[t] = Verified =>
    retained[t] = "planned" /\ unsynced \cap DirectoryChanges(t) = {}

(***************************************************************************)
(* The effect is never retried: a source once reserved is not reserved     *)
(* again, whatever is found under its name later, however the first call   *)
(* ended.                                                                  *)
(***************************************************************************)
SourcesAreMovedOnce ==
  \A t, u \in Tokens :
    fact[t] # NoFact /\ fact[u] # NoFact /\ source[t] = source[u] => t = u

(* What a call at each of its steps holds and relies on. *)
Holds(c) ==
  /\ step[c] = "idle" => using[c] = NoStore /\ target[c] = NoSource
  /\ step[c] # "idle" => using[c] # NoStore /\ target[c] # NoSource
  /\ step[c] \in {"idle", "validate", "reserve"} <=> ticket[c] = NoToken

Stands(c) ==
  LET t == ticket[c] IN
  t # NoToken =>
    /\ source[t] = target[c]
    /\ fact[t] = IF step[c] = "dispatch" THEN Intent ELSE Dispatch
    /\ step[c] \in {"dispatch", "check", "rename"} => retained[t] = "none"
    /\ step[c] \in {"syncQuarantine", "syncSource", "kept"} => retained[t] = "planned"
    /\ step[c] \in {"syncSource", "kept"} => <<t, "quarantine">> \notin unsynced
    /\ step[c] = "kept" => <<t, "source">> \notin unsynced
    /\ \A d \in Callers \ {c} : ticket[d] # t

RetainInv ==
  /\ TypeOK
  /\ ClosedStoresAreIdle
  /\ RetainedIsOnRecord
  /\ VerifiedIsRetained
  /\ SourcesAreMovedOnce
  /\ \A t \in Tokens :
       /\ fact[t] \in {NoFact, Intent, Dispatch, Verified, Indeterminate}
       /\ fact[t] = NoFact <=> source[t] = NoSource
       /\ retained[t] = "none" => unsynced \cap DirectoryChanges(t) = {}
  /\ \A c \in Callers : Holds(c) /\ Stands(c)

=============================================================================
