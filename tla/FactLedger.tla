----------------------------- MODULE FactLedger -----------------------------
(***************************************************************************)
(* The recovery ledger as the content operations use it, through           *)
(* recoveryport.Ledger: with the records, the sessions and the failures of *)
(* RecoveryLedger left out.  Of the history of a reservation only the last *)
(* fact matters, which is all that a transition looks at.                  *)
(***************************************************************************)
EXTENDS RecoveryFacts

CONSTANTS Sources, Tokens

VARIABLES
  fact,         \* the last durable fact of each token, or NoFact
  source,       \* the source a token reserves
  destination   \* where the content of a token is to go

Open(t) == fact[t] # NoFact /\ ~Closed(fact[t])

Init ==
  /\ fact \in [Tokens -> Frames \cup {NoFact}]
  /\ \A t, u \in Tokens : Open(t) /\ Open(u) /\ source[t] = source[u] => t = u

ReserveAgain(t, s, d) ==  \* slip: an open recovery of the source is no obstacle
  /\ fact[t] = NoFact
  /\ fact' = [fact EXCEPT ![t] = Intent]
  /\ source' = [source EXCEPT ![t] = s]
  /\ destination' = [destination EXCEPT ![t] = d]

Reserve(t, s, d) ==
  /\ fact[t] = NoFact
  /\ \A u \in Tokens : Open(u) => source[u] # s
  /\ fact' = [fact EXCEPT ![t] = Intent]
  /\ source' = [source EXCEPT ![t] = s]
  /\ destination' = [destination EXCEPT ![t] = d]

Advance(t, f) ==
  /\ fact[t] # NoFact
  /\ ValidTransition(destination[t], fact[t], f)
  /\ fact' = [fact EXCEPT ![t] = f]
  /\ UNCHANGED <<source, destination>>

Following(d, f) == {g \in Proposals : ValidTransition(d, f, g)}

Next ==
  \E t \in Tokens :
    \/ \E s \in Sources, d \in Destinations : Reserve(t, s, d)
    \/ \E f \in Following(destination[t], fact[t]) : Advance(t, f)

Spec == Init /\ [][Next]_<<fact, source, destination>>
=============================================================================
