-------------------------- MODULE SourceReservation --------------------------
(***************************************************************************)
(* What the recovery ledger promises its callers, with the records, the    *)
(* sessions and the failures left out: a source is reserved by at most one *)
(* token at a time, and a token that has been settled never comes back.    *)
(***************************************************************************)
CONSTANTS Sources, Tokens

VARIABLES
  held,      \* the pairs <<token, source>> with an open recovery
  settled    \* the tokens whose recovery is closed

HeldTokens == {h[1] : h \in held}
HeldSources == {h[2] : h \in held}

Init ==
  /\ held \in SUBSET (Tokens \X Sources)
  /\ \A g, h \in held : g[1] = h[1] \/ g[2] = h[2] => g = h
  /\ settled \in SUBSET (Tokens \ HeldTokens)

Reserve(t, s) ==
  /\ t \notin HeldTokens \cup settled
  /\ s \notin HeldSources
  /\ held' = held \cup {<<t, s>>}
  /\ UNCHANGED settled

Settle(t, s) ==
  /\ <<t, s>> \in held
  /\ held' = held \ {<<t, s>>}
  /\ settled' = settled \cup {t}

Next == \E t \in Tokens, s \in Sources : Reserve(t, s) \/ Settle(t, s)

Spec == Init /\ [][Next]_<<held, settled>>
=============================================================================
