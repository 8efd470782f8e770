---------------------------- MODULE CallPromise -----------------------------
(***************************************************************************)
(* What the call ledger promises about a request key, with no processes,   *)
(* no run and no budget in sight: a key is opened once and closed once, it *)
(* reaches the provider at most once and only while it is open, and what   *)
(* it is charged is decided in the step that closes it and never again.    *)
(***************************************************************************)
EXTENDS Naturals

CONSTANTS
  Key,          \* request keys
  Amount,       \* what a call can be charged, Unreported included
  Unreported

VARIABLES
  phase,    \* "fresh", "open" or "closed"
  sends,    \* how often the provider was asked
  charge    \* the cost entry, Unreported when there is none

promiseVars == <<phase, sends, charge>>

Init ==
  /\ phase = [k \in Key |-> "fresh"]
  /\ sends = [k \in Key |-> 0]
  /\ charge = [k \in Key |-> Unreported]

Open(k) ==
  /\ phase[k] = "fresh"
  /\ phase' = [phase EXCEPT ![k] = "open"]
  /\ UNCHANGED <<sends, charge>>

Send(k) ==
  /\ phase[k] = "open"
  /\ sends[k] = 0
  /\ sends' = [sends EXCEPT ![k] = 1]
  /\ UNCHANGED <<phase, charge>>

Close(k) ==
  /\ phase[k] = "open"
  /\ phase' = [phase EXCEPT ![k] = "closed"]
  /\ \E amount \in Amount : charge' = [charge EXCEPT ![k] = amount]
  /\ UNCHANGED sends

Next == \E k \in Key : Open(k) \/ Send(k) \/ Close(k)

Spec == Init /\ [][Next]_promiseVars
=============================================================================
