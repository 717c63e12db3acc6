------------------------------ MODULE Delivery ------------------------------
(***************************************************************************)
(* What one test of ancientt promises about results, whatever runner,      *)
(* parser and outputs are configured: results are accepted one by one, and *)
(* every output takes the accepted results in the order of acceptance,     *)
(* never more than Capacity behind.  A test that ends without reporting an *)
(* error has given every accepted result to every output.                  *)
(***************************************************************************)
EXTENDS Integers, Sequences

CONSTANTS
  Items,     \* the results the runner may produce
  Names,     \* the outputs of the test
  Capacity   \* how far an output may fall behind

VARIABLES
  accepted,  \* the results taken from the runner, in order
  written,   \* written[n]: the results output n has taken, in order
  outcome    \* "running", "complete" or "reported"

vars == <<accepted, written, outcome>>

Init ==
  /\ accepted = <<>>
  /\ written = [n \in Names |-> <<>>]
  /\ outcome = "running"

Lag(n) == Len(accepted) - Len(written[n])

Accept(i) ==
  /\ outcome = "running"
  /\ \A n \in Names : Lag(n) < Capacity
  /\ \A k \in DOMAIN accepted : accepted[k] # i
  /\ accepted' = Append(accepted, i)
  /\ UNCHANGED <<written, outcome>>

Hand(n) ==
  /\ outcome = "running"
  /\ Lag(n) > 0
  /\ written' = [written EXCEPT ![n] = Append(@, accepted[Len(@) + 1])]
  /\ UNCHANGED <<accepted, outcome>>

Complete ==
  /\ outcome = "running"
  /\ \A n \in Names : Lag(n) = 0
  /\ outcome' = "complete"
  /\ UNCHANGED <<accepted, written>>

Report ==
  /\ outcome = "running"
  /\ outcome' = "reported"
  /\ UNCHANGED <<accepted, written>>

Next ==
  \/ \E i \in Items : Accept(i)
  \/ \E n \in Names : Hand(n)
  \/ Complete
  \/ Report

Spec == Init /\ [][Next]_vars
=============================================================================
