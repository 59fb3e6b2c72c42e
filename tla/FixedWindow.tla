----------------------------- MODULE FixedWindow -----------------------------
(***************************************************************************)
(* What a rate limit promises: for every key a window begins with a        *)
(* request, lasts Window and lets Limit requests through; the next request *)
(* after its end begins another one.                                       *)
(***************************************************************************)
EXTENDS Integers

CONSTANTS Keys, Limit, Window

FixedWindowAssumption == Limit \in Nat \ {0} /\ Window \in Nat \ {0}

VARIABLES
  left,    \* how long the window of a key lasts from now; 0 without a window
  passed   \* the requests let through in that window

vars == <<left, passed>>

(* A request begins a window, or is let through while the window has room. *)
Take(k) ==
  /\ left' = IF left[k] = 0 THEN [left EXCEPT ![k] = Window] ELSE left
  /\ passed' = IF passed[k] < Limit THEN [passed EXCEPT ![k] = @ + 1] ELSE passed

(* Time passes, and with it the windows. *)
Elapse ==
  /\ left' = [k \in Keys |-> IF left[k] = 0 THEN 0 ELSE left[k] - 1]
  /\ passed' = [k \in Keys |-> IF left[k] <= 1 THEN 0 ELSE passed[k]]

Init == left = [k \in Keys |-> 0] /\ passed = [k \in Keys |-> 0]

Next == (\E k \in Keys : Take(k)) \/ Elapse

Spec == Init /\ [][Next]_vars
=============================================================================
