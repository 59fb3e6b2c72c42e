----------------------------- MODULE ToastStore -----------------------------
(***************************************************************************)
(* The toasts of a tab and their timers (frontend/src/lib/stores/          *)
(* toast.svelte.ts). A toast is known by its number.                       *)
(***************************************************************************)
EXTENDS Integers, Sequences, FiniteSets

CONSTANTS
  MaxToasts, \* MAX_TOASTS
  MaxShown   \* bound on the toasts shown

ToastStoreAssumption == MaxToasts \in Nat \ {0} /\ MaxShown \in Nat

VARIABLES
  toasts,    \* toasts shown, oldest first, with whether they end by themselves
  toastTimers, \* numbers of the toasts whose timer is set
  shows      \* toasts shown so far

toastVars == <<toasts, toastTimers, shows>>

(* Mutant: the toast that is pushed out keeps its timer. *)
ShowKeepsTimer(timed) ==
  /\ shows < MaxShown /\ shows' = shows + 1
  /\ LET pushed == Append(toasts, [id |-> shows', timed |-> timed])
     IN toasts' = IF Len(pushed) > MaxToasts THEN Tail(pushed) ELSE pushed
  /\ toastTimers' = toastTimers \cup (IF timed THEN {shows'} ELSE {})

(* show: beyond the limit the oldest toast is pushed out, with its timer. A *)
(* toast of duration 0 stays until it is dismissed.                         *)
Show(timed) ==
  /\ shows < MaxShown /\ shows' = shows + 1
  /\ LET pushed == Append(toasts, [id |-> shows', timed |-> timed])
         out == IF Len(pushed) > MaxToasts THEN {Head(pushed).id} ELSE {}
     IN /\ toasts' = IF out # {} THEN Tail(pushed) ELSE pushed
        /\ toastTimers' = (toastTimers \ out) \cup (IF timed THEN {shows'} ELSE {})

(* dismiss, by the user or by the timer: the toast is spliced out. *)
Dismiss(id) ==
  /\ \E i \in DOMAIN toasts :
       /\ toasts[i].id = id
       /\ toasts' = SubSeq(toasts, 1, i - 1) \o SubSeq(toasts, i + 1, Len(toasts))
  /\ toastTimers' = toastTimers \ {id}
  /\ UNCHANGED shows

DismissToast == \E i \in DOMAIN toasts : Dismiss(toasts[i].id)
ToastEnds == \E id \in toastTimers : Dismiss(id)

(* clear. *)
ClearToasts == toasts # <<>> /\ toasts' = <<>> /\ toastTimers' = {} /\ UNCHANGED shows

ToastInit == toasts = <<>> /\ toastTimers = {} /\ shows = 0

ToastNext == (\E timed \in BOOLEAN : Show(timed)) \/ DismissToast \/ ToastEnds \/ ClearToasts

ToastSpec == ToastInit /\ [][ToastNext]_toastVars

(* Never more toasts than the limit, and a timer for each that ends by      *)
(* itself and for no other: none stays for ever and no timer is left over.  *)
ToastsEnd ==
  /\ Len(toasts) <= MaxToasts
  /\ toastTimers = {toasts[i].id : i \in {j \in DOMAIN toasts : toasts[j].timed}}
=============================================================================
