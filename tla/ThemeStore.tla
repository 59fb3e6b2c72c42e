----------------------------- MODULE ThemeStore -----------------------------
(***************************************************************************)
(* The theme of the tabs of a browser (frontend/src/lib/stores/            *)
(* theme.svelte.ts): each keeps a preference, follows the system's theme   *)
(* without one, and hears of changes of the stored preference by storage   *)
(* events that carry the value written, later.                             *)
(***************************************************************************)
EXTENDS Integers, Sequences, FiniteSets

CONSTANTS
  Tabs, None,
  MaxChanges \* bound on toggles and on changes from outside

ThemeStoreAssumption == None \notin {"light", "dark"}

VARIABLES
  stored,  \* value in the storage: a theme, Other, or None
  system,  \* theme of the system
  tab,     \* state of each tab
  changes  \* changes so far

themeVars == <<stored, system, tab, changes>>

Themes == {"light", "dark"}
Other == "other"  \* a value that is no theme

Opposite(theme) == IF theme = "light" THEN "dark" ELSE "light"

(* readPreference, for a value that may be no theme. *)
Preference(value) == IF value \in Themes THEN value ELSE None

(* Mutant: the theme is resolved but not applied to the page. *)
ResolveOnly(t) ==
  [t EXCEPT !.resolved = IF t.preference # None THEN t.preference ELSE system]

(* resolveAndApply. *)
Resolve(t) ==
  LET theme == IF t.preference # None THEN t.preference ELSE system
  IN [t EXCEPT !.resolved = theme, !.root = theme]

(* Tabs hear of what another tab wrote. *)
Heard(ts, from, value) ==
  [u \in Tabs |-> IF u = from \/ ~ts[u].open THEN ts[u]
                  ELSE [ts[u] EXCEPT !.events = Append(@, value)]]

(* initialize: a value that is no theme is removed; the storage may be      *)
(* unreadable.                                                              *)
Initialize(u) ==
  /\ ~tab[u].open /\ changes < MaxChanges
  /\ \E readable \in BOOLEAN :
       LET value == IF readable THEN stored ELSE None
           opened == Resolve([tab[u] EXCEPT !.open = TRUE, !.preference = Preference(value),
                                            !.events = <<>>, !.pending = FALSE])
       IN IF value = Other
          THEN stored' = None /\ tab' = Heard([tab EXCEPT ![u] = opened], u, None)
          ELSE UNCHANGED stored /\ tab' = [tab EXCEPT ![u] = opened]
  /\ changes' = changes + 1 /\ UNCHANGED system

(* toggle: shown even when it cannot be stored. *)
Toggle(u) ==
  /\ tab[u].open /\ changes < MaxChanges
  /\ LET theme == Opposite(tab[u].resolved)
         toggled == [tab EXCEPT ![u] = [@ EXCEPT !.preference = theme, !.resolved = theme, !.root = theme]]
     IN \/ stored' = theme /\ tab' = Heard(toggled, u, theme)
        \/ UNCHANGED stored /\ tab' = toggled
  /\ changes' = changes + 1 /\ UNCHANGED system

(* handleStorageChange; a value that is no theme is removed. *)
StorageEvent(u) ==
  /\ tab[u].open /\ tab[u].events # <<>>
  /\ LET value == Head(tab[u].events)
         told == [tab EXCEPT ![u] = Resolve([tab[u] EXCEPT !.events = Tail(@), !.preference = Preference(value)])]
     IN IF value = Other
        THEN stored' = None /\ tab' = Heard(told, u, None)
        ELSE UNCHANGED stored /\ tab' = told
  /\ UNCHANGED <<system, changes>>

(* The listener of the system's theme. *)
SystemEvent(u) ==
  /\ tab[u].open /\ tab[u].pending
  /\ tab' = [tab EXCEPT ![u] = LET heard == [@ EXCEPT !.pending = FALSE]
                               IN IF heard.preference = None THEN Resolve(heard) ELSE heard]
  /\ UNCHANGED <<stored, system, changes>>

(* destroy. *)
Destroy(u) ==
  /\ tab[u].open
  /\ tab' = [tab EXCEPT ![u].open = FALSE]
  /\ UNCHANGED <<stored, system, changes>>

SystemChanges ==
  /\ changes < MaxChanges /\ changes' = changes + 1
  /\ system' = Opposite(system)
  /\ tab' = [u \in Tabs |-> [tab[u] EXCEPT !.pending = tab[u].open]]
  /\ UNCHANGED stored

(* Another page of the site writes the key or clears the storage. *)
StorageChanges ==
  /\ changes < MaxChanges /\ changes' = changes + 1
  /\ \E value \in {None, Other} :
       stored' = value /\ tab' = Heard(tab, None, value)
  /\ UNCHANGED system

ThemeInit ==
  /\ stored \in Themes \cup {None, Other} /\ system \in Themes /\ changes = 0
  /\ tab = [u \in Tabs |-> [open |-> FALSE, preference |-> None, resolved |-> "light",
                            root |-> "light", events |-> <<>>, pending |-> FALSE]]

ThemeNext ==
  \/ SystemChanges \/ StorageChanges
  \/ \E u \in Tabs : Initialize(u) \/ Toggle(u) \/ StorageEvent(u) \/ SystemEvent(u) \/ Destroy(u)

ThemeSpec == ThemeInit /\ [][ThemeNext]_themeVars

(* A tab shows its preference, or the system's theme without one, on the    *)
(* page as in its state.                                                    *)
ThemeShown ==
  \A u \in Tabs : tab[u].open =>
    /\ tab[u].root = tab[u].resolved
    /\ tab[u].preference # None => tab[u].resolved = tab[u].preference
    /\ tab[u].preference = None /\ ~tab[u].pending => tab[u].resolved = system

(* Tabs that have heard all events agree with the storage. TLC refutes it:  *)
(* two tabs that toggle at once take each other's value.                    *)
TabsAgree ==
  (\A u \in Tabs : tab[u].open => tab[u].events = <<>>)
    => \A u, v \in Tabs : tab[u].open /\ tab[v].open => tab[u].preference = tab[v].preference
=============================================================================
