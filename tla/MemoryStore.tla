----------------------------- MODULE MemoryStore -----------------------------
(***************************************************************************)
(* The rate limit store of the Node server: a Map from keys to windows,    *)
(* of limited size, in the order in which its keys were first set. consume *)
(* is synchronous, so each call is one step.                               *)
(***************************************************************************)
EXTENDS Integers, Sequences, FiniteSets

CONSTANTS Keys, Limit, Window, MaxEntries

MemoryStoreAssumption ==
  Limit \in Nat \ {0} /\ Window \in Nat \ {0} /\ MaxEntries \in Nat \ {0}

VARIABLES
  entries,  \* key, requests let through (a refused one changes nothing else) and time left
  forgot    \* the keys that lost a live window (observed by the properties only)

vars == <<entries, forgot>>

Ended(entry) == entry.left = 0
KeysOf(map) == {map[i].key : i \in DOMAIN map}
Places(k) == {i \in DOMAIN entries : entries[i].key = k}

(* The places of the windows that have not ended, from the oldest.          *)
Living == {i \in DOMAIN entries : ~Ended(entries[i])}

FromOldest(live) ==
  /\ Living = {live[j] : j \in DOMAIN live}
  /\ \A i, j \in DOMAIN live : i < j => live[i] < live[j]

Kept(live) == [j \in DOMAIN live |-> entries[live[j]]]

(* Mutant: the oldest entries go first, ended or not. *)
SpaceByAge(live) ==
  IF Len(entries) < MaxEntries THEN entries
  ELSE SubSeq(entries, Len(entries) - MaxEntries + 2, Len(entries))

(* Mutant: only the ended windows go. *)
SpaceOfEnded(live) == IF Len(entries) < MaxEntries THEN entries ELSE Kept(live)

(* makeSpaceForNewEntry: at the limit the ended windows go, and if that is  *)
(* not enough the oldest.                                                   *)
Space(live) ==
  IF Len(entries) < MaxEntries THEN entries
  ELSE IF Len(live) < MaxEntries THEN Kept(live)
  ELSE SubSeq(Kept(live), Len(live) - MaxEntries + 2, Len(live))

Fresh(k) == [key |-> k, passed |-> 1, left |-> Window]

(* consume: one more in the live window of the key, or a new window in the  *)
(* place of the key or at the end.                                          *)
CountOn(k) ==
  /\ Places(k) # {}
  /\ entries' = [i \in DOMAIN entries |->
                   IF i \notin Places(k) THEN entries[i]
                   ELSE IF Ended(entries[i]) THEN Fresh(k)
                   ELSE [entries[i] EXCEPT !.passed = IF @ < Limit THEN @ + 1 ELSE @]]
  /\ forgot' = forgot \ {k}

Enter(k) ==
  /\ Places(k) = {}
  /\ \E live \in [1 .. Cardinality(Living) -> Living] :
       /\ FromOldest(live)
       /\ entries' = Append(Space(live), Fresh(k))
       /\ forgot' = (forgot \ {k}) \cup (KeysOf(Kept(live)) \ KeysOf(Space(live)))

Consume(k) == CountOn(k) \/ Enter(k)

Tick ==
  /\ entries' = [i \in DOMAIN entries |-> [entries[i] EXCEPT !.left = IF @ = 0 THEN 0 ELSE @ - 1]]
  /\ UNCHANGED forgot

Init == entries = <<>> /\ forgot = {}

Next == (\E k \in Keys : Consume(k)) \/ Tick

Spec == Init /\ [][Next]_vars

EntryType == [key : Keys, passed : 1 .. Limit, left : 0 .. Window]

(* The map never outgrows maxEntries and has each key once. *)
MapBounded ==
  /\ entries \in Seq(EntryType) /\ forgot \subseteq Keys
  /\ Len(entries) <= MaxEntries
  /\ \A k \in Keys, i, j \in DOMAIN entries : {i, j} \subseteq Places(k) => i = j

(* A window is forgotten early, so that its key starts over, only while    *)
(* the map is full of windows that have not ended.                         *)
ForgetsOnlyWhenFull ==
  [][forgot' \ forgot # {}
     => /\ Len(entries) = MaxEntries
        /\ \A i \in DOMAIN entries : ~Ended(entries[i])]_vars
=============================================================================
