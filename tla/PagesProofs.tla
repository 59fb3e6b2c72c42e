----------------------------- MODULE PagesProofs -----------------------------
(***************************************************************************)
(* Proofs about the browser: the auth store of its tabs (AuthStore), for   *)
(* any tabs, refreshes, accounts and bounds, and after it the pages and    *)
(* small stores of a tab, the components of MCPages, for any users,        *)
(* filters, pages and bounds.                                              *)
(***************************************************************************)
EXTENDS MCPages, SetTheorems, SequenceTheorems, FiniteSetTheorems, TLAPS

----------------------------------------------------------------------------
(* The auth store.                                                          *)


OpType == [pc : {"idle", "lock", "fetch", "body", "done"}, gen : Int, born : Nat,
           aborted : BOOLEAN, ok : BOOLEAN, body : Users \cup {NoUser}]

StoreTyped ==
  /\ status \in [Tabs -> {"closed", "initializing", "authenticated", "anonymous", "unavailable"}]
  /\ user \in [Tabs -> Users \cup {NoUser}]
  /\ \A t \in Tabs : access[t] = IF status[t] = "authenticated" THEN user[t] ELSE NoUser
  /\ \A t \in Tabs : status[t] = "authenticated" => user[t] \in Users
  /\ access \in [Tabs -> Users \cup {NoUser}]
OpsTyped ==
  /\ op \in [Ops -> OpType]
  /\ flight \in [Tabs -> Slots \cup {NoSlot}]
  /\ \A t \in Tabs : flight[t] # NoSlot => op[<<t, flight[t]>>].pc # "idle"
  /\ gen \in [Tabs -> Int] /\ cmds \in [Tabs -> Nat]
NetTyped ==
  /\ up \subseteq Upward /\ down \subseteq Downward
  /\ \A m \in down : m.kind = "refresh" /\ m.is = "refused" => m.set \in {Unset, 0}
ServerTyped ==
  /\ jar \in 0..MaxSession /\ rows \in [Sessions -> Users \cup {NoUser}]
  /\ ended \in BOOLEAN /\ refused \in BOOLEAN

Typed == StoreTyped /\ OpsTyped /\ NetTyped /\ ServerTyped

(* A refresh that may still change the state of its tab. *)
Active(x) == x.pc \in {"lock", "fetch", "body"} /\ ~x.aborted

(* Such a refresh is the one its tab tracks, has begun after the tab's last *)
(* command, and keeps the tab from being authenticated.                     *)
Tracked ==
  \A o \in Ops : Active(op[o]) => /\ flight[o[1]] = o[2] /\ op[o].born = cmds[o[1]]
                                  /\ status[o[1]] # "authenticated"

(* The Web Lock admits one refresh at a time. *)
Locked == \A o, p \in Ops : HoldsLock(o) /\ HoldsLock(p) => o = p

(* The messages of refreshes that are awaited. *)
Awaited(ms) == {m \in ms : m.kind = "refresh" /\ ~m.stray}

(* Whoever awaits a message is fetching, and awaits no other. *)
Mail ==
  /\ \A o \in Ops : op[o].pc = "fetch" => ~op[o].aborted
  /\ \A m \in Awaited(up) \cup Awaited(down) : op[m.from].pc = "fetch"
  /\ \A m, n \in Awaited(up) : m = n
  /\ \A m, n \in Awaited(down) : m = n
  /\ Awaited(up) = {} \/ Awaited(down) = {}

Renewals == {m \in down : m.kind = "refresh" /\ m.set \notin {Unset, 0}}
Renewing == {m \in up : m.kind = "refresh" /\ m.cookie # 0}

(* While no session was ended: a session is in one place only, the jar or   *)
(* an answer, and its row is there unless the awaited answer renews it;     *)
(* the requests carry sessions that exist, each its own.                    *)
Cookies ==
  /\ \A m \in up \cup down : m.kind = "refresh"
  /\ notices = {}
  /\ \A m \in down : m.set # 0
  /\ \A m \in Renewals : rows[m.set] # NoUser /\ m.set # jar /\ \A n \in Renewing : n.cookie # m.set
  /\ \A m, n \in Renewals : m.set = n.set => m = n
  /\ \A m \in Renewing : rows[m.cookie] # NoUser /\ (m.stray => m.cookie # jar)
  /\ \A m, n \in Renewing : m.cookie = n.cookie => m = n
  /\ jar # 0 /\ rows[jar] = NoUser => \E m \in Renewals : ~m.stray

Safe == ~ended => Cookies /\ ~refused

IInv == Typed /\ Tracked /\ Locked /\ Mail /\ Safe

----------------------------------------------------------------------------
LEMMA Constants == NoUser \notin Users /\ NoSlot \notin Slots /\ MaxSession \in Nat \ {0}
BY StoreAssumption

LEMMA IdleTyped == Idle \in OpType
BY DEF Idle, OpType

LEMMA StartedTyped ==
  ASSUME Typed, NEW t \in Tabs, NEW g \in Int
  PROVE  /\ Started(t, g) \in OpType /\ Started(t, g).pc = "lock" /\ ~Started(t, g).ok
         /\ Started(t, g).born = cmds[t] /\ ~Started(t, g).aborted
BY DEF Typed, OpsTyped, OpType, Started, Idle

LEMMA InitIInv == Init => IInv
<1> SUFFICES ASSUME Init PROVE IInv
  OBVIOUS
<1>1. PICK u \in Users \cup {NoUser} :
        /\ jar = IF u = NoUser THEN 0 ELSE 1
        /\ rows = [s \in Sessions |-> IF s = 1 THEN u ELSE NoUser]
  BY DEF Init
<1>2. /\ status = [t \in Tabs |-> "closed"] /\ user = [t \in Tabs |-> NoUser]
      /\ access = [t \in Tabs |-> NoUser] /\ gen = [t \in Tabs |-> 0]
      /\ flight = [t \in Tabs |-> NoSlot] /\ op = [o \in Ops |-> Idle] /\ queue = <<>>
      /\ up = {} /\ down = {} /\ notices = {} /\ cmds = [t \in Tabs |-> 0]
      /\ ended = FALSE /\ refused = FALSE
  BY DEF Init
<1>3. Typed
  <2>1. StoreTyped
    BY <1>2 DEF StoreTyped
  <2>2. op \in [Ops -> OpType]
    BY <1>2, IdleTyped
  <2>3. OpsTyped
    BY <1>2, <2>2 DEF OpsTyped
  <2>4. NetTyped
    BY <1>2 DEF NetTyped
  <2>5. jar \in 0..MaxSession
    BY <1>1, Constants
  <2>6. rows \in [Sessions -> Users \cup {NoUser}]
    BY <1>1, Constants DEF Sessions
  <2>7. ServerTyped
    BY <1>2, <2>5, <2>6 DEF ServerTyped
  <2> QED BY <2>1, <2>3, <2>4, <2>7 DEF Typed
<1>4. Tracked /\ Locked /\ Mail
  BY <1>2 DEF Tracked, Locked, Mail, Active, Awaited, HoldsLock, Idle
<1>5. Safe
  <2>1. jar # 0 => rows[jar] # NoUser
    BY <1>1, Constants DEF Sessions
  <2> QED BY <1>2, <2>1 DEF Safe, Cookies, Renewals, Renewing
<1> QED BY <1>3, <1>4, <1>5 DEF IInv

----------------------------------------------------------------------------
(* Messages that are disowned. *)
Strayed(m) == [m EXCEPT !.stray = TRUE]

LEMMA StrayedUp ==
  ASSUME NEW m \in Upward, m.kind = "refresh"
  PROVE  /\ Strayed(m) \in Upward /\ Strayed(m).kind = "refresh" /\ Strayed(m).stray
         /\ Strayed(m).from = m.from /\ Strayed(m).cookie = m.cookie
BY DEF Upward, Strayed

LEMMA StrayedDown ==
  ASSUME NEW m \in Downward, m.kind = "refresh"
  PROVE  /\ Strayed(m) \in Downward /\ Strayed(m).kind = "refresh" /\ Strayed(m).stray
         /\ Strayed(m).from = m.from /\ Strayed(m).set = m.set /\ Strayed(m).is = m.is
BY DEF Downward, Strayed

LEMMA DisownedUp ==
  ASSUME up \subseteq Upward, NEW t \in Tabs, NEW n \in Disown(up, t)
  PROVE  \E m \in up : /\ n \in Upward /\ n.kind = m.kind /\ n.from = m.from /\ n.cookie = m.cookie
                       /\ n.kind = "refresh" /\ ~n.stray => n = m /\ n.from[1] # t
                       /\ n.kind = "refresh" => n = m \/ n = Strayed(m)
                       /\ n.kind # "refresh" => n = m
<1>1. PICK m \in up : n = IF m.kind = "refresh" /\ m.from[1] = t THEN Strayed(m) ELSE m
  BY DEF Disown, Strayed
<1> QED BY <1>1, StrayedUp

LEMMA DisownedDown ==
  ASSUME down \subseteq Downward, NEW t \in Tabs, NEW n \in Disown(down, t)
  PROVE  \E m \in down : /\ n \in Downward /\ n.kind = m.kind /\ n.from = m.from /\ n.set = m.set
                         /\ n.kind = "refresh" => n.is = m.is
                         /\ n.kind = "refresh" /\ ~n.stray => n = m /\ n.from[1] # t
                         /\ n.kind = "refresh" => n = m \/ n = Strayed(m)
                         /\ n.kind # "refresh" => n = m
<1>1. PICK m \in down : n = IF m.kind = "refresh" /\ m.from[1] = t THEN Strayed(m) ELSE m
  BY DEF Disown, Strayed
<1> QED BY <1>1, StrayedDown

LEMMA DisownTyped ==
  ASSUME NetTyped, NEW t \in Tabs, up' = Disown(up, t), down' = Disown(down, t)
  PROVE  NetTyped'
<1>1. \A n \in up' : n \in Upward
  BY DisownedUp DEF NetTyped
<1>2. \A n \in down' : n \in Downward /\ (n.kind = "refresh" /\ n.is = "refused" => n.set \in {Unset, 0})
  <2> TAKE n \in down'
  <2>1. PICK m \in down : /\ n \in Downward /\ n.kind = m.kind /\ n.set = m.set
                          /\ n.kind = "refresh" => n.is = m.is
    BY DisownedDown DEF NetTyped
  <2> QED BY <2>1 DEF NetTyped
<1> QED BY <1>1, <1>2 DEF NetTyped

(* What stays awaited belongs to the other tabs. *)
LEMMA DisownAwaited ==
  ASSUME NetTyped, NEW t \in Tabs, up' = Disown(up, t), down' = Disown(down, t)
  PROVE  /\ \A n \in Awaited(up)' : n \in Awaited(up) /\ n.from[1] # t
         /\ \A n \in Awaited(down)' : n \in Awaited(down) /\ n.from[1] # t
<1>1. ASSUME NEW n \in Awaited(up)' PROVE n \in Awaited(up) /\ n.from[1] # t
  BY <1>1, DisownedUp DEF NetTyped, Awaited
<1>2. ASSUME NEW n \in Awaited(down)' PROVE n \in Awaited(down) /\ n.from[1] # t
  BY <1>2, DisownedDown DEF NetTyped, Awaited
<1> QED BY <1>1, <1>2

----------------------------------------------------------------------------
(* Pieces of steps. *)

(* No refresh signs its tab in that began before the tab's last command. *)
Fair(o) == op'[o].ok => op[o].ok \/ op[o].born = cmds[o[1]]

LEMMA StoreSet ==
  ASSUME StoreTyped, NEW t \in Tabs,
         NEW s \in {"closed", "initializing", "authenticated", "anonymous", "unavailable"},
         NEW u \in Users \cup {NoUser}, NEW a \in Users \cup {NoUser}, SetStore(t, s, u, a),
         IF s = "authenticated" THEN u \in Users /\ a = u ELSE a = NoUser
  PROVE  StoreTyped' /\ status'[t] = s /\ \A v \in Tabs \ {t} : status'[v] = status[v]
BY DEF StoreTyped, SetStore

LEMMA StoreCleared ==
  ASSUME StoreTyped, NEW t \in Tabs, ClearAuthState(t)
  PROVE  StoreTyped' /\ status'[t] = "anonymous" /\ \A v \in Tabs \ {t} : status'[v] = status[v]
BY StoreSet DEF ClearAuthState

LEMMA StoreUnavailable ==
  ASSUME StoreTyped, NEW t \in Tabs, EnterUnavailable(t)
  PROVE  StoreTyped' /\ status'[t] = "unavailable" /\ \A v \in Tabs \ {t} : status'[v] = status[v]
<1>1. user[t] \in Users \cup {NoUser}
  BY DEF StoreTyped
<1> QED BY <1>1, StoreSet DEF EnterUnavailable

LEMMA StoreSame == ASSUME StoreTyped, UNCHANGED store PROVE StoreTyped' /\ status' = status
BY DEF StoreTyped, store

(* The network and the server do not change. *)
LEMMA Quiet ==
  ASSUME IInv, UNCHANGED <<net, notices, server, ended, refused>>
  PROVE  NetTyped' /\ ServerTyped' /\ Safe'
BY DEF IInv, Typed, NetTyped, ServerTyped, Safe, Cookies, Renewals, Renewing, net, server

(* refresh() joins the tracked refresh or starts one. *)
LEMMA RefreshKeeps ==
  ASSUME IInv, NEW t \in Tabs, NEW wait \in Slots, Refresh(t, wait),
         UNCHANGED <<gen, net, notices, server, cmds, ended, refused>>
  PROVE  IInv' /\ \A o \in Ops : Fair(o)
<1>1. /\ StoreTyped /\ OpsTyped /\ Typed /\ Tracked /\ Locked /\ Mail
      /\ NetTyped' /\ ServerTyped' /\ Safe'
  BY Quiet DEF IInv, Typed
<1>2. CASE flight[t] # NoSlot
  <2>1. UNCHANGED <<store, op, flight>>
    BY <1>2 DEF Refresh
  <2>2. StoreTyped' /\ OpsTyped' /\ status' = status
    BY <1>1, <2>1, StoreSame DEF OpsTyped
  <2>3. Tracked' /\ Locked'
    BY <1>1, <2>1, <2>2 DEF Tracked, Locked, HoldsLock
  <2>4. Mail'
    BY <1>1, <2>1 DEF Mail, Awaited, net
  <2> QED BY <1>1, <2>1, <2>2, <2>3, <2>4 DEF IInv, Typed, Fair
<1>3. CASE flight[t] = NoSlot
  <2> DEFINE w == <<t, wait>>
             x == Started(t, gen[t])
  <2>1. /\ wait \in FreeSlots(t) /\ SetStore(t, "initializing", user[t], NoUser)
        /\ op' = [op EXCEPT ![w] = x] /\ flight' = [flight EXCEPT ![t] = wait]
    BY <1>3 DEF Refresh
  <2>2. IsFree(t, wait)
    BY <2>1 DEF FreeSlots
  <2>3. w \in Ops /\ op[w].pc = "idle" /\ w[1] = t /\ w[2] = wait
    BY <2>2 DEF Ops, IsFree
  <2>4. x \in OpType /\ x.pc = "lock" /\ ~x.ok /\ x.born = cmds[t]
    BY <1>1, StartedTyped DEF OpsTyped
  <2> HIDE DEF w, x
  <2>5. op' \in [Ops -> OpType] /\ op'[w] = x /\ \A o \in Ops \ {w} : op'[o] = op[o]
    BY <1>1, <2>1, <2>3, <2>4 DEF OpsTyped
  <2>6. /\ flight' \in [Tabs -> Slots \cup {NoSlot}] /\ flight'[t] = wait
        /\ \A v \in Tabs \ {t} : flight'[v] = flight[v]
    BY <1>1, <2>1 DEF OpsTyped
  <2>7. OpsTyped'
    <3>1. ASSUME NEW v \in Tabs, flight'[v] # NoSlot PROVE op'[<<v, flight'[v]>>].pc # "idle"
      <4>1. CASE v = t
        BY <2>4, <2>5, <2>6, <4>1 DEF w
      <4>2. CASE v # t
        <5>1. <<v, flight[v]>> \in Ops \ {w} /\ op[<<v, flight[v]>>].pc # "idle"
          BY <1>1, <2>3, <2>6, <3>1, <4>2 DEF OpsTyped, Ops
        <5> QED BY <2>5, <2>6, <4>2, <5>1
      <4> QED BY <4>1, <4>2
    <3> QED BY <1>1, <2>5, <2>6, <3>1 DEF OpsTyped
  <2>8. StoreTyped' /\ status'[t] = "initializing" /\ \A v \in Tabs \ {t} : status'[v] = status[v]
    BY <1>1, <2>1, StoreSet DEF StoreTyped
  <2>9. Tracked'
    <3> SUFFICES ASSUME NEW o \in Ops, Active(op'[o])
                 PROVE  flight'[o[1]] = o[2] /\ op'[o].born = cmds[o[1]] /\ status'[o[1]] # "authenticated"
      BY DEF Tracked
    <3>1. CASE o = w
      BY <2>3, <2>4, <2>5, <2>6, <2>8, <3>1
    <3>2. CASE o # w
      <4>1. Active(op[o]) /\ flight[o[1]] = o[2] /\ op[o].born = cmds[o[1]] /\ status[o[1]] # "authenticated"
        BY <1>1, <2>5, <3>2 DEF Tracked
      <4>2. o[1] \in Tabs /\ o[2] \in Slots
        BY DEF Ops
      <4>3. o[1] # t
        BY <1>3, <4>1, <4>2, Constants
      <4> QED BY <2>5, <2>6, <2>8, <3>2, <4>1, <4>2, <4>3
    <3> QED BY <3>1, <3>2
  <2>10. Locked' /\ Mail'
    <3>1. ~HoldsLock(w)' /\ \A o \in Ops \ {w} : HoldsLock(o)' <=> HoldsLock(o)
      BY <2>4, <2>5 DEF HoldsLock
    <3>2. Awaited(up)' = Awaited(up) /\ Awaited(down)' = Awaited(down)
      BY DEF Awaited, net
    <3>3. \A m \in Awaited(up) \cup Awaited(down) : op[m.from].pc = "fetch" /\ m.from \in Ops
      BY <1>1 DEF Mail, Typed, NetTyped, Awaited, Upward, Downward
    <3>4. \A m \in Awaited(up) \cup Awaited(down) : m.from # w
      BY <2>3, <3>3
    <3> QED BY <1>1, <2>3, <2>4, <2>5, <3>1, <3>2, <3>3, <3>4 DEF Locked, Mail
  <2>11. \A o \in Ops : Fair(o)
    BY <2>4, <2>5 DEF Fair
  <2> QED BY <1>1, <2>7, <2>8, <2>9, <2>10, <2>11 DEF IInv, Typed
<1> QED BY <1>2, <1>3

(* One refresh moves on while its tab's commands and promise stay. *)
LEMMA OpStep ==
  ASSUME IInv, NEW o \in Ops, NEW x \in OpType, op' = [op EXCEPT ![o] = x],
         UNCHANGED <<gen, flight, cmds>>,
         op[o].pc # "idle", x.pc # "idle", x.born = op[o].born, Active(x) => Active(op[o]),
         HoldsLock(o) \/ \A p \in Ops : ~HoldsLock(p),
         StoreTyped', \A v \in Tabs \ {o[1]} : status'[v] = status[v],
         status'[o[1]] = "authenticated" =>
           /\ ~Active(x)
           /\ Active(op[o]) \/ status[o[1]] = "authenticated"
  PROVE  OpsTyped' /\ Tracked' /\ Locked' /\ op'[o] = x /\ \A p \in Ops \ {o} : op'[p] = op[p]
<1>1. OpsTyped /\ Tracked /\ Locked
  BY DEF IInv, Typed
<1>2. op' \in [Ops -> OpType] /\ op'[o] = x /\ \A p \in Ops \ {o} : op'[p] = op[p]
  BY <1>1 DEF OpsTyped
<1>3. OpsTyped'
  <2>1. ASSUME NEW v \in Tabs, flight[v] # NoSlot PROVE op'[<<v, flight[v]>>].pc # "idle"
    <3>1. <<v, flight[v]>> \in Ops /\ op[<<v, flight[v]>>].pc # "idle"
      BY <1>1, <2>1 DEF OpsTyped, Ops
    <3> QED BY <1>2, <3>1
  <2> QED BY <1>1, <1>2, <2>1 DEF OpsTyped
<1>4. Tracked'
  <2> SUFFICES ASSUME NEW p \in Ops, Active(op'[p])
               PROVE  flight[p[1]] = p[2] /\ op'[p].born = cmds[p[1]] /\ status'[p[1]] # "authenticated"
    BY DEF Tracked
  <2>1. p[1] \in Tabs /\ o[1] \in Tabs /\ p = <<p[1], p[2]>> /\ o = <<o[1], o[2]>>
    BY DEF Ops
  <2>2. Active(op[p])
    BY <1>2
  <2>3. flight[p[1]] = p[2] /\ op[p].born = cmds[p[1]] /\ status[p[1]] # "authenticated"
    BY <1>1, <2>2 DEF Tracked
  <2>4. op'[p].born = op[p].born
    BY <1>2
  <2>5. status'[p[1]] # "authenticated"
    <3>1. CASE p[1] # o[1]
      BY <2>1, <2>3, <3>1
    <3>2. CASE p = o
      BY <1>2, <3>2
    <3>3. CASE p[1] = o[1] /\ p # o
      <4>1. ~Active(op[o])
        <5> SUFFICES ASSUME Active(op[o]) PROVE FALSE
          OBVIOUS
        <5>1. flight[o[1]] = o[2]
          BY <1>1 DEF Tracked
        <5> QED BY <2>1, <2>3, <3>3, <5>1
      <4> QED BY <2>3, <3>3, <4>1
    <3> QED BY <3>1, <3>2, <3>3
  <2> QED BY <2>3, <2>4, <2>5
<1>5. Locked'
  <2>1. \A p \in Ops \ {o} : HoldsLock(p)' <=> HoldsLock(p)
    BY <1>2 DEF HoldsLock
  <2> QED BY <1>1, <2>1 DEF Locked
<1> QED BY <1>2, <1>3, <1>4, <1>5

(* What cancelRefresh() does to one refresh. *)
Cancelled(x) == [x EXCEPT !.aborted = TRUE, !.pc = IF @ = "fetch" THEN "done" ELSE @]

LEMMA CancelledTyped ==
  ASSUME NEW x \in OpType
  PROVE  /\ Cancelled(x) \in OpType /\ Cancelled(x).ok = x.ok /\ Cancelled(x).aborted
         /\ Cancelled(x).pc # "fetch"
         /\ Cancelled(x).pc \in {"fetch", "body", "done"} <=> x.pc \in {"fetch", "body", "done"}
<1>1. (IF x.pc = "fetch" THEN "done" ELSE x.pc) \in {"idle", "lock", "fetch", "body", "done"}
  BY DEF OpType
<1> DEFINE y == IF x.pc = "fetch" THEN "done" ELSE x.pc
<1>2. Cancelled(x) = [x EXCEPT !.aborted = TRUE, !.pc = y]
  BY DEF Cancelled, OpType
<1>3. y \in {"idle", "lock", "body", "done"} /\ (y \in {"body", "done"} <=> x.pc \in {"fetch", "body", "done"})
  BY DEF OpType
<1> HIDE DEF y
<1>4. /\ [x EXCEPT !.aborted = TRUE, !.pc = y] \in OpType
      /\ [x EXCEPT !.aborted = TRUE, !.pc = y].pc = y
      /\ [x EXCEPT !.aborted = TRUE, !.pc = y].ok = x.ok
      /\ [x EXCEPT !.aborted = TRUE, !.pc = y].aborted
  BY <1>3 DEF OpType
<1> QED BY <1>2, <1>3, <1>4

(* A cancelled tab has no refresh left that could change its state. *)
LEMMA CancelKeeps ==
  ASSUME IInv, NEW t \in Tabs, CancelRefresh(t), cmds' \in [Tabs -> Nat], StoreTyped',
         \A v \in Tabs \ {t} : cmds'[v] = cmds[v] /\ status'[v] = status[v]
  PROVE  OpsTyped' /\ Tracked' /\ Locked' /\ Mail' /\ NetTyped' /\ \A o \in Ops : Fair(o)
<1>1. /\ OpsTyped /\ Tracked /\ Locked /\ Mail /\ NetTyped /\ NetTyped'
      /\ up' = Disown(up, t) /\ down' = Disown(down, t)
      /\ gen' = [gen EXCEPT ![t] = @ + 1] /\ flight' = [flight EXCEPT ![t] = NoSlot]
  BY DisownTyped DEF IInv, Typed, CancelRefresh
<1>2. \A o \in Ops : op'[o] = IF o[1] # t \/ o[2] # flight[t] \/ op[o].pc = "done"
                              THEN op[o] ELSE Cancelled(op[o])
  BY DEF CancelRefresh, Cancelled
<1>3. \A o \in Ops : op[o] \in OpType
  BY <1>1 DEF OpsTyped
<1>4. op' \in [Ops -> OpType]
  <2>1. \A o \in Ops : op'[o] \in OpType
    BY <1>2, <1>3, CancelledTyped
  <2>2. op' = [o \in Ops |-> op'[o]]
    BY DEF CancelRefresh
  <2> QED BY <2>1, <2>2
<1>5. flight' \in [Tabs -> Slots \cup {NoSlot}] /\ flight'[t] = NoSlot
      /\ \A v \in Tabs \ {t} : flight'[v] = flight[v]
  BY <1>1 DEF OpsTyped
<1>6. OpsTyped'
  <2>1. gen' \in [Tabs -> Int]
    BY <1>1 DEF OpsTyped
  <2>2. ASSUME NEW v \in Tabs, flight'[v] # NoSlot PROVE op'[<<v, flight'[v]>>].pc # "idle"
    <3>1. v # t /\ flight'[v] = flight[v] /\ <<v, flight[v]>> \in Ops
      BY <1>1, <1>5, <2>2 DEF OpsTyped, Ops
    <3>2. op[<<v, flight[v]>>].pc # "idle"
      BY <1>1, <2>2, <3>1 DEF OpsTyped
    <3>3. op'[<<v, flight[v]>>] = op[<<v, flight[v]>>]
      BY <1>2, <3>1
    <3> QED BY <3>1, <3>2, <3>3
  <2> QED BY <1>4, <1>5, <2>1, <2>2 DEF OpsTyped
<1>7. Tracked'
  <2> SUFFICES ASSUME NEW o \in Ops, Active(op'[o])
               PROVE  flight'[o[1]] = o[2] /\ op'[o].born = cmds'[o[1]] /\ status'[o[1]] # "authenticated"
    BY DEF Tracked
  <2>1. op'[o] = op[o]
    BY <1>2, <1>3, CancelledTyped DEF Active
  <2>2. flight[o[1]] = o[2] /\ op[o].born = cmds[o[1]] /\ status[o[1]] # "authenticated"
    BY <1>1, <2>1 DEF Tracked
  <2>3. o[1] # t
    <3> SUFFICES ASSUME o[1] = t PROVE FALSE
      OBVIOUS
    <3>1. op'[o] = Cancelled(op[o])
      BY <1>2, <2>1, <2>2 DEF Active
    <3> QED BY <1>3, <3>1, CancelledTyped DEF Active
  <2>4. o[1] \in Tabs
    BY DEF Ops
  <2> QED BY <1>5, <2>1, <2>2, <2>3, <2>4
<1>8. Locked'
  <2>1. \A o \in Ops : HoldsLock(o)' <=> HoldsLock(o)
    BY <1>2, <1>3, CancelledTyped DEF HoldsLock
  <2> QED BY <1>1, <2>1 DEF Locked
<1>9. Mail'
  <2>1. /\ \A n \in Awaited(up)' : n \in Awaited(up) /\ n.from[1] # t
        /\ \A n \in Awaited(down)' : n \in Awaited(down) /\ n.from[1] # t
    BY <1>1, DisownAwaited
  <2>2. \A o \in Ops : op'[o].pc = "fetch" => ~op'[o].aborted
    BY <1>1, <1>2, <1>3, CancelledTyped DEF Mail
  <2>3. ASSUME NEW n \in Awaited(up)' \cup Awaited(down)' PROVE op'[n.from].pc = "fetch"
    <3>1. n \in Awaited(up) \cup Awaited(down) /\ n.from[1] # t
      BY <2>1, <2>3
    <3>2. n.from \in Ops
      BY <1>1, <3>1 DEF NetTyped, Awaited, Upward, Downward
    <3>3. op[n.from].pc = "fetch"
      BY <1>1, <3>1 DEF Mail
    <3> QED BY <1>2, <3>1, <3>2, <3>3
  <2> QED BY <1>1, <2>1, <2>2, <2>3 DEF Mail
<1>10. \A o \in Ops : Fair(o)
  BY <1>2, <1>3, CancelledTyped DEF Fair
<1> QED BY <1>1, <1>6, <1>7, <1>8, <1>9, <1>10

(* The same for what it does to a message. *)
Own(m, t) == m.kind = "refresh" /\ m.from[1] = t
Image(m, t) == IF Own(m, t) THEN Strayed(m) ELSE m

LEMMA Images ==
  ASSUME NetTyped, NEW t \in Tabs
  PROVE  /\ Disown(up, t) = {Image(m, t) : m \in up}
         /\ Disown(down, t) = {Image(m, t) : m \in down}
         /\ \A m \in up : /\ Image(m, t).kind = m.kind /\ Image(m, t).cookie = m.cookie
                          /\ m.kind = "refresh" =>
                               (Image(m, t).stray <=> (m.stray \/ m.from[1] = t))
         /\ \A m \in down : /\ Image(m, t).kind = m.kind /\ Image(m, t).set = m.set
                            /\ m.kind = "refresh" =>
                                 (Image(m, t).stray <=> (m.stray \/ m.from[1] = t))
<1>1. ASSUME NEW m \in up
      PROVE  /\ Image(m, t).kind = m.kind /\ Image(m, t).cookie = m.cookie
             /\ m.kind = "refresh" => (Image(m, t).stray <=> (m.stray \/ m.from[1] = t))
  BY <1>1, StrayedUp DEF NetTyped, Image, Own
<1>2. ASSUME NEW m \in down
      PROVE  /\ Image(m, t).kind = m.kind /\ Image(m, t).set = m.set
             /\ m.kind = "refresh" => (Image(m, t).stray <=> (m.stray \/ m.from[1] = t))
  BY <1>2, StrayedDown DEF NetTyped, Image, Own
<1>3. Disown(up, t) = {Image(m, t) : m \in up}
  BY Zenon DEF Disown, Image, Own, Strayed
<1>4. Disown(down, t) = {Image(m, t) : m \in down}
  BY Zenon DEF Disown, Image, Own, Strayed
<1> QED BY <1>1, <1>2, <1>3, <1>4

(* Disowning a tab's messages loses no session, when the session in the jar *)
(* exists and no disowned request carries it.                               *)
LEMMA DisownCookies ==
  ASSUME NetTyped, Cookies, NEW t \in Tabs, up' = Disown(up, t), down' = Disown(down, t),
         notices' = {},
         \A m \in Renewals : rows'[m.set] # NoUser /\ m.set # jar',
         \A m \in Renewing : /\ rows'[m.cookie] # NoUser
                             /\ m.stray \/ m.from[1] = t => m.cookie # jar',
         jar' # 0 /\ rows'[jar'] = NoUser => \E m \in Renewals : ~m.stray /\ m.from[1] # t
  PROVE  Cookies'
<1>1. up' = {Image(m, t) : m \in up} /\ down' = {Image(m, t) : m \in down}
  BY Images
<1>2. \A m \in up : m.kind = "refresh"
  BY DEF Cookies
<1>3. \A m \in down : m.kind = "refresh" /\ m.set # 0
  BY DEF Cookies
<1>4. \A n \in up' : \E m \in up : n = Image(m, t) /\ n.kind = "refresh" /\ n.cookie = m.cookie
                                 /\ (n.stray => m.stray \/ m.from[1] = t)
  BY <1>1, <1>2, Images
<1>5. \A n \in down' : \E m \in down : n = Image(m, t) /\ n.kind = "refresh" /\ n.set = m.set
  BY <1>1, <1>3, Images
<1>6. \A n \in Renewing' : \E m \in Renewing : n = Image(m, t) /\ n.cookie = m.cookie
                                 /\ (n.stray => m.stray \/ m.from[1] = t)
  BY <1>2, <1>4 DEF Renewing
<1>7. \A n \in Renewals' : \E m \in Renewals : n = Image(m, t) /\ n.set = m.set
  BY <1>3, <1>5 DEF Renewals
<1>8. \A m \in Renewals' : rows'[m.set] # NoUser /\ m.set # jar' /\ \A n \in Renewing' : n.cookie # m.set
  <2>1. \A m \in Renewals : \A n \in Renewing : n.cookie # m.set
    BY DEF Cookies
  <2> QED BY <1>6, <1>7, <2>1
<1>9. \A m, n \in Renewals' : m.set = n.set => m = n
  <2>1. \A m, n \in Renewals : m.set = n.set => m = n
    BY DEF Cookies
  <2> QED BY <1>7, <2>1
<1>10. \A m \in Renewing' : rows'[m.cookie] # NoUser /\ (m.stray => m.cookie # jar')
  BY <1>6
<1>11. \A m, n \in Renewing' : m.cookie = n.cookie => m = n
  <2>1. \A m, n \in Renewing : m.cookie = n.cookie => m = n
    BY DEF Cookies
  <2> QED BY <1>6, <2>1
<1>12. jar' # 0 /\ rows'[jar'] = NoUser => \E m \in Renewals' : ~m.stray
  <2> SUFFICES ASSUME jar' # 0, rows'[jar'] = NoUser PROVE \E m \in Renewals' : ~m.stray
    OBVIOUS
  <2>1. PICK m \in Renewals : ~m.stray /\ m.from[1] # t
    OBVIOUS
  <2>2. Image(m, t) = m /\ m \in down
    BY <2>1 DEF Image, Own, Renewals
  <2>3. m \in down'
    BY <1>1, <2>2
  <2>4. m \in Renewals'
    BY <2>1, <2>3 DEF Renewals
  <2> QED BY <2>1, <2>4
<1>13. /\ \A m \in up' \cup down' : m.kind = "refresh"
       /\ \A m \in down' : m.set # 0
  BY <1>3, <1>4, <1>5
<1> QED BY <1>8, <1>9, <1>10, <1>11, <1>12, <1>13 DEF Cookies

LEMMA FreshFacts ==
  ASSUME NEW s \in Fresh
  PROVE  /\ s \in Sessions /\ rows[s] = NoUser /\ s # jar
         /\ \A m \in up : m.cookie # s
         /\ \A m \in down : m.set # s
BY DEF Fresh

LEMMA CommandFacts ==
  ASSUME Typed, NEW t \in Tabs, NEW c, Command(t, c)
  PROVE  /\ cmds' \in [Tabs -> Nat] /\ cmds'[t] = cmds[t] + 1
         /\ \A v \in Tabs \ {t} : cmds'[v] = cmds[v]
BY DEF Command, Typed, OpsTyped

----------------------------------------------------------------------------
(* The steps of a tab. *)
LEMMA LoginKeeps ==
  ASSUME IInv, NEW t \in Tabs, NEW u \in Users, Login(t, u)
  PROVE  IInv' /\ \A o \in Ops : Fair(o)
<1>1. /\ Typed /\ StoreTyped /\ NetTyped /\ ServerTyped /\ Safe
      /\ CancelRefresh(t) /\ SetStore(t, "authenticated", u, u)
      /\ UNCHANGED <<notices, ended, refused>>
  BY DEF IInv, Typed, Login
<1>2. PICK s \in Fresh : rows' = [rows EXCEPT ![s] = u] /\ jar' = s
  BY DEF Login
<1>3. /\ cmds' \in [Tabs -> Nat]
      /\ \A v \in Tabs \ {t} : cmds'[v] = cmds[v]
  BY <1>1, CommandFacts DEF Login
<1>4. StoreTyped' /\ \A v \in Tabs \ {t} : status'[v] = status[v]
  BY <1>1, StoreSet
<1>5. OpsTyped' /\ Tracked' /\ Locked' /\ Mail' /\ NetTyped' /\ \A o \in Ops : Fair(o)
  BY <1>1, <1>3, <1>4, CancelKeeps
<1>6. s \in Sessions /\ s \in 1..MaxSession
  BY <1>2, FreshFacts DEF Sessions
<1>7. rows' \in [Sessions -> Users \cup {NoUser}] /\ rows'[s] = u
      /\ \A r \in Sessions \ {s} : rows'[r] = rows[r]
  BY <1>1, <1>2, <1>6 DEF ServerTyped
<1>8. ServerTyped'
  <2>1. jar' \in 0..MaxSession
    BY <1>2, <1>6, Constants
  <2> QED BY <1>1, <1>7, <2>1 DEF ServerTyped
<1>9. Safe'
  <2> SUFFICES ASSUME ~ended' PROVE Cookies' /\ ~refused'
    BY DEF Safe
  <2>1. Cookies /\ ~refused /\ notices = {}
    BY <1>1 DEF Safe, Cookies
  <2>2. ASSUME NEW m \in Renewals PROVE rows'[m.set] # NoUser /\ m.set # jar'
    <3>1. m \in down /\ m.set # s /\ rows[m.set] # NoUser
      BY <1>2, <2>1, FreshFacts DEF Renewals, Cookies
    <3>2. m.set \in Sessions
      BY <1>1, Constants DEF Renewals, NetTyped, Downward, Unset, Sessions
    <3> QED BY <1>2, <1>7, <3>1, <3>2
  <2>3. ASSUME NEW m \in Renewing PROVE rows'[m.cookie] # NoUser /\ m.cookie # jar'
    <3>1. m \in up /\ m.cookie # s /\ rows[m.cookie] # NoUser
      BY <1>2, <2>1, FreshFacts DEF Renewing, Cookies
    <3>2. m.cookie \in Sessions
      BY <1>1, Constants DEF Renewing, NetTyped, Upward, Sessions
    <3> QED BY <1>2, <1>7, <3>1, <3>2
  <2>4. rows'[jar'] # NoUser
    BY <1>2, <1>7, Constants
  <2>5. up' = Disown(up, t) /\ down' = Disown(down, t)
    BY <1>1 DEF CancelRefresh
  <2> QED BY <1>1, <2>1, <2>2, <2>3, <2>4, <2>5, DisownCookies
<1> QED BY <1>4, <1>5, <1>8, <1>9 DEF IInv, Typed

LEMMA DeleteKeeps ==
  ASSUME IInv, NEW t \in Tabs, DeleteAccount(t)
  PROVE  IInv' /\ \A o \in Ops : Fair(o)
<1>1. /\ Typed /\ StoreTyped /\ ServerTyped /\ CancelRefresh(t) /\ ClearAuthState(t)
      /\ rows' = [s \in Sessions |-> IF rows[s] = user[t] THEN NoUser ELSE rows[s]]
      /\ jar' = 0 /\ ended' = TRUE /\ refused' = refused
  BY DEF IInv, Typed, DeleteAccount
<1>2. /\ cmds' \in [Tabs -> Nat]
      /\ \A v \in Tabs \ {t} : cmds'[v] = cmds[v]
  BY <1>1, CommandFacts DEF DeleteAccount
<1>3. StoreTyped' /\ \A v \in Tabs \ {t} : status'[v] = status[v]
  BY <1>1, StoreCleared
<1>4. OpsTyped' /\ Tracked' /\ Locked' /\ Mail' /\ NetTyped' /\ \A o \in Ops : Fair(o)
  BY <1>1, <1>2, <1>3, CancelKeeps
<1>5. ServerTyped'
  <2>1. rows' \in [Sessions -> Users \cup {NoUser}]
    BY <1>1 DEF ServerTyped
  <2> QED BY <1>1, <2>1, Constants DEF ServerTyped
<1>6. Safe'
  BY <1>1 DEF Safe
<1> QED BY <1>3, <1>4, <1>5, <1>6 DEF IInv, Typed

LEMMA ReceiveKeeps ==
  ASSUME IInv, NEW t \in Tabs, ReceiveDeletion(t)
  PROVE  IInv' /\ \A o \in Ops : Fair(o)
<1>1. /\ Typed /\ StoreTyped /\ ServerTyped /\ Safe /\ CancelRefresh(t) /\ ClearAuthState(t)
      /\ UNCHANGED <<server, ended, refused>> /\ t \in notices
  BY DEF IInv, Typed, ReceiveDeletion
<1>2. /\ cmds' \in [Tabs -> Nat]
      /\ \A v \in Tabs \ {t} : cmds'[v] = cmds[v]
  BY <1>1, CommandFacts DEF ReceiveDeletion
<1>3. StoreTyped' /\ \A v \in Tabs \ {t} : status'[v] = status[v]
  BY <1>1, StoreCleared
<1>4. OpsTyped' /\ Tracked' /\ Locked' /\ Mail' /\ NetTyped' /\ \A o \in Ops : Fair(o)
  BY <1>1, <1>2, <1>3, CancelKeeps
<1>5. ServerTyped'
  BY <1>1 DEF ServerTyped, server
<1>6. Safe'
  <2>1. ended
    BY <1>1 DEF Safe, Cookies
  <2> QED BY <1>1, <2>1 DEF Safe
<1> QED BY <1>3, <1>4, <1>5, <1>6 DEF IInv, Typed

LEMMA OpenKeeps ==
  ASSUME IInv, NEW t \in Tabs, Open(t)
  PROVE  IInv' /\ \A o \in Ops : Fair(o)
<1>1. /\ Typed /\ StoreTyped /\ OpsTyped /\ NetTyped /\ ServerTyped
      /\ Tracked /\ Locked /\ Mail /\ Safe
  BY DEF IInv, Typed
<1>2. PICK s \in FreeSlots(t) :
        /\ Command(t, "load")
        /\ SetStore(t, "initializing", IF status[t] = "authenticated" THEN user[t] ELSE NoUser, NoUser)
        /\ op' = [o \in Ops |-> IF o[1] # t THEN op[o]
                                ELSE IF o[2] = s THEN [Started(t, 0) EXCEPT !.born = cmds'[t]]
                                ELSE Idle]
        /\ gen' = [gen EXCEPT ![t] = 0]
        /\ flight' = [flight EXCEPT ![t] = s]
        /\ up' = Disown(up, t)
        /\ down' = Disown(down, t)
        /\ notices' = notices \ {t}
        /\ ended' = (ended \/ \E m \in up \cup down :
                                m.kind = "refresh" /\ m.from[1] = t /\ ~m.stray)
        /\ UNCHANGED <<server, refused>>
  BY DEF Open
<1> DEFINE x == [Started(t, 0) EXCEPT !.born = cmds'[t]]
<1>3. cmds' \in [Tabs -> Nat] /\ \A v \in Tabs \ {t} : cmds'[v] = cmds[v]
  BY <1>1, <1>2, CommandFacts
<1>4. x \in OpType /\ x.pc = "lock" /\ ~x.ok /\ x.born = cmds'[t]
  <2>1. Started(t, 0) \in OpType /\ Started(t, 0).pc = "lock" /\ ~Started(t, 0).ok /\ cmds'[t] \in Nat
    BY <1>1, <1>3, StartedTyped
  <2> QED BY <2>1 DEF OpType
<1>5. s \in Slots
  BY <1>2 DEF FreeSlots
<1>6. \A o \in Ops : op'[o] = IF o[1] # t THEN op[o] ELSE IF o[2] = s THEN x ELSE Idle
  BY <1>2
<1> HIDE DEF x
<1>7. \A o \in Ops : op'[o] \in OpType
  BY <1>1, <1>4, <1>6, IdleTyped DEF OpsTyped
<1>8. op' \in [Ops -> OpType]
  <2>1. op' = [o \in Ops |-> op'[o]]
    BY <1>2
  <2> QED BY <1>7, <2>1
<1>9. /\ flight' \in [Tabs -> Slots \cup {NoSlot}] /\ flight'[t] = s
      /\ \A v \in Tabs \ {t} : flight'[v] = flight[v]
  BY <1>1, <1>2, <1>5 DEF OpsTyped
<1>10. OpsTyped'
  <2>1. gen' \in [Tabs -> Int]
    BY <1>1, <1>2 DEF OpsTyped
  <2>2. ASSUME NEW v \in Tabs, flight'[v] # NoSlot PROVE op'[<<v, flight'[v]>>].pc # "idle"
    <3>1. CASE v = t
      <4>1. <<t, s>> \in Ops
        BY <1>5 DEF Ops
      <4>2. op'[<<t, s>>] = x
        BY <1>6, <4>1
      <4> QED BY <1>4, <1>9, <3>1, <4>2
    <3>2. CASE v # t
      <4>1. flight'[v] = flight[v] /\ <<v, flight[v]>> \in Ops
        BY <1>1, <1>9, <2>2, <3>2 DEF OpsTyped, Ops
      <4>2. op[<<v, flight[v]>>].pc # "idle"
        BY <1>1, <2>2, <4>1 DEF OpsTyped
      <4>3. op'[<<v, flight[v]>>] = op[<<v, flight[v]>>]
        BY <1>6, <3>2, <4>1
      <4> QED BY <4>1, <4>2, <4>3
    <3> QED BY <3>1, <3>2
  <2> QED BY <1>3, <1>8, <1>9, <2>1, <2>2 DEF OpsTyped
<1>11. StoreTyped' /\ status'[t] = "initializing" /\ \A v \in Tabs \ {t} : status'[v] = status[v]
  BY <1>1, <1>2, StoreSet DEF StoreTyped
<1>12. Tracked'
  <2> SUFFICES ASSUME NEW o \in Ops, Active(op'[o])
               PROVE  flight'[o[1]] = o[2] /\ op'[o].born = cmds'[o[1]] /\ status'[o[1]] # "authenticated"
    BY DEF Tracked
  <2>1. o[1] \in Tabs
    BY DEF Ops
  <2>2. CASE o[1] = t
    <3>1. o[2] = s /\ op'[o] = x
      BY <1>6, <2>2 DEF Active, Idle
    <3> QED BY <1>4, <1>9, <1>11, <2>2, <3>1
  <2>3. CASE o[1] # t
    <3>1. op'[o] = op[o]
      BY <1>6, <2>3
    <3>2. flight[o[1]] = o[2] /\ op[o].born = cmds[o[1]] /\ status[o[1]] # "authenticated"
      BY <1>1, <3>1 DEF Tracked
    <3> QED BY <1>3, <1>9, <1>11, <2>1, <2>3, <3>1, <3>2
  <2> QED BY <2>2, <2>3
<1>13. Locked'
  <2>1. \A o \in Ops : HoldsLock(o)' => HoldsLock(o)
    BY <1>4, <1>6 DEF HoldsLock, Idle
  <2> QED BY <1>1, <2>1 DEF Locked
<1>14. Mail'
  <2>1. /\ \A n \in Awaited(up)' : n \in Awaited(up) /\ n.from[1] # t
        /\ \A n \in Awaited(down)' : n \in Awaited(down) /\ n.from[1] # t
    BY <1>1, <1>2, DisownAwaited
  <2>2. \A o \in Ops : op'[o].pc = "fetch" => ~op'[o].aborted
    BY <1>1, <1>4, <1>6 DEF Mail, Idle
  <2>3. ASSUME NEW n \in Awaited(up)' \cup Awaited(down)' PROVE op'[n.from].pc = "fetch"
    <3>1. n \in Awaited(up) \cup Awaited(down) /\ n.from[1] # t
      BY <2>1, <2>3
    <3>2. n.from \in Ops
      BY <1>1, <3>1 DEF NetTyped, Awaited, Upward, Downward
    <3>3. op[n.from].pc = "fetch"
      BY <1>1, <3>1 DEF Mail
    <3> QED BY <1>6, <3>1, <3>2, <3>3
  <2> QED BY <1>1, <2>1, <2>2, <2>3 DEF Mail
<1>15. NetTyped'
  BY <1>1, <1>2, DisownTyped
<1>16. ServerTyped'
  <2>1. ended' \in BOOLEAN
    BY <1>1, <1>2 DEF ServerTyped
  <2> QED BY <1>1, <1>2, <2>1 DEF ServerTyped, server
<1>17. Safe'
  <2> SUFFICES ASSUME ~ended' PROVE Cookies' /\ ~refused'
    BY DEF Safe
  <2>1. Cookies /\ ~refused /\ \A m \in up \cup down : m.kind = "refresh" /\ m.from[1] = t => m.stray
    BY <1>1, <1>2 DEF Safe
  <2>2. notices' = {} /\ jar' = jar /\ rows' = rows /\ refused' = refused
    BY <1>2, <2>1 DEF Cookies, server
  <2>3. \A m \in Renewals : rows'[m.set] # NoUser /\ m.set # jar'
    BY <2>1, <2>2 DEF Cookies
  <2>4. \A m \in Renewing : rows'[m.cookie] # NoUser /\ (m.stray \/ m.from[1] = t => m.cookie # jar')
    <3>1. \A m \in Renewing : m \in up /\ m.kind = "refresh"
      BY DEF Renewing
    <3>2. \A m \in Renewing : rows[m.cookie] # NoUser /\ (m.stray => m.cookie # jar)
      BY <2>1 DEF Cookies
    <3> QED BY <2>1, <2>2, <3>1, <3>2
  <2>5. jar' # 0 /\ rows'[jar'] = NoUser => \E m \in Renewals : ~m.stray /\ m.from[1] # t
    <3>1. \A m \in Renewals : m \in down /\ m.kind = "refresh"
      BY DEF Renewals
    <3>2. jar # 0 /\ rows[jar] = NoUser => \E m \in Renewals : ~m.stray
      BY <2>1 DEF Cookies
    <3> QED BY <2>1, <2>2, <3>1, <3>2
  <2> QED BY <1>1, <1>2, <2>1, <2>2, <2>3, <2>4, <2>5, DisownCookies
<1>18. \A o \in Ops : Fair(o)
  BY <1>4, <1>6 DEF Fair, Idle
<1> QED BY <1>10, <1>11, <1>12, <1>13, <1>14, <1>15, <1>16, <1>17, <1>18 DEF IInv, Typed

(* A step that leaves the refreshes alone and does not authenticate. *)
LEMMA StatusStep ==
  ASSUME IInv, StoreTyped', UNCHANGED <<gen, flight, op, cmds, net, notices, server, ended, refused>>,
         \A v \in Tabs : status'[v] = "authenticated" => status[v] = "authenticated"
  PROVE  IInv' /\ \A o \in Ops : Fair(o)
<1>1. /\ OpsTyped /\ Tracked /\ Locked /\ Mail /\ NetTyped' /\ ServerTyped' /\ Safe'
  BY Quiet DEF IInv, Typed
<1>2. OpsTyped' /\ Locked' /\ Mail'
  BY <1>1 DEF OpsTyped, Locked, HoldsLock, Mail, Awaited, net
<1>3. Tracked'
  BY <1>1 DEF Tracked, Ops
<1> QED BY <1>1, <1>2, <1>3 DEF IInv, Typed, Fair

LEMMA RetryKeeps ==
  ASSUME IInv, NEW t \in Tabs, Retry(t)
  PROVE  IInv' /\ \A o \in Ops : Fair(o)
<1>1. PICK s \in Slots : \/ flight[t] = NoSlot /\ Refresh(t, s)
                        \/ /\ flight[t] = s
                           /\ SetStore(t, "initializing", user[t], NoUser)
                           /\ UNCHANGED <<op, queue, flight>>
  BY DEF Retry
<1>2. UNCHANGED <<gen, net, notices, server, cmds, ended, refused>>
  BY DEF Retry
<1>3. CASE Refresh(t, s)
  BY <1>2, <1>3, RefreshKeeps
<1>4. CASE SetStore(t, "initializing", user[t], NoUser) /\ UNCHANGED <<op, queue, flight>>
  <2>1. StoreTyped /\ user[t] \in Users \cup {NoUser}
    BY DEF IInv, Typed, StoreTyped
  <2>2. StoreTyped' /\ status'[t] = "initializing" /\ \A v \in Tabs \ {t} : status'[v] = status[v]
    BY <1>4, <2>1, StoreSet
  <2>3. \A v \in Tabs : status'[v] = "authenticated" => status[v] = "authenticated"
    BY <2>2
  <2> QED BY <1>2, <1>4, <2>2, <2>3, StatusStep
<1> QED BY <1>1, <1>3, <1>4

LEMMA LogoutKeeps ==
  ASSUME IInv, NEW t \in Tabs, Logout(t)
  PROVE  IInv' /\ \A o \in Ops : Fair(o)
<1> DEFINE m == [kind |-> "logout", from |-> t, cookie |-> jar]
<1>1. /\ Typed /\ StoreTyped /\ OpsTyped /\ NetTyped /\ ServerTyped /\ Tracked /\ Locked /\ Mail
      /\ Command(t, "logout") /\ status[t] = "authenticated"
      /\ gen' = [gen EXCEPT ![t] = @ + 1]
      /\ flight' = [flight EXCEPT ![t] = NoSlot]
      /\ ClearAuthState(t) /\ up' = up \cup {m} /\ ended' = TRUE
      /\ UNCHANGED <<op, down, server, refused>>
  BY DEF IInv, Typed, Logout
<1>2. cmds' \in [Tabs -> Nat] /\ \A v \in Tabs \ {t} : cmds'[v] = cmds[v]
  BY <1>1, CommandFacts
<1>3. StoreTyped' /\ \A v \in Tabs \ {t} : status'[v] = status[v]
  BY <1>1, StoreCleared
<1>4. m \in Upward /\ m.kind = "logout"
  BY <1>1 DEF ServerTyped, Upward
<1> HIDE DEF m
<1>5. NetTyped' /\ Awaited(up)' = Awaited(up) /\ Awaited(down)' = Awaited(down)
  BY <1>1, <1>4 DEF NetTyped, Awaited
<1>6. ServerTyped' /\ Safe'
  BY <1>1 DEF ServerTyped, server, Safe
<1>7. /\ flight' \in [Tabs -> Slots \cup {NoSlot}] /\ flight'[t] = NoSlot
      /\ \A v \in Tabs \ {t} : flight'[v] = flight[v]
  BY <1>1 DEF OpsTyped
<1>8. OpsTyped'
  <2>1. gen' \in [Tabs -> Int]
    BY <1>1 DEF OpsTyped
  <2>2. \A v \in Tabs : flight'[v] # NoSlot => op'[<<v, flight'[v]>>].pc # "idle"
    BY <1>1, <1>7 DEF OpsTyped
  <2> QED BY <1>1, <1>2, <1>7, <2>1, <2>2 DEF OpsTyped
<1>9. Tracked'
  <2> SUFFICES ASSUME NEW o \in Ops, Active(op[o])
               PROVE  flight'[o[1]] = o[2] /\ op[o].born = cmds'[o[1]] /\ status'[o[1]] # "authenticated"
    BY <1>1 DEF Tracked
  <2>1. o[1] \in Tabs
    BY DEF Ops
  <2>2. flight[o[1]] = o[2] /\ op[o].born = cmds[o[1]] /\ status[o[1]] # "authenticated"
    BY <1>1 DEF Tracked
  <2> QED BY <1>1, <1>2, <1>3, <1>7, <2>1, <2>2
<1>10. Locked' /\ Mail'
  BY <1>1, <1>5 DEF Locked, HoldsLock, Mail
<1>11. \A o \in Ops : Fair(o)
  BY <1>1 DEF Fair
<1> QED BY <1>3, <1>5, <1>6, <1>8, <1>9, <1>10, <1>11 DEF IInv, Typed

LEMMA RequestKeeps ==
  ASSUME IInv, NEW t \in Tabs, Request(t) \/ RequestStep(t)
  PROVE  IInv' /\ \A o \in Ops : Fair(o)
<1>1. StoreTyped
  BY DEF IInv, Typed
<1>2. CASE Request(t) \/ Answered(t)
  <2>1. UNCHANGED <<store, gen, flight, op, cmds, net, notices, server, ended, refused>>
    BY <1>2 DEF Request, Answered
  <2>2. StoreTyped' /\ status' = status
    BY <1>1, <2>1, StoreSame
  <2> QED BY <2>1, <2>2, StatusStep
<1>3. CASE FirstRefused(t)
  <2>1. PICK s \in Slots : Refresh(t, s)
    BY <1>3 DEF FirstRefused
  <2>2. UNCHANGED <<gen, net, notices, server, cmds, ended, refused>>
    BY <1>3 DEF FirstRefused
  <2> QED BY <2>1, <2>2, RefreshKeeps
<1>4. CASE SecondRefused(t)
  <2>1. ClearAuthState(t) /\ UNCHANGED <<gen, flight, op, cmds, net, notices, server, ended, refused>>
    BY <1>4 DEF SecondRefused
  <2>2. StoreTyped' /\ status'[t] = "anonymous" /\ \A v \in Tabs \ {t} : status'[v] = status[v]
    BY <1>1, <2>1, StoreCleared
  <2>3. \A v \in Tabs : status'[v] = "authenticated" => status[v] = "authenticated"
    BY <2>2
  <2> QED BY <2>1, <2>2, <2>3, StatusStep
<1> QED BY <1>2, <1>3, <1>4 DEF RequestStep

----------------------------------------------------------------------------
(* The steps of a refresh. *)
LEMMA WithPc ==
  ASSUME NEW x \in OpType, NEW p \in {"idle", "lock", "fetch", "body", "done"}
  PROVE  /\ [x EXCEPT !.pc = p] \in OpType /\ [x EXCEPT !.pc = p].pc = p
         /\ [x EXCEPT !.pc = p].born = x.born /\ [x EXCEPT !.pc = p].aborted = x.aborted
         /\ [x EXCEPT !.pc = p].ok = x.ok
BY DEF OpType

(* A refresh that gets the lock sends its request with the session in the   *)
(* jar: no other request carries it, and no answer is about to replace it.  *)
LEMMA FetchKeeps ==
  ASSUME IInv, NEW o \in Ops, Fetch(o)
  PROVE  IInv' /\ \A p \in Ops : Fair(p)
<1> DEFINE m == [kind |-> "refresh", from |-> o, stray |-> FALSE, cookie |-> jar]
<1>1. /\ Typed /\ StoreTyped /\ OpsTyped /\ NetTyped /\ ServerTyped /\ Mail /\ Safe
      /\ op[o] \in OpType /\ op[o].pc = "lock" /\ \A p \in Ops : ~HoldsLock(p)
      /\ UNCHANGED <<store, gen, flight, down, notices, server, cmds, ended, refused>>
  BY DEF IInv, Typed, OpsTyped, Fetch, Granted
<1>2. StoreTyped' /\ status' = status
  BY <1>1, StoreSame
<1>3. Awaited(up) = {} /\ Awaited(down) = {}
  <2>1. \A n \in Awaited(up) \cup Awaited(down) : n.from \in Ops /\ op[n.from].pc = "fetch"
    BY <1>1 DEF Mail, NetTyped, Awaited, Upward, Downward
  <2> QED BY <1>1, <2>1 DEF HoldsLock
<1>4. m \in Upward /\ m.kind = "refresh" /\ ~m.stray /\ m.cookie = jar /\ m.from = o
  BY <1>1 DEF ServerTyped, Upward
<1> HIDE DEF m
<1>5. CASE op[o].aborted
  <2> DEFINE x == [op[o] EXCEPT !.pc = "done"]
  <2>1. op' = [op EXCEPT ![o] = x] /\ UNCHANGED up
    BY <1>5 DEF Fetch
  <2>2. x \in OpType /\ x.pc = "done" /\ x.born = op[o].born /\ x.ok = op[o].ok
    BY <1>1, WithPc
  <2> HIDE DEF x
  <2>3. OpsTyped' /\ Tracked' /\ Locked' /\ op'[o] = x /\ \A p \in Ops \ {o} : op'[p] = op[p]
    BY <1>1, <1>2, <2>1, <2>2, OpStep DEF Active
  <2>4. NetTyped' /\ ServerTyped' /\ Safe'
    BY <1>1, <2>1, Quiet DEF net
  <2>5. Mail'
    BY <1>1, <1>3, <2>1, <2>2, <2>3 DEF Mail, Awaited
  <2>6. \A p \in Ops : Fair(p)
    BY <2>2, <2>3 DEF Fair
  <2> QED BY <1>2, <2>3, <2>4, <2>5, <2>6 DEF IInv, Typed
<1>6. CASE ~op[o].aborted
  <2> DEFINE x == [op[o] EXCEPT !.pc = "fetch"]
  <2>1. op' = [op EXCEPT ![o] = x] /\ up' = up \cup {m}
    BY <1>6 DEF Fetch, m
  <2>2. x \in OpType /\ x.pc = "fetch" /\ x.born = op[o].born /\ x.ok = op[o].ok /\ ~x.aborted
    BY <1>1, <1>6, WithPc
  <2> HIDE DEF x
  <2>3. status[o[1]] # "authenticated"
    BY <1>1, <1>6 DEF IInv, Tracked, Active
  <2>4. OpsTyped' /\ Tracked' /\ Locked' /\ op'[o] = x /\ \A p \in Ops \ {o} : op'[p] = op[p]
    BY <1>1, <1>2, <1>6, <2>1, <2>2, <2>3, OpStep DEF Active
  <2>5. NetTyped' /\ ServerTyped'
    BY <1>1, <1>4, <2>1 DEF NetTyped, ServerTyped, server
  <2>6. Awaited(up)' = {m} /\ Awaited(down)' = {}
    BY <1>1, <1>3, <1>4, <2>1 DEF Awaited
  <2>7. Mail'
    BY <1>1, <1>4, <2>2, <2>4, <2>6 DEF Mail
  <2>8. Safe'
    <3> SUFFICES ASSUME ~ended PROVE Cookies' /\ ~refused
      BY <1>1 DEF Safe
    <3>1. Cookies /\ ~refused
      BY <1>1 DEF Safe
    <3>2. Renewals' = Renewals /\ rows' = rows /\ jar' = jar
      BY <1>1 DEF Renewals, server
    <3>3. \A n \in Renewing' : n \in Renewing \/ (n = m /\ jar # 0)
      BY <1>4, <2>1 DEF Renewing
    <3>4. jar # 0 => rows[jar] # NoUser
      <4> SUFFICES ASSUME jar # 0, rows[jar] = NoUser PROVE FALSE
        OBVIOUS
      <4>1. PICK n \in Renewals : ~n.stray
        BY <3>1 DEF Cookies
      <4>2. n \in Awaited(down)
        BY <4>1 DEF Renewals, Awaited
      <4> QED BY <1>3, <4>2
    <3>5. \A n \in Renewing : n.cookie # jar
      <4> TAKE n \in Renewing
      <4>1. n.stray
        BY <1>3 DEF Renewing, Awaited
      <4> QED BY <3>1, <4>1 DEF Cookies
    <3>6. \A n \in Renewals' : rows'[n.set] # NoUser /\ n.set # jar' /\ \A k \in Renewing' : k.cookie # n.set
      BY <1>4, <3>1, <3>2, <3>3 DEF Cookies
    <3>7. \A n \in Renewing' : rows'[n.cookie] # NoUser /\ (n.stray => n.cookie # jar')
      BY <1>4, <3>1, <3>2, <3>3, <3>4 DEF Cookies
    <3>8. \A n, k \in Renewing' : n.cookie = k.cookie => n = k
      BY <1>4, <3>1, <3>3, <3>5 DEF Cookies
    <3>9. /\ \A n \in up' \cup down' : n.kind = "refresh"
          /\ notices' = {} /\ \A n \in down' : n.set # 0
      BY <1>1, <1>4, <2>1, <3>1 DEF Cookies
    <3>10. /\ \A n, k \in Renewals' : n.set = k.set => n = k
           /\ jar' # 0 /\ rows'[jar'] = NoUser => \E n \in Renewals' : ~n.stray
      BY <3>1, <3>2 DEF Cookies
    <3> QED BY <3>1, <3>6, <3>7, <3>8, <3>9, <3>10 DEF Cookies
  <2>9. \A p \in Ops : Fair(p)
    BY <2>2, <2>4 DEF Fair
  <2> QED BY <1>2, <2>4, <2>5, <2>7, <2>8, <2>9 DEF IInv, Typed
<1> QED BY <1>5, <1>6

LEMMA ReadBodyKeeps ==
  ASSUME IInv, NEW o \in Ops, ReadBody(o)
  PROVE  IInv' /\ \A p \in Ops : Fair(p)
<1>1. /\ Typed /\ StoreTyped /\ OpsTyped /\ NetTyped /\ ServerTyped /\ Tracked /\ Mail
      /\ op[o] \in OpType /\ op[o].pc = "body" /\ HoldsLock(o) /\ o[1] \in Tabs
      /\ UNCHANGED <<gen, flight, net, notices, server, cmds, ended, refused>>
  BY DEF IInv, Typed, OpsTyped, ReadBody, HoldsLock, Ops
<1>2. NetTyped' /\ ServerTyped' /\ Safe'
  BY <1>1, Quiet
<1>3. \A x : op'[o] = x /\ x.pc = "done" /\ (\A p \in Ops \ {o} : op'[p] = op[p]) => Mail'
  <2>1. \A n \in Awaited(up) \cup Awaited(down) : n.from \in Ops /\ op[n.from].pc = "fetch"
    BY <1>1 DEF Mail, NetTyped, Awaited, Upward, Downward
  <2>2. Awaited(up)' = Awaited(up) /\ Awaited(down)' = Awaited(down)
    BY <1>1 DEF Awaited, net
  <2>3. \A n \in Awaited(up) \cup Awaited(down) : n.from \in Ops \ {o}
    BY <1>1, <2>1
  <2> QED BY <1>1, <2>1, <2>2, <2>3 DEF Mail
<1>4. CASE op[o].aborted \/ op[o].body = NoUser
  <2> DEFINE x == [op[o] EXCEPT !.pc = "done"]
  <2>1. op' = [op EXCEPT ![o] = x] /\ ClearAuthState(o[1])
    BY <1>4 DEF ReadBody
  <2>2. x \in OpType /\ x.pc = "done" /\ x.born = op[o].born /\ x.ok = op[o].ok
    BY <1>1, WithPc
  <2> HIDE DEF x
  <2>3. StoreTyped' /\ status'[o[1]] = "anonymous" /\ \A v \in Tabs \ {o[1]} : status'[v] = status[v]
    BY <1>1, <2>1, StoreCleared
  <2>4. OpsTyped' /\ Tracked' /\ Locked' /\ op'[o] = x /\ \A p \in Ops \ {o} : op'[p] = op[p]
    BY <1>1, <2>1, <2>2, <2>3, OpStep DEF Active
  <2>5. \A p \in Ops : Fair(p)
    BY <2>2, <2>4 DEF Fair
  <2> QED BY <1>2, <1>3, <2>2, <2>3, <2>4, <2>5 DEF IInv, Typed
<1>5. CASE ~(op[o].aborted \/ op[o].body = NoUser)
  <2> DEFINE x == [op[o] EXCEPT !.pc = "done", !.ok = TRUE]
  <2>1. op' = [op EXCEPT ![o] = x] /\ SetStore(o[1], "authenticated", op[o].body, op[o].body)
    BY <1>5 DEF ReadBody
  <2>2. x \in OpType /\ x.pc = "done" /\ x.born = op[o].born
    BY <1>1 DEF OpType
  <2> HIDE DEF x
  <2>3. op[o].body \in Users
    BY <1>1, <1>5 DEF OpType
  <2>4. StoreTyped' /\ \A v \in Tabs \ {o[1]} : status'[v] = status[v]
    BY <1>1, <2>1, <2>3, StoreSet
  <2>5. Active(op[o])
    BY <1>1, <1>5 DEF Active
  <2>6. OpsTyped' /\ Tracked' /\ Locked' /\ op'[o] = x /\ \A p \in Ops \ {o} : op'[p] = op[p]
    BY <1>1, <2>1, <2>2, <2>4, <2>5, OpStep DEF Active
  <2>7. op[o].born = cmds[o[1]]
    BY <1>1, <2>5 DEF Tracked
  <2>8. \A p \in Ops : Fair(p)
    BY <2>6, <2>7 DEF Fair
  <2> QED BY <1>2, <1>3, <2>2, <2>4, <2>6, <2>8 DEF IInv, Typed
<1> QED BY <1>4, <1>5

LEMMA FinallyKeeps ==
  ASSUME IInv, NEW o \in Ops, Finally(o)
  PROVE  IInv' /\ \A p \in Ops : Fair(p)
<1>1. /\ Typed /\ StoreTyped /\ OpsTyped /\ NetTyped /\ ServerTyped /\ Tracked /\ Locked /\ Mail
      /\ op[o].pc = "done" /\ o[1] \in Tabs /\ o[2] \in Slots /\ o = <<o[1], o[2]>>
      /\ op' = [op EXCEPT ![o] = Idle]
      /\ flight' = [flight EXCEPT ![o[1]] = IF @ = o[2] THEN NoSlot ELSE @]
      /\ UNCHANGED <<store, gen, net, notices, server, cmds, ended, refused>>
  BY DEF IInv, Typed, Finally, Ops
<1>2. StoreTyped' /\ status' = status /\ NetTyped' /\ ServerTyped' /\ Safe'
  BY <1>1, StoreSame, Quiet
<1>3. op' \in [Ops -> OpType] /\ op'[o] = Idle /\ \A p \in Ops \ {o} : op'[p] = op[p]
  BY <1>1, IdleTyped DEF OpsTyped
<1>4. /\ flight' \in [Tabs -> Slots \cup {NoSlot}] /\ \A v \in Tabs \ {o[1]} : flight'[v] = flight[v]
      /\ flight'[o[1]] = IF flight[o[1]] = o[2] THEN NoSlot ELSE flight[o[1]]
  BY <1>1 DEF OpsTyped
<1>5. OpsTyped'
  <2>1. ASSUME NEW v \in Tabs, flight'[v] # NoSlot PROVE op'[<<v, flight'[v]>>].pc # "idle"
    <3>1. flight'[v] = flight[v] /\ <<v, flight[v]>> # o
      BY <1>1, <1>4, <2>1
    <3>2. <<v, flight[v]>> \in Ops /\ op[<<v, flight[v]>>].pc # "idle"
      BY <1>1, <2>1, <3>1 DEF OpsTyped, Ops
    <3> QED BY <1>3, <3>1, <3>2
  <2> QED BY <1>1, <1>3, <1>4, <2>1 DEF OpsTyped
<1>6. Tracked'
  <2> SUFFICES ASSUME NEW p \in Ops, Active(op'[p])
               PROVE  flight'[p[1]] = p[2] /\ op'[p].born = cmds[p[1]] /\ status[p[1]] # "authenticated"
    BY <1>1, <1>2 DEF Tracked
  <2>1. p # o /\ op'[p] = op[p] /\ p[1] \in Tabs /\ p = <<p[1], p[2]>>
    BY <1>3 DEF Active, Idle, Ops
  <2>2. flight[p[1]] = p[2] /\ op[p].born = cmds[p[1]] /\ status[p[1]] # "authenticated"
    BY <1>1, <2>1 DEF Tracked
  <2> QED BY <1>1, <1>4, <2>1, <2>2
<1>7. Locked'
  <2>1. \A p \in Ops : HoldsLock(p)' => HoldsLock(p)
    BY <1>3 DEF HoldsLock, Idle
  <2> QED BY <1>1, <2>1 DEF Locked
<1>8. Mail'
  <2>1. \A n \in Awaited(up) \cup Awaited(down) : n.from \in Ops /\ op[n.from].pc = "fetch"
    BY <1>1 DEF Mail, NetTyped, Awaited, Upward, Downward
  <2>2. Awaited(up)' = Awaited(up) /\ Awaited(down)' = Awaited(down)
    BY <1>1 DEF Awaited, net
  <2>3. \A n \in Awaited(up) \cup Awaited(down) : n.from \in Ops \ {o}
    BY <1>1, <2>1
  <2> QED BY <1>1, <1>3, <2>1, <2>2, <2>3 DEF Mail, Idle
<1>9. \A p \in Ops : Fair(p)
  BY <1>3 DEF Fair, Idle
<1> QED BY <1>2, <1>5, <1>6, <1>7, <1>8, <1>9 DEF IInv, Typed

LEMMA RevokeKeeps ==
  ASSUME IInv, NEW s \in Sessions, Revoke(s)
  PROVE  IInv' /\ \A p \in Ops : Fair(p)
<1>1. /\ StoreTyped /\ OpsTyped /\ NetTyped /\ ServerTyped /\ Tracked /\ Locked /\ Mail
      /\ UNCHANGED <<store, gen, flight, op, net, jar, cmds, refused>>
      /\ rows' = [rows EXCEPT ![s] = NoUser] /\ ended' = TRUE
  BY DEF IInv, Typed, Revoke
<1>2. StoreTyped' /\ status' = status
  BY <1>1, StoreSame
<1>3. OpsTyped' /\ Tracked' /\ Locked'
  BY <1>1, <1>2 DEF OpsTyped, Tracked, Locked, HoldsLock
<1>4. NetTyped' /\ Mail'
  BY <1>1 DEF NetTyped, Mail, Awaited, net
<1>5. ServerTyped' /\ Safe'
  BY <1>1 DEF ServerTyped, Safe
<1> QED BY <1>1, <1>2, <1>3, <1>4, <1>5 DEF IInv, Typed, Fair

----------------------------------------------------------------------------
(* The network and the API. *)

(* What the headers of an awaited answer do to the refresh and its tab. *)
LEMMA HeadersKeep ==
  ASSUME IInv, NEW o \in Ops, op[o].pc = "fetch", NEW is, NEW u \in Users \cup {NoUser},
         Headers(o, is, u), UNCHANGED <<gen, flight, cmds>>
  PROVE  /\ StoreTyped' /\ OpsTyped' /\ Tracked' /\ Locked'
         /\ op'[o].pc \in {"done", "body"} /\ \A p \in Ops \ {o} : op'[p] = op[p]
         /\ \A p \in Ops : Fair(p)
<1>1. /\ StoreTyped /\ OpsTyped /\ Tracked /\ Mail /\ op[o] \in OpType /\ o[1] \in Tabs /\ HoldsLock(o)
  BY DEF IInv, Typed, OpsTyped, Ops, HoldsLock
<1>2. ~op[o].aborted /\ Active(op[o]) /\ status[o[1]] # "authenticated"
  BY <1>1 DEF Mail, Tracked, Active
<1> DEFINE d == [op[o] EXCEPT !.pc = "done"]
           b == [op[o] EXCEPT !.pc = "body", !.body = u]
<1>3. d \in OpType /\ d.pc = "done" /\ d.born = op[o].born /\ d.ok = op[o].ok
  BY <1>1, WithPc
<1>4. b \in OpType /\ b.pc = "body" /\ b.born = op[o].born /\ b.ok = op[o].ok /\ ~b.aborted
  BY <1>1, <1>2 DEF OpType
<1>5. \/ UNCHANGED store /\ op' = [op EXCEPT ![o] = d]
      \/ ClearAuthState(o[1]) /\ op' = [op EXCEPT ![o] = d]
      \/ EnterUnavailable(o[1]) /\ op' = [op EXCEPT ![o] = d]
      \/ UNCHANGED store /\ op' = [op EXCEPT ![o] = b]
  BY DEF Headers
<1> HIDE DEF d, b
<1>6. /\ StoreTyped' /\ status'[o[1]] # "authenticated"
      /\ \A v \in Tabs \ {o[1]} : status'[v] = status[v]
  BY <1>1, <1>2, <1>5, StoreSame, StoreCleared, StoreUnavailable
<1>7. PICK x \in {d, b} : op' = [op EXCEPT ![o] = x]
  BY <1>5
<1>8. OpsTyped' /\ Tracked' /\ Locked' /\ op'[o] = x /\ \A p \in Ops \ {o} : op'[p] = op[p]
  <2>1. x \in OpType /\ x.pc # "idle" /\ x.born = op[o].born
    BY <1>3, <1>4, <1>7
  <2> QED BY <1>1, <1>2, <1>6, <1>7, <2>1, OpStep
<1>9. x.pc \in {"done", "body"} /\ x.ok = op[o].ok
  BY <1>3, <1>4, <1>7
<1> QED BY <1>6, <1>8, <1>9 DEF Fair

(* An answer that arrives puts its session into the jar. *)
LEMMA ArriveCookies ==
  ASSUME Cookies, NEW m \in down, down' = down \ {m}, UNCHANGED <<up, notices, rows>>,
         \/ jar' = IF m.set = Unset THEN jar ELSE m.set
         \/ m.stray /\ UNCHANGED jar
  PROVE  Cookies'
<1>1. m.kind = "refresh" /\ m.set # 0
  BY DEF Cookies
<1>2. Renewing' = Renewing /\ Renewals' = Renewals \ {m}
  BY DEF Renewing, Renewals
<1>3. /\ \A n \in up' \cup down' : n.kind = "refresh"
      /\ notices' = {} /\ \A n \in down' : n.set # 0
      /\ \A n, k \in Renewals' : n.set = k.set => n = k
      /\ \A n, k \in Renewing' : n.cookie = k.cookie => n = k
      /\ \A n \in Renewals' : rows'[n.set] # NoUser /\ \A k \in Renewing' : k.cookie # n.set
      /\ \A n \in Renewing' : rows'[n.cookie] # NoUser
  BY <1>2 DEF Cookies
<1>4. CASE jar' = jar /\ (m.stray \/ m \notin Renewals)
  <2>1. \A n \in Renewals' : n.set # jar'
    BY <1>2, <1>4 DEF Cookies
  <2>2. \A n \in Renewing' : n.stray => n.cookie # jar'
    BY <1>2, <1>4 DEF Cookies
  <2>3. jar' # 0 /\ rows'[jar'] = NoUser => \E n \in Renewals' : ~n.stray
    BY <1>2, <1>4 DEF Cookies
  <2> QED BY <1>3, <2>1, <2>2, <2>3 DEF Cookies
<1>5. CASE jar' = m.set /\ m \in Renewals
  <2>1. \A n \in Renewals' : n.set # jar'
    BY <1>2, <1>5 DEF Cookies
  <2>2. \A n \in Renewing' : n.cookie # jar'
    BY <1>2, <1>5 DEF Cookies
  <2>3. rows'[jar'] # NoUser
    BY <1>5 DEF Cookies
  <2> QED BY <1>3, <2>1, <2>2, <2>3 DEF Cookies
<1>6. m \in Renewals <=> m.set # Unset
  BY <1>1 DEF Renewals
<1> QED BY <1>4, <1>5, <1>6

LEMMA ArriveKeeps ==
  ASSUME IInv, NEW m \in down, Arrive(m)
  PROVE  IInv' /\ \A p \in Ops : Fair(p)
<1>1. /\ StoreTyped /\ OpsTyped /\ NetTyped /\ ServerTyped /\ Tracked /\ Locked /\ Mail /\ Safe
      /\ down' = down \ {m} /\ m \in Downward
      /\ \/ jar' = IF m.set = Unset THEN jar ELSE m.set
         \/ m.kind = "refresh" /\ m.stray /\ m.set # Unset /\ UNCHANGED jar
      /\ UNCHANGED <<gen, flight, up, notices, rows, cmds, ended>>
  BY DEF IInv, Typed, NetTyped, Arrive
<1>2. m.set \in Unset..MaxSession
  BY <1>1, Constants DEF Downward, Unset
<1>3. NetTyped' /\ jar' \in 0..MaxSession
  <2>1. jar' \in 0..MaxSession
    BY <1>1, <1>2, Constants DEF ServerTyped, Unset
  <2> QED BY <1>1, <2>1 DEF NetTyped
<1>4. CASE m.kind = "refresh" /\ ~m.stray
  <2>1. /\ m \in Awaited(down) /\ m.from \in Ops /\ m.user \in Users \cup {NoUser}
        /\ op[m.from].pc = "fetch"
    BY <1>1, <1>4 DEF Mail, Awaited, Downward
  <2>2. /\ Headers(m.from, m.is, m.user)
        /\ refused' = (refused \/ (m.is = "refused" /\ m.set # Unset))
    BY <1>4 DEF Arrive
  <2>3. /\ StoreTyped' /\ OpsTyped' /\ Tracked' /\ Locked'
        /\ op'[m.from].pc \in {"done", "body"} /\ \A p \in Ops \ {m.from} : op'[p] = op[p]
        /\ \A p \in Ops : Fair(p)
    BY <1>1, <2>1, <2>2, HeadersKeep
  <2>4. Awaited(up)' = {} /\ Awaited(down)' = {}
    BY <1>1, <2>1 DEF Mail, Awaited
  <2>5. Mail'
    BY <1>1, <2>3, <2>4 DEF Mail
  <2>6. ServerTyped'
    BY <1>1, <1>3, <2>2 DEF ServerTyped
  <2>7. Safe'
    <3> SUFFICES ASSUME ~ended PROVE Cookies' /\ ~refused'
      BY <1>1 DEF Safe
    <3>1. Cookies /\ ~refused
      BY <1>1 DEF Safe
    <3>2. Cookies'
      BY <1>1, <1>4, <3>1, ArriveCookies
    <3>3. m.is = "refused" => m.set = Unset
      BY <1>1, <1>4, <3>1 DEF Cookies, NetTyped
    <3> QED BY <2>2, <3>1, <3>2, <3>3
  <2> QED BY <1>3, <2>3, <2>5, <2>6, <2>7 DEF IInv, Typed
<1>5. CASE ~(m.kind = "refresh" /\ ~m.stray)
  <2>1. UNCHANGED <<store, op, refused>>
    BY <1>5 DEF Arrive
  <2>2. StoreTyped' /\ status' = status
    BY <1>1, <2>1, StoreSame
  <2>3. OpsTyped' /\ Tracked' /\ Locked'
    BY <1>1, <2>1, <2>2 DEF OpsTyped, Tracked, Locked, HoldsLock
  <2>4. Awaited(up)' = Awaited(up) /\ Awaited(down)' = Awaited(down)
    BY <1>1, <1>5 DEF Awaited
  <2>5. Mail'
    BY <1>1, <2>1, <2>4 DEF Mail
  <2>6. ServerTyped'
    BY <1>1, <1>3, <2>1 DEF ServerTyped
  <2>7. Safe'
    <3> SUFFICES ASSUME ~ended PROVE Cookies' /\ ~refused'
      BY <1>1 DEF Safe
    <3>1. Cookies /\ ~refused
      BY <1>1 DEF Safe
    <3> QED BY <1>1, <2>1, <3>1, ArriveCookies
  <2> QED BY <1>3, <2>1, <2>2, <2>3, <2>5, <2>6, <2>7 DEF IInv, Typed, Fair
<1> QED BY <1>4, <1>5

LEMMA BackTyped ==
  ASSUME NEW m \in Upward, m.kind = "refresh",
         NEW is \in {"ok", "refused", "error", "broken", "lost"}, NEW u \in Users \cup {NoUser},
         NEW c \in Unset..MaxSession
  PROVE  /\ Back(m, is, u, c) \in Downward /\ Back(m, is, u, c).kind = "refresh"
         /\ Back(m, is, u, c).from = m.from /\ Back(m, is, u, c).stray = m.stray
         /\ Back(m, is, u, c).set = c /\ Back(m, is, u, c).is = is
BY DEF Back, Upward, Downward

(* A rotation moves a session from the request into the answer. *)
LEMMA RotateCookies ==
  ASSUME NetTyped, ServerTyped, Cookies, NEW m \in Renewing, NEW b, NEW s \in Fresh,
         b.kind = "refresh", b.set = s, b.stray = m.stray,
         up' = up \ {m}, down' = down \cup {b},
         rows' = [rows EXCEPT ![m.cookie] = NoUser, ![s] = rows[m.cookie]],
         UNCHANGED <<jar, notices>>
  PROVE  Cookies'
<1>1. s \in Sessions /\ s # 0 /\ s # Unset /\ rows[s] = NoUser /\ s # jar /\ (\A n \in up : n.cookie # s)
      /\ \A n \in down : n.set # s
  BY FreshFacts, Constants DEF Sessions, Unset
<1>2. m \in up /\ m.kind = "refresh" /\ m.cookie \in Sessions /\ rows[m.cookie] # NoUser /\ m.cookie # s
  <2>1. m \in up /\ m.kind = "refresh" /\ m.cookie # 0
    BY DEF Renewing
  <2>2. m.cookie \in Sessions
    BY <2>1, Constants DEF NetTyped, Upward, Sessions
  <2> QED BY <1>1, <2>1, <2>2 DEF Cookies
<1>3. /\ rows'[s] # NoUser
      /\ \A r \in Sessions : r # m.cookie /\ rows[r] # NoUser => rows'[r] # NoUser
      /\ \A r \in Sessions : r # m.cookie /\ rows'[r] = NoUser => rows[r] = NoUser
  BY <1>1, <1>2 DEF ServerTyped
<1>4. Renewing' = Renewing \ {m}
  BY DEF Renewing
<1>5. Renewals' = Renewals \cup {b}
  BY <1>1 DEF Renewals
<1>6. \A n \in Renewals : n.set \in Sessions /\ n.set # s /\ n.set # m.cookie /\ rows[n.set] # NoUser
                            /\ n.set # jar
  <2> TAKE n \in Renewals
  <2>1. n.set \in Sessions
    BY Constants DEF Renewals, NetTyped, Downward, Unset, Sessions
  <2>2. n.set # s
    BY <1>1 DEF Renewals
  <2> QED BY <2>1, <2>2 DEF Cookies
<1>7. \A n \in Renewing \ {m} : n.cookie \in Sessions /\ n.cookie # s /\ n.cookie # m.cookie
                                  /\ rows[n.cookie] # NoUser
  <2> TAKE n \in Renewing \ {m}
  <2>1. n.cookie \in Sessions
    BY Constants DEF Renewing, NetTyped, Upward, Sessions
  <2>2. n.cookie # s
    BY <1>1 DEF Renewing
  <2> QED BY <2>1, <2>2 DEF Cookies
<1>8. \A n \in Renewals' : rows'[n.set] # NoUser /\ n.set # jar' /\ \A k \in Renewing' : k.cookie # n.set
  <2>1. \A n \in Renewals : \A k \in Renewing : k.cookie # n.set
    BY DEF Cookies
  <2> QED BY <1>1, <1>3, <1>4, <1>5, <1>6, <1>7, <2>1
<1>9. \A n, k \in Renewals' : n.set = k.set => n = k
  BY <1>5, <1>6 DEF Cookies
<1>10. \A n \in Renewing' : rows'[n.cookie] # NoUser /\ (n.stray => n.cookie # jar')
  BY <1>3, <1>4, <1>7 DEF Cookies
<1>11. \A n, k \in Renewing' : n.cookie = k.cookie => n = k
  BY <1>4 DEF Cookies
<1>12. jar' # 0 /\ rows'[jar'] = NoUser => \E n \in Renewals' : ~n.stray
  <2> SUFFICES ASSUME jar # 0, rows'[jar] = NoUser PROVE \E n \in Renewals' : ~n.stray
    OBVIOUS
  <2>1. CASE jar = m.cookie
    <3>1. ~m.stray
      BY <2>1 DEF Cookies
    <3> QED BY <1>5, <3>1
  <2>2. CASE jar # m.cookie
    <3>1. jar \in Sessions
      BY Constants DEF ServerTyped, Sessions
    <3>2. rows[jar] = NoUser
      BY <1>3, <2>2, <3>1
    <3> QED BY <1>5, <3>2 DEF Cookies
  <2> QED BY <2>1, <2>2
<1>13. /\ \A n \in up' \cup down' : n.kind = "refresh"
       /\ notices' = {} /\ \A n \in down' : n.set # 0
  BY <1>1 DEF Cookies
<1> QED BY <1>8, <1>9, <1>10, <1>11, <1>12, <1>13 DEF Cookies

(* An answer without Set-Cookie changes nothing about the sessions. *)
LEMMA UnsetCookies ==
  ASSUME Cookies, NEW m \in up, NEW b, b.kind = "refresh", b.set = Unset,
         up' = up \ {m}, down' = down \cup {b}, UNCHANGED <<rows, jar, notices>>
  PROVE  Cookies'
<1>1. Renewals' = Renewals
  BY DEF Renewals
<1>2. \A n \in Renewing' : n \in Renewing
  BY DEF Renewing
<1>3. /\ \A n \in up' \cup down' : n.kind = "refresh"
      /\ notices' = {} /\ \A n \in down' : n.set # 0
  BY DEF Cookies, Unset
<1> QED BY <1>1, <1>2, <1>3 DEF Cookies

(* The answer takes the place of the request. *)
LEMMA ServeMail ==
  ASSUME Mail, NEW m \in up, NEW b, b.kind = "refresh", m.kind = "refresh", b.from = m.from, b.stray = m.stray,
         up' = up \ {m}, down' = down \cup {b}, op' = op
  PROVE  Mail'
<1>1. CASE m.stray
  <2>1. Awaited(up)' = Awaited(up) /\ Awaited(down)' = Awaited(down)
    BY <1>1 DEF Awaited
  <2> QED BY <2>1 DEF Mail
<1>2. CASE ~m.stray
  <2>1. m \in Awaited(up)
    BY <1>2 DEF Awaited
  <2>2. Awaited(down) = {} /\ \A n \in Awaited(up) : n = m
    BY <2>1 DEF Mail
  <2>3. Awaited(up)' = {} /\ Awaited(down)' = {b}
    BY <1>2, <2>2 DEF Awaited
  <2>4. op[b.from].pc = "fetch"
    BY <2>1 DEF Mail
  <2> QED BY <2>3, <2>4 DEF Mail
<1> QED BY <1>1, <1>2

LEMMA ServeRefreshKeeps ==
  ASSUME IInv, NEW m \in up, m.kind = "refresh", ServeRefresh(m),
         UNCHANGED <<store, gen, flight, op, notices, jar, cmds, refused>>
  PROVE  IInv' /\ \A p \in Ops : Fair(p)
<1>1. /\ StoreTyped /\ OpsTyped /\ NetTyped /\ ServerTyped /\ Tracked /\ Locked /\ Mail /\ Safe
      /\ up' = up \ {m} /\ m \in Upward
  BY DEF IInv, Typed, NetTyped, ServeRefresh
<1>2. StoreTyped' /\ status' = status
  BY <1>1, StoreSame
<1>3. OpsTyped' /\ Tracked' /\ Locked' /\ \A p \in Ops : Fair(p)
  BY <1>1, <1>2 DEF OpsTyped, Tracked, Locked, HoldsLock, Fair
<1> DEFINE known == m.cookie # 0 /\ rows[m.cookie] # NoUser
<1>4. m.cookie \in 0..MaxSession
  BY <1>1 DEF Upward
<1>5. Unset \in Unset..MaxSession /\ 0 \in Unset..MaxSession /\ \A s \in Sessions : s \in Unset..MaxSession
  BY Constants DEF Unset, Sessions
<1>6. known => rows[m.cookie] \in Users
  BY <1>1, <1>4, Constants DEF ServerTyped, Sessions
<1> DEFINE Reply(b) == /\ b \in Downward /\ b.kind = "refresh" /\ b.from = m.from /\ b.stray = m.stray
                       /\ b.is = "refused" => b.set \in {Unset, 0}
                       /\ down' = down \cup {b}
           Rotates(b) == \E s \in Fresh :
                           /\ rows' = [rows EXCEPT ![m.cookie] = NoUser, ![s] = rows[m.cookie]]
                           /\ b.set = s \/ ended'
<1>7. ASSUME NEW b, Reply(b) PROVE NetTyped' /\ Mail'
  <2>1. Mail'
    BY <1>1, <1>7, ServeMail
  <2>2. NetTyped'
    BY <1>1, <1>7 DEF NetTyped
  <2> QED BY <2>1, <2>2
<1>8. ASSUME NEW b, Reply(b), known, Rotates(b), ended' \in BOOLEAN, ~ended' => ~ended PROVE IInv'
  <2>1. PICK s \in Fresh : /\ rows' = [rows EXCEPT ![m.cookie] = NoUser, ![s] = rows[m.cookie]]
                           /\ b.set = s \/ ended'
    BY <1>8
  <2>2. NetTyped' /\ Mail'
    BY <1>7, <1>8
  <2>3. ServerTyped'
    <3>1. rows' \in [Sessions -> Users \cup {NoUser}]
      BY <1>1, <1>6, <1>8, <2>1 DEF ServerTyped
    <3> QED BY <1>1, <1>8, <3>1 DEF ServerTyped
  <2>4. Safe'
    <3> SUFFICES ASSUME ~ended' PROVE Cookies' /\ ~refused
      BY DEF Safe
    <3>1. Cookies /\ ~refused
      BY <1>1, <1>8 DEF Safe
    <3>2. m \in Renewing
      BY <1>8 DEF Renewing
    <3> QED BY <1>1, <1>8, <2>1, <3>1, <3>2, RotateCookies
  <2> QED BY <1>2, <1>3, <2>2, <2>3, <2>4 DEF IInv, Typed
<1>9. ASSUME NEW b, Reply(b), b.set \in {Unset, 0}, b.set = 0 => ~known /\ m.cookie # 0,
             UNCHANGED <<rows, ended>>
      PROVE  IInv'
  <2>1. NetTyped' /\ Mail'
    BY <1>7, <1>9
  <2>2. ServerTyped'
    BY <1>1, <1>9 DEF ServerTyped
  <2>3. Safe'
    <3> SUFFICES ASSUME ~ended PROVE Cookies' /\ ~refused
      BY <1>9 DEF Safe
    <3>1. Cookies /\ ~refused
      BY <1>1 DEF Safe
    <3>2. b.set = Unset
      <4>1. m.cookie # 0 => m \in Renewing
        BY DEF Renewing
      <4> QED BY <1>9, <3>1, <4>1 DEF Cookies
    <3> QED BY <1>1, <1>9, <3>1, <3>2, UnsetCookies
  <2> QED BY <1>2, <1>3, <2>1, <2>2, <2>3 DEF IInv, Typed
<1>10. CASE known /\ \E s \in Fresh :
              /\ rows' = [rows EXCEPT ![m.cookie] = NoUser, ![s] = rows[m.cookie]]
              /\ \/ down' = down \cup {Back(m, "ok", rows[m.cookie], s)} /\ UNCHANGED <<faults, ended>>
                 \/ down' = down \cup {Back(m, "broken", NoUser, s)} /\ UNCHANGED ended
                 \/ down' = down \cup {Back(m, "lost", NoUser, Unset)} /\ ended' = TRUE
  <2>1. PICK s \in Fresh :
              /\ rows' = [rows EXCEPT ![m.cookie] = NoUser, ![s] = rows[m.cookie]]
              /\ \/ down' = down \cup {Back(m, "ok", rows[m.cookie], s)} /\ UNCHANGED <<faults, ended>>
                 \/ down' = down \cup {Back(m, "broken", NoUser, s)} /\ UNCHANGED ended
                 \/ down' = down \cup {Back(m, "lost", NoUser, Unset)} /\ ended' = TRUE
    BY <1>10
  <2>2. s \in Unset..MaxSession
    BY <1>5, FreshFacts
  <2>3. PICK is \in {"ok", "broken", "lost"}, u \in Users \cup {NoUser}, c \in Unset..MaxSession :
           /\ down' = down \cup {Back(m, is, u, c)}
           /\ \/ c = s /\ ended' = ended
              \/ ended' = TRUE
    BY <1>5, <1>6, <1>10, <2>1, <2>2
  <2>4. PICK b : b = Back(m, is, u, c)
    OBVIOUS
  <2>5. Reply(b) /\ b.set = c
    <3>1. /\ b \in Downward /\ b.kind = "refresh" /\ b.from = m.from /\ b.stray = m.stray
          /\ b.set = c /\ b.is = is
      BY <1>1, <2>4, BackTyped
    <3> QED BY <2>3, <2>4, <3>1
  <2>6. Rotates(b) /\ ended' \in BOOLEAN /\ (~ended' => ~ended)
    BY <1>1, <2>1, <2>3, <2>5 DEF ServerTyped
  <2> HIDE DEF Reply, Rotates
  <2> QED BY <1>3, <1>8, <1>10, <2>5, <2>6
<1>11. CASE ~known /\ down' = down \cup {Back(m, "refused", NoUser, IF m.cookie = 0 THEN Unset ELSE 0)}
            /\ UNCHANGED <<rows, ended>>
  <2> DEFINE c == IF m.cookie = 0 THEN Unset ELSE 0
  <2>1. c \in Unset..MaxSession /\ c \in {Unset, 0} /\ (c = 0 => m.cookie # 0)
    BY <1>5 DEF Unset
  <2> HIDE DEF c
  <2>2. PICK b : b = Back(m, "refused", NoUser, c)
    OBVIOUS
  <2>3. Reply(b) /\ b.set = c
    BY <1>1, <1>11, <2>1, <2>2, BackTyped DEF c
  <2> HIDE DEF Reply
  <2> QED BY <1>3, <1>9, <1>11, <2>1, <2>3
<1>12. CASE down' = down \cup {Back(m, "error", NoUser, Unset)} /\ UNCHANGED <<rows, ended>>
  <2>1. PICK b : b = Back(m, "error", NoUser, Unset)
    OBVIOUS
  <2>2. Reply(b) /\ b.set = Unset /\ Unset # 0
    BY <1>1, <1>5, <1>12, <2>1, BackTyped DEF Unset
  <2> HIDE DEF Reply
  <2> QED BY <1>3, <1>9, <1>12, <2>2
<1> QED BY <1>10, <1>11, <1>12 DEF ServeRefresh

LEMMA ServeLogoutKeeps ==
  ASSUME IInv, NEW m \in up, m.kind = "logout", ServeLogout(m),
         UNCHANGED <<store, gen, flight, op, notices, jar, cmds, refused>>
  PROVE  IInv' /\ \A p \in Ops : Fair(p)
<1>1. /\ StoreTyped /\ OpsTyped /\ NetTyped /\ ServerTyped /\ Tracked /\ Locked /\ Mail /\ Safe
      /\ up' = up \ {m} /\ UNCHANGED ended /\ m.from \in Tabs /\ m.cookie \in 0..MaxSession
  BY DEF IInv, Typed, NetTyped, ServeLogout, Upward
<1>2. StoreTyped' /\ status' = status
  BY <1>1, StoreSame
<1>3. OpsTyped' /\ Tracked' /\ Locked' /\ \A p \in Ops : Fair(p)
  BY <1>1, <1>2 DEF OpsTyped, Tracked, Locked, HoldsLock, Fair
<1>4. PICK c \in {Unset, 0} : down' = down \cup {[kind |-> "logout", from |-> m.from, set |-> c]}
  BY DEF ServeLogout
<1>5. NetTyped'
  BY <1>1, <1>4 DEF NetTyped, Downward
<1>6. Awaited(up)' = Awaited(up) /\ Awaited(down)' = Awaited(down)
  BY <1>1, <1>4 DEF Awaited
<1>7. Mail'
  BY <1>1, <1>6 DEF Mail
<1>8. ServerTyped'
  <2>1. rows' = rows \/ rows' = [rows EXCEPT ![m.cookie] = NoUser]
    BY DEF ServeLogout
  <2>2. rows' \in [Sessions -> Users \cup {NoUser}]
    BY <1>1, <2>1 DEF ServerTyped
  <2> QED BY <1>1, <2>2 DEF ServerTyped
<1>9. Safe'
  <2>1. ended
    BY <1>1 DEF Safe, Cookies
  <2> QED BY <1>1, <2>1 DEF Safe
<1> QED BY <1>2, <1>3, <1>5, <1>7, <1>8, <1>9 DEF IInv, Typed

LEMMA ServeKeeps ==
  ASSUME IInv, NEW m \in up, Serve(m)
  PROVE  IInv' /\ \A p \in Ops : Fair(p)
<1>1. UNCHANGED <<store, gen, flight, op, notices, jar, cmds, refused>>
  BY DEF Serve
<1>2. m.kind \in {"refresh", "logout"}
  BY DEF IInv, Typed, NetTyped, Upward
<1>3. CASE m.kind = "refresh"
  BY <1>1, <1>3, ServeRefreshKeeps DEF Serve
<1>4. CASE m.kind = "logout"
  BY <1>1, <1>4, ServeLogoutKeeps DEF Serve
<1> QED BY <1>2, <1>3, <1>4

----------------------------------------------------------------------------
LEMMA StepIInv ==
  ASSUME IInv, [Next]_vars
  PROVE  IInv' /\ \A p \in Ops : Fair(p)
<1>1. ASSUME NEW t \in Tabs,
             \/ Open(t) \/ Retry(t) \/ Logout(t) \/ DeleteAccount(t)
             \/ ReceiveDeletion(t) \/ Request(t) \/ RequestStep(t)
      PROVE  IInv' /\ \A p \in Ops : Fair(p)
  BY <1>1, OpenKeeps, RetryKeeps, LogoutKeeps, DeleteKeeps, ReceiveKeeps, RequestKeeps
<1>2. ASSUME NEW t \in Tabs, NEW u \in Users, Login(t, u)
      PROVE  IInv' /\ \A p \in Ops : Fair(p)
  BY <1>2, LoginKeeps
<1>3. ASSUME NEW o \in Ops, RefreshStep(o)
      PROVE  IInv' /\ \A p \in Ops : Fair(p)
  <2>1. CASE Fetch(o)
    BY <2>1, FetchKeeps
  <2>2. CASE ServeOf(o)
    BY <2>2, ServeKeeps DEF ServeOf, MessagesOf
  <2>3. CASE ArriveOf(o)
    BY <2>3, ArriveKeeps DEF ArriveOf, MessagesOf
  <2>4. CASE ReadBody(o)
    BY <2>4, ReadBodyKeeps
  <2>5. CASE Finally(o)
    BY <2>5, FinallyKeeps
  <2> QED BY <1>3, <2>1, <2>2, <2>3, <2>4, <2>5 DEF RefreshStep
<1>4. ASSUME NEW s \in Sessions, Revoke(s)
      PROVE  IInv' /\ \A p \in Ops : Fair(p)
  BY <1>4, RevokeKeeps
<1>5. CASE LogoutStep
  BY <1>5, ServeKeeps, ArriveKeeps DEF LogoutStep
<1>6. CASE UNCHANGED vars
  <2>1. UNCHANGED <<store, gen, flight, op, cmds, net, notices, server, ended, refused>>
    BY <1>6 DEF vars
  <2>2. StoreTyped' /\ status' = status
    BY <2>1, StoreSame DEF IInv, Typed
  <2> QED BY <2>1, <2>2, StatusStep
<1> QED BY <1>1, <1>2, <1>3, <1>4, <1>5, <1>6 DEF Next

THEOREM Invariance == Spec => []IInv
<1>1. Init => IInv
  BY InitIInv
<1>2. IInv /\ [Next]_vars => IInv'
  BY StepIInv
<1> QED BY <1>1, <1>2, PTL DEF Spec

(* The state every tab shows and the messages are well formed: a tab shows  *)
(* an account exactly when it holds that account's token, and the promise   *)
(* it tracks (auth.svelte.ts, #refreshPromise) is of an unfinished refresh. *)
THEOREM StoreTypedAlways == Spec => []TypeOK
<1>1. IInv => TypeOK
  BY DEF IInv, Typed, StoreTyped, OpsTyped, NetTyped, ServerTyped, TypeOK
<1> QED BY <1>1, Invariance, PTL

(* With the Web Lock around performRefresh, no refresh that sent a cookie   *)
(* is refused as long as no session was ended: every rotation reaches the   *)
(* jar before another tab sends the cookie again.                           *)
THEOREM NeverLoggedOutByAnotherTab == Spec => []LocksKeepSession
<1>1. IInv => LocksKeepSession
  BY DEF IInv, Safe, LocksKeepSession
<1> QED BY <1>1, Invariance, PTL

(* A refresh that began before the tab's last page load, login, logout or   *)
(* deletion never signs the tab in: cancelRefresh and the generation check  *)
(* of performRefresh leave it no way.                                       *)
THEOREM CancelledRefreshes == Spec => CancelledNeverSignsIn
<1> DEFINE Signs == \A o \in Ops : (~op[o].ok /\ op'[o].ok) => op[o].born = cmds[o[1]]
<1>1. IInv /\ [Next]_vars => [Signs]_vars
  BY StepIInv DEF Fair
<1>2. Spec => [][Signs]_vars
  BY <1>1, Invariance, PTL DEF Spec
<1> QED BY <1>2 DEF CancelledNeverSignsIn

----------------------------------------------------------------------------
(* Only the component of the behaviour moves.                               *)

LEMMA OnlyOneMoves ==
  ASSUME [AllNext]_allVars
  PROVE  /\ which' = which
         /\ which = "admin" => [Admin!Next]_(Admin!vars)
         /\ which = "game" => [Game!Next]_(Game!vars)
         /\ which = "keyed" => [Keyed!Next]_(Keyed!vars)
         /\ which = "paged" => [Paged!Next]_(Paged!vars)
         /\ which = "account" => [Account!Next]_(Account!vars)
         /\ which = "toast" => [Toast!ToastNext]_(Toast!toastVars)
         /\ which = "theme" => [Theme!ThemeNext]_(Theme!themeVars)
BY DEF AllNext, allVars, adminVars, gameVars, keyedVars, pagedVars, accountVars, toastVars,
       themeVars, Admin!vars, Game!vars, Keyed!vars, Paged!vars, Account!vars, Toast!toastVars,
       Theme!themeVars

----------------------------------------------------------------------------
(* The theme.                                                               *)

ThemeTabType ==
  [open : BOOLEAN, preference : Theme!Themes \cup {None}, resolved : Theme!Themes,
   root : Theme!Themes, events : Seq(Theme!Themes \cup {None, Theme!Other}), pending : BOOLEAN]

ThemeTyped ==
  /\ themeStored \in Theme!Themes \cup {None, Theme!Other} /\ themeSystem \in Theme!Themes
  /\ themeTab \in [Tabs -> ThemeTabType]

ThemeInv == ThemeTyped /\ Theme!ThemeShown

LEMMA ThemeInitially == Theme!ThemeInit => ThemeInv
BY InstancesAssumption DEF Theme!ThemeInit, ThemeInv, ThemeTyped, ThemeTabType, Theme!Themes, Theme!ThemeShown, Theme!Other

LEMMA HeardType ==
  ASSUME NEW ts \in [Tabs -> ThemeTabType], NEW from, NEW value \in Theme!Themes \cup {None, Theme!Other}
  PROVE  /\ Theme!Heard(ts, from, value) \in [Tabs -> ThemeTabType]
         /\ \A u \in Tabs : LET h == Theme!Heard(ts, from, value)
              IN /\ h[u].open = ts[u].open /\ h[u].preference = ts[u].preference
                 /\ h[u].resolved = ts[u].resolved /\ h[u].root = ts[u].root
                 /\ h[u].pending = ts[u].pending
<1>1. ASSUME NEW u \in Tabs
      PROVE  /\ [ts[u] EXCEPT !.events = Append(@, value)] \in ThemeTabType
             /\ ts[u] \in ThemeTabType
  <2> DEFINE events == Append(ts[u].events, value)
  <2>1. ts[u] \in ThemeTabType
    OBVIOUS
  <2>2. events \in Seq(Theme!Themes \cup {None, Theme!Other})
    BY <2>1 DEF ThemeTabType
  <2> HIDE DEF events
  <2>3. [ts[u] EXCEPT !.events = events] \in ThemeTabType
    BY <2>1, <2>2 DEF ThemeTabType
  <2> QED BY <2>1, <2>3 DEF events
<1> QED BY <1>1 DEF Theme!Heard, ThemeTabType

LEMMA OpenedType ==
  ASSUME NEW t \in ThemeTabType, NEW p \in Theme!Themes \cup {None}
  PROVE  [t EXCEPT !.open = TRUE, !.preference = p, !.events = <<>>, !.pending = FALSE] \in ThemeTabType
<1> DEFINE none == <<>>
<1>1. none \in Seq(Theme!Themes \cup {None, Theme!Other})
  OBVIOUS
<1> HIDE DEF none
<1>2. [t EXCEPT !.open = TRUE, !.preference = p, !.events = none, !.pending = FALSE] \in ThemeTabType
  BY <1>1 DEF ThemeTabType
<1> QED BY <1>2 DEF none

(* What one tab shows. *)
ThemeTabShown(t, system) ==
  t.open => /\ t.root = t.resolved
            /\ t.preference # None => t.resolved = t.preference
            /\ t.preference = None /\ ~t.pending => t.resolved = system

LEMMA ResolveType ==
  ASSUME NEW t \in ThemeTabType, themeSystem \in Theme!Themes
  PROVE  /\ Theme!Resolve(t) \in ThemeTabType
         /\ ThemeTabShown(Theme!Resolve(t), themeSystem)
BY DEF ThemeTabType, Theme!Resolve, ThemeTabShown, Theme!Themes

LEMMA ThemeNext ==
  ASSUME ThemeInv, [Theme!ThemeNext]_(Theme!themeVars)
  PROVE  ThemeInv'
<1> USE DEF ThemeInv, ThemeTyped, Theme!Other
<1>a. Theme!ThemeShown <=> \A u \in Tabs : ThemeTabShown(themeTab[u], themeSystem)
  BY DEF Theme!ThemeShown, ThemeTabShown
<1>b. Theme!ThemeShown' <=> \A u \in Tabs : ThemeTabShown(themeTab'[u], themeSystem')
  BY DEF Theme!ThemeShown, ThemeTabShown
<1>c. None \notin Theme!Themes
  BY InstancesAssumption DEF Theme!ThemeStoreAssumption, Theme!Themes
<1>1. CASE Theme!SystemChanges
  <2>1. themeSystem' \in Theme!Themes
    BY <1>1 DEF Theme!SystemChanges, Theme!Opposite, Theme!Themes
  <2>2. themeTab' \in [Tabs -> ThemeTabType] /\ \A u \in Tabs : ThemeTabShown(themeTab'[u], themeSystem')
    BY <1>1, <1>a DEF Theme!SystemChanges, ThemeTabType, ThemeTabShown
  <2> QED BY <1>1, <1>b, <2>1, <2>2 DEF Theme!SystemChanges
<1>2. CASE Theme!StorageChanges
  <2>1. PICK value \in {None, Theme!Other} : themeStored' = value /\ themeTab' = Theme!Heard(themeTab, None, value)
    BY <1>2 DEF Theme!StorageChanges
  <2>2. themeSystem' = themeSystem
    BY <1>2 DEF Theme!StorageChanges
  <2>3. themeTab' \in [Tabs -> ThemeTabType] /\ \A u \in Tabs : ThemeTabShown(themeTab'[u], themeSystem')
    BY <1>a, <2>1, <2>2, HeardType DEF ThemeTabShown
  <2> QED BY <1>b, <2>1, <2>2, <2>3
<1>3. ASSUME NEW u \in Tabs, Theme!Initialize(u) PROVE ThemeInv'
  <2> DEFINE V(readable) == IF readable THEN themeStored ELSE None
             B(readable) == [themeTab[u] EXCEPT !.open = TRUE, !.preference = Theme!Preference(V(readable)),
                                                !.events = <<>>, !.pending = FALSE]
             T(readable) == [themeTab EXCEPT ![u] = Theme!Resolve(B(readable))]
  <2>1. PICK readable \in BOOLEAN :
          IF V(readable) = Theme!Other
          THEN themeStored' = None /\ themeTab' = Theme!Heard(T(readable), u, None)
          ELSE UNCHANGED themeStored /\ themeTab' = T(readable)
    BY <1>3, Zenon DEF Theme!Initialize
  <2> DEFINE blank == B(readable)
             opened == Theme!Resolve(blank)
             ts == T(readable)
  <2> HIDE DEF V
  <2>2. blank \in ThemeTabType
    <3>1. Theme!Preference(V(readable)) \in Theme!Themes \cup {None} /\ themeTab[u] \in ThemeTabType
      BY DEF Theme!Preference
    <3> QED BY <3>1, OpenedType
  <2>3. opened \in ThemeTabType /\ ThemeTabShown(opened, themeSystem)
    <3> HIDE DEF blank
    <3> QED BY <2>2, ResolveType
  <2>4. ts \in [Tabs -> ThemeTabType] /\ \A v \in Tabs : ThemeTabShown(ts[v], themeSystem)
    <3>1. ts = [themeTab EXCEPT ![u] = opened]
      BY Zenon DEF blank
    <3> HIDE DEF opened, ts
    <3> QED BY <2>3, <3>1, <1>a
  <2>5. themeSystem' = themeSystem
    BY <1>3 DEF Theme!Initialize
  <2> HIDE DEF ts, T, blank
  <2>7. /\ themeStored' \in {themeStored, None}
        /\ themeTab' \in {ts, Theme!Heard(ts, u, None)}
    BY <2>1 DEF ts
  <2>6. themeTab' \in [Tabs -> ThemeTabType] /\ \A v \in Tabs : ThemeTabShown(themeTab'[v], themeSystem)
    BY <2>4, <2>7, HeardType DEF ThemeTabShown
  <2> QED BY <2>5, <2>6, <2>7, <1>b
<1>4. ASSUME NEW u \in Tabs, Theme!Toggle(u) PROVE ThemeInv'
  <2> DEFINE theme == Theme!Opposite(themeTab[u].resolved)
             ts == [themeTab EXCEPT ![u] = [@ EXCEPT !.preference = theme, !.resolved = theme, !.root = theme]]
  <2>1. theme \in Theme!Themes
    BY DEF Theme!Opposite, Theme!Themes
  <2>2. /\ themeSystem' = themeSystem /\ themeStored' \in {themeStored, theme}
        /\ themeTab' \in {ts, Theme!Heard(ts, u, theme)}
    BY <1>4 DEF Theme!Toggle
  <2>3. ts \in [Tabs -> ThemeTabType] /\ \A v \in Tabs : ThemeTabShown(ts[v], themeSystem)
    <3> HIDE DEF theme
    <3> QED BY <2>1, <1>a, <1>c DEF ThemeTabType, ThemeTabShown
  <2> HIDE DEF ts, theme
  <2>4. themeTab' \in [Tabs -> ThemeTabType] /\ \A v \in Tabs : ThemeTabShown(themeTab'[v], themeSystem)
    BY <2>1, <2>2, <2>3, HeardType DEF ThemeTabShown
  <2> QED BY <2>1, <2>2, <2>4, <1>b
<1>5. ASSUME NEW u \in Tabs, Theme!StorageEvent(u) PROVE ThemeInv'
  <2> DEFINE value == Head(themeTab[u].events)
             told == [themeTab[u] EXCEPT !.events = Tail(@), !.preference = Theme!Preference(value)]
             ts == [themeTab EXCEPT ![u] = Theme!Resolve(told)]
  <2>1. IF value = Theme!Other THEN themeStored' = None /\ themeTab' = Theme!Heard(ts, u, None)
        ELSE UNCHANGED themeStored /\ themeTab' = ts
    BY <1>5, Zenon DEF Theme!StorageEvent
  <2>5. themeSystem' = themeSystem /\ themeTab[u].events # <<>>
    BY <1>5 DEF Theme!StorageEvent
  <2>2. told \in ThemeTabType
    <3>1. themeTab[u] \in ThemeTabType
      OBVIOUS
    <3>2. Tail(themeTab[u].events) \in Seq(Theme!Themes \cup {None, Theme!Other})
      BY <3>1, <2>5 DEF ThemeTabType
    <3>3. Theme!Preference(value) \in Theme!Themes \cup {None}
      BY DEF Theme!Preference
    <3> QED BY <3>1, <3>2, <3>3 DEF ThemeTabType
  <2>3. ts \in [Tabs -> ThemeTabType] /\ \A v \in Tabs : ThemeTabShown(ts[v], themeSystem)
    <3> HIDE DEF told
    <3> QED BY <2>2, <1>a, ResolveType
  <2> HIDE DEF ts, value
  <2>4. themeTab' \in [Tabs -> ThemeTabType] /\ \A v \in Tabs : ThemeTabShown(themeTab'[v], themeSystem)
    BY <2>1, <2>3, HeardType DEF ThemeTabShown
  <2> QED BY <2>1, <2>4, <2>5, <1>b
<1>6. ASSUME NEW u \in Tabs, Theme!SystemEvent(u) PROVE ThemeInv'
  <2> DEFINE heard == [themeTab[u] EXCEPT !.pending = FALSE]
  <2>1. heard \in ThemeTabType
    BY DEF ThemeTabType
  <2>2. /\ themeSystem' = themeSystem /\ themeStored' = themeStored
        /\ themeTab' = [themeTab EXCEPT ![u] = IF heard.preference = None THEN Theme!Resolve(heard) ELSE heard]
    BY <1>6 DEF Theme!SystemEvent
  <2>3. heard.preference # None => ThemeTabShown(heard, themeSystem)
    BY <1>a DEF ThemeTabType, ThemeTabShown
  <2> HIDE DEF heard
  <2>4. themeTab' \in [Tabs -> ThemeTabType] /\ \A v \in Tabs : ThemeTabShown(themeTab'[v], themeSystem)
    BY <2>1, <2>2, <2>3, <1>a, ResolveType
  <2> QED BY <2>2, <2>4, <1>b
<1>7. ASSUME NEW u \in Tabs, Theme!Destroy(u) PROVE ThemeInv'
  BY <1>7, <1>a, <1>b DEF Theme!Destroy, ThemeTabType, ThemeTabShown
<1>8. CASE UNCHANGED Theme!themeVars
  BY <1>8, <1>a, <1>b DEF Theme!themeVars
<1> QED BY <1>1, <1>2, <1>3, <1>4, <1>5, <1>6, <1>7, <1>8 DEF Theme!ThemeNext

----------------------------------------------------------------------------
(* The toasts.                                                              *)

ToastType == [id : Nat, timed : BOOLEAN]

TimersOf(ts) == {ts[i].id : i \in {j \in DOMAIN ts : ts[j].timed}}
Rising(ts) == \A i, j \in 1 .. Len(ts) : i < j => ts[i].id < ts[j].id
UpTo(ts, shows) == \A i \in 1 .. Len(ts) : ts[i].id <= shows
Spliced(ts, k) == SubSeq(ts, 1, k - 1) \o SubSeq(ts, k + 1, Len(ts))

ToastTyped ==
  /\ toastShows \in Nat /\ toastToasts \in Seq(ToastType)
  /\ Rising(toastToasts) /\ UpTo(toastToasts, toastShows)

ToastInv == ToastTyped /\ Toast!ToastsEnd

LEMMA ToastsEndMeans ==
  Toast!ToastsEnd <=> Len(toastToasts) <= MaxToasts /\ toastToastTimers = TimersOf(toastToasts)
BY Zenon DEF Toast!ToastsEnd, TimersOf

LEMMA ToastInitially == Toast!ToastInit => ToastInv
BY InstancesAssumption DEF Toast!ToastInit, ToastInv, ToastTyped, Toast!ToastsEnd, Toast!ToastStoreAssumption, Rising, UpTo

LEMMA TimersMeans ==
  ASSUME NEW ts \in Seq(ToastType), NEW x
  PROVE  x \in TimersOf(ts) <=> \E i \in 1 .. Len(ts) : ts[i].timed /\ x = ts[i].id
<1>1. DOMAIN ts = 1 .. Len(ts)
  OBVIOUS
<1> QED BY <1>1, Zenon DEF TimersOf

(* A toast is pushed.                                                       *)
LEMMA PushedToast ==
  ASSUME NEW ts \in Seq(ToastType), Rising(ts), NEW shows \in Nat, UpTo(ts, shows), NEW timed \in BOOLEAN
  PROVE  LET pushed == Append(ts, [id |-> shows + 1, timed |-> timed])
         IN /\ pushed \in Seq(ToastType) /\ Len(pushed) = Len(ts) + 1
            /\ Rising(pushed) /\ UpTo(pushed, shows + 1)
            /\ TimersOf(pushed) = TimersOf(ts) \cup (IF timed THEN {shows + 1} ELSE {})
<1> DEFINE new == [id |-> shows + 1, timed |-> timed]
           n == Len(ts)
           pushed == Append(ts, new)
<1>1. new \in ToastType /\ new.id = shows + 1 /\ new.timed = timed
  BY DEF ToastType
<1> HIDE DEF new
<1>2. /\ n \in Nat /\ pushed \in Seq(ToastType) /\ Len(pushed) = n + 1 /\ pushed[n + 1] = new
      /\ \A i \in 1 .. n : pushed[i] = ts[i] /\ ts[i] \in ToastType
  BY <1>1
<1> HIDE DEF pushed
<1>3. UpTo(pushed, shows + 1)
  <2> SUFFICES ASSUME NEW i \in 1 .. n + 1 PROVE pushed[i].id <= shows + 1
    BY <1>2 DEF UpTo
  <2>1. CASE i = n + 1
    BY <1>1, <1>2, <2>1
  <2>2. CASE i # n + 1
    <3>1. i \in 1 .. n /\ ts[i].id \in Nat /\ ts[i].id <= shows
      BY <1>2, <2>2 DEF UpTo, ToastType
    <3> QED BY <3>1, <1>2
  <2> QED BY <2>1, <2>2
<1>4. Rising(pushed)
  <2> SUFFICES ASSUME NEW i \in 1 .. n + 1, NEW j \in 1 .. n + 1, i < j PROVE pushed[i].id < pushed[j].id
    BY <1>2 DEF Rising
  <2>1. i \in 1 .. n /\ pushed[i] = ts[i] /\ ts[i].id \in Nat /\ ts[i].id <= shows
    BY <1>2 DEF UpTo, ToastType
  <2>2. CASE j = n + 1
    BY <1>1, <1>2, <2>1, <2>2
  <2>3. CASE j # n + 1
    BY <1>2, <2>1, <2>3 DEF Rising
  <2> QED BY <2>2, <2>3
<1>5. TimersOf(pushed) = TimersOf(ts) \cup (IF timed THEN {shows + 1} ELSE {})
  <2>1. ASSUME NEW x \in TimersOf(pushed) PROVE x \in TimersOf(ts) \cup (IF timed THEN {shows + 1} ELSE {})
    <3>1. PICK i \in 1 .. n + 1 : pushed[i].timed /\ x = pushed[i].id
      BY <1>2, <2>1, TimersMeans
    <3>2. CASE i = n + 1
      BY <1>1, <1>2, <3>1, <3>2
    <3>3. CASE i # n + 1
      <4>1. i \in 1 .. n /\ pushed[i] = ts[i]
        BY <1>2, <3>3
      <4> QED BY <3>1, <4>1, TimersMeans
    <3> QED BY <3>2, <3>3
  <2>2. ASSUME NEW x \in TimersOf(ts) PROVE x \in TimersOf(pushed)
    <3>1. PICK i \in 1 .. n : ts[i].timed /\ x = ts[i].id
      BY <2>2, TimersMeans
    <3>2. i \in 1 .. n + 1 /\ pushed[i] = ts[i]
      BY <1>2
    <3> QED BY <1>2, <3>1, <3>2, TimersMeans
  <2>3. timed => shows + 1 \in TimersOf(pushed)
    <3>1. n + 1 \in 1 .. n + 1
      BY <1>2
    <3> QED BY <1>1, <1>2, <3>1, TimersMeans
  <2> QED BY <2>1, <2>2, <2>3
<1> QED BY <1>2, <1>3, <1>4, <1>5 DEF pushed, new

(* A toast is taken out.                                                    *)
LEMMA SplicedToast ==
  ASSUME NEW ts \in Seq(ToastType), Rising(ts), NEW k \in 1 .. Len(ts)
  PROVE  /\ Spliced(ts, k) \in Seq(ToastType) /\ Len(Spliced(ts, k)) = Len(ts) - 1
         /\ Rising(Spliced(ts, k)) /\ \A shows \in Nat : UpTo(ts, shows) => UpTo(Spliced(ts, k), shows)
         /\ TimersOf(Spliced(ts, k)) = TimersOf(ts) \ {ts[k].id}
<1> DEFINE n == Len(ts)
           a == SubSeq(ts, 1, k - 1)
           b == SubSeq(ts, k + 1, n)
           new == Spliced(ts, k)
<1>1. n \in Nat /\ k \in 1 .. n /\ \A i \in 1 .. n : ts[i] \in ToastType
  OBVIOUS
<1>2. /\ a \in Seq(ToastType) /\ Len(a) = k - 1 /\ \A i \in 1 .. k - 1 : a[i] = ts[i]
  BY <1>1, SubSeqProperties
<1>3. /\ b \in Seq(ToastType) /\ Len(b) = n - k /\ \A i \in 1 .. n - k : b[i] = ts[k + 1 + i - 1]
  BY <1>1, SubSeqProperties
<1>4. new = a \o b
  BY DEF Spliced
<1> HIDE DEF a, b, new
<1> HIDE DEF n
<1>5. /\ a \o b \in Seq(ToastType) /\ Len(a \o b) = Len(a) + Len(b)
      /\ \A i \in 1 .. Len(a) + Len(b) : (a \o b)[i] = IF i <= Len(a) THEN a[i] ELSE b[i - Len(a)]
  BY <1>2, <1>3, ConcatProperties
<1>6. /\ Len(a) + Len(b) = n - 1 /\ new \in Seq(ToastType) /\ Len(new) = n - 1
      /\ \A i \in 1 .. n - 1 : new[i] = IF i <= k - 1 THEN a[i] ELSE b[i - (k - 1)]
  <2>1. Len(a) + Len(b) = n - 1
    BY <1>1, <1>2, <1>3
  <2> QED BY <1>2, <1>4, <1>5, <2>1
<1> DEFINE at(i) == IF i < k THEN i ELSE i + 1
<1>7. \A i \in 1 .. n - 1 : new[i] = ts[at(i)] /\ at(i) \in 1 .. n /\ at(i) # k
  <2> SUFFICES ASSUME NEW i \in 1 .. n - 1 PROVE new[i] = ts[at(i)] /\ at(i) \in 1 .. n /\ at(i) # k
    OBVIOUS
  <2>1. CASE i < k
    BY <1>1, <1>2, <1>6, <2>1
  <2>2. CASE ~(i < k)
    <3>1. ~(i <= k - 1) /\ i - (k - 1) \in 1 .. n - k /\ k + 1 + (i - (k - 1)) - 1 = i + 1
      BY <1>1, <2>2
    <3>2. new[i] = b[i - (k - 1)] /\ b[i - (k - 1)] = ts[k + 1 + (i - (k - 1)) - 1]
      BY <3>1, <1>3, <1>6
    <3> QED BY <1>1, <2>2, <3>1, <3>2
  <2> QED BY <2>1, <2>2
<1>8. Rising(new)
  <2> SUFFICES ASSUME NEW i \in 1 .. n - 1, NEW j \in 1 .. n - 1, i < j PROVE new[i].id < new[j].id
    BY <1>6 DEF Rising
  <2>1. at(i) < at(j)
    BY <1>1
  <2> HIDE DEF at
  <2> QED BY <1>7, <2>1 DEF Rising, n
<1>9. ASSUME NEW shows \in Nat, UpTo(ts, shows) PROVE UpTo(new, shows)
  <2> HIDE DEF at
  <2>1. \A i \in 1 .. n : ts[i].id <= shows
    BY <1>9 DEF UpTo, n
  <2> QED BY <2>1, <1>6, <1>7 DEF UpTo
<1>10. TimersOf(new) = TimersOf(ts) \ {ts[k].id}
  <2>1. ASSUME NEW x \in TimersOf(new) PROVE x \in TimersOf(ts) \ {ts[k].id}
    <3>1. PICK i \in 1 .. n - 1 : new[i].timed /\ x = new[i].id
      BY <2>1, <1>6, TimersMeans
    <3> HIDE DEF at
    <3>2. ts[at(i)].timed /\ x = ts[at(i)].id /\ at(i) \in 1 .. n /\ at(i) # k
      BY <3>1, <1>7
    <3>3. ts[at(i)].id # ts[k].id
      BY <3>2, <1>1 DEF ToastType, Rising, n
    <3> QED BY <3>2, <3>3, TimersMeans DEF n
  <2>2. ASSUME NEW x \in TimersOf(ts) \ {ts[k].id} PROVE x \in TimersOf(new)
    <3>1. PICK j \in 1 .. n : ts[j].timed /\ x = ts[j].id
      BY <2>2, TimersMeans DEF n
    <3>2. j # k
      BY <3>1, <2>2
    <3>3. PICK i \in 1 .. n - 1 : at(i) = j
      <4>1. CASE j < k
        BY <4>1, <1>1
      <4>2. CASE j > k
        <5>1. j - 1 \in 1 .. n - 1 /\ at(j - 1) = j
          BY <4>2, <1>1
        <5> QED BY <5>1
      <4> QED BY <4>1, <4>2, <3>2, <1>1
    <3> HIDE DEF at
    <3>4. new[i] = ts[j]
      BY <3>3, <1>7
    <3> QED BY <3>1, <3>4, <1>6, TimersMeans
  <2> QED BY <2>1, <2>2
<1> QED BY <1>6, <1>8, <1>9, <1>10 DEF new, n

(* Beyond the limit the oldest goes, with its timer.                        *)
LEMMA ShowKeeps ==
  ASSUME ToastInv, NEW timed \in BOOLEAN, Toast!Show(timed)
  PROVE  ToastInv'
<1>m. Toast!ToastsEnd' <=> Len(toastToasts') <= MaxToasts /\ toastToastTimers' = TimersOf(toastToasts')
  BY Zenon DEF Toast!ToastsEnd, TimersOf
<1> DEFINE ts == toastToasts
           pushed == Append(ts, [id |-> toastShows + 1, timed |-> timed])
           added == IF timed THEN {toastShows + 1} ELSE {}
           full == Len(pushed) > MaxToasts
<1>1. /\ toastShows' = toastShows + 1 /\ toastToasts' = IF full THEN Tail(pushed) ELSE pushed
      /\ toastToastTimers' = (toastToastTimers \ (IF full THEN {pushed[1].id} ELSE {})) \cup added
  BY DEF Toast!Show
<1>2. /\ ts \in Seq(ToastType) /\ Rising(ts) /\ toastShows \in Nat /\ UpTo(ts, toastShows)
      /\ Len(ts) <= MaxToasts /\ MaxToasts \in Nat \ {0} /\ toastToastTimers = TimersOf(ts)
  BY InstancesAssumption, ToastsEndMeans DEF ToastInv, ToastTyped, Toast!ToastStoreAssumption
<1>3. /\ pushed \in Seq(ToastType) /\ Len(pushed) = Len(ts) + 1
      /\ Rising(pushed) /\ UpTo(pushed, toastShows + 1)
      /\ TimersOf(pushed) = TimersOf(ts) \cup added
      /\ pushed[Len(ts) + 1].id = toastShows + 1
  BY <1>2, PushedToast
<1> HIDE DEF ts, pushed, added
<1>4. CASE full
  <2>1. Tail(pushed) = Spliced(pushed, 1)
    <3>1. /\ SubSeq(pushed, 1, 0) = <<>> /\ pushed # <<>>
          /\ Tail(pushed) = SubSeq(pushed, 2, Len(pushed)) /\ Tail(pushed) \in Seq(ToastType)
      BY <1>2, <1>3, SubSeqEmpty, TailIsSubSeq, HeadTailProperties
    <3> QED BY <3>1, ConcatEmptySeq DEF Spliced
  <2>2. 1 \in 1 .. Len(pushed) /\ Len(ts) \in Nat
    BY <1>2, <1>3
  <2>3. pushed[1].id # toastShows + 1
    <3>1. Len(ts) + 1 \in 1 .. Len(pushed) /\ 1 < Len(ts) + 1
      BY <1>2, <1>3, <1>4, <2>2
    <3>2. pushed[1].id < pushed[Len(ts) + 1].id
      BY <1>3, <2>2, <3>1 DEF Rising
    <3>3. pushed[1] \in ToastType
      BY <1>3, <2>2, ElementOfSeq
    <3>4. pushed[1].id \in Nat
      BY <3>3 DEF ToastType
    <3> QED BY <3>2, <3>4, <1>2, <1>3
  <2>4. toastToastTimers' = TimersOf(pushed) \ {pushed[1].id}
    BY <1>1, <1>2, <1>3, <1>4, <2>3 DEF added
  <2>5. /\ toastToasts' \in Seq(ToastType) /\ Len(toastToasts') = Len(ts)
        /\ Rising(toastToasts') /\ UpTo(toastToasts', toastShows + 1)
        /\ TimersOf(toastToasts') = TimersOf(pushed) \ {pushed[1].id}
    <3>1. toastToasts' = Spliced(pushed, 1) /\ Len(pushed) - 1 = Len(ts) /\ toastShows + 1 \in Nat
      BY <1>1, <1>2, <1>3, <1>4, <2>1, <2>2
    <3> HIDE DEF full
    <3> QED BY <3>1, <1>3, <2>2, SplicedToast
  <2> HIDE DEF full
  <2> QED BY <1>1, <1>2, <1>m, <2>4, <2>5 DEF ToastInv, ToastTyped
<1>5. CASE ~full
  <2>1. toastToasts' = pushed /\ toastToastTimers' = TimersOf(pushed) /\ Len(pushed) <= MaxToasts
    BY <1>1, <1>2, <1>3, <1>5
  <2> HIDE DEF full
  <2> QED BY <1>1, <1>2, <1>3, <1>m, <2>1 DEF ToastInv, ToastTyped
<1> QED BY <1>4, <1>5

(* A toast goes with its timer, whoever dismisses it.                       *)
LEMMA DismissKeeps ==
  ASSUME ToastInv, NEW id, Toast!Dismiss(id)
  PROVE  ToastInv'
<1>m. Toast!ToastsEnd' <=> Len(toastToasts') <= MaxToasts /\ toastToastTimers' = TimersOf(toastToasts')
  BY Zenon DEF Toast!ToastsEnd, TimersOf
<1> DEFINE ts == toastToasts
<1>1. /\ ts \in Seq(ToastType) /\ Rising(ts) /\ toastShows \in Nat /\ UpTo(ts, toastShows)
      /\ Len(ts) <= MaxToasts /\ MaxToasts \in Nat \ {0} /\ toastToastTimers = TimersOf(ts)
  BY InstancesAssumption, ToastsEndMeans DEF ToastInv, ToastTyped, Toast!ToastStoreAssumption
<1>2. PICK k \in 1 .. Len(ts) : ts[k].id = id /\ toastToasts' = Spliced(ts, k)
  <2>1. DOMAIN ts = 1 .. Len(ts)
    BY <1>1
  <2> QED BY <2>1, Zenon DEF Toast!Dismiss, Spliced
<1>3. toastToastTimers' = toastToastTimers \ {id} /\ toastShows' = toastShows
  BY DEF Toast!Dismiss
<1> HIDE DEF ts
<1>4. /\ Spliced(ts, k) \in Seq(ToastType) /\ Len(Spliced(ts, k)) = Len(ts) - 1
      /\ Rising(Spliced(ts, k)) /\ UpTo(Spliced(ts, k), toastShows)
      /\ TimersOf(Spliced(ts, k)) = TimersOf(ts) \ {ts[k].id}
  BY <1>1, SplicedToast
<1> QED BY <1>1, <1>2, <1>3, <1>4, <1>m DEF ToastInv, ToastTyped

LEMMA ToastNext ==
  ASSUME ToastInv, [Toast!ToastNext]_(Toast!toastVars)
  PROVE  ToastInv'
<1>1. CASE Toast!ClearToasts
  BY <1>1, InstancesAssumption
  DEF Toast!ClearToasts, ToastInv, ToastTyped, Rising, UpTo, Toast!ToastsEnd, Toast!ToastStoreAssumption
<1>2. CASE UNCHANGED Toast!toastVars
  BY <1>2 DEF Toast!toastVars, ToastInv, ToastTyped, Toast!ToastsEnd
<1> QED BY <1>1, <1>2, ShowKeeps, DismissKeeps
        DEF Toast!ToastNext, Toast!DismissToast, Toast!ToastEnds

----------------------------------------------------------------------------
(* The forms.                                                               *)

PageNames == {"settings", "login", "register", "verify", "home", "forgot", "reset"}

AccountPageType ==
  [name : PageNames, busy : SUBSET Account!Forms, failed : SUBSET Account!Forms, done : BOOLEAN,
   profile : People \cup {None}, loading : BOOLEAN, loaded : BOOLEAN, unknown : BOOLEAN]

AccountCallType(m) ==
  [form : Account!Forms, mount : 1 .. m, user : People \cup {None}, aborted : BOOLEAN, served : BOOLEAN]

(* A call knows whose it is; those of settings are made when the session is *)
(* known.                                                                   *)
AccountTyped ==
  /\ Account!TypeOK /\ accountPage \in AccountPageType
  /\ accountPage.profile # None => accountWho # Account!Initializing
  /\ \A c \in accountCalls : c.form \in Account!SettingsForms \cup {"load"} =>
       c.user \in People /\ accountWho # Account!Initializing
  /\ \A c \in accountCalls : c.form = "login" => c.user \in People

(* The sign of a form, and the calls of the open page that it stands for.   *)
Sign(p, form) == form \in p.busy \/ (form = "load" /\ p.loading)
Here(cs, m, form) == {c \in cs : c.mount = m /\ c.form = form}
SignsStand(p, cs, m) ==
  \A form \in Account!Forms : IF Sign(p, form) THEN \E c : Here(cs, m, form) = {c}
                              ELSE Here(cs, m, form) = {}

(* What stops with its page has been stopped.                               *)
Stopped(cs, m) ==
  \A c \in cs : /\ c.aborted => c.mount # m
                /\ c.form \in {"delete", "verify"} /\ c.mount # m => c.aborted

AccountFormed ==
  /\ "load" \notin accountPage.busy
  /\ accountPage.name = "verify" => accountPage.busy \subseteq {"verify"}
  /\ SignsStand(accountPage, accountCalls, accountMount)
  /\ Stopped(accountCalls, accountMount)
  /\ accountTimers \subseteq {accountMount}

AccountInv == AccountTyped /\ AccountFormed

(* The cardinality of an instance is that of the library.                   *)
LEMMA AccountCardinality == \A S : Account!Cardinality(S) = Cardinality(S)
BY Zenon DEF Account!Cardinality, Cardinality

LEMMA AccountMeans == AccountInv => Account!SignsEnd
<1> SUFFICES ASSUME AccountInv PROVE Account!SignsEnd
  OBVIOUS
<1>1. ASSUME NEW form \in Account!Forms
      PROVE  Cardinality(Here(accountCalls, accountMount, form))
               = IF form \in accountPage.busy \/ (form = "load" /\ accountPage.loading) THEN 1 ELSE 0
  <2>1. IF Sign(accountPage, form) THEN \E c : Here(accountCalls, accountMount, form) = {c}
        ELSE Here(accountCalls, accountMount, form) = {}
    BY Zenon DEF AccountInv, AccountFormed, SignsStand
  <2>2. CASE Sign(accountPage, form)
    <3>1. PICK c : Here(accountCalls, accountMount, form) = {c}
      BY <2>1, <2>2
    <3>2. Cardinality({c}) = 1
      BY FS_Singleton
    <3> QED BY <3>1, <3>2, <2>2 DEF Sign
  <2>3. CASE ~Sign(accountPage, form)
    BY <2>1, <2>3, FS_EmptySet DEF Sign
  <2> QED BY <2>2, <2>3
<1>2. \A t \in accountTimers : t = accountMount
  BY DEF AccountInv, AccountFormed
<1>3. \A form \in Account!Forms :
        Cardinality({c \in accountCalls : c.mount = accountMount /\ c.form = form})
          = IF form \in accountPage.busy \/ (form = "load" /\ accountPage.loading) THEN 1 ELSE 0
  BY <1>1 DEF Here
<1> QED BY <1>2, <1>3, AccountCardinality DEF Account!SignsEnd

LEMMA NewPageType ==
  ASSUME NEW name \in PageNames
  PROVE  /\ Account!NewPage(name) \in AccountPageType
         /\ Account!NewPage(name).name = name /\ Account!NewPage(name).busy = {}
         /\ Account!NewPage(name).failed = {} /\ ~Account!NewPage(name).loading
         /\ Account!NewPage(name).profile = None
<1> DEFINE none == {}
<1>1. none \in SUBSET Account!Forms
  OBVIOUS
<1> HIDE DEF none
<1>2. [name |-> name, busy |-> none, failed |-> none, done |-> FALSE, profile |-> None,
       loading |-> FALSE, loaded |-> FALSE, unknown |-> FALSE] \in AccountPageType
  BY <1>1 DEF AccountPageType
<1> QED BY <1>2 DEF Account!NewPage, none

LEMMA AccountInitially == Account!Init => AccountInv
<1> SUFFICES ASSUME Account!Init PROVE AccountInv
  OBVIOUS
<1>1. PICK name \in {"settings", "login", "register", "verify", "home", "forgot", "reset"} :
        accountPage = Account!NewPage(name)
  BY DEF Account!Init
<1>2. accountPage \in AccountPageType /\ accountPage.busy = {} /\ ~accountPage.loading
        /\ accountPage.profile = None /\ accountPage.failed = {}
  <2>1. name \in PageNames
    BY <1>1 DEF PageNames
  <2> DEFINE new == Account!NewPage(name)
  <2>2. new \in AccountPageType /\ new.busy = {} /\ new.failed = {} /\ ~new.loading /\ new.profile = None
    BY <2>1, NewPageType
  <2>3. accountPage = new
    BY <1>1
  <2> HIDE DEF new
  <2> QED BY <2>2, <2>3
<1>3. AccountTyped
  BY <1>2, InstancesAssumption DEF Account!Init, AccountTyped, Account!TypeOK, Account!AccountPagesAssumption
<1>4. AccountFormed
  BY <1>2 DEF Account!Init, AccountFormed, SignsStand, Sign, Here, Stopped
<1> QED BY <1>3, <1>4 DEF AccountInv

(* Another page opens: nothing is on its way from it.                       *)
LEMMA SignsOfNew ==
  ASSUME NEW m \in Nat, NEW cs, NEW name, \A c \in cs : c.mount \in 1 .. m
  PROVE  SignsStand(Account!NewPage(name), cs, m + 1)
<1>1. \A c \in cs : c.mount # m + 1
  OBVIOUS
<1> QED BY <1>1 DEF SignsStand, Sign, Here, Account!NewPage

(* A call ends with its sign.                                               *)
LEMMA SignsOfEnd ==
  ASSUME NEW p, NEW q, NEW cs, NEW m, NEW c \in cs, c.form \in Account!Forms, SignsStand(p, cs, m),
         c.mount = m => q.busy = p.busy \ {c.form} /\ (q.loading <=> p.loading /\ c.form # "load"),
         c.mount # m => q = p
  PROVE  SignsStand(q, cs \ {c}, m)
<1> SUFFICES ASSUME NEW form \in Account!Forms
             PROVE  IF Sign(q, form) THEN \E d : Here(cs \ {c}, m, form) = {d} ELSE Here(cs \ {c}, m, form) = {}
  BY DEF SignsStand
<1>0. IF Sign(p, form) THEN \E d : Here(cs, m, form) = {d} ELSE Here(cs, m, form) = {}
  BY DEF SignsStand
<1>1. CASE c.mount = m /\ form = c.form
  <2>1. c \in Here(cs, m, form)
    BY <1>1 DEF Here
  <2>2. Here(cs, m, form) = {c}
    BY <1>0, <2>1
  <2>3. Here(cs \ {c}, m, form) = {}
    BY <2>2 DEF Here
  <2>4. ~Sign(q, form)
    BY <1>1 DEF Sign
  <2> QED BY <2>3, <2>4
<1>2. CASE ~(c.mount = m /\ form = c.form)
  <2>1. Here(cs \ {c}, m, form) = Here(cs, m, form)
    BY <1>2 DEF Here
  <2>2. Sign(q, form) <=> Sign(p, form)
    BY <1>2 DEF Sign
  <2> QED BY <1>0, <2>1, <2>2
<1> QED BY <1>1, <1>2

(* A call begins with its sign.                                             *)
LEMMA SignsOfCall ==
  ASSUME NEW p, NEW q, NEW cs, NEW m, NEW c, c.mount = m, c.form \in Account!Forms, SignsStand(p, cs, m),
         ~Sign(p, c.form), Sign(q, c.form),
         \A form \in Account!Forms \ {c.form} : Sign(q, form) <=> Sign(p, form)
  PROVE  SignsStand(q, cs \cup {c}, m)
<1> SUFFICES ASSUME NEW form \in Account!Forms
             PROVE  IF Sign(q, form) THEN \E d : Here(cs \cup {c}, m, form) = {d} ELSE Here(cs \cup {c}, m, form) = {}
  BY DEF SignsStand
<1>0. IF Sign(p, form) THEN \E d : Here(cs, m, form) = {d} ELSE Here(cs, m, form) = {}
  BY DEF SignsStand
<1>1. CASE form = c.form
  <2>1. Here(cs \cup {c}, m, form) = {c}
    BY <1>0, <1>1 DEF Here
  <2> QED BY <1>1, <2>1
<1>2. CASE form # c.form
  <2>1. Here(cs \cup {c}, m, form) = Here(cs, m, form)
    BY <1>2 DEF Here
  <2> QED BY <1>0, <1>2, <2>1
<1> QED BY <1>1, <1>2

(* The server's part changes no sign.                                       *)
LEMMA SignsOfServe ==
  ASSUME NEW p, NEW cs, NEW m, NEW c \in cs, NEW d, d.mount = c.mount, d.form = c.form,
         c.form \in Account!Forms, SignsStand(p, cs, m)
  PROVE  SignsStand(p, (cs \ {c}) \cup {d}, m)
<1> DEFINE ds == (cs \ {c}) \cup {d}
<1> SUFFICES ASSUME NEW form \in Account!Forms
             PROVE  IF Sign(p, form) THEN \E e : Here(ds, m, form) = {e} ELSE Here(ds, m, form) = {}
  BY DEF SignsStand
<1>0. IF Sign(p, form) THEN \E e : Here(cs, m, form) = {e} ELSE Here(cs, m, form) = {}
  BY DEF SignsStand
<1>1. CASE c \in Here(cs, m, form)
  <2>1. Here(cs, m, form) = {c} /\ Sign(p, form)
    BY <1>0, <1>1
  <2>2. Here(ds, m, form) = {d}
    BY <1>1, <2>1 DEF Here
  <2> QED BY <2>1, <2>2
<1>2. CASE c \notin Here(cs, m, form)
  <2>1. Here(ds, m, form) = Here(cs, m, form)
    BY <1>2 DEF Here
  <2> QED BY <1>0, <2>1
<1> QED BY <1>1, <1>2

(* What is known of the calls: whose they are.                              *)
Owned(cs, w) ==
  \A c \in cs : /\ c.form \in Account!SettingsForms \cup {"load"} => c.user \in People /\ w # Account!Initializing
                /\ c.form = "login" => c.user \in People

AccountParts ==
  /\ accountPage \in AccountPageType /\ accountCalls \subseteq AccountCallType(accountMount)
  /\ accountMount \in 1 .. MaxMounts /\ MaxMounts \in Nat
  /\ "load" \notin accountPage.busy
  /\ accountPage.name = "verify" => accountPage.busy \subseteq {"verify"}
  /\ SignsStand(accountPage, accountCalls, accountMount)
  /\ Stopped(accountCalls, accountMount)
  /\ accountTimers \subseteq {accountMount}

AccountWho ==
  /\ accountWho \in People \cup {Account!Anonymous, Account!Initializing} /\ accountShown \in People \cup {None}
  /\ (accountShown = None) = (accountWho \notin People)
  /\ accountPage.profile # None => accountWho # Account!Initializing
  /\ Owned(accountCalls, accountWho)
  /\ accountDeleted \subseteq People

LEMMA AccountPartsMean == AccountInv <=> AccountParts /\ AccountWho
<1>1. AccountInv => AccountParts /\ AccountWho
  BY InstancesAssumption
     DEF AccountInv, AccountTyped, AccountFormed, AccountParts, AccountWho, Owned, Account!TypeOK,
         AccountPageType, AccountCallType, Account!AccountPagesAssumption
<1>2. ASSUME AccountParts, AccountWho PROVE AccountInv
  <2>1. Account!TypeOK
    BY <1>2 DEF AccountParts, AccountWho, Account!TypeOK, AccountPageType, AccountCallType
  <2> QED BY <1>2, <2>1 DEF AccountInv, AccountTyped, AccountFormed, AccountParts, AccountWho, Owned
<1> QED BY <1>1, <1>2

LEMMA AccountPartsNext == AccountParts' /\ AccountWho' => AccountInv'
<1>1. (AccountInv <=> AccountParts /\ AccountWho)'
  BY AccountPartsMean, PTL
<1> QED BY <1>1

(* Another page opens.                                                      *)
LEMMA AccountOpens ==
  ASSUME AccountParts, NEW name \in PageNames, NEW cs \in SUBSET accountCalls, NEW ts \in SUBSET accountTimers,
         Account!Open(name, cs, ts)
  PROVE  /\ AccountParts' /\ accountPage'.profile = None
         /\ \A w : Owned(cs, w) => Owned(accountCalls', w)
<1> DEFINE m == accountMount
           Left(c) == IF c.mount = m /\ c.form \in {"delete", "verify"} THEN [c EXCEPT !.aborted = TRUE] ELSE c
           new == Account!NewPage(name)
<1>1. m < MaxMounts /\ accountMount' = m + 1 /\ accountPage' = new /\ accountTimers' = ts \ {m}
  BY DEF Account!Open
<1>2. accountCalls' = {Left(c) : c \in cs}
  BY Zenon DEF Account!Open
<1>3. ASSUME NEW c \in cs
      PROVE  /\ Left(c) \in AccountCallType(m)
             /\ Left(c).mount = c.mount /\ Left(c).form = c.form /\ Left(c).user = c.user
             /\ Left(c).form \in {"delete", "verify"} => Left(c).aborted
  <2>1. c \in AccountCallType(m) /\ (c.form \in {"delete", "verify"} /\ c.mount # m => c.aborted)
    BY DEF AccountParts, Stopped
  <2> QED BY <2>1 DEF AccountCallType
<1> HIDE DEF Left
<1>4. \A d \in accountCalls' : \E c \in cs : d = Left(c)
  BY <1>2
<1>5. /\ m \in Nat /\ m + 1 \in 1 .. MaxMounts
      /\ \A d \in accountCalls' : d.mount \in 1 .. m /\ d \in AccountCallType(m + 1)
  <2>1. m \in 1 .. MaxMounts /\ MaxMounts \in Nat
    BY DEF AccountParts
  <2>2. \A d \in accountCalls' : d \in AccountCallType(m)
    BY <1>3, <1>4
  <2> QED BY <1>1, <2>1, <2>2 DEF AccountCallType
<1>6. Stopped(accountCalls', accountMount')
  <2>1. \A d \in accountCalls' : d.mount # m + 1 /\ (d.form \in {"delete", "verify"} => d.aborted)
    BY <1>3, <1>4, <1>5
  <2> QED BY <1>1, <2>1 DEF Stopped
<1>7. SignsStand(accountPage', accountCalls', accountMount')
  <2>1. SignsStand(new, accountCalls', m + 1)
    BY <1>5, SignsOfNew
  <2> QED BY <1>1, <2>1, Zenon
<1>8. /\ accountPage' \in AccountPageType /\ accountPage'.busy = {} /\ accountPage'.profile = None
  <2>1. new \in AccountPageType /\ new.busy = {} /\ new.profile = None
    BY NewPageType
  <2> QED BY <1>1, <2>1, Zenon
<1>9. accountTimers' = {}
  BY <1>1 DEF AccountParts
<1>10. AccountParts'
  <2>1. accountCalls' \subseteq AccountCallType(accountMount') /\ accountMount' \in 1 .. MaxMounts
    BY <1>1, <1>5, Zenon
  <2>2. MaxMounts \in Nat
    BY DEF AccountParts
  <2> QED BY <1>6, <1>7, <1>8, <1>9, <2>1, <2>2, Zenon DEF AccountParts
<1>11. ASSUME NEW w, Owned(cs, w) PROVE Owned(accountCalls', w)
  <2> SUFFICES ASSUME NEW d \in accountCalls'
               PROVE  /\ d.form \in Account!SettingsForms \cup {"load"} =>
                           d.user \in People /\ w # Account!Initializing
                      /\ d.form = "login" => d.user \in People
    BY DEF Owned
  <2>1. PICK c \in cs : d = Left(c)
    BY <1>4
  <2>2. d.form = c.form /\ d.user = c.user
    BY <1>3, <2>1
  <2> QED BY <1>11, <2>2 DEF Owned
<1> QED BY <1>8, <1>10, <1>11

(* A form is sent, or the profile asked for.                                *)
LEMMA AccountCallsOut ==
  ASSUME AccountParts, NEW p \in AccountPageType, NEW form \in Account!Forms, NEW whom \in People \cup {None},
         ~Sign(accountPage, form), Sign(p, form),
         \A f \in Account!Forms \ {form} : Sign(p, f) <=> Sign(accountPage, f),
         "load" \notin p.busy, p.name = "verify" => p.busy \subseteq {"verify"},
         accountPage' = p, accountCalls' = Account!Call(form, whom),
         accountMount' = accountMount, accountTimers' = accountTimers
  PROVE  /\ AccountParts'
         /\ \A w : /\ Owned(accountCalls, w)
                   /\ form \in Account!SettingsForms \cup {"load"} => whom \in People /\ w # Account!Initializing
                   /\ form = "login" => whom \in People
                   => Owned(accountCalls', w)
<1> DEFINE c == [form |-> form, mount |-> accountMount, user |-> whom, aborted |-> FALSE, served |-> FALSE]
<1>1. accountCalls' = accountCalls \cup {c}
  BY DEF Account!Call
<1>2. /\ c \in AccountCallType(accountMount) /\ c.mount = accountMount /\ ~c.aborted /\ c.form = form
      /\ c.user = whom
  BY DEF AccountParts, AccountCallType
<1> HIDE DEF c
<1>3. SignsStand(p, accountCalls \cup {c}, accountMount)
  BY <1>2, SignsOfCall DEF AccountParts
<1>4. Stopped(accountCalls', accountMount')
  BY <1>1, <1>2 DEF AccountParts, Stopped
<1>5. AccountParts'
  <2>1. accountCalls' \subseteq AccountCallType(accountMount)
    BY <1>1, <1>2 DEF AccountParts
  <2>2. SignsStand(accountPage', accountCalls', accountMount')
    BY <1>1, <1>3, Zenon
  <2>3. accountMount \in 1 .. MaxMounts /\ MaxMounts \in Nat /\ accountTimers \subseteq {accountMount}
    BY DEF AccountParts
  <2> QED BY <1>4, <2>1, <2>2, <2>3, Zenon DEF AccountParts
<1>6. ASSUME NEW w, Owned(accountCalls, w),
             form \in Account!SettingsForms \cup {"load"} => whom \in People /\ w # Account!Initializing,
             form = "login" => whom \in People
      PROVE  Owned(accountCalls', w)
  BY <1>1, <1>2, <1>6 DEF Owned
<1> QED BY <1>5, <1>6

(* A call ends.                                                             *)
LEMMA AccountCallEnds ==
  ASSUME AccountParts, NEW c \in accountCalls, NEW p \in AccountPageType,
         p.busy = accountPage.busy, p.loading = accountPage.loading, p.name = accountPage.name,
         accountPage' = Account!Ended(c, p), accountCalls' = Account!Without(c),
         accountMount' = accountMount, accountTimers' \subseteq {accountMount}
  PROVE  /\ AccountParts' /\ accountCalls' \subseteq accountCalls
         /\ accountPage'.profile \in {p.profile, accountPage.profile}
<1>1. accountCalls' = accountCalls \ {c}
  BY DEF Account!Without
<1>2. c.form \in Account!Forms
  BY DEF AccountParts, AccountCallType
<1> DEFINE q == accountPage'
<1>3. /\ q \in AccountPageType /\ q.name = accountPage.name /\ q.profile \in {p.profile, accountPage.profile}
      /\ c.mount = accountMount => /\ q.busy = accountPage.busy \ {c.form}
                                   /\ q.loading <=> accountPage.loading /\ c.form # "load"
      /\ c.mount # accountMount => q = accountPage
  <2>1. CASE c.mount = accountMount
    <3>1. q = [p EXCEPT !.busy = @ \ {c.form}, !.loading = @ /\ c.form # "load",
                        !.loaded = @ \/ c.form = "load"]
      BY <2>1, Zenon DEF Account!Ended
    <3>2. p.loading \in BOOLEAN /\ p.loaded \in BOOLEAN /\ p.busy \in SUBSET Account!Forms
      BY DEF AccountPageType
    <3> DEFINE busy == p.busy \ {c.form}
               loading == p.loading /\ c.form # "load"
               loaded == p.loaded \/ c.form = "load"
    <3>3. q = [p EXCEPT !.busy = busy, !.loading = loading, !.loaded = loaded]
      BY <3>1
    <3>4. busy \in SUBSET Account!Forms /\ loading \in BOOLEAN /\ loaded \in BOOLEAN
      BY <3>2
    <3> HIDE DEF q, busy, loading, loaded
    <3>5. /\ q \in AccountPageType /\ q.busy = busy /\ q.loading = loading /\ q.name = p.name
          /\ q.profile = p.profile
      BY <3>3, <3>4 DEF AccountPageType
    <3> QED BY <3>5, <2>1 DEF busy, loading
  <2>2. CASE c.mount # accountMount
    BY <2>2 DEF Account!Ended, AccountParts
  <2> QED BY <2>1, <2>2
<1> HIDE DEF q
<1>4. SignsStand(q, accountCalls \ {c}, accountMount)
  BY <1>2, <1>3, SignsOfEnd DEF AccountParts
<1>5. "load" \notin q.busy /\ (q.name = "verify" => q.busy \subseteq {"verify"})
  BY <1>3 DEF AccountParts
<1>6. Stopped(accountCalls \ {c}, accountMount) /\ accountCalls \ {c} \subseteq AccountCallType(accountMount)
  BY DEF AccountParts, Stopped
<1>7. accountMount \in 1 .. MaxMounts /\ MaxMounts \in Nat
  BY DEF AccountParts
<1>8. AccountParts'
  BY <1>1, <1>3, <1>4, <1>5, <1>6, <1>7, Zenon DEF AccountParts, q
<1> QED BY <1>1, <1>3, <1>8 DEF q

(* The server does its part of a call.                                      *)
LEMMA AccountServed ==
  ASSUME AccountParts, NEW c \in accountCalls, Account!Serve(c)
  PROVE  /\ AccountParts' /\ accountPage' = accountPage
         /\ \A w : Owned(accountCalls, w) => Owned(accountCalls', w)
<1> DEFINE d == [c EXCEPT !.served = TRUE]
<1>0. c \in AccountCallType(accountMount)
  BY DEF AccountParts
<1>1. /\ d \in AccountCallType(accountMount) /\ d.form = c.form /\ d.mount = c.mount /\ d.user = c.user
      /\ d.aborted = c.aborted /\ c.form \in Account!Forms
  BY <1>0 DEF AccountCallType
<1>2. /\ accountCalls' = (accountCalls \ {c}) \cup {d}
      /\ accountPage' = accountPage /\ accountMount' = accountMount /\ accountTimers' = accountTimers
  BY DEF Account!Serve
<1> HIDE DEF d
<1>3. SignsStand(accountPage, (accountCalls \ {c}) \cup {d}, accountMount)
  BY <1>1, SignsOfServe DEF AccountParts
<1>4. Stopped((accountCalls \ {c}) \cup {d}, accountMount)
  BY <1>1 DEF AccountParts, Stopped
<1>5. (accountCalls \ {c}) \cup {d} \subseteq AccountCallType(accountMount)
  BY <1>1 DEF AccountParts
<1>6. AccountParts'
  BY <1>2, <1>3, <1>4, <1>5, Zenon DEF AccountParts
<1>7. ASSUME NEW w, Owned(accountCalls, w) PROVE Owned(accountCalls', w)
  BY <1>1, <1>2, <1>7 DEF Owned
<1> QED BY <1>2, <1>6, <1>7

(* The session never becomes unknown again.                                 *)
LEMMA OwnedSmaller ==
  ASSUME NEW cs, NEW w, NEW ds \in SUBSET cs, NEW v, Owned(cs, w), v = w \/ v # Account!Initializing
  PROVE  Owned(ds, v)
BY DEF Owned

LEMMA SessionsApart ==
  /\ Account!Anonymous # Account!Initializing /\ Account!Anonymous \notin People
  /\ Account!Initializing \notin People /\ None \notin People
  /\ None # "login" /\ None # "home"
BY InstancesAssumption DEF Account!AccountPagesAssumption, Account!Anonymous, Account!Initializing

LEMMA AccountSends ==
  ASSUME AccountInv, NEW form \in Account!Forms \ {"load", "verify"}, NEW whom \in People \cup {None},
         Account!Submit(form, whom),
         form \in Account!SettingsForms => whom = accountWho, form = "login" => whom \in People
  PROVE  AccountInv'
<1> USE AccountPartsMean
<1> DEFINE p == [accountPage EXCEPT !.busy = @ \cup {form}, !.failed = @ \ {form},
                                    !.unknown = IF form = "delete" THEN FALSE ELSE @]
<1>0. AccountParts /\ AccountWho
  OBVIOUS
<1>1. /\ form \in Account!Offered /\ form \notin accountPage.busy /\ Account!Redirect = None
      /\ accountCalls' = Account!Call(form, whom)
      /\ accountMount' = accountMount /\ accountTimers' = accountTimers
      /\ UNCHANGED <<accountWho, accountShown, accountDeleted>>
  BY DEF Account!Submit, Account!User, Account!Quiet
<1>p. accountPage' = p
  BY Zenon DEF Account!Submit
<1>2. /\ p \in AccountPageType /\ p.busy = accountPage.busy \cup {form} /\ p.loading = accountPage.loading
      /\ p.name = accountPage.name /\ p.profile = accountPage.profile
  <2>1. accountPage \in AccountPageType
    BY <1>0 DEF AccountParts
  <2> DEFINE busy == accountPage.busy \cup {form}
             failed == accountPage.failed \ {form}
             unknown == IF form = "delete" THEN FALSE ELSE accountPage.unknown
  <2>2. busy \in SUBSET Account!Forms /\ failed \in SUBSET Account!Forms /\ unknown \in BOOLEAN
    BY <2>1 DEF AccountPageType
  <2>3. p = [accountPage EXCEPT !.busy = busy, !.failed = failed, !.unknown = unknown]
    OBVIOUS
  <2> HIDE DEF busy, failed, unknown, p
  <2>4. /\ p \in AccountPageType /\ p.busy = busy /\ p.loading = accountPage.loading
        /\ p.name = accountPage.name /\ p.profile = accountPage.profile
    BY <2>1, <2>2, <2>3 DEF AccountPageType
  <2> QED BY <2>4 DEF busy
<1> HIDE DEF p
<1>3. /\ accountPage.name # "verify"
      /\ form \in Account!SettingsForms => accountPage.name = "settings" /\ accountPage.profile # None
  BY <1>1 DEF Account!Offered, Account!FormsOf, Account!SettingsForms
<1>4. form \in Account!SettingsForms => accountWho \in People
  <2>1. accountPage.name = "settings" => accountWho # Account!Anonymous
    BY <1>1, SessionsApart DEF Account!Redirect
  <2> QED BY <1>0, <1>3, <2>1 DEF AccountWho
<1>5. AccountParts' /\ \A w : /\ Owned(accountCalls, w)
                              /\ form \in Account!SettingsForms \cup {"load"} =>
                                   whom \in People /\ w # Account!Initializing
                              /\ form = "login" => whom \in People
                              => Owned(accountCalls', w)
  <2>1. /\ ~Sign(accountPage, form) /\ Sign(p, form)
        /\ \A f \in Account!Forms \ {form} : Sign(p, f) <=> Sign(accountPage, f)
        /\ "load" \notin p.busy /\ (p.name = "verify" => p.busy \subseteq {"verify"})
    BY <1>0, <1>1, <1>2, <1>3 DEF Sign, AccountParts
  <2> QED BY <1>0, <1>1, <1>p, <1>2, <2>1, AccountCallsOut
<1>6. Owned(accountCalls', accountWho)
  BY <1>0, <1>4, <1>5, SessionsApart DEF AccountWho
<1>7. AccountWho'
  BY <1>0, <1>1, <1>p, <1>2, <1>6 DEF AccountWho
<1> QED BY <1>5, <1>7, AccountPartsNext

LEMMA AccountLoads ==
  ASSUME AccountInv, Account!LoadProfile, accountWho \in People, ~accountPage.loading
  PROVE  AccountInv'
<1> DEFINE p == [accountPage EXCEPT !.loading = TRUE, !.failed = @ \ {"load"}]
<1>0. AccountParts /\ AccountWho
  BY AccountPartsMean
<1>1. /\ accountCalls' = Account!Call("load", accountWho)
      /\ accountMount' = accountMount /\ accountTimers' = accountTimers
      /\ UNCHANGED <<accountWho, accountShown, accountDeleted>>
  BY DEF Account!LoadProfile
<1>p. accountPage' = p
  BY Zenon DEF Account!LoadProfile
<1>2. /\ p \in AccountPageType /\ p.busy = accountPage.busy /\ p.loading = TRUE
      /\ p.name = accountPage.name /\ p.profile = accountPage.profile
  <2>1. accountPage \in AccountPageType
    BY <1>0 DEF AccountParts
  <2> DEFINE failed == accountPage.failed \ {"load"}
  <2>2. failed \in SUBSET Account!Forms
    BY <2>1 DEF AccountPageType
  <2>3. p = [accountPage EXCEPT !.loading = TRUE, !.failed = failed]
    OBVIOUS
  <2> HIDE DEF failed, p
  <2> QED BY <2>1, <2>2, <2>3 DEF AccountPageType
<1> HIDE DEF p
<1>3. "load" \in Account!Forms
  BY DEF Account!Forms
<1>5. AccountParts' /\ \A w : /\ Owned(accountCalls, w)
                              /\ "load" \in Account!SettingsForms \cup {"load"} =>
                                   accountWho \in People /\ w # Account!Initializing
                              /\ "load" = "login" => accountWho \in People
                              => Owned(accountCalls', w)
  <2>1. /\ ~Sign(accountPage, "load") /\ Sign(p, "load")
        /\ \A f \in Account!Forms \ {"load"} : Sign(p, f) <=> Sign(accountPage, f)
        /\ "load" \notin p.busy /\ (p.name = "verify" => p.busy \subseteq {"verify"})
    BY <1>0, <1>2 DEF Sign, AccountParts
  <2> QED BY <1>0, <1>1, <1>p, <1>2, <1>3, <2>1, AccountCallsOut
<1>6. Owned(accountCalls', accountWho)
  BY <1>0, <1>5, SessionsApart DEF AccountWho
<1>7. AccountWho'
  BY <1>0, <1>1, <1>p, <1>2, <1>6 DEF AccountWho
<1> QED BY <1>5, <1>7, AccountPartsNext

LEMMA AccountVerifies ==
  ASSUME AccountInv, Account!Verify
  PROVE  AccountInv'
<1> DEFINE p == [accountPage EXCEPT !.busy = {"verify"}, !.failed = {}]
<1>0. AccountParts /\ AccountWho
  BY AccountPartsMean
<1>1. /\ accountCalls' = Account!Call("verify", None)
      /\ accountMount' = accountMount /\ accountTimers' = accountTimers
      /\ UNCHANGED <<accountWho, accountShown, accountDeleted>>
      /\ accountPage.name = "verify" /\ "verify" \notin accountPage.busy
  BY DEF Account!Verify
<1>p. accountPage' = p
  BY Zenon DEF Account!Verify
<1>3. "verify" \in Account!Forms
  BY DEF Account!Forms
<1>2. /\ p \in AccountPageType /\ p.busy = {"verify"} /\ p.loading = accountPage.loading
      /\ p.name = accountPage.name /\ p.profile = accountPage.profile
  <2>1. accountPage \in AccountPageType
    BY <1>0 DEF AccountParts
  <2> DEFINE failed == {}
             busy == {"verify"}
  <2>2. failed \in SUBSET Account!Forms /\ busy \in SUBSET Account!Forms
    BY <1>3
  <2>3. p = [accountPage EXCEPT !.busy = busy, !.failed = failed]
    OBVIOUS
  <2> HIDE DEF failed, p, busy
  <2>4. /\ p \in AccountPageType /\ p.busy = busy /\ p.loading = accountPage.loading
        /\ p.name = accountPage.name /\ p.profile = accountPage.profile
    BY <2>1, <2>2, <2>3 DEF AccountPageType
  <2> QED BY <2>4 DEF busy
<1> HIDE DEF p
<1>5. AccountParts' /\ \A w : /\ Owned(accountCalls, w)
                              /\ "verify" \in Account!SettingsForms \cup {"load"} =>
                                   None \in People /\ w # Account!Initializing
                              /\ "verify" = "login" => None \in People
                              => Owned(accountCalls', w)
  <2>1. /\ ~Sign(accountPage, "verify") /\ Sign(p, "verify")
        /\ \A f \in Account!Forms \ {"verify"} : Sign(p, f) <=> Sign(accountPage, f)
        /\ "load" \notin p.busy /\ (p.name = "verify" => p.busy \subseteq {"verify"})
    BY <1>0, <1>1, <1>2 DEF Sign, AccountParts
  <2>2. None \in People \cup {None}
    OBVIOUS
  <2> QED BY <1>0, <1>1, <1>p, <1>2, <1>3, <2>1, <2>2, AccountCallsOut
<1>6. Owned(accountCalls', accountWho)
  BY <1>0, <1>5 DEF AccountWho, Account!SettingsForms
<1>7. AccountWho'
  BY <1>0, <1>1, <1>p, <1>2, <1>6 DEF AccountWho
<1> QED BY <1>5, <1>7, AccountPartsNext

(* Another page opens, and the session stays or ends.                       *)
LEMMA AccountMoves ==
  ASSUME AccountInv, NEW name \in PageNames, NEW cs \in SUBSET accountCalls, NEW ts \in SUBSET accountTimers,
         Account!Open(name, cs, ts),
         \/ UNCHANGED <<accountWho, accountShown>>
         \/ Account!SignedOut,
         accountDeleted' = accountDeleted
  PROVE  AccountInv'
<1>0. AccountParts /\ AccountWho
  BY AccountPartsMean
<1>1. AccountParts' /\ accountPage'.profile = None /\ \A w : Owned(cs, w) => Owned(accountCalls', w)
  BY <1>0, AccountOpens
<1>2. /\ accountWho' \in People \cup {Account!Anonymous, Account!Initializing}
      /\ accountShown' \in People \cup {None}
      /\ (accountShown' = None) = (accountWho' \notin People)
      /\ accountWho' = accountWho \/ accountWho' # Account!Initializing
  BY <1>0, SessionsApart DEF AccountWho, Account!SignedOut
<1>3. Owned(accountCalls', accountWho')
  BY <1>0, <1>1, <1>2, OwnedSmaller DEF AccountWho
<1>4. AccountWho'
  BY <1>0, <1>1, <1>2, <1>3 DEF AccountWho
<1> QED BY <1>1, <1>4, AccountPartsNext

(* A call ends in the page, and the session stays or is its user's.         *)
LEMMA AccountAnswered ==
  ASSUME AccountInv, NEW c \in accountCalls, NEW p \in AccountPageType,
         p.busy = accountPage.busy, p.loading = accountPage.loading, p.name = accountPage.name,
         p.profile # None => accountPage.profile # None \/ accountWho # Account!Initializing,
         accountPage' = Account!Ended(c, p), accountCalls' = Account!Without(c),
         accountMount' = accountMount, accountTimers' \subseteq {accountMount},
         \/ UNCHANGED <<accountWho, accountShown>>
         \/ accountWho' = accountWho /\ accountWho \in People /\ accountShown' \in People
         \/ accountWho' \in People /\ accountShown' = accountWho',
         accountDeleted' = accountDeleted
  PROVE  AccountInv'
<1>0. AccountParts /\ AccountWho
  BY AccountPartsMean
<1>1. /\ AccountParts' /\ accountCalls' \subseteq accountCalls
      /\ accountPage'.profile \in {p.profile, accountPage.profile}
  BY <1>0, AccountCallEnds
<1>2. /\ accountWho' \in People \cup {Account!Anonymous, Account!Initializing}
      /\ accountShown' \in People \cup {None}
      /\ (accountShown' = None) = (accountWho' \notin People)
      /\ accountWho' = accountWho \/ accountWho' # Account!Initializing
      /\ accountPage'.profile # None => accountWho' # Account!Initializing
  BY <1>0, <1>1, SessionsApart DEF AccountWho
<1>3. Owned(accountCalls', accountWho')
  BY <1>0, <1>1, <1>2, OwnedSmaller DEF AccountWho
<1>4. AccountWho'
  BY <1>0, <1>2, <1>3 DEF AccountWho
<1> QED BY <1>1, <1>4, AccountPartsNext

(* The session changes and the page stays.                                  *)
LEMMA AccountStays ==
  ASSUME AccountInv, Account!Stay, accountDeleted' = accountDeleted,
         \/ Account!SignedOut
         \/ accountWho' \in People /\ accountShown' = accountWho'
         \/ accountWho' = Account!Anonymous /\ accountShown' = None
  PROVE  AccountInv'
<1>0. AccountParts /\ AccountWho
  BY AccountPartsMean
<1>1. UNCHANGED <<accountPage, accountMount, accountCalls, accountTimers>>
  BY DEF Account!Stay
<1>2. AccountParts'
  BY <1>0, <1>1 DEF AccountParts
<1>3. /\ accountWho' \in People \cup {Account!Anonymous, Account!Initializing}
      /\ accountShown' \in People \cup {None}
      /\ (accountShown' = None) = (accountWho' \notin People)
      /\ accountWho' # Account!Initializing
  BY <1>0, SessionsApart DEF AccountWho, Account!SignedOut
<1>4. Owned(accountCalls', accountWho')
  BY <1>0, <1>1, <1>3, OwnedSmaller DEF AccountWho
<1>5. AccountWho'
  BY <1>0, <1>1, <1>3, <1>4 DEF AccountWho
<1> QED BY <1>2, <1>5, AccountPartsNext

LEMMA AccountSucceeds ==
  ASSUME AccountInv, NEW c \in accountCalls, Account!Succeeded(c)
  PROVE  AccountInv'
<1>0. AccountParts /\ AccountWho
  BY AccountPartsMean
<1>t. /\ accountPage \in AccountPageType /\ c \in AccountCallType(accountMount)
      /\ accountTimers \subseteq {accountMount}
      /\ {"login", "home"} \subseteq PageNames
  BY <1>0 DEF AccountParts, PageNames
<1>o. /\ c.form \in Account!SettingsForms \cup {"load"} => c.user \in People /\ accountWho # Account!Initializing
      /\ c.form = "login" => c.user \in People
  BY <1>0 DEF AccountWho, Owned
<1>a. ASSUME NEW whom \in People, accountWho # Account!Initializing,
             Account!InPage(c, [accountPage EXCEPT !.profile = whom]),
             accountTimers' = accountTimers, accountDeleted' = accountDeleted, accountWho' = accountWho,
             accountShown' = accountShown \/ (accountWho \in People /\ accountShown' \in People)
      PROVE  AccountInv'
  <2> DEFINE p == [accountPage EXCEPT !.profile = whom]
  <2>1. /\ p \in AccountPageType /\ p.busy = accountPage.busy /\ p.loading = accountPage.loading
        /\ p.name = accountPage.name
    BY <1>t DEF AccountPageType
  <2>2. /\ accountPage' = Account!Ended(c, p) /\ accountCalls' = Account!Without(c)
        /\ accountMount' = accountMount
    BY <1>a, Zenon DEF Account!InPage
  <2> HIDE DEF p
  <2> QED BY <1>a, <1>t, <2>1, <2>2, AccountAnswered
<1>b. ASSUME Account!Done(c), accountTimers' \subseteq {accountMount}, accountDeleted' = accountDeleted
      PROVE  AccountInv'
  <2> DEFINE p == [accountPage EXCEPT !.done = TRUE]
  <2>1. /\ p \in AccountPageType /\ p.busy = accountPage.busy /\ p.loading = accountPage.loading
        /\ p.name = accountPage.name /\ p.profile = accountPage.profile
    BY <1>t DEF AccountPageType
  <2>2. /\ accountPage' = Account!Ended(c, p) /\ accountCalls' = Account!Without(c)
        /\ accountMount' = accountMount /\ UNCHANGED <<accountWho, accountShown>>
    BY <1>b, Zenon DEF Account!InPage, Account!Done
  <2> HIDE DEF p
  <2> QED BY <1>b, <1>t, <2>1, <2>2, AccountAnswered
<1>1. CASE Account!ProfileLoaded(c)
  BY <1>1, <1>a, <1>o DEF Account!ProfileLoaded, Account!Success
<1>2. CASE Account!ProfileSaved(c)
  <2>1. /\ Account!InPage(c, [accountPage EXCEPT !.profile = c.user])
        /\ accountTimers' = accountTimers /\ accountDeleted' = accountDeleted /\ accountWho' = accountWho
        /\ c.form = "profile" /\ accountShown' = IF accountWho \in People THEN c.user ELSE accountShown
    BY <1>2 DEF Account!ProfileSaved, Account!Success, Account!LoggedIn
  <2>2. c.user \in People /\ accountWho # Account!Initializing
    BY <1>o, <2>1 DEF Account!SettingsForms
  <2> QED BY <1>a, <2>1, <2>2
<1>3. ASSUME NEW name \in {"login", "home"}, Account!Success(c, c.form), Account!SignedOut, Account!Leave(name, c)
      PROVE  AccountInv'
  <2>1. Account!Open(name, Account!Without(c), accountTimers)
    BY <1>3 DEF Account!Leave
  <2>2. Account!Without(c) \in SUBSET accountCalls
    BY DEF Account!Without
  <2>3. accountDeleted' = accountDeleted /\ name \in PageNames
    BY <1>3, <1>t DEF Account!Success
  <2> QED BY <1>3, <2>1, <2>2, <2>3, AccountMoves
<1>4. CASE Account!PasswordChanged(c)
  BY <1>3, <1>4 DEF Account!PasswordChanged, Account!Success
<1>5. CASE Account!AccountDeleted(c)
  BY <1>3, <1>5 DEF Account!AccountDeleted, Account!Success
<1>6. CASE Account!LoginSucceeded(c)
  <2>1. /\ accountPage' = Account!Ended(c, accountPage) /\ accountCalls' = Account!Without(c)
        /\ accountMount' = accountMount /\ accountTimers' = accountTimers
        /\ accountDeleted' = accountDeleted /\ c.form = "login"
        /\ accountWho' = c.user /\ accountShown' = c.user
    BY <1>6 DEF Account!LoginSucceeded, Account!Success, Account!InPage
  <2> QED BY <1>o, <1>t, <2>1, AccountAnswered
<1>7. CASE Account!Registered(c)
  BY <1>7, <1>b, <1>t DEF Account!Registered, Account!Success
<1>8. CASE Account!ForgotPasswordSent(c)
  BY <1>8, <1>b, <1>t DEF Account!ForgotPasswordSent, Account!Success
<1>9. CASE Account!PasswordReset(c)
  BY <1>9, <1>b, <1>t DEF Account!PasswordReset, Account!Success
<1>10. CASE Account!Verified(c)
  <2>1. Account!Done(c) /\ c.form = "verify" /\ ~c.aborted /\ accountTimers' = accountTimers \cup {c.mount}
        /\ accountDeleted' = accountDeleted
    BY <1>10 DEF Account!Verified, Account!Success
  <2>2. c.mount = accountMount
    BY <1>0, <2>1 DEF AccountParts, Stopped
  <2> QED BY <1>b, <1>t, <2>1, <2>2
<1> QED BY <1>1, <1>2, <1>4, <1>5, <1>6, <1>7, <1>8, <1>9, <1>10 DEF Account!Succeeded

LEMMA AccountEndsOtherwise ==
  ASSUME AccountInv, NEW c \in accountCalls,
         Account!Unauthorized(c) \/ Account!Failed(c) \/ Account!Dropped(c) \/ Account!Interrupted(c)
  PROVE  AccountInv'
<1>0. AccountParts /\ AccountWho
  BY AccountPartsMean
<1>t. /\ accountPage \in AccountPageType /\ c \in AccountCallType(accountMount) /\ c.form \in Account!Forms
      /\ accountTimers \subseteq {accountMount} /\ "login" \in PageNames
      /\ Account!Without(c) \in SUBSET accountCalls
  BY <1>0 DEF AccountParts, PageNames, Account!Without, AccountCallType
<1>1. CASE Account!Unauthorized(c)
  <2>1. /\ Account!Open("login", Account!Without(c), accountTimers) /\ Account!SignedOut
        /\ accountDeleted' = accountDeleted
    BY <1>1 DEF Account!Unauthorized, Account!Leave
  <2> QED BY <1>t, <2>1, AccountMoves
<1>2. CASE Account!Failed(c)
  <2> DEFINE failed == accountPage.failed \cup {c.form}
             p == [accountPage EXCEPT !.failed = failed]
  <2>1. /\ accountPage' = Account!Ended(c, [accountPage EXCEPT !.failed = @ \cup {c.form}])
        /\ accountCalls' = Account!Without(c)
        /\ UNCHANGED <<accountWho, accountShown, accountMount, accountTimers, accountDeleted>>
    BY <1>2, Zenon DEF Account!Failed
  <2>2. accountPage' = Account!Ended(c, p)
    BY <2>1, Zenon
  <2>3. failed \in SUBSET Account!Forms
    BY <1>t DEF AccountPageType
  <2> HIDE DEF failed
  <2>4. /\ p \in AccountPageType /\ p.busy = accountPage.busy /\ p.loading = accountPage.loading
        /\ p.name = accountPage.name /\ p.profile = accountPage.profile
    BY <1>t, <2>3 DEF AccountPageType
  <2> HIDE DEF p
  <2> QED BY <1>t, <2>1, <2>2, <2>4, AccountAnswered
<1>3. CASE Account!Interrupted(c)
  <2> DEFINE p == [accountPage EXCEPT !.unknown = TRUE]
  <2>1. /\ accountPage' = Account!Ended(c, p) /\ accountCalls' = Account!Without(c)
        /\ UNCHANGED <<accountWho, accountShown, accountMount, accountTimers, accountDeleted>>
    BY <1>3, Zenon DEF Account!Interrupted
  <2>2. /\ p \in AccountPageType /\ p.busy = accountPage.busy /\ p.loading = accountPage.loading
        /\ p.name = accountPage.name /\ p.profile = accountPage.profile
    BY <1>t DEF AccountPageType
  <2> HIDE DEF p
  <2> QED BY <1>t, <2>1, <2>2, AccountAnswered
<1>4. CASE Account!Dropped(c)
  <2>1. /\ c.aborted /\ accountCalls' = Account!Without(c)
        /\ UNCHANGED <<accountWho, accountShown, accountPage, accountMount, accountTimers, accountDeleted>>
    BY <1>4 DEF Account!Dropped
  <2>2. c.mount # accountMount
    BY <1>0, <2>1 DEF AccountParts, Stopped
  <2>3. accountPage' = Account!Ended(c, accountPage)
    BY <2>1, <2>2 DEF Account!Ended
  <2> QED BY <1>t, <2>1, <2>3, AccountAnswered
<1> QED BY <1>1, <1>2, <1>3, <1>4

LEMMA AccountNext ==
  ASSUME AccountInv, [Account!Next]_(Account!vars)
  PROVE  AccountInv'
<1>0. AccountParts /\ AccountWho
  BY AccountPartsMean
<1>t. accountTimers \in SUBSET accountTimers /\ accountCalls \in SUBSET accountCalls
  OBVIOUS
<1>f. Account!Forms \ {"load", "verify"}
        = {"profile", "password", "delete", "login", "register", "forgot", "reset"}
  BY DEF Account!Forms, Account!SettingsForms
<1>1. CASE Account!Redirected
  <2>1. /\ Account!Redirect # None /\ Account!Open(Account!Redirect, accountCalls, accountTimers)
        /\ UNCHANGED <<accountWho, accountShown, accountDeleted>>
    BY <1>1 DEF Account!Redirected, Account!GoTo
  <2>2. Account!Redirect \in PageNames
    BY <2>1 DEF Account!Redirect, PageNames
  <2> QED BY <1>t, <2>1, <2>2, AccountMoves
<1>2. CASE Account!HandleSubmit
  <2>1. ASSUME NEW form \in Account!SettingsForms, Account!Submit(form, accountWho)
        PROVE  AccountInv'
    <3>1. form \in Account!Forms \ {"load", "verify"}
      BY <1>f DEF Account!SettingsForms
    <3>2. form \in Account!Offered /\ accountWho # Account!Anonymous
      <4>1. form \in Account!Offered /\ Account!Redirect = None
        BY <2>1 DEF Account!Submit, Account!User, Account!Quiet
      <4>2. accountPage.name = "settings"
        BY <4>1 DEF Account!Offered, Account!FormsOf, Account!SettingsForms
      <4> QED BY <4>1, <4>2, SessionsApart DEF Account!Redirect
    <3>3. accountPage.profile # None
      BY <3>2 DEF Account!Offered, Account!FormsOf, Account!SettingsForms
    <3>4. accountWho \in People
      BY <1>0, <3>2, <3>3 DEF AccountWho
    <3> QED BY <2>1, <3>1, <3>4, AccountSends
  <2>2. ASSUME NEW whom \in People, NEW form \in {"login", "register", "forgot", "reset"},
               Account!Submit(form, whom)
        PROVE  AccountInv'
    <3>1. form \in Account!Forms \ {"load", "verify"} /\ form \notin Account!SettingsForms
      BY <1>f DEF Account!SettingsForms
    <3> QED BY <2>2, <3>1, AccountSends
  <2>3. CASE Account!HandleProfileSubmit \/ Account!HandlePasswordSubmit \/ Account!HandleDeleteSubmit
    BY <2>1, <2>3
       DEF Account!HandleProfileSubmit, Account!HandlePasswordSubmit, Account!HandleDeleteSubmit,
           Account!SettingsForms
  <2>4. ASSUME NEW whom \in People,
               \/ Account!HandleLogin(whom) \/ Account!HandleRegister(whom)
               \/ Account!HandleForgotPassword(whom) \/ Account!HandleResetPassword(whom)
        PROVE  AccountInv'
    BY <2>2, <2>4
       DEF Account!HandleLogin, Account!HandleRegister, Account!HandleForgotPassword,
           Account!HandleResetPassword
  <2> QED BY <1>2, <2>3, <2>4 DEF Account!HandleSubmit
<1>3. CASE Account!LoadFirst
  BY <1>3, AccountLoads DEF Account!LoadFirst, Account!ProfileDue, Account!LoggedIn
<1>4. CASE Account!LoadAgain
  BY <1>4, AccountLoads DEF Account!LoadAgain, Account!LoggedIn
<1>5. CASE Account!Verify
  BY <1>5, AccountVerifies
<1>6. CASE Account!TimerFires
  <2>1. PICK t \in accountTimers : Account!Open("login", accountCalls, accountTimers \ {t})
    BY <1>6 DEF Account!TimerFires
  <2>2. /\ accountTimers \ {t} \in SUBSET accountTimers /\ "login" \in PageNames
        /\ UNCHANGED <<accountWho, accountShown, accountDeleted>>
    BY <1>6 DEF Account!TimerFires, PageNames
  <2> QED BY <1>t, <2>1, <2>2, AccountMoves
<1>7. CASE Account!HeaderLogout
  BY <1>7, AccountStays DEF Account!HeaderLogout
<1>8. ASSUME NEW c \in accountCalls,
             \/ Account!Serve(c) \/ Account!Succeeded(c) \/ Account!Unauthorized(c)
             \/ Account!Failed(c) \/ Account!Dropped(c) \/ Account!Interrupted(c)
      PROVE  AccountInv'
  <2>1. CASE Account!Serve(c)
    <3>1. AccountParts' /\ accountPage' = accountPage /\ Owned(accountCalls', accountWho)
      BY <1>0, <2>1, AccountServed DEF AccountWho
    <3>2. /\ accountWho' = accountWho /\ accountShown' = accountShown
          /\ accountDeleted' \subseteq People
      <4>1. /\ accountWho' = accountWho /\ accountShown' = accountShown
            /\ accountDeleted' = IF c.form = "delete" THEN accountDeleted \cup {c.user} ELSE accountDeleted
        BY <2>1 DEF Account!Serve
      <4>2. c.form = "delete" => c.user \in People
        BY <1>0 DEF AccountWho, Owned, Account!SettingsForms
      <4> QED BY <1>0, <4>1, <4>2 DEF AccountWho
    <3>3. AccountWho'
      BY <1>0, <3>1, <3>2 DEF AccountWho
    <3> QED BY <3>1, <3>3, AccountPartsNext
  <2>2. CASE Account!Succeeded(c)
    BY <2>2, AccountSucceeds
  <2>3. CASE Account!Unauthorized(c) \/ Account!Failed(c) \/ Account!Dropped(c) \/ Account!Interrupted(c)
    BY <2>3, AccountEndsOtherwise
  <2> QED BY <1>8, <2>1, <2>2, <2>3
<1>9. ASSUME NEW name \in PageNames, Account!Navigate(name)
      PROVE  AccountInv'
  <2>1. /\ Account!Open(name, accountCalls, accountTimers)
        /\ UNCHANGED <<accountWho, accountShown, accountDeleted>>
    BY <1>9 DEF Account!Navigate, Account!GoTo
  <2> QED BY <1>t, <2>1, AccountMoves
<1>10. ASSUME NEW whom \in People \cup {Account!Anonymous}, Account!Started(whom)
       PROVE  AccountInv'
  <2>1. /\ Account!Stay /\ accountDeleted' = accountDeleted /\ accountWho' = whom
        /\ accountShown' = IF whom = Account!Anonymous THEN None ELSE whom
    BY <1>10 DEF Account!Started
  <2> QED BY <2>1, SessionsApart, AccountStays
<1>11. CASE UNCHANGED Account!vars
  BY <1>11 DEF Account!vars, AccountInv, AccountTyped, AccountFormed, Account!TypeOK
<1> QED BY <1>1, <1>2, <1>3, <1>4, <1>5, <1>6, <1>7, <1>8, <1>9, <1>10, <1>11 DEF Account!Next, PageNames

----------------------------------------------------------------------------
(* The administrators' page. Its functions are about one record, and so is  *)
(* the invariant.                                                           *)

AdminRefusals == {"anonymous", "forbidden"}
ListModes == {"initial", "list", "page", "sync"}

(* Refused, nothing is shown and nothing that is asked for will be.         *)
AdminRefused(p) ==
  p.access \in AdminRefusals =>
    /\ p.shown = None /\ ~p.stats /\ p.mode = "closed"
    /\ p.call["stats"] # None => p.call["stats"].aborted

(* The call of the list is for the location that is current.                *)
AdminListed(p) == p.call["list"] # None => p.call["list"].location = p.active /\ p.call["list"].mode \in ListModes

(* It is aborted only where the page has been refused.                      *)
AdminStopped(p) ==
  p.call["list"] # None /\ p.call["list"].aborted => p.access \in AdminRefusals \cup {"checking"}

AdminShown(p) ==
  p.access = "authorized" /\ p.call["list"] = None /\ p.errors \cap {"list", "page", "sync"} = {}
    => p.shown = p.active

(* The details are those of the user chosen, and so are those that will be. *)
AdminDetailed(p) ==
  p.mode = "detail" => /\ p.detail \in {None, p.user}
                       /\ p.call["detail"] # None => p.call["detail"].user = p.user

AdminGood(p) ==
  p \in Admin!PageType /\ AdminRefused(p) /\ AdminListed(p) /\ AdminStopped(p) /\ AdminShown(p) /\ AdminDetailed(p)

(* What the invariant is about, the calls aside.                            *)
Alike(p, q) ==
  /\ p.access = q.access /\ p.active = q.active /\ p.shown = q.shown /\ p.stats = q.stats
  /\ p.errors = q.errors /\ p.mode = q.mode /\ p.user = q.user /\ p.detail = q.detail

(* The same call, which may have been aborted.                              *)
SameCall(c, d) ==
  /\ (c = None) = (d = None)
  /\ d # None => c.mode = d.mode /\ c.location = d.location /\ c.user = d.user

LEMMA NoneIsNoCall == None \notin Admin!CallType
BY InstancesAssumption DEF Admin!AdminPageAssumption

LEMMA AdminNewCall ==
  ASSUME NEW mode \in ListModes \cup {"read", "change", "delete"}, NEW location \in Admin!Locations \cup {None},
         NEW whom \in People \cup {None}, NEW restore \in BOOLEAN, NEW tail \in Admin!Tails
  PROVE  LET c == Admin!NewCall(mode, location, whom, restore, tail)
         IN /\ c \in Admin!CallType /\ c # None /\ ~c.aborted /\ c.mode = mode
            /\ c.location = location /\ c.user = whom
<1> DEFINE c == Admin!NewCall(mode, location, whom, restore, tail)
<1>1. c \in Admin!CallType
  BY DEF Admin!NewCall, Admin!CallType, ListModes
<1>2. c.mode = mode /\ c.location = location /\ c.user = whom /\ ~c.aborted
  BY DEF Admin!NewCall
<1>3. c # None
  BY <1>1, NoneIsNoCall
<1> QED BY <1>1, <1>2, <1>3

LEMMA AdminNewRead ==
  ASSUME NEW whom \in People \cup {None}, NEW tail \in Admin!Tails
  PROVE  LET c == Admin!NewCall("read", None, whom, FALSE, tail)
         IN c \in Admin!CallType /\ c.user = whom
BY DEF Admin!NewCall, Admin!CallType

LEMMA AdminSupersede ==
  ASSUME NEW p \in Admin!PageType, NEW k \in Admin!Kinds
  PROVE  LET q == Admin!Supersede(p, k)
         IN /\ q \in Admin!PageType /\ Alike(q, p) /\ q.location = p.location
            /\ q.call = [p.call EXCEPT ![k] = None]
            /\ q.busy = p.busy
<1>t. p.call \in [Admin!Kinds -> Admin!CallType \cup {None}] /\ p.stale \in [Admin!Tails -> Nat]
  BY DEF Admin!PageType
<1>1. CASE p.call[k] = None
  <2>1. p.call = [p.call EXCEPT ![k] = None]
    BY <1>t, <1>1
  <2> QED BY <1>1, <2>1 DEF Admin!Supersede, Alike
<1>2. CASE p.call[k] # None
  <2> DEFINE tail == p.call[k].tail
             load == [p.call EXCEPT ![k] = None]
             stale == [p.stale EXCEPT ![tail] = @ + 1]
             q == [p EXCEPT !.call = load, !.stale = stale]
  <2>1. p.call[k] \in Admin!CallType /\ tail \in Admin!Tails
    BY <1>t, <1>2 DEF Admin!CallType
  <2>2. load \in [Admin!Kinds -> Admin!CallType \cup {None}] /\ stale \in [Admin!Tails -> Nat]
    BY <1>t, <2>1
  <2>3. Admin!Supersede(p, k) = q
    BY <1>2, Zenon DEF Admin!Supersede
  <2> HIDE DEF load, stale
  <2>4. q \in Admin!PageType /\ q.call = load
    BY <2>2 DEF Admin!PageType
  <2>5. Alike(q, p) /\ q.location = p.location /\ q.busy = p.busy
    BY DEF Admin!PageType, Alike
  <2> HIDE DEF q
  <2> QED BY <2>3, <2>4, <2>5 DEF load
<1> QED BY <1>1, <1>2

LEMMA AdminAbort ==
  ASSUME NEW p \in Admin!PageType, NEW kinds
  PROVE  LET q == Admin!Abort(p, kinds)
         IN /\ q \in Admin!PageType /\ Alike(q, p) /\ q.location = p.location /\ q.busy = p.busy
            /\ \A k \in Admin!Kinds :
                 /\ SameCall(q.call[k], p.call[k])
                 /\ p.call[k] # None => (q.call[k].aborted <=> p.call[k].aborted \/ k \in kinds)
<1> DEFINE load == [k \in Admin!Kinds |->
                      IF k \in kinds /\ p.call[k] # None THEN [p.call[k] EXCEPT !.aborted = TRUE] ELSE p.call[k]]
           q == [p EXCEPT !.call = load]
<1>t. p.call \in [Admin!Kinds -> Admin!CallType \cup {None}]
  BY DEF Admin!PageType
<1>1. ASSUME NEW k \in Admin!Kinds
      PROVE  /\ load[k] \in Admin!CallType \cup {None} /\ SameCall(load[k], p.call[k])
             /\ p.call[k] # None => (load[k].aborted <=> p.call[k].aborted \/ k \in kinds)
  <2>1. CASE k \in kinds /\ p.call[k] # None
    <3> DEFINE c == p.call[k]
               d == [c EXCEPT !.aborted = TRUE]
    <3>1. c \in Admin!CallType
      BY <1>t, <2>1
    <3>2. d \in Admin!CallType /\ d.aborted /\ d.mode = c.mode /\ d.location = c.location /\ d.user = c.user
      BY <3>1 DEF Admin!CallType
    <3>3. d # None
      BY <3>2, NoneIsNoCall
    <3>4. load[k] = d
      BY <2>1
    <3> QED BY <2>1, <3>2, <3>3, <3>4 DEF SameCall
  <2>2. CASE ~(k \in kinds /\ p.call[k] # None)
    <3>1. load[k] = p.call[k]
      BY <2>2
    <3> QED BY <1>t, <2>2, <3>1 DEF SameCall
  <2> QED BY <2>1, <2>2
<1>2. load \in [Admin!Kinds -> Admin!CallType \cup {None}]
  BY <1>1
<1>3. Admin!Abort(p, kinds) = q
  BY Zenon DEF Admin!Abort
<1> HIDE DEF load
<1>4. q \in Admin!PageType /\ q.call = load /\ Alike(q, p) /\ q.location = p.location /\ q.busy = p.busy
  BY <1>2 DEF Admin!PageType, Alike
<1> HIDE DEF q
<1> QED BY <1>1, <1>3, <1>4

(* Fields that only the page itself is about.                               *)
LEMMA AdminCloseDetail ==
  ASSUME NEW p \in Admin!PageType
  PROVE  LET q == Admin!CloseDetail(p)
         IN /\ q \in Admin!PageType /\ q.mode = "closed" /\ q.location = p.location
            /\ q.access = p.access /\ q.active = p.active /\ q.shown = p.shown /\ q.stats = p.stats
            /\ q.errors = p.errors \ {"detail"} /\ q.call = [p.call EXCEPT !["detail"] = None]
<1> DEFINE r == Admin!Supersede(p, "detail")
           errors == r.errors \ {"detail"}
           busy == r.busy \ {"detail"}
           q == [r EXCEPT !.mode = "closed", !.user = None, !.detail = None, !.errors = errors, !.busy = busy]
<1>1. "detail" \in Admin!Kinds
  BY DEF Admin!Kinds, Admin!Reads
<1>2. /\ r \in Admin!PageType /\ Alike(r, p) /\ r.location = p.location
      /\ r.call = [p.call EXCEPT !["detail"] = None]
  BY <1>1, AdminSupersede
<1>3. Admin!CloseDetail(p) = q
  BY Zenon DEF Admin!CloseDetail
<1> HIDE DEF r
<1>4. /\ errors \in SUBSET {"list", "page", "sync", "stats", "detail", "mutation"}
      /\ busy \in SUBSET {"list", "page", "sync", "stats", "detail", "mutation"}
  BY <1>2 DEF Admin!PageType
<1> HIDE DEF errors, busy
<1>5. /\ q \in Admin!PageType /\ q.mode = "closed" /\ q.location = r.location
      /\ q.access = r.access /\ q.active = r.active /\ q.shown = r.shown /\ q.stats = r.stats
      /\ q.errors = errors /\ q.call = r.call
  BY <1>2, <1>4 DEF Admin!PageType
<1> HIDE DEF q
<1>6. errors = p.errors \ {"detail"}
  BY <1>2 DEF errors, Alike
<1> QED BY <1>2, <1>3, <1>5, <1>6 DEF Alike

LEMMA AdminResetConfirmation ==
  ASSUME NEW p \in Admin!PageType
  PROVE  LET q == Admin!ResetConfirmation(p)
         IN /\ q \in Admin!PageType /\ q.mode = "closed" /\ q.location = p.location
            /\ q.access = p.access /\ q.active = p.active /\ q.shown = p.shown /\ q.stats = p.stats
            /\ q.errors = p.errors \ {"mutation"} /\ q.call = p.call /\ q.user = p.user /\ q.detail = p.detail
<1> DEFINE errors == p.errors \ {"mutation"}
           q == [p EXCEPT !.mode = "closed", !.action = None, !.restore = FALSE, !.errors = errors]
<1>1. Admin!ResetConfirmation(p) = q
  BY Zenon DEF Admin!ResetConfirmation
<1>2. errors \in SUBSET {"list", "page", "sync", "stats", "detail", "mutation"}
  BY DEF Admin!PageType
<1> HIDE DEF errors
<1>3. /\ q \in Admin!PageType /\ q.mode = "closed" /\ q.location = p.location
      /\ q.access = p.access /\ q.active = p.active /\ q.shown = p.shown /\ q.stats = p.stats
      /\ q.errors = errors /\ q.call = p.call /\ q.user = p.user /\ q.detail = p.detail
  BY <1>2 DEF Admin!PageType
<1> HIDE DEF q
<1> QED BY <1>1, <1>3 DEF errors

LEMMA AdminUnfocused ==
  ASSUME NEW s \in Admin!PageType
  PROVE  LET q == [s EXCEPT !.focus = FALSE, !.synced = None]
         IN /\ q \in Admin!PageType /\ q.mode = s.mode /\ q.location = s.location
            /\ q.access = s.access /\ q.active = s.active /\ q.shown = s.shown /\ q.stats = s.stats
            /\ q.errors = s.errors /\ q.call = s.call
BY DEF Admin!PageType

LEMMA AdminEmptied ==
  ASSUME NEW r \in Admin!PageType, NEW rights \in AdminRefusals
  PROVE  LET s == [r EXCEPT !.access = rights, !.shown = None, !.stats = FALSE]
         IN /\ s \in Admin!PageType /\ s.access = rights /\ s.shown = None /\ ~s.stats
            /\ s.call = r.call /\ s.active = r.active /\ s.location = r.location
BY DEF Admin!PageType, AdminRefusals

LEMMA AdminResetDialog ==
  ASSUME NEW p \in Admin!PageType
  PROVE  LET q == Admin!ResetDialog(p)
         IN /\ q \in Admin!PageType /\ q.mode = "closed" /\ q.location = p.location
            /\ q.access = p.access /\ q.active = p.active /\ q.shown = p.shown /\ q.stats = p.stats
            /\ q.errors = p.errors \ {"detail", "mutation"}
            /\ q.call = [p.call EXCEPT !["detail"] = None]
<1> DEFINE r == Admin!CloseDetail(p)
           s == Admin!ResetConfirmation(r)
           q == [s EXCEPT !.focus = FALSE, !.synced = None]
<1>1. Admin!ResetDialog(p) = q
  BY Zenon DEF Admin!ResetDialog
<1>2. /\ r \in Admin!PageType /\ r.mode = "closed" /\ r.location = p.location
      /\ r.access = p.access /\ r.active = p.active /\ r.shown = p.shown /\ r.stats = p.stats
      /\ r.errors = p.errors \ {"detail"} /\ r.call = [p.call EXCEPT !["detail"] = None]
  BY AdminCloseDetail
<1> HIDE DEF r
<1>3. /\ s \in Admin!PageType /\ s.mode = "closed" /\ s.location = r.location
      /\ s.access = r.access /\ s.active = r.active /\ s.shown = r.shown /\ s.stats = r.stats
      /\ s.errors = r.errors \ {"mutation"} /\ s.call = r.call
  BY <1>2, AdminResetConfirmation
<1> HIDE DEF s
<1>4. /\ q \in Admin!PageType /\ q.mode = s.mode /\ q.location = s.location
      /\ q.access = s.access /\ q.active = s.active /\ q.shown = s.shown /\ q.stats = s.stats
      /\ q.errors = s.errors /\ q.call = s.call
  BY <1>3, AdminUnfocused
<1> HIDE DEF q
<1>5. q.errors = p.errors \ {"detail", "mutation"}
  BY <1>2, <1>3, <1>4
<1> QED BY <1>1, <1>2, <1>3, <1>4, <1>5

(* A page that is refused is good, whatever was open.                       *)
LEMMA AdminLeave ==
  ASSUME NEW p \in Admin!PageType, NEW rights \in AdminRefusals, AdminListed(p)
  PROVE  /\ AdminGood(Admin!Leave(p, rights)) /\ Admin!Leave(p, rights).access = rights
         /\ Admin!Leave(p, rights).location = p.location
<1> DEFINE r == Admin!Abort(p, Admin!Reads)
           s == [r EXCEPT !.access = rights, !.shown = None, !.stats = FALSE]
           q == Admin!ResetDialog(s)
<1>1. Admin!Leave(p, rights) = q
  BY Zenon DEF Admin!Leave
<1>2. /\ r \in Admin!PageType /\ Alike(r, p) /\ r.location = p.location
      /\ \A k \in Admin!Kinds :
           /\ SameCall(r.call[k], p.call[k])
           /\ p.call[k] # None => (r.call[k].aborted <=> p.call[k].aborted \/ k \in Admin!Reads)
  BY AdminAbort
<1> HIDE DEF r
<1>3. /\ s \in Admin!PageType /\ s.access = rights /\ s.shown = None /\ ~s.stats
      /\ s.call = r.call /\ s.active = r.active /\ s.location = r.location
  BY <1>2, AdminEmptied
<1> HIDE DEF s
<1>4. /\ q \in Admin!PageType /\ q.mode = "closed" /\ q.access = s.access /\ q.active = s.active
      /\ q.shown = s.shown /\ q.stats = s.stats /\ q.call = [s.call EXCEPT !["detail"] = None]
      /\ q.location = s.location
  BY <1>3, AdminResetDialog
<1> HIDE DEF q
<1>5. q.call["list"] = r.call["list"] /\ q.call["stats"] = r.call["stats"]
  <2>1. r.call \in [Admin!Kinds -> Admin!CallType \cup {None}]
    BY <1>2 DEF Admin!PageType
  <2> QED BY <1>3, <1>4, <2>1 DEF Admin!Kinds, Admin!Reads
<1>6. /\ SameCall(q.call["list"], p.call["list"]) /\ SameCall(q.call["stats"], p.call["stats"])
      /\ q.call["list"] # None => q.call["list"].aborted
      /\ q.call["stats"] # None => q.call["stats"].aborted
  <2>1. "list" \in Admin!Kinds /\ "stats" \in Admin!Kinds /\ "list" \in Admin!Reads /\ "stats" \in Admin!Reads
    BY DEF Admin!Kinds, Admin!Reads
  <2> QED BY <1>2, <1>5, <2>1 DEF SameCall
<1>7. AdminRefused(q) /\ AdminStopped(q) /\ AdminShown(q) /\ AdminDetailed(q)
  BY <1>3, <1>4, <1>6 DEF AdminRefused, AdminStopped, AdminShown, AdminDetailed, AdminRefusals
<1>8. AdminListed(q)
  BY <1>2, <1>3, <1>4, <1>6 DEF AdminListed, SameCall, Alike
<1> QED BY <1>1, <1>2, <1>3, <1>4, <1>7, <1>8 DEF AdminGood

LEMMA AdminStartStats ==
  ASSUME NEW p, AdminGood(p), p.access \notin AdminRefusals
  PROVE  AdminGood(Admin!StartStats(p)) /\ Admin!StartStats(p).access = p.access
<1> DEFINE r == Admin!Supersede(p, "stats")
           c == Admin!NewCall("read", None, None, FALSE, "plain")
           load == [r.call EXCEPT !["stats"] = c]
           errors == r.errors \ {"stats"}
           busy == r.busy \cup {"stats"}
           q == [r EXCEPT !.call = load, !.busy = busy, !.errors = errors]
<1>1. "stats" \in Admin!Kinds /\ p \in Admin!PageType /\ "plain" \in Admin!Tails
  BY DEF Admin!Kinds, Admin!Reads, AdminGood, Admin!Tails
<1>2. /\ r \in Admin!PageType /\ Alike(r, p) /\ r.location = p.location
      /\ r.call = [p.call EXCEPT !["stats"] = None]
  BY <1>1, AdminSupersede
<1>3. c \in Admin!CallType
  BY <1>1, AdminNewCall
<1>4. Admin!StartStats(p) = q
  BY Zenon DEF Admin!StartStats
<1> HIDE DEF r, c
<1>5. /\ errors \in SUBSET {"list", "page", "sync", "stats", "detail", "mutation"}
      /\ busy \in SUBSET {"list", "page", "sync", "stats", "detail", "mutation"}
      /\ load \in [Admin!Kinds -> Admin!CallType \cup {None}]
  BY <1>2, <1>3 DEF Admin!PageType
<1>c. load["list"] = p.call["list"] /\ load["detail"] = p.call["detail"]
  <2>1. p.call \in [Admin!Kinds -> Admin!CallType \cup {None}]
    BY <1>1 DEF Admin!PageType
  <2> QED BY <1>2, <2>1 DEF Admin!Kinds, Admin!Reads
<1>e. errors \cap {"list", "page", "sync"} = p.errors \cap {"list", "page", "sync"}
  BY <1>2 DEF Alike
<1> HIDE DEF errors, busy, load
<1>6. /\ q \in Admin!PageType /\ q.access = r.access /\ q.active = r.active /\ q.shown = r.shown
      /\ q.location = r.location /\ q.call = load /\ q.errors = errors /\ q.mode = r.mode
      /\ q.user = r.user /\ q.detail = r.detail
  BY <1>2, <1>5 DEF Admin!PageType
<1> HIDE DEF q
<1>7. AdminListed(q) /\ AdminStopped(q) /\ AdminShown(q) /\ AdminRefused(q) /\ AdminDetailed(q)
  BY <1>c, <1>e, <1>2, <1>6
     DEF AdminGood, AdminListed, AdminStopped, AdminShown, AdminRefused, AdminDetailed, Alike
<1> QED BY <1>2, <1>4, <1>6, <1>7 DEF AdminGood, Alike

AdminFlags == {"list", "page", "sync", "stats", "detail", "mutation"}

(* A change that the invariant does not see, or that only closes a dialog,  *)
(* drops a call or adds an error.                                           *)
LEMMA AdminSame ==
  ASSUME NEW p, AdminGood(p), NEW q \in Admin!PageType,
         q.access = p.access, q.active = p.active, q.shown = p.shown, q.stats = p.stats,
         \/ q.mode = p.mode /\ q.user = p.user /\ q.detail = p.detail
         \/ q.mode = "closed",
         p.errors \cap {"list", "page", "sync"} \subseteq q.errors,
         q.call["list"] = p.call["list"],
         q.call["stats"] \in {None, p.call["stats"]}, q.call["detail"] \in {None, p.call["detail"]}
  PROVE  AdminGood(q)
<1>1. AdminRefused(q) /\ AdminListed(q) /\ AdminStopped(q) /\ AdminDetailed(q)
  BY DEF AdminGood, AdminRefused, AdminListed, AdminStopped, AdminDetailed
<1>2. AdminShown(q)
  <2>1. q.errors \cap {"list", "page", "sync"} = {} => p.errors \cap {"list", "page", "sync"} = {}
    OBVIOUS
  <2> QED BY <2>1 DEF AdminGood, AdminShown
<1> QED BY <1>1, <1>2 DEF AdminGood

LEMMA AdminStartDetail ==
  ASSUME NEW p \in Admin!PageType, AdminListed(p), AdminStopped(p), AdminShown(p),
         p.access \notin AdminRefusals, NEW u \in People \cup {None}, NEW tail \in Admin!Tails
  PROVE  AdminGood(Admin!StartDetail(p, u, tail)) /\ Admin!StartDetail(p, u, tail).location = p.location
<1> DEFINE r == Admin!Supersede(p, "detail")
           c == Admin!NewCall("read", None, u, FALSE, tail)
           load == [r.call EXCEPT !["detail"] = c]
           errors == r.errors \ {"detail"}
           busy == r.busy \cup {"detail"}
           q == [r EXCEPT !.call = load, !.user = u, !.detail = None, !.busy = busy, !.errors = errors]
<1>1. "detail" \in Admin!Kinds
  BY DEF Admin!Kinds, Admin!Reads
<1>2. /\ r \in Admin!PageType /\ Alike(r, p) /\ r.location = p.location
      /\ r.call = [p.call EXCEPT !["detail"] = None]
  BY <1>1, AdminSupersede
<1>3. c \in Admin!CallType /\ c.user = u
  BY AdminNewRead
<1>4. Admin!StartDetail(p, u, tail) = q
  BY Zenon DEF Admin!StartDetail
<1> HIDE DEF r, c
<1>5. /\ errors \in SUBSET AdminFlags /\ busy \in SUBSET AdminFlags
      /\ load \in [Admin!Kinds -> Admin!CallType \cup {None}]
  BY <1>2, <1>3 DEF Admin!PageType, AdminFlags
<1>c. load["list"] = p.call["list"] /\ load["detail"] = c
  <2>1. p.call \in [Admin!Kinds -> Admin!CallType \cup {None}]
    BY DEF Admin!PageType
  <2> QED BY <1>2, <2>1 DEF Admin!Kinds, Admin!Reads
<1>e. errors \cap {"list", "page", "sync"} = p.errors \cap {"list", "page", "sync"}
  BY <1>2 DEF Alike
<1> HIDE DEF errors, busy, load
<1>6. /\ q \in Admin!PageType /\ q.access = r.access /\ q.active = r.active /\ q.shown = r.shown
      /\ q.location = r.location /\ q.call = load /\ q.errors = errors /\ q.mode = r.mode
      /\ q.user = u /\ q.detail = None
  BY <1>2, <1>5 DEF Admin!PageType, AdminFlags
<1> HIDE DEF q
<1>7. AdminListed(q) /\ AdminStopped(q) /\ AdminShown(q) /\ AdminRefused(q) /\ AdminDetailed(q)
  BY <1>c, <1>e, <1>2, <1>3, <1>6
     DEF AdminListed, AdminStopped, AdminShown, AdminRefused, AdminDetailed, Alike
<1> QED BY <1>2, <1>4, <1>6, <1>7 DEF AdminGood

(* What a list that is loaded leaves alone besides its call.                *)
FlagsOnly(q, r) ==
  /\ q \in Admin!PageType /\ q.active = r.active /\ q.shown = r.shown
  /\ q.stats = r.stats /\ q.location = r.location /\ q.call = r.call
  /\ q.mode = r.mode /\ q.user = r.user /\ q.detail = r.detail
  /\ q.access \in {r.access, "authorizing"}

LEMMA AdminListFlags ==
  ASSUME NEW r \in Admin!PageType, NEW busy \in SUBSET AdminFlags, NEW errors \in SUBSET AdminFlags
  PROVE  /\ FlagsOnly([r EXCEPT !.busy = busy, !.errors = errors], r)
         /\ FlagsOnly([r EXCEPT !.access = "authorizing", !.busy = busy, !.errors = errors], r)
<1>1. FlagsOnly([r EXCEPT !.busy = busy, !.errors = errors], r)
  BY DEF Admin!PageType, AdminFlags, FlagsOnly
<1>2. FlagsOnly([r EXCEPT !.access = "authorizing", !.busy = busy, !.errors = errors], r)
  BY DEF Admin!PageType, AdminFlags, FlagsOnly
<1> QED BY <1>1, <1>2

LEMMA AdminStartList ==
  ASSUME NEW p \in Admin!PageType, AdminRefused(p), AdminDetailed(p),
         NEW location \in Admin!Locations, NEW mode \in ListModes, NEW whom \in People \cup {None},
         NEW restore \in BOOLEAN, NEW tail \in Admin!Tails
  PROVE  LET q == Admin!StartList(p, location, mode, whom, restore, tail)
         IN AdminGood(q) /\ q.location = p.location
<1> DEFINE s0 == Admin!Supersede(p, "list")
           kinds == {"detail"} \cup IF mode = "initial" THEN {"stats"} ELSE {}
           s1 == Admin!Abort(s0, kinds)
           c == Admin!NewCall(mode, location, whom, restore, tail)
           load == [s1.call EXCEPT !["list"] = c]
           r == [s1 EXCEPT !.call = load, !.active = location]
           q == Admin!StartList(p, location, mode, whom, restore, tail)
<1>k. {"list", "stats", "detail"} \subseteq Admin!Kinds
  BY DEF Admin!Kinds, Admin!Reads
<1>t. p.call \in [Admin!Kinds -> Admin!CallType \cup {None}]
  BY DEF Admin!PageType
<1>1. /\ s0 \in Admin!PageType /\ Alike(s0, p) /\ s0.location = p.location
      /\ s0.call = [p.call EXCEPT !["list"] = None]
  BY <1>k, AdminSupersede
<1>2. c \in Admin!CallType /\ c # None /\ ~c.aborted /\ c.location = location /\ c.mode = mode
  BY AdminNewCall
<1>q. q = CASE mode = "initial" ->
                 [r EXCEPT !.access = "authorizing", !.busy = @ \cup {"list"}, !.errors = @ \ {"list"}]
            [] mode = "list" ->
                 [r EXCEPT !.busy = (@ \cup {"list"}) \ {"page"}, !.errors = @ \ {"list", "page"}]
            [] mode = "page" -> [r EXCEPT !.busy = @ \cup {"page"}, !.errors = @ \ {"page"}]
            [] mode = "sync" -> [r EXCEPT !.busy = @ \cup {"sync"}, !.errors = @ \ {"sync"}]
  BY Zenon DEF Admin!StartList
<1> HIDE DEF s0, c, kinds, q
<1>3. /\ s1 \in Admin!PageType /\ Alike(s1, s0) /\ s1.location = s0.location
      /\ \A k \in Admin!Kinds :
           /\ SameCall(s1.call[k], s0.call[k])
           /\ s0.call[k] # None => (s1.call[k].aborted <=> s0.call[k].aborted \/ k \in kinds)
  BY <1>1, AdminAbort
<1> HIDE DEF s1
<1>4. /\ load \in [Admin!Kinds -> Admin!CallType \cup {None}] /\ load["list"] = c
      /\ load["stats"] = s1.call["stats"] /\ load["detail"] = s1.call["detail"]
  <2>1. s1.call \in [Admin!Kinds -> Admin!CallType \cup {None}]
    BY <1>3 DEF Admin!PageType
  <2> QED BY <1>2, <2>1 DEF Admin!Kinds, Admin!Reads
<1>5. /\ s0.call["stats"] = p.call["stats"] /\ s0.call["detail"] = p.call["detail"]
  BY <1>1, <1>t DEF Admin!Kinds, Admin!Reads
<1>6. /\ SameCall(load["stats"], p.call["stats"]) /\ SameCall(load["detail"], p.call["detail"])
      /\ p.call["stats"] # None /\ p.call["stats"].aborted => load["stats"].aborted
  BY <1>k, <1>3, <1>4, <1>5
<1> HIDE DEF load
<1>7. /\ r \in Admin!PageType /\ r.call = load /\ r.active = location /\ r.location = s1.location
      /\ r.access = s1.access /\ r.shown = s1.shown /\ r.stats = s1.stats /\ r.mode = s1.mode
      /\ r.user = s1.user /\ r.detail = s1.detail
  BY <1>3, <1>4 DEF Admin!PageType
<1> HIDE DEF r
<1>f. FlagsOnly(q, r)
  <2>b. r.busy \in SUBSET AdminFlags /\ r.errors \in SUBSET AdminFlags
    BY <1>7 DEF Admin!PageType, AdminFlags
  <2>1. CASE mode = "initial"
    <3> DEFINE busy == r.busy \cup {"list"}
               errors == r.errors \ {"list"}
    <3>1. q = [r EXCEPT !.access = "authorizing", !.busy = busy, !.errors = errors]
      BY <1>q, <2>1
    <3>2. busy \in SUBSET AdminFlags /\ errors \in SUBSET AdminFlags
      BY <2>b DEF AdminFlags
    <3> HIDE DEF busy, errors
    <3>3. r \in Admin!PageType
      BY <1>7
    <3> QED BY <3>1, <3>2, <3>3, AdminListFlags, Zenon
  <2>2. CASE mode = "list"
    <3> DEFINE busy == (r.busy \cup {"list"}) \ {"page"}
               errors == r.errors \ {"list", "page"}
    <3>1. q = [r EXCEPT !.busy = busy, !.errors = errors]
      BY <1>q, <2>2
    <3>2. busy \in SUBSET AdminFlags /\ errors \in SUBSET AdminFlags
      BY <2>b DEF AdminFlags
    <3> HIDE DEF busy, errors
    <3>3. r \in Admin!PageType
      BY <1>7
    <3> QED BY <3>1, <3>2, <3>3, AdminListFlags, Zenon
  <2>3. CASE mode = "page"
    <3> DEFINE busy == r.busy \cup {"page"}
               errors == r.errors \ {"page"}
    <3>1. q = [r EXCEPT !.busy = busy, !.errors = errors]
      BY <1>q, <2>3
    <3>2. busy \in SUBSET AdminFlags /\ errors \in SUBSET AdminFlags
      BY <2>b DEF AdminFlags
    <3> HIDE DEF busy, errors
    <3>3. r \in Admin!PageType
      BY <1>7
    <3> QED BY <3>1, <3>2, <3>3, AdminListFlags, Zenon
  <2>4. CASE mode = "sync"
    <3> DEFINE busy == r.busy \cup {"sync"}
               errors == r.errors \ {"sync"}
    <3>1. q = [r EXCEPT !.busy = busy, !.errors = errors]
      BY <1>q, <2>4
    <3>2. busy \in SUBSET AdminFlags /\ errors \in SUBSET AdminFlags
      BY <2>b DEF AdminFlags
    <3> HIDE DEF busy, errors
    <3>3. r \in Admin!PageType
      BY <1>7
    <3> QED BY <3>1, <3>2, <3>3, AdminListFlags, Zenon
  <2> QED BY <2>1, <2>2, <2>3, <2>4 DEF ListModes
<1>8. /\ q \in Admin!PageType /\ q.active = r.active /\ q.shown = r.shown
      /\ q.stats = r.stats /\ q.location = r.location /\ q.call = r.call
      /\ q.mode = r.mode /\ q.user = r.user /\ q.detail = r.detail
      /\ q.access \in {r.access, "authorizing"}
  BY <1>f DEF FlagsOnly
<1>9. AdminListed(q) /\ AdminStopped(q) /\ AdminShown(q)
  BY <1>2, <1>4, <1>7, <1>8 DEF AdminListed, AdminStopped, AdminShown
<1>10. AdminRefused(q)
  BY <1>1, <1>3, <1>6, <1>7, <1>8 DEF AdminRefused, AdminRefusals, Alike, SameCall
<1>11. AdminDetailed(q)
  BY <1>1, <1>3, <1>6, <1>7, <1>8 DEF AdminDetailed, Alike, SameCall
<1> QED BY <1>1, <1>3, <1>7, <1>8, <1>9, <1>10, <1>11 DEF AdminGood, q

(* Only what the invariant is not about has changed.                        *)
Aside(q, p) == q \in Admin!PageType /\ Alike(q, p) /\ q.call = p.call

LEMMA AdminAside ==
  ASSUME NEW p, AdminGood(p), NEW q, Aside(q, p)
  PROVE  AdminGood(q)
BY AdminSame DEF Aside, Alike

LEMMA AdminSubmitted ==
  ASSUME NEW p, AdminGood(p), NEW tail
  PROVE  AdminGood(Admin!Submitted(p, tail))
<1> DEFINE busy == p.busy \ {"mutation"}
           q == [p EXCEPT !.busy = busy]
<1>1. p \in Admin!PageType
  BY DEF AdminGood
<1>2. busy \in SUBSET AdminFlags
  BY <1>1 DEF Admin!PageType, AdminFlags
<1> HIDE DEF busy
<1>3. Aside(q, p)
  BY <1>1, <1>2 DEF Admin!PageType, AdminFlags, Aside, Alike
<1>4. AdminGood(q)
  BY <1>3, AdminAside
<1>5. Admin!Submitted(p, tail) \in {p, q}
  BY DEF Admin!Submitted, busy
<1> QED BY <1>4, <1>5

(* A call has come to its end.                                              *)
LEMMA AdminCallOver ==
  ASSUME NEW p \in Admin!PageType, NEW k \in Admin!Kinds, NEW busy \in SUBSET AdminFlags
  PROVE  LET q == [p EXCEPT !.call[k] = None, !.busy = busy]
         IN q \in Admin!PageType /\ Alike(q, p) /\ q.call = [p.call EXCEPT ![k] = None]
<1> DEFINE load == [p.call EXCEPT ![k] = None]
           q == [p EXCEPT !.call = load, !.busy = busy]
<1>1. load \in [Admin!Kinds -> Admin!CallType \cup {None}]
  BY DEF Admin!PageType
<1>2. [p EXCEPT !.call[k] = None, !.busy = busy] = q
  OBVIOUS
<1> HIDE DEF load
<1>3. q \in Admin!PageType /\ Alike(q, p) /\ q.call = load
  BY <1>1 DEF Admin!PageType, AdminFlags, Alike
<1> HIDE DEF q
<1> QED BY <1>2, <1>3 DEF load

LEMMA AdminOver ==
  ASSUME NEW p, AdminGood(p), NEW k \in {"stats", "detail", "mutation"}, NEW q \in Admin!PageType,
         Alike(q, p), q.call = [p.call EXCEPT ![k] = None]
  PROVE  AdminGood(q)
<1>1. p.call \in [Admin!Kinds -> Admin!CallType \cup {None}]
  BY DEF AdminGood, Admin!PageType
<1>2. /\ q.call["list"] = p.call["list"] /\ q.call["stats"] \in {None, p.call["stats"]}
      /\ q.call["detail"] \in {None, p.call["detail"]}
  BY <1>1 DEF Admin!Kinds, Admin!Reads
<1> QED BY <1>2, AdminSame DEF Alike

LEMMA AdminRefuse ==
  ASSUME NEW p \in Admin!PageType, AdminListed(p), NEW result
  PROVE  AdminGood(Admin!Refused(p, result))
<1>1. (IF result = "403" THEN "forbidden" ELSE "anonymous") \in AdminRefusals
  BY DEF AdminRefusals
<1> QED BY <1>1, AdminLeave DEF Admin!Refused

LEMMA AdminError ==
  ASSUME NEW p, AdminGood(p), NEW flag \in AdminFlags
  PROVE  AdminGood([p EXCEPT !.errors = @ \cup {flag}])
<1> DEFINE errors == p.errors \cup {flag}
           q == [p EXCEPT !.errors = errors]
<1>1. p \in Admin!PageType
  BY DEF AdminGood
<1>2. errors \in SUBSET AdminFlags /\ p.errors \subseteq errors
  BY <1>1 DEF Admin!PageType, AdminFlags
<1> HIDE DEF errors
<1>3. /\ q \in Admin!PageType /\ q.access = p.access /\ q.active = p.active /\ q.shown = p.shown
      /\ q.stats = p.stats /\ q.mode = p.mode /\ q.user = p.user /\ q.detail = p.detail
      /\ q.errors = errors /\ q.call = p.call
  BY <1>1, <1>2 DEF Admin!PageType, AdminFlags
<1> HIDE DEF q
<1>4. AdminGood(q)
  BY <1>2, <1>3, AdminSame
<1> QED BY <1>4 DEF q, errors

LEMMA AdminEndStats ==
  ASSUME NEW p, AdminGood(p), p.call["stats"] # None
  PROVE  AdminGood(Admin!EndStats(p, p.call["stats"]))
<1> DEFINE c == p.call["stats"]
           busy == p.busy \ {"stats"}
           q == [p EXCEPT !.call["stats"] = None, !.busy = busy]
           r == [q EXCEPT !.stats = TRUE]
           e == IF c.aborted THEN q
                ELSE CASE c.result = "ok" -> r
                       [] Admin!IsRefusal(c.result) -> Admin!Refused(q, c.result)
                       [] OTHER -> [q EXCEPT !.errors = @ \cup {"stats"}]
<1>1. p \in Admin!PageType /\ "stats" \in Admin!Kinds /\ "stats" \in AdminFlags
  BY DEF AdminGood, Admin!Kinds, Admin!Reads, AdminFlags
<1>2. busy \in SUBSET AdminFlags
  BY <1>1 DEF Admin!PageType, AdminFlags
<1>3. Admin!EndStats(p, c) = e
  BY Zenon DEF Admin!EndStats
<1>4. q \in Admin!PageType /\ Alike(q, p) /\ q.call = [p.call EXCEPT !["stats"] = None]
  BY <1>1, <1>2, AdminCallOver
<1> HIDE DEF busy, q
<1>5. AdminGood(q)
  BY <1>4, AdminOver
<1>6. ASSUME ~c.aborted PROVE AdminGood(r)
  <2>1. p.access \notin AdminRefusals
    BY <1>6 DEF AdminGood, AdminRefused
  <2>2. /\ r \in Admin!PageType /\ r.access = q.access /\ r.active = q.active /\ r.shown = q.shown
        /\ r.mode = q.mode /\ r.user = q.user /\ r.detail = q.detail
        /\ r.errors = q.errors /\ r.call = q.call
    BY <1>4 DEF Admin!PageType
  <2> HIDE DEF r
  <2> QED BY <1>4, <1>5, <2>1, <2>2
       DEF AdminGood, AdminRefused, AdminListed, AdminStopped, AdminShown, AdminDetailed, Alike
<1>7. AdminGood(Admin!Refused(q, c.result))
  BY <1>4, <1>5, AdminRefuse DEF AdminGood
<1>8. AdminGood([q EXCEPT !.errors = @ \cup {"stats"}])
  BY <1>1, <1>5, AdminError
<1> HIDE DEF r
<1>9. \/ e = q \/ e = Admin!Refused(q, c.result) \/ e = [q EXCEPT !.errors = @ \cup {"stats"}]
      \/ e = r /\ ~c.aborted
  OBVIOUS
<1> HIDE DEF e
<1>10. AdminGood(e)
  BY <1>5, <1>6, <1>7, <1>8, <1>9
<1> QED BY <1>3, <1>10

LEMMA AdminEndDetail ==
  ASSUME NEW p, AdminGood(p), p.call["detail"] # None
  PROVE  AdminGood(Admin!EndDetail(p, p.call["detail"]))
<1> DEFINE c == p.call["detail"]
           busy == p.busy \ {"detail"}
           q == [p EXCEPT !.call["detail"] = None, !.busy = busy]
           r == [q EXCEPT !.detail = c.user]
           e == IF c.aborted THEN q
                ELSE CASE c.result = "ok" -> r
                       [] Admin!IsRefusal(c.result) -> Admin!Refused(q, c.result)
                       [] OTHER -> [q EXCEPT !.errors = @ \cup {"detail"}]
<1>1. p \in Admin!PageType /\ "detail" \in Admin!Kinds /\ "detail" \in AdminFlags
  BY DEF AdminGood, Admin!Kinds, Admin!Reads, AdminFlags
<1>2. busy \in SUBSET AdminFlags
  BY <1>1 DEF Admin!PageType, AdminFlags
<1>3. Admin!EndDetail(p, c) = Admin!Submitted(e, c.tail)
  BY Zenon DEF Admin!EndDetail
<1>4. q \in Admin!PageType /\ Alike(q, p) /\ q.call = [p.call EXCEPT !["detail"] = None]
  BY <1>1, <1>2, AdminCallOver
<1>u. c.user \in People \cup {None}
  BY <1>1 DEF Admin!PageType, Admin!CallType
<1> HIDE DEF busy, q
<1>5. AdminGood(q)
  BY <1>4, AdminOver
<1>6. AdminGood(r)
  <2>2. /\ r \in Admin!PageType /\ r.access = q.access /\ r.active = q.active /\ r.shown = q.shown
        /\ r.mode = q.mode /\ r.user = q.user /\ r.detail = c.user /\ r.stats = q.stats
        /\ r.errors = q.errors /\ r.call = q.call
    BY <1>4, <1>u DEF Admin!PageType
  <2> HIDE DEF r
  <2>1. p.mode = "detail" => c.user = p.user
    BY DEF AdminGood, AdminDetailed
  <2>3. AdminDetailed(r)
    BY <1>4, <1>5, <2>1, <2>2 DEF AdminDetailed, Alike, AdminGood
  <2> QED BY <1>5, <2>2, <2>3
      DEF AdminGood, AdminRefused, AdminListed, AdminStopped, AdminShown
<1>7. AdminGood(Admin!Refused(q, c.result))
  BY <1>4, <1>5, AdminRefuse DEF AdminGood
<1>8. AdminGood([q EXCEPT !.errors = @ \cup {"detail"}])
  BY <1>1, <1>5, AdminError
<1> HIDE DEF r
<1>9. e = q \/ e = r \/ e = Admin!Refused(q, c.result) \/ e = [q EXCEPT !.errors = @ \cup {"detail"}]
  OBVIOUS
<1> HIDE DEF e
<1>10. AdminGood(e)
  BY <1>5, <1>6, <1>7, <1>8, <1>9
<1> QED BY <1>3, <1>10, AdminSubmitted

(* The list has come, and the call of it has ended.                         *)
LEMMA AdminAuthorized ==
  ASSUME NEW q \in Admin!PageType, NEW shown \in Admin!Locations, NEW empty \in BOOLEAN
  PROVE  [q EXCEPT !.shown = shown, !.empty = empty, !.access = "authorized"] \in Admin!PageType
<1>1. CASE empty = TRUE
  BY <1>1 DEF Admin!PageType
<1>2. CASE empty = FALSE
  BY <1>2 DEF Admin!PageType
<1> QED BY <1>1, <1>2

LEMMA AdminWithAccess ==
  ASSUME NEW q \in Admin!PageType, NEW errors \in SUBSET AdminFlags,
         NEW rights \in {"checking", "authorizing", "authorized", "anonymous", "forbidden", "error"}
  PROVE  [q EXCEPT !.errors = errors, !.access = rights] \in Admin!PageType
BY DEF Admin!PageType, AdminFlags

LEMMA AdminListShown ==
  ASSUME NEW q \in Admin!PageType, AdminListed(q), AdminStopped(q), AdminDetailed(q), q.call["list"] = None,
         NEW empty \in BOOLEAN
  PROVE  LET r == [q EXCEPT !.shown = q.active, !.empty = empty, !.access = "authorized"]
         IN AdminGood(r) /\ r.access = "authorized"
<1> DEFINE r == [q EXCEPT !.shown = q.active, !.empty = empty, !.access = "authorized"]
<1>1. /\ r \in Admin!PageType /\ r.access = "authorized" /\ r.active = q.active /\ r.shown = q.active
      /\ r.mode = q.mode /\ r.user = q.user /\ r.detail = q.detail /\ r.call = q.call
  <2> DEFINE shown == q.active
             t == [q EXCEPT !.shown = shown, !.empty = empty, !.access = "authorized"]
  <2>1. shown \in Admin!Locations
    BY DEF Admin!PageType
  <2>2. r = t
    OBVIOUS
  <2> HIDE DEF shown
  <2>3. t \in Admin!PageType
    BY <2>1, AdminAuthorized
  <2>4. /\ t.access = "authorized" /\ t.active = q.active /\ t.shown = shown
        /\ t.mode = q.mode /\ t.user = q.user /\ t.detail = q.detail /\ t.call = q.call
    BY DEF Admin!PageType
  <2> HIDE DEF t, r
  <2> QED BY <2>2, <2>3, <2>4 DEF shown
<1> HIDE DEF r
<1>2. AdminRefused(r)
  BY <1>1 DEF AdminRefused, AdminRefusals
<1>3. AdminListed(r) /\ AdminStopped(r) /\ AdminShown(r)
  BY <1>1 DEF AdminListed, AdminStopped, AdminShown
<1>4. AdminDetailed(r)
  BY <1>1 DEF AdminDetailed
<1> QED BY <1>1, <1>2, <1>3, <1>4 DEF r, AdminGood

LEMMA AdminListFailed ==
  ASSUME NEW q \in Admin!PageType, AdminRefused(q), AdminListed(q), AdminDetailed(q), q.call["list"] = None,
         NEW mode \in ListModes
  PROVE  AdminGood(Admin!Failed(q, mode))
<1> DEFINE errors == q.errors \cup {Admin!Flag(mode)}
           rights == IF mode = "initial" THEN "error" ELSE q.access
           r == [q EXCEPT !.errors = errors, !.access = rights]
<1>1. Admin!Flag(mode) \in {"list", "page", "sync"}
  BY DEF Admin!Flag, ListModes
<1>2. errors \in SUBSET AdminFlags /\ errors \cap {"list", "page", "sync"} # {}
  BY <1>1 DEF Admin!PageType, AdminFlags
<1>3. rights \in {"checking", "authorizing", "authorized", "anonymous", "forbidden", "error"}
  BY DEF Admin!PageType
<1>4. rights = "error" \/ rights = q.access
  OBVIOUS
<1>5. Admin!Failed(q, mode) = r
  BY Zenon DEF Admin!Failed
<1> HIDE DEF errors, rights
<1>6. /\ r \in Admin!PageType /\ r.access = rights /\ r.active = q.active /\ r.shown = q.shown
      /\ r.stats = q.stats /\ r.mode = q.mode /\ r.user = q.user /\ r.detail = q.detail
      /\ r.errors = errors /\ r.call = q.call
  <2>1. r \in Admin!PageType
    BY <1>2, <1>3, AdminWithAccess
  <2>2. /\ r.access = rights /\ r.active = q.active /\ r.shown = q.shown
        /\ r.stats = q.stats /\ r.mode = q.mode /\ r.user = q.user /\ r.detail = q.detail
        /\ r.errors = errors /\ r.call = q.call
    BY DEF Admin!PageType
  <2> QED BY <2>1, <2>2
<1> HIDE DEF r
<1>7. AdminRefused(r)
  BY <1>4, <1>6 DEF AdminRefused, AdminRefusals
<1>8. AdminListed(r) /\ AdminDetailed(r)
  BY <1>6 DEF AdminListed, AdminDetailed
<1>9. AdminShown(r)
  BY <1>2, <1>6 DEF AdminShown
<1>10. AdminStopped(r)
  BY <1>6 DEF AdminStopped
<1> QED BY <1>5, <1>6, <1>7, <1>8, <1>9, <1>10 DEF AdminGood

LEMMA AdminLoaded ==
  ASSUME NEW p, AdminGood(p), p.call["list"] # None, NEW empty \in BOOLEAN
  PROVE  LET c == p.call["list"]
             r == Admin!Loaded(p, c, empty)
         IN AdminGood(r) /\ (~c.aborted /\ c.result = "ok" => r.access = "authorized")
<1> DEFINE c == p.call["list"]
           busy == p.busy \ {Admin!Flag(c.mode)}
           q == [p EXCEPT !.call["list"] = None, !.busy = busy]
           r == [q EXCEPT !.shown = c.location, !.empty = empty, !.access = "authorized"]
           s == IF c.mode \in {"initial", "sync"} THEN Admin!StartStats(r) ELSE r
           e == IF c.aborted THEN q
                ELSE CASE c.result = "ok" -> s
                       [] Admin!IsRefusal(c.result) -> Admin!Refused(q, c.result)
                       [] OTHER -> Admin!Failed(q, c.mode)
<1>1. p \in Admin!PageType /\ "list" \in Admin!Kinds
  BY DEF AdminGood, Admin!Kinds, Admin!Reads
<1>2. busy \in SUBSET AdminFlags
  BY <1>1 DEF Admin!PageType, AdminFlags
<1>3. Admin!Loaded(p, c, empty) = e
  BY Zenon DEF Admin!Loaded
<1>4. q \in Admin!PageType /\ Alike(q, p) /\ q.call = [p.call EXCEPT !["list"] = None]
  BY <1>1, <1>2, AdminCallOver
<1>c. c.mode \in ListModes /\ c.location = q.active
  BY <1>4 DEF AdminGood, AdminListed, Alike
<1> HIDE DEF busy, q
<1>5. /\ q.call["list"] = None /\ q.call["stats"] = p.call["stats"] /\ q.call["detail"] = p.call["detail"]
  <2>1. p.call \in [Admin!Kinds -> Admin!CallType \cup {None}]
    BY <1>1 DEF Admin!PageType
  <2> QED BY <1>4, <2>1 DEF Admin!Kinds, Admin!Reads
<1>6. AdminRefused(q) /\ AdminListed(q) /\ AdminStopped(q) /\ AdminDetailed(q)
  <2>1. AdminRefused(q)
    BY <1>4, <1>5 DEF AdminGood, AdminRefused, Alike
  <2>2. AdminDetailed(q)
    BY <1>4, <1>5 DEF AdminGood, AdminDetailed, Alike
  <2>3. AdminListed(q) /\ AdminStopped(q)
    BY <1>5 DEF AdminListed, AdminStopped
  <2> QED BY <2>1, <2>2, <2>3
<1>7. ASSUME c.aborted PROVE AdminGood(q)
  <2>1. p.access \in AdminRefusals \cup {"checking"}
    BY <1>7 DEF AdminGood, AdminStopped
  <2>2. AdminShown(q)
    BY <1>4, <2>1 DEF AdminShown, Alike, AdminRefusals
  <2> QED BY <1>4, <1>6, <2>2 DEF AdminGood
<1>8. AdminGood(r) /\ r.access = "authorized"
  <2>1. r = [q EXCEPT !.shown = q.active, !.empty = empty, !.access = "authorized"]
    BY <1>c
  <2> HIDE DEF r
  <2> QED BY <1>4, <1>5, <1>6, <2>1, AdminListShown, Zenon
<1> HIDE DEF r
<1>9. AdminGood(s) /\ s.access = "authorized"
  BY <1>8, AdminStartStats DEF AdminRefusals
<1>10. AdminGood(Admin!Refused(q, c.result))
  BY <1>4, <1>6, AdminRefuse
<1>11. AdminGood(Admin!Failed(q, c.mode))
  BY <1>4, <1>5, <1>6, <1>c, AdminListFailed
<1> HIDE DEF s
<1>12. \/ (e = q /\ c.aborted) \/ e = Admin!Refused(q, c.result) \/ e = Admin!Failed(q, c.mode) \/ e = s
  OBVIOUS
<1>13. ~c.aborted /\ c.result = "ok" => e = s
  BY DEF Admin!IsRefusal
<1> HIDE DEF e
<1>14. AdminGood(e) /\ (~c.aborted /\ c.result = "ok" => e.access = "authorized")
  BY <1>7, <1>9, <1>10, <1>11, <1>12, <1>13
<1> QED BY <1>3, <1>14

(* The dialog of the confirmation closes.                                   *)
LEMMA AdminUnconfirmed ==
  ASSUME NEW p, AdminGood(p)
  PROVE  /\ AdminGood(Admin!ResetConfirmation(p)) /\ Admin!ResetConfirmation(p).mode = "closed"
         /\ Admin!ResetConfirmation(p).access = p.access
<1> DEFINE q == Admin!ResetConfirmation(p)
<1>1. p \in Admin!PageType
  BY DEF AdminGood
<1>2. /\ q \in Admin!PageType /\ q.mode = "closed"
      /\ q.access = p.access /\ q.active = p.active /\ q.shown = p.shown /\ q.stats = p.stats
      /\ q.errors = p.errors \ {"mutation"} /\ q.call = p.call /\ q.user = p.user /\ q.detail = p.detail
  BY <1>1, AdminResetConfirmation
<1> HIDE DEF q
<1>3. p.errors \cap {"list", "page", "sync"} \subseteq q.errors
  BY <1>2
<1>4. AdminGood(q)
  BY <1>2, <1>3, AdminSame
<1> QED BY <1>2, <1>4 DEF q

LEMMA AdminSyncFields ==
  ASSUME NEW p \in Admin!PageType
  PROVE  LET q == [p EXCEPT !.synced = None]
             f == [q EXCEPT !.focus = FALSE, !.location = [p.active EXCEPT !.cursor = FALSE]]
             g == [q EXCEPT !.focus = FALSE, !.user = None]
             h == [q EXCEPT !.user = None]
             d == [q EXCEPT !.mode = "detail"]
         IN /\ Aside(q, p) /\ Aside(f, p)
            /\ \A x \in {g, h, d} : /\ x \in Admin!PageType /\ x.access = p.access /\ x.active = p.active
                                    /\ x.shown = p.shown /\ x.stats = p.stats /\ x.errors = p.errors
                                    /\ x.call = p.call
            /\ g.mode = p.mode /\ h.mode = p.mode
<1> DEFINE q == [p EXCEPT !.synced = None]
           l == [p.active EXCEPT !.cursor = FALSE]
           f == [q EXCEPT !.focus = FALSE, !.location = l]
           g == [q EXCEPT !.focus = FALSE, !.user = None]
           h == [q EXCEPT !.user = None]
           d == [q EXCEPT !.mode = "detail"]
<1>1. l \in Admin!Locations
  BY DEF Admin!PageType, Admin!Locations
<1>2. Aside(q, p)
  BY DEF Admin!PageType, Aside, Alike
<1> HIDE DEF q, l
<1>q. q \in Admin!PageType
  BY <1>2 DEF Aside
<1>3. Aside(f, q)
  <2>1. f \in Admin!PageType
    BY <1>1, <1>q DEF Admin!PageType
  <2>2. Alike(f, q) /\ f.call = q.call
    BY <1>q DEF Admin!PageType, Alike
  <2> QED BY <2>1, <2>2 DEF Aside
<1>4. /\ g \in Admin!PageType /\ g.access = q.access /\ g.active = q.active /\ g.shown = q.shown
      /\ g.stats = q.stats /\ g.errors = q.errors /\ g.call = q.call /\ g.mode = q.mode
  BY <1>q DEF Admin!PageType
<1>5. /\ h \in Admin!PageType /\ h.access = q.access /\ h.active = q.active /\ h.shown = q.shown
      /\ h.stats = q.stats /\ h.errors = q.errors /\ h.call = q.call /\ h.mode = q.mode
  BY <1>q DEF Admin!PageType
<1>6. /\ d \in Admin!PageType /\ d.access = q.access /\ d.active = q.active /\ d.shown = q.shown
      /\ d.stats = q.stats /\ d.errors = q.errors /\ d.call = q.call
  BY <1>q DEF Admin!PageType
<1> HIDE DEF f, g, h, d
<1>7. Aside(f, p)
  BY <1>2, <1>3 DEF Aside, Alike
<1>8. \A x \in {g, h, d} : /\ x \in Admin!PageType /\ x.access = p.access /\ x.active = p.active
                           /\ x.shown = p.shown /\ x.stats = p.stats /\ x.errors = p.errors
                           /\ x.call = p.call
  BY <1>2, <1>4, <1>5, <1>6 DEF Aside, Alike
<1>9. g.mode = p.mode /\ h.mode = p.mode
  BY <1>2, <1>4, <1>5 DEF Aside, Alike
<1> QED BY <1>2, <1>7, <1>8, <1>9, Zenon DEF q, f, g, h, d, l

LEMMA AdminSynchronized ==
  ASSUME NEW p, AdminGood(p), NEW c \in Admin!CallType, NEW loaded \in BOOLEAN,
         loaded => p.access = "authorized"
  PROVE  AdminGood(Admin!Synchronized(p, c, loaded))
<1> DEFINE first == p.active.cursor /\ p.empty
           reset == Admin!ResetConfirmation(p)
           closed == [reset EXCEPT !.synced = None]
           f == [closed EXCEPT !.focus = FALSE, !.location = [p.active EXCEPT !.cursor = FALSE]]
           g == [closed EXCEPT !.focus = FALSE, !.user = None]
           h == [closed EXCEPT !.user = None]
           d == [closed EXCEPT !.mode = "detail"]
           e == Admin!Synchronized(p, c, loaded)
<1>1. AdminGood(reset) /\ reset.mode = "closed" /\ reset.access = p.access /\ reset \in Admin!PageType
      /\ reset.active = p.active
  <2>1. p \in Admin!PageType
    BY DEF AdminGood
  <2> QED BY <2>1, AdminUnconfirmed, AdminResetConfirmation DEF AdminGood
<1> HIDE DEF reset
<1>2. /\ Aside(f, reset)
      /\ \A x \in {g, h, d} : /\ x \in Admin!PageType /\ x.access = reset.access /\ x.active = reset.active
                              /\ x.shown = reset.shown /\ x.stats = reset.stats /\ x.errors = reset.errors
                              /\ x.call = reset.call
      /\ g.mode = reset.mode /\ h.mode = reset.mode
  <2>1. f = [[reset EXCEPT !.synced = None] EXCEPT
               !.focus = FALSE, !.location = [reset.active EXCEPT !.cursor = FALSE]]
    BY <1>1
  <2> HIDE DEF f
  <2> QED BY <1>1, <2>1, AdminSyncFields, Zenon
<1>e. \/ e = Admin!Submitted(reset, c.tail)
      \/ e = Admin!Submitted(f, c.tail)
      \/ e = Admin!Submitted(g, c.tail)
      \/ e = Admin!Submitted(h, c.tail)
      \/ e = Admin!StartDetail(d, c.user, c.tail) /\ loaded
  <2> HIDE DEF f, g, h, d, closed
  <2>1. e = CASE ~loaded -> Admin!Submitted(reset, c.tail)
              [] loaded /\ first -> Admin!Submitted(f, c.tail)
              [] loaded /\ ~first /\ p.focus -> Admin!Submitted(g, c.tail)
              [] loaded /\ ~first /\ ~p.focus /\ (~c.restore \/ c.user = None) -> Admin!Submitted(h, c.tail)
              [] OTHER -> Admin!StartDetail(d, c.user, c.tail)
    BY Zenon DEF Admin!Synchronized, reset, closed, f, g, h, d
  <2> HIDE DEF e, first
  <2> QED BY <2>1
<1> HIDE DEF f, g, h, d, e
<1>3. AdminGood(f)
  BY <1>1, <1>2, AdminAside
<1>4. AdminGood(g) /\ AdminGood(h)
  <2>1. ASSUME NEW x \in {g, h} PROVE AdminGood(x)
    <3>1. /\ x \in Admin!PageType /\ x.access = reset.access /\ x.active = reset.active
          /\ x.shown = reset.shown /\ x.stats = reset.stats /\ x.errors = reset.errors
          /\ x.call = reset.call /\ x.mode = "closed"
      BY <1>1, <1>2
    <3> QED BY <1>1, <3>1, AdminSame
  <2> QED BY <2>1
<1>5. loaded => AdminGood(Admin!StartDetail(d, c.user, c.tail))
  <2> HAVE loaded
  <2>1. d \in Admin!PageType /\ d.access = "authorized" /\ d.access \notin AdminRefusals
    BY <1>1, <1>2 DEF AdminRefusals
  <2>2. AdminListed(d) /\ AdminStopped(d) /\ AdminShown(d)
    BY <1>1, <1>2 DEF AdminGood, AdminListed, AdminStopped, AdminShown
  <2>3. c.user \in People \cup {None} /\ c.tail \in Admin!Tails
    BY DEF Admin!CallType
  <2> QED BY <2>1, <2>2, <2>3, AdminStartDetail
<1>6. AdminGood(e)
  BY <1>1, <1>3, <1>4, <1>5, <1>e, AdminSubmitted
<1> QED BY <1>6 DEF e

LEMMA AdminEndList ==
  ASSUME NEW p, AdminGood(p), p.call["list"] # None, NEW empty \in BOOLEAN
  PROVE  AdminGood(Admin!EndList(p, p.call["list"], empty))
<1> DEFINE c == p.call["list"]
           q == Admin!Loaded(p, c, empty)
           loaded == ~c.aborted /\ c.result = "ok"
<1>1. AdminGood(q) /\ (loaded => q.access = "authorized")
  BY AdminLoaded
<1>2. c \in Admin!CallType
  BY DEF AdminGood, Admin!PageType, Admin!Kinds, Admin!Reads
<1> HIDE DEF q
<1>3. loaded \in BOOLEAN
  BY <1>2 DEF Admin!CallType
<1> HIDE DEF loaded
<1>4. AdminGood(Admin!Synchronized(q, c, loaded))
  BY <1>1, <1>2, <1>3, AdminSynchronized
<1>5. Admin!EndList(p, c, empty) = IF c.tail = "plain" THEN q ELSE Admin!Synchronized(q, c, loaded)
  BY Zenon DEF Admin!EndList, q, loaded
<1> QED BY <1>1, <1>4, <1>5

LEMMA AdminEndMutation ==
  ASSUME NEW p, AdminGood(p), p.call["mutation"] # None
  PROVE  AdminGood(Admin!EndMutation(p, p.call["mutation"]))
<1> DEFINE c == p.call["mutation"]
           q == [p EXCEPT !.call["mutation"] = None]
           synced == IF c.mode = "delete" THEN "delete" ELSE "other"
           focus == (c.mode = "delete")
           r == [q EXCEPT !.synced = synced, !.focus = focus]
           e == Admin!EndMutation(p, c)
<1>1. p \in Admin!PageType /\ "mutation" \in Admin!Kinds /\ "mutation" \in AdminFlags
  BY DEF AdminGood, Admin!Kinds, AdminFlags
<1>2. c \in Admin!CallType
  BY <1>1 DEF Admin!PageType
<1>3. q \in Admin!PageType /\ Alike(q, p) /\ q.call = [p.call EXCEPT !["mutation"] = None]
  <2> DEFINE busy == p.busy
  <2>1. busy \in SUBSET AdminFlags
    BY <1>1 DEF Admin!PageType, AdminFlags
  <2>2. q = [p EXCEPT !.call["mutation"] = None, !.busy = busy]
    BY <1>1 DEF Admin!PageType
  <2> HIDE DEF busy, q
  <2> QED BY <1>1, <2>1, <2>2, AdminCallOver
<1> HIDE DEF q
<1>4. AdminGood(q)
  BY <1>3, AdminOver
<1>5. Aside(r, q)
  <2>1. synced \in {"delete", "other"} /\ focus \in BOOLEAN
    OBVIOUS
  <2> HIDE DEF synced, focus
  <2>2. r \in Admin!PageType
    BY <1>3, <2>1 DEF Admin!PageType
  <2>3. Alike(r, q) /\ r.call = q.call
    BY <1>3 DEF Admin!PageType, Alike
  <2> QED BY <2>2, <2>3 DEF Aside
<1>e. \/ e = Admin!StartList(r, q.active, "sync", c.user, c.restore, "submit")
      \/ e = Admin!Submitted(Admin!Refused(q, c.result), "submit")
      \/ e = Admin!Submitted([q EXCEPT !.errors = @ \cup {"mutation"}], "submit")
  <2>1. e = CASE c.result = "ok" -> Admin!StartList(r, q.active, "sync", c.user, c.restore, "submit")
              [] Admin!IsRefusal(c.result) -> Admin!Submitted(Admin!Refused(q, c.result), "submit")
              [] OTHER -> Admin!Submitted([q EXCEPT !.errors = @ \cup {"mutation"}], "submit")
    BY Zenon DEF Admin!EndMutation, q
  <2> HIDE DEF e, r
  <2> QED BY <2>1
<1> HIDE DEF r, e
<1>6. AdminGood(r) /\ r \in Admin!PageType
  BY <1>4, <1>5, AdminAside DEF Aside
<1>7. AdminGood(Admin!StartList(r, q.active, "sync", c.user, c.restore, "submit"))
  <2>1. /\ q.active \in Admin!Locations /\ "sync" \in ListModes /\ c.user \in People \cup {None}
        /\ c.restore \in BOOLEAN /\ "submit" \in Admin!Tails
    BY <1>2, <1>3 DEF Admin!PageType, Admin!CallType, ListModes, Admin!Tails
  <2>2. AdminRefused(r) /\ AdminDetailed(r)
    BY <1>6 DEF AdminGood
  <2> QED BY <1>6, <2>1, <2>2, AdminStartList
<1>8. AdminGood(Admin!Refused(q, c.result))
  BY <1>3, <1>4, AdminRefuse DEF AdminGood
<1>9. AdminGood([q EXCEPT !.errors = @ \cup {"mutation"}])
  BY <1>1, <1>4, AdminError
<1>10. AdminGood(e)
  BY <1>7, <1>8, <1>9, <1>e, AdminSubmitted
<1> QED BY <1>10 DEF e

(* The calls go on, as they were.                                           *)
LEMMA AdminCallsAlike ==
  ASSUME NEW p, AdminGood(p), NEW q \in Admin!PageType, Alike(q, p),
         \A k \in Admin!Kinds : /\ SameCall(q.call[k], p.call[k])
                                /\ p.call[k] # None => (q.call[k].aborted <=> p.call[k].aborted)
  PROVE  AdminGood(q)
<1>1. /\ SameCall(q.call["list"], p.call["list"]) /\ SameCall(q.call["stats"], p.call["stats"])
      /\ SameCall(q.call["detail"], p.call["detail"])
      /\ p.call["list"] # None => (q.call["list"].aborted <=> p.call["list"].aborted)
      /\ p.call["stats"] # None => (q.call["stats"].aborted <=> p.call["stats"].aborted)
  BY DEF Admin!Kinds, Admin!Reads
<1>2. AdminRefused(q)
  BY <1>1 DEF AdminGood, AdminRefused, Alike, SameCall
<1>3. AdminListed(q)
  BY <1>1 DEF AdminGood, AdminListed, Alike, SameCall
<1>4. AdminStopped(q)
  BY <1>1 DEF AdminGood, AdminStopped, Alike, SameCall
<1>5. AdminShown(q)
  BY <1>1 DEF AdminGood, AdminShown, Alike, SameCall
<1>6. AdminDetailed(q)
  BY <1>1 DEF AdminGood, AdminDetailed, Alike, SameCall
<1> QED BY <1>2, <1>3, <1>4, <1>5, <1>6 DEF AdminGood

Phases == {"sent", "reauth", "second", "settled"}
Results == {"ok", "401", "403", "error", None}

LEMMA AdminPhased ==
  ASSUME NEW c \in Admin!CallType, NEW phase \in Phases, NEW result \in Results
  PROVE  LET d == [c EXCEPT !.phase = phase, !.result = result]
         IN d \in Admin!CallType /\ SameCall(d, c) /\ (d.aborted <=> c.aborted)
<1> DEFINE d == [c EXCEPT !.phase = phase, !.result = result]
<1>1. /\ d \in Admin!CallType /\ d.mode = c.mode /\ d.location = c.location /\ d.user = c.user
      /\ d.aborted = c.aborted
  BY DEF Admin!CallType, Phases, Results
<1>2. d # None /\ c # None
  BY <1>1, NoneIsNoCall
<1> HIDE DEF d
<1>3. d \in Admin!CallType /\ SameCall(d, c) /\ (d.aborted <=> c.aborted)
  BY <1>1, <1>2 DEF SameCall
<1> QED BY <1>3 DEF d

LEMMA AdminNewCalls ==
  ASSUME NEW p, AdminGood(p), NEW load,
         \A k \in Admin!Kinds :
           /\ load[k] \in Admin!CallType \cup {None} /\ SameCall(load[k], p.call[k])
           /\ p.call[k] # None => (load[k].aborted <=> p.call[k].aborted),
         load = [k \in Admin!Kinds |-> load[k]]
  PROVE  AdminGood([p EXCEPT !.call = load])
<1> DEFINE q == [p EXCEPT !.call = load]
<1>1. load \in [Admin!Kinds -> Admin!CallType \cup {None}]
  BY Zenon
<1>2. p \in Admin!PageType
  BY DEF AdminGood
<1>3. q \in Admin!PageType /\ Alike(q, p) /\ q.call = load
  BY <1>1, <1>2 DEF Admin!PageType, Alike
<1> HIDE DEF q
<1>4. AdminGood(q)
  BY <1>3, AdminCallsAlike
<1> QED BY <1>4 DEF q

LEMMA AdminSetPhase ==
  ASSUME AdminGood(adminPage), NEW k \in Admin!Kinds, adminPage.call[k] # None,
         NEW phase \in Phases, NEW result \in Results, Admin!SetPhase(k, phase, result)
  PROVE  AdminGood(adminPage')
<1> DEFINE p == adminPage
           c == [p.call[k] EXCEPT !.phase = phase, !.result = result]
           load == [p.call EXCEPT ![k] = c]
<1>1. p \in Admin!PageType /\ p.call \in [Admin!Kinds -> Admin!CallType \cup {None}]
      /\ p.call[k] \in Admin!CallType
  BY DEF AdminGood, Admin!PageType
<1>2. c \in Admin!CallType /\ SameCall(c, p.call[k]) /\ (c.aborted <=> p.call[k].aborted)
  BY <1>1, AdminPhased
<1>3. adminPage' = [p EXCEPT !.call = load]
  <2>1. adminPage' = [p EXCEPT !.call[k].phase = phase, !.call[k].result = result]
    BY Zenon DEF Admin!SetPhase
  <2> QED BY <1>1, <2>1 DEF Admin!PageType
<1> HIDE DEF c
<1>4. ASSUME NEW j \in Admin!Kinds
      PROVE  /\ load[j] \in Admin!CallType \cup {None} /\ SameCall(load[j], p.call[j])
             /\ p.call[j] # None => (load[j].aborted <=> p.call[j].aborted)
  <2>1. CASE j = k
    BY <1>1, <1>2, <2>1
  <2>2. CASE j # k
    BY <1>1, <2>2 DEF SameCall
  <2> QED BY <2>1, <2>2
<1>5. load = [j \in Admin!Kinds |-> load[j]]
  BY <1>1
<1> HIDE DEF load, p
<1>6. AdminGood(p)
  BY DEF p
<1>7. AdminGood([p EXCEPT !.call = load])
  BY <1>4, <1>5, <1>6, AdminNewCalls
<1> QED BY <1>3, <1>7

LEMMA AdminRefreshed ==
  ASSUME AdminGood(adminPage), NEW phase \in Phases, NEW result \in Results, Admin!Refreshed(phase, result)
  PROVE  AdminGood(adminPage')
<1> DEFINE p == adminPage
           C(j) == IF p.call[j] # None /\ p.call[j].phase = "reauth"
                   THEN [p.call[j] EXCEPT !.phase = phase, !.result = result] ELSE p.call[j]
           load == [j \in Admin!Kinds |-> C(j)]
<1>1. p \in Admin!PageType /\ p.call \in [Admin!Kinds -> Admin!CallType \cup {None}]
  BY DEF AdminGood, Admin!PageType
<1>3. adminPage' = [p EXCEPT !.call = load]
  BY Zenon DEF Admin!Refreshed
<1>4. ASSUME NEW j \in Admin!Kinds
      PROVE  /\ C(j) \in Admin!CallType \cup {None} /\ SameCall(C(j), p.call[j])
             /\ p.call[j] # None => (C(j).aborted <=> p.call[j].aborted)
  <2>1. CASE p.call[j] # None /\ p.call[j].phase = "reauth"
    <3> DEFINE c == p.call[j]
               d == [c EXCEPT !.phase = phase, !.result = result]
    <3>1. c \in Admin!CallType
      BY <1>1, <2>1
    <3>2. d \in Admin!CallType /\ SameCall(d, c) /\ (d.aborted <=> c.aborted)
      BY <3>1, AdminPhased
    <3>3. C(j) = d
      BY <2>1
    <3> HIDE DEF d, C
    <3> QED BY <3>2, <3>3
  <2>2. CASE ~(p.call[j] # None /\ p.call[j].phase = "reauth")
    <3>1. C(j) = p.call[j]
      BY <2>2
    <3> HIDE DEF C
    <3> QED BY <1>1, <3>1 DEF SameCall
  <2> QED BY <2>1, <2>2
<1> HIDE DEF C
<1>5. \A j \in Admin!Kinds : /\ load[j] \in Admin!CallType \cup {None} /\ SameCall(load[j], p.call[j])
                             /\ p.call[j] # None => (load[j].aborted <=> p.call[j].aborted)
  BY <1>4
<1>6. load = [j \in Admin!Kinds |-> load[j]]
  OBVIOUS
<1> HIDE DEF load, p
<1>7. AdminGood(p)
  BY DEF p
<1>8. AdminGood([p EXCEPT !.call = load])
  BY <1>5, <1>6, <1>7, AdminNewCalls
<1> QED BY <1>3, <1>8

AdminInv ==
  /\ adminAuth \in {"signedIn", "refreshing", "signedOut", "gone"} /\ adminDirty \in BOOLEAN
  /\ adminLeft \in 0 .. AdminCommands
  /\ AdminGood(adminPage)

LEMMA AdminMeans == AdminInv => Admin!TypeOK /\ Admin!ShowsWhatWasAsked /\ Admin!RefusedShowsNothing
<1> SUFFICES ASSUME AdminInv PROVE Admin!TypeOK /\ Admin!ShowsWhatWasAsked /\ Admin!RefusedShowsNothing
  OBVIOUS
<1>1. Admin!TypeOK
  BY DEF AdminInv, AdminGood, Admin!TypeOK
<1>2. Admin!ShowsWhatWasAsked
  BY DEF AdminInv, AdminGood, AdminShown, AdminDetailed, Admin!ShowsWhatWasAsked
<1>3. Admin!RefusedShowsNothing
  BY DEF AdminInv, AdminGood, AdminRefused, AdminRefusals, Admin!RefusedShowsNothing
<1> QED BY <1>1, <1>2, <1>3

LEMMA AdminInitially == Admin!Init => AdminInv
<1> SUFFICES ASSUME Admin!Init PROVE AdminInv
  OBVIOUS
<1> DEFINE none == {}
           load == [k \in Admin!Kinds |-> None]
           stale == [t \in Admin!Tails |-> 0]
           P(location, active) ==
             [access |-> "checking", location |-> location, key |-> None, active |-> active,
              shown |-> None, empty |-> FALSE, stats |-> FALSE, busy |-> none, errors |-> none,
              mode |-> "closed", user |-> None, detail |-> None, action |-> None,
              restore |-> FALSE, synced |-> None, focus |-> FALSE, call |-> load, stale |-> stale]
<1>1. PICK location \in Admin!Locations : adminPage = P(location, [filter |-> location.filter, cursor |-> FALSE])
  BY Zenon DEF Admin!Init
<1>2. [filter |-> location.filter, cursor |-> FALSE] \in Admin!Locations
  BY DEF Admin!Locations
<1>3. none \in SUBSET AdminFlags
  OBVIOUS
<1>4. /\ load \in [Admin!Kinds -> Admin!CallType \cup {None}] /\ stale \in [Admin!Tails -> Nat]
      /\ \A k \in Admin!Kinds : load[k] = None
  OBVIOUS
<1> HIDE DEF none, load, stale
<1>5. ASSUME NEW active \in Admin!Locations
      PROVE  AdminGood(P(location, active))
  <2> DEFINE p == P(location, active)
  <2>1. p \in Admin!PageType
    BY <1>3, <1>4 DEF Admin!PageType, AdminFlags
  <2>2. p.access = "checking" /\ p.mode = "closed" /\ p.call = load
    OBVIOUS
  <2> HIDE DEF p, P
  <2>3. p.call["list"] = None
    BY <1>4, <2>2 DEF Admin!Kinds, Admin!Reads
  <2>4. AdminRefused(p) /\ AdminListed(p) /\ AdminStopped(p) /\ AdminShown(p) /\ AdminDetailed(p)
    BY <2>2, <2>3 DEF AdminRefused, AdminListed, AdminStopped, AdminShown, AdminDetailed, AdminRefusals
  <2> QED BY <2>1, <2>4 DEF AdminGood, p
<1> HIDE DEF P
<1>6. AdminGood(adminPage)
  BY <1>1, <1>2, <1>5
<1>7. AdminCommands \in Nat
  BY InstancesAssumption DEF Admin!AdminPageAssumption
<1> QED BY <1>6, <1>7 DEF Admin!Init, AdminInv

LEMMA AdminEffect ==
  ASSUME AdminGood(adminPage), Admin!Effect
  PROVE  AdminGood(adminPage')
<1> DEFINE p == adminPage
           c == [p EXCEPT !.access = "checking"]
           l == Admin!Leave(p, "anonymous")
           k == [p EXCEPT !.key = p.location]
           s == Admin!StartList(k, p.location, Admin!LoadMode(p), None, FALSE, "plain")
<1>1. p \in Admin!PageType
  BY DEF AdminGood
<1>e. adminPage' \in {c, l, s, p}
  <2>1. adminPage' = CASE adminAuth = "refreshing" -> c
                       [] adminAuth = "signedOut" -> l
                       [] adminAuth = "signedIn" /\ Admin!Count(adminPage) = 0
                          /\ adminPage.location # adminPage.key -> s
                       [] OTHER -> p
    BY Zenon DEF Admin!Effect
  <2> HIDE DEF c, l, s, p
  <2> QED BY <2>1
<1>2. AdminGood(c)
  <2>1. /\ c \in Admin!PageType /\ c.access = "checking" /\ c.active = p.active /\ c.shown = p.shown
        /\ c.stats = p.stats /\ c.errors = p.errors /\ c.mode = p.mode /\ c.user = p.user
        /\ c.detail = p.detail /\ c.call = p.call
    BY <1>1 DEF Admin!PageType
  <2> HIDE DEF c
  <2>2. AdminRefused(c) /\ AdminStopped(c) /\ AdminShown(c)
    BY <2>1 DEF AdminRefused, AdminStopped, AdminShown, AdminRefusals
  <2>3. AdminListed(c) /\ AdminDetailed(c)
    BY <2>1 DEF AdminGood, AdminListed, AdminDetailed
  <2> QED BY <2>1, <2>2, <2>3 DEF AdminGood
<1>3. AdminGood(l)
  BY <1>1, AdminLeave DEF AdminGood, AdminRefusals
<1>4. AdminGood(s)
  <2> DEFINE location == p.location
             x == [p EXCEPT !.key = location]
  <2>1. location \in Admin!Locations
    BY <1>1 DEF Admin!PageType
  <2> HIDE DEF location
  <2>2. Aside(x, p)
    BY <1>1, <2>1 DEF Admin!PageType, Aside, Alike
  <2>3. x = k
    BY DEF location
  <2> HIDE DEF x, k
  <2>4. AdminGood(k) /\ k \in Admin!PageType /\ AdminRefused(k) /\ AdminDetailed(k)
    BY <2>2, <2>3, AdminAside DEF AdminGood
  <2>5. Admin!LoadMode(p) \in ListModes /\ "plain" \in Admin!Tails /\ None \in People \cup {None}
        /\ FALSE \in BOOLEAN
    BY DEF Admin!LoadMode, ListModes, Admin!Tails
  <2> HIDE DEF p
  <2> QED BY <2>1, <2>4, <2>5, AdminStartList DEF location
<1> QED BY <1>2, <1>3, <1>4, <1>e

LEMMA AdminContinue ==
  ASSUME AdminGood(adminPage), NEW k \in Admin!Kinds, Admin!Continue(k)
  PROVE  AdminGood(adminPage')
<1>1. adminPage.call[k] # None
  BY DEF Admin!Continue, Admin!Settled
<1>2. CASE k = "stats"
  BY <1>1, <1>2, AdminEndStats DEF Admin!Continue
<1>3. CASE k = "detail"
  BY <1>1, <1>3, AdminEndDetail DEF Admin!Continue
<1>4. CASE k = "mutation"
  BY <1>1, <1>4, AdminEndMutation DEF Admin!Continue
<1>5. CASE k = "list"
  <2>1. PICK empty \in BOOLEAN :
          adminPage' = Admin!EndList(adminPage, adminPage.call[k], empty /\ adminPage.call[k].location.cursor)
    BY <1>5 DEF Admin!Continue
  <2> DEFINE e == empty /\ adminPage.call[k].location.cursor
  <2>2. e \in BOOLEAN
    OBVIOUS
  <2> HIDE DEF e
  <2>3. AdminGood(Admin!EndList(adminPage, adminPage.call["list"], e))
    BY <1>1, <1>5, <2>2, AdminEndList
  <2> QED BY <1>5, <2>1, <2>3 DEF e
<1> QED BY <1>2, <1>3, <1>4, <1>5 DEF Admin!Kinds, Admin!Reads

LEMMA AdminStaleEnds ==
  ASSUME AdminGood(adminPage), NEW tail \in Admin!Tails, Admin!StaleEnds(tail)
  PROVE  AdminGood(adminPage')
<1> DEFINE p == adminPage
           stale == [p.stale EXCEPT ![tail] = @ - 1]
           q == [p EXCEPT !.stale = stale]
<1>1. p \in Admin!PageType /\ p.stale \in [Admin!Tails -> Nat] /\ p.stale[tail] > 0
  BY DEF AdminGood, Admin!PageType, Admin!StaleEnds
<1>2. adminPage' = IF tail = "plain" THEN q ELSE Admin!Submitted(Admin!ResetConfirmation(q), tail)
  <2> DEFINE t == [p EXCEPT !.stale[tail] = @ - 1]
  <2>1. adminPage' = IF tail = "plain" THEN t ELSE Admin!Submitted(Admin!ResetConfirmation(t), tail)
    BY Zenon DEF Admin!StaleEnds
  <2>2. t = q
    OBVIOUS
  <2> HIDE DEF t, q
  <2> QED BY <2>1, <2>2
<1>3. stale \in [Admin!Tails -> Nat]
  BY <1>1
<1> HIDE DEF stale
<1>4. Aside(q, p)
  BY <1>1, <1>3 DEF Admin!PageType, Aside, Alike
<1> HIDE DEF q
<1>5. AdminGood(q)
  BY <1>4, AdminAside
<1>6. AdminGood(Admin!Submitted(Admin!ResetConfirmation(q), tail))
  BY <1>5, AdminUnconfirmed, AdminSubmitted
<1> QED BY <1>2, <1>5, <1>6

(* The commands.                                                            *)

LEMMA AdminMayLeave ==
  ASSUME AdminGood(adminPage)
  PROVE  AdminGood(Admin!Leave(adminPage, "anonymous"))
BY AdminLeave DEF AdminGood, AdminRefusals

LEMMA AdminOpens ==
  ASSUME AdminGood(adminPage), adminPage.access = "authorized", NEW u \in People
  PROVE  AdminGood(Admin!StartDetail([adminPage EXCEPT !.mode = "detail"], u, "plain"))
<1> DEFINE p == adminPage
           q == [p EXCEPT !.mode = "detail"]
<1>1. p \in Admin!PageType
  BY DEF AdminGood
<1>2. /\ q \in Admin!PageType /\ q.access = p.access /\ q.active = p.active /\ q.shown = p.shown
      /\ q.errors = p.errors /\ q.call = p.call
  BY <1>1 DEF Admin!PageType
<1>3. "plain" \in Admin!Tails /\ u \in People \cup {None}
  BY DEF Admin!Tails
<1> HIDE DEF q
<1>4. AdminListed(q) /\ AdminStopped(q) /\ AdminShown(q) /\ q.access \notin AdminRefusals
  BY <1>2 DEF AdminGood, AdminListed, AdminStopped, AdminShown, AdminRefusals
<1>5. AdminGood(Admin!StartDetail(q, u, "plain"))
  BY <1>2, <1>3, <1>4, AdminStartDetail
<1> QED BY <1>5 DEF q

LEMMA AdminRetriesDetail ==
  ASSUME AdminGood(adminPage), adminPage.access = "authorized"
  PROVE  AdminGood(Admin!StartDetail(adminPage, adminPage.user, "plain"))
<1>1. /\ adminPage \in Admin!PageType /\ adminPage.user \in People \cup {None}
      /\ "plain" \in Admin!Tails /\ adminPage.access \notin AdminRefusals
      /\ AdminListed(adminPage) /\ AdminStopped(adminPage) /\ AdminShown(adminPage)
  BY DEF AdminGood, Admin!PageType, AdminRefusals, Admin!Tails
<1> QED BY <1>1, AdminStartDetail

LEMMA AdminRetries ==
  ASSUME AdminGood(adminPage), NEW mode \in ListModes, NEW tail \in Admin!Tails
  PROVE  AdminGood(Admin!StartList(adminPage, adminPage.active, mode, None, FALSE, tail))
<1>1. /\ adminPage \in Admin!PageType /\ adminPage.active \in Admin!Locations /\ None \in People \cup {None}
      /\ FALSE \in BOOLEAN /\ AdminRefused(adminPage) /\ AdminDetailed(adminPage)
  BY DEF AdminGood, Admin!PageType
<1> QED BY <1>1, AdminStartList

LEMMA AdminNavigates ==
  ASSUME AdminGood(adminPage), NEW f \in Modes, NEW cursor \in BOOLEAN
  PROVE  /\ AdminGood(Admin!Navigate(f, cursor))
         /\ AdminGood([Admin!Navigate(f, cursor) EXCEPT !.busy = @ \cup {"page"}])
<1> DEFINE p == adminPage
           location == [filter |-> f, cursor |-> cursor]
           q == [p EXCEPT !.location = location]
           busy == q.busy \cup {"page"}
           r == [q EXCEPT !.busy = busy]
<1>1. p \in Admin!PageType
  BY DEF AdminGood
<1>2. location \in Admin!Locations
  BY DEF Admin!Locations
<1>3. Admin!Navigate(f, cursor) = q
  BY Zenon DEF Admin!Navigate
<1> HIDE DEF location
<1>4. Aside(q, p)
  BY <1>1, <1>2 DEF Admin!PageType, Aside, Alike
<1> HIDE DEF q
<1>5. AdminGood(q) /\ q \in Admin!PageType
  BY <1>4, AdminAside DEF Aside
<1>6. busy \in SUBSET AdminFlags
  BY <1>5 DEF Admin!PageType, AdminFlags
<1>7. [Admin!Navigate(f, cursor) EXCEPT !.busy = @ \cup {"page"}] = r
  BY <1>3
<1> HIDE DEF busy
<1>8. Aside(r, q)
  BY <1>5, <1>6 DEF Admin!PageType, AdminFlags, Aside, Alike
<1> HIDE DEF r
<1>9. AdminGood(r)
  BY <1>5, <1>8, AdminAside
<1> QED BY <1>3, <1>5, <1>7, <1>9

LEMMA AdminConfirms ==
  ASSUME AdminGood(adminPage), adminPage.access = "authorized",
         NEW u \in People, NEW action \in {"change", "delete"}, NEW d \in BOOLEAN
  PROVE  AdminGood([Admin!Supersede(adminPage, "detail") EXCEPT
                      !.user = u, !.action = action, !.restore = d, !.mode = "confirmation",
                      !.errors = @ \ {"mutation"}])
<1> DEFINE p == adminPage
           r == Admin!Supersede(p, "detail")
           errors == r.errors \ {"mutation"}
           q == [r EXCEPT !.user = u, !.action = action, !.restore = d, !.mode = "confirmation",
                          !.errors = errors]
<1>1. p \in Admin!PageType /\ "detail" \in Admin!Kinds
  BY DEF AdminGood, Admin!Kinds, Admin!Reads
<1>2. /\ r \in Admin!PageType /\ Alike(r, p) /\ r.call = [p.call EXCEPT !["detail"] = None]
  BY <1>1, AdminSupersede
<1> HIDE DEF r
<1>3. errors \in SUBSET AdminFlags
  BY <1>2 DEF Admin!PageType, AdminFlags
<1>e. [r EXCEPT !.user = u, !.action = action, !.restore = d, !.mode = "confirmation",
                !.errors = @ \ {"mutation"}] = q
  OBVIOUS
<1>f. errors \cap {"list", "page", "sync"} = p.errors \cap {"list", "page", "sync"}
  BY <1>2 DEF Alike
<1> HIDE DEF errors
<1>4. q \in Admin!PageType
  <2>1. CASE d = TRUE
    BY <1>2, <1>3, <2>1 DEF Admin!PageType, AdminFlags
  <2>2. CASE d = FALSE
    BY <1>2, <1>3, <2>2 DEF Admin!PageType, AdminFlags
  <2> QED BY <2>1, <2>2
<1>5. /\ q.access = r.access /\ q.active = r.active /\ q.shown = r.shown /\ q.mode = "confirmation"
      /\ q.errors = errors /\ q.call = r.call
  BY <1>2 DEF Admin!PageType
<1> HIDE DEF q
<1>6. q.call["list"] = p.call["list"]
  <2>1. p.call \in [Admin!Kinds -> Admin!CallType \cup {None}]
    BY <1>1 DEF Admin!PageType
  <2> QED BY <1>2, <1>5, <2>1 DEF Admin!Kinds, Admin!Reads
<1>7. AdminRefused(q) /\ AdminDetailed(q)
  BY <1>2, <1>5 DEF AdminRefused, AdminDetailed, AdminRefusals, Alike
<1>8. AdminListed(q) /\ AdminStopped(q) /\ AdminShown(q)
  BY <1>2, <1>5, <1>6, <1>f DEF AdminGood, AdminListed, AdminStopped, AdminShown, Alike
<1>9. AdminGood(q)
  BY <1>4, <1>7, <1>8 DEF AdminGood
<1> QED BY <1>e, <1>9 DEF r

LEMMA AdminSubmits ==
  ASSUME AdminGood(adminPage), adminPage.access = "authorized", adminPage.action # None
  PROVE  AdminGood([adminPage EXCEPT
            !.call["mutation"] = Admin!NewCall(adminPage.action, None, adminPage.user, adminPage.restore, "plain"),
            !.busy = @ \cup {"mutation"}, !.errors = @ \ {"mutation"},
            !.synced = None, !.focus = FALSE])
<1> DEFINE p == adminPage
           c == Admin!NewCall(p.action, None, p.user, p.restore, "plain")
           load == [p.call EXCEPT !["mutation"] = c]
           busy == p.busy \cup {"mutation"}
           errors == p.errors \ {"mutation"}
           q == [p EXCEPT !.call = load, !.busy = busy, !.errors = errors, !.synced = None, !.focus = FALSE]
<1>1. p \in Admin!PageType
  BY DEF AdminGood
<1>2. c \in Admin!CallType
  <2>1. /\ p.action \in ListModes \cup {"read", "change", "delete"} /\ None \in Admin!Locations \cup {None}
        /\ p.user \in People \cup {None} /\ p.restore \in BOOLEAN /\ "plain" \in Admin!Tails
    BY <1>1 DEF Admin!PageType, Admin!Tails
  <2> QED BY <2>1, AdminNewCall
<1> HIDE DEF c
<1>3. /\ load \in [Admin!Kinds -> Admin!CallType \cup {None}] /\ busy \in SUBSET AdminFlags
      /\ errors \in SUBSET AdminFlags /\ p.errors \cap {"list", "page", "sync"} \subseteq errors
      /\ load["list"] = p.call["list"] /\ load["stats"] = p.call["stats"] /\ load["detail"] = p.call["detail"]
  BY <1>1, <1>2 DEF Admin!PageType, AdminFlags, Admin!Kinds, Admin!Reads
<1>e. [p EXCEPT !.call["mutation"] = c,
                !.busy = @ \cup {"mutation"}, !.errors = @ \ {"mutation"},
                !.synced = None, !.focus = FALSE] = q
  OBVIOUS
<1> HIDE DEF load, busy, errors
<1>4. q \in Admin!PageType
  BY <1>1, <1>3 DEF Admin!PageType, AdminFlags
<1>5. /\ q.access = p.access /\ q.active = p.active /\ q.shown = p.shown /\ q.stats = p.stats
      /\ q.mode = p.mode /\ q.user = p.user /\ q.detail = p.detail /\ q.errors = errors /\ q.call = load
  BY <1>1 DEF Admin!PageType
<1> HIDE DEF q
<1>6. AdminGood(q)
  BY <1>3, <1>4, <1>5, AdminSame
<1> QED BY <1>e, <1>6 DEF c

LEMMA AdminActs ==
  ASSUME AdminInv, NEW p, Admin!Act(p), AdminGood(p)
  PROVE  AdminInv'
<1>1. /\ adminPage' = p /\ adminAuth' = adminAuth /\ adminLeft' = adminLeft - 1 /\ adminLeft > 0
      /\ adminDirty' = (p.location # adminPage.location)
  BY DEF Admin!Act
<1>2. adminDirty' \in BOOLEAN
  BY <1>1
<1>3. adminLeft' \in 0 .. AdminCommands
  <2>1. AdminCommands \in Nat
    BY InstancesAssumption DEF Admin!AdminPageAssumption
  <2> QED BY <1>1, <2>1 DEF AdminInv
<1> QED BY <1>1, <1>2, <1>3 DEF AdminInv

LEMMA AdminCommand ==
  ASSUME AdminInv, Admin!Command
  PROVE  AdminInv'
<1>0. AdminGood(adminPage)
  BY DEF AdminInv
<1>r. ASSUME NEW p, AdminGood(p) PROVE AdminGood(Admin!OrLeave(p)) /\ AdminGood(Admin!OrStay(p))
  BY <1>0, <1>r, AdminMayLeave DEF Admin!OrLeave, Admin!OrStay
<1>f. adminPage.active.filter \in Modes
  BY <1>0 DEF AdminGood, Admin!PageType, Admin!Locations
<1>1. CASE Admin!CloseDialog
  <2>1. Admin!Act(Admin!ResetDialog(adminPage))
    BY <1>1 DEF Admin!CloseDialog
  <2> DEFINE q == Admin!ResetDialog(adminPage)
  <2>2. adminPage \in Admin!PageType
    BY <1>0 DEF AdminGood
  <2>3. /\ q \in Admin!PageType /\ q.mode = "closed"
        /\ q.access = adminPage.access /\ q.active = adminPage.active /\ q.shown = adminPage.shown
        /\ q.stats = adminPage.stats /\ q.errors = adminPage.errors \ {"detail", "mutation"}
        /\ q.call = [adminPage.call EXCEPT !["detail"] = None]
    BY <2>2, AdminResetDialog
  <2> HIDE DEF q
  <2>4. /\ q.call["list"] = adminPage.call["list"] /\ q.call["stats"] = adminPage.call["stats"]
        /\ q.call["detail"] = None
    <3>1. adminPage.call \in [Admin!Kinds -> Admin!CallType \cup {None}]
      BY <2>2 DEF Admin!PageType
    <3> QED BY <2>3, <3>1 DEF Admin!Kinds, Admin!Reads
  <2>5. adminPage.errors \cap {"list", "page", "sync"} \subseteq q.errors
    BY <2>3
  <2>6. AdminGood(q)
    BY <1>0, <2>3, <2>4, <2>5, AdminSame
  <2> QED BY <2>1, <2>6, AdminActs DEF q
<1>2. CASE Admin!RetryDetail
  <2>1. /\ Admin!Act(Admin!OrStay(Admin!StartDetail(adminPage, adminPage.user, "plain")))
        /\ adminPage.access = "authorized"
    BY <1>2 DEF Admin!RetryDetail
  <2> QED BY <1>0, <1>r, <2>1, AdminRetriesDetail, AdminActs
<1>3. CASE Admin!RetryStats
  <2>1. /\ Admin!Act(Admin!OrStay(Admin!StartStats(adminPage))) /\ adminPage.access \notin AdminRefusals
    BY <1>3 DEF Admin!RetryStats, Admin!Ready, AdminRefusals
  <2> QED BY <1>0, <1>r, <2>1, AdminStartStats, AdminActs
<1>4. CASE Admin!RetryAuthorization
  <2>1. Admin!Act(Admin!OrLeave(Admin!StartList(adminPage, adminPage.active, "initial", None, FALSE, "plain")))
    BY <1>4 DEF Admin!RetryAuthorization
  <2>2. "initial" \in ListModes /\ "plain" \in Admin!Tails
    BY DEF ListModes, Admin!Tails
  <2> QED BY <1>0, <1>r, <2>1, <2>2, AdminRetries, AdminActs
<1>5. CASE Admin!RetryList
  <2>1. Admin!Act(Admin!OrStay(Admin!StartList(adminPage, adminPage.active, "list", None, FALSE, "plain")))
    BY <1>5 DEF Admin!RetryList
  <2>2. "list" \in ListModes /\ "plain" \in Admin!Tails
    BY DEF ListModes, Admin!Tails
  <2> QED BY <1>0, <1>r, <2>1, <2>2, AdminRetries, AdminActs
<1>6. CASE Admin!RetryPage
  <2>1. Admin!Act(Admin!OrStay(Admin!StartList(adminPage, adminPage.active, "page", None, FALSE, "plain")))
    BY <1>6 DEF Admin!RetryPage
  <2>2. "page" \in ListModes /\ "plain" \in Admin!Tails
    BY DEF ListModes, Admin!Tails
  <2> QED BY <1>0, <1>r, <2>1, <2>2, AdminRetries, AdminActs
<1>7. CASE Admin!RetrySync
  <2>1. Admin!Act(Admin!OrStay(Admin!StartList(adminPage, adminPage.active, "sync", None, FALSE, "sync")))
    BY <1>7 DEF Admin!RetrySync
  <2>2. "sync" \in ListModes /\ "sync" \in Admin!Tails
    BY DEF ListModes, Admin!Tails
  <2> QED BY <1>0, <1>r, <2>1, <2>2, AdminRetries, AdminActs
<1>8. CASE Admin!NextPage
  <2>1. Admin!Act([Admin!Navigate(adminPage.active.filter, TRUE) EXCEPT !.busy = @ \cup {"page"}])
    BY <1>8, Zenon DEF Admin!NextPage
  <2>2. TRUE \in BOOLEAN
    OBVIOUS
  <2>3. AdminGood([Admin!Navigate(adminPage.active.filter, TRUE) EXCEPT !.busy = @ \cup {"page"}])
    BY <1>0, <1>f, <2>2, AdminNavigates
  <2> QED BY <2>1, <2>3, AdminActs
<1>9. CASE Admin!FirstPage
  <2>1. Admin!Act(Admin!Navigate(adminPage.active.filter, FALSE)) /\ FALSE \in BOOLEAN
    BY <1>9 DEF Admin!FirstPage
  <2> QED BY <1>0, <1>f, <2>1, AdminNavigates, AdminActs
<1>10. CASE Admin!Submit
  <2> DEFINE q == [adminPage EXCEPT
            !.call["mutation"] = Admin!NewCall(adminPage.action, None, adminPage.user, adminPage.restore, "plain"),
            !.busy = @ \cup {"mutation"}, !.errors = @ \ {"mutation"},
            !.synced = None, !.focus = FALSE]
  <2>1. Admin!Act(Admin!OrLeave(q)) /\ adminPage.access = "authorized" /\ adminPage.action # None
    BY <1>10, Zenon DEF Admin!Submit
  <2>2. AdminGood(q)
    BY <1>0, <2>1, AdminSubmits
  <2> HIDE DEF q
  <2> QED BY <1>r, <2>1, <2>2, AdminActs
<1>11. ASSUME NEW f \in Modes, NEW cursor \in BOOLEAN, Admin!Filter(f) \/ Admin!History(f, cursor)
       PROVE  AdminInv'
  <2>1. \E b \in BOOLEAN : Admin!Act(Admin!Navigate(f, b))
    BY <1>11 DEF Admin!Filter, Admin!History
  <2> QED BY <1>0, <2>1, AdminNavigates, AdminActs
<1>12. ASSUME NEW u \in People, Admin!OpenDetail(u)
       PROVE  AdminInv'
  <2> DEFINE q == Admin!StartDetail([adminPage EXCEPT !.mode = "detail"], u, "plain")
  <2>1. Admin!Act(Admin!OrLeave(q)) /\ adminPage.access = "authorized"
    BY <1>12, Zenon DEF Admin!OpenDetail, Admin!Listed, Admin!Ready
  <2>2. AdminGood(q)
    BY <1>0, <2>1, AdminOpens
  <2> HIDE DEF q
  <2> QED BY <1>r, <2>1, <2>2, AdminActs
<1>13. ASSUME NEW u \in People, NEW action \in {"change", "delete"}, NEW d \in BOOLEAN,
              Admin!Confirm(u, action, d)
       PROVE  AdminInv'
  <2> DEFINE q == [Admin!Supersede(adminPage, "detail") EXCEPT
                      !.user = u, !.action = action, !.restore = d, !.mode = "confirmation",
                      !.errors = @ \ {"mutation"}]
  <2>1. Admin!Act(q)
    BY <1>13, Zenon DEF Admin!Confirm
  <2>2. adminPage.access = "authorized"
    BY <1>13 DEF Admin!Confirm, Admin!Listed, Admin!Ready
  <2>3. AdminGood(q)
    BY <1>0, <2>2, AdminConfirms
  <2> HIDE DEF q
  <2> QED BY <2>1, <2>3, AdminActs
<1>14. FALSE \in BOOLEAN
  OBVIOUS
<1> QED BY <1>1, <1>2, <1>3, <1>4, <1>5, <1>6, <1>7, <1>8, <1>9, <1>10, <1>11, <1>12, <1>13, <1>14
        DEF Admin!Command

LEMMA AdminNext ==
  ASSUME AdminInv, [Admin!Next]_(Admin!vars)
  PROVE  AdminInv'
<1>0. AdminGood(adminPage)
  BY DEF AdminInv
<1>1. CASE Admin!Effect
  <2>1. adminAuth' = adminAuth /\ adminLeft' = adminLeft /\ adminDirty' \in BOOLEAN
    BY <1>1 DEF Admin!Effect
  <2> QED BY <1>0, <1>1, <2>1, AdminEffect DEF AdminInv
<1>2. CASE Admin!RefreshEnds
  <2>1. /\ adminAuth' \in {"signedIn", "signedOut", "gone"} /\ adminLeft' = adminLeft /\ adminDirty' \in BOOLEAN
        /\ \/ Admin!Refreshed("second", None) \/ Admin!Refreshed("settled", "401") \/ UNCHANGED adminPage
    BY <1>2 DEF Admin!RefreshEnds
  <2>2. {"second", "settled"} \subseteq Phases /\ {None, "401"} \subseteq Results
    BY DEF Phases, Results
  <2>3. AdminGood(adminPage')
    BY <1>0, <2>1, <2>2, AdminRefreshed
  <2> QED BY <2>1, <2>3 DEF AdminInv
<1>3. CASE Admin!Command
  BY <1>3, AdminCommand
<1>4. ASSUME NEW k \in Admin!Kinds, Admin!Continue(k) PROVE AdminInv'
  <2>1. adminAuth' = adminAuth /\ adminLeft' = adminLeft /\ adminDirty' \in BOOLEAN
    BY <1>4 DEF Admin!Continue
  <2> QED BY <1>0, <1>4, <2>1, AdminContinue DEF AdminInv
<1>5. ASSUME NEW k \in Admin!Kinds, Admin!Answer(k) PROVE AdminInv'
  <2>1. adminPage.call[k] # None /\ adminLeft' = adminLeft
    BY <1>5 DEF Admin!Answer
  <2>2. \/ (\E result \in {"ok", "403", "error"} : Admin!SetPhase(k, "settled", result))
           /\ UNCHANGED <<adminAuth, adminDirty>>
        \/ /\ Admin!SetPhase(k, "reauth", None)
           /\ adminAuth' = "refreshing" /\ adminDirty' \in BOOLEAN
    BY <1>5 DEF Admin!Answer, Admin!Settle
  <2>3. {"settled", "reauth"} \subseteq Phases /\ {"ok", "403", "error", None} \subseteq Results
    BY DEF Phases, Results
  <2>4. AdminGood(adminPage')
    BY <1>0, <2>1, <2>2, <2>3, AdminSetPhase
  <2> QED BY <2>1, <2>2, <2>4 DEF AdminInv
<1>6. ASSUME NEW k \in Admin!Kinds, Admin!AnswerSecond(k) PROVE AdminInv'
  <2>1. adminPage.call[k] # None /\ adminLeft' = adminLeft /\ adminDirty' \in BOOLEAN
    BY <1>6 DEF Admin!AnswerSecond
  <2>2. PICK result \in {"ok", "401", "403", "error"} :
          /\ Admin!SetPhase(k, "settled", result)
          /\ adminAuth' = IF result = "401" THEN "signedOut" ELSE adminAuth
    BY <1>6 DEF Admin!AnswerSecond, Admin!Settle
  <2>3. "settled" \in Phases /\ result \in Results
    BY DEF Phases, Results
  <2>4. AdminGood(adminPage')
    BY <1>0, <2>1, <2>2, <2>3, AdminSetPhase
  <2> QED BY <2>1, <2>2, <2>4 DEF AdminInv
<1>7. ASSUME NEW tail \in Admin!Tails, Admin!StaleEnds(tail) PROVE AdminInv'
  <2>1. UNCHANGED <<adminAuth, adminDirty, adminLeft>>
    BY <1>7 DEF Admin!StaleEnds
  <2> QED BY <1>0, <1>7, <2>1, AdminStaleEnds DEF AdminInv
<1>8. CASE UNCHANGED Admin!vars
  BY <1>8 DEF Admin!vars, AdminInv
<1> QED BY <1>1, <1>2, <1>3, <1>4, <1>5, <1>6, <1>7, <1>8 DEF Admin!Next

----------------------------------------------------------------------------
(* Playing a game. What is true of the play page alone, of the result page  *)
(* alone, and of the two with the rest.                                     *)

GameStates ==
  [mode : Modes \cup {None}, key : (Modes \X People) \cup {None},
   status : {"idle", "loading", "loaded", "error"}, loading : BOOLEAN,
   set : Game!Sets \cup {None}, index : 1 .. Questions,
   phase : {"answering", "feedback", "completed"}, answers : Game!Answers, feedback : BOOLEAN,
   submit : {"idle", "submitting", "error"}, sending : Game!Submissions \cup {None}, try : Nat]

GameWhole(request) ==
  Game!InOrder(request.set, request.answers) /\ Len(request.answers) = Questions

GameLoads(g) ==
  /\ g.loading <=> g.status = "loading"
  /\ g.status = "loaded" => g.set # None

(* Nothing is answered without questions, a load is over when its state     *)
(* says so, and the timer of the feedback runs during the feedback only.    *)
GameCalm(g) ==
  /\ GameLoads(g)
  /\ g.status # "loaded" => g.phase = "answering" /\ g.index = 1 /\ g.answers = <<>>
  /\ g.feedback => g.phase = "feedback"
  /\ g.submit = "submitting" => g.sending # None

GameAnswered(g) ==
  /\ Game!InOrder(g.set, g.answers)
  /\ g.status = "loaded" =>
       Len(g.answers) = CASE g.phase = "answering" -> g.index - 1
                          [] g.phase = "feedback" -> g.index
                          [] g.phase = "completed" -> Questions
  /\ g.sending # None => GameWhole(g.sending)

GameGood(g) == g \in GameStates /\ GameCalm(g) /\ GameAnswered(g)

LEMMA GameConstants ==
  /\ Questions \in Nat /\ Questions > 0 /\ MaxSets \in Nat /\ GameCommands \in Nat
  /\ None \notin People /\ None \notin Modes /\ None \notin Game!Sets /\ None \notin Game!Submissions
  /\ Game!Anonymous \notin People /\ Game!Initializing \notin People
  /\ Game!Anonymous # Game!Initializing
BY InstancesAssumption DEF Game!GamePagesAssumption

LEMMA GameNothing == <<>> \in Game!Answers /\ \A s : Game!InOrder(s, <<>>)
<1>1. <<>> \in Game!Answers
  BY DEF Game!Answers
<1>2. ASSUME NEW s PROVE Game!InOrder(s, <<>>)
  BY DEF Game!InOrder
<1> QED BY <1>1, <1>2

(* The game h is g begun anew: with or without questions, or asking for them. *)
GameAnew(g, h) ==
  /\ h \in GameStates /\ h.try = g.try
  /\ h.index = 1 /\ h.phase = "answering" /\ h.answers = <<>> /\ h.feedback = FALSE
  /\ h.submit = "idle" /\ h.sending = None
  /\ GameLoads(h)

LEMMA GameAnewGood ==
  ASSUME NEW g, NEW h, GameAnew(g, h)
  PROVE  GameGood(h)
<1>1. GameCalm(h)
  BY DEF GameAnew, GameCalm, GameLoads
<1>2. Game!InOrder(h.set, h.answers)
  BY GameNothing DEF GameAnew
<1>3. Len(h.answers) = 0
  BY DEF GameAnew
<1>4. GameAnswered(h)
  BY <1>2, <1>3 DEF GameAnew, GameAnswered
<1> QED BY <1>1, <1>4 DEF GameGood, GameAnew

LEMMA GameResets ==
  ASSUME NEW g \in GameStates, GameLoads(g)
  PROVE  GameAnew(g, Game!ResetGame(g)) /\ Game!ResetGame(g).mode = g.mode
         /\ Game!ResetGame(g).key = g.key
<1>1. /\ <<>> \in Game!Answers /\ 1 \in 1 .. Questions /\ None \in Game!Submissions \cup {None}
      /\ FALSE \in BOOLEAN
  BY GameNothing, GameConstants
<1>2. Game!ResetGame(g) \in GameStates
  BY <1>1 DEF Game!ResetGame, GameStates
<1> QED BY <1>2 DEF Game!ResetGame, GameStates, GameAnew, GameLoads

LEMMA GameQuestionsReset ==
  ASSUME NEW g \in GameStates, NEW key \in (Modes \X People) \cup {None},
         GameLoads(g)
  PROVE  /\ GameAnew(g, [Game!ResetQuestions(g) EXCEPT !.key = key])
         /\ GameAnew(g, [Game!LoadQuestions(g) EXCEPT !.key = key])
         /\ [Game!ResetQuestions(g) EXCEPT !.key = key].key = key
         /\ [Game!LoadQuestions(g) EXCEPT !.key = key].key = key
         /\ [Game!ResetQuestions(g) EXCEPT !.key = key].mode = g.mode
         /\ [Game!LoadQuestions(g) EXCEPT !.key = key].mode = g.mode
<1> DEFINE h == Game!ResetGame(g)
<1>1. GameAnew(g, h) /\ h.mode = g.mode
  BY GameResets
<1>s. h \in GameStates
  BY <1>1 DEF GameAnew
<1>2. Game!ResetQuestions(g) = [h EXCEPT !.set = None, !.status = "idle", !.loading = FALSE]
  BY Zenon DEF Game!ResetQuestions
<1>3. Game!LoadQuestions(g) = [h EXCEPT !.set = None, !.status = "loading", !.loading = TRUE]
  BY Zenon DEF Game!LoadQuestions
<1> HIDE DEF h
<1>4. LET e == [[h EXCEPT !.set = None, !.status = "idle", !.loading = FALSE] EXCEPT !.key = key]
      IN GameAnew(g, e) /\ e.key = key /\ e.mode = g.mode
  <2> DEFINE e == [[h EXCEPT !.set = None, !.status = "idle", !.loading = FALSE] EXCEPT !.key = key]
  <2>1. FALSE \in BOOLEAN /\ None \in Game!Sets \cup {None}
    OBVIOUS
  <2>2. e \in GameStates
    BY <1>s, <2>1 DEF GameStates
  <2>3. /\ e.key = key /\ e.mode = h.mode /\ e.status = "idle" /\ e.loading = FALSE /\ e.set = None
        /\ e.try = h.try /\ e.index = h.index /\ e.phase = h.phase /\ e.answers = h.answers
        /\ e.feedback = h.feedback /\ e.submit = h.submit /\ e.sending = h.sending
    BY <1>s DEF GameStates
  <2> HIDE DEF e
  <2>4. GameAnew(g, e) /\ e.key = key /\ e.mode = g.mode
    BY <1>1, <2>2, <2>3 DEF GameAnew, GameLoads
  <2> QED BY <2>4, Zenon DEF e
<1>5. LET e == [[h EXCEPT !.set = None, !.status = "loading", !.loading = TRUE] EXCEPT !.key = key]
      IN GameAnew(g, e) /\ e.key = key /\ e.mode = g.mode
  <2> DEFINE e == [[h EXCEPT !.set = None, !.status = "loading", !.loading = TRUE] EXCEPT !.key = key]
  <2>1. TRUE \in BOOLEAN /\ None \in Game!Sets \cup {None}
    OBVIOUS
  <2>2. e \in GameStates
    BY <1>s, <2>1 DEF GameStates
  <2>3. /\ e.key = key /\ e.mode = h.mode /\ e.status = "loading" /\ e.loading = TRUE /\ e.set = None
        /\ e.try = h.try /\ e.index = h.index /\ e.phase = h.phase /\ e.answers = h.answers
        /\ e.feedback = h.feedback /\ e.submit = h.submit /\ e.sending = h.sending
    BY <1>s DEF GameStates
  <2> HIDE DEF e
  <2>4. GameAnew(g, e) /\ e.key = key /\ e.mode = g.mode
    BY <1>1, <2>2, <2>3 DEF GameAnew, GameLoads
  <2> QED BY <2>4, Zenon DEF e
<1> QED BY <1>2, <1>3, <1>4, <1>5, Zenon

LEMMA GameModeTaken ==
  ASSUME NEW g \in GameStates, NEW mode \in Modes \cup {None}, GameLoads(g)
  PROVE  LET e == [Game!ResetGame(g) EXCEPT !.mode = mode]
         IN GameAnew(g, e) /\ e.mode = mode /\ e.key = g.key
<1> DEFINE h == Game!ResetGame(g)
           e == [h EXCEPT !.mode = mode]
<1>1. GameAnew(g, h) /\ h.key = g.key
  BY GameResets
<1>2. h \in GameStates
  BY <1>1 DEF GameAnew
<1> HIDE DEF h
<1>3. e \in GameStates
  BY <1>2 DEF GameStates
<1>4. /\ e.key = h.key /\ e.mode = mode /\ e.status = h.status /\ e.loading = h.loading /\ e.set = h.set
      /\ e.try = h.try /\ e.index = h.index /\ e.phase = h.phase /\ e.answers = h.answers
      /\ e.feedback = h.feedback /\ e.submit = h.submit /\ e.sending = h.sending
  BY <1>2 DEF GameStates
<1> HIDE DEF e
<1>5. GameAnew(g, e) /\ e.mode = mode /\ e.key = g.key
  BY <1>1, <1>3, <1>4 DEF GameAnew, GameLoads
<1> QED BY <1>5, Zenon DEF e, h

GameWhoTyped == gameWho \in People \cup {Game!Anonymous, Game!Initializing}

(* With a user and a mode the effects rest once both are the page's own.    *)
LEMMA GameEffects ==
  ASSUME NEW g, GameGood(g), NEW mode \in Modes \cup {None}, GameWhoTyped
  PROVE  /\ GameGood(Game!PlayEffects(g, mode)) /\ Game!PlayEffects(g, mode).try = g.try
         /\ gameWho \in People /\ mode # None =>
              (Game!PlayEffects(g, mode) = g <=> g.mode = mode /\ g.key = <<mode, gameWho>>)
         /\ Game!PlayEffects(g, mode).mode = mode
<1> DEFINE h == IF mode = g.mode THEN g ELSE [Game!ResetGame(g) EXCEPT !.mode = mode]
           e == CASE gameWho = Game!Initializing -> h
                  [] gameWho # Game!Initializing /\ (gameWho = Game!Anonymous \/ mode = None) ->
                       [Game!ResetQuestions(h) EXCEPT !.key = None]
                  [] OTHER -> IF h.key = <<mode, gameWho>> THEN h
                              ELSE [Game!LoadQuestions(h) EXCEPT !.key = <<mode, gameWho>>]
<1>1. Game!PlayEffects(g, mode) = e
  BY Zenon DEF Game!PlayEffects
<1>2. g \in GameStates /\ GameLoads(g)
  BY DEF GameGood, GameCalm
<1>3. /\ GameGood(h) /\ h.try = g.try /\ h.mode = mode /\ h.key = g.key
      /\ mode = g.mode => h = g
  <2>1. CASE mode = g.mode
    BY <2>1
  <2>2. CASE mode # g.mode
    <3> DEFINE r == [Game!ResetGame(g) EXCEPT !.mode = mode]
    <3>1. GameAnew(g, r) /\ r.mode = mode /\ r.key = g.key
      BY <1>2, GameModeTaken, Zenon
    <3> HIDE DEF r
    <3>2. GameGood(r) /\ r.try = g.try
      BY <3>1, GameAnewGood DEF GameAnew
    <3>3. h = r
      BY <2>2, Zenon DEF r
    <3> HIDE DEF h
    <3> QED BY <2>2, <3>1, <3>2, <3>3
  <2> QED BY <2>1, <2>2
<1> HIDE DEF h
<1>4. h \in GameStates /\ GameLoads(h)
  BY <1>3 DEF GameGood, GameCalm
<1>5. CASE gameWho = Game!Initializing
  <2>1. e = h
    BY <1>5
  <2> HIDE DEF e
  <2> QED BY <1>1, <1>3, <1>5, <2>1, GameConstants
<1>6. CASE gameWho # Game!Initializing /\ (gameWho = Game!Anonymous \/ mode = None)
  <2> DEFINE r == [Game!ResetQuestions(h) EXCEPT !.key = None]
  <2>1. e = r
    BY <1>6, Zenon
  <2> HIDE DEF e
  <2>2. GameAnew(h, r) /\ r.mode = h.mode
    BY <1>4, GameQuestionsReset, Zenon
  <2> HIDE DEF r
  <2>3. GameGood(r) /\ r.try = h.try
    BY <2>2, GameAnewGood DEF GameAnew
  <2> QED BY <1>1, <1>3, <1>6, <2>1, <2>2, <2>3, GameConstants
<1>7. CASE gameWho # Game!Initializing /\ gameWho # Game!Anonymous /\ mode # None
  <2> DEFINE r == [Game!LoadQuestions(h) EXCEPT !.key = <<mode, gameWho>>]
  <2>1. e = IF h.key = <<mode, gameWho>> THEN h ELSE r
    BY <1>7
  <2> HIDE DEF e
  <2>2. <<mode, gameWho>> \in (Modes \X People) \cup {None}
    BY <1>7 DEF GameWhoTyped
  <2>3. GameAnew(h, r) /\ r.mode = h.mode /\ r.key = <<mode, gameWho>>
    BY <1>4, <2>2, GameQuestionsReset, Zenon
  <2> HIDE DEF r
  <2>4. GameGood(r) /\ r.try = h.try
    BY <2>3, GameAnewGood DEF GameAnew
  <2> QED BY <1>1, <1>3, <1>7, <2>1, <2>3, <2>4, GameConstants
<1> QED BY <1>5, <1>6, <1>7

(* A load ends. *)
LEMMA GameQuestions ==
  ASSUME NEW g, GameGood(g), g.loading
  PROVE  /\ \A s \in Game!Sets :
              LET e == [g EXCEPT !.loading = FALSE, !.status = "loaded", !.set = s]
              IN GameGood(e) /\ e.phase = "answering" /\ e.try = g.try
         /\ LET e == [g EXCEPT !.loading = FALSE, !.status = "error"]
            IN GameGood(e) /\ e.phase = "answering" /\ e.try = g.try
<1>0. g \in GameStates
  BY DEF GameGood
<1>g. /\ g.status = "loading" /\ g.phase = "answering" /\ g.index = 1 /\ g.answers = <<>>
      /\ ~g.feedback /\ (g.submit = "submitting" => g.sending # None)
      /\ (g.sending # None => GameWhole(g.sending))
  BY DEF GameGood, GameCalm, GameAnswered, GameLoads
<1>n. Len(g.answers) = 0
  BY <1>g
<1>1. ASSUME NEW s \in Game!Sets
      PROVE  LET e == [g EXCEPT !.loading = FALSE, !.status = "loaded", !.set = s]
             IN GameGood(e) /\ e.phase = "answering" /\ e.try = g.try
  <2> DEFINE e == [g EXCEPT !.loading = FALSE, !.status = "loaded", !.set = s]
  <2>1. e \in GameStates
    BY <1>0 DEF GameStates
  <2>2. /\ e.status = "loaded" /\ e.loading = FALSE /\ e.set = s
        /\ e.try = g.try /\ e.index = g.index /\ e.phase = g.phase /\ e.answers = g.answers
        /\ e.feedback = g.feedback /\ e.submit = g.submit /\ e.sending = g.sending
    BY <1>0 DEF GameStates
  <2> HIDE DEF e
  <2>3. Game!InOrder(e.set, e.answers)
    BY <1>g, <2>2, GameNothing
  <2>4. GameCalm(e) /\ GameAnswered(e)
    BY <1>g, <1>n, <2>2, <2>3, GameConstants DEF GameCalm, GameAnswered, GameLoads
  <2>5. GameGood(e) /\ e.phase = "answering" /\ e.try = g.try
    BY <1>g, <2>1, <2>2, <2>4 DEF GameGood
  <2> QED BY <2>5, Zenon DEF e
<1>2. LET e == [g EXCEPT !.loading = FALSE, !.status = "error"]
      IN GameGood(e) /\ e.phase = "answering" /\ e.try = g.try
  <2> DEFINE e == [g EXCEPT !.loading = FALSE, !.status = "error"]
  <2>1. e \in GameStates
    BY <1>0 DEF GameStates
  <2>2. /\ e.status = "error" /\ e.loading = FALSE /\ e.set = g.set
        /\ e.try = g.try /\ e.index = g.index /\ e.phase = g.phase /\ e.answers = g.answers
        /\ e.feedback = g.feedback /\ e.submit = g.submit /\ e.sending = g.sending
    BY <1>0 DEF GameStates
  <2> HIDE DEF e
  <2>3. Game!InOrder(e.set, e.answers)
    BY <1>g, <2>2, GameNothing
  <2>4. GameCalm(e) /\ GameAnswered(e)
    BY <1>g, <1>n, <2>2, <2>3 DEF GameCalm, GameAnswered, GameLoads
  <2>5. GameGood(e) /\ e.phase = "answering" /\ e.try = g.try
    BY <1>g, <2>1, <2>2, <2>4 DEF GameGood
  <2> QED BY <2>5, Zenon DEF e
<1> QED BY <1>1, <1>2

(* An answer is that of the question shown.                                 *)
LEMMA GameAppended ==
  ASSUME NEW s \in Game!Sets, NEW a \in Game!Answers, NEW n \in 1 .. Questions,
         Game!InOrder(s, a), Len(a) = n - 1
  PROVE  /\ Append(a, <<s, n>>) \in Game!Answers /\ Len(Append(a, <<s, n>>)) = n
         /\ Game!InOrder(s, Append(a, <<s, n>>))
<1> DEFINE b == Append(a, <<s, n>>)
<1>1. b \in Game!Answers /\ Len(b) = n
  BY DEF Game!Answers
<1>2. ASSUME NEW i \in 1 .. n PROVE b[i] = <<s, i>>
  <2>1. CASE i = n
    BY <2>1 DEF Game!Answers
  <2>2. CASE i # n
    <3>1. i \in DOMAIN a
      BY <2>2 DEF Game!Answers
    <3>2. b[i] = a[i]
      BY <2>2 DEF Game!Answers
    <3>3. a[i] = <<s, i>>
      BY <3>1 DEF Game!InOrder
    <3> QED BY <3>2, <3>3
  <2> QED BY <2>1, <2>2
<1>3. DOMAIN b = 1 .. n /\ b = [i \in DOMAIN b |-> b[i]]
  BY DEF Game!Answers
<1> HIDE DEF b
<1>4. Game!InOrder(s, b)
  BY <1>2, <1>3 DEF Game!InOrder
<1> QED BY <1>1, <1>4 DEF b

LEMMA GameAnswers ==
  ASSUME NEW g, GameGood(g), g.status = "loaded", g.phase = "answering"
  PROVE  LET e == [g EXCEPT !.answers = Append(@, <<g.set, g.index>>),
                            !.phase = "feedback", !.feedback = TRUE]
         IN GameGood(e) /\ e.try = g.try
<1> DEFINE a == Append(g.answers, <<g.set, g.index>>)
           e == [g EXCEPT !.answers = a, !.phase = "feedback", !.feedback = TRUE]
<1>0. g \in GameStates
  BY DEF GameGood
<1>g. /\ g.loading = FALSE /\ g.set # None /\ Len(g.answers) = g.index - 1
      /\ Game!InOrder(g.set, g.answers) /\ (g.submit = "submitting" => g.sending # None)
      /\ (g.sending # None => GameWhole(g.sending))
  BY <1>0 DEF GameGood, GameCalm, GameAnswered, GameLoads, GameStates
<1>t. g.set \in Game!Sets /\ g.index \in 1 .. Questions /\ g.answers \in Game!Answers
  BY <1>0, <1>g DEF GameStates
<1>1. a \in Game!Answers /\ Len(a) = g.index /\ Game!InOrder(g.set, a)
  BY <1>g, <1>t, GameAppended
<1> HIDE DEF a
<1>2. e \in GameStates
  BY <1>0, <1>1 DEF GameStates
<1>3. /\ e.status = "loaded" /\ e.loading = FALSE /\ e.set = g.set /\ e.index = g.index
      /\ e.try = g.try /\ e.phase = "feedback" /\ e.answers = a
      /\ e.feedback = TRUE /\ e.submit = g.submit /\ e.sending = g.sending
  BY <1>0, <1>g DEF GameStates
<1> HIDE DEF e
<1>4. GameCalm(e)
  BY <1>g, <1>3 DEF GameCalm, GameLoads
<1>5. GameAnswered(e)
  BY <1>g, <1>1, <1>3 DEF GameAnswered
<1>6. GameGood(e) /\ e.try = g.try
  BY <1>2, <1>3, <1>4, <1>5 DEF GameGood
<1> QED BY <1>6, Zenon DEF e, a

(* The next question, or the end of the game.                               *)
LEMMA GameGoesOn ==
  ASSUME NEW g, GameGood(g), g.feedback
  PROVE  LET h == [g EXCEPT !.feedback = FALSE]
         IN /\ h.index = g.index
            /\ g.index < Questions =>
                 LET e == [h EXCEPT !.index = @ + 1, !.phase = "answering"]
                 IN GameGood(e) /\ e.try = g.try
            /\ ~(g.index < Questions) =>
                 LET e == [h EXCEPT !.phase = "completed"]
                 IN /\ GameGood(e) /\ e.try = g.try /\ e.mode = g.mode /\ e.key = g.key
                    /\ e.phase = "completed"
<1>0. g \in GameStates
  BY DEF GameGood
<1>g. /\ g.status = "loaded" /\ g.loading = FALSE /\ g.phase = "feedback" /\ g.set # None
      /\ Len(g.answers) = g.index /\ Game!InOrder(g.set, g.answers)
      /\ (g.submit = "submitting" => g.sending # None)
      /\ (g.sending # None => GameWhole(g.sending))
  BY <1>0 DEF GameGood, GameCalm, GameAnswered, GameLoads, GameStates
<1> DEFINE h == [g EXCEPT !.feedback = FALSE]
<1>h. h \in GameStates
  BY <1>0 DEF GameStates
<1>i. /\ h.index = g.index /\ h.try = g.try /\ h.mode = g.mode /\ h.key = g.key
      /\ h.status = g.status /\ h.loading = g.loading /\ h.set = g.set /\ h.answers = g.answers
      /\ h.feedback = FALSE /\ h.submit = g.submit /\ h.sending = g.sending
  BY <1>0 DEF GameStates
<1> HIDE DEF h
<1>j. g.index \in 1 .. Questions /\ Questions \in Nat
  BY <1>0, GameConstants DEF GameStates
<1>1. ASSUME g.index < Questions
      PROVE  LET e == [h EXCEPT !.index = @ + 1, !.phase = "answering"]
             IN GameGood(e) /\ e.try = g.try
  <2> DEFINE n == h.index + 1
             e == [h EXCEPT !.index = n, !.phase = "answering"]
  <2>1. n \in 1 .. Questions /\ Len(g.answers) = n - 1
    BY <1>1, <1>g, <1>i, <1>j
  <2> HIDE DEF n
  <2>2. e \in GameStates
    BY <1>h, <2>1 DEF GameStates
  <2>3. /\ e.index = n /\ e.try = h.try /\ e.phase = "answering"
        /\ e.status = h.status /\ e.loading = h.loading /\ e.set = h.set /\ e.answers = h.answers
        /\ e.feedback = h.feedback /\ e.submit = h.submit /\ e.sending = h.sending
    BY <1>h DEF GameStates
  <2> HIDE DEF e
  <2>4. GameCalm(e)
    BY <1>g, <1>i, <2>3 DEF GameCalm, GameLoads
  <2>5. GameAnswered(e)
    BY <1>g, <1>i, <2>1, <2>3 DEF GameAnswered
  <2>6. GameGood(e) /\ e.try = g.try
    BY <1>i, <2>2, <2>3, <2>4, <2>5 DEF GameGood
  <2> QED BY <2>6, Zenon DEF e, n
<1>2. ASSUME ~(g.index < Questions)
      PROVE  LET e == [h EXCEPT !.phase = "completed"]
             IN /\ GameGood(e) /\ e.try = g.try /\ e.mode = g.mode /\ e.key = g.key
                /\ e.phase = "completed"
  <2> DEFINE e == [h EXCEPT !.phase = "completed"]
  <2>1. Len(g.answers) = Questions
    BY <1>2, <1>g, <1>j
  <2>2. e \in GameStates
    BY <1>h DEF GameStates
  <2>3. /\ e.index = h.index /\ e.try = h.try /\ e.phase = "completed" /\ e.mode = h.mode
        /\ e.key = h.key
        /\ e.status = h.status /\ e.loading = h.loading /\ e.set = h.set /\ e.answers = h.answers
        /\ e.feedback = h.feedback /\ e.submit = h.submit /\ e.sending = h.sending
    BY <1>h DEF GameStates
  <2> HIDE DEF e
  <2>4. GameCalm(e)
    BY <1>g, <1>i, <2>3 DEF GameCalm, GameLoads
  <2>5. GameAnswered(e)
    BY <1>g, <1>i, <2>1, <2>3 DEF GameAnswered
  <2>6. /\ GameGood(e) /\ e.try = g.try /\ e.mode = g.mode /\ e.key = g.key
        /\ e.phase = "completed"
    BY <1>i, <2>2, <2>3, <2>4, <2>5 DEF GameGood
  <2> QED BY <2>6, Zenon DEF e
<1> QED BY <1>i, <1>1, <1>2, Zenon DEF h

LEMMA GameSubmits ==
  ASSUME NEW g, GameGood(g), g.phase = "completed", GameWhoTyped, Game!SubmitCompleted(g),
         g.try \in 0 .. GameCommands
  PROVE  /\ GameGood(gameGame') /\ gameGame'.phase = "completed"
         /\ gameGame'.mode = g.mode /\ gameGame'.key = g.key
         /\ \/ gameGame'.try = g.try /\ gameWire' = gameWire
            \/ /\ gameGame'.try = g.try + 1 /\ gameWho \in People /\ g.mode # None
               /\ \E request \in Game!Submissions :
                    GameWhole(request) /\ gameWire' = gameWire \cup {request}
<1>0. g \in GameStates
  BY DEF GameGood
<1>g. /\ g.status = "loaded" /\ g.loading = FALSE /\ g.set # None
      /\ Len(g.answers) = Questions /\ Game!InOrder(g.set, g.answers) /\ g.feedback = FALSE
      /\ (g.sending # None => GameWhole(g.sending))
  BY <1>0 DEF GameGood, GameCalm, GameAnswered, GameLoads, GameStates
<1> DEFINE blocked == gameWho \notin People \/ g.mode = None \/ g.set = None
                        \/ Len(g.answers) # Questions
           request == [set |-> g.set, answers |-> g.answers, user |-> gameWho, try |-> g.try]
<1>1. IF blocked
      THEN gameGame' = [g EXCEPT !.submit = "error"] /\ UNCHANGED gameWire
      ELSE /\ gameGame' = [g EXCEPT !.submit = "submitting", !.sending = request, !.try = @ + 1]
           /\ gameWire' = gameWire \cup {request}
  BY Zenon DEF Game!SubmitCompleted
<1>2. CASE blocked
  <2> DEFINE e == [g EXCEPT !.submit = "error"]
  <2>1. gameGame' = e /\ gameWire' = gameWire
    BY <1>1, <1>2
  <2>2. e \in GameStates
    BY <1>0 DEF GameStates
  <2>3. /\ e.index = g.index /\ e.try = g.try /\ e.phase = g.phase /\ e.mode = g.mode
        /\ e.key = g.key
        /\ e.status = g.status /\ e.loading = g.loading /\ e.set = g.set /\ e.answers = g.answers
        /\ e.feedback = g.feedback /\ e.submit = "error" /\ e.sending = g.sending
    BY <1>0 DEF GameStates
  <2> HIDE DEF e, blocked
  <2>4. GameCalm(e)
    BY <1>g, <2>3 DEF GameCalm, GameLoads
  <2>5. GameAnswered(e)
    BY <1>g, <2>3 DEF GameAnswered
  <2> QED BY <2>1, <2>2, <2>3, <2>4, <2>5 DEF GameGood
<1>3. CASE ~blocked
  <2> DEFINE n == g.try + 1
             e == [g EXCEPT !.submit = "submitting", !.sending = request, !.try = n]
  <2>1. gameGame' = e /\ gameWire' = gameWire \cup {request}
    BY <1>1, <1>3
  <2>2. gameWho \in People /\ g.mode # None
    BY <1>3
  <2>3. g.set \in Game!Sets /\ g.answers \in Game!Answers /\ n \in Nat /\ n = g.try + 1
    BY <1>0, <1>g DEF GameStates
  <2>4. request \in Game!Submissions
    BY <2>2, <2>3 DEF Game!Submissions
  <2>5. GameWhole(request)
    BY <1>g DEF GameWhole
  <2>6. request # None
    BY <2>4, GameConstants
  <2> HIDE DEF blocked, request, n
  <2>7. e \in GameStates
    BY <1>0, <2>3, <2>4 DEF GameStates
  <2>8. /\ e.index = g.index /\ e.try = n /\ e.phase = g.phase /\ e.mode = g.mode
        /\ e.key = g.key
        /\ e.status = g.status /\ e.loading = g.loading /\ e.set = g.set /\ e.answers = g.answers
        /\ e.feedback = g.feedback /\ e.submit = "submitting" /\ e.sending = request
    BY <1>0 DEF GameStates
  <2> HIDE DEF e
  <2>9. GameCalm(e)
    BY <1>g, <2>6, <2>8 DEF GameCalm, GameLoads
  <2>10. GameAnswered(e)
    BY <1>g, <2>5, <2>8 DEF GameAnswered
  <2>11. GameGood(e)
    BY <2>7, <2>9, <2>10 DEF GameGood
  <2> QED BY <2>1, <2>2, <2>3, <2>4, <2>5, <2>8, <2>11
<1> QED BY <1>2, <1>3

LEMMA GameSubmitFails ==
  ASSUME NEW g, GameGood(g)
  PROVE  LET e == [g EXCEPT !.submit = "error", !.sending = None]
         IN /\ GameGood(e) /\ e.try = g.try /\ e.phase = g.phase
            /\ e.mode = g.mode /\ e.key = g.key
<1> DEFINE e == [g EXCEPT !.submit = "error", !.sending = None]
<1>0. g \in GameStates /\ GameCalm(g) /\ GameAnswered(g)
  BY DEF GameGood
<1>1. e \in GameStates
  BY <1>0 DEF GameStates
<1>2. /\ e.index = g.index /\ e.try = g.try /\ e.phase = g.phase /\ e.mode = g.mode
      /\ e.key = g.key
      /\ e.status = g.status /\ e.loading = g.loading /\ e.set = g.set /\ e.answers = g.answers
      /\ e.feedback = g.feedback /\ e.submit = "error" /\ e.sending = None
  BY <1>0 DEF GameStates
<1> HIDE DEF e
<1>3. GameCalm(e)
  BY <1>0, <1>2 DEF GameCalm, GameLoads
<1>4. GameAnswered(e)
  BY <1>0, <1>2 DEF GameAnswered
<1>5. GameGood(e) /\ e.try = g.try /\ e.phase = g.phase /\ e.mode = g.mode /\ e.key = g.key
  BY <1>1, <1>2, <1>3, <1>4 DEF GameGood
<1> QED BY <1>5, Zenon DEF e

LEMMA GameBegins == GameGood(Game!NewGame) /\ Game!NewGame.try = 0
<1>1. Game!NewGame \in GameStates
  BY GameConstants, GameNothing DEF Game!NewGame, GameStates
<1>2. GameCalm(Game!NewGame)
  BY DEF Game!NewGame, GameCalm, GameLoads
<1>3. GameAnswered(Game!NewGame)
  BY GameNothing DEF Game!NewGame, GameAnswered
<1> QED BY <1>1, <1>2, <1>3 DEF GameGood, Game!NewGame

----------------------------------------------------------------------------
(* The invariant: the play page, what was sent and saved, and the result    *)
(* page with its store.                                                     *)

(* A submission is counted when its game ends, before the user has spent a  *)
(* command on it; until the page is left its key keeps the effects at rest. *)
GameTries ==
  \/ gameGame.try + gameLeft <= GameCommands
  \/ /\ gameGame.try + gameLeft <= GameCommands + 1
     /\ gameGame.phase = "completed" /\ gameAt.page = "play" /\ gameWho \in People
     /\ gameAt.mode # None /\ gameGame.mode = gameAt.mode
     /\ gameGame.key = <<gameAt.mode, gameWho>>

GamePlays ==
  /\ GameWhoTyped /\ gameAt \in Game!PlaceType /\ gameLeft \in 0 .. GameCommands
  /\ GameGood(gameGame) /\ GameTries
  /\ gameAt.page # "play" => gameGame = Game!NewGame

GameSent ==
  /\ gameIssued \in 0 .. MaxSets
  /\ gameWire \subseteq Game!Submissions
  /\ \A request \in gameWire : GameWhole(request)
  /\ gameSaved \in [Game!Sets -> Game!Submissions \cup {None}]
  /\ \A s \in Game!Sets : gameSaved[s] # None => GameWhole(gameSaved[s])

(* A result that is kept belongs to a session its user played.              *)
OwnKept(kept) ==
  kept # None => gameSaved[kept.session] # None /\ gameSaved[kept.session].user = kept.user

RestoreStates ==
  [status : {"idle", "loading", "empty", "unauthenticated", "error"}, kept : Game!Kept,
   retries : Nat, calling : BOOLEAN,
   seen : {Game!Unseen}
            \cup ((Game!Sets \cup {None}) \X (People \cup {Game!Anonymous, Game!Initializing})
                    \X Nat \X Game!Kept)]

GameRestores ==
  /\ gameStore \in Game!Kept /\ OwnKept(gameStore)
  /\ gameRestore \in RestoreStates /\ OwnKept(gameRestore.kept)
  /\ gameRestore.calling =>
       gameAt.page = "result" /\ gameRestore.seen[1] \in Game!Sets /\ gameRestore.seen[2] \in People
  /\ gameRestore.status = "loading" =>
       gameRestore.calling \/ gameRestore.seen[2] = Game!Initializing

GameInv == GamePlays /\ GameSent /\ GameRestores

LEMMA GameMeans ==
  GameInv => Game!TypeOK /\ Game!OwnResult /\ Game!GameInOrder /\ Game!SignsEnd
<1> SUFFICES ASSUME GameInv PROVE Game!TypeOK /\ Game!OwnResult /\ Game!GameInOrder /\ Game!SignsEnd
  OBVIOUS
<1> USE DEF GameInv
<1>0. gameGame \in GameStates /\ GameCalm(gameGame) /\ GameAnswered(gameGame)
  BY DEF GamePlays, GameGood
<1>1. Game!TypeOK
  BY <1>0 DEF Game!TypeOK, GamePlays, GameSent, GameRestores, GameStates, RestoreStates, GameWhoTyped
<1>2. Game!OwnResult
  BY DEF Game!OwnResult, Game!Result, Game!Matches, GameRestores, OwnKept
<1>3. Game!GameInOrder
  <2>1. ASSUME NEW request \in gameWire \cup ({gameSaved[s] : s \in Game!Sets} \ {None})
        PROVE  Game!InOrder(request.set, request.answers) /\ Len(request.answers) = Questions
    <3>1. GameWhole(request)
      BY DEF GameSent
    <3> QED BY <3>1 DEF GameWhole
  <2>2. /\ Game!InOrder(gameGame.set, gameGame.answers)
        /\ gameGame.status = "loaded" =>
             Len(gameGame.answers) = CASE gameGame.phase = "answering" -> gameGame.index - 1
                                       [] gameGame.phase = "feedback" -> gameGame.index
                                       [] gameGame.phase = "completed" -> Questions
    BY <1>0 DEF GameAnswered
  <2> QED BY <2>1, <2>2, Zenon DEF Game!GameInOrder
<1>4. Game!SignsEnd
  <2> SUFFICES ASSUME ~Game!EffectsDue
               PROVE  /\ gameGame.status = "loading" => gameGame.loading
                      /\ gameGame.submit = "submitting" => gameGame.sending # None
                      /\ gameAt.page = "result" /\ gameRestore.status = "loading"
                           => gameRestore.calling \/ gameWho = Game!Initializing
    BY Zenon DEF Game!SignsEnd
  <2>1. gameAt.page = "result" => gameRestore.seen = Game!Dependencies
    BY DEF Game!EffectsDue
  <2>2. gameAt.page = "result" => gameRestore.seen[2] = gameWho
    BY <2>1 DEF Game!Dependencies
  <2> QED BY <1>0, <2>2 DEF GameCalm, GameLoads, GameRestores
<1> QED BY <1>1, <1>2, <1>3, <1>4

LEMMA GameInitially == Game!Init => GameInv
<1> SUFFICES ASSUME Game!Init PROVE GameInv
  OBVIOUS
<1> USE DEF Game!Init
<1>1. gameAt \in Game!PlaceType
  BY GameConstants DEF Game!Places, Game!PlaceType
<1>2. GameGood(gameGame) /\ gameGame = Game!NewGame /\ gameGame.try = 0
  BY GameBegins
<1>3. GamePlays
  BY <1>1, <1>2, GameConstants DEF GamePlays, GameWhoTyped, GameTries
<1>4. GameSent
  BY GameConstants DEF GameSent
<1>5. gameRestore \in RestoreStates /\ gameRestore.kept = None /\ gameRestore.calling = FALSE
      /\ gameRestore.status = "idle"
  BY DEF Game!NewRestore, RestoreStates, Game!Kept
<1>6. GameRestores
  BY <1>5 DEF GameRestores, OwnKept, Game!Kept
<1> QED BY <1>3, <1>4, <1>6 DEF GameInv

(* What is true where the play page stands.                                 *)
LEMMA GamePlace ==
  ASSUME GameInv
  PROVE  /\ gameGame \in GameStates /\ GameGood(gameGame) /\ gameGame.try \in Nat
         /\ gameLeft \in Nat /\ gameLeft <= GameCommands
         /\ gameAt \in Game!PlaceType /\ gameAt.mode \in Modes \cup {None}
         /\ gameAt.session \in Game!Sets \cup {None}
         /\ gameGame.loading \/ gameGame.feedback \/ gameGame.sending # None => gameAt.page = "play"
         /\ gameLeft > 0 => gameGame.try + gameLeft - 1 <= GameCommands
<1>1. GameGood(gameGame) /\ gameAt \in Game!PlaceType
  BY DEF GameInv, GamePlays
<1>2. gameGame \in GameStates /\ gameGame.try \in Nat
  BY <1>1 DEF GameGood, GameStates
<1>3. gameLeft \in Nat /\ gameLeft <= GameCommands
  BY GameConstants DEF GameInv, GamePlays
<1>4. gameGame.loading \/ gameGame.feedback \/ gameGame.sending # None => gameAt.page = "play"
  BY DEF GameInv, GamePlays, Game!NewGame
<1>5. gameLeft > 0 => gameGame.try + gameLeft - 1 <= GameCommands
  BY <1>2, <1>3, GameConstants DEF GameInv, GamePlays, GameTries
<1>6. gameAt.mode \in Modes \cup {None} /\ gameAt.session \in Game!Sets \cup {None}
  BY <1>1 DEF Game!PlaceType
<1> QED BY <1>1, <1>2, <1>3, <1>4, <1>5, <1>6

(* The play page with less left to do: whatever became of the game, its     *)
(* tries are within the bound once a command is spent or the game is not    *)
(* over.                                                                    *)
LEMMA GamePlaysOn ==
  ASSUME GameInv, GameGood(gameGame'), GameWhoTyped', gameAt' = gameAt,
         gameAt.page # "play" => gameGame' = gameGame,
         \/ gameLeft > 0 /\ gameLeft' = gameLeft - 1 /\ gameGame'.try = gameGame.try
         \/ gameLeft' = gameLeft /\ gameGame'.try = gameGame.try /\ gameGame.phase # "completed"
         \/ gameLeft' = gameLeft /\ gameGame'.try = gameGame.try
              /\ UNCHANGED gameWho /\ gameGame'.phase = gameGame.phase
              /\ gameGame'.mode = gameGame.mode /\ gameGame'.key = gameGame.key
  PROVE  GamePlays'
<1>1. /\ gameGame.try \in Nat /\ gameLeft \in Nat /\ gameLeft <= GameCommands
      /\ gameLeft > 0 => gameGame.try + gameLeft - 1 <= GameCommands
  BY GamePlace
<1>2. gameLeft' \in 0 .. GameCommands
  BY <1>1, GameConstants
<1>3. GameTries'
  <2>1. CASE gameLeft > 0 /\ gameLeft' = gameLeft - 1 /\ gameGame'.try = gameGame.try
    BY <1>1, <2>1, GameConstants DEF GameTries
  <2>2. CASE gameLeft' = gameLeft /\ gameGame'.try = gameGame.try /\ gameGame.phase # "completed"
    BY <1>1, <2>2, GameConstants DEF GameTries, GameInv, GamePlays
  <2>3. CASE gameLeft' = gameLeft /\ gameGame'.try = gameGame.try
              /\ UNCHANGED gameWho /\ gameGame'.phase = gameGame.phase
              /\ gameGame'.mode = gameGame.mode /\ gameGame'.key = gameGame.key
    BY <1>1, <2>3, GameConstants DEF GameTries, GameInv, GamePlays
  <2> QED BY <2>1, <2>2, <2>3
<1>4. gameAt' \in Game!PlaceType /\ (gameAt'.page # "play" => gameGame' = Game!NewGame)
  BY DEF GameInv, GamePlays
<1> QED BY <1>2, <1>3, <1>4 DEF GamePlays

LEMMA GameSentStays ==
  ASSUME GameInv, UNCHANGED <<gameIssued, gameWire, gameSaved>>
  PROVE  GameSent'
BY DEF GameInv, GameSent

LEMMA GameRestoresStays ==
  ASSUME GameInv, UNCHANGED <<gameStore, gameRestore, gameAt, gameSaved>>
  PROVE  GameRestores'
BY DEF GameInv, GameRestores, OwnKept

LEMMA GameResultKept ==
  ASSUME GameInv
  PROVE  Game!Result \in Game!Kept
BY DEF GameInv, GameRestores, Game!Result, Game!Kept, RestoreStates

LEMMA GameRestoreRuns ==
  ASSUME GameInv, gameAt.page = "result", gameRestore' = Game!RestoreEffect,
         UNCHANGED <<gameStore, gameAt, gameSaved>>
  PROVE  GameRestores'
<1> DEFINE load == Game!Result = None /\ gameAt.session # None /\ gameWho \in People
           status1 == CASE Game!Result # None -> "idle"
                     [] Game!Result = None /\ gameAt.session = None -> "empty"
                     [] Game!Result = None /\ gameAt.session # None /\ gameWho = Game!Anonymous ->
                          "unauthenticated"
                     [] OTHER -> "loading"
           seen1 == Game!Dependencies
<1>1. gameRestore' = [gameRestore EXCEPT !.seen = seen1, !.calling = load, !.status = status1]
  BY Zenon DEF Game!RestoreEffect
<1>2. /\ gameRestore \in RestoreStates /\ OwnKept(gameRestore.kept)
      /\ gameStore \in Game!Kept /\ OwnKept(gameStore)
  BY DEF GameInv, GameRestores
<1>w. gameWho \in People \cup {Game!Anonymous, Game!Initializing}
  BY DEF GameInv, GamePlays, GameWhoTyped
<1>3. seen1 \in (Game!Sets \cup {None}) \X (People \cup {Game!Anonymous, Game!Initializing})
                  \X Nat \X Game!Kept
      /\ seen1[1] = gameAt.session /\ seen1[2] = gameWho
  <2>1. gameAt.session \in Game!Sets \cup {None}
    BY GamePlace
  <2>2. gameRestore.retries \in Nat
    BY <1>2 DEF RestoreStates
  <2> QED BY <1>w, <2>1, <2>2, GameResultKept DEF Game!Dependencies
<1>4. status1 \in {"idle", "loading", "empty", "unauthenticated", "error"} /\ load \in BOOLEAN
  OBVIOUS
<1>5. status1 = "loading" => load \/ seen1[2] = Game!Initializing
  BY <1>w, <1>3
<1>6. load => seen1[1] \in Game!Sets /\ seen1[2] \in People
  <2>1. gameAt.session \in Game!Sets \cup {None}
    BY GamePlace
  <2> QED BY <1>3, <2>1
<1> HIDE DEF load, status1, seen1
<1>7. CASE load = TRUE
  <2>1. gameRestore' = [gameRestore EXCEPT !.seen = seen1, !.calling = TRUE, !.status = status1]
    BY <1>1, <1>7
  <2>2. gameRestore' \in RestoreStates /\ gameRestore'.kept = gameRestore.kept
        /\ gameRestore'.seen = seen1 /\ gameRestore'.status = status1
        /\ gameRestore'.calling = TRUE
    BY <1>2, <1>3, <1>4, <2>1 DEF RestoreStates
  <2> QED BY <1>2, <1>5, <1>6, <1>7, <2>2 DEF GameRestores, OwnKept
<1>8. CASE load = FALSE
  <2>1. gameRestore' = [gameRestore EXCEPT !.seen = seen1, !.calling = FALSE, !.status = status1]
    BY <1>1, <1>8
  <2>2. gameRestore' \in RestoreStates /\ gameRestore'.kept = gameRestore.kept
        /\ gameRestore'.seen = seen1 /\ gameRestore'.status = status1
        /\ gameRestore'.calling = FALSE
    BY <1>2, <1>3, <1>4, <2>1 DEF RestoreStates
  <2> QED BY <1>2, <1>5, <1>6, <1>8, <2>2 DEF GameRestores, OwnKept
<1> QED BY <1>4, <1>7, <1>8

LEMMA GameEffectsRun ==
  ASSUME GameInv, Game!Effects
  PROVE  GameInv'
<1>1. /\ UNCHANGED <<gameWho, gameAt, gameStore, gameIssued, gameWire, gameSaved, gameLeft>>
      /\ IF gameAt.page = "play"
         THEN gameGame' = Game!PlayEffects(gameGame, gameAt.mode) /\ UNCHANGED gameRestore
         ELSE gameRestore' = Game!RestoreEffect /\ UNCHANGED gameGame
  BY Zenon DEF Game!Effects
<1>2. GameSent'
  BY <1>1, GameSentStays
<1>3. CASE gameAt.page = "play"
  <2>1. gameGame' = Game!PlayEffects(gameGame, gameAt.mode) /\ UNCHANGED gameRestore
    BY <1>1, <1>3
  <2>2. Game!PlayEffects(gameGame, gameAt.mode) # gameGame
    BY <1>3 DEF Game!Effects, Game!EffectsDue
  <2>3. GameGood(gameGame) /\ gameAt.mode \in Modes \cup {None} /\ GameWhoTyped
    BY GamePlace DEF GameInv, GamePlays
  <2>4. /\ GameGood(gameGame') /\ gameGame'.try = gameGame.try
        /\ ~(gameWho \in People /\ gameAt.mode # None
             /\ gameGame.mode = gameAt.mode /\ gameGame.key = <<gameAt.mode, gameWho>>)
    BY <2>1, <2>2, <2>3, GameEffects
  <2>5. gameGame.try + gameLeft <= GameCommands
    BY <2>4 DEF GameInv, GamePlays, GameTries
  <2>6. GamePlays'
    BY <1>1, <1>3, <2>4, <2>5 DEF GameInv, GamePlays, GameTries, GameWhoTyped
  <2>7. GameRestores'
    BY <1>1, <2>1, GameRestoresStays
  <2> QED BY <1>2, <2>6, <2>7 DEF GameInv
<1>4. CASE gameAt.page # "play"
  <2>1. gameRestore' = Game!RestoreEffect /\ UNCHANGED gameGame /\ gameAt.page = "result"
    BY <1>1, <1>4 DEF Game!Effects, Game!EffectsDue
  <2>2. GameRestores'
    BY <1>1, <2>1, GameRestoreRuns
  <2>3. GamePlays'
    BY <1>1, <2>1 DEF GameInv, GamePlays, GameTries, GameWhoTyped
  <2> QED BY <1>2, <2>2, <2>3 DEF GameInv
<1> QED BY <1>3, <1>4

LEMMA GameArrives ==
  ASSUME GameInv, Game!QuestionsArrive
  PROVE  GameInv'
<1>1. gameGame.loading /\ UNCHANGED <<gameWho, gameAt, gameRestore, gameStore, gameWire, gameSaved, gameLeft>>
  BY DEF Game!QuestionsArrive
<1>0. GameGood(gameGame) /\ gameAt.page = "play" /\ gameGame.phase = "answering" /\ GameWhoTyped
  BY <1>1, GamePlace DEF GameInv, GamePlays, GameGood, GameCalm, GameLoads
<1>2. /\ GameGood(gameGame') /\ gameGame'.try = gameGame.try
      /\ gameIssued' \in 0 .. MaxSets
  <2>1. CASE /\ gameIssued < MaxSets /\ gameIssued' = gameIssued + 1
             /\ gameGame' = [gameGame EXCEPT !.loading = FALSE, !.status = "loaded", !.set = gameIssued']
    <3>1. gameIssued' \in Game!Sets /\ gameIssued' \in 0 .. MaxSets
      BY <2>1, GameConstants DEF Game!Sets, GameInv, GameSent
    <3> QED BY <1>0, <1>1, <2>1, <3>1, GameQuestions
  <2>2. CASE gameGame' = [gameGame EXCEPT !.loading = FALSE, !.status = "error"] /\ UNCHANGED gameIssued
    <3>1. gameIssued' \in 0 .. MaxSets
      BY <2>2 DEF GameInv, GameSent
    <3> QED BY <1>0, <1>1, <2>2, <3>1, GameQuestions
  <2> QED BY <2>1, <2>2 DEF Game!QuestionsArrive
<1>3. GamePlays'
  <2>1. GameWhoTyped'
    BY <1>0, <1>1 DEF GameWhoTyped
  <2>2. gameGame.phase # "completed"
    BY <1>0
  <2> QED BY <1>0, <1>1, <1>2, <2>1, <2>2, GamePlaysOn
<1>4. GameSent'
  BY <1>1, <1>2 DEF GameInv, GameSent
<1>5. GameRestores'
  BY <1>1, GameRestoresStays
<1> QED BY <1>3, <1>4, <1>5 DEF GameInv

LEMMA GameReloads ==
  ASSUME GameInv, Game!Reload
  PROVE  GameInv'
<1>1. /\ gameLeft > 0 /\ gameLeft' = gameLeft - 1 /\ gameAt.page = "play"
      /\ gameGame' = [Game!LoadQuestions(gameGame) EXCEPT !.key = None]
      /\ UNCHANGED <<gameWho, gameAt, gameRestore, gameStore, gameIssued, gameWire, gameSaved>>
  BY Zenon DEF Game!Reload
<1>2. gameGame \in GameStates /\ GameLoads(gameGame)
  BY GamePlace DEF GameGood, GameCalm
<1>3. GameAnew(gameGame, gameGame')
  BY <1>1, <1>2, GameQuestionsReset, Zenon
<1>4. GameGood(gameGame') /\ gameGame'.try = gameGame.try
  BY <1>3, GameAnewGood DEF GameAnew
<1>5. GameWhoTyped'
  BY <1>1 DEF GameInv, GamePlays, GameWhoTyped
<1>6. GamePlays'
  BY <1>1, <1>4, <1>5, GamePlaysOn
<1>7. GameSent' /\ GameRestores'
  BY <1>1, GameSentStays, GameRestoresStays
<1> QED BY <1>6, <1>7 DEF GameInv

LEMMA GameAnswerGiven ==
  ASSUME GameInv, Game!SubmitAnswer
  PROVE  GameInv'
<1>1. /\ gameAt.page = "play" /\ gameGame.status = "loaded" /\ gameGame.phase = "answering"
      /\ gameGame' = [gameGame EXCEPT !.answers = Append(@, <<gameGame.set, gameGame.index>>),
                                      !.phase = "feedback", !.feedback = TRUE]
      /\ UNCHANGED <<gameWho, gameAt, gameRestore, gameStore, gameIssued, gameWire, gameSaved, gameLeft>>
  BY Zenon DEF Game!SubmitAnswer, Game!CanAnswer
<1>2. GameGood(gameGame') /\ gameGame'.try = gameGame.try
  BY <1>1, GamePlace, GameAnswers, Zenon
<1>3. GameWhoTyped' /\ gameGame.phase # "completed"
  BY <1>1 DEF GameInv, GamePlays, GameWhoTyped
<1>4. GamePlays'
  BY <1>1, <1>2, <1>3, GamePlaysOn
<1>5. GameSent' /\ GameRestores'
  BY <1>1, GameSentStays, GameRestoresStays
<1> QED BY <1>4, <1>5 DEF GameInv

(* At rest the page's mode and key are its user's.                          *)
LEMMA GameSettled ==
  ASSUME GameInv, ~Game!EffectsDue, gameAt.page = "play", gameWho \in People,
         gameGame.mode # None
  PROVE  /\ gameAt.mode # None /\ gameGame.mode = gameAt.mode
         /\ gameGame.key = <<gameAt.mode, gameWho>>
<1>1. Game!PlayEffects(gameGame, gameAt.mode) = gameGame
  BY DEF Game!EffectsDue
<1>2. GameGood(gameGame) /\ gameAt.mode \in Modes \cup {None} /\ GameWhoTyped
  BY GamePlace DEF GameInv, GamePlays
<1>3. gameGame.mode = gameAt.mode
  BY <1>1, <1>2, GameEffects
<1> QED BY <1>1, <1>2, <1>3, GameEffects

(* A submission leaves the invariant.                                       *)
LEMMA GameSubmitted ==
  ASSUME GameInv, NEW g, GameGood(g), g.phase = "completed", g.try = gameGame.try,
         g.mode = gameGame.mode, g.key = gameGame.key, ~Game!EffectsDue,
         gameAt.page = "play", Game!SubmitCompleted(g),
         UNCHANGED <<gameWho, gameAt, gameRestore, gameStore, gameIssued, gameSaved>>,
         \/ gameLeft > 0 /\ gameLeft' = gameLeft - 1
         \/ gameLeft' = gameLeft /\ gameGame.phase # "completed"
  PROVE  GameInv'
<1>1. /\ gameGame.try \in Nat /\ gameLeft \in Nat /\ gameLeft <= GameCommands /\ GameWhoTyped
      /\ gameLeft > 0 => gameGame.try + gameLeft - 1 <= GameCommands
  BY GamePlace DEF GameInv, GamePlays
<1>2. gameGame.try + gameLeft' <= GameCommands /\ gameLeft' \in 0 .. GameCommands
  <2>1. CASE gameLeft > 0 /\ gameLeft' = gameLeft - 1
    BY <1>1, <2>1, GameConstants
  <2>2. CASE gameLeft' = gameLeft /\ gameGame.phase # "completed"
    BY <1>1, <2>2, GameConstants DEF GameInv, GamePlays, GameTries
  <2> QED BY <2>1, <2>2
<1>3. g.try \in 0 .. GameCommands
  BY <1>1, <1>2, GameConstants
<1>4. /\ GameGood(gameGame') /\ gameGame'.phase = "completed"
      /\ gameGame'.mode = g.mode /\ gameGame'.key = g.key
      /\ \/ gameGame'.try = g.try /\ gameWire' = gameWire
         \/ /\ gameGame'.try = g.try + 1 /\ gameWho \in People /\ g.mode # None
            /\ \E request \in Game!Submissions :
                 GameWhole(request) /\ gameWire' = gameWire \cup {request}
  BY <1>1, <1>3, GameSubmits
<1>5. GameTries'
  <2>1. CASE gameGame'.try = g.try
    BY <1>2, <2>1 DEF GameTries
  <2>2. CASE gameGame'.try = g.try + 1 /\ gameWho \in People /\ g.mode # None
    <3>1. /\ gameAt.mode # None /\ gameGame.mode = gameAt.mode
          /\ gameGame.key = <<gameAt.mode, gameWho>>
      BY <2>2, GameSettled
    <3>2. gameGame'.try + gameLeft' <= GameCommands + 1
      BY <1>1, <1>2, <2>2, GameConstants
    <3> QED BY <1>4, <2>2, <3>1, <3>2 DEF GameTries
  <2> QED BY <1>4, <2>1, <2>2
<1>6. GamePlays'
  BY <1>1, <1>2, <1>4, <1>5 DEF GameInv, GamePlays, GameWhoTyped
<1>7. GameSent'
  BY <1>4 DEF GameInv, GameSent
<1>8. GameRestores'
  BY GameRestoresStays
<1> QED BY <1>6, <1>7, <1>8 DEF GameInv

LEMMA GameSteps ==
  ASSUME GameInv, Game!NextStep \/ Game!Resubmit
  PROVE  GameInv'
<1>0. GameGood(gameGame)
  BY GamePlace
<1>1. CASE Game!NextStep
  <2> DEFINE h == [gameGame EXCEPT !.feedback = FALSE]
             e == [h EXCEPT !.index = @ + 1, !.phase = "answering"]
             c == [h EXCEPT !.phase = "completed"]
  <2>1. /\ ~Game!EffectsDue /\ gameGame.feedback
        /\ IF h.index < Questions THEN gameGame' = e /\ UNCHANGED gameWire
           ELSE Game!SubmitCompleted(c)
        /\ UNCHANGED <<gameWho, gameAt, gameRestore, gameStore, gameIssued, gameSaved, gameLeft>>
    BY <1>1, Zenon DEF Game!NextStep
  <2>2. /\ h.index = gameGame.index
        /\ gameGame.index < Questions => GameGood(e) /\ e.try = gameGame.try
        /\ ~(gameGame.index < Questions) =>
             /\ GameGood(c) /\ c.try = gameGame.try /\ c.mode = gameGame.mode
             /\ c.key = gameGame.key /\ c.phase = "completed"
    BY <1>0, <2>1, GameGoesOn, Zenon
  <2> HIDE DEF e, c, h
  <2>3. gameGame.phase # "completed" /\ gameAt.page = "play"
    BY <1>0, <2>1, GamePlace DEF GameGood, GameCalm
  <2>4. CASE gameGame.index < Questions
    <3>1. GameGood(gameGame') /\ gameGame'.try = gameGame.try /\ UNCHANGED gameWire
      BY <2>1, <2>2, <2>4
    <3>2. GameWhoTyped'
      BY <2>1 DEF GameInv, GamePlays, GameWhoTyped
    <3>3. GamePlays'
      BY <2>1, <2>3, <3>1, <3>2, GamePlaysOn
    <3>4. GameSent' /\ GameRestores'
      BY <2>1, <3>1, GameSentStays, GameRestoresStays
    <3> QED BY <3>3, <3>4 DEF GameInv
  <2>5. CASE ~(gameGame.index < Questions)
    BY <2>1, <2>2, <2>3, <2>5, GameSubmitted
  <2> QED BY <2>4, <2>5
<1>2. CASE Game!Resubmit
  <2>1. /\ ~Game!EffectsDue /\ gameLeft > 0 /\ gameLeft' = gameLeft - 1
        /\ gameAt.page = "play" /\ gameGame.phase = "completed"
        /\ Game!SubmitCompleted(gameGame)
        /\ UNCHANGED <<gameWho, gameAt, gameRestore, gameStore, gameIssued, gameSaved>>
    BY <1>2 DEF Game!Resubmit
  <2> QED BY <1>0, <2>1, GameSubmitted
<1> QED BY <1>1, <1>2

LEMMA GameServed ==
  ASSUME GameInv, NEW request \in gameWire, Game!Serve(request)
  PROVE  GameInv'
<1>1. /\ gameWire' = gameWire \ {request}
      /\ gameSaved' = [gameSaved EXCEPT ![request.set] = IF @ = None THEN request ELSE @]
      /\ UNCHANGED <<gameWho, gameAt, gameGame, gameRestore, gameStore, gameIssued, gameLeft>>
  BY DEF Game!Serve
<1>2. /\ gameSaved \in [Game!Sets -> Game!Submissions \cup {None}]
      /\ request \in Game!Submissions /\ GameWhole(request)
  BY DEF GameInv, GameSent
<1>3. request.set \in Game!Sets
  BY <1>2 DEF Game!Submissions
<1>4. \A s \in Game!Sets :
        /\ gameSaved[s] # None => gameSaved'[s] = gameSaved[s]
        /\ gameSaved[s] = None => gameSaved'[s] \in {None, request}
  BY <1>1, <1>2, <1>3
<1>5. gameSaved' \in [Game!Sets -> Game!Submissions \cup {None}]
  BY <1>1, <1>2, <1>3
<1>6. GameSent'
  BY <1>1, <1>2, <1>4, <1>5 DEF GameInv, GameSent
<1>7. \A kept \in Game!Kept : OwnKept(kept) => (kept # None =>
        gameSaved'[kept.session] # None /\ gameSaved'[kept.session].user = kept.user)
  <2>1. \A kept \in Game!Kept : kept # None => kept.session \in Game!Sets
    BY DEF Game!Kept
  <2> QED BY <1>4, <2>1 DEF OwnKept
<1>8. GameRestores'
  <2>1. gameStore \in Game!Kept /\ gameRestore.kept \in Game!Kept
    BY DEF GameInv, GameRestores, RestoreStates
  <2> QED BY <1>1, <1>7, <2>1 DEF GameInv, GameRestores, OwnKept
<1>9. GamePlays'
  BY <1>1 DEF GameInv, GamePlays, GameTries, GameWhoTyped
<1> QED BY <1>6, <1>8, <1>9 DEF GameInv

LEMMA GameEnds ==
  ASSUME GameInv, Game!Submitted \/ Game!SubmitFails
  PROVE  GameInv'
<1>0. GameGood(gameGame) /\ gameGame \in GameStates
  BY GamePlace
<1>1. CASE Game!Submitted
  <2>1. /\ gameGame.sending # None /\ gameSaved[gameGame.sending.set] = gameGame.sending
        /\ gameStore' = [session |-> gameGame.sending.set, user |-> gameGame.sending.user]
        /\ gameAt' = [page |-> "result", mode |-> None, session |-> gameGame.sending.set]
        /\ gameGame' = Game!NewGame
        /\ UNCHANGED <<gameWho, gameRestore, gameIssued, gameWire, gameSaved, gameLeft>>
    BY <1>1 DEF Game!Submitted
  <2>2. gameGame.sending \in Game!Submissions
    BY <1>0, <2>1 DEF GameStates
  <2>3. gameGame.sending.set \in Game!Sets /\ gameGame.sending.user \in People
    BY <2>2 DEF Game!Submissions
  <2>4. gameAt' \in Game!PlaceType /\ gameAt'.page = "result"
    BY <2>1, <2>3 DEF Game!PlaceType
  <2>5. gameStore' \in Game!Kept /\ OwnKept(gameStore)'
    <3>1. gameStore' \in Game!Kept /\ gameStore'.session = gameGame.sending.set
          /\ gameStore'.user = gameGame.sending.user
      BY <2>1, <2>3 DEF Game!Kept
    <3> QED BY <2>1, <3>1 DEF OwnKept
  <2>6. GamePlays'
    <3>1. GameGood(gameGame') /\ gameGame'.try = 0
      BY <2>1, GameBegins
    <3>2. gameGame'.try + gameLeft' <= GameCommands
      BY <2>1, <3>1, GamePlace
    <3> QED BY <2>1, <2>4, <3>1, <3>2 DEF GameInv, GamePlays, GameTries, GameWhoTyped
  <2>7. GameSent'
    BY <2>1, GameSentStays
  <2>8. GameRestores'
    BY <2>1, <2>4, <2>5 DEF GameInv, GameRestores, OwnKept
  <2> QED BY <2>6, <2>7, <2>8 DEF GameInv
<1>2. CASE Game!SubmitFails
  <2>1. /\ gameGame.sending # None
        /\ gameGame' = [gameGame EXCEPT !.submit = "error", !.sending = None]
        /\ UNCHANGED <<gameWho, gameAt, gameRestore, gameStore, gameIssued, gameWire, gameSaved, gameLeft>>
    BY <1>2 DEF Game!SubmitFails
  <2>2. /\ GameGood(gameGame') /\ gameGame'.try = gameGame.try /\ gameGame'.phase = gameGame.phase
        /\ gameGame'.mode = gameGame.mode /\ gameGame'.key = gameGame.key
    BY <1>0, <2>1, GameSubmitFails, Zenon
  <2>3. GameWhoTyped' /\ gameAt.page = "play"
    BY <2>1, GamePlace DEF GameInv, GamePlays, GameWhoTyped
  <2>4. GamePlays'
    BY <2>1, <2>2, <2>3, GamePlaysOn
  <2>5. GameSent' /\ GameRestores'
    BY <2>1, GameSentStays, GameRestoresStays
  <2> QED BY <2>4, <2>5 DEF GameInv
<1> QED BY <1>1, <1>2

LEMMA GameRestored ==
  ASSUME GameInv, Game!Restored \/ Game!RetryRestore
  PROVE  GameInv'
<1>0. /\ gameRestore \in RestoreStates /\ OwnKept(gameRestore.kept)
      /\ gameStore \in Game!Kept /\ OwnKept(gameStore)
  BY DEF GameInv, GameRestores
<1>1. CASE Game!Restored
  <2>1. /\ ~Game!EffectsDue /\ gameRestore.calling
        /\ UNCHANGED <<gameWho, gameAt, gameGame, gameIssued, gameWire, gameSaved, gameLeft>>
    BY <1>1 DEF Game!Restored
  <2>2. gameAt.session \in Game!Sets /\ gameWho \in People
    <3>1. /\ gameAt.page = "result" /\ gameRestore.seen[1] \in Game!Sets
          /\ gameRestore.seen[2] \in People
      BY <2>1 DEF GameInv, GameRestores
    <3>2. gameRestore.seen = Game!Dependencies
      BY <2>1, <3>1 DEF Game!EffectsDue
    <3> QED BY <3>1, <3>2 DEF Game!Dependencies
  <2>3. GameRestores'
    <3>1. CASE /\ gameSaved[gameAt.session] # None /\ gameSaved[gameAt.session].user = gameWho
               /\ LET result == [session |-> gameAt.session, user |-> gameWho]
                  IN /\ gameStore' = result
                     /\ gameRestore' = [gameRestore EXCEPT !.kept = result, !.status = "idle",
                                                           !.calling = FALSE]
      <4> DEFINE result == [session |-> gameAt.session, user |-> gameWho]
      <4>1. result \in Game!Kept /\ result.session = gameAt.session /\ result.user = gameWho
        BY <2>2 DEF Game!Kept
      <4>2. gameStore' = result
            /\ gameRestore' = [gameRestore EXCEPT !.kept = result, !.status = "idle", !.calling = FALSE]
        BY <3>1
      <4> HIDE DEF result
      <4>3. /\ gameRestore' \in RestoreStates /\ gameRestore'.kept = result
            /\ gameRestore'.calling = FALSE /\ gameRestore'.status = "idle"
        BY <1>0, <4>1, <4>2 DEF RestoreStates
      <4>4. gameStore' \in Game!Kept /\ OwnKept(gameStore)' /\ OwnKept(gameRestore.kept)'
        BY <2>1, <3>1, <4>1, <4>2, <4>3 DEF OwnKept
      <4> QED BY <4>3, <4>4 DEF GameRestores
    <3>2. CASE /\ gameRestore' = [gameRestore EXCEPT !.status = "error", !.calling = FALSE]
               /\ UNCHANGED gameStore
      <4>1. /\ gameRestore' \in RestoreStates /\ gameRestore'.kept = gameRestore.kept
            /\ gameRestore'.calling = FALSE /\ gameRestore'.status = "error"
        BY <1>0, <3>2 DEF RestoreStates
      <4> QED BY <1>0, <2>1, <3>2, <4>1 DEF GameRestores, OwnKept
    <3> QED BY <1>1, <3>1, <3>2, Zenon DEF Game!Restored
  <2>4. GamePlays'
    BY <2>1 DEF GameInv, GamePlays, GameTries, GameWhoTyped
  <2>5. GameSent'
    BY <2>1, GameSentStays
  <2> QED BY <2>3, <2>4, <2>5 DEF GameInv
<1>2. CASE Game!RetryRestore
  <2>1. /\ gameLeft > 0 /\ gameLeft' = gameLeft - 1
        /\ gameRestore' = [gameRestore EXCEPT !.retries = @ + 1]
        /\ UNCHANGED <<gameWho, gameAt, gameGame, gameStore, gameIssued, gameWire, gameSaved>>
    BY <1>2 DEF Game!RetryRestore
  <2>2. GamePlays'
    <3>1. GameGood(gameGame') /\ GameWhoTyped'
      BY <2>1 DEF GameInv, GamePlays, GameWhoTyped
    <3> QED BY <2>1, <3>1, GamePlaysOn
  <2>3. GameRestores'
    <3> DEFINE n == gameRestore.retries + 1
    <3>1. n \in Nat
      BY <1>0 DEF RestoreStates
    <3>2. gameRestore' = [gameRestore EXCEPT !.retries = n]
      BY <2>1
    <3> HIDE DEF n
    <3>3. /\ gameRestore' \in RestoreStates /\ gameRestore'.kept = gameRestore.kept
          /\ gameRestore'.calling = gameRestore.calling /\ gameRestore'.seen = gameRestore.seen
          /\ gameRestore'.status = gameRestore.status
      BY <1>0, <3>1, <3>2 DEF RestoreStates
    <3> QED BY <2>1, <3>3 DEF GameInv, GameRestores, OwnKept
  <2>4. GameSent'
    BY <2>1, GameSentStays
  <2> QED BY <2>2, <2>3, <2>4 DEF GameInv
<1> QED BY <1>1, <1>2

LEMMA GameMoves ==
  ASSUME GameInv, NEW place \in Game!Places, Game!GoTo(place)
  PROVE  GameInv'
<1>1. /\ gameAt' = place /\ gameLeft > 0 /\ gameLeft' = gameLeft - 1
      /\ gameGame' = IF place.page = "play" /\ gameAt.page = "play" THEN gameGame ELSE Game!NewGame
      /\ gameRestore' = IF place.page = "result" /\ gameAt.page = "result" THEN gameRestore
                        ELSE Game!NewRestore
      /\ UNCHANGED <<gameWho, gameStore, gameIssued, gameWire, gameSaved>>
  BY DEF Game!GoTo
<1>2. place \in Game!PlaceType
  <2>1. gameIssued \in Nat /\ gameIssued <= MaxSets
    BY GameConstants DEF GameInv, GameSent
  <2>2. 1 .. gameIssued \subseteq Game!Sets
    BY <2>1, GameConstants DEF Game!Sets
  <2> QED BY <2>2 DEF Game!Places, Game!PlaceType
<1>3. /\ gameLeft \in Nat /\ gameLeft <= GameCommands /\ gameGame.try \in Nat
      /\ gameGame.try + gameLeft - 1 <= GameCommands
      /\ GameGood(gameGame)
  BY <1>1, GamePlace
<1>4. GamePlays'
  <2>1. CASE place.page = "play" /\ gameAt.page = "play"
    <3>1. gameGame' = gameGame
      BY <1>1, <2>1
    <3>2. GameTries' /\ gameLeft' \in 0 .. GameCommands
      BY <1>1, <1>3, <3>1, GameConstants DEF GameTries
    <3> QED BY <1>1, <1>2, <2>1, <3>1, <3>2 DEF GameInv, GamePlays, GameWhoTyped
  <2>2. CASE ~(place.page = "play" /\ gameAt.page = "play")
    <3>1. gameGame' = Game!NewGame
      BY <1>1, <2>2
    <3>2. GameGood(gameGame') /\ gameGame'.try = 0
      BY <3>1, GameBegins
    <3>3. GameTries' /\ gameLeft' \in 0 .. GameCommands
      BY <1>1, <1>3, <3>2, GameConstants DEF GameTries
    <3> QED BY <1>1, <1>2, <3>1, <3>2, <3>3 DEF GameInv, GamePlays, GameWhoTyped
  <2> QED BY <2>1, <2>2
<1>5. GameSent'
  BY <1>1, GameSentStays
<1>6. GameRestores'
  <2>1. CASE place.page = "result" /\ gameAt.page = "result"
    BY <1>1, <2>1 DEF GameInv, GameRestores, OwnKept
  <2>2. CASE ~(place.page = "result" /\ gameAt.page = "result")
    <3>1. gameRestore' = Game!NewRestore
      BY <1>1, <2>2
    <3>2. /\ gameRestore' \in RestoreStates /\ gameRestore'.kept = None
          /\ gameRestore'.calling = FALSE /\ gameRestore'.status = "idle"
      BY <3>1 DEF Game!NewRestore, RestoreStates, Game!Kept
    <3> QED BY <1>1, <3>2 DEF GameInv, GameRestores, OwnKept
  <2> QED BY <2>1, <2>2
<1> QED BY <1>4, <1>5, <1>6 DEF GameInv

LEMMA GameNext ==
  ASSUME GameInv, [Game!Next]_(Game!vars)
  PROVE  GameInv'
<1>1. CASE Game!SignOut \/ \E u \in People : Game!SignIn(u)
  <2>1. /\ gameLeft > 0 /\ gameLeft' = gameLeft - 1 /\ GameWhoTyped'
        /\ UNCHANGED <<gameAt, gameGame, gameRestore, gameStore, gameIssued, gameWire, gameSaved>>
    BY <1>1 DEF Game!SignOut, Game!SignIn, GameWhoTyped
  <2>2. GamePlays'
    <3>1. GameGood(gameGame')
      BY <2>1 DEF GameInv, GamePlays
    <3> QED BY <2>1, <3>1, GamePlaysOn
  <2>3. GameSent' /\ GameRestores'
    BY <2>1, GameSentStays, GameRestoresStays
  <2> QED BY <2>2, <2>3 DEF GameInv
<1>2. CASE UNCHANGED Game!vars
  BY <1>2 DEF Game!vars, GameInv, GamePlays, GameTries, GameWhoTyped, GameSent, GameRestores, OwnKept
<1> QED BY <1>1, <1>2, GameEffectsRun, GameArrives, GameReloads, GameAnswerGiven, GameSteps,
           GameServed, GameEnds, GameRestored, GameMoves DEF Game!Next

----------------------------------------------------------------------------
(* The pages that load by key.                                              *)

KeyedSessions == Keyed!Tokens \cup {Keyed!Initializing, Keyed!Anonymous}

KeyedStates ==
  [controller : Nat, active : Keyed!Keys \cup {None}, loaded : Keyed!Keys \cup {None},
   status : {"idle", "loading", "success", "error"},
   shown : [key : Keyed!Keys, list : SUBSET Elements] \cup {None},
   confirming : Elements \cup {None}, deleting : SUBSET Elements]

KeyedCallType ==
  [id : Nat, key : Keyed!Keys, aborted : BOOLEAN,
   answer : [ok : BOOLEAN, list : SUBSET Elements] \cup {None}]

KeyedDeletionType == [element : Elements, gone : BOOLEAN, reload : Nat]

KeyedTyped ==
  /\ keyedPage \in {"weak", "stats", "ranking", "index", "home"}
  /\ keyedSession \in KeyedSessions /\ keyedQuery \in Modes
  /\ keyedSeen \in (KeyedSessions \X Modes) \cup {None}
  /\ keyedState \in KeyedStates /\ keyedCalls \subseteq KeyedCallType
  /\ keyedDeletions \subseteq KeyedDeletionType /\ keyedWeak \subseteq Elements
  /\ keyedIssued \in 0 .. KeyedCalls /\ keyedLeft \in 0 .. KeyedSteps

(* Sessions come in this order, Anonymous last.                             *)
KeyedRank(s) == IF s = Keyed!Anonymous THEN MaxToken + 1 ELSE s

(* At most one call, the controller's, is not aborted.                      *)
KeyedControl ==
  /\ \A c \in keyedCalls : c.id <= keyedIssued /\ c.id > 0
  /\ \A b, c \in keyedCalls : b.id = c.id => b = c
  /\ \A c \in keyedCalls :
       ~c.aborted => c.id = keyedState.controller /\ keyedState.status = "loading"

(* An answer loaded is of a session no later than the one the effect saw;   *)
(* one that loads, or that is shown, is of that session.                    *)
KeyedSeenOnly ==
  /\ keyedSeen = None => /\ keyedState.active = None /\ keyedState.loaded = None
                         /\ keyedCalls = {} /\ keyedDeletions = {}
  /\ keyedSeen # None => KeyedRank(keyedSeen[1]) <= KeyedRank(keyedSession)
  /\ keyedPage # "home" =>
       /\ keyedState.active # None => keyedState.active[2] = keyedSeen[1]
       /\ keyedState.loaded # None =>
            KeyedRank(keyedState.loaded[2]) <= KeyedRank(keyedSeen[1])
       /\ keyedState.status = "success" => keyedState.loaded[2] = keyedSeen[1]
  /\ keyedState.status = "success" =>
       /\ keyedState.active = None /\ keyedState.loaded # None
       /\ keyedState.shown \in [key : Keyed!Keys, list : SUBSET Elements]
       /\ keyedState.shown.key = keyedState.loaded

(* Deletions wait for a load that has not ended.                            *)
KeyedReloads ==
  /\ \A d \in keyedDeletions :
       d.reload # 0 => \E c \in keyedCalls : c.id = d.reload
  /\ keyedDeletions # {} => keyedSession # Keyed!Initializing /\ keyedPage = "weak"

(* But for the weak list the call that runs is the active key's.            *)
KeyedRuns ==
  /\ Keyed!EffectDue => ~Keyed!Settling
  /\ keyedPage # "weak" =>
       /\ \A c \in keyedCalls : c.aborted <=> c.key # keyedState.active
       /\ keyedState.status = "loading" /\ ~(keyedPage = "home" /\ keyedSeen = None) =>
            \E c \in keyedCalls : ~c.aborted /\ c.key = keyedState.active

KeyedInv == KeyedTyped /\ KeyedControl /\ KeyedSeenOnly /\ KeyedReloads /\ KeyedRuns

LEMMA KeyedConstants ==
  /\ MaxToken \in Nat /\ MaxToken > 0 /\ KeyedCalls \in Nat /\ KeyedSteps \in Nat
  /\ None \notin Keyed!Keys /\ None \notin KeyedSessions \X Modes
  /\ Keyed!Tokens = 1 .. MaxToken /\ Keyed!Initializing = -1 /\ Keyed!Anonymous = 0
BY InstancesAssumption DEF Keyed!KeyedLoadAssumption, KeyedSessions, Keyed!Tokens,
   Keyed!Initializing, Keyed!Anonymous

LEMMA KeyedRanks ==
  /\ \A s \in KeyedSessions : KeyedRank(s) \in Int
  /\ \A s, t \in KeyedSessions : KeyedRank(s) = KeyedRank(t) => s = t
  /\ \A s \in KeyedSessions : KeyedRank(s) <= KeyedRank(Keyed!Initializing) => s = Keyed!Initializing
  /\ \A s \in KeyedSessions : s \in Keyed!Tokens \cup {Keyed!Anonymous} <=> s # Keyed!Initializing
  /\ \A s \in KeyedSessions : KeyedRank(s) <= KeyedRank(Keyed!Anonymous)
BY KeyedConstants DEF KeyedRank, KeyedSessions

LEMMA KeyedKeys ==
  \A k \in Keyed!Keys : k # None /\ k[2] \in KeyedSessions /\ k[2] # Keyed!Initializing
BY KeyedConstants, KeyedRanks DEF Keyed!Keys, KeyedSessions

(* Same cardinality in the instance and here. *)
LEMMA KeyedCardinality == \A S : Keyed!Cardinality(S) = Cardinality(S)
BY Zenon DEF Keyed!Cardinality, Cardinality

LEMMA KeyedMeans ==
  KeyedInv => Keyed!TypeOK /\ Keyed!ShowsWhatWasAsked /\ Keyed!SignsEnd
<1> SUFFICES ASSUME KeyedInv PROVE Keyed!TypeOK /\ Keyed!ShowsWhatWasAsked /\ Keyed!SignsEnd
  OBVIOUS
<1>0. KeyedTyped /\ KeyedControl /\ KeyedSeenOnly /\ KeyedReloads /\ KeyedRuns
  BY DEF KeyedInv
<1>1. Keyed!Cardinality({c \in keyedCalls : ~c.aborted}) <= 1
  <2> DEFINE T == {c \in keyedCalls : ~c.aborted}
  <2>1. CASE T = {}
    BY <2>1, KeyedCardinality, FS_EmptySet
  <2>2. CASE T # {}
    <3>1. PICK c \in T : TRUE
      BY <2>2
    <3>2. T = {c}
      BY <1>0, <3>1 DEF KeyedControl
    <3>3. Cardinality(T) = 1
      BY <3>2, FS_Singleton
    <3> QED BY <3>3, KeyedCardinality
  <2> QED BY <2>1, <2>2
<1>2. Keyed!TypeOK
  <2>1. keyedState.shown = None
          \/ (keyedState.shown.key \in Keyed!Keys /\ keyedState.shown.list \subseteq Elements)
    BY <1>0 DEF KeyedTyped, KeyedStates
  <2> QED BY <1>0, <1>1, <2>1, Zenon DEF Keyed!TypeOK, KeyedTyped, KeyedStates, KeyedSessions
<1>3. Keyed!ShowsWhatWasAsked
  <2> SUFFICES ASSUME Keyed!Quiet, keyedState.status = "success"
               PROVE  /\ keyedPage # "home" => keyedState.shown.key[2] = keyedSession
                      /\ \A d \in keyedDeletions : d.reload # 0 => d.element \notin keyedState.shown.list
    BY Zenon DEF Keyed!ShowsWhatWasAsked
  <2>1. ~Keyed!Settling /\ (keyedPage # "home" => keyedSeen = <<keyedSession, keyedQuery>>)
    BY DEF Keyed!Quiet, Keyed!EffectDue
  <2>2. keyedPage # "home" => keyedState.shown.key[2] = keyedSession
    BY <1>0, <2>1 DEF KeyedSeenOnly
  <2>3. ASSUME NEW d \in keyedDeletions, d.reload # 0 PROVE FALSE
    BY <1>0, <2>1, <2>3 DEF KeyedReloads, KeyedControl, Keyed!Settling
  <2> QED BY <2>2, <2>3
<1>4. Keyed!SignsEnd
  <2> SUFFICES ASSUME Keyed!Quiet, keyedPage # "weak", keyedState.status = "loading"
               PROVE  \E c \in keyedCalls : c.id = keyedState.controller /\ c.key = keyedState.active
    BY Zenon DEF Keyed!SignsEnd
  <2>1. ~(keyedPage = "home" /\ keyedSeen = None)
    BY DEF Keyed!Quiet, Keyed!EffectDue
  <2> QED BY <1>0, <2>1 DEF KeyedRuns, KeyedControl
<1> QED BY <1>2, <1>3, <1>4

LEMMA KeyedInitially == Keyed!Init => KeyedInv
<1> SUFFICES ASSUME Keyed!Init PROVE KeyedInv
  OBVIOUS
<1>0. /\ keyedPage \in {"weak", "stats", "ranking", "index", "home"}
      /\ keyedSession \in {Keyed!Initializing, Keyed!Anonymous, 1}
      /\ keyedQuery \in Modes /\ keyedSeen = None
      /\ keyedState = [Keyed!Cleared EXCEPT !.status = IF keyedPage = "home" THEN "loading" ELSE "idle"]
      /\ keyedCalls = {} /\ keyedDeletions = {} /\ keyedWeak = Elements
      /\ keyedIssued = 0 /\ keyedLeft = KeyedSteps
  BY DEF Keyed!Init
<1>1. /\ keyedState \in KeyedStates /\ keyedState.active = None /\ keyedState.loaded = None
      /\ keyedState.status = IF keyedPage = "home" THEN "loading" ELSE "idle"
  BY <1>0 DEF Keyed!Cleared, KeyedStates
<1>2. KeyedTyped
  BY <1>0, <1>1, KeyedConstants DEF KeyedTyped, KeyedSessions
<1>3. KeyedControl /\ KeyedReloads
  BY <1>0 DEF KeyedControl, KeyedReloads
<1>4. KeyedSeenOnly
  BY <1>0, <1>1 DEF KeyedSeenOnly
<1>5. KeyedRuns
  BY <1>0, <1>1 DEF KeyedRuns, Keyed!Settling
<1> QED BY <1>2, <1>3, <1>4, <1>5 DEF KeyedInv

(* The calls ds are the calls cs, that of id aborted.                       *)
KeyedAborted(cs, ds, id) ==
  /\ ds \subseteq KeyedCallType
  /\ \A d \in ds : \E c \in cs :
       d.id = c.id /\ d.key = c.key /\ (d.aborted <=> c.aborted \/ c.id = id)
  /\ \A c \in cs : \E d \in ds : d.id = c.id
  /\ (\A b, c \in cs : b.id = c.id => b = c) => (\A b, c \in ds : b.id = c.id => b = c)

LEMMA KeyedAborts ==
  ASSUME NEW cs \in SUBSET KeyedCallType, NEW id
  PROVE  KeyedAborted(cs, Keyed!Abort(cs, id), id)
<1> DEFINE a(c) == IF c.id = id THEN [c EXCEPT !.aborted = TRUE] ELSE c
           ds == {a(c) : c \in cs}
<1>1. Keyed!Abort(cs, id) = ds
  BY Zenon DEF Keyed!Abort
<1>2. ASSUME NEW c \in cs
      PROVE  /\ a(c) \in KeyedCallType /\ a(c).id = c.id /\ a(c).key = c.key
             /\ a(c).aborted <=> c.aborted \/ c.id = id
  <2>1. c \in KeyedCallType
    OBVIOUS
  <2>2. CASE c.id = id
    <3> DEFINE e == [c EXCEPT !.aborted = TRUE]
    <3>1. e \in KeyedCallType /\ e.id = c.id /\ e.key = c.key /\ e.aborted = TRUE
      BY <2>1 DEF KeyedCallType
    <3>2. a(c) = e
      BY <2>2
    <3> HIDE DEF e, a
    <3> QED BY <2>2, <3>1, <3>2
  <2>3. CASE c.id # id
    BY <2>1, <2>3
  <2> QED BY <2>2, <2>3
<1> HIDE DEF a
<1>3. ds \subseteq KeyedCallType
  BY <1>2
<1>4. \A d \in ds : \E c \in cs :
        d.id = c.id /\ d.key = c.key /\ (d.aborted <=> c.aborted \/ c.id = id)
  BY <1>2
<1>5. \A c \in cs : \E d \in ds : d.id = c.id
  BY <1>2
<1>6. (\A b, c \in cs : b.id = c.id => b = c) => (\A b, c \in ds : b.id = c.id => b = c)
  BY <1>2
<1> QED BY <1>1, <1>3, <1>4, <1>5, <1>6, Zenon DEF KeyedAborted

(* A load begins: with the call n of key, and the call before aborted.      *)
KeyedBegun(s, t, cs, ds, key, n) ==
  /\ t \in KeyedStates /\ t.controller = n /\ t.active = key /\ t.status = "loading"
  /\ t.loaded \in {s.loaded, None}
  /\ ds \subseteq KeyedCallType
  /\ \A d \in ds :
       \/ d.id = n /\ d.key = key /\ ~d.aborted
       \/ \E c \in cs : d.id = c.id /\ d.key = c.key /\ (d.aborted <=> c.aborted \/ c.id = s.controller)
  /\ \E d \in ds : d.id = n /\ d.key = key /\ ~d.aborted
  /\ \A c \in cs : \E d \in ds : d.id = c.id
  /\ (\A b, c \in cs : b.id = c.id => b = c) /\ (\A c \in cs : c.id < n) =>
       (\A b, c \in ds : b.id = c.id => b = c)

LEMMA KeyedBegins ==
  ASSUME NEW s \in KeyedStates, NEW cs \in SUBSET KeyedCallType, NEW key \in Keyed!Keys,
         NEW force \in BOOLEAN, keyedIssued \in Nat
  PROVE  LET next == Keyed!BeginLoad(s, cs, key, force)
         IN KeyedBegun(s, next.state, cs, next.calls, key, keyedIssued + 1)
<1> DEFINE next == Keyed!BeginLoad(s, cs, key, force)
           n == keyedIssued + 1
           loaded == IF force THEN None ELSE s.loaded
           shown == IF keyedPage = "index" THEN None ELSE s.shown
           t == [s EXCEPT !.controller = n, !.active = key, !.status = "loading",
                          !.loaded = loaded, !.shown = shown]
           load == [id |-> n, key |-> key, aborted |-> FALSE, answer |-> None]
           old == Keyed!Abort(cs, s.controller)
           ds == old \cup {load}
<1>1. next.state = t /\ next.calls = ds
  BY DEF Keyed!BeginLoad
<1>2. n \in Nat
  OBVIOUS
<1>3. /\ loaded \in {s.loaded, None} /\ loaded \in Keyed!Keys \cup {None}
      /\ shown \in [key : Keyed!Keys, list : SUBSET Elements] \cup {None}
  BY DEF KeyedStates
<1>4. load \in KeyedCallType /\ load.id = n /\ load.key = key /\ ~load.aborted
  BY <1>2 DEF KeyedCallType
<1>5. KeyedAborted(cs, old, s.controller)
  BY KeyedAborts
<1> HIDE DEF next, n, loaded, shown, load, old
<1>6. /\ t \in KeyedStates /\ t.controller = n /\ t.active = key /\ t.status = "loading"
      /\ t.loaded \in {s.loaded, None}
  BY <1>2, <1>3 DEF KeyedStates
<1> HIDE DEF t
<1>7. /\ ds \subseteq KeyedCallType
      /\ \A d \in ds :
           \/ d.id = n /\ d.key = key /\ ~d.aborted
           \/ \E c \in cs : d.id = c.id /\ d.key = c.key /\ (d.aborted <=> c.aborted \/ c.id = s.controller)
      /\ \E d \in ds : d.id = n /\ d.key = key /\ ~d.aborted
      /\ \A c \in cs : \E d \in ds : d.id = c.id
  BY <1>4, <1>5 DEF KeyedAborted
<1>8. ASSUME \A b, c \in cs : b.id = c.id => b = c, \A c \in cs : c.id < n
      PROVE  \A b, c \in ds : b.id = c.id => b = c
  <2>1. \A b, c \in old : b.id = c.id => b = c
    BY <1>5, <1>8 DEF KeyedAborted
  <2>2. \A c \in old : c.id # n
    <3>1. \A c \in cs : c.id \in Nat
      BY DEF KeyedCallType
    <3> QED BY <1>2, <1>5, <1>8, <3>1 DEF KeyedAborted
  <2> QED BY <1>4, <2>1, <2>2
<1> HIDE DEF ds
<1>9. KeyedBegun(s, t, cs, ds, key, n)
  BY <1>6, <1>7, <1>8, Zenon DEF KeyedBegun
<1> QED BY <1>1, <1>9 DEF next, n

(* The key that a page asks for.                                            *)
LEMMA KeyedKey ==
  ASSUME KeyedTyped, keyedSession # Keyed!Initializing \/ keyedPage = "home"
  PROVE  Keyed!Key \in Keyed!Keys /\ (keyedPage # "home" => Keyed!Key[2] = keyedSession)
<1>1. keyedSession # Keyed!Initializing => keyedSession \in Keyed!Tokens \cup {Keyed!Anonymous}
  BY KeyedRanks DEF KeyedTyped
<1> QED BY <1>1 DEF Keyed!Key, Keyed!Keys, KeyedTyped

(* A load that begins, from an effect or from an event at rest. It is of    *)
(* another key than the call that runs, if one does.                        *)
LEMMA KeyedBeginning ==
  ASSUME KeyedInv, NEW s \in KeyedStates, NEW force \in BOOLEAN,
         s.controller = keyedState.controller, s.loaded = keyedState.loaded,
         keyedSession # Keyed!Initializing \/ keyedPage = "home",
         ~Keyed!Settling, keyedPage = "weak" \/ keyedCalls = {} \/ Keyed!Key # keyedState.active,
         keyedState' = Keyed!BeginLoad(s, keyedCalls, Keyed!Key, force).state,
         keyedCalls' = Keyed!BeginLoad(s, keyedCalls, Keyed!Key, force).calls,
         keyedIssued < KeyedCalls, keyedIssued' = keyedIssued + 1,
         UNCHANGED <<keyedPage, keyedSession, keyedQuery>>,
         keyedSeen' \in KeyedSessions \X Modes,
         keyedPage # "home" => keyedSeen' = <<keyedSession, keyedQuery>>,
         KeyedRank(keyedSeen'[1]) <= KeyedRank(keyedSession)
  PROVE  /\ keyedState' \in KeyedStates /\ keyedCalls' \subseteq KeyedCallType
         /\ keyedIssued' \in 0 .. KeyedCalls
         /\ KeyedControl' /\ KeyedSeenOnly' /\ KeyedRuns'
         /\ \A c \in keyedCalls : \E d \in keyedCalls' : d.id = c.id
         /\ \E d \in keyedCalls' : d.id = keyedIssued + 1
<1>0. KeyedTyped /\ KeyedControl /\ KeyedSeenOnly /\ KeyedRuns
  BY DEF KeyedInv
<1> DEFINE n == keyedIssued + 1
           key == Keyed!Key
<1>1. keyedIssued \in Nat /\ keyedIssued' \in 0 .. KeyedCalls /\ n \in Nat
  BY <1>0, KeyedConstants DEF KeyedTyped
<1>2. key \in Keyed!Keys /\ (keyedPage # "home" => key[2] = keyedSession) /\ key # None
  BY <1>0, KeyedKey, KeyedKeys
<1>3. KeyedBegun(s, keyedState', keyedCalls, keyedCalls', key, n)
  BY <1>0, <1>1, <1>2, KeyedBegins DEF KeyedTyped
<1>4. (\A b, c \in keyedCalls : b.id = c.id => b = c) /\ (\A c \in keyedCalls : c.id < n /\ c.id > 0)
  <2>1. \A c \in keyedCalls : c.id \in Nat
    BY <1>0 DEF KeyedTyped, KeyedCallType
  <2> QED BY <1>0, <1>1, <2>1 DEF KeyedControl
<1>h. keyedIssued' = n
  OBVIOUS
<1> HIDE DEF n, key
<1>5. \A d \in keyedCalls' :
        \/ d.id = n /\ d.key = key /\ ~d.aborted
        \/ \E c \in keyedCalls : d.id = c.id /\ d.key = c.key /\ d.aborted /\ ~c.aborted
  BY <1>0, <1>3 DEF KeyedBegun, KeyedControl, Keyed!Settling
<1>6. KeyedControl'
  <2>1. \A b, c \in keyedCalls' : b.id = c.id => b = c
    BY <1>3, <1>4 DEF KeyedBegun
  <2>2. \A d \in keyedCalls' : d.id <= n /\ d.id > 0
    <3>1. \A c \in keyedCalls : c.id \in Nat
      BY <1>0 DEF KeyedTyped, KeyedCallType
    <3>2. n > 0
      BY <1>1 DEF n
    <3> QED BY <1>1, <1>4, <1>5, <3>1, <3>2
  <2>3. \A d \in keyedCalls' : ~d.aborted => d.id = keyedState'.controller /\ keyedState'.status = "loading"
    BY <1>3, <1>5 DEF KeyedBegun
  <2> QED BY <1>h, <2>1, <2>2, <2>3 DEF KeyedControl
<1>7. keyedSeen' # None /\ keyedSeen'[1] \in KeyedSessions
  BY KeyedConstants
<1>8. KeyedSeenOnly'
  <2>1. keyedPage # "home" => keyedSeen'[1] = keyedSession
    OBVIOUS
  <2>2. /\ keyedState'.active = key /\ keyedState'.status = "loading"
        /\ keyedState'.loaded \in {keyedState.loaded, None}
    BY <1>3 DEF KeyedBegun
  <2>3. ASSUME keyedPage # "home", keyedState'.loaded # None
        PROVE  KeyedRank(keyedState'.loaded[2]) <= KeyedRank(keyedSeen'[1])
    <3>1. keyedState'.loaded = keyedState.loaded /\ keyedState.loaded # None
      BY <2>2, <2>3
    <3>2. keyedSeen # None /\ keyedSeen[1] \in KeyedSessions
      BY <1>0, <3>1 DEF KeyedSeenOnly, KeyedTyped
    <3>3. /\ KeyedRank(keyedState.loaded[2]) <= KeyedRank(keyedSeen[1])
          /\ KeyedRank(keyedSeen[1]) <= KeyedRank(keyedSession)
      BY <1>0, <2>3, <3>1, <3>2 DEF KeyedSeenOnly
    <3>4. keyedState.loaded \in Keyed!Keys /\ keyedSession \in KeyedSessions
      BY <1>0, <3>1 DEF KeyedTyped, KeyedStates
    <3>5. /\ KeyedRank(keyedState.loaded[2]) \in Int /\ KeyedRank(keyedSeen[1]) \in Int
          /\ KeyedRank(keyedSession) \in Int
      BY <3>2, <3>4, KeyedRanks, KeyedKeys
    <3> QED BY <2>1, <2>3, <3>1, <3>3, <3>5
  <2> QED BY <1>2, <1>7, <2>1, <2>2, <2>3 DEF KeyedSeenOnly
<1>9. KeyedRuns'
  <2>1. ~Keyed!EffectDue'
    BY <1>7 DEF Keyed!EffectDue
  <2>2. keyedState'.active = key
    BY <1>3 DEF KeyedBegun
  <2>3. \E d \in keyedCalls' : ~d.aborted /\ d.key = key
    BY <1>3 DEF KeyedBegun
  <2>4. keyedPage # "weak" => \A d \in keyedCalls' : d.aborted <=> d.key # key
    BY <1>0, <1>5 DEF KeyedRuns, key
  <2> QED BY <2>1, <2>2, <2>3, <2>4 DEF KeyedRuns
<1> QED BY <1>1, <1>3, <1>6, <1>8, <1>9 DEF KeyedBegun, n

LEMMA KeyedClears ==
  ASSUME KeyedInv, Keyed!Clear, Keyed!EffectDue, keyedSession = Keyed!Anonymous,
         keyedPage # "home", keyedSeen' = <<keyedSession, keyedQuery>>,
         UNCHANGED <<keyedPage, keyedSession, keyedQuery, keyedDeletions, keyedWeak, keyedLeft>>
  PROVE  KeyedInv'
<1>0. KeyedTyped /\ KeyedControl /\ KeyedSeenOnly /\ KeyedRuns /\ KeyedReloads
  BY DEF KeyedInv
<1>1. /\ keyedState' = Keyed!Cleared /\ keyedIssued' = keyedIssued
      /\ keyedCalls' = Keyed!Abort(keyedCalls, keyedState.controller)
  BY DEF Keyed!Clear
<1>2. KeyedAborted(keyedCalls, keyedCalls', keyedState.controller)
  BY <1>0, <1>1, KeyedAborts DEF KeyedTyped
<1>3. \A d \in keyedCalls' : d.aborted /\ d.id <= keyedIssued /\ d.id > 0
  BY <1>0, <1>2 DEF KeyedAborted, KeyedControl
<1>4. /\ keyedState' \in KeyedStates /\ keyedState'.status = "idle" /\ keyedState'.active = None
      /\ keyedState'.loaded = None
  BY <1>1 DEF Keyed!Cleared, KeyedStates
<1>5. keyedSeen' \in KeyedSessions \X Modes /\ keyedSeen' # None /\ keyedSeen'[1] = keyedSession
  BY <1>0, KeyedConstants DEF KeyedTyped
<1>6. KeyedTyped'
  BY <1>0, <1>1, <1>2, <1>4, <1>5 DEF KeyedTyped, KeyedAborted
<1>7. KeyedControl'
  BY <1>0, <1>1, <1>2, <1>3 DEF KeyedControl, KeyedAborted
<1>8. KeyedSeenOnly'
  <2>1. KeyedRank(keyedSeen'[1]) <= KeyedRank(keyedSession)
    BY <1>0, <1>5, KeyedRanks DEF KeyedTyped
  <2> QED BY <1>4, <1>5, <2>1 DEF KeyedSeenOnly
<1>9. KeyedReloads'
  BY <1>0, <1>2 DEF KeyedReloads, KeyedAborted
<1>10. KeyedRuns'
  <2>1. ~Keyed!EffectDue'
    BY DEF Keyed!EffectDue
  <2>2. \A d \in keyedCalls' : d.key # None
    BY <1>2, KeyedConstants DEF KeyedAborted, KeyedCallType
  <2> QED BY <1>3, <1>4, <2>1, <2>2 DEF KeyedRuns
<1> QED BY <1>6, <1>7, <1>8, <1>9, <1>10 DEF KeyedInv

(* What the end of the load c makes of the state.                           *)
LEMMA KeyedRead ==
  ASSUME KeyedInv, NEW c \in keyedCalls, Keyed!Settle(c), c.aborted \/ c.answer # None
  PROVE  /\ keyedState' \in KeyedStates
         /\ keyedState'.active = IF keyedState.active = c.key THEN None ELSE keyedState.active
         /\ keyedState'.controller = IF keyedState.controller = c.id THEN 0 ELSE keyedState.controller
         /\ c.aborted \/ keyedState.active # c.key =>
              /\ keyedState'.status = keyedState.status /\ keyedState'.loaded = keyedState.loaded
              /\ keyedState'.shown = keyedState.shown
         /\ ~(c.aborted \/ keyedState.active # c.key) =>
              \/ keyedState'.status = "error" /\ keyedState'.loaded \in {None, c.key}
              \/ /\ keyedState'.status = "success" /\ keyedState'.loaded = c.key
                 /\ keyedState'.shown \in [key : Keyed!Keys, list : SUBSET Elements]
                 /\ keyedState'.shown.key = c.key
<1>0. keyedState \in KeyedStates /\ c \in KeyedCallType /\ keyedDeletions \subseteq KeyedDeletionType
  BY DEF KeyedInv, KeyedTyped
<1> DEFINE taken == ~c.aborted /\ keyedState.active = c.key
           lost == IF keyedPage = "home" THEN c.key ELSE None
           kept == [key |-> c.key, list |-> c.answer.list]
           failed == [keyedState EXCEPT !.status = "error", !.shown = None, !.loaded = lost]
           shown == [keyedState EXCEPT !.status = "success", !.loaded = c.key, !.shown = kept]
           read == IF ~taken THEN keyedState ELSE IF ~c.answer.ok THEN failed ELSE shown
           final == {d \in keyedDeletions : d.reload = c.id}
           active == IF read.active = c.key THEN None ELSE read.active
           controller == IF read.controller = c.id THEN 0 ELSE read.controller
           deleting == read.deleting \ {d.element : d \in final}
           t == [read EXCEPT !.active = active, !.controller = controller, !.deleting = deleting]
<1>1. keyedState' = t
  BY Zenon DEF Keyed!Settle
<1>2. lost \in Keyed!Keys \cup {None} /\ lost \in {None, c.key} /\ c.key \in Keyed!Keys
  BY <1>0 DEF KeyedCallType
<1>3. taken => kept \in [key : Keyed!Keys, list : SUBSET Elements] /\ kept.key = c.key
  <2>1. taken => c.answer \in [ok : BOOLEAN, list : SUBSET Elements]
    BY <1>0 DEF KeyedCallType
  <2> QED BY <1>2, <2>1
<1> HIDE DEF lost, kept
<1>4. /\ failed \in KeyedStates /\ failed.active = keyedState.active
      /\ failed.controller = keyedState.controller /\ failed.deleting = keyedState.deleting
      /\ failed.status = "error" /\ failed.loaded = lost
  BY <1>0, <1>2 DEF KeyedStates
<1>5. taken => /\ shown \in KeyedStates /\ shown.active = keyedState.active
               /\ shown.controller = keyedState.controller /\ shown.deleting = keyedState.deleting
               /\ shown.status = "success" /\ shown.loaded = c.key /\ shown.shown = kept
  BY <1>0, <1>2, <1>3 DEF KeyedStates
<1> HIDE DEF failed, shown
<1>6. /\ read \in KeyedStates /\ read.active = keyedState.active
      /\ read.controller = keyedState.controller
      /\ ~taken => read = keyedState
      /\ taken => \/ read.status = "error" /\ read.loaded = lost
                  \/ read.status = "success" /\ read.loaded = c.key /\ read.shown = kept
  BY <1>0, <1>4, <1>5
<1> HIDE DEF read
<1>7. active \in Keyed!Keys \cup {None} /\ controller \in Nat /\ deleting \in SUBSET Elements
  BY <1>6 DEF KeyedStates
<1>d. /\ active = IF keyedState.active = c.key THEN None ELSE keyedState.active
      /\ controller = IF keyedState.controller = c.id THEN 0 ELSE keyedState.controller
  BY <1>6
<1> HIDE DEF active, controller, deleting
<1>8. /\ t \in KeyedStates /\ t.active = active /\ t.controller = controller
      /\ t.status = read.status /\ t.loaded = read.loaded /\ t.shown = read.shown
  BY <1>6, <1>7 DEF KeyedStates
<1> HIDE DEF t
<1> QED BY <1>1, <1>2, <1>3, <1>6, <1>8, <1>d

LEMMA KeyedSettles ==
  ASSUME KeyedInv, NEW c \in keyedCalls, Keyed!Settle(c),
         c.aborted \/ (Keyed!Quiet /\ c.answer # None)
  PROVE  KeyedInv'
<1>0. KeyedTyped /\ KeyedControl /\ KeyedSeenOnly /\ KeyedRuns /\ KeyedReloads
  BY DEF KeyedInv
<1>1. /\ keyedCalls' = keyedCalls \ {c}
      /\ keyedDeletions' = keyedDeletions \ {d \in keyedDeletions : d.reload = c.id}
      /\ UNCHANGED <<keyedPage, keyedSession, keyedQuery, keyedSeen, keyedWeak, keyedIssued, keyedLeft>>
  BY Zenon DEF Keyed!Settle
<1> DEFINE taken == ~(c.aborted \/ keyedState.active # c.key)
<1>2. /\ keyedState' \in KeyedStates
      /\ keyedState'.active = IF keyedState.active = c.key THEN None ELSE keyedState.active
      /\ keyedState'.controller = IF keyedState.controller = c.id THEN 0 ELSE keyedState.controller
      /\ ~taken =>
           /\ keyedState'.status = keyedState.status /\ keyedState'.loaded = keyedState.loaded
           /\ keyedState'.shown = keyedState.shown
      /\ taken =>
           \/ keyedState'.status = "error" /\ keyedState'.loaded \in {None, c.key}
           \/ /\ keyedState'.status = "success" /\ keyedState'.loaded = c.key
              /\ keyedState'.shown \in [key : Keyed!Keys, list : SUBSET Elements]
              /\ keyedState'.shown.key = c.key
  BY KeyedRead
<1>3. ~c.aborted => keyedCalls' = {} /\ ~Keyed!EffectDue
  <2>1. ~c.aborted => Keyed!Quiet
    OBVIOUS
  <2> QED BY <1>0, <1>1, <2>1 DEF Keyed!Quiet, Keyed!Settling, KeyedControl
<1>t. taken => ~c.aborted /\ keyedState.active = c.key
  OBVIOUS
<1>u. ~taken => c.aborted \/ (~c.aborted /\ keyedState.active # c.key)
  OBVIOUS
<1>s. keyedSeen # None /\ keyedSeen \in KeyedSessions \X Modes
  BY <1>0 DEF KeyedSeenOnly, KeyedTyped
<1>k. c.key \in Keyed!Keys /\ c.key # None
  BY <1>0, KeyedConstants DEF KeyedTyped, KeyedCallType
<1> HIDE DEF taken
<1>4. KeyedTyped'
  BY <1>0, <1>1, <1>2 DEF KeyedTyped
<1>5. KeyedControl'
  <2>1. \A b \in keyedCalls' : ~b.aborted =>
          b.id = keyedState'.controller /\ keyedState'.status = "loading"
    <3> SUFFICES ASSUME NEW b \in keyedCalls', ~b.aborted
                 PROVE  b.id = keyedState'.controller /\ keyedState'.status = "loading"
      OBVIOUS
    <3>1. c.aborted /\ b \in keyedCalls /\ b # c
      BY <1>1, <1>3
    <3>2. b.id = keyedState.controller /\ keyedState.status = "loading" /\ b.id # c.id
      BY <1>0, <3>1 DEF KeyedControl
    <3>3. ~taken
      BY <1>t, <3>1
    <3> QED BY <1>2, <3>2, <3>3
  <2> QED BY <1>0, <1>1, <2>1 DEF KeyedControl
<1>6. KeyedSeenOnly'
  <2>1. CASE taken
    <3>1. keyedState'.active = None /\ keyedState'.loaded \in {None, c.key} /\ keyedState.active = c.key
      BY <1>2, <1>t, <2>1
    <3>2. keyedPage # "home" => c.key[2] = keyedSeen[1]
      BY <1>0, <1>k, <3>1 DEF KeyedSeenOnly
    <3>3. KeyedRank(keyedSeen[1]) \in Int
      BY <1>s, KeyedRanks
    <3>4. ASSUME keyedPage # "home" 
          PROVE  /\ keyedState'.loaded # None =>
                      KeyedRank(keyedState'.loaded[2]) <= KeyedRank(keyedSeen'[1])
                 /\ keyedState'.status = "success" => keyedState'.loaded[2] = keyedSeen'[1]
      BY <1>1, <1>2, <2>1, <3>1, <3>2, <3>3, <3>4
    <3>5. keyedState'.status = "success" =>
            /\ keyedState'.loaded # None
            /\ keyedState'.shown \in [key : Keyed!Keys, list : SUBSET Elements]
            /\ keyedState'.shown.key = keyedState'.loaded
      BY <1>2, <1>k, <2>1
    <3> QED BY <1>0, <1>1, <1>s, <3>1, <3>4, <3>5 DEF KeyedSeenOnly
  <2>2. CASE ~taken
    <3>1. /\ keyedState'.active \in {keyedState.active, None}
          /\ keyedState'.status = keyedState.status /\ keyedState'.loaded = keyedState.loaded
          /\ keyedState'.shown = keyedState.shown
      BY <1>2, <2>2
    <3> QED BY <1>0, <1>1, <1>s, <3>1 DEF KeyedSeenOnly
  <2> QED BY <2>1, <2>2
<1>7. KeyedReloads'
  <2>1. \A d \in keyedDeletions' : d \in keyedDeletions /\ d.reload # c.id
    BY <1>1
  <2> QED BY <1>0, <1>1, <2>1 DEF KeyedReloads
<1>8. KeyedRuns'
  <2>1. Keyed!EffectDue' => ~Keyed!Settling'
    <3>1. Keyed!EffectDue' <=> Keyed!EffectDue
      BY <1>1 DEF Keyed!EffectDue
    <3>2. CASE c.aborted
      BY <1>0, <3>1, <3>2 DEF KeyedRuns, Keyed!Settling
    <3>3. CASE ~c.aborted
      BY <1>3, <3>1, <3>3
    <3> QED BY <3>2, <3>3
  <2>2. ASSUME keyedPage # "weak"
        PROVE  /\ \A b \in keyedCalls' : b.aborted <=> b.key # keyedState'.active
               /\ keyedState'.status = "loading" =>
                    \E b \in keyedCalls' : ~b.aborted /\ b.key = keyedState'.active
    <3>1. /\ \A b \in keyedCalls : b.aborted <=> b.key # keyedState.active
          /\ keyedState.status = "loading" /\ ~(keyedPage = "home" /\ keyedSeen = None) =>
               \E b \in keyedCalls : ~b.aborted /\ b.key = keyedState.active
      BY <1>0, <2>2, Zenon DEF KeyedRuns
    <3>2. CASE c.aborted
      <4>1. keyedState'.active = keyedState.active /\ ~taken
        BY <1>2, <1>t, <3>1, <3>2
      <4> QED BY <1>1, <1>2, <1>s, <3>1, <3>2, <4>1
    <3>3. CASE ~c.aborted
      <4>1. taken
        BY <1>u, <3>1, <3>3
      <4>2. keyedState'.status # "loading" /\ keyedCalls' = {}
        BY <1>2, <1>3, <3>3, <4>1
      <4> QED BY <4>2
    <3> QED BY <3>2, <3>3
  <2> QED BY <1>1, <2>1, <2>2 DEF KeyedRuns
<1> QED BY <1>4, <1>5, <1>6, <1>7, <1>8 DEF KeyedInv

(* An effect that has nothing to load.                                      *)
LEMMA KeyedLooks ==
  ASSUME KeyedInv, Keyed!Runs, UNCHANGED <<keyedState, keyedCalls, keyedIssued>>,
         \/ keyedSession = Keyed!Initializing /\ keyedPage # "home"
         \/ /\ keyedSession # Keyed!Initializing \/ keyedPage = "home"
            /\ Keyed!Key \in {keyedState.active, keyedState.loaded}
  PROVE  KeyedInv'
<1>0. KeyedTyped /\ KeyedControl /\ KeyedSeenOnly /\ KeyedRuns /\ KeyedReloads
  BY DEF KeyedInv
<1>1. /\ Keyed!EffectDue /\ keyedSeen' = <<keyedSession, keyedQuery>>
      /\ UNCHANGED <<keyedPage, keyedSession, keyedQuery, keyedDeletions, keyedWeak, keyedLeft>>
  BY DEF Keyed!Runs
<1>2. /\ keyedSeen' \in KeyedSessions \X Modes /\ keyedSeen' # None
      /\ keyedSeen'[1] = keyedSession /\ keyedSession \in KeyedSessions
  BY <1>0, <1>1, KeyedConstants DEF KeyedTyped
<1>3. /\ keyedState.active \in Keyed!Keys \cup {None} /\ keyedState.loaded \in Keyed!Keys \cup {None}
  BY <1>0 DEF KeyedTyped, KeyedStates
<1>4. keyedSeen # None =>
        keyedSeen[1] \in KeyedSessions /\ KeyedRank(keyedSeen[1]) <= KeyedRank(keyedSession)
  BY <1>0 DEF KeyedTyped, KeyedSeenOnly
<1>5. KeyedTyped' /\ KeyedControl' /\ KeyedReloads'
  BY <1>0, <1>1, <1>2 DEF KeyedTyped, KeyedControl, KeyedReloads
<1>6. KeyedRank(keyedSession) \in Int
  BY <1>2, KeyedRanks
<1>7. ASSUME keyedPage # "home", keyedState.loaded # None
      PROVE  KeyedRank(keyedState.loaded[2]) <= KeyedRank(keyedSession)
  <2>1. keyedSeen # None /\ keyedState.loaded[2] \in KeyedSessions
    BY <1>0, <1>3, <1>7, KeyedKeys DEF KeyedSeenOnly
  <2>2. KeyedRank(keyedState.loaded[2]) <= KeyedRank(keyedSeen[1])
    BY <1>0, <1>7, <2>1 DEF KeyedSeenOnly
  <2>3. KeyedRank(keyedState.loaded[2]) \in Int /\ KeyedRank(keyedSeen[1]) \in Int
    BY <1>4, <2>1, KeyedRanks
  <2> QED BY <1>4, <1>6, <2>1, <2>2, <2>3
<1>8. CASE keyedSession = Keyed!Initializing /\ keyedPage # "home"
  <2>1. keyedState.loaded = None
    BY <1>3, <1>7, <1>8, KeyedKeys, KeyedRanks
  <2>2. keyedState.active = None
    <3>1. keyedState.active # None => keyedSeen # None /\ keyedState.active[2] = keyedSeen[1]
      BY <1>0, <1>8 DEF KeyedSeenOnly
    <3>2. keyedSeen # None => keyedSeen[1] = Keyed!Initializing
      BY <1>4, <1>8, KeyedRanks
    <3> QED BY <1>3, <3>1, <3>2, KeyedKeys
  <2>3. KeyedSeenOnly'
    BY <1>0, <1>1, <1>2, <1>6, <2>1, <2>2 DEF KeyedSeenOnly
  <2>4. KeyedRuns'
    BY <1>0, <1>1, <1>8 DEF KeyedRuns, Keyed!EffectDue
  <2> QED BY <1>5, <2>3, <2>4 DEF KeyedInv
<1>9. CASE /\ keyedSession # Keyed!Initializing \/ keyedPage = "home"
           /\ Keyed!Key \in {keyedState.active, keyedState.loaded}
  <2>1. Keyed!Key \in Keyed!Keys /\ Keyed!Key # None
        /\ (keyedPage # "home" => Keyed!Key[2] = keyedSession)
    BY <1>0, <1>9, KeyedKey, KeyedKeys
  <2>2. keyedSeen # None
    BY <1>0, <1>9, <2>1 DEF KeyedSeenOnly
  <2>3. keyedPage # "home"
    BY <1>1, <2>2 DEF Keyed!EffectDue
  <2>4. keyedState.active # None => keyedState.active[2] = keyedSession
    <3>1. CASE Keyed!Key = keyedState.active
      BY <2>1, <2>3, <3>1
    <3>2. CASE Keyed!Key = keyedState.loaded
      <4>1. KeyedRank(keyedSession) <= KeyedRank(keyedSeen[1])
        BY <1>0, <2>1, <2>3, <3>2 DEF KeyedSeenOnly
      <4>2. keyedSeen[1] = keyedSession
        BY <1>2, <1>4, <2>2, <4>1, KeyedRanks
      <4> QED BY <1>0, <2>3, <4>2 DEF KeyedSeenOnly
    <3> QED BY <1>9, <3>1, <3>2
  <2>5. keyedState.status = "success" => keyedState.loaded[2] = keyedSession
    <3>1. keyedState.status = "success" => keyedState.active = None
      BY <1>0 DEF KeyedSeenOnly
    <3> QED BY <1>9, <2>1, <2>3, <3>1
  <2>6. KeyedSeenOnly'
    BY <1>0, <1>1, <1>2, <1>6, <1>7, <2>3, <2>4, <2>5 DEF KeyedSeenOnly
  <2>7. KeyedRuns'
    BY <1>0, <1>1, <2>3 DEF KeyedRuns, Keyed!EffectDue
  <2> QED BY <1>5, <2>6, <2>7 DEF KeyedInv
<1> QED BY <1>8, <1>9

(* A load from an effect, a button or an answered deletion.                 *)
LEMMA KeyedEffects ==
  ASSUME KeyedInv, Keyed!Effect
  PROVE  KeyedInv'
<1>0. KeyedTyped /\ KeyedControl /\ KeyedSeenOnly /\ KeyedRuns /\ KeyedReloads
  BY DEF KeyedInv
<1>1. /\ Keyed!Runs /\ Keyed!EffectDue /\ keyedSeen' = <<keyedSession, keyedQuery>>
      /\ UNCHANGED <<keyedPage, keyedSession, keyedQuery, keyedDeletions, keyedWeak, keyedLeft>>
  BY DEF Keyed!Effect, Keyed!Runs
<1>2. CASE Keyed!Skip
  BY <1>1, <1>2, KeyedLooks DEF Keyed!Skip
<1>3. CASE keyedSession = Keyed!Anonymous /\ keyedPage # "home" /\ Keyed!Clear
  BY <1>1, <1>3, KeyedClears
<1>4. CASE (keyedSession # Keyed!Initializing \/ keyedPage = "home") /\ Keyed!Load(FALSE)
  <2>1. CASE ~Keyed!Wanted(FALSE)
    <3>1. UNCHANGED <<keyedState, keyedCalls, keyedIssued>>
      BY <1>4, <2>1 DEF Keyed!Load
    <3>2. Keyed!Key \in {keyedState.active, keyedState.loaded}
      BY <2>1 DEF Keyed!Wanted
    <3> QED BY <1>1, <1>4, <3>1, <3>2, KeyedLooks
  <2>2. CASE Keyed!Wanted(FALSE)
    <3> DEFINE next == Keyed!BeginLoad(keyedState, keyedCalls, Keyed!Key, FALSE)
    <3>1. /\ keyedIssued < KeyedCalls /\ keyedIssued' = keyedIssued + 1
          /\ keyedState' = next.state /\ keyedCalls' = next.calls
      BY <1>4, <2>2, Zenon DEF Keyed!Load
    <3> HIDE DEF next
    <3>2. Keyed!Key # keyedState.active /\ ~Keyed!Settling
      BY <1>0, <1>1, <2>2 DEF Keyed!Wanted, KeyedRuns
    <3>3. /\ keyedSeen' \in KeyedSessions \X Modes /\ keyedSeen'[1] = keyedSession
          /\ KeyedRank(keyedSession) \in Int /\ keyedState \in KeyedStates
      BY <1>0, <1>1, KeyedRanks DEF KeyedTyped
    <3>4. FALSE \in BOOLEAN /\ KeyedRank(keyedSeen'[1]) <= KeyedRank(keyedSession)
      BY <3>3
    <3>5. /\ keyedState' \in KeyedStates /\ keyedCalls' \subseteq KeyedCallType
          /\ keyedIssued' \in 0 .. KeyedCalls
          /\ KeyedControl' /\ KeyedSeenOnly' /\ KeyedRuns'
          /\ \A c \in keyedCalls : \E d \in keyedCalls' : d.id = c.id
      BY <1>1, <1>4, <3>1, <3>2, <3>3, <3>4, KeyedBeginning DEF next
    <3>6. KeyedTyped'
      BY <1>0, <1>1, <3>3, <3>5 DEF KeyedTyped
    <3>7. KeyedReloads'
      BY <1>0, <1>1, <3>5 DEF KeyedReloads
    <3> QED BY <3>5, <3>6, <3>7 DEF KeyedInv
  <2> QED BY <2>1, <2>2
<1>5. keyedSession \in Keyed!Tokens => keyedSession # Keyed!Initializing
  BY KeyedConstants
<1> QED BY <1>2, <1>3, <1>4, <1>5
        DEF Keyed!Effect, Keyed!ClearWeak, Keyed!ClearWeakCount, Keyed!ResetStats,
            Keyed!LoadRanking, Keyed!LoadWeakElements, Keyed!LoadWeakCount, Keyed!LoadStats,
            Keyed!LoadRankingPreview

(* At rest: what the effect saw, and the calls that run.                    *)
LEMMA KeyedAtRest ==
  ASSUME KeyedInv, Keyed!Quiet
  PROVE  /\ ~Keyed!Settling /\ keyedSeen # None /\ keyedSeen \in KeyedSessions \X Modes
         /\ keyedPage # "home" => keyedSeen = <<keyedSession, keyedQuery>>
         /\ KeyedRank(keyedSeen[1]) <= KeyedRank(keyedSession)
         /\ keyedState.status # "loading" => keyedCalls = {}
<1>0. KeyedTyped /\ KeyedControl /\ KeyedSeenOnly /\ KeyedRuns /\ KeyedReloads
  BY DEF KeyedInv
<1>1. ~Keyed!Settling /\ ~Keyed!EffectDue
  BY DEF Keyed!Quiet
<1>2. keyedPage # "home" => keyedSeen = <<keyedSession, keyedQuery>>
  BY <1>1 DEF Keyed!EffectDue
<1>3. keyedSeen # None
  <2>1. <<keyedSession, keyedQuery>> # None
    BY <1>0, KeyedConstants DEF KeyedTyped
  <2> QED BY <1>1, <1>2, <2>1 DEF Keyed!EffectDue
<1>4. keyedSeen \in KeyedSessions \X Modes /\ KeyedRank(keyedSeen[1]) <= KeyedRank(keyedSession)
  BY <1>0, <1>3 DEF KeyedTyped, KeyedSeenOnly
<1>5. keyedState.status # "loading" => keyedCalls = {}
  BY <1>0, <1>1 DEF KeyedControl, Keyed!Settling
<1> QED BY <1>1, <1>2, <1>3, <1>4, <1>5

LEMMA KeyedRetries ==
  ASSUME KeyedInv, Keyed!Retry
  PROVE  KeyedInv'
<1>0. KeyedTyped /\ KeyedControl /\ KeyedSeenOnly /\ KeyedRuns /\ KeyedReloads
  BY DEF KeyedInv
<1>1. /\ Keyed!Quiet /\ keyedLeft > 0 /\ keyedLeft' = keyedLeft - 1 /\ keyedState.status = "error"
      /\ (keyedSession # Keyed!Initializing \/ keyedPage = "home") /\ Keyed!Load(TRUE)
      /\ UNCHANGED <<keyedPage, keyedSession, keyedQuery, keyedSeen, keyedDeletions, keyedWeak>>
  <2>1. keyedSession \in Keyed!Tokens => keyedSession # Keyed!Initializing
    BY KeyedConstants
  <2> QED BY <2>1 DEF Keyed!Retry, Keyed!User, Keyed!LoadRanking, Keyed!LoadWeakElements,
             Keyed!LoadWeakCount, Keyed!LoadStats, Keyed!LoadRankingPreview
<1> DEFINE next == Keyed!BeginLoad(keyedState, keyedCalls, Keyed!Key, TRUE)
<1>2. Keyed!Wanted(TRUE)
  BY DEF Keyed!Wanted
<1>3. /\ keyedIssued < KeyedCalls /\ keyedIssued' = keyedIssued + 1
      /\ keyedState' = next.state /\ keyedCalls' = next.calls
  BY <1>1, <1>2, Zenon DEF Keyed!Load
<1> HIDE DEF next
<1>4. /\ ~Keyed!Settling /\ keyedCalls = {} /\ keyedSeen' \in KeyedSessions \X Modes
      /\ keyedPage # "home" => keyedSeen' = <<keyedSession, keyedQuery>>
      /\ KeyedRank(keyedSeen'[1]) <= KeyedRank(keyedSession)
      /\ keyedState \in KeyedStates /\ TRUE \in BOOLEAN
  BY <1>0, <1>1, KeyedAtRest DEF KeyedTyped
<1>5. /\ keyedState' \in KeyedStates /\ keyedCalls' \subseteq KeyedCallType
      /\ keyedIssued' \in 0 .. KeyedCalls
      /\ KeyedControl' /\ KeyedSeenOnly' /\ KeyedRuns'
      /\ \A c \in keyedCalls : \E d \in keyedCalls' : d.id = c.id
  BY <1>1, <1>3, <1>4, KeyedBeginning DEF next
<1>6. KeyedTyped'
  <2>1. keyedLeft' \in 0 .. KeyedSteps
    BY <1>0, <1>1, KeyedConstants DEF KeyedTyped
  <2> QED BY <1>0, <1>1, <1>5, <2>1 DEF KeyedTyped
<1>7. KeyedReloads'
  BY <1>0, <1>1, <1>5 DEF KeyedReloads
<1> QED BY <1>5, <1>6, <1>7 DEF KeyedInv

(* What leaves the loads alone.                                             *)
LEMMA KeyedAside ==
  ASSUME KeyedInv, keyedState' \in KeyedStates,
         /\ keyedState'.controller = keyedState.controller /\ keyedState'.active = keyedState.active
         /\ keyedState'.loaded = keyedState.loaded /\ keyedState'.status = keyedState.status
         /\ keyedState'.shown = keyedState.shown,
         UNCHANGED <<keyedPage, keyedSession, keyedQuery, keyedSeen, keyedCalls, keyedIssued>>,
         keyedSeen # None, keyedWeak' \subseteq Elements, keyedLeft' \in 0 .. KeyedSteps,
         keyedDeletions' \subseteq KeyedDeletionType, KeyedReloads'
  PROVE  KeyedInv'
<1>0. KeyedTyped /\ KeyedControl /\ KeyedSeenOnly /\ KeyedRuns
  BY DEF KeyedInv
<1>1. KeyedTyped' /\ KeyedControl'
  BY <1>0 DEF KeyedTyped, KeyedControl
<1>2. KeyedSeenOnly'
  BY <1>0 DEF KeyedSeenOnly
<1>3. KeyedRuns'
  BY <1>0 DEF KeyedRuns, Keyed!EffectDue, Keyed!Settling
<1> QED BY <1>1, <1>2, <1>3 DEF KeyedInv

LEMMA KeyedServes ==
  ASSUME KeyedInv, Keyed!Serve
  PROVE  KeyedInv'
<1>0. KeyedTyped /\ KeyedControl /\ KeyedSeenOnly /\ KeyedRuns /\ KeyedReloads
  BY DEF KeyedInv
<1>1. PICK c \in keyedCalls, ok \in BOOLEAN :
        keyedCalls' = (keyedCalls \ {c})
           \cup {[c EXCEPT !.answer = [ok |-> ok, list |-> IF ok THEN keyedWeak ELSE {}]]}
  BY DEF Keyed!Serve
<1>2. UNCHANGED <<keyedPage, keyedSession, keyedQuery, keyedSeen, keyedState, keyedDeletions,
                  keyedWeak, keyedIssued, keyedLeft>>
  BY DEF Keyed!Serve
<1> DEFINE a == [ok |-> ok, list |-> IF ok THEN keyedWeak ELSE {}]
           e == [c EXCEPT !.answer = a]
<1>3. a \in [ok : BOOLEAN, list : SUBSET Elements]
  <2>1. keyedWeak \in SUBSET Elements
    BY <1>0 DEF KeyedTyped
  <2>2. CASE ok = TRUE
    <3>1. [ok |-> TRUE, list |-> keyedWeak] \in [ok : BOOLEAN, list : SUBSET Elements]
      BY <2>1
    <3> QED BY <2>2, <3>1
  <2>3. CASE ok = FALSE
    <3>1. [ok |-> FALSE, list |-> {}] \in [ok : BOOLEAN, list : SUBSET Elements]
      OBVIOUS
    <3> QED BY <2>3, <3>1
  <2> QED BY <2>2, <2>3
<1>4. keyedCalls' = (keyedCalls \ {c}) \cup {e}
  BY <1>1
<1> HIDE DEF a
<1>5. e \in KeyedCallType /\ e.id = c.id /\ e.key = c.key /\ e.aborted = c.aborted
  BY <1>0, <1>3 DEF KeyedTyped, KeyedCallType
<1> HIDE DEF e
<1>6. KeyedTyped'
  BY <1>0, <1>2, <1>4, <1>5 DEF KeyedTyped
<1>7. KeyedControl'
  BY <1>0, <1>2, <1>4, <1>5 DEF KeyedControl
<1>8. KeyedSeenOnly'
  BY <1>0, <1>2 DEF KeyedSeenOnly
<1>9. KeyedReloads'
  BY <1>0, <1>2, <1>4, <1>5 DEF KeyedReloads
<1>10. KeyedRuns'
  <2>1. ~Keyed!Settling'
    BY <1>0, <1>4, <1>5, KeyedAtRest DEF Keyed!Settling, Keyed!Serve
  <2>2. ASSUME keyedPage # "weak"
        PROVE  /\ \A b \in keyedCalls' : b.aborted <=> b.key # keyedState'.active
               /\ keyedState'.status = "loading" /\ ~(keyedPage' = "home" /\ keyedSeen' = None) =>
                    \E b \in keyedCalls' : ~b.aborted /\ b.key = keyedState'.active
    <3>1. /\ \A b \in keyedCalls : b.aborted <=> b.key # keyedState.active
          /\ keyedState.status = "loading" /\ ~(keyedPage = "home" /\ keyedSeen = None) =>
               \E b \in keyedCalls : ~b.aborted /\ b.key = keyedState.active
      BY <1>0, <2>2, Zenon DEF KeyedRuns
    <3> QED BY <1>2, <1>4, <1>5, <3>1
  <2> QED BY <1>2, <2>1, <2>2 DEF KeyedRuns
<1> QED BY <1>6, <1>7, <1>8, <1>9, <1>10 DEF KeyedInv

LEMMA KeyedUser ==
  ASSUME KeyedInv, Keyed!User
  PROVE  Keyed!Quiet /\ keyedLeft' \in 0 .. KeyedSteps
BY KeyedConstants DEF Keyed!User, KeyedInv, KeyedTyped

LEMMA KeyedMoves ==
  ASSUME KeyedInv, Keyed!Navigate \/ Keyed!SessionChanges
  PROVE  KeyedInv'
<1>0. KeyedTyped /\ KeyedControl /\ KeyedSeenOnly /\ KeyedRuns /\ KeyedReloads
  BY DEF KeyedInv
<1>1. /\ Keyed!User
      /\ UNCHANGED <<keyedPage, keyedSeen, keyedState, keyedCalls, keyedDeletions, keyedWeak, keyedIssued>>
  BY DEF Keyed!Navigate, Keyed!SessionChanges
<1>2. ~Keyed!Settling /\ keyedSeen # None /\ keyedSeen[1] \in KeyedSessions
      /\ KeyedRank(keyedSeen[1]) <= KeyedRank(keyedSession) /\ keyedLeft' \in 0 .. KeyedSteps
  BY <1>1, KeyedUser, KeyedAtRest
<1>3. /\ keyedSession' \in KeyedSessions /\ keyedQuery' \in Modes
      /\ KeyedRank(keyedSession) <= KeyedRank(keyedSession')
      /\ keyedSession # Keyed!Initializing => keyedSession' # Keyed!Initializing
  <2>1. CASE Keyed!Navigate
    <3>1. keyedSession' = keyedSession /\ keyedQuery' \in Modes
      BY <2>1 DEF Keyed!Navigate
    <3>2. keyedSession \in KeyedSessions /\ KeyedRank(keyedSession) \in Int
      BY <1>0, KeyedRanks DEF KeyedTyped
    <3> QED BY <3>1, <3>2
  <2>2. CASE Keyed!SessionChanges
    <3>1. /\ keyedQuery' = keyedQuery /\ keyedSession # Keyed!Anonymous
          /\ \/ keyedSession' = Keyed!Anonymous
             \/ keyedSession < MaxToken
                  /\ keyedSession' = IF keyedSession = Keyed!Initializing THEN 1 ELSE keyedSession + 1
      BY <2>2 DEF Keyed!SessionChanges
    <3>2. keyedSession \in KeyedSessions /\ keyedQuery \in Modes
      BY <1>0 DEF KeyedTyped
    <3>3. CASE keyedSession' = Keyed!Anonymous
      BY <3>1, <3>2, <3>3, KeyedRanks, KeyedConstants DEF KeyedSessions
    <3>4. CASE keyedSession < MaxToken
                 /\ keyedSession' = IF keyedSession = Keyed!Initializing THEN 1 ELSE keyedSession + 1
      BY <3>1, <3>2, <3>4, KeyedConstants DEF KeyedSessions, KeyedRank
    <3> QED BY <3>1, <3>2, <3>3, <3>4
  <2> QED BY <2>1, <2>2
<1>4. KeyedTyped' /\ KeyedControl'
  BY <1>0, <1>1, <1>2, <1>3 DEF KeyedTyped, KeyedControl
<1>5. KeyedSeenOnly'
  <2>1. KeyedRank(keyedSeen[1]) <= KeyedRank(keyedSession')
    <3>1. KeyedRank(keyedSeen[1]) \in Int /\ KeyedRank(keyedSession) \in Int /\ KeyedRank(keyedSession') \in Int
      BY <1>0, <1>2, <1>3, KeyedRanks DEF KeyedTyped
    <3> QED BY <1>2, <1>3, <3>1
  <2> QED BY <1>0, <1>1, <1>2, <2>1 DEF KeyedSeenOnly
<1>6. KeyedReloads'
  BY <1>0, <1>1, <1>3 DEF KeyedReloads
<1>7. KeyedRuns'
  BY <1>0, <1>1, <1>2 DEF KeyedRuns, Keyed!Settling
<1> QED BY <1>4, <1>5, <1>6, <1>7 DEF KeyedInv

LEMMA KeyedRequests ==
  ASSUME KeyedInv, Keyed!RequestDelete \/ Keyed!ConfirmDelete
  PROVE  KeyedInv'
<1>0. KeyedTyped /\ KeyedControl /\ KeyedSeenOnly /\ KeyedRuns /\ KeyedReloads
  BY DEF KeyedInv
<1>1. /\ Keyed!User /\ Keyed!Listed
      /\ UNCHANGED <<keyedPage, keyedSession, keyedQuery, keyedSeen, keyedCalls, keyedWeak, keyedIssued>>
  BY DEF Keyed!RequestDelete, Keyed!ConfirmDelete
<1>2. keyedLeft' \in 0 .. KeyedSteps /\ keyedSeen # None
  BY <1>1, KeyedUser, KeyedAtRest
<1>3. /\ keyedState.shown.list \subseteq Elements /\ keyedState \in KeyedStates
      /\ keyedPage = "weak" /\ keyedSession # Keyed!Initializing /\ keyedWeak' \subseteq Elements
  BY <1>0, <1>1, KeyedConstants DEF Keyed!Listed, KeyedSeenOnly, KeyedTyped
<1>4. CASE Keyed!RequestDelete
  <2>1. PICK e \in keyedState.shown.list : keyedState' = [keyedState EXCEPT !.confirming = e]
    BY <1>4 DEF Keyed!RequestDelete
  <2>2. keyedDeletions' = keyedDeletions
    BY <1>4 DEF Keyed!RequestDelete
  <2>3. /\ keyedState' \in KeyedStates
        /\ keyedState'.controller = keyedState.controller /\ keyedState'.active = keyedState.active
        /\ keyedState'.loaded = keyedState.loaded /\ keyedState'.status = keyedState.status
        /\ keyedState'.shown = keyedState.shown
    BY <1>3, <2>1 DEF KeyedStates
  <2>4. KeyedReloads' /\ keyedDeletions' \subseteq KeyedDeletionType
    BY <1>0, <1>1, <2>2 DEF KeyedReloads, KeyedTyped
  <2> QED BY <1>1, <1>2, <1>3, <2>3, <2>4, KeyedAside
<1>5. CASE Keyed!ConfirmDelete
  <2> DEFINE deleting == keyedState.deleting \cup {keyedState.confirming}
             d == [element |-> keyedState.confirming, gone |-> FALSE, reload |-> 0]
  <2>1. /\ keyedState.confirming \in keyedState.shown.list
        /\ keyedState' = [keyedState EXCEPT !.deleting = deleting]
        /\ keyedDeletions' = keyedDeletions \cup {d}
    BY <1>5 DEF Keyed!ConfirmDelete
  <2>2. deleting \in SUBSET Elements
    BY <1>3, <2>1 DEF KeyedStates
  <2>3. d \in KeyedDeletionType /\ d.reload = 0
    BY <1>3, <2>1 DEF KeyedDeletionType
  <2> HIDE DEF deleting, d
  <2>4. /\ keyedState' \in KeyedStates
        /\ keyedState'.controller = keyedState.controller /\ keyedState'.active = keyedState.active
        /\ keyedState'.loaded = keyedState.loaded /\ keyedState'.status = keyedState.status
        /\ keyedState'.shown = keyedState.shown
    BY <1>3, <2>1, <2>2 DEF KeyedStates
  <2>5. KeyedReloads' /\ keyedDeletions' \subseteq KeyedDeletionType
    BY <1>0, <1>1, <1>3, <2>1, <2>3 DEF KeyedReloads, KeyedTyped
  <2> QED BY <1>1, <1>2, <1>3, <2>4, <2>5, KeyedAside
<1> QED BY <1>4, <1>5

LEMMA KeyedDeletes ==
  ASSUME KeyedInv, Keyed!ServeDelete \/ Keyed!DeleteFails
  PROVE  KeyedInv'
<1>0. KeyedTyped /\ KeyedControl /\ KeyedSeenOnly /\ KeyedRuns /\ KeyedReloads
  BY DEF KeyedInv
<1>1. /\ Keyed!Quiet
      /\ UNCHANGED <<keyedPage, keyedSession, keyedQuery, keyedSeen, keyedCalls, keyedIssued, keyedLeft>>
  BY DEF Keyed!ServeDelete, Keyed!DeleteFails
<1>2. keyedLeft' \in 0 .. KeyedSteps /\ keyedSeen # None /\ keyedState \in KeyedStates
  BY <1>0, <1>1, KeyedAtRest DEF KeyedTyped
<1>3. CASE Keyed!ServeDelete
  <2>1. PICK d \in keyedDeletions :
          /\ keyedWeak' = keyedWeak \ {d.element}
          /\ keyedDeletions' = (keyedDeletions \ {d}) \cup {[d EXCEPT !.gone = TRUE]}
    BY <1>3 DEF Keyed!ServeDelete
  <2>2. UNCHANGED keyedState
    BY <1>3 DEF Keyed!ServeDelete
  <2> DEFINE e == [d EXCEPT !.gone = TRUE]
  <2>3. e \in KeyedDeletionType /\ e.reload = d.reload
    BY <1>0 DEF KeyedTyped, KeyedDeletionType
  <2> HIDE DEF e
  <2>4. keyedDeletions' = (keyedDeletions \ {d}) \cup {e}
    BY <2>1 DEF e
  <2>5. keyedDeletions' \subseteq KeyedDeletionType /\ keyedWeak' \subseteq Elements
    BY <1>0, <2>1, <2>3, <2>4 DEF KeyedTyped
  <2>6. KeyedReloads'
    BY <1>0, <1>1, <2>3, <2>4 DEF KeyedReloads
  <2> QED BY <1>1, <1>2, <2>2, <2>5, <2>6, KeyedAside
<1>4. CASE Keyed!DeleteFails
  <2>1. PICK d \in keyedDeletions :
          /\ keyedDeletions' = keyedDeletions \ {d}
          /\ keyedState' = [keyedState EXCEPT !.deleting = @ \ {d.element}]
    BY <1>4 DEF Keyed!DeleteFails
  <2> DEFINE deleting == keyedState.deleting \ {d.element}
  <2>2. deleting \in SUBSET Elements /\ keyedState' = [keyedState EXCEPT !.deleting = deleting]
    BY <1>2, <2>1 DEF KeyedStates
  <2> HIDE DEF deleting
  <2>3. /\ keyedState' \in KeyedStates
        /\ keyedState'.controller = keyedState.controller /\ keyedState'.active = keyedState.active
        /\ keyedState'.loaded = keyedState.loaded /\ keyedState'.status = keyedState.status
        /\ keyedState'.shown = keyedState.shown
    BY <1>2, <2>2 DEF KeyedStates
  <2>4. keyedDeletions' \subseteq KeyedDeletionType /\ keyedWeak' \subseteq Elements
    BY <1>0, <1>4, <2>1 DEF KeyedTyped, Keyed!DeleteFails
  <2>5. KeyedReloads'
    BY <1>0, <1>1, <2>1 DEF KeyedReloads
  <2> QED BY <1>1, <1>2, <2>3, <2>4, <2>5, KeyedAside
<1> QED BY <1>3, <1>4

LEMMA KeyedDeleted ==
  ASSUME KeyedInv, Keyed!Deleted
  PROVE  KeyedInv'
<1>0. KeyedTyped /\ KeyedControl /\ KeyedSeenOnly /\ KeyedRuns /\ KeyedReloads
  BY DEF KeyedInv
<1> DEFINE s == [keyedState EXCEPT !.confirming = None]
           next == Keyed!BeginLoad(s, keyedCalls, Keyed!Key, TRUE)
<1>1. PICK d \in keyedDeletions :
        /\ keyedState' = next.state /\ keyedCalls' = next.calls
        /\ keyedDeletions' = (keyedDeletions \ {d}) \cup {[d EXCEPT !.reload = keyedIssued + 1]}
  BY Zenon DEF Keyed!Deleted
<1>2. /\ Keyed!Quiet /\ keyedIssued < KeyedCalls /\ keyedIssued' = keyedIssued + 1
      /\ UNCHANGED <<keyedPage, keyedSession, keyedQuery, keyedSeen, keyedWeak, keyedLeft>>
  BY DEF Keyed!Deleted
<1>3. keyedPage = "weak" /\ keyedSession # Keyed!Initializing
  BY <1>0 DEF KeyedReloads
<1>4. s \in KeyedStates /\ s.controller = keyedState.controller /\ s.loaded = keyedState.loaded
  BY <1>0 DEF KeyedTyped, KeyedStates
<1> HIDE DEF s, next
<1>5. /\ ~Keyed!Settling /\ keyedSeen' \in KeyedSessions \X Modes
      /\ keyedPage # "home" => keyedSeen' = <<keyedSession, keyedQuery>>
      /\ KeyedRank(keyedSeen'[1]) <= KeyedRank(keyedSession) /\ TRUE \in BOOLEAN
  BY <1>2, KeyedAtRest
<1>6. /\ keyedState' \in KeyedStates /\ keyedCalls' \subseteq KeyedCallType
      /\ keyedIssued' \in 0 .. KeyedCalls
      /\ KeyedControl' /\ KeyedSeenOnly' /\ KeyedRuns'
      /\ \A c \in keyedCalls : \E b \in keyedCalls' : b.id = c.id
      /\ \E b \in keyedCalls' : b.id = keyedIssued + 1
  BY <1>1, <1>2, <1>3, <1>4, <1>5, KeyedBeginning DEF next
<1> DEFINE n == keyedIssued + 1
           e == [d EXCEPT !.reload = n]
<1>7. n \in Nat
  BY <1>0, KeyedConstants DEF KeyedTyped
<1>8. keyedDeletions' = (keyedDeletions \ {d}) \cup {e} /\ (\E b \in keyedCalls' : b.id = n)
  BY <1>1, <1>6
<1> HIDE DEF n
<1>9. e \in KeyedDeletionType /\ e.reload = n
  BY <1>0, <1>7 DEF KeyedTyped, KeyedDeletionType
<1> HIDE DEF e
<1>10. KeyedTyped'
  BY <1>0, <1>2, <1>6, <1>8, <1>9 DEF KeyedTyped
<1>11. KeyedReloads'
  BY <1>0, <1>2, <1>3, <1>6, <1>8, <1>9 DEF KeyedReloads
<1> QED BY <1>6, <1>10, <1>11 DEF KeyedInv

LEMMA KeyedNext ==
  ASSUME KeyedInv, [Keyed!Next]_(Keyed!vars)
  PROVE  KeyedInv'
<1>1. CASE Keyed!Aborted \/ Keyed!Answered
  <2>1. PICK c \in keyedCalls : Keyed!Settle(c) /\ (c.aborted \/ (Keyed!Quiet /\ c.answer # None))
    BY <1>1 DEF Keyed!Aborted, Keyed!Answered
  <2> QED BY <2>1, KeyedSettles
<1>2. CASE UNCHANGED Keyed!vars
  BY <1>2 DEF Keyed!vars, KeyedInv, KeyedTyped, KeyedControl, KeyedSeenOnly, KeyedReloads, KeyedRuns,
     Keyed!EffectDue, Keyed!Settling
<1> QED BY <1>1, <1>2, KeyedEffects, KeyedServes, KeyedRetries, KeyedMoves, KeyedRequests,
           KeyedDeletes, KeyedDeleted DEF Keyed!Next

----------------------------------------------------------------------------
(* The numbers of a finite set, largest first: the i-th has i - 1 above it. *)

Above(G, g) == Cardinality({h \in G : h > g})

LEMMA AboveOrder ==
  ASSUME NEW G \in SUBSET Int
  PROVE  LET higher == {p \in G \X G : p[1] > p[2]}
         IN StrictOrder(G, higher) /\ \A g \in G : Above(G, g) = Cardinality(Ahead(G, higher, g))
<1> DEFINE higher == {p \in G \X G : p[1] > p[2]}
<1>1. \A g, h \in G : <<h, g>> \in higher <=> h > g
  OBVIOUS
<1>2. \A g \in G : g \in Int
  OBVIOUS
<1>3. \A g \in G : Ahead(G, higher, g) = {h \in G : h > g}
  BY <1>1 DEF Ahead
<1> HIDE DEF higher
<1>4. StrictOrder(G, higher)
  BY <1>1, <1>2 DEF StrictOrder
<1>5. \A g \in G : Above(G, g) = Cardinality(Ahead(G, higher, g))
  BY <1>3 DEF Above
<1> QED BY <1>4, <1>5 DEF higher

LEMMA AboveFalls ==
  ASSUME NEW G \in SUBSET Int, IsFiniteSet(G), NEW g \in G
  PROVE  /\ Above(G, g) \in Nat /\ Above(G, g) < Cardinality(G)
         /\ \A k \in G : g < k => Above(G, k) < Above(G, g)
<1> DEFINE higher == {p \in G \X G : p[1] > p[2]}
<1>1. ASSUME NEW k \in G, g < k PROVE <<k, g>> \in higher
  <2>1. k \in Int /\ g \in Int
    OBVIOUS
  <2> QED BY <1>1, <2>1
<1>2. StrictOrder(G, higher) /\ \A k \in G : Above(G, k) = Cardinality(Ahead(G, higher, k))
  BY AboveOrder
<1> HIDE DEF higher
<1> QED BY <1>1, <1>2, PlacesRise

LEMMA AboveReached ==
  ASSUME NEW G \in SUBSET Int, IsFiniteSet(G), NEW i \in 1 .. Cardinality(G)
  PROVE  \E g \in G : Above(G, g) = i - 1
<1> DEFINE higher == {p \in G \X G : p[1] > p[2]}
<1>1. StrictOrder(G, higher) /\ \A g \in G : Above(G, g) = Cardinality(Ahead(G, higher, g))
  BY AboveOrder
<1> HIDE DEF higher
<1> QED BY <1>1, PlaceReached

(* The first n of them, in order: every number of the set not below one of  *)
(* the first m is among the first m.                                        *)
LEMMA PagedCardinality == \A S : Paged!Cardinality(S) = Cardinality(S)
BY Zenon DEF Paged!Cardinality, Cardinality

LEMMA NewestIs ==
  ASSUME NEW G \in SUBSET Int, IsFiniteSet(G), NEW i \in 1 .. Cardinality(G)
  PROVE  Paged!Newest(G, i) \in G /\ Above(G, Paged!Newest(G, i)) = i - 1
<1>1. \E g \in G : Above(G, g) = i - 1
  BY AboveReached
<1>2. \E g \in G : Paged!Cardinality({h \in G : h > g}) = i - 1
  BY <1>1, PagedCardinality DEF Above
<1> DEFINE c == CHOOSE g \in G : Paged!Cardinality({h \in G : h > g}) = i - 1
<1>3. Paged!Newest(G, i) = c
  BY Zenon DEF Paged!Newest
<1>4. c \in G /\ Paged!Cardinality({h \in G : h > c}) = i - 1
  BY <1>2, Zenon
<1> HIDE DEF c
<1> QED BY <1>3, <1>4, PagedCardinality DEF Above

LEMMA PageIs ==
  ASSUME NEW G \in SUBSET Int, IsFiniteSet(G), NEW n \in Nat
  PROVE  LET first == Paged!Page(G, n)
         IN /\ first \in Seq(G) /\ Len(first) <= n
            /\ \A i, j \in 1 .. Len(first) : i < j => first[i] > first[j]
            /\ \A g \in G, m \in 1 .. Len(first) : first[m] <= g => \E i \in 1 .. m : first[i] = g
<1> DEFINE shelf == Paged!Page(G, n)
           N == Cardinality(G)
           L == IF N < n THEN N ELSE n
<1>1. N \in Nat
  BY FS_CardinalityType
<1>2. shelf = [i \in 1 .. L |-> Paged!Newest(G, i)]
  BY PagedCardinality, Zenon DEF Paged!Page
<1> HIDE DEF shelf
<1>d. \A i \in 1 .. L : i \in 1 .. N
  BY <1>1
<1>l. L \in Nat /\ L <= n
  BY <1>1
<1> HIDE DEF L
<1>3. \A i \in 1 .. L : shelf[i] \in G /\ Above(G, shelf[i]) = i - 1
  BY <1>2, <1>d, NewestIs
<1>4. shelf \in Seq(G) /\ Len(shelf) = L
  BY <1>2, <1>3, <1>l
<1>5. ASSUME NEW i \in 1 .. L, NEW j \in 1 .. L, i < j PROVE shelf[i] > shelf[j]
  <2>1. /\ shelf[i] \in G /\ shelf[j] \in G
        /\ Above(G, shelf[i]) = i - 1 /\ Above(G, shelf[j]) = j - 1
    BY <1>3
  <2>t. shelf[i] \in Int /\ shelf[j] \in Int
    BY <2>1
  <2>2. shelf[i] < shelf[j] => Above(G, shelf[j]) < Above(G, shelf[i])
    BY <2>1, AboveFalls
  <2>3. shelf[i] # shelf[j]
    BY <1>5, <1>l, <2>1
  <2>4. ~(shelf[i] < shelf[j])
    BY <1>5, <1>l, <2>1, <2>2
  <2> QED BY <2>t, <2>3, <2>4
<1>6. ASSUME NEW g \in G, NEW m \in 1 .. L, shelf[m] <= g PROVE \E i \in 1 .. m : shelf[i] = g
  <2>1. shelf[m] \in G /\ Above(G, shelf[m]) = m - 1
    BY <1>3
  <2>2. shelf[m] < g => Above(G, g) < Above(G, shelf[m])
    BY <2>1, AboveFalls
  <2>3. Above(G, g) \in Nat
    BY AboveFalls
  <2>t. shelf[m] \in Int /\ g \in Int
    BY <2>1
  <2> DEFINE i == Above(G, g) + 1
  <2>4. i \in 1 .. m
    <3>1. shelf[m] = g \/ shelf[m] < g
      BY <1>6, <2>t
    <3> QED BY <1>l, <2>1, <2>2, <2>3, <3>1
  <2>5. i \in 1 .. L /\ Above(G, g) = i - 1
    BY <1>l, <2>3, <2>4
  <2> HIDE DEF i
  <2>6. shelf[i] \in G /\ Above(G, shelf[i]) = Above(G, g)
    BY <1>3, <2>5
  <2>7. shelf[i] = g
    <3>1. /\ shelf[i] < g => Above(G, g) < Above(G, shelf[i])
          /\ g < shelf[i] => Above(G, shelf[i]) < Above(G, g)
      BY <2>6, AboveFalls
    <3>2. ~(shelf[i] < g) /\ ~(g < shelf[i])
      BY <2>3, <2>6, <3>1
    <3>3. shelf[i] \in Int
      BY <2>6
    <3> QED BY <2>t, <3>2, <3>3
  <2> QED BY <2>4, <2>7
<1> QED BY <1>4, <1>5, <1>6, <1>l DEF shelf

----------------------------------------------------------------------------
(* The pages that number their calls.                                       *)

PagedSessions == Paged!Tokens \cup {Paged!Initializing, Paged!Anonymous}

PagedStates ==
  [list : Seq(Paged!Games), for : Paged!Keys \cup {None}, cursor : Paged!Games \cup {None},
   known : SUBSET Paged!Games, initial : BOOLEAN, busy : BOOLEAN, error : BOOLEAN,
   controller : Nat, key : Paged!Keys \cup {None}, applied : Modes \cup {None}]

PagedAnswers ==
  [ok : BOOLEAN, list : Seq(Paged!Games), next : Paged!Games \cup {None},
   known : SUBSET Paged!Games]

PagedCallType ==
  [id : Nat, for : Paged!Keys, append : BOOLEAN, cursor : Paged!Games \cup {None},
   aborted : BOOLEAN, answer : PagedAnswers \cup {None}]

PagedTyped ==
  /\ pagedPage \in {"history", "elements"}
  /\ pagedSession \in PagedSessions /\ pagedQuery \in Modes \cup {None}
  /\ pagedSeen \in ((Modes \cup {None}) \X PagedSessions) \cup {None}
  /\ pagedState \in PagedStates /\ pagedCalls \subseteq PagedCallType
  /\ pagedSaved \in [Paged!Games -> Modes \cup {None}]
  /\ pagedIssued \in 0 .. PagedCalls /\ pagedLeft \in 0 .. PagedSteps

(* The effect has not run yet, or only while the session was unknown.       *)
PagedFresh == pagedSeen = None \/ pagedSeen[2] = Paged!Initializing

(* The effect last ran without a session, on a page that needs one.         *)
PagedOut == pagedPage = "history" /\ ~PagedFresh /\ pagedSeen[2] = Paged!Anonymous

(* At most one call, the controller's and the last, is not aborted.         *)
PagedControl ==
  /\ \A c \in pagedCalls : c.id > 0 /\ c.id <= pagedIssued
  /\ \A b, c \in pagedCalls : b.id = c.id => b = c
  /\ \A c \in pagedCalls : ~c.aborted => c.id = pagedIssued /\ c.id = pagedState.controller
  /\ pagedState.controller \in {0, pagedIssued}

(* What the page asked for is what the effect saw.                          *)
PagedAsked ==
  /\ PagedFresh => pagedState = Paged!NewState /\ pagedCalls = {}
  /\ pagedSession = Paged!Initializing => PagedFresh
  /\ pagedState.key # None => pagedState.key = pagedSeen /\ pagedState.applied = pagedSeen[1]
  /\ ~PagedFresh /\ ~PagedOut => pagedState.key # None
  /\ PagedOut => pagedState.list = <<>> /\ \A c \in pagedCalls : c.aborted
  /\ \A c \in pagedCalls : c.aborted /\ c.id = pagedIssued => PagedOut
  /\ \A c \in pagedCalls : ~c.aborted => c.for = pagedSeen

(* A sign of loading has its call, a page without one its answer.           *)
PagedShown ==
  ~PagedFresh =>
    IF pagedState.initial \/ pagedState.busy
    THEN \E c \in pagedCalls : c.id = pagedIssued
    ELSE pagedState.error \/ pagedState.for = pagedSeen \/ PagedOut

PagedFits(for, g) == pagedSaved[g] # None /\ for[1] \in {None, pagedSaved[g]}

Falling(list) == \A i, j \in 1 .. Len(list) : i < j => list[i] > list[j]

(* None left out above the last.                                            *)
Whole(list, known) ==
  \A g \in known, i \in 1 .. Len(list) :
    list[i] <= g => \E j \in 1 .. Len(list) : list[j] = g

EndsAt(list, cursor) == cursor # None => list # <<>> /\ cursor = list[Len(list)]

(* The games below the one that a page is asked to begin after.             *)
Below(games, cursor) == {g \in games : cursor = None \/ g < cursor}

PagedAnswered(c) ==
  LET a == c.answer
  IN /\ Falling(a.list) /\ EndsAt(a.list, a.next)
     /\ \A i \in 1 .. Len(a.list) :
          PagedFits(c.for, a.list[i]) /\ (c.cursor # None => a.list[i] < c.cursor)
     /\ \A g \in a.known : PagedFits(c.for, g)
     /\ Whole(a.list, Below(a.known, c.cursor))

PagedServed ==
  /\ \A c \in pagedCalls : c.answer # None /\ c.answer.ok => PagedAnswered(c)
  /\ \A c \in pagedCalls : pagedPage = "elements" /\ c.answer # None =>
       c.answer.list = <<>> /\ c.answer.next = None /\ c.answer.known = {}
  /\ \A c \in pagedCalls : ~c.append => c.cursor = None
  /\ \A c \in pagedCalls : c.append /\ ~c.aborted =>
       /\ pagedPage = "history"
       /\ c.cursor # None /\ c.cursor = pagedState.cursor
       /\ c.answer # None /\ c.answer.ok => pagedState.known \subseteq c.answer.known

(* The pages shown fit together.                                            *)
PagedFit ==
  /\ Falling(pagedState.list) /\ Whole(pagedState.list, pagedState.known)
  /\ EndsAt(pagedState.list, pagedState.cursor)
  /\ pagedState.cursor # None => pagedState.for = pagedSeen
  /\ pagedState.list # <<>> \/ pagedState.known # {} => pagedState.for # None
  /\ \A i \in 1 .. Len(pagedState.list) : PagedFits(pagedState.for, pagedState.list[i])
  /\ \A g \in pagedState.known : PagedFits(pagedState.for, g)
  /\ pagedPage = "elements" =>
       pagedState.list = <<>> /\ pagedState.cursor = None /\ pagedState.known = {}

PagedInv == PagedTyped /\ PagedControl /\ PagedAsked /\ PagedShown /\ PagedServed /\ PagedFit

LEMMA PagedConstants ==
  /\ MaxToken \in Nat /\ MaxToken > 0 /\ PagedCalls \in Nat /\ PagedSteps \in Nat
  /\ MaxPlayed \in Nat /\ Limit \in Nat /\ Limit > 0
  /\ None \notin Int /\ None \notin Modes
  /\ None \notin (Modes \cup {None}) \X PagedSessions /\ None \notin Paged!Keys
  /\ Paged!Keys \subseteq (Modes \cup {None}) \X PagedSessions
  /\ Paged!Tokens = 1 .. MaxToken /\ Paged!Games = 1 .. MaxPlayed
  /\ Paged!Initializing = -1 /\ Paged!Anonymous = 0
<1>1. Paged!PagedLoadAssumption
  BY InstancesAssumption
<1>2. /\ MaxToken \in Nat /\ MaxToken > 0 /\ PagedCalls \in Nat /\ PagedSteps \in Nat
      /\ MaxPlayed \in Nat /\ Limit \in Nat /\ Limit > 0
      /\ None \notin Int /\ None \notin Modes
      /\ None \notin (Modes \cup {None}) \X PagedSessions
  BY <1>1 DEF Paged!PagedLoadAssumption, PagedSessions
<1>3. Paged!Keys \subseteq (Modes \cup {None}) \X PagedSessions
  BY DEF Paged!Keys, PagedSessions
<1>4. /\ Paged!Tokens = 1 .. MaxToken /\ Paged!Games = 1 .. MaxPlayed
      /\ Paged!Initializing = -1 /\ Paged!Anonymous = 0
  BY DEF Paged!Tokens, Paged!Games, Paged!Initializing, Paged!Anonymous
<1> QED BY <1>2, <1>3, <1>4

LEMMA PagedKeys ==
  \A k \in (Modes \cup {None}) \X PagedSessions :
    k # None /\ (k \in Paged!Keys <=> k[2] # Paged!Initializing)
<1>1. \A s \in PagedSessions : s \in Paged!Tokens \cup {Paged!Anonymous} <=> s # Paged!Initializing
  BY PagedConstants DEF PagedSessions
<1> QED BY <1>1, PagedConstants DEF Paged!Keys

LEMMA PagedMeans ==
  PagedInv => /\ Paged!TypeOK /\ Paged!ShowsWhatWasAsked /\ Paged!HistoryInOrder
              /\ Paged!SignsEnd
<1> SUFFICES ASSUME PagedInv
             PROVE  /\ Paged!TypeOK /\ Paged!ShowsWhatWasAsked /\ Paged!HistoryInOrder
                    /\ Paged!SignsEnd
  OBVIOUS
<1>0. PagedTyped /\ PagedControl /\ PagedAsked /\ PagedShown /\ PagedServed /\ PagedFit
  BY DEF PagedInv
<1>1. Paged!Cardinality({c \in pagedCalls : ~c.aborted}) <= 1
  <2> DEFINE T == {c \in pagedCalls : ~c.aborted}
  <2>1. CASE T = {}
    BY <2>1, PagedCardinality, FS_EmptySet
  <2>2. CASE T # {}
    <3>1. PICK c \in T : TRUE
      BY <2>2
    <3>2. T = {c}
      BY <1>0, <3>1 DEF PagedControl
    <3>3. Cardinality(T) = 1
      BY <3>2, FS_Singleton
    <3> QED BY <3>3, PagedCardinality
  <2> QED BY <2>1, <2>2
<1>2. Paged!TypeOK
  <2>1. /\ pagedState.list \in Seq(Paged!Games) /\ pagedState.for \in Paged!Keys \cup {None}
        /\ pagedState.key \in Paged!Keys \cup {None}
        /\ pagedState.cursor \in Paged!Games \cup {None} /\ pagedState.known \subseteq Paged!Games
    BY <1>0 DEF PagedTyped, PagedStates
  <2>2. \A i \in DOMAIN pagedState.list : pagedState.list[i] \in Paged!Games
    BY <2>1
  <2> QED BY <1>0, <1>1, <2>1, <2>2, Zenon DEF Paged!TypeOK, PagedTyped, PagedSessions
<1>3. /\ Paged!Quiet => pagedSeen = Paged!Key
      /\ Paged!Quiet /\ pagedSession # Paged!Initializing => ~PagedFresh
  <2>1. Paged!Quiet => pagedSeen = <<pagedQuery, pagedSession>>
    BY DEF Paged!Quiet, Paged!EffectDue, Paged!Key
  <2>2. <<pagedQuery, pagedSession>> # None
    BY <1>0, PagedKeys DEF PagedTyped
  <2> QED BY <2>1, <2>2 DEF PagedFresh, Paged!Key
<1>4. Paged!ShowsWhatWasAsked
  BY <1>0, <1>3 DEF Paged!ShowsWhatWasAsked, PagedShown, PagedAsked, PagedOut, Paged!Key
<1>5. Paged!SignsEnd
  BY <1>0, <1>3 DEF Paged!SignsEnd, PagedShown
<1>6. Paged!HistoryInOrder
  <2>1. pagedState.list \in Seq(Paged!Games)
    BY <1>0 DEF PagedTyped, PagedStates
  <2>2. DOMAIN pagedState.list = 1 .. Len(pagedState.list)
    BY <2>1
  <2>3. \A i, j \in DOMAIN pagedState.list : i < j => pagedState.list[i] > pagedState.list[j]
    BY <1>0, <2>2 DEF PagedFit, Falling
  <2>4. \A g \in pagedState.known :
          (\E i \in DOMAIN pagedState.list : pagedState.list[i] <= g)
            => \E i \in DOMAIN pagedState.list : pagedState.list[i] = g
    BY <1>0, <2>2 DEF PagedFit, Whole
  <2>5. \A i \in DOMAIN pagedState.list : pagedState.for[1] \in {None, pagedSaved[pagedState.list[i]]}
    BY <1>0, <2>2, Zenon DEF PagedFit, PagedFits
  <2> QED BY <2>3, <2>4, <2>5, Zenon DEF Paged!HistoryInOrder
<1> QED BY <1>2, <1>4, <1>5, <1>6

LEMMA PagedInitially == Paged!Init => PagedInv
<1> SUFFICES ASSUME Paged!Init PROVE PagedInv
  OBVIOUS
<1>0. /\ pagedPage \in {"history", "elements"}
      /\ pagedSession \in {Paged!Initializing, Paged!Anonymous, 1}
      /\ pagedQuery \in Modes \cup {None} /\ pagedSeen = None
      /\ pagedState = Paged!NewState /\ pagedCalls = {}
      /\ pagedSaved = [g \in Paged!Games |-> None]
      /\ pagedIssued = 0 /\ pagedLeft = PagedSteps
  BY DEF Paged!Init
<1>1. /\ pagedState \in PagedStates /\ pagedState.list = <<>> /\ pagedState.known = {}
      /\ pagedState.cursor = None /\ pagedState.controller = 0 /\ pagedState.key = None
  BY <1>0 DEF Paged!NewState, PagedStates
<1>2. PagedTyped
  BY <1>0, <1>1, PagedConstants DEF PagedTyped, PagedSessions
<1>3. PagedFresh
  BY <1>0 DEF PagedFresh
<1>4. PagedControl /\ PagedServed
  BY <1>0, <1>1 DEF PagedControl, PagedServed
<1>5. PagedAsked /\ PagedShown
  BY <1>0, <1>1, <1>3 DEF PagedAsked, PagedShown, PagedOut
<1>6. PagedFit
  BY <1>0, <1>1 DEF PagedFit, Falling, Whole, EndsAt
<1> QED BY <1>2, <1>4, <1>5, <1>6 DEF PagedInv

(* A page of the history: the games of the mode below the cursor, none left *)
(* out above the last, which is where the next page begins after.           *)
LEMMA HistoryIs ==
  ASSUME PagedTyped, NEW mode \in Modes \cup {None}, NEW cursor \in Paged!Games \cup {None}
  PROVE  LET a == Paged!History(mode, cursor)
         IN /\ a \in PagedAnswers /\ a.ok /\ a.known = Paged!OfMode(mode)
            /\ Falling(a.list) /\ EndsAt(a.list, a.next)
            /\ \A i \in 1 .. Len(a.list) : a.list[i] \in Below(Paged!OfMode(mode), cursor)
            /\ Whole(a.list, Below(Paged!OfMode(mode), cursor))
<1> DEFINE M == Paged!OfMode(mode)
           G == Below(M, cursor)
           shelf == Paged!Page(G, Limit + 1)
           full == Len(shelf) > Limit
           n == IF full THEN Limit ELSE Len(shelf)
           list == SubSeq(shelf, 1, n)
           next == IF full THEN shelf[Limit] ELSE None
           a == [ok |-> TRUE, list |-> list, next |-> next, known |-> M]
<1>1. Paged!History(mode, cursor) = a
  BY Zenon DEF Paged!History, Below
<1>2. M \in SUBSET Paged!Games /\ G \in SUBSET M
  BY DEF Paged!OfMode, Below
<1> HIDE DEF M, G
<1>3. G \in SUBSET Int /\ IsFiniteSet(G) /\ Limit + 1 \in Nat
  <2>1. IsFiniteSet(Paged!Games)
    BY PagedConstants, FS_Interval
  <2>2. Paged!Games \in SUBSET Int
    BY PagedConstants
  <2>3. G \in SUBSET Paged!Games
    BY <1>2
  <2> QED BY <2>1, <2>2, <2>3, PagedConstants, FS_Subset
<1>4. /\ shelf \in Seq(G) /\ Len(shelf) <= Limit + 1
      /\ \A i, j \in 1 .. Len(shelf) : i < j => shelf[i] > shelf[j]
      /\ \A g \in G, m \in 1 .. Len(shelf) : shelf[m] <= g => \E i \in 1 .. m : shelf[i] = g
  BY <1>3, PageIs
<1> HIDE DEF shelf
<1>5. Len(shelf) \in Nat /\ n \in 0 .. Len(shelf) /\ (full => n = Limit /\ Limit > 0)
  BY <1>4, PagedConstants
<1>6. \A i \in 1 .. Len(shelf) : shelf[i] \in G
  BY <1>4
<1>n. next = IF full THEN shelf[Limit] ELSE None
  OBVIOUS
<1> HIDE DEF n, full, next
<1>7. list \in Seq(G) /\ Len(list) = n /\ \A i \in 1 .. n : list[i] = shelf[i]
  <2>1. \A i \in 1 .. n : i \in 1 .. Len(shelf)
    BY <1>5
  <2>2. list = [i \in 1 .. n |-> shelf[i]]
    BY <1>4, <1>5, <2>1
  <2> HIDE DEF list
  <2> QED BY <1>5, <1>6, <2>1, <2>2
<1> HIDE DEF list
<1>8. \A i \in 1 .. Len(list) : i \in 1 .. Len(shelf) /\ list[i] = shelf[i] /\ list[i] \in G
  BY <1>5, <1>6, <1>7
<1>9. Falling(list)
  BY <1>4, <1>8 DEF Falling
<1>10. EndsAt(list, next)
  <2>1. CASE full
    BY <1>5, <1>7, <1>n, <2>1 DEF EndsAt
  <2>2. CASE ~full
    BY <1>n, <2>2 DEF EndsAt
  <2> QED BY <2>1, <2>2
<1>11. Whole(list, G)
  <2> SUFFICES ASSUME NEW g \in G, NEW i \in 1 .. Len(list), list[i] <= g
               PROVE  \E j \in 1 .. Len(list) : list[j] = g
    BY DEF Whole
  <2>1. PICK j \in 1 .. i : shelf[j] = g
    BY <1>4, <1>8
  <2>2. j \in 1 .. Len(list)
    BY <1>5, <1>7
  <2> QED BY <1>8, <2>1, <2>2
<1>12. next \in Paged!Games \cup {None} /\ list \in Seq(Paged!Games)
  <2>1. full => Limit \in 1 .. Len(shelf)
    BY <1>5
  <2> QED BY <1>2, <1>6, <1>7, <1>n, <2>1
<1>13. /\ a \in PagedAnswers /\ a.ok = TRUE /\ a.known = M /\ a.list = list /\ a.next = next
  BY <1>2, <1>12 DEF PagedAnswers
<1> HIDE DEF a
<1> QED BY <1>1, <1>8, <1>9, <1>10, <1>11, <1>13 DEF M, G

(* The calls ds are the calls cs, that of id aborted.                       *)
PagedSame(b, c) ==
  b.id = c.id /\ b.for = c.for /\ b.append = c.append /\ b.cursor = c.cursor /\ b.answer = c.answer

PagedAborted(cs, ds, id) ==
  /\ ds \subseteq PagedCallType
  /\ \A d \in ds : \E c \in cs : PagedSame(d, c) /\ (d.aborted <=> c.aborted \/ c.id = id)
  /\ (\A b, c \in cs : b.id = c.id => b = c) => (\A b, c \in ds : b.id = c.id => b = c)

LEMMA PagedAborts ==
  ASSUME NEW cs \in SUBSET PagedCallType, NEW id
  PROVE  PagedAborted(cs, Paged!Abort(cs, id), id)
<1> DEFINE a(c) == IF c.id = id THEN [c EXCEPT !.aborted = TRUE] ELSE c
           ds == {a(c) : c \in cs}
<1>1. Paged!Abort(cs, id) = ds
  BY Zenon DEF Paged!Abort
<1>2. ASSUME NEW c \in cs
      PROVE  /\ a(c) \in PagedCallType /\ PagedSame(a(c), c)
             /\ a(c).aborted <=> c.aborted \/ c.id = id
  <2>1. c \in PagedCallType
    OBVIOUS
  <2>2. CASE c.id = id
    <3> DEFINE e == [c EXCEPT !.aborted = TRUE]
    <3>1. e \in PagedCallType /\ PagedSame(e, c) /\ e.aborted = TRUE
      BY <2>1 DEF PagedCallType, PagedSame
    <3>2. a(c) = e
      BY <2>2
    <3> HIDE DEF e, a
    <3> QED BY <2>2, <3>1, <3>2
  <2>3. CASE c.id # id
    BY <2>1, <2>3 DEF PagedSame
  <2> QED BY <2>2, <2>3
<1> HIDE DEF a
<1>3. ds \subseteq PagedCallType
  BY <1>2
<1>4. \A d \in ds : \E c \in cs : PagedSame(d, c) /\ (d.aborted <=> c.aborted \/ c.id = id)
  BY <1>2
<1>5. (\A b, c \in cs : b.id = c.id => b = c) => (\A b, c \in ds : b.id = c.id => b = c)
  BY <1>2 DEF PagedSame
<1> QED BY <1>1, <1>3, <1>4, <1>5, Zenon DEF PagedAborted

(* A load begins: with the call n, and the calls before aborted.            *)
PagedBegun(s, t, cs, ds, n, for, append) ==
  /\ t \in PagedStates /\ t.controller = n /\ t.key = s.key /\ t.applied = s.applied
  /\ t.for = s.for /\ (t.initial \/ t.busy)
  /\ IF append \/ pagedPage = "elements"
     THEN t.list = s.list /\ t.cursor = s.cursor /\ t.known = s.known
     ELSE t.list = <<>> /\ t.cursor = None /\ t.known = {}
  /\ ds \subseteq PagedCallType
  /\ \A d \in ds :
       \/ /\ d.id = n /\ d.for = for /\ d.append = append /\ ~d.aborted /\ d.answer = None
          /\ d.cursor = IF append THEN s.cursor ELSE None
       \/ \E c \in cs : PagedSame(d, c) /\ (d.aborted <=> c.aborted \/ c.id = s.controller)
  /\ \E d \in ds : d.id = n
  /\ (\A b, c \in cs : b.id = c.id => b = c) /\ (\A c \in cs : c.id < n) =>
       (\A b, c \in ds : b.id = c.id => b = c)

LEMMA PagedBegins ==
  ASSUME pagedPage \in {"history", "elements"}, pagedIssued \in Nat,
         NEW s \in PagedStates, pagedCalls \subseteq PagedCallType,
         NEW for \in Paged!Keys, NEW append \in BOOLEAN, Paged!Load(s, for, append)
  PROVE  /\ pagedIssued < PagedCalls /\ pagedIssued' = pagedIssued + 1
         /\ PagedBegun(s, pagedState', pagedCalls, pagedCalls', pagedIssued + 1, for, append)
<1> DEFINE n == pagedIssued + 1
           from == IF append THEN s.cursor ELSE None
           load == [id |-> n, for |-> for, append |-> append, cursor |-> from,
                    aborted |-> FALSE, answer |-> None]
           old == Paged!Abort(pagedCalls, s.controller)
           ds == old \cup {load}
           more == [s EXCEPT !.controller = n, !.error = FALSE, !.busy = TRUE]
           anew == [s EXCEPT !.controller = n, !.error = FALSE, !.initial = TRUE,
                             !.list = <<>>, !.cursor = None, !.known = {}]
           again == [s EXCEPT !.controller = n, !.error = FALSE, !.busy = ~s.initial]
<1>1. /\ pagedIssued < PagedCalls /\ pagedIssued' = n
      /\ pagedCalls' = old \cup {[id |-> pagedIssued', for |-> for, append |-> append,
                                  cursor |-> from, aborted |-> FALSE, answer |-> None]}
  BY Zenon DEF Paged!Load
<1>2. pagedCalls' = ds
  BY <1>1
<1>3. /\ append => pagedState' = more
      /\ pagedPage = "history" /\ ~append => pagedState' = anew
      /\ pagedPage = "elements" /\ ~append => pagedState' = again
  BY <1>1 DEF Paged!Load
<1>4. n \in Nat
  OBVIOUS
<1>5. load \in PagedCallType
  <2>1. from \in Paged!Games \cup {None}
    BY DEF PagedStates
  <2> HIDE DEF from, n
  <2> QED BY <1>4, <2>1 DEF PagedCallType
<1>6. /\ load.id = n /\ load.for = for /\ load.append = append /\ load.aborted = FALSE
      /\ load.answer = None /\ load.cursor = IF append THEN s.cursor ELSE None
  OBVIOUS
<1>7. PagedAborted(pagedCalls, old, s.controller)
  BY PagedAborts
<1> HIDE DEF n, from, load, old
<1>8. /\ more \in PagedStates /\ more.controller = n /\ more.key = s.key
      /\ more.applied = s.applied /\ more.for = s.for /\ more.busy = TRUE
      /\ more.list = s.list /\ more.cursor = s.cursor /\ more.known = s.known
  BY <1>4 DEF PagedStates
<1>9. /\ anew \in PagedStates /\ anew.controller = n /\ anew.key = s.key
      /\ anew.applied = s.applied /\ anew.for = s.for /\ anew.initial = TRUE
      /\ anew.list = <<>> /\ anew.cursor = None /\ anew.known = {}
  <2>1. <<>> \in Seq(Paged!Games) /\ None \in Paged!Games \cup {None}
        /\ {} \in SUBSET Paged!Games
    OBVIOUS
  <2>2. anew \in PagedStates
    BY <1>4, <2>1 DEF PagedStates
  <2>3. /\ anew.controller = n /\ anew.key = s.key
        /\ anew.applied = s.applied /\ anew.for = s.for
    BY DEF PagedStates
  <2>4. /\ anew.initial = TRUE
        /\ anew.list = <<>> /\ anew.cursor = None /\ anew.known = {}
    BY DEF PagedStates
  <2> QED BY <2>2, <2>3, <2>4
<1>10. /\ again \in PagedStates /\ again.controller = n /\ again.key = s.key
       /\ again.applied = s.applied /\ again.for = s.for /\ (again.initial \/ again.busy)
       /\ again.list = s.list /\ again.cursor = s.cursor /\ again.known = s.known
  <2>1. CASE s.initial = TRUE
    <3> DEFINE e == [s EXCEPT !.controller = n, !.error = FALSE, !.busy = FALSE]
    <3>1. /\ e \in PagedStates /\ e.controller = n /\ e.key = s.key
          /\ e.applied = s.applied /\ e.for = s.for /\ e.initial = s.initial
          /\ e.list = s.list /\ e.cursor = s.cursor /\ e.known = s.known
      BY <1>4 DEF PagedStates
    <3>2. again = e
      BY <2>1
    <3> HIDE DEF e, again
    <3> QED BY <2>1, <3>1, <3>2
  <2>2. CASE s.initial = FALSE
    <3> DEFINE e == [s EXCEPT !.controller = n, !.error = FALSE, !.busy = TRUE]
    <3>1. /\ e \in PagedStates /\ e.controller = n /\ e.key = s.key
          /\ e.applied = s.applied /\ e.for = s.for /\ e.busy = TRUE
          /\ e.list = s.list /\ e.cursor = s.cursor /\ e.known = s.known
      BY <1>4 DEF PagedStates
    <3>2. again = e
      BY <2>2
    <3> HIDE DEF e, again
    <3> QED BY <3>1, <3>2
  <2>3. s.initial \in BOOLEAN
    BY DEF PagedStates
  <2> QED BY <2>1, <2>2, <2>3
<1> HIDE DEF more, anew, again
<1>11. /\ pagedState' \in PagedStates /\ pagedState'.controller = n
       /\ pagedState'.key = s.key /\ pagedState'.applied = s.applied
       /\ pagedState'.for = s.for /\ (pagedState'.initial \/ pagedState'.busy)
       /\ IF append \/ pagedPage = "elements"
          THEN /\ pagedState'.list = s.list /\ pagedState'.cursor = s.cursor
               /\ pagedState'.known = s.known
          ELSE /\ pagedState'.list = <<>> /\ pagedState'.cursor = None
               /\ pagedState'.known = {}
  <2>1. CASE append
    BY <1>3, <1>8, <2>1
  <2>2. CASE pagedPage = "history" /\ ~append
    BY <1>3, <1>9, <2>2
  <2>3. CASE pagedPage = "elements" /\ ~append
    BY <1>3, <1>10, <2>3
  <2> QED BY <2>1, <2>2, <2>3
<1>12. /\ ds \subseteq PagedCallType
       /\ \A d \in ds :
            \/ /\ d.id = n /\ d.for = for /\ d.append = append /\ ~d.aborted /\ d.answer = None
               /\ d.cursor = IF append THEN s.cursor ELSE None
            \/ \E c \in pagedCalls :
                 PagedSame(d, c) /\ (d.aborted <=> c.aborted \/ c.id = s.controller)
       /\ \E d \in ds : d.id = n
  BY <1>5, <1>6, <1>7, Zenon DEF PagedAborted
<1>13. ASSUME \A b, c \in pagedCalls : b.id = c.id => b = c, \A c \in pagedCalls : c.id < n
       PROVE  \A b, c \in ds : b.id = c.id => b = c
  <2>1. \A b, c \in old : b.id = c.id => b = c
    BY <1>7, <1>13 DEF PagedAborted
  <2>2. \A c \in old : c.id # n
    <3>1. \A c \in pagedCalls : c.id \in Nat
      BY DEF PagedCallType
    <3> QED BY <1>4, <1>7, <1>13, <3>1 DEF PagedAborted, PagedSame
  <2> QED BY <1>6, <2>1, <2>2
<1> HIDE DEF ds
<1>14. PagedBegun(s, pagedState', pagedCalls, ds, n, for, append)
  BY <1>11, <1>12, <1>13, Zenon DEF PagedBegun
<1> QED BY <1>1, <1>2, <1>14 DEF n

(* An answer stays good while games are saved.                              *)
LEMMA PagedAnswersStay ==
  ASSUME NEW b, NEW c, b.for = c.for, b.cursor = c.cursor, b.answer = c.answer, PagedAnswered(c),
         c.answer.list \in Seq(Paged!Games), c.answer.known \subseteq Paged!Games,
         \A g \in Paged!Games : pagedSaved[g] # None => pagedSaved'[g] = pagedSaved[g]
  PROVE  PagedAnswered(b)'
<1> DEFINE a == c.answer
<1>1. /\ Falling(a.list) /\ EndsAt(a.list, a.next)
      /\ \A i \in 1 .. Len(a.list) :
           PagedFits(c.for, a.list[i]) /\ (c.cursor # None => a.list[i] < c.cursor)
      /\ \A g \in a.known : PagedFits(c.for, g)
      /\ Whole(a.list, Below(a.known, c.cursor))
  BY DEF PagedAnswered
<1>2. \A g \in Paged!Games : PagedFits(c.for, g) => PagedFits(c.for, g)'
  BY DEF PagedFits
<1>3. \A i \in 1 .. Len(a.list) : a.list[i] \in Paged!Games
  OBVIOUS
<1>4. a.known \subseteq Paged!Games /\ b.answer = a /\ b.for = c.for /\ b.cursor = c.cursor
  OBVIOUS
<1> HIDE DEF a
<1>5. /\ Falling(a.list) /\ EndsAt(a.list, a.next)
      /\ \A i \in 1 .. Len(a.list) :
           PagedFits(c.for, a.list[i])' /\ (c.cursor # None => a.list[i] < c.cursor)
      /\ \A g \in a.known : PagedFits(c.for, g)'
      /\ Whole(a.list, Below(a.known, c.cursor))
  BY <1>1, <1>2, <1>3, <1>4
<1> QED BY <1>4, <1>5 DEF PagedAnswered

LEMMA PagedLoading ==
  ASSUME PagedInv, NEW s \in PagedStates, NEW for \in Paged!Keys, NEW append \in BOOLEAN,
         Paged!Load(s, for, append),
         /\ s.list = pagedState.list /\ s.for = pagedState.for /\ s.cursor = pagedState.cursor
         /\ s.known = pagedState.known /\ s.controller = pagedState.controller
         /\ s.key = for /\ s.applied = for[1],
         pagedSeen' = for, ~(pagedPage = "history" /\ for[2] = Paged!Anonymous),
         pagedSession # Paged!Initializing,
         append => pagedSeen' = pagedSeen /\ pagedPage = "history" /\ pagedState.cursor # None,
         UNCHANGED <<pagedPage, pagedSession, pagedQuery, pagedSaved>>,
         pagedLeft' \in 0 .. PagedSteps
  PROVE  PagedInv'
<1>0. PagedTyped /\ PagedControl /\ PagedAsked /\ PagedShown /\ PagedServed /\ PagedFit
  BY DEF PagedInv
<1> DEFINE n == pagedIssued + 1
<1>1. pagedIssued \in Nat /\ n \in Nat /\ n > 0 /\ PagedCalls \in Nat
  BY <1>0, PagedConstants DEF PagedTyped
<1>2. /\ pagedIssued < PagedCalls /\ pagedIssued' = n
      /\ PagedBegun(s, pagedState', pagedCalls, pagedCalls', n, for, append)
  BY <1>0, <1>1, PagedBegins DEF PagedTyped
<1>3. for # None /\ for[2] # Paged!Initializing /\ for \in (Modes \cup {None}) \X PagedSessions
  BY PagedConstants, PagedKeys
<1>4. ~PagedFresh' /\ ~PagedOut'
  BY <1>3 DEF PagedFresh, PagedOut
<1>5. \A c \in pagedCalls : c.id \in Nat /\ c.id < n /\ c.id > 0
  <2>1. \A c \in pagedCalls : c.id \in Nat
    BY <1>0 DEF PagedTyped, PagedCallType
  <2> QED BY <1>0, <1>1, <2>1 DEF PagedControl
<1>c. pagedIssued' \in 0 .. PagedCalls
  BY <1>1, <1>2
<1> HIDE DEF n
<1>6. \A d \in pagedCalls' :
        \/ /\ d.id = n /\ d.for = for /\ d.append = append /\ ~d.aborted /\ d.answer = None
           /\ d.cursor = IF append THEN s.cursor ELSE None
        \/ d.aborted /\ \E c \in pagedCalls : PagedSame(d, c)
  BY <1>0, <1>2 DEF PagedBegun, PagedControl
<1>7. \A d \in pagedCalls' : d.aborted => d.id \in Nat /\ d.id < n /\ d.id > 0
  BY <1>5, <1>6 DEF PagedSame
<1>8. /\ pagedState' \in PagedStates /\ pagedState'.controller = n
      /\ pagedState'.key = for /\ pagedState'.applied = for[1]
      /\ pagedState'.for = pagedState.for /\ (pagedState'.initial \/ pagedState'.busy)
      /\ IF append \/ pagedPage = "elements"
         THEN /\ pagedState'.list = pagedState.list /\ pagedState'.cursor = pagedState.cursor
              /\ pagedState'.known = pagedState.known
         ELSE /\ pagedState'.list = <<>> /\ pagedState'.cursor = None
              /\ pagedState'.known = {}
      /\ pagedCalls' \subseteq PagedCallType /\ \E d \in pagedCalls' : d.id = n
  BY <1>2 DEF PagedBegun
<1>9. PagedTyped'
  BY <1>0, <1>3, <1>8, <1>c DEF PagedTyped
<1>10. PagedControl'
  <2>1. \A b, c \in pagedCalls' : b.id = c.id => b = c
    BY <1>0, <1>2, <1>5 DEF PagedBegun, PagedControl
  <2>2. \A d \in pagedCalls' : d.id > 0 /\ d.id <= n
    BY <1>1, <1>6, <1>7
  <2>3. \A d \in pagedCalls' : ~d.aborted => d.id = n
    BY <1>6
  <2> QED BY <1>2, <1>8, <2>1, <2>2, <2>3 DEF PagedControl
<1>11. PagedAsked'
  <2>1. \A d \in pagedCalls' : d.aborted => d.id # n
    BY <1>1, <1>7
  <2>2. \A d \in pagedCalls' : ~d.aborted => d.for = for
    BY <1>6
  <2> QED BY <1>2, <1>3, <1>4, <1>8, <2>1, <2>2 DEF PagedAsked
<1>12. PagedShown'
  BY <1>2, <1>8 DEF PagedShown
<1>13. PagedServed'
  <2>1. ASSUME NEW d \in pagedCalls', d.answer # None
        PROVE  /\ d.answer.ok => PagedAnswered(d)'
               /\ pagedPage = "elements" =>
                    d.answer.list = <<>> /\ d.answer.next = None /\ d.answer.known = {}
    <3>1. PICK c \in pagedCalls : PagedSame(d, c)
      BY <1>6, <2>1
    <3>2. d.answer = c.answer /\ d.for = c.for /\ d.cursor = c.cursor
      BY <3>1 DEF PagedSame
    <3>3. c.answer \in PagedAnswers
      BY <1>0, <2>1, <3>2 DEF PagedTyped, PagedCallType
    <3>4. c.answer.list \in Seq(Paged!Games) /\ c.answer.known \subseteq Paged!Games
      BY <3>3 DEF PagedAnswers
    <3>5. c.answer.ok => PagedAnswered(d)'
      BY <1>0, <2>1, <3>2, <3>4, PagedAnswersStay DEF PagedServed
    <3>6. pagedPage = "elements" =>
            c.answer.list = <<>> /\ c.answer.next = None /\ c.answer.known = {}
      BY <1>0, <2>1, <3>2 DEF PagedServed
    <3> QED BY <3>2, <3>5, <3>6
  <2>2. \A d \in pagedCalls' : ~d.append => d.cursor = None
    BY <1>0, <1>6 DEF PagedServed, PagedSame
  <2>3. \A d \in pagedCalls' : d.append /\ ~d.aborted =>
          /\ pagedPage = "history" /\ d.cursor # None /\ d.cursor = pagedState'.cursor
          /\ d.answer = None
    BY <1>6, <1>8
  <2> QED BY <2>1, <2>2, <2>3 DEF PagedServed
<1>14. PagedFit'
  <2>1. CASE append \/ pagedPage = "elements"
    <3>1. /\ pagedState'.list = pagedState.list /\ pagedState'.cursor = pagedState.cursor
          /\ pagedState'.known = pagedState.known /\ pagedState'.for = pagedState.for
      BY <1>8, <2>1
    <3>2. pagedState'.cursor # None => pagedSeen' = pagedSeen
      BY <1>0, <2>1, <3>1 DEF PagedFit
    <3>3. \A for_, g : PagedFits(for_, g)' <=> PagedFits(for_, g)
      BY DEF PagedFits
    <3> QED BY <1>0, <3>1, <3>2, <3>3 DEF PagedFit
  <2>2. CASE ~(append \/ pagedPage = "elements")
    <3>1. pagedState'.list = <<>> /\ pagedState'.cursor = None /\ pagedState'.known = {}
      BY <1>8, <2>2
    <3> QED BY <3>1 DEF PagedFit, Falling, Whole, EndsAt
  <2> QED BY <2>1, <2>2
<1> QED BY <1>9, <1>10, <1>11, <1>12, <1>13, <1>14 DEF PagedInv

(* A page that begins after the last game shown continues the list.         *)
LEMMA PagedJoins ==
  ASSUME NEW list \in Seq(Paged!Games), NEW more \in Seq(Paged!Games),
         NEW cursor \in Paged!Games, NEW known \in SUBSET Paged!Games,
         NEW asked \in SUBSET Paged!Games, NEW next, known \subseteq asked,
         Falling(list), Whole(list, known), list # <<>>, cursor = list[Len(list)],
         Falling(more), Whole(more, Below(asked, cursor)), EndsAt(more, next),
         \A i \in 1 .. Len(more) : more[i] < cursor
  PROVE  LET both == list \o more
         IN /\ both \in Seq(Paged!Games)
            /\ Falling(both) /\ Whole(both, known) /\ EndsAt(both, next)
            /\ \A i \in 1 .. Len(both) : \/ \E j \in 1 .. Len(list) : both[i] = list[j]
                                         \/ \E j \in 1 .. Len(more) : both[i] = more[j]
<1> DEFINE both == list \o more
           m == Len(list)
           n == Len(more)
<1>1. m \in Nat /\ n \in Nat /\ m > 0
  OBVIOUS
<1>2. both \in Seq(Paged!Games) /\ Len(both) = m + n
  OBVIOUS
<1>3. /\ \A i \in 1 .. m : both[i] = list[i]
      /\ \A i \in 1 .. n : both[m + i] = more[i]
  OBVIOUS
<1>g. /\ \A i \in 1 .. m : list[i] \in Int
      /\ \A i \in 1 .. n : more[i] \in Int
      /\ \A g \in asked : g \in Int
      /\ cursor \in Int /\ cursor = list[m]
  <2>1. Paged!Games \subseteq Int
    BY PagedConstants
  <2>2. \A i \in 1 .. m : list[i] \in Paged!Games
    OBVIOUS
  <2>3. \A i \in 1 .. n : more[i] \in Paged!Games
    OBVIOUS
  <2> HIDE DEF m, n
  <2>4. cursor \in Paged!Games /\ \A g \in asked : g \in Paged!Games
    OBVIOUS
  <2>5. cursor = list[m]
    BY DEF m
  <2> QED BY <2>1, <2>2, <2>3, <2>4, <2>5
<1>h. /\ \A i, j \in 1 .. m : i < j => list[i] > list[j]
      /\ \A i, j \in 1 .. n : i < j => more[i] > more[j]
  BY DEF Falling
<1>w. /\ \A g \in known, i \in 1 .. m : list[i] <= g => \E j \in 1 .. m : list[j] = g
      /\ \A g \in asked, i \in 1 .. n :
           g < cursor /\ more[i] <= g => \E j \in 1 .. n : more[j] = g
  BY DEF Whole, Below
<1>e. next # None => more # <<>> /\ next = more[n]
  BY DEF EndsAt
<1>s. /\ \A i \in 1 .. n : more[i] < cursor
      /\ more # <<>> => n > 0
  OBVIOUS
<1> HIDE DEF both, m, n
<1>4. \A i \in 1 .. m + n : i \in 1 .. m \/ (i - m \in 1 .. n /\ i = m + (i - m))
  BY <1>1
<1>5. \A i \in 1 .. m + n : \/ i \in 1 .. m /\ both[i] = list[i]
                            \/ i > m /\ i - m \in 1 .. n /\ both[i] = more[i - m]
  <2> SUFFICES ASSUME NEW i \in 1 .. m + n
               PROVE  \/ i \in 1 .. m /\ both[i] = list[i]
                      \/ i > m /\ i - m \in 1 .. n /\ both[i] = more[i - m]
    OBVIOUS
  <2>1. CASE i \in 1 .. m
    BY <1>3, <2>1
  <2>2. CASE i - m \in 1 .. n
    <3>1. i = m + (i - m) /\ i > m
      BY <1>1, <2>2
    <3>2. both[m + (i - m)] = more[i - m]
      BY <1>3, <2>2
    <3> QED BY <2>2, <3>1, <3>2
  <2> QED BY <1>4, <2>1, <2>2
<1>6. ASSUME NEW i \in 1 .. m PROVE list[i] >= cursor
  <2>1. i = m \/ (i < m /\ m \in 1 .. m)
    BY <1>1
  <2>2. i < m /\ m \in 1 .. m => list[i] > list[m]
    BY <1>h
  <2> QED BY <1>g, <2>1, <2>2
<1>7. ASSUME NEW i \in 1 .. m + n, NEW j \in 1 .. m + n, i < j PROVE both[i] > both[j]
  <2>1. CASE i \in 1 .. m /\ j \in 1 .. m
    <3>1. list[i] > list[j]
      BY <1>7, <1>h, <2>1
    <3> QED BY <1>3, <2>1, <3>1
  <2>2. CASE i \in 1 .. m /\ j > m /\ j - m \in 1 .. n /\ both[j] = more[j - m]
    <3>1. list[i] >= cursor /\ more[j - m] < cursor /\ both[i] = list[i]
      BY <1>3, <1>6, <1>s, <2>2
    <3>2. list[i] \in Int /\ more[j - m] \in Int
      BY <1>g, <2>2
    <3> QED BY <1>g, <2>2, <3>1, <3>2
  <2>3. CASE /\ i > m /\ i - m \in 1 .. n /\ both[i] = more[i - m]
             /\ j > m /\ j - m \in 1 .. n /\ both[j] = more[j - m]
    <3>1. i - m < j - m
      BY <1>1, <1>7
    <3>2. more[i - m] > more[j - m]
      BY <1>h, <2>3, <3>1
    <3> QED BY <2>3, <3>2
  <2>4. ~(i > m /\ j \in 1 .. m)
    BY <1>1, <1>7
  <2> QED BY <1>5, <2>1, <2>2, <2>3, <2>4
<1>8. Falling(both)
  BY <1>2, <1>7 DEF Falling
<1>9. ASSUME NEW g \in known, NEW i \in 1 .. m + n, both[i] <= g
      PROVE  \E j \in 1 .. m + n : both[j] = g
  <2>1. ASSUME NEW k \in 1 .. m, list[k] <= g PROVE \E j \in 1 .. m + n : both[j] = g
    <3>1. PICK j \in 1 .. m : list[j] = g
      BY <1>w, <2>1
    <3>2. j \in 1 .. m + n
      BY <1>1
    <3> QED BY <1>3, <3>1, <3>2
  <2>2. CASE i \in 1 .. m /\ both[i] = list[i]
    BY <1>9, <2>1, <2>2
  <2>3. CASE i - m \in 1 .. n /\ both[i] = more[i - m] /\ g < cursor
    <3>1. PICK j \in 1 .. n : more[j] = g
      BY <1>9, <1>w, <2>3
    <3>2. m + j \in 1 .. m + n
      BY <1>1
    <3> QED BY <1>3, <3>1, <3>2
  <2>4. CASE ~(g < cursor)
    <3>1. g \in Int /\ m \in 1 .. m
      BY <1>1, <1>g
    <3>2. list[m] <= g
      BY <1>g, <2>4, <3>1
    <3> QED BY <2>1, <3>1, <3>2
  <2> QED BY <1>5, <2>2, <2>3, <2>4
<1>10. Whole(both, known)
  BY <1>2, <1>9 DEF Whole
<1>11. EndsAt(both, next)
  <2> SUFFICES ASSUME next # None PROVE both # <<>> /\ next = both[Len(both)]
    BY DEF EndsAt
  <2>1. n > 0 /\ next = more[n] /\ n \in 1 .. n
    BY <1>1, <1>e, <1>s
  <2>2. both[m + n] = more[n] /\ Len(both) > 0
    BY <1>1, <1>2, <1>3, <2>1
  <2>3. both # <<>>
    BY <2>2
  <2> QED BY <1>2, <2>1, <2>2, <2>3
<1>12. \A i \in 1 .. Len(both) : \/ \E j \in 1 .. m : both[i] = list[j]
                                 \/ \E j \in 1 .. n : both[i] = more[j]
  BY <1>2, <1>5
<1> QED BY <1>2, <1>8, <1>10, <1>11, <1>12 DEF both, m, n

(* What the end of the last load makes of the state.                        *)
PagedEnded(c) ==
  /\ pagedState' \in PagedStates /\ pagedState'.initial = FALSE
  /\ pagedState'.busy = FALSE /\ pagedState'.controller = 0
  /\ pagedState'.key = pagedState.key /\ pagedState'.applied = pagedState.applied
  /\ IF c.aborted \/ ~c.answer.ok
     THEN /\ pagedState'.for = pagedState.for /\ pagedState'.cursor = pagedState.cursor
          /\ pagedState'.known = pagedState.known /\ (~c.aborted => pagedState'.error)
          /\ pagedState'.list = IF pagedPage = "elements" /\ ~c.aborted
                                THEN <<>> ELSE pagedState.list
     ELSE /\ pagedState'.for = c.for /\ pagedState'.cursor = c.answer.next
          /\ pagedState'.known = IF c.append THEN pagedState.known ELSE c.answer.known
          /\ pagedState'.list = IF c.append THEN pagedState.list \o c.answer.list
                                ELSE c.answer.list

LEMMA PagedRead ==
  ASSUME PagedInv, NEW c \in pagedCalls, Paged!Settle(c), c.id = pagedIssued,
         c.aborted \/ c.answer # None
  PROVE  PagedEnded(c)
<1> USE DEF PagedEnded
<1>0. pagedState \in PagedStates /\ c \in PagedCallType /\ PagedControl
  BY DEF PagedInv, PagedTyped
<1> DEFINE kept == IF pagedPage = "elements" THEN <<>> ELSE pagedState.list
           both == IF c.append THEN pagedState.list \o c.answer.list ELSE c.answer.list
           known == IF c.append THEN pagedState.known ELSE c.answer.known
           next == c.answer.next
           asked == c.for
           failed == [pagedState EXCEPT !.error = TRUE, !.list = kept]
           shown == [pagedState EXCEPT !.list = both, !.for = asked, !.cursor = next,
                                       !.known = known]
           read == IF c.aborted THEN pagedState ELSE IF ~c.answer.ok THEN failed ELSE shown
           controller == IF read.controller = c.id THEN 0 ELSE read.controller
           t == [read EXCEPT !.initial = FALSE, !.busy = FALSE, !.controller = controller]
<1>1. pagedState' = t
  BY Zenon DEF Paged!Settle
<1>2. /\ kept \in Seq(Paged!Games) /\ c.for \in Paged!Keys \cup {None}
      /\ ~c.aborted =>
           /\ both \in Seq(Paged!Games) /\ known \in SUBSET Paged!Games
           /\ c.answer.next \in Paged!Games \cup {None}
  <2>1. ~c.aborted => c.answer \in PagedAnswers
    BY <1>0 DEF PagedCallType
  <2>2. /\ pagedState.list \in Seq(Paged!Games) /\ pagedState.known \in SUBSET Paged!Games
        /\ c.for \in Paged!Keys
    BY <1>0 DEF PagedStates, PagedCallType
  <2>3. ~c.aborted => /\ c.answer.list \in Seq(Paged!Games) /\ c.answer.known \in SUBSET Paged!Games
                      /\ c.answer.next \in Paged!Games \cup {None}
    BY <2>1 DEF PagedAnswers
  <2> QED BY <2>2, <2>3
<1>d. /\ next = c.answer.next /\ asked = c.for
      /\ kept = IF pagedPage = "elements" THEN <<>> ELSE pagedState.list
      /\ both = IF c.append THEN pagedState.list \o c.answer.list ELSE c.answer.list
      /\ known = IF c.append THEN pagedState.known ELSE c.answer.known
  OBVIOUS
<1> HIDE DEF kept, both, known, next, asked
<1>3. /\ failed \in PagedStates /\ failed.error = TRUE /\ failed.list = kept
      /\ failed.for = pagedState.for /\ failed.cursor = pagedState.cursor
      /\ failed.known = pagedState.known /\ failed.key = pagedState.key
      /\ failed.applied = pagedState.applied /\ failed.controller = pagedState.controller
  BY <1>0, <1>2 DEF PagedStates
<1>4. ~c.aborted =>
        /\ shown \in PagedStates /\ shown.list = both
        /\ shown.for = asked /\ shown.cursor = next
        /\ shown.known = known /\ shown.key = pagedState.key
        /\ shown.applied = pagedState.applied /\ shown.controller = pagedState.controller
  <2> SUFFICES ASSUME ~c.aborted
               PROVE  /\ shown \in PagedStates /\ shown.list = both
                      /\ shown.for = asked /\ shown.cursor = next
                      /\ shown.known = known /\ shown.key = pagedState.key
                      /\ shown.applied = pagedState.applied
                      /\ shown.controller = pagedState.controller
    OBVIOUS
  <2>1. /\ next \in Paged!Games \cup {None} /\ asked \in Paged!Keys \cup {None}
        /\ both \in Seq(Paged!Games) /\ known \in SUBSET Paged!Games
    BY <1>2, <1>d
  <2>r. pagedState \in PagedStates
    BY <1>0
  <2>2. shown \in PagedStates
    BY <2>r, <2>1 DEF PagedStates
  <2>3. shown.list = both /\ shown.for = asked
    BY <2>r DEF PagedStates
  <2>4. shown.cursor = next /\ shown.known = known
    BY <2>r DEF PagedStates
  <2>5. shown.key = pagedState.key /\ shown.applied = pagedState.applied
    BY <2>r DEF PagedStates
  <2>6. shown.controller = pagedState.controller
    BY <2>r DEF PagedStates
  <2> QED BY <2>2, <2>3, <2>4, <2>5, <2>6
<1> HIDE DEF failed, shown
<1>5. /\ read \in PagedStates /\ read.key = pagedState.key /\ read.applied = pagedState.applied
      /\ read.controller = pagedState.controller
      /\ c.aborted => read = pagedState
      /\ ~c.aborted /\ ~c.answer.ok => read = failed
      /\ ~c.aborted /\ c.answer.ok => read = shown
  BY <1>0, <1>3, <1>4
<1> HIDE DEF read
<1>6. controller = 0
  BY <1>0, <1>5 DEF PagedControl
<1> HIDE DEF controller
<1>7. /\ t \in PagedStates /\ t.initial = FALSE /\ t.busy = FALSE /\ t.controller = controller
      /\ t.key = read.key /\ t.applied = read.applied /\ t.list = read.list /\ t.for = read.for
      /\ t.cursor = read.cursor /\ t.known = read.known /\ t.error = read.error
  <2>1. t \in PagedStates
    BY <1>5, <1>6 DEF PagedStates
  <2>r. read \in PagedStates
    BY <1>5
  <2>2. t.initial = FALSE /\ t.busy = FALSE /\ t.controller = controller
    BY <2>r DEF PagedStates
  <2>3. t.key = read.key /\ t.applied = read.applied /\ t.list = read.list
    BY <2>r DEF PagedStates
  <2>4. t.for = read.for /\ t.cursor = read.cursor
    BY <2>r DEF PagedStates
  <2>5. t.known = read.known /\ t.error = read.error
    BY <2>r DEF PagedStates
  <2> QED BY <2>1, <2>2, <2>3, <2>4, <2>5
<1> HIDE DEF t
<1>8. CASE c.aborted
  BY <1>1, <1>5, <1>6, <1>7, <1>8
<1>9. CASE ~c.aborted /\ ~c.answer.ok
  BY <1>1, <1>3, <1>5, <1>6, <1>7, <1>9, <1>d
<1>10. CASE ~c.aborted /\ c.answer.ok
  BY <1>1, <1>4, <1>5, <1>6, <1>7, <1>10, <1>d
<1> QED BY <1>8, <1>9, <1>10

(* Fewer calls.                                                             *)
LEMMA PagedFewer ==
  ASSUME PagedServed, pagedCalls' \subseteq pagedCalls, UNCHANGED <<pagedPage, pagedSaved>>,
         pagedState' = pagedState \/ \A d \in pagedCalls' : d.aborted
  PROVE  PagedServed'
<1>1. \A d : PagedAnswered(d) => PagedAnswered(d)'
  <2>1. \A for, g : PagedFits(for, g) => PagedFits(for, g)'
    BY DEF PagedFits
  <2> QED BY <2>1 DEF PagedAnswered
<1> QED BY <1>1 DEF PagedServed

LEMMA PagedSettles ==
  ASSUME PagedInv, NEW c \in pagedCalls, Paged!Settle(c), c.aborted \/ c.answer # None
  PROVE  PagedInv'
<1>0. PagedTyped /\ PagedControl /\ PagedAsked /\ PagedShown /\ PagedServed /\ PagedFit
  BY DEF PagedInv
<1>1. /\ pagedCalls' = pagedCalls \ {c} /\ (c.id # pagedIssued => pagedState' = pagedState)
      /\ UNCHANGED <<pagedPage, pagedSession, pagedQuery, pagedSeen, pagedSaved, pagedIssued,
                     pagedLeft>>
  BY Zenon DEF Paged!Settle
<1>2. /\ PagedFresh' <=> PagedFresh
      /\ PagedOut' <=> PagedOut
      /\ \A for, g : PagedFits(for, g)' <=> PagedFits(for, g)
  BY <1>1 DEF PagedFresh, PagedOut, PagedFits
<1>3. ~PagedFresh
  BY <1>0 DEF PagedAsked
<1>4. CASE c.id # pagedIssued
  <2>1. pagedState' = pagedState /\ c.aborted
    BY <1>0, <1>1, <1>4 DEF PagedControl
  <2>2. PagedTyped' /\ PagedControl' /\ PagedAsked'
    BY <1>0, <1>1, <1>2, <1>3, <2>1 DEF PagedTyped, PagedControl, PagedAsked
  <2>3. PagedShown'
    BY <1>0, <1>1, <1>2, <1>4, <2>1 DEF PagedShown
  <2>4. PagedServed'
    BY <1>0, <1>1, <2>1, PagedFewer
  <2>5. PagedFit'
    BY <1>0, <1>1, <1>2, <2>1 DEF PagedFit
  <2> QED BY <2>2, <2>3, <2>4, <2>5 DEF PagedInv
<1>5. CASE c.id = pagedIssued
  <2>1. PagedEnded(c)
    BY <1>5, PagedRead
  <2> USE DEF PagedEnded
  <2>2. \A d \in pagedCalls' : d \in pagedCalls /\ d.id # pagedIssued /\ d.aborted
    BY <1>0, <1>1, <1>5 DEF PagedControl
  <2>3. c.aborted => PagedOut
    BY <1>0, <1>5 DEF PagedAsked
  <2>4. ~c.aborted => ~PagedOut /\ c.for = pagedSeen
    BY <1>0 DEF PagedAsked
  <2>5. PagedTyped'
    BY <1>0, <1>1, <2>1 DEF PagedTyped
  <2>6. PagedControl'
    BY <1>0, <1>1, <2>1, <2>2 DEF PagedControl
  <2>7. PagedAsked'
    <3>1. PagedOut => pagedState'.list = <<>>
      BY <1>0, <2>1, <2>4 DEF PagedAsked
    <3>2. /\ pagedSession = Paged!Initializing => PagedFresh
          /\ pagedState.key # None => pagedState.key = pagedSeen /\ pagedState.applied = pagedSeen[1]
          /\ ~PagedFresh /\ ~PagedOut => pagedState.key # None
      BY <1>0 DEF PagedAsked
    <3> QED BY <1>1, <1>2, <1>3, <2>1, <2>2, <3>1, <3>2 DEF PagedAsked
  <2>8. PagedShown'
    BY <1>1, <1>2, <2>1, <2>3, <2>4 DEF PagedShown
  <2>9. PagedServed'
    BY <1>0, <1>1, <2>2, PagedFewer
  <2>10. PagedFit'
    <3>1. CASE c.aborted \/ ~c.answer.ok
      <4>1. /\ pagedState'.for = pagedState.for /\ pagedState'.cursor = pagedState.cursor
            /\ pagedState'.known = pagedState.known
            /\ pagedState'.list = IF pagedPage = "elements" /\ ~c.aborted
                                  THEN <<>> ELSE pagedState.list
        BY <2>1, <3>1
      <4>2. pagedState'.list = pagedState.list
        BY <1>0, <4>1 DEF PagedFit
      <4> QED BY <1>0, <1>1, <1>2, <4>1, <4>2 DEF PagedFit
    <3>2. CASE ~c.aborted /\ c.answer.ok
      <4> DEFINE a == c.answer
      <4>1. /\ a.list \in Seq(Paged!Games) /\ a.known \in SUBSET Paged!Games
            /\ c.for \in Paged!Keys /\ a # None /\ pagedState.list \in Seq(Paged!Games)
            /\ pagedState.known \in SUBSET Paged!Games
            /\ pagedState.cursor \in Paged!Games \cup {None}
        <5>1. c \in PagedCallType /\ pagedState \in PagedStates
          BY <1>0 DEF PagedTyped
        <5>2. a \in PagedAnswers /\ a # None /\ c.for \in Paged!Keys
          BY <3>2, <5>1 DEF PagedCallType
        <5> HIDE DEF a
        <5> QED BY <5>1, <5>2 DEF PagedAnswers, PagedStates
      <4>2. PagedAnswered(c)
        BY <1>0, <3>2, <4>1 DEF PagedServed
      <4>3. /\ Falling(a.list) /\ EndsAt(a.list, a.next)
            /\ \A i \in 1 .. Len(a.list) :
                 PagedFits(c.for, a.list[i]) /\ (c.cursor # None => a.list[i] < c.cursor)
            /\ \A g \in a.known : PagedFits(c.for, g)
            /\ Whole(a.list, Below(a.known, c.cursor))
        BY <4>2 DEF PagedAnswered
      <4>4. c.for # None /\ c.for = pagedSeen'
        BY <1>1, <2>4, <3>2, <4>1, PagedConstants
      <4>5. /\ pagedState'.for = c.for /\ pagedState'.cursor = a.next
            /\ pagedState'.known = IF c.append THEN pagedState.known ELSE a.known
            /\ pagedState'.list = IF c.append THEN pagedState.list \o a.list ELSE a.list
        BY <2>1, <3>2
      <4>6. pagedPage = "elements" =>
              ~c.append /\ a.list = <<>> /\ a.next = None /\ a.known = {}
        BY <1>0, <3>2, <4>1 DEF PagedServed
      <4> HIDE DEF a
      <4>7. CASE ~c.append
        <5>1. c.cursor = None
          BY <1>0, <4>7 DEF PagedServed
        <5>2. pagedState'.list = a.list /\ pagedState'.known = a.known
          BY <4>5, <4>7
        <5>3. Below(a.known, c.cursor) = a.known
          BY <5>1 DEF Below
        <5> QED BY <1>1, <1>2, <4>3, <4>4, <4>5, <4>6, <5>2, <5>3 DEF PagedFit
      <4>8. CASE c.append
        <5> DEFINE both == pagedState.list \o a.list
        <5>1. /\ pagedPage = "history" /\ c.cursor # None /\ c.cursor = pagedState.cursor
              /\ pagedState.known \subseteq a.known
          BY <1>0, <3>2, <4>1, <4>8 DEF PagedServed, a
        <5>2. /\ Falling(pagedState.list) /\ Whole(pagedState.list, pagedState.known)
              /\ pagedState.list # <<>> /\ c.cursor = pagedState.list[Len(pagedState.list)]
              /\ pagedState.for = pagedSeen
              /\ \A i \in 1 .. Len(pagedState.list) : PagedFits(pagedState.for, pagedState.list[i])
              /\ \A g \in pagedState.known : PagedFits(pagedState.for, g)
          BY <1>0, <5>1 DEF PagedFit, EndsAt
        <5>3. /\ both \in Seq(Paged!Games)
              /\ Falling(both) /\ Whole(both, pagedState.known) /\ EndsAt(both, a.next)
              /\ \A i \in 1 .. Len(both) :
                   \/ \E j \in 1 .. Len(pagedState.list) : both[i] = pagedState.list[j]
                   \/ \E j \in 1 .. Len(a.list) : both[i] = a.list[j]
          <6>1. c.cursor \in Paged!Games /\ \A i \in 1 .. Len(a.list) : a.list[i] < c.cursor
            BY <4>1, <4>3, <5>1
          <6> HIDE DEF both
          <6> QED BY <4>1, <4>3, <5>1, <5>2, <6>1, PagedJoins DEF both
        <5>4. pagedState'.list = both /\ pagedState'.known = pagedState.known
          BY <4>5, <4>8
        <5> HIDE DEF both
        <5>5. c.for = pagedState.for
          BY <1>1, <4>4, <5>2
        <5>6. \A i \in 1 .. Len(both) : PagedFits(c.for, both[i])
          BY <4>3, <5>2, <5>3, <5>5, Zenon
        <5> QED BY <1>1, <1>2, <4>4, <4>5, <5>1, <5>2, <5>3, <5>4, <5>5, <5>6 DEF PagedFit
      <4> QED BY <4>7, <4>8
    <3> QED BY <3>1, <3>2
  <2> QED BY <2>5, <2>6, <2>7, <2>8, <2>9, <2>10 DEF PagedInv
<1> QED BY <1>4, <1>5

LEMMA PagedResets ==
  ASSUME PagedInv, Paged!Reset, pagedPage = "history", pagedSession = Paged!Anonymous,
         pagedSeen' = <<pagedQuery, pagedSession>>,
         UNCHANGED <<pagedPage, pagedSession, pagedQuery, pagedSaved, pagedLeft>>
  PROVE  PagedInv'
<1>0. PagedTyped /\ PagedControl /\ PagedAsked /\ PagedServed
  BY DEF PagedInv
<1> DEFINE blank == [list |-> <<>>, for |-> None, cursor |-> None, known |-> {},
                     initial |-> FALSE, busy |-> FALSE, error |-> FALSE, controller |-> 0,
                     key |-> None, applied |-> pagedState.applied]
<1>1. /\ pagedCalls' = Paged!Abort(pagedCalls, pagedState.controller)
      /\ pagedIssued' = pagedIssued
      /\ pagedState' = [Paged!NewState EXCEPT !.initial = FALSE, !.busy = FALSE,
                                              !.applied = pagedState.applied]
  BY DEF Paged!Reset
<1>2. pagedState' = blank
  BY <1>1 DEF Paged!NewState
<1>3. /\ pagedState' \in PagedStates /\ pagedState'.list = <<>> /\ pagedState'.known = {}
      /\ pagedState'.cursor = None /\ pagedState'.controller = 0 /\ pagedState'.key = None
      /\ pagedState'.initial = FALSE /\ pagedState'.busy = FALSE
  <2>1. pagedState.applied \in Modes \cup {None}
    BY <1>0 DEF PagedTyped, PagedStates
  <2>2. blank \in PagedStates
    BY <2>1 DEF PagedStates
  <2> QED BY <1>2, <2>2
<1> HIDE DEF blank
<1>4. PagedAborted(pagedCalls, pagedCalls', pagedState.controller)
  BY <1>0, <1>1, PagedAborts DEF PagedTyped
<1>5. /\ pagedCalls' \subseteq PagedCallType
      /\ \A d \in pagedCalls' : d.aborted /\ \E c \in pagedCalls : PagedSame(d, c)
      /\ \A b, c \in pagedCalls' : b.id = c.id => b = c
  BY <1>0, <1>4 DEF PagedAborted, PagedControl
<1>6. /\ pagedSeen' \in (Modes \cup {None}) \X PagedSessions /\ pagedSeen' # None
      /\ pagedSeen'[2] = Paged!Anonymous /\ Paged!Anonymous # Paged!Initializing
  BY <1>0, PagedConstants DEF PagedTyped
<1>7. ~PagedFresh' /\ PagedOut'
  BY <1>6 DEF PagedFresh, PagedOut
<1>8. PagedTyped'
  BY <1>0, <1>1, <1>3, <1>5, <1>6 DEF PagedTyped
<1>9. PagedControl'
  BY <1>0, <1>1, <1>3, <1>5 DEF PagedControl, PagedSame
<1>10. PagedAsked' /\ PagedShown'
  BY <1>3, <1>5, <1>6, <1>7 DEF PagedAsked, PagedShown
<1>11. PagedServed'
  <2>1. ASSUME NEW d \in pagedCalls', d.answer # None, d.answer.ok PROVE PagedAnswered(d)'
    <3>1. PICK c \in pagedCalls : PagedSame(d, c)
      BY <1>5
    <3>2. d.answer = c.answer /\ d.for = c.for /\ d.cursor = c.cursor
      BY <3>1 DEF PagedSame
    <3>3. c.answer \in PagedAnswers /\ PagedAnswered(c)
      BY <1>0, <2>1, <3>2 DEF PagedTyped, PagedCallType, PagedServed
    <3>4. c.answer.list \in Seq(Paged!Games) /\ c.answer.known \subseteq Paged!Games
      BY <3>3 DEF PagedAnswers
    <3> QED BY <3>2, <3>3, <3>4, PagedAnswersStay
  <2>2. \A d \in pagedCalls' : ~d.append => d.cursor = None
    BY <1>0, <1>5 DEF PagedServed, PagedSame
  <2> QED BY <1>5, <2>1, <2>2 DEF PagedServed
<1>12. PagedFit'
  BY <1>3 DEF PagedFit, Falling, Whole, EndsAt
<1> QED BY <1>8, <1>9, <1>10, <1>11, <1>12 DEF PagedInv

LEMMA PagedEffects ==
  ASSUME PagedInv, Paged!Effect
  PROVE  PagedInv'
<1>0. PagedTyped /\ PagedControl /\ PagedAsked /\ PagedShown /\ PagedServed /\ PagedFit
  BY DEF PagedInv
<1>1. /\ pagedSeen # <<pagedQuery, pagedSession>> /\ pagedSeen' = <<pagedQuery, pagedSession>>
      /\ UNCHANGED <<pagedPage, pagedSession, pagedQuery, pagedSaved, pagedLeft>>
      /\ CASE pagedSession = Paged!Initializing -> UNCHANGED <<pagedState, pagedCalls, pagedIssued>>
           [] pagedSession = Paged!Anonymous /\ pagedPage = "history" -> Paged!Reset
           [] OTHER -> IF pagedState.key = Paged!Key
                       THEN UNCHANGED <<pagedState, pagedCalls, pagedIssued>>
                       ELSE Paged!Load([pagedState EXCEPT !.key = Paged!Key, !.applied = pagedQuery],
                                       Paged!Key, FALSE)
  BY DEF Paged!Effect, Paged!EffectDue, Paged!Key
<1>2. /\ <<pagedQuery, pagedSession>> \in (Modes \cup {None}) \X PagedSessions
      /\ <<pagedQuery, pagedSession>> # None /\ pagedSeen'[2] = pagedSession
      /\ pagedSeen'[1] = pagedQuery
  BY <1>0, <1>1, PagedKeys DEF PagedTyped
<1>3. CASE pagedSession = Paged!Initializing
  <2>1. UNCHANGED <<pagedState, pagedCalls, pagedIssued>>
    <3>1. ~(pagedSession = Paged!Anonymous /\ pagedPage = "history")
      BY <1>3, PagedConstants
    <3> QED BY <1>1, <1>3, <3>1, Zenon
  <2>2. PagedFresh /\ PagedFresh' /\ ~PagedOut'
    BY <1>0, <1>2, <1>3 DEF PagedAsked, PagedFresh, PagedOut
  <2>3. pagedState = Paged!NewState /\ pagedCalls = {}
    BY <1>0, <2>2 DEF PagedAsked
  <2>4. /\ pagedState.key = None /\ pagedState.list = <<>> /\ pagedState.cursor = None
        /\ pagedState.known = {}
    BY <2>3 DEF Paged!NewState
  <2>5. PagedTyped' /\ PagedControl' /\ PagedServed'
    BY <1>0, <1>1, <1>2, <2>1, <2>3 DEF PagedTyped, PagedControl, PagedServed
  <2>6. PagedAsked' /\ PagedShown'
    BY <2>1, <2>2, <2>3, <2>4 DEF PagedAsked, PagedShown
  <2>7. PagedFit'
    BY <2>1, <2>4 DEF PagedFit, Falling, Whole, EndsAt
  <2> QED BY <2>5, <2>6, <2>7 DEF PagedInv
<1>4. CASE pagedSession = Paged!Anonymous /\ pagedPage = "history"
  <2>1. pagedSession # Paged!Initializing
    BY <1>4, PagedConstants
  <2>2. Paged!Reset
    BY <1>1, <1>4, <2>1
  <2> QED BY <1>1, <1>4, <2>2, PagedResets
<1>5. CASE pagedSession # Paged!Initializing /\ ~(pagedSession = Paged!Anonymous /\ pagedPage = "history")
  <2> DEFINE key == <<pagedQuery, pagedSession>>
             s == [pagedState EXCEPT !.key = key, !.applied = pagedQuery]
  <2>1. key \in Paged!Keys /\ key # None /\ key[2] = pagedSession /\ key[1] = pagedQuery
        /\ Paged!Key = key
    BY <1>2, <1>5, PagedKeys DEF Paged!Key
  <2>2. pagedState.key # key
    BY <1>0, <1>1, <2>1 DEF PagedAsked
  <2>3. Paged!Load(s, key, FALSE)
    BY <1>1, <1>5, <2>1, <2>2
  <2>k. pagedSeen' = key
    BY <1>1
  <2> HIDE DEF key
  <2>4. /\ s \in PagedStates
        /\ s.list = pagedState.list /\ s.for = pagedState.for /\ s.cursor = pagedState.cursor
        /\ s.known = pagedState.known /\ s.controller = pagedState.controller
        /\ s.key = key /\ s.applied = pagedQuery
    <3>1. pagedState \in PagedStates /\ pagedQuery \in Modes \cup {None}
      BY <1>0 DEF PagedTyped
    <3>2. s \in PagedStates
      BY <2>1, <3>1 DEF PagedStates
    <3>3. s.list = pagedState.list /\ s.for = pagedState.for /\ s.cursor = pagedState.cursor
      BY <3>1 DEF PagedStates
    <3>4. s.known = pagedState.known /\ s.controller = pagedState.controller
      BY <3>1 DEF PagedStates
    <3>5. s.key = key /\ s.applied = pagedQuery
      BY <3>1 DEF PagedStates
    <3> QED BY <3>2, <3>3, <3>4, <3>5
  <2> HIDE DEF s
  <2>5. ~(pagedPage = "history" /\ key[2] = Paged!Anonymous) /\ FALSE \in BOOLEAN
    BY <1>5, <2>1
  <2>6. pagedLeft' \in 0 .. PagedSteps
    BY <1>0, <1>1 DEF PagedTyped
  <2>7. s.applied = key[1]
    BY <2>1, <2>4
  <2> QED BY <1>1, <1>5, <2>1, <2>3, <2>4, <2>5, <2>6, <2>7, <2>k, PagedLoading
<1> QED BY <1>3, <1>4, <1>5

(* At rest: what the effect saw is what the page asks for.                  *)
LEMMA PagedAtRest ==
  ASSUME PagedInv, Paged!Quiet
  PROVE  /\ pagedSeen = <<pagedQuery, pagedSession>> /\ pagedSeen # None
         /\ PagedFresh <=> pagedSession = Paged!Initializing
         /\ \A c \in pagedCalls : ~c.aborted
<1>1. pagedSeen = <<pagedQuery, pagedSession>> /\ \A c \in pagedCalls : ~c.aborted
  BY DEF Paged!Quiet, Paged!EffectDue, Paged!Settling, Paged!Key
<1>2. <<pagedQuery, pagedSession>> # None
  BY PagedKeys DEF PagedInv, PagedTyped
<1> QED BY <1>1, <1>2 DEF PagedFresh

(* A button that loads what the effect saw.                                 *)
LEMMA PagedButtons ==
  ASSUME PagedInv, Paged!User, NEW append \in BOOLEAN,
         Paged!Load(pagedState, <<pagedState.applied, pagedSession>>, append),
         pagedState # Paged!NewState, pagedPage = "history" => pagedSession \in Paged!Tokens,
         append => pagedPage = "history" /\ pagedState.cursor # None,
         UNCHANGED <<pagedPage, pagedSession, pagedQuery, pagedSeen, pagedSaved>>
  PROVE  PagedInv'
<1>0. PagedTyped /\ PagedAsked
  BY DEF PagedInv
<1>1. /\ pagedSeen = <<pagedQuery, pagedSession>> /\ pagedSeen # None
      /\ PagedFresh <=> pagedSession = Paged!Initializing
  BY PagedAtRest DEF Paged!User
<1>2. ~PagedFresh /\ pagedSession # Paged!Initializing
  BY <1>0, <1>1 DEF PagedAsked
<1>3. /\ pagedPage = "history" => pagedSession # Paged!Anonymous
      /\ ~PagedOut
  BY <1>1, PagedConstants DEF PagedOut
<1>4. pagedState.key = pagedSeen /\ pagedState.applied = pagedSeen[1]
  BY <1>0, <1>2, <1>3 DEF PagedAsked
<1>5. /\ <<pagedState.applied, pagedSession>> = pagedSeen /\ pagedSeen[2] = pagedSession
      /\ pagedSeen \in Paged!Keys
  <2>1. pagedSeen \in (Modes \cup {None}) \X PagedSessions
    BY <1>0, <1>1 DEF PagedTyped
  <2> QED BY <1>1, <1>2, <1>4, <2>1, PagedKeys
<1>6. Paged!Load(pagedState, pagedSeen, append)
  BY <1>5
<1>7. pagedLeft' \in 0 .. PagedSteps
  BY <1>0, PagedConstants DEF PagedTyped, Paged!User
<1>8. pagedState \in PagedStates
  BY <1>0 DEF PagedTyped
<1>9. pagedSeen' = pagedSeen /\ ~(pagedPage = "history" /\ pagedSeen[2] = Paged!Anonymous)
  BY <1>3, <1>5
<1> QED BY <1>2, <1>4, <1>5, <1>6, <1>7, <1>8, <1>9, PagedLoading

LEMMA PagedFitting ==
  \A for : Paged!OfMode(for[1]) = {g \in Paged!Games : PagedFits(for, g)}
BY DEF Paged!OfMode, PagedFits

(* An answer of the server.                                                 *)
LEMMA PagedServing ==
  ASSUME PagedTyped, NEW c \in PagedCallType, pagedPage \in {"history", "elements"}, NEW answer,
         answer \in {Paged!Failure, IF pagedPage = "history" THEN Paged!History(c.for[1], c.cursor)
                                    ELSE [Paged!Failure EXCEPT !.ok = TRUE]},
         NEW e, e.for = c.for, e.cursor = c.cursor, e.answer = answer
  PROVE  /\ answer \in PagedAnswers /\ (answer.ok => PagedAnswered(e))
         /\ pagedPage = "elements" =>
              answer.list = <<>> /\ answer.next = None /\ answer.known = {}
         /\ pagedPage = "history" /\ answer.ok => answer.known = Paged!OfMode(c.for[1])
<1> DEFINE none == [ok |-> TRUE, list |-> <<>>, next |-> None, known |-> {}]
<1>1. CASE answer = Paged!Failure
  BY <1>1 DEF Paged!Failure, PagedAnswers
<1>2. CASE pagedPage = "elements" /\ answer = [Paged!Failure EXCEPT !.ok = TRUE]
  <2>1. answer = none
    BY <1>2 DEF Paged!Failure
  <2>2. none \in PagedAnswers /\ none.list = <<>> /\ none.next = None /\ none.known = {}
    BY DEF PagedAnswers
  <2> HIDE DEF none
  <2>3. PagedAnswered(e)
    <3>1. e.answer.list = <<>> /\ e.answer.next = None /\ e.answer.known = {}
      BY <2>1, <2>2
    <3> QED BY <3>1 DEF PagedAnswered, Falling, Whole, EndsAt
  <2> QED BY <1>2, <2>1, <2>2, <2>3
<1>3. CASE pagedPage = "history" /\ answer = Paged!History(c.for[1], c.cursor)
  <2>1. c.for[1] \in Modes \cup {None} /\ c.cursor \in Paged!Games \cup {None}
    BY DEF PagedCallType, Paged!Keys
  <2>2. /\ answer \in PagedAnswers /\ answer.ok /\ answer.known = Paged!OfMode(c.for[1])
        /\ Falling(answer.list) /\ EndsAt(answer.list, answer.next)
        /\ \A i \in 1 .. Len(answer.list) :
             answer.list[i] \in Below(Paged!OfMode(c.for[1]), c.cursor)
        /\ Whole(answer.list, Below(Paged!OfMode(c.for[1]), c.cursor))
    BY <1>3, <2>1, HistoryIs
  <2>3. \A g \in Below(Paged!OfMode(c.for[1]), c.cursor) :
          PagedFits(c.for, g) /\ (c.cursor # None => g < c.cursor)
    BY PagedFitting DEF Below
  <2>4. \A g \in Paged!OfMode(c.for[1]) : PagedFits(c.for, g)
    BY PagedFitting
  <2>5. PagedAnswered(e)
    BY <2>2, <2>3, <2>4 DEF PagedAnswered
  <2> QED BY <1>3, <2>2, <2>5
<1> QED BY <1>1, <1>2, <1>3

LEMMA PagedServes ==
  ASSUME PagedInv, Paged!Serve
  PROVE  PagedInv'
<1>0. PagedTyped /\ PagedControl /\ PagedAsked /\ PagedShown /\ PagedServed /\ PagedFit
  BY DEF PagedInv
<1>1. /\ Paged!Quiet
      /\ UNCHANGED <<pagedPage, pagedSession, pagedQuery, pagedSeen, pagedState, pagedSaved,
                     pagedIssued, pagedLeft>>
  BY Zenon DEF Paged!Serve
<1>2. PICK c \in pagedCalls :
        \E answer \in {Paged!Failure, IF pagedPage = "history"
                                       THEN Paged!History(c.for[1], c.cursor)
                                       ELSE [Paged!Failure EXCEPT !.ok = TRUE]} :
          pagedCalls' = (pagedCalls \ {c}) \cup {[c EXCEPT !.answer = answer]}
  BY Zenon DEF Paged!Serve
<1>3. PICK answer \in {Paged!Failure, IF pagedPage = "history"
                                       THEN Paged!History(c.for[1], c.cursor)
                                       ELSE [Paged!Failure EXCEPT !.ok = TRUE]} :
        pagedCalls' = (pagedCalls \ {c}) \cup {[c EXCEPT !.answer = answer]}
  BY <1>2
<1> DEFINE e == [c EXCEPT !.answer = answer]
<1>4. c \in PagedCallType /\ ~c.aborted
  BY <1>0, <1>1, PagedAtRest DEF PagedTyped
<1>5. /\ e.id = c.id /\ e.for = c.for /\ e.append = c.append /\ e.cursor = c.cursor
      /\ e.aborted = c.aborted /\ e.answer = answer
  BY <1>4 DEF PagedCallType
<1>6. answer \in PagedAnswers => e \in PagedCallType
  BY <1>4 DEF PagedCallType
<1>7. pagedCalls' = (pagedCalls \ {c}) \cup {e}
  BY <1>3
<1> HIDE DEF e
<1>8. /\ answer \in PagedAnswers /\ (answer.ok => PagedAnswered(e))
      /\ pagedPage = "elements" =>
           answer.list = <<>> /\ answer.next = None /\ answer.known = {}
      /\ pagedPage = "history" /\ answer.ok => answer.known = Paged!OfMode(c.for[1])
  BY <1>0, <1>3, <1>4, <1>5, PagedServing DEF PagedTyped
<1>9. /\ PagedFresh' <=> PagedFresh
      /\ PagedOut' <=> PagedOut
      /\ \A for, g : PagedFits(for, g)' <=> PagedFits(for, g)
  BY <1>1 DEF PagedFresh, PagedOut, PagedFits
<1>10. PagedTyped'
  BY <1>0, <1>1, <1>6, <1>7, <1>8 DEF PagedTyped
<1>11. PagedControl' /\ PagedAsked'
  BY <1>0, <1>1, <1>4, <1>5, <1>7, <1>9 DEF PagedControl, PagedAsked
<1>12. PagedShown'
  BY <1>0, <1>1, <1>5, <1>7, <1>9 DEF PagedShown
<1>13. PagedFit'
  BY <1>0, <1>1, <1>9 DEF PagedFit
<1>14. PagedServed'
  <2>1. \A d : PagedAnswered(d)' <=> PagedAnswered(d)
    BY <1>9 DEF PagedAnswered
  <2>2. ASSUME c.append, answer.ok PROVE pagedState.known \subseteq answer.known
    <3>1. pagedPage = "history" /\ pagedState.cursor # None
      BY <1>0, <1>4, <2>2 DEF PagedServed
    <3>2. pagedState.for = c.for
      BY <1>0, <1>4, <3>1 DEF PagedFit, PagedAsked
    <3>3. answer.known = {g \in Paged!Games : PagedFits(c.for, g)}
      BY <1>8, <2>2, <3>1, PagedFitting
    <3>4. pagedState.known \subseteq Paged!Games
      BY <1>0 DEF PagedTyped, PagedStates
    <3> QED BY <1>0, <3>2, <3>3, <3>4 DEF PagedFit
  <2>3. \A d \in pagedCalls' : d.answer # None /\ d.answer.ok => PagedAnswered(d)
    BY <1>0, <1>5, <1>7, <1>8 DEF PagedServed
  <2>4. \A d \in pagedCalls' : pagedPage = "elements" /\ d.answer # None =>
          d.answer.list = <<>> /\ d.answer.next = None /\ d.answer.known = {}
    BY <1>0, <1>5, <1>7, <1>8 DEF PagedServed
  <2>5. \A d \in pagedCalls' : ~d.append => d.cursor = None
    BY <1>0, <1>5, <1>7 DEF PagedServed
  <2>6. \A d \in pagedCalls' : d.append /\ ~d.aborted =>
          /\ pagedPage = "history" /\ d.cursor # None /\ d.cursor = pagedState.cursor
          /\ d.answer # None /\ d.answer.ok => pagedState.known \subseteq d.answer.known
    BY <1>0, <1>4, <1>5, <1>7, <2>2 DEF PagedServed
  <2> QED BY <1>1, <2>1, <2>3, <2>4, <2>5, <2>6 DEF PagedServed
<1> QED BY <1>10, <1>11, <1>12, <1>13, <1>14 DEF PagedInv

(* Another query, another session: the effect is due.                       *)
LEMMA PagedMoves ==
  ASSUME PagedInv, Paged!Navigate \/ Paged!SessionChanges
  PROVE  PagedInv'
<1>0. PagedTyped /\ PagedControl /\ PagedAsked /\ PagedShown /\ PagedServed /\ PagedFit
  BY DEF PagedInv
<1>1. /\ Paged!Quiet /\ pagedLeft > 0 /\ pagedLeft' = pagedLeft - 1
      /\ UNCHANGED <<pagedPage, pagedSeen, pagedState, pagedCalls, pagedSaved, pagedIssued>>
  BY DEF Paged!Navigate, Paged!SessionChanges, Paged!User
<1>2. pagedQuery' \in Modes \cup {None}
  BY <1>0 DEF Paged!Navigate, Paged!SessionChanges, PagedTyped
<1>3. /\ pagedSession' \in PagedSessions
      /\ pagedSession' = Paged!Initializing => pagedSession = Paged!Initializing
  <2>1. CASE Paged!Navigate
    BY <1>0, <2>1 DEF Paged!Navigate, PagedTyped
  <2>2. CASE Paged!SessionChanges
    <3>1. \/ pagedSession' = Paged!Anonymous
          \/ pagedSession < MaxToken /\ pagedSession # Paged!Anonymous
             /\ pagedSession' = IF pagedSession = Paged!Initializing THEN 1 ELSE pagedSession + 1
      BY <2>2 DEF Paged!SessionChanges
    <3>2. pagedSession \in PagedSessions
      BY <1>0 DEF PagedTyped
    <3> QED BY <3>1, <3>2, PagedConstants DEF PagedSessions
  <2> QED BY <2>1, <2>2
<1>4. /\ PagedFresh' <=> PagedFresh
      /\ PagedOut' <=> PagedOut
      /\ \A for, g : PagedFits(for, g)' <=> PagedFits(for, g)
  BY <1>1 DEF PagedFresh, PagedOut, PagedFits
<1>5. PagedTyped'
  <2>1. pagedLeft' \in 0 .. PagedSteps
    BY <1>0, <1>1, PagedConstants DEF PagedTyped
  <2> QED BY <1>0, <1>1, <1>2, <1>3, <2>1 DEF PagedTyped
<1>6. PagedControl' /\ PagedAsked' /\ PagedShown'
  BY <1>0, <1>1, <1>3, <1>4 DEF PagedControl, PagedAsked, PagedShown
<1>7. PagedServed'
  BY <1>0, <1>1, PagedFewer
<1>8. PagedFit'
  BY <1>0, <1>1, <1>4 DEF PagedFit
<1> QED BY <1>5, <1>6, <1>7, <1>8 DEF PagedInv

(* A game is saved elsewhere.                                               *)
LEMMA PagedPlays ==
  ASSUME PagedInv, Paged!Play
  PROVE  PagedInv'
<1>0. PagedTyped /\ PagedControl /\ PagedAsked /\ PagedShown /\ PagedServed /\ PagedFit
  BY DEF PagedInv
<1>1. /\ UNCHANGED <<pagedPage, pagedSession, pagedQuery, pagedSeen, pagedState, pagedCalls,
                     pagedIssued, pagedLeft>>
      /\ \E g \in Paged!Games, mode \in Modes :
           pagedSaved[g] = None /\ pagedSaved' = [pagedSaved EXCEPT ![g] = mode]
  BY Zenon DEF Paged!Play
<1>2. /\ pagedSaved' \in [Paged!Games -> Modes \cup {None}]
      /\ \A g \in Paged!Games : pagedSaved[g] # None => pagedSaved'[g] = pagedSaved[g]
  BY <1>0, <1>1 DEF PagedTyped
<1>3. \A for : \A g \in Paged!Games : PagedFits(for, g) => PagedFits(for, g)'
  BY <1>2 DEF PagedFits
<1>4. (PagedFresh' <=> PagedFresh) /\ (PagedOut' <=> PagedOut)
  BY <1>1 DEF PagedFresh, PagedOut
<1>5. PagedTyped' /\ PagedControl' /\ PagedAsked' /\ PagedShown'
  BY <1>0, <1>1, <1>2, <1>4 DEF PagedTyped, PagedControl, PagedAsked, PagedShown
<1>6. PagedServed'
  <2>1. ASSUME NEW d \in pagedCalls, d.answer # None, d.answer.ok PROVE PagedAnswered(d)'
    <3>1. d.answer \in PagedAnswers /\ PagedAnswered(d)
      BY <1>0, <2>1 DEF PagedTyped, PagedCallType, PagedServed
    <3>2. d.answer.list \in Seq(Paged!Games) /\ d.answer.known \subseteq Paged!Games
      BY <3>1 DEF PagedAnswers
    <3> QED BY <1>2, <3>1, <3>2, PagedAnswersStay
  <2> QED BY <1>0, <1>1, <2>1 DEF PagedServed
<1>7. PagedFit'
  <2>1. pagedState.list \in Seq(Paged!Games) /\ pagedState.known \subseteq Paged!Games
    BY <1>0 DEF PagedTyped, PagedStates
  <2>2. \A i \in 1 .. Len(pagedState.list) : PagedFits(pagedState.for, pagedState.list[i])'
    <3>1. \A i \in 1 .. Len(pagedState.list) : pagedState.list[i] \in Paged!Games
      BY <2>1
    <3> QED BY <1>0, <1>1, <1>3, <3>1 DEF PagedFit
  <2>3. \A g \in pagedState.known : PagedFits(pagedState.for, g)'
    BY <1>0, <1>1, <1>3, <2>1 DEF PagedFit
  <2> QED BY <1>0, <1>1, <2>2, <2>3 DEF PagedFit
<1> QED BY <1>5, <1>6, <1>7 DEF PagedInv

LEMMA PagedNext ==
  ASSUME PagedInv, Paged!Next
  PROVE  PagedInv'
<1>0. PagedTyped /\ PagedFit
  BY DEF PagedInv
<1>1. CASE Paged!Aborted \/ Paged!Answered
  <2>1. \E c \in pagedCalls : Paged!Settle(c) /\ (c.aborted \/ c.answer # None)
    BY <1>1 DEF Paged!Aborted, Paged!Answered
  <2> QED BY <2>1, PagedSettles
<1>2. CASE Paged!Retry
  <2>1. /\ Paged!User /\ pagedState.error
        /\ pagedPage = "history" => pagedSession \in Paged!Tokens
        /\ Paged!Load(pagedState, <<pagedState.applied, pagedSession>>, FALSE)
        /\ UNCHANGED <<pagedPage, pagedSession, pagedQuery, pagedSeen, pagedSaved>>
    BY <1>2 DEF Paged!Retry
  <2>2. pagedState # Paged!NewState /\ FALSE \in BOOLEAN
    BY <2>1 DEF Paged!NewState
  <2> QED BY <2>1, <2>2, PagedButtons
<1>3. CASE Paged!LoadMore
  <2>1. /\ Paged!User /\ pagedPage = "history" /\ pagedSession \in Paged!Tokens
        /\ pagedState.cursor # None
        /\ Paged!Load(pagedState, <<pagedState.applied, pagedSession>>, TRUE)
        /\ UNCHANGED <<pagedPage, pagedSession, pagedQuery, pagedSeen, pagedSaved>>
    BY <1>3 DEF Paged!LoadMore
  <2>2. pagedState # Paged!NewState /\ TRUE \in BOOLEAN
    BY <2>1 DEF Paged!NewState
  <2> QED BY <2>1, <2>2, PagedButtons
<1> QED BY <1>1, <1>2, <1>3, PagedEffects, PagedServes, PagedMoves, PagedPlays DEF Paged!Next

----------------------------------------------------------------------------
(* The component that moves keeps its invariant; the others rest.           *)

LEMMA KeyedStutters ==
  ASSUME KeyedInv, UNCHANGED Keyed!vars
  PROVE  KeyedInv'
<1>1. UNCHANGED <<keyedPage, keyedSession, keyedQuery, keyedSeen, keyedState, keyedCalls,
                  keyedDeletions, keyedWeak, keyedIssued, keyedLeft>>
  BY DEF Keyed!vars
<1>2. KeyedTyped' /\ KeyedControl' /\ KeyedReloads' /\ KeyedSeenOnly'
  BY <1>1 DEF KeyedInv, KeyedTyped, KeyedControl, KeyedReloads, KeyedSeenOnly
<1>3. KeyedRuns'
  BY <1>1 DEF KeyedInv, KeyedRuns, Keyed!EffectDue, Keyed!Settling
<1> QED BY <1>2, <1>3 DEF KeyedInv

LEMMA PagedStutters ==
  ASSUME PagedInv, UNCHANGED Paged!vars
  PROVE  PagedInv'
<1>1. UNCHANGED <<pagedPage, pagedSession, pagedQuery, pagedSeen, pagedState, pagedCalls,
                  pagedSaved, pagedIssued, pagedLeft>>
  BY DEF Paged!vars
<1>2. PagedTyped' /\ PagedControl'
  BY <1>1 DEF PagedInv, PagedTyped, PagedControl
<1>3. PagedAsked' /\ PagedShown'
  BY <1>1 DEF PagedInv, PagedAsked, PagedShown, PagedFresh, PagedOut
<1>4. PagedServed'
  BY <1>1, PagedFewer DEF PagedInv
<1>5. PagedFit'
  BY <1>1 DEF PagedInv, PagedFit, PagedFits
<1> QED BY <1>2, <1>3, <1>4, <1>5 DEF PagedInv

PagesInv ==
  /\ (which = "admin" => AdminInv) /\ (which = "game" => GameInv)
  /\ (which = "keyed" => KeyedInv) /\ (which = "paged" => PagedInv)
  /\ (which = "account" => AccountInv) /\ (which = "toast" => ToastInv)
  /\ (which = "theme" => ThemeInv)

LEMMA PagesInitially == AllInit => PagesInv
BY AdminInitially, GameInitially, KeyedInitially, PagedInitially, AccountInitially, ToastInitially,
   ThemeInitially DEF AllInit, PagesInv

LEMMA PagesNext ==
  ASSUME PagesInv, [AllNext]_allVars
  PROVE  PagesInv'
<1>2. which = "admin" => AdminInv'
  BY OnlyOneMoves, AdminNext DEF PagesInv
<1>3. which = "game" => GameInv'
  BY OnlyOneMoves, GameNext DEF PagesInv
<1>4. which = "keyed" => KeyedInv'
  <2> SUFFICES ASSUME which = "keyed" PROVE KeyedInv'
    OBVIOUS
  <2>1. KeyedInv /\ (Keyed!Next \/ UNCHANGED Keyed!vars)
    BY OnlyOneMoves DEF PagesInv
  <2> QED BY <2>1, KeyedNext, KeyedStutters
<1>5. which = "paged" => PagedInv'
  <2> SUFFICES ASSUME which = "paged" PROVE PagedInv'
    OBVIOUS
  <2>1. PagedInv /\ (Paged!Next \/ UNCHANGED Paged!vars)
    BY OnlyOneMoves DEF PagesInv
  <2> QED BY <2>1, PagedNext, PagedStutters
<1>6. which = "account" => AccountInv'
  BY OnlyOneMoves, AccountNext DEF PagesInv
<1>7. which = "toast" => ToastInv'
  BY OnlyOneMoves, ToastNext DEF PagesInv
<1>8. which = "theme" => ThemeInv'
  BY OnlyOneMoves, ThemeNext DEF PagesInv
<1> QED BY OnlyOneMoves, <1>2, <1>3, <1>4, <1>5, <1>6, <1>7, <1>8, Zenon DEF PagesInv

LEMMA PagesAlways == AllSpec => []PagesInv
<1>1. PagesInv /\ [AllNext]_allVars => PagesInv'
  BY PagesNext
<1> QED BY PagesInitially, <1>1, PTL DEF AllSpec

(* A page is always within its types: among others at most one load of a    *)
(* page is not aborted (the AbortController of the effects).                *)
THEOREM PagesStayTyped == AllSpec => []PagesTyped
<1>1. PagesInv => PagesTyped
  <2>1. AccountInv => Account!TypeOK
    BY DEF AccountInv, AccountTyped
  <2> QED BY <2>1, AdminMeans, GameMeans, KeyedMeans, PagedMeans DEF PagesInv, PagesTyped
<1> QED BY PagesAlways, <1>1, PTL

(* A page that is neither loading nor in error shows what its filters, its  *)
(* URL and its session ask for, in whatever order answers arrive.           *)
THEOREM PagesShowWhatWasAsked == AllSpec => []ShowsWhatWasAsked
<1>1. PagesInv => ShowsWhatWasAsked
  <2>1. ThemeInv => Theme!ThemeShown
    BY DEF ThemeInv
  <2> QED BY <2>1, AdminMeans, KeyedMeans, PagedMeans DEF PagesInv, ShowsWhatWasAsked
<1> QED BY PagesAlways, <1>1, PTL

(* Without the right to see the users nothing of them is kept, and a result *)
(* is shown only to the user who played the game.                           *)
THEOREM PagesKeepNothingOfOthers == AllSpec => []NothingOfOthers
<1>1. PagesInv => NothingOfOthers
  BY AdminMeans, GameMeans DEF PagesInv, NothingOfOthers
<1> QED BY PagesAlways, <1>1, PTL

(* A game's answers are those of its questions, each once and in order; and *)
(* the pages of a history fit together while games are being saved.         *)
THEOREM PagesInOrder == AllSpec => []InOrder
<1>1. PagesInv => InOrder
  BY GameMeans, PagedMeans DEF PagesInv, InOrder
<1> QED BY PagesAlways, <1>1, PTL

(* A sign of loading or sending stays only while its call runs, a timer and *)
(* a toast only while they are the page's.                                  *)
THEOREM PagesSignsEnd == AllSpec => []SignsEnd
<1>1. PagesInv => SignsEnd
  <2>1. ToastInv => Toast!ToastsEnd
    BY DEF ToastInv
  <2> QED BY <2>1, GameMeans, KeyedMeans, PagedMeans, AccountMeans DEF PagesInv, SignsEnd
<1> QED BY PagesAlways, <1>1, PTL
=============================================================================
