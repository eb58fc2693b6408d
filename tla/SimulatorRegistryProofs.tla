----------------------- MODULE SimulatorRegistryProofs -----------------------
(***************************************************************************)
(* What the exclusive maps guarantee the simulator handlers for any number *)
(* of requests, addresses and maps, as long as nothing runs beside a list, *)
(* which takes no map.  In four parts: who is inside which maps, and that a *)
(* row is only written for a device that is there; that devices and rows   *)
(* agree; when requests for the same address do not meet, that the         *)
(* simulators without SOAP have their listeners; and, without lists, that  *)
(* the handlers implement AtomicSimulators.                                *)
(***************************************************************************)
EXTENDS SimulatorRegistry, TLAPS

\* The phases in which a request runs inside its maps.
Started == {"working", "cleaning", "unrowing", "unlisting", "creating", "saving"}

\* The maps whose devices a request reads or changes.
Touches(r) == IF r.kind \in Creates \cup {"update"} THEN {r.map}
                                                  ELSE {r.seen[ip] : ip \in r.todo \cup r.made}

\* Which kinds of request reach which phases.
PhaseFits(r) ==
  /\ r.kind \in Kinds \cup {"none"}
  /\ r.pc = "checking" => r.kind = "stream"
  /\ r.pc = "cleaning" => r.kind \in Creates
  /\ r.pc \in {"unrowing", "unlisting"} => r.kind = "delete"
  /\ r.pc = "creating" => r.kind \in {"update", "fields"}
  /\ r.pc = "saving" => r.kind = "update"
  /\ r.pc \in {"snapped", "pruning"} <=> r.kind = "list"
  /\ r.pc \in {"checking", "locking"} => r.made = {}
  /\ r.pc \in {"creating", "saving"} => \A a, b \in r.made : a = b

RequestsOk ==
  \A o \in Ops :
    /\ PhaseFits(op[o])
    /\ op[o].pc \in Started \cup {"locking", "checking"} => Touches(op[o]) \subseteq Maps

\* A request asks for the maps it touches, and is inside them while it runs.
MapsAsked ==
  \A o \in Ops :
    /\ op[o].pc = "locking" => Touches(op[o]) \subseteq asked[o]
    /\ op[o].pc \in Started => Touches(op[o]) \subseteq inside[o]

Exclusive == \A o, p \in Ops : o # p => inside[o] \cap inside[p] = {}

LockedWell == RequestsOk /\ MapsAsked /\ Exclusive

\* The addresses whose row a create or an update is about to write: they are
\* those that have their device.
Pending(r) == IF r.pc = "saving" \/ (r.kind \in Creates /\ r.pc = "working") THEN r.made ELSE {}

MadeIsThere == \A o \in Ops : \A ip \in Pending(op[o]) : Holds(op[o].map, ip)

IInv == TypeOK /\ LockedWell /\ MadeIsThere

-----------------------------------------------------------------------------
\* The table of requests keeps its type when a request moves on or ends.
LEMMA IdleType == Idle \in Requests
  BY DEF Idle, Nowhere, Requests, Phases, MapOrNone, Templates, AllKinds, Creates

\* Each way in which a handler moves a request on.
LEMMA OpType ==
  ASSUME op \in [Ops -> Requests], NEW o \in Ops
  PROVE  /\ \A r \in Requests : Become(o, r) => op' \in [Ops -> Requests]
         /\ Become(o, Idle) => op' \in [Ops -> Requests]
         /\ \A l \in Phases : Goto(o, l) => op' \in [Ops -> Requests]
         /\ \A ip \in Ips : Drop(o, ip) => op' \in [Ops -> Requests]
         /\ PutDown(o) => op' \in [Ops -> Requests]
         /\ \A ip \in Ips, l \in Phases : Take(o, ip, l) => op' \in [Ops -> Requests]
<1>1. \A r \in Requests : Become(o, r) => op' \in [Ops -> Requests]
  BY DEF Become
<1>2. Become(o, Idle) => op' \in [Ops -> Requests]
  BY <1>1, IdleType
<1>3. ASSUME NEW l \in Phases PROVE [op[o] EXCEPT !.pc = l] \in Requests
  BY DEF Requests
<1>4. ASSUME NEW ip \in Ips PROVE [op[o] EXCEPT !.todo = @ \ {ip}] \in Requests
  BY DEF Requests
<1>5. [op[o] EXCEPT !.made = {}, !.pc = "working"] \in Requests
  BY DEF Requests, Phases
<1>6. ASSUME NEW ip \in Ips, NEW l \in Phases
      PROVE  [op[o] EXCEPT !.todo = @ \ {ip}, !.made = {ip}, !.pc = l] \in Requests
  BY DEF Requests
<1>7. ASSUME NEW l \in Phases, Goto(o, l) PROVE op' = [op EXCEPT ![o] = [op[o] EXCEPT !.pc = l]]
  BY <1>7 DEF Goto
<1>8. QED
  BY <1>1, <1>2, <1>3, <1>4, <1>5, <1>6, <1>7 DEF Become, Drop, PutDown, Take

\* A failed commit turns to the devices made so far ...
LEMMA CleaningType ==
  ASSUME NEW r \in Requests
  PROVE  [r EXCEPT !.todo = r.made, !.pc = "cleaning"] \in Requests
  BY DEF Requests, Phases

\* ... and an update, once the device is gone, to creating it again.
LEMMA WithdrawType ==
  ASSUME NEW r \in Requests, NEW ip \in Ips, NEW t \in Templates
  PROVE  [r EXCEPT !.todo = @ \ {ip}, !.made = {ip}, !.pc = "creating", !.tpl = t] \in Requests
  BY DEF Requests, Phases

\* The commands on devices keep the type of the devices.
LEMMA DevType ==
  ASSUME TypeOK, NEW m \in Maps, NEW ip \in Ips, NEW t \in Templates
  PROVE  CreateOk(m, ip, t) \/ CreateFails(m, ip, t) \/ DeleteOk(m, ip) \/ DeleteFails(m, ip)
         => dev' \in [Maps -> [Ips -> Templates \cup {"none"}]]
  BY DEF TypeOK, CreateOk, CreateFails, DeleteOk, DeleteFails

\* What ExclusiveMaps allows keeps the type of the occupation of the maps.
LEMMA LockType ==
  ASSUME Locks!TypeOK, NEW o \in Ops
  PROVE  /\ Locks!Leave(o) \/ Locks!Enter(o) \/ UNCHANGED locks => Locks!TypeOK'
         /\ \A S \in SUBSET Maps : Locks!Ask(o, S) => Locks!TypeOK'
  BY DEF Locks!TypeOK, Locks!Leave, Locks!Enter, Locks!Ask, locks

-----------------------------------------------------------------------------
\* Every step keeps the types.
LEMMA TypeNext == TypeOK /\ RequestsOk /\ [Next]_vars => TypeOK'
<1> SUFFICES ASSUME TypeOK, RequestsOk, [Next]_vars PROVE TypeOK'
  OBVIOUS
<1> USE RegistryAssumption, OpType, LockType, DevType
    DEF TypeOK, Mark, Unmarked, MarkIfChanged, stores, Finish, MapOrNone
<1>1. ASSUME NEW o \in Ops, NEW k \in Creates, NEW S \in SUBSET Ips, NEW m \in Maps, NEW t \in Templates,
             RequestCreate(o, k, S, m, t)
      PROVE  TypeOK'
  <2>1. [Idle EXCEPT !.kind = k, !.tpl = t, !.map = m, !.todo = S,
                     !.pc = IF k = "stream" THEN "checking" ELSE "locking"] \in Requests
    BY IdleType DEF Requests, AllKinds, Phases
  <2>2. QED
    BY <1>1, <2>1 DEF RequestCreate
<1>2. ASSUME NEW o \in Ops, NEW k \in {"delete", "fields"}, NEW S \in SUBSET Ips, RequestRows(o, k, S)
      PROVE  TypeOK'
  <2>1. [Idle EXCEPT !.kind = k, !.pc = "locking", !.todo = S, !.seen = row] \in Requests
    BY IdleType DEF Requests, AllKinds, Phases
  <2>2. {row[ip] : ip \in S} \in SUBSET Maps
    BY <1>2 DEF RequestRows
  <2>3. QED
    BY <1>2, <2>1, <2>2 DEF RequestRows
<1>3. ASSUME NEW o \in Ops, NEW ip \in Ips, NEW m \in Maps, NEW t \in Templates, RequestUpdate(o, ip, m, t)
      PROVE  TypeOK'
  <2>1. [Idle EXCEPT !.kind = "update", !.pc = "locking", !.tpl = t, !.map = m,
                     !.todo = {ip}, !.seen = row] \in Requests
    BY IdleType DEF Requests, AllKinds, Phases
  <2>2. {row[ip], m} \in SUBSET Maps
    BY <1>3 DEF RequestUpdate
  <2>3. QED
    BY <1>3, <2>1, <2>2 DEF RequestUpdate
<1>4. ASSUME NEW o \in Ops, NEW R \in SUBSET Maps, NEW f \in [Ips -> MapOrNone], ReadDevices(o, R, f)
      PROVE  TypeOK'
  <2>1. [Idle EXCEPT !.kind = "list", !.pc = "snapped", !.seen = f,
                     !.made = {ip \in Ips : \E m \in Maps \ {f[ip]} : Holds(m, ip)}] \in Requests
    BY IdleType DEF Requests, AllKinds, Phases
  <2>2. QED
    BY <1>4, <2>1 DEF ReadDevices, locks
<1>5. ASSUME NEW o \in Ops, CheckStream(o) PROVE TypeOK'
  <2>1. {op[o].map} \in SUBSET Maps
    BY <1>5 DEF CheckStream, RequestsOk, PhaseFits, Touches, Creates
  <2>2. QED
    BY <1>5, <2>1 DEF CheckStream, Phases
<1>6. ASSUME NEW o \in Ops, Enter(o) \/ Refuse(o) \/ Done(o) PROVE TypeOK'
  BY <1>6 DEF Enter, Refuse, Done, Phases
<1>7. ASSUME NEW o \in Ops, Commit(o) PROVE TypeOK'
  BY <1>7 DEF Commit, Register, Requests
<1>8. ASSUME NEW o \in Ops, CommitUnread(o) \/ CommitFails(o) PROVE TypeOK'
  <2>1. [op[o] EXCEPT !.todo = op[o].made, !.pc = "cleaning"] \in Requests
    BY CleaningType
  <2>2. QED
    BY <1>8, <2>1 DEF CommitUnread, CommitFails, Requests, locks
<1>9. ASSUME NEW o \in Ops, ClientGone(o) \/ SaveRowFails(o) PROVE TypeOK'
  BY <1>9 DEF ClientGone, SaveRowFails, Requests
<1>10. ASSUME NEW o \in Ops, DeleteRow(o) \/ Unlist(o) PROVE TypeOK'
  BY <1>10 DEF DeleteRow, Unlist, Requests, Phases
<1>11. ASSUME NEW o \in Ops, Upsert(o) \/ Prune(o) \/ ListFails(o) PROVE TypeOK'
  BY <1>11 DEF Upsert, Prune, ListFails, Requests, Phases, locks
<1>12. ASSUME NEW o \in Ops, NEW ip \in Ips, MakeDevice(o, ip) \/ MakeDeviceFails(o, ip) PROVE TypeOK'
  <2>1. op[o].map \in Maps /\ op[o].tpl \in Templates
    BY <1>12 DEF MakeDevice, MakeDeviceFails, Next1, RequestsOk, PhaseFits, Touches, Started, Requests
  <2>2. [op[o] EXCEPT !.todo = @ \ {ip}, !.made = @ \cup {ip}] \in Requests
    BY DEF Requests
  <2>3. QED
    BY <1>12, <2>1, <2>2 DEF MakeDevice, MakeDeviceFails, Register
<1>13. ASSUME NEW o \in Ops, NEW ip \in Ips, CleanUp(o, ip) PROVE TypeOK'
  <2>1. op[o].map \in Maps
    BY <1>13 DEF CleanUp, RequestsOk, PhaseFits, Touches, Started, Requests
  <2>2. PICK t \in Templates : TRUE
    BY DEF Templates
  <2>3. QED
    BY <1>13, <2>1, <2>2 DEF CleanUp, locks
<1>14. ASSUME NEW o \in Ops, NEW ip \in Ips, DeleteDevice(o, ip) PROVE TypeOK'
  <2>1. op[o].seen[ip] \in Maps
    BY <1>14 DEF DeleteDevice, Next1, RequestsOk, PhaseFits, Touches, Started, Requests, Creates
  <2>2. PICK t \in Templates : TRUE
    BY DEF Templates
  <2>3. QED
    BY <1>14, <2>1, <2>2 DEF DeleteDevice, Phases
<1>15. ASSUME NEW o \in Ops, NEW ip \in Ips, Withdraw(o, ip) \/ Recreate(o, ip)
       PROVE  UpdatedMap(o, ip) \in Maps
  BY <1>15 DEF Withdraw, Recreate, Next1, UpdatedMap, RequestsOk, PhaseFits, Touches, Started,
     Requests, Creates
<1>16. ASSUME NEW o \in Ops, NEW ip \in Ips, Withdraw(o, ip) PROVE TypeOK'
  <2>1. UpdatedMap(o, ip) \in Maps
    BY <1>15, <1>16
  <2>2. PICK t \in Templates : TRUE
    BY DEF Templates
  <2>3. ASSUME DeleteOk(UpdatedMap(o, ip), ip)
        PROVE  [op[o] EXCEPT !.todo = @ \ {ip}, !.made = {ip}, !.pc = "creating",
                 !.tpl = IF op[o].kind = "update" THEN @ ELSE dev[UpdatedMap(o, ip)][ip]] \in Requests
    <3> DEFINE u == IF op[o].kind = "update" THEN op[o].tpl ELSE dev[UpdatedMap(o, ip)][ip]
    <3>1. u \in Templates
      BY <2>1, <2>3 DEF DeleteOk, Requests
    <3>2. op[o] \in Requests
      OBVIOUS
    <3>3. [op[o] EXCEPT !.todo = @ \ {ip}, !.made = {ip}, !.pc = "creating", !.tpl = u] \in Requests
      <4> HIDE DEF u
      <4> QED BY ONLY <3>1, <3>2, WithdrawType
    <3>4. QED
      BY <3>3
  <2>4. QED
    BY <1>16, <2>1, <2>2, <2>3 DEF Withdraw
<1>17. ASSUME NEW o \in Ops, NEW ip \in Ips, Recreate(o, ip) PROVE TypeOK'
  <2>1. UpdatedMap(o, ip) \in Maps /\ op[o].tpl \in Templates
    BY <1>15, <1>17 DEF Requests
  <2>2. QED
    BY <1>17, <2>1 DEF Recreate, Phases
<1>18. ASSUME NEW o \in Ops, NEW ip \in Ips, SaveRow(o, ip) PROVE TypeOK'
  BY <1>18 DEF SaveRow, Register, Requests
<1>19. CASE Crash
  <2>1. op' \in [Ops -> Requests]
    BY <1>19, IdleType DEF Crash
  <2>2. Locks!TypeOK'
    BY <1>19 DEF Crash, Locks!TypeOK
  <2>3. QED
    BY <1>19, <2>1, <2>2 DEF Crash
<1>20. CASE UNCHANGED vars
  BY <1>20 DEF vars, locks, Locks!TypeOK
<1>21. QED
  BY <1>1, <1>2, <1>3, <1>4, <1>5, <1>6, <1>7, <1>8, <1>9, <1>10, <1>11, <1>12, <1>13, <1>14,
     <1>16, <1>17, <1>18, <1>19, <1>20
     DEF Next, NewRequest, Progress

-----------------------------------------------------------------------------
(* How a step of a request changes the table of requests and the locks.     *)

\* A request that has nothing to do with the maps moves on.
LEMMA Stays ==
  ASSUME TypeOK, LockedWell, NEW o \in Ops, NEW r \in Requests, Become(o, r), UNCHANGED locks,
         PhaseFits(r), r.pc \in {"idle", "checking", "snapped", "pruning"},
         r.pc = "checking" => Touches(r) \subseteq Maps
  PROVE  LockedWell'
  BY DEF TypeOK, LockedWell, RequestsOk, MapsAsked, Exclusive, Become, Started, locks, Locks!TypeOK

\* A request asks for the maps it is going to touch.
LEMMA Asks ==
  ASSUME TypeOK, LockedWell, NEW o \in Ops, NEW r \in Requests, Become(o, r),
         NEW S \in SUBSET Maps, Locks!Ask(o, S), PhaseFits(r), r.pc = "locking",
         Touches(r) \subseteq S
  PROVE  LockedWell'
  BY DEF TypeOK, LockedWell, RequestsOk, MapsAsked, Exclusive, Become, Started, Locks!TypeOK,
     Locks!Ask

\* It enters them: nobody else is inside.
LEMMA Enters ==
  ASSUME TypeOK, LockedWell, NEW o \in Ops, op[o].pc = "locking", Goto(o, "working"), Locks!Enter(o)
  PROVE  LockedWell'
<1>1. op' = [op EXCEPT ![o] = [op[o] EXCEPT !.pc = "working"]]
  BY DEF Goto
<1>2. Touches([op[o] EXCEPT !.pc = "working"]) = Touches(op[o])
  BY DEF Touches, TypeOK, Requests
<1>3. RequestsOk'
  BY <1>1, <1>2 DEF TypeOK, LockedWell, RequestsOk, PhaseFits, Started, Requests
<1>4. MapsAsked'
  BY <1>1, <1>2 DEF TypeOK, LockedWell, MapsAsked, Locks!TypeOK, Locks!Enter, Requests
<1>5. Exclusive'
  BY DEF TypeOK, LockedWell, Exclusive, Locks!TypeOK, Locks!Enter
<1>6. QED
  BY <1>3, <1>4, <1>5 DEF LockedWell

\* Inside, it goes on to touch the same maps or fewer.
LEMMA Advances ==
  ASSUME TypeOK, LockedWell, NEW o \in Ops, NEW r \in Requests, Become(o, r), UNCHANGED locks,
         op[o].pc \in Started, r.pc \in Started, PhaseFits(r),
         r.kind = op[o].kind, r.map = op[o].map, r.seen = op[o].seen,
         r.todo \cup r.made \subseteq op[o].todo \cup op[o].made
  PROVE  LockedWell'
<1>1. Touches(r) \subseteq Touches(op[o])
  BY DEF Touches
<1>2. QED
  BY <1>1 DEF TypeOK, LockedWell, RequestsOk, MapsAsked, Exclusive, Become, Started, locks,
     Locks!TypeOK

\* It ends and leaves them.
LEMMA Ends ==
  ASSUME TypeOK, LockedWell, NEW o \in Ops, Finish(o)
  PROVE  LockedWell'
  BY IdleType DEF TypeOK, LockedWell, RequestsOk, MapsAsked, Exclusive, Become, Started, locks,
     Locks!TypeOK, Locks!Leave, Finish, PhaseFits, Idle

\* A request takes devices only from maps it is inside.
OnlyInside(o) == \A m \in Maps, ip \in Ips : Holds(m, ip) => dev'[m][ip] # "none" \/ m \in inside[o]

\* So whatever the others are about to write a row for stays.
LEMMA MadeKept ==
  ASSUME IInv, NEW o \in Ops, NEW r \in Requests, Become(o, r), OnlyInside(o),
         \A ip \in Pending(r) : dev'[r.map][ip] # "none"
  PROVE  MadeIsThere'
<1> SUFFICES ASSUME NEW p \in Ops, NEW ip \in Pending(op'[p])
                PROVE  dev'[op'[p].map][ip] # "none"
  BY DEF MadeIsThere, Pending, Holds
<1>1. CASE p = o
  BY <1>1 DEF Become, IInv, TypeOK
<1>2. CASE p # o
  <2>1. op'[p] = op[p]
    BY <1>2 DEF Become, IInv, TypeOK
  <2>2. op[p].kind \in Creates \cup {"update"} /\ op[p].pc \in Started /\ ip \in Ips
    BY <2>1 DEF Pending, Started, IInv, TypeOK, LockedWell, RequestsOk, PhaseFits, Requests
  <2>3. op[p].map \in Maps /\ op[p].map \in inside[p]
    BY <2>2 DEF IInv, LockedWell, RequestsOk, MapsAsked, Touches
  <2>4. op[p].map \notin inside[o]
    BY <2>3, <1>2 DEF IInv, LockedWell, Exclusive
  <2>5. Holds(op[p].map, ip)
    BY <2>1 DEF IInv, MadeIsThere
  <2>6. QED
    BY <2>1, <2>2, <2>3, <2>4, <2>5 DEF OnlyInside
<1>3. QED
  BY <1>1, <1>2

\* What the commands do to the devices.
LEMMA Commands ==
  ASSUME IInv, NEW o \in Ops, NEW m \in Maps, NEW ip \in Ips, NEW t \in Templates
  PROVE  /\ UNCHANGED dev => OnlyInside(o)
         /\ CreateOk(m, ip, t) \/ CreateFails(m, ip, t) =>
              /\ OnlyInside(o)
              /\ \A n \in Maps, i \in Ips : Holds(n, i) => dev'[n][i] # "none"
         /\ CreateOk(m, ip, t) => dev'[m][ip] # "none"
         /\ m \in inside[o] /\ (DeleteOk(m, ip) \/ DeleteFails(m, ip)) => OnlyInside(o)
  BY DEF IInv, TypeOK, OnlyInside, Holds, CreateOk, CreateFails, DeleteOk, DeleteFails, Templates

\* No command, no change.
LEMMA NoCommand == ASSUME NEW o \in Ops, UNCHANGED dev PROVE OnlyInside(o)
  BY DEF OnlyInside, Holds

\* A step that ends a request keeps the invariant, whatever became of its devices.
LEMMA EndKeeps ==
  ASSUME IInv, NEW o \in Ops, Finish(o), OnlyInside(o)
  PROVE  LockedWell' /\ MadeIsThere'
<1>1. LockedWell'
  BY Ends DEF IInv
<1>2. Pending(Idle) = {}
  BY DEF Pending, Idle, Creates
<1>3. MadeIsThere'
  BY <1>2, MadeKept, IdleType DEF Finish
<1>4. QED
  BY <1>1, <1>3

\* So does one that leaves nothing pending, and goes on to touch what is left.
LEMMA AdvanceKeeps ==
  ASSUME IInv, NEW o \in Ops, NEW r \in Requests, Become(o, r), UNCHANGED locks,
         op[o].pc \in Started, r.pc \in Started, PhaseFits(r),
         r.kind = op[o].kind, r.map = op[o].map, r.seen = op[o].seen,
         r.todo \cup r.made \subseteq op[o].todo \cup op[o].made,
         OnlyInside(o), \A ip \in Pending(r) : dev'[r.map][ip] # "none"
  PROVE  LockedWell' /\ MadeIsThere'
  BY Advances, MadeKept DEF IInv

\* The address in hand is done with.
LEMMA PutDownKeeps ==
  ASSUME IInv, NEW o \in Ops, PutDown(o), UNCHANGED locks, op[o].pc \in Started, OnlyInside(o)
  PROVE  LockedWell' /\ MadeIsThere'
<1> DEFINE r == [op[o] EXCEPT !.made = {}, !.pc = "working"]
<1>1. op[o] \in Requests /\ PhaseFits(op[o])
  BY DEF IInv, TypeOK, LockedWell, RequestsOk
<1>2. r \in Requests /\ r.kind = op[o].kind /\ r.map = op[o].map /\ r.seen = op[o].seen
      /\ r.todo \cup r.made \subseteq op[o].todo \cup op[o].made
  BY <1>1 DEF Requests, Phases
<1>3. PhaseFits(r) /\ r.pc \in Started /\ Pending(r) = {}
  BY <1>1 DEF PhaseFits, Requests, Started, Pending
<1>4. Become(o, r)
  BY DEF PutDown, Become
<1>5. QED
  BY <1>2, <1>3, <1>4, AdvanceKeeps

\* A step outside the maps, and one that asks for them.
LEMMA StayKeeps ==
  ASSUME IInv, NEW o \in Ops, NEW r \in Requests, Become(o, r), UNCHANGED <<locks, dev>>,
         PhaseFits(r), r.pc \in {"idle", "checking", "snapped", "pruning"},
         r.pc = "checking" => Touches(r) \subseteq Maps
  PROVE  LockedWell' /\ MadeIsThere'
<1>1. Pending(r) = {}
  BY DEF Pending
<1>2. QED
  BY <1>1, Stays, MadeKept, NoCommand DEF IInv

\* The maps asked for are those the request is going to touch.
LEMMA AskKeeps ==
  ASSUME IInv, NEW o \in Ops, NEW r \in Requests, Become(o, r), UNCHANGED dev,
         NEW S \in SUBSET Maps, Locks!Ask(o, S), PhaseFits(r), r.pc = "locking",
         Touches(r) \subseteq S
  PROVE  LockedWell' /\ MadeIsThere'
<1>1. Pending(r) = {}
  BY DEF Pending
<1>2. QED
  BY <1>1, Asks, MadeKept, NoCommand DEF IInv

-----------------------------------------------------------------------------
(* The invariant.                                                           *)

\* Nothing is in progress at first.
LEMMA InvInit == Init => IInv
<1> SUFFICES ASSUME Init PROVE IInv
  OBVIOUS
<1>1. TypeOK
  BY IdleType DEF Init, TypeOK, Nowhere, MapOrNone, Locks!Init, Locks!TypeOK
<1>2. LockedWell
  BY DEF Init, LockedWell, RequestsOk, PhaseFits, MapsAsked, Exclusive, Idle, Started, Locks!Init
<1>3. MadeIsThere
  BY DEF Init, MadeIsThere, Pending, Idle, Creates
<1>4. QED
  BY <1>1, <1>2, <1>3 DEF IInv

\* New requests.
LEMMA NewRequestKeeps ==
  ASSUME IInv, NEW o \in Ops, NewRequest(o)
  PROVE  LockedWell' /\ MadeIsThere'
<1> USE DEF stores, Phases
<1>1. ASSUME NEW k \in Creates, NEW S \in SUBSET Ips, NEW m \in Maps, NEW t \in Templates,
             RequestCreate(o, k, S, m, t)
      PROVE  LockedWell' /\ MadeIsThere'
  <2> DEFINE r == [Idle EXCEPT !.kind = k, !.tpl = t, !.map = m, !.todo = S,
                               !.pc = IF k = "stream" THEN "checking" ELSE "locking"]
  <2>1. r \in Requests
    BY IdleType DEF Requests, AllKinds, MapOrNone
  <2>2. PhaseFits(r) /\ Touches(r) = {m}
    BY <1>1 DEF RequestCreate, PhaseFits, Touches, Idle, Creates
  <2>3. Become(o, r) /\ UNCHANGED dev
    BY <1>1 DEF RequestCreate
  <2>4. CASE k = "stream"
    <3>1. r.pc = "checking" /\ UNCHANGED <<locks, dev>>
      BY <1>1, <2>4 DEF RequestCreate, Idle
    <3>2. QED
      BY <2>1, <2>2, <2>3, <3>1, StayKeeps
  <2>5. CASE k # "stream"
    <3>1. r.pc = "locking" /\ Locks!Ask(o, {m}) /\ {m} \in SUBSET Maps
      BY <1>1, <2>5 DEF RequestCreate, Idle
    <3>2. QED
      BY <2>1, <2>2, <2>3, <3>1, AskKeeps
  <2>6. QED
    BY <2>4, <2>5
<1>2. ASSUME NEW k \in {"delete", "fields"}, NEW S \in SUBSET Ips, RequestRows(o, k, S)
      PROVE  LockedWell' /\ MadeIsThere'
  <2> DEFINE r == [Idle EXCEPT !.kind = k, !.pc = "locking", !.todo = S, !.seen = row]
  <2>1. r \in Requests
    BY IdleType DEF Requests, AllKinds, IInv, TypeOK
  <2>2. {row[ip] : ip \in S} \in SUBSET Maps
    BY <1>2 DEF RequestRows, IInv, TypeOK, MapOrNone
  <2>3. PhaseFits(r) /\ Touches(r) = {row[ip] : ip \in S} /\ r.pc = "locking"
    BY <1>2 DEF RequestRows, PhaseFits, Touches, Idle, Creates
  <2>4. Become(o, r) /\ UNCHANGED dev /\ Locks!Ask(o, {row[ip] : ip \in S})
    BY <1>2 DEF RequestRows
  <2>5. QED
    BY <2>1, <2>2, <2>3, <2>4, AskKeeps
<1>3. ASSUME NEW ip \in Ips, NEW m \in Maps, NEW t \in Templates, RequestUpdate(o, ip, m, t)
      PROVE  LockedWell' /\ MadeIsThere'
  <2> DEFINE r == [Idle EXCEPT !.kind = "update", !.pc = "locking", !.tpl = t, !.map = m,
                               !.todo = {ip}, !.seen = row]
  <2>1. r \in Requests
    BY IdleType DEF Requests, AllKinds, MapOrNone, IInv, TypeOK
  <2>2. {row[ip], m} \in SUBSET Maps
    BY <1>3 DEF RequestUpdate, IInv, TypeOK, MapOrNone
  <2>3. PhaseFits(r) /\ Touches(r) = {m} /\ r.pc = "locking"
    BY <1>3 DEF RequestUpdate, PhaseFits, Touches, Idle, Creates
  <2>4. Become(o, r) /\ UNCHANGED dev /\ Locks!Ask(o, {row[ip], m})
    BY <1>3 DEF RequestUpdate
  <2>5. QED
    BY <2>1, <2>2, <2>3, <2>4, AskKeeps
<1>4. ASSUME NEW R \in SUBSET Maps, NEW f \in [Ips -> MapOrNone], ReadDevices(o, R, f)
      PROVE  LockedWell' /\ MadeIsThere'
  <2> DEFINE D == {ip \in Ips : \E m \in Maps \ {f[ip]} : Holds(m, ip)}
             r == [Idle EXCEPT !.kind = "list", !.pc = "snapped", !.seen = f, !.made = D]
  <2>1. D \in SUBSET Ips
    OBVIOUS
  <2>2. Become(o, r) /\ UNCHANGED <<locks, dev>> /\ "list" \in Kinds
    BY <1>4 DEF ReadDevices
  <2> HIDE DEF D
  <2>3. r \in Requests
    BY <2>1, IdleType DEF Requests, AllKinds
  <2>4. PhaseFits(r) /\ r.pc = "snapped"
    BY <2>2 DEF PhaseFits, Idle, Creates
  <2>5. QED
    BY <2>2, <2>3, <2>4, StayKeeps
<1>5. QED
  BY <1>1, <1>2, <1>3, <1>4 DEF NewRequest

\* The steps of the entry, of a list and of the ends, which leave the devices alone.
LEMMA QuietStepKeeps ==
  ASSUME IInv, NEW o \in Ops,
         \/ CheckStream(o) \/ Enter(o) \/ Refuse(o) \/ Done(o)
         \/ Commit(o) \/ CommitUnread(o) \/ CommitFails(o) \/ ClientGone(o)
         \/ DeleteRow(o) \/ Unlist(o) \/ SaveRowFails(o)
         \/ Upsert(o) \/ Prune(o) \/ ListFails(o)
         \/ \E ip \in Ips : SaveRow(o, ip)
  PROVE  LockedWell' /\ MadeIsThere'
<1> USE DEF stores
<1>0. op[o] \in Requests /\ PhaseFits(op[o])
  BY DEF IInv, TypeOK, LockedWell, RequestsOk
<1>1. CASE CheckStream(o)
  <2>1. CASE Become(o, Idle) /\ UNCHANGED locks
    BY <1>1, <2>1, StayKeeps, IdleType DEF CheckStream, PhaseFits, Idle, Creates
  <2>2. CASE Goto(o, "locking") /\ Locks!Ask(o, {op[o].map})
    <3> DEFINE r == [op[o] EXCEPT !.pc = "locking"]
    <3>1. r \in Requests
      BY <1>0 DEF Requests, Phases
    <3>2. op[o].kind = "stream" /\ op[o].map \in Maps /\ op[o].made = {}
      BY <1>0, <1>1 DEF CheckStream, PhaseFits, IInv, LockedWell, RequestsOk, Touches, Creates
    <3>3. PhaseFits(r) /\ Touches(r) = {op[o].map} /\ r.pc = "locking"
      BY <1>0, <3>2 DEF PhaseFits, Touches, Creates, Requests
    <3>4. Become(o, r) /\ UNCHANGED dev
      BY <1>1, <2>2 DEF CheckStream, Goto, Become
    <3>5. QED
      BY <2>2, <3>1, <3>2, <3>3, <3>4, AskKeeps
  <2>3. QED
    BY <1>1, <2>1, <2>2 DEF CheckStream
<1>2. CASE Enter(o)
  <2> DEFINE r == [op[o] EXCEPT !.pc = "working"]
  <2>1. LockedWell'
    BY <1>2, Enters DEF Enter, IInv
  <2>2. r \in Requests /\ Pending(r) = {}
    BY <1>0, <1>2 DEF Enter, Requests, Phases, Pending, PhaseFits
  <2>3. Become(o, r) /\ UNCHANGED dev
    BY <1>2 DEF Enter, Goto, Become
  <2>4. MadeIsThere'
    BY <2>2, <2>3, MadeKept, NoCommand
  <2>5. QED
    BY <2>1, <2>4
<1>3. CASE Finish(o) /\ UNCHANGED dev
  BY <1>3, EndKeeps, NoCommand
<1>4. CASE CommitUnread(o) \/ CommitFails(o)
  <2> DEFINE r == [op[o] EXCEPT !.todo = op[o].made, !.pc = "cleaning"]
  <2>1. r \in Requests
    BY <1>0, CleaningType
  <2>2. op[o].kind \in Creates /\ op[o].pc \in Started
    BY <1>4 DEF CommitUnread, CommitFails, Saving, Started
  <2>3. PhaseFits(r) /\ r.pc \in Started /\ Pending(r) = {}
    BY <1>0, <2>2 DEF PhaseFits, Requests, Started, Pending, Creates
  <2>4. r.kind = op[o].kind /\ r.map = op[o].map /\ r.seen = op[o].seen
        /\ r.todo \cup r.made \subseteq op[o].todo \cup op[o].made
    BY <1>0 DEF Requests
  <2>5. Become(o, r) /\ UNCHANGED <<dev, locks>>
    BY <1>4 DEF CommitUnread, CommitFails
  <2>6. QED
    BY <2>1, <2>2, <2>3, <2>4, <2>5, AdvanceKeeps, NoCommand
<1>5. CASE DeleteRow(o) /\ Goto(o, "unlisting")
  <2> DEFINE r == [op[o] EXCEPT !.pc = "unlisting"]
  <2>1. r \in Requests
    BY <1>0 DEF Requests, Phases
  <2>2. op[o].kind = "delete" /\ op[o].pc \in Started
    BY <1>0, <1>5 DEF DeleteRow, PhaseFits, Started
  <2>3. PhaseFits(r) /\ r.pc \in Started /\ Pending(r) = {}
    BY <1>0, <2>2 DEF PhaseFits, Requests, Started, Pending, Creates
  <2>4. r.kind = op[o].kind /\ r.map = op[o].map /\ r.seen = op[o].seen
        /\ r.todo \cup r.made \subseteq op[o].todo \cup op[o].made
    BY <1>0 DEF Requests
  <2>5. Become(o, r) /\ UNCHANGED <<dev, locks>>
    BY <1>5 DEF DeleteRow, Goto, Become
  <2>6. QED
    BY <2>1, <2>2, <2>3, <2>4, <2>5, AdvanceKeeps, NoCommand
<1>6. CASE PutDown(o) /\ UNCHANGED <<dev, locks>> /\ op[o].pc \in Started
  BY <1>6, PutDownKeeps, NoCommand
<1>7. CASE Upsert(o)
  <2> DEFINE r == [op[o] EXCEPT !.pc = "pruning"]
  <2>1. r \in Requests
    BY <1>0 DEF Requests, Phases
  <2>2. PhaseFits(r) /\ r.pc = "pruning"
    BY <1>0, <1>7 DEF Upsert, PhaseFits, Requests, Creates
  <2>3. Become(o, r) /\ UNCHANGED <<locks, dev>>
    BY <1>7 DEF Upsert, Goto, Become
  <2>4. QED
    BY <2>1, <2>2, <2>3, StayKeeps
<1>8. CASE Become(o, Idle) /\ UNCHANGED <<locks, dev>>
  BY <1>8, StayKeeps, IdleType DEF PhaseFits, Idle, Creates
<1>9. QED
  BY <1>1, <1>2, <1>3, <1>4, <1>5, <1>6, <1>7, <1>8
     DEF Refuse, Done, Commit, ClientGone, DeleteRow, Unlist, SaveRowFails, Prune, ListFails,
         SaveRow, Started

\* The steps that give commands on a device: they do so inside its map.
LEMMA DeviceStepKeeps ==
  ASSUME IInv, NEW o \in Ops, NEW ip \in Ips,
         \/ MakeDevice(o, ip) \/ MakeDeviceFails(o, ip) \/ CleanUp(o, ip)
         \/ DeleteDevice(o, ip) \/ Withdraw(o, ip) \/ Recreate(o, ip)
  PROVE  LockedWell' /\ MadeIsThere'
<1>1. op[o] \in Requests /\ PhaseFits(op[o]) /\ op[o].tpl \in Templates
      /\ op[o].todo \in SUBSET Ips /\ op[o].made \in SUBSET Ips
  BY DEF IInv, TypeOK, LockedWell, RequestsOk, Requests
<1>2. op[o].pc \in Started
  BY DEF MakeDevice, MakeDeviceFails, CleanUp, DeleteDevice, Withdraw, Recreate, Next1, Started
<1>3. Touches(op[o]) \subseteq Maps /\ Touches(op[o]) \subseteq inside[o]
  BY <1>2 DEF IInv, LockedWell, RequestsOk, MapsAsked
<1>4. Pending(op[o]) \subseteq Ips /\ \A i \in Pending(op[o]) : Holds(op[o].map, i)
  BY <1>1 DEF IInv, MadeIsThere, Pending
<1>5. ASSUME NEW i \in Ips, Drop(o, i), UNCHANGED locks, OnlyInside(o),
             \A j \in Pending(op[o]) : dev'[op[o].map][j] # "none"
      PROVE  LockedWell' /\ MadeIsThere'
  <2> DEFINE r == [op[o] EXCEPT !.todo = @ \ {i}]
  <2>1. r \in Requests /\ r.kind = op[o].kind /\ r.map = op[o].map /\ r.seen = op[o].seen
        /\ r.todo \cup r.made \subseteq op[o].todo \cup op[o].made /\ r.pc = op[o].pc
        /\ r.made = op[o].made
    BY <1>1 DEF Requests
  <2>2. PhaseFits(r) /\ Pending(r) = Pending(op[o])
    BY <1>1, <2>1 DEF PhaseFits, Pending
  <2>3. Become(o, r)
    BY <1>5 DEF Drop
  <2> HIDE DEF r
  <2>4. QED
    BY <1>2, <1>5, <2>1, <2>2, <2>3, AdvanceKeeps
<1>6. CASE MakeDevice(o, ip)
  <2> DEFINE r == [op[o] EXCEPT !.todo = @ \ {ip}, !.made = @ \cup {ip}]
  <2>1. op[o].kind \in Creates /\ op[o].pc = "working" /\ op[o].map \in Maps /\ ip \in op[o].todo
    BY <1>3, <1>6 DEF MakeDevice, Next1, Touches
  <2>2. r \in Requests /\ r.kind = op[o].kind /\ r.map = op[o].map /\ r.seen = op[o].seen
        /\ r.todo \cup r.made \subseteq op[o].todo \cup op[o].made /\ r.pc = op[o].pc
        /\ r.made = op[o].made \cup {ip}
    BY <1>1, <2>1 DEF Requests
  <2>3. Become(o, r) /\ UNCHANGED locks /\ CreateOk(op[o].map, ip, op[o].tpl)
    BY <1>6 DEF MakeDevice
  <2> HIDE DEF r
  <2>4. PhaseFits(r) /\ Pending(r) = op[o].made \cup {ip} /\ Pending(op[o]) = op[o].made
    BY <1>1, <2>1, <2>2 DEF PhaseFits, Pending, Creates
  <2>5. OnlyInside(o) /\ \A i \in Pending(r) : dev'[r.map][i] # "none"
    BY <1>1, <1>4, <2>1, <2>2, <2>3, <2>4, Commands
  <2>6. QED
    BY <1>2, <2>2, <2>3, <2>4, <2>5, AdvanceKeeps
<1>7. CASE MakeDeviceFails(o, ip)
  <2>1. op[o].map \in Maps /\ CreateFails(op[o].map, ip, op[o].tpl)
    BY <1>3, <1>7 DEF MakeDeviceFails, Next1, Touches
  <2>2. OnlyInside(o) /\ \A j \in Pending(op[o]) : dev'[op[o].map][j] # "none"
    BY <1>1, <1>4, <2>1, Commands
  <2>3. QED
    BY <1>5, <1>7, <2>2 DEF MakeDeviceFails
<1>8. CASE CleanUp(o, ip)
  <2>1. op[o].map \in Maps /\ op[o].map \in inside[o] /\ Pending(op[o]) = {}
    BY <1>1, <1>3, <1>8 DEF CleanUp, Touches, PhaseFits, Pending
  <2>2. OnlyInside(o)
    BY <1>1, <1>8, <2>1, Commands DEF CleanUp
  <2>3. QED
    BY <1>5, <1>8, <2>1, <2>2, EndKeeps DEF CleanUp
<1>9. ASSUME op[o].kind \notin Creates, op[o].pc = "working", NEW r \in Requests, Become(o, r),
             UNCHANGED locks, OnlyInside(o), ip \in op[o].todo,
             r.kind = op[o].kind, r.map = op[o].map, r.seen = op[o].seen,
             r.todo \subseteq op[o].todo, r.made = {ip},
             \/ r.pc = "unrowing" /\ r.kind = "delete"
             \/ r.pc = "creating" /\ r.kind \in {"update", "fields"}
      PROVE  LockedWell' /\ MadeIsThere'
  <2>1. PhaseFits(r) /\ Pending(r) = {} /\ r.pc \in Started
    BY <1>1, <1>9 DEF PhaseFits, Pending, Started, Creates
  <2>2. r.todo \cup r.made \subseteq op[o].todo \cup op[o].made
    BY <1>9
  <2>3. QED
    BY <1>2, <1>9, <2>1, <2>2, AdvanceKeeps
<1>10. CASE DeleteDevice(o, ip)
  <2>1. op[o].kind = "delete" /\ op[o].pc = "working" /\ ip \in op[o].todo
    BY <1>10 DEF DeleteDevice, Next1
  <2>2. op[o].seen[ip] \in Maps /\ op[o].seen[ip] \in inside[o] /\ Pending(op[o]) = {}
    BY <1>3, <2>1 DEF Touches, Creates, Pending
  <2>3. OnlyInside(o)
    BY <1>1, <1>10, <2>2, Commands DEF DeleteDevice
  <2>4. CASE Take(o, ip, "unrowing")
    <3> DEFINE r == [op[o] EXCEPT !.todo = @ \ {ip}, !.made = {ip}, !.pc = "unrowing"]
    <3>1. r \in Requests /\ r.kind = op[o].kind /\ r.map = op[o].map /\ r.seen = op[o].seen
          /\ r.todo \subseteq op[o].todo /\ r.made = {ip} /\ r.pc = "unrowing"
      BY <1>1 DEF Requests, Phases
    <3>2. Become(o, r) /\ UNCHANGED locks
      BY <1>10, <2>4 DEF DeleteDevice, Take
    <3> HIDE DEF r
    <3>3. QED
      BY <1>9, <2>1, <2>3, <3>1, <3>2 DEF Creates
  <2>5. CASE Drop(o, ip)
    BY <1>5, <1>10, <2>2, <2>3, <2>5 DEF DeleteDevice
  <2>6. QED
    BY <1>10, <2>4, <2>5 DEF DeleteDevice
<1>11. CASE Withdraw(o, ip)
  <2> DEFINE m == UpdatedMap(o, ip)
             t == IF op[o].kind = "update" THEN op[o].tpl ELSE dev[m][ip]
             r == [op[o] EXCEPT !.todo = @ \ {ip}, !.made = {ip}, !.pc = "creating", !.tpl = t]
  <2>1. op[o].kind \in {"update", "fields"} /\ op[o].pc = "working" /\ ip \in op[o].todo
    BY <1>11 DEF Withdraw, Next1
  <2>2. m \in Maps /\ m \in inside[o] /\ Pending(op[o]) = {}
    BY <1>3, <2>1 DEF Touches, Creates, Pending, UpdatedMap
  <2>3. \/ DeleteOk(m, ip) /\ Become(o, r)
        \/ DeleteFails(m, ip) /\ Drop(o, ip)
    BY <1>11 DEF Withdraw
  <2>4. UNCHANGED locks
    BY <1>11 DEF Withdraw
  <2>5. DeleteOk(m, ip) => t \in Templates
    BY <1>1, <2>2 DEF DeleteOk, IInv, TypeOK
  <2> HIDE DEF m, t
  <2>6. OnlyInside(o)
    BY <1>1, <2>2, <2>3, Commands
  <2>7. CASE DeleteOk(m, ip) /\ Become(o, r)
    <3>1. t \in Templates
      BY <2>5, <2>7
    <3>2. r \in Requests /\ r.kind = op[o].kind /\ r.map = op[o].map /\ r.seen = op[o].seen
          /\ r.todo \subseteq op[o].todo /\ r.made = {ip} /\ r.pc = "creating"
      BY <1>1, <3>1 DEF Requests, Phases
    <3> HIDE DEF r
    <3>3. QED
      BY <1>9, <2>1, <2>4, <2>6, <2>7, <3>2 DEF Creates
  <2>8. CASE Drop(o, ip)
    BY <1>5, <2>2, <2>4, <2>6, <2>8
  <2>9. QED
    BY <2>3, <2>7, <2>8
<1>12. CASE Recreate(o, ip)
  <2>1. op[o].kind \in {"update", "fields"} /\ ip \in op[o].made
    BY <1>1, <1>12 DEF Recreate, PhaseFits
  <2>2. UpdatedMap(o, ip) \in Maps
    BY <1>3, <2>1 DEF UpdatedMap, Touches, Creates
  <2>3. OnlyInside(o) /\ UNCHANGED locks
    BY <1>1, <1>12, <2>2, Commands DEF Recreate
  <2>4. CASE PutDown(o)
    BY <1>2, <2>3, <2>4, PutDownKeeps
  <2>5. CASE op[o].kind = "update" /\ CreateOk(op[o].map, ip, op[o].tpl) /\ Goto(o, "saving")
    <3> DEFINE r == [op[o] EXCEPT !.pc = "saving"]
    <3>1. r \in Requests /\ r.kind = op[o].kind /\ r.map = op[o].map /\ r.seen = op[o].seen
          /\ r.todo = op[o].todo /\ r.made = op[o].made /\ r.pc = "saving"
      BY <1>1 DEF Requests, Phases
    <3>2. op[o].made = {ip}
      BY <1>1, <1>12, <2>1 DEF Recreate, PhaseFits
    <3>3. Become(o, r)
      BY <2>5 DEF Goto, Become
    <3> HIDE DEF r
    <3>4. PhaseFits(r) /\ Pending(r) = {ip} /\ r.pc \in Started
      BY <1>1, <2>5, <3>1, <3>2 DEF PhaseFits, Pending, Started, Creates
    <3>5. dev'[r.map][ip] # "none"
      BY <1>1, <2>2, <2>5, <3>1, Commands DEF UpdatedMap
    <3>6. QED
      BY <1>2, <2>3, <3>1, <3>3, <3>4, <3>5, AdvanceKeeps
  <2>6. QED
    BY <1>12, <2>4, <2>5 DEF Recreate, UpdatedMap
<1>13. QED
  BY <1>6, <1>7, <1>8, <1>10, <1>11, <1>12

\* Every step keeps the invariant.
LEMMA InvNext == IInv /\ [Next]_vars => IInv'
<1> SUFFICES ASSUME IInv, [Next]_vars PROVE IInv'
  OBVIOUS
<1>1. TypeOK'
  BY TypeNext DEF IInv, LockedWell
<1>2. CASE \E o \in Ops : NewRequest(o) \/ Progress(o)
  <2>1. PICK o \in Ops : NewRequest(o) \/ Progress(o)
    BY <1>2
  <2>2. CASE NewRequest(o)
    BY <1>1, <2>2, NewRequestKeeps DEF IInv
  <2>3. CASE Progress(o)
    BY <1>1, <2>3, QuietStepKeeps, DeviceStepKeeps DEF Progress, IInv
  <2>4. QED
    BY <2>1, <2>2, <2>3
<1>3. CASE Crash
  <2>1. /\ op' = [o \in Ops |-> Idle]
        /\ inside' = [o \in Ops |-> {}]
    BY <1>3 DEF Crash
  <2>2. PhaseFits(Idle) /\ Pending(Idle) = {} /\ Idle.pc = "idle"
    BY DEF PhaseFits, Pending, Idle, Creates
  <2>3. LockedWell'
    BY <2>1, <2>2 DEF LockedWell, RequestsOk, MapsAsked, Exclusive, Started
  <2>4. MadeIsThere'
    BY <2>1, <2>2 DEF MadeIsThere
  <2>5. QED
    BY <1>1, <2>3, <2>4 DEF IInv
<1>4. CASE UNCHANGED vars
  BY <1>1, <1>4 DEF vars, IInv, LockedWell, RequestsOk, MapsAsked, Exclusive, MadeIsThere, Holds
<1>5. QED
  BY <1>2, <1>3, <1>4 DEF Next

-----------------------------------------------------------------------------
\* Type correctness of the handlers, the stores and the maps' occupation.
THEOREM TypeCorrect == Spec => []TypeOK
<1>1. IInv => TypeOK
  BY DEF IInv
<1>2. QED
  BY <1>1, InvInit, InvNext, PTL DEF Spec

\* A step moves one request on.
LEMMA OneMoves ==
  ASSUME IInv, NEW o \in Ops, NewRequest(o) \/ Progress(o), NEW p \in Ops, p # o
  PROVE  op'[p] = op[p]
<1>1. op \in [Ops -> Requests]
  BY DEF IInv, TypeOK
<1>2. \A r : Become(o, r) => op'[p] = op[p]
  BY <1>1 DEF Become
<1>3. \A l : Goto(o, l) => op'[p] = op[p]
  BY <1>1 DEF Goto
<1>4. CASE NewRequest(o)
  BY <1>2, <1>4 DEF NewRequest, RequestCreate, RequestRows, RequestUpdate, ReadDevices
<1>5. CASE Progress(o)
  BY <1>2, <1>3, <1>5 DEF Progress, CheckStream, Enter, Refuse, Done, Commit, CommitUnread, CommitFails,
     ClientGone, DeleteRow, Unlist, SaveRowFails, Upsert, Prune, ListFails, MakeDevice,
     MakeDeviceFails, CleanUp, DeleteDevice, Withdraw, Recreate, SaveRow, Finish, Drop, Take, PutDown
<1>6. QED
  BY <1>4, <1>5

\* What a new request looks like: it has still to look, to wait or to write.
LEMMA NewShape ==
  ASSUME IInv, NEW o \in Ops, NewRequest(o)
  PROVE  \E r \in Requests :
           /\ Become(o, r) /\ op[o].pc = "idle" /\ UNCHANGED stores /\ Unmarked
           /\ r.pc \in {"checking", "locking", "snapped"} /\ (r.kind = "stream" => r.pc = "checking")
<1> DEFINE Shape == \E r \in Requests :
             /\ Become(o, r) /\ op[o].pc = "idle" /\ UNCHANGED stores /\ Unmarked
             /\ r.pc \in {"checking", "locking", "snapped"} /\ (r.kind = "stream" => r.pc = "checking")
<1>1. ASSUME NEW k \in Creates, NEW S \in SUBSET Ips, NEW m \in Maps, NEW t \in Templates,
             RequestCreate(o, k, S, m, t)
      PROVE  Shape
  <2> DEFINE r == [Idle EXCEPT !.kind = k, !.tpl = t, !.map = m, !.todo = S,
                               !.pc = IF k = "stream" THEN "checking" ELSE "locking"]
  <2>1. r \in Requests /\ r.pc \in {"checking", "locking"} /\ (r.kind = "stream" => r.pc = "checking")
    BY IdleType DEF Requests, AllKinds, MapOrNone, Phases, Idle
  <2>2. Become(o, r) /\ op[o].pc = "idle" /\ UNCHANGED stores /\ Unmarked
    BY <1>1 DEF RequestCreate
  <2> HIDE DEF r
  <2>3. QED
    BY <2>1, <2>2
<1>2. ASSUME NEW k \in {"delete", "fields"}, NEW S \in SUBSET Ips, RequestRows(o, k, S)
      PROVE  Shape
  <2> DEFINE r == [Idle EXCEPT !.kind = k, !.pc = "locking", !.todo = S, !.seen = row]
  <2>1. r \in Requests /\ r.pc = "locking" /\ r.kind # "stream"
    BY IdleType DEF Requests, AllKinds, Phases, Idle, IInv, TypeOK
  <2>2. Become(o, r) /\ op[o].pc = "idle" /\ UNCHANGED stores /\ Unmarked
    BY <1>2 DEF RequestRows
  <2> HIDE DEF r
  <2>3. QED
    BY <2>1, <2>2
<1>3. ASSUME NEW i \in Ips, NEW m \in Maps, NEW t \in Templates, RequestUpdate(o, i, m, t)
      PROVE  Shape
  <2> DEFINE r == [Idle EXCEPT !.kind = "update", !.pc = "locking", !.tpl = t, !.map = m,
                               !.todo = {i}, !.seen = row]
  <2>1. r \in Requests /\ r.pc = "locking" /\ r.kind # "stream"
    BY IdleType DEF Requests, AllKinds, MapOrNone, Phases, Idle, IInv, TypeOK
  <2>2. Become(o, r) /\ op[o].pc = "idle" /\ UNCHANGED stores /\ Unmarked
    BY <1>3 DEF RequestUpdate
  <2> HIDE DEF r
  <2>3. QED
    BY <2>1, <2>2
<1>4. ASSUME NEW R \in SUBSET Maps, NEW f \in [Ips -> MapOrNone], ReadDevices(o, R, f)
      PROVE  Shape
  <2> DEFINE D == {i \in Ips : \E m \in Maps \ {f[i]} : Holds(m, i)}
             r == [Idle EXCEPT !.kind = "list", !.pc = "snapped", !.seen = f, !.made = D]
  <2>1. Become(o, r) /\ op[o].pc = "idle" /\ UNCHANGED stores /\ Unmarked
    BY <1>4 DEF ReadDevices
  <2>2. D \in SUBSET Ips
    OBVIOUS
  <2> HIDE DEF D
  <2>3. r \in Requests /\ r.pc = "snapped" /\ r.kind # "stream"
    BY <2>2, IdleType DEF Requests, AllKinds, Phases, Idle
  <2> HIDE DEF r
  <2>4. QED
    BY <2>1, <2>3
<1>5. QED
  BY <1>1, <1>2, <1>3, <1>4 DEF NewRequest

-----------------------------------------------------------------------------
(***************************************************************************)
(* Lists.  A list takes no map, and writes rows from what it has read long *)
(* before; all that follows needs that no other request runs beside one.   *)
(***************************************************************************)
ListsAlone == \A o, p \in Ops : op[o].kind = "list" /\ p # o => op[p].pc = "idle"

\* What a list has read is as it was, and what it has written is what it has read.
Snapshots ==
  \A o \in Ops : op[o].kind = "list" => \A ip \in Ips :
    /\ \A m \in Maps : op[o].seen[ip] = m => Holds(m, ip)
    /\ ip \notin op[o].made => \A m \in Maps : Holds(m, ip) => op[o].seen[ip] = m
    /\ op[o].pc = "pruning" => op[o].seen[ip] \in {NoMap, row[ip]}

\* The steps of a list that has begun.
LEMMA ListSteps ==
  ASSUME IInv, NEW o \in Ops, op[o].kind = "list", NewRequest(o) \/ Progress(o)
  PROVE  Upsert(o) \/ Prune(o) \/ ListFails(o)
<1>1. op[o].pc \in {"snapped", "pruning"}
  BY DEF IInv, LockedWell, RequestsOk, PhaseFits
<1>2. ~ NewRequest(o)
  BY <1>1 DEF NewRequest, RequestCreate, RequestRows, RequestUpdate, ReadDevices
<1>3. QED
  BY <1>1, <1>2 DEF Progress, CheckStream, Enter, Refuse, Done, Commit, CommitUnread, CommitFails,
     ClientGone, DeleteRow, Unlist, SaveRowFails, MakeDevice, MakeDeviceFails, CleanUp,
     DeleteDevice, Withdraw, Recreate, SaveRow, Saving, Next1

\* A request ends as the kind it began.
LEMMA KindStays ==
  ASSUME IInv, NEW o \in Ops, Progress(o)
  PROVE  op'[o].kind \in {op[o].kind, "none"} /\ op[o].pc # "idle"
<1>1. op[o] \in Requests /\ op \in [Ops -> Requests]
  BY DEF IInv, TypeOK
<1>2. Become(o, Idle) => op'[o].kind = "none"
  BY <1>1 DEF Become, Idle
<1>3. \A l : Goto(o, l) => op'[o].kind = op[o].kind
  BY <1>1 DEF Goto, Requests
<1>4. \A T, M, l, t : Become(o, [op[o] EXCEPT !.todo = T, !.made = M, !.pc = l, !.tpl = t])
                        => op'[o].kind = op[o].kind
  BY <1>1 DEF Become, Requests
<1>5. \A T, M : Become(o, [op[o] EXCEPT !.todo = T, !.made = M]) => op'[o].kind = op[o].kind
  BY <1>1 DEF Become, Requests
<1>6. \A T, l : Become(o, [op[o] EXCEPT !.todo = T, !.pc = l]) => op'[o].kind = op[o].kind
  BY <1>1 DEF Become, Requests
<1>7. PutDown(o) => op'[o].kind = op[o].kind
  BY <1>1 DEF PutDown, Become, Requests
<1>8. \A i : Drop(o, i) \/ Take(o, i, "unrowing") => op'[o].kind = op[o].kind
  <2>1. \A i : Drop(o, i) => op'[o].kind = op[o].kind
    BY <1>1 DEF Drop, Become, Requests
  <2>2. \A i : Take(o, i, "unrowing") => op'[o].kind = op[o].kind
    BY <1>1 DEF Take, Become, Requests
  <2>3. QED
    BY <2>1, <2>2
<1>9. op'[o].kind \in {op[o].kind, "none"}
  BY <1>2, <1>3, <1>4, <1>5, <1>6, <1>7, <1>8
     DEF Progress, CheckStream, Enter, Refuse, Done, Commit, CommitUnread, CommitFails,
     ClientGone, DeleteRow, Unlist, SaveRowFails, Upsert, Prune, ListFails, MakeDevice,
     MakeDeviceFails, CleanUp, DeleteDevice, Withdraw, Recreate, SaveRow, Finish
<1>10. op[o].pc # "idle"
  BY DEF Progress, CheckStream, Enter, Refuse, Done, Commit, CommitUnread, CommitFails,
     ClientGone, DeleteRow, Unlist, SaveRowFails, Upsert, Prune, ListFails, MakeDevice,
     MakeDeviceFails, CleanUp, DeleteDevice, Withdraw, Recreate, SaveRow, Saving, Next1
<1>11. QED
  BY <1>9, <1>10

\* A list reads the devices as they are.
LEMMA ReadWell ==
  ASSUME IInv, NEW o \in Ops, NEW R \in SUBSET Maps, NEW f \in [Ips -> MapOrNone], ReadDevices(o, R, f),
         NEW ip \in Ips
  PROVE  /\ \A m \in Maps : op'[o].seen[ip] = m => dev'[m][ip] # "none"
         /\ ip \notin op'[o].made => \A m \in Maps : dev'[m][ip] # "none" => op'[o].seen[ip] = m
         /\ op'[o].pc = "snapped"
<1> DEFINE D == {i \in Ips : \E m \in Maps \ {f[i]} : Holds(m, i)}
<1>1. op \in [Ops -> Requests] /\ NoMap \notin Maps
  BY RegistryAssumption DEF IInv, TypeOK
<1>2. /\ Become(o, [Idle EXCEPT !.kind = "list", !.pc = "snapped", !.seen = f, !.made = D])
      /\ UNCHANGED dev
      /\ IF \E m \in R : Holds(m, ip) THEN f[ip] \in R /\ Holds(f[ip], ip) ELSE f[ip] = NoMap
  BY DEF ReadDevices, stores
<1>3. ip \notin D => \A m \in Maps : Holds(m, ip) => f[ip] = m
  OBVIOUS
<1> HIDE DEF D
<1>4. op'[o].seen = f /\ op'[o].made = D /\ op'[o].pc = "snapped"
  BY <1>1, <1>2 DEF Become, Idle
<1>5. QED
  BY <1>1, <1>2, <1>3, <1>4 DEF Holds

\* So it stays while no other request runs.
LEMMA SnapshotsNext ==
  IInv /\ ListsAlone /\ ListsAlone' /\ Snapshots /\ [Next]_vars => Snapshots'
<1> SUFFICES ASSUME IInv, ListsAlone, ListsAlone', Snapshots, [Next]_vars,
                    NEW o \in Ops, op'[o].kind = "list", NEW ip \in Ips
             PROVE  /\ \A m \in Maps : op'[o].seen[ip] = m => dev'[m][ip] # "none"
                    /\ ip \notin op'[o].made => \A m \in Maps : dev'[m][ip] # "none" => op'[o].seen[ip] = m
                    /\ op'[o].pc = "pruning" => op'[o].seen[ip] \in {NoMap, row'[ip]}
  BY DEF Snapshots, Holds
<1>1. IInv' /\ op \in [Ops -> Requests] /\ row \in [Ips -> MapOrNone]
  BY InvNext DEF IInv, TypeOK
<1>2. CASE UNCHANGED vars
  BY <1>2 DEF vars, Snapshots, Holds
<1>3. ~ Crash
  BY DEF Crash, Idle
<1>4. ASSUME NEW p \in Ops, NewRequest(p) \/ Progress(p), p # o PROVE FALSE
  <2>1. op'[o] = op[o]
    BY <1>4, OneMoves
  <2>2. op[p].pc = "idle" /\ op'[p].pc = "idle"
    BY <1>4, <2>1 DEF ListsAlone
  <2>3. NewRequest(p)
    BY <1>4, <2>2, KindStays
  <2>4. PICK r \in Requests : Become(p, r) /\ r.pc \in {"checking", "locking", "snapped"}
    BY <2>3, NewShape
  <2>5. op'[p] = r
    BY <1>1, <2>4 DEF Become
  <2>6. QED
    BY <2>2, <2>4, <2>5
<1>5. CASE NewRequest(o)
  <2>1. op'[o].pc \in {"snapped", "pruning"}
    BY <1>1 DEF IInv, LockedWell, RequestsOk, PhaseFits
  <2>2. \A l \in {"checking", "locking"} : \A k, t, m, S :
          Become(o, [Idle EXCEPT !.kind = k, !.tpl = t, !.map = m, !.todo = S, !.pc = l]) => op'[o].pc = l
    BY <1>1 DEF Become, Idle
  <2>3. \A l \in {"checking", "locking"} : \A k, S, f :
          Become(o, [Idle EXCEPT !.kind = k, !.pc = l, !.todo = S, !.seen = f]) => op'[o].pc = l
    BY <1>1 DEF Become, Idle
  <2>4. \A l \in {"checking", "locking"} : \A k, t, m, S, f :
          Become(o, [Idle EXCEPT !.kind = k, !.pc = l, !.tpl = t, !.map = m, !.todo = S, !.seen = f])
            => op'[o].pc = l
    BY <1>1 DEF Become, Idle
  <2>5. PICK R \in SUBSET Maps, f \in [Ips -> MapOrNone] : ReadDevices(o, R, f)
    BY <1>5, <2>1, <2>2, <2>3, <2>4 DEF NewRequest, RequestCreate, RequestRows, RequestUpdate
  <2>6. QED
    BY <2>5, ReadWell
<1>6. CASE Progress(o)
  <2>1. op[o].kind = "list"
    BY <1>6, KindStays
  <2>2. ~ Prune(o) /\ ~ ListFails(o)
    <3>1. Become(o, Idle) => op'[o].kind = "none"
      BY <1>1 DEF Become, Idle
    <3>2. QED
      BY <3>1 DEF Prune, ListFails
  <2>3. Upsert(o)
    BY <1>6, <2>1, <2>2, ListSteps
  <2>4. /\ UNCHANGED dev /\ op'[o] = [op[o] EXCEPT !.pc = "pruning"]
        /\ row'[ip] = IF op[o].seen[ip] = NoMap THEN row[ip] ELSE op[o].seen[ip]
    BY <1>1, <2>3 DEF Upsert, Goto
  <2>5. op'[o].seen = op[o].seen /\ op'[o].made = op[o].made
    BY <1>1, <2>4 DEF Requests
  <2>6. QED
    BY <2>1, <2>4, <2>5 DEF Snapshots, Holds
<1>7. QED
  BY <1>2, <1>3, <1>4, <1>5, <1>6 DEF Next

\* There are no lists at first, nor as long as nobody asks for one.
LEMMA SnapshotsInit == Init => Snapshots
  BY DEF Init, Snapshots, Idle
LEMMA NoLists == ASSUME "list" \notin Kinds, IInv PROVE ListsAlone /\ Snapshots
  BY DEF IInv, LockedWell, RequestsOk, PhaseFits, ListsAlone, Snapshots

\* As long as no other request runs beside a list, no request, failure or crash,
\* in any number and order, makes a row name a device that is not there.
THEOREM NewRowHasDeviceIfListsAlone ==
  Spec /\ []ListsAlone => NewRowHasDevice
<1>1. ASSUME IInv, Snapshots, [Next]_vars, NEW ip \in Ips, row'[ip] \notin {row[ip], NoMap}
      PROVE  Holds(row'[ip], ip)
  <2>1. row' # row
    BY <1>1
  <2>2. ~ UNCHANGED vars /\ ~ Crash /\ ~ \E o \in Ops : NewRequest(o)
    BY <2>1 DEF vars, Crash, NewRequest, RequestCreate, RequestRows, RequestUpdate, ReadDevices, stores
  <2>3. PICK o \in Ops : Progress(o)
    BY <1>1, <2>2 DEF Next
  <2>4. op[o].pc \in {"snapped", "pruning"} <=> op[o].kind = "list"
    BY <1>1 DEF IInv, LockedWell, RequestsOk, PhaseFits
  <2>5. \/ Commit(o) \/ CommitUnread(o) \/ DeleteRow(o) \/ Upsert(o) \/ Prune(o)
        \/ \E i \in Ips : SaveRow(o, i)
    BY <2>1, <2>3
       DEF Progress, CheckStream, Enter, Refuse, Done, CommitFails, ClientGone, Unlist,
           SaveRowFails, ListFails, MakeDevice, MakeDeviceFails, CleanUp,
           DeleteDevice, Withdraw, Recreate, stores
  <2>6. row \in [Ips -> MapOrNone] /\ \A i \in Pending(op[o]) : Holds(op[o].map, i)
    BY <1>1 DEF IInv, TypeOK, MadeIsThere
  <2>7. CASE Commit(o) \/ CommitUnread(o)
    <3>1. ip \in op[o].made /\ row'[ip] = op[o].map
      BY <1>1, <2>6, <2>7 DEF Commit, CommitUnread
    <3>2. ip \in Pending(op[o])
      BY <2>7, <3>1 DEF Commit, CommitUnread, Saving, Pending
    <3>3. QED
      BY <2>6, <3>1, <3>2
  <2>8. CASE DeleteRow(o)
    BY <1>1, <2>6, <2>8 DEF DeleteRow
  <2>9. ASSUME NEW i \in Ips, SaveRow(o, i) PROVE Holds(row'[ip], ip)
    <3>1. i = ip /\ row'[ip] = op[o].map
      BY <1>1, <2>6, <2>9 DEF SaveRow
    <3>2. ip \in Pending(op[o])
      BY <2>9, <3>1 DEF SaveRow, Pending
    <3>3. QED
      BY <2>6, <3>1, <3>2
  <2>10. CASE Upsert(o)
    <3>1. op[o].kind = "list" /\ row'[ip] = op[o].seen[ip] /\ row'[ip] \in Maps
      <4>1. op[o].seen[ip] \in MapOrNone
        BY <1>1 DEF IInv, TypeOK, Requests
      <4>2. QED
        BY <1>1, <2>4, <2>6, <2>10, <4>1 DEF Upsert, MapOrNone
    <3>2. QED
      BY <1>1, <3>1 DEF Snapshots
  <2>11. CASE Prune(o)
    BY <1>1, <2>6, <2>11 DEF Prune
  <2>12. QED
    BY <2>5, <2>7, <2>8, <2>9, <2>10, <2>11
<1>2. IInv /\ Snapshots /\ [Next]_vars =>
        [\A ip \in Ips : row'[ip] \notin {row[ip], NoMap} => Holds(row'[ip], ip)]_vars
  BY <1>1
<1>3. QED
  BY <1>2, InvInit, InvNext, SnapshotsInit, SnapshotsNext, PTL DEF Spec, NewRowHasDevice

\* That is so, in particular, when nobody lists.
THEOREM NewRowHasDeviceHolds ==
  ASSUME "list" \notin Kinds
  PROVE  Spec => NewRowHasDevice
<1>1. IInv => ListsAlone
  BY NoLists
<1>2. QED
  BY <1>1, NewRowHasDeviceIfListsAlone, InvInit, InvNext, PTL DEF Spec

-----------------------------------------------------------------------------
(***************************************************************************)
(* Devices and rows.  What a request has in hand is accounted for: its own *)
(* phase says how device and row differ there (Keeps, Claims, Took, Saves).*)
(***************************************************************************)

\* The map that a request puts, or looks for, the device ip in.
Home(r, ip) == IF r.kind \in Creates \cup {"update"} THEN r.map ELSE r.seen[ip]

\* A create answers for the devices it made until they have their rows, or are gone again ...
Keeps(r, ip) ==
  /\ r.kind \in Creates
  /\ \/ r.pc = "working" /\ ip \in r.made
     \/ r.pc = "cleaning" /\ ip \in r.todo

\* ... and for the addresses it has still to do: it has found them without a row.
Claims(r, ip) == Keeps(r, ip) \/ (r.kind \in Creates /\ r.pc = "working" /\ ip \in r.todo)

\* A delete or an update took the device from the map its row names ...
Took(r, ip) == r.pc \in {"unrowing", "creating"} /\ ip \in r.made

\* ... and an update put it back.
Saves(r, ip) == r.pc = "saving" /\ ip \in r.made

\* Device and row agree, but for what requests have in hand.
Agrees(ip) ==
  /\ \A m \in Maps : Holds(m, ip) =>
       row[ip] = m \/ \E o \in Ops : Keeps(op[o], ip) /\ Home(op[o], ip) = m
  /\ \A m \in Maps : row[ip] = m =>
       Holds(m, ip) \/ \E o \in Ops : Took(op[o], ip) /\ Home(op[o], ip) = m
  /\ \A o \in Ops :
       /\ Took(op[o], ip) => row[ip] = Home(op[o], ip) /\ ~ Holds(Home(op[o], ip), ip)
       /\ Claims(op[o], ip) => row[ip] # Home(op[o], ip)
       /\ Saves(op[o], ip) => row[ip] = Home(op[o], ip)

AgreeInv == \A ip \in Ips \ stray : Agrees(ip)

\* A streaming create that waits for its map would still find none of its rows.
StreamsFree ==
  \A o \in Ops : op[o].kind = "stream" /\ op[o].pc = "locking" =>
    \A ip \in op[o].todo \ stray : row[ip] = NoMap

-----------------------------------------------------------------------------
\* The request has something to do with device and row of ip just now.
InHand(r, ip) == Keeps(r, ip) \/ Claims(r, ip) \/ Took(r, ip) \/ Saves(r, ip)

\* A request has in hand only devices of the maps it is inside.
LEMMA HomeInside ==
  ASSUME IInv, NEW o \in Ops, NEW ip \in Ips, op[o].pc \in Started, ip \in op[o].todo \cup op[o].made
  PROVE  Home(op[o], ip) \in Maps /\ Home(op[o], ip) \in inside[o]
<1>1. Touches(op[o]) \subseteq Maps /\ Touches(op[o]) \subseteq inside[o]
  BY DEF IInv, LockedWell, RequestsOk, MapsAsked
<1>2. Home(op[o], ip) \in Touches(op[o])
  BY DEF Home, Touches
<1>3. QED
  BY <1>1, <1>2

\* Whatever it has in hand.
LEMMA HandInside ==
  ASSUME IInv, NEW o \in Ops, NEW ip \in Ips, InHand(op[o], ip)
  PROVE  Home(op[o], ip) \in Maps /\ Home(op[o], ip) \in inside[o]
  BY HomeInside DEF InHand, Keeps, Claims, Took, Saves, Started

\* Where nothing changes and the request answers for what it answered for, the stores agree as before.
LEMMA Undisturbed ==
  ASSUME IInv, NEW o \in Ops, NEW r \in Requests, Become(o, r), NEW ip \in Ips, Agrees(ip),
         row'[ip] = row[ip], \A m \in Maps : dev'[m][ip] = dev[m][ip],
         Keeps(op[o], ip) <=> Keeps(r, ip), Took(op[o], ip) <=> Took(r, ip),
         Keeps(r, ip) \/ Took(r, ip) => Home(r, ip) = Home(op[o], ip),
         Claims(r, ip) => row[ip] # Home(r, ip),
         Saves(r, ip) => row[ip] = Home(r, ip)
  PROVE  Agrees(ip)'
<1>1. op' = [op EXCEPT ![o] = r] /\ op \in [Ops -> Requests]
  BY DEF Become, IInv, TypeOK
<1>2. op'[o] = r /\ \A p \in Ops : p # o => op'[p] = op[p]
  BY <1>1
<1>4. \A p \in Ops : Took(op[p], ip) => Home(op[p], ip) \in Maps
  BY HandInside DEF InHand
<1>5. ASSUME NEW m \in Maps, dev'[m][ip] # "none"
      PROVE  row'[ip] = m \/ \E p \in Ops : Keeps(op'[p], ip) /\ Home(op'[p], ip) = m
  BY <1>2, <1>5 DEF Agrees, Holds
<1>6. ASSUME NEW m \in Maps, row'[ip] = m
      PROVE  dev'[m][ip] # "none" \/ \E p \in Ops : Took(op'[p], ip) /\ Home(op'[p], ip) = m
  BY <1>2, <1>6 DEF Agrees, Holds
<1>7. ASSUME NEW p \in Ops
      PROVE  /\ Took(op'[p], ip) => row'[ip] = Home(op'[p], ip) /\ dev'[Home(op'[p], ip)][ip] = "none"
             /\ Claims(op'[p], ip) => row'[ip] # Home(op'[p], ip)
             /\ Saves(op'[p], ip) => row'[ip] = Home(op'[p], ip)
  BY <1>2, <1>4 DEF Agrees, Holds
<1>8. QED
  BY <1>5, <1>6, <1>7 DEF Agrees, Holds, Keeps, Took, Claims, Saves, Home

\* A request changes row and device only for a map h it is inside.  It then
\* leaves them in agreement if it does so in that map.
LEMMA Handled ==
  ASSUME IInv, NEW o \in Ops, NEW r \in Requests, Become(o, r), NEW ip \in Ips, Agrees(ip),
         NEW h \in Maps, h \in inside[o],
         \A m \in Maps \ {h} : dev'[m][ip] = dev[m][ip],
         row'[ip] = row[ip] \/ (row[ip] \in {NoMap, h} /\ row'[ip] \in {NoMap, h}),
         InHand(op[o], ip) => Home(op[o], ip) = h, InHand(r, ip) => Home(r, ip) = h,
         dev'[h][ip] # "none" => row'[ip] = h \/ Keeps(r, ip),
         row'[ip] = h => dev'[h][ip] # "none" \/ Took(r, ip),
         Took(r, ip) => row'[ip] = h /\ dev'[h][ip] = "none",
         Claims(r, ip) => row'[ip] # h,
         Saves(r, ip) => row'[ip] = h
  PROVE  Agrees(ip)'
<1>1. op' = [op EXCEPT ![o] = r] /\ op \in [Ops -> Requests]
  BY DEF Become, IInv, TypeOK
<1>2. op'[o] = r /\ \A p \in Ops : p # o => op'[p] = op[p]
  BY <1>1
<1>3. ASSUME NEW p \in Ops, p # o, InHand(op[p], ip)
      PROVE  Home(op[p], ip) \in Maps /\ Home(op[p], ip) # h
  BY <1>3, HandInside DEF IInv, LockedWell, Exclusive
<1>4. NoMap \notin Maps
  BY RegistryAssumption
<1>5. ASSUME NEW m \in Maps, dev'[m][ip] # "none"
      PROVE  row'[ip] = m \/ \E p \in Ops : Keeps(op'[p], ip) /\ Home(op'[p], ip) = m
  <2>1. CASE m = h
    BY <1>2, <1>5, <2>1 DEF InHand
  <2>2. CASE m # h
    <3>1. row[ip] = m \/ \E p \in Ops : Keeps(op[p], ip) /\ Home(op[p], ip) = m
      BY <1>5, <2>2 DEF Agrees, Holds
    <3>2. CASE row[ip] = m
      BY <1>4, <2>2, <3>2
    <3>3. ASSUME NEW p \in Ops, Keeps(op[p], ip), Home(op[p], ip) = m
          PROVE  Keeps(op'[p], ip) /\ Home(op'[p], ip) = m
      BY <1>2, <2>2, <3>3 DEF InHand
    <3>4. QED
      BY <3>1, <3>2, <3>3
  <2>3. QED
    BY <2>1, <2>2
<1>6. ASSUME NEW m \in Maps, row'[ip] = m
      PROVE  dev'[m][ip] # "none" \/ \E p \in Ops : Took(op'[p], ip) /\ Home(op'[p], ip) = m
  <2>1. CASE m = h
    BY <1>2, <1>6, <2>1 DEF InHand
  <2>2. CASE m # h
    <3>1. row[ip] = m
      BY <1>4, <1>6, <2>2
    <3>2. Holds(m, ip) \/ \E p \in Ops : Took(op[p], ip) /\ Home(op[p], ip) = m
      BY <3>1 DEF Agrees
    <3>3. ASSUME NEW p \in Ops, Took(op[p], ip), Home(op[p], ip) = m
          PROVE  Took(op'[p], ip) /\ Home(op'[p], ip) = m
      BY <1>2, <2>2, <3>3 DEF InHand
    <3>4. QED
      BY <2>2, <3>2, <3>3 DEF Holds
  <2>3. QED
    BY <2>1, <2>2
<1>7. ASSUME NEW p \in Ops
      PROVE  /\ Took(op'[p], ip) => row'[ip] = Home(op'[p], ip) /\ dev'[Home(op'[p], ip)][ip] = "none"
             /\ Claims(op'[p], ip) => row'[ip] # Home(op'[p], ip)
             /\ Saves(op'[p], ip) => row'[ip] = Home(op'[p], ip)
  <2>1. CASE p = o
    BY <1>2, <2>1 DEF InHand
  <2>2. CASE p # o
    <3>1. op'[p] = op[p]
      BY <1>2, <2>2
    <3>2. InHand(op[p], ip) => Home(op[p], ip) \in Maps \ {NoMap, h}
      BY <1>3, <1>4, <2>2
    <3>3. /\ Took(op[p], ip) => row[ip] = Home(op[p], ip) /\ dev[Home(op[p], ip)][ip] = "none"
          /\ Claims(op[p], ip) => row[ip] # Home(op[p], ip)
          /\ Saves(op[p], ip) => row[ip] = Home(op[p], ip)
      BY DEF Agrees, Holds
    <3>4. QED
      BY <3>1, <3>2, <3>3 DEF InHand
  <2>3. QED
    BY <2>1, <2>2
<1>8. QED
  BY <1>5, <1>6, <1>7 DEF Agrees, Holds, Keeps, Took, Claims, Saves, Home

\* A request that ends had nothing in hand there.
LEMMA EndAgrees ==
  ASSUME IInv, NEW o \in Ops, Become(o, Idle), NEW ip \in Ips, Agrees(ip),
         row'[ip] = row[ip], \A m \in Maps : dev'[m][ip] = dev[m][ip],
         ~ Keeps(op[o], ip), ~ Took(op[o], ip)
  PROVE  Agrees(ip)'
<1>1. ~ InHand(Idle, ip)
  BY DEF InHand, Keeps, Claims, Took, Saves, Idle, Creates
<1>2. QED
  BY <1>1, IdleType, Undisturbed DEF InHand

\* Another address is put down, or one that has left the request's hands.
LEMMA PutDownAgrees ==
  ASSUME IInv, NEW o \in Ops, PutDown(o), op[o].kind \notin Creates, NEW ip \in Ips, Agrees(ip),
         row'[ip] = row[ip], \A m \in Maps : dev'[m][ip] = dev[m][ip], ~ Took(op[o], ip)
  PROVE  Agrees(ip)'
<1> DEFINE r == [op[o] EXCEPT !.made = {}, !.pc = "working"]
<1>1. op[o] \in Requests
  BY DEF IInv, TypeOK
<1>2. r \in Requests /\ r.kind = op[o].kind /\ r.pc = "working"
  BY <1>1 DEF Requests, Phases
<1>3. Become(o, r)
  BY DEF PutDown, Become
<1> HIDE DEF r
<1>4. ~ InHand(r, ip) /\ ~ Keeps(op[o], ip)
  BY <1>2 DEF InHand, Keeps, Claims, Took, Saves
<1>5. QED
  BY <1>2, <1>3, <1>4, Undisturbed DEF InHand

\* An address is dropped: another one, or one whose device the request leaves as it was.
LEMMA DropAgrees ==
  ASSUME IInv, NEW o \in Ops, NEW i \in Ips, Drop(o, i), NEW ip \in Ips, Agrees(ip),
         row'[ip] = row[ip], \A m \in Maps : dev'[m][ip] = dev[m][ip],
         op[o].pc = "working" \/ (op[o].pc = "cleaning" /\ i # ip)
  PROVE  Agrees(ip)'
<1> DEFINE r == [op[o] EXCEPT !.todo = @ \ {i}]
<1>1. op[o] \in Requests
  BY DEF IInv, TypeOK
<1>2. /\ r \in Requests /\ r.kind = op[o].kind /\ r.pc = op[o].pc /\ r.made = op[o].made
      /\ r.map = op[o].map /\ r.seen = op[o].seen /\ r.todo = op[o].todo \ {i}
  BY <1>1 DEF Requests
<1>3. Become(o, r)
  BY DEF Drop
<1> HIDE DEF r
<1>4. Home(r, ip) = Home(op[o], ip)
  BY <1>2 DEF Home
<1>5. /\ Keeps(op[o], ip) <=> Keeps(r, ip)
      /\ Took(op[o], ip) <=> Took(r, ip)
      /\ Claims(r, ip) => Claims(op[o], ip)
      /\ ~ Saves(r, ip)
  BY <1>2 DEF Keeps, Took, Claims, Saves
<1>6. Claims(r, ip) => row[ip] # Home(r, ip)
  BY <1>4, <1>5 DEF Agrees
<1>7. QED
  BY <1>2, <1>3, <1>4, <1>5, <1>6, Undisturbed

\* New requests have nothing in hand.
LEMMA AgreeNew ==
  ASSUME IInv, NEW o \in Ops, NewRequest(o), NEW ip \in Ips, Agrees(ip)
  PROVE  Agrees(ip)'
<1>1. PICK r \in Requests : Become(o, r) /\ op[o].pc = "idle" /\ UNCHANGED stores
                          /\ r.pc \in {"checking", "locking", "snapped"}
  BY NewShape
<1>2. ~ InHand(r, ip) /\ ~ InHand(op[o], ip)
  BY <1>1 DEF InHand, Keeps, Claims, Took, Saves
<1>3. QED
  BY <1>1, <1>2, Undisturbed DEF InHand, stores

\* The marks of failures stay until somebody lists.
LEMMA StrayStays ==
  ASSUME NEW o \in Ops, op[o].pc \notin {"snapped", "pruning"}, NewRequest(o) \/ Progress(o)
  PROVE  stray \subseteq stray'
<1>1. CASE NewRequest(o)
  BY <1>1 DEF NewRequest, RequestCreate, RequestRows, RequestUpdate, ReadDevices, Unmarked
<1>2. CASE Progress(o)
  BY <1>2 DEF Progress, CheckStream, Enter, Refuse, Done, Commit, CommitUnread, CommitFails,
     ClientGone, DeleteRow, Unlist, SaveRowFails, Upsert, Prune, ListFails, MakeDevice,
     MakeDeviceFails, CleanUp, DeleteDevice, Withdraw, Recreate, SaveRow, Mark, Unmarked,
     MarkIfChanged
<1>3. QED
  BY <1>1, <1>2

\* The steps that leave the devices alone, but for those of a list.
LEMMA AgreeQuiet ==
  ASSUME IInv, StreamsFree, NEW o \in Ops, NEW ip \in Ips, ip \notin stray', Agrees(ip),
         \/ CheckStream(o) \/ Enter(o) \/ Refuse(o) \/ Done(o)
         \/ Commit(o) \/ CommitUnread(o) \/ CommitFails(o) \/ ClientGone(o)
         \/ DeleteRow(o) \/ Unlist(o) \/ SaveRowFails(o)
         \/ \E i \in Ips : SaveRow(o, i)
  PROVE  Agrees(ip)'
<1> USE DEF stores
<1>1. op[o] \in Requests /\ PhaseFits(op[o]) /\ row \in [Ips -> MapOrNone] /\ NoMap \notin Maps
  BY RegistryAssumption DEF IInv, TypeOK, LockedWell, RequestsOk
<1>2. ASSUME NEW l \in {"locking", "unlisting"}, Goto(o, l), row'[ip] = row[ip], UNCHANGED dev,
             ~ Keeps(op[o], ip), ~ Took(op[o], ip)
      PROVE  Agrees(ip)'
  <2> DEFINE r == [op[o] EXCEPT !.pc = l]
  <2>1. r \in Requests /\ r.pc = l
    BY <1>1 DEF Requests, Phases
  <2>2. Become(o, r)
    BY <1>2 DEF Goto, Become
  <2> HIDE DEF r
  <2>3. ~ InHand(r, ip)
    BY <2>1 DEF InHand, Keeps, Claims, Took, Saves
  <2>4. QED
    BY <1>2, <2>1, <2>2, <2>3, Undisturbed DEF InHand
<1>3. CASE CheckStream(o)
  <2>1. ~ Keeps(op[o], ip) /\ ~ Took(op[o], ip)
    BY <1>3 DEF CheckStream, Keeps, Took
  <2>2. QED
    BY <1>2, <1>3, <2>1, EndAgrees DEF CheckStream
<1>4. CASE Enter(o)
  <2> DEFINE r == [op[o] EXCEPT !.pc = "working"]
  <2>1. /\ r \in Requests /\ r.pc = "working" /\ r.kind = op[o].kind /\ r.todo = op[o].todo
        /\ r.made = {} /\ r.map = op[o].map /\ op[o].pc = "locking"
    BY <1>1, <1>4 DEF Enter, Requests, Phases, PhaseFits
  <2>2. Become(o, r) /\ UNCHANGED <<row, dev>>
    BY <1>4 DEF Enter, Goto, Become
  <2>3. op[o].kind \in Creates /\ ip \in op[o].todo => row[ip] = NoMap
    BY <1>4, <2>1 DEF Enter, StreamsFree, Existing, Creates, Unmarked
  <2>4. op[o].kind \in Creates => op[o].map \in Maps
    BY <2>1 DEF IInv, LockedWell, RequestsOk, Touches
  <2> HIDE DEF r
  <2>5. ~ Keeps(r, ip) /\ ~ Took(r, ip) /\ ~ Saves(r, ip) /\ ~ Keeps(op[o], ip) /\ ~ Took(op[o], ip)
    BY <2>1 DEF Keeps, Took, Saves
  <2>6. Claims(r, ip) => row[ip] # Home(r, ip)
    BY <1>1, <2>1, <2>3, <2>4, <2>5 DEF Claims, Home
  <2>7. QED
    BY <2>1, <2>2, <2>5, <2>6, Undisturbed
<1>5. CASE Refuse(o) \/ Done(o)
  <2>1. ~ Keeps(op[o], ip) /\ ~ Took(op[o], ip)
    BY <1>5 DEF Refuse, Done, Keeps, Took
  <2>2. QED
    BY <1>5, <2>1, EndAgrees DEF Refuse, Done, Finish
<1>6. CASE Commit(o)
  <2>1. Become(o, Idle) /\ UNCHANGED dev /\ ~ Took(op[o], ip)
        /\ row' = [i \in Ips |-> IF i \in op[o].made THEN op[o].map ELSE row[i]]
    BY <1>6 DEF Commit, Finish, Saving, Took
  <2>2. CASE ip \notin op[o].made
    <3>1. ~ Keeps(op[o], ip)
      BY <1>6, <2>2 DEF Commit, Saving, Keeps
    <3>2. QED
      BY <2>1, <2>2, <3>1, EndAgrees
  <2>3. CASE ip \in op[o].made
    <3>1. row[ip] = NoMap /\ row'[ip] = op[o].map /\ Home(op[o], ip) = op[o].map
      BY <1>6, <2>1, <2>3 DEF Commit, Saving, Home
    <3>2. op[o].map \in Maps /\ op[o].map \in inside[o]
      BY <1>6, <2>3, <3>1, HomeInside DEF Commit, Saving, Started
    <3>3. Holds(op[o].map, ip)
      BY <1>6, <2>3 DEF IInv, MadeIsThere, Pending, Commit, Saving
    <3>4. ~ InHand(Idle, ip)
      BY DEF InHand, Keeps, Claims, Took, Saves, Idle, Creates
    <3>5. QED
      BY <2>1, <3>1, <3>2, <3>3, <3>4, IdleType, Handled DEF InHand, Holds
  <2>4. QED
    BY <2>2, <2>3
<1>7. CASE CommitUnread(o) \/ CommitFails(o)
  <2> DEFINE r == [op[o] EXCEPT !.todo = op[o].made, !.pc = "cleaning"]
  <2>1. r \in Requests
    BY <1>1, CleaningType
  <2>2. /\ r.pc = "cleaning" /\ r.kind = op[o].kind /\ r.map = op[o].map /\ r.seen = op[o].seen
        /\ r.todo = op[o].made
    BY <1>1 DEF Requests
  <2>3. Become(o, r) /\ UNCHANGED dev /\ Saving(o)
    BY <1>7 DEF CommitUnread, CommitFails
  <2>4. row'[ip] = row[ip]
    BY <1>1, <1>7 DEF CommitUnread, CommitFails, Mark
  <2> HIDE DEF r
  <2>5. Home(r, ip) = Home(op[o], ip)
    BY <2>2 DEF Home
  <2>6. /\ Keeps(op[o], ip) <=> Keeps(r, ip)
        /\ ~ Took(r, ip) /\ ~ Took(op[o], ip) /\ ~ Saves(r, ip)
        /\ Claims(r, ip) => Claims(op[o], ip)
    BY <2>2, <2>3 DEF Saving, Keeps, Took, Saves, Claims
  <2>7. Claims(r, ip) => row[ip] # Home(r, ip)
    BY <2>5, <2>6 DEF Agrees
  <2>8. QED
    BY <2>1, <2>3, <2>4, <2>5, <2>6, <2>7, Undisturbed
<1>8. CASE ClientGone(o)
  <2>1. ~ Keeps(op[o], ip) /\ ~ Took(op[o], ip)
    BY <1>8 DEF ClientGone, Keeps, Took, Mark
  <2>2. QED
    BY <1>8, <2>1, EndAgrees DEF ClientGone, Finish
<1>9. CASE DeleteRow(o)
  <2>1. op[o].kind = "delete" /\ UNCHANGED dev /\ op[o].pc = "unrowing" /\ ~ Keeps(op[o], ip)
    BY <1>1, <1>9 DEF DeleteRow, PhaseFits, Keeps
  <2>2. CASE ip \notin op[o].made
    <3>1. row'[ip] = row[ip] /\ ~ Took(op[o], ip)
      BY <1>1, <1>9, <2>2 DEF DeleteRow, Took
    <3>2. CASE PutDown(o)
      BY <2>1, <3>1, <3>2, PutDownAgrees DEF Creates
    <3>3. CASE Goto(o, "unlisting")
      BY <1>2, <1>9, <2>1, <3>1, <3>3 DEF DeleteRow
    <3>4. QED
      BY <1>9, <3>2, <3>3 DEF DeleteRow
  <2>3. CASE ip \in op[o].made
    <3> DEFINE r == [op[o] EXCEPT !.pc = "unlisting"]
               h == Home(op[o], ip)
    <3>1. Goto(o, "unlisting") /\ row'[ip] = NoMap
      BY <1>9, <2>3 DEF DeleteRow, Mark
    <3>2. r \in Requests /\ r.pc = "unlisting"
      BY <1>1 DEF Requests, Phases
    <3>3. Become(o, r)
      BY <3>1 DEF Goto, Become
    <3>4. Took(op[o], ip)
      BY <2>1, <2>3 DEF Took
    <3>5. row[ip] = h /\ dev[h][ip] = "none"
      BY <3>4 DEF Agrees, Holds
    <3>6. h \in Maps /\ h \in inside[o]
      BY <3>4, HandInside DEF InHand
    <3> HIDE DEF r
    <3>7. ~ InHand(r, ip)
      BY <3>2 DEF InHand, Keeps, Claims, Took, Saves
    <3> HIDE DEF h
    <3>8. QED
      BY <1>1, <2>1, <3>1, <3>2, <3>3, <3>5, <3>6, <3>7, Handled DEF h, InHand
  <2>4. QED
    BY <2>2, <2>3
<1>10. CASE Unlist(o)
  <2>1. ~ Keeps(op[o], ip) /\ ~ Took(op[o], ip) /\ op[o].kind \notin Creates /\ UNCHANGED <<row, dev>>
    BY <1>1, <1>10 DEF Unlist, PhaseFits, Keeps, Took, Creates
  <2>2. QED
    BY <1>10, <2>1, PutDownAgrees, EndAgrees DEF Unlist, Finish
<1>11. CASE SaveRowFails(o)
  <2>1. ~ Keeps(op[o], ip) /\ ~ Took(op[o], ip)
    BY <1>11 DEF SaveRowFails, Keeps, Took
  <2>2. QED
    BY <1>11, <2>1, EndAgrees DEF SaveRowFails, Finish
<1>12. ASSUME NEW i \in Ips, SaveRow(o, i) PROVE Agrees(ip)'
  <2>1. ~ Keeps(op[o], ip) /\ ~ Took(op[o], ip)
    BY <1>12 DEF SaveRow, Keeps, Took
  <2>2. ip = i => row[ip] = op[o].map
    <3>1. op[o].pc = "saving" /\ i \in op[o].made /\ op[o].kind = "update"
      BY <1>1, <1>12 DEF SaveRow, PhaseFits
    <3>2. QED
      BY <3>1 DEF Agrees, Saves, Home
  <2>3. row'[ip] = row[ip]
    BY <1>1, <1>12, <2>2 DEF SaveRow
  <2>4. QED
    BY <1>12, <2>1, <2>3, EndAgrees DEF SaveRow, Finish
<1>13. QED
  BY <1>3, <1>4, <1>5, <1>6, <1>7, <1>8, <1>9, <1>10, <1>11, <1>12

\* A command changes one device only.
LEMMA OneDevice ==
  ASSUME dev \in [Maps -> [Ips -> Templates \cup {"none"}]],
         NEW m \in Maps, NEW i \in Ips, NEW t \in Templates
  PROVE  /\ CreateOk(m, i, t) \/ CreateFails(m, i, t) \/ DeleteOk(m, i) \/ DeleteFails(m, i) =>
              \A n \in Maps, j \in Ips : n # m \/ j # i => dev'[n][j] = dev[n][j]
         /\ CreateOk(m, i, t) => dev'[m][i] # "none"
         /\ DeleteOk(m, i) => Holds(m, i) /\ dev'[m][i] = "none"
  BY DEF CreateOk, CreateFails, DeleteOk, DeleteFails, Holds, Templates

\* The steps that give a command on the device of an address.
LEMMA AgreeDevice ==
  ASSUME IInv, NEW o \in Ops, NEW ip \in Ips, ip \notin stray', Agrees(ip), NEW i \in Ips,
         \/ MakeDevice(o, i) \/ MakeDeviceFails(o, i) \/ CleanUp(o, i)
         \/ DeleteDevice(o, i) \/ Withdraw(o, i) \/ Recreate(o, i)
  PROVE  Agrees(ip)'
<1> DEFINE h == Home(op[o], i)
           tpl == op[o].tpl
<1>1. /\ op[o] \in Requests /\ PhaseFits(op[o]) /\ NoMap \notin Maps
      /\ dev \in [Maps -> [Ips -> Templates \cup {"none"}]]
      /\ tpl \in Templates
  BY RegistryAssumption DEF IInv, TypeOK, LockedWell, RequestsOk, Requests
<1>2. op[o].pc \in Started /\ i \in op[o].todo \cup op[o].made /\ UNCHANGED row
  BY DEF MakeDevice, MakeDeviceFails, CleanUp, DeleteDevice, Withdraw, Recreate, Next1, Started
<1>3. h \in Maps /\ h \in inside[o]
  BY <1>2, HomeInside
<1>4. /\ op[o].kind \in Creates => h = op[o].map
      /\ op[o].kind = "delete" => h = op[o].seen[i]
      /\ op[o].kind \in {"update", "fields"} => h = UpdatedMap(o, i)
  BY DEF Home, UpdatedMap, Creates
<1> HIDE DEF h, tpl
<1>5. \A n \in Maps, j \in Ips : n # h \/ j # i => dev'[n][j] = dev[n][j]
  <2>1. \/ CreateOk(h, i, tpl) \/ CreateFails(h, i, tpl) \/ DeleteOk(h, i) \/ DeleteFails(h, i)
    BY <1>1, <1>4 DEF MakeDevice, MakeDeviceFails, CleanUp, DeleteDevice, Withdraw, Recreate,
       PhaseFits, tpl
  <2>2. QED
    BY <1>1, <1>3, <2>1, OneDevice
<1>6. ASSUME Drop(o, i), op[o].pc = "working" \/ (op[o].pc = "cleaning" /\ i # ip), i # ip \/ dev' = dev
      PROVE  Agrees(ip)'
  <2>1. \A m \in Maps : dev'[m][ip] = dev[m][ip]
    BY <1>5, <1>6
  <2>2. QED
    BY <1>2, <1>6, <2>1, DropAgrees
\* The device is withdrawn, for good or to be created again.
<1>7. ASSUME NEW r \in Requests, Become(o, r), DeleteOk(h, i), op[o].kind \notin Creates,
             op[o].pc = "working", r.pc \in {"unrowing", "creating"}, r.made = {i},
             r.kind = op[o].kind, r.map = op[o].map, r.seen = op[o].seen
      PROVE  Agrees(ip)'
  <2>1. ~ InHand(op[o], ip)
    BY <1>7 DEF InHand, Keeps, Claims, Took, Saves
  <2>2. ~ Keeps(r, ip) /\ ~ Claims(r, ip) /\ ~ Saves(r, ip) /\ (Took(r, ip) <=> ip = i)
    BY <1>7 DEF Keeps, Claims, Took, Saves
  <2>3. CASE ip # i
    <3>1. \A m \in Maps : dev'[m][ip] = dev[m][ip]
      BY <1>5, <2>3
    <3>2. QED
      BY <1>2, <1>7, <2>1, <2>2, <2>3, <3>1, Undisturbed DEF InHand
  <2>4. CASE ip = i
    <3>1. Holds(h, ip) /\ dev'[h][ip] = "none"
      BY <1>1, <1>3, <1>7, <2>4, OneDevice
    <3>2. \A p \in Ops : Keeps(op[p], ip) => Home(op[p], ip) # h
      BY <1>3, <2>1, HandInside DEF InHand, IInv, LockedWell, Exclusive
    <3>3. row[ip] = h
      BY <1>3, <3>1, <3>2 DEF Agrees
    <3>4. Home(r, ip) = h
      BY <1>7, <2>4 DEF h, Home
    <3>5. \A m \in Maps \ {h} : dev'[m][ip] = dev[m][ip]
      BY <1>5
    <3>6. row'[ip] = row[ip]
      BY <1>2
    <3>7. QED
      BY <1>3, <1>7, <2>1, <2>2, <2>4, <3>1, <3>3, <3>4, <3>5, <3>6, Handled DEF InHand
  <2>5. QED
    BY <2>3, <2>4
<1>8. CASE MakeDevice(o, i)
  <2> DEFINE r == [op[o] EXCEPT !.todo = @ \ {i}, !.made = @ \cup {i}]
  <2>1. op[o].kind \in Creates /\ op[o].pc = "working" /\ i \in op[o].todo /\ CreateOk(h, i, tpl)
    BY <1>4, <1>8 DEF MakeDevice, Next1, tpl
  <2>2. /\ r \in Requests /\ r.kind = op[o].kind /\ r.map = op[o].map /\ r.seen = op[o].seen
        /\ r.pc = op[o].pc /\ r.made = op[o].made \cup {i} /\ r.todo = op[o].todo \ {i}
    BY <1>1 DEF Requests
  <2>3. Become(o, r)
    BY <1>8 DEF MakeDevice
  <2> HIDE DEF r
  <2>4. /\ Claims(r, ip) <=> Claims(op[o], ip)
        /\ ~ Took(r, ip) /\ ~ Took(op[o], ip) /\ ~ Saves(r, ip) /\ ~ Saves(op[o], ip)
        /\ Home(r, ip) = Home(op[o], ip) /\ Home(r, ip) = h
    BY <1>4, <2>1, <2>2 DEF Keeps, Claims, Took, Saves, Home
  <2>5. Claims(op[o], ip) => row[ip] # h
    BY <2>4 DEF Agrees
  <2>6. CASE ip # i
    <3>1. \A m \in Maps : dev'[m][ip] = dev[m][ip]
      BY <1>5, <2>6
    <3>2. Keeps(r, ip) <=> Keeps(op[o], ip)
      BY <2>1, <2>2, <2>6 DEF Keeps
    <3>3. QED
      BY <1>2, <2>2, <2>3, <2>4, <2>5, <3>1, <3>2, Undisturbed
  <2>7. CASE ip = i
    <3>1. dev'[h][ip] # "none"
      BY <1>1, <1>3, <2>1, <2>7, OneDevice
    <3>2. Keeps(r, ip) /\ Claims(op[o], ip)
      BY <2>1, <2>2, <2>7 DEF Keeps, Claims
    <3>3. \A m \in Maps \ {h} : dev'[m][ip] = dev[m][ip]
      BY <1>5
    <3>4. row'[ip] = row[ip]
      BY <1>2
    <3>5. QED
      BY <1>3, <2>2, <2>3, <2>4, <2>5, <3>1, <3>2, <3>3, <3>4, Handled DEF InHand
  <2>8. QED
    BY <2>6, <2>7
<1>9. CASE MakeDeviceFails(o, i)
  <2>1. Drop(o, i) /\ op[o].pc = "working" /\ (i # ip \/ dev' = dev)
    BY <1>9 DEF MakeDeviceFails, Next1, MarkIfChanged, Mark
  <2>2. QED
    BY <1>6, <2>1
<1>10. CASE CleanUp(o, i)
  <2>1. /\ op[o].pc = "cleaning" /\ i \in op[o].todo /\ op[o].kind \in Creates
        /\ IF op[o].todo = {i} THEN Finish(o) ELSE Drop(o, i)
    BY <1>1, <1>10 DEF CleanUp, PhaseFits
  <2>2. CASE ip # i
    <3>1. \A m \in Maps : dev'[m][ip] = dev[m][ip]
      BY <1>5, <2>2
    <3>2. op[o].todo = {i} => ~ Keeps(op[o], ip) /\ ~ Took(op[o], ip)
      BY <2>1, <2>2 DEF Keeps, Took
    <3>3. QED
      BY <1>2, <1>6, <2>1, <2>2, <3>1, <3>2, EndAgrees DEF Finish
  <2>3. CASE ip = i
    <3>1. dev'[h][ip] = "none" /\ \A m \in Maps \ {h} : dev'[m][ip] = dev[m][ip]
      BY <1>4, <1>5, <1>10, <2>1, <2>3 DEF CleanUp, Mark
    <3>2. Keeps(op[o], ip) /\ Claims(op[o], ip) /\ Home(op[o], ip) = h
      BY <2>1, <2>3 DEF Keeps, Claims, h
    <3>3. row[ip] # h
      BY <3>2 DEF Agrees
    <3>4. row'[ip] = row[ip]
      BY <1>2
    <3>5. ASSUME NEW r \in Requests, Become(o, r), ~ InHand(r, ip)
          PROVE  Agrees(ip)'
      BY <1>3, <3>1, <3>2, <3>3, <3>4, <3>5, Handled DEF InHand
    <3>6. CASE Finish(o)
      <4>1. ~ InHand(Idle, ip)
        BY DEF InHand, Keeps, Claims, Took, Saves, Idle, Creates
      <4>2. QED
        BY <3>5, <3>6, <4>1, IdleType DEF Finish
    <3>7. CASE Drop(o, i)
      <4> DEFINE r == [op[o] EXCEPT !.todo = @ \ {i}]
      <4>1. r \in Requests /\ r.pc = "cleaning" /\ i \notin r.todo
        BY <1>1, <2>1 DEF Requests
      <4>2. Become(o, r)
        BY <3>7 DEF Drop
      <4> HIDE DEF r
      <4>3. ~ InHand(r, ip)
        BY <2>3, <4>1 DEF InHand, Keeps, Claims, Took, Saves
      <4>4. QED
        BY <3>5, <4>1, <4>2, <4>3
    <3>8. QED
      BY <2>1, <3>6, <3>7
  <2>4. QED
    BY <2>2, <2>3
<1>11. CASE DeleteDevice(o, i)
  <2>1. op[o].kind = "delete" /\ op[o].pc = "working" /\ op[o].kind \notin Creates
    BY <1>11 DEF DeleteDevice, Next1, Creates
  <2>2. CASE DeleteOk(h, i) /\ Take(o, i, "unrowing")
    <3> DEFINE r == [op[o] EXCEPT !.todo = @ \ {i}, !.made = {i}, !.pc = "unrowing"]
    <3>1. r \in Requests /\ r.kind = op[o].kind /\ r.map = op[o].map /\ r.seen = op[o].seen
          /\ r.made = {i} /\ r.pc = "unrowing"
      BY <1>1 DEF Requests, Phases
    <3>2. Become(o, r)
      BY <2>2 DEF Take
    <3> HIDE DEF r
    <3>3. QED
      BY <1>7, <2>1, <2>2, <3>1, <3>2
  <2>3. CASE Drop(o, i) /\ MarkIfChanged(i)
    <3>1. i # ip \/ dev' = dev
      BY <2>3 DEF MarkIfChanged, Mark
    <3>2. QED
      BY <1>6, <2>1, <2>3, <3>1
  <2>4. QED
    BY <1>4, <1>11, <2>1, <2>2, <2>3 DEF DeleteDevice
<1>12. CASE Withdraw(o, i)
  <2> DEFINE t == IF op[o].kind = "update" THEN op[o].tpl ELSE dev[h][i]
             r == [op[o] EXCEPT !.todo = @ \ {i}, !.made = {i}, !.pc = "creating", !.tpl = t]
  <2>1. op[o].kind \in {"update", "fields"} /\ op[o].pc = "working" /\ op[o].kind \notin Creates
    BY <1>12 DEF Withdraw, Next1, Creates
  <2>2. \/ DeleteOk(h, i) /\ Become(o, r)
        \/ Drop(o, i) /\ MarkIfChanged(i)
    BY <1>4, <1>12, <2>1 DEF Withdraw
  <2>3. CASE DeleteOk(h, i) /\ Become(o, r)
    <3>1. t \in Templates
      BY <1>1, <1>3, <2>3 DEF DeleteOk, Requests
    <3> HIDE DEF t
    <3>2. r \in Requests /\ r.kind = op[o].kind /\ r.map = op[o].map /\ r.seen = op[o].seen
          /\ r.made = {i} /\ r.pc = "creating"
      BY <1>1, <3>1 DEF Requests, Phases
    <3> HIDE DEF r
    <3>3. QED
      BY <1>7, <2>1, <2>3, <3>2
  <2>4. CASE Drop(o, i) /\ MarkIfChanged(i)
    <3>1. i # ip \/ dev' = dev
      BY <2>4 DEF MarkIfChanged, Mark
    <3>2. QED
      BY <1>6, <2>1, <2>4, <3>1
  <2>5. QED
    BY <2>2, <2>3, <2>4
<1>13. CASE Recreate(o, i)
  <2>1. /\ op[o].pc = "creating" /\ op[o].kind \in {"update", "fields"} /\ op[o].kind \notin Creates
        /\ i \in op[o].made /\ op[o].made = {i}
    BY <1>1, <1>13 DEF Recreate, PhaseFits, Creates
  <2>2. Took(op[o], i) /\ ~ Keeps(op[o], ip) /\ (Took(op[o], ip) <=> ip = i)
    BY <2>1 DEF Took, Keeps
  <2>3. \/ CreateOk(h, i, tpl) /\ (PutDown(o) \/ (op[o].kind = "update" /\ Goto(o, "saving")))
        \/ PutDown(o) /\ ip # i
    BY <1>4, <1>13, <2>1 DEF Recreate, Mark, tpl
  <2>4. row'[ip] = row[ip] /\ \A m \in Maps \ {h} : dev'[m][ip] = dev[m][ip]
    BY <1>2, <1>5
  <2>5. ip # i => \A m \in Maps : dev'[m][ip] = dev[m][ip]
    BY <1>5
  <2>6. ip = i => row[ip] = h
    BY <2>2 DEF Agrees, h
  <2>7. ASSUME NEW r \in Requests, Become(o, r), ~ Keeps(r, ip), ~ Claims(r, ip), ~ Took(r, ip),
               CreateOk(h, i, tpl), Saves(r, ip) => ip = i /\ Home(r, ip) = h
        PROVE  Agrees(ip)'
    <3>1. CASE ip # i
      BY <2>2, <2>4, <2>5, <2>7, <3>1, Undisturbed
    <3>2. CASE ip = i
      <4>1. dev'[h][ip] # "none"
        BY <1>1, <1>3, <2>7, <3>2, OneDevice
      <4>2. InHand(op[o], ip) => Home(op[o], ip) = h
        BY <3>2 DEF h
      <4>3. QED
        BY <1>3, <2>4, <2>6, <2>7, <3>2, <4>1, <4>2, Handled DEF InHand
    <3>3. QED
      BY <3>1, <3>2
  <2>8. CASE PutDown(o) /\ ip # i
    BY <2>1, <2>2, <2>4, <2>5, <2>8, PutDownAgrees
  <2>9. CASE CreateOk(h, i, tpl) /\ PutDown(o)
    <3> DEFINE r == [op[o] EXCEPT !.made = {}, !.pc = "working"]
    <3>1. r \in Requests /\ r.kind = op[o].kind /\ r.pc = "working"
      BY <1>1 DEF Requests, Phases
    <3>2. Become(o, r)
      BY <2>9 DEF PutDown
    <3> HIDE DEF r
    <3>3. ~ Keeps(r, ip) /\ ~ Claims(r, ip) /\ ~ Took(r, ip) /\ ~ Saves(r, ip)
      BY <2>1, <3>1 DEF Keeps, Claims, Took, Saves
    <3>4. QED
      BY <2>7, <2>9, <3>1, <3>2, <3>3
  <2>10. CASE CreateOk(h, i, tpl) /\ op[o].kind = "update" /\ Goto(o, "saving")
    <3> DEFINE r == [op[o] EXCEPT !.pc = "saving"]
    <3>1. r \in Requests /\ r.pc = "saving" /\ r.made = {i} /\ r.kind = op[o].kind /\ r.map = op[o].map
      BY <1>1, <2>1 DEF Requests, Phases
    <3>2. Become(o, r)
      BY <2>10 DEF Goto, Become
    <3> HIDE DEF r
    <3>3. ~ Keeps(r, ip) /\ ~ Claims(r, ip) /\ ~ Took(r, ip) /\ (Saves(r, ip) => ip = i)
      BY <2>1, <3>1 DEF Keeps, Claims, Took, Saves
    <3>4. Home(r, ip) = h
      BY <2>10, <3>1 DEF Home, h
    <3>5. QED
      BY <2>7, <2>10, <3>1, <3>2, <3>3, <3>4
  <2>11. QED
    BY <2>3, <2>8, <2>9, <2>10
<1>14. QED
  BY <1>8, <1>9, <1>10, <1>11, <1>12, <1>13

\* A list that runs alone writes the rows that are there, and deletes others.
LEMMA AgreeList ==
  ASSUME IInv, ListsAlone, Snapshots, NEW o \in Ops, op[o].kind = "list", NewRequest(o) \/ Progress(o),
         NEW ip \in Ips, ip \notin stray', ip \notin stray => Agrees(ip)
  PROVE  Agrees(ip)'
<1>1. /\ op[o] \in Requests /\ op \in [Ops -> Requests] /\ row \in [Ips -> MapOrNone]
      /\ op[o].pc \in {"snapped", "pruning"} /\ NoMap \notin Maps /\ Idle \in Requests
      /\ op[o].seen[ip] \in MapOrNone
  BY RegistryAssumption, IdleType DEF IInv, TypeOK, LockedWell, RequestsOk, PhaseFits, Requests
\* There is nothing in hand.
<1>2. \A p \in Ops : ~ InHand(op[p], ip)
  <2>1. \A p \in Ops : p # o => op[p].pc = "idle"
    BY DEF ListsAlone
  <2>2. QED
    BY <1>1, <2>1 DEF InHand, Keeps, Claims, Took, Saves
<1>3. ~ InHand(Idle, ip)
  BY DEF InHand, Keeps, Claims, Took, Saves, Idle, Creates
<1>4. CASE Upsert(o)
  <2> DEFINE r == [op[o] EXCEPT !.pc = "pruning"]
  <2>1. r \in Requests /\ r.pc = "pruning" /\ Become(o, r)
    BY <1>1, <1>4 DEF Upsert, Goto, Become, Requests, Phases
  <2> HIDE DEF r
  <2>2. ~ InHand(r, ip)
    BY <2>1 DEF InHand, Keeps, Claims, Took, Saves
  <2>3. Agrees(ip) /\ UNCHANGED dev
    BY <1>4 DEF Upsert, Unmarked
  <2>4. row'[ip] = row[ip]
    <3>1. ASSUME op[o].seen[ip] # NoMap PROVE row[ip] = op[o].seen[ip]
      <4>1. Holds(op[o].seen[ip], ip) /\ op[o].seen[ip] \in Maps
        BY <1>1, <3>1 DEF Snapshots, MapOrNone
      <4>2. QED
        BY <1>2, <2>3, <4>1 DEF Agrees, InHand
    <3>2. QED
      BY <1>4, <3>1 DEF Upsert
  <2>5. QED
    BY <1>2, <2>1, <2>2, <2>3, <2>4, Undisturbed DEF InHand
<1>5. CASE ListFails(o)
  BY <1>1, <1>2, <1>3, <1>5, Undisturbed DEF ListFails, InHand, Unmarked, stores
<1>6. CASE Prune(o)
  <2>1. /\ op[o].pc = "pruning" /\ ip \notin op[o].made /\ UNCHANGED dev
        /\ row'[ip] = IF op[o].seen[ip] = NoMap THEN NoMap ELSE row[ip]
    BY <1>6 DEF Prune
  <2>2. \A m \in Maps : Holds(m, ip) <=> op[o].seen[ip] = m
    BY <2>1 DEF Snapshots
  <2>3. row'[ip] = op[o].seen[ip]
    BY <1>1, <2>1 DEF Snapshots
  <2>4. \A p \in Ops : ~ InHand(op'[p], ip)
    BY <1>1, <1>2, <1>3, <1>6 DEF Prune, Become
  <2>5. \A p \in Ops : ~ Keeps(op'[p], ip) /\ ~ Claims(op'[p], ip) /\ ~ Took(op'[p], ip) /\ ~ Saves(op'[p], ip)
    BY <2>4 DEF InHand
  <2>6. \A m \in Maps : dev'[m][ip] # "none" <=> row'[ip] = m
    BY <2>1, <2>2, <2>3 DEF Holds
  <2>7. QED
    BY <2>5, <2>6 DEF Agrees, Holds, Keeps, Claims, Took, Saves, Home
<1>7. QED
  BY <1>4, <1>5, <1>6, ListSteps

\* Every step keeps the stores in agreement as long as streaming creates find
\* no rows in the end, and lists run alone.
LEMMA AgreeNext ==
  IInv /\ ListsAlone /\ Snapshots /\ StreamsFree /\ AgreeInv /\ [Next]_vars => AgreeInv'
<1> SUFFICES ASSUME IInv, ListsAlone, Snapshots, StreamsFree, AgreeInv, [Next]_vars, NEW ip \in Ips, ip \notin stray'
             PROVE  Agrees(ip)'
  BY DEF AgreeInv
<1>1. CASE UNCHANGED vars
  BY <1>1 DEF vars, AgreeInv, Agrees, Holds
<1>2. CASE Crash
  <2>1. ip \notin stray /\ ~ Busy(ip) /\ UNCHANGED stores /\ op' = [o \in Ops |-> Idle]
    BY <1>2 DEF Crash, Mark
  <2>2. \A o \in Ops : op[o].pc \in {"snapped", "pruning"} <=> op[o].kind = "list"
    BY DEF IInv, LockedWell, RequestsOk, PhaseFits
  <2>3. \A o \in Ops : ~ Keeps(op[o], ip) /\ ~ Took(op[o], ip)
    BY <2>1, <2>2 DEF Busy, Working, Keeps, Took
  <2>4. ~ InHand(Idle, ip)
    BY DEF InHand, Keeps, Claims, Took, Saves, Idle, Creates
  <2>5. \A o \in Ops : ~ Keeps(op'[o], ip) /\ ~ Claims(op'[o], ip) /\ ~ Took(op'[o], ip) /\ ~ Saves(op'[o], ip)
    BY <2>1, <2>4 DEF InHand
  <2>6. \A m \in Maps : dev'[m][ip] # "none" <=> row'[ip] = m
    BY <2>1, <2>3 DEF AgreeInv, Agrees, Holds, stores
  <2>7. QED
    BY <2>5, <2>6 DEF Agrees, Holds, Keeps, Claims, Took, Saves, Home
<1>3. ASSUME NEW o \in Ops, NewRequest(o) \/ Progress(o), op[o].kind = "list" PROVE Agrees(ip)'
  BY <1>3, AgreeList DEF AgreeInv
<1>4. ASSUME NEW o \in Ops, NewRequest(o) \/ Progress(o), op[o].kind # "list" PROVE Agrees(ip)'
  <2>1. op[o].pc \notin {"snapped", "pruning"}
    BY <1>4 DEF IInv, LockedWell, RequestsOk, PhaseFits
  <2>2. Agrees(ip)
    BY <1>4, <2>1, StrayStays DEF AgreeInv
  <2>3. ~ Upsert(o) /\ ~ Prune(o) /\ ~ ListFails(o)
    BY <2>1 DEF Upsert, Prune, ListFails
  <2>4. QED
    BY <1>4, <2>2, <2>3, AgreeNew, AgreeQuiet, AgreeDevice DEF Progress
<1>5. QED
  BY <1>1, <1>2, <1>3, <1>4 DEF Next

\* There are no devices and no rows at first.
LEMMA AgreeInit == Init => AgreeInv
<1> SUFFICES ASSUME Init, NEW ip \in Ips PROVE Agrees(ip)
  BY DEF AgreeInv
<1>1. \A o \in Ops : ~ InHand(op[o], ip)
  BY DEF Init, InHand, Keeps, Claims, Took, Saves, Idle, Creates
<1>2. QED
  BY <1>1, RegistryAssumption DEF Init, Agrees, Holds, Nowhere, InHand

\* Where nothing is in hand, the agreement is complete.
LEMMA AgreeImplies ==
  ASSUME IInv, AgreeInv
  PROVE  StoresAgree
<1> SUFFICES ASSUME NEW ip \in Ips, ~ Busy(ip), ip \notin stray
             PROVE  IF \E m \in Maps : Holds(m, ip) THEN row[ip] # NoMap /\ Holds(row[ip], ip)
                                                    ELSE row[ip] = NoMap
  BY DEF StoresAgree
<1>1. \A o \in Ops : op[o].pc \in {"snapped", "pruning"} <=> op[o].kind = "list"
  BY DEF IInv, LockedWell, RequestsOk, PhaseFits
<1>2. \A o \in Ops : ~ Keeps(op[o], ip) /\ ~ Took(op[o], ip)
  BY <1>1 DEF Busy, Working, Keeps, Took
<1>3. \A m \in Maps : Holds(m, ip) <=> row[ip] = m
  BY <1>2 DEF AgreeInv, Agrees
<1>4. row[ip] \in Maps \cup {NoMap} /\ NoMap \notin Maps
  BY RegistryAssumption DEF IInv, TypeOK, MapOrNone
<1>5. QED
  BY <1>3, <1>4

\* Streaming creates look for rows before they take their map.  As long as
\* none of them would find one later either, and nothing runs beside a list, a
\* simulator that no request works on and no failure left at odds has a row
\* exactly if it has a device, in the map its row names.
THEOREM StoresAgreeIfStreamsFree ==
  Spec /\ []ListsAlone /\ []StreamsFree => []StoresAgree
<1>1. IInv /\ AgreeInv => StoresAgree
  BY AgreeImplies
<1>2. QED
  BY <1>1, InvInit, InvNext, SnapshotsInit, SnapshotsNext, AgreeInit, AgreeNext, PTL DEF Spec

\* Without streams and lists that is so whatever the requests, the failures and
\* the crashes, in any number and order: creates, deletes and updates look at
\* the table, or at the device, when they are inside the map.
THEOREM StoresAgreeHolds ==
  ASSUME "list" \notin Kinds, "stream" \notin Kinds
  PROVE  Spec => []StoresAgree
<1>1. IInv => ListsAlone /\ StreamsFree
  BY NoLists DEF IInv, LockedWell, RequestsOk, PhaseFits, StreamsFree
<1>2. QED
  BY <1>1, StoresAgreeIfStreamsFree, InvInit, InvNext, PTL DEF Spec

-----------------------------------------------------------------------------
(***************************************************************************)
(* Devices and listeners.                                                  *)
(***************************************************************************)

\* The addresses of a request, and that no two requests in progress share one.
Named(r) == r.todo \cup r.made
AddressesApart == \A o, p \in Ops : o # p => Named(op[o]) \cap Named(op[p]) = {}

\* A device that its request has made with the new template, and has yet to register.
Fresh(r, ip) == (r.kind = "single" /\ Keeps(r, ip)) \/ Saves(r, ip)

\* Where requests count on there being no row: a create has looked, a delete
\* has just deleted it.
NeedsNoRow(r, ip) ==
  \/ Claims(r, ip)
  \/ r.kind = "stream" /\ r.pc = "locking" /\ ip \in r.todo
  \/ r.pc = "unlisting" /\ ip \in r.made

RowsFree == \A o \in Ops : \A ip \in Ips \ stray : NeedsNoRow(op[o], ip) => row[ip] = NoMap

\* The listener is there for every device without SOAP: also for one that update-
\* fields is about to put back, but not for a fresh one, whose template its
\* request knows and registers.
Served(ip) ==
  /\ (\A o \in Ops : ~ Fresh(op[o], ip)) => \A m \in Maps : dev[m][ip] = "bare" => ip \in ear
  /\ \A o \in Ops :
       /\ Took(op[o], ip) /\ op[o].kind = "fields" /\ op[o].tpl = "bare" => ip \in ear
       /\ Fresh(op[o], ip) => dev[op[o].map][ip] = op[o].tpl

ServedInv == RowsFree /\ \A ip \in Ips \ (stray \cup mute) : Served(ip)

-----------------------------------------------------------------------------
\* A step changes the rows of addresses only that its request is at work on.
LEMMA RowStep ==
  ASSUME IInv, NEW o \in Ops, op[o].kind # "list", NewRequest(o) \/ Progress(o),
         NEW ip \in Ips, row'[ip] # row[ip]
  PROVE  ip \in op[o].made
<1>1. row \in [Ips -> MapOrNone] /\ op[o].pc \notin {"snapped", "pruning"}
  BY DEF IInv, TypeOK, LockedWell, RequestsOk, PhaseFits
<1>2. ~ NewRequest(o)
  BY DEF NewRequest, RequestCreate, RequestRows, RequestUpdate, ReadDevices, stores
<1>3. \/ Commit(o) \/ CommitUnread(o) \/ DeleteRow(o)
      \/ \E i \in Ips : SaveRow(o, i)
  BY <1>1, <1>2
     DEF Progress, CheckStream, Enter, Refuse, Done, CommitFails, ClientGone, Unlist,
         SaveRowFails, Upsert, Prune, ListFails, MakeDevice, MakeDeviceFails, CleanUp,
         DeleteDevice, Withdraw, Recreate, stores
<1>4. QED
  BY <1>1, <1>3 DEF Commit, CommitUnread, DeleteRow, SaveRow

\* The request itself counts on no row only where it has looked, or has deleted it.
LEMMA OwnRowFree ==
  ASSUME IInv, NEW o \in Ops, op[o].kind # "list", NewRequest(o) \/ Progress(o),
         NEW ip \in Ips, ip \notin stray', NeedsNoRow(op'[o], ip),
         NeedsNoRow(op[o], ip) => row[ip] = NoMap
  PROVE  row'[ip] = NoMap
<1>1. /\ op[o] \in Requests /\ PhaseFits(op[o]) /\ op \in [Ops -> Requests]
      /\ op[o].pc \notin {"snapped", "pruning"} /\ row \in [Ips -> MapOrNone]
  BY DEF IInv, TypeOK, LockedWell, RequestsOk, PhaseFits
<1> USE DEF stores
<1>2. ASSUME Become(o, Idle) PROVE FALSE
  BY <1>1, <1>2 DEF Become, NeedsNoRow, Keeps, Claims, Idle, Creates
<1>3. ASSUME PutDown(o), op[o].kind \notin Creates PROVE FALSE
  BY <1>1, <1>3 DEF PutDown, Become, NeedsNoRow, Keeps, Claims, Requests
<1>4. ASSUME UNCHANGED row, NeedsNoRow(op[o], ip) PROVE row'[ip] = NoMap
  BY <1>4
<1>5. ASSUME NEW i \in Ips, Drop(o, i) PROVE NeedsNoRow(op[o], ip)
  <2>1. /\ op'[o].kind = op[o].kind /\ op'[o].pc = op[o].pc /\ op'[o].made = op[o].made
        /\ op'[o].todo = op[o].todo \ {i}
    BY <1>1, <1>5 DEF Drop, Become, Requests
  <2>2. QED
    BY <2>1 DEF NeedsNoRow, Keeps, Claims
<1>6. CASE NewRequest(o)
  <2>1. PICK r \in Requests : /\ Become(o, r) /\ r.pc \in {"checking", "locking", "snapped"}
                             /\ (r.kind = "stream" => r.pc = "checking")
    BY <1>6, NewShape
  <2>2. op'[o] = r
    BY <1>1, <2>1 DEF Become
  <2>3. QED
    BY <2>1, <2>2 DEF NeedsNoRow, Keeps, Claims
<1>7. CASE CheckStream(o)
  <2>1. Goto(o, "locking") /\ ~ Existing(o) /\ UNCHANGED row
    BY <1>2, <1>7 DEF CheckStream
  <2>2. op'[o].pc = "locking" /\ op'[o].todo = op[o].todo
    BY <1>1, <2>1 DEF Goto, Requests
  <2>3. QED
    BY <2>1, <2>2 DEF Existing, NeedsNoRow, Keeps, Claims
<1>8. CASE Enter(o)
  <2>1. op[o].pc = "locking" /\ UNCHANGED row /\ (op[o].kind \in {"single", "range"} => ~ Existing(o))
    BY <1>8 DEF Enter
  <2>2. op'[o].pc = "working" /\ op'[o].todo = op[o].todo /\ op'[o].kind = op[o].kind /\ op'[o].made = {}
    BY <1>1, <1>8 DEF Enter, Goto, Requests, PhaseFits
  <2>3. QED
    BY <2>1, <2>2 DEF Existing, NeedsNoRow, Keeps, Claims, Creates
<1>9. CASE CommitUnread(o) \/ CommitFails(o)
  <2>1. op'[o] = [op[o] EXCEPT !.todo = op[o].made, !.pc = "cleaning"] /\ Saving(o)
    BY <1>1, <1>9 DEF CommitUnread, CommitFails, Become
  <2>2. op'[o].pc = "cleaning" /\ op'[o].todo = op[o].made /\ op'[o].kind = op[o].kind
    BY <1>1, <2>1 DEF Requests
  <2>3. ip \in op[o].made /\ NeedsNoRow(op[o], ip)
    BY <2>1, <2>2 DEF Saving, NeedsNoRow, Keeps, Claims
  <2>4. QED
    BY <1>4, <1>9, <2>3 DEF CommitUnread, CommitFails, Mark
<1>10. CASE DeleteRow(o)
  <2>1. op[o].kind \notin Creates
    BY <1>1, <1>10 DEF DeleteRow, PhaseFits, Creates
  <2>2. Goto(o, "unlisting") /\ row' = [i \in Ips |-> IF i \in op[o].made THEN NoMap ELSE row[i]]
    BY <1>3, <1>10, <2>1 DEF DeleteRow
  <2>3. op'[o].pc = "unlisting" /\ op'[o].made = op[o].made
    BY <1>1, <2>2 DEF Goto, Requests
  <2>4. QED
    BY <2>2, <2>3 DEF NeedsNoRow, Keeps, Claims
<1>11. CASE Unlist(o)
  BY <1>1, <1>2, <1>3, <1>11 DEF Unlist, PhaseFits, Creates, Finish
<1>12. CASE Refuse(o) \/ Done(o) \/ Commit(o) \/ ClientGone(o) \/ SaveRowFails(o)
            \/ \E i \in Ips : SaveRow(o, i)
  BY <1>2, <1>12 DEF Refuse, Done, Commit, ClientGone, SaveRowFails, SaveRow, Finish
<1>13. CASE \E i \in Ips : MakeDevice(o, i)
  <2>1. PICK i \in Ips : MakeDevice(o, i)
    BY <1>13
  <2>2. /\ op[o].pc = "working" /\ op[o].kind \in Creates /\ i \in op[o].todo /\ UNCHANGED row
        /\ op'[o] = [op[o] EXCEPT !.todo = @ \ {i}, !.made = @ \cup {i}]
    BY <1>1, <2>1 DEF MakeDevice, Next1, Become
  <2>3. op'[o].pc = "working" /\ op'[o].kind = op[o].kind
        /\ op'[o].todo \cup op'[o].made \subseteq op[o].todo \cup op[o].made
    BY <1>1, <2>2 DEF Requests
  <2>4. NeedsNoRow(op[o], ip)
    BY <2>2, <2>3 DEF NeedsNoRow, Keeps, Claims
  <2>5. QED
    BY <1>4, <2>2, <2>4
<1>14. CASE \E i \in Ips : MakeDeviceFails(o, i) \/ CleanUp(o, i)
  BY <1>2, <1>4, <1>5, <1>14 DEF MakeDeviceFails, CleanUp, Finish
<1>15. CASE \E i \in Ips : DeleteDevice(o, i) \/ Withdraw(o, i)
  <2>1. PICK i \in Ips : DeleteDevice(o, i) \/ Withdraw(o, i)
    BY <1>15
  <2>2. op'[o].pc \in {"unrowing", "creating"} \/ Drop(o, i)
    <3>1. ASSUME NEW l \in {"unrowing", "creating"}, NEW T, NEW M, NEW t,
                 Become(o, [op[o] EXCEPT !.todo = T, !.made = M, !.pc = l, !.tpl = t])
          PROVE  op'[o].pc = l
      BY <1>1, <3>1 DEF Become, Requests
    <3>2. ASSUME Take(o, i, "unrowing") PROVE op'[o].pc = "unrowing"
      BY <1>1, <3>2 DEF Take, Become, Requests
    <3>3. QED
      BY <2>1, <3>1, <3>2 DEF DeleteDevice, Withdraw
  <2>3. UNCHANGED row
    BY <2>1 DEF DeleteDevice, Withdraw
  <2>4. QED
    BY <1>4, <1>5, <2>2, <2>3 DEF NeedsNoRow, Keeps, Claims
<1>16. CASE \E i \in Ips : Recreate(o, i)
  <2>1. PICK i \in Ips : Recreate(o, i)
    BY <1>16
  <2>2. op[o].kind \notin Creates
    BY <1>1, <2>1 DEF Recreate, PhaseFits, Creates
  <2>3. Goto(o, "saving")
    BY <1>3, <2>1, <2>2 DEF Recreate
  <2>4. op'[o].pc = "saving"
    BY <1>1, <2>3 DEF Goto, Requests
  <2>5. QED
    BY <2>4 DEF NeedsNoRow, Keeps, Claims
<1>17. QED
  BY <1>1, <1>6, <1>7, <1>8, <1>9, <1>10, <1>11, <1>12, <1>13, <1>14, <1>15, <1>16
     DEF Progress, Upsert, Prune, ListFails

\* As long as requests for the same address do not meet, no row appears where one counts on none.
LEMMA RowsFreeNext ==
  ASSUME IInv, RowsFree, AddressesApart, NEW o \in Ops, op[o].kind # "list", NewRequest(o) \/ Progress(o)
  PROVE  RowsFree'
<1> SUFFICES ASSUME NEW p \in Ops, NEW ip \in Ips, ip \notin stray', NeedsNoRow(op'[p], ip)
             PROVE  row'[ip] = NoMap
  BY DEF RowsFree, NeedsNoRow, Claims, Keeps
<1>1. ip \notin stray
  BY StrayStays DEF IInv, LockedWell, RequestsOk, PhaseFits
<1>2. CASE p = o
  BY <1>1, <1>2, OwnRowFree DEF RowsFree
<1>3. CASE p # o
  <2>1. op'[p] = op[p]
    BY <1>3, OneMoves
  <2>2. row[ip] = NoMap /\ ip \in Named(op[p])
    BY <1>1, <2>1 DEF RowsFree, NeedsNoRow, Claims, Keeps, Named
  <2>3. ip \notin op[o].made
    BY <1>3, <2>2 DEF AddressesApart, Named
  <2>4. QED
    BY <2>2, <2>3, RowStep
<1>4. QED
  BY <1>2, <1>3

\* While requests for the same address do not meet, whatever a request has in
\* hand is its own affair: an address has one device at most, and this
\* request's, or the one of the row.
LEMMA OwnDevice ==
  ASSUME AddressesApart, NEW o \in Ops, NEW ip \in Ips, ip \in Named(op[o]), Agrees(ip),
         NEW m \in Maps, dev[m][ip] # "none"
  PROVE  row[ip] = m \/ (Keeps(op[o], ip) /\ Home(op[o], ip) = m)
<1>1. \A p \in Ops : Keeps(op[p], ip) => p = o
  BY DEF AddressesApart, Named, Keeps
<1>2. QED
  BY <1>1 DEF Agrees, Holds

\* Nobody else has it in hand.
LEMMA OwnHand ==
  ASSUME AddressesApart, NEW o \in Ops, NEW ip \in Ips, ip \in Named(op[o]), NEW p \in Ops, p # o
  PROVE  ~ Fresh(op[p], ip) /\ ~ Took(op[p], ip)
  BY DEF AddressesApart, Named, Fresh, Keeps, Saves, Took

\* Where nothing changes, and the request answers for what it answered for,
\* devices are served as before.
LEMMA ServedStays ==
  ASSUME IInv, NEW o \in Ops, NEW r \in Requests, Become(o, r), NEW ip \in Ips, Served(ip),
         \A m \in Maps : dev'[m][ip] = dev[m][ip], ip \in ear => ip \in ear',
         Fresh(op[o], ip) <=> Fresh(r, ip),
         Fresh(r, ip) => r.map = op[o].map /\ r.tpl = op[o].tpl,
         Took(r, ip) => Took(op[o], ip) /\ r.kind = op[o].kind /\ r.tpl = op[o].tpl
  PROVE  Served(ip)'
<1>1. op' = [op EXCEPT ![o] = r] /\ op \in [Ops -> Requests]
  BY DEF Become, IInv, TypeOK
<1>2. op'[o] = r /\ \A p \in Ops : p # o => op'[p] = op[p]
  BY <1>1
<1>3. \A p \in Ops : Fresh(op[p], ip) => op[p].map \in Maps
  <2> SUFFICES ASSUME NEW p \in Ops, Fresh(op[p], ip) PROVE op[p].map \in Maps
    OBVIOUS
  <2>1. InHand(op[p], ip)
    BY DEF Fresh, InHand
  <2>2. op[p].kind \in Creates \cup {"update"}
    BY DEF Fresh, Keeps, Saves, IInv, LockedWell, RequestsOk, PhaseFits
  <2>3. QED
    BY <2>1, <2>2, HandInside DEF Home
<1>4. ASSUME \A p \in Ops : ~ Fresh(op'[p], ip), NEW m \in Maps, dev'[m][ip] = "bare"
      PROVE  ip \in ear'
  <2>1. \A p \in Ops : ~ Fresh(op[p], ip)
    BY <1>2, <1>4
  <2>2. QED
    BY <1>4, <2>1 DEF Served
<1>5. ASSUME NEW p \in Ops
      PROVE  /\ Took(op'[p], ip) /\ op'[p].kind = "fields" /\ op'[p].tpl = "bare" => ip \in ear'
             /\ Fresh(op'[p], ip) => dev'[op'[p].map][ip] = op'[p].tpl
  BY <1>2, <1>3 DEF Served
<1>6. QED
  BY <1>4, <1>5 DEF Served, Fresh, Took, Keeps, Saves

\* An address the request works on: nobody else need be considered.
LEMMA ServedHandled ==
  ASSUME IInv, AddressesApart, NEW o \in Ops, NEW r \in Requests, Become(o, r), NEW ip \in Ips,
         ip \in Named(op[o]),
         ~ Fresh(r, ip) => \A m \in Maps : dev'[m][ip] = "bare" => ip \in ear',
         Took(r, ip) /\ r.kind = "fields" /\ r.tpl = "bare" => ip \in ear',
         Fresh(r, ip) => dev'[r.map][ip] = r.tpl
  PROVE  Served(ip)'
<1>1. op' = [op EXCEPT ![o] = r] /\ op \in [Ops -> Requests]
  BY DEF Become, IInv, TypeOK
<1>2. op'[o] = r /\ \A p \in Ops : p # o => op'[p] = op[p]
  BY <1>1
<1>3. \A p \in Ops : p # o => ~ Fresh(op'[p], ip) /\ ~ Took(op'[p], ip)
  BY <1>2, OwnHand
<1>4. (\A p \in Ops : ~ Fresh(op'[p], ip)) => \A m \in Maps : dev'[m][ip] = "bare" => ip \in ear'
  BY <1>2
<1>5. ASSUME NEW p \in Ops
      PROVE  /\ Took(op'[p], ip) /\ op'[p].kind = "fields" /\ op'[p].tpl = "bare" => ip \in ear'
             /\ Fresh(op'[p], ip) => dev'[op'[p].map][ip] = op'[p].tpl
  BY <1>2, <1>3
<1>6. QED
  BY <1>4, <1>5 DEF Served, Fresh, Took, Keeps, Saves

\* The ends of requests, where they leave nothing half done.
LEMMA EndServed ==
  ASSUME IInv, NEW o \in Ops, Become(o, Idle), NEW ip \in Ips, Served(ip),
         \A m \in Maps : dev'[m][ip] = dev[m][ip], ip \in ear => ip \in ear',
         ~ Fresh(op[o], ip)
  PROVE  Served(ip)'
<1>1. ~ Fresh(Idle, ip) /\ ~ Took(Idle, ip)
  BY DEF Fresh, Took, Keeps, Saves, Idle, Creates
<1>2. QED
  BY <1>1, IdleType, ServedStays

\* The address in hand is put down: another one, or one that is done with.
LEMMA PutDownServed ==
  ASSUME IInv, NEW o \in Ops, PutDown(o), NEW ip \in Ips, Served(ip),
         \A m \in Maps : dev'[m][ip] = dev[m][ip], ip \in ear => ip \in ear',
         ~ Fresh(op[o], ip)
  PROVE  Served(ip)'
<1> DEFINE r == [op[o] EXCEPT !.made = {}, !.pc = "working"]
<1>1. r \in Requests /\ r.made = {} /\ r.pc = "working"
  BY DEF IInv, TypeOK, Requests, Phases
<1>2. Become(o, r)
  BY DEF PutDown
<1> HIDE DEF r
<1>3. ~ Fresh(r, ip) /\ ~ Took(r, ip)
  BY <1>1 DEF Fresh, Took, Keeps, Saves
<1>4. QED
  BY <1>1, <1>2, <1>3, ServedStays

\* An address is dropped: another one, or one whose device is left as it was.
LEMMA DropServed ==
  ASSUME IInv, NEW o \in Ops, NEW i \in Ips, Drop(o, i), NEW ip \in Ips, Served(ip),
         \A m \in Maps : dev'[m][ip] = dev[m][ip], ip \in ear => ip \in ear',
         op[o].pc = "cleaning" => i # ip
  PROVE  Served(ip)'
<1> DEFINE r == [op[o] EXCEPT !.todo = @ \ {i}]
<1>1. /\ r \in Requests /\ r.kind = op[o].kind /\ r.pc = op[o].pc /\ r.made = op[o].made
      /\ r.map = op[o].map /\ r.tpl = op[o].tpl /\ r.todo = op[o].todo \ {i}
  BY DEF IInv, TypeOK, Requests
<1>2. Become(o, r)
  BY DEF Drop
<1> HIDE DEF r
<1>3. (Fresh(op[o], ip) <=> Fresh(r, ip)) /\ (Took(r, ip) => Took(op[o], ip))
  BY <1>1 DEF Fresh, Took, Keeps, Saves
<1>4. QED
  BY <1>1, <1>2, <1>3, ServedStays

\* The steps that leave the devices alone, but for those of a list.
LEMMA ServedQuiet ==
  ASSUME IInv, AddressesApart, RowsFree, NEW o \in Ops, NEW ip \in Ips, Agrees(ip), ip \notin stray,
         ip \notin mute => Served(ip), ip \notin stray', ip \notin mute',
         \/ NewRequest(o)
         \/ CheckStream(o) \/ Enter(o) \/ Refuse(o) \/ Done(o)
         \/ Commit(o) \/ CommitUnread(o) \/ CommitFails(o) \/ ClientGone(o)
         \/ DeleteRow(o) \/ Unlist(o) \/ SaveRowFails(o)
         \/ \E i \in Ips : SaveRow(o, i)
  PROVE  Served(ip)'
<1> USE DEF stores
<1>1. op[o] \in Requests /\ PhaseFits(op[o]) /\ NoMap \notin Maps
  BY RegistryAssumption DEF IInv, TypeOK, LockedWell, RequestsOk
\* A step that marks nothing: the address was served before.
<1>2. ASSUME Unmarked PROVE Served(ip)
  BY <1>2 DEF Unmarked
<1>3. ASSUME NEW r \in Requests, Become(o, r), UNCHANGED <<dev, ear>>, Unmarked,
             ~ Fresh(op[o], ip), ~ Fresh(r, ip), ~ Took(r, ip)
      PROVE  Served(ip)'
  BY <1>2, <1>3, ServedStays
<1>4. ASSUME NEW l \in {"locking", "working", "unlisting"}, Goto(o, l), UNCHANGED <<dev, ear>>, Unmarked,
             ~ Fresh(op[o], ip), op[o].made = {} \/ l = "unlisting"
      PROVE  Served(ip)'
  <2> DEFINE r == [op[o] EXCEPT !.pc = l]
  <2>1. r \in Requests /\ r.pc = l /\ r.made = op[o].made
    BY <1>1 DEF Requests, Phases
  <2>2. Become(o, r)
    BY <1>4 DEF Goto, Become
  <2> HIDE DEF r
  <2>3. ~ Fresh(r, ip) /\ ~ Took(r, ip)
    BY <1>4, <2>1 DEF Fresh, Took, Keeps, Saves
  <2>4. QED
    BY <1>3, <1>4, <2>1, <2>2, <2>3
<1>5. CASE NewRequest(o)
  <2>1. PICK r \in Requests : /\ Become(o, r) /\ op[o].pc = "idle" /\ UNCHANGED stores /\ Unmarked
                             /\ r.pc \in {"checking", "locking", "snapped"}
    BY <1>5, NewShape
  <2>2. ~ Fresh(op[o], ip) /\ ~ Fresh(r, ip) /\ ~ Took(r, ip)
    BY <2>1 DEF Fresh, Took, Keeps, Saves
  <2>3. QED
    BY <1>3, <2>1, <2>2
<1>6. CASE CheckStream(o)
  <2>1. ~ Fresh(op[o], ip) /\ op[o].made = {} /\ Unmarked /\ UNCHANGED <<dev, ear>>
    BY <1>1, <1>6 DEF CheckStream, PhaseFits, Fresh, Keeps, Saves
  <2>2. QED
    BY <1>2, <1>4, <1>6, <2>1, EndServed DEF CheckStream
<1>7. CASE Enter(o)
  <2>1. ~ Fresh(op[o], ip) /\ op[o].made = {} /\ Unmarked /\ UNCHANGED <<dev, ear>>
    BY <1>1, <1>7 DEF Enter, PhaseFits, Fresh, Keeps, Saves
  <2>2. QED
    BY <1>4, <1>7, <2>1 DEF Enter
<1>8. CASE Refuse(o) \/ Done(o)
  <2>1. ~ Fresh(op[o], ip) /\ Unmarked /\ UNCHANGED <<dev, ear>> /\ Become(o, Idle)
    BY <1>8 DEF Refuse, Done, Fresh, Keeps, Saves, Finish
  <2>2. QED
    BY <1>2, <2>1, EndServed
<1>9. CASE Commit(o)
  <2>1. /\ Become(o, Idle) /\ UNCHANGED dev /\ op[o].pc = "working" /\ op[o].kind \in Creates
        /\ IF op[o].kind = "single" THEN Register(op[o].tpl, op[o].made) ELSE UNCHANGED <<ear, mute>>
    BY <1>9 DEF Commit, Saving, Finish
  <2>2. CASE ip \notin op[o].made \/ op[o].kind # "single"
    <3>1. ~ Fresh(op[o], ip)
      BY <2>1, <2>2 DEF Fresh, Keeps, Saves
    <3>2. Served(ip) /\ (ip \in ear => ip \in ear')
      BY <2>1, <2>2 DEF Register
    <3>3. QED
      BY <2>1, <3>1, <3>2, EndServed
  <2>3. CASE ip \in op[o].made /\ op[o].kind = "single"
    <3>1. ip \in Named(op[o]) /\ row[ip] = NoMap
      BY <1>9, <2>3 DEF Commit, Named
    <3>2. ~ Fresh(Idle, ip) /\ ~ Took(Idle, ip)
      BY DEF Fresh, Took, Keeps, Saves, Idle, Creates
    <3>3. ASSUME NEW m \in Maps, dev[m][ip] = "bare" PROVE ip \in ear'
      <4>1. Home(op[o], ip) = m
        BY <1>1, <3>1, <3>3, OwnDevice
      <4>2. op[o].map = m
        BY <2>1, <4>1 DEF Home
      <4>3. Fresh(op[o], ip)
        BY <2>1, <2>3 DEF Fresh, Keeps
      <4>4. ip \notin mute => op[o].tpl = "bare"
        BY <3>3, <4>2, <4>3 DEF Served
      <4>5. QED
        BY <2>1, <2>3, <4>4 DEF Register
    <3>4. QED
      BY <2>1, <3>1, <3>2, <3>3, IdleType, ServedHandled
  <2>4. QED
    BY <2>2, <2>3
<1>10. CASE CommitUnread(o) \/ CommitFails(o)
  <2> DEFINE r == [op[o] EXCEPT !.todo = op[o].made, !.pc = "cleaning"]
  <2>1. r \in Requests
    BY <1>1, CleaningType
  <2>2. /\ r.pc = "cleaning" /\ r.kind = op[o].kind /\ r.map = op[o].map /\ r.tpl = op[o].tpl
        /\ r.todo = op[o].made
    BY <1>1 DEF Requests
  <2>3. Become(o, r) /\ UNCHANGED <<dev, ear>> /\ Saving(o)
    BY <1>10 DEF CommitUnread, CommitFails
  <2>4. Served(ip)
    BY <1>10 DEF CommitUnread, CommitFails, Mark, Unmarked
  <2> HIDE DEF r
  <2>5. (Fresh(op[o], ip) <=> Fresh(r, ip)) /\ ~ Took(r, ip)
    BY <2>2, <2>3 DEF Saving, Fresh, Keeps, Saves, Took
  <2>6. QED
    BY <2>1, <2>2, <2>3, <2>4, <2>5, ServedStays
<1>11. CASE ClientGone(o)
  <2>1. ~ Fresh(op[o], ip) /\ UNCHANGED <<dev, ear>> /\ Become(o, Idle)
    BY <1>11 DEF ClientGone, Fresh, Keeps, Saves, Finish
  <2>2. Served(ip)
    BY <1>11 DEF ClientGone, Mark
  <2>3. QED
    BY <2>1, <2>2, EndServed
<1>12. CASE DeleteRow(o)
  <2>1. op[o].pc = "unrowing" /\ ~ Fresh(op[o], ip) /\ UNCHANGED <<dev, ear>>
    BY <1>12 DEF DeleteRow, Fresh, Keeps, Saves
  <2>2. CASE PutDown(o)
    <3>1. Served(ip)
      BY <1>12 DEF DeleteRow, Mark, Unmarked
    <3>2. QED
      BY <2>1, <2>2, <3>1, PutDownServed
  <2>3. CASE Goto(o, "unlisting") /\ Unmarked
    BY <1>4, <2>1, <2>3
  <2>4. QED
    BY <1>12, <2>2, <2>3 DEF DeleteRow
<1>13. CASE Unlist(o)
  <2>1. op[o].pc = "unlisting" /\ op[o].kind = "delete" /\ ~ Fresh(op[o], ip) /\ UNCHANGED dev /\ Served(ip)
    BY <1>1, <1>2, <1>13 DEF Unlist, PhaseFits, Fresh, Keeps, Saves
  <2>2. CASE Finish(o) /\ UNCHANGED ear
    BY <2>1, <2>2, EndServed DEF Finish
  <2>3. CASE ear' = ear \ op[o].made /\ PutDown(o)
    <3>1. CASE ip \notin op[o].made
      BY <2>1, <2>3, <3>1, PutDownServed
    <3>2. CASE ip \in op[o].made
      <4>1. ip \in Named(op[o]) /\ row[ip] = NoMap
        BY <2>1, <3>2 DEF Named, RowsFree, NeedsNoRow
      <4>2. \A m \in Maps : dev[m][ip] = "none"
        BY <1>1, <2>1, <4>1, OwnDevice DEF Keeps
      <4>3. QED
        <5> DEFINE r == [op[o] EXCEPT !.made = {}, !.pc = "working"]
        <5>1. r \in Requests /\ r.made = {} /\ r.pc = "working"
          BY <1>1 DEF Requests, Phases
        <5>2. Become(o, r)
          BY <2>3 DEF PutDown
        <5> HIDE DEF r
        <5>3. ~ Took(r, ip) /\ ~ Fresh(r, ip)
          BY <5>1 DEF Took, Fresh, Keeps, Saves
        <5>4. QED
          BY <2>1, <4>1, <4>2, <5>1, <5>2, <5>3, ServedHandled
    <3>3. QED
      BY <3>1, <3>2
  <2>4. QED
    BY <1>13, <2>2, <2>3 DEF Unlist
<1>14. CASE SaveRowFails(o)
  <2>1. ~ Fresh(op[o], ip) /\ UNCHANGED <<dev, ear>> /\ Become(o, Idle) /\ Served(ip)
    BY <1>14 DEF SaveRowFails, Fresh, Keeps, Saves, Finish, Mark
  <2>2. QED
    BY <2>1, EndServed
<1>15. ASSUME NEW i \in Ips, SaveRow(o, i) PROVE Served(ip)'
  <2>1. /\ op[o].pc = "saving" /\ op[o].made = {i} /\ op[o].kind = "update" /\ UNCHANGED dev
        /\ Become(o, Idle)
    BY <1>1, <1>15 DEF SaveRow, PhaseFits, Finish
  <2>2. \/ op[o].tpl = "bare" /\ Register("bare", {i})
        \/ op[o].tpl = "soap" /\ ear' \in {ear, ear \ {i}} /\ UNCHANGED mute
    BY <1>15 DEF SaveRow
  <2>3. CASE ip # i
    <3>1. ~ Fresh(op[o], ip) /\ Served(ip) /\ (ip \in ear => ip \in ear')
      BY <2>1, <2>2, <2>3 DEF Fresh, Keeps, Saves, Register
    <3>2. QED
      BY <2>1, <3>1, EndServed
  <2>4. CASE ip = i
    <3>1. ip \in Named(op[o]) /\ Saves(op[o], ip) /\ Fresh(op[o], ip)
      BY <2>1, <2>4 DEF Named, Saves, Fresh
    <3>2. ~ Fresh(Idle, ip) /\ ~ Took(Idle, ip)
      BY DEF Fresh, Took, Keeps, Saves, Idle, Creates
    <3>3. row[ip] = op[o].map
      BY <2>1, <3>1 DEF Agrees, Home
    <3>4. ASSUME NEW m \in Maps, dev[m][ip] = "bare" PROVE ip \in ear'
      <4>1. op[o].map = m
        BY <2>1, <3>1, <3>3, <3>4, OwnDevice DEF Keeps
      <4>2. ip \notin mute => op[o].tpl = "bare"
        BY <3>1, <3>4, <4>1 DEF Served
      <4>3. QED
        BY <2>2, <2>4, <4>2 DEF Register
    <3>5. QED
      BY <2>1, <3>1, <3>2, <3>4, IdleType, ServedHandled
  <2>5. QED
    BY <2>3, <2>4
<1>16. QED
  BY <1>5, <1>6, <1>7, <1>8, <1>9, <1>10, <1>11, <1>12, <1>13, <1>14, <1>15

\* The steps that give a command on the device of an address.
LEMMA ServedDevice ==
  ASSUME IInv, AddressesApart, RowsFree, NEW o \in Ops, NEW ip \in Ips, Agrees(ip), ip \notin stray,
         ip \notin mute => Served(ip), ip \notin stray', ip \notin mute', NEW i \in Ips,
         \/ MakeDevice(o, i) \/ MakeDeviceFails(o, i) \/ CleanUp(o, i)
         \/ DeleteDevice(o, i) \/ Withdraw(o, i) \/ Recreate(o, i)
  PROVE  Served(ip)'
<1> DEFINE h == Home(op[o], i)
           tpl == op[o].tpl
<1>1. /\ op[o] \in Requests /\ PhaseFits(op[o]) /\ NoMap \notin Maps
      /\ dev \in [Maps -> [Ips -> Templates \cup {"none"}]]
      /\ tpl \in Templates
  BY RegistryAssumption DEF IInv, TypeOK, LockedWell, RequestsOk, Requests
<1>2. op[o].pc \in Started /\ i \in Named(op[o])
  BY DEF MakeDevice, MakeDeviceFails, CleanUp, DeleteDevice, Withdraw, Recreate, Next1, Started, Named
<1>3. h \in Maps
  BY <1>2, HomeInside DEF Named
<1>4. /\ op[o].kind \in Creates => h = op[o].map
      /\ op[o].kind = "delete" => h = op[o].seen[i]
      /\ op[o].kind \in {"update", "fields"} => h = UpdatedMap(o, i)
  BY DEF Home, UpdatedMap, Creates
<1> HIDE DEF h, tpl
<1>5. \A n \in Maps, j \in Ips : n # h \/ j # i => dev'[n][j] = dev[n][j]
  <2>1. \/ CreateOk(h, i, tpl) \/ CreateFails(h, i, tpl) \/ DeleteOk(h, i) \/ DeleteFails(h, i)
    BY <1>1, <1>4 DEF MakeDevice, MakeDeviceFails, CleanUp, DeleteDevice, Withdraw, Recreate,
       PhaseFits, tpl
  <2>2. QED
    BY <1>1, <1>3, <2>1, OneDevice
<1>6. ip # i => \A m \in Maps : dev'[m][ip] = dev[m][ip]
  BY <1>5
<1>7. Served(ip) \/ (MakeDevice(o, i) /\ ip = i /\ ip \in ear' /\ op[o].kind # "single")
  BY DEF MakeDevice, MakeDeviceFails, CleanUp, DeleteDevice, Withdraw, Recreate, Register,
     Mark, MarkIfChanged, Unmarked
<1>8. ip \in ear => ip \in ear'
  BY DEF MakeDevice, MakeDeviceFails, CleanUp, DeleteDevice, Withdraw, Recreate, Register
\* An address that is dropped, and the addresses beside the one in hand.
<1>9. ASSUME Drop(o, i), op[o].pc = "cleaning" => i # ip, i # ip \/ dev' = dev, Served(ip)
      PROVE  Served(ip)'
  <2>1. \A m \in Maps : dev'[m][ip] = dev[m][ip]
    BY <1>6, <1>9
  <2>2. QED
    BY <1>8, <1>9, <2>1, DropServed
<1>10. ASSUME NEW r \in Requests, Become(o, r), ip # i, ~ Fresh(op[o], ip), ~ Fresh(r, ip), ~ Took(r, ip)
      PROVE  Served(ip)'
  BY <1>6, <1>7, <1>8, <1>10, ServedStays
\* The device is withdrawn, for good or to be created again.
<1>11. ASSUME NEW r \in Requests, Become(o, r), DeleteOk(h, i), op[o].kind \notin Creates, Served(ip),
              op[o].pc = "working", r.pc \in {"unrowing", "creating"}, r.made = {i}, r.kind = op[o].kind,
              r.kind = "fields" => r.tpl = dev[h][i]
       PROVE  Served(ip)'
  <2>1. ~ Fresh(op[o], ip) /\ ~ Fresh(r, ip) /\ (Took(r, ip) <=> ip = i)
    BY <1>11 DEF Fresh, Keeps, Saves, Took
  <2>2. CASE ip # i
    BY <1>10, <1>11, <2>1, <2>2
  <2>3. CASE ip = i
    <3>1. \A p \in Ops : ~ Fresh(op[p], ip)
      BY <1>2, <2>1, <2>3, OwnHand
    <3>2. \A m \in Maps : dev[m][ip] = "bare" => ip \in ear'
      BY <1>8, <1>11, <3>1 DEF Served
    <3>3. dev'[h][ip] = "none"
      BY <1>1, <1>3, <1>11, <2>3, OneDevice
    <3>4. \A m \in Maps : dev'[m][ip] = "bare" => ip \in ear'
      BY <1>5, <3>2, <3>3
    <3>5. r.kind = "fields" /\ r.tpl = "bare" => ip \in ear'
      BY <1>3, <1>11, <2>3, <3>2
    <3>6. QED
      BY <1>2, <1>11, <2>1, <2>3, <3>4, <3>5, ServedHandled
  <2>4. QED
    BY <2>2, <2>3
<1>12. CASE MakeDevice(o, i)
  <2> DEFINE r == [op[o] EXCEPT !.todo = @ \ {i}, !.made = @ \cup {i}]
  <2>1. /\ op[o].kind \in Creates /\ op[o].pc = "working" /\ i \in op[o].todo /\ CreateOk(h, i, tpl)
        /\ IF op[o].kind = "single" THEN UNCHANGED <<ear, mute>> ELSE Register(tpl, {i})
    BY <1>4, <1>12 DEF MakeDevice, Next1, tpl
  <2>2. /\ r \in Requests /\ r.kind = op[o].kind /\ r.map = op[o].map /\ r.tpl = op[o].tpl
        /\ r.pc = op[o].pc /\ r.made = op[o].made \cup {i}
    BY <1>1 DEF Requests
  <2>3. Become(o, r)
    BY <1>12 DEF MakeDevice
  <2> HIDE DEF r
  <2>4. ~ Took(r, ip) /\ ~ Took(op[o], ip)
    BY <2>1, <2>2 DEF Took
  <2>5. CASE ip # i
    <3>1. Fresh(op[o], ip) <=> Fresh(r, ip)
      BY <2>1, <2>2, <2>5 DEF Fresh, Keeps, Saves
    <3>2. QED
      BY <1>6, <1>7, <1>8, <2>2, <2>3, <2>4, <2>5, <3>1, ServedStays
  <2>6. CASE ip = i /\ op[o].kind = "single"
    <3>1. Fresh(r, ip) /\ ip \in Named(op[o])
      BY <1>2, <2>1, <2>2, <2>6 DEF Fresh, Keeps
    <3>2. Served(ip)
      BY <1>7, <2>6
    <3>3. row[ip] = NoMap
      BY <2>1, <2>6 DEF RowsFree, NeedsNoRow, Claims
    <3>4. dev[h][ip] # "none" => dev[h][ip] = tpl
      <4> SUFFICES ASSUME dev[h][ip] # "none" PROVE dev[h][ip] = tpl
        OBVIOUS
      <4>1. Keeps(op[o], ip)
        BY <1>1, <1>3, <3>1, <3>3, OwnDevice
      <4>2. Fresh(op[o], ip)
        BY <2>6, <4>1 DEF Fresh
      <4>3. QED
        BY <1>4, <2>1, <3>2, <4>2 DEF Served, tpl
    <3>5. dev'[h][ip] = tpl
      BY <1>1, <1>3, <2>1, <2>6, <3>4 DEF CreateOk
    <3>6. dev'[r.map][ip] = r.tpl
      BY <1>4, <2>1, <2>2, <3>5 DEF tpl
    <3>7. QED
      BY <2>2, <2>3, <2>4, <3>1, <3>6, ServedHandled
  <2>7. CASE ip = i /\ op[o].kind # "single"
    <3>1. ~ Fresh(r, ip) /\ ~ Fresh(op[o], ip) /\ ip \in Named(op[o])
      BY <1>2, <2>1, <2>2, <2>7 DEF Fresh, Saves
    <3>2. ASSUME NEW m \in Maps, dev'[m][ip] = "bare" PROVE ip \in ear'
      <4>1. tpl = "bare" => ip \in ear'
        BY <2>1, <2>7 DEF Register
      <4>2. tpl # "bare" => Served(ip) /\ ear' = ear
        BY <1>7, <2>1, <2>7 DEF Register
      <4>3. tpl # "bare" => dev[m][ip] = "bare"
        BY <1>1, <1>3, <2>1, <2>7, <3>2 DEF CreateOk
      <4>4. \A p \in Ops : ~ Fresh(op[p], ip)
        BY <3>1, OwnHand
      <4>5. QED
        BY <4>1, <4>2, <4>3, <4>4 DEF Served
    <3>3. QED
      BY <2>2, <2>3, <2>4, <3>1, <3>2, ServedHandled
  <2>8. QED
    BY <2>5, <2>6, <2>7
<1>13. CASE MakeDeviceFails(o, i)
  <2>1. Drop(o, i) /\ op[o].pc = "working" /\ (i # ip \/ dev' = dev) /\ Served(ip)
    BY <1>13 DEF MakeDeviceFails, Next1, MarkIfChanged, Mark
  <2>2. QED
    BY <1>9, <2>1
<1>14. CASE CleanUp(o, i)
  <2>1. /\ op[o].pc = "cleaning" /\ i \in op[o].todo /\ op[o].kind \in Creates
        /\ IF op[o].todo = {i} THEN Finish(o) ELSE Drop(o, i)
        /\ Served(ip)
    BY <1>1, <1>14 DEF CleanUp, PhaseFits, Mark
  <2>2. CASE ip # i
    <3>1. op[o].todo = {i} => ~ Fresh(op[o], ip)
      BY <2>1, <2>2 DEF Fresh, Keeps, Saves
    <3>2. QED
      BY <1>6, <1>8, <1>9, <2>1, <2>2, <3>1, EndServed DEF Finish
  <2>3. CASE ip = i
    <3>1. dev'[h][ip] = "none"
      BY <1>4, <1>14, <2>1, <2>3 DEF CleanUp, Mark
    <3>2. ip \in Named(op[o]) /\ row[ip] = NoMap /\ Home(op[o], ip) = h
      BY <1>2, <2>1, <2>3 DEF RowsFree, NeedsNoRow, Claims, Keeps, h
    <3>3. \A m \in Maps : dev'[m][ip] = "none"
      BY <1>1, <1>5, <3>1, <3>2, OwnDevice
    <3>4. ASSUME NEW r \in Requests, Become(o, r), ~ Fresh(r, ip), ~ Took(r, ip)
          PROVE  Served(ip)'
      BY <3>2, <3>3, <3>4, ServedHandled
    <3>5. CASE Finish(o)
      <4>1. ~ Fresh(Idle, ip) /\ ~ Took(Idle, ip)
        BY DEF Fresh, Took, Keeps, Saves, Idle, Creates
      <4>2. QED
        BY <3>4, <3>5, <4>1, IdleType DEF Finish
    <3>6. CASE Drop(o, i)
      <4> DEFINE r == [op[o] EXCEPT !.todo = @ \ {i}]
      <4>1. r \in Requests /\ r.pc = "cleaning" /\ i \notin r.todo
        BY <1>1, <2>1 DEF Requests
      <4>2. Become(o, r)
        BY <3>6 DEF Drop
      <4> HIDE DEF r
      <4>3. ~ Fresh(r, ip) /\ ~ Took(r, ip)
        BY <2>3, <4>1 DEF Fresh, Took, Keeps, Saves
      <4>4. QED
        BY <3>4, <4>1, <4>2, <4>3
    <3>7. QED
      BY <2>1, <3>5, <3>6
  <2>4. QED
    BY <2>2, <2>3
<1>15. CASE DeleteDevice(o, i)
  <2>1. op[o].kind = "delete" /\ op[o].pc = "working" /\ op[o].kind \notin Creates
    BY <1>15 DEF DeleteDevice, Next1, Creates
  <2>2. Served(ip)
    BY <1>7, <2>1 DEF MakeDevice
  <2>3. CASE DeleteOk(h, i) /\ Take(o, i, "unrowing")
    <3> DEFINE r == [op[o] EXCEPT !.todo = @ \ {i}, !.made = {i}, !.pc = "unrowing"]
    <3>1. r \in Requests /\ r.kind = op[o].kind /\ r.made = {i} /\ r.pc = "unrowing"
      BY <1>1 DEF Requests, Phases
    <3>2. Become(o, r)
      BY <2>3 DEF Take
    <3> HIDE DEF r
    <3>3. QED
      BY <1>11, <2>1, <2>2, <2>3, <3>1, <3>2
  <2>4. CASE Drop(o, i) /\ MarkIfChanged(i)
    <3>1. i # ip \/ dev' = dev
      BY <2>4 DEF MarkIfChanged, Mark
    <3>2. QED
      BY <1>9, <2>1, <2>2, <2>4, <3>1
  <2>5. QED
    BY <1>4, <1>15, <2>1, <2>3, <2>4 DEF DeleteDevice
<1>16. CASE Withdraw(o, i)
  <2> DEFINE t == IF op[o].kind = "update" THEN op[o].tpl ELSE dev[h][i]
             r == [op[o] EXCEPT !.todo = @ \ {i}, !.made = {i}, !.pc = "creating", !.tpl = t]
  <2>1. op[o].kind \in {"update", "fields"} /\ op[o].pc = "working" /\ op[o].kind \notin Creates
    BY <1>16 DEF Withdraw, Next1, Creates
  <2>2. Served(ip)
    BY <1>7, <2>1 DEF MakeDevice
  <2>3. \/ DeleteOk(h, i) /\ Become(o, r)
        \/ Drop(o, i) /\ MarkIfChanged(i)
    BY <1>4, <1>16, <2>1 DEF Withdraw
  <2>4. CASE DeleteOk(h, i) /\ Become(o, r)
    <3>1. t \in Templates /\ (op[o].kind = "fields" => t = dev[h][i])
      BY <1>1, <1>3, <2>4 DEF DeleteOk, Requests
    <3> HIDE DEF t
    <3>2. r \in Requests /\ r.kind = op[o].kind /\ r.made = {i} /\ r.pc = "creating" /\ r.tpl = t
      BY <1>1, <3>1 DEF Requests, Phases
    <3> HIDE DEF r
    <3>3. QED
      BY <1>11, <2>1, <2>2, <2>4, <3>1, <3>2
  <2>5. CASE Drop(o, i) /\ MarkIfChanged(i)
    <3>1. i # ip \/ dev' = dev
      BY <2>5 DEF MarkIfChanged, Mark
    <3>2. QED
      BY <1>9, <2>1, <2>2, <2>5, <3>1
  <2>6. QED
    BY <2>3, <2>4, <2>5
<1>17. CASE Recreate(o, i)
  <2>1. /\ op[o].pc = "creating" /\ op[o].kind \in {"update", "fields"} /\ op[o].kind \notin Creates
        /\ i \in op[o].made /\ op[o].made = {i}
    BY <1>1, <1>17 DEF Recreate, PhaseFits, Creates
  <2>2. Served(ip) /\ ~ Fresh(op[o], ip)
    BY <1>7, <2>1 DEF MakeDevice, Fresh, Keeps, Saves
  <2>3. \/ CreateOk(h, i, tpl) /\ op[o].kind = "update" /\ Goto(o, "saving")
        \/ CreateOk(h, i, tpl) /\ op[o].kind = "fields" /\ PutDown(o)
        \/ PutDown(o) /\ ip # i
    BY <1>4, <1>17, <2>1 DEF Recreate, Mark, tpl
  <2>4. ASSUME CreateOk(h, i, tpl), ip = i PROVE dev'[h][ip] = tpl
    <3>1. Took(op[o], ip)
      BY <2>1, <2>4 DEF Took
    <3>2. dev[h][ip] = "none"
      BY <2>4, <3>1 DEF Agrees, Holds, h
    <3>3. QED
      BY <1>1, <1>3, <2>4, <3>2 DEF CreateOk
  <2>5. CASE PutDown(o) /\ (ip # i \/ (CreateOk(h, i, tpl) /\ op[o].kind = "fields"))
    <3> DEFINE r == [op[o] EXCEPT !.made = {}, !.pc = "working"]
    <3>1. r \in Requests /\ r.made = {} /\ r.pc = "working"
      BY <1>1 DEF Requests, Phases
    <3>2. Become(o, r)
      BY <2>5 DEF PutDown
    <3> HIDE DEF r
    <3>3. ~ Fresh(r, ip) /\ ~ Took(r, ip)
      BY <3>1 DEF Fresh, Took, Keeps, Saves
    <3>4. CASE ip # i
      BY <1>10, <2>2, <3>1, <3>2, <3>3, <3>4
    <3>5. CASE ip = i
      <4>1. Took(op[o], ip) /\ op[o].kind = "fields"
        BY <2>1, <2>5, <3>5 DEF Took
      <4>2. tpl = "bare" => ip \in ear'
        BY <1>8, <2>2, <4>1 DEF Served, tpl
      <4>3. \A p \in Ops : ~ Fresh(op[p], ip)
        BY <1>2, <2>2, <3>5, OwnHand
      <4>4. ASSUME NEW m \in Maps, dev'[m][ip] = "bare" PROVE ip \in ear'
        <5>1. CASE m = h
          BY <2>4, <2>5, <3>5, <4>2, <4>4, <5>1
        <5>2. CASE m # h
          BY <1>5, <1>8, <2>2, <4>3, <4>4, <5>2 DEF Served
        <5>3. QED
          BY <5>1, <5>2
      <4>5. QED
        BY <1>2, <3>1, <3>2, <3>3, <3>5, <4>4, ServedHandled
    <3>6. QED
      BY <3>4, <3>5
  <2>6. CASE CreateOk(h, i, tpl) /\ op[o].kind = "update" /\ Goto(o, "saving")
    <3> DEFINE r == [op[o] EXCEPT !.pc = "saving"]
    <3>1. r \in Requests /\ r.pc = "saving" /\ r.made = {i} /\ r.map = op[o].map /\ r.tpl = op[o].tpl
      BY <1>1, <2>1 DEF Requests, Phases
    <3>2. Become(o, r)
      BY <2>6 DEF Goto, Become
    <3> HIDE DEF r
    <3>3. ~ Took(r, ip) /\ (Fresh(r, ip) <=> ip = i)
      BY <3>1 DEF Took, Fresh, Keeps, Saves
    <3>4. CASE ip # i
      BY <1>10, <2>2, <3>1, <3>2, <3>3, <3>4
    <3>5. CASE ip = i
      <4>1. h = op[o].map
        BY <1>4, <2>6 DEF UpdatedMap
      <4>2. dev'[r.map][ip] = r.tpl
        BY <2>4, <2>6, <3>1, <3>5, <4>1 DEF tpl
      <4>3. QED
        BY <1>2, <3>1, <3>2, <3>3, <3>5, <4>2, ServedHandled
    <3>6. QED
      BY <3>4, <3>5
  <2>7. QED
    BY <2>3, <2>5, <2>6
<1>18. QED
  BY <1>12, <1>13, <1>14, <1>15, <1>16, <1>17

\* A list that runs alone does nothing to devices and listeners.
LEMMA ServedList ==
  ASSUME IInv, ListsAlone, ServedInv, NEW o \in Ops, op[o].kind = "list", NewRequest(o) \/ Progress(o)
  PROVE  ServedInv'
<1>1. /\ op[o] \in Requests /\ op \in [Ops -> Requests] /\ Idle \in Requests
      /\ op[o].pc \in {"snapped", "pruning"}
  BY IdleType DEF IInv, TypeOK, LockedWell, RequestsOk, PhaseFits
<1>2. PICK r \in Requests : Become(o, r) /\ r.pc \in {"pruning", "idle"}
  <2>1. Upsert(o) => Become(o, [op[o] EXCEPT !.pc = "pruning"])
    BY <1>1 DEF Upsert, Goto, Become
  <2>2. [op[o] EXCEPT !.pc = "pruning"] \in Requests /\ [op[o] EXCEPT !.pc = "pruning"].pc = "pruning"
    BY <1>1 DEF Requests, Phases
  <2>3. Prune(o) \/ ListFails(o) => Become(o, Idle)
    BY DEF Prune, ListFails
  <2>4. Idle.pc = "idle"
    BY DEF Idle
  <2>5. QED
    BY <1>1, <2>1, <2>2, <2>3, <2>4, ListSteps
<1>3. \A p \in Ops : op'[p].pc \in {"idle", "pruning"}
  BY <1>1, <1>2 DEF Become, ListsAlone
<1>4. RowsFree'
  BY <1>3 DEF RowsFree, NeedsNoRow, Claims, Keeps
<1>5. ASSUME NEW ip \in Ips, ip \notin stray', ip \notin mute' PROVE Served(ip)'
  <2>1. ip \notin stray /\ ip \notin mute /\ UNCHANGED <<dev, ear>>
    BY <1>5, ListSteps DEF Upsert, Prune, ListFails, Unmarked, stores
  <2>2. /\ ~ Fresh(op[o], ip) /\ ~ Took(op[o], ip)
        /\ ~ Fresh(r, ip) /\ ~ Took(r, ip)
    BY <1>1, <1>2 DEF Fresh, Keeps, Saves, Took
  <2>3. QED
    BY <1>2, <2>1, <2>2, ServedStays DEF ServedInv
<1>6. QED
  BY <1>4, <1>5 DEF ServedInv, Served, Fresh, Keeps, Saves, Took

\* Every step keeps the devices served.
LEMMA ServedNext ==
  IInv /\ ListsAlone /\ AgreeInv /\ ServedInv /\ AddressesApart /\ [Next]_vars => ServedInv'
<1> SUFFICES ASSUME IInv, ListsAlone, AgreeInv, ServedInv, AddressesApart, [Next]_vars PROVE ServedInv'
  OBVIOUS
<1>1. CASE UNCHANGED vars
  BY <1>1 DEF vars, ServedInv, RowsFree, NeedsNoRow, Claims, Keeps, Served, Fresh, Saves, Took
<1>2. CASE Crash
  <2>1. UNCHANGED stores /\ op' = [o \in Ops |-> Idle]
        /\ stray' = stray \cup {ip \in Ips : Busy(ip)} /\ mute' = mute \cup {ip \in Ips : Busy(ip)}
    BY <1>2 DEF Crash, Mark
  <2>2. \A ip : ~ NeedsNoRow(Idle, ip) /\ ~ Fresh(Idle, ip) /\ ~ Took(Idle, ip)
    BY DEF NeedsNoRow, Claims, Keeps, Fresh, Saves, Took, Idle, Creates
  <2>3. RowsFree'
    BY <2>1, <2>2 DEF RowsFree, NeedsNoRow, Claims, Keeps
  <2>4. ASSUME NEW ip \in Ips, ip \notin stray' \cup mute' PROVE Served(ip)'
    <3>1. Served(ip) /\ ~ Busy(ip)
      BY <2>1, <2>4 DEF ServedInv
    <3>2. \A o \in Ops : op[o].pc \in {"snapped", "pruning"} <=> op[o].kind = "list"
      BY DEF IInv, LockedWell, RequestsOk, PhaseFits
    <3>3. \A o \in Ops : ~ Fresh(op[o], ip)
      BY <3>1, <3>2 DEF Busy, Working, Fresh, Keeps, Saves
    <3>4. \A m \in Maps : dev'[m][ip] = "bare" => ip \in ear'
      BY <2>1, <3>1, <3>3 DEF Served, stores
    <3>5. \A o \in Ops : ~ Fresh(op'[o], ip) /\ ~ Took(op'[o], ip)
      BY <2>1, <2>2
    <3>6. QED
      BY <3>4, <3>5 DEF Served, Fresh, Keeps, Saves, Took
  <2>5. QED
    BY <2>3, <2>4 DEF ServedInv, Served, Fresh, Keeps, Saves, Took
<1>3. ASSUME NEW o \in Ops, NewRequest(o) \/ Progress(o), op[o].kind # "list" PROVE ServedInv'
  <2>1. op[o].kind # "list" /\ op[o].pc \notin {"snapped", "pruning"}
    BY <1>3 DEF IInv, LockedWell, RequestsOk, PhaseFits
  <2>2. RowsFree'
    BY <1>3, <2>1, RowsFreeNext DEF ServedInv
  <2>3. ASSUME NEW ip \in Ips, ip \notin stray', ip \notin mute' PROVE Served(ip)'
    <3>1. ip \notin stray /\ RowsFree /\ Agrees(ip) /\ (ip \notin mute => Served(ip))
      BY <1>3, <2>1, <2>3, StrayStays DEF ServedInv, AgreeInv
    <3>2. CASE NewRequest(o)
      BY <2>3, <3>1, <3>2, ServedQuiet
    <3>3. CASE Progress(o)
      <4>1. ~ Upsert(o) /\ ~ Prune(o) /\ ~ ListFails(o)
        BY <2>1 DEF Upsert, Prune, ListFails
      <4>2. QED
        BY <2>3, <3>1, <3>3, <4>1, ServedQuiet, ServedDevice DEF Progress
    <3>4. QED
      BY <1>3, <3>2, <3>3
  <2>4. QED
    BY <2>2, <2>3 DEF ServedInv, Served, Fresh, Keeps, Saves, Took
<1>4. ASSUME NEW o \in Ops, NewRequest(o) \/ Progress(o), op[o].kind = "list" PROVE ServedInv'
  BY <1>4, ServedList
<1>5. QED
  BY <1>1, <1>2, <1>3, <1>4 DEF Next

\* There is nothing to serve at first.
LEMMA ServedInit == Init => ServedInv
<1> SUFFICES ASSUME Init PROVE ServedInv
  OBVIOUS
<1>1. \A o \in Ops, ip \in Ips : ~ NeedsNoRow(op[o], ip) /\ ~ Fresh(op[o], ip) /\ ~ Took(op[o], ip)
  BY DEF Init, NeedsNoRow, Claims, Keeps, Fresh, Saves, Took, Idle, Creates
<1>2. \A m \in Maps, ip \in Ips : dev[m][ip] = "none"
  BY DEF Init
<1>3. QED
  BY <1>1, <1>2 DEF ServedInv, RowsFree, Served

\* Where nothing is fresh or taken, listeners are complete; and streams find no rows.
LEMMA ServedImplies ==
  ASSUME IInv, ServedInv
  PROVE  BareIsServed /\ StreamsFree
<1>1. \A o \in Ops : op[o].todo \subseteq Ips
  BY DEF IInv, TypeOK, Requests
<1>2. StreamsFree
  BY <1>1 DEF ServedInv, RowsFree, NeedsNoRow, StreamsFree
<1>3. ASSUME NEW ip \in Ips, ~ Busy(ip), ip \notin stray \cup mute, row[ip] # NoMap, dev[row[ip]][ip] = "bare"
      PROVE  ip \in ear
  <2>1. \A o \in Ops : op[o].pc \in {"snapped", "pruning"} <=> op[o].kind = "list"
    BY DEF IInv, LockedWell, RequestsOk, PhaseFits
  <2>2. \A o \in Ops : ~ Fresh(op[o], ip)
    BY <1>3, <2>1 DEF Busy, Working, Fresh, Keeps, Saves
  <2>3. row[ip] \in Maps
    BY <1>3 DEF IInv, TypeOK, MapOrNone
  <2>4. QED
    BY <1>3, <2>2, <2>3 DEF ServedInv, Served
<1>4. QED
  BY <1>2, <1>3 DEF BareIsServed

\* As long as no two requests in progress name the same address, and nothing
\* runs beside a list, a simulator without SOAP that no request works on has
\* its listener, unless a failure kept it out - whatever the kinds of the
\* requests, streaming creates included, and whatever fails or crashes.
THEOREM BareIsServedHolds ==
  Spec /\ []ListsAlone /\ []AddressesApart => [](StoresAgree /\ BareIsServed)
<1>1. IInv /\ AgreeInv => StoresAgree
  BY AgreeImplies
<1>2. IInv /\ ServedInv => BareIsServed /\ StreamsFree
  BY ServedImplies
<1>3. QED
  BY <1>1, <1>2, InvInit, InvNext, SnapshotsInit, SnapshotsNext, AgreeInit, AgreeNext,
     ServedInit, ServedNext, PTL DEF Spec

\* With one request at a time, of any kind, nothing else is needed: devices, rows
\* and listeners agree outside failures, and new rows have their devices.
THEOREM AllAgreeOneAtATime ==
  ASSUME \A o, p \in Ops : o = p
  PROVE  Spec => [](StoresAgree /\ BareIsServed) /\ NewRowHasDevice
<1>1. ListsAlone /\ AddressesApart
  BY DEF ListsAlone, AddressesApart
<1>2. QED
  BY <1>1, BareIsServedHolds, NewRowHasDeviceIfListsAlone, PTL

-----------------------------------------------------------------------------
(***************************************************************************)
(* The handlers implement AtomicSimulators.  An address that no failure    *)
(* has lost is a simulator by its row and its device, but by the request   *)
(* in charge of it while its device is withdrawn; there is one at most.    *)
(***************************************************************************)

\* What a create has made is what it was asked to make.
MadeAsAsked ==
  \A o \in Ops : \A ip \in Ips \ stray :
    op[o].kind \in Creates /\ op[o].pc = "working" /\ ip \in op[o].made =>
      dev[op[o].map][ip] = op[o].tpl

\* The commands of a request change one device, in a map it is inside.
LEMMA DeviceStep ==
  ASSUME IInv, NEW o \in Ops, NEW i \in Ips,
         \/ MakeDevice(o, i) \/ MakeDeviceFails(o, i) \/ CleanUp(o, i)
         \/ DeleteDevice(o, i) \/ Withdraw(o, i) \/ Recreate(o, i)
  PROVE  /\ Home(op[o], i) \in Maps /\ Home(op[o], i) \in inside[o]
         /\ \A n \in Maps, j \in Ips : n # Home(op[o], i) \/ j # i => dev'[n][j] = dev[n][j]
<1> DEFINE h == Home(op[o], i)
           tpl == op[o].tpl
<1>1. /\ op[o] \in Requests /\ PhaseFits(op[o])
      /\ dev \in [Maps -> [Ips -> Templates \cup {"none"}]]
      /\ tpl \in Templates
  BY DEF IInv, TypeOK, LockedWell, RequestsOk, Requests
<1>2. op[o].pc \in Started /\ i \in op[o].todo \cup op[o].made
  BY DEF MakeDevice, MakeDeviceFails, CleanUp, DeleteDevice, Withdraw, Recreate, Next1, Started
<1>3. h \in Maps /\ h \in inside[o]
  BY <1>2, HomeInside
<1>4. /\ op[o].kind \in Creates => h = op[o].map
      /\ op[o].kind = "delete" => h = op[o].seen[i]
      /\ op[o].kind \in {"update", "fields"} => h = UpdatedMap(o, i)
  BY DEF Home, UpdatedMap, Creates
<1> HIDE DEF h, tpl
<1>5. \/ CreateOk(h, i, tpl) \/ CreateFails(h, i, tpl) \/ DeleteOk(h, i) \/ DeleteFails(h, i)
  BY <1>1, <1>4 DEF MakeDevice, MakeDeviceFails, CleanUp, DeleteDevice, Withdraw, Recreate,
     PhaseFits, tpl
<1>6. \A n \in Maps, j \in Ips : n # h \/ j # i => dev'[n][j] = dev[n][j]
  BY <1>1, <1>3, <1>5, OneDevice
<1>7. QED
  BY <1>3, <1>6 DEF h

\* All other steps leave the devices alone.
LEMMA DevicesStay ==
  ASSUME IInv, NEW o \in Ops, op[o].kind # "list",
         NewRequest(o) \/ CheckStream(o) \/ Enter(o) \/ Refuse(o) \/ Done(o)
         \/ Commit(o) \/ CommitUnread(o) \/ CommitFails(o) \/ ClientGone(o)
         \/ DeleteRow(o) \/ Unlist(o) \/ SaveRowFails(o)
         \/ \E i \in Ips : SaveRow(o, i)
  PROVE  UNCHANGED dev
BY DEF NewRequest, RequestCreate, RequestRows, RequestUpdate, ReadDevices, CheckStream, Enter, Refuse,
   Done, Commit, CommitUnread, CommitFails, ClientGone, DeleteRow, Unlist, SaveRowFails, SaveRow, stores

\* What another create has made stays as it was asked for.
LEMMA OthersMadeStays ==
  ASSUME IInv, NEW o \in Ops, op[o].kind # "list", NewRequest(o) \/ Progress(o),
         NEW p \in Ops, p # o, NEW ip \in Ips,
         op[p].kind \in Creates, op[p].pc = "working", ip \in op[p].made
  PROVE  dev'[op[p].map][ip] = dev[op[p].map][ip]
<1>1. op[p].map \in Maps /\ op[p].map \in inside[p]
  BY HomeInside DEF Started, Home
<1>2. op[p].map \notin inside[o]
  BY <1>1 DEF IInv, LockedWell, Exclusive
<1>3. op[o].pc \notin {"snapped", "pruning"}
  BY DEF IInv, LockedWell, RequestsOk, PhaseFits
<1>4. \/ UNCHANGED dev
      \/ \E i \in Ips : MakeDevice(o, i) \/ MakeDeviceFails(o, i) \/ CleanUp(o, i)
                        \/ DeleteDevice(o, i) \/ Withdraw(o, i) \/ Recreate(o, i)
  BY <1>3, DevicesStay DEF Progress, Upsert, Prune, ListFails
<1>5. ASSUME NEW i \in Ips,
             MakeDevice(o, i) \/ MakeDeviceFails(o, i) \/ CleanUp(o, i)
             \/ DeleteDevice(o, i) \/ Withdraw(o, i) \/ Recreate(o, i)
      PROVE  dev'[op[p].map][ip] = dev[op[p].map][ip]
  <2>1. Home(op[o], i) # op[p].map
    BY <1>2, <1>5, DeviceStep
  <2>2. QED
    BY <1>1, <1>5, <2>1, DeviceStep
<1>6. QED
  BY <1>4, <1>5

\* And what the request itself has made.
LEMMA OwnMadeStays ==
  ASSUME IInv, AgreeInv, MadeAsAsked, NEW o \in Ops, op[o].kind # "list", NewRequest(o) \/ Progress(o),
         NEW ip \in Ips, ip \notin stray, ip \notin stray',
         op'[o].kind \in Creates, op'[o].pc = "working", ip \in op'[o].made
  PROVE  dev'[op'[o].map][ip] = op'[o].tpl
<1>1. /\ op[o] \in Requests /\ PhaseFits(op[o]) /\ op \in [Ops -> Requests]
      /\ op[o].pc \notin {"snapped", "pruning"}
  BY DEF IInv, TypeOK, LockedWell, RequestsOk, PhaseFits
<1>2. ASSUME Become(o, Idle) PROVE FALSE
  BY <1>1, <1>2 DEF Become, Idle, Creates
<1>3. ASSUME PutDown(o) PROVE FALSE
  BY <1>1, <1>3 DEF PutDown, Become, Requests
<1>4. ASSUME NEW l \in {"locking", "unlisting", "saving"}, Goto(o, l) PROVE FALSE
  BY <1>1, <1>4 DEF Goto, Requests
<1>5. ASSUME NEW i \in Ips, Drop(o, i), i # ip \/ UNCHANGED dev,
             \A n \in Maps, j \in Ips : n # Home(op[o], i) \/ j # i => dev'[n][j] = dev[n][j]
      PROVE  dev'[op'[o].map][ip] = op'[o].tpl
  <2>1. /\ op'[o].kind = op[o].kind /\ op'[o].pc = op[o].pc /\ op'[o].made = op[o].made
        /\ op'[o].map = op[o].map /\ op'[o].tpl = op[o].tpl
    BY <1>1, <1>5 DEF Drop, Become, Requests
  <2>2. op[o].map \in Maps
    BY <2>1, HomeInside DEF Started, Home
  <2>3. dev[op[o].map][ip] = op[o].tpl
    BY <2>1 DEF MadeAsAsked
  <2>4. QED
    BY <1>5, <2>1, <2>2, <2>3
<1>6. ~ NewRequest(o)
  <2> SUFFICES ASSUME NewRequest(o) PROVE FALSE
    OBVIOUS
  <2>1. PICK r \in Requests : Become(o, r) /\ r.pc \in {"checking", "locking", "snapped"}
    BY NewShape
  <2>2. op'[o] = r
    BY <1>1, <2>1 DEF Become
  <2>3. QED
    BY <2>1, <2>2
<1>7. ~ (CheckStream(o) \/ Refuse(o) \/ Done(o) \/ Commit(o) \/ ClientGone(o) \/ SaveRowFails(o)
         \/ \E i \in Ips : SaveRow(o, i))
  BY <1>2, <1>4 DEF CheckStream, Refuse, Done, Commit, ClientGone, SaveRowFails, SaveRow, Finish
<1>8. ~ Enter(o)
  <2> SUFFICES ASSUME Enter(o) PROVE FALSE
    OBVIOUS
  <2>1. op[o].made = {} /\ op'[o].made = op[o].made
    BY <1>1 DEF Enter, Goto, PhaseFits, Requests
  <2>2. QED
    BY <2>1
<1>9. ~ (CommitUnread(o) \/ CommitFails(o))
  BY <1>1 DEF CommitUnread, CommitFails, Become, Requests
<1>10. ~ (DeleteRow(o) \/ Unlist(o) \/ \E i \in Ips : Recreate(o, i))
  BY <1>2, <1>3, <1>4 DEF DeleteRow, Unlist, Recreate, Finish
<1>11. CASE \E i \in Ips : MakeDevice(o, i)
  <2>1. PICK i \in Ips : MakeDevice(o, i)
    BY <1>11
  <2>2. /\ op[o].kind \in Creates /\ op[o].pc = "working" /\ i \in op[o].todo
        /\ CreateOk(op[o].map, i, op[o].tpl) /\ Home(op[o], i) = op[o].map
        /\ op'[o] = [op[o] EXCEPT !.todo = @ \ {i}, !.made = @ \cup {i}]
    BY <1>1, <2>1 DEF MakeDevice, Next1, Become, Home
  <2>3. op'[o].map = op[o].map /\ op'[o].tpl = op[o].tpl /\ op'[o].made = op[o].made \cup {i}
    BY <1>1, <2>2 DEF Requests
  <2>4. op[o].map \in Maps /\ op[o].map \in inside[o]
        /\ \A j \in Ips : j # i => dev'[op[o].map][j] = dev[op[o].map][j]
    BY <2>1, <2>2, DeviceStep
  <2>5. ip \in op[o].made => dev[op[o].map][ip] = op[o].tpl
    BY <2>2 DEF MadeAsAsked
  <2>6. dev \in [Maps -> [Ips -> Templates \cup {"none"}]]
    BY DEF IInv, TypeOK
  <2>7. CASE ip \in op[o].made
    BY <2>2, <2>3, <2>4, <2>5, <2>6, <2>7 DEF CreateOk
  <2>8. CASE ip = i /\ ip \notin op[o].made
    <3>1. Agrees(ip) /\ Claims(op[o], ip) /\ ~ Keeps(op[o], ip) /\ Home(op[o], ip) = op[o].map
      BY <2>2, <2>8 DEF AgreeInv, Claims, Keeps
    <3>2. \A p \in Ops : Keeps(op[p], ip) => Home(op[p], ip) # op[o].map
      BY <2>4, <3>1, HandInside DEF InHand, IInv, LockedWell, Exclusive
    <3>3. ~ Holds(op[o].map, ip)
      BY <2>4, <3>1, <3>2 DEF Agrees
    <3>4. QED
      BY <2>2, <2>3, <2>4, <2>6, <2>8, <3>3 DEF CreateOk, Holds
  <2>9. QED
    BY <2>3, <2>7, <2>8
<1>12. CASE \E i \in Ips : MakeDeviceFails(o, i)
  <2>1. PICK i \in Ips : MakeDeviceFails(o, i)
    BY <1>12
  <2>2. Drop(o, i) /\ (i # ip \/ UNCHANGED dev)
    BY <2>1 DEF MakeDeviceFails, MarkIfChanged, Mark
  <2>3. QED
    BY <1>5, <2>1, <2>2, DeviceStep
<1>13. ~ \E i \in Ips : CleanUp(o, i)
  <2> SUFFICES ASSUME NEW i \in Ips, CleanUp(o, i) PROVE FALSE
    OBVIOUS
  <2>1. Drop(o, i)
    BY <1>2 DEF CleanUp, Finish
  <2>2. op'[o].pc = "cleaning"
    BY <1>1, <2>1 DEF CleanUp, Drop, Become, Requests
  <2>3. QED
    BY <2>2
<1>14. ~ \E i \in Ips : DeleteDevice(o, i) \/ Withdraw(o, i)
  <2> SUFFICES ASSUME NEW i \in Ips, DeleteDevice(o, i) \/ Withdraw(o, i) PROVE FALSE
    OBVIOUS
  <2>1. op[o].kind \notin Creates
    BY DEF DeleteDevice, Withdraw, Creates
  <2>2. ASSUME NEW l \in {"unrowing", "creating"}, NEW T, NEW M, NEW t,
               Become(o, [op[o] EXCEPT !.todo = T, !.made = M, !.pc = l, !.tpl = t])
        PROVE  op'[o].pc = l
    BY <1>1, <2>2 DEF Become, Requests
  <2>3. Take(o, i, "unrowing") => op'[o].pc = "unrowing"
    BY <1>1 DEF Take, Become, Requests
  <2>4. Drop(o, i) => op'[o].kind = op[o].kind
    BY <1>1 DEF Drop, Become, Requests
  <2>5. QED
    BY <2>1, <2>2, <2>3, <2>4 DEF DeleteDevice, Withdraw
<1>15. QED
  BY <1>1, <1>6, <1>7, <1>8, <1>9, <1>10, <1>11, <1>12, <1>13, <1>14
     DEF Progress, Upsert, Prune, ListFails

\* So it is after every step, as long as nobody lists.
LEMMA MadeNext ==
  ASSUME "list" \notin Kinds
  PROVE  IInv /\ AgreeInv /\ MadeAsAsked /\ [Next]_vars => MadeAsAsked'
<1> SUFFICES ASSUME IInv, AgreeInv, MadeAsAsked, [Next]_vars, NEW p \in Ops, NEW ip \in Ips, ip \notin stray',
                    op'[p].kind \in Creates, op'[p].pc = "working", ip \in op'[p].made
             PROVE  dev'[op'[p].map][ip] = op'[p].tpl
  BY DEF MadeAsAsked
<1>1. CASE UNCHANGED vars
  BY <1>1 DEF vars, MadeAsAsked
<1>2. CASE Crash
  BY <1>2 DEF Crash, Idle, Creates
<1>3. ASSUME NEW o \in Ops, NewRequest(o) \/ Progress(o) PROVE dev'[op'[p].map][ip] = op'[p].tpl
  <2>1. op[o].kind # "list" /\ op[o].pc \notin {"snapped", "pruning"}
    BY DEF IInv, LockedWell, RequestsOk, PhaseFits
  <2>2. ip \notin stray
    BY <1>3, <2>1, StrayStays
  <2>3. CASE p = o
    BY <1>3, <2>1, <2>2, <2>3, OwnMadeStays
  <2>4. CASE p # o
    <3>1. op'[p] = op[p]
      BY <1>3, <2>4, OneMoves
    <3>2. dev[op[p].map][ip] = op[p].tpl
      BY <2>2, <3>1 DEF MadeAsAsked
    <3>3. dev'[op[p].map][ip] = dev[op[p].map][ip]
      BY <1>3, <2>1, <2>4, <3>1, OthersMadeStays
    <3>4. QED
      BY <3>1, <3>2, <3>3
  <2>5. QED
    BY <2>3, <2>4
<1>4. QED
  BY <1>1, <1>2, <1>3 DEF Next

\* Nothing is made at first.
LEMMA MadeInit == Init => MadeAsAsked
  BY DEF Init, MadeAsAsked, Idle, Creates

-----------------------------------------------------------------------------
\* One request at most is in charge of an address, as it is inside the map of the row ...
LEMMA OneInCharge ==
  ASSUME IInv, NEW ip \in Ips, Agrees(ip), NEW o \in Ops, NEW p \in Ops,
         Took(op[o], ip), Took(op[p], ip)
  PROVE  o = p
<1>1. Home(op[o], ip) = row[ip] /\ Home(op[p], ip) = row[ip]
  BY DEF Agrees
<1>2. row[ip] \in inside[o] /\ row[ip] \in inside[p]
  BY <1>1, HandInside DEF InHand
<1>3. QED
  BY <1>2 DEF IInv, LockedWell, Exclusive

\* ... and none is of one with its device in place, or without a row.
LEMMA NoneInCharge ==
  ASSUME IInv, NEW ip \in Ips, Agrees(ip), row[ip] = NoMap \/ Holds(row[ip], ip)
  PROVE  \A p \in Ops : ~ Took(op[p], ip)
<1> SUFFICES ASSUME NEW p \in Ops, Took(op[p], ip) PROVE FALSE
  OBVIOUS
<1>1. row[ip] = Home(op[p], ip) /\ ~ Holds(row[ip], ip)
  BY DEF Agrees
<1>2. row[ip] \in Maps
  BY <1>1, HandInside DEF InHand
<1>3. QED
  BY <1>1, <1>2, RegistryAssumption

LEMMA ChargeIs == ASSUME NEW ip \in Ips PROVE InCharge(ip) = {o \in Ops : Took(op[o], ip)}
  BY DEF InCharge, Took

\* What an address is while a request has withdrawn its device.
LEMMA SimulatorInHand ==
  ASSUME IInv, NEW ip \in Ips, ip \notin stray, Agrees(ip), NEW o \in Ops, Took(op[o], ip)
  PROVE  Simulator(ip) = IF op[o].pc = "unrowing" THEN NoSimulator
                                                  ELSE [map |-> row[ip], tpl |-> op[o].tpl]
<1>1. InCharge(ip) = {o}
  BY ChargeIs, OneInCharge
<1>2. (CHOOSE p \in InCharge(ip) : TRUE) = o
  BY <1>1
<1>3. row[ip] # NoMap
  BY NoneInCharge
<1>4. QED
  BY <1>1, <1>2, <1>3 DEF Simulator

\* Where the request leaves row, device and charge alone, it leaves the simulator alone.
LEMMA SimulatorStays ==
  ASSUME IInv, NEW o \in Ops, NewRequest(o) \/ Progress(o), NEW ip \in Ips,
         ip \notin stray, ip \notin stray', row'[ip] = row[ip],
         row[ip] # NoMap => dev'[row[ip]][ip] = dev[row[ip]][ip],
         Took(op'[o], ip) <=> Took(op[o], ip),
         Took(op[o], ip) => op'[o].pc = op[o].pc /\ op'[o].tpl = op[o].tpl
  PROVE  Simulator(ip)' = Simulator(ip)
<1> DEFINE C == {p \in Ops : Took(op[p], ip)}
           D == {p \in Ops : Took(op'[p], ip)}
           c == CHOOSE p \in C : TRUE
<1>1. \A p \in Ops : /\ Took(op'[p], ip) <=> Took(op[p], ip)
                     /\ Took(op[p], ip) => op'[p].pc = op[p].pc /\ op'[p].tpl = op[p].tpl
  BY OneMoves
<1>2. D = C
  BY <1>1
<1>3. InCharge(ip) = C /\ InCharge(ip)' = D
  BY DEF InCharge, Took
<1>4. \A p \in C : p \in Ops /\ op'[p].pc = op[p].pc /\ op'[p].tpl = op[p].tpl
  BY <1>1
<1>5. C # {} => c \in C
  OBVIOUS
<1>6. Simulator(ip) = IF row[ip] = NoMap \/ \E p \in C : op[p].pc = "unrowing" THEN NoSimulator
                      ELSE IF C = {} THEN [map |-> row[ip], tpl |-> dev[row[ip]][ip]]
                      ELSE [map |-> row[ip], tpl |-> op[c].tpl]
  BY <1>3 DEF Simulator
<1>7. Simulator(ip)' = IF row'[ip] = NoMap \/ \E p \in D : op'[p].pc = "unrowing" THEN NoSimulator
                       ELSE IF D = {} THEN [map |-> row'[ip], tpl |-> dev'[row'[ip]][ip]]
                       ELSE [map |-> row'[ip], tpl |-> op'[CHOOSE p \in D : TRUE].tpl]
  BY <1>3 DEF Simulator, NoSimulator
<1>8. (CHOOSE p \in D : TRUE) = c
  BY <1>2
<1> HIDE DEF C, D, c
<1>9. C # {} => op'[c].tpl = op[c].tpl
  BY <1>4, <1>5
<1>10. (\E p \in C : op'[p].pc = "unrowing") <=> \E p \in C : op[p].pc = "unrowing"
  BY <1>4
<1>11. Simulator(ip)' = IF row[ip] = NoMap \/ \E p \in C : op[p].pc = "unrowing" THEN NoSimulator
                        ELSE IF C = {} THEN [map |-> row[ip], tpl |-> dev'[row[ip]][ip]]
                        ELSE [map |-> row[ip], tpl |-> op'[c].tpl]
  BY <1>2, <1>7, <1>8, <1>10
<1>12. CASE row[ip] = NoMap \/ \E p \in C : op[p].pc = "unrowing"
  BY <1>6, <1>11, <1>12
<1>13. CASE row[ip] # NoMap /\ (~ \E p \in C : op[p].pc = "unrowing") /\ C = {}
  BY <1>6, <1>11, <1>13
<1>14. CASE row[ip] # NoMap /\ (~ \E p \in C : op[p].pc = "unrowing") /\ C # {}
  BY <1>6, <1>9, <1>11, <1>14
<1>15. QED
  BY <1>12, <1>13, <1>14

-----------------------------------------------------------------------------
\* The steps without a command on a device change no simulator, but for the commit of a create.
LEMMA QuietSimulator ==
  ASSUME IInv, NEW o \in Ops, op[o].kind # "list", NEW ip \in Ips, Agrees(ip),
         ip \notin stray, ip \notin stray',
         \/ NewRequest(o)
         \/ CheckStream(o) \/ Enter(o) \/ Refuse(o) \/ Done(o)
         \/ (Commit(o) /\ ip \notin op[o].made) \/ CommitUnread(o) \/ CommitFails(o) \/ ClientGone(o)
         \/ DeleteRow(o) \/ Unlist(o) \/ SaveRowFails(o)
         \/ \E i \in Ips : SaveRow(o, i)
  PROVE  Simulator(ip)' = Simulator(ip)
<1>1. /\ op[o] \in Requests /\ PhaseFits(op[o]) /\ op \in [Ops -> Requests]
      /\ row \in [Ips -> MapOrNone] /\ NoMap \notin Maps
  BY RegistryAssumption DEF IInv, TypeOK, LockedWell, RequestsOk
<1>2. UNCHANGED dev
  BY DevicesStay
<1>3. NewRequest(o) \/ Progress(o)
  BY DEF Progress
<1>4. ASSUME row'[ip] = row[ip], ~ Took(op[o], ip), ~ Took(op'[o], ip)
      PROVE  Simulator(ip)' = Simulator(ip)
  BY <1>2, <1>3, <1>4, SimulatorStays
<1>5. Become(o, Idle) => ~ Took(op'[o], ip)
  BY <1>1 DEF Become, Idle, Took
<1>6. \A l \in {"locking", "working", "unlisting"} : Goto(o, l) => ~ Took(op'[o], ip)
  BY <1>1 DEF Goto, Requests, Took
<1>7. PutDown(o) => ~ Took(op'[o], ip)
  BY <1>1 DEF PutDown, Become, Requests, Took
<1>8. CASE NewRequest(o)
  <2>1. PICK r \in Requests : Become(o, r) /\ op[o].pc = "idle" /\ UNCHANGED stores
                           /\ r.pc \in {"checking", "locking", "snapped"}
    BY <1>8, NewShape
  <2>2. op'[o] = r
    BY <1>1, <2>1 DEF Become
  <2>3. QED
    BY <1>4, <2>1, <2>2 DEF Took, stores
<1>9. CASE CheckStream(o) \/ Enter(o) \/ Refuse(o) \/ Done(o) \/ ClientGone(o)
           \/ SaveRowFails(o) \/ (Commit(o) /\ ip \notin op[o].made)
  <2>1. row'[ip] = row[ip]
    BY <1>1, <1>9 DEF CheckStream, Enter, Refuse, Done, ClientGone, SaveRowFails, Commit, stores
  <2>2. ~ Took(op[o], ip)
    BY <1>9 DEF CheckStream, Enter, Refuse, Done, ClientGone, SaveRowFails, Commit, Saving, Took
  <2>3. ~ Took(op'[o], ip)
    BY <1>5, <1>6, <1>9 DEF CheckStream, Enter, Refuse, Done, ClientGone, SaveRowFails, Commit, Finish
  <2>4. QED
    BY <1>4, <2>1, <2>2, <2>3
<1>10. CASE CommitUnread(o) \/ CommitFails(o)
  <2>1. op'[o] = [op[o] EXCEPT !.todo = op[o].made, !.pc = "cleaning"] /\ op[o].pc = "working"
    BY <1>1, <1>10 DEF CommitUnread, CommitFails, Become, Saving
  <2>2. op'[o].pc = "cleaning"
    BY <1>1, <2>1 DEF Requests
  <2>3. row'[ip] = row[ip]
    BY <1>1, <1>10 DEF CommitUnread, CommitFails, Mark, stores
  <2>4. QED
    BY <1>4, <2>1, <2>2, <2>3 DEF Took
<1>11. CASE Unlist(o)
  <2>1. ~ Took(op[o], ip) /\ UNCHANGED row /\ ~ Took(op'[o], ip)
    BY <1>5, <1>7, <1>11 DEF Unlist, Took, Finish
  <2>2. QED
    BY <1>4, <2>1
<1>12. CASE DeleteRow(o)
  <2>1. op[o].pc = "unrowing" /\ (Goto(o, "unlisting") \/ PutDown(o))
    BY <1>12 DEF DeleteRow
  <2>2. CASE ip \notin op[o].made
    <3>1. row'[ip] = row[ip]
      BY <1>1, <1>12, <2>2 DEF DeleteRow
    <3>2. ~ Took(op[o], ip) /\ ~ Took(op'[o], ip)
      BY <1>6, <1>7, <2>1, <2>2 DEF Took
    <3>3. QED
      BY <1>4, <3>1, <3>2
  \* It has been gone since its device was.
  <2>3. CASE ip \in op[o].made
    <3>1. row'[ip] = NoMap
      BY <1>1, <1>12, <2>3 DEF DeleteRow, Mark
    <3>2. Simulator(ip)' = NoSimulator
      BY <3>1 DEF Simulator, NoSimulator
    <3>3. Took(op[o], ip)
      BY <2>1, <2>3 DEF Took
    <3>4. QED
      BY <2>1, <3>2, <3>3, SimulatorInHand
  <2>4. QED
    BY <2>2, <2>3
<1>13. ASSUME NEW i \in Ips, SaveRow(o, i) PROVE Simulator(ip)' = Simulator(ip)
  <2>1. ip = i => row[ip] = op[o].map
    <3>1. op[o].pc = "saving" /\ i \in op[o].made /\ op[o].kind = "update"
      BY <1>1, <1>13 DEF SaveRow, PhaseFits
    <3>2. QED
      BY <3>1 DEF Agrees, Saves, Home
  <2>2. row'[ip] = row[ip]
    BY <1>1, <1>13, <2>1 DEF SaveRow
  <2>3. ~ Took(op[o], ip) /\ ~ Took(op'[o], ip)
    BY <1>5, <1>13 DEF SaveRow, Finish, Took
  <2>4. QED
    BY <1>4, <2>2, <2>3
<1>14. QED
  BY <1>8, <1>9, <1>10, <1>11, <1>12, <1>13

\* Nor do those with a command, but for the withdrawal of a device.
LEMMA DeviceSimulator ==
  ASSUME IInv, NEW o \in Ops, NEW ip \in Ips, Agrees(ip), ip \notin stray, ip \notin stray', NEW i \in Ips,
         \/ MakeDevice(o, i) \/ MakeDeviceFails(o, i) \/ CleanUp(o, i)
         \/ DeleteDevice(o, i) \/ Withdraw(o, i) \/ Recreate(o, i),
         ip = i => ~ Took(op'[o], ip)
  PROVE  Simulator(ip)' = Simulator(ip)
<1> DEFINE h == Home(op[o], i)
<1>1. /\ op[o] \in Requests /\ PhaseFits(op[o]) /\ op \in [Ops -> Requests] /\ NoMap \notin Maps
      /\ dev \in [Maps -> [Ips -> Templates \cup {"none"}]] /\ row \in [Ips -> MapOrNone]
  BY RegistryAssumption DEF IInv, TypeOK, LockedWell, RequestsOk
<1>2. /\ h \in Maps /\ h \in inside[o]
      /\ \A n \in Maps, j \in Ips : n # h \/ j # i => dev'[n][j] = dev[n][j]
  BY DeviceStep
<1>3. UNCHANGED row /\ Progress(o)
  BY DEF Progress, MakeDevice, MakeDeviceFails, CleanUp, DeleteDevice, Withdraw, Recreate
<1>4. row[ip] # NoMap => row[ip] \in Maps
  BY <1>1 DEF MapOrNone
<1> HIDE DEF h
\* Another address: the request keeps what it is in charge of, or it is in charge of i only.
<1>5. ASSUME ~ Took(op[o], ip), ~ Took(op'[o], ip), row[ip] # h \/ ip # i \/ UNCHANGED dev
      PROVE  Simulator(ip)' = Simulator(ip)
  <2>1. row[ip] # NoMap => dev'[row[ip]][ip] = dev[row[ip]][ip]
    BY <1>2, <1>4, <1>5
  <2>2. QED
    BY <1>3, <1>5, <2>1, SimulatorStays
<1>6. Become(o, Idle) => ~ Took(op'[o], ip)
  BY <1>1 DEF Become, Idle, Took
<1>7. Drop(o, i) => (Took(op'[o], ip) <=> Took(op[o], ip))
  <2>1. Drop(o, i) => op'[o].pc = op[o].pc /\ op'[o].made = op[o].made
    BY <1>1 DEF Drop, Become, Requests
  <2>2. QED
    BY <2>1 DEF Took
<1>8. PutDown(o) \/ Goto(o, "saving") => ~ Took(op'[o], ip)
  <2>1. PutDown(o) => op'[o].pc = "working"
    BY <1>1 DEF PutDown, Become, Requests
  <2>2. Goto(o, "saving") => op'[o].pc = "saving"
    BY <1>1 DEF Goto, Requests
  <2>3. QED
    BY <2>1, <2>2 DEF Took
<1>9. CASE MakeDevice(o, i)
  <2>1. op[o].kind \in Creates /\ op[o].pc = "working" /\ i \in op[o].todo /\ h = op[o].map
        /\ op'[o] = [op[o] EXCEPT !.todo = @ \ {i}, !.made = @ \cup {i}]
    BY <1>1, <1>9 DEF MakeDevice, Next1, Become, h, Home
  <2>2. op'[o].pc = "working"
    BY <1>1, <2>1 DEF Requests
  <2>3. ip = i => row[ip] # h
    BY <2>1 DEF Agrees, Claims, Home, h
  <2>4. QED
    BY <1>5, <2>1, <2>2, <2>3 DEF Took
<1>10. CASE MakeDeviceFails(o, i)
  <2>1. Drop(o, i) /\ op[o].pc = "working" /\ (i # ip \/ UNCHANGED dev)
    BY <1>10 DEF MakeDeviceFails, Next1, MarkIfChanged, Mark
  <2>2. QED
    BY <1>5, <1>7, <2>1 DEF Took
<1>11. CASE CleanUp(o, i)
  <2>1. op[o].pc = "cleaning" /\ i \in op[o].todo /\ op[o].kind \in Creates /\ (Finish(o) \/ Drop(o, i))
    BY <1>1, <1>11 DEF CleanUp, PhaseFits
  <2>2. ip = i => row[ip] # h
    BY <2>1 DEF Agrees, Claims, Keeps, Home, h
  <2>3. QED
    BY <1>5, <1>6, <1>7, <2>1, <2>2 DEF Took, Finish
<1>12. CASE DeleteDevice(o, i) \/ Withdraw(o, i)
  <2>1. op[o].pc = "working" /\ ~ Took(op[o], ip)
    BY <1>12 DEF DeleteDevice, Withdraw, Next1, Took
  <2>2. CASE ip # i
    <3>1. ASSUME NEW l \in {"unrowing", "creating"}, NEW T, NEW t,
                 Become(o, [op[o] EXCEPT !.todo = T, !.made = {i}, !.pc = l, !.tpl = t])
          PROVE  ~ Took(op'[o], ip)
      BY <1>1, <2>2, <3>1 DEF Become, Requests, Took
    <3>2. Take(o, i, "unrowing") => ~ Took(op'[o], ip)
      BY <1>1, <2>2 DEF Take, Become, Requests, Took
    <3>3. ~ Took(op'[o], ip)
      BY <1>7, <1>12, <2>1, <3>1, <3>2 DEF DeleteDevice, Withdraw
    <3>4. QED
      BY <1>5, <2>1, <2>2, <3>3
  <2>3. CASE ip = i
    <3>1. ASSUME NEW l \in {"unrowing", "creating"}, NEW T, NEW t,
                 Become(o, [op[o] EXCEPT !.todo = T, !.made = {i}, !.pc = l, !.tpl = t])
          PROVE  Took(op'[o], ip)
      BY <1>1, <2>3, <3>1 DEF Become, Requests, Took
    <3>2. Take(o, i, "unrowing") => Took(op'[o], ip)
      BY <1>1, <2>3 DEF Take, Become, Requests, Took
    <3>3. MarkIfChanged(i)
      BY <1>12, <2>3, <3>1, <3>2 DEF DeleteDevice, Withdraw
    <3>4. UNCHANGED dev
      BY <2>3, <3>3 DEF MarkIfChanged, Mark
    <3>5. QED
      BY <1>5, <2>1, <2>3, <3>4
  <2>4. QED
    BY <2>2, <2>3
<1>13. CASE Recreate(o, i)
  <2>1. /\ op[o].pc = "creating" /\ i \in op[o].made /\ op[o].made = {i} /\ h = UpdatedMap(o, i)
        /\ op[o].kind \in {"update", "fields"} /\ (PutDown(o) \/ Goto(o, "saving"))
    BY <1>1, <1>13 DEF Recreate, PhaseFits, UpdatedMap, Home, h, Creates
  <2>2. Took(op[o], i) /\ (Took(op[o], ip) <=> ip = i) /\ ~ Took(op'[o], ip)
    BY <1>8, <2>1 DEF Took
  <2>3. CASE ip # i
    BY <1>5, <2>2, <2>3
  \* The device is back where it was, of the template the request had in mind.
  <2>4. CASE ip = i
    <3>1. row[ip] = h /\ ~ Holds(h, ip)
      BY <2>2, <2>4 DEF Agrees, h
    <3>2. CreateOk(h, i, op[o].tpl)
      BY <1>13, <2>1, <2>4 DEF Recreate, Mark
    <3>3. dev'[h][ip] = op[o].tpl
      BY <1>1, <1>2, <2>4, <3>1, <3>2 DEF CreateOk, Holds
    <3>4. Simulator(ip) = [map |-> h, tpl |-> op[o].tpl]
      BY <2>1, <2>2, <2>4, <3>1, SimulatorInHand
    <3>5. \A p \in Ops : ~ Took(op'[p], ip)
      BY <1>3, <2>2, <2>4, OneInCharge, OneMoves
    <3>6. InCharge(ip)' = {}
      BY <3>5 DEF InCharge, Took
    <3>7. row'[ip] = h /\ h # NoMap
      BY <1>1, <1>2, <1>3, <3>1
    <3>8. Simulator(ip)' = [map |-> h, tpl |-> dev'[h][ip]]
      BY <3>6, <3>7 DEF Simulator
    <3>9. QED
      BY <3>3, <3>4, <3>8
  <2>5. QED
    BY <2>3, <2>4
<1>14. QED
  BY <1>9, <1>10, <1>11, <1>12, <1>13

-----------------------------------------------------------------------------
\* The marks of a step are on addresses its request works on; no step both
\* marks and lets a simulator come, change or go.
LEMMA MarksOwn ==
  ASSUME IInv, NEW o \in Ops, op[o].kind # "list", NewRequest(o) \/ Progress(o),
         NEW ip \in stray', ip \notin stray
  PROVE  Working(o, ip) /\ ~ Commit(o)
<1>1. /\ op[o].pc \notin {"snapped", "pruning"} /\ PhaseFits(op[o])
  BY DEF IInv, LockedWell, RequestsOk, PhaseFits
<1>2. ~ NewRequest(o)
  BY DEF NewRequest, RequestCreate, RequestRows, RequestUpdate, ReadDevices, Unmarked
<1>3. ~ Commit(o)
  BY DEF Commit
<1>4. \/ CommitUnread(o) \/ ClientGone(o) \/ DeleteRow(o) \/ SaveRowFails(o)
      \/ \E i \in Ips : MakeDeviceFails(o, i) \/ CleanUp(o, i) \/ DeleteDevice(o, i)
                        \/ Withdraw(o, i) \/ Recreate(o, i)
  BY <1>1, <1>2, <1>3
     DEF Progress, CheckStream, Enter, Refuse, Done, CommitFails, Unlist, Upsert, Prune, ListFails,
         MakeDevice, SaveRow, Unmarked
<1>5. ip \in op[o].todo \cup op[o].made /\ op[o].pc \notin {"idle", "checking", "locking"}
  BY <1>4 DEF CommitUnread, ClientGone, DeleteRow, SaveRowFails, MakeDeviceFails, CleanUp, DeleteDevice,
     Withdraw, Recreate, Mark, MarkIfChanged, Unmarked, Saving, Next1
<1>6. QED
  BY <1>3, <1>5 DEF Working

\* Whatever requests do to what they have in hand is allowed.
LEMMA AnyHands ==
  [o \in Ops |-> {ip \in Ips : Working(o, ip)}]' \in [Ops -> SUBSET Ips]
  OBVIOUS

\* A step in which every simulator stays what it is.
LEMMA ImplementsTurn ==
  ASSUME \A ip \in Ips : Simulator(ip)' = Simulator(ip)
  PROVE  Atomic!Next
<1>1. [ip \in Ips |-> Simulator(ip)]' = [ip \in Ips |-> Simulator(ip)]
  OBVIOUS
<1>2. Atomic!Turn
  BY <1>1, AnyHands DEF Atomic!Turn, Atomic!Hands
<1>3. QED
  BY <1>2 DEF Atomic!Next

\* A step that marks addresses requests work on, and leaves the others alone.
LEMMA ImplementsLose ==
  ASSUME stray \subseteq stray', stray' \subseteq Ips,
         \A ip \in stray' \ stray : \E o \in Ops : Working(o, ip),
         \A ip \in Ips \ stray' : Simulator(ip)' = Simulator(ip)
  PROVE  Atomic!Next
<1>1. \A ip \in stray : Simulator(ip) = LostSimulator
  BY DEF Simulator
<1>2. \A ip \in stray' : Simulator(ip)' = LostSimulator
  BY DEF Simulator, LostSimulator
<1>3. CASE stray' = stray
  <2>1. \A ip \in Ips : Simulator(ip)' = Simulator(ip)
    BY <1>1, <1>2, <1>3
  <2>2. QED
    BY <2>1, ImplementsTurn
<1>4. CASE stray' # stray
  <2> DEFINE S == stray' \ stray
             Sim == [ip \in Ips |-> Simulator(ip)]
             Hand == [o \in Ops |-> {ip \in Ips : Working(o, ip)}]
  <2>1. S # {} /\ S \in SUBSET Ips
    BY <1>4
  <2>2. S \subseteq UNION {Hand[o] : o \in Ops}
    OBVIOUS
  <2>3. ASSUME NEW ip \in Ips
        PROVE  Simulator(ip)' = IF ip \in S THEN LostSimulator ELSE Simulator(ip)
    BY <1>1, <1>2
  <2>4. Sim' = [ip \in Ips |-> IF ip \in S THEN LostSimulator ELSE Sim[ip]]
    BY <2>3
  <2>5. Atomic!Lose(S)
    BY <2>1, <2>2, <2>4, AnyHands DEF Atomic!Lose, Atomic!Become, Atomic!Hands
  <2>6. QED
    BY <2>1, <2>5 DEF Atomic!Next
<1>5. QED
  BY <1>3, <1>4

\* A commit makes all its simulators appear, unless all of them are lost.
LEMMA ImplementsCreate ==
  ASSUME IInv, AgreeInv, MadeAsAsked, NEW o \in Ops, op[o].kind # "list", Commit(o)
  PROVE  Atomic!Next
<1> DEFINE m == op[o].map
           t == op[o].tpl
           S == op[o].made \ stray
           Sim == [ip \in Ips |-> Simulator(ip)]
           Hand == [p \in Ops |-> {ip \in Ips : Working(p, ip)}]
<1>1. /\ op[o] \in Requests /\ op \in [Ops -> Requests] /\ NoMap \notin Maps
      /\ op[o].made \subseteq Ips /\ t \in Templates /\ row \in [Ips -> MapOrNone]
  BY RegistryAssumption DEF IInv, TypeOK, Requests
<1>2. /\ op[o].kind \in Creates /\ op[o].pc = "working" /\ op[o].todo = {} /\ op[o].made # {}
      /\ \A ip \in op[o].made : row[ip] = NoMap /\ row'[ip] = m
      /\ op'[o] = Idle /\ UNCHANGED <<dev, stray>>
  <2>1. /\ op[o].kind \in Creates /\ op[o].pc = "working" /\ op[o].todo = {} /\ op[o].made # {}
        /\ \A ip \in op[o].made : row[ip] = NoMap
        /\ UNCHANGED <<dev, stray>>
    BY DEF Commit, Saving
  <2>2. row' = [ip \in Ips |-> IF ip \in op[o].made THEN op[o].map ELSE row[ip]]
    BY DEF Commit
  <2>3. \A ip \in op[o].made : row'[ip] = m
    BY <1>1, <2>2
  <2>4. op'[o] = Idle
    BY <1>1 DEF Commit, Finish, Become
  <2>5. QED
    BY <2>1, <2>3, <2>4
<1>3. m \in Maps
  <2>1. PICK ip \in op[o].made : TRUE
    BY <1>2
  <2>2. Home(op[o], ip) \in Maps
    BY <1>1, <1>2, <2>1, HomeInside DEF Started
  <2>3. QED
    BY <1>2, <2>2 DEF Home
<1>4. \A p \in Ops : p # o => op'[p] = op[p]
  BY OneMoves DEF Progress
<1>5. Hand[o] = op[o].made /\ Hand'[o] = {}
  <2>1. ASSUME NEW ip \in Ips PROVE Working(o, ip) <=> ip \in op[o].made
    BY <1>2 DEF Working
  <2>2. ASSUME NEW ip \in Ips PROVE ~ Working(o, ip)'
    BY <1>2 DEF Working, Idle
  <2>3. QED
    BY <1>1, <2>1, <2>2
<1>6. ASSUME NEW ip \in S
      PROVE  Simulator(ip) = NoSimulator /\ Simulator(ip)' = [map |-> m, tpl |-> t]
  <2>1. row[ip] = NoMap /\ row'[ip] = m /\ ip \in Ips /\ Agrees(ip) /\ ip \notin stray'
    BY <1>1, <1>2 DEF AgreeInv
  <2>2. \A p \in Ops : ~ Took(op[p], ip)
    BY <2>1, NoneInCharge
  <2>3. ~ Took(op'[o], ip)
    BY <1>2 DEF Took, Idle
  <2>4. \A p \in Ops : ~ Took(op'[p], ip)
    BY <1>4, <2>2, <2>3
  <2>5. InCharge(ip)' = {}
    BY <2>4 DEF InCharge, Took
  <2>6. Simulator(ip)' = [map |-> m, tpl |-> dev[m][ip]]
    BY <1>1, <1>2, <1>3, <2>1, <2>5 DEF Simulator
  <2>7. dev[m][ip] = t
    BY <1>2, <2>1 DEF MadeAsAsked
  <2>8. Simulator(ip) = NoSimulator
    BY <2>1 DEF Simulator
  <2>9. QED
    BY <2>6, <2>7, <2>8
<1>7. ASSUME NEW ip \in Ips, ip \notin S PROVE Simulator(ip)' = Simulator(ip)
  <2>1. CASE ip \in stray
    BY <1>2, <2>1 DEF Simulator, LostSimulator
  <2>2. CASE ip \notin stray
    <3>1. Agrees(ip) /\ ip \notin op[o].made /\ ip \notin stray'
      BY <1>2, <1>7, <2>2 DEF AgreeInv
    <3>2. QED
      BY <2>2, <3>1, QuietSimulator
  <2>3. QED
    BY <2>1, <2>2
<1>8. LostSimulator # NoSimulator
  <2>1. LostSimulator.tpl = "lost" /\ NoSimulator.tpl = "none"
    BY DEF LostSimulator, NoSimulator
  <2>2. QED
    BY <2>1
<1>9. \A ip \in stray : Simulator(ip) = LostSimulator
  BY DEF Simulator
<1>10. S = {ip \in Hand[o] : Sim[ip] # LostSimulator}
  BY <1>1, <1>5, <1>6, <1>8, <1>9
<1> HIDE DEF m, t
<1>11. CASE S = {}
  BY <1>7, <1>11, ImplementsTurn
<1>12. CASE S # {}
  <2>1. \A ip \in Ips : Simulator(ip)' = IF ip \in S THEN [map |-> m, tpl |-> t] ELSE Simulator(ip)
    BY <1>6, <1>7
  <2>2. Sim' = [ip \in Ips |-> IF ip \in S THEN [map |-> m, tpl |-> t] ELSE Sim[ip]]
    BY <2>1
  <2>3. \A ip \in S : Sim[ip] = NoSimulator
    BY <1>1, <1>6
  <2> HIDE DEF S
  <2>4. Atomic!Become(S, [map |-> m, tpl |-> t])
    BY <1>12, <2>2, AnyHands DEF Atomic!Become, Atomic!Hands
  <2>5. Atomic!Create(o, m, t)
    BY <1>5, <1>10, <2>3, <2>4 DEF Atomic!Create
  <2>6. QED
    BY <1>1, <1>3, <2>5 DEF Atomic!Next
<1>13. QED
  BY <1>11, <1>12

-----------------------------------------------------------------------------
\* A withdrawal takes the device that the row names, as no create still answers for it there.
LEMMA Withdrawn ==
  ASSUME IInv, NEW o \in Ops, NEW i \in Ips, Agrees(i), DeleteOk(Home(op[o], i), i),
         op[o].pc = "working", op[o].kind \notin Creates, i \in op[o].todo
  PROVE  /\ row[i] = Home(op[o], i) /\ row[i] \in Maps
         /\ Simulator(i) = IF i \in stray THEN LostSimulator
                           ELSE [map |-> row[i], tpl |-> dev[row[i]][i]]
         /\ dev[row[i]][i] \in Templates
<1> DEFINE h == Home(op[o], i)
<1>1. /\ dev \in [Maps -> [Ips -> Templates \cup {"none"}]] /\ NoMap \notin Maps
  BY RegistryAssumption DEF IInv, TypeOK
<1>2. h \in Maps /\ h \in inside[o] /\ Holds(h, i)
  BY HomeInside DEF Started, DeleteOk, Holds
<1>3. ~ Keeps(op[o], i)
  BY DEF Keeps
<1> HIDE DEF h
<1>4. \A p \in Ops : Keeps(op[p], i) => Home(op[p], i) # h
  BY <1>2, <1>3, HandInside DEF InHand, IInv, LockedWell, Exclusive
<1>5. row[i] = h
  BY <1>2, <1>4 DEF Agrees
<1>6. \A p \in Ops : ~ Took(op[p], i)
  BY <1>2, <1>5, NoneInCharge
<1>7. InCharge(i) = {}
  BY <1>6, ChargeIs
<1>8. Simulator(i) = IF i \in stray THEN LostSimulator ELSE [map |-> row[i], tpl |-> dev[row[i]][i]]
  BY <1>1, <1>2, <1>5, <1>7 DEF Simulator
<1>9. dev[row[i]][i] \in Templates
  BY <1>1, <1>2, <1>5 DEF Holds
<1>10. QED
  BY <1>2, <1>5, <1>8, <1>9 DEF h

\* A delete takes effect with the device, an update with the withdrawal of the old one.
LEMMA ImplementsWithdrawal ==
  ASSUME IInv, AgreeInv, NEW o \in Ops, op[o].kind # "list", NEW i \in Ips,
         DeleteDevice(o, i) \/ Withdraw(o, i), Took(op'[o], i)
  PROVE  Atomic!Next
<1> DEFINE Sim == [ip \in Ips |-> Simulator(ip)]
           Hand == [p \in Ops |-> {ip \in Ips : Working(p, ip)}]
           t == op'[o].tpl
<1>1. /\ op[o] \in Requests /\ op \in [Ops -> Requests] /\ PhaseFits(op[o])
      /\ dev \in [Maps -> [Ips -> Templates \cup {"none"}]] /\ row \in [Ips -> MapOrNone]
  BY DEF IInv, TypeOK, LockedWell, RequestsOk
<1>2. /\ op[o].pc = "working" /\ i \in op[o].todo /\ UNCHANGED row
      /\ op[o].kind \in {"delete", "update", "fields"}
  BY DEF DeleteDevice, Withdraw, Next1
<1>3. ~ Drop(o, i)
  <2>1. Drop(o, i) => op'[o].pc = "working"
    BY <1>1, <1>2 DEF Drop, Become, Requests
  <2>2. QED
    BY <2>1 DEF Took
<1>4. DeleteOk(Home(op[o], i), i) /\ UNCHANGED stray
  BY <1>2, <1>3 DEF DeleteDevice, Withdraw, UpdatedMap, Home, Unmarked, Creates
<1>5. ASSUME NEW ip \in Ips, ip # i \/ i \in stray PROVE Simulator(ip)' = Simulator(ip)
  <2>1. CASE ip \in stray
    BY <1>4, <2>1 DEF Simulator, LostSimulator
  <2>2. CASE ip \notin stray
    <3>1. Agrees(ip) /\ ip \notin stray' /\ ip # i
      BY <1>4, <1>5, <2>2 DEF AgreeInv
    <3>2. QED
      BY <2>2, <3>1, DeviceSimulator
  <2>3. QED
    BY <2>1, <2>2
<1>6. CASE i \in stray
  BY <1>5, <1>6, ImplementsTurn
<1>7. CASE i \notin stray
  <2>1. Agrees(i) /\ op[o].kind \notin Creates
    BY <1>2, <1>7 DEF AgreeInv, Creates
  <2>2. /\ row[i] = Home(op[o], i) /\ row[i] \in Maps
        /\ Simulator(i) = [map |-> row[i], tpl |-> dev[row[i]][i]]
        /\ dev[row[i]][i] \in Templates
    BY <1>2, <1>4, <1>7, <2>1, Withdrawn
  <2>3. Sim[i] \in Atomic!Simulators /\ Sim[i].map = row[i]
    BY <2>2 DEF Atomic!Simulators
  <2>4. i \in Hand[o]
    BY <1>2 DEF Working
  \* From now on the request is in charge of the address, and nobody else.
  <2>5. InCharge(i)' = {o}
    <3>1. \A p \in Ops : ~ Took(op[p], i)
      BY <1>4, <2>1, <2>2, NoneInCharge DEF DeleteOk, Holds
    <3>2. \A p \in Ops : p # o => op'[p] = op[p]
      BY OneMoves DEF Progress
    <3>3. \A p \in Ops : Took(op'[p], i) <=> p = o
      BY <3>1, <3>2
    <3>4. InCharge(i)' = {p \in Ops : Took(op'[p], i)}
      BY DEF InCharge, Took
    <3>5. QED
      BY <3>3, <3>4
  <2>6. row'[i] = row[i] /\ row[i] # NoMap /\ i \notin stray'
    BY <1>2, <1>4, <1>7, <2>2, RegistryAssumption
  <2>7. Simulator(i)' = IF op'[o].pc = "unrowing" THEN NoSimulator ELSE [map |-> row[i], tpl |-> t]
    <3>1. (CHOOSE p \in InCharge(i)' : TRUE) = o
      BY <2>5
    <3>2. Simulator(i)' = IF i \in stray' THEN LostSimulator
                          ELSE IF row'[i] = NoMap \/ \E p \in InCharge(i)' : op'[p].pc = "unrowing" THEN NoSimulator
                          ELSE IF InCharge(i)' = {} THEN [map |-> row'[i], tpl |-> dev'[row'[i]][i]]
                          ELSE [map |-> row'[i], tpl |-> op'[CHOOSE p \in InCharge(i)' : TRUE].tpl]
      BY DEF Simulator, NoSimulator, LostSimulator
    <3>3. QED
      BY <2>5, <2>6, <3>1, <3>2
  <2>8. ASSUME NEW s, Simulator(i)' = s
        PROVE  Atomic!Become({i}, s)
    <3>1. \A ip \in Ips : Simulator(ip)' = IF ip \in {i} THEN s ELSE Simulator(ip)
      BY <1>5, <2>8
    <3>2. Sim' = [ip \in Ips |-> IF ip \in {i} THEN s ELSE Sim[ip]]
      BY <3>1
    <3>3. QED
      BY <3>2, AnyHands DEF Atomic!Become, Atomic!Hands
  <2> HIDE DEF Sim, Hand, t
  <2>9. CASE op'[o].pc = "unrowing"
    <3>1. Atomic!Become({i}, NoSimulator)
      BY <2>7, <2>8, <2>9
    <3>2. Atomic!Delete(o, i)
      BY <2>3, <2>4, <3>1 DEF Atomic!Delete, Sim, Hand
    <3>3. QED
      BY <3>2 DEF Atomic!Next
  <2>10. CASE op'[o].pc # "unrowing"
    <3>1. Atomic!Become({i}, [map |-> row[i], tpl |-> t])
      BY <2>7, <2>8, <2>10
    <3>2. Atomic!Change(o, i, t)
      BY <2>3, <2>4, <3>1 DEF Atomic!Change, Sim, Hand
    <3>3. t \in Templates
      <4>1. DeleteDevice(o, i) => Take(o, i, "unrowing")
        BY <1>3 DEF DeleteDevice
      <4>2. Take(o, i, "unrowing") => op'[o].pc = "unrowing"
        BY <1>1 DEF Take, Become, Requests
      <4>3. Withdraw(o, i)
        BY <2>10, <4>1, <4>2
      <4>4. PICK T : T \in Templates /\ op'[o] = [op[o] EXCEPT !.todo = @ \ {i}, !.made = {i}, !.pc = "creating",
                                                               !.tpl = T]
        <5>1. PICK T : /\ T = IF op[o].kind = "update" THEN op[o].tpl ELSE dev[UpdatedMap(o, i)][i]
                       /\ Become(o, [op[o] EXCEPT !.todo = @ \ {i}, !.made = {i}, !.pc = "creating", !.tpl = T])
          BY <1>3, <4>3 DEF Withdraw
        <5>2. op[o].kind # "update" => UpdatedMap(o, i) = row[i]
          BY <1>2, <2>2 DEF UpdatedMap, Home, Creates
        <5>3. T \in Templates
          BY <1>1, <2>2, <5>1, <5>2 DEF Requests
        <5>4. QED
          BY <1>1, <5>1, <5>3 DEF Become
      <4>5. QED
        BY <1>1, <4>4 DEF t, Requests
    <3>4. QED
      BY <3>2, <3>3 DEF Atomic!Next
  <2>11. QED
    BY <2>9, <2>10
<1>8. QED
  BY <1>6, <1>7

\* A crash loses what requests were working on, and no other simulator.
LEMMA ImplementsCrash ==
  ASSUME IInv, AgreeInv, \A o \in Ops : op[o].kind # "list", Crash
  PROVE  Atomic!Next
<1>1. /\ stray' = stray \cup {ip \in Ips : Busy(ip)} /\ UNCHANGED stores
      /\ op' = [o \in Ops |-> Idle] /\ stray \subseteq Ips
  BY DEF Crash, Mark, IInv, TypeOK
<1>2. ASSUME NEW ip \in Ips \ stray' PROVE Simulator(ip)' = Simulator(ip)
  <2>1. ip \notin stray /\ ~ Busy(ip) /\ ip \notin stray'
    BY <1>1, <1>2
  <2>2. InCharge(ip) = {}
    BY <2>1 DEF InCharge, Busy, Working
  <2>3. InCharge(ip)' = {}
    BY <1>1 DEF InCharge, Idle
  <2>4. QED
    BY <1>1, <2>1, <2>2, <2>3 DEF Simulator, stores, NoSimulator
<1>3. \A ip \in stray' \ stray : \E o \in Ops : Working(o, ip)
  BY <1>1 DEF Busy
<1>4. QED
  BY <1>1, <1>2, <1>3, ImplementsLose

\* Only a withdrawal puts a request in charge.
LEMMA NotTaken ==
  ASSUME IInv, NEW o \in Ops, NEW i \in Ips,
         MakeDevice(o, i) \/ MakeDeviceFails(o, i) \/ CleanUp(o, i) \/ Recreate(o, i)
  PROVE  ~ Took(op'[o], i)
<1>1. op[o] \in Requests /\ op \in [Ops -> Requests]
  BY DEF IInv, TypeOK
<1>2. CASE MakeDevice(o, i)
  <2>1. op[o].pc = "working" /\ op'[o] = [op[o] EXCEPT !.todo = @ \ {i}, !.made = @ \cup {i}]
    BY <1>1, <1>2 DEF MakeDevice, Next1, Become
  <2>2. op'[o].pc = "working"
    BY <1>1, <2>1 DEF Requests
  <2>3. QED
    BY <2>2 DEF Took
<1>3. CASE MakeDeviceFails(o, i) \/ CleanUp(o, i)
  <2>1. op[o].pc \in {"working", "cleaning"} /\ (Drop(o, i) \/ Become(o, Idle))
    BY <1>3 DEF MakeDeviceFails, CleanUp, Next1, Finish
  <2>2. Drop(o, i) => op'[o].pc = op[o].pc
    BY <1>1 DEF Drop, Become, Requests
  <2>3. Become(o, Idle) => op'[o].pc = "idle"
    BY <1>1 DEF Become, Idle
  <2>4. QED
    BY <2>1, <2>2, <2>3 DEF Took
<1>4. CASE Recreate(o, i)
  <2>1. PutDown(o) \/ Goto(o, "saving")
    BY <1>4 DEF Recreate
  <2>2. PutDown(o) => op'[o].pc = "working"
    BY <1>1 DEF PutDown, Become, Requests
  <2>3. Goto(o, "saving") => op'[o].pc = "saving"
    BY <1>1 DEF Goto, Requests
  <2>4. QED
    BY <2>1, <2>2, <2>3 DEF Took
<1>5. QED
  BY <1>2, <1>3, <1>4

\* Every step is one of AtomicSimulators.
LEMMA ImplementsStep ==
  ASSUME "list" \notin Kinds, IInv, AgreeInv, MadeAsAsked, Next
  PROVE  Atomic!Next
<1>1. \A o \in Ops : op[o].kind # "list" /\ op[o].pc \notin {"snapped", "pruning"}
  BY DEF IInv, LockedWell, RequestsOk, PhaseFits
<1>2. stray \subseteq Ips /\ stray' \subseteq Ips
  BY TypeNext DEF IInv, LockedWell, TypeOK
<1>3. ASSUME NEW o \in Ops, NewRequest(o) \/ Progress(o) PROVE Atomic!Next
  <2>1. stray \subseteq stray'
    BY <1>1, <1>2, <1>3, StrayStays
  <2>2. ASSUME ~ Commit(o), \A ip \in Ips \ stray' : Simulator(ip)' = Simulator(ip)
        PROVE  Atomic!Next
    <3>1. \A ip \in stray' \ stray : Working(o, ip)
      BY <1>1, <1>2, <1>3, MarksOwn
    <3>2. QED
      BY <1>2, <2>1, <2>2, <3>1, ImplementsLose
  <2>3. CASE Commit(o)
    BY <1>1, <2>3, ImplementsCreate
  <2>4. CASE \E i \in Ips : (DeleteDevice(o, i) \/ Withdraw(o, i)) /\ Took(op'[o], i)
    BY <1>1, <2>4, ImplementsWithdrawal
  <2>5. ASSUME ~ Commit(o), NEW i \in Ips,
               \/ MakeDevice(o, i) \/ MakeDeviceFails(o, i) \/ CleanUp(o, i)
               \/ DeleteDevice(o, i) \/ Withdraw(o, i) \/ Recreate(o, i),
               ~ Took(op'[o], i)
        PROVE  Atomic!Next
    <3>1. ASSUME NEW ip \in Ips \ stray' PROVE Simulator(ip)' = Simulator(ip)
      <4>1. ip \notin stray /\ ip \notin stray' /\ Agrees(ip)
        BY <2>1, <3>1 DEF AgreeInv
      <4>2. QED
        BY <2>5, <4>1, DeviceSimulator
    <3>2. QED
      BY <2>2, <2>5, <3>1
  <2>6. ASSUME ~ Commit(o),
               \/ NewRequest(o)
               \/ CheckStream(o) \/ Enter(o) \/ Refuse(o) \/ Done(o)
               \/ CommitUnread(o) \/ CommitFails(o) \/ ClientGone(o)
               \/ DeleteRow(o) \/ Unlist(o) \/ SaveRowFails(o)
               \/ \E i \in Ips : SaveRow(o, i)
        PROVE  Atomic!Next
    <3>1. ASSUME NEW ip \in Ips \ stray' PROVE Simulator(ip)' = Simulator(ip)
      <4>1. ip \notin stray /\ ip \notin stray' /\ Agrees(ip)
        BY <2>1, <3>1 DEF AgreeInv
      <4>2. QED
        BY <1>1, <2>6, <4>1, QuietSimulator
    <3>2. QED
      BY <2>2, <2>6, <3>1
  <2>7. ~ Upsert(o) /\ ~ Prune(o) /\ ~ ListFails(o)
    BY <1>1 DEF Upsert, Prune, ListFails
  <2>8. \A i \in Ips : MakeDevice(o, i) \/ MakeDeviceFails(o, i) \/ CleanUp(o, i) \/ Recreate(o, i)
                         => ~ Took(op'[o], i)
    BY NotTaken
  <2>9. QED
    BY <1>3, <2>3, <2>4, <2>5, <2>6, <2>7, <2>8 DEF Progress
<1>4. CASE Crash
  BY <1>1, <1>4, ImplementsCrash
<1>5. QED
  BY <1>3, <1>4 DEF Next

\* At first there is no simulator, and no request has anything in hand.
LEMMA ImplementsInit == Init => Atomic!Init
<1> SUFFICES ASSUME Init PROVE Atomic!Init
  OBVIOUS
<1>1. \A ip \in Ips : Simulator(ip) = NoSimulator
  BY DEF Init, Simulator, Nowhere
<1>2. \A o \in Ops : {ip \in Ips : Working(o, ip)} = {}
  BY DEF Init, Working, Idle
<1>3. QED
  BY <1>1, <1>2 DEF Atomic!Init

\* Where nothing changes, no simulator does.
LEMMA ImplementsStutter == UNCHANGED vars => UNCHANGED Atomic!vars
<1> SUFFICES ASSUME UNCHANGED vars PROVE UNCHANGED Atomic!vars
  OBVIOUS
<1>1. UNCHANGED <<op, row, dev, stray>>
  BY DEF vars
<1>2. \A ip \in Ips : InCharge(ip)' = InCharge(ip)
  BY <1>1 DEF InCharge
<1>3. \A ip \in Ips : Simulator(ip)' = Simulator(ip)
  BY <1>1, <1>2 DEF Simulator, NoSimulator, LostSimulator
<1>4. \A o \in Ops, ip \in Ips : Working(o, ip)' = Working(o, ip)
  BY <1>1 DEF Working
<1>5. QED
  BY <1>3, <1>4 DEF Atomic!vars

\* As long as no streaming create that waits would find a row in the end, and
\* nobody lists, the handlers implement AtomicSimulators: whatever fails or
\* crashes in whatever order, creates take effect at their commit, deletes with
\* the device and updates with the withdrawal of the old one.
THEOREM ImplementsAtomicIfStreamsFree ==
  ASSUME "list" \notin Kinds
  PROVE  Spec /\ []StreamsFree => ImplementsAtomicSimulators
<1>1. IInv /\ AgreeInv /\ MadeAsAsked /\ [Next]_vars => [Atomic!Next]_(Atomic!vars)
  BY ImplementsStep, ImplementsStutter
<1>2. IInv => ListsAlone /\ Snapshots
  BY NoLists
<1>3. IInv /\ AgreeInv /\ MadeAsAsked /\ [Next]_vars => MadeAsAsked'
  BY MadeNext
<1>4. QED
  BY <1>1, <1>2, <1>3, InvInit, InvNext, AgreeInit, AgreeNext, MadeInit, ImplementsInit, PTL
     DEF Spec, ImplementsAtomicSimulators, Atomic!Spec

\* Without streaming creates that is so unconditionally.
THEOREM ImplementsAtomicSimulatorsHolds ==
  ASSUME "list" \notin Kinds, "stream" \notin Kinds
  PROVE  Spec => ImplementsAtomicSimulators
<1>1. IInv => StreamsFree
  BY DEF IInv, LockedWell, RequestsOk, PhaseFits, StreamsFree
<1>2. Spec /\ []StreamsFree => ImplementsAtomicSimulators
  BY ImplementsAtomicIfStreamsFree
<1>3. QED
  BY <1>1, <1>2, InvInit, InvNext, PTL DEF Spec

\* Nor do streaming creates matter as long as no two requests in progress name
\* the same address.
THEOREM ImplementsAtomicIfApart ==
  ASSUME "list" \notin Kinds
  PROVE  Spec /\ []AddressesApart => ImplementsAtomicSimulators
<1>1. IInv /\ ServedInv => StreamsFree
  BY ServedImplies
<1>2. IInv => ListsAlone /\ Snapshots
  BY NoLists
<1>3. Spec /\ []StreamsFree => ImplementsAtomicSimulators
  BY ImplementsAtomicIfStreamsFree
<1>4. QED
  BY <1>1, <1>2, <1>3, InvInit, InvNext, AgreeInit, AgreeNext, ServedInit, ServedNext, PTL DEF Spec
=============================================================================
