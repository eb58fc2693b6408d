------------------------- MODULE SimulatorRegistry -------------------------
(***************************************************************************)
(* The simulator handlers of the Sapro routes                              *)
(* (backend/app/routes/sapro.py, with the device commands of               *)
(* modules/sapro/sapro_client.py).  A simulator lives in three stores that *)
(* no transaction spans: a device in a map of the Sapro host, a row of the *)
(* simulators table, and a proxy_listeners document when its template has  *)
(* no SOAP section.  The handlers change them one after the other, under   *)
(* the exclusive maps that module ExclusiveMaps promises and MapLock       *)
(* implements; each call to a store may fail, and the backend may crash.   *)
(***************************************************************************)
CONSTANTS Ips,    \* simulator addresses
          Maps,   \* Sapro maps
          Ops,    \* requests that may be in progress at once
          NoMap,  \* value for "no row" and "no device seen"
          Kinds   \* the kinds of request the clients send

Creates == {"single", "range", "stream"}
AllKinds == Creates \cup {"delete", "update", "fields", "list"}

ASSUME RegistryAssumption == NoMap \notin Maps /\ Kinds \subseteq AllKinds

VARIABLES
  dev,     \* dev[m][ip]: the device ip of map m, by its template; "none" if absent
  row,     \* row[ip]: the map that the row of simulator ip names
  ear,     \* the addresses with a proxy_listeners document
  op,      \* op[o]: the request in progress
  asked,   \* the map locks, as module ExclusiveMaps has them
  inside,
  stray,   \* addresses where a failure may have left device and row at odds
  mute     \* addresses where a failure may have left the listener out

vars == <<dev, row, ear, op, asked, inside, stray, mute>>
locks == <<asked, inside>>
stores == <<dev, row, ear>>

Locks == INSTANCE ExclusiveMaps WITH Procs <- Ops

Templates == {"soap", "bare"}
MapOrNone == Maps \cup {NoMap}

\* todo: what is left of the request's addresses.  made: successful_ips of a
\* create, the addresses with a device a list does not see, else the one in hand.
\* seen: the map of each address as the request read it.
Phases == {"idle", "checking", "locking", "working", "cleaning", "unrowing", "unlisting",
           "creating", "saving", "snapped", "pruning"}
Requests == [kind : AllKinds \cup {"none"}, pc : Phases, tpl : Templates,
             map : MapOrNone, todo : SUBSET Ips, made : SUBSET Ips, seen : [Ips -> MapOrNone]]

TypeOK ==
  /\ dev \in [Maps -> [Ips -> Templates \cup {"none"}]]
  /\ row \in [Ips -> MapOrNone]
  /\ ear \in SUBSET Ips
  /\ op \in [Ops -> Requests]
  /\ Locks!TypeOK
  /\ stray \in SUBSET Ips
  /\ mute \in SUBSET Ips

Nowhere == [ip \in Ips |-> NoMap]
Idle == [kind |-> "none", pc |-> "idle", tpl |-> "soap", map |-> NoMap,
         todo |-> {}, made |-> {}, seen |-> Nowhere]

Init ==
  /\ dev = [m \in Maps |-> [ip \in Ips |-> "none"]]
  /\ row = Nowhere
  /\ ear = {}
  /\ op = [o \in Ops |-> Idle]
  /\ Locks!Init
  /\ stray = {}
  /\ mute = {}

-----------------------------------------------------------------------------
(* The device commands, and what they leave behind.                        *)

\* create_device succeeds: also on a device that is there already.
CreateOk(m, ip, t) ==
  dev' = IF dev[m][ip] = "none" THEN [dev EXCEPT ![m][ip] = t] ELSE dev

\* It reports a failure; the device may have been added but not be running.
CreateFails(m, ip, t) == UNCHANGED dev \/ CreateOk(m, ip, t)

\* delete_device succeeds on a device that is there ...
DeleteOk(m, ip) ==
  /\ dev[m][ip] # "none"
  /\ dev' = [dev EXCEPT ![m][ip] = "none"]

\* ... and reports a failure when it is not, or when an answer is lost.
DeleteFails(m, ip) == UNCHANGED dev \/ DeleteOk(m, ip)

Mark(S) == stray' = stray \cup S /\ mute' = mute \cup S
MarkIfChanged(ip) == Mark(IF dev' = dev THEN {} ELSE {ip})
Unmarked == UNCHANGED <<stray, mute>>

\* register_proxy_listener for the addresses S of template t, which may fail.
Register(t, S) ==
  \/ t = "soap" /\ UNCHANGED <<ear, mute>>
  \/ t = "bare" /\ ear' = ear \cup S /\ mute' = mute \ S
  \/ t = "bare" /\ UNCHANGED ear /\ mute' = mute \cup S

Become(o, r) == op' = [op EXCEPT ![o] = r]
Goto(o, l) == op' = [op EXCEPT ![o].pc = l]

\* The handler returns or raises: its with statement releases the maps.
Finish(o) == Become(o, Idle) /\ Locks!Leave(o)

\* The list of addresses is worked off one by one (their order is irrelevant here).
Next1(o, ip) == op[o].pc = "working" /\ ip \in op[o].todo
Drop(o, ip) == Become(o, [op[o] EXCEPT !.todo = @ \ {ip}])
Take(o, ip, l) == Become(o, [op[o] EXCEPT !.todo = @ \ {ip}, !.made = {ip}, !.pc = l])
PutDown(o) == Become(o, [op[o] EXCEPT !.made = {}, !.pc = "working"])

-----------------------------------------------------------------------------
(* Requests, and their way into the maps.                                  *)

IsRange(S) == \E a, b \in S : a # b
Existing(o) == \E ip \in op[o].todo : row[ip] # NoMap

\* A create names one map; a streaming create looks at the table before it
\* takes the map, the others do so when they have it.
RequestCreate(o, k, S, m, t) ==
  /\ op[o].pc = "idle"
  /\ k \in Creates \cap Kinds
  /\ S # {} /\ (k = "range" => IsRange(S)) /\ (k = "single" => ~ IsRange(S))
  /\ Become(o, [Idle EXCEPT !.kind = k, !.tpl = t, !.map = m, !.todo = S,
                            !.pc = IF k = "stream" THEN "checking" ELSE "locking"])
  /\ IF k = "stream" THEN UNCHANGED locks ELSE Locks!Ask(o, {m})
  /\ UNCHANGED stores /\ Unmarked

CheckStream(o) ==
  /\ op[o].pc = "checking"
  /\ IF Existing(o) THEN Become(o, Idle) /\ UNCHANGED locks
                    ELSE Goto(o, "locking") /\ Locks!Ask(o, {op[o].map})
  /\ UNCHANGED stores /\ Unmarked

\* delete and update-fields read the rows first, pass over addresses without
\* one, and take the maps the others name.
RequestRows(o, k, S) ==
  /\ op[o].pc = "idle"
  /\ k \in {"delete", "fields"} \cap Kinds
  /\ S # {} /\ \A ip \in S : row[ip] # NoMap
  /\ Become(o, [Idle EXCEPT !.kind = k, !.pc = "locking", !.todo = S, !.seen = row])
  /\ Locks!Ask(o, {row[ip] : ip \in S})
  /\ UNCHANGED stores /\ Unmarked

\* update_simulator: the old map and the new one.
RequestUpdate(o, ip, m, t) ==
  /\ op[o].pc = "idle"
  /\ "update" \in Kinds
  /\ row[ip] # NoMap
  /\ Become(o, [Idle EXCEPT !.kind = "update", !.pc = "locking", !.tpl = t, !.map = m,
                            !.todo = {ip}, !.seen = row])
  /\ Locks!Ask(o, {row[ip], m})
  /\ UNCHANGED stores /\ Unmarked

\* The request is inside its maps.  A create finds none of its rows.
EnterUnchecked(o) ==
  /\ op[o].pc = "locking"
  /\ Locks!Enter(o)
  /\ Goto(o, "working")
  /\ UNCHANGED stores /\ Unmarked
Enter(o) ==
  /\ op[o].pc = "locking"
  /\ op[o].kind \in {"single", "range"} => ~ Existing(o)
  /\ Locks!Enter(o)
  /\ Goto(o, "working")
  /\ UNCHANGED stores /\ Unmarked

\* 409: the maps are busy for too long, or a row exists already; or no map path.
Refuse(o) ==
  /\ op[o].pc = "locking"
  /\ Finish(o)
  /\ UNCHANGED stores /\ Unmarked

\* Nothing is left to do, and nothing to save.
Done(o) ==
  /\ op[o].pc = "working" /\ op[o].todo = {} /\ op[o].made = {}
  /\ Finish(o)
  /\ UNCHANGED stores /\ Unmarked

-----------------------------------------------------------------------------
(* create_simulator and create_simulator_stream.                           *)

\* A range registers the listener with the device, a single create after its row.
MakeDevice(o, ip) ==
  /\ Next1(o, ip) /\ op[o].kind \in Creates
  /\ CreateOk(op[o].map, ip, op[o].tpl)
  /\ Become(o, [op[o] EXCEPT !.todo = @ \ {ip}, !.made = @ \cup {ip}])
  /\ IF op[o].kind = "single" THEN UNCHANGED <<ear, mute>> ELSE Register(op[o].tpl, {ip})
  /\ UNCHANGED <<row, stray, locks>>

MakeDeviceFails(o, ip) ==
  /\ Next1(o, ip) /\ op[o].kind \in Creates
  /\ CreateFails(op[o].map, ip, op[o].tpl)
  /\ MarkIfChanged(ip)
  /\ Drop(o, ip)
  /\ UNCHANGED <<row, ear, locks>>

Saving(o) ==
  /\ op[o].kind \in Creates /\ op[o].pc = "working"
  /\ op[o].todo = {} /\ op[o].made # {}

CommitEach(o) ==
  /\ Saving(o)
  /\ \E ip \in op[o].made :
       /\ row[ip] = NoMap
       /\ row' = [row EXCEPT ![ip] = op[o].map]
       /\ IF op[o].kind = "single" THEN Register(op[o].tpl, {ip}) ELSE UNCHANGED <<ear, mute>>
       /\ IF op[o].made = {ip} THEN Finish(o)
          ELSE Become(o, [op[o] EXCEPT !.made = @ \ {ip}]) /\ UNCHANGED locks
  /\ UNCHANGED <<dev, stray>>
\* One commit for all rows: the primary key admits them only if all are new.
Commit(o) ==
  /\ Saving(o)
  /\ \A ip \in op[o].made : row[ip] = NoMap
  /\ row' = [ip \in Ips |-> IF ip \in op[o].made THEN op[o].map ELSE row[ip]]
  /\ IF op[o].kind = "single" THEN Register(op[o].tpl, op[o].made) ELSE UNCHANGED <<ear, mute>>
  /\ Finish(o)
  /\ UNCHANGED <<dev, stray>>

\* The commit goes through, but reading the rows back fails: the handler takes
\* that for a failed commit, and takes back the devices of rows that stay.
CommitUnread(o) ==
  /\ Saving(o)
  /\ \A ip \in op[o].made : row[ip] = NoMap
  /\ row' = [ip \in Ips |-> IF ip \in op[o].made THEN op[o].map ELSE row[ip]]
  /\ Become(o, [op[o] EXCEPT !.todo = op[o].made, !.pc = "cleaning"])
  /\ Mark(op[o].made)
  /\ UNCHANGED <<dev, ear, locks>>

\* IntegrityError, or the database fails: take the devices back ...
CommitFailsKeepsDevices(o) ==
  /\ Saving(o)
  /\ Finish(o)
  /\ UNCHANGED stores /\ Unmarked
CommitFails(o) ==
  /\ Saving(o)
  /\ Become(o, [op[o] EXCEPT !.todo = op[o].made, !.pc = "cleaning"])
  /\ UNCHANGED <<stores, locks>> /\ Unmarked

\* ... as far as Sapro lets them go.
CleanUp(o, ip) ==
  /\ op[o].pc = "cleaning" /\ ip \in op[o].todo
  /\ DeleteOk(op[o].map, ip) \/ DeleteFails(op[o].map, ip)
  /\ Mark(IF dev'[op[o].map][ip] = "none" THEN {} ELSE {ip})
  /\ IF op[o].todo = {ip} THEN Finish(o) ELSE Drop(o, ip) /\ UNCHANGED locks
  /\ UNCHANGED <<row, ear>>

\* The client of a stream goes away: the generator ends at its yield, through
\* finally only.  (Before its first step: see MapLock.)
ClientGone(o) ==
  /\ op[o].kind = "stream" /\ op[o].pc = "working"
  /\ Mark(op[o].made)
  /\ Finish(o)
  /\ UNCHANGED stores

-----------------------------------------------------------------------------
(* delete_simulator.                                                       *)

DeleteDevice(o, ip) ==
  /\ Next1(o, ip) /\ op[o].kind = "delete"
  /\ \/ DeleteOk(op[o].seen[ip], ip) /\ Take(o, ip, "unrowing") /\ Unmarked
     \/ DeleteFails(op[o].seen[ip], ip) /\ Drop(o, ip) /\ MarkIfChanged(ip)
  /\ UNCHANGED <<row, ear, locks>>

DeleteRow(o) ==
  /\ op[o].pc = "unrowing"
  /\ \/ /\ row' = [ip \in Ips |-> IF ip \in op[o].made THEN NoMap ELSE row[ip]]
        /\ Goto(o, "unlisting")
        /\ Unmarked
     \/ PutDown(o) /\ Mark(op[o].made) /\ UNCHANGED row
  /\ UNCHANGED <<dev, ear, locks>>

\* An error of MongoDB ends the request, whatever is left to delete.
UnlistAnyhow(o) ==
  /\ op[o].pc = "unlisting"
  /\ ear' = {}
  /\ PutDown(o)
  /\ UNCHANGED <<dev, row, locks>> /\ Unmarked
Unlist(o) ==
  /\ op[o].pc = "unlisting"
  /\ \/ ear' = ear \ op[o].made /\ PutDown(o) /\ UNCHANGED locks
     \/ Finish(o) /\ UNCHANGED ear
  /\ UNCHANGED <<dev, row>> /\ Unmarked

-----------------------------------------------------------------------------
(* update_simulator and update_simulator_fields: delete and create again.  *)

UpdatedMap(o, ip) == IF op[o].kind = "update" THEN op[o].map ELSE op[o].seen[ip]

Withdraw(o, ip) ==
  LET m == UpdatedMap(o, ip) IN
  /\ Next1(o, ip) /\ op[o].kind \in {"update", "fields"}
  /\ \/ /\ DeleteOk(m, ip)
        /\ Become(o, [op[o] EXCEPT !.todo = @ \ {ip}, !.made = {ip}, !.pc = "creating",
                                   !.tpl = IF op[o].kind = "update" THEN @ ELSE dev[m][ip]])
        /\ Unmarked
     \/ DeleteFails(m, ip) /\ Drop(o, ip) /\ MarkIfChanged(ip)
  /\ UNCHANGED <<row, ear, locks>>

RecreateFailsUnseen(o, ip) ==
  LET m == UpdatedMap(o, ip) IN
  /\ op[o].pc = "creating" /\ ip \in op[o].made
  /\ CreateFails(m, ip, op[o].tpl) /\ Unmarked
  /\ IF op[o].kind = "update" THEN Goto(o, "saving") ELSE PutDown(o)
  /\ UNCHANGED <<row, ear, locks>>
Recreate(o, ip) ==
  LET m == UpdatedMap(o, ip) IN
  /\ op[o].pc = "creating" /\ ip \in op[o].made
  /\ \/ /\ CreateOk(m, ip, op[o].tpl) /\ Unmarked
        /\ IF op[o].kind = "update" THEN Goto(o, "saving") ELSE PutDown(o)
     \/ CreateFails(m, ip, op[o].tpl) /\ PutDown(o) /\ Mark({ip})
  /\ UNCHANGED <<row, ear, locks>>

\* The row, then the listener the new template needs or does not need.  Of the
\* row the session writes what differs from what the request had read.
SaveRow(o, ip) ==
  /\ op[o].pc = "saving" /\ ip \in op[o].made
  /\ row[ip] # NoMap
  /\ row' = IF op[o].map = op[o].seen[ip] THEN row ELSE [row EXCEPT ![ip] = op[o].map]
  /\ \/ op[o].tpl = "bare" /\ Register("bare", {ip})
     \/ op[o].tpl = "soap" /\ ear' \in {ear, ear \ {ip}} /\ UNCHANGED mute
  /\ Finish(o)
  /\ UNCHANGED <<dev, stray>>

\* The database fails, or the row is gone.
SaveRowFails(o) ==
  /\ op[o].pc = "saving"
  /\ Mark(op[o].made)
  /\ Finish(o)
  /\ UNCHANGED stores

-----------------------------------------------------------------------------
(* list_simulators: bring the rows in line with the devices.               *)

Holds(m, ip) == dev[m][ip] # "none"

\* get_all_devices skips the maps of other workspaces, those that do not run
\* and those it cannot read: R are the maps it reads.
ReadDevices(o, R, f) ==
  /\ op[o].pc = "idle"
  /\ "list" \in Kinds
  /\ \A ip \in Ips : IF \E m \in R : Holds(m, ip) THEN f[ip] \in R /\ Holds(f[ip], ip)
                                                  ELSE f[ip] = NoMap
  /\ Become(o, [Idle EXCEPT !.kind = "list", !.pc = "snapped", !.seen = f,
                            !.made = {ip \in Ips : \E m \in Maps \ {f[ip]} : Holds(m, ip)}])
  /\ UNCHANGED <<stores, locks>> /\ Unmarked

\* Under the simulator lock: upsert what was read ...
Upsert(o) ==
  /\ op[o].pc = "snapped"
  /\ \A p \in Ops : op[p].pc # "pruning"
  /\ row' = [ip \in Ips |-> IF op[o].seen[ip] = NoMap THEN row[ip] ELSE op[o].seen[ip]]
  /\ Goto(o, "pruning")
  /\ UNCHANGED <<dev, ear, locks>> /\ Unmarked

\* ... and delete every other row.  What has no device but the one seen is in line,
\* but no listener is registered for a row that had strayed.
Prune(o) ==
  /\ op[o].pc = "pruning"
  /\ row' = [ip \in Ips |-> IF op[o].seen[ip] = NoMap THEN NoMap ELSE row[ip]]
  /\ stray' = op[o].made
  /\ mute' = mute \cup stray
  /\ Become(o, Idle)
  /\ UNCHANGED <<dev, ear, locks>>

\* The lock times out, or the database fails: the request ends there.
ListFails(o) ==
  /\ op[o].pc \in {"snapped", "pruning"}
  /\ Become(o, Idle)
  /\ UNCHANGED <<stores, locks>> /\ Unmarked

-----------------------------------------------------------------------------
\* o works on ip, between its check and its answer.
Working(o, ip) ==
  /\ op[o].kind # "list"
  /\ op[o].pc \notin {"idle", "checking", "locking"}
  /\ ip \in op[o].todo \cup op[o].made
Busy(ip) == \E o \in Ops : Working(o, ip)

\* The backend dies: requests and locks are gone, the three stores stay.
Crash ==
  /\ \E o \in Ops : op[o].pc # "idle"
  /\ op' = [o \in Ops |-> Idle]
  /\ asked' = [o \in Ops |-> {}]
  /\ inside' = [o \in Ops |-> {}]
  /\ Mark({ip \in Ips : Busy(ip)})
  /\ UNCHANGED stores

NewRequest(o) ==
  \/ \E k \in Creates, S \in SUBSET Ips, m \in Maps, t \in Templates : RequestCreate(o, k, S, m, t)
  \/ \E k \in {"delete", "fields"}, S \in SUBSET Ips : RequestRows(o, k, S)
  \/ \E ip \in Ips, m \in Maps, t \in Templates : RequestUpdate(o, ip, m, t)
  \/ \E R \in SUBSET Maps, f \in [Ips -> MapOrNone] : ReadDevices(o, R, f)

Progress(o) ==
  \/ CheckStream(o) \/ Enter(o) \/ Refuse(o) \/ Done(o)
  \/ Commit(o) \/ CommitUnread(o) \/ CommitFails(o) \/ ClientGone(o)
  \/ DeleteRow(o) \/ Unlist(o) \/ SaveRowFails(o)
  \/ Upsert(o) \/ Prune(o) \/ ListFails(o)
  \/ \E ip \in Ips : \/ MakeDevice(o, ip) \/ MakeDeviceFails(o, ip) \/ CleanUp(o, ip)
                     \/ DeleteDevice(o, ip) \/ Withdraw(o, ip) \/ Recreate(o, ip)
                     \/ SaveRow(o, ip)

Next == \/ \E o \in Ops : NewRequest(o) \/ Progress(o)
        \/ Crash

Spec == Init /\ [][Next]_vars

-----------------------------------------------------------------------------
(* Properties.                                                             *)

\* A simulator that no request is working on has a row exactly if it has a
\* device, and the row names the device's map - unless a failure between two
\* stores put them at odds and no list has repaired it since.
StoresAgree ==
  \A ip \in Ips : ~ Busy(ip) /\ ip \notin stray =>
    IF \E m \in Maps : Holds(m, ip)
      THEN row[ip] # NoMap /\ Holds(row[ip], ip)
      ELSE row[ip] = NoMap

\* "Devices without a SOAP section need the sapro-proxy": such a simulator has
\* its listener, unless a failure kept it from being registered.
BareIsServed ==
  \A ip \in Ips : ~ Busy(ip) /\ ip \notin stray \cup mute /\ row[ip] # NoMap =>
    (dev[row[ip]][ip] = "bare" => ip \in ear)

\* A row that appears, or is moved to a map, names a device that is there at
\* that very moment: nobody can take it away between its creation and its row.
NewRowHasDevice ==
  [][\A ip \in Ips : row'[ip] \notin {row[ip], NoMap} => Holds(row'[ip], ip)]_vars

\* The simulators as a client may think of them.  A delete takes effect with the
\* device and an update with its withdrawal; a create with its rows.
InCharge(ip) == {o \in Ops : op[o].pc \in {"unrowing", "creating"} /\ ip \in op[o].made}

NoSimulator == [map |-> NoMap, tpl |-> "none"]
LostSimulator == [map |-> NoMap, tpl |-> "lost"]
Simulator(ip) ==
  IF ip \in stray THEN LostSimulator
  ELSE IF row[ip] = NoMap \/ \E o \in InCharge(ip) : op[o].pc = "unrowing" THEN NoSimulator
  ELSE IF InCharge(ip) = {} THEN [map |-> row[ip], tpl |-> dev[row[ip]][ip]]
  ELSE [map |-> row[ip], tpl |-> op[CHOOSE o \in InCharge(ip) : TRUE].tpl]

Atomic == INSTANCE AtomicSimulators WITH
            Absent <- NoSimulator, Lost <- LostSimulator,
            sim <- [ip \in Ips |-> Simulator(ip)],
            hand <- [o \in Ops |-> {ip \in Ips : Working(o, ip)}]

\* Although each request changes three stores one after the other, among others
\* that do so too, its effect is that of AtomicSimulators: a create's simulators
\* appear all at once where there were none, each changes or goes in one step and
\* stays on its map; and nothing happens to one that no request works on.
ImplementsAtomicSimulators == Atomic!Spec

\* What the handlers' documentation says and the model refutes.

\* "2. Check no existing IPs in DB ... 5. Persist successful ones to DB": an
\* address that a create found free, under the lock of the map, is still free
\* when it saves the row.
CheckedStaysFree ==
  \A o \in Ops : op[o].kind # "stream" /\ Saving(o) =>
    \A ip \in op[o].made : row[ip] = NoMap
=============================================================================
