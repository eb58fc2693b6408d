----------------------------- MODULE MapControl -----------------------------
(***************************************************************************)
(* The handlers of backend/app/routes/sapro.py that create, start and stop *)
(* maps and start, stop and restart simulators, with the host commands of  *)
(* sapro_client.py behind them.  They run in threads.  start and stop hold *)
(* the map's lock (MapLock); create_map holds none, reads the workspace    *)
(* file, writes the map's file and writes the workspace file back as it    *)
(* read it plus one entry.  start_simulator gives the lock back before it  *)
(* waits for its devices and writes their rows.                            *)
(***************************************************************************)
EXTENDS Integers, FiniteSets

CONSTANTS Handlers,  \* threads with a request
          NoHandler, \* the holder of a free lock
          Maps,      \* map names of one workspace; a simulator for each
          MaxRequests    \* bound on the number of requests

ASSUME MapAssumption == NoHandler \notin Handlers /\ Maps # {} /\ MaxRequests \in Nat

VARIABLES
  req,        \* req[h]: [op, at, map, view, result] of the request of h
  asks,       \* number of requests so far
  lock,       \* lock[m]: who holds the map's lock
  map,        \* map[m]: "stopped", "starting" or "running" on the host
  sim,        \* sim[m]: the state of the simulator on map m
  row,        \* row[m]: the status in its database row
  entries,    \* the maps named in the workspace file
  mapFile,    \* mapFile[m]: "none", "empty" or "devices"
  mishap,     \* two creates overlapped, or one failed half-way
  emptied     \* the maps whose devices a create has lost

mapVars == <<req, asks, lock, map, sim, row, entries, mapFile, mishap, emptied>>

Ops    == {"startMap", "stopMap", "createMap", "startSim", "stopSim", "restartSim"}
Locked == Ops \ {"createMap"}
States == {"stopped", "starting", "running"}
Places == {"idle", "lock", "command", "wait", "refresh", "read", "file", "entry"}
MapRequests == [op : Ops, at : Places, map : Maps, view : SUBSET Maps,
                result : {"none", "ok", "failed"}]

MapTypeOK ==
  /\ req \in [Handlers -> MapRequests]
  /\ asks \in 0 .. MaxRequests
  /\ lock \in [Maps -> Handlers \cup {NoHandler}]
  /\ map \in [Maps -> States] /\ sim \in [Maps -> States]
  /\ row \in [Maps -> {"unknown", "running"}]
  /\ entries \subseteq Maps /\ emptied \subseteq Maps
  /\ mapFile \in [Maps -> {"none", "empty", "devices"}]
  /\ mishap \in BOOLEAN

MapInit ==
  /\ req = [h \in Handlers |-> [op |-> "startMap", at |-> "idle", map |-> CHOOSE m \in Maps : TRUE,
                                view |-> {}, result |-> "none"]]
  /\ asks = 0
  /\ lock = [m \in Maps |-> NoHandler]
  /\ map = [m \in Maps |-> "stopped"]
  /\ sim = [m \in Maps |-> "stopped"]
  /\ row = [m \in Maps |-> "unknown"]
  /\ entries \in SUBSET Maps
  /\ mapFile = [m \in Maps |-> IF m \in entries THEN "devices" ELSE "none"]
  /\ mishap = FALSE
  /\ emptied = {}

Doing(h, op, at) == req[h].op = op /\ req[h].at = at
Map(h)           == req[h].map
Goto(h, at)      == req' = [req EXCEPT ![h].at = at]
End(h, r)        == req' = [req EXCEPT ![h].at = "idle", ![h].result = r]
Free(h)          == lock' = [lock EXCEPT ![Map(h)] = NoHandler]

WorkspaceUnchanged == UNCHANGED <<entries, mapFile, mishap, emptied>>
HostUnchanged      == UNCHANGED <<map, sim, row>>

-----------------------------------------------------------------------------
\* A request; a locked one asks for its map's lock.
Request(h, op, m) ==
  /\ req[h].at = "idle"
  /\ asks < MaxRequests
  /\ asks' = asks + 1
  /\ req' = [req EXCEPT ![h] = [op |-> op, at |-> IF op \in Locked THEN "lock" ELSE "read",
                                map |-> m, view |-> {}, result |-> "none"]]
  /\ UNCHANGED lock /\ HostUnchanged /\ WorkspaceUnchanged

\* The routes: one request each, for a map or for the simulator on it.
RequestStartMap(h)   == \E m \in Maps : Request(h, "startMap", m)
RequestStopMap(h)    == \E m \in Maps : Request(h, "stopMap", m)
RequestCreateMap(h)  == \E m \in Maps : Request(h, "createMap", m)
RequestStartSim(h)   == \E m \in Maps : Request(h, "startSim", m)
RequestStopSim(h)    == \E m \in Maps : Request(h, "stopSim", m)
RequestRestartSim(h) == \E m \in Maps : Request(h, "restartSim", m)

EnterLockedAnyway(h) ==
  /\ req[h].at = "lock"
  /\ lock' = [lock EXCEPT ![Map(h)] = h]
  /\ Goto(h, "command")
  /\ UNCHANGED asks /\ HostUnchanged /\ WorkspaceUnchanged
EnterLocked(h) ==
  /\ req[h].at = "lock"
  /\ lock[Map(h)] = NoHandler
  /\ lock' = [lock EXCEPT ![Map(h)] = h]
  /\ Goto(h, "command")
  /\ UNCHANGED asks /\ HostUnchanged /\ WorkspaceUnchanged

\* No path, a failing command, an answer without the expected text, a timeout
\* or a status that cannot be read: the request fails, wherever it is.
Fail(h) ==
  /\ req[h].at = "command" \/ Doing(h, "startMap", "wait")
  /\ End(h, "failed")
  /\ Free(h)
  /\ UNCHANGED asks /\ HostUnchanged /\ WorkspaceUnchanged

\* start_map_and_wait: the command returns at once ...
StartMap(h) ==
  /\ Doing(h, "startMap", "command")
  /\ map' = [map EXCEPT ![Map(h)] = IF @ = "stopped" THEN "starting" ELSE @]
  /\ Goto(h, "wait")
  /\ UNCHANGED <<asks, lock, sim, row>> /\ WorkspaceUnchanged

\* ... and the status is read every two seconds until it says running.
MapIsUp(h) ==
  /\ Doing(h, "startMap", "wait")
  /\ map[Map(h)] = "running"
  /\ End(h, "ok")
  /\ Free(h)
  /\ UNCHANGED asks /\ HostUnchanged /\ WorkspaceUnchanged

\* stop_map_and_wait blocks until the map has ended; its answer may be lost.
StopMap(h) ==
  /\ Doing(h, "stopMap", "command")
  /\ map' = [map EXCEPT ![Map(h)] = "stopped"]
  /\ sim' = [sim EXCEPT ![Map(h)] = "stopped"]
  /\ \E r \in {"ok", "failed"} : End(h, r)
  /\ Free(h)
  /\ UNCHANGED <<asks, row>> /\ WorkspaceUnchanged

\* startdev under the lock; the wait comes after it.
StartSim(h) ==
  /\ Doing(h, "startSim", "command")
  /\ map[Map(h)] = "running"
  /\ sim' = [sim EXCEPT ![Map(h)] = IF @ = "stopped" THEN "starting" ELSE @]
  /\ Goto(h, "refresh")
  /\ Free(h)
  /\ UNCHANGED <<asks, map, row>> /\ WorkspaceUnchanged

\* wait_for_device_running and the SNMP query, in a thread per device: when
\* they are over, up or timed out, the row says running; a commit that fails,
\* or a row that is gone, is not in the answer.
RefreshRow(h) ==
  /\ Doing(h, "startSim", "refresh")
  /\ row' \in {row, [row EXCEPT ![Map(h)] = "running"]}
  /\ End(h, "ok")
  /\ UNCHANGED <<asks, lock, map, sim>> /\ WorkspaceUnchanged

StopSim(h) ==
  /\ Doing(h, "stopSim", "command")
  /\ sim' = [sim EXCEPT ![Map(h)] = "stopped"]
  /\ End(h, "ok")
  /\ Free(h)
  /\ UNCHANGED <<asks, map, row>> /\ WorkspaceUnchanged

RestartSim(h) ==
  /\ Doing(h, "restartSim", "command")
  /\ map[Map(h)] = "running"
  /\ sim' = [sim EXCEPT ![Map(h)] = "starting"]
  /\ End(h, "ok")
  /\ Free(h)
  /\ UNCHANGED <<asks, map, row>> /\ WorkspaceUnchanged

-----------------------------------------------------------------------------
(* create_map.                                                             *)

\* The workspace file is read; a map that it names is not created again.
ReadWorkspaceUnchecked(h) ==
  /\ Doing(h, "createMap", "read")
  /\ \/ req' = [req EXCEPT ![h].at = "file", ![h].view = entries]
     \/ End(h, "failed")
  /\ mishap' = (mishap \/ \E g \in Handlers : req[g].at \in {"file", "entry"})
  /\ UNCHANGED <<asks, lock, entries, mapFile, emptied>> /\ HostUnchanged
ReadWorkspace(h) ==
  /\ Doing(h, "createMap", "read")
  /\ \/ /\ Map(h) \notin entries
        /\ req' = [req EXCEPT ![h].at = "file", ![h].view = entries]
     \/ End(h, "failed")
  /\ mishap' = (mishap \/ \E g \in Handlers : req[g].at \in {"file", "entry"})
  /\ UNCHANGED <<asks, lock, entries, mapFile, emptied>> /\ HostUnchanged

\* The map's file is written, empty, whatever is there.
WriteMapFile(h) ==
  /\ Doing(h, "createMap", "file")
  /\ mapFile' = [mapFile EXCEPT ![Map(h)] = "empty"]
  /\ emptied' = IF mapFile[Map(h)] = "devices" THEN emptied \cup {Map(h)} ELSE emptied
  /\ Goto(h, "entry")
  /\ UNCHANGED <<asks, lock, entries, mishap>> /\ HostUnchanged

\* The workspace file is written back as it was read, with the new entry.
WriteWorkspace(h) ==
  /\ Doing(h, "createMap", "entry")
  /\ entries' = req[h].view \cup {Map(h)}
  /\ End(h, "ok")
  /\ UNCHANGED <<asks, lock, mapFile, mishap, emptied>> /\ HostUnchanged

\* One of the two writes fails, or the file has no place for the entry.
CreateFails(h) ==
  /\ req[h].op = "createMap" /\ req[h].at \in {"file", "entry"}
  /\ End(h, "failed")
  /\ mishap' = TRUE
  /\ UNCHANGED <<asks, lock, entries, mapFile, emptied>> /\ HostUnchanged

-----------------------------------------------------------------------------
(* The Sapro host, and the handlers that create devices on a map.          *)

MapComesUp(m) ==
  /\ map[m] = "starting"
  /\ map' = [map EXCEPT ![m] = "running"]
  /\ UNCHANGED <<req, asks, lock, sim, row>> /\ WorkspaceUnchanged

SimComesUp(m) ==
  /\ sim[m] = "starting"
  /\ sim' = [sim EXCEPT ![m] = "running"]
  /\ UNCHANGED <<req, asks, lock, map, row>> /\ WorkspaceUnchanged

AddDevice(m) ==
  /\ mapFile[m] = "empty"
  /\ mapFile' = [mapFile EXCEPT ![m] = "devices"]
  /\ UNCHANGED <<req, asks, lock, entries, mishap, emptied>> /\ HostUnchanged

Ask(h) ==
  \/ RequestStartMap(h)
  \/ RequestStopMap(h)
  \/ RequestCreateMap(h)
  \/ RequestStartSim(h)
  \/ RequestStopSim(h)
  \/ RequestRestartSim(h)

HandlerStep(h) ==
  \/ EnterLocked(h)
  \/ Fail(h)
  \/ StartMap(h)
  \/ MapIsUp(h)
  \/ StopMap(h)
  \/ StartSim(h)
  \/ RefreshRow(h)
  \/ StopSim(h)
  \/ RestartSim(h)
  \/ ReadWorkspace(h)
  \/ WriteMapFile(h)
  \/ WriteWorkspace(h)
  \/ CreateFails(h)

MapNext ==
  \/ \E h \in Handlers : Ask(h) \/ HandlerStep(h)
  \/ \E m \in Maps : MapComesUp(m) \/ SimComesUp(m) \/ AddDevice(m)

MapSpec == MapInit /\ [][MapNext]_mapVars

-----------------------------------------------------------------------------
(* Properties.                                                             *)

\* While a start waits for its map, no other handler sends a command to this map.
StartIsUndisturbed ==
  \A g, h \in Handlers :
    Doing(h, "startMap", "wait") /\ g # h /\ Map(g) = Map(h) => req[g].at # "command"

\* Unless two creates overlapped or one failed half-way, no create has emptied
\* a map with devices in it, and no map with a file is missing in the workspace.
MapsSurviveCreates ==
  ~ mishap =>
    /\ emptied = {}
    /\ \A m \in Maps : mapFile[m] # "none" =>
         m \in entries \/ \E h \in Handlers : Doing(h, "createMap", "entry") /\ Map(h) = m
=============================================================================
