----------------------------- MODULE HostProofs -----------------------------
(***************************************************************************)
(* What the work on the hosts guarantees for any number of threads, maps   *)
(* and pooled clients: a start that waits for its map has the map for      *)
(* itself, and the SSH clients neither share a connection nor send a       *)
(* command twice.                                                          *)
(***************************************************************************)
EXTENDS MCHost, FiniteSetTheorems, SequenceTheorems, TLAPS

(***************************************************************************)
(* The maps.  A handler at its command, and a start that waits, hold the   *)
(* lock of their map; two handlers of one map would hold it twice.         *)
(***************************************************************************)
HoldsLock ==
  \A h \in Handlers :
    req[h].at \in {"command", "wait"} => lock[Map(h)] = h

MapInv == MapTypeOK /\ HoldsLock

LEMMA MapInvInit == MapInit => MapInv
<1> SUFFICES ASSUME MapInit PROVE MapInv
  OBVIOUS
<1> DEFINE first == [op |-> "startMap", at |-> "idle", map |-> CHOOSE m \in Maps : TRUE,
                     view |-> {}, result |-> "none"]
<1>1. first \in MapRequests
  <2>1. (CHOOSE m \in Maps : TRUE) \in Maps
    BY MapAssumption
  <2>2. QED
    BY <2>1 DEF MapRequests, Ops, Places
<1>2. req = [h \in Handlers |-> first]
  BY DEF MapInit
<1>3. MapTypeOK
  <2>1. req \in [Handlers -> MapRequests]
    BY <1>1, <1>2
  <2>2. mapFile \in [Maps -> {"none", "empty", "devices"}]
    BY DEF MapInit
  <2>3. asks \in 0 .. MaxRequests
    BY MapAssumption DEF MapInit
  <2>4. QED
    BY <2>1, <2>2, <2>3 DEF MapInit, MapTypeOK, States
<1>4. HoldsLock
  BY <1>2 DEF HoldsLock
<1>5. QED
  BY <1>3, <1>4 DEF MapInv

\* What a request becomes when its handler moves on or ends.
LEMMA Moved ==
  ASSUME MapInv, NEW h \in Handlers, NEW at \in Places, Goto(h, at)
  PROVE  /\ req' \in [Handlers -> MapRequests]
         /\ req'[h].at = at /\ req'[h].map = req[h].map
         /\ \A g \in Handlers : g # h => req'[g] = req[g]
<1>1. req \in [Handlers -> MapRequests]
  BY DEF MapInv, MapTypeOK
<1>2. req' = [req EXCEPT ![h].at = at]
  BY DEF Goto
<1>3. QED
  BY <1>1, <1>2 DEF MapRequests

LEMMA Ended ==
  ASSUME MapInv, NEW h \in Handlers, NEW r \in {"ok", "failed"}, End(h, r)
  PROVE  /\ req' \in [Handlers -> MapRequests]
         /\ req'[h].at = "idle"
         /\ \A g \in Handlers : g # h => req'[g] = req[g]
<1>1. req \in [Handlers -> MapRequests]
  BY DEF MapInv, MapTypeOK
<1>2. req' = [req EXCEPT ![h].at = "idle", ![h].result = r]
  BY DEF End
<1>3. QED
  BY <1>1, <1>2 DEF MapRequests, Places

\* Giving back the map's lock takes it from no other handler that holds one: the
\* one that gives it back holds it.
LEMMA FreedKeeps ==
  ASSUME MapInv, NEW h \in Handlers, req[h].at \in {"command", "wait"}, Free(h),
         req'[h].at \in {"idle", "refresh"},
         \A g \in Handlers : g # h => req'[g] = req[g]
  PROVE  HoldsLock' /\ lock' \in [Maps -> Handlers \cup {NoHandler}]
<1>1. req \in [Handlers -> MapRequests] /\ lock \in [Maps -> Handlers \cup {NoHandler}]
  BY DEF MapInv, MapTypeOK
<1>2. \A g \in Handlers : req[g].map \in Maps
  BY <1>1 DEF MapRequests
<1>3. lock' = [lock EXCEPT ![req[h].map] = NoHandler] /\ lock[req[h].map] = h
  BY DEF Free, Map, MapInv, HoldsLock
<1>4. ASSUME NEW g \in Handlers, g # h, req[g].at \in {"command", "wait"}
      PROVE  lock'[req[g].map] = g
  BY <1>1, <1>2, <1>3, <1>4 DEF MapInv, HoldsLock, Map
<1>5. QED
  BY <1>1, <1>2, <1>3, <1>4 DEF MapInv, HoldsLock, Map

\* The steps that take a request and its lock.
LEMMA RequestKeeps ==
  ASSUME MapInv, NEW h \in Handlers, NEW op \in Ops, NEW m \in Maps, Request(h, op, m)
  PROVE  MapInv'
<1> DEFINE new == [op |-> op, at |-> IF op \in Locked THEN "lock" ELSE "read",
                   map |-> m, view |-> {}, result |-> "none"]
<1>1. new \in MapRequests /\ new.at \in {"lock", "read"}
  BY DEF MapRequests, Places
<1>2. req' = [req EXCEPT ![h] = new]
  BY DEF Request
<1> HIDE DEF new
<1>3. MapTypeOK'
  <2>1. req' \in [Handlers -> MapRequests]
    BY <1>1, <1>2 DEF MapInv, MapTypeOK
  <2>2. asks' \in 0 .. MaxRequests
    BY MapAssumption DEF Request, MapInv, MapTypeOK
  <2>3. QED
    BY <2>1, <2>2 DEF Request, MapInv, MapTypeOK, HostUnchanged, WorkspaceUnchanged
<1>4. HoldsLock'
  BY <1>1, <1>2 DEF Request, MapInv, MapTypeOK, HoldsLock, Map
<1>5. QED
  BY <1>3, <1>4 DEF MapInv

LEMMA EnterKeeps ==
  ASSUME MapInv, NEW h \in Handlers, EnterLocked(h)
  PROVE  MapInv'
<1>1. /\ req' \in [Handlers -> MapRequests]
      /\ req'[h].at = "command" /\ req'[h].map = req[h].map
      /\ \A g \in Handlers : g # h => req'[g] = req[g]
  <2>1. Goto(h, "command") /\ "command" \in Places
    BY DEF EnterLocked, Places
  <2>2. QED
    BY <2>1, Moved
<1>2. /\ lock \in [Maps -> Handlers \cup {NoHandler}] /\ req[h].map \in Maps
      /\ lock' = [lock EXCEPT ![req[h].map] = h] /\ lock[req[h].map] = NoHandler
  BY DEF MapInv, MapTypeOK, MapRequests, EnterLocked, Map
<1>3. MapTypeOK'
  BY <1>1, <1>2 DEF EnterLocked, MapInv, MapTypeOK, HostUnchanged, WorkspaceUnchanged
<1>4. HoldsLock'
  BY <1>1, <1>2, MapAssumption DEF MapInv, HoldsLock, Map
<1>5. QED
  BY <1>3, <1>4 DEF MapInv

\* The steps at a command and after it: what gives a lock back is its holder.
LEMMA CommandKeeps ==
  ASSUME MapInv, NEW h \in Handlers,
         \/ Fail(h) \/ StartMap(h) \/ MapIsUp(h) \/ StopMap(h)
         \/ StartSim(h) \/ RefreshRow(h) \/ StopSim(h) \/ RestartSim(h)
  PROVE  MapInv'
<1>1. req[h].map \in Maps
  BY DEF MapInv, MapTypeOK, MapRequests
<1>2. CASE Fail(h) \/ MapIsUp(h) \/ StopMap(h) \/ StopSim(h) \/ RestartSim(h)
  <2>1. PICK r \in {"ok", "failed"} : End(h, r)
    BY <1>2 DEF Fail, MapIsUp, StopMap, StopSim, RestartSim
  <2>2. req[h].at \in {"command", "wait"} /\ Free(h)
    BY <1>2 DEF Fail, MapIsUp, StopMap, StopSim, RestartSim, Doing
  <2>3. HoldsLock' /\ lock' \in [Maps -> Handlers \cup {NoHandler}]
    BY <2>1, <2>2, Ended, FreedKeeps
  <2>4. req' \in [Handlers -> MapRequests]
    BY <2>1, Ended
  <2>5. map' \in [Maps -> States] /\ sim' \in [Maps -> States]
    BY <1>2 DEF MapInv, MapTypeOK, States, Fail, MapIsUp, StopMap, StopSim, RestartSim,
                HostUnchanged
  <2>6. UNCHANGED <<asks, row, entries, mapFile, mishap, emptied>>
    BY <1>2 DEF Fail, MapIsUp, StopMap, StopSim, RestartSim, HostUnchanged, WorkspaceUnchanged
  <2>7. QED
    BY <2>3, <2>4, <2>5, <2>6 DEF MapInv, MapTypeOK
<1>3. CASE StartMap(h)
  <2>1. Goto(h, "wait") /\ "wait" \in Places
    BY <1>3 DEF StartMap, Places
  <2>2. map' \in [Maps -> States]
    BY <1>3 DEF StartMap, MapInv, MapTypeOK, States
  <2>3. MapTypeOK'
    BY <1>3, <2>1, <2>2, Moved DEF StartMap, MapInv, MapTypeOK, WorkspaceUnchanged
  <2>4. HoldsLock'
    BY <1>3, <2>1, Moved DEF StartMap, Doing, Map, MapInv, HoldsLock
  <2>5. QED
    BY <2>3, <2>4 DEF MapInv
<1>4. CASE StartSim(h)
  <2>1. Goto(h, "refresh") /\ "refresh" \in Places
    BY <1>4 DEF StartSim, Places
  <2>2. sim' \in [Maps -> States]
    BY <1>4 DEF StartSim, MapInv, MapTypeOK, States
  <2>3. req[h].at = "command" /\ Free(h)
    BY <1>4 DEF StartSim, Doing
  <2>4. HoldsLock' /\ lock' \in [Maps -> Handlers \cup {NoHandler}]
    BY <2>1, <2>3, Moved, FreedKeeps
  <2>5. MapTypeOK'
    BY <1>4, <2>1, <2>2, <2>4, Moved DEF StartSim, MapInv, MapTypeOK, WorkspaceUnchanged
  <2>6. QED
    BY <2>4, <2>5 DEF MapInv
<1>5. CASE RefreshRow(h)
  <2>1. End(h, "ok")
    BY <1>5 DEF RefreshRow
  <2>2. MapTypeOK'
    BY <1>1, <1>5, <2>1, Ended DEF RefreshRow, MapInv, MapTypeOK, WorkspaceUnchanged
  <2>3. HoldsLock'
    BY <1>5, <2>1, Ended DEF RefreshRow, MapInv, HoldsLock, Map
  <2>4. QED
    BY <2>2, <2>3 DEF MapInv
<1>6. QED
  BY <1>2, <1>3, <1>4, <1>5

\* The steps of create_map, which takes no lock.
LEMMA CreateKeeps ==
  ASSUME MapInv, NEW h \in Handlers,
         ReadWorkspace(h) \/ WriteMapFile(h) \/ WriteWorkspace(h) \/ CreateFails(h)
  PROVE  MapInv'
<1> DEFINE Elsewhere ==
             /\ req' \in [Handlers -> MapRequests]
             /\ req'[h].at \in {"idle", "file", "entry"}
             /\ \A g \in Handlers : g # h => req'[g] = req[g]
<1>1. UNCHANGED <<asks, lock, map, sim, row>>
  BY DEF ReadWorkspace, WriteMapFile, WriteWorkspace, CreateFails, HostUnchanged
<1>2. ASSUME Elsewhere PROVE HoldsLock'
  BY <1>1, <1>2 DEF MapInv, HoldsLock, Map
<1>3. ASSUME NEW r \in {"ok", "failed"}, End(h, r) PROVE Elsewhere
  BY <1>3, Ended
<1>4. Elsewhere
  <2>1. CASE ReadWorkspace(h)
    <3>1. CASE req' = [req EXCEPT ![h].at = "file", ![h].view = entries]
      <4>1. req \in [Handlers -> MapRequests] /\ entries \in SUBSET Maps
        BY DEF MapInv, MapTypeOK
      <4>2. req' \in [Handlers -> MapRequests]
        BY <3>1, <4>1 DEF MapRequests, Places
      <4>3. req'[h].at = "file" /\ \A g \in Handlers : g # h => req'[g] = req[g]
        BY <3>1, <4>1 DEF MapRequests
      <4>4. QED
        BY <4>2, <4>3
    <3>2. CASE End(h, "failed")
      BY <1>3, <3>2
    <3>3. QED
      BY <2>1, <3>1, <3>2 DEF ReadWorkspace
  <2>2. CASE WriteMapFile(h)
    <3>1. Goto(h, "entry") /\ "entry" \in Places
      BY <2>2 DEF WriteMapFile, Places
    <3>2. QED
      BY <3>1, Moved
  <2>3. CASE WriteWorkspace(h) \/ CreateFails(h)
    BY <1>3, <2>3 DEF WriteWorkspace, CreateFails
  <2>4. QED
    BY <2>1, <2>2, <2>3
<1>5. /\ entries' \subseteq Maps /\ emptied' \subseteq Maps /\ mishap' \in BOOLEAN
      /\ mapFile' \in [Maps -> {"none", "empty", "devices"}]
  <2>1. /\ entries \subseteq Maps /\ emptied \subseteq Maps /\ mishap \in BOOLEAN
        /\ mapFile \in [Maps -> {"none", "empty", "devices"}]
        /\ req[h].map \in Maps /\ req[h].view \subseteq Maps
    BY DEF MapInv, MapTypeOK, MapRequests
  <2>2. CASE ReadWorkspace(h)
    BY <2>1, <2>2 DEF ReadWorkspace
  <2>3. CASE WriteMapFile(h)
    BY <2>1, <2>3 DEF WriteMapFile, Map
  <2>4. CASE WriteWorkspace(h) \/ CreateFails(h)
    BY <2>1, <2>4 DEF WriteWorkspace, CreateFails, Map
  <2>5. QED
    BY <2>2, <2>3, <2>4
<1>6. QED
  BY <1>1, <1>2, <1>4, <1>5 DEF MapInv, MapTypeOK

LEMMA MapInvNext == MapInv /\ [MapNext]_mapVars => MapInv'
<1> SUFFICES ASSUME MapInv, [MapNext]_mapVars PROVE MapInv'
  OBVIOUS
<1>1. ASSUME NEW h \in Handlers, Ask(h) PROVE MapInv'
  <2>1. PICK op \in Ops, m \in Maps : Request(h, op, m)
    BY <1>1 DEF Ask, Ops, RequestStartMap, RequestStopMap, RequestCreateMap, RequestStartSim,
                RequestStopSim, RequestRestartSim
  <2>2. QED
    BY <2>1, RequestKeeps
<1>2. ASSUME NEW h \in Handlers, HandlerStep(h) PROVE MapInv'
  <2>1. CASE EnterLocked(h)
    BY <2>1, EnterKeeps
  <2>2. CASE \/ Fail(h) \/ StartMap(h) \/ MapIsUp(h) \/ StopMap(h)
             \/ StartSim(h) \/ RefreshRow(h) \/ StopSim(h) \/ RestartSim(h)
    BY <2>2, CommandKeeps
  <2>3. CASE ReadWorkspace(h) \/ WriteMapFile(h) \/ WriteWorkspace(h) \/ CreateFails(h)
    BY <2>3, CreateKeeps
  <2>4. QED
    BY <1>2, <2>1, <2>2, <2>3 DEF HandlerStep
<1>3. ASSUME NEW m \in Maps, MapComesUp(m) \/ SimComesUp(m) \/ AddDevice(m) PROVE MapInv'
  BY <1>3 DEF MapInv, MapTypeOK, HoldsLock, Map, States, MapComesUp, SimComesUp, AddDevice,
              WorkspaceUnchanged, HostUnchanged
<1>4. CASE UNCHANGED mapVars
  BY <1>4 DEF MapInv, MapTypeOK, HoldsLock, Map, mapVars
<1>5. QED
  BY <1>1, <1>2, <1>3, <1>4 DEF MapNext

\* The map's state, its lock and the files keep their types.
THEOREM MapTypes == MapSpec => []MapTypeOK
<1>1. MapInv => MapTypeOK
  BY DEF MapInv
<1>2. QED
  BY <1>1, MapInvInit, MapInvNext, PTL DEF MapSpec

\* start_map_and_wait keeps its lock for the whole wait, so no command of
\* another request reaches a map that is being started.
THEOREM StartIsUndisturbedHolds == MapSpec => []StartIsUndisturbed
<1>1. MapInv => StartIsUndisturbed
  BY DEF MapInv, HoldsLock, StartIsUndisturbed, Doing
<1>2. QED
  BY <1>1, MapInvInit, MapInvNext, PTL DEF MapSpec

-----------------------------------------------------------------------------
(***************************************************************************)
(* The workspace.  What a create has read is still so when it writes it    *)
(* back, as long as no other create was in progress since.                 *)
(***************************************************************************)
Creating(h) == req[h].at \in {"file", "entry"}

\* At most one request is creating a map; it knows the workspace as it is, and the
\* map it creates is not in it and has no file before it writes one.
CreatesAlone ==
  /\ \A g, h \in Handlers : Creating(g) /\ Creating(h) => g = h
  /\ \A h \in Handlers : Creating(h) =>
       /\ req[h].op = "createMap" /\ req[h].view = entries
       /\ req[h].at = "file" => mapFile[Map(h)] = "none"

CreateInv == MapsSurviveCreates /\ (~ mishap => CreatesAlone)

LEMMA CreateInvInit == MapInit => CreateInv
  BY DEF MapInit, CreateInv, MapsSurviveCreates, CreatesAlone, Creating

\* A request that is not creating a map, before and after its step, and leaves the
\* workspace alone.
LEMMA OthersKeep ==
  ASSUME CreateInv, UNCHANGED <<entries, mapFile, mishap, emptied>>, NEW h \in Handlers,
         ~ Creating(h), ~ Creating(h)', \A g \in Handlers : g # h => req'[g] = req[g]
  PROVE  CreateInv'
<1> USE DEF CreateInv, Creating
<1>1. ~ mishap' => CreatesAlone'
  BY DEF CreatesAlone, Map
<1>2. MapsSurviveCreates'
  <2>1. SUFFICES ASSUME ~ mishap', NEW m \in Maps, mapFile'[m] # "none", m \notin entries'
                 PROVE  \E g \in Handlers : Doing(g, "createMap", "entry")' /\ Map(g)' = m
    BY DEF MapsSurviveCreates
  <2>2. PICK g \in Handlers : Doing(g, "createMap", "entry") /\ Map(g) = m
    BY <2>1 DEF MapsSurviveCreates
  <2>3. g # h /\ req'[g] = req[g]
    BY <2>2 DEF Doing
  <2>4. QED
    BY <2>2, <2>3 DEF Doing, Map
<1>3. QED
  BY <1>1, <1>2

\* A create that has read the workspace without meeting another: no request is
\* writing, so a map with a file is in the workspace, and this one has none.
LEMMA ReadKeeps ==
  ASSUME MapInv, CreateInv, NEW h \in Handlers, ReadWorkspace(h)
  PROVE  CreateInv'
<1> USE DEF CreateInv, Creating
<1>1. /\ req[h].op = "createMap" /\ req[h].at = "read" /\ req[h].map \in Maps
      /\ req \in [Handlers -> MapRequests]
      /\ UNCHANGED <<entries, mapFile, emptied>>
      /\ \A g \in Handlers : g # h => req'[g] = req[g]
  BY DEF ReadWorkspace, Doing, End, MapInv, MapTypeOK, MapRequests
<1>2. ~ mishap' => ~ mishap /\ \A g \in Handlers : ~ Creating(g)
  BY DEF ReadWorkspace
<1>3. ~ mishap' => emptied = {} /\ \A m \in Maps : mapFile[m] # "none" => m \in entries
  BY <1>2 DEF MapsSurviveCreates, Doing
<1>4. MapsSurviveCreates'
  BY <1>1, <1>3 DEF MapsSurviveCreates
<1>5. ~ mishap' => CreatesAlone'
  <2>1. SUFFICES ASSUME ~ mishap' PROVE CreatesAlone'
    OBVIOUS
  <2>2. \A g \in Handlers : g # h => ~ Creating(g)'
    BY <1>1, <1>2, <2>1
  <2>3. CASE req[h].map \notin entries /\ req' = [req EXCEPT ![h].at = "file", ![h].view = entries]
    <3>1. req'[h] = [req[h] EXCEPT !.at = "file", !.view = entries] /\ req[h] \in MapRequests
      BY <1>1, <2>3
    <3>2. /\ req'[h].op = "createMap" /\ req'[h].view = entries /\ req'[h].map = req[h].map
      BY <1>1, <3>1 DEF MapRequests
    <3>3. mapFile[req[h].map] = "none"
      BY <1>1, <1>3, <2>1, <2>3
    <3>4. QED
      BY <1>1, <2>2, <3>2, <3>3 DEF CreatesAlone, Map
  <2>4. CASE End(h, "failed")
    <3>1. ~ Creating(h)'
      BY <1>1, <2>4 DEF End, MapRequests
    <3>2. QED
      BY <2>2, <3>1 DEF CreatesAlone
  <2>5. QED
    BY <2>3, <2>4 DEF ReadWorkspace, Map
<1>6. QED
  BY <1>4, <1>5

\* The two writes of a create.
LEMMA WritesKeep ==
  ASSUME MapInv, CreateInv, NEW h \in Handlers, WriteMapFile(h) \/ WriteWorkspace(h)
  PROVE  CreateInv'
<1> USE DEF CreateInv, Creating
<1>1. /\ Creating(h) /\ req[h].op = "createMap" /\ req[h].map \in Maps
      /\ req \in [Handlers -> MapRequests]
      /\ mapFile \in [Maps -> {"none", "empty", "devices"}]
      /\ UNCHANGED mishap
  BY DEF WriteMapFile, WriteWorkspace, Doing, MapInv, MapTypeOK, MapRequests
<1>2. SUFFICES ASSUME ~ mishap PROVE MapsSurviveCreates' /\ CreatesAlone'
  BY <1>1 DEF MapsSurviveCreates
<1>3. /\ \A g \in Handlers : g # h => ~ Creating(g) /\ req'[g] = req[g]
      /\ req[h].view = entries
      /\ emptied = {}
      /\ \A m \in Maps \ {req[h].map} : mapFile[m] # "none" => m \in entries
  <2>1. \A g \in Handlers : g # h => ~ Creating(g)
    BY <1>1, <1>2 DEF CreatesAlone
  <2>2. \A g \in Handlers : g # h => req'[g] = req[g]
    BY <1>1 DEF WriteMapFile, WriteWorkspace, Goto, End
  <2>3. QED
    BY <1>1, <1>2, <2>1, <2>2 DEF CreatesAlone, MapsSurviveCreates, Doing, Map
<1>4. CASE WriteMapFile(h)
  <2>1. /\ req[h].at = "file" /\ mapFile[req[h].map] = "none"
        /\ UNCHANGED entries
        /\ mapFile' = [mapFile EXCEPT ![req[h].map] = "empty"]
    BY <1>1, <1>2, <1>4 DEF WriteMapFile, Doing, Map, CreatesAlone
  <2>2. UNCHANGED emptied
    BY <1>4, <2>1 DEF WriteMapFile, Map
  <2>3. /\ req'[h].at = "entry" /\ req'[h].op = "createMap"
        /\ req'[h].view = entries /\ req'[h].map = req[h].map
    BY <1>1, <1>3, <1>4 DEF WriteMapFile, Goto, MapRequests
  <2>4. Doing(h, "createMap", "entry")' /\ Map(h)' = req[h].map
    BY <2>3 DEF Doing, Map
  <2>5. \A m \in Maps : mapFile'[m] # "none" => m \in entries \/ m = req[h].map
    BY <1>1, <1>3, <2>1
  <2>6. MapsSurviveCreates'
    BY <1>3, <2>1, <2>2, <2>4, <2>5 DEF MapsSurviveCreates
  <2>7. CreatesAlone'
    BY <1>3, <2>1, <2>3 DEF CreatesAlone
  <2>8. QED
    BY <2>6, <2>7
<1>5. CASE WriteWorkspace(h)
  <2>1. entries' = entries \cup {req[h].map} /\ UNCHANGED <<mapFile, emptied>>
    BY <1>3, <1>5 DEF WriteWorkspace, Map
  <2>2. ~ Creating(h)'
    BY <1>1, <1>5 DEF WriteWorkspace, End, MapRequests
  <2>3. QED
    BY <1>3, <2>1, <2>2 DEF MapsSurviveCreates, CreatesAlone
<1>6. QED
  BY <1>4, <1>5

LEMMA CreateInvNext == MapInv /\ CreateInv /\ [MapNext]_mapVars => CreateInv'
<1> SUFFICES ASSUME MapInv, CreateInv, [MapNext]_mapVars PROVE CreateInv'
  OBVIOUS
<1>t. req \in [Handlers -> MapRequests]
  BY DEF MapInv, MapTypeOK
<1>1. ASSUME NEW h \in Handlers, Ask(h) PROVE CreateInv'
  <2>1. PICK op \in Ops, m \in Maps : Request(h, op, m)
    BY <1>1 DEF Ask, Ops, RequestStartMap, RequestStopMap, RequestCreateMap, RequestStartSim,
                RequestStopSim, RequestRestartSim
  <2>2. /\ ~ Creating(h) /\ ~ Creating(h)'
        /\ \A g \in Handlers : g # h => req'[g] = req[g]
    BY <1>t, <2>1 DEF Request, Creating
  <2>3. QED
    BY <2>1, <2>2, OthersKeep DEF Request, WorkspaceUnchanged
<1>2. ASSUME NEW h \in Handlers, EnterLocked(h) \/ StartMap(h) \/ StartSim(h) PROVE CreateInv'
  <2>1. PICK at \in {"command", "wait", "refresh"} : Goto(h, at)
    BY <1>2 DEF EnterLocked, StartMap, StartSim
  <2>2. /\ ~ Creating(h) /\ ~ Creating(h)'
        /\ \A g \in Handlers : g # h => req'[g] = req[g]
    BY <1>t, <1>2, <2>1 DEF EnterLocked, StartMap, StartSim, Doing, Goto, Creating, MapRequests
  <2>3. UNCHANGED <<entries, mapFile, mishap, emptied>>
    BY <1>2 DEF EnterLocked, StartMap, StartSim, WorkspaceUnchanged
  <2>4. QED
    BY <2>2, <2>3, OthersKeep
<1>3. ASSUME NEW h \in Handlers,
             \/ Fail(h) \/ MapIsUp(h) \/ StopMap(h)
             \/ RefreshRow(h) \/ StopSim(h) \/ RestartSim(h)
      PROVE  CreateInv'
  <2>1. PICK r \in {"ok", "failed"} : End(h, r)
    BY <1>3 DEF Fail, MapIsUp, StopMap, RefreshRow, StopSim, RestartSim
  <2>2. ~ Creating(h)
    BY <1>3 DEF Fail, MapIsUp, StopMap, RefreshRow, StopSim, RestartSim, Doing, Creating
  <2>3. ~ Creating(h)' /\ \A g \in Handlers : g # h => req'[g] = req[g]
    BY <2>1, Ended DEF Creating
  <2>4. UNCHANGED <<entries, mapFile, mishap, emptied>>
    BY <1>3 DEF Fail, MapIsUp, StopMap, RefreshRow, StopSim, RestartSim, WorkspaceUnchanged
  <2>5. QED
    BY <2>2, <2>3, <2>4, OthersKeep
<1>4. ASSUME NEW h \in Handlers, CreateFails(h) PROVE CreateInv'
  BY <1>4 DEF CreateFails, CreateInv, MapsSurviveCreates
<1>5. ASSUME NEW m \in Maps, MapComesUp(m) \/ SimComesUp(m) \/ AddDevice(m) PROVE CreateInv'
  <2>1. UNCHANGED <<req, entries, mishap, emptied>>
    BY <1>5 DEF MapComesUp, SimComesUp, AddDevice, WorkspaceUnchanged, HostUnchanged
  <2>2. \A n \in Maps : mapFile'[n] = "none" <=> mapFile[n] = "none"
    BY <1>5 DEF MapComesUp, SimComesUp, AddDevice, WorkspaceUnchanged, MapInv, MapTypeOK
  <2>3. \A g \in Handlers : req[g].map \in Maps
    BY <1>t DEF MapRequests
  <2>4. QED
    BY <2>1, <2>2, <2>3 DEF CreateInv, MapsSurviveCreates, CreatesAlone, Creating, Doing, Map
<1>6. CASE UNCHANGED mapVars
  BY <1>6 DEF mapVars, CreateInv, MapsSurviveCreates, CreatesAlone, Creating, Doing, Map
<1>7. QED
  BY <1>1, <1>2, <1>3, <1>4, <1>5, <1>6, ReadKeeps, WritesKeep DEF MapNext, HandlerStep

\* Creates that do not overlap, and do not fail half-way, neither lose a map nor
\* empty one, whatever starts, stops and devices come between their steps.
THEOREM MapsSurviveCreatesHolds == MapSpec => []MapsSurviveCreates
<1>1. CreateInv => MapsSurviveCreates
  BY DEF CreateInv
<1>2. QED
  BY <1>1, MapInvInit, MapInvNext, CreateInvInit, CreateInvNext, PTL DEF MapSpec

-----------------------------------------------------------------------------
(***************************************************************************)
(* The SSH clients.                                                        *)
(***************************************************************************)
Busy(t)    == ~ At(t, "idle")
Holding(t) == Busy(t) /\ ~ At(t, "waiting")

\* Every call in progress has a ticket of its own, and the ticket its client.
TicketsApart ==
  \A t \in Threads : Busy(t) =>
    /\ call[t].ticket < poolIndex /\ Mine(t) = call[t].ticket % PoolSize
    /\ \A u \in Threads : Busy(u) /\ u # t => call[u].ticket # call[t].ticket

\* A client's lock is held by the call that is past waiting for it.
LocksHeld ==
  /\ \A t \in Threads : Holding(t) => owner[Mine(t)] = t
  /\ \A c \in Clients : owner[c] # NoThread => Holding(owner[c]) /\ Mine(owner[c]) = c

\* What the host has of a command: nothing before it is sent, and then one.
HostAgrees ==
  /\ \A k \in Tickets : /\ host[k].started <= 1 /\ host[k].finished <= host[k].started
                        /\ k >= poolIndex => host[k].started = 0
  /\ \A t \in Threads : At(t, "waiting") \/ At(t, "connecting") \/ At(t, "sending") =>
                          host[call[t].ticket].started = 0
  /\ \A t \in Threads : At(t, "reading") => host[call[t].ticket].started = 1
  /\ \A t \in Threads : call[t].result = "ok" =>
                          call[t].ticket < poolIndex /\ host[call[t].ticket].finished = 1

SshInv == SshTypeOK /\ TicketsApart /\ LocksHeld /\ HostAgrees

\* Two tickets of one client are a full round of the pool apart.
LEMMA RoundApart ==
  ASSUME NEW P \in Nat \ {0}, NEW a \in Nat, NEW b \in Nat, a % P = b % P, a < b
  PROVE  b - a >= P
<1> DEFINE q == a \div P
           r == b \div P
<1>1. q \in Int /\ r \in Int /\ a = P * q + (a % P) /\ b = P * r + (b % P)
  OBVIOUS
<1> HIDE DEF q, r
<1>2. b - a = P * (r - q)
  BY <1>1
<1>3. r - q >= 1
  <2>1. r - q \in Int
    BY <1>1
  <2>2. CASE r - q <= 0
    <3>1. P * (r - q) <= 0
      BY <2>1, <2>2
    <3>2. QED
      BY <3>1, <1>2
  <2>3. QED
    BY <2>1, <2>2
<1>4. QED
  BY <1>1, <1>2, <1>3

LEMMA SshInvInit == SshInit => SshInv
<1> SUFFICES ASSUME SshInit PROVE SshInv
  OBVIOUS
<1>1. 0 \in Clients /\ 0 \in 0 .. MaxRetries - 1
  BY SshAssumption DEF Clients
<1>2. NoCall \in SshCalls
  BY <1>1 DEF NoCall, SshCalls
<1>3. SshTypeOK
  BY <1>2, SshAssumption DEF SshInit, SshTypeOK
<1>4. \A t \in Threads : At(t, "idle") /\ call[t].result = "none"
  BY DEF SshInit, NoCall, At
<1>5. TicketsApart /\ LocksHeld
  BY <1>4 DEF SshInit, TicketsApart, LocksHeld, Holding, Busy
<1>6. HostAgrees
  BY <1>4 DEF SshInit, HostAgrees, At
<1>7. QED
  BY <1>3, <1>5, <1>6 DEF SshInv

\* A call that is in progress has one of the host's tickets.
LEMMA BusyTicket ==
  ASSUME SshInv, NEW t \in Threads, Busy(t) \/ call[t].result = "ok"
  PROVE  call[t].ticket \in Tickets /\ call[t] \in SshCalls /\ Mine(t) \in Clients
<1>1. call[t] \in SshCalls /\ poolIndex \in 0 .. MaxCalls
  BY DEF SshInv, SshTypeOK
<1>2. call[t].ticket < poolIndex /\ call[t].ticket \in Nat
  BY <1>1 DEF SshInv, TicketsApart, HostAgrees, SshCalls
<1>3. QED
  BY <1>1, <1>2, SshAssumption DEF Tickets, SshCalls, Mine

\* A call that returns gives its client's lock back and has answered truly.
LEMMA ReturnKeeps ==
  ASSUME SshInv, NEW t \in Threads, NEW r \in {"ok", "failed"}, Holding(t), ReturnCall(t, r),
         transport' \in [Clients -> {"none", "active", "broken"}], UNCHANGED <<poolIndex, host>>,
         r = "ok" => host[call[t].ticket].finished = 1
  PROVE  SshInv'
<1>1. /\ call \in [Threads -> SshCalls] /\ owner \in [Clients -> Threads \cup {NoThread}]
      /\ owner' = [owner EXCEPT ![Mine(t)] = NoThread] /\ Mine(t) \in Clients
  BY BusyTicket DEF SshInv, SshTypeOK, ReturnCall, Holding
<1>2. call' = [call EXCEPT ![t].at = "idle", ![t].result = r]
  BY DEF ReturnCall
<1>3. /\ call' \in [Threads -> SshCalls]
      /\ call'[t].at = "idle" /\ call'[t].result = r /\ call'[t].ticket = call[t].ticket
      /\ \A u \in Threads : u # t => call'[u] = call[u]
  <2>1. call[t] \in SshCalls
    BY <1>1
  <2>2. [call[t] EXCEPT !.at = "idle", !.result = r] \in SshCalls
    BY <2>1 DEF SshCalls
  <2>3. call' = [call EXCEPT ![t] = [call[t] EXCEPT !.at = "idle", !.result = r]]
    BY <1>1, <1>2, <2>1 DEF SshCalls
  <2>4. QED
    BY <1>1, <2>1, <2>2, <2>3 DEF SshCalls
<1>4. SshTypeOK'
  BY <1>1, <1>3 DEF SshInv, SshTypeOK
<1>5. TicketsApart'
  BY <1>3 DEF SshInv, TicketsApart, Busy, At, Mine
<1>6. LocksHeld'
  <2>1. ASSUME NEW u \in Threads, u # t, Holding(u) PROVE Mine(u) # Mine(t)
    BY <2>1 DEF SshInv, LocksHeld
  <2>2. \A u \in Threads : Mine(u) \in Clients
    BY <1>1 DEF SshCalls, Mine
  <2>3. \A c \in Clients : c # Mine(t) => owner[c] # t
    BY SshAssumption DEF SshInv, LocksHeld
  <2>4. ASSUME NEW u \in Threads, Holding(u)' PROVE owner'[Mine(u)'] = u
    BY <1>1, <1>3, <2>1, <2>2, <2>4 DEF SshInv, LocksHeld, Holding, Busy, At, Mine
  <2>5. ASSUME NEW c \in Clients, owner'[c] # NoThread
        PROVE  Holding(owner[c])' /\ Mine(owner[c])' = c /\ owner'[c] = owner[c]
    BY <1>1, <1>3, <2>3, <2>5 DEF SshInv, LocksHeld, Holding, Busy, At, Mine
  <2>6. QED
    BY <2>4, <2>5 DEF LocksHeld, Holding, Busy, At, Mine
<1>7. HostAgrees'
  <2>1. call[t].ticket < poolIndex
    BY DEF SshInv, TicketsApart, Holding
  <2>2. QED
    BY <1>3, <2>1 DEF SshInv, HostAgrees, At
<1>8. QED
  BY <1>4, <1>5, <1>6, <1>7 DEF SshInv

\* A call that moves on keeps its ticket, its client and the lock.
LEMMA MoveKeeps ==
  ASSUME SshInv, NEW t \in Threads, Holding(t), NEW at \in {"connecting", "sending"},
         At(t, "connecting") \/ At(t, "sending"),
         NEW n \in 0 .. MaxRetries - 1,
         call' = [call EXCEPT ![t] = [call[t] EXCEPT !.at = at, !.attempt = n]],
         transport' \in [Clients -> {"none", "active", "broken"}],
         UNCHANGED <<poolIndex, owner, host>>
  PROVE  SshInv'
<1>1. call \in [Threads -> SshCalls] /\ call[t] \in SshCalls
  BY DEF SshInv, SshTypeOK
<1>2. /\ call' \in [Threads -> SshCalls]
      /\ call'[t].at = at /\ call'[t].result = call[t].result
      /\ call'[t].ticket = call[t].ticket /\ call'[t].client = call[t].client
      /\ \A u \in Threads : u # t => call'[u] = call[u]
  <2>1. [call[t] EXCEPT !.at = at, !.attempt = n] \in SshCalls
    BY <1>1 DEF SshCalls
  <2>2. QED
    BY <1>1, <2>1 DEF SshCalls
<1>3. SshTypeOK'
  BY <1>2 DEF SshInv, SshTypeOK
<1>4. TicketsApart'
  BY <1>2 DEF SshInv, TicketsApart, Busy, At, Mine, Holding
<1>5. LocksHeld'
  BY <1>2 DEF SshInv, LocksHeld, Holding, Busy, At, Mine
<1>6. HostAgrees'
  BY <1>2 DEF SshInv, HostAgrees, At
<1>7. QED
  BY <1>3, <1>4, <1>5, <1>6 DEF SshInv

\* A new call gets a ticket that no call has, for a command the host has not seen.
LEMMA GetClientKeeps ==
  ASSUME SshInv, NEW t \in Threads, NEW k \in {"command", "copy"}, GetClient(t, k)
  PROVE  SshInv'
<1> DEFINE new == [NoCall EXCEPT !.at = "waiting", !.kind = k, !.ticket = poolIndex,
                                 !.client = poolIndex % PoolSize]
<1>1. /\ call \in [Threads -> SshCalls] /\ poolIndex \in Nat /\ poolIndex < MaxCalls
      /\ poolIndex' = poolIndex + 1 /\ UNCHANGED <<transport, owner, host>> /\ At(t, "idle")
  BY SshAssumption DEF GetClient, SshInv, SshTypeOK
<1>2. poolIndex % PoolSize \in Clients /\ 0 \in 0 .. MaxRetries - 1
  BY <1>1, SshAssumption DEF Clients
<1>3. /\ new \in SshCalls /\ new.at = "waiting" /\ new.ticket = poolIndex
      /\ new.client = poolIndex % PoolSize /\ new.result = "none"
  BY <1>1, <1>2 DEF SshCalls, NoCall
<1>4. call' = [call EXCEPT ![t] = new]
  BY DEF GetClient
<1> HIDE DEF new
<1>5. /\ call' \in [Threads -> SshCalls] /\ call'[t] = new
      /\ \A u \in Threads : u # t => call'[u] = call[u] /\ call[u] \in SshCalls
  BY <1>1, <1>3, <1>4
<1>6. SshTypeOK'
  BY <1>1, <1>5, SshAssumption DEF SshInv, SshTypeOK
<1>7. TicketsApart'
  <2>1. ASSUME NEW u \in Threads, u # t, Busy(u)
        PROVE  call[u].ticket < poolIndex /\ call[u].ticket \in Nat
    BY <1>5, <2>1 DEF SshInv, TicketsApart, SshCalls
  <2>2. QED
    BY <1>1, <1>3, <1>5, <2>1 DEF SshInv, TicketsApart, Busy, At, Mine
<1>8. LocksHeld'
  <2>1. \A u \in Threads : /\ Holding(u)' <=> Holding(u)
                           /\ Holding(u) => Mine(u)' = Mine(u)
    BY <1>1, <1>3, <1>5 DEF Holding, Busy, At, Mine
  <2>2. \A c \in Clients : owner[c] # NoThread => owner[c] \in Threads
    BY DEF SshInv, SshTypeOK
  <2>3. QED
    BY <1>1, <2>1, <2>2 DEF SshInv, LocksHeld, Holding, Busy, At, Mine
<1>9. HostAgrees'
  <2>1. poolIndex \in Tickets /\ host[poolIndex].started = 0
    BY <1>1, SshAssumption DEF SshInv, HostAgrees, Tickets
  <2>2. \A j \in Tickets : j \in Nat
    BY SshAssumption DEF Tickets
  <2>3. \A u \in Threads : u # t => call[u].ticket \in Nat
    BY <1>5 DEF SshCalls
  <2>4. QED
    BY <1>1, <1>3, <1>5, <2>1, <2>2, <2>3 DEF SshInv, HostAgrees, At
<1>10. QED
  BY <1>6, <1>7, <1>8, <1>9 DEF SshInv

\* The lock is taken when it is free: whoever holds one keeps it.
LEMMA LockClientKeeps ==
  ASSUME SshInv, NEW t \in Threads, LockClient(t)
  PROVE  SshInv'
<1>1. /\ call \in [Threads -> SshCalls] /\ owner \in [Clients -> Threads \cup {NoThread}]
      /\ At(t, "waiting") /\ owner[Mine(t)] = NoThread /\ owner' = [owner EXCEPT ![Mine(t)] = t]
      /\ UNCHANGED <<poolIndex, transport, host>>
  BY DEF SshInv, SshTypeOK, LockClient
<1>2. PICK at \in {"connecting", "sending"} : call' = [call EXCEPT ![t].at = at]
  BY DEF LockClient
<1>3. \A u \in Threads : Mine(u) \in Clients
  BY <1>1 DEF SshCalls, Mine
<1>4. /\ call' \in [Threads -> SshCalls]
      /\ call'[t].at = at /\ call'[t].result = call[t].result
      /\ call'[t].ticket = call[t].ticket /\ call'[t].client = call[t].client
      /\ \A u \in Threads : u # t => call'[u] = call[u]
  <2>1. call[t] \in SshCalls
    BY <1>1
  <2>2. [call[t] EXCEPT !.at = at] \in SshCalls
    BY <2>1 DEF SshCalls
  <2>3. QED
    BY <1>1, <1>2, <2>1, <2>2 DEF SshCalls
<1>5. SshTypeOK'
  BY <1>1, <1>3, <1>4 DEF SshInv, SshTypeOK
<1>6. TicketsApart'
  BY <1>1, <1>4 DEF SshInv, TicketsApart, Busy, At, Mine
<1>7. LocksHeld'
  <2>1. \A u \in Threads : u # t /\ Holding(u) => Mine(u) # Mine(t)
    BY <1>1, <1>3, SshAssumption DEF SshInv, LocksHeld
  <2>2. \A c \in Clients : owner[c] # t
    BY <1>1, SshAssumption DEF SshInv, LocksHeld, Holding
  <2>3. QED
    BY <1>1, <1>3, <1>4, <2>1, <2>2 DEF SshInv, LocksHeld, Holding, Busy, At, Mine
<1>8. HostAgrees'
  BY <1>1, <1>4 DEF SshInv, HostAgrees, At
<1>9. QED
  BY <1>5, <1>6, <1>7, <1>8 DEF SshInv

LEMMA ConnectKeeps ==
  ASSUME SshInv, NEW t \in Threads, Connect(t) \/ ConnectFails(t)
  PROVE  SshInv'
<1>1. /\ call \in [Threads -> SshCalls] /\ call[t] \in SshCalls
      /\ transport \in [Clients -> {"none", "active", "broken"}]
      /\ At(t, "connecting") /\ Holding(t) /\ UNCHANGED <<poolIndex, host>>
  BY DEF SshInv, SshTypeOK, Connect, ConnectFails, At, Holding, Busy
<1>2. /\ transport' \in [Clients -> {"none", "active", "broken"}]
      /\ call[t].attempt \in 0 .. MaxRetries - 1
  BY <1>1 DEF Connect, ConnectFails, SshCalls
<1>3. CASE Connect(t)
  <2>1. call' = [call EXCEPT ![t] = [call[t] EXCEPT !.at = "sending", !.attempt = call[t].attempt]]
    <3>1. [call[t] EXCEPT !.at = "sending", !.attempt = call[t].attempt]
            = [call[t] EXCEPT !.at = "sending"]
      BY <1>1 DEF SshCalls
    <3>2. QED
      BY <1>1, <1>3, <3>1 DEF Connect
  <2>2. QED
    BY <1>1, <1>2, <1>3, <2>1, MoveKeeps DEF Connect
<1>4. CASE ConnectFails(t)
  <2>1. CASE ReturnCall(t, "failed")
    BY <1>1, <1>2, <2>1, ReturnKeeps
  <2>2. CASE /\ call[t].attempt + 1 < MaxRetries
             /\ call' = [call EXCEPT ![t].attempt = @ + 1]
             /\ UNCHANGED owner
    <3>1. call[t].attempt + 1 \in 0 .. MaxRetries - 1
      BY <1>2, <2>2, SshAssumption
    <3>2. call' = [call EXCEPT ![t] = [call[t] EXCEPT !.at = "connecting",
                                                      !.attempt = call[t].attempt + 1]]
      <4>1. [call[t] EXCEPT !.at = "connecting", !.attempt = call[t].attempt + 1]
              = [call[t] EXCEPT !.attempt = call[t].attempt + 1]
        BY <1>1 DEF SshCalls, At
      <4>2. QED
        BY <1>1, <2>2, <4>1
    <3>3. QED
      BY <1>1, <1>2, <2>2, <3>1, <3>2, MoveKeeps
  <2>3. QED
    BY <1>4, <2>1, <2>2 DEF ConnectFails
<1>5. QED
  BY <1>3, <1>4

\* A command is sent for a ticket that no other call has: once.
LEMMA SendKeeps ==
  ASSUME SshInv, NEW t \in Threads, SendCommand(t)
  PROVE  SshInv'
<1>1. /\ call \in [Threads -> SshCalls] /\ host \in [Tickets -> [started : 0 .. 2, finished : 0 .. 2]]
      /\ At(t, "sending") /\ Busy(t) /\ UNCHANGED <<poolIndex, transport, owner>>
  BY DEF SshInv, SshTypeOK, SendCommand, At, Busy
<1> DEFINE k == call[t].ticket
<1>2. k \in Tickets /\ call[t] \in SshCalls /\ k < poolIndex
  BY <1>1, BusyTicket DEF SshInv, TicketsApart
<1>3. /\ call' \in [Threads -> SshCalls]
      /\ call'[t].at = "reading" /\ call'[t].result = call[t].result
      /\ call'[t].ticket = k /\ call'[t].client = call[t].client
      /\ \A u \in Threads : u # t => call'[u] = call[u]
  <2>1. [call[t] EXCEPT !.at = "reading"] \in SshCalls
    BY <1>2 DEF SshCalls
  <2>2. call' = [call EXCEPT ![t] = [call[t] EXCEPT !.at = "reading"]]
    BY <1>1 DEF SendCommand
  <2>3. QED
    BY <1>1, <1>2, <2>1, <2>2 DEF SshCalls
<1>4. host[k].started = 0 /\ host[k].finished = 0
  BY <1>1, <1>2 DEF SshInv, HostAgrees
<1>5. /\ host' \in [Tickets -> [started : 0 .. 2, finished : 0 .. 2]]
      /\ host'[k].started = 1 /\ host'[k].finished = 0
      /\ \A j \in Tickets : j # k => host'[j] = host[j]
  <2>1. host' = [host EXCEPT ![k] = [host[k] EXCEPT !.started = 1]]
    BY <1>1, <1>2, <1>4 DEF SendCommand
  <2>2. [host[k] EXCEPT !.started = 1] \in [started : 0 .. 2, finished : 0 .. 2]
    BY <1>1, <1>2
  <2>3. QED
    BY <1>1, <1>2, <1>4, <2>1, <2>2
<1>6. SshTypeOK'
  BY <1>1, <1>3, <1>5 DEF SshInv, SshTypeOK
<1>7. TicketsApart'
  BY <1>1, <1>3 DEF SshInv, TicketsApart, Busy, At, Mine
<1>8. LocksHeld'
  <2>1. \A u \in Threads : /\ Holding(u)' <=> Holding(u)
                           /\ Mine(u)' = Mine(u)
    BY <1>1, <1>3 DEF Holding, Busy, At, Mine
  <2>2. \A c \in Clients : owner[c] # NoThread => owner[c] \in Threads
    BY DEF SshInv, SshTypeOK
  <2>3. QED
    BY <1>1, <2>1, <2>2 DEF SshInv, LocksHeld, Holding, Busy, At, Mine
<1>9. HostAgrees'
  <2>1. \A u \in Threads : u # t /\ Busy(u) => call[u].ticket \in Tickets /\ call[u].ticket # k
    BY <1>1, BusyTicket DEF SshInv, TicketsApart
  <2>2. \A u \in Threads : call[u].result = "ok" =>
          call[u].ticket \in Tickets /\ call[u].ticket < poolIndex /\ call[u].ticket # k
    BY <1>4, BusyTicket DEF SshInv, HostAgrees
  <2>3. \A j \in Tickets : /\ host'[j].started <= 1 /\ host'[j].finished <= host'[j].started
                           /\ j >= poolIndex => host'[j].started = 0
    <3>1. ASSUME NEW j \in Tickets, j # k
          PROVE  /\ host'[j].started <= 1 /\ host'[j].finished <= host'[j].started
                 /\ j >= poolIndex => host'[j].started = 0
      BY <1>5, <3>1 DEF SshInv, HostAgrees
    <3>2. poolIndex \in Nat /\ k \in Nat
      BY <1>2, SshAssumption DEF SshInv, SshTypeOK, SshCalls
    <3>3. QED
      BY <1>2, <1>5, <3>1, <3>2
  <2>4. \A u \in Threads : At(u, "waiting") \/ At(u, "connecting") \/ At(u, "sending")
                             \/ At(u, "reading") => Busy(u)
    BY DEF At, Busy
  <2>5. QED
    BY <1>1, <1>3, <1>5, <2>1, <2>2, <2>3, <2>4 DEF SshInv, HostAgrees, At
<1>10. QED
  BY <1>6, <1>7, <1>8, <1>9 DEF SshInv

\* An answer is read when the command has finished; a call that fails reads none.
LEMMA AnswerKeeps ==
  ASSUME SshInv, NEW t \in Threads, NEW r \in {"ok", "failed"}, ReadAnswer(t, r) \/ CallFails(t)
  PROVE  SshInv'
<1>1. /\ Holding(t) /\ transport \in [Clients -> {"none", "active", "broken"}]
      /\ UNCHANGED <<poolIndex, host>>
  BY DEF SshInv, SshTypeOK, ReadAnswer, CallFails, At, Holding, Busy
<1>2. CASE ReadAnswer(t, r)
  <2>1. host[call[t].ticket].finished = 1
    BY <1>2 DEF ReadAnswer, Finished, SshInv, HostAgrees
  <2>2. QED
    BY <1>1, <1>2, <2>1, ReturnKeeps DEF ReadAnswer
<1>3. CASE CallFails(t)
  <2>1. transport' \in [Clients -> {"none", "active", "broken"}]
    BY <1>1, <1>3 DEF CallFails
  <2>2. QED
    BY <1>1, <1>3, <2>1, ReturnKeeps DEF CallFails
<1>4. QED
  BY <1>2, <1>3

LEMMA HostKeeps ==
  ASSUME SshInv, NEW k \in Tickets, HostFinishes(k)
  PROVE  SshInv'
<1>1. /\ host \in [Tickets -> [started : 0 .. 2, finished : 0 .. 2]]
      /\ host[k].finished # host[k].started /\ host[k].started <= 1
      /\ host[k].finished <= host[k].started
      /\ UNCHANGED <<poolIndex, transport, owner, call>>
  BY DEF SshInv, SshTypeOK, HostAgrees, HostFinishes, Finished
<1>2. host[k].started = 1 /\ host[k].finished = 0
  BY <1>1
<1>3. /\ host' \in [Tickets -> [started : 0 .. 2, finished : 0 .. 2]]
      /\ host'[k].started = 1 /\ host'[k].finished = 1
      /\ \A j \in Tickets : j # k => host'[j] = host[j]
  <2>1. host' = [host EXCEPT ![k] = [host[k] EXCEPT !.finished = 1]]
    BY <1>1, <1>2 DEF HostFinishes
  <2>2. [host[k] EXCEPT !.finished = 1] \in [started : 0 .. 2, finished : 0 .. 2]
    BY <1>1
  <2>3. QED
    BY <1>1, <1>2, <2>1, <2>2
<1>4. SshTypeOK' /\ TicketsApart' /\ LocksHeld'
  BY <1>1, <1>3 DEF SshInv, SshTypeOK, TicketsApart, LocksHeld, Holding, Busy, At, Mine
<1>5. HostAgrees'
  <2>1. \A u \in Threads : Busy(u) \/ call[u].result = "ok" => call[u].ticket \in Tickets
    BY BusyTicket
  <2>2. QED
    BY <1>1, <1>2, <1>3, <2>1 DEF SshInv, HostAgrees, Busy, At
<1>6. QED
  BY <1>4, <1>5 DEF SshInv

LEMMA SshInvNext == SshInv /\ [SshNext]_sshVars => SshInv'
<1> SUFFICES ASSUME SshInv, [SshNext]_sshVars PROVE SshInv'
  OBVIOUS
<1>1. ASSUME NEW t \in Threads, NEW k \in {"command", "copy"}, GetClient(t, k) PROVE SshInv'
  BY <1>1, GetClientKeeps
<1>2. ASSUME NEW t \in Threads, CallStep(t) PROVE SshInv'
  BY <1>2, LockClientKeeps, ConnectKeeps, SendKeeps, AnswerKeeps DEF CallStep
<1>3. ASSUME NEW k \in Tickets, HostFinishes(k) PROVE SshInv'
  BY <1>3, HostKeeps
<1>4. ASSUME NEW c \in Clients, ConnectionBreaks(c) PROVE SshInv'
  BY <1>4 DEF ConnectionBreaks, SshInv, SshTypeOK, TicketsApart, LocksHeld, HostAgrees,
              Holding, Busy, At, Mine
<1>5. CASE UNCHANGED sshVars
  BY <1>5 DEF sshVars, SshInv, SshTypeOK, TicketsApart, LocksHeld, HostAgrees,
              Holding, Busy, At, Mine
<1>6. QED
  BY <1>1, <1>2, <1>3, <1>4, <1>5 DEF SshNext

\* No command reaches the host twice, whatever the transport does, and a call
\* that reports success has seen its command finish.
THEOREM RunsAtMostOnceHolds == SshSpec => []RunsAtMostOnce
<1>1. SshInv => RunsAtMostOnce
  BY DEF SshInv, HostAgrees, RunsAtMostOnce
<1>2. QED
  BY <1>1, SshInvInit, SshInvNext, PTL DEF SshSpec

\* Each connection has one user at a time, and a call waits only for one a full
\* round of the pool away.
THEOREM OneUserPerClientHolds == SshSpec => []OneUserPerClient
<1>1. ASSUME SshInv, NEW t \in Threads, At(t, "waiting"), owner[Mine(t)] # NoThread,
             NEW s, s = owner[Mine(t)]
      PROVE  \/ call[t].ticket - call[s].ticket >= PoolSize
             \/ call[s].ticket - call[t].ticket >= PoolSize
  <2>1. Busy(t) /\ Mine(t) \in Clients /\ call[t].ticket \in Nat
    BY <1>1, BusyTicket DEF Busy, At, SshCalls
  <2>2. s \in Threads /\ Holding(s) /\ Mine(s) = Mine(t)
    BY <1>1, <2>1 DEF SshInv, SshTypeOK, LocksHeld
  <2>3. s # t /\ Busy(s)
    BY <1>1, <2>2 DEF Holding
  <2>4. call[s].ticket \in Nat /\ call[s].ticket # call[t].ticket
        /\ call[s].ticket % PoolSize = call[t].ticket % PoolSize
    BY <1>1, <2>1, <2>2, <2>3, BusyTicket DEF SshInv, TicketsApart, SshCalls
  <2>5. CASE call[s].ticket < call[t].ticket
    BY <2>1, <2>4, <2>5, RoundApart, SshAssumption
  <2>6. CASE call[t].ticket < call[s].ticket
    BY <2>1, <2>4, <2>6, RoundApart, SshAssumption
  <2>7. QED
    BY <2>1, <2>4, <2>5, <2>6
<1>2. SshInv => OneUserPerClient
  BY <1>1 DEF OneUserPerClient, SshInv, LocksHeld, Holding, Busy
<1>3. QED
  BY <1>2, SshInvInit, SshInvNext, PTL DEF SshSpec

-----------------------------------------------------------------------------
(***************************************************************************)
(* The deploy jobs.                                                        *)
(***************************************************************************)

\* The successes among results are as many as there are, and no more than results.
LEMMA SuccessesType ==
  ASSUME NEW s \in Seq(BOOLEAN)
  PROVE  Successes(s) \in Nat /\ Successes(s) <= Len(s)
<1>1. Len(s) \in Nat
  BY LenProperties
<1>2. IsFiniteSet(1 .. Len(s)) /\ Cardinality(1 .. Len(s)) = Len(s)
  BY <1>1, FS_Interval
<1>3. {i \in 1 .. Len(s) : s[i]} \in SUBSET (1 .. Len(s))
  OBVIOUS
<1>4. /\ IsFiniteSet({i \in 1 .. Len(s) : s[i]})
      /\ Cardinality({i \in 1 .. Len(s) : s[i]}) <= Len(s)
  BY <1>2, <1>3, FS_Subset
<1>5. QED
  BY <1>4, FS_CardinalityType DEF Successes

\* A new result does not change the results before it.
LEMMA EarlierResults ==
  ASSUME NEW s \in Seq(BOOLEAN), NEW x \in BOOLEAN, NEW k \in 0 .. Len(s)
  PROVE  /\ Append(s, x) \in Seq(BOOLEAN) /\ Len(Append(s, x)) = Len(s) + 1
         /\ SubSeq(Append(s, x), 1, k) = SubSeq(s, 1, k)
  OBVIOUS

\* The counters of a document w are those of the first k results of d.
Healed(w, d) ==
  \E k \in Len(w.results) .. Len(d) :
    /\ w.succeeded = Successes(SubSeq(d, 1, k))
    /\ w.succeeded + w.failed = k

\* Where a thread t with results d is in its order o, and what its document w has:
\* at most the results there are, and at a record one less.
Fits(o, w, t, d) ==
  /\ w.status = "none" => d = <<>> /\ o = <<>> /\ t = "none"
  /\ Len(d) <= Len(o)
  /\ t \in {"begin", "script", "ending", "run"} => Len(d) < Len(o)
  /\ Len(w.results) <= Len(d)
  /\ t = "record" => Len(w.results) < Len(d)
  /\ Healed(w, d)

JobsFit == \A j \in Jobs : Fits(order[j], job[j], thread[j], done[j])

DeployInv == DeployTypeOK /\ JobsFit

LEMMA DeployInvInit == DeployInit => DeployInv
<1> SUFFICES ASSUME DeployInit PROVE DeployInv
  OBVIOUS
<1> USE DEF DeployInit
<1>1. NoJob \in JobDocuments
  BY DEF NoJob, JobDocuments, Statuses
<1>2. DeployTypeOK
  BY <1>1, DeployAssumption DEF DeployTypeOK, ThreadStates
<1>3. Healed(NoJob, <<>>)
  <2> DEFINE e == <<>>
  <2>1. e \in Seq(BOOLEAN) /\ Len(e) = 0 /\ SubSeq(e, 1, 0) = e
    OBVIOUS
  <2>2. Successes(e) \in Nat /\ Successes(e) <= Len(e)
    BY <2>1, SuccessesType
  <2>3. Len(NoJob.results) = 0 /\ NoJob.succeeded = 0 /\ NoJob.failed = 0
    BY DEF NoJob
  <2> HIDE DEF e
  <2>4. Successes(e) = 0
    BY <2>1, <2>2
  <2>5. 0 \in Len(NoJob.results) .. Len(e) /\ NoJob.succeeded + NoJob.failed = 0
    BY <2>1, <2>3
  <2>6. NoJob.succeeded = Successes(SubSeq(e, 1, 0))
    BY <2>1, <2>3, <2>4
  <2>7. Healed(NoJob, e)
    BY <2>5, <2>6 DEF Healed
  <2>8. QED
    BY <2>7 DEF e
<1>4. JobsFit
  BY <1>3 DEF JobsFit, Fits, NoJob
<1>5. QED
  BY <1>2, <1>4 DEF DeployInv

\* A step of one job's thread, by what it leaves behind: the job's order, document,
\* thread and results, and what the jobs share.
Leaves(j, o, w, t, d) ==
  /\ o \in Orders \cup {<<>>} /\ w \in JobDocuments /\ t \in ThreadStates /\ d \in Seq(BOOLEAN)
  /\ order' = [order EXCEPT ![j] = o] /\ job' = [job EXCEPT ![j] = w]
  /\ thread' = [thread EXCEPT ![j] = t] /\ done' = [done EXCEPT ![j] = d]
  /\ script' \in {"none", "crlf", "lf"} /\ installed' \subseteq Drivers
  /\ deployed' \subseteq Drivers /\ UNCHANGED uploadVars

LEMMA OneJob ==
  ASSUME DeployInv, NEW j \in Jobs, NEW o, NEW w, NEW t, NEW d,
         Leaves(j, o, w, t, d), Fits(o, w, t, d)
  PROVE  DeployInv'
<1> USE DEF DeployInv, Leaves
<1>1. /\ order' \in [Jobs -> Orders \cup {<<>>}] /\ job' \in [Jobs -> JobDocuments]
      /\ thread' \in [Jobs -> ThreadStates] /\ done' \in [Jobs -> Seq(BOOLEAN)]
  BY DEF DeployTypeOK
<1>2. /\ order'[j] = o /\ job'[j] = w /\ thread'[j] = t /\ done'[j] = d
      /\ \A i \in Jobs \ {j} : /\ order'[i] = order[i] /\ job'[i] = job[i]
                               /\ thread'[i] = thread[i] /\ done'[i] = done[i]
  BY DEF DeployTypeOK
<1>3. JobsFit'
  <2>1. SUFFICES ASSUME NEW i \in Jobs
                 PROVE  Fits(order'[i], job'[i], thread'[i], done'[i])
    BY DEF JobsFit
  <2>2. CASE i = j
    BY <1>2, <2>2
  <2>3. CASE i # j
    <3>1. Fits(order[i], job[i], thread[i], done[i])
      BY DEF JobsFit
    <3>2. QED
      BY <1>2, <2>3, <3>1
  <2>4. QED
    BY <2>2, <2>3
<1>4. \A i \in Jobs : Len(done'[i]) <= Len(order'[i])
  BY <1>3 DEF JobsFit, Fits
<1>5. DeployTypeOK'
  BY <1>1, <1>4 DEF DeployTypeOK, uploadVars
<1>6. QED
  BY <1>3, <1>5

\* What is known of a job before its step.
LEMMA JobFacts ==
  ASSUME DeployInv, NEW j \in Jobs
  PROVE  /\ order[j] \in Orders \cup {<<>>} /\ order[j] \in Seq(Drivers)
         /\ job[j] \in JobDocuments
         /\ thread[j] \in ThreadStates
         /\ done[j] \in Seq(BOOLEAN) /\ Len(done[j]) \in Nat
         /\ Len(job[j].results) \in Nat /\ Len(order[j]) \in Nat
         /\ Fits(order[j], job[j], thread[j], done[j])
         /\ order = [order EXCEPT ![j] = order[j]] /\ job = [job EXCEPT ![j] = job[j]]
         /\ thread = [thread EXCEPT ![j] = thread[j]] /\ done = [done EXCEPT ![j] = done[j]]
<1>1. /\ order[j] \in Orders \cup {<<>>} /\ job[j] \in JobDocuments
      /\ thread[j] \in ThreadStates /\ done[j] \in Seq(BOOLEAN)
  BY DEF DeployInv, DeployTypeOK
<1>2. order[j] \in Seq(Drivers)
  <2>1. CASE order[j] \in Orders
    BY <2>1, DeployAssumption
  <2>2. CASE order[j] = <<>>
    BY <2>2
  <2>3. QED
    BY <1>1, <2>1, <2>2
<1>3. job[j].results \in Seq(BOOLEAN)
  BY <1>1 DEF JobDocuments
<1>4. Len(done[j]) \in Nat /\ Len(job[j].results) \in Nat /\ Len(order[j]) \in Nat
  BY <1>1, <1>2, <1>3, LenProperties
<1>5. QED
  BY <1>1, <1>2, <1>4 DEF DeployInv, DeployTypeOK, JobsFit

\* Healed counters stay so when the thread goes on.
LEMMA HealedStill ==
  ASSUME NEW w \in JobDocuments, NEW d \in Seq(BOOLEAN), NEW x \in BOOLEAN,
         Healed(w, d)
  PROVE  Healed(w, Append(d, x))
<1>1. PICK k \in Len(w.results) .. Len(d) :
        w.succeeded = Successes(SubSeq(d, 1, k)) /\ w.succeeded + w.failed = k
  BY DEF Healed
<1>2. Len(w.results) \in Nat /\ Len(d) \in Nat
  BY LenProperties DEF JobDocuments
<1>3. k \in 0 .. Len(d)
  BY <1>2
<1>4. /\ Len(Append(d, x)) = Len(d) + 1
      /\ SubSeq(Append(d, x), 1, k) = SubSeq(d, 1, k)
  BY <1>3, EarlierResults
<1>5. k \in Len(w.results) .. Len(Append(d, x))
  BY <1>2, <1>4
<1>6. QED
  BY <1>1, <1>4, <1>5 DEF Healed

\* A progress write makes the counters right.
LEMMA ProgressHeals ==
  ASSUME DeployInv, NEW j \in Jobs, Len(job[j].results) < Len(done[j])
  PROVE  /\ Progress(j) \in JobDocuments
         /\ Progress(j).status = job[j].status
         /\ Len(Progress(j).results) = Len(job[j].results) + 1
         /\ Healed(Progress(j), done[j])
<1> DEFINE d == done[j]
           p == Progress(j)
           last == d[Len(d)]
           S == Successes(d)
<1>1. /\ job[j] \in JobDocuments /\ d \in Seq(BOOLEAN) /\ Len(d) \in Nat
      /\ job[j].results \in Seq(BOOLEAN) /\ Len(job[j].results) \in Nat
  BY JobFacts DEF JobDocuments
<1>2. last \in BOOLEAN
  <2>1. Len(d) \in 1 .. Len(d)
    BY <1>1
  <2>2. QED
    BY <1>1, <2>1, ElementOfSeq
<1>3. S \in Nat /\ S <= Len(d) /\ SubSeq(d, 1, Len(d)) = d
  BY <1>1, SuccessesType
<1>4. /\ Append(job[j].results, last) \in Seq(BOOLEAN)
      /\ Len(Append(job[j].results, last)) = Len(job[j].results) + 1
  BY <1>1, <1>2
<1>5. p = [status |-> job[j].status, succeeded |-> S, failed |-> Len(d) - S,
           results |-> Append(job[j].results, last)]
  <2> DEFINE w == job[j]
             r == Append(w.results, last)
             f == Len(d) - S
  <2>1. p = [w EXCEPT !.results = r, !.succeeded = S, !.failed = f]
    BY DEF Progress
  <2>2. w = [status |-> w.status, succeeded |-> w.succeeded, failed |-> w.failed,
             results |-> w.results]
    BY <1>1 DEF JobDocuments
  <2> HIDE DEF p, w, r, S, f
  <2>3. p = [status |-> w.status, succeeded |-> S, failed |-> f, results |-> r]
    BY <2>1, <2>2
  <2>4. QED
    BY <2>3 DEF w, r, f
<1>6. Len(d) - S \in Nat /\ S + (Len(d) - S) = Len(d) /\ job[j].status \in Statuses
  <2>1. job[j].status \in Statuses
    BY <1>1 DEF JobDocuments
  <2> HIDE DEF S, d
  <2>2. QED
    BY <1>1, <1>3, <2>1
<1> HIDE DEF p, S, last, d
<1>7. p \in JobDocuments
  BY <1>3, <1>4, <1>5, <1>6 DEF JobDocuments
<1>8. /\ p.results = Append(job[j].results, last) /\ p.succeeded = S
      /\ p.failed = Len(d) - S /\ p.status = job[j].status
  BY <1>5
<1>9. Healed(p, d)
  <2>1. Len(d) \in Len(p.results) .. Len(d)
    <3>1. Len(job[j].results) < Len(d)
      BY DEF d
    <3>2. QED
      BY <1>1, <1>4, <1>8, <3>1
  <2>2. p.succeeded = Successes(SubSeq(d, 1, Len(d))) /\ p.succeeded + p.failed = Len(d)
    BY <1>3, <1>6, <1>8 DEF S
  <2>3. QED
    BY <2>1, <2>2 DEF Healed
<1>10. QED
  BY <1>4, <1>7, <1>8, <1>9 DEF p, d

\* The steps that move a thread, with its document's status at most.
LEMMA MovesKeep ==
  ASSUME DeployInv, NEW j \in Jobs,
         \/ Begin(j) \/ BeginFails(j) \/ PutScript(j) \/ ConvertEndings(j) \/ Abandon(j)
  PROVE  DeployInv'
<1> USE JobFacts
<1>1. /\ UNCHANGED <<order, done, installed, deployed, uploadVars>>
      /\ script' \in {"none", "crlf", "lf"}
      /\ installed \subseteq Drivers /\ deployed \subseteq Drivers
  BY DEF DeployInv, DeployTypeOK, Begin, BeginFails, PutScript, ConvertEndings, Abandon
<1>2. PICK w, t :
        /\ job' = [job EXCEPT ![j] = w] /\ thread' = [thread EXCEPT ![j] = t]
        /\ w \in JobDocuments /\ t \in ThreadStates
        /\ w.results = job[j].results /\ w.succeeded = job[j].succeeded
        /\ w.failed = job[j].failed
        /\ w.status = "none" => job[j].status = "none"
        /\ t \in {"script", "ending", "run"} => thread[j] \in {"begin", "script", "ending"}
        /\ t \in {"script", "ending", "run", "none", "gone"}
        /\ job[j].status # "none"
  <2>1. job[j].status = "none" => thread[j] = "none"
    BY DEF Fits
  <2>2. \A st \in Statuses : [job[j] EXCEPT !.status = st] \in JobDocuments
    BY DEF JobDocuments
  <2>3. CASE Begin(j)
    <3> DEFINE w == [job[j] EXCEPT !.status = "running"]
    <3>1. w \in JobDocuments /\ w.status = "running" /\ w.results = job[j].results
          /\ w.succeeded = job[j].succeeded /\ w.failed = job[j].failed
      BY <2>2 DEF JobDocuments, Statuses
    <3>2. job' = [job EXCEPT ![j] = w] /\ thread' = [thread EXCEPT ![j] = "script"]
          /\ thread[j] = "begin"
      BY <2>3 DEF Begin
    <3> HIDE DEF w
    <3>3. QED
      BY <2>1, <3>1, <3>2 DEF ThreadStates
  <2>4. CASE BeginFails(j)
    <3> DEFINE w == [job[j] EXCEPT !.status = "failed"]
    <3>1. w \in JobDocuments /\ w.status = "failed" /\ w.results = job[j].results
          /\ w.succeeded = job[j].succeeded /\ w.failed = job[j].failed
      BY <2>2 DEF JobDocuments, Statuses
    <3>2. job' = [job EXCEPT ![j] = w] /\ thread' = [thread EXCEPT ![j] = "none"]
          /\ thread[j] = "begin"
      BY <2>4 DEF BeginFails
    <3> HIDE DEF w
    <3>3. QED
      BY <2>1, <3>1, <3>2 DEF ThreadStates
  <2>5. CASE PutScript(j) \/ ConvertEndings(j) \/ Abandon(j)
    <3>1. job' = [job EXCEPT ![j] = job[j]] /\ thread[j] # "none"
      BY <2>5 DEF PutScript, ConvertEndings, Abandon
    <3>2. PICK t \in {"ending", "run", "gone"} :
            /\ thread' = [thread EXCEPT ![j] = t]
            /\ t \in {"ending", "run"} => thread[j] \in {"script", "ending"}
      BY <2>5 DEF PutScript, ConvertEndings, Abandon
    <3>3. QED
      BY <2>1, <3>1, <3>2 DEF ThreadStates
  <2>6. QED
    BY <2>3, <2>4, <2>5
<1>3. Fits(order[j], w, t, done[j])
  BY <1>2 DEF Fits, Healed
<1>4. order' = [order EXCEPT ![j] = order[j]] /\ done' = [done EXCEPT ![j] = done[j]]
  BY <1>1
<1>5. Leaves(j, order[j], w, t, done[j])
  BY <1>1, <1>2, <1>4 DEF Leaves
<1>6. QED
  BY <1>3, <1>5, OneJob

\* The steps that have a result.
LEMMA ResultsKeep ==
  ASSUME DeployInv, NEW j \in Jobs, DriverFails(j) \/ RunScript(j) \/ AnswerLost(j)
  PROVE  DeployInv'
<1> USE JobFacts
<1>1. /\ UNCHANGED <<order, job, script, deployed, uploadVars>>
      /\ thread[j] \in {"script", "run"}
      /\ installed' \subseteq installed \cup {Current(j)}
  BY DEF DriverFails, RunScript, AnswerLost
<1>2. PICK x \in BOOLEAN : Result(j, x)
  BY DEF DriverFails, RunScript, AnswerLost
<1>3. Len(done[j]) < Len(order[j])
  BY <1>1 DEF Fits
<1>4. installed' \subseteq Drivers
  <2>1. Len(done[j]) + 1 \in 1 .. Len(order[j])
    BY <1>3
  <2>2. Current(j) \in Drivers
    BY <2>1, ElementOfSeq DEF Current
  <2>3. QED
    BY <1>1, <2>2 DEF DeployInv, DeployTypeOK
<1> DEFINE d == Append(done[j], x)
<1>5. d \in Seq(BOOLEAN) /\ Len(d) = Len(done[j]) + 1
  OBVIOUS
<1>6. Healed(job[j], d)
  BY HealedStill DEF Fits
<1>7. done' = [done EXCEPT ![j] = d] /\ thread' = [thread EXCEPT ![j] = "record"]
  BY <1>2 DEF Result
<1> HIDE DEF d
<1>8. Fits(order[j], job[j], "record", d)
  BY <1>1, <1>3, <1>5, <1>6 DEF Fits
<1>9. /\ script' \in {"none", "crlf", "lf"} /\ deployed' \subseteq Drivers
      /\ order' = [order EXCEPT ![j] = order[j]] /\ job' = [job EXCEPT ![j] = job[j]]
      /\ "record" \in ThreadStates /\ UNCHANGED uploadVars
  BY <1>1 DEF DeployInv, DeployTypeOK, ThreadStates
<1>10. Leaves(j, order[j], job[j], "record", d)
  BY <1>4, <1>5, <1>7, <1>9 DEF Leaves
<1>11. QED
  BY <1>8, <1>10, OneJob

LEMMA RecordKeeps ==
  ASSUME DeployInv, NEW j \in Jobs, Record(j)
  PROVE  DeployInv'
<1> USE JobFacts
<1> DEFINE t == IF Len(done[j]) = Len(order[j]) THEN "finish" ELSE "script"
<1>1. /\ thread[j] = "record" /\ thread' = [thread EXCEPT ![j] = t]
      /\ UNCHANGED <<order, done, script, installed, deployed, uploadVars>>
  BY DEF Record
<1>2. t \in ThreadStates /\ (t = "script" => Len(done[j]) < Len(order[j])) /\ t \in {"script", "finish"}
  BY DEF Fits, ThreadStates
<1> HIDE DEF t
<1>3. PICK w \in {Progress(j), job[j]} : job' = [job EXCEPT ![j] = w]
  BY DEF Record
<1>4. w \in JobDocuments /\ Fits(order[j], w, t, done[j])
  <2>1. CASE w = job[j]
    BY <1>1, <1>2, <2>1 DEF Fits
  <2>2. CASE w = Progress(j)
    <3>1. Len(job[j].results) < Len(done[j]) /\ job[j].status # "none"
      BY <1>1 DEF Fits
    <3>2. /\ w \in JobDocuments /\ w.status # "none"
          /\ Len(w.results) = Len(job[j].results) + 1 /\ Healed(w, done[j])
      BY <2>2, <3>1, ProgressHeals
    <3>3. QED
      BY <1>2, <3>1, <3>2 DEF Fits
  <2>3. QED
    BY <2>1, <2>2
<1>5. /\ script' \in {"none", "crlf", "lf"} /\ installed' \subseteq Drivers
      /\ deployed' \subseteq Drivers /\ UNCHANGED uploadVars
      /\ order' = [order EXCEPT ![j] = order[j]] /\ done' = [done EXCEPT ![j] = done[j]]
  BY <1>1 DEF DeployInv, DeployTypeOK
<1>6. Leaves(j, order[j], w, t, done[j])
  BY <1>1, <1>2, <1>3, <1>4, <1>5 DEF Leaves
<1>7. QED
  BY <1>4, <1>6, OneJob

LEMMA FinishKeeps ==
  ASSUME DeployInv, NEW j \in Jobs, Finish(j)
  PROVE  DeployInv'
<1> USE JobFacts
<1>1. /\ thread[j] = "finish" /\ thread' = [thread EXCEPT ![j] = "none"]
      /\ UNCHANGED <<order, done, script, installed, uploadVars>>
      /\ deployed' \subseteq deployed \cup MarkedBy(j)
  BY DEF Finish
<1>2. MarkedBy(j) \subseteq Drivers
  <2>1. ASSUME NEW i \in 1 .. Len(done[j]) PROVE order[j][i] \in Drivers
    <3>1. i \in 1 .. Len(order[j])
      BY DEF Fits
    <3>2. QED
      BY <3>1, ElementOfSeq
  <2>2. QED
    BY <2>1 DEF MarkedBy
<1>3. PICK st \in {"completed", "failed"} : job' = [job EXCEPT ![j].status = st]
  BY DEF Finish
<1> DEFINE w == [job[j] EXCEPT !.status = st]
<1>4. /\ w \in JobDocuments /\ w.status = st /\ w.results = job[j].results
      /\ w.succeeded = job[j].succeeded /\ w.failed = job[j].failed
  BY DEF JobDocuments, Statuses
<1>5. job' = [job EXCEPT ![j] = w]
  BY <1>3
<1> HIDE DEF w
<1>6. Fits(order[j], w, "none", done[j])
  BY <1>4 DEF Fits, Healed
<1>7. /\ script' \in {"none", "crlf", "lf"} /\ installed' \subseteq Drivers
      /\ deployed' \subseteq Drivers /\ UNCHANGED uploadVars
      /\ order' = [order EXCEPT ![j] = order[j]] /\ done' = [done EXCEPT ![j] = done[j]]
      /\ "none" \in ThreadStates
  BY <1>1, <1>2 DEF DeployInv, DeployTypeOK, ThreadStates
<1>8. Leaves(j, order[j], w, "none", done[j])
  BY <1>1, <1>4, <1>5, <1>7 DEF Leaves
<1>9. QED
  BY <1>6, <1>8, OneJob

LEMMA DeployKeeps ==
  ASSUME DeployInv, NEW j \in Jobs, Deploy(j)
  PROVE  DeployInv'
<1> USE JobFacts
<1>1. /\ job[j].status = "none" /\ thread' = [thread EXCEPT ![j] = "begin"]
      /\ UNCHANGED <<done, script, installed, deployed, uploadVars>>
      /\ job' = [job EXCEPT ![j].status = "pending"]
  BY DEF Deploy
<1>2. PICK o \in Orders : order' = [order EXCEPT ![j] = o]
  BY DEF Deploy
<1>3. o \in Seq(Drivers) /\ o # <<>> /\ Len(o) \in Nat /\ Len(o) > 0
  BY DeployAssumption, EmptySeq, LenProperties
<1>4. done[j] = <<>> /\ Len(done[j]) = 0
  BY <1>1 DEF Fits
<1> DEFINE w == [job[j] EXCEPT !.status = "pending"]
<1>5. /\ w \in JobDocuments /\ w.status = "pending" /\ w.results = job[j].results
      /\ w.succeeded = job[j].succeeded /\ w.failed = job[j].failed
  BY DEF JobDocuments, Statuses
<1>6. job' = [job EXCEPT ![j] = w]
  BY <1>1
<1> HIDE DEF w
<1>7. Fits(o, w, "begin", done[j])
  BY <1>3, <1>4, <1>5 DEF Fits, Healed
<1>8. /\ script' \in {"none", "crlf", "lf"} /\ installed' \subseteq Drivers
      /\ deployed' \subseteq Drivers /\ UNCHANGED uploadVars
      /\ done' = [done EXCEPT ![j] = done[j]]
      /\ "begin" \in ThreadStates
  BY <1>1 DEF DeployInv, DeployTypeOK, ThreadStates
<1>9. Leaves(j, o, w, "begin", done[j])
  BY <1>1, <1>2, <1>5, <1>6, <1>8 DEF Leaves
<1>10. QED
  BY <1>7, <1>9, OneJob

LEMMA UploadsKeep ==
  ASSUME DeployInv, NEW d \in Drivers, BeginUpload(d) \/ EndUpload(d)
  PROVE  DeployInv'
<1>1. UNCHANGED jobVars
  BY DEF BeginUpload, EndUpload
<1>2. /\ uploads \in Nat /\ uploads <= MaxUploads /\ MaxUploads \in Nat
      /\ reading \in [Drivers -> Nat] /\ meta \in [Drivers -> Nat]
      /\ \A e \in Drivers : reading[e] + meta[e] <= uploads
  BY DeployAssumption DEF DeployInv, DeployTypeOK
<1>3. /\ uploads' \in 0 .. MaxUploads /\ jar' \subseteq Drivers
      /\ reading' \in [Drivers -> Nat] /\ meta' \in [Drivers -> Nat]
      /\ \A e \in Drivers : reading'[e] + meta'[e] <= uploads'
  <2>1. CASE BeginUpload(d)
    BY <1>2, <2>1 DEF BeginUpload, DeployInv, DeployTypeOK
  <2>2. CASE EndUpload(d)
    <3>1. jar' \subseteq Drivers /\ uploads' = uploads
          /\ reading' = [reading EXCEPT ![d] = reading[d] - 1] /\ reading[d] > 0
      BY <2>2 DEF EndUpload, DeployInv, DeployTypeOK
    <3>2. meta' = [meta EXCEPT ![d] = meta[d] + 1] \/ meta' = meta
      BY <2>2 DEF EndUpload
    <3>3. QED
      BY <1>2, <3>1, <3>2
  <2>3. QED
    BY <2>1, <2>2
<1>4. QED
  BY <1>1, <1>3 DEF DeployInv, DeployTypeOK, JobsFit, jobVars

LEMMA DeployInvNext == DeployInv /\ [DeployNext]_deployVars => DeployInv'
<1> SUFFICES ASSUME DeployInv, [DeployNext]_deployVars PROVE DeployInv'
  OBVIOUS
<1>1. CASE UNCHANGED deployVars
  BY <1>1 DEF deployVars, DeployInv, DeployTypeOK, JobsFit
<1>2. QED
  BY <1>1, MovesKeep, ResultsKeep, RecordKeeps, FinishKeeps, DeployKeeps, UploadsKeep
     DEF DeployNext, JobStep

\* Whatever progress writes fail, the counters of every job's document are those of
\* its thread at some time, for any number of jobs and any orders.
THEOREM CountersHealHolds == DeploySpec => []CountersHeal
<1>1. DeployInv => CountersHeal
  BY DEF DeployInv, JobsFit, Fits, Healed, CountersHeal
<1>2. QED
  BY <1>1, DeployInvInit, DeployInvNext, PTL DEF DeploySpec

-----------------------------------------------------------------------------
\* The state of the SSH clients, the maps and the deploy jobs keeps its types, as
\* they are composed in MCHost and for any values of the constants.
THEOREM HostTypes == HostSpec => []HostTypeOK
<1> DEFINE Inv == SshInv /\ MapInv /\ DeployInv
<1>1. HostInit => Inv
  BY SshInvInit, MapInvInit, DeployInvInit DEF HostInit
<1>2. Inv /\ [HostNext]_hostVars => Inv'
  <2>1. [HostNext]_hostVars => [SshNext]_sshVars /\ [MapNext]_mapVars /\ [DeployNext]_deployVars
    BY DEF HostNext, SshMoves, MapsMove, DriversMove, hostVars
  <2>2. QED
    BY <2>1, SshInvNext, MapInvNext, DeployInvNext
<1>3. Inv => HostTypeOK
  BY DEF SshInv, MapInv, DeployInv, HostTypeOK
<1>4. QED
  BY <1>1, <1>2, <1>3, PTL DEF HostSpec
=============================================================================
