---------------------------- MODULE PollingLoad ----------------------------
(***************************************************************************)
(* set_polling_config (backend/app/routes/reporter.py) with PollingService *)
(* (.../polling/polling_service.py): one XMF file is written to the Sapro  *)
(* host, and every simulator's device is deleted and created again with    *)
(* its SoapModFile pointing there.  The handler runs on the event loop and *)
(* takes no map lock, so a field update in a thread, which reads, deletes  *)
(* and creates the same devices, may come between any two of its commands. *)
(***************************************************************************)
EXTENDS Integers, Sequences, FiniteSets

CONSTANT Devices

ASSUME PollAssumption == IsFiniteSet(Devices)

VARIABLES
  request,  \* [list, write, overwrite] of the one request
  stage,    \* where it is
  target,   \* the position of the list being loaded, 0 for the load that writes
  element,  \* the device element read from the map file
  loaded,   \* the positions loaded
  answer,   \* its reply
  file,     \* the XMF file on the host: "none", "other" or "ours"
  device,   \* device[d]: its element in the map file, or Absent
  update,   \* the field update in a thread: [pc, dev, element]
  touched   \* the devices it changed

pollVars == <<request, stage, target, element, loaded, answer, file, device, update, touched>>

Absent   == [soap |-> "absent", fields |-> "absent"]
Elements == [soap : {"none", "other", "ours"}, fields : {"old", "new"}] \cup {Absent}
Requests == [list : UNION {[1 .. n -> Devices] : n \in 1 .. Cardinality(Devices)},
             write : BOOLEAN, overwrite : BOOLEAN]

PollTypeOK ==
  /\ request \in Requests
  /\ stage \in {"start", "file", "write", "read", "delete", "create", "summary", "end"}
  /\ target \in 0 .. Cardinality(Devices) + 1
  /\ element \in Elements
  /\ loaded \subseteq 1 .. Cardinality(Devices)
  /\ answer \in {"none", "conflict", "error", "some", "all"}
  /\ file \in {"none", "other", "ours"}
  /\ device \in [Devices -> Elements]
  /\ update \in [pc : {"idle", "delete", "create", "done"}, dev : Devices, element : Elements]
  /\ touched \subseteq Devices

PollInit ==
  /\ request \in Requests
  /\ stage = "start"
  /\ target = 0
  /\ element = Absent
  /\ loaded = {}
  /\ answer = "none"
  /\ file \in {"none", "other"}
  /\ device \in [Devices -> {[soap |-> "none", fields |-> "old"],
                             [soap |-> "other", fields |-> "old"], Absent}]
  /\ update \in [pc : {"idle"}, dev : Devices, element : {Absent}]
  /\ touched = {}

Several   == Len(request.list) > 1
Target    == request.list[IF target = 0 THEN 1 ELSE target]
Quiet     == UNCHANGED <<update, touched>>
AnswerWith(r) == stage' = "end" /\ answer' = r

-----------------------------------------------------------------------------
(* The request.                                                            *)

\* No template, no endpoints, or the first simulator has no map.
GenerateFails ==
  /\ stage = "start"
  /\ AnswerWith("error")
  /\ UNCHANGED <<request, target, element, loaded, file, device>> /\ Quiet

\* The XMF is generated; with several simulators the file is written in a load
\* of the first, which is loaded again with the others.
Generate ==
  /\ stage = "start"
  /\ stage' = IF request.write THEN "file" ELSE "read"
  /\ target' = IF Several /\ request.write THEN 0 ELSE 1
  /\ UNCHANGED <<request, element, loaded, answer, file, device>> /\ Quiet

\* test -f, whose own failure counts as "not there".
CheckFile(answered) ==
  /\ stage = "file"
  /\ IF ~ request.overwrite /\ answered /\ file # "none"
       THEN AnswerWith("conflict")
       ELSE stage' = "write" /\ UNCHANGED answer
  /\ UNCHANGED <<request, target, element, loaded, file, device>> /\ Quiet

WriteFile(ok) ==
  /\ stage = "write"
  /\ file' = IF ok THEN "ours" ELSE file
  /\ IF ok THEN stage' = "read" /\ UNCHANGED answer ELSE AnswerWith("error")
  /\ UNCHANGED <<request, target, element, loaded, device>> /\ Quiet

\* A load that fails: the request fails with the load that writes and with a
\* single simulator; among several it is noted and the next one is loaded.
LoadFails ==
  IF target = 0 \/ ~ Several
    THEN AnswerWith("error") /\ UNCHANGED <<target, loaded>>
    ELSE /\ target' = target + 1
         /\ stage' = IF target = Len(request.list) THEN "summary" ELSE "read"
         /\ UNCHANGED <<loaded, answer>>

Loaded ==
  /\ loaded' = IF target = 0 THEN loaded ELSE loaded \cup {target}
  /\ target' = target + 1
  /\ stage' = IF target = Len(request.list) THEN "summary" ELSE "read"
  /\ UNCHANGED answer

\* get_simulator_map, get_full_map_path and _get_device_config_from_map.
ReadDevice ==
  /\ stage = "read"
  /\ device[Target] # Absent
  /\ element' = device[Target]
  /\ stage' = "delete"
  /\ UNCHANGED <<request, target, loaded, answer, file, device>> /\ Quiet

ReadFails ==
  /\ stage = "read"
  /\ LoadFails
  /\ UNCHANGED <<request, element, file, device>> /\ Quiet

\* update_device: delete_device ...
DeleteDevice ==
  /\ stage = "delete"
  /\ device[Target] # Absent
  /\ device' = [device EXCEPT ![Target] = Absent]
  /\ stage' = "create"
  /\ UNCHANGED <<request, target, element, loaded, answer, file>> /\ Quiet

DeleteDeviceFails ==
  /\ stage = "delete"
  /\ LoadFails
  /\ UNCHANGED <<request, element, file, device>> /\ Quiet

\* ... and create_device with the updated element; an element without Soap is
\* created as it was.
CreateDevice ==
  /\ stage = "create"
  /\ device[Target] = Absent
  /\ device' = [device EXCEPT ![Target] =
                  IF element.soap = "none" THEN element ELSE [element EXCEPT !.soap = "ours"]]
  /\ Loaded
  /\ UNCHANGED <<request, element, file>> /\ Quiet

CreateDeviceFailsUnseen ==
  /\ stage = "create"
  /\ Loaded
  /\ UNCHANGED <<request, element, file, device>> /\ Quiet
CreateDeviceFails ==
  /\ stage = "create"
  /\ LoadFails
  /\ UNCHANGED <<request, element, file, device>> /\ Quiet

Summarize ==
  /\ stage = "summary"
  /\ AnswerWith(IF loaded = {} THEN "error"
                ELSE IF loaded = DOMAIN request.list THEN "all" ELSE "some")
  /\ UNCHANGED <<request, target, element, loaded, file, device>> /\ Quiet

-----------------------------------------------------------------------------
(* A field update of one device in a thread, with the map lock.            *)

Stay == UNCHANGED <<request, stage, target, element, loaded, answer, file>>

UpdateReads ==
  /\ update.pc = "idle"
  /\ device[update.dev] # Absent
  /\ update' = [update EXCEPT !.pc = "delete", !.element = device[update.dev]]
  /\ UNCHANGED <<device, touched>> /\ Stay

UpdateDeletes ==
  /\ update.pc = "delete"
  /\ device[update.dev] # Absent
  /\ device' = [device EXCEPT ![update.dev] = Absent]
  /\ update' = [update EXCEPT !.pc = "create"]
  /\ touched' = touched \cup {update.dev}
  /\ Stay

UpdateCreates ==
  /\ update.pc = "create"
  /\ device[update.dev] = Absent
  /\ device' = [device EXCEPT ![update.dev] = [update.element EXCEPT !.fields = "new"]]
  /\ update' = [update EXCEPT !.pc = "done"]
  /\ UNCHANGED touched /\ Stay

PollNext ==
  \/ GenerateFails
  \/ Generate
  \/ \E ok \in BOOLEAN : CheckFile(ok) \/ WriteFile(ok)
  \/ ReadDevice
  \/ ReadFails
  \/ DeleteDevice
  \/ DeleteDeviceFails
  \/ CreateDevice
  \/ CreateDeviceFails
  \/ Summarize
  \/ UpdateReads
  \/ UpdateDeletes
  \/ UpdateCreates

PollSpec == PollInit /\ [][PollNext]_pollVars

-----------------------------------------------------------------------------
(* Properties.                                                             *)

\* A request that answers that all simulators were loaded has left each of them
\* with its device, which points to the file of this request if it has a Soap
\* element, and that file is there - except for the devices another handler
\* worked on meanwhile, which no lock keeps away.
AllMeansLoaded ==
  answer = "all" =>
    /\ request.write => file = "ours"
    /\ \A i \in DOMAIN request.list :
         LET d == request.list[i]
         IN  d \in touched \/ (device[d] # Absent /\ device[d].soap \in {"none", "ours"})
=============================================================================
