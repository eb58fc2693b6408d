------------------------------- MODULE MCHost -------------------------------
(***************************************************************************)
(* The backend's work on other hosts for TLC: the SSH clients, the         *)
(* handlers that create, start and stop maps on the Sapro host, and the    *)
(* jobs that deploy drivers to a CyberController.  As in Reporter, one of  *)
(* them moves in a behavior and the others keep one initial state.         *)
(***************************************************************************)
EXTENDS SshClient, MapControl, DeployJob

VARIABLE part

\* Lists of two, so that the write of one result may be lost and the next not.
MCOrders == {<<"d", "e">>}

hostVars == <<part, sshVars, mapVars, deployVars>>

HostInit ==
  /\ part \in {"ssh", "maps", "drivers"}
  /\ SshInit
  /\ MapInit
  /\ part # "maps" => entries = {}
  /\ DeployInit

SshMoves    == part = "ssh" /\ SshNext /\ UNCHANGED <<part, mapVars, deployVars>>
MapsMove    == part = "maps" /\ MapNext /\ UNCHANGED <<part, sshVars, deployVars>>
DriversMove == part = "drivers" /\ DeployNext /\ UNCHANGED <<part, sshVars, mapVars>>

HostNext == SshMoves \/ MapsMove \/ DriversMove

HostSpec == HostInit /\ [][HostNext]_hostVars /\ DeployFairness

\* The type invariants of the three components.
HostTypeOK == SshTypeOK /\ MapTypeOK /\ DeployTypeOK
=============================================================================
