---------------------------- MODULE MCController ----------------------------
(***************************************************************************)
(* The portal's side of a CyberController for TLC: sessions and device     *)
(* streams, and the IdsDataFormat files.  As in Reporter, one of the two   *)
(* moves in a behavior and the other keeps its first state.                *)
(***************************************************************************)
EXTENDS CCSession, DataFormat

VARIABLE part

\* The first is among the files, the second has no lower version there, and the
\* third, which is not there, has one.
MCAsked  == {<<10, 6, 0, 0>>, <<8, 30, 0>>, <<10, 12, 1>>}
MCOnHost == {<<10, 6, 0>>, <<10, 3, 0>>, <<8, 32, 1>>}

controllerVars == <<part, ccVars, formatVars>>

ControllerInit == part \in {"sessions", "formats"} /\ CCInit /\ FormatInit

SessionsMove == part = "sessions" /\ CCNext /\ UNCHANGED <<part, formatVars>>
FormatsMove  == part = "formats" /\ FormatNext /\ UNCHANGED <<part, ccVars>>

ControllerNext == SessionsMove \/ FormatsMove

ControllerSpec == ControllerInit /\ [][ControllerNext]_controllerVars /\ CCFairness

\* The type invariants of the two components.
ControllerTypeOK == CCTypeOK /\ FormatTypeOK
=============================================================================
