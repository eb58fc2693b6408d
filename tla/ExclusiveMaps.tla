--------------------------- MODULE ExclusiveMaps ---------------------------
(***************************************************************************)
(* What the map lock manager promises to the route handlers: an operation  *)
(* that names a set of maps either runs with all of them to itself, or is  *)
(* refused (HTTP 409) without having run.  How locks are created, in which *)
(* order they are taken and how they are rolled back is not visible here.  *)
(***************************************************************************)
CONSTANTS Procs,   \* the operations that may be in progress
          Maps     \* the Sapro maps

VARIABLES asked,   \* the maps the operation named; {} when there is none
          inside   \* the maps the operation is running on; {} when not running

vars == <<asked, inside>>

TypeOK ==
  /\ asked \in [Procs -> SUBSET Maps]
  /\ inside \in [Procs -> SUBSET Maps]

Init ==
  /\ asked = [p \in Procs |-> {}]
  /\ inside = [p \in Procs |-> {}]

Ask(p, S) ==
  /\ asked[p] = {}
  /\ S # {}
  /\ asked' = [asked EXCEPT ![p] = S]
  /\ UNCHANGED inside

Enter(p) ==
  /\ asked[p] # {}
  /\ inside[p] = {}
  /\ \A q \in Procs : inside[q] \cap asked[p] = {}
  /\ inside' = [inside EXCEPT ![p] = asked[p]]
  /\ UNCHANGED asked

\* The operation leaves all its maps, or is refused before it entered.
Leave(p) ==
  /\ asked[p] # {}
  /\ asked' = [asked EXCEPT ![p] = {}]
  /\ inside' = [inside EXCEPT ![p] = {}]

Next == \E p \in Procs :
  \/ \E S \in SUBSET Maps : Ask(p, S)
  \/ Enter(p)
  \/ Leave(p)

Spec == Init /\ [][Next]_vars
=============================================================================
