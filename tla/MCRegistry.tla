---------------------------- MODULE MCRegistry ----------------------------
(***************************************************************************)
(* SimulatorRegistry for TLC.  Two addresses and two maps with concurrent  *)
(* requests are too many states together, and no property needs both: a    *)
(* row that names the wrong map takes one address and two maps, a create   *)
(* that shows half of its simulators two addresses and one map.  One run   *)
(* explores both instances; which one it is in is chosen at the start.     *)
(***************************************************************************)
EXTENDS SimulatorRegistry

CONSTANTS i1, i2, m1, m2

MCIps == {i1, i2}
MCMaps == {m1, m2}

VARIABLE instance

Instances ==
  {[ips |-> {i1}, maps |-> {m1, m2}, kinds |-> {"single", "delete", "update", "fields"}],
   [ips |-> {i1, i2}, maps |-> {m1}, kinds |-> {"range", "delete", "update"}]}

\* r is no request, or one that this instance has.
IsAsked(r) ==
  r # Idle =>
    /\ r.kind \in instance.kinds
    /\ r.todo \cup r.made \subseteq instance.ips
    /\ r.map \in instance.maps \cup {NoMap}

MCInit == Init /\ instance \in Instances
MCNext == Next /\ UNCHANGED instance /\ \A o \in Ops : IsAsked(op'[o])
MCSpec == MCInit /\ [][MCNext]_<<vars, instance>>
=============================================================================
