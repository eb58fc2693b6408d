-------------------------- MODULE AtomicSimulators --------------------------
(***************************************************************************)
(* What the simulator handlers promise to somebody who does not know that  *)
(* a simulator is a device on one host and a row in another: it is there   *)
(* or it is not, on one map, with one template.  A create makes whatever   *)
(* it has in hand appear at once, where there was nothing; a simulator may *)
(* get another template, and goes away as a whole; it never moves.  A      *)
(* request that fails half-way loses simulators: what they are is open     *)
(* from then on.  All this happens only to what a request has in hand:     *)
(* elsewhere every simulator stays what it is.                             *)
(***************************************************************************)
CONSTANTS Ips,        \* simulator addresses
          Maps,       \* Sapro maps
          Ops,        \* requests that may be in progress at once
          Templates,  \* what a device may be made from
          Absent,     \* there is no simulator at an address
          Lost        \* nothing is known of it

VARIABLES sim,   \* sim[ip]: the simulator at the address ip
          hand   \* hand[o]: the addresses that request o works on

vars == <<sim, hand>>

Simulators == [map : Maps, tpl : Templates]

Init == sim = [ip \in Ips |-> Absent] /\ hand = [o \in Ops |-> {}]

\* Requests take up addresses, drop them and end.
Hands == hand' \in [Ops -> SUBSET Ips]

Become(S, s) ==
  /\ S # {}
  /\ sim' = [ip \in Ips |-> IF ip \in S THEN s ELSE sim[ip]]
  /\ Hands

\* All that o still has in hand, and then o is done.
Create(o, m, t) ==
  LET S == {ip \in hand[o] : sim[ip] # Lost} IN
  /\ \A ip \in S : sim[ip] = Absent
  /\ Become(S, [map |-> m, tpl |-> t])
  /\ hand'[o] = {}

Change(o, ip, t) ==
  /\ ip \in hand[o] /\ sim[ip] \in Simulators
  /\ Become({ip}, [map |-> sim[ip].map, tpl |-> t])

Delete(o, ip) ==
  /\ ip \in hand[o] /\ sim[ip] \in Simulators
  /\ Become({ip}, Absent)

\* A crash does this to what all requests have in hand.
Lose(S) == S \subseteq UNION {hand[o] : o \in Ops} /\ Become(S, Lost)

Turn == UNCHANGED sim /\ Hands

Next ==
  \/ Turn
  \/ \E o \in Ops : \/ \E m \in Maps, t \in Templates : Create(o, m, t)
                    \/ \E ip \in Ips, t \in Templates : Change(o, ip, t)
                    \/ \E ip \in Ips : Delete(o, ip)
  \/ \E S \in SUBSET Ips : Lose(S)

Spec == Init /\ [][Next]_vars
=============================================================================
