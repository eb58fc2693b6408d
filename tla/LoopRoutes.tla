----------------------------- MODULE LoopRoutes -----------------------------
(***************************************************************************)
(* The SNMP loop routes of backend/app/routes/reporter.py over the loop    *)
(* manager: start_snmp_loop with its check of the system's capacity,       *)
(* stop_snmp_loop, and the end of a loop by itself.  The check reads the   *)
(* active loops in a thread; the loop that is then started is stored in    *)
(* another one, so other requests come in between.  LoopManager has the    *)
(* tasks, their stop events and their restarts; here a loop is its         *)
(* document and the entry of _running_tasks.                               *)
(***************************************************************************)
EXTENDS Integers, FiniteSetsExt

CONSTANTS Users,
          Configs,     \* the loops asked for: [traps, sims, delay]
          Window,      \* 15, the seconds the capacity is counted over
          Capacity,    \* SYSTEM_TRAP_CAPACITY_15S
          MaxStarts    \* bound on the requests to start a loop

ASSUME RouteAssumption ==
  /\ IsFiniteSet(Users)
  /\ Window \in Nat \ {0} /\ Capacity \in Nat /\ MaxStarts \in Nat
  /\ Configs # {}
  /\ Configs \subseteq [traps : Nat \ {0}, sims : Nat \ {0}, delay : Nat \ {0}]

VARIABLES
  route,         \* route[u]: where the start request of u is
  asked,      \* asked[u]: the configuration it asks for
  doc,        \* doc[u]: the loop document, its configuration and is_active
  running,    \* the users in _running_tasks
  usage,      \* usage[u]: current_usage, as the request of u computed it
  offered,    \* offered[u]: max_traps of its 409, or NoOffer
  starts,     \* number of start requests
  overlap     \* a request has read the loops between another's read and write

routeVars == <<route, asked, doc, running, usage, offered, starts, overlap>>

NoOffer == -1
AnyConfig == CHOOSE c \in Configs : TRUE

\* _calc_traps_per_15s
CeilDiv(a, b) == (a + b - 1) \div b
Rate(c) == c.traps * c.sims * CeilDiv(Window, c.delay)

RouteTypeOK ==
  /\ route \in [Users -> {"idle", "reading", "checking", "storing", "registering"}]
  /\ asked \in [Users -> Configs]
  /\ doc \in [Users -> [active : BOOLEAN, config : Configs]]
  /\ running \subseteq Users
  /\ usage \in [Users -> Nat]
  /\ offered \in [Users -> Nat \cup {NoOffer}]
  /\ starts \in 0 .. MaxStarts
  /\ overlap \in BOOLEAN

RouteInit ==
  /\ route = [u \in Users |-> "idle"]
  /\ asked = [u \in Users |-> AnyConfig]
  /\ doc = [u \in Users |-> [active |-> FALSE, config |-> AnyConfig]]
  /\ running = {}
  /\ usage = [u \in Users |-> 0]
  /\ offered = [u \in Users |-> NoOffer]
  /\ starts = 0
  /\ overlap = FALSE

Busy(u) == route[u] \in {"checking", "storing"}
Active  == {u \in Users : doc[u].active}
UsageOf(us) == SumFunction([u \in us |-> Rate(doc[u].config)])

-----------------------------------------------------------------------------
AskStart(u, c) ==
  /\ route[u] = "idle"
  /\ starts < MaxStarts
  /\ route' = [route EXCEPT ![u] = "reading"]
  /\ asked' = [asked EXCEPT ![u] = c]
  /\ offered' = [offered EXCEPT ![u] = NoOffer]
  /\ starts' = starts + 1
  /\ UNCHANGED <<doc, running, usage, overlap>>

\* collection.find in a thread; the user's own loop is skipped.
ReadLoops(u) ==
  /\ route[u] = "reading"
  /\ route' = [route EXCEPT ![u] = "checking"]
  /\ usage' = [usage EXCEPT ![u] = UsageOf(Active \ {u})]
  /\ overlap' = (overlap \/ \E v \in Users \ {u} : Busy(v))
  /\ UNCHANGED <<asked, doc, running, offered, starts>>

FitsWithoutItself(u) == usage[u] <= Capacity
Fits(u) == usage[u] + Rate(asked[u]) <= Capacity

\* 409, with the largest number of traps that would fit.
MaxTrapsRounded(u) ==
  (Max({0, Capacity - usage[u]}) * asked[u].delay) \div (asked[u].sims * Window)
MaxTraps(u) ==
  Max({0, Capacity - usage[u]}) \div (asked[u].sims * CeilDiv(Window, asked[u].delay))

RefuseStart(u) ==
  /\ route[u] = "checking"
  /\ ~ Fits(u)
  /\ route' = [route EXCEPT ![u] = "idle"]
  /\ offered' = [offered EXCEPT ![u] = MaxTraps(u)]
  /\ UNCHANGED <<asked, doc, running, usage, starts, overlap>>

\* 400: start_loop finds a loop of this user, or a map has no path.
RejectStart(u) ==
  /\ route[u] = "checking"
  /\ Fits(u)
  /\ route' = [route EXCEPT ![u] = "idle"]
  /\ UNCHANGED <<asked, doc, running, usage, offered, starts, overlap>>

AdmitStart(u) ==
  /\ route[u] = "checking"
  /\ Fits(u)
  /\ u \notin running
  /\ route' = [route EXCEPT ![u] = "storing"]
  /\ UNCHANGED <<asked, doc, running, usage, offered, starts, overlap>>

\* replace_one in a thread ...
StoreLoop(u) ==
  /\ route[u] = "storing"
  /\ route' = [route EXCEPT ![u] = "registering"]
  /\ doc' = [doc EXCEPT ![u] = [active |-> TRUE, config |-> asked[u]]]
  /\ UNCHANGED <<asked, running, usage, offered, starts, overlap>>

StoreLoopFails(u) ==
  /\ route[u] = "storing"
  /\ route' = [route EXCEPT ![u] = "idle"]
  /\ UNCHANGED <<asked, doc, running, usage, offered, starts, overlap>>

\* ... and _start_loop_task after it.
RegisterLoop(u) ==
  /\ route[u] = "registering"
  /\ route' = [route EXCEPT ![u] = "idle"]
  /\ running' = running \cup {u}
  /\ UNCHANGED <<asked, doc, usage, offered, starts, overlap>>

\* stop_snmp_loop: 400 without a loop; the status read before is left out.
StopLoopRoute(u) ==
  /\ u \in running
  /\ doc' = [doc EXCEPT ![u].active = FALSE]
  /\ UNCHANGED <<route, asked, running, usage, offered, starts, overlap>>

\* The task ends, stopped or timed out, and its callback removes the entry.
LoopOver(u) ==
  /\ u \in running
  /\ running' = running \ {u}
  /\ doc' = [doc EXCEPT ![u].active = FALSE]
  /\ UNCHANGED <<route, asked, usage, offered, starts, overlap>>

RouteNext ==
  \E u \in Users :
    \/ \E c \in Configs : AskStart(u, c)
    \/ ReadLoops(u)
    \/ RefuseStart(u)
    \/ RejectStart(u)
    \/ AdmitStart(u)
    \/ StoreLoop(u)
    \/ StoreLoopFails(u)
    \/ RegisterLoop(u)
    \/ StopLoopRoute(u)
    \/ LoopOver(u)

RouteSpec == RouteInit /\ [][RouteNext]_routeVars

-----------------------------------------------------------------------------
(* Properties.                                                             *)

\* What a loop sends in a window: a batch at its start and one per delay.
Batches(c) == Cardinality({t \in 0 .. Window - 1 : t % c.delay = 0})
Sends(c)   == c.traps * c.sims * Batches(c)
Load(us)   == SumFunction([u \in us |-> Sends(doc[u].config)])

\* As long as no request reads the active loops while another is between its
\* own read and its write, what the active loops send in any window stays
\* within the capacity.
CapacityHolds == ~ overlap => Load(Active) <= Capacity

\* The number of traps a 409 offers is the largest that the same request would
\* have been admitted with.
OfferIsLargest ==
  \A u \in Users :
    LET rate(n) == Rate([asked[u] EXCEPT !.traps = n])
    IN  offered[u] # NoOffer =>
          /\ offered[u] < asked[u].traps
          /\ usage[u] <= Capacity => usage[u] + rate(offered[u]) <= Capacity
          /\ usage[u] + rate(offered[u] + 1) > Capacity
=============================================================================
