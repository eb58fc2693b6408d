------------------------------ MODULE MapLock ------------------------------
(***************************************************************************)
(* MapLockManager (backend/app/utils/map_lock.py) and the two ways the     *)
(* Sapro routes use it:                                                    *)
(*   - a synchronous handler runs in a worker thread and takes its maps    *)
(*     with the context managers lock / lock_maps;                         *)
(*   - a streaming handler runs on the event loop, takes its maps with     *)
(*     acquire / acquire_maps BEFORE it returns the StreamingResponse, and *)
(*     the response's generator releases them in its finally block.        *)
(* A map is its rank in the sorted order of map names.  A lock object is   *)
(* a number; like threading.Lock it only knows whether it is locked.       *)
(***************************************************************************)
EXTENDS Integers

CONSTANTS Threads,   \* synchronous handlers, each in a worker thread
          Streams,   \* streaming handlers, all on the one event loop
          MapCount,  \* number of maps
          NoLoop     \* value of loop while no streaming handler occupies it

ASSUME MapLockAssumption ==
  /\ Threads \cap Streams = {}
  /\ MapCount \in Nat
  /\ NoLoop \notin Streams

Maps  == 1 .. MapCount
Procs == Threads \cup Streams

VARIABLES
  lockOf,    \* _locks: the lock object of each map, 0 until it is first asked for
  created,   \* number of lock objects created so far
  locked,    \* the lock objects that are locked
  ref,       \* ref[p][m]: the lock object p was given for map m
  want,      \* set(map_names) of p's operation, {} when p is idle
  held,      \* the local list "acquired" of p, as a set
  pc,        \* where p is
  loop       \* the streaming handler occupying the event loop, or NoLoop

vars == <<lockOf, created, locked, ref, want, held, pc, loop>>

PCs == {"idle", "fetching", "waiting", "handed", "critical",
        "releasing", "rollback", "abandoned"}

TypeOK ==
  /\ lockOf \in [Maps -> Nat]
  /\ created \in Nat
  /\ locked \in SUBSET Nat
  /\ ref \in [Procs -> [Maps -> Nat]]
  /\ want \in [Procs -> SUBSET Maps]
  /\ held \in [Procs -> SUBSET Maps]
  /\ pc \in [Procs -> PCs]
  /\ \A t \in Threads : pc[t] \notin {"handed", "abandoned"}
  /\ loop \in Streams \cup {NoLoop}

Init ==
  /\ lockOf = [m \in Maps |-> 0]
  /\ created = 0
  /\ locked = {}
  /\ ref = [p \in Procs |-> [m \in Maps |-> 0]]
  /\ want = [p \in Procs |-> {}]
  /\ held = [p \in Procs |-> {}]
  /\ pc = [p \in Procs |-> "idle"]
  /\ loop = NoLoop

Goto(p, l) == pc' = [pc EXCEPT ![p] = l]

\* A streaming handler keeps the event loop while it takes or gives back locks.
Occupy(p) == loop' = IF p \in Streams THEN p ELSE loop
Vacate(p) == loop' = IF p \in Streams THEN NoLoop ELSE loop

-----------------------------------------------------------------------------
(* Acquisition.                                                            *)

\* "for name in sorted_maps": the maps not yet taken are met in sorted order.
IsNextUnsorted(p, m) == m \in want[p] \ held[p]
IsNext(p, m) ==
  /\ m \in want[p] \ held[p]
  /\ \A n \in want[p] \ held[p] : m <= n

\* A request reaches its handler through the event loop, which dispatches a
\* synchronous handler to a thread and runs a streaming one itself.
RequestOnLoop(p, S) ==
  /\ pc[p] = "idle"
  /\ loop = NoLoop
  /\ S # {}
  /\ want' = [want EXCEPT ![p] = S]
  /\ Goto(p, "fetching")
  /\ loop' = p
  /\ UNCHANGED <<lockOf, created, locked, ref, held>>
Request(p, S) ==
  /\ pc[p] = "idle"
  /\ loop = NoLoop
  /\ S # {}
  /\ want' = [want EXCEPT ![p] = S]
  /\ Goto(p, "fetching")
  /\ Occupy(p)
  /\ UNCHANGED <<lockOf, created, locked, ref, held>>

\* _get_lock: look the map up and create its lock if need be, under the guard.
GetLockAlwaysNew(p, m) ==
  /\ pc[p] = "fetching"
  /\ IsNext(p, m)
  /\ created' = created + 1
  /\ lockOf' = [lockOf EXCEPT ![m] = created']
  /\ ref' = [ref EXCEPT ![p][m] = lockOf'[m]]
  /\ Goto(p, "waiting")
  /\ UNCHANGED <<locked, want, held, loop>>
GetLock(p, m) ==
  /\ pc[p] = "fetching"
  /\ IsNext(p, m)
  /\ IF lockOf[m] = 0
       THEN /\ created' = created + 1
            /\ lockOf' = [lockOf EXCEPT ![m] = created + 1]
       ELSE UNCHANGED <<created, lockOf>>
  /\ ref' = [ref EXCEPT ![p][m] = lockOf'[m]]
  /\ Goto(p, "waiting")
  /\ UNCHANGED <<locked, want, held, loop>>

\* lk.acquire(timeout) succeeds.  With its last map a handler goes on: a
\* synchronous one into its body, a streaming one back to the framework.
Acquire(p, m) ==
  /\ pc[p] = "waiting"
  /\ IsNext(p, m)
  /\ ref[p][m] \notin locked
  /\ locked' = locked \cup {ref[p][m]}
  /\ held' = [held EXCEPT ![p] = @ \cup {m}]
  /\ IF want[p] = held[p] \cup {m}
       THEN /\ Goto(p, IF p \in Streams THEN "handed" ELSE "critical")
            /\ Vacate(p)
       ELSE /\ Goto(p, "fetching")
            /\ UNCHANGED loop
  /\ UNCHANGED <<lockOf, created, ref, want>>

\* lk.acquire(timeout) gives up: only a lock that is still locked can do that.
TimeoutIgnored(p, m) ==
  /\ pc[p] = "waiting"
  /\ IsNext(p, m)
  /\ ref[p][m] \in locked
  /\ held' = [held EXCEPT ![p] = want[p]]
  /\ Goto(p, IF p \in Streams THEN "handed" ELSE "critical")
  /\ Vacate(p)
  /\ UNCHANGED <<lockOf, created, locked, ref, want>>
TimeoutNever(p, m) == FALSE /\ UNCHANGED vars
Timeout(p, m) ==
  /\ pc[p] = "waiting"
  /\ IsNext(p, m)
  /\ ref[p][m] \in locked
  /\ Goto(p, "rollback")
  /\ UNCHANGED <<lockOf, created, locked, ref, want, held, loop>>

-----------------------------------------------------------------------------
(* The protected operation and the release.                                *)

\* The body of the with statement returns or raises: either way, finally.
BodyEnds(t) ==
  /\ t \in Threads
  /\ pc[t] = "critical"
  /\ Goto(t, "releasing")
  /\ UNCHANGED <<lockOf, created, locked, ref, want, held, loop>>

\* The framework starts to iterate the response's generator ...
GeneratorStarts(s) ==
  /\ s \in Streams
  /\ pc[s] = "handed"
  /\ loop = NoLoop
  /\ Goto(s, "critical")
  /\ UNCHANGED <<lockOf, created, locked, ref, want, held, loop>>

\* ... or the client is gone before that: a generator that was never started
\* is closed without running any of its body, its finally block included.
ClientGone(s) ==
  /\ s \in Streams
  /\ pc[s] = "handed"
  /\ loop = NoLoop
  /\ Goto(s, "abandoned")
  /\ UNCHANGED <<lockOf, created, locked, ref, want, held, loop>>

\* The started generator finishes, fails or is cancelled: its finally block
\* runs on the event loop, once the loop is free to resume it.
GeneratorEnds(s) ==
  /\ s \in Streams
  /\ pc[s] = "critical"
  /\ loop = NoLoop
  /\ Goto(s, "releasing")
  /\ loop' = s
  /\ UNCHANGED <<lockOf, created, locked, ref, want, held>>

\* One lk.release() of the finally or rollback loop, in reverse order.  The
\* context managers keep the lock objects, the manual API looks them up again.
LastHeld(p, m) ==
  /\ m \in held[p]
  /\ \A n \in held[p] : n <= m

ReleaseOne(p, m) ==
  /\ pc[p] \in {"releasing", "rollback"}
  /\ LastHeld(p, m)
  /\ locked' = locked \ {IF p \in Streams THEN lockOf[m] ELSE ref[p][m]}
  /\ held' = [held EXCEPT ![p] = @ \ {m}]
  /\ UNCHANGED <<lockOf, created, ref, want, pc, loop>>

\* Nothing is left to release: the response, or the 409, is out.
Return(p) ==
  /\ pc[p] \in {"releasing", "rollback"}
  /\ held[p] = {}
  /\ want' = [want EXCEPT ![p] = {}]
  /\ ref' = [ref EXCEPT ![p] = [m \in Maps |-> 0]]
  /\ Goto(p, "idle")
  /\ Vacate(p)
  /\ UNCHANGED <<lockOf, created, locked, held>>

-----------------------------------------------------------------------------
\* What p does by itself, without a client's doing.
Step(p) ==
  \/ \E m \in Maps : \/ GetLock(p, m)
                     \/ Acquire(p, m)
                     \/ Timeout(p, m)
                     \/ ReleaseOne(p, m)
  \/ Return(p)
  \/ BodyEnds(p)
  \/ GeneratorStarts(p)
  \/ GeneratorEnds(p)

Next == \E p \in Procs :
  \/ \E S \in SUBSET Maps : Request(p, S)
  \/ Step(p)
  \/ ClientGone(p)

Spec == Init /\ [][Next]_vars

\* Threads are scheduled, an acquire returns at the latest when its timeout
\* has passed, and the event loop's ready queue is first in, first out, so a
\* coroutine that is ready again and again is resumed.  No fairness for
\* clients: requests and disconnections need not happen.
FairSpec ==
  /\ Spec
  /\ \A t \in Threads : WF_vars(Step(t))
  /\ \A s \in Streams : SF_vars(Step(s))

-----------------------------------------------------------------------------
(* Properties.                                                             *)

\* No map is ever held by two operations at once, although the lock objects
\* are created lazily and know no owner: "Provides map-level mutual exclusion
\* so that concurrent operations on the same map are serialised".
MutualExclusion ==
  \A p, q \in Procs : p # q => held[p] \cap held[q] = {}

\* p is inside lk.acquire for a map that q has.
WaitsFor(p, q) ==
  /\ pc[p] = "waiting"
  /\ \E m \in held[q] : IsNext(p, m)

\* Operations that name overlapping sets of maps in different orders never
\* wait for each other in a circle ("Locks are acquired in sorted order to
\* prevent deadlocks"): no set of operations exists in which each one waits
\* for a map that another one of the set has.
NoCircularWait ==
  \A S \in SUBSET Procs :
    S # {} => \E p \in S : \A q \in S : ~ WaitsFor(p, q)

\* The promise to the handlers: an operation runs with all the maps it named
\* to itself, or is refused without having run (module ExclusiveMaps).
Running(p) == pc[p] \in {"handed", "critical", "abandoned"}

Promise == INSTANCE ExclusiveMaps WITH
  asked <- [p \in Procs |-> IF pc[p] \in {"releasing", "rollback"} THEN {} ELSE want[p]],
  inside <- [p \in Procs |-> IF Running(p) THEN held[p] ELSE {}]

ImplementsExclusiveMaps == Promise!Spec

\* Every operation that asks for maps gets an answer, even while other
\* operations hold them for good: it runs, or its wait times out and it is
\* refused with everything it had taken released.
EveryRequestAnswered ==
  \A p \in Procs : pc[p] \in {"fetching", "waiting"}
                     ~> (Running(p) \/ (pc[p] = "idle" /\ held[p] = {}))

\* What the manager's users say of it and the model refutes.

\* "released in generator's finally block": a streaming operation that has
\* taken its maps gives them back.
StreamsGiveBack == \A s \in Streams : Running(s) ~> held[s] = {}

\* "Locks are acquired in sorted order to prevent deadlocks": a streaming
\* handler never blocks the event loop on a map whose holder needs the event
\* loop to release it.
LoopNeverWaitsForItself ==
  \A s, q \in Streams : ~ (loop = s /\ WaitsFor(s, q))
=============================================================================
