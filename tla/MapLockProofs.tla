--------------------------- MODULE MapLockProofs ---------------------------
(***************************************************************************)
(* Proofs about MapLock for any threads, streams and number of maps.       *)
(***************************************************************************)
EXTENDS MapLock, FiniteSetTheorems, WellFoundedInduction, TLAPS

\* Each map has one lock object, and no two maps share one.
LockObjects ==
  /\ \A m \in Maps : lockOf[m] <= created
  /\ \A m, n \in Maps : lockOf[m] = lockOf[n] /\ lockOf[m] # 0 => m = n

\* A lock object that somebody was given is the one the map still has.
RefsCurrent ==
  \A p \in Procs, m \in Maps : ref[p][m] # 0 => ref[p][m] = lockOf[m]

\* What an operation holds is locked.
HeldLocked ==
  \A p \in Procs : \A m \in held[p] : ref[p][m] # 0 /\ ref[p][m] \in locked

\* How far each operation is, and that it took its maps in ascending order.
Stage ==
  \A p \in Procs :
    /\ held[p] \subseteq want[p]
    /\ pc[p] = "idle" => want[p] = {}
    /\ pc[p] # "idle" => want[p] # {}
    /\ pc[p] \in {"fetching", "waiting"} =>
         /\ held[p] # want[p]
         /\ \A h \in held[p], x \in want[p] \ held[p] : h < x
    /\ pc[p] = "waiting" => \A m \in Maps : IsNext(p, m) => ref[p][m] # 0
    /\ Running(p) => held[p] = want[p]

IInv == LockObjects /\ RefsCurrent /\ HeldLocked /\ MutualExclusion /\ Stage

-----------------------------------------------------------------------------

\* Type correctness of the lock manager's state, for every instance.
THEOREM TypeCorrect == Spec => []TypeOK
<1> USE MapLockAssumption DEF TypeOK, Procs, PCs
<1>1. Init => TypeOK
  BY DEF Init
<1>2. TypeOK /\ [Next]_vars => TypeOK'
  <2> SUFFICES ASSUME TypeOK, [Next]_vars PROVE TypeOK'
    OBVIOUS
  <2>1. ASSUME NEW p \in Procs, NEW S \in SUBSET Maps, Request(p, S) PROVE TypeOK'
    BY <2>1 DEF Request, Goto, Occupy
  <2>2. ASSUME NEW p \in Procs, NEW m \in Maps, GetLock(p, m) PROVE TypeOK'
    <3>1. lockOf' \in [Maps -> Nat] /\ created' \in Nat
      BY <2>2 DEF GetLock
    <3>2. QED
      BY <2>2, <3>1 DEF GetLock, Goto
  <2>3. ASSUME NEW p \in Procs, NEW m \in Maps, Acquire(p, m) PROVE TypeOK'
    <3>1. locked' \in SUBSET Nat /\ held' \in [Procs -> SUBSET Maps]
      <4>1. /\ locked' = locked \cup {ref[p][m]}
            /\ held' = [held EXCEPT ![p] = @ \cup {m}]
        BY <2>3 DEF Acquire, Goto, Vacate
      <4>2. ref[p][m] \in Nat /\ held[p] \cup {m} \in SUBSET Maps
        OBVIOUS
      <4>3. locked' \in SUBSET Nat
        BY <4>1, <4>2
      <4>4. held' \in [Procs -> SUBSET Maps]
        BY <4>1, <4>2
      <4>5. QED
        BY <4>3, <4>4
    <3>2. \/ pc' = [pc EXCEPT ![p] = "fetching"] /\ loop' = loop
          \/ p \in Streams /\ pc' = [pc EXCEPT ![p] = "handed"] /\ loop' = NoLoop
          \/ p \notin Streams /\ pc' = [pc EXCEPT ![p] = "critical"] /\ loop' = loop
      BY <2>3, Zenon DEF Acquire, Goto, Vacate
    <3>3. pc' \in [Procs -> PCs] /\ loop' \in Streams \cup {NoLoop}
      BY <3>2
    <3>4. \A t \in Threads : pc'[t] \notin {"handed", "abandoned"}
      BY <3>2
    <3>5. UNCHANGED <<lockOf, created, ref, want>>
      BY <2>3 DEF Acquire
    <3>6. QED
      BY <3>1, <3>3, <3>4, <3>5
  <2>4. ASSUME NEW p \in Procs, NEW m \in Maps, Timeout(p, m) PROVE TypeOK'
    BY <2>4 DEF Timeout, Goto
  <2>5. ASSUME NEW p \in Procs, NEW m \in Maps, ReleaseOne(p, m) PROVE TypeOK'
    BY <2>5 DEF ReleaseOne
  <2>6. ASSUME NEW p \in Procs, Return(p) PROVE TypeOK'
    BY <2>6 DEF Return, Goto, Vacate
  <2>7. ASSUME NEW p \in Procs,
               BodyEnds(p) \/ GeneratorStarts(p) \/ GeneratorEnds(p) \/ ClientGone(p)
        PROVE TypeOK'
    BY <2>7 DEF BodyEnds, GeneratorStarts, GeneratorEnds, ClientGone, Goto
  <2>8. CASE UNCHANGED vars
    BY <2>8 DEF vars
  <2>9. QED
    BY <2>1, <2>2, <2>3, <2>4, <2>5, <2>6, <2>7, <2>8 DEF Next, Step
<1>3. QED
  BY <1>1, <1>2, PTL DEF Spec

-----------------------------------------------------------------------------
\* The inductive invariant behind the results below.
LEMMA InvInit == Init => IInv
  BY MapLockAssumption DEF Init, IInv, LockObjects, RefsCurrent, HeldLocked,
     MutualExclusion, Stage, IsNext, Running, Maps, Procs

\* A step that moves only want, pc or loop keeps what is said of the locks.
LEMMA LocksUntouched ==
  ASSUME IInv, UNCHANGED <<lockOf, created, locked, ref, held>>
  PROVE  (LockObjects /\ RefsCurrent /\ HeldLocked /\ MutualExclusion)'
  BY DEF IInv, LockObjects, RefsCurrent, HeldLocked, MutualExclusion

\* Every step of a thread, a stream or a client keeps the inductive invariant.
LEMMA InvNext == TypeOK /\ IInv /\ [Next]_vars => IInv'
<1> SUFFICES ASSUME TypeOK, IInv, [Next]_vars PROVE IInv'
  OBVIOUS
<1> USE DEF TypeOK, IInv, Procs
<1>1. ASSUME NEW p \in Procs, NEW S \in SUBSET Maps, Request(p, S) PROVE IInv'
  <2>1. (LockObjects /\ RefsCurrent /\ HeldLocked /\ MutualExclusion)'
    BY <1>1, LocksUntouched DEF Request
  <2>2. Stage'
    BY <1>1 DEF Stage, Request, Goto, Running, IsNext
  <2>3. QED
    BY <2>1, <2>2
<1>2. ASSUME NEW p \in Procs, NEW m \in Maps, GetLock(p, m) PROVE IInv'
  <2> lockOf' \in [Maps -> Nat] /\ created' \in Nat
    BY <1>2 DEF GetLock
  <2>1. /\ lockOf'[m] # 0
        /\ \A n \in Maps : n # m => lockOf'[n] = lockOf[n]
        /\ lockOf[m] # 0 => lockOf'[m] = lockOf[m]
    BY <1>2 DEF GetLock
  <2>2. LockObjects'
    BY <1>2, <2>1 DEF GetLock, LockObjects
  <2>3. RefsCurrent'
    BY <1>2, <2>1 DEF GetLock, RefsCurrent
  <2>4. HeldLocked'
    BY <1>2, <2>1 DEF GetLock, HeldLocked, IsNext
  <2>5. MutualExclusion'
    BY <1>2 DEF GetLock, MutualExclusion
  <2>6. Stage'
    <3>1. /\ UNCHANGED <<want, held>>
          /\ pc' = [pc EXCEPT ![p] = "waiting"]
          /\ ref' = [ref EXCEPT ![p][m] = lockOf'[m]]
          /\ pc[p] = "fetching"
          /\ IsNext(p, m)
      BY <1>2 DEF GetLock, Goto
    <3>2. \A q \in Procs, k \in Maps : IsNext(q, k)' <=> IsNext(q, k)
      BY <3>1 DEF IsNext
    <3>3. \A k \in Maps : IsNext(p, k) => k = m
      BY <3>1 DEF IsNext, Maps
    <3>4. \A q \in Procs : pc'[q] = "waiting" =>
                              \A k \in Maps : IsNext(q, k)' => ref'[q][k] # 0
      BY <2>1, <3>1, <3>2, <3>3 DEF Stage
    <3>5. QED
      BY <3>1, <3>4 DEF Stage, Running
  <2>7. QED
    BY <2>2, <2>3, <2>4, <2>5, <2>6
<1>3. ASSUME NEW p \in Procs, NEW m \in Maps, Acquire(p, m) PROVE IInv'
  <2>1. ref[p][m] # 0 /\ ref[p][m] = lockOf[m]
    BY <1>3 DEF Acquire, Stage, RefsCurrent
  <2>2. \A q \in Procs : m \notin held[q]
    BY <1>3, <2>1 DEF Acquire, HeldLocked, RefsCurrent
  <2>3. LockObjects' /\ RefsCurrent'
    BY <1>3 DEF Acquire, LockObjects, RefsCurrent
  <2>4. HeldLocked'
    BY <1>3, <2>1 DEF Acquire, HeldLocked
  <2>5. MutualExclusion'
    BY <1>3, <2>2 DEF Acquire, MutualExclusion
  <2>6. Stage'
    <3>1. /\ UNCHANGED <<want, ref>>
          /\ held' = [held EXCEPT ![p] = @ \cup {m}]
          /\ IsNext(p, m)
          /\ pc[p] = "waiting"
      BY <1>3, Zenon DEF Acquire
    <3>2. \/ want[p] = held'[p] /\ pc' = [pc EXCEPT ![p] = "handed"]
          \/ want[p] = held'[p] /\ pc' = [pc EXCEPT ![p] = "critical"]
          \/ want[p] # held'[p] /\ pc' = [pc EXCEPT ![p] = "fetching"]
      BY <1>3 DEF Acquire, Goto
    <3>3. \A q \in Procs \ {p} : /\ held'[q] = held[q]
                                 /\ pc'[q] = pc[q]
                                 /\ \A k \in Maps : IsNext(q, k)' <=> IsNext(q, k)
      BY <3>1, <3>2 DEF IsNext
    <3>4. /\ held'[p] \subseteq want[p]
          /\ \A h \in held'[p], x \in want[p] \ held'[p] : h < x
      BY <3>1 DEF Stage, IsNext, Maps
    <3>5. QED
      BY <3>1, <3>2, <3>3, <3>4 DEF Stage, Running
  <2>7. QED
    BY <2>3, <2>4, <2>5, <2>6
<1>4. ASSUME NEW p \in Procs, NEW m \in Maps, Timeout(p, m) PROVE IInv'
  BY <1>4, LocksUntouched DEF Timeout, Stage, Goto, Running, IsNext
<1>5. ASSUME NEW p \in Procs, NEW m \in Maps, ReleaseOne(p, m) PROVE IInv'
  <2>1. m \in held[p] /\ ref[p][m] = lockOf[m] /\ lockOf[m] # 0
    BY <1>5 DEF ReleaseOne, LastHeld, HeldLocked, RefsCurrent
  <2>2. \A q \in Procs : \A n \in held'[q] : ref[q][n] # lockOf[m]
    <3> SUFFICES ASSUME NEW q \in Procs, NEW n \in held'[q], ref[q][n] = lockOf[m]
                 PROVE  FALSE
      OBVIOUS
    <3>1. n \in held[q] /\ n \in Maps
      BY <1>5 DEF ReleaseOne
    <3>2. n = m
      BY <2>1, <3>1 DEF HeldLocked, RefsCurrent, LockObjects
    <3>3. q = p
      BY <2>1, <3>1, <3>2 DEF MutualExclusion
    <3>4. QED
      BY <1>5, <3>2, <3>3 DEF ReleaseOne
  <2>3. LockObjects' /\ RefsCurrent' /\ MutualExclusion'
    BY <1>5 DEF ReleaseOne, LockObjects, RefsCurrent, MutualExclusion
  <2>4. HeldLocked'
    BY <1>5, <2>1, <2>2 DEF ReleaseOne, HeldLocked
  <2>5. Stage'
    BY <1>5 DEF ReleaseOne, Stage, Running, IsNext
  <2>6. QED
    BY <2>3, <2>4, <2>5
<1>6. ASSUME NEW p \in Procs, Return(p) PROVE IInv'
  <2>1. LockObjects' /\ MutualExclusion'
    BY <1>6 DEF Return, LockObjects, MutualExclusion
  <2>2. RefsCurrent' /\ HeldLocked'
    BY <1>6 DEF Return, RefsCurrent, HeldLocked
  <2>3. Stage'
    BY <1>6 DEF Return, Stage, Goto, Running, IsNext
  <2>4. QED
    BY <2>1, <2>2, <2>3
<1>7. ASSUME NEW p \in Procs,
             BodyEnds(p) \/ GeneratorStarts(p) \/ GeneratorEnds(p) \/ ClientGone(p)
      PROVE IInv'
  <2>1. UNCHANGED <<lockOf, created, locked, ref, want, held>>
    BY <1>7 DEF BodyEnds, GeneratorStarts, GeneratorEnds, ClientGone
  <2>2. (LockObjects /\ RefsCurrent /\ HeldLocked /\ MutualExclusion)'
    BY <2>1, LocksUntouched
  <2>3. Stage'
    BY <1>7, <2>1
    DEF BodyEnds, GeneratorStarts, GeneratorEnds, ClientGone, Stage, Goto, Running, IsNext
  <2>4. QED
    BY <2>2, <2>3
<1>8. CASE UNCHANGED vars
  BY <1>8, LocksUntouched DEF vars, Stage, Running, IsNext
<1>9. QED
  BY <1>1, <1>2, <1>3, <1>4, <1>5, <1>6, <1>7, <1>8 DEF Next, Step

\* The inductive invariant holds in every reachable state.
LEMMA InvCorrect == Spec => []IInv
  BY InvInit, InvNext, TypeCorrect, PTL DEF Spec

\* At no time do two operations hold the same map, whatever the interleaving
\* of lock creation, acquisition, timeouts, rollbacks and releases.
THEOREM MutualExclusionHolds == Spec => []MutualExclusion
  BY InvCorrect, PTL DEF IInv

-----------------------------------------------------------------------------
\* Among operations that wait for maps, one wants a map of the highest rank.
LEMMA GreatestMap ==
  ASSUME NEW T \in SUBSET Maps, T # {}
  PROVE  \E m \in T : \A n \in T : n <= m
<1> DEFINE Above(m) == {n \in T : n > m}
           U == {Above(m) : m \in T}
           R == StrictSubsetOrdering(Maps)
<1>1. IsFiniteSet(Maps)
  BY FS_Interval, MapLockAssumption DEF Maps
<1>2. U \subseteq FiniteSubsetsOf(Maps)
  BY <1>1, FS_Subset DEF FiniteSubsetsOf
<1>3. U # {} /\ IsWellFoundedOn(R, FiniteSubsetsOf(Maps))
  BY FS_StrictSubsetOrderingWellFounded
<1> HIDE DEF U, R
<1>4. PICK x \in U : \A y \in U : ~ (<<y, x>> \in R)
  BY <1>2, <1>3, WFMin
<1>5. PICK m \in T : x = Above(m)
  BY DEF U
<1>6. ASSUME NEW n \in T, n > m PROVE FALSE
  <2>0. T \subseteq Int
    BY MapLockAssumption DEF Maps
  <2>1. Above(n) \subseteq x /\ n \in x /\ n \notin Above(n)
    <3>1. \A k \in T : k > n => k > m
      BY <1>6, <2>0
    <3>2. n \in T /\ n > m /\ ~ (n > n)
      BY <1>6, <2>0
    <3>3. QED
      BY <1>5, <3>1, <3>2, Zenon
  <2>1a. Above(n) \in U
    BY DEF U
  <2>2. x \in SUBSET Maps
    BY <1>5
  <2>3. <<Above(n), x>> \in R
    BY <2>1, <2>2 DEF StrictSubsetOrdering, R
  <2>4. QED
    BY <1>4, <2>1a, <2>3
<1>7. QED
  BY <1>6, MapLockAssumption DEF Maps

\* Taking maps in sorted order rules out every circular wait, between threads,
\* between streams and between the two.
THEOREM NoCircularWaitHolds == Spec => []NoCircularWait
<1>1. TypeOK /\ IInv => NoCircularWait
  <2> SUFFICES ASSUME TypeOK, IInv, NEW S \in SUBSET Procs, S # {},
                      \A p \in S : \E q \in S : WaitsFor(p, q)
               PROVE  FALSE
    BY DEF NoCircularWait
  <2> DEFINE T == {m \in Maps : \E p \in S : pc[p] = "waiting" /\ IsNext(p, m)}
  <2>1. T # {}
    BY DEF WaitsFor, IsNext, TypeOK, Procs
  <2> HIDE DEF T
  <2>2. PICK m \in T : \A n \in T : n <= m
    BY <2>1, GreatestMap DEF T
  <2>3. PICK p \in S : pc[p] = "waiting" /\ IsNext(p, m)
    BY DEF T
  <2>4. PICK q \in S : WaitsFor(p, q)
    OBVIOUS
  <2>5. m \in held[q] /\ m \in Maps
    BY <2>3, <2>4 DEF WaitsFor, IsNext, TypeOK, Procs, Maps
  <2>6. PICK n \in T : pc[q] = "waiting" /\ IsNext(q, n)
    BY DEF WaitsFor, T, IsNext, TypeOK, Procs
  <2>7. m < n
    BY <2>5, <2>6 DEF IInv, Stage, IsNext
  <2>8. n <= m
    BY <2>2
  <2>9. QED
    BY <2>5, <2>6, <2>7, <2>8 DEF T, Maps
<1>2. QED
  BY <1>1, TypeCorrect, InvCorrect, PTL

-----------------------------------------------------------------------------
\* The lock manager implements the promise of ExclusiveMaps: every handler
\* runs with all its maps to itself or is refused without having run.
AskedOf(p)  == IF pc[p] \in {"releasing", "rollback"} THEN {} ELSE want[p]
InsideOf(p) == IF Running(p) THEN held[p] ELSE {}

\* Every step of the lock manager is one of the promise, or invisible to it.
LEMMA PromiseStep ==
  TypeOK /\ IInv /\ IInv' /\ [Next]_vars => [Promise!Next]_(Promise!vars)
<1> SUFFICES ASSUME TypeOK, IInv, IInv', [Next]_vars
             PROVE  Promise!Next \/ UNCHANGED Promise!vars
  OBVIOUS
<1> USE DEF Procs, Promise!vars, Running
<1> DEFINE Asked == [p \in Procs |-> AskedOf(p)]
           Inside == [p \in Procs |-> InsideOf(p)]
\* A step that changes neither image of any operation is a stutter.
<1>0. ASSUME \A q \in Procs : AskedOf(q)' = AskedOf(q) /\ InsideOf(q)' = InsideOf(q)
      PROVE  UNCHANGED Promise!vars
  BY <1>0 DEF AskedOf, InsideOf
<1>1. ASSUME NEW p \in Procs, NEW S \in SUBSET Maps, Request(p, S)
      PROVE  Promise!Next
  <2>1. /\ AskedOf(p) = {} /\ AskedOf(p)' = S /\ S # {}
        /\ \A q \in Procs \ {p} : AskedOf(q)' = AskedOf(q)
        /\ \A q \in Procs : InsideOf(q)' = InsideOf(q)
    BY <1>1 DEF Request, Goto, AskedOf, InsideOf, TypeOK, IInv, Stage
  <2>2. Promise!Ask(p, S)
    BY <2>1 DEF Promise!Ask, AskedOf, InsideOf
  <2>3. QED
    BY <2>2 DEF Promise!Next
<1>2. ASSUME NEW p \in Procs, NEW m \in Maps, GetLock(p, m) \/ ReleaseOne(p, m)
      PROVE  UNCHANGED Promise!vars
  BY <1>0, <1>2 DEF GetLock, ReleaseOne, Goto, AskedOf, InsideOf, TypeOK
<1>3. ASSUME NEW p \in Procs, NEW m \in Maps, Acquire(p, m)
      PROVE  Promise!Next \/ UNCHANGED Promise!vars
  <2>1. CASE want[p] = held[p] \cup {m}
    <3>1. /\ held' = [held EXCEPT ![p] = want[p]]
          /\ UNCHANGED want
          /\ \E l \in {"handed", "critical"} : pc' = [pc EXCEPT ![p] = l]
          /\ pc[p] = "waiting"
      BY <1>3, <2>1 DEF Acquire, Goto
    <3>2. /\ AskedOf(p) = want[p] /\ want[p] # {}
          /\ InsideOf(p) = {} /\ InsideOf(p)' = want[p]
          /\ \A q \in Procs : AskedOf(q)' = AskedOf(q)
          /\ \A q \in Procs \ {p} : InsideOf(q)' = InsideOf(q)
      BY <3>1 DEF AskedOf, InsideOf, TypeOK, IInv, Stage
    <3>3. \A q \in Procs : InsideOf(q) \cap want[p] = {}
      BY <3>1, <3>2 DEF InsideOf, IInv, MutualExclusion, TypeOK
    <3>4. Promise!Enter(p)
      BY <3>2, <3>3 DEF Promise!Enter, AskedOf, InsideOf
    <3>5. QED
      BY <3>4 DEF Promise!Next
  <2>2. CASE want[p] # held[p] \cup {m}
    BY <1>0, <1>3, <2>2 DEF Acquire, Goto, AskedOf, InsideOf, TypeOK
  <2>3. QED
    BY <2>1, <2>2
<1>4. ASSUME NEW p \in Procs,
             (\E m \in Maps : Timeout(p, m)) \/ BodyEnds(p) \/ GeneratorEnds(p)
      PROVE  Promise!Next
  <2>1. /\ AskedOf(p) = want[p] /\ want[p] # {} /\ AskedOf(p)' = {}
        /\ InsideOf(p)' = {}
        /\ \A q \in Procs \ {p} : /\ AskedOf(q)' = AskedOf(q)
                                 /\ InsideOf(q)' = InsideOf(q)
    BY <1>4 DEF Timeout, BodyEnds, GeneratorEnds, Goto, AskedOf, InsideOf, TypeOK, IInv, Stage
  <2>2. Promise!Leave(p)
    BY <2>1 DEF Promise!Leave, AskedOf, InsideOf
  <2>3. QED
    BY <2>2 DEF Promise!Next
<1>5. ASSUME NEW p \in Procs, Return(p) \/ GeneratorStarts(p) \/ ClientGone(p)
      PROVE  UNCHANGED Promise!vars
  BY <1>0, <1>5
  DEF Return, GeneratorStarts, ClientGone, Goto, AskedOf, InsideOf, TypeOK
<1>6. CASE UNCHANGED vars
  BY <1>0, <1>6 DEF vars, AskedOf, InsideOf
<1>7. QED
  BY <1>1, <1>2, <1>3, <1>4, <1>5, <1>6 DEF Next, Step

\* acquire_maps and lock_maps, with lazily created locks, timeouts and rollbacks,
\* implement what module ExclusiveMaps promises the route handlers.
THEOREM ImplementsExclusiveMapsHolds == Spec => ImplementsExclusiveMaps
<1>1. Init => Promise!Init
  BY DEF Init, Promise!Init, Running
<1>2. QED
  BY <1>1, PromiseStep, TypeCorrect, InvCorrect, PTL
  DEF Spec, ImplementsExclusiveMaps, Promise!Spec
=============================================================================
