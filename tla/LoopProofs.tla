----------------------------- MODULE LoopProofs -----------------------------
(***************************************************************************)
(* What the trap loops guarantee for any number of simulators, users and   *)
(* messages: how much an IRP loop still sends once it has been told to     *)
(* stop, that the stored totals are what was sent, and that the loops the  *)
(* capacity check admits fit together.                                     *)
(***************************************************************************)
EXTENDS LoopBatch, LoopRoutes, SumLemmas, SequenceTheorems, TLAPS

-----------------------------------------------------------------------------
(***************************************************************************)
(* The stop event and the batches.                                         *)
(***************************************************************************)
\* What the steps need to know of the types.
LateTyped ==
  /\ sim \in [Simulators -> [pc : {"next", "sending", "counting", "done", "raised"},
                             ok : Int, failed : Int]]
  /\ late \in [Simulators -> Nat]
  /\ stopped \in BOOLEAN

\* A simulator has sent nothing late before the stop, and after its late message
\* it is at the look at the stop event, or past it, and sends no other.
LateOnce ==
  \A s \in Simulators : /\ late[s] <= 1
                        /\ late[s] = 1 => stopped /\ sim[s].pc # "sending"

LateInv == LateTyped /\ LateOnce

\* No message is late before the first batch.
LEMMA LateInvInit == BatchInit => LateInv
<1> SUFFICES ASSUME BatchInit PROVE LateInv
  OBVIOUS
<1>1. sim = [s \in Simulators |-> NewSim] /\ late = [s \in Simulators |-> 0] /\ stopped = FALSE
  BY DEF BatchInit
<1>2. LateTyped
  <2>1. NewSim \in [pc : {"next", "sending", "counting", "done", "raised"}, ok : Int, failed : Int]
    BY DEF NewSim
  <2>2. QED
    BY <1>1, <2>1 DEF LateTyped
<1>3. LateOnce
  BY <1>1 DEF LateOnce
<1>4. QED
  BY <1>2, <1>3 DEF LateInv

\* A step of one simulator keeps the invariant; it is NextMessage that matters:
\* it does not go on to send when the event is set.
LEMMA SimKeeps ==
  ASSUME LateInv, NEW s \in Simulators, SimNext(s)
  PROVE  LateInv'
<1> USE DEF LateInv, LateTyped, LateOnce
<1>1. CASE NoMap(s)
  BY <1>1 DEF NoMap
<1>2. CASE SendTraps(s)
  <2>1. PICK ok \in 0 .. Messages :
          sim' = [sim EXCEPT ![s] = [pc |-> "counting", ok |-> ok, failed |-> Messages - ok]]
    BY <1>2 DEF SendTraps
  <2>2. QED
    BY <1>2, <2>1, BatchAssumption DEF SendTraps
<1>3. CASE SendRaises(s)
  <2>1. PICK ok \in 0 .. Messages - 1 :
          sim' = [sim EXCEPT ![s] = [pc |-> "raised", ok |-> ok, failed |-> 0]]
    BY <1>3 DEF SendRaises
  <2>2. QED
    BY <1>3, <2>1, BatchAssumption DEF SendRaises
<1>4. CASE CountTraps(s) \/ CountFails(s)
  BY <1>4 DEF CountTraps, CountFails
<1>5. CASE NextMessage(s)
  <2>1. stopped => sim'[s].pc = "done"
    BY <1>5 DEF NextMessage
  <2>2. QED
    BY <1>5, <2>1 DEF NextMessage
<1>6. CASE SendMessage(s)
  <2>1. PICK ok \in {0, 1} :
          sim' = [sim EXCEPT ![s].pc = "next", ![s].ok = @ + ok, ![s].failed = @ + 1 - ok]
    BY <1>6 DEF SendMessage
  <2>2. late[s] = 0
    BY <1>6 DEF SendMessage
  <2>3. QED
    BY <1>6, <2>1, <2>2 DEF SendMessage
<1>7. QED
  BY <1>1, <1>2, <1>3, <1>4, <1>5, <1>6 DEF SimNext

\* So does every other step.
LEMMA LateInvNext == LateInv /\ [BatchNext]_batchVars => LateInv'
<1> SUFFICES ASSUME LateInv, [BatchNext]_batchVars PROVE LateInv'
  OBVIOUS
<1> USE DEF LateInv, LateTyped, LateOnce
<1>1. CASE StartBatch
  BY <1>1 DEF StartBatch, NewSim
<1>2. CASE SetStop
  BY <1>2 DEF SetStop
<1>3. ASSUME NEW s \in Simulators, SimNext(s) PROVE LateInv'
  BY <1>3, SimKeeps
<1>4. CASE LoadSchema \/ Gathered
  BY <1>4 DEF LoadSchema, Gathered
<1>5. CASE StoreBatch \/ StoreFails \/ StoreError \/ StoreErrorFails
  BY <1>5 DEF StoreBatch, StoreFails, StoreError, StoreErrorFails
<1>6. CASE UNCHANGED batchVars
  BY <1>6 DEF batchVars
<1>7. QED
  BY <1>1, <1>2, <1>3, <1>4, <1>5, <1>6 DEF BatchNext, BatchStep

\* Once an IRP loop is told to stop, each of its simulators sends at most the
\* message it is in the middle of, in this batch and in all that may follow.
THEOREM StopsWithinOneMessageHolds == BatchSpec => []StopsWithinOneMessage
<1>1. LateInv => StopsWithinOneMessage
  BY DEF LateInv, LateOnce, StopsWithinOneMessage
<1>2. QED
  BY <1>1, LateInvInit, LateInvNext, PTL DEF BatchSpec

-----------------------------------------------------------------------------
(***************************************************************************)
(* What the batches count.                                                 *)
(***************************************************************************)
Handled(w) == w.ok + w.failed
CoroutineStates == [pc : {"next", "sending", "counting", "done", "raised"}, ok : Nat, failed : Nat]
Counters == [batches : Nat, failedBatches : Nat, ok : Nat, failed : Nat, error : BOOLEAN]

BatchTyped ==
  /\ kind \in {"snmp", "irp"} /\ mapped \subseteq Simulators
  /\ phase \in {"idle", "loading", "sending", "storing", "failing", "raised"}
  /\ sim \in [Simulators -> CoroutineStates]
  /\ stopped \in BOOLEAN /\ aborted \in BOOLEAN /\ dbFailed \in BOOLEAN
  /\ sent \in Nat /\ unreported \in Nat /\ unreported <= sent /\ count \in Counters

\* What the coroutine of s may have got to: it is over, or about to count, only with
\* every trap handled - or, for IRP, with the stop event set.
Sound(w, s) ==
  /\ w.pc = "counting" => kind = "snmp"
  /\ w.pc = "sending" => kind = "irp" /\ Handled(w) < Messages
  /\ w.pc = "raised" => kind = "snmp"
  /\ Handled(w) <= Messages
  /\ w.pc \in {"counting", "done"} /\ s \in mapped /\ (kind = "snmp" \/ phase = "storing" \/ ~ stopped)
       => Handled(w) = Messages

Coroutines ==
  \A s \in Simulators : /\ Sound(sim[s], s)
                        /\ phase # "sending" => sim[s].pc \notin {"counting", "sending"}
                        /\ phase = "storing" => SimOver(s)

\* A schema is loaded, or its error handled, before anything is sent; only a failed
\* database call leads elsewhere.
Phases ==
  /\ phase = "raised" => dbFailed
  /\ aborted => phase = "idle"
  /\ phase = "loading" \/ (phase = "failing" /\ ~ dbFailed)
       => kind = "irp" /\ sim = [s \in Simulators |-> NewSim]

\* What was confirmed is counted, or was lost with a sender that raised, or is held by
\* the coroutines: those of SNMP that are about to count, and all of IRP until the batch
\* is stored.
Amount(w) == IF (kind = "irp" /\ phase \in {"sending", "storing"}) \/ w.pc = "counting" THEN w.ok ELSE 0
Uncounted == [s \in Simulators |-> Amount(sim[s])]
Balance == ~ dbFailed /\ ~ aborted => sent = count.ok + unreported + SumFunction(Uncounted)

BatchInv == BatchTyped /\ Coroutines /\ Phases /\ Balance /\ NoErrorMeansSent

\* The sums range over the simulators.
LEMMA SimulatorSums ==
  ASSUME NEW f, DOMAIN f = Simulators
  PROVE  SumFunction(f) = SumFunctionOnSet(f, Simulators)
BY DEF SumFunction

\* What is counted while nothing is held.
LEMMA NothingHeld ==
  ASSUME \A s \in Simulators : Amount(sim[s]) = 0
  PROVE  SumFunction(Uncounted) = 0
<1> DEFINE U == Uncounted
<1>1. DOMAIN U = Simulators /\ \A s \in Simulators : U[s] = 0
  BY DEF Uncounted
<1> HIDE DEF U
<1>2. SumFunction(U) = 0
  BY <1>1, SimulatorSums, SumOfZeros, BatchAssumption
<1>3. QED
  BY <1>2 DEF U

LEMMA NewSimIsNew ==
  /\ NewSim \in CoroutineStates /\ NewSim.pc = "next" /\ Handled(NewSim) = 0 /\ NewSim.ok = 0
BY DEF NewSim, CoroutineStates, Handled

\* Nothing is sent before the first batch.
LEMMA BatchInvInit == BatchInit => BatchInv
<1> SUFFICES ASSUME BatchInit PROVE BatchInv
  OBVIOUS
<1> USE NewSimIsNew DEF BatchInit
<1>1. \A s \in Simulators : sim[s] = NewSim
  OBVIOUS
<1>2. BatchTyped
  <2>1. count \in Counters /\ unreported <= sent
    BY DEF Counters
  <2>2. QED
    BY <2>1 DEF BatchTyped
<1>3. Coroutines
  BY <1>1, BatchAssumption DEF Coroutines, Sound
<1>4. Phases
  BY DEF Phases
<1>5. Balance
  <2>1. SumFunction(Uncounted) = 0
    BY <1>1, NothingHeld DEF Amount
  <2>2. QED
    BY <2>1 DEF Balance
<1>6. NoErrorMeansSent
  BY DEF NoErrorMeansSent
<1>7. QED
  BY <1>2, <1>3, <1>4, <1>5, <1>6 DEF BatchInv

\* A step of one coroutine, by what it leaves: its new state w is sound, and what is
\* confirmed and not counted of it changes by what the step confirms and counts.
SimMove(s, w) ==
  /\ w \in CoroutineStates /\ sim' = [sim EXCEPT ![s] = w]
  /\ Sound(w, s)
  /\ UNCHANGED <<kind, mapped, phase, stopped, aborted>>
  /\ sent' \in Nat /\ count' \in Counters /\ dbFailed' \in BOOLEAN
  /\ unreported' \in Nat /\ unreported' <= sent'
  /\ ~ dbFailed' => /\ ~ dbFailed
                    /\ sent' - unreported' - count'.ok =
                         sent - unreported - count.ok + Amount(w) - Amount(sim[s])

LEMMA SimMoveKeeps ==
  ASSUME BatchInv, phase = "sending", NEW s \in Simulators, NEW w, SimMove(s, w)
  PROVE  BatchInv'
<1> USE DEF BatchInv, SimMove
<1>1. /\ sim' \in [Simulators -> CoroutineStates] /\ sim'[s] = w
      /\ \A r \in Simulators \ {s} : sim'[r] = sim[r]
  BY DEF BatchTyped
<1>2. BatchTyped'
  BY <1>1 DEF BatchTyped
<1>3. Coroutines'
  <2> SUFFICES ASSUME NEW r \in Simulators PROVE Sound(sim[r], r)'
    BY DEF Coroutines
  <2>1. CASE r = s
    BY <1>1, <2>1 DEF Sound
  <2>2. CASE r # s
    BY <1>1, <2>2 DEF Coroutines, Sound
  <2>3. QED
    BY <2>1, <2>2
<1>4. Phases' /\ NoErrorMeansSent'
  BY DEF Phases, NoErrorMeansSent
<1>5. Balance'
  <2> SUFFICES ASSUME ~ dbFailed', ~ aborted
               PROVE  sent' = count'.ok + unreported' + SumFunction(Uncounted')
    BY DEF Balance
  <2> DEFINE U == Uncounted
             V == Uncounted'
  <2>1. /\ DOMAIN U = Simulators /\ DOMAIN V = Simulators
        /\ \A r \in Simulators : U[r] = Amount(sim[r]) /\ U[r] \in Nat
        /\ V[s] = Amount(w) /\ V[s] \in Nat
        /\ \A r \in Simulators \ {s} : V[r] = U[r]
    BY <1>1 DEF Uncounted, Amount, CoroutineStates, BatchTyped
  <2>2. sent = count.ok + unreported + SumFunction(U)
    BY DEF Balance
  <2> HIDE DEF U, V
  <2>3. IntsOn(U, Simulators) /\ V[s] \in Int
    BY <2>1 DEF IntsOn
  <2>4. SumFunction(V) = SumFunction(U) - U[s] + V[s] /\ SumFunction(U) \in Int
    <3>1. /\ SumFunctionOnSet(V, Simulators) = SumFunctionOnSet(U, Simulators) - U[s] + V[s]
          /\ SumFunctionOnSet(U, Simulators) \in Int
      BY <2>1, <2>3, SumUpdate, SumType, BatchAssumption
    <3>2. QED
      BY <2>1, <3>1, SimulatorSums
  <2>5. /\ sent \in Nat /\ sent' \in Nat /\ count.ok \in Nat /\ count'.ok \in Nat
        /\ unreported \in Nat /\ unreported' \in Nat /\ U[s] \in Nat /\ V[s] \in Nat
    BY <2>1 DEF BatchTyped, Counters
  <2>6. sent' - unreported' - count'.ok = sent - unreported - count.ok + V[s] - U[s]
    BY <2>1
  <2>7. sent' = count'.ok + unreported' + SumFunction(V)
    <3> DEFINE held == SumFunction(U)
               k    == count.ok
               c    == count'.ok
    <3>1. /\ sent = k + unreported + held /\ SumFunction(V) = held - U[s] + V[s] /\ held \in Int
          /\ sent' - unreported' - c = sent - unreported - k + V[s] - U[s]
      BY <2>2, <2>4, <2>6
    <3>2. k \in Nat /\ c \in Nat
      BY <2>5
    <3> HIDE DEF held, k, c, BatchInv, SimMove
    <3>3. sent' = c + unreported' + (held - U[s] + V[s])
      BY <2>5, <3>1, <3>2
    <3>4. QED
      BY <3>1, <3>3 DEF c
  <2>8. QED
    BY <2>7 DEF V
<1>6. QED
  BY <1>2, <1>3, <1>4, <1>5

\* The steps of the coroutines.
LEMMA SnmpKeeps ==
  ASSUME BatchInv, NEW s \in Simulators,
         NoMap(s) \/ SendTraps(s) \/ SendRaises(s) \/ CountTraps(s) \/ CountFails(s)
  PROVE  BatchInv'
<1> DEFINE v == sim[s]
<1>1. /\ v \in CoroutineStates /\ Sound(v, s) /\ phase = "sending" /\ Messages \in Nat
      /\ sent \in Nat /\ unreported \in Nat /\ unreported <= sent
      /\ count \in Counters /\ dbFailed \in BOOLEAN
      /\ sim \in [Simulators -> CoroutineStates]
  BY BatchAssumption DEF BatchInv, BatchTyped, Coroutines,
     NoMap, SendTraps, SendRaises, CountTraps, CountFails
<1>2. \A p \in {"done", "raised"} : LET w == [v EXCEPT !.pc = p]
                                    IN  /\ w \in CoroutineStates /\ w.pc = p /\ w.ok = v.ok
                                        /\ w.failed = v.failed
  BY <1>1 DEF CoroutineStates
<1>3. CASE NoMap(s)
  <2>1. sim' = [sim EXCEPT ![s] = [v EXCEPT !.pc = "done"]] /\ s \notin mapped
    BY <1>3 DEF NoMap
  <2> DEFINE w == [v EXCEPT !.pc = "done"]
  <2>2. w \in CoroutineStates /\ w.pc = "done" /\ w.ok = v.ok /\ w.failed = v.failed
    BY <1>2
  <2>3. UNCHANGED <<kind, mapped, phase, stopped, aborted, sent, unreported, count, dbFailed>>
        /\ kind = "snmp" /\ v.pc = "next"
    BY <1>3 DEF NoMap
  <2> HIDE DEF w
  <2>4. Sound(w, s) /\ Amount(w) = 0 /\ Amount(v) = 0
    BY <1>1, <2>1, <2>2, <2>3 DEF Sound, Amount, Handled
  <2>5. SimMove(s, w)
    BY <1>1, <2>1, <2>2, <2>3, <2>4 DEF SimMove, w, Counters
  <2>6. QED
    BY <1>1, <2>5, SimMoveKeeps
<1>4. CASE SendTraps(s)
  <2>1. PICK ok \in 0 .. Messages :
          /\ sim' = [sim EXCEPT ![s] = [pc |-> "counting", ok |-> ok, failed |-> Messages - ok]]
          /\ sent' = sent + ok
    BY <1>4 DEF SendTraps
  <2> DEFINE w == [pc |-> "counting", ok |-> ok, failed |-> Messages - ok]
  <2>2. w \in CoroutineStates /\ w.pc = "counting" /\ w.ok = ok /\ Handled(w) = Messages
    BY <1>1 DEF CoroutineStates, Handled
  <2>3. UNCHANGED <<kind, mapped, phase, stopped, unreported, aborted, count, dbFailed>>
        /\ kind = "snmp" /\ v.pc = "next"
    BY <1>4 DEF SendTraps
  <2> HIDE DEF w
  <2>4. Sound(w, s) /\ Amount(w) = ok /\ Amount(v) = 0
    BY <1>1, <2>1, <2>2, <2>3 DEF Sound, Amount
  <2>5. SimMove(s, w)
    BY <1>1, <2>1, <2>2, <2>3, <2>4 DEF SimMove, w, Counters
  <2>6. QED
    BY <1>1, <2>5, SimMoveKeeps
<1>5. CASE CountTraps(s) \/ CountFails(s)
  <2>1. PICK p \in {"done", "raised"} :
          /\ sim' = [sim EXCEPT ![s] = [v EXCEPT !.pc = p]]
          /\ p = "raised" => dbFailed' /\ count' = count
          /\ p = "done" =>
               /\ dbFailed' = dbFailed
               /\ count' = [count EXCEPT !.ok = @ + v.ok, !.failed = @ + v.failed]
    BY <1>5 DEF CountTraps, CountFails
  <2> DEFINE w == [v EXCEPT !.pc = p]
  <2>2. w \in CoroutineStates /\ w.pc = p /\ w.ok = v.ok /\ w.failed = v.failed
    BY <1>2
  <2>3. UNCHANGED <<kind, mapped, phase, stopped, aborted, sent, unreported>>
        /\ v.pc = "counting" /\ kind = "snmp" /\ dbFailed' \in BOOLEAN
    BY <1>1, <1>5 DEF CountTraps, CountFails, Sound
  <2> HIDE DEF w
  <2>4. Sound(w, s) /\ Amount(w) = 0 /\ Amount(v) = v.ok
    BY <1>1, <2>1, <2>2, <2>3 DEF Sound, Amount, Handled
  <2>5. v.ok \in Nat /\ v.failed \in Nat
    BY <1>1 DEF CoroutineStates
  <2>6. count' \in Counters /\ (~ dbFailed' => ~ dbFailed /\ count'.ok = count.ok + v.ok)
    <3> HIDE DEF v
    <3>1. CASE p = "raised"
      BY <1>1, <2>1, <2>3, <3>1
    <3>2. CASE p = "done"
      <4>1. count' = [count EXCEPT !.ok = count.ok + v.ok, !.failed = count.failed + v.failed]
        BY <2>1, <3>2
      <4>2. count.ok + v.ok \in Nat /\ count.failed + v.failed \in Nat
        BY <1>1, <2>5 DEF Counters
      <4>3. count' \in Counters /\ count'.ok = count.ok + v.ok
        BY <1>1, <4>1, <4>2 DEF Counters
      <4>4. QED
        BY <2>1, <3>2, <4>3
    <3>3. QED
      BY <3>1, <3>2
  <2>7. SimMove(s, w)
    BY <1>1, <2>1, <2>2, <2>3, <2>4, <2>5, <2>6 DEF SimMove, w, Counters
  <2>8. QED
    BY <1>1, <2>7, SimMoveKeeps
<1>6. CASE SendRaises(s)
  <2>1. PICK ok \in 0 .. Messages - 1 :
          /\ sim' = [sim EXCEPT ![s] = [pc |-> "raised", ok |-> ok, failed |-> 0]]
          /\ sent' = sent + ok /\ unreported' = unreported + ok
    BY <1>6 DEF SendRaises
  <2> DEFINE w == [pc |-> "raised", ok |-> ok, failed |-> 0]
  <2>2. w \in CoroutineStates /\ w.pc = "raised" /\ Handled(w) <= Messages /\ ok \in Nat
    BY <1>1 DEF CoroutineStates, Handled
  <2>3. UNCHANGED <<kind, mapped, phase, stopped, aborted, count, dbFailed>>
        /\ kind = "snmp" /\ v.pc = "next"
    BY <1>6 DEF SendRaises
  <2> HIDE DEF w
  <2>4. Sound(w, s) /\ Amount(w) = 0 /\ Amount(v) = 0
    BY <1>1, <2>1, <2>2, <2>3 DEF Sound, Amount
  <2>5. SimMove(s, w)
    BY <1>1, <2>1, <2>2, <2>3, <2>4 DEF SimMove, w, Counters
  <2>6. QED
    BY <1>1, <2>5, SimMoveKeeps
<1>7. QED
  BY <1>3, <1>4, <1>5, <1>6

LEMMA IrpKeeps ==
  ASSUME BatchInv, NEW s \in Simulators, NextMessage(s) \/ SendMessage(s)
  PROVE  BatchInv'
<1> DEFINE v == sim[s]
<1>1. /\ v \in CoroutineStates /\ Sound(v, s) /\ phase = "sending" /\ Messages \in Nat
      /\ sent \in Nat /\ unreported \in Nat /\ unreported <= sent
      /\ count \in Counters /\ dbFailed \in BOOLEAN /\ kind = "irp"
      /\ sim \in [Simulators -> CoroutineStates] /\ v.ok \in Nat /\ v.failed \in Nat
  BY BatchAssumption DEF BatchInv, BatchTyped, Coroutines, CoroutineStates,
     NextMessage, SendMessage
<1>2. CASE NextMessage(s)
  <2>1. PICK p \in {"done", "sending"} :
          /\ sim' = [sim EXCEPT ![s] = [v EXCEPT !.pc = p]]
          /\ p = "done" => Handled(v) = Messages \/ stopped
          /\ p = "sending" => Handled(v) # Messages
    <3>1. (Left(s) = 0) <=> (Handled(v) = Messages)
      BY <1>1 DEF Left, Handled
    <3>2. \/ /\ sim' = [sim EXCEPT ![s] = [v EXCEPT !.pc = "done"]]
             /\ Left(s) = 0 \/ stopped
          \/ /\ sim' = [sim EXCEPT ![s] = [v EXCEPT !.pc = "sending"]]
             /\ Left(s) # 0
      BY <1>2 DEF NextMessage
    <3>3. QED
      BY <3>1, <3>2
  <2> DEFINE w == [v EXCEPT !.pc = p]
  <2>2. w \in CoroutineStates /\ w.pc = p /\ w.ok = v.ok /\ w.failed = v.failed
    BY <1>1 DEF CoroutineStates
  <2>3. UNCHANGED <<kind, mapped, phase, stopped, aborted, sent, unreported, count, dbFailed>>
        /\ v.pc = "next"
    BY <1>2 DEF NextMessage
  <2> HIDE DEF w
  <2>4. Sound(w, s) /\ Amount(w) = Amount(v) /\ Amount(v) \in Nat
    BY <1>1, <2>1, <2>2, <2>3 DEF Sound, Amount, Handled
  <2>5. SimMove(s, w)
    BY <1>1, <2>1, <2>2, <2>3, <2>4 DEF SimMove, w, Counters
  <2>6. QED
    BY <1>1, <2>5, SimMoveKeeps
<1>3. CASE SendMessage(s)
  <2>1. PICK ok \in {0, 1} :
          /\ sim' = [sim EXCEPT ![s].pc = "next", ![s].ok = @ + ok, ![s].failed = @ + 1 - ok]
          /\ sent' = sent + ok
    BY <1>3 DEF SendMessage
  <2> DEFINE w == [pc |-> "next", ok |-> v.ok + ok, failed |-> v.failed + 1 - ok]
  <2>2. sim' = [sim EXCEPT ![s] = w]
    <3>1. v = [pc |-> v.pc, ok |-> v.ok, failed |-> v.failed]
      BY <1>1 DEF CoroutineStates
    <3>2. QED
      BY <1>1, <2>1, <3>1
  <2>3. w \in CoroutineStates /\ w.pc = "next" /\ w.ok = v.ok + ok /\ Handled(w) = Handled(v) + 1
    BY <1>1 DEF CoroutineStates, Handled
  <2>4. UNCHANGED <<kind, mapped, phase, stopped, unreported, aborted, count, dbFailed>>
        /\ v.pc = "sending" /\ Handled(v) < Messages /\ Handled(v) \in Nat
    BY <1>1, <1>3 DEF SendMessage, Sound, Handled
  <2> HIDE DEF w
  <2>5. Sound(w, s) /\ Amount(w) = Amount(v) + ok /\ Amount(v) \in Nat
    BY <1>1, <2>1, <2>3, <2>4 DEF Sound, Amount
  <2>6. /\ sent' - unreported' - count'.ok = sent - unreported - count.ok + Amount(w) - Amount(v)
        /\ sent' \in Nat /\ unreported' \in Nat /\ unreported' <= sent'
    <3>1. count.ok \in Nat /\ ok \in Nat /\ count' = count /\ unreported' = unreported
      BY <1>1, <2>4 DEF Counters
    <3> HIDE DEF v
    <3>2. QED
      BY <1>1, <2>1, <2>5, <3>1
  <2>7. SimMove(s, w)
    BY <1>1, <2>2, <2>3, <2>4, <2>5, <2>6 DEF SimMove
  <2>8. QED
    BY <1>1, <2>7, SimMoveKeeps
<1>4. QED
  BY <1>2, <1>3

\* A batch starts with new coroutines, and holds nothing yet.
LEMMA StartKeeps ==
  ASSUME BatchInv, StartBatch \/ LoadSchema
  PROVE  BatchInv'
<1> USE NewSimIsNew DEF BatchInv
<1>1. /\ sim' = [s \in Simulators |-> NewSim] /\ phase' \in {"loading", "sending", "failing"}
      /\ phase' \in {"loading", "failing"} => kind = "irp"
      /\ UNCHANGED <<kind, mapped, stopped, sent, unreported, aborted, dbFailed, count>>
      /\ ~ aborted /\ \A s \in Simulators : Amount(sim[s]) = 0
  <2>1. CASE StartBatch
    BY <2>1 DEF StartBatch, BatchTyped, Coroutines, Amount
  <2>2. CASE LoadSchema
    BY <2>2 DEF LoadSchema, Phases, Amount, BatchTyped
  <2>3. QED
    BY <2>1, <2>2
<1>2. \A s \in Simulators : sim'[s] = NewSim
  BY <1>1
<1>3. BatchTyped'
  BY <1>1 DEF BatchTyped
<1>4. Coroutines'
  BY <1>1, <1>2, BatchAssumption DEF Coroutines, Sound
<1>5. Phases' /\ NoErrorMeansSent'
  BY <1>1 DEF Phases, NoErrorMeansSent
<1>6. Balance'
  <2>1. SumFunction(Uncounted) = 0
    BY <1>1, NothingHeld
  <2>2. SumFunction(Uncounted') = 0
    <3>1. DOMAIN Uncounted' = Simulators /\ \A s \in Simulators : Uncounted'[s] = 0
      BY <1>2 DEF Uncounted, Amount
    <3>2. QED
      BY <3>1, SimulatorSums, SumOfZeros, BatchAssumption
  <2>3. QED
    BY <1>1, <2>1, <2>2 DEF Balance
<1>7. QED
  BY <1>3, <1>4, <1>5, <1>6

\* The stop event matters to no coroutine that is over: what it allows is allowed
\* of fewer.
LEMMA StopKeeps ==
  ASSUME BatchInv, SetStop
  PROVE  BatchInv'
<1> USE DEF BatchInv, SetStop
<1>1. BatchTyped' /\ Phases' /\ NoErrorMeansSent'
  BY DEF BatchTyped, Phases, NoErrorMeansSent
<1>2. Coroutines'
  BY DEF Coroutines, Sound, SimOver
<1>3. Balance'
  <2>1. Uncounted' = Uncounted
    BY DEF Uncounted, Amount
  <2>2. QED
    BY <2>1 DEF Balance
<1>4. QED
  BY <1>1, <1>2, <1>3

\* gather returns: an IRP batch that is stored has not been stopped, so all its
\* messages were handled.
LEMMA GatheredKeeps ==
  ASSUME BatchInv, Gathered
  PROVE  BatchInv'
<1> USE DEF BatchInv
<1>1. /\ phase = "sending" /\ \A s \in Simulators : SimOver(s)
      /\ UNCHANGED <<kind, mapped, sim, stopped, late, sent, unreported, dbFailed, count>>
      /\ \/ kind = "irp" /\ stopped /\ phase' = "idle" /\ aborted' = TRUE
         \/ ~ (kind = "irp" /\ stopped) /\ phase' = "storing" /\ UNCHANGED aborted
  BY DEF Gathered
<1>2. BatchTyped'
  BY <1>1 DEF BatchTyped
<1>3. phase' = "idle" => aborted'
  BY <1>1
<1>4. Phases' /\ NoErrorMeansSent'
  BY <1>1, <1>3 DEF Phases, NoErrorMeansSent
<1>5. Coroutines'
  BY <1>1 DEF BatchTyped, Coroutines, Sound, SimOver
<1>6. Balance'
  <2>1. ~ aborted' => Uncounted' = Uncounted
    BY <1>1 DEF Uncounted, Amount
  <2>2. QED
    BY <1>1, <2>1 DEF Balance, BatchTyped
<1>7. QED
  BY <1>2, <1>4, <1>5, <1>6

\* What StoreBatch adds up.
LEMMA Totals ==
  ASSUME BatchInv, phase = "storing"
  PROVE  /\ TotalOk \in Nat /\ TotalFailed \in Nat
         /\ TotalFailed = 0 => \A s \in mapped : sim[s].ok = Messages
         /\ kind = "irp" => SumFunction(Uncounted) = TotalOk
         /\ kind = "snmp" => SumFunction(Uncounted) = 0
<1> USE DEF BatchInv
<1>1. /\ sim \in [Simulators -> CoroutineStates] /\ mapped \subseteq Simulators
      /\ Messages \in Nat \ {0} /\ kind \in {"snmp", "irp"}
      /\ \A s \in Simulators : sim[s].ok \in Nat /\ sim[s].failed \in Nat
  BY BatchAssumption DEF BatchTyped, CoroutineStates
<1> DEFINE O == [s \in Simulators |-> sim[s].ok]
           F == [s \in Simulators |-> IF sim[s].pc # "raised" THEN sim[s].failed
                                      ELSE IF kind = "snmp" THEN Messages ELSE 1]
<1>2. NatsOn(O, Simulators) /\ NatsOn(F, Simulators) /\ DOMAIN O = Simulators /\ DOMAIN F = Simulators
  BY <1>1 DEF NatsOn
<1>3. TotalOk = SumFunction(O) /\ TotalFailed = SumFunction(F)
  BY DEF TotalOk, TotalFailed
<1>4. kind = "irp" => Uncounted = O
  BY DEF Uncounted, Amount
<1>5. kind = "snmp" => \A s \in Simulators : Amount(sim[s]) = 0
  BY DEF Coroutines, Amount
<1>6. ASSUME NEW s \in mapped, F[s] = 0
      PROVE  sim[s].ok = Messages
  <2>1. sim[s].pc # "raised" /\ sim[s].failed = 0
    BY <1>1, <1>6
  <2>2. sim[s].pc = "done" /\ Handled(sim[s]) = Messages
    BY <1>1, <2>1 DEF Coroutines, Sound, SimOver
  <2>3. QED
    BY <1>1, <2>1, <2>2 DEF Handled
<1> HIDE DEF O, F
<1>7. /\ SumFunction(O) \in Nat /\ SumFunction(F) \in Nat
      /\ \A s \in Simulators : F[s] <= SumFunction(F)
  BY <1>2, SimulatorSums, SumOfNats, BatchAssumption
<1>8. SumFunction(F) = 0 => \A s \in Simulators : F[s] = 0
  BY <1>2, <1>7 DEF NatsOn
<1>9. QED
  BY <1>1, <1>3, <1>4, <1>5, <1>6, <1>7, <1>8, NothingHeld

\* The batch is counted, or its error is.
LEMMA StoreKeeps ==
  ASSUME BatchInv, StoreBatch
  PROVE  BatchInv'
<1> USE DEF BatchInv
<1> DEFINE c == [batches |-> count.batches + 1,
                 failedBatches |-> IF TotalFailed > 0 THEN count.failedBatches + 1 ELSE count.failedBatches,
                 ok |-> IF kind = "irp" THEN count.ok + TotalOk ELSE count.ok,
                 failed |-> IF kind = "irp" THEN count.failed + TotalFailed ELSE count.failed,
                 error |-> TotalFailed > 0]
<1>1. /\ phase = "storing" /\ phase' = "idle" /\ count \in Counters
      /\ UNCHANGED <<kind, mapped, sim, stopped, late, sent, unreported, aborted, dbFailed>>
      /\ TotalOk \in Nat /\ TotalFailed \in Nat
  BY Totals DEF StoreBatch, BatchTyped
<1>2. count' = c
  BY <1>1 DEF StoreBatch, Counters
<1>3. c \in Counters
  BY <1>1 DEF Counters
<1>4. c.ok = (IF kind = "irp" THEN count.ok + TotalOk ELSE count.ok) /\ c.error = (TotalFailed > 0)
  OBVIOUS
<1> HIDE DEF c
<1>5. BatchTyped' /\ Phases'
  BY <1>1, <1>2, <1>3 DEF BatchTyped, Phases
<1>6. Coroutines'
  BY <1>1 DEF Coroutines, Sound, SimOver
<1>7. NoErrorMeansSent'
  <2>1. ~ c.error => TotalFailed = 0
    <3>1. TotalFailed > 0 => c.error = TRUE
      BY <1>4
    <3>2. QED
      BY <1>1, <3>1
  <2>2. QED
    BY <1>1, <1>2, <2>1, Totals DEF NoErrorMeansSent
<1>8. Balance'
  <2>1. \A s \in Simulators : Amount(sim[s])' = 0
    BY <1>1 DEF Coroutines, Amount
  <2>2. SumFunction(Uncounted') = 0
    <3>1. DOMAIN Uncounted' = Simulators /\ \A s \in Simulators : Uncounted'[s] = 0
      BY <2>1 DEF Uncounted
    <3>2. QED
      BY <3>1, SimulatorSums, SumOfZeros, BatchAssumption
  <2>3. ~ dbFailed /\ ~ aborted => sent = c.ok + unreported
    BY <1>1, <1>4, Totals DEF Balance, BatchTyped, Counters
  <2>4. c.ok \in Nat /\ unreported \in Nat
    BY <1>3 DEF Counters, BatchTyped
  <2>5. QED
    BY <1>1, <1>2, <2>2, <2>3, <2>4 DEF Balance
<1>9. QED
  BY <1>5, <1>6, <1>7, <1>8

LEMMA ErrorKeeps ==
  ASSUME BatchInv, StoreFails \/ StoreError \/ StoreErrorFails
  PROVE  BatchInv'
<1> USE DEF BatchInv
<1>1. CASE StoreFails \/ StoreErrorFails
  <2>1. /\ phase \in {"storing", "failing"} /\ phase' \in {"failing", "raised"} /\ dbFailed' = TRUE
        /\ UNCHANGED <<kind, mapped, sim, stopped, sent, unreported, aborted, count>>
    BY <1>1 DEF StoreFails, StoreErrorFails
  <2>2. BatchTyped' /\ Phases' /\ NoErrorMeansSent' /\ Balance'
    BY <2>1 DEF BatchTyped, Phases, NoErrorMeansSent, Balance
  <2>3. Coroutines'
    BY <2>1 DEF Coroutines, Sound, SimOver
  <2>4. QED
    BY <2>2, <2>3
<1>2. CASE StoreError
  <2>1. /\ phase = "failing" /\ phase' = "idle" /\ count' \in Counters
        /\ count'.ok = count.ok /\ count'.error = TRUE
        /\ UNCHANGED <<kind, mapped, sim, stopped, late, sent, unreported, aborted, dbFailed>>
    <3>1. count \in Counters
      BY DEF BatchTyped
    <3>2. count' = [count EXCEPT !.batches = count.batches + 1,
                                 !.failedBatches = count.failedBatches + 1, !.error = TRUE]
      BY <1>2 DEF StoreError
    <3>3. count' \in Counters /\ count'.ok = count.ok /\ count'.error = TRUE
      <4>1. count.batches + 1 \in Nat /\ count.failedBatches + 1 \in Nat
        BY <3>1 DEF Counters
      <4>2. count' = [batches |-> count.batches + 1, failedBatches |-> count.failedBatches + 1,
                      ok |-> count.ok, failed |-> count.failed, error |-> TRUE]
        BY <3>1, <3>2 DEF Counters
      <4>3. QED
        BY <3>1, <4>1, <4>2 DEF Counters
    <3>4. QED
      BY <1>2, <3>3 DEF StoreError
  <2>2. BatchTyped' /\ Phases' /\ NoErrorMeansSent'
    BY <2>1 DEF BatchTyped, Phases, NoErrorMeansSent
  <2>3. Coroutines'
    BY <2>1 DEF Coroutines, Sound, SimOver
  <2>4. Balance'
    <3>1. Uncounted' = Uncounted
      BY <2>1 DEF Uncounted, Amount
    <3>2. QED
      BY <2>1, <3>1 DEF Balance
  <2>5. QED
    BY <2>2, <2>3, <2>4
<1>3. QED
  BY <1>1, <1>2

LEMMA BatchInvNext == BatchInv /\ [BatchNext]_batchVars => BatchInv'
<1> SUFFICES ASSUME BatchInv, [BatchNext]_batchVars PROVE BatchInv'
  OBVIOUS
<1>1. CASE UNCHANGED batchVars
  <2> USE <1>1 DEF batchVars
  <2>1. Uncounted' = Uncounted
    BY DEF Uncounted, Amount
  <2>2. QED
    BY <2>1 DEF BatchInv, BatchTyped, Coroutines, Sound, SimOver, Phases, Balance, NoErrorMeansSent
<1>2. ASSUME NEW s \in Simulators, SimNext(s) PROVE BatchInv'
  BY <1>2, SnmpKeeps, IrpKeeps DEF SimNext
<1>3. QED
  BY <1>1, <1>2, StartKeeps, StopKeeps, GatheredKeeps, StoreKeeps, ErrorKeeps DEF BatchNext, BatchStep

\* Between batches the document has counted what was confirmed, for any number of
\* simulators and messages, unless the database failed or a stop cut a batch short:
\* all of it but what the senders that raised had sent.
THEOREM SentIsCountedHolds == BatchSpec => []SentIsCounted
<1>1. BatchInv => SentIsCounted
  <2> SUFFICES ASSUME BatchInv, phase = "idle", ~ dbFailed, ~ aborted
               PROVE  count.ok + unreported = sent
    BY DEF SentIsCounted
  <2>1. \A s \in Simulators : Amount(sim[s]) = 0
    BY DEF BatchInv, Coroutines, Amount
  <2>2. SumFunction(Uncounted) = 0
    BY <2>1, NothingHeld
  <2>3. QED
    BY <2>2 DEF BatchInv, Balance, BatchTyped, Counters
<1>2. QED
  BY <1>1, BatchInvInit, BatchInvNext, PTL DEF BatchSpec

\* A batch that leaves no error has sent everything to every simulator that has a map.
THEOREM NoErrorMeansSentHolds == BatchSpec => []NoErrorMeansSent
<1>1. BatchInv => NoErrorMeansSent
  BY DEF BatchInv
<1>2. QED
  BY <1>1, BatchInvInit, BatchInvNext, PTL DEF BatchSpec

-----------------------------------------------------------------------------
(***************************************************************************)
(* The bounds in the types of a batch.                                     *)
(***************************************************************************)
PerBatch == Cardinality(Simulators) * Messages

\* A batch has been started that the document has not counted.
InBatch == phase # "idle" \/ aborted

\* What a batch has sent, and, as only SNMP does before its end, counted so far.
Counted(w, n) == IF kind = "snmp" /\ w.pc = "done" THEN n ELSE 0
SentOf    == [s \in Simulators |-> sim[s].ok]
OkOf      == [s \in Simulators |-> Counted(sim[s], sim[s].ok)]
FailedOf  == [s \in Simulators |-> Counted(sim[s], sim[s].failed)]

\* A total is within what the counted batches can have, and what f has of this one.
TotalWithin(n, f) == n <= PerBatch * count.batches + (IF InBatch THEN SumFunction(f) ELSE 0)

BatchBounds ==
  /\ \A s \in Simulators : kind = "snmp" /\ sim[s].pc = "next" => sim[s].ok = 0
  /\ \A s \in Simulators : late[s] > 0 => MaxBatches > 0
  /\ count.batches <= MaxBatches /\ (InBatch => count.batches < MaxBatches)
  /\ count.failedBatches <= count.batches
  /\ TotalWithin(sent, SentOf)
  /\ TotalWithin(count.ok, OkOf)
  /\ TotalWithin(count.failed, FailedOf)

\* A total stays within its bound when one coroutine adds no more to it than to the
\* bound.
LEMMA TotalAdds ==
  ASSUME NEW f, NEW g, DOMAIN f = Simulators, DOMAIN g = Simulators, IntsOn(f, Simulators),
         NEW s \in Simulators, g[s] \in Int, \A r \in Simulators \ {s} : g[r] = f[r],
         NEW b \in Int, NEW m \in Int, NEW n \in Int,
         m <= b + SumFunction(f), n - m <= g[s] - f[s]
  PROVE  n <= b + SumFunction(g)
<1>1. /\ SumFunctionOnSet(g, Simulators) = SumFunctionOnSet(f, Simulators) - f[s] + g[s]
      /\ SumFunctionOnSet(f, Simulators) \in Int
  BY SumUpdate, SumType, BatchAssumption
<1>2. SumFunction(g) = SumFunction(f) - f[s] + g[s] /\ SumFunction(f) \in Int
  BY <1>1, SimulatorSums
<1>3. f[s] \in Int
  BY DEF IntsOn
<1>4. QED
  BY <1>2, <1>3

\* No more than all messages of a batch.
LEMMA WithinBatch ==
  ASSUME NEW f, DOMAIN f = Simulators, IntsOn(f, Simulators), \A s \in Simulators : f[s] <= Messages
  PROVE  SumFunction(f) \in Int /\ SumFunction(f) <= PerBatch
<1>1. Messages \in Nat
  BY BatchAssumption
<1>2. QED
  BY <1>1, SimulatorSums, SumBounded, SumType, BatchAssumption DEF PerBatch

LEMMA PerBatchType == PerBatch \in Nat /\ Cardinality(Simulators) \in Nat
BY BatchAssumption, FS_CardinalityType DEF PerBatch

\* What the sums are over.
LEMMA TotalsTyped ==
  ASSUME BatchInv
  PROVE  /\ IntsOn(SentOf, Simulators) /\ IntsOn(OkOf, Simulators) /\ IntsOn(FailedOf, Simulators)
         /\ \A s \in Simulators : /\ SentOf[s] = sim[s].ok /\ sim[s].ok \in Nat
                                  /\ sim[s].failed \in Nat /\ Handled(sim[s]) <= Messages
                                  /\ OkOf[s] = Counted(sim[s], sim[s].ok)
                                  /\ FailedOf[s] = Counted(sim[s], sim[s].failed)
         /\ DOMAIN SentOf = Simulators /\ DOMAIN OkOf = Simulators /\ DOMAIN FailedOf = Simulators
         /\ sent \in Nat /\ count.ok \in Nat /\ count.failed \in Nat /\ count.batches \in Nat
         /\ count.failedBatches \in Nat /\ count \in Counters
<1>1. \A s \in Simulators : sim[s].ok \in Nat /\ sim[s].failed \in Nat /\ Handled(sim[s]) <= Messages
  BY DEF BatchInv, BatchTyped, CoroutineStates, Coroutines, Sound
<1>2. sent \in Nat /\ count \in Counters
  BY DEF BatchInv, BatchTyped
<1>3. QED
  BY <1>1, <1>2 DEF IntsOn, SentOf, OkOf, FailedOf, Counted, Counters

\* The totals of a batch are within what it can have.
LEMMA BatchFull ==
  ASSUME BatchInv
  PROVE  /\ SumFunction(SentOf) \in Int /\ SumFunction(SentOf) <= PerBatch
         /\ SumFunction(OkOf) \in Int /\ SumFunction(OkOf) <= PerBatch
         /\ SumFunction(FailedOf) \in Int /\ SumFunction(FailedOf) <= PerBatch
<1>1. \A s \in Simulators : /\ SentOf[s] <= Messages /\ OkOf[s] <= Messages
                            /\ FailedOf[s] <= Messages
  BY TotalsTyped, BatchAssumption DEF Handled, Counted
<1>2. QED
  BY <1>1, TotalsTyped, WithinBatch

\* A step of one coroutine that sends, and counts, no more than it says.
BoundedMove(s, w) ==
  /\ w \in CoroutineStates /\ sim' = [sim EXCEPT ![s] = w] /\ phase = "sending"
  /\ UNCHANGED <<kind, phase, aborted>>
  /\ kind = "snmp" /\ w.pc = "next" => w.ok = 0
  /\ count'.batches = count.batches /\ count'.failedBatches = count.failedBatches
  /\ sent' - sent <= w.ok - sim[s].ok
  /\ count'.ok - count.ok <= Counted(w, w.ok) - Counted(sim[s], sim[s].ok)
  /\ count'.failed - count.failed <= Counted(w, w.failed) - Counted(sim[s], sim[s].failed)
  /\ \A r \in Simulators : late'[r] > 0 => late[r] > 0 \/ MaxBatches > count.batches

LEMMA BoundedMoveKeeps ==
  ASSUME BatchInv, BatchInv', BatchBounds, NEW s \in Simulators, NEW w, BoundedMove(s, w)
  PROVE  BatchBounds'
<1> USE DEF BoundedMove
<1>1. /\ sim'[s] = w /\ \A r \in Simulators \ {s} : sim'[r] = sim[r]
      /\ InBatch /\ InBatch' /\ PerBatch \in Nat /\ PerBatch' = PerBatch
  BY PerBatchType DEF BatchInv, BatchTyped, InBatch, PerBatch
<1> DEFINE b == PerBatch * count.batches
<1>2. b \in Int /\ (PerBatch * count.batches)' = b
  BY <1>1, TotalsTyped
<1>3. /\ sent <= b + SumFunction(SentOf) /\ count.ok <= b + SumFunction(OkOf)
      /\ count.failed <= b + SumFunction(FailedOf)
  BY <1>1 DEF BatchBounds, TotalWithin
<1>4. /\ DOMAIN SentOf' = Simulators /\ DOMAIN OkOf' = Simulators /\ DOMAIN FailedOf' = Simulators
      /\ sent' \in Nat /\ count'.ok \in Nat /\ count'.failed \in Nat
      /\ SentOf'[s] = w.ok /\ w.ok \in Nat /\ w.failed \in Nat
      /\ OkOf'[s] = Counted(w, w.ok) /\ FailedOf'[s] = Counted(w, w.failed)
  <2>1. w.ok \in Nat /\ w.failed \in Nat
    BY DEF CoroutineStates
  <2>2. OkOf'[s] = Counted(w, w.ok) /\ FailedOf'[s] = Counted(w, w.failed) /\ SentOf'[s] = w.ok
    BY <1>1 DEF OkOf, FailedOf, SentOf, Counted
  <2>3. DOMAIN SentOf' = Simulators /\ DOMAIN OkOf' = Simulators /\ DOMAIN FailedOf' = Simulators
    BY DEF OkOf, FailedOf, SentOf
  <2>4. sent' \in Nat /\ count' \in Counters
    BY DEF BatchInv, BatchTyped
  <2>5. count'.ok \in Nat /\ count'.failed \in Nat
    BY <2>4 DEF Counters
  <2>6. QED
    BY <2>1, <2>2, <2>3, <2>4, <2>5
<1>5. \A r \in Simulators \ {s} : /\ SentOf'[r] = SentOf[r] /\ OkOf'[r] = OkOf[r]
                                  /\ FailedOf'[r] = FailedOf[r]
  BY <1>1 DEF OkOf, FailedOf, SentOf, Counted
<1>6. Counted(w, w.ok) \in Int /\ Counted(w, w.failed) \in Int
  BY <1>4 DEF Counted
<1> DEFINE c == count'.ok
           d == count'.failed
<1> HIDE DEF b, BoundedMove
<1>7. sent' <= b + SumFunction(SentOf')
  <2>1. sent' - sent <= SentOf'[s] - SentOf[s]
    BY <1>4, TotalsTyped DEF BoundedMove
  <2> DEFINE f == SentOf
             g == SentOf'
  <2>2. /\ DOMAIN f = Simulators /\ DOMAIN g = Simulators /\ IntsOn(f, Simulators) /\ g[s] \in Int
        /\ (\A r \in Simulators \ {s} : g[r] = f[r]) /\ sent \in Int /\ sent' \in Int
        /\ sent <= b + SumFunction(f) /\ sent' - sent <= g[s] - f[s]
    BY <1>3, <1>4, <1>5, <2>1, TotalsTyped
  <2> HIDE DEF f, g
  <2>3. sent' <= b + SumFunction(g)
    BY <1>2, <2>2, TotalAdds
  <2>4. QED
    BY <2>3 DEF g
<1>8. c <= b + SumFunction(OkOf')
  <2>1. c - count.ok <= OkOf'[s] - OkOf[s]
    BY <1>4, TotalsTyped DEF BoundedMove
  <2> DEFINE f == OkOf
             g == OkOf'
             m == count.ok
  <2>2. /\ DOMAIN f = Simulators /\ DOMAIN g = Simulators /\ IntsOn(f, Simulators) /\ g[s] \in Int
        /\ (\A r \in Simulators \ {s} : g[r] = f[r]) /\ m \in Int /\ c \in Int
        /\ m <= b + SumFunction(f) /\ c - m <= g[s] - f[s]
    BY <1>3, <1>4, <1>5, <1>6, <2>1, TotalsTyped
  <2> HIDE DEF f, g, m, c
  <2>3. c <= b + SumFunction(g)
    BY <1>2, <2>2, TotalAdds
  <2>4. QED
    BY <2>3 DEF g
<1>9. d <= b + SumFunction(FailedOf')
  <2>1. d - count.failed <= FailedOf'[s] - FailedOf[s]
    BY <1>4, TotalsTyped DEF BoundedMove
  <2> DEFINE f == FailedOf
             g == FailedOf'
             m == count.failed
  <2>2. /\ DOMAIN f = Simulators /\ DOMAIN g = Simulators /\ IntsOn(f, Simulators) /\ g[s] \in Int
        /\ (\A r \in Simulators \ {s} : g[r] = f[r]) /\ m \in Int /\ d \in Int
        /\ m <= b + SumFunction(f) /\ d - m <= g[s] - f[s]
    BY <1>3, <1>4, <1>5, <1>6, <2>1, TotalsTyped
  <2> HIDE DEF f, g, m, d
  <2>3. d <= b + SumFunction(g)
    BY <1>2, <2>2, TotalAdds
  <2>4. QED
    BY <2>3 DEF g
<1>10. TotalWithin(sent, SentOf)' /\ TotalWithin(count.ok, OkOf)' /\ TotalWithin(count.failed, FailedOf)'
  BY <1>1, <1>2, <1>7, <1>8, <1>9 DEF TotalWithin
<1>11. \A r \in Simulators : kind' = "snmp" /\ sim'[r].pc = "next" => sim'[r].ok = 0
  BY <1>1 DEF BoundedMove, BatchBounds
<1>12. /\ \A r \in Simulators : late'[r] > 0 => MaxBatches > 0
       /\ count'.batches <= MaxBatches /\ (InBatch' => count'.batches < MaxBatches)
       /\ count'.failedBatches <= count'.batches
  BY <1>1, TotalsTyped, BatchAssumption DEF BoundedMove, BatchBounds
<1>13. QED
  BY <1>10, <1>11, <1>12 DEF BatchBounds

\* The steps of the coroutines.  Only what has not sent sends, and SNMP counts its
\* traps once.
LEMMA CoroutinesBounded ==
  ASSUME BatchInv, BatchInv', BatchBounds, NEW s \in Simulators, SimNext(s)
  PROVE  BatchBounds'
<1> DEFINE v == sim[s]
           w == sim'[s]
<1>1. /\ v \in CoroutineStates /\ w \in CoroutineStates /\ sim \in [Simulators -> CoroutineStates]
      /\ sim' \in [Simulators -> CoroutineStates] /\ Messages \in Nat /\ count \in Counters
      /\ v.ok \in Nat /\ v.failed \in Nat /\ sent \in Nat
      /\ count.ok \in Nat /\ count.failed \in Nat /\ count.batches \in Nat
  BY TotalsTyped, BatchAssumption DEF BatchInv, BatchTyped
<1>2. kind = "snmp" /\ v.pc = "next" => v.ok = 0
  BY DEF BatchBounds
<1>3. phase = "sending" => count.batches < MaxBatches
  BY DEF BatchBounds, InBatch
<1>4. \A r \in Simulators : late[r] > 0 => MaxBatches > 0
  BY DEF BatchBounds
<1>5. CASE NoMap(s)
  <2>1. /\ sim' = [sim EXCEPT ![s] = [v EXCEPT !.pc = "done"]] /\ kind = "snmp" /\ v.pc = "next"
        /\ phase = "sending" /\ UNCHANGED <<kind, phase, aborted, sent, count, late>>
    BY <1>5 DEF NoMap
  <2>2. w.pc = "done" /\ w.ok = v.ok /\ w.failed = v.failed /\ sim' = [sim EXCEPT ![s] = w]
    BY <1>1, <2>1 DEF CoroutineStates
  <2>3. BoundedMove(s, w)
    BY <1>1, <1>2, <2>1, <2>2 DEF BoundedMove, Counted
  <2>4. QED
    BY <2>3, BoundedMoveKeeps
<1>6. CASE SendTraps(s)
  <2>1. PICK ok \in 0 .. Messages :
          /\ sim' = [sim EXCEPT ![s] = [pc |-> "counting", ok |-> ok, failed |-> Messages - ok]]
          /\ sent' = sent + ok /\ kind = "snmp" /\ v.pc = "next"
          /\ phase = "sending" /\ UNCHANGED <<kind, phase, aborted, count, late>>
    BY <1>6 DEF SendTraps
  <2>2. w.pc = "counting" /\ w.ok = ok /\ sim' = [sim EXCEPT ![s] = w] /\ ok \in Nat
    BY <1>1, <2>1
  <2>3. BoundedMove(s, w)
    BY <1>1, <1>2, <2>1, <2>2 DEF BoundedMove, Counted
  <2>4. QED
    BY <2>3, BoundedMoveKeeps
<1>7. CASE CountTraps(s)
  <2>1. /\ sim' = [sim EXCEPT ![s] = [v EXCEPT !.pc = "done"]] /\ v.pc = "counting"
        /\ count' = [count EXCEPT !.ok = count.ok + v.ok, !.failed = count.failed + v.failed]
        /\ phase = "sending" /\ UNCHANGED <<kind, phase, aborted, sent, late>>
    BY <1>7 DEF CountTraps
  <2>2. w.pc = "done" /\ w.ok = v.ok /\ w.failed = v.failed /\ sim' = [sim EXCEPT ![s] = w]
    BY <1>1, <2>1 DEF CoroutineStates
  <2>3. /\ count'.ok = count.ok + v.ok /\ count'.failed = count.failed + v.failed
        /\ count'.batches = count.batches /\ count'.failedBatches = count.failedBatches
    BY <1>1, <2>1 DEF Counters
  <2>4. kind = "snmp"
    BY <2>1 DEF BatchInv, Coroutines, Sound
  <2>5. BoundedMove(s, w)
    BY <1>1, <1>2, <2>1, <2>2, <2>3, <2>4 DEF BoundedMove, Counted
  <2>6. QED
    BY <2>5, BoundedMoveKeeps
<1>8. CASE CountFails(s)
  <2>1. /\ sim' = [sim EXCEPT ![s] = [v EXCEPT !.pc = "raised"]] /\ v.pc = "counting"
        /\ phase = "sending" /\ UNCHANGED <<kind, phase, aborted, sent, count, late>>
    BY <1>8 DEF CountFails
  <2>2. w.pc = "raised" /\ w.ok = v.ok /\ w.failed = v.failed /\ sim' = [sim EXCEPT ![s] = w]
    BY <1>1, <2>1 DEF CoroutineStates
  <2>3. BoundedMove(s, w)
    BY <1>1, <1>2, <2>1, <2>2 DEF BoundedMove, Counted
  <2>4. QED
    BY <2>3, BoundedMoveKeeps
<1>9. CASE NextMessage(s)
  <2>1. PICK p \in {"done", "sending"} :
          /\ sim' = [sim EXCEPT ![s] = [v EXCEPT !.pc = p]] /\ kind = "irp"
          /\ phase = "sending" /\ UNCHANGED <<kind, phase, aborted, sent, count, late>>
    BY <1>9 DEF NextMessage
  <2>2. w.pc = p /\ w.ok = v.ok /\ w.failed = v.failed /\ sim' = [sim EXCEPT ![s] = w]
    BY <1>1, <2>1 DEF CoroutineStates
  <2>3. BoundedMove(s, w)
    BY <1>1, <1>2, <2>1, <2>2 DEF BoundedMove, Counted
  <2>4. QED
    BY <2>3, BoundedMoveKeeps
<1>10. CASE SendMessage(s)
  <2>1. PICK ok \in {0, 1} :
          /\ sim' = [sim EXCEPT ![s].pc = "next", ![s].ok = @ + ok, ![s].failed = @ + 1 - ok]
          /\ sent' = sent + ok
    BY <1>10 DEF SendMessage
  <2>2. /\ kind = "irp" /\ phase = "sending" /\ UNCHANGED <<kind, phase, aborted, count>>
        /\ late' = IF stopped THEN [late EXCEPT ![s] = @ + 1] ELSE late
    BY <1>10 DEF SendMessage
  <2>3. w.ok = v.ok + ok /\ sim' = [sim EXCEPT ![s] = w] /\ ok \in Nat
    BY <1>1, <2>1 DEF CoroutineStates
  <2>4. \A r \in Simulators : late'[r] > 0 => late[r] > 0 \/ MaxBatches > count.batches
    BY <1>1, <1>3, <2>2, BatchAssumption
  <2>5. BoundedMove(s, w)
    BY <1>1, <1>2, <2>1, <2>2, <2>3, <2>4 DEF BoundedMove, Counted
  <2>6. QED
    BY <2>5, BoundedMoveKeeps
<1>11. CASE SendRaises(s)
  <2>1. PICK ok \in 0 .. Messages - 1 :
          /\ sim' = [sim EXCEPT ![s] = [pc |-> "raised", ok |-> ok, failed |-> 0]]
          /\ sent' = sent + ok /\ kind = "snmp" /\ v.pc = "next"
          /\ phase = "sending" /\ UNCHANGED <<kind, phase, aborted, count, late>>
    BY <1>11 DEF SendRaises
  <2>2. w.pc = "raised" /\ w.ok = ok /\ sim' = [sim EXCEPT ![s] = w] /\ ok \in Nat
    BY <1>1, <2>1
  <2>3. BoundedMove(s, w)
    BY <1>1, <1>2, <2>1, <2>2 DEF BoundedMove, Counted
  <2>4. QED
    BY <2>3, BoundedMoveKeeps
<1>12. QED
  BY <1>5, <1>6, <1>7, <1>8, <1>9, <1>10, <1>11 DEF SimNext

\* A batch starts with nothing sent, and a step that leaves the coroutines and the
\* counters alone changes no total.
LEMMA OthersBounded ==
  ASSUME BatchInv, BatchInv', BatchBounds,
         StartBatch \/ SetStop \/ LoadSchema \/ Gathered \/ StoreFails \/ StoreErrorFails
         \/ UNCHANGED batchVars
  PROVE  BatchBounds'
<1>1. PerBatch' = PerBatch /\ UNCHANGED <<kind, sent, late, count>>
  BY DEF PerBatch, StartBatch, SetStop, LoadSchema, Gathered, StoreFails, StoreErrorFails, batchVars
<1>2. CASE StartBatch
  <2>1. /\ ~ InBatch /\ count.batches < MaxBatches /\ \A s \in Simulators : sim'[s] = NewSim
    BY <1>2 DEF StartBatch, InBatch
  <2> DEFINE f == SentOf'
             g == OkOf'
             h == FailedOf'
  <2>2. /\ DOMAIN f = Simulators /\ DOMAIN g = Simulators /\ DOMAIN h = Simulators
        /\ \A s \in Simulators : f[s] = 0 /\ g[s] = 0 /\ h[s] = 0
    BY <2>1 DEF SentOf, OkOf, FailedOf, Counted, NewSim
  <2> HIDE DEF f, g, h
  <2>3. SumFunction(f) = 0 /\ SumFunction(g) = 0 /\ SumFunction(h) = 0
    BY <2>2, SimulatorSums, SumOfZeros, BatchAssumption
  <2>4. /\ sent <= PerBatch * count.batches /\ count.ok <= PerBatch * count.batches
        /\ count.failed <= PerBatch * count.batches /\ PerBatch * count.batches \in Int
    BY <2>1, PerBatchType, TotalsTyped DEF BatchBounds, TotalWithin
  <2>5. TotalWithin(sent, SentOf)' /\ TotalWithin(count.ok, OkOf)' /\ TotalWithin(count.failed, FailedOf)'
    BY <1>1, <2>3, <2>4 DEF TotalWithin, f, g, h
  <2>6. QED
    BY <1>1, <2>1, <2>5, NewSimIsNew DEF BatchBounds
<1>3. CASE ~ StartBatch
  <2>1. sim' = sim /\ InBatch' = InBatch
    BY <1>3 DEF SetStop, LoadSchema, Gathered, StoreFails, StoreErrorFails, batchVars, InBatch
  <2>2. SentOf' = SentOf /\ OkOf' = OkOf /\ FailedOf' = FailedOf
    BY <1>1, <2>1 DEF SentOf, OkOf, FailedOf, Counted
  <2>3. QED
    BY <1>1, <2>1, <2>2 DEF BatchBounds, TotalWithin
<1>4. QED
  BY <1>2, <1>3

\* A batch that is counted, as sent or as failed, leaves its totals behind.
LEMMA StoresBounded ==
  ASSUME BatchInv, BatchInv', BatchBounds, StoreBatch \/ StoreError
  PROVE  BatchBounds'
<1> DEFINE n == PerBatch * count.batches
<1>1. /\ InBatch /\ ~ InBatch' /\ PerBatch' = PerBatch /\ UNCHANGED <<kind, sim, sent, late>>
      /\ phase \in {"storing", "failing"}
  BY DEF StoreBatch, StoreError, InBatch, PerBatch, BatchInv, Phases
<1>2. /\ sent <= n + PerBatch /\ count.ok <= n + PerBatch /\ count.failed <= n + PerBatch
      /\ n \in Int /\ PerBatch \in Nat
  <2>1. n \in Int /\ PerBatch \in Nat
    BY PerBatchType, TotalsTyped
  <2>2. /\ sent <= n + SumFunction(SentOf) /\ count.ok <= n + SumFunction(OkOf)
        /\ count.failed <= n + SumFunction(FailedOf)
    BY <1>1 DEF BatchBounds, TotalWithin
  <2> HIDE DEF n
  <2>3. QED
    BY <2>1, <2>2, BatchFull, TotalsTyped
<1>3. /\ count'.batches = count.batches + 1
      /\ count'.failedBatches <= count.failedBatches + 1
      /\ count'.ok <= n + PerBatch /\ count'.failed <= n + PerBatch
  <2>1. CASE StoreError
    <3>1. count' = [count EXCEPT !.batches = count.batches + 1,
                                 !.failedBatches = count.failedBatches + 1, !.error = TRUE]
      BY <2>1 DEF StoreError
    <3>2. /\ count'.batches = count.batches + 1 /\ count'.failedBatches = count.failedBatches + 1
          /\ count'.ok = count.ok /\ count'.failed = count.failed
      BY <3>1, TotalsTyped DEF Counters
    <3> HIDE DEF n
    <3>3. QED
      BY <1>2, <3>2, TotalsTyped
  <2>2. CASE StoreBatch
    <3>1. /\ count'.batches = count.batches + 1
          /\ count'.failedBatches = (IF TotalFailed > 0 THEN count.failedBatches + 1
                                     ELSE count.failedBatches)
          /\ count'.ok = (IF kind = "irp" THEN count.ok + TotalOk ELSE count.ok)
          /\ count'.failed = (IF kind = "irp" THEN count.failed + TotalFailed ELSE count.failed)
          /\ phase = "storing"
      BY <2>2, TotalsTyped DEF StoreBatch, Counters
    <3>2. ASSUME kind = "irp"
          PROVE  /\ count.ok <= n /\ count.failed <= n
                 /\ TotalOk <= PerBatch /\ TotalFailed <= PerBatch
      <4>1. \A s \in Simulators : OkOf[s] = 0 /\ FailedOf[s] = 0
        BY <3>2 DEF OkOf, FailedOf, Counted
      <4>2. SumFunction(OkOf) = 0 /\ SumFunction(FailedOf) = 0
        BY <4>1, TotalsTyped, SimulatorSums, SumOfZeros, BatchAssumption
      <4>3. count.ok <= n /\ count.failed <= n
        BY <1>1, <1>2, <4>2 DEF BatchBounds, TotalWithin
      <4>4. TotalOk <= PerBatch
        BY BatchFull DEF TotalOk, SentOf
      <4>5. \A s \in Simulators : sim[s].pc # "raised"
        BY <3>2 DEF BatchInv, Coroutines, Sound
      <4> DEFINE F == [s \in Simulators |-> IF sim[s].pc # "raised" THEN sim[s].failed
                                           ELSE IF kind = "snmp" THEN Messages ELSE 1]
      <4>6. IntsOn(F, Simulators) /\ DOMAIN F = Simulators /\ \A s \in Simulators : F[s] <= Messages
        BY <4>5, TotalsTyped, BatchAssumption DEF IntsOn, Handled
      <4>7. TotalFailed = SumFunction(F)
        BY DEF TotalFailed
      <4> HIDE DEF F
      <4>8. TotalFailed <= PerBatch
        BY <4>6, <4>7, WithinBatch
      <4>9. QED
        BY <4>3, <4>4, <4>8
    <3>3. TotalOk \in Nat /\ TotalFailed \in Nat
      BY <3>1, Totals
    <3> HIDE DEF n
    <3>4. QED
      BY <1>2, <3>1, <3>2, <3>3, TotalsTyped
  <2>3. QED
    BY <2>1, <2>2
<1>4. PerBatch * count'.batches = n + PerBatch
  BY <1>2, <1>3, TotalsTyped
<1>5. TotalWithin(sent, SentOf)' /\ TotalWithin(count.ok, OkOf)' /\ TotalWithin(count.failed, FailedOf)'
  <2> HIDE DEF n
  <2>1. QED
    BY <1>1, <1>2, <1>3, <1>4 DEF TotalWithin
<1>6. /\ count'.batches <= MaxBatches /\ count'.failedBatches <= count'.batches
  <2>1. count'.failedBatches \in Nat /\ count'.batches \in Nat
    BY DEF BatchInv, BatchTyped, Counters
  <2>2. count.batches < MaxBatches /\ count.failedBatches <= count.batches
    BY <1>1 DEF BatchBounds
  <2>3. QED
    BY <1>3, <2>1, <2>2, TotalsTyped, BatchAssumption
<1>7. QED
  BY <1>1, <1>5, <1>6 DEF BatchBounds

LEMMA BatchBoundsInit == BatchInit => BatchBounds
<1> SUFFICES ASSUME BatchInit PROVE BatchBounds
  OBVIOUS
<1>1. /\ ~ InBatch /\ sent = 0 /\ count.ok = 0 /\ count.failed = 0 /\ count.batches = 0
      /\ count.failedBatches = 0 /\ late = [s \in Simulators |-> 0]
      /\ \A s \in Simulators : sim[s].ok = 0
  BY DEF BatchInit, InBatch, NewSim
<1>2. PerBatch * count.batches = 0
  BY <1>1, PerBatchType
<1>3. TotalWithin(sent, SentOf) /\ TotalWithin(count.ok, OkOf) /\ TotalWithin(count.failed, FailedOf)
  BY <1>1, <1>2 DEF TotalWithin
<1>4. QED
  BY <1>1, <1>3, BatchAssumption DEF BatchBounds

LEMMA BatchTypeFacts ==
  ASSUME BatchInv, LateInv, BatchBounds
  PROVE  BatchTypeOK
<1>1. sim \in [Simulators -> [pc : {"next", "sending", "counting", "done", "raised"},
                              ok : 0 .. Messages, failed : 0 .. Messages]]
  <2> SUFFICES ASSUME NEW s \in Simulators
               PROVE  sim[s] \in [pc : {"next", "sending", "counting", "done", "raised"},
                                  ok : 0 .. Messages, failed : 0 .. Messages]
    BY DEF BatchInv, BatchTyped
  <2>1. sim[s] \in CoroutineStates /\ Handled(sim[s]) <= Messages
    BY TotalsTyped DEF BatchInv, BatchTyped
  <2>2. sim[s].ok \in 0 .. Messages /\ sim[s].failed \in 0 .. Messages
    BY <2>1, TotalsTyped, BatchAssumption DEF Handled
  <2>3. QED
    BY <2>1, <2>2 DEF CoroutineStates
<1>2. late \in [Simulators -> 0 .. Messages * MaxBatches]
  <2> SUFFICES ASSUME NEW s \in Simulators PROVE late[s] \in 0 .. Messages * MaxBatches
    BY DEF LateInv, LateTyped
  <2>1. late[s] \in Nat /\ late[s] <= 1 /\ (late[s] > 0 => MaxBatches > 0)
    BY DEF LateInv, LateTyped, LateOnce, BatchBounds
  <2>2. Messages * MaxBatches \in Nat /\ (MaxBatches > 0 => Messages * MaxBatches > 0)
    BY BatchAssumption
  <2>3. QED
    BY <2>1, <2>2
<1>3. sent <= Total /\ count.ok <= Total /\ count.failed <= Total /\ Total \in Nat
  <2> DEFINE n == PerBatch * count.batches
             t == PerBatch * MaxBatches
  <2>1. PerBatch \in Nat /\ n \in Nat /\ t \in Nat /\ Total = t
    BY PerBatchType, TotalsTyped, BatchAssumption DEF Total, PerBatch
  <2>2. n <= t /\ (InBatch => n + PerBatch <= t)
    <3>1. ASSUME NEW a \in Nat, NEW b \in Nat, NEW c \in Nat, b <= c
          PROVE  a * b <= a * c /\ (b < c => a * b + a <= a * c)
      <4>1. a * c = a * b + a * (c - b) /\ a * (c - b) \in Nat
        BY <3>1
      <4>2. b < c => a * (c - b) = a + a * (c - b - 1) /\ a * (c - b - 1) \in Nat
        BY <3>1
      <4>3. QED
        BY <3>1, <4>1, <4>2
    <3>2. count.batches <= MaxBatches /\ (InBatch => count.batches < MaxBatches)
      BY DEF BatchBounds
    <3>3. QED
      BY <2>1, <3>1, <3>2, TotalsTyped, BatchAssumption
  <2>3. /\ sent <= n + (IF InBatch THEN SumFunction(SentOf) ELSE 0)
        /\ count.ok <= n + (IF InBatch THEN SumFunction(OkOf) ELSE 0)
        /\ count.failed <= n + (IF InBatch THEN SumFunction(FailedOf) ELSE 0)
    BY DEF BatchBounds, TotalWithin
  <2> HIDE DEF n, t
  <2>4. QED
    BY <2>1, <2>2, <2>3, BatchFull, TotalsTyped
<1>4. count \in [batches : 0 .. MaxBatches, failedBatches : 0 .. MaxBatches,
                 ok : 0 .. Total, failed : 0 .. Total, error : BOOLEAN]
  <2>1. /\ count.batches \in 0 .. MaxBatches /\ count.failedBatches \in 0 .. MaxBatches
        /\ count.ok \in 0 .. Total /\ count.failed \in 0 .. Total
    BY <1>3, TotalsTyped, BatchAssumption DEF BatchBounds
  <2>2. QED
    BY <2>1, TotalsTyped DEF Counters
<1>5. sent \in 0 .. Total
  BY <1>3, TotalsTyped
<1>6. QED
  BY <1>1, <1>2, <1>4, <1>5 DEF BatchTypeOK, BatchInv, BatchTyped

BatchTypeInv == BatchInv /\ LateInv /\ BatchBounds

LEMMA BatchTypeInit == BatchInit => BatchTypeInv
BY BatchInvInit, LateInvInit, BatchBoundsInit DEF BatchTypeInv

LEMMA BatchTypeNext == BatchTypeInv /\ [BatchNext]_batchVars => BatchTypeInv'
<1> SUFFICES ASSUME BatchTypeInv, [BatchNext]_batchVars PROVE BatchTypeInv'
  OBVIOUS
<1>1. BatchInv /\ LateInv /\ BatchBounds /\ BatchInv' /\ LateInv'
  BY BatchInvNext, LateInvNext DEF BatchTypeInv
<1>2. BatchBounds'
  BY <1>1, CoroutinesBounded, OthersBounded, StoresBounded DEF BatchNext, BatchStep
<1>3. QED
  BY <1>1, <1>2 DEF BatchTypeInv

\* The totals in a loop's document never exceed what its batches can have sent, for any
\* number of simulators, messages and batches, whichever of the sends, the counting, the
\* storing and the error handling fails.
THEOREM BatchTypes == BatchSpec => []BatchTypeOK
<1>1. BatchTypeInv => BatchTypeOK
  BY BatchTypeFacts DEF BatchTypeInv
<1>2. QED
  BY <1>1, BatchTypeInit, BatchTypeNext, PTL DEF BatchSpec

-----------------------------------------------------------------------------
(***************************************************************************)
(* The capacity of the loop routes.                                        *)
(***************************************************************************)
LEMMA Products ==
  ASSUME NEW a \in Nat, NEW b \in Nat
  PROVE  a * b \in Nat /\ (a > 0 /\ b > 0 => a * b > 0)
OBVIOUS

LEMMA ProductsGrow ==
  ASSUME NEW a \in Int, NEW b \in Int, a <= b, NEW d \in Nat
  PROVE  a * d <= b * d /\ (a + 1) * d = a * d + d
OBVIOUS

\* Division rounds down.
LEMMA Division ==
  ASSUME NEW x \in Nat, NEW d \in Nat \ {0}
  PROVE  \E q \in Nat, r \in Nat : r < d /\ x \div d = q /\ x % d = r /\ x = q * d + r
<1>1. PICK q \in Int, r \in Nat : r < d /\ x \div d = q /\ x % d = r /\ x = d * q + r
  OBVIOUS
<1>2. q >= 0
  <2> SUFFICES ASSUME q <= -1 PROVE FALSE
    BY <1>1
  <2>1. d * q <= -d
    BY <1>1
  <2>2. QED
    BY <1>1, <2>1
<1>3. q \in Nat /\ x = q * d + r
  BY <1>1, <1>2
<1>4. QED
  BY <1>1, <1>3

LEMMA DivisionBounds ==
  ASSUME NEW x \in Nat, NEW d \in Nat \ {0}
  PROVE  /\ (x \div d) * d <= x /\ x < (x \div d + 1) * d
         /\ \A q \in Nat : q * d <= x => q <= x \div d
         /\ \A q \in Nat : x < q * d => x \div d < q
<1>1. PICK p \in Nat, r \in Nat : r < d /\ x \div d = p /\ x = p * d + r
  BY Division
<1>2. (p + 1) * d = p * d + d /\ p * d \in Nat
  BY <1>1, ProductsGrow, Products
<1>3. p * d <= x /\ x < (p + 1) * d
  <2> DEFINE m == p * d
  <2>1. m \in Nat /\ x = m + r /\ (p + 1) * d = m + d
    BY <1>1, <1>2
  <2> HIDE DEF m
  <2>2. m <= x /\ x < m + d
    BY <1>1, <2>1
  <2>3. QED
    BY <2>1, <2>2 DEF m
<1>4. ASSUME NEW q \in Nat, q * d <= x PROVE q <= p
  <2> SUFFICES ASSUME p + 1 <= q PROVE FALSE
    BY <1>1
  <2>1. (p + 1) * d <= q * d
    BY <1>1, ProductsGrow
  <2>2. q * d \in Nat /\ (p + 1) * d \in Int
    BY <1>1, <1>2, Products
  <2>3. QED
    BY <1>3, <1>4, <2>1, <2>2
<1>5. ASSUME NEW q \in Nat, x < q * d PROVE p < q
  <2> SUFFICES ASSUME q <= p PROVE FALSE
    BY <1>1
  <2>1. q * d <= p * d
    BY <1>1, ProductsGrow
  <2>2. q * d \in Nat
    BY Products
  <2>3. QED
    BY <1>2, <1>3, <1>5, <2>1, <2>2
<1>6. QED
  BY <1>1, <1>3, <1>4, <1>5

LEMMA ExactDivision ==
  ASSUME NEW x \in Nat, NEW d \in Nat \ {0}, x % d = 0
  PROVE  x \div d \in Nat /\ x = (x \div d) * d
<1>1. PICK q \in Nat, r \in Nat : r < d /\ x \div d = q /\ x % d = r /\ x = q * d + r
  BY Division
<1>2. r = 0 /\ q * d \in Nat
  BY <1>1, Products
<1>3. QED
  BY <1>1, <1>2

LEMMA MaxOfTwo ==
  ASSUME NEW x \in Int
  PROVE  Max({0, x}) = IF x > 0 THEN x ELSE 0
<1> DEFINE m == IF x > 0 THEN x ELSE 0
<1>1. m \in {0, x} /\ \A y \in {0, x} : m >= y
  OBVIOUS
<1>2. \A n \in {0, x} : (\A y \in {0, x} : n >= y) => n = m
  OBVIOUS
<1>3. QED
  BY <1>1, <1>2 DEF Max

\* A configuration and its rate.
LEMMA RateFacts ==
  ASSUME NEW c \in Configs
  PROVE  /\ c.traps \in Nat \ {0} /\ c.sims \in Nat \ {0} /\ c.delay \in Nat \ {0}
         /\ CeilDiv(Window, c.delay) \in Nat \ {0}
         /\ c.sims * CeilDiv(Window, c.delay) \in Nat \ {0}
         /\ Rate(c) \in Nat /\ Rate(c) = c.traps * (c.sims * CeilDiv(Window, c.delay))
<1>1. c.traps \in Nat \ {0} /\ c.sims \in Nat \ {0} /\ c.delay \in Nat \ {0} /\ Window \in Nat \ {0}
  BY RouteAssumption
<1> DEFINE k == CeilDiv(Window, c.delay)
<1>2. k \in Nat \ {0}
  <2> DEFINE x == Window + c.delay - 1
  <2>1. x \in Nat /\ 1 * c.delay <= x
    BY <1>1
  <2>2. x \div c.delay \in Nat /\ 1 <= x \div c.delay
    BY <1>1, <2>1, Division, DivisionBounds
  <2>3. QED
    BY <2>2 DEF CeilDiv
<1> HIDE DEF k
<1>3. c.sims * k \in Nat \ {0} /\ c.traps * c.sims \in Nat
  BY <1>1, <1>2, Products
<1>4. (c.traps * c.sims) * k \in Nat /\ (c.traps * c.sims) * k = c.traps * (c.sims * k)
  BY <1>1, <1>2, <1>3, Products
<1>5. QED
  BY <1>1, <1>2, <1>3, <1>4 DEF Rate, k

\* A loop sends a batch at its start and one per delay: as many as the rate counts.
LEMMA BatchesBound ==
  ASSUME NEW c \in Configs
  PROVE  Sends(c) \in Nat /\ Sends(c) <= Rate(c)
<1> DEFINE d == c.delay
           n == CeilDiv(Window, d)
           T == {t \in 0 .. Window - 1 : t % d = 0}
           f == [t \in T |-> t \div d]
<1>1. d \in Nat \ {0} /\ n \in Nat \ {0} /\ Window \in Nat \ {0}
  BY RateFacts, RouteAssumption
<1>2. ASSUME NEW t \in T PROVE f[t] \in 0 .. n - 1 /\ t = f[t] * d /\ t \in Nat
  <2>1. t \in Nat /\ t <= Window - 1 /\ t % d = 0
    BY <1>1
  <2>2. t \div d \in Nat /\ t = (t \div d) * d
    <3> HIDE DEF d
    <3>1. QED
      BY <1>1, <2>1, ExactDivision
  <2>3. (t \div d + 1) * d <= Window + d - 1
    BY <1>1, <2>1, <2>2, ProductsGrow
  <2>4. t \div d + 1 <= (Window + d - 1) \div d
    BY <1>1, <2>2, <2>3, DivisionBounds
  <2>5. QED
    BY <1>1, <2>1, <2>2, <2>4 DEF CeilDiv
<1>3. f \in [T -> 0 .. n - 1]
  BY <1>2
<1>4. \A s, t \in T : f[s] = f[t] => s = t
  BY <1>2
<1> HIDE DEF f, T, n
<1>5. f \in Injection(T, 0 .. n - 1)
  BY <1>3, <1>4 DEF Injection, IsInjective
<1>6. IsFiniteSet(0 .. n - 1) /\ Cardinality(0 .. n - 1) = n
  BY <1>1, FS_Interval
<1>7. Cardinality(T) \in Nat /\ Cardinality(T) <= n
  BY <1>5, <1>6, FS_Injection, FS_CardinalityType
<1>8. Batches(c) = Cardinality(T)
  BY DEF Batches, T
<1> HIDE DEF d
<1>9. c.traps * c.sims \in Nat
  BY RateFacts, Products
<1>10. Cardinality(T) * (c.traps * c.sims) <= n * (c.traps * c.sims)
  BY <1>1, <1>7, <1>9, ProductsGrow
<1>11. (c.traps * c.sims) * Cardinality(T) \in Nat
  BY <1>7, <1>9, Products
<1>12. QED
  BY <1>1, <1>7, <1>8, <1>9, <1>10, <1>11 DEF Sends, Rate, n, d

-----------------------------------------------------------------------------
\* The rates of the loops of us, as the documents D have them.
RatesOf(D, us) == SumFunctionOnSet([u \in us |-> Rate(D[u].config)], us)
Documents == [Users -> [active : BOOLEAN, config : Configs]]

LEMMA UsageIsRates ==
  /\ \A us : UsageOf(us) = RatesOf(doc, us)
  /\ \A us : UsageOf(us)' = RatesOf(doc', us)
BY DEF UsageOf, RatesOf, SumFunction

LEMMA RatesFacts ==
  ASSUME NEW D \in Documents, NEW us \in SUBSET Users
  PROVE  /\ RatesOf(D, us) \in Nat
         /\ \A u \in us : RatesOf(D, us) = Rate(D[u].config) + RatesOf(D, us \ {u})
         /\ \A u : RatesOf(D, us \ {u}) <= RatesOf(D, us)
<1> DEFINE R(ws) == [u \in ws |-> Rate(D[u].config)]
<1>1. \A u \in Users : D[u].config \in Configs /\ Rate(D[u].config) \in Nat
  BY RateFacts DEF Documents
<1>2. \A ws \in SUBSET us : IsFiniteSet(ws) /\ NatsOn(R(ws), ws) /\ IntsOn(R(ws), ws)
  BY <1>1, FS_Subset, RouteAssumption DEF NatsOn, IntsOn
<1>3. \A ws \in SUBSET us : RatesOf(D, ws) = SumFunctionOnSet(R(ws), ws) /\ RatesOf(D, ws) \in Nat
  BY <1>2, SumOfNats DEF RatesOf
<1>4. ASSUME NEW u \in us PROVE RatesOf(D, us) = Rate(D[u].config) + RatesOf(D, us \ {u})
  <2>1. SumFunctionOnSet(R(us), us) = R(us)[u] + SumFunctionOnSet(R(us), us \ {u})
    BY <1>2, SumRemove
  <2>2. SumFunctionOnSet(R(us \ {u}), us \ {u}) = SumFunctionOnSet(R(us), us \ {u})
    <3> DEFINE ws == us \ {u}
               f == R(us)
               h == R(ws)
    <3>1. IsFiniteSet(ws) /\ IntsOn(f, ws) /\ \A x \in ws : h[x] = f[x]
      BY <1>1, <1>2 DEF IntsOn
    <3> HIDE DEF ws, f, h
    <3>2. SumFunctionOnSet(h, ws) = SumFunctionOnSet(f, ws)
      BY <3>1, SumSame
    <3>3. QED
      BY <3>2 DEF ws, f, h
  <2>3. QED
    BY <1>3, <2>1, <2>2
<1>5. ASSUME NEW u PROVE RatesOf(D, us \ {u}) <= RatesOf(D, us)
  <2>1. CASE u \in us
    <3> DEFINE a == RatesOf(D, us)
               b == RatesOf(D, us \ {u})
               r == Rate(D[u].config)
    <3>1. a = r + b
      BY <1>4, <2>1
    <3>2. b \in Nat /\ r \in Nat
      BY <1>1, <1>3, <2>1
    <3> HIDE DEF a, b, r
    <3>3. b <= a
      BY <3>1, <3>2
    <3>4. QED
      BY <3>3 DEF a, b
  <2>2. CASE u \notin us
    <3>1. us \ {u} = us /\ RatesOf(D, us) \in Nat
      BY <1>3, <2>2
    <3>2. QED
      BY <3>1
  <2>3. QED
    BY <2>1, <2>2
<1>6. QED
  BY <1>3, <1>4, <1>5

LEMMA SameRates ==
  ASSUME NEW D \in Documents, NEW E \in Documents, NEW us \in SUBSET Users,
         \A u \in us : E[u].config = D[u].config
  PROVE  RatesOf(E, us) = RatesOf(D, us)
<1>1. [u \in us |-> Rate(E[u].config)] = [u \in us |-> Rate(D[u].config)]
  OBVIOUS
<1>2. QED
  BY <1>1 DEF RatesOf

-----------------------------------------------------------------------------
\* Without an overlap one request is between its read and its write; what it read
\* covers the loops that are active now, and what is admitted fits with it.
OneAtATime == ~ overlap => \A u, v \in Users : Busy(u) /\ Busy(v) => u = v
Within     == ~ overlap => UsageOf(Active) <= Capacity
Current    == ~ overlap => \A u \in Users : Busy(u) => UsageOf(Active \ {u}) <= usage[u]
Admitted   == \A u \in Users : route[u] = "storing" => Fits(u)
NoOfferYet == \A u \in Users : route[u] # "idle" => offered[u] = NoOffer

RouteInv ==
  RouteTypeOK /\ OneAtATime /\ Within /\ Current /\ Admitted /\ NoOfferYet /\ OfferIsLargest

LEMMA ActiveFacts ==
  ASSUME RouteTypeOK
  PROVE  /\ doc \in Documents /\ Active \in SUBSET Users /\ Capacity \in Nat
         /\ \A us \in SUBSET Users : UsageOf(us) = RatesOf(doc, us) /\ UsageOf(us) \in Nat
         /\ \A u \in Users : UsageOf(Active \ {u}) <= UsageOf(Active)
<1>1. doc \in Documents /\ Active \in SUBSET Users /\ Capacity \in Nat
  BY RouteAssumption DEF RouteTypeOK, Documents, Active
<1>2. \A us \in SUBSET Users : UsageOf(us) = RatesOf(doc, us) /\ UsageOf(us) \in Nat
  BY <1>1, UsageIsRates, RatesFacts
<1>3. \A u \in Users : RatesOf(doc, Active \ {u}) <= RatesOf(doc, Active)
  BY <1>1, RatesFacts
<1>4. \A u \in Users : UsageOf(Active \ {u}) <= UsageOf(Active)
  BY <1>1, <1>2, <1>3
<1>5. QED
  BY <1>1, <1>2, <1>4

\* No loop is active and none is asked for.
LEMMA RouteInvInit == RouteInit => RouteInv
<1> SUFFICES ASSUME RouteInit PROVE RouteInv
  OBVIOUS
<1> USE RouteAssumption DEF RouteInit
<1>1. AnyConfig \in Configs
  BY DEF AnyConfig
<1>2. RouteTypeOK
  <2>1. asked \in [Users -> Configs] /\ doc \in [Users -> [active : BOOLEAN, config : Configs]]
    <3> HIDE DEF RouteAssumption
    <3>1. [active |-> FALSE, config |-> AnyConfig] \in [active : BOOLEAN, config : Configs]
      BY <1>1
    <3>2. QED
      BY <1>1, <3>1
  <2>2. /\ route \in [Users -> {"idle", "reading", "checking", "storing", "registering"}]
        /\ running \subseteq Users /\ usage \in [Users -> Nat] /\ starts \in 0 .. MaxStarts
    OBVIOUS
  <2>5. overlap \in BOOLEAN
    OBVIOUS
  <2>3. offered \in [Users -> Nat \cup {NoOffer}]
    OBVIOUS
  <2>4. QED
    BY <2>1, <2>2, <2>3, <2>5 DEF RouteTypeOK
<1>3. UsageOf(Active) <= Capacity
  <2>1. Active = {}
    BY DEF Active
  <2>2. UsageOf({}) = 0
    BY SumEmpty, UsageIsRates DEF RatesOf
  <2>3. QED
    BY <2>1, <2>2
<1>4. OneAtATime /\ Within /\ Current /\ Admitted /\ NoOfferYet
  BY <1>3 DEF OneAtATime, Within, Current, Admitted, NoOfferYet, Busy
<1>5. OfferIsLargest
  BY DEF OfferIsLargest
<1>6. QED
  BY <1>2, <1>4, <1>5 DEF RouteInv

\* The offer of a 409: the division is by what one more trap adds to the rate.
LEMMA OfferFacts ==
  ASSUME RouteTypeOK, NEW u \in Users, ~ Fits(u)
  PROVE  /\ MaxTraps(u) \in Nat /\ MaxTraps(u) < asked[u].traps
         /\ usage[u] <= Capacity => usage[u] + Rate([asked[u] EXCEPT !.traps = MaxTraps(u)]) <= Capacity
         /\ usage[u] + Rate([asked[u] EXCEPT !.traps = MaxTraps(u) + 1]) > Capacity
<1> DEFINE c == asked[u]
           k == CeilDiv(Window, c.delay)
           p == c.sims * k
           x == IF Capacity - usage[u] > 0 THEN Capacity - usage[u] ELSE 0
           m == x \div p
<1>1. /\ c \in Configs /\ c.traps \in Nat \ {0} /\ p \in Nat \ {0} /\ Rate(c) = c.traps * p
      /\ c.sims \in Nat \ {0} /\ k \in Nat \ {0} /\ usage[u] \in Nat /\ Capacity \in Nat
  BY RateFacts, RouteAssumption DEF RouteTypeOK
<1>2. x \in Nat
  BY <1>1
<1>3. MaxTraps(u) = m
  <2>1. Max({0, Capacity - usage[u]}) = x
    BY <1>1, MaxOfTwo
  <2>2. QED
    BY <2>1 DEF MaxTraps
<1>4. \A n \in Nat : Rate([c EXCEPT !.traps = n]) = n * p
  <2> TAKE n \in Nat
  <2> DEFINE e == [c EXCEPT !.traps = n]
  <2>1. e.traps = n /\ e.sims = c.sims /\ e.delay = c.delay
    BY <1>1, RouteAssumption
  <2> HIDE DEF e, c
  <2>2. Rate(e) = (n * c.sims) * k
    BY <2>1 DEF Rate
  <2> HIDE DEF k
  <2>3. (n * c.sims) * k = n * (c.sims * k)
    BY <1>1
  <2>4. QED
    BY <2>2, <2>3 DEF e
<1>5. usage[u] + c.traps * p > Capacity /\ c.traps * p \in Nat
  BY <1>1, Products DEF Fits
<1> HIDE DEF p, c, k
<1>6. m \in Nat
  BY <1>1, <1>2, Division
<1>7. m * p <= x /\ x < (m + 1) * p /\ (x < c.traps * p => m < c.traps)
  BY <1>1, <1>2, DivisionBounds
<1>8. m * p \in Nat /\ (m + 1) * p \in Nat
  BY <1>1, <1>6, Products
<1> HIDE DEF m
<1>9. m < c.traps
  BY <1>1, <1>5, <1>7, Products
<1>10. usage[u] <= Capacity => usage[u] + m * p <= Capacity
  BY <1>1, <1>7, <1>8
<1>11. usage[u] + (m + 1) * p > Capacity
  BY <1>1, <1>7, <1>8
<1>12. QED
  BY <1>3, <1>4, <1>6, <1>9, <1>10, <1>11 DEF c

-----------------------------------------------------------------------------
\* The offer o to a request a that read the usage used.
Most(o, used, a) ==
  o # NoOffer =>
    /\ o < a.traps
    /\ used <= Capacity => used + Rate([a EXCEPT !.traps = o]) <= Capacity
    /\ used + Rate([a EXCEPT !.traps = o + 1]) > Capacity

LEMMA Offers ==
  /\ OfferIsLargest = \A u \in Users : Most(offered[u], usage[u], asked[u])
  /\ OfferIsLargest' = \A u \in Users : Most(offered'[u], usage'[u], asked'[u])
BY DEF OfferIsLargest, Most

LEMMA SameDocuments ==
  ASSUME UNCHANGED doc
  PROVE  /\ Active' = Active /\ UsageOf(Active)' = UsageOf(Active)
         /\ \A u \in Users : UsageOf(Active \ {u})' = UsageOf(Active \ {u})
BY DEF Active, UsageOf

LEMMA RouteTypeNext ==
  ASSUME RouteTypeOK, [RouteNext]_routeVars
  PROVE  RouteTypeOK'
<1> USE DEF RouteTypeOK
<1>1. ASSUME NEW u \in Users, NEW c \in Configs, AskStart(u, c) PROVE RouteTypeOK'
  BY <1>1, RouteAssumption DEF AskStart
<1>2. ASSUME NEW u \in Users, ReadLoops(u) PROVE RouteTypeOK'
  <2>1. UsageOf(Active \ {u}) \in Nat
    BY ActiveFacts DEF Active
  <2>2. overlap' \in BOOLEAN
    BY <1>2 DEF ReadLoops
  <2>3. QED
    BY <1>2, <2>1, <2>2 DEF ReadLoops
<1>3. ASSUME NEW u \in Users, RefuseStart(u) PROVE RouteTypeOK'
  <2>1. MaxTraps(u) \in Nat
    BY <1>3, OfferFacts DEF RefuseStart
  <2>2. QED
    BY <1>3, <2>1 DEF RefuseStart
<1>4. ASSUME NEW u \in Users, RejectStart(u) \/ AdmitStart(u) \/ StoreLoopFails(u) \/ RegisterLoop(u)
      PROVE  RouteTypeOK'
  BY <1>4 DEF RejectStart, AdmitStart, StoreLoopFails, RegisterLoop
<1>5. ASSUME NEW u \in Users, StoreLoop(u) PROVE RouteTypeOK'
  <2>1. [active |-> TRUE, config |-> asked[u]] \in [active : BOOLEAN, config : Configs]
    OBVIOUS
  <2>2. doc' \in [Users -> [active : BOOLEAN, config : Configs]]
    BY <1>5, <2>1 DEF StoreLoop
  <2>3. QED
    BY <1>5, <2>2 DEF StoreLoop
<1>6. ASSUME NEW u \in Users, StopLoopRoute(u) \/ LoopOver(u) PROVE RouteTypeOK'
  <2>1. [doc[u] EXCEPT !.active = FALSE] \in [active : BOOLEAN, config : Configs]
    OBVIOUS
  <2>2. doc' = [doc EXCEPT ![u] = [doc[u] EXCEPT !.active = FALSE]]
    BY <1>6 DEF StopLoopRoute, LoopOver
  <2>3. doc' \in [Users -> [active : BOOLEAN, config : Configs]]
    BY <2>1, <2>2
  <2>4. QED
    BY <1>6, <2>3 DEF StopLoopRoute, LoopOver
<1>7. CASE UNCHANGED routeVars
  BY <1>7 DEF routeVars
<1>8. QED
  BY <1>1, <1>2, <1>3, <1>4, <1>5, <1>6, <1>7 DEF RouteNext

\* The steps that leave the documents alone and read nothing: who is busy after one
\* of them was busy before it.
Keeps(u) ==
  \/ \E c \in Configs : AskStart(u, c)
  \/ RefuseStart(u) \/ RejectStart(u) \/ AdmitStart(u) \/ StoreLoopFails(u) \/ RegisterLoop(u)

LEMMA KeepsFacts ==
  ASSUME RouteTypeOK, NEW u \in Users, Keeps(u)
  PROVE  /\ UNCHANGED <<doc, usage, overlap>>
         /\ \A v \in Users : Busy(v)' => Busy(v)
<1>1. UNCHANGED <<doc, usage, overlap>>
  BY DEF Keeps, AskStart, RefuseStart, RejectStart, AdmitStart, StoreLoopFails, RegisterLoop
<1>2. ASSUME NEW v \in Users, Busy(v)' PROVE Busy(v)
  BY <1>2 DEF Keeps, AskStart, RefuseStart, RejectStart, AdmitStart, StoreLoopFails, RegisterLoop,
              Busy, RouteTypeOK
<1>3. QED
  BY <1>1, <1>2

LEMMA KeepsUsage ==
  ASSUME RouteInv, NEW u \in Users, Keeps(u)
  PROVE  OneAtATime' /\ Within' /\ Current'
<1> USE DEF RouteInv
<1>1. UNCHANGED <<doc, usage, overlap>> /\ \A v \in Users : Busy(v)' => Busy(v)
  BY KeepsFacts
<1>2. OneAtATime'
  BY <1>1 DEF OneAtATime
<1>3. UsageOf(Active)' = UsageOf(Active) /\ \A v \in Users : UsageOf(Active \ {v})' = UsageOf(Active \ {v})
  BY <1>1, SameDocuments
<1>4. Within' /\ Current'
  BY <1>1, <1>3 DEF Within, Current
<1>5. QED
  BY <1>2, <1>4

\* A stop, or the end of a loop, leaves the documents of the others alone.
LEMMA EndsUsage ==
  ASSUME RouteInv, NEW u \in Users, StopLoopRoute(u) \/ LoopOver(u)
  PROVE  OneAtATime' /\ Within' /\ Current'
<1> USE DEF RouteInv
<1>1. UNCHANGED <<route, usage, overlap>> /\ RouteTypeOK'
  BY RouteTypeNext DEF StopLoopRoute, LoopOver, RouteNext
<1>2. doc' = [doc EXCEPT ![u] = [doc[u] EXCEPT !.active = FALSE]]
  BY DEF StopLoopRoute, LoopOver
<1>3. /\ \A v \in Users : doc'[v].config = doc[v].config
      /\ \A v \in Users : doc'[v].active = (v # u /\ doc[v].active)
  BY <1>2 DEF RouteTypeOK
<1>4. Active' = Active \ {u} /\ doc' \in Documents /\ doc \in Documents /\ Active \in SUBSET Users
  BY <1>1, <1>3 DEF Active, Documents, RouteTypeOK
<1>5. \A us \in SUBSET Users : RatesOf(doc', us) = RatesOf(doc, us)
  BY <1>3, <1>4, SameRates
<1>6. \A us \in SUBSET Users : RatesOf(doc, us \ {u}) <= RatesOf(doc, us) /\ RatesOf(doc, us) \in Nat
                               /\ RatesOf(doc, us \ {u}) \in Nat
  BY <1>4, RatesFacts
<1>7. UsageOf(Active)' <= UsageOf(Active)
  <2>1. UsageOf(Active)' = RatesOf(doc', Active') /\ UsageOf(Active) = RatesOf(doc, Active)
    BY UsageIsRates
  <2>2. QED
    BY <1>4, <1>5, <1>6, <2>1
<1>8. ASSUME NEW v \in Users PROVE UsageOf(Active \ {v})' <= UsageOf(Active \ {v})
  <2>1. /\ UsageOf(Active \ {v})' = RatesOf(doc', Active' \ {v})
        /\ UsageOf(Active \ {v}) = RatesOf(doc, Active \ {v})
    BY UsageIsRates
  <2>2. Active' \ {v} = (Active \ {v}) \ {u} /\ Active \ {v} \in SUBSET Users
    BY <1>4
  <2>3. QED
    BY <1>5, <1>6, <2>1, <2>2
<1>9. /\ UsageOf(Active) \in Nat /\ UsageOf(Active)' \in Nat /\ Capacity \in Nat
      /\ \A v \in Users : UsageOf(Active \ {v}) \in Nat /\ UsageOf(Active \ {v})' \in Nat
      /\ \A v \in Users : usage[v] \in Nat
  <2>1. \A v \in Users : Active \ {v} \in SUBSET Users /\ Active' \ {v} \in SUBSET Users
    BY <1>4
  <2>2. \A us \in SUBSET Users : RatesOf(doc, us) \in Nat /\ RatesOf(doc', us) \in Nat
    BY <1>5, <1>6
  <2>3. /\ UsageOf(Active)' = RatesOf(doc', Active') /\ UsageOf(Active) = RatesOf(doc, Active)
        /\ \A v \in Users : UsageOf(Active \ {v})' = RatesOf(doc', Active' \ {v})
        /\ \A v \in Users : UsageOf(Active \ {v}) = RatesOf(doc, Active \ {v})
    BY UsageIsRates
  <2>4. UsageOf(Active) \in Nat /\ UsageOf(Active)' \in Nat
    BY <1>4, <2>2, <2>3
  <2>5. \A v \in Users : UsageOf(Active \ {v}) \in Nat /\ UsageOf(Active \ {v})' \in Nat
    BY <2>1, <2>2, <2>3
  <2>6. QED
    BY <2>4, <2>5, RouteAssumption DEF RouteTypeOK
<1>10. OneAtATime'
  BY <1>1 DEF OneAtATime, Busy
<1>11. Within' /\ Current'
  <2> HIDE DEF RouteInv
  <2>1. Within /\ Current
    BY DEF RouteInv
  <2>2. Within'
    BY <1>1, <1>7, <1>9, <2>1 DEF Within
  <2>3. Current'
    <3> SUFFICES ASSUME ~ overlap', NEW v \in Users, Busy(v)'
                 PROVE  UsageOf(Active \ {v})' <= usage'[v]
      BY DEF Current
    <3> DEFINE before == UsageOf(Active \ {v})
               after  == UsageOf(Active \ {v})'
    <3>1. before <= usage[v]
      BY <1>1, <2>1 DEF Current, Busy
    <3>2. before \in Nat /\ after \in Nat /\ usage[v] \in Nat /\ after <= before /\ usage'[v] = usage[v]
      BY <1>1, <1>8, <1>9
    <3>3. QED
      BY <3>1, <3>2
  <2>4. QED
    BY <2>2, <2>3
<1>12. QED
  BY <1>10, <1>11

\* A loop is stored: what its request read covers the others, and it fits with them.
LEMMA StoreUsage ==
  ASSUME RouteInv, NEW u \in Users, StoreLoop(u)
  PROVE  OneAtATime' /\ Within' /\ Current'
<1>1. UNCHANGED <<usage, overlap>> /\ RouteTypeOK /\ RouteTypeOK'
  BY RouteTypeNext DEF StoreLoop, RouteNext, RouteInv
<1>2. /\ Busy(u) /\ Fits(u) /\ ~ Busy(u)'
      /\ \A v \in Users : Busy(v)' => Busy(v)
  BY DEF StoreLoop, Busy, RouteInv, RouteTypeOK, Admitted
<1>3. /\ doc'[u] = [active |-> TRUE, config |-> asked[u]]
      /\ \A v \in Users : v # u => doc'[v] = doc[v]
  BY <1>1 DEF StoreLoop, RouteTypeOK
<1>4. Active' = Active \cup {u} /\ doc' \in Documents /\ doc \in Documents /\ Active \in SUBSET Users
  <2>1. doc'[u].active = TRUE
    BY <1>3
  <2>2. QED
    BY <1>1, <1>3, <2>1 DEF Active, Documents, RouteTypeOK
<1>5. RatesOf(doc', Active \ {u}) = RatesOf(doc, Active \ {u})
  BY <1>3, <1>4, SameRates
<1>6. RatesOf(doc', Active') = Rate(asked[u]) + RatesOf(doc, Active \ {u})
  <2>1. RatesOf(doc', Active') = Rate(doc'[u].config) + RatesOf(doc', Active' \ {u})
    BY <1>4, RatesFacts
  <2>2. Active' \ {u} = Active \ {u} /\ doc'[u].config = asked[u]
    BY <1>3, <1>4
  <2>3. QED
    BY <1>5, <2>1, <2>2
<1>7. OneAtATime' /\ Current'
  <2>1. ~ overlap' => \A v \in Users : ~ Busy(v)'
    BY <1>1, <1>2 DEF OneAtATime, RouteInv
  <2>2. QED
    BY <2>1 DEF OneAtATime, Current
<1>8. Within'
  <2> SUFFICES ASSUME ~ overlap' PROVE UsageOf(Active)' <= Capacity
    BY <1>1 DEF Within
  <2> DEFINE others == RatesOf(doc, Active \ {u})
             rate   == Rate(asked[u])
  <2>1. others <= usage[u]
    BY <1>1, <1>2, UsageIsRates DEF RouteInv, Current
  <2>2. usage[u] + rate <= Capacity
    BY <1>2 DEF Fits
  <2>3. others \in Nat /\ rate \in Nat /\ usage[u] \in Nat /\ Capacity \in Nat
    <3>1. Active \ {u} \in SUBSET Users /\ asked[u] \in Configs
      BY <1>1, <1>4 DEF RouteTypeOK
    <3>2. QED
      BY <1>1, <1>4, <3>1, RatesFacts, RateFacts, RouteAssumption DEF RouteTypeOK
  <2>4. UsageOf(Active)' = rate + others
    BY <1>6, UsageIsRates
  <2> HIDE DEF others, rate
  <2>5. QED
    BY <2>1, <2>2, <2>3, <2>4
<1>9. QED
  BY <1>7, <1>8

\* What is read covers the loops that are active now.
LEMMA ReadUsage ==
  ASSUME RouteInv, NEW u \in Users, ReadLoops(u)
  PROVE  OneAtATime' /\ Within' /\ Current'
<1>1. UNCHANGED doc /\ RouteTypeOK
  BY DEF ReadLoops, RouteInv
<1>2. /\ UsageOf(Active)' = UsageOf(Active)
      /\ \A v \in Users : UsageOf(Active \ {v})' = UsageOf(Active \ {v})
  BY <1>1, SameDocuments
<1>3. ~ overlap' => ~ overlap /\ \A v \in Users \ {u} : ~ Busy(v)
  BY DEF ReadLoops
<1>4. \A v \in Users : Busy(v)' /\ v # u => Busy(v)
  BY <1>1 DEF ReadLoops, Busy, RouteTypeOK
<1>5. usage'[u] = UsageOf(Active \ {u})
  BY <1>1 DEF ReadLoops, RouteTypeOK
<1>6. OneAtATime'
  BY <1>3, <1>4 DEF OneAtATime
<1>7. Within'
  BY <1>2, <1>3 DEF Within, RouteInv
<1>8. Current'
  <2> SUFFICES ASSUME ~ overlap', NEW v \in Users, Busy(v)'
               PROVE  UsageOf(Active \ {v})' <= usage'[v]
    BY DEF Current
  <2>1. v = u
    BY <1>3, <1>4
  <2>2. UsageOf(Active \ {v})' = usage'[v] /\ UsageOf(Active \ {u}) \in Nat
    BY <1>1, <1>2, <1>5, <2>1, ActiveFacts DEF Active
  <2>3. QED
    BY <1>2, <2>1, <2>2
<1>9. QED
  BY <1>6, <1>7, <1>8

\* The request's own facts.
LEMMA OffersNext ==
  ASSUME RouteInv, [RouteNext]_routeVars
  PROVE  Admitted' /\ NoOfferYet' /\ OfferIsLargest'
<1> DEFINE Good == Admitted' /\ NoOfferYet' /\ \A v \in Users : Most(offered'[v], usage'[v], asked'[v])
<1>1. /\ RouteTypeOK /\ Admitted /\ NoOfferYet
      /\ \A v \in Users : Most(offered[v], usage[v], asked[v])
  BY Offers DEF RouteInv
<1>2. \A used, a : Most(NoOffer, used, a)
  BY DEF Most
<1> USE DEF RouteTypeOK, Admitted, NoOfferYet, Fits
<1>3. ASSUME NEW u \in Users, NEW c \in Configs, AskStart(u, c) PROVE Good
  BY <1>1, <1>2, <1>3 DEF AskStart
<1>4. ASSUME NEW u \in Users, ReadLoops(u) PROVE Good
  <2>1. offered[u] = NoOffer
    BY <1>1, <1>4 DEF ReadLoops
  <2>2. \A v \in Users : Most(offered'[v], usage'[v], asked'[v])
    BY <1>1, <1>2, <1>4, <2>1 DEF ReadLoops
  <2>3. Admitted' /\ NoOfferYet'
    BY <1>1, <1>4 DEF ReadLoops
  <2>4. QED
    BY <2>2, <2>3
<1>5. ASSUME NEW u \in Users, RefuseStart(u) PROVE Good
  <2>1. Most(MaxTraps(u), usage[u], asked[u])
    <3>1. ~ Fits(u)
      BY <1>5 DEF RefuseStart
    <3>2. QED
      BY <1>1, <3>1, OfferFacts DEF Most
  <2>2. QED
    BY <1>1, <1>5, <2>1 DEF RefuseStart
<1>6. ASSUME NEW u \in Users, \/ RejectStart(u) \/ AdmitStart(u) \/ StoreLoop(u)
                              \/ StoreLoopFails(u) \/ RegisterLoop(u)
      PROVE  Good
  BY <1>1, <1>6 DEF RejectStart, AdmitStart, StoreLoop, StoreLoopFails, RegisterLoop
<1>7. ASSUME NEW u \in Users, StopLoopRoute(u) \/ LoopOver(u) PROVE Good
  BY <1>1, <1>7 DEF StopLoopRoute, LoopOver
<1>8. ASSUME UNCHANGED routeVars PROVE Good
  <2>1. UNCHANGED <<route, asked, usage, offered>>
    BY <1>8 DEF routeVars
  <2>2. QED
    BY <1>1, <2>1
<1> HIDE DEF Good, RouteTypeOK, Admitted, NoOfferYet, Fits
<1>9. Good
  BY <1>3, <1>4, <1>5, <1>6, <1>7, <1>8 DEF RouteNext
<1>10. QED
  BY <1>9, Offers DEF Good

LEMMA RouteInvNext == RouteInv /\ [RouteNext]_routeVars => RouteInv'
<1> SUFFICES ASSUME RouteInv, [RouteNext]_routeVars PROVE RouteInv'
  OBVIOUS
<1>1. RouteTypeOK'
  BY RouteTypeNext DEF RouteInv
<1>2. OneAtATime' /\ Within' /\ Current'
  <2>1. CASE \E u \in Users : Keeps(u)
    BY <2>1, KeepsUsage
  <2>2. CASE \E u \in Users : StopLoopRoute(u) \/ LoopOver(u)
    BY <2>2, EndsUsage
  <2>3. CASE \E u \in Users : StoreLoop(u)
    BY <2>3, StoreUsage
  <2>4. CASE \E u \in Users : ReadLoops(u)
    BY <2>4, ReadUsage
  <2>5. CASE UNCHANGED routeVars
    <3>1. /\ UNCHANGED <<usage, overlap>> /\ \A v \in Users : Busy(v)' = Busy(v)
          /\ UsageOf(Active)' = UsageOf(Active)
          /\ \A v \in Users : UsageOf(Active \ {v})' = UsageOf(Active \ {v})
      BY <2>5, SameDocuments DEF routeVars, Busy
    <3>2. QED
      BY <3>1 DEF RouteInv, OneAtATime, Within, Current
  <2>6. QED
    BY <2>1, <2>2, <2>3, <2>4, <2>5 DEF RouteNext, Keeps
<1>3. Admitted' /\ NoOfferYet' /\ OfferIsLargest'
  BY OffersNext
<1>4. QED
  BY <1>1, <1>2, <1>3 DEF RouteInv

\* The active loops send no more than the rates that were admitted.
LEMMA LoadWithinUsage ==
  ASSUME RouteTypeOK
  PROVE  Load(Active) <= UsageOf(Active) /\ Load(Active) \in Int /\ UsageOf(Active) \in Nat
<1> DEFINE f == [u \in Active |-> Sends(doc[u].config)]
           h == [u \in Active |-> Rate(doc[u].config)]
<1>1. Active \in SUBSET Users /\ IsFiniteSet(Active) /\ UsageOf(Active) \in Nat
  <2>1. Active \in SUBSET Users
    BY DEF Active
  <2>2. QED
    BY <2>1, ActiveFacts, FS_Subset, RouteAssumption
<1>2. \A u \in Active : doc[u].config \in Configs
  BY <1>1 DEF RouteTypeOK
<1>3. IntsOn(f, Active) /\ IntsOn(h, Active) /\ \A u \in Active : f[u] <= h[u]
  BY <1>2, BatchesBound, RateFacts DEF IntsOn
<1>4. /\ Load(Active) = SumFunctionOnSet(f, Active) /\ UsageOf(Active) = SumFunctionOnSet(h, Active)
  BY DEF Load, UsageOf, SumFunction
<1> HIDE DEF f, h
<1>5. SumFunctionOnSet(f, Active) <= SumFunctionOnSet(h, Active)
  BY <1>1, <1>3, SumMonotone
<1>6. SumFunctionOnSet(f, Active) \in Int
  BY <1>1, <1>3, SumType
<1>7. QED
  BY <1>1, <1>4, <1>5, <1>6

\* No two requests between their read and their write: the active loops send no
\* more than the system's capacity in any window.
THEOREM CapacityHoldsHolds == RouteSpec => []CapacityHolds
<1>1. RouteInv => CapacityHolds
  <2> SUFFICES ASSUME RouteInv, ~ overlap PROVE Load(Active) <= Capacity
    BY DEF CapacityHolds
  <2>1. Load(Active) <= UsageOf(Active) /\ Load(Active) \in Int /\ UsageOf(Active) \in Nat
    BY LoadWithinUsage DEF RouteInv
  <2>2. UsageOf(Active) <= Capacity /\ Capacity \in Nat
    BY RouteAssumption DEF RouteInv, Within
  <2>3. QED
    BY <2>1, <2>2
<1>2. QED
  BY <1>1, RouteInvInit, RouteInvNext, PTL DEF RouteSpec

\* What a 409 offers is the most that would have been admitted.
THEOREM OfferIsLargestHolds == RouteSpec => []OfferIsLargest
<1>1. RouteInv => OfferIsLargest
  BY DEF RouteInv
<1>2. QED
  BY <1>1, RouteInvInit, RouteInvNext, PTL DEF RouteSpec
=============================================================================
