--------------------------- MODULE ReporterProofs ---------------------------
(***************************************************************************)
(* What the reporter's sends, tests and polling loads guarantee, for any   *)
(* number of simulators, messages and devices: a stream that ends has      *)
(* delivered every event, the reply to a send is true, a test reports its  *)
(* own message, and "all loaded" is said of a device that is served.  With *)
(* LoopProofs, the types of the reporter's parts as Reporter has them.     *)
(***************************************************************************)
EXTENDS Reporter, LoopProofs

-----------------------------------------------------------------------------
(***************************************************************************)
(* The streams.                                                            *)
(***************************************************************************)

\* Every event of position i is in the queue, or has been.
AllPut(i) == events[i] > 0 /\ \A k \in 1 .. events[i] : \E j \in 1 .. Len(put) : put[j] = Event(i, k)

\* The tasks exist once the generator of several simulators has started, have
\* put all their events when they are done, and are done before it drains.
TasksPut ==
  /\ \A i \in Positions : task[i] = "done" => AllPut(i)
  /\ gen \in {"idle", "refused", "single"} => \A i \in Positions : task[i] = "none"
  /\ gen = "draining" => \A i \in Positions : task[i] = "done"

\* The generator of one simulator has sent what it was given, in its order.
SingleSends ==
  /\ gen = "idle" => put = <<>> /\ taken = 0
  /\ gen = "single" =>
       /\ Len(list) = 1 /\ events[1] > 0 /\ Len(put) <= events[1] /\ taken = Len(put)
       /\ \A j \in 1 .. Len(put) : put[j] = Event(1, j)

\* After the end no task puts anything: there is nothing left to lose.
EndedWithAll ==
  gen = "ended" => /\ taken = Len(put)
                   /\ \A i \in Positions : task[i] # "ready" /\ AllPut(i)

StreamInv == StreamTypeOK /\ TasksPut /\ SingleSends /\ EndedWithAll

LEMMA StreamInvInit == StreamInit => StreamInv
<1> SUFFICES ASSUME StreamInit PROVE StreamInv
  OBVIOUS
<1>1. StreamTypeOK
  BY StreamAssumption DEF StreamInit, StreamTypeOK, GenStates
<1>2. TasksPut /\ SingleSends /\ EndedWithAll
  BY DEF StreamInit, TasksPut, SingleSends, EndedWithAll
<1>3. QED
  BY <1>1, <1>2 DEF StreamInv

\* A step of the generator that puts nothing.
LEMMA GeneratorKeeps ==
  ASSUME StreamInv, gen' \in GenStates, UNCHANGED <<list, events, put, completed>>,
         task' \in [Positions -> {"none", "ready", "done"}], taken' \in 0 .. Len(put),
         \/ Refuse \/ StartTasks \/ Poll \/ PollEnds \/ Gather \/ Drain \/ Drained
         \/ SingleEnds \/ ClientGone
  PROVE  StreamInv'
<1>1. StreamTypeOK'
  BY DEF StreamInv, StreamTypeOK, Positions, Event
<1>2. \A i \in Positions : AllPut(i)' <=> AllPut(i)
  BY DEF AllPut, Event
<1>3. Positions' = Positions
  BY DEF Positions
<1>4. TasksPut'
  BY <1>2, <1>3 DEF StreamInv, TasksPut, Refuse, StartTasks, Poll, PollEnds, Gather, Drain,
                    Drained, SingleEnds, ClientGone, Take
<1>5. SingleSends'
  BY DEF StreamInv, SingleSends, Refuse, StartTasks, Poll, PollEnds, Gather, Drain,
         Drained, SingleEnds, ClientGone, Take, Event
<1>6. EndedWithAll'
  <2>1. CASE Drained
    BY <1>2, <1>3, <2>1 DEF Drained, StreamInv, TasksPut, EndedWithAll
  <2>2. CASE SingleEnds
    <3>1. /\ Len(list) = 1 /\ taken = Len(put) /\ events[1] = Len(put) /\ events[1] > 0
          /\ \A j \in 1 .. Len(put) : put[j] = Event(1, j)
          /\ \A i \in Positions : task[i] = "none"
      BY <2>2 DEF SingleEnds, StreamInv, SingleSends, TasksPut
    <3>2. AllPut(1)
      BY <3>1 DEF AllPut
    <3>3. Positions = {1}
      BY <3>1 DEF Positions
    <3>4. QED
      BY <1>2, <1>3, <2>2, <3>1, <3>2, <3>3 DEF SingleEnds, EndedWithAll
  <2>3. CASE gen' # "ended"
    BY <2>3 DEF EndedWithAll
  <2>4. QED
    BY <2>1, <2>2, <2>3 DEF Refuse, StartTasks, Poll, PollEnds, Gather, Drain, ClientGone
<1>7. QED
  BY <1>1, <1>4, <1>5, <1>6 DEF StreamInv

\* A task puts all its events behind those that are there.
LEMMA RunKeeps ==
  ASSUME StreamInv, NEW i \in Positions, RunGenerator(i)
  PROVE  StreamInv'
<1> DEFINE E == [pos : Positions, num : 1 .. MaxEvents]
<1>1. PICK n \in 1 .. MaxEvents : /\ events' = [events EXCEPT ![i] = n]
                                  /\ put' = put \o EventsOf(i, n)
  BY DEF RunGenerator
<1>2. /\ task[i] = "ready" /\ task' = [task EXCEPT ![i] = "done"]
      /\ completed' = completed \cup {list[i]} /\ UNCHANGED <<list, gen, taken>>
  BY DEF RunGenerator
<1>3. /\ put \in Seq(E) /\ taken \in 0 .. Len(put) /\ n \in Nat /\ n > 0
      /\ events \in [Positions -> 0 .. MaxEvents] /\ task \in [Positions -> {"none", "ready", "done"}]
  BY StreamAssumption DEF StreamInv, StreamTypeOK
<1>4. EventsOf(i, n) \in Seq(E) /\ Len(EventsOf(i, n)) = n
      /\ \A k \in 1 .. n : EventsOf(i, n)[k] = Event(i, k)
  BY <1>3, StreamAssumption DEF EventsOf, Event
<1>5. /\ put' \in Seq(E) /\ Len(put') = Len(put) + n
      /\ \A j \in 1 .. Len(put) : put'[j] = put[j]
      /\ \A k \in 1 .. n : put'[Len(put) + k] = Event(i, k)
  <2> DEFINE more == EventsOf(i, n)
  <2>1. put \in Seq(E) /\ more \in Seq(E) /\ put' = put \o more /\ Len(more) = n
    BY <1>1, <1>3, <1>4
  <2> HIDE DEF E, more
  <2>2. put' \in Seq(E) /\ Len(put') = Len(put) + Len(more)
    BY <2>1
  <2>3. \A j \in 1 .. Len(put') :
          put'[j] = IF j <= Len(put) THEN put[j] ELSE more[j - Len(put)]
    BY <2>1, <2>2
  <2>4. Len(put) \in Nat
    BY <2>1
  <2>5. \A j \in 1 .. Len(put) : put'[j] = put[j]
    BY <1>3, <2>1, <2>2, <2>3, <2>4
  <2>6. ASSUME NEW k \in 1 .. n PROVE put'[Len(put) + k] = more[k]
    <3>1. Len(put) + k \in 1 .. Len(put') /\ ~ (Len(put) + k <= Len(put))
          /\ (Len(put) + k) - Len(put) = k
      BY <1>3, <2>1, <2>2, <2>4
    <3>2. QED
      BY <2>3, <3>1
  <2>7. QED
    BY <1>4, <2>1, <2>2, <2>5, <2>6 DEF more
<1>6. StreamTypeOK'
  <2>1. events' \in [Positions -> 0 .. MaxEvents] /\ task' \in [Positions -> {"none", "ready", "done"}]
    BY <1>1, <1>2, <1>3, StreamAssumption
  <2>2. taken' \in 0 .. Len(put')
    <3>1. Len(put) \in Nat /\ taken' = taken
      BY <1>2, <1>3
    <3> HIDE DEF E
    <3>2. QED
      BY <1>3, <1>5, <3>1
  <2>3. put' \in Seq(E) /\ completed' \subseteq {list[p] : p \in Positions}
    BY <1>2, <1>5 DEF StreamInv, StreamTypeOK
  <2>4. QED
    BY <1>2, <2>1, <2>2, <2>3 DEF StreamInv, StreamTypeOK, Positions
<1>7. AllPut(i)'
  <2>1. events'[i] = n
    BY <1>1, <1>3
  <2>2. ASSUME NEW k \in 1 .. n PROVE \E j \in 1 .. Len(put') : put'[j] = Event(i, k)
    <3>1. Len(put) \in Nat
      BY <1>3
    <3> HIDE DEF E
    <3>2. Len(put) + k \in 1 .. Len(put')
      BY <1>3, <1>5, <3>1
    <3>3. put'[Len(put) + k] = Event(i, k)
      BY <1>5
    <3>4. QED
      BY <3>2, <3>3
  <2>3. QED
    BY <1>3, <2>1, <2>2 DEF AllPut, Event
<1>8. ASSUME NEW p \in Positions, p # i, AllPut(p) PROVE AllPut(p)'
  <2>1. events'[p] = events[p]
    BY <1>1, <1>3, <1>8
  <2>2. ASSUME NEW k \in 1 .. events[p] PROVE \E j \in 1 .. Len(put') : put'[j] = Event(p, k)
    <3>1. PICK j \in 1 .. Len(put) : put[j] = Event(p, k)
      BY <1>8, <2>2 DEF AllPut
    <3>2. Len(put) \in Nat
      BY <1>3
    <3>3. j \in 1 .. Len(put') /\ put'[j] = Event(p, k)
      <4>1. Len(put') = Len(put) + n /\ n \in Nat /\ \A l \in 1 .. Len(put) : put'[l] = put[l]
        BY <1>3, <1>5
      <4>2. j \in 1 .. Len(put') /\ put'[j] = put[j]
        BY <3>1, <3>2, <4>1
      <4>3. QED
        BY <3>1, <4>2
    <3>4. QED
      BY <3>3
  <2>3. QED
    BY <1>8, <2>1, <2>2 DEF AllPut, Event
<1>9. Positions' = Positions
  BY <1>2 DEF Positions
<1>10. TasksPut'
  BY <1>2, <1>3, <1>7, <1>8, <1>9 DEF StreamInv, TasksPut
<1>11. SingleSends' /\ EndedWithAll'
  BY <1>2 DEF StreamInv, TasksPut, SingleSends, EndedWithAll
<1>12. QED
  BY <1>6, <1>10, <1>11 DEF StreamInv

\* The generator of one simulator starts, and sends its next event.
LEMMA SingleKeeps ==
  ASSUME StreamInv, StartSingle \/ SendNext
  PROVE  StreamInv'
<1> DEFINE E == [pos : Positions, num : 1 .. MaxEvents]
<1>1. /\ UNCHANGED <<list, task, completed>> /\ gen' = "single" /\ gen \in {"idle", "single"}
      /\ \A i \in Positions : task[i] = "none"
  BY DEF StartSingle, SendNext, StreamInv, TasksPut
<1>2. /\ put \in Seq(E) /\ taken \in 0 .. Len(put) /\ events \in [Positions -> 0 .. MaxEvents]
  BY DEF StreamInv, StreamTypeOK
<1>3. TasksPut' /\ EndedWithAll'
  BY <1>1 DEF TasksPut, EndedWithAll, Positions
<1>4. StreamTypeOK' /\ SingleSends'
  <2>1. CASE StartSingle
    <3>1. PICK n \in 1 .. MaxEvents : events' = [events EXCEPT ![1] = n]
      BY <2>1 DEF StartSingle
    <3>2. Len(list) = 1 /\ 1 \in Positions /\ UNCHANGED <<put, taken>> /\ put = <<>> /\ taken = 0
      BY <2>1 DEF StartSingle, Positions, StreamInv, SingleSends
    <3>3. events' \in [Positions -> 0 .. MaxEvents] /\ events'[1] > 0
      BY <1>2, <3>1, <3>2, StreamAssumption
    <3>4. StreamTypeOK'
      BY <1>1, <3>2, <3>3 DEF StreamInv, StreamTypeOK, Positions, GenStates
    <3>5. SingleSends'
      BY <1>1, <3>2, <3>3 DEF SingleSends
    <3>6. QED
      BY <3>4, <3>5
  <2>2. CASE SendNext
    <3>1. /\ Len(list) = 1 /\ Len(put) < events[1] /\ taken = Len(put) /\ UNCHANGED events
          /\ put' = Append(put, Event(1, Len(put) + 1)) /\ taken' = taken + 1
          /\ \A j \in 1 .. Len(put) : put[j] = Event(1, j)
      BY <2>2 DEF SendNext, StreamInv, SingleSends
    <3>2. 1 \in Positions /\ Event(1, Len(put) + 1) \in E
      <4>1. 1 \in Positions /\ events[1] \in 0 .. MaxEvents /\ Len(put) \in Nat
        BY <1>2, <3>1 DEF Positions
      <4>2. Len(put) + 1 \in 1 .. MaxEvents
        BY <3>1, <4>1, StreamAssumption
      <4>3. QED
        BY <4>1, <4>2 DEF Event
    <3>3. /\ put' \in Seq(E) /\ Len(put') = Len(put) + 1
          /\ \A j \in 1 .. Len(put) : put'[j] = put[j]
          /\ put'[Len(put) + 1] = Event(1, Len(put) + 1)
      <4> HIDE DEF E
      <4>1. QED
        BY <1>2, <3>1, <3>2
    <3>4. StreamTypeOK'
      BY <1>1, <1>2, <3>1, <3>3 DEF StreamInv, StreamTypeOK, Positions, GenStates
    <3>5. \A j \in 1 .. Len(put') : put'[j] = Event(1, j)
      <4>1. ASSUME NEW j \in 1 .. Len(put') PROVE put'[j] = Event(1, j)
        <5>1. j \in 1 .. Len(put) \/ j = Len(put) + 1
          BY <1>2, <3>3, <4>1
        <5>2. QED
          BY <3>1, <3>3, <5>1
      <4>2. QED
        BY <4>1
    <3>6. SingleSends'
      <4>1. events[1] \in Nat /\ Len(put) \in Nat
        BY <1>2, <3>1, StreamAssumption DEF Positions
      <4>2. QED
        BY <1>1, <3>1, <3>3, <3>5, <4>1 DEF SingleSends, Event
    <3>7. QED
      BY <3>4, <3>6
  <2>3. QED
    BY <2>1, <2>2
<1>5. QED
  BY <1>3, <1>4 DEF StreamInv

LEMMA StreamInvNext == StreamInv /\ [StreamNext]_streamVars => StreamInv'
<1> SUFFICES ASSUME StreamInv, [StreamNext]_streamVars PROVE StreamInv'
  OBVIOUS
<1>1. ASSUME NEW i \in Positions, RunGenerator(i) PROVE StreamInv'
  BY <1>1, RunKeeps
<1>2. CASE StartSingle \/ SendNext
  BY <1>2, SingleKeeps
<1>3. CASE \/ Refuse \/ StartTasks \/ Poll \/ PollEnds \/ Gather \/ Drain \/ Drained
           \/ SingleEnds \/ ClientGone
  <2>1. UNCHANGED <<list, events, put, completed>> /\ gen' \in GenStates
    BY <1>3 DEF Refuse, StartTasks, Poll, PollEnds, Gather, Drain, Drained, SingleEnds,
                ClientGone, Take, GenStates, StreamInv, StreamTypeOK
  <2>2. task' \in [Positions -> {"none", "ready", "done"}]
    BY <1>3 DEF Refuse, StartTasks, Poll, PollEnds, Gather, Drain, Drained, SingleEnds,
                ClientGone, Take, StreamInv, StreamTypeOK
  <2>3. taken' \in 0 .. Len(put)
    <3>1. taken \in 0 .. Len(put) /\ Len(put) \in Nat
      BY DEF StreamInv, StreamTypeOK
    <3>2. taken' = taken \/ (taken < Len(put) /\ taken' = taken + 1)
      BY <1>3 DEF Refuse, StartTasks, Poll, PollEnds, Gather, Drain, Drained, SingleEnds,
                  ClientGone, Take
    <3>3. QED
      BY <3>1, <3>2
  <2>4. QED
    BY <1>3, <2>1, <2>2, <2>3, GeneratorKeeps
<1>4. CASE UNCHANGED streamVars
  BY <1>4 DEF streamVars, StreamInv, StreamTypeOK, TasksPut, SingleSends, EndedWithAll,
              AllPut, Event, Positions
<1>5. QED
  BY <1>1, <1>2, <1>3, <1>4 DEF StreamNext, GeneratorNext

\* A stream keeps its types: it takes no more events than were put.
THEOREM StreamTypes == StreamSpec => []StreamTypeOK
<1>1. StreamInv => StreamTypeOK
  BY DEF StreamInv
<1>2. QED
  BY <1>1, StreamInvInit, StreamInvNext, PTL DEF StreamSpec

\* The client of a stream that has ended has got every event of every simulator,
\* for any list of simulators, and also when the list names one of them twice.
THEOREM NothingIsLostHolds == StreamSpec => []NothingIsLost
<1>1. StreamInv => NothingIsLost
  BY DEF StreamInv, EndedWithAll, NothingIsLost, AllPut
<1>2. QED
  BY <1>1, StreamInvInit, StreamInvNext, PTL DEF StreamSpec

-----------------------------------------------------------------------------
(***************************************************************************)
(* The reply to a send without streaming.                                  *)
(***************************************************************************)
\* What the steps need to know of the types.
ReplyTyped ==
  /\ items \in Seq(ItemSeqs) /\ Len(items) > 0
  /\ at \in 1 .. Len(items) + 1 /\ next \in Nat
  /\ DOMAIN confirmed = Targets /\ DOMAIN results = Targets
  /\ broken \subseteq Targets

\* The items of position i that are dealt with.
Done(i) == IF i < at THEN Len(items[i]) ELSE IF i = at THEN next ELSE 0

WithinDone ==
  /\ at <= Len(items) => next <= Len(items[at])
  /\ \A i \in Targets : confirmed[i] \subseteq 1 .. Done(i)

\* An IRP message that is dealt with has its own result, unless another of its name
\* came after it.
ResultsKept ==
  protocol = "irp" /\ DistinctNames =>
    \A i \in Answered : \A j \in 1 .. Done(i) :
      /\ j \in confirmed[i] => <<items[i][j], TRUE>> \in results[i]
      /\ j \notin confirmed[i] => <<items[i][j], FALSE>> \in results[i]

ReplyInv == ReplyTyped /\ WithinDone /\ ResultsKept /\ ReplyIsTrue

LEMMA ItemsFacts ==
  ASSUME items \in Seq(ItemSeqs)
  PROVE  \A i \in Targets : /\ Len(items[i]) \in Nat /\ Len(items[i]) > 0
                            /\ DOMAIN items[i] = 1 .. Len(items[i])
<1> TAKE i \in Targets
<1>1. items[i] \in ItemSeqs
  BY DEF Targets
<1>2. PICK n \in 1 .. MaxItems : items[i] \in [1 .. n -> Names]
  BY <1>1 DEF ItemSeqs
<1>3. n \in Nat /\ Len(items[i]) = n /\ DOMAIN items[i] = 1 .. n
  BY <1>2, ReplyAssumption
<1>4. QED
  BY <1>2, <1>3

\* Nothing is confirmed before the first target.
LEMMA ReplyInvInit == ReplyInit => ReplyInv
<1> SUFFICES ASSUME ReplyInit PROVE ReplyInv
  OBVIOUS
<1>1. at = 1 /\ next = 0 /\ broken = {} /\ reply = "none" /\ confirmed = [i \in Targets |-> {}]
      /\ results = [i \in Targets |-> {}]
  BY DEF ReplyInit
<1>2. PICK n \in 1 .. MaxTargets : items \in [1 .. n -> ItemSeqs]
  BY DEF ReplyInit
<1>3. items \in Seq(ItemSeqs) /\ Len(items) = n /\ n \in Nat
  BY <1>2, ReplyAssumption
<1>4. ReplyTyped
  BY <1>1, <1>2, <1>3 DEF ReplyTyped, Targets
<1>5. \A i \in Targets : Done(i) = 0 /\ confirmed[i] = {}
  BY <1>1, <1>3 DEF Done, Targets
<1>6. WithinDone
  <2>1. 1 \in Targets
    BY <1>2, <1>3 DEF Targets
  <2>2. next <= Len(items[at])
    BY <1>1, <1>3, <2>1, ItemsFacts
  <2>3. QED
    BY <1>5, <2>2 DEF WithinDone
<1>7. ResultsKept
  BY <1>5 DEF ResultsKept, Answered
<1>8. ReplyIsTrue
  BY <1>1 DEF ReplyIsTrue
<1>9. QED
  BY <1>4, <1>6, <1>7, <1>8 DEF ReplyInv

\* A step that serves at goes n items further and may confirm some of those.
LEMMA ServeFacts ==
  ASSUME ReplyInv, Serving, UNCHANGED <<protocol, items, at, broken, reply>>,
         NEW n \in Nat, next <= n, n <= Len(items[at]), next' = n,
         NEW S, S \subseteq next + 1 .. n,
         DOMAIN confirmed' = Targets, DOMAIN results' = Targets,
         confirmed'[at] = confirmed[at] \cup S,
         \A i \in Targets \ {at} : confirmed'[i] = confirmed[i]
  PROVE  /\ ReplyTyped' /\ WithinDone' /\ ReplyIsTrue'
         /\ \A i \in Targets \ {at} : Done(i)' = Done(i)
         /\ \A i \in Targets : i = at => Done(i) = next /\ Done(i)' = n
<1>1. ReplyTyped /\ WithinDone /\ reply = "none" /\ at <= Len(items)
  BY DEF ReplyInv, Serving
<1>2. at \in Targets /\ at \in Nat /\ Len(items) \in Nat /\ Targets' = Targets
  BY <1>1 DEF ReplyTyped, Targets
<1>3. ReplyTyped'
  BY <1>1, <1>2 DEF ReplyTyped, Targets
<1>4. \A i \in Targets \ {at} : Done(i)' = Done(i)
  BY <1>1, <1>2 DEF Done, Targets
<1>5. next \in Nat
  BY <1>1 DEF ReplyTyped
<1>6. \A i \in Targets : i = at => Done(i) = next /\ Done(i)' = n
  BY <1>2 DEF Done
<1>7. WithinDone'
  <2>1. confirmed[at] \subseteq 1 .. next
    BY <1>1, <1>2, <1>6 DEF WithinDone
  <2>2. confirmed'[at] \subseteq 1 .. n
    <3> SUFFICES ASSUME NEW x \in confirmed[at] \cup S PROVE x \in 1 .. n
      OBVIOUS
    <3>1. CASE x \in confirmed[at]
      BY <1>5, <2>1, <3>1
    <3>2. CASE x \in S
      BY <1>5, <3>2
    <3>3. QED
      BY <3>1, <3>2
  <2>3. \A i \in Targets : confirmed'[i] \subseteq 1 .. Done(i)'
    BY <1>1, <1>2, <1>4, <1>6, <2>2 DEF WithinDone
  <2>4. QED
    BY <1>2, <2>3 DEF WithinDone
<1>8. ReplyIsTrue'
  BY <1>1 DEF ReplyIsTrue
<1>9. QED
  BY <1>2, <1>3, <1>4, <1>5, <1>6, <1>7, <1>8

LEMMA SubBatchStep ==
  ASSUME ReplyInv, NEW ok \in BOOLEAN, SendSubBatch(ok)
  PROVE  ReplyInv'
<1>1. ReplyTyped /\ Serving /\ protocol = "snmp" /\ next < Len(items[at])
  BY DEF SendSubBatch, ReplyInv
<1>2. /\ UNCHANGED <<protocol, items, at, results, broken, reply>>
      /\ next' = Min({next + SubBatch, Len(items[at])})
      /\ confirmed' = IF ok THEN [confirmed EXCEPT ![at] = @ \cup (next + 1 .. next')] ELSE confirmed
  BY DEF SendSubBatch
<1>3. at \in Targets /\ Len(items[at]) \in Nat /\ next \in Nat /\ SubBatch \in Nat \ {0}
  BY <1>1, ItemsFacts, ReplyAssumption DEF ReplyTyped, Serving, Targets
<1>4. next' \in Nat /\ next <= next' /\ next' <= Len(items[at])
  <2> DEFINE a == next + SubBatch
             b == Len(items[at])
             m == IF a <= b THEN a ELSE b
  <2>1. a \in Nat /\ b \in Nat /\ next <= a /\ next <= b
    BY <1>1, <1>3
  <2> HIDE DEF a, b
  <2>2. \A x \in {a, b} : (\A y \in {a, b} : x <= y) => x = m
    BY <2>1
  <2>3. m \in {a, b} /\ \A y \in {a, b} : m <= y
    BY <2>1
  <2>4. Min({a, b}) = m
    BY <2>2, <2>3 DEF Min
  <2>5. QED
    BY <1>2, <1>3, <2>1, <2>4 DEF a, b
<1> DEFINE S == IF ok THEN next + 1 .. next' ELSE {}
<1>5. /\ DOMAIN confirmed' = Targets /\ confirmed'[at] = confirmed[at] \cup S
      /\ \A i \in Targets \ {at} : confirmed'[i] = confirmed[i]
  BY <1>1, <1>2, <1>3 DEF ReplyTyped
<1>6. DOMAIN results' = Targets
  BY <1>1, <1>2 DEF ReplyTyped
<1>7. ReplyTyped' /\ WithinDone' /\ ReplyIsTrue'
  <2> DEFINE n == next'
  <2>1. S \subseteq next + 1 .. n /\ n \in Nat /\ next <= n /\ n <= Len(items[at])
    BY <1>4
  <2> HIDE DEF S
  <2>2. QED
    BY <1>1, <1>2, <1>5, <1>6, <2>1, ServeFacts
<1>8. ResultsKept'
  BY <1>1, <1>2 DEF ResultsKept
<1>9. QED
  BY <1>7, <1>8 DEF ReplyInv

LEMMA IrpMessageStep ==
  ASSUME ReplyInv, NEW ok \in BOOLEAN, SendIrpMessage(ok)
  PROVE  ReplyInv'
<1> DEFINE n == next + 1
           name == items[at][n]
           S == IF ok THEN {n} ELSE {}
<1>1. ReplyTyped /\ Serving /\ protocol = "irp" /\ next < Len(items[at])
  BY DEF SendIrpMessage, ReplyInv
<1>2. /\ UNCHANGED <<protocol, items, at, broken, reply>> /\ next' = n
      /\ results' = [results EXCEPT ![at] = {r \in @ : r[1] # name} \cup {<<name, ok>>}]
      /\ confirmed' = IF ok THEN [confirmed EXCEPT ![at] = @ \cup {n}] ELSE confirmed
  BY DEF SendIrpMessage
<1>3. at \in Targets /\ Len(items[at]) \in Nat /\ next \in Nat /\ DOMAIN items[at] = 1 .. Len(items[at])
  BY <1>1, ItemsFacts DEF ReplyTyped, Serving, Targets
<1>4. /\ DOMAIN confirmed' = Targets /\ confirmed'[at] = confirmed[at] \cup S
      /\ \A i \in Targets \ {at} : confirmed'[i] = confirmed[i]
  BY <1>1, <1>2, <1>3 DEF ReplyTyped
<1>5. S \subseteq next + 1 .. n /\ n \in Nat /\ next <= n /\ n <= Len(items[at])
  BY <1>1, <1>3
<1>6. DOMAIN results' = Targets
  BY <1>1, <1>2 DEF ReplyTyped
<1>7. /\ ReplyTyped' /\ WithinDone' /\ ReplyIsTrue'
      /\ \A i \in Targets \ {at} : Done(i)' = Done(i)
      /\ \A i \in Targets : i = at => Done(i) = next /\ Done(i)' = n
  <2> HIDE DEF S, n
  <2>1. QED
    BY <1>1, <1>2, <1>4, <1>5, <1>6, ServeFacts
<1>8. ResultsKept'
  <2> SUFFICES ASSUME DistinctNames', NEW i \in Answered', NEW j \in 1 .. Done(i)'
               PROVE  /\ j \in confirmed'[i] => <<items[i][j], TRUE>> \in results'[i]
                      /\ j \notin confirmed'[i] => <<items[i][j], FALSE>> \in results'[i]
    BY <1>2 DEF ResultsKept
  <2>1. DistinctNames /\ i \in Answered /\ i \in Targets
    BY <1>2 DEF DistinctNames, Answered, Targets
  <2>2. \A k \in 1 .. Done(i) :
          /\ k \in confirmed[i] => <<items[i][k], TRUE>> \in results[i]
          /\ k \notin confirmed[i] => <<items[i][k], FALSE>> \in results[i]
    BY <1>1, <2>1 DEF ReplyInv, ResultsKept
  <2>3. CASE i # at
    <3>1. results'[i] = results[i] /\ j \in 1 .. Done(i) /\ confirmed'[i] = confirmed[i]
      BY <1>1, <1>2, <1>4, <1>7, <2>1, <2>3 DEF ReplyTyped
    <3>2. QED
      BY <2>2, <3>1
  <2>4. CASE i = at
    <3>1. results'[at] = {r \in results[at] : r[1] # name} \cup {<<name, ok>>}
      BY <1>1, <1>2, <1>3 DEF ReplyTyped
    <3>2. confirmed[at] \subseteq 1 .. next
      BY <1>3, <1>7 DEF ReplyInv, WithinDone
    <3>3. CASE j = n
      <4>1. j \in confirmed'[i] <=> ok = TRUE
        BY <1>3, <1>4, <2>4, <3>2, <3>3
      <4>2. <<items[i][j], ok>> \in results'[i]
        BY <2>4, <3>1, <3>3
      <4>3. QED
        BY <4>1, <4>2
    <3>4. CASE j # n
      <4>1. j \in 1 .. next /\ j \in DOMAIN items[at] /\ n \in DOMAIN items[at]
        <5>1. j \in 1 .. n /\ Len(items[at]) > next
          BY <1>1, <1>3, <1>7, <2>1, <2>4
        <5>2. QED
          BY <1>3, <3>4, <5>1
      <4>2. items[at][j] # name
        BY <1>3, <2>1, <3>4, <4>1 DEF DistinctNames
      <4>3. \A b : <<items[at][j], b>> \in results[at] => <<items[at][j], b>> \in results'[at]
        BY <3>1, <4>2
      <4>4. j \in confirmed'[i] <=> j \in confirmed[i]
        <5>1. j \notin S
          BY <3>4
        <5> HIDE DEF S
        <5>2. QED
          BY <1>4, <2>4, <5>1
      <4>5. j \in 1 .. Done(i)
        BY <1>7, <2>1, <2>4, <4>1
      <4>6. /\ j \in confirmed[i] => <<items[i][j], TRUE>> \in results[i]
            /\ j \notin confirmed[i] => <<items[i][j], FALSE>> \in results[i]
        BY <2>2, <4>5
      <4>7. QED
        BY <2>4, <4>3, <4>4, <4>6
    <3>5. QED
      BY <3>3, <3>4
  <2>5. QED
    BY <2>3, <2>4
<1>9. QED
  BY <1>7, <1>8 DEF ReplyInv

\* Going to the next position, with this one done or given up.
LEMMA TurnStep ==
  ASSUME ReplyInv, Break \/ NextTarget
  PROVE  ReplyInv'
<1>1. ReplyTyped /\ WithinDone /\ reply = "none" /\ at <= Len(items)
  BY DEF ReplyInv, Break, NextTarget, Serving
<1>2. /\ UNCHANGED <<protocol, items, confirmed, results, reply>>
      /\ at' = at + 1 /\ next' = 0
      /\ \/ broken' = broken \cup {at}
         \/ broken' = broken /\ next = Len(items[at])
  BY DEF Break, NextTarget
<1>3. at \in Targets /\ at \in Nat /\ Len(items) \in Nat /\ Targets' = Targets /\ next \in Nat
  BY <1>1, <1>2 DEF ReplyTyped, Targets
<1>4. ReplyTyped'
  <2>1. broken' \subseteq Targets
    BY <1>1, <1>2, <1>3 DEF ReplyTyped
  <2>2. at' \in 1 .. Len(items) + 1 /\ next' \in Nat
    BY <1>1, <1>2, <1>3
  <2>3. QED
    BY <1>1, <1>2, <1>3, <2>1, <2>2 DEF ReplyTyped
<1>5. \A i \in Targets \ {at} : Done(i)' = Done(i)
  <2> TAKE i \in Targets \ {at}
  <2>1. i \in Nat /\ i # at
    BY <1>3 DEF Targets
  <2>2. (i < at' <=> i < at) /\ (i = at' => 0 = Done(i))
    BY <1>2, <1>3, <2>1 DEF Done
  <2>3. QED
    BY <1>2, <2>1, <2>2 DEF Done
<1>6. /\ \A i \in Targets : i = at => Done(i) = next /\ Done(i)' = Len(items[i])
      /\ next <= Len(items[at])
  <2>1. at < at' /\ ~ at < at
    BY <1>2, <1>3
  <2>2. \A i \in Targets : i = at => Done(i) = next /\ Done(i)' = Len(items[i])
    BY <1>2, <2>1 DEF Done
  <2>3. QED
    BY <1>1, <2>2 DEF WithinDone
<1>7. WithinDone'
  <2>1. \A i \in Targets : confirmed[i] \subseteq 1 .. Done(i)'
    <3> TAKE i \in Targets
    <3>1. CASE i # at
      BY <1>1, <1>5, <3>1 DEF WithinDone
    <3>2. CASE i = at
      <4>1. Len(items[i]) \in Nat /\ next <= Len(items[i])
        BY <1>1, <1>6, <3>2, ItemsFacts DEF ReplyTyped
      <4>2. confirmed[i] \subseteq 1 .. next
        BY <1>1, <1>6, <3>2 DEF WithinDone
      <4>3. confirmed[i] \subseteq 1 .. Len(items[i])
        BY <1>3, <4>1, <4>2
      <4>4. QED
        BY <1>6, <3>2, <4>3
    <3>3. QED
      BY <3>1, <3>2
  <2>2. at' <= Len(items) => next' <= Len(items[at'])
    <3>1. at' <= Len(items) => at' \in Targets
      BY <1>2, <1>3 DEF Targets
    <3>2. QED
      BY <1>1, <1>2, <3>1, ItemsFacts DEF ReplyTyped
  <2>3. QED
    BY <1>2, <1>3, <2>1, <2>2 DEF WithinDone
<1>8. ResultsKept'
  <2> SUFFICES ASSUME protocol = "irp", DistinctNames, NEW i \in Answered', NEW j \in 1 .. Done(i)'
               PROVE  /\ j \in confirmed[i] => <<items[i][j], TRUE>> \in results[i]
                      /\ j \notin confirmed[i] => <<items[i][j], FALSE>> \in results[i]
    <3>1. DistinctNames' = DistinctNames
      BY <1>2 DEF DistinctNames, Targets
    <3>2. QED
      BY <1>2, <3>1 DEF ResultsKept
  <2>1. i \in Answered /\ i \in Targets /\ (i = at => broken' = broken /\ next = Len(items[at]))
    BY <1>2, <1>3 DEF Answered
  <2>3. j \in 1 .. Done(i)
    BY <1>5, <1>6, <2>1
  <2>2. QED
    BY <2>1, <2>3 DEF ReplyInv, ResultsKept
<1>9. ReplyIsTrue'
  BY <1>1, <1>2 DEF ReplyIsTrue
<1>10. QED
  BY <1>4, <1>7, <1>8, <1>9 DEF ReplyInv

-----------------------------------------------------------------------------
\* The counts of an SNMP reply: none confirmed is nothing confirmed, and none failed
\* is everything confirmed.
LEMMA CountFacts ==
  ASSUME ReplyInv, at = Len(items) + 1
  PROVE  /\ TrapsOk = 0 => \A i \in Answered : confirmed[i] = {}
         /\ TrapsFailed = 0 => \A i \in Targets : confirmed[i] = DOMAIN items[i]
<1> DEFINE f == [i \in Answered |-> Cardinality(confirmed[i])]
           h == [i \in Targets |-> IF i \in broken THEN Len(items[1])
                                   ELSE Len(items[i]) - Cardinality(confirmed[i])]
<1>1. ReplyTyped /\ WithinDone /\ Len(items) \in Nat
  BY DEF ReplyInv, ReplyTyped
<1>2. IsFiniteSet(Targets) /\ IsFiniteSet(Answered)
  <2>1. IsFiniteSet(Targets)
    BY <1>1, FS_Interval DEF Targets
  <2>2. Answered \in SUBSET Targets
    BY DEF Answered
  <2>3. QED
    BY <2>1, <2>2, FS_Subset
<1>3. ASSUME NEW i \in Targets
      PROVE  /\ IsFiniteSet(confirmed[i]) /\ Cardinality(confirmed[i]) \in Nat
             /\ Len(items[i]) \in Nat /\ Len(items[i]) > 0
             /\ Len(items[i]) - Cardinality(confirmed[i]) \in Nat
             /\ Len(items[i]) - Cardinality(confirmed[i]) = 0 => confirmed[i] = DOMAIN items[i]
  <2> DEFINE D == 1 .. Len(items[i])
             C == confirmed[i]
             l == Len(items[i])
  <2>1. l \in Nat /\ l > 0 /\ DOMAIN items[i] = D
    BY <1>1, ItemsFacts DEF ReplyTyped
  <2>2. C \in SUBSET D
    <3>1. i < at
      BY <1>1 DEF Targets
    <3>2. QED
      <4>1. confirmed[i] \subseteq 1 .. Done(i) /\ Done(i) = Len(items[i])
        BY <1>1, <3>1 DEF WithinDone, Done
      <4>2. QED
        BY <4>1
  <2>3. IsFiniteSet(D) /\ Cardinality(D) = l
    <3> HIDE DEF l
    <3>0. l \in Int /\ 1 \in Int
      BY <2>1
    <3>1. IsFiniteSet(1 .. l) /\ Cardinality(1 .. l) = IF 1 > l THEN 0 ELSE l - 1 + 1
      BY <3>0, FS_Interval
    <3>2. QED
      BY <2>1, <3>1 DEF l
  <2> HIDE DEF D, C
  <2>4. IsFiniteSet(C) /\ Cardinality(C) <= Cardinality(D) /\ (Cardinality(D) = Cardinality(C) => D = C)
    BY <2>2, <2>3, FS_Subset
  <2>5. Cardinality(C) \in Nat
    BY <2>4, FS_CardinalityType
  <2> HIDE DEF l
  <2>6. l - Cardinality(C) \in Nat /\ (l - Cardinality(C) = 0 => C = D)
    BY <2>1, <2>3, <2>4, <2>5
  <2>7. QED
    BY <2>1, <2>4, <2>5, <2>6 DEF C, l
<1>4. 1 \in Targets
  BY <1>1 DEF Targets, ReplyTyped
<1>5. NatsOn(f, Answered) /\ NatsOn(h, Targets)
  BY <1>3, <1>4 DEF NatsOn, Answered
<1>6. TrapsOk = SumFunctionOnSet(f, Answered) /\ TrapsFailed = SumFunctionOnSet(h, Targets)
  BY DEF TrapsOk, TrapsFailed, SumFunction
<1>7. /\ \A i \in Answered : f[i] <= TrapsOk
      /\ \A i \in Targets : h[i] <= TrapsFailed
  <2> HIDE DEF f, h
  <2>1. QED
    BY <1>2, <1>5, <1>6, SumOfNats
<1>8. ASSUME TrapsOk = 0, NEW i \in Answered PROVE confirmed[i] = {}
  <2>1. i \in Targets /\ Cardinality(confirmed[i]) <= 0
    BY <1>7, <1>8 DEF Answered
  <2>2. Cardinality(confirmed[i]) = 0
    BY <1>3, <2>1
  <2>3. QED
    BY <1>3, <2>1, <2>2, FS_EmptySet
<1>9. ASSUME TrapsFailed = 0, NEW i \in Targets PROVE confirmed[i] = DOMAIN items[i]
  <2>1. h[i] <= 0
    BY <1>7, <1>9
  <2>2. i \notin broken
    <3> SUFFICES ASSUME i \in broken PROVE FALSE
      OBVIOUS
    <3>1. Len(items[1]) <= 0
      BY <2>1
    <3>2. QED
      BY <1>3, <1>4, <3>1
  <2>3. Len(items[i]) - Cardinality(confirmed[i]) <= 0
    BY <2>1, <2>2
  <2>4. Len(items[i]) - Cardinality(confirmed[i]) = 0
    BY <1>3, <2>3
  <2>5. QED
    BY <1>3, <2>4
<1>10. QED
  BY <1>8, <1>9

\* The outcomes of an IRP reply: no success is nothing confirmed, and no failure is
\* everything confirmed.
LEMMA OutcomeFacts ==
  ASSUME ReplyInv, at = Len(items) + 1, protocol = "irp", DistinctNames
  PROVE  /\ TRUE \notin Outcomes => \A i \in Answered : confirmed[i] = {}
         /\ FALSE \notin Outcomes => \A i \in Answered : confirmed[i] = DOMAIN items[i]
<1>1. ReplyTyped /\ WithinDone /\ ResultsKept /\ Len(items) \in Nat
  BY DEF ReplyInv, ReplyTyped
<1>2. ASSUME NEW i \in Answered
      PROVE  /\ confirmed[i] \subseteq DOMAIN items[i]
             /\ \A j \in DOMAIN items[i] :
                  /\ j \in confirmed[i] => <<items[i][j], TRUE>> \in results[i]
                  /\ j \notin confirmed[i] => <<items[i][j], FALSE>> \in results[i]
  <2>1. i \in Targets /\ i < at
    BY <1>1 DEF Answered, Targets
  <2>2. Done(i) = Len(items[i]) /\ DOMAIN items[i] = 1 .. Done(i)
    BY <1>1, <2>1, ItemsFacts DEF Done, ReplyTyped
  <2>3. QED
    BY <1>1, <2>1, <2>2 DEF WithinDone, ResultsKept
<1>3. \A i \in Answered : \A name, b : <<name, b>> \in results[i] => b \in Outcomes
  BY DEF Outcomes
<1>4. ASSUME TRUE \notin Outcomes, NEW i \in Answered PROVE confirmed[i] = {}
  BY <1>2, <1>3, <1>4
<1>5. ASSUME FALSE \notin Outcomes, NEW i \in Answered PROVE confirmed[i] = DOMAIN items[i]
  BY <1>2, <1>3, <1>5
<1>6. QED
  BY <1>4, <1>5

LEMMA AnswerStep ==
  ASSUME ReplyInv, Answer, protocol \in {"snmp", "irp"}
  PROVE  ReplyInv'
<1>1. /\ UNCHANGED <<protocol, items, at, next, confirmed, results, broken>>
      /\ at = Len(items) + 1
      /\ reply' = IF protocol = "snmp" THEN SnmpReply ELSE IrpReply
  BY DEF Answer
<1>2. ReplyTyped' /\ WithinDone' /\ ResultsKept'
  BY <1>1 DEF ReplyInv, ReplyTyped, WithinDone, ResultsKept, Targets, Done, Answered, DistinctNames
<1>3. ReplyIsTrue'
  <2> SUFFICES ASSUME protocol = "snmp" \/ DistinctNames
               PROVE  /\ reply' = "success" => \A i \in Targets : confirmed[i] = DOMAIN items[i]
                      /\ reply' = "failed" => \A i \in Answered : confirmed[i] = {}
    BY <1>1 DEF ReplyIsTrue, DistinctNames, Targets, Answered
  <2>1. CASE protocol = "snmp"
    <3>1. /\ reply' = "success" => TrapsFailed = 0
          /\ reply' = "failed" => TrapsOk = 0
      BY <1>1, <2>1 DEF SnmpReply
    <3>2. QED
      BY <1>1, <3>1, CountFacts
  <2>2. CASE protocol = "irp" /\ DistinctNames
    <3>1. /\ reply' = "success" => broken = {} /\ FALSE \notin Outcomes
          /\ reply' = "failed" => TRUE \notin Outcomes
      BY <1>1, <2>2 DEF IrpReply
    <3>2. broken = {} => Answered = Targets
      BY DEF Answered
    <3>3. QED
      BY <1>1, <2>2, <3>1, <3>2, OutcomeFacts
  <2>3. QED
    BY <2>1, <2>2
<1>4. QED
  BY <1>2, <1>3 DEF ReplyInv

LEMMA ReplyInvNext ==
  ASSUME ReplyInv, protocol \in {"snmp", "irp"}, [ReplyNext]_replyVars
  PROVE  ReplyInv' /\ protocol' = protocol
<1>1. protocol' = protocol
  BY DEF ReplyNext, SendSubBatch, SendIrpMessage, Break, NextTarget, Answer, replyVars
<1>2. ASSUME NEW ok \in BOOLEAN, SendSubBatch(ok) \/ SendIrpMessage(ok) PROVE ReplyInv'
  <2>1. CASE SendSubBatch(ok)
    BY <2>1, SubBatchStep
  <2>2. CASE SendIrpMessage(ok)
    BY <2>2, IrpMessageStep
  <2>3. QED
    BY <1>2, <2>1, <2>2
<1>3. ASSUME Break \/ NextTarget PROVE ReplyInv'
  BY <1>3, TurnStep
<1>4. ASSUME Answer PROVE ReplyInv'
  BY <1>4, AnswerStep
<1>5. ASSUME UNCHANGED replyVars PROVE ReplyInv'
  BY <1>5 DEF replyVars, ReplyInv, ReplyTyped, WithinDone, ResultsKept, ReplyIsTrue, Targets,
              Done, Answered, DistinctNames
<1>6. QED
  BY <1>1, <1>2, <1>3, <1>4, <1>5 DEF ReplyNext

\* A send without streaming tells its user the truth: all sent, or none.
THEOREM ReplyIsTrueHolds == ReplySpec => []ReplyIsTrue
<1> DEFINE Inv == ReplyInv /\ protocol \in {"snmp", "irp"}
<1>1. ReplyInit => Inv
  BY ReplyInvInit DEF ReplyInit
<1>2. Inv /\ [ReplyNext]_replyVars => Inv'
  BY ReplyInvNext
<1>3. Inv => ReplyIsTrue
  BY DEF ReplyInv
<1>4. QED
  BY <1>1, <1>2, <1>3, PTL DEF ReplySpec

-----------------------------------------------------------------------------
(***************************************************************************)
(* The tests of messages.                                                  *)
(***************************************************************************)
Own(i) == {[of |-> i, headers |-> FALSE]}

\* Threads of tests to come have done nothing, and as long as no join has given
\* up, those of tests that are over have ended.
ThreadsEnded ==
  /\ \A i \in TestIds : i > tested => /\ sender[i] = "none" /\ listener[i] = "none"
                                      /\ captured[i] = {}
  /\ ~ overdue => \A i \in TestIds :
       /\ i < tested \/ (i = tested /\ place \in {"idle", "parsing"}) => sender[i] # "asleep"
       /\ i < tested \/ (i = tested /\ place # "listening") => listener[i] \notin {"binding", "bound"}

\* Each listener has only the message of its test, and the file has it too.
FileIsOwn ==
  /\ place # "idle" => tested \in TestIds
  /\ ~ overdue => /\ \A i \in TestIds : captured[i] \subseteq Own(i)
                  /\ place \in {"sending", "parsing"} => pcap = captured[tested]
                  /\ place = "parsing" => captured[tested] # {}

TestInv == TestTypeOK /\ ThreadsEnded /\ FileIsOwn /\ TestsItsMessage

\* No test has begun.
LEMMA TestInvInit == TestInit => TestInv
<1> SUFFICES ASSUME TestInit PROVE TestInv
  OBVIOUS
<1> USE DEF TestInit
<1>1. TestTypeOK
  <2>1. 0 \in 0 .. MaxTests
    BY TestAssumption
  <2>2. QED
    BY <2>1 DEF TestTypeOK
<1>2. ThreadsEnded
  BY DEF ThreadsEnded, TestIds
<1>3. FileIsOwn /\ TestsItsMessage
  BY DEF FileIsOwn, TestsItsMessage
<1>4. QED
  BY <1>1, <1>2, <1>3 DEF TestInv

\* The handler's steps.
LEMMA BeginKeeps == TestInv /\ BeginTest => TestInv'
<1> SUFFICES ASSUME TestInv, BeginTest PROVE TestInv'
  OBVIOUS
<1> USE TestAssumption DEF TestInv, BeginTest
<1>1. tested + 1 \in TestIds /\ tested \in Nat
  BY DEF TestTypeOK, TestIds
<1>2. TestTypeOK'
  BY <1>1 DEF TestTypeOK, TestIds
<1>3. ThreadsEnded'
  BY <1>1 DEF TestTypeOK, ThreadsEnded, TestIds
<1>4. FileIsOwn'
  BY <1>1 DEF TestTypeOK, FileIsOwn, ThreadsEnded, TestIds
<1>5. TestsItsMessage'
  BY DEF TestsItsMessage
<1>6. QED
  BY <1>2, <1>3, <1>4, <1>5

LEMMA JoinsKeep == TestInv /\ (JoinListener \/ JoinSender) => TestInv'
<1> SUFFICES ASSUME TestInv, JoinListener \/ JoinSender PROVE TestInv'
  OBVIOUS
<1>1. tested \in TestIds
  BY DEF TestInv, FileIsOwn, JoinListener, JoinSender
<1>2. CASE JoinListener
  BY <1>1, <1>2 DEF JoinListener, TestInv, TestTypeOK, ThreadsEnded, FileIsOwn, TestsItsMessage,
                    ThreadsUnchanged, TestIds
<1>3. CASE JoinSender
  <2>1. TestTypeOK'
    BY <1>1, <1>3 DEF JoinSender, CountPackets, Outcome, TestInv, TestTypeOK, ThreadsUnchanged
  <2>2. ThreadsEnded' /\ FileIsOwn'
    BY <1>1, <1>3 DEF JoinSender, CountPackets, TestInv, TestTypeOK, ThreadsEnded, FileIsOwn,
                      ThreadsUnchanged, TestIds
  <2>3. TestsItsMessage'
    <3>1. \A i \in TestIds : outcome'[i].status = "completed" => outcome'[i] = outcome[i]
      BY <1>1, <1>3 DEF JoinSender, CountPackets, Outcome, TestInv, TestTypeOK
    <3>2. overdue => overdue'
      BY <1>3 DEF JoinSender
    <3>3. QED
      BY <3>1, <3>2 DEF TestInv, TestsItsMessage
  <2>4. QED
    BY <2>1, <2>2, <2>3 DEF TestInv
<1>4. QED
  BY <1>2, <1>3

\* What the parser gets of a file with the test's own message, and of any file.
LEMMA ExtractedOwn ==
  ASSUME NEW i
  PROVE  Extracted(Own(i)) = {[of |-> i, headers |-> TRUE]}
<1> DEFINE q == [of |-> i, headers |-> FALSE]
<1>1. q.of = i
  OBVIOUS
<1>2. Own(i) = {q}
  BY DEF Own
<1> HIDE DEF q
<1>3. Extracted({q}) = {[of |-> q.of, headers |-> TRUE]}
  BY Zenon DEF Extracted
<1>4. QED
  BY <1>1, <1>2, <1>3

LEMMA ExtractedType ==
  ASSUME NEW ps \in SUBSET Packets
  PROVE  Extracted(ps) \subseteq Packets
<1>1. \A p \in Packets : [of |-> p.of, headers |-> TRUE] \in Packets
  BY DEF Packets
<1>2. QED
  BY <1>1 DEF Extracted

LEMMA ParseKeeps == TestInv /\ Parse => TestInv'
<1> SUFFICES ASSUME TestInv, Parse PROVE TestInv'
  OBVIOUS
<1> USE DEF TestInv, Parse, Verdicts, ThreadsUnchanged
<1>1. tested \in TestIds
  BY DEF FileIsOwn
<1>2. Extracted(pcap) \subseteq Packets
  BY ExtractedType DEF TestTypeOK
<1>3. ~ overdue => Extracted(pcap) = {[of |-> tested, headers |-> TRUE]}
  <2>1. ~ overdue => pcap = Own(tested)
    BY <1>1 DEF FileIsOwn, Own
  <2>2. QED
    BY <2>1, ExtractedOwn
<1>4. TestTypeOK'
  BY <1>1, <1>2 DEF Outcome, TestTypeOK
<1>5. ThreadsEnded' /\ FileIsOwn'
  BY <1>1 DEF TestTypeOK, ThreadsEnded, FileIsOwn, TestIds
<1>6. TestsItsMessage'
  <2>1. \A i \in TestIds : i # tested => outcome'[i] = outcome[i]
    BY DEF Outcome, TestTypeOK
  <2>2. outcome'[tested].status = "completed" => outcome'[tested].parsed = Extracted(pcap)
    BY <1>1 DEF Outcome, TestTypeOK
  <2>3. QED
    BY <1>3, <2>1, <2>2 DEF TestsItsMessage
<1>7. QED
  BY <1>4, <1>5, <1>6

\* The threads' steps: a message that is caught is caught by its own test, since
\* no other sender is asleep and no other listener bound.
LEMMA ThreadsKeep ==
  ASSUME TestInv, NEW i \in TestIds,
         Bind(i) \/ ListenerTimesOut(i) \/ SendFails(i) \/ SendTestMessage(i)
  PROVE  TestInv'
<1> USE DEF TestInv, HandlerUnchanged
<1>1. CASE Bind(i) \/ ListenerTimesOut(i) \/ SendFails(i)
  <2>1. TestTypeOK'
    BY <1>1 DEF Bind, ListenerTimesOut, SendFails, TestTypeOK
  <2>2. ThreadsEnded'
    BY <1>1 DEF Bind, ListenerTimesOut, SendFails, TestTypeOK, ThreadsEnded, TestIds
  <2>3. FileIsOwn' /\ TestsItsMessage'
    BY <1>1 DEF Bind, ListenerTimesOut, SendFails, FileIsOwn, TestsItsMessage
  <2>4. QED
    BY <2>1, <2>2, <2>3
<1>2. CASE SendTestMessage(i)
  <2> USE <1>2 DEF SendTestMessage
  <2>1. CASE UNCHANGED <<listener, captured>>
    BY <2>1 DEF TestTypeOK, ThreadsEnded, FileIsOwn, TestsItsMessage, TestIds
  <2>2. ASSUME NEW j \in TestIds, listener[j] = "bound",
               captured' = [captured EXCEPT ![j] = @ \cup {[of |-> i, headers |-> FALSE]}],
               listener' = [listener EXCEPT ![j] = "closed"]
        PROVE  TestInv'
    <3>1. i <= tested /\ j <= tested
      BY <2>2 DEF ThreadsEnded, TestTypeOK, TestIds
    <3>2. ~ overdue => i = tested /\ j = tested /\ place = "listening"
      BY <2>2, <3>1 DEF ThreadsEnded, TestTypeOK, TestIds
    <3>3. TestTypeOK'
      <4>1. [of |-> i, headers |-> FALSE] \in Packets
        BY DEF Packets
      <4>2. QED
        BY <2>2, <4>1 DEF TestTypeOK
    <3>4. ThreadsEnded'
      BY <2>2, <3>1 DEF ThreadsEnded, TestTypeOK, TestIds
    <3>5. FileIsOwn'
      BY <2>2, <3>2 DEF FileIsOwn, Own, TestTypeOK
    <3>6. TestsItsMessage'
      BY DEF TestsItsMessage
    <3>7. QED
      BY <3>3, <3>4, <3>5, <3>6
  <2>3. QED
    BY <2>1, <2>2
<1>3. QED
  BY <1>1, <1>2

LEMMA TestInvNext == TestInv /\ [TestNext]_testVars => TestInv'
<1> SUFFICES ASSUME TestInv, [TestNext]_testVars PROVE TestInv'
  OBVIOUS
<1>1. CASE UNCHANGED testVars
  BY <1>1 DEF testVars, TestInv, TestTypeOK, ThreadsEnded, FileIsOwn, TestsItsMessage
<1>2. QED
  BY <1>1, BeginKeeps, JoinsKeep, ParseKeeps, ThreadsKeep DEF TestNext

\* Unless a join gave up on a thread, a completed test has parsed its own
\* message and no other, for any number of tests.
THEOREM TestsItsMessageHolds == TestSpec => []TestsItsMessage
<1>1. TestInv => TestsItsMessage
  BY DEF TestInv
<1>2. QED
  BY <1>1, TestInvInit, TestInvNext, PTL DEF TestSpec

-----------------------------------------------------------------------------
(***************************************************************************)
(* The polling configuration.                                              *)
(***************************************************************************)
Position(i) == i \in 1 .. Len(request.list)

\* Where the request is in its list, and what is known of the elements read.
Walking ==
  /\ stage \in {"start", "file", "write"} => target \in {0, 1} /\ loaded = {}
  /\ stage \in {"read", "delete", "create"} => target <= Len(request.list)
  /\ stage = "summary" => target <= Len(request.list) + 1
  /\ \A i \in loaded : Position(i) /\ i < target
  /\ stage \in {"delete", "create"} => element # Absent
  /\ update.pc # "idle" => update.element # Absent
  /\ update.pc = "create" => update.dev \in touched

\* What a reply says of the list and of the file.
Replied ==
  /\ stage # "end" => answer = "none"
  /\ answer = "all" => loaded = DOMAIN request.list
  /\ request.write /\ (stage \in {"read", "delete", "create", "summary"} \/ answer = "all")
       => file = "ours"

Polled(d) == device[d] # Absent /\ device[d].soap \in {"none", "ours"}

\* The device of a loaded position is there; or it is being loaded again, for a
\* list may name a simulator twice, or a later load of it has failed.
LoadFailed(i, d) == Position(i) /\ i < target /\ i \notin loaded /\ request.list[i] = d
Served ==
  \A i \in loaded : \/ request.list[i] \in touched
                    \/ Polled(request.list[i])
                    \/ stage = "create" /\ Target = request.list[i]
                    \/ \E k \in DOMAIN request.list : LoadFailed(k, request.list[i])

PollInv == PollTypeOK /\ Walking /\ Replied /\ Served

\* The list of a request is a sequence of devices.
LEMMA ListFacts ==
  ASSUME request \in Requests
  PROVE  /\ request.list \in Seq(Devices) /\ Len(request.list) \in Nat
         /\ Len(request.list) >= 1 /\ Len(request.list) <= Cardinality(Devices)
         /\ DOMAIN request.list = 1 .. Len(request.list)
         /\ \A i : Position(i) => request.list[i] \in Devices
         /\ Cardinality(Devices) \in Nat
<1> DEFINE l == request.list
<1>1. Cardinality(Devices) \in Nat
  BY PollAssumption, FS_CardinalityType
<1>2. PICK n \in 1 .. Cardinality(Devices) : l \in [1 .. n -> Devices]
  BY DEF Requests
<1>3. n \in Nat
  BY <1>1, <1>2
<1>4. l \in Seq(Devices)
  BY <1>2, <1>3, SeqDef
<1>5. DOMAIN l = 1 .. n /\ DOMAIN l = 1 .. Len(l) /\ Len(l) \in Nat
  BY <1>2, <1>4, LenProperties
<1>6. Len(l) = n
  BY <1>3, <1>5
<1>7. QED
  BY <1>1, <1>2, <1>3, <1>4, <1>5, <1>6 DEF Position

LEMMA PollInvInit == PollInit => PollInv
<1> SUFFICES ASSUME PollInit PROVE PollInv
  OBVIOUS
<1> USE DEF PollInit
<1>1. Cardinality(Devices) \in Nat
  BY ListFacts
<1>2. /\ [soap |-> "none", fields |-> "old"] \in Elements
      /\ [soap |-> "other", fields |-> "old"] \in Elements /\ Absent \in Elements
  BY DEF Elements
<1>3. PollTypeOK
  BY <1>1, <1>2 DEF PollTypeOK
<1>4. Walking /\ Replied /\ Served
  BY DEF Walking, Replied, Served
<1>5. QED
  BY <1>3, <1>4 DEF PollInv

\* The steps before the first load.
LEMMA FileKeeps ==
  ASSUME PollInv, NEW ok \in BOOLEAN,
         GenerateFails \/ Generate \/ CheckFile(ok) \/ WriteFile(ok)
  PROVE  PollInv'
<1> USE DEF PollInv
<1>1. /\ Len(request.list) \in Nat /\ Len(request.list) >= 1 /\ Cardinality(Devices) \in Nat
      /\ Len(request.list) <= Cardinality(Devices)
  BY ListFacts DEF PollTypeOK
<1>2. /\ stage \in {"start", "file", "write"} /\ loaded = {} /\ target \in {0, 1}
      /\ UNCHANGED <<request, element, loaded, device, update, touched>>
  BY DEF GenerateFails, Generate, CheckFile, WriteFile, Quiet, Walking
<1>3. PollTypeOK'
  BY <1>1, <1>2 DEF PollTypeOK, GenerateFails, Generate, CheckFile, WriteFile, AnswerWith
<1>4. Walking'
  BY <1>1, <1>2 DEF Walking, Position, GenerateFails, Generate, CheckFile, WriteFile, AnswerWith
<1>5. Replied'
  BY <1>1, <1>2 DEF PollTypeOK, Requests, Replied, GenerateFails, Generate, CheckFile, WriteFile,
                    AnswerWith
<1>6. Served'
  BY <1>2 DEF Served
<1>7. QED
  BY <1>3, <1>4, <1>5, <1>6

\* The position being loaded, and its device.
LEMMA TargetFacts ==
  ASSUME PollInv, stage \in {"read", "delete", "create"}
  PROVE  /\ target \in 0 .. Len(request.list) /\ Len(request.list) \in Nat
         /\ Len(request.list) >= 1 /\ Len(request.list) <= Cardinality(Devices)
         /\ Cardinality(Devices) \in Nat
         /\ DOMAIN request.list = 1 .. Len(request.list)
         /\ Target \in Devices /\ answer = "none" /\ target \notin loaded
         /\ target = 0 \/ ~ Several => loaded = {}
         /\ target # 0 => Position(target) /\ request.list[target] = Target
<1>1. /\ request.list \in Seq(Devices) /\ Len(request.list) \in Nat
      /\ Len(request.list) >= 1 /\ Len(request.list) <= Cardinality(Devices)
      /\ DOMAIN request.list = 1 .. Len(request.list)
      /\ \A i : Position(i) => request.list[i] \in Devices
      /\ Cardinality(Devices) \in Nat
  BY ListFacts DEF PollInv, PollTypeOK
<1>2. target \in 0 .. Len(request.list)
  BY <1>1 DEF PollInv, PollTypeOK, Walking
<1>3. target # 0 => Position(target) /\ request.list[target] = Target
  BY <1>2 DEF Position, Target
<1>4. Target \in Devices
  <2>1. Position(1)
    BY <1>1 DEF Position
  <2>2. QED
    BY <1>1, <1>3, <2>1 DEF Target
<1>5. answer = "none" /\ \A i \in loaded : Position(i) /\ i < target
  BY DEF PollInv, Walking, Replied
<1>6. target \notin loaded /\ (target = 0 \/ ~ Several => loaded = {})
  BY <1>1, <1>2, <1>5 DEF Several, Position
<1>7. QED
  BY <1>1, <1>2, <1>3, <1>4, <1>5, <1>6

LEMMA ReadKeeps ==
  ASSUME PollInv, ReadDevice
  PROVE  PollInv'
<1> USE DEF PollInv, ReadDevice, Quiet
<1>1. Target \in Devices
  BY TargetFacts
<1>2. PollTypeOK' /\ Walking' /\ Replied'
  BY <1>1 DEF PollTypeOK, Walking, Replied, Position
<1>3. Served'
  BY DEF Served, Polled, LoadFailed, Position, Target
<1>4. QED
  BY <1>2, <1>3

\* A load that fails among several is remembered by its position not being loaded.
LEMMA LoadFailsKeeps ==
  ASSUME PollInv, stage \in {"read", "delete", "create"}, LoadFails,
         UNCHANGED <<request, element, file, device>>, Quiet
  PROVE  PollInv'
<1> USE TargetFacts DEF Quiet
<1>1. CASE target = 0 \/ ~ Several
  <2>1. loaded = {} /\ AnswerWith("error") /\ UNCHANGED <<target, loaded>>
    BY <1>1 DEF LoadFails
  <2>2. PollTypeOK' /\ Walking' /\ Replied'
    BY <2>1 DEF PollInv, PollTypeOK, Walking, Replied, Position, AnswerWith
  <2>3. Served'
    BY <2>1 DEF Served
  <2>4. QED
    BY <2>2, <2>3 DEF PollInv
<1>2. CASE ~ (target = 0 \/ ~ Several)
  <2>1. /\ target' = target + 1 /\ UNCHANGED <<loaded, answer>>
        /\ stage' = IF target = Len(request.list) THEN "summary" ELSE "read"
    BY <1>2 DEF LoadFails
  <2>2. PollTypeOK'
    BY <2>1 DEF PollInv, PollTypeOK
  <2>3. Walking' /\ Replied'
    BY <2>1 DEF PollInv, PollTypeOK, Walking, Replied, Position
  <2>4. Served'
    <3> SUFFICES ASSUME NEW i \in loaded
                 PROVE  \/ request.list[i] \in touched
                        \/ Polled(request.list[i])
                        \/ \E k \in DOMAIN request.list : LoadFailed(k, request.list[i])'
      BY <2>1 DEF Served, Polled
    <3>1. \A k : LoadFailed(k, request.list[i]) => LoadFailed(k, request.list[i])'
      BY <2>1 DEF LoadFailed, Position
    <3>2. /\ target \in DOMAIN request.list /\ Position(target) /\ target \in Int
          /\ request.list[target] = Target /\ target \notin loaded
      BY <1>2
    <3>3. \A k : k = target /\ Target = request.list[i] => LoadFailed(k, request.list[i])'
      BY <2>1, <3>2 DEF LoadFailed, Position
    <3>4. \/ request.list[i] \in touched
          \/ Polled(request.list[i])
          \/ Target = request.list[i]
          \/ \E k \in DOMAIN request.list : LoadFailed(k, request.list[i])
      BY DEF PollInv, Served
    <3>5. QED
      BY <3>1, <3>2, <3>3, <3>4
  <2>5. QED
    BY <2>2, <2>3, <2>4 DEF PollInv
<1>3. QED
  BY <1>1, <1>2

LEMMA DeleteKeeps ==
  ASSUME PollInv, DeleteDevice
  PROVE  PollInv'
<1> USE DEF DeleteDevice, Quiet
<1>1. /\ Target \in Devices /\ device' = [device EXCEPT ![Target] = Absent]
      /\ device \in [Devices -> Elements] /\ Absent \in Elements /\ UNCHANGED Target
  BY TargetFacts DEF PollInv, PollTypeOK, Elements, Target
<1>2. PollTypeOK' /\ Walking' /\ Replied'
  BY <1>1 DEF PollInv, PollTypeOK, Walking, Replied, Position
<1>3. Served'
  <2> SUFFICES ASSUME NEW i \in loaded
               PROVE  \/ request.list[i] \in touched
                      \/ Polled(request.list[i])'
                      \/ Target = request.list[i]
                      \/ \E k \in DOMAIN request.list : LoadFailed(k, request.list[i])
    BY <1>1 DEF Served, LoadFailed, Position
  <2>1. Position(i) /\ request.list[i] \in Devices
    <3>1. \A k : Position(k) => request.list[k] \in Devices
      BY ListFacts DEF PollInv, PollTypeOK
    <3>2. QED
      BY <3>1 DEF PollInv, Walking
  <2>2. Polled(request.list[i]) /\ request.list[i] # Target => Polled(request.list[i])'
    BY <1>1, <2>1 DEF Polled
  <2>3. QED
    BY <2>2 DEF PollInv, Served
<1>4. QED
  BY <1>2, <1>3 DEF PollInv

\* A device is created with the Soap of this request, or as it was without any.
LEMMA CreateKeeps ==
  ASSUME PollInv, CreateDevice
  PROVE  PollInv'
<1> DEFINE e == IF element.soap = "none" THEN element ELSE [element EXCEPT !.soap = "ours"]
           d == Target
<1> USE TargetFacts DEF CreateDevice, Loaded, Quiet
<1>1. e \in Elements /\ e # Absent /\ e.soap \in {"none", "ours"}
  BY DEF PollInv, PollTypeOK, Walking, Elements, Absent
<1>2. /\ d \in Devices /\ device' = [device EXCEPT ![d] = e] /\ device \in [Devices -> Elements]
  BY DEF PollInv, PollTypeOK
<1> HIDE DEF e, d
<1>3. PollTypeOK'
  BY <1>1, <1>2 DEF PollInv, PollTypeOK
<1>4. Walking' /\ Replied'
  BY DEF PollInv, PollTypeOK, Walking, Replied, Position
<1>5. Served'
  <2> SUFFICES ASSUME NEW i \in loaded'
               PROVE  \/ request.list[i] \in touched
                      \/ Polled(request.list[i])'
                      \/ \E k \in DOMAIN request.list : LoadFailed(k, request.list[i])'
    BY DEF Served
  <2>1. Position(i)
    BY DEF PollInv, Walking
  <2>2. request.list[i] \in Devices
    BY <2>1, ListFacts DEF PollInv, PollTypeOK
  <2>3. CASE request.list[i] = d
    BY <1>1, <1>2, <2>2, <2>3 DEF Polled
  <2>4. CASE request.list[i] # d
    <3>1. i \in loaded
      BY <2>4 DEF d
    <3>2. Polled(request.list[i]) => Polled(request.list[i])'
      BY <1>2, <2>2, <2>4 DEF Polled
    <3>3. \A k : LoadFailed(k, request.list[i]) => LoadFailed(k, request.list[i])'
      BY <2>4 DEF LoadFailed, Position, d
    <3>4. QED
      BY <2>4, <3>1, <3>2, <3>3 DEF PollInv, Served, d
  <2>5. QED
    BY <2>3, <2>4
<1>6. QED
  BY <1>3, <1>4, <1>5 DEF PollInv

LEMMA SummarizeKeeps ==
  ASSUME PollInv, Summarize
  PROVE  PollInv'
<1> USE DEF PollInv, Summarize, AnswerWith, Quiet
<1>1. PollTypeOK' /\ Walking' /\ Replied'
  BY DEF PollTypeOK, Walking, Replied, Position
<1>2. Served'
  BY DEF Served, Polled, LoadFailed, Position
<1>3. QED
  BY <1>1, <1>2

\* The field update is not in the way of any device but the ones it touches.
LEMMA UpdateKeeps ==
  ASSUME PollInv, UpdateReads \/ UpdateDeletes \/ UpdateCreates
  PROVE  PollInv'
<1> USE DEF Stay
<1>1. /\ update.dev \in Devices /\ update.element \in Elements /\ touched \subseteq Devices
      /\ device \in [Devices -> Elements] /\ Absent \in Elements
      /\ UNCHANGED <<request, stage, target, element, loaded, answer, file>>
      /\ touched \subseteq touched'
  BY DEF PollInv, PollTypeOK, Elements, UpdateReads, UpdateDeletes, UpdateCreates
<1>2. device' \in [Devices -> Elements] /\ \A d \in Devices : d \notin touched' => device'[d] = device[d]
  <2>1. UpdateCreates => /\ update.dev \in touched'
                         /\ [update.element EXCEPT !.fields = "new"] \in Elements
    BY <1>1 DEF PollInv, Walking, Elements, Absent, UpdateCreates
  <2>2. QED
    BY <1>1, <2>1 DEF UpdateReads, UpdateDeletes, UpdateCreates
<1>3. PollTypeOK'
  BY <1>1, <1>2 DEF PollInv, PollTypeOK, UpdateReads, UpdateDeletes, UpdateCreates
<1>4. Walking'
  BY <1>1 DEF PollInv, PollTypeOK, Walking, Position, UpdateReads, UpdateDeletes, UpdateCreates
<1>5. Replied'
  BY <1>1 DEF PollInv, Replied
<1>6. Served'
  <2> SUFFICES ASSUME NEW i \in loaded, request.list[i] \notin touched'
               PROVE  \/ Polled(request.list[i])'
                      \/ stage = "create" /\ Target = request.list[i]
                      \/ \E k \in DOMAIN request.list : LoadFailed(k, request.list[i])
    BY <1>1 DEF Served, Target, LoadFailed, Position
  <2>1. request.list[i] \in Devices
    BY ListFacts DEF PollInv, PollTypeOK, Walking
  <2>2. Polled(request.list[i]) => Polled(request.list[i])'
    BY <1>1, <1>2, <2>1 DEF Polled
  <2>3. QED
    BY <1>1, <2>2 DEF PollInv, Served
<1>7. QED
  BY <1>3, <1>4, <1>5, <1>6 DEF PollInv

LEMMA PollInvNext == PollInv /\ [PollNext]_pollVars => PollInv'
<1> SUFFICES ASSUME PollInv, [PollNext]_pollVars PROVE PollInv'
  OBVIOUS
<1>1. CASE UNCHANGED pollVars
  BY <1>1 DEF pollVars, PollInv, PollTypeOK, Walking, Replied, Served, Polled, LoadFailed, Position,
              Target
<1>2. CASE ReadFails \/ DeleteDeviceFails \/ CreateDeviceFails
  BY <1>2, LoadFailsKeeps DEF ReadFails, DeleteDeviceFails, CreateDeviceFails
<1>3. QED
  BY <1>1, <1>2, FileKeeps, ReadKeeps, DeleteKeeps, CreateKeeps, SummarizeKeeps, UpdateKeeps
     DEF PollNext

\* A request that answers that all simulators were loaded has left each of them with
\* its device and the file, however the field update comes in between and even if the
\* list names a simulator twice; for any devices and any list of them.
THEOREM AllMeansLoadedHolds == PollSpec => []AllMeansLoaded
<1>1. PollInv => AllMeansLoaded
  <2> SUFFICES ASSUME PollInv, answer = "all"
               PROVE  /\ request.write => file = "ours"
                      /\ \A i \in DOMAIN request.list :
                           request.list[i] \in touched \/ Polled(request.list[i])
    BY DEF AllMeansLoaded, Polled
  <2>1. stage = "end" /\ loaded = DOMAIN request.list
    BY DEF PollInv, Replied
  <2>2. QED
    BY <2>1 DEF PollInv, Replied, Served, LoadFailed
<1>2. QED
  BY <1>1, PollInvInit, PollInvNext, PTL DEF PollSpec

-----------------------------------------------------------------------------
(***************************************************************************)
(* The types, as the reporter's parts are composed in Reporter.            *)
(***************************************************************************)
\* A target has at most MaxItems items.
LEMMA ItemsBound ==
  ASSUME ReplyTypeOK, at <= Len(items)
  PROVE  at \in Targets /\ Len(items[at]) \in 0 .. MaxItems /\ items \in Seq(ItemSeqs)
<1>1. PICK n \in 1 .. MaxTargets : items \in [1 .. n -> ItemSeqs]
  BY DEF ReplyTypeOK
<1>2. Len(items) = n /\ n \in Nat /\ items \in Seq(ItemSeqs)
  BY <1>1, ReplyAssumption
<1>3. at \in Targets /\ items[at] \in ItemSeqs
  BY <1>1, <1>2 DEF ReplyTypeOK, Targets
<1>4. PICK m \in 1 .. MaxItems : items[at] \in [1 .. m -> Names]
  BY <1>3 DEF ItemSeqs
<1>5. QED
  BY <1>2, <1>3, <1>4, ReplyAssumption

LEMMA ReplyTypeInit == ReplyInit => ReplyTypeOK
<1> SUFFICES ASSUME ReplyInit PROVE ReplyTypeOK
  OBVIOUS
<1>1. PICK n \in 1 .. MaxTargets : items \in [1 .. n -> ItemSeqs]
  BY DEF ReplyInit
<1>2. Len(items) = n /\ n \in Nat
  BY <1>1, ReplyAssumption
<1>3. QED
  BY <1>2, ReplyAssumption DEF ReplyInit, ReplyTypeOK, Targets

LEMMA ReplyTypeNext ==
  ASSUME ReplyTypeOK, ReplyInv, ReplyInv', [ReplyNext]_replyVars
  PROVE  ReplyTypeOK'
<1>1. /\ UNCHANGED <<protocol, items>> /\ Targets' = Targets
      /\ at' \in 1 .. Len(items') + 1 /\ broken' \subseteq Targets
  BY DEF ReplyNext, SendSubBatch, SendIrpMessage, Break, NextTarget, Answer, replyVars,
         ReplyInv, ReplyTyped, Targets
<1>2. /\ next' \in 0 .. MaxItems
      /\ confirmed' \in [Targets -> SUBSET (1 .. MaxItems)]
      /\ results' \in [Targets -> SUBSET (Names \X BOOLEAN)]
  <2>1. ASSUME NEW ok \in BOOLEAN, SendSubBatch(ok) \/ SendIrpMessage(ok)
        PROVE  /\ next' \in 0 .. MaxItems
               /\ confirmed' \in [Targets -> SUBSET (1 .. MaxItems)]
               /\ results' \in [Targets -> SUBSET (Names \X BOOLEAN)]
    <3>1. /\ at <= Len(items) /\ at' = at /\ next \in Nat /\ next < Len(items[at])
      BY <2>1 DEF SendSubBatch, SendIrpMessage, Serving, ReplyTypeOK
    <3>2. at \in Targets /\ Len(items[at]) \in 0 .. MaxItems /\ items \in Seq(ItemSeqs)
      BY <3>1, ItemsBound
    <3>3. next' \in Nat /\ next' <= Len(items[at])
      BY <1>1, <3>1 DEF ReplyInv, ReplyTyped, WithinDone
    <3>4. next' \in 0 .. MaxItems /\ next + 1 .. next' \subseteq 1 .. MaxItems
      BY <3>1, <3>2, <3>3, ReplyAssumption
    <3>5. confirmed' \in [Targets -> SUBSET (1 .. MaxItems)]
      <4>1. \/ confirmed' = confirmed
            \/ \E S \in SUBSET (next + 1 .. next') : confirmed' = [confirmed EXCEPT ![at] = @ \cup S]
        <5>1. CASE SendSubBatch(ok)
          BY <5>1 DEF SendSubBatch
        <5>2. CASE SendIrpMessage(ok)
          <6>1. next' = next + 1 /\ next' \in next + 1 .. next'
            BY <3>1, <5>2 DEF SendIrpMessage
          <6>2. QED
            BY <5>2, <6>1 DEF SendIrpMessage
        <5>3. QED
          BY <2>1, <5>1, <5>2
      <4>2. confirmed \in [Targets -> SUBSET (1 .. MaxItems)]
        BY DEF ReplyTypeOK
      <4>3. QED
        BY <3>2, <3>4, <4>1, <4>2
    <3>6. results' \in [Targets -> SUBSET (Names \X BOOLEAN)]
      <4>1. results \in [Targets -> SUBSET (Names \X BOOLEAN)]
        BY DEF ReplyTypeOK
      <4>2. CASE SendSubBatch(ok)
        BY <4>1, <4>2 DEF SendSubBatch
      <4>3. CASE SendIrpMessage(ok)
        <5> DEFINE name == items[at][next']
        <5>1. results' = [results EXCEPT ![at] = {r \in @ : r[1] # name} \cup {<<name, ok>>}]
          BY <4>3 DEF SendIrpMessage
        <5>2. name \in Names
          <6>1. items[at] \in ItemSeqs
            BY <3>2 DEF Targets
          <6>2. PICK m \in 1 .. MaxItems : items[at] \in [1 .. m -> Names]
            BY <6>1 DEF ItemSeqs
          <6>3. Len(items[at]) = m /\ m \in Nat
            BY <6>2, ReplyAssumption
          <6>4. next' = next + 1
            BY <4>3 DEF SendIrpMessage
          <6>5. QED
            BY <3>1, <6>2, <6>3, <6>4
        <5> HIDE DEF name
        <5>3. QED
          BY <3>2, <4>1, <5>1, <5>2
      <4>4. QED
        BY <2>1, <4>2, <4>3
    <3>7. QED
      BY <3>4, <3>5, <3>6
  <2>2. ASSUME Break \/ NextTarget \/ Answer \/ UNCHANGED replyVars
        PROVE  next' \in {0, next} /\ UNCHANGED <<confirmed, results>>
    BY <2>2 DEF Break, NextTarget, Answer, replyVars
  <2>3. QED
    BY <2>1, <2>2, ReplyAssumption DEF ReplyNext, ReplyTypeOK
<1>3. reply' \in {"none", "success", "partial", "failed"}
  <2>1. CASE Answer
    BY <2>1 DEF Answer, SnmpReply, IrpReply
  <2>2. CASE ~ Answer
    BY <2>2 DEF ReplyNext, SendSubBatch, SendIrpMessage, Break, NextTarget, replyVars, ReplyTypeOK
  <2>3. QED
    BY <2>1, <2>2
<1>4. QED
  BY <1>1, <1>2, <1>3 DEF ReplyTypeOK

\* The state of the streams, batches, replies, routes, polling loads and tests keeps
\* its types, as they are composed in Reporter and for any values of the constants.
THEOREM ReporterTypes == ReporterSpec => []ReporterTypeOK
<1> DEFINE Inv == /\ StreamInv /\ BatchTypeInv /\ ReplyInv /\ ReplyTypeOK
                  /\ RouteInv /\ PollInv /\ TestInv
<1>1. ReporterInit => Inv
  BY StreamInvInit, BatchTypeInit, ReplyInvInit, ReplyTypeInit, RouteInvInit, PollInvInit,
     TestInvInit DEF ReporterInit, StreamStill, BatchStill, ReplyStill, PollStill
<1>2. Inv /\ [ReporterNext]_reporterVars => Inv'
  <2>1. [ReporterNext]_reporterVars =>
          /\ [StreamNext]_streamVars /\ [BatchNext]_batchVars /\ [ReplyNext]_replyVars
          /\ [RouteNext]_routeVars /\ [PollNext]_pollVars /\ [TestNext]_testVars
    BY DEF ReporterNext, StreamMoves, BatchMoves, ReplyMoves, RoutesMove, PollMoves, TestMoves,
           reporterVars
  <2>2. QED
    <3> SUFFICES ASSUME Inv, [ReporterNext]_reporterVars PROVE Inv'
      OBVIOUS
    <3>1. ReplyInv'
      BY <2>1, ReplyInvNext DEF ReplyTypeOK
    <3>2. ReplyTypeOK'
      BY <2>1, <3>1, ReplyTypeNext
    <3>3. QED
      BY <2>1, <3>1, <3>2, StreamInvNext, BatchTypeNext, RouteInvNext, PollInvNext, TestInvNext
<1>3. Inv => ReporterTypeOK
  BY BatchTypeFacts DEF StreamInv, BatchTypeInv, RouteInv, PollInv, TestInv, ReporterTypeOK
<1>4. QED
  BY <1>1, <1>2, <1>3, PTL DEF ReporterSpec
=============================================================================
