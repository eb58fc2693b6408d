----------------------------- MODULE TrapStream -----------------------------
(***************************************************************************)
(* One streaming send of the reporter: send_snmp_trap_stream_endpoint or   *)
(* send_irp_messages_stream_endpoint (backend/app/routes/reporter.py).     *)
(* For several simulators, the response's generator creates a task per     *)
(* address, takes events from their shared queue until every address has   *)
(* completed, awaits the tasks and drains the queue.  The senders are      *)
(* synchronous generators, so a task, once it runs, puts all its events    *)
(* into the queue before anything else runs on the event loop.  For one    *)
(* simulator the response's generator sends and yields in turn.            *)
(* What is sent is left out: an event is named by the position of its      *)
(* simulator in the list and its number among that simulator's events.     *)
(***************************************************************************)
EXTENDS Integers, Sequences, FiniteSets

CONSTANTS Lists,      \* simulator_ips: the lists of addresses a request may name
          MaxEvents   \* bound on the number of events of one simulator

ASSUME StreamAssumption ==
  /\ Lists # {}
  /\ \A l \in Lists : l \in Seq(UNION {{l[i] : i \in 1 .. Len(l)}}) /\ Len(l) > 0
  /\ MaxEvents \in Nat \ {0}

VARIABLES
  list,       \* the addresses of the request
  gen,        \* where the response's generator is
  task,       \* task[i]: "none", "ready" or "done"
  events,     \* events[i]: how many events position i yields, 0 until it runs
  put,        \* every event that was ever put into the queue, in this order
  taken,      \* how many of them were taken and sent to the client
  completed   \* completed_simulators

streamVars == <<list, gen, task, events, put, taken, completed>>

Positions == 1 .. Len(list)
Event(i, k) == [pos |-> i, num |-> k]

\* All events a sender yields: progress events, then "complete" or "error".
EventsOf(i, n) == [k \in 1 .. n |-> Event(i, k)]

GenStates == {"idle", "refused", "single", "polling", "gathering", "draining", "ended", "gone"}

StreamTypeOK ==
  /\ list \in Lists
  /\ gen \in GenStates
  /\ task \in [Positions -> {"none", "ready", "done"}]
  /\ events \in [Positions -> 0 .. MaxEvents]
  /\ put \in Seq([pos : Positions, num : 1 .. MaxEvents])
  /\ taken \in 0 .. Len(put)
  /\ completed \subseteq {list[i] : i \in Positions}

StreamInit ==
  /\ list \in Lists
  /\ gen = "idle"
  /\ task = [i \in Positions |-> "none"]
  /\ events = [i \in Positions |-> 0]
  /\ put = <<>>
  /\ taken = 0
  /\ completed = {}

-----------------------------------------------------------------------------
(* Several simulators.                                                     *)

\* No traps in the request, an address without a map, or an unknown schema.
Refuse ==
  /\ gen = "idle"
  /\ gen' = "refused"
  /\ UNCHANGED <<list, task, events, put, taken, completed>>

\* The generator starts and creates the tasks.
StartTasks ==
  /\ gen = "idle"
  /\ Len(list) > 1
  /\ gen' = "polling"
  /\ task' = [i \in Positions |-> "ready"]
  /\ UNCHANGED <<list, events, put, taken, completed>>

\* run_generator: a sender that raises yields an "error" event, so that the
\* simulator completes all the same.
RunGeneratorErrorEscapes(i) ==
  /\ task[i] = "ready"
  /\ \E n \in 1 .. MaxEvents, raised \in BOOLEAN :
       /\ events' = [events EXCEPT ![i] = n]
       /\ put' = put \o EventsOf(i, n)
       /\ completed' = IF raised THEN completed ELSE completed \cup {list[i]}
  /\ task' = [task EXCEPT ![i] = "done"]
  /\ UNCHANGED <<list, gen, taken>>
RunGenerator(i) ==
  /\ task[i] = "ready"
  /\ \E n \in 1 .. MaxEvents :
       /\ events' = [events EXCEPT ![i] = n]
       /\ put' = put \o EventsOf(i, n)
  /\ completed' = completed \cup {list[i]}
  /\ task' = [task EXCEPT ![i] = "done"]
  /\ UNCHANGED <<list, gen, taken>>

Take ==
  /\ taken < Len(put)
  /\ taken' = taken + 1
  /\ UNCHANGED <<list, task, events, put, completed>>

AllCompleted == Cardinality(completed) >= Len(list)

\* One round of the polling loop; an empty queue changes nothing.
Poll ==
  /\ gen = "polling"
  /\ ~ AllCompleted
  /\ Take
  /\ UNCHANGED gen

PollEnds ==
  /\ gen = "polling"
  /\ AllCompleted
  /\ gen' = "gathering"
  /\ UNCHANGED <<list, task, events, put, taken, completed>>

\* asyncio.gather(*tasks)
Gather ==
  /\ gen = "gathering"
  /\ \A i \in Positions : task[i] = "done"
  /\ gen' = "draining"
  /\ UNCHANGED <<list, task, events, put, taken, completed>>

Drain ==
  /\ gen = "draining"
  /\ Take
  /\ UNCHANGED gen

DrainSkipped ==
  /\ gen = "draining"
  /\ gen' = "ended"
  /\ UNCHANGED <<list, task, events, put, taken, completed>>
Drained ==
  /\ gen = "draining"
  /\ taken = Len(put)
  /\ gen' = "ended"
  /\ UNCHANGED <<list, task, events, put, taken, completed>>

-----------------------------------------------------------------------------
(* One simulator: the generator runs the sender up to its next event.      *)

StartSingle ==
  /\ gen = "idle"
  /\ Len(list) = 1
  /\ gen' = "single"
  /\ \E n \in 1 .. MaxEvents : events' = [events EXCEPT ![1] = n]
  /\ UNCHANGED <<list, task, put, taken, completed>>

SendNext ==
  /\ gen = "single"
  /\ Len(put) < events[1]
  /\ put' = Append(put, Event(1, Len(put) + 1))
  /\ taken' = taken + 1
  /\ UNCHANGED <<list, gen, task, events, completed>>

SingleEnds ==
  /\ gen = "single"
  /\ Len(put) = events[1]
  /\ gen' = "ended"
  /\ UNCHANGED <<list, task, events, put, taken, completed>>

\* The client disconnects: the generator is cancelled at its next await, the
\* tasks are not.
ClientGone ==
  /\ gen \in {"single", "polling", "gathering", "draining"}
  /\ gen' = "gone"
  /\ UNCHANGED <<list, task, events, put, taken, completed>>

-----------------------------------------------------------------------------
GeneratorNext == Poll \/ PollEnds \/ Gather \/ Drain \/ Drained \/ SendNext \/ SingleEnds

StreamNext ==
  \/ Refuse
  \/ StartTasks
  \/ StartSingle
  \/ \E i \in Positions : RunGenerator(i)
  \/ GeneratorNext
  \/ ClientGone

StreamSpec == StreamInit /\ [][StreamNext]_streamVars

\* The event loop runs every task that is ready and resumes the generator after
\* each send and each sleep.
StreamFairness ==
  /\ WF_streamVars(GeneratorNext)
  /\ WF_streamVars(\E i \in Positions : RunGenerator(i))

-----------------------------------------------------------------------------
(* Properties.                                                             *)

\* A stream that ends has told its client every event of every simulator, the
\* last ones put after the polling loop has looked for the last time included.
NothingIsLost ==
  gen = "ended" =>
    \A i \in Positions : /\ events[i] > 0
                         /\ \A k \in 1 .. events[i] : \E j \in 1 .. taken : put[j] = Event(i, k)

\* A stream whose client stays ends, whatever its senders do - provided that no
\* address is named twice, since completed_simulators counts addresses.
Distinct == \A i, j \in Positions : list[i] = list[j] => i = j

EveryStreamEnds == Distinct /\ gen \in {"single", "polling"} ~> gen \in {"ended", "gone"}
=============================================================================
