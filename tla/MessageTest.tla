---------------------------- MODULE MessageTest -----------------------------
(***************************************************************************)
(* Tests of IRP messages: test_irp_message (backend/app/routes/reporter.py)*)
(* with MessageTestingCoordinator and UdpPacketListener (.../irp/core).    *)
(* The handler blocks the event loop, so there is one test at a time; but  *)
(* each has two threads, one that waits two seconds and sends the message  *)
(* and one that listens on port 2088, and the handler waits for both only  *)
(* so long.  What a thread does after that meets the next test.            *)
(* The Java parser is external; a message is named by the test it is of.   *)
(***************************************************************************)
EXTENDS Integers, FiniteSets

CONSTANT MaxTests   \* bound on the number of tests

ASSUME TestAssumption == MaxTests \in Nat

VARIABLES
  tested,    \* number of tests begun; the last one may be in progress
  place,     \* where the handler is
  listener,  \* listener[i]: the thread and socket of test i
  sender,    \* sender[i]: the thread that sends the message of test i
  captured,  \* captured[i]: listener.packets of test i
  pcap,      \* what the current test's file holds
  outcome,   \* outcome[i]: status of test i and the packets its parser read
  overdue    \* a join has given up on a thread

testVars == <<tested, place, listener, sender, captured, pcap, outcome, overdue>>

TestIds == 1 .. MaxTests
Packets == [of : TestIds, headers : BOOLEAN]

TestTypeOK ==
  /\ tested \in 0 .. MaxTests
  /\ place \in {"idle", "listening", "sending", "parsing"}
  /\ listener \in [TestIds -> {"none", "binding", "bound", "closed"}]
  /\ sender \in [TestIds -> {"none", "asleep", "sent", "failed"}]
  /\ captured \in [TestIds -> SUBSET Packets] /\ pcap \subseteq Packets
  /\ outcome \in [TestIds -> [status : {"none", "failed", "completed"}, parsed : SUBSET Packets]]
  /\ overdue \in BOOLEAN

TestInit ==
  /\ tested = 0
  /\ place = "idle"
  /\ listener = [i \in TestIds |-> "none"]
  /\ sender = [i \in TestIds |-> "none"]
  /\ captured = [i \in TestIds |-> {}]
  /\ pcap = {}
  /\ outcome = [i \in TestIds |-> [status |-> "none", parsed |-> {}]]
  /\ overdue = FALSE

Outcome(s, ps) == outcome' = [outcome EXCEPT ![tested] = [status |-> s, parsed |-> ps]]
ThreadsUnchanged == UNCHANGED <<listener, sender, captured>>

-----------------------------------------------------------------------------
(* The handler.                                                            *)

\* A request with a schema that can be loaded; others are refused unheard.
BeginTest ==
  /\ place = "idle"
  /\ tested < MaxTests
  /\ tested' = tested + 1
  /\ place' = "listening"
  /\ sender' = [sender EXCEPT ![tested + 1] = "asleep"]
  /\ listener' = [listener EXCEPT ![tested + 1] = "binding"]
  /\ pcap' = {}
  /\ UNCHANGED <<captured, outcome, overdue>>

\* The listener has ended, or has not a second after its time is over: what it
\* has so far is written to the file.
JoinListener ==
  /\ place = "listening"
  /\ pcap' = captured[tested]
  /\ overdue' = (overdue \/ listener[tested] # "closed")
  /\ place' = "sending"
  /\ ThreadsUnchanged /\ UNCHANGED <<tested, outcome>>

\* The sender has ended, or has not in fifteen seconds.  Packets are counted
\* where the listener puts them, not in the file.
CountPackets ==
  IF captured[tested] = {}
  THEN Outcome("failed", {}) /\ place' = "idle"
  ELSE place' = "parsing" /\ UNCHANGED outcome

JoinSenderForgotten ==
  /\ place = "sending"
  /\ CountPackets
  /\ ThreadsUnchanged /\ UNCHANGED <<tested, pcap, overdue>>
JoinSender ==
  /\ place = "sending"
  /\ overdue' = (overdue \/ sender[tested] = "asleep")
  /\ CountPackets
  /\ ThreadsUnchanged /\ UNCHANGED <<tested, pcap>>

\* A message that came over the loopback has no headers; the parser wants some,
\* so the text made of the file has invented ones.
Extracted(ps) == {[of |-> p.of, headers |-> TRUE] : p \in ps}

\* The file the parser writes mentions an error, or none, or it is not there.
Verdicts == {"failed", "completed"}

\* The parser fails, hangs for thirty seconds, or ends.
Parse ==
  /\ place = "parsing"
  /\ \/ Outcome("failed", {})
     \/ \E s \in Verdicts : Outcome(s, Extracted(pcap))
  /\ place' = "idle"
  /\ ThreadsUnchanged /\ UNCHANGED <<tested, pcap, overdue>>

-----------------------------------------------------------------------------
(* The threads.                                                            *)

HandlerUnchanged == UNCHANGED <<tested, place, pcap, outcome, overdue>>

\* The socket is bound, or cannot be.
Bind(i) ==
  /\ listener[i] = "binding"
  /\ \E l \in {"bound", "closed"} : listener' = [listener EXCEPT ![i] = l]
  /\ UNCHANGED <<sender, captured>> /\ HandlerUnchanged

ListenerTimesOut(i) ==
  /\ listener[i] = "bound"
  /\ listener' = [listener EXCEPT ![i] = "closed"]
  /\ UNCHANGED <<sender, captured>> /\ HandlerUnchanged

\* The message cannot be built or sent ...
SendFails(i) ==
  /\ sender[i] = "asleep"
  /\ sender' = [sender EXCEPT ![i] = "failed"]
  /\ UNCHANGED <<listener, captured>> /\ HandlerUnchanged

\* ... or is sent: a listener that is bound takes it as its only packet and
\* ends; if none is, it is lost.
SendTestMessage(i) ==
  /\ sender[i] = "asleep"
  /\ sender' = [sender EXCEPT ![i] = "sent"]
  /\ \/ /\ \A j \in TestIds : listener[j] # "bound"
        /\ UNCHANGED <<listener, captured>>
     \/ \E j \in TestIds :
          /\ listener[j] = "bound"
          /\ captured' = [captured EXCEPT ![j] = @ \cup {[of |-> i, headers |-> FALSE]}]
          /\ listener' = [listener EXCEPT ![j] = "closed"]
  /\ HandlerUnchanged

TestNext ==
  \/ BeginTest
  \/ JoinListener
  \/ JoinSender
  \/ Parse
  \/ \E i \in TestIds : Bind(i) \/ ListenerTimesOut(i) \/ SendFails(i) \/ SendTestMessage(i)

TestSpec == TestInit /\ [][TestNext]_testVars

-----------------------------------------------------------------------------
(* Properties.                                                             *)

\* As long as no join has given up on a thread, a test that is completed has
\* parsed the one packet of its own message, never one of an earlier test.
TestsItsMessage ==
  ~ overdue => \A i \in TestIds : outcome[i].status = "completed" =>
                 outcome[i].parsed = {[of |-> i, headers |-> TRUE]}
=============================================================================
