------------------------------ MODULE Reporter ------------------------------
(***************************************************************************)
(* The reporter's components: streams, batches of a loop, replies, loop    *)
(* routes, the polling configuration and the tests of messages.  They      *)
(* share no state, so one of them moves in a behavior, "part" says which,  *)
(* and the others keep one initial state: the graph is the union of        *)
(* theirs.                                                                 *)
(***************************************************************************)
EXTENDS TrapStream, LoopBatch, TrapReply, LoopRoutes, PollingLoad, MessageTest

VARIABLE part

\* One state for each part that does not move.
StreamStill == StreamInit /\ list = CHOOSE l \in Lists : TRUE
BatchStill  == BatchInit /\ kind = "irp"
ReplyStill  == ReplyInit /\ protocol = "irp" /\ items = <<<<CHOOSE n \in Names : TRUE>>>>
PollStill   ==
  LET first == CHOOSE d \in Devices : TRUE IN
  /\ PollInit
  /\ request = [list |-> <<first>>, write |-> FALSE, overwrite |-> FALSE]
  /\ file = "none"
  /\ device = [d \in Devices |-> Absent]
  /\ update.dev = first

ReporterInit ==
  /\ part \in {"stream", "batch", "reply", "routes", "polling", "test"}
  /\ IF part = "stream" THEN StreamInit ELSE StreamStill
  /\ IF part = "batch" THEN BatchInit ELSE BatchStill
  /\ IF part = "reply" THEN ReplyInit ELSE ReplyStill
  /\ RouteInit
  /\ IF part = "polling" THEN PollInit ELSE PollStill
  /\ TestInit

StreamMoves == /\ part = "stream"
               /\ StreamNext
               /\ UNCHANGED <<part, batchVars, replyVars, routeVars, pollVars, testVars>>
BatchMoves  == /\ part = "batch"
               /\ BatchNext
               /\ UNCHANGED <<part, streamVars, replyVars, routeVars, pollVars, testVars>>
ReplyMoves  == /\ part = "reply"
               /\ ReplyNext
               /\ UNCHANGED <<part, streamVars, batchVars, routeVars, pollVars, testVars>>
RoutesMove  == /\ part = "routes"
               /\ RouteNext
               /\ UNCHANGED <<part, streamVars, batchVars, replyVars, pollVars, testVars>>
PollMoves   == /\ part = "polling"
               /\ PollNext
               /\ UNCHANGED <<part, streamVars, batchVars, replyVars, routeVars, testVars>>
TestMoves == /\ part = "test"
             /\ TestNext
             /\ UNCHANGED <<part, streamVars, batchVars, replyVars, routeVars, pollVars>>

ReporterNext ==
  StreamMoves \/ BatchMoves \/ ReplyMoves \/ RoutesMove \/ PollMoves \/ TestMoves

reporterVars == <<part, streamVars, batchVars, replyVars, routeVars, pollVars, testVars>>

\* Only a stream has to end; one that keeps its first state has no fair step to make.
ReporterSpec == ReporterInit /\ [][ReporterNext]_reporterVars /\ StreamFairness

\* The type invariants of the six components.
ReporterTypeOK ==
  /\ StreamTypeOK
  /\ BatchTypeOK
  /\ ReplyTypeOK
  /\ RouteTypeOK
  /\ PollTypeOK
  /\ TestTypeOK
=============================================================================
