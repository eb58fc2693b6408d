----------------------------- MODULE LoopBatch -----------------------------
(***************************************************************************)
(* The batches of one trap loop: _send_batch of SNMPLoopManager            *)
(* (backend/app/modules/reporter/snmp/snmp_loop_manager.py) and of         *)
(* IRPLoopManager (.../irp/irp_loop_manager.py), which LoopManager has as  *)
(* the step from "sending" to the next state of a task.  A batch sends to  *)
(* all simulators concurrently: every simulator has a coroutine, each send *)
(* and each database call runs in the manager's thread pool.               *)
(* An SNMP simulator's traps go out in one call and are counted in the     *)
(* loop's document at once; IRP messages go out one by one, with a look at *)
(* the stop event before each, and are counted when the batch is over.     *)
(* The counters of the config object in memory are only logged and are     *)
(* left out.                                                               *)
(***************************************************************************)
EXTENDS Integers, FiniteSets, Functions

CONSTANTS Simulators,  \* the simulators of the loop
          Messages,    \* traps or messages per simulator and batch
          MaxBatches   \* bound on the number of batches

ASSUME BatchAssumption ==
  /\ IsFiniteSet(Simulators)
  /\ Messages \in Nat \ {0}
  /\ MaxBatches \in Nat

VARIABLES
  kind,        \* "snmp" or "irp"
  mapped,      \* SNMP: the simulators simulator_maps has a map for
  phase,       \* where _send_batch is
  sim,         \* sim[s]: the coroutine of s and its counts in this batch
  stopped,     \* the stop event
  late,        \* late[s]: messages of s sent with the stop event set
  sent,        \* number of confirmed traps or messages, ever
  unreported,  \* those of them whose sender then raised, and returned no number
  aborted,     \* a batch was left uncounted because of the stop event
  dbFailed,    \* a database call has failed
  count        \* the counters and last_error of the loop's document

batchVars == <<kind, mapped, phase, sim, stopped, late, sent, unreported, aborted, dbFailed,
               count>>

NewSim == [pc |-> "next", ok |-> 0, failed |-> 0]
Total  == Cardinality(Simulators) * Messages * MaxBatches

BatchTypeOK ==
  /\ kind \in {"snmp", "irp"}
  /\ mapped \subseteq Simulators
  /\ phase \in {"idle", "loading", "sending", "storing", "failing", "raised"}
  /\ sim \in [Simulators -> [pc : {"next", "sending", "counting", "done", "raised"},
                             ok : 0 .. Messages, failed : 0 .. Messages]]
  /\ stopped \in BOOLEAN
  /\ late \in [Simulators -> 0 .. Messages * MaxBatches]
  /\ sent \in 0 .. Total
  /\ unreported \in 0 .. sent
  /\ aborted \in BOOLEAN
  /\ dbFailed \in BOOLEAN
  /\ count \in [batches : 0 .. MaxBatches, failedBatches : 0 .. MaxBatches,
                ok : 0 .. Total, failed : 0 .. Total, error : BOOLEAN]

BatchInit ==
  /\ kind \in {"snmp", "irp"}
  /\ mapped \in SUBSET Simulators
  /\ kind = "irp" => mapped = Simulators
  /\ phase = "idle"
  /\ sim = [s \in Simulators |-> NewSim]
  /\ stopped = FALSE
  /\ late = [s \in Simulators |-> 0]
  /\ sent = 0
  /\ unreported = 0
  /\ aborted = FALSE
  /\ dbFailed = FALSE
  /\ count = [batches |-> 0, failedBatches |-> 0, ok |-> 0, failed |-> 0, error |-> FALSE]

SimOver(s) == sim[s].pc \in {"done", "raised"}
TotalOk     == SumFunction([s \in Simulators |-> sim[s].ok])
\* A coroutine that raised counts for all its traps, or for one message.
TotalFailed == SumFunction([s \in Simulators |-> IF sim[s].pc # "raised" THEN sim[s].failed
                                                 ELSE IF kind = "snmp" THEN Messages ELSE 1])

-----------------------------------------------------------------------------
StartBatch ==
  /\ phase = "idle"
  /\ ~ aborted
  /\ count.batches < MaxBatches
  /\ phase' = IF kind = "irp" THEN "loading" ELSE "sending"
  /\ sim' = [s \in Simulators |-> NewSim]
  /\ UNCHANGED <<kind, mapped, stopped, late, sent, unreported, aborted, dbFailed, count>>

\* stop_loop sets the event at any moment.
SetStop ==
  /\ ~ stopped
  /\ stopped' = TRUE
  /\ UNCHANGED <<kind, mapped, phase, sim, late, sent, unreported, aborted, dbFailed, count>>

\* load_schema_from_mongo and build_irp_payloads, any of which may raise.
LoadSchema ==
  /\ phase = "loading"
  /\ phase' \in {"sending", "failing"}
  /\ UNCHANGED <<kind, mapped, sim, stopped, late, sent, unreported, aborted, dbFailed, count>>

-----------------------------------------------------------------------------
(* SNMP: send_to_simulator.                                                *)

NoMap(s) ==
  /\ kind = "snmp" /\ phase = "sending"
  /\ sim[s].pc = "next"
  /\ s \notin mapped
  /\ sim' = [sim EXCEPT ![s].pc = "done"]
  /\ UNCHANGED <<kind, mapped, phase, stopped, late, sent, unreported, aborted, dbFailed, count>>

\* send_attack_traps reports how many traps were confirmed, the others failed.
SendTraps(s) ==
  /\ kind = "snmp" /\ phase = "sending"
  /\ sim[s].pc = "next"
  /\ s \in mapped
  /\ \E ok \in 0 .. Messages :
       /\ sim' = [sim EXCEPT ![s] = [pc |-> "counting", ok |-> ok, failed |-> Messages - ok]]
       /\ sent' = sent + ok
  /\ UNCHANGED <<kind, mapped, phase, stopped, late, unreported, aborted, dbFailed, count>>

\* Fewer configured attack IDs than traps, before anything is sent, or an error in the
\* sender: it sends sub-batches, and one that raises loses the numbers of those before.
SendRaises(s) ==
  /\ kind = "snmp" /\ phase = "sending"
  /\ sim[s].pc = "next"
  /\ s \in mapped
  /\ \E ok \in 0 .. Messages - 1 :
       /\ sim' = [sim EXCEPT ![s] = [pc |-> "raised", ok |-> ok, failed |-> 0]]
       /\ sent' = sent + ok
       /\ unreported' = unreported + ok
  /\ UNCHANGED <<kind, mapped, phase, stopped, late, aborted, dbFailed, count>>

\* The simulator's own $inc, which races those of the other simulators.
CountTraps(s) ==
  /\ phase = "sending"
  /\ sim[s].pc = "counting"
  /\ sim' = [sim EXCEPT ![s].pc = "done"]
  /\ count' = [count EXCEPT !.ok = @ + sim[s].ok, !.failed = @ + sim[s].failed]
  /\ UNCHANGED <<kind, mapped, phase, stopped, late, sent, unreported, aborted, dbFailed>>

CountFails(s) ==
  /\ phase = "sending"
  /\ sim[s].pc = "counting"
  /\ sim' = [sim EXCEPT ![s].pc = "raised"]
  /\ dbFailed' = TRUE
  /\ UNCHANGED <<kind, mapped, phase, stopped, late, sent, unreported, aborted, count>>

-----------------------------------------------------------------------------
(* IRP: send_to_simulator.                                                 *)

LeftOneMore(s) == Messages + 1 - sim[s].ok - sim[s].failed
Left(s) == Messages - sim[s].ok - sim[s].failed

NextMessageUnchecked(s) ==
  /\ kind = "irp" /\ phase = "sending"
  /\ sim[s].pc = "next"
  /\ sim' = [sim EXCEPT ![s].pc = IF Left(s) = 0 THEN "done" ELSE "sending"]
  /\ UNCHANGED <<kind, mapped, phase, stopped, late, sent, unreported, aborted, dbFailed, count>>
NextMessage(s) ==
  /\ kind = "irp" /\ phase = "sending"
  /\ sim[s].pc = "next"
  /\ sim' = [sim EXCEPT ![s].pc = IF Left(s) = 0 \/ stopped THEN "done" ELSE "sending"]
  /\ UNCHANGED <<kind, mapped, phase, stopped, late, sent, unreported, aborted, dbFailed, count>>

\* send_irp_udp in the thread pool, which never raises.
SendMessage(s) ==
  /\ kind = "irp" /\ phase = "sending"
  /\ sim[s].pc = "sending"
  /\ \E ok \in {0, 1} :
       /\ sim' = [sim EXCEPT ![s].pc = "next", ![s].ok = @ + ok, ![s].failed = @ + 1 - ok]
       /\ sent' = sent + ok
  /\ late' = IF stopped THEN [late EXCEPT ![s] = @ + 1] ELSE late
  /\ UNCHANGED <<kind, mapped, phase, stopped, unreported, aborted, dbFailed, count>>

-----------------------------------------------------------------------------
(* The end of a batch.                                                     *)

\* gather returns; an IRP batch that was stopped is not counted.
Gathered ==
  /\ phase = "sending"
  /\ \A s \in Simulators : SimOver(s)
  /\ IF kind = "irp" /\ stopped
       THEN phase' = "idle" /\ aborted' = TRUE
       ELSE phase' = "storing" /\ UNCHANGED aborted
  /\ UNCHANGED <<kind, mapped, sim, stopped, late, sent, unreported, dbFailed, count>>

\* IRP counts the messages here; SNMP has counted its traps already.
StoreBatchAddsTraps ==
  /\ phase = "storing"
  /\ phase' = "idle"
  /\ count' = [count EXCEPT !.batches = @ + 1,
                            !.failedBatches = IF TotalFailed > 0 THEN @ + 1 ELSE @,
                            !.ok = @ + TotalOk,
                            !.failed = IF kind = "irp" THEN @ + TotalFailed ELSE @,
                            !.error = TotalFailed > 0]
  /\ UNCHANGED <<kind, mapped, sim, stopped, late, sent, unreported, aborted, dbFailed>>
SeenFailed == SumFunction([s \in Simulators |-> sim[s].failed])
StoreBatchForgetsRaised ==
  /\ phase = "storing"
  /\ phase' = "idle"
  /\ count' = [count EXCEPT !.batches = @ + 1,
                            !.failedBatches = IF SeenFailed > 0 THEN @ + 1 ELSE @,
                            !.ok = IF kind = "irp" THEN @ + TotalOk ELSE @,
                            !.failed = IF kind = "irp" THEN @ + TotalFailed ELSE @,
                            !.error = SeenFailed > 0]
  /\ UNCHANGED <<kind, mapped, sim, stopped, late, sent, unreported, aborted, dbFailed>>
StoreBatch ==
  /\ phase = "storing"
  /\ phase' = "idle"
  /\ count' = [count EXCEPT !.batches = @ + 1,
                            !.failedBatches = IF TotalFailed > 0 THEN @ + 1 ELSE @,
                            !.ok = IF kind = "irp" THEN @ + TotalOk ELSE @,
                            !.failed = IF kind = "irp" THEN @ + TotalFailed ELSE @,
                            !.error = TotalFailed > 0]
  /\ UNCHANGED <<kind, mapped, sim, stopped, late, sent, unreported, aborted, dbFailed>>

StoreFails ==
  /\ phase = "storing"
  /\ phase' = "failing"
  /\ dbFailed' = TRUE
  /\ UNCHANGED <<kind, mapped, sim, stopped, late, sent, unreported, aborted, count>>

\* The handler of any exception counts a failed batch ...
StoreError ==
  /\ phase = "failing"
  /\ phase' = "idle"
  /\ count' = [count EXCEPT !.batches = @ + 1, !.failedBatches = @ + 1, !.error = TRUE]
  /\ UNCHANGED <<kind, mapped, sim, stopped, late, sent, unreported, aborted, dbFailed>>

\* ... or raises itself, which ends the loop (LoopManager!BatchRaises).
StoreErrorFails ==
  /\ phase = "failing"
  /\ phase' = "raised"
  /\ dbFailed' = TRUE
  /\ UNCHANGED <<kind, mapped, sim, stopped, late, sent, unreported, aborted, count>>

SimNext(s) ==
  \/ NoMap(s)
  \/ SendTraps(s)
  \/ SendRaises(s)
  \/ CountTraps(s)
  \/ CountFails(s)
  \/ NextMessage(s)
  \/ SendMessage(s)

BatchStep ==
  \/ LoadSchema
  \/ \E s \in Simulators : SimNext(s)
  \/ Gathered
  \/ StoreBatch
  \/ StoreFails
  \/ StoreError
  \/ StoreErrorFails

BatchNext == StartBatch \/ SetStop \/ BatchStep

BatchSpec == BatchInit /\ [][BatchNext]_batchVars

-----------------------------------------------------------------------------
(* Properties.                                                             *)

\* Between batches, the document has counted exactly the traps or messages that
\* were confirmed, although SNMP counts them simulator by simulator and IRP for
\* the whole batch - unless a database call failed or a stop cut a batch short.  What
\* it misses then is what a sender that raised had sent, and nothing else.
SentIsCounted ==
  phase = "idle" /\ ~ dbFailed /\ ~ aborted => count.ok + unreported = sent

\* A batch that leaves no error behind has sent everything to every simulator
\* it has a map for.  (One without a map is passed over in silence: its message
\* is only stored when another simulator has failed.)
NoErrorMeansSent ==
  phase = "idle" /\ count.batches > 0 /\ ~ count.error /\ ~ aborted =>
    \A s \in mapped : sim[s].ok = Messages

\* Once an IRP loop is told to stop, each simulator sends at most the message
\* it is in the middle of ("Event to check between messages for early abort").
StopsWithinOneMessage == kind = "irp" => \A s \in Simulators : late[s] <= 1
=============================================================================
