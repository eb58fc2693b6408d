----------------------------- MODULE TrapReply -----------------------------
(***************************************************************************)
(* A send without streaming: send_snmp_trap_endpoint and                   *)
(* send_irp_messages_endpoint (backend/app/routes/reporter.py) with        *)
(* send_attack_traps (.../snmp/attack_traps.py) and send_irp_messages      *)
(* (.../irp/irp_module.py).  The coroutines that gather runs never await,  *)
(* so the simulators are served one after the other: SNMP traps in         *)
(* sub-batches, each one command on the Sapro host that is confirmed as a  *)
(* whole or not at all; IRP messages one by one, their results in a        *)
(* dictionary under the message's name.  The reply is made from these.     *)
(***************************************************************************)
EXTENDS Integers, Sequences, FiniteSetsExt

CONSTANTS MaxTargets,  \* bound on the number of addresses in a request
          MaxItems,    \* bound on the traps or messages for one address
          SubBatch,    \* _MAX_TRAPS_PER_BATCH
          Names        \* names of IRP messages

ASSUME ReplyAssumption ==
  /\ MaxTargets \in Nat \ {0} /\ MaxItems \in Nat \ {0} /\ SubBatch \in Nat \ {0}

VARIABLES
  protocol,   \* "snmp" or "irp"
  items,      \* items[i]: the names of the messages (or traps) for position i
  at,         \* the position being served
  next,       \* how many of its items are dealt with
  confirmed,  \* confirmed[i]: the items of position i that were confirmed
  results,    \* IRP: results[i]: the names in its results, with their last outcome
  broken,     \* the positions whose sender raised, or gave up with an error
  reply       \* "none" until the request is answered

replyVars == <<protocol, items, at, next, confirmed, results, broken, reply>>

Targets == 1 .. Len(items)
ItemSeqs == UNION {[1 .. n -> Names] : n \in 1 .. MaxItems}

ReplyTypeOK ==
  /\ protocol \in {"snmp", "irp"}
  /\ items \in UNION {[1 .. n -> ItemSeqs] : n \in 1 .. MaxTargets}
  /\ at \in 1 .. Len(items) + 1
  /\ next \in 0 .. MaxItems
  /\ confirmed \in [Targets -> SUBSET (1 .. MaxItems)]
  /\ results \in [Targets -> SUBSET (Names \X BOOLEAN)]
  /\ broken \subseteq Targets
  /\ reply \in {"none", "success", "partial", "failed"}

ReplyInit ==
  /\ protocol \in {"snmp", "irp"}
  /\ items \in UNION {[1 .. n -> ItemSeqs] : n \in 1 .. MaxTargets}
  /\ at = 1
  /\ next = 0
  /\ confirmed = [i \in Targets |-> {}]
  /\ results = [i \in Targets |-> {}]
  /\ broken = {}
  /\ reply = "none"

Serving == reply = "none" /\ at <= Len(items)

\* _execute_trap_batch: the file is not built, the command fails, it does not
\* say "Trap(s) Sent", or it does and counts for the whole sub-batch.
SendSubBatch(ok) ==
  /\ Serving /\ protocol = "snmp"
  /\ next < Len(items[at])
  /\ next' = Min({next + SubBatch, Len(items[at])})
  /\ confirmed' = IF ok THEN [confirmed EXCEPT ![at] = @ \cup (next + 1 .. next')] ELSE confirmed
  /\ UNCHANGED <<protocol, items, at, results, broken, reply>>

\* send_irp_message: a message of the same name replaces the result.
SendIrpMessage(ok) ==
  /\ Serving /\ protocol = "irp"
  /\ next < Len(items[at])
  /\ next' = next + 1
  /\ LET name == items[at][next']
     IN  results' = [results EXCEPT ![at] = {r \in @ : r[1] # name} \cup {<<name, ok>>}]
  /\ confirmed' = IF ok THEN [confirmed EXCEPT ![at] = @ \cup {next'}] ELSE confirmed
  /\ UNCHANGED <<protocol, items, at, broken, reply>>

\* A malformed trap or message: the counts or results so far are given up.
Break ==
  /\ Serving
  /\ next < Len(items[at])
  /\ broken' = broken \cup {at}
  /\ at' = at + 1
  /\ next' = 0
  /\ UNCHANGED <<protocol, items, confirmed, results, reply>>

NextTarget ==
  /\ Serving
  /\ next = Len(items[at])
  /\ at' = at + 1
  /\ next' = 0
  /\ UNCHANGED <<protocol, items, confirmed, results, broken, reply>>

-----------------------------------------------------------------------------
(* The reply.                                                              *)

Answered == Targets \ broken

\* A sender that raised fails as many traps as the request has for everyone.
TrapsOk     == SumFunction([i \in Answered |-> Cardinality(confirmed[i])])
TrapsFailed == SumFunction([i \in Targets |-> IF i \in broken THEN Len(items[1])
                                              ELSE Len(items[i]) - Cardinality(confirmed[i])])

SnmpReply == IF TrapsOk = 0 THEN "failed" ELSE IF TrapsFailed = 0 THEN "success" ELSE "partial"

Outcomes == {r[2] : r \in UNION {results[i] : i \in Answered}}
IrpReplyOverlooksBroken ==
  IF FALSE \notin Outcomes THEN "success" ELSE IF TRUE \notin Outcomes THEN "failed" ELSE "partial"
IrpReply ==
  IF broken = {} /\ FALSE \notin Outcomes THEN "success"
  ELSE IF TRUE \notin Outcomes THEN "failed" ELSE "partial"

Answer ==
  /\ reply = "none"
  /\ at = Len(items) + 1
  /\ reply' = IF protocol = "snmp" THEN SnmpReply ELSE IrpReply
  /\ UNCHANGED <<protocol, items, at, next, confirmed, results, broken>>

ReplyNext ==
  \/ \E ok \in BOOLEAN : SendSubBatch(ok) \/ SendIrpMessage(ok)
  \/ Break
  \/ NextTarget
  \/ Answer

ReplySpec == ReplyInit /\ [][ReplyNext]_replyVars

-----------------------------------------------------------------------------
(* Properties.                                                             *)

\* No address gets two messages of the same name.
DistinctNames == \A i \in Targets : \A j, k \in DOMAIN items[i] : items[i][j] = items[i][k] => j = k

\* "Successfully sent all" is said only when every trap or message for every
\* address was confirmed; "failed to send all" only when none was, the ones of
\* an address whose sender gave up left aside.  Two messages of one name share
\* one result, so for IRP this holds when names are distinct.
ReplyIsTrue ==
  protocol = "snmp" \/ DistinctNames =>
    /\ reply = "success" => \A i \in Targets : confirmed[i] = DOMAIN items[i]
    /\ reply = "failed"  => \A i \in Answered : confirmed[i] = {}
=============================================================================
