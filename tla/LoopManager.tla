---------------------------- MODULE LoopManager ----------------------------
(***************************************************************************)
(* The life cycle of trap loops in SNMPLoopManager                         *)
(* (backend/app/modules/reporter/snmp/snmp_loop_manager.py); the manager   *)
(* of IRP loops has the same life cycle.  A user's loop is a background    *)
(* task on the event loop, an entry in the manager's dictionaries and a    *)
(* MongoDB document that outlives the process.  Every await is a point     *)
(* where other coroutines run, so an operation that awaits a database call *)
(* is two actions.  The server may crash at any time and may be shut down; *)
(* database calls may fail.                                                *)
(***************************************************************************)
EXTENDS Integers

CONSTANTS Users,     \* users (user_id)
          Starters,  \* start_loop requests that can be in progress at once
          Stoppers,  \* stop_loop requests that can be in progress at once
          Tasks,     \* names for the background tasks that exist at once
          NoTask,    \* value of reg for a user without an entry
          MaxRuns    \* bound on the number of accepted starts

ASSUME LoopAssumption ==
  /\ Users # {}
  /\ NoTask \notin Tasks
  /\ MaxRuns \in Nat

VARIABLES
  srv,        \* the server process: "down", "starting", "up" or "stopping"
  doc,        \* doc[u]: is_active, and start_time as a run number (0: no document)
  reg,        \* _running_tasks and _stop_events, which are always written together
  task,       \* task[t]: where it is, its config's user and start_time, its stop_event
  start,      \* start[s]: a start_loop call, its user and the start_time it stores
  stop,       \* stop[p]: a stop_loop call and its user
  todo,       \* users whose documents initialize has read and not yet handled
  quit,       \* the tasks shutdown has still to cancel
  runs,       \* number of accepted starts
  over,       \* the runs whose loop_timeout has passed
  lost        \* users whose document a failed database call left out of date

vars == <<srv, doc, reg, task, start, stop, todo, quit, runs, over, lost>>

Runs == 0 .. MaxRuns
AnyUser == CHOOSE u \in Users : TRUE

\* "ready": created, not yet run.  "closing": in the finally block.  "done": the
\* done callback is scheduled and has not run.  "none": the name is free.
TaskPCs == {"none", "ready", "sending", "waiting", "closing", "done"}

TypeOK ==
  /\ srv \in {"down", "starting", "up", "stopping"}
  /\ doc \in [Users -> [active : BOOLEAN, run : Runs]]
  /\ reg \in [Users -> Tasks \cup {NoTask}]
  /\ task \in [Tasks -> [pc : TaskPCs, user : Users, run : Runs, stop : BOOLEAN]]
  /\ start \in [Starters -> [pc : {"idle", "storing", "stored"}, user : Users, run : Runs]]
  /\ stop \in [Stoppers -> [pc : {"idle", "marking"}, user : Users]]
  /\ todo \in SUBSET Users
  /\ quit \in SUBSET Tasks
  /\ runs \in Runs
  /\ over \in SUBSET Runs
  /\ lost \in SUBSET Users

FreeTask  == [pc |-> "none", user |-> AnyUser, run |-> 0, stop |-> FALSE]
IdleStart == [pc |-> "idle", user |-> AnyUser, run |-> 0]
IdleStop  == [pc |-> "idle", user |-> AnyUser]

NoEntries == [u \in Users |-> NoTask]
NoTasks   == [t \in Tasks |-> FreeTask]
NoStarts  == [s \in Starters |-> IdleStart]
NoStops   == [p \in Stoppers |-> IdleStop]

Init ==
  /\ srv = "down"
  /\ doc = [u \in Users |-> [active |-> FALSE, run |-> 0]]
  /\ reg = NoEntries
  /\ task = NoTasks
  /\ start = NoStarts
  /\ stop = NoStops
  /\ todo = {}
  /\ quit = {}
  /\ runs = 0
  /\ over = {}
  /\ lost = {}

-----------------------------------------------------------------------------
(* Documents and tasks.                                                    *)

MarkInactive(u) == doc' = [doc EXCEPT ![u].active = FALSE]

Goto(t, l) == task' = [task EXCEPT ![t].pc = l]

\* _start_loop_task: create the task and register it (it awaits nothing).
StartLoopTask(u, r) ==
  \E t \in Tasks :
    /\ task[t].pc = "none"
    /\ task' = [task EXCEPT ![t] = [pc |-> "ready", user |-> u, run |-> r, stop |-> FALSE]]
    /\ reg' = [reg EXCEPT ![u] = t]

Working == {"ready", "sending", "waiting", "closing"}
IsLive(t) == task[t].pc # "none"

-----------------------------------------------------------------------------
(* start_loop.                                                             *)

\* The check that the user has no loop, and the new configuration.  The clock
\* gives every start a start_time of its own.
StartLoop(s, u) ==
  /\ srv = "up"
  /\ start[s].pc = "idle"
  /\ reg[u] = NoTask
  /\ runs < MaxRuns
  /\ runs' = runs + 1
  /\ start' = [start EXCEPT ![s] = [pc |-> "storing", user |-> u, run |-> runs']]
  /\ UNCHANGED <<srv, doc, reg, task, stop, todo, quit, over, lost>>

\* replace_one takes effect ...
StoreConfig(s) ==
  /\ start[s].pc = "storing"
  /\ start' = [start EXCEPT ![s].pc = "stored"]
  /\ doc' = [doc EXCEPT ![start[s].user] = [active |-> TRUE, run |-> start[s].run]]
  /\ lost' = lost \ {start[s].user}
  /\ UNCHANGED <<srv, reg, task, stop, todo, quit, runs, over>>

\* ... or fails, and the request with it.
StoreFails(s) ==
  /\ start[s].pc = "storing"
  /\ start' = [start EXCEPT ![s] = IdleStart]
  /\ UNCHANGED <<srv, doc, reg, task, stop, todo, quit, runs, over, lost>>

\* The handler resumes and creates the task.
StartStored(s) ==
  /\ start[s].pc = "stored"
  /\ StartLoopTask(start[s].user, start[s].run)
  /\ start' = [start EXCEPT ![s] = IdleStart]
  /\ UNCHANGED <<srv, doc, stop, todo, quit, runs, over, lost>>

-----------------------------------------------------------------------------
(* stop_loop.                                                              *)

\* Signal the registered task; the caller then waits for the document.
StopPopsEntry(p, u) ==
  /\ srv = "up"
  /\ stop[p].pc = "idle"
  /\ reg[u] # NoTask
  /\ task' = [task EXCEPT ![reg[u]].stop = TRUE]
  /\ reg' = [reg EXCEPT ![u] = NoTask]
  /\ stop' = [stop EXCEPT ![p] = [pc |-> "marking", user |-> u]]
  /\ UNCHANGED <<srv, doc, start, todo, quit, runs, over, lost>>
StopLoop(p, u) ==
  /\ srv = "up"
  /\ stop[p].pc = "idle"
  /\ reg[u] # NoTask
  /\ task' = [task EXCEPT ![reg[u]].stop = TRUE]
  /\ stop' = [stop EXCEPT ![p] = [pc |-> "marking", user |-> u]]
  /\ UNCHANGED <<srv, doc, reg, start, todo, quit, runs, over, lost>>

StopMark(p) ==
  /\ stop[p].pc = "marking"
  /\ MarkInactive(stop[p].user)
  /\ stop' = [stop EXCEPT ![p] = IdleStop]
  /\ UNCHANGED <<srv, reg, task, start, todo, quit, runs, over, lost>>

StopMarkFails(p) ==
  /\ stop[p].pc = "marking"
  /\ stop' = [stop EXCEPT ![p] = IdleStop]
  /\ UNCHANGED <<srv, doc, reg, task, start, todo, quit, runs, over, lost>>

-----------------------------------------------------------------------------
(* _loop_executor and _task_done_callback.                                 *)

TaskStep(t) == UNCHANGED <<srv, doc, reg, start, stop, todo, quit, runs, over, lost>>

\* The task runs for the first time and sends its first batch at once.
Begin(t) ==
  /\ task[t].pc = "ready"
  /\ Goto(t, "sending")
  /\ TaskStep(t)

\* A batch is out: stop if told to, stop when the time is over, else wait.
BatchSentNoStopCheck(t) ==
  /\ task[t].pc = "sending"
  /\ Goto(t, IF task[t].run \in over THEN "closing" ELSE "waiting")
  /\ TaskStep(t)
BatchSent(t) ==
  /\ task[t].pc = "sending"
  /\ Goto(t, IF task[t].stop \/ task[t].run \in over THEN "closing" ELSE "waiting")
  /\ TaskStep(t)

\* The batch raises: its result and then its error could not be stored.
BatchRaises(t) ==
  /\ task[t].pc = "sending"
  /\ Goto(t, "closing")
  /\ TaskStep(t)

\* The wait ends because the stop event is set ...
WakeUp(t) ==
  /\ task[t].pc = "waiting"
  /\ task[t].stop
  /\ Goto(t, "closing")
  /\ TaskStep(t)

\* ... or after loop_delay, even if the event is set just then, and the next
\* batch goes out.
DelayOver(t) ==
  /\ task[t].pc = "waiting"
  /\ Goto(t, "sending")
  /\ TaskStep(t)

\* finally: the document is marked inactive, and the task is done ...
Close(t) ==
  /\ task[t].pc = "closing"
  /\ MarkInactive(task[t].user)
  /\ Goto(t, "done")
  /\ UNCHANGED <<srv, reg, start, stop, todo, quit, runs, over, lost>>

\* ... or the write fails, and the task ends with an exception.  Shutdown does
\* not expect one: it gives up when it comes to the task, and never cancels
\* those after it.
CloseFails(t) ==
  /\ task[t].pc = "closing"
  /\ Goto(t, "done")
  /\ lost' = lost \cup {task[t].user}
  /\ quit' \in IF t \in quit THEN SUBSET (quit \ {t}) ELSE {{}}
  /\ UNCHANGED <<srv, doc, reg, start, stop, todo, runs, over>>

\* The done callback removes the user's entry, whichever task it names.
TaskDoneKeepsEntry(t) ==
  /\ task[t].pc = "done"
  /\ task' = [task EXCEPT ![t] = FreeTask]
  /\ UNCHANGED <<srv, doc, reg, start, stop, todo, quit, runs, over, lost>>
TaskDone(t) ==
  /\ task[t].pc = "done"
  /\ task' = [task EXCEPT ![t] = FreeTask]
  /\ reg' = [reg EXCEPT ![task[t].user] = NoTask]
  /\ UNCHANGED <<srv, doc, start, stop, todo, quit, runs, over, lost>>

-----------------------------------------------------------------------------
(* The process: initialize, shutdown, crash.                               *)

\* initialize reads the active documents.  No request is served before it ends.
Boot ==
  /\ srv = "down"
  /\ srv' = "starting"
  /\ todo' = {u \in Users : doc[u].active}
  /\ UNCHANGED <<doc, reg, task, start, stop, quit, runs, over, lost>>

RestoreSkipped(u) ==
  /\ srv = "starting"
  /\ u \in todo
  /\ todo' = todo \ {u}
  /\ UNCHANGED <<srv, doc, reg, task, start, stop, quit, runs, over, lost>>
Restore(u) ==
  /\ srv = "starting"
  /\ u \in todo
  /\ todo' = todo \ {u}
  /\ IF doc[u].run \in over
       THEN /\ MarkInactive(u)
            /\ UNCHANGED <<task, reg>>
       ELSE /\ StartLoopTask(u, doc[u].run)
            /\ UNCHANGED doc
  /\ UNCHANGED <<srv, start, stop, quit, runs, over, lost>>

\* A database error ends initialize early; the server starts all the same.
RestoreFails ==
  /\ srv = "starting"
  /\ todo # {}
  /\ todo' = {}
  /\ lost' = lost \cup todo
  /\ UNCHANGED <<srv, doc, reg, task, start, stop, quit, runs, over>>

Serve ==
  /\ srv = "starting"
  /\ todo = {}
  /\ srv' = "up"
  /\ UNCHANGED <<doc, reg, task, start, stop, todo, quit, runs, over, lost>>

\* shutdown runs when the last request has been answered.
ShutDown ==
  /\ srv = "up"
  /\ \A s \in Starters : start[s].pc = "idle"
  /\ \A p \in Stoppers : stop[p].pc = "idle"
  /\ srv' = "stopping"
  /\ quit' = {reg[u] : u \in Users} \ {NoTask}
  /\ UNCHANGED <<doc, reg, task, start, stop, todo, runs, over, lost>>

\* task.cancel(): a task cancelled before its first step never enters its try
\* block; one in its finally block is interrupted before or after its write
\* takes effect.
Cancel(t) ==
  \/ /\ task[t].pc \in {"none", "done"}
     /\ UNCHANGED <<task, doc>>
  \/ /\ task[t].pc = "ready"
     /\ Goto(t, "done")
     /\ UNCHANGED doc
  \/ /\ task[t].pc \in {"sending", "waiting"}
     /\ Goto(t, "closing")
     /\ UNCHANGED doc
  \/ /\ task[t].pc = "closing"
     /\ Goto(t, "done")
     /\ \/ UNCHANGED doc
        \/ MarkInactive(task[t].user)

\* Shutdown awaits each task it has cancelled before it cancels the next.
Awaiting(u) == reg[u] \notin quit \cup {NoTask} /\ task[reg[u]].pc # "done"

CancelNext(t) ==
  /\ srv = "stopping"
  /\ t \in quit
  /\ \A u \in Users : ~ Awaiting(u)
  /\ Cancel(t)
  /\ quit' = quit \ {t}
  /\ UNCHANGED <<srv, reg, start, stop, todo, runs, over, lost>>

\* The process ends, and with it everything but the documents ...
LoseMemory ==
  /\ srv' = "down"
  /\ reg' = NoEntries
  /\ task' = NoTasks
  /\ start' = NoStarts
  /\ stop' = NoStops
  /\ todo' = {}
  /\ quit' = {}

\* ... after shutdown ...
Exit ==
  /\ srv = "stopping"
  /\ quit = {}
  /\ \A u \in Users : ~ Awaiting(u)
  /\ LoseMemory
  /\ UNCHANGED <<doc, runs, over, lost>>

\* ... or at any other moment.
Crash ==
  /\ srv # "down"
  /\ LoseMemory
  /\ UNCHANGED <<doc, runs, over, lost>>

\* Time passes: the timeout of a run is over.
Expire(r) ==
  /\ r \in 1 .. runs
  /\ r \notin over
  /\ over' = over \cup {r}
  /\ UNCHANGED <<srv, doc, reg, task, start, stop, todo, quit, runs, lost>>

-----------------------------------------------------------------------------
TaskNext(t) ==
  \/ Begin(t)
  \/ BatchSent(t)
  \/ BatchRaises(t)
  \/ WakeUp(t)
  \/ DelayOver(t)
  \/ Close(t)
  \/ CloseFails(t)
  \/ TaskDone(t)

RequestNext ==
  \/ \E s \in Starters : \/ \E u \in Users : StartLoop(s, u)
                         \/ StoreConfig(s)
                         \/ StoreFails(s)
                         \/ StartStored(s)
  \/ \E p \in Stoppers : \/ \E u \in Users : StopLoop(p, u)
                         \/ StopMark(p)
                         \/ StopMarkFails(p)

ServerNext ==
  \/ Boot
  \/ \E u \in Users : Restore(u)
  \/ RestoreFails
  \/ Serve
  \/ ShutDown
  \/ \E t \in Tasks : CancelNext(t)
  \/ Exit
  \/ Crash

Next ==
  \/ \E t \in Tasks : TaskNext(t)
  \/ RequestNext
  \/ ServerNext
  \/ \E r \in Runs : Expire(r)

Spec == Init /\ [][Next]_vars

\* The event loop runs every task that is ready, a wait ends with its delay and
\* a database call returns or raises.  Nobody has to start, stop or expire a loop.
FairSpec == Spec /\ \A t \in Tasks : WF_vars(TaskNext(t))

-----------------------------------------------------------------------------
(* Properties.                                                             *)

\* Every background task, up to its done callback, is the one its user's entry
\* names: stop_loop and shutdown can reach it, and a user never has two loops.
\* ("Raises ValueError: If loop is already running for this user".)
EveryLoopIsTracked == \A t \in Tasks : IsLive(t) => reg[task[t].user] = t

\* Conversely, an entry names a task of that very user that exists: start_loop turns
\* a user away ("Loop already running") only while they have one, whichever of a stop,
\* a timeout, a failure, a cancellation and a second start ended the last; and
\* stop_loop never sets the stop event of somebody else's loop.
EntriesAreLive ==
  \A u \in Users : reg[u] # NoTask => IsLive(reg[u]) /\ task[reg[u]].user = u

\* While the server is up, the status a user sees is not a ghost: a document
\* that says active belongs to a task that works on that very run, or to a
\* start request about to create it - also after a crash and a restart -
\* unless a failed database call left the document behind.
ActiveHasLoop ==
  srv = "up" =>
    \A u \in Users : doc[u].active /\ u \notin lost =>
      \/ \E t \in Tasks : /\ task[t].pc \in Working
                          /\ task[t].user = u
                          /\ task[t].run = doc[u].run
      \/ \E s \in Starters : start[s].pc = "stored" /\ start[s].user = u

\* A loop that was told to stop, or whose time is over, ends and frees its
\* user's entry, in whatever step it is met.
StopTakesEffect ==
  \A t \in Tasks :
    IsLive(t) /\ (task[t].stop \/ task[t].run \in over) ~> ~ IsLive(t)

\* What the manager's documentation says of it and the model refutes.

\* "cancel all running tasks (but keep state in DB)": a loop whose task shutdown
\* has cancelled, and whose time is not over, keeps its document active, so that
\* the next initialize restores it.
ShutdownKeepsState ==
  [][srv = "stopping" =>
       \A u \in Users :
         reg[u] \notin quit \cup {NoTask} /\ doc[u].active /\ doc[u].run \notin over
           => doc'[u].active]_vars

\* A loop nobody asked to stop shows as active.
LoopHasStatus ==
  srv = "up" =>
    \A t \in Tasks : task[t].pc \in {"ready", "sending", "waiting"} /\ ~ task[t].stop
                       => doc[task[t].user].active
=============================================================================
