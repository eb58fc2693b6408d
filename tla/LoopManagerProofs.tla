------------------------- MODULE LoopManagerProofs -------------------------
(***************************************************************************)
(* Proofs about LoopManager for any users, requests, tasks and MaxRuns.    *)
(***************************************************************************)
EXTENDS LoopManager, TLAPS

\* Type correctness of the loop manager's state, for every instance.
THEOREM TypeCorrect == Spec => []TypeOK
<1> USE LoopAssumption DEF TypeOK, TaskPCs, Runs
<1>0. /\ FreeTask \in [pc : TaskPCs, user : Users, run : Runs, stop : BOOLEAN]
      /\ IdleStart \in [pc : {"idle", "storing", "stored"}, user : Users, run : Runs]
      /\ IdleStop \in [pc : {"idle", "marking"}, user : Users]
  <2>1. AnyUser \in Users
    BY DEF AnyUser
  <2>2. QED
    BY <2>1 DEF FreeTask, IdleStart, IdleStop
<1>a. ASSUME TypeOK, NEW u \in Users, MarkInactive(u)
      PROVE  doc' \in [Users -> [active : BOOLEAN, run : Runs]]
  <2>1. [doc[u] EXCEPT !.active = FALSE] \in [active : BOOLEAN, run : Runs]
    <3>1. doc[u] \in [active : BOOLEAN, run : Runs]
      BY <1>a
    <3>2. QED
      BY <3>1
  <2>2. QED
    BY <1>a, <2>1 DEF MarkInactive
<1>b. ASSUME TypeOK, NEW t \in Tasks, NEW l \in TaskPCs, Goto(t, l)
      PROVE  task' \in [Tasks -> [pc : TaskPCs, user : Users, run : Runs, stop : BOOLEAN]]
  <2>1. task[t] \in [pc : TaskPCs, user : Users, run : Runs, stop : BOOLEAN]
    BY <1>b
  <2>2. [task[t] EXCEPT !.pc = l] \in [pc : TaskPCs, user : Users, run : Runs, stop : BOOLEAN]
    BY <2>1
  <2>3. QED
    BY <1>b, <2>2 DEF Goto
<1>1. Init => TypeOK
  BY <1>0 DEF Init, NoEntries, NoTasks, NoStarts, NoStops
<1>2. TypeOK /\ [Next]_vars => TypeOK'
  <2> SUFFICES ASSUME TypeOK, [Next]_vars PROVE TypeOK'
    OBVIOUS
  <2>1. ASSUME NEW t \in Tasks, TaskNext(t) PROVE TypeOK'
    <3>1. CASE Begin(t)
      BY <3>1 DEF Begin, Goto, TaskStep
    <3>2. CASE BatchSent(t)
      BY <3>2 DEF BatchSent, Goto, TaskStep
    <3>3. CASE BatchRaises(t)
      BY <3>3 DEF BatchRaises, Goto, TaskStep
    <3>4. CASE WakeUp(t)
      BY <3>4 DEF WakeUp, Goto, TaskStep
    <3>5. CASE DelayOver(t)
      BY <3>5 DEF DelayOver, Goto, TaskStep
    <3>6. CASE Close(t)
      <4>1. doc' \in [Users -> [active : BOOLEAN, run : Runs]]
        BY <3>6, <1>a DEF Close
      <4>2. QED
        BY <3>6, <4>1, <1>b DEF Close
    <3>7. CASE CloseFails(t)
      BY <3>7 DEF CloseFails, Goto
    <3>8. CASE TaskDone(t)
      BY <3>8, <1>0 DEF TaskDone
    <3>9. QED
      BY <2>1, <3>1, <3>2, <3>3, <3>4, <3>5, <3>6, <3>7, <3>8 DEF TaskNext
  <2>2. ASSUME NEW s \in Starters, NEW u \in Users, StartLoop(s, u) PROVE TypeOK'
    BY <2>2 DEF StartLoop
  <2>3. ASSUME NEW s \in Starters, StoreConfig(s) PROVE TypeOK'
    BY <2>3 DEF StoreConfig
  <2>4. ASSUME NEW s \in Starters, StoreFails(s) PROVE TypeOK'
    BY <2>4, <1>0 DEF StoreFails
  <2>5. ASSUME NEW s \in Starters, StartStored(s) PROVE TypeOK'
    BY <2>5, <1>0 DEF StartStored, StartLoopTask
  <2>6. ASSUME NEW p \in Stoppers, NEW u \in Users, StopLoop(p, u) PROVE TypeOK'
    <3>1. reg[u] \in Tasks
      BY <2>6 DEF StopLoop
    <3>2. [task[reg[u]] EXCEPT !.stop = TRUE]
            \in [pc : TaskPCs, user : Users, run : Runs, stop : BOOLEAN]
      <4>1. task[reg[u]] \in [pc : TaskPCs, user : Users, run : Runs, stop : BOOLEAN]
        BY <3>1
      <4>2. QED
        BY <4>1
    <3>3. task' \in [Tasks -> [pc : TaskPCs, user : Users, run : Runs, stop : BOOLEAN]]
      BY <2>6, <3>1, <3>2 DEF StopLoop
    <3>4. QED
      BY <2>6, <3>3 DEF StopLoop
  <2>7. ASSUME NEW p \in Stoppers, StopMark(p) \/ StopMarkFails(p) PROVE TypeOK'
    <3>1. stop' \in [Stoppers -> [pc : {"idle", "marking"}, user : Users]]
      BY <2>7, <1>0 DEF StopMark, StopMarkFails
    <3>2. doc' \in [Users -> [active : BOOLEAN, run : Runs]]
      BY <2>7, <1>a DEF StopMark, StopMarkFails
    <3>3. QED
      BY <2>7, <3>1, <3>2 DEF StopMark, StopMarkFails
  <2>8. CASE Boot
    BY <2>8 DEF Boot
  <2>9. ASSUME NEW u \in Users, Restore(u) PROVE TypeOK'
    <3>1. doc' \in [Users -> [active : BOOLEAN, run : Runs]]
      BY <2>9, <1>a DEF Restore
    <3>2. /\ reg' \in [Users -> Tasks \cup {NoTask}]
          /\ task' \in [Tasks -> [pc : TaskPCs, user : Users, run : Runs, stop : BOOLEAN]]
      <4>1. doc[u].run \in Runs
        OBVIOUS
      <4>2. CASE UNCHANGED <<task, reg>>
        BY <4>2
      <4>3. CASE StartLoopTask(u, doc[u].run)
        BY <4>1, <4>3 DEF StartLoopTask
      <4>4. QED
        BY <2>9, <4>2, <4>3 DEF Restore
    <3>3. QED
      BY <2>9, <3>1, <3>2 DEF Restore
  <2>10. CASE RestoreFails
    BY <2>10 DEF RestoreFails
  <2>11. CASE Serve
    BY <2>11 DEF Serve
  <2>12. CASE ShutDown
    BY <2>12 DEF ShutDown
  <2>13. ASSUME NEW t \in Tasks, CancelNext(t) PROVE TypeOK'
    <3>1. doc' \in [Users -> [active : BOOLEAN, run : Runs]]
      BY <2>13, <1>a DEF CancelNext, Cancel
    <3>2. task' \in [Tasks -> [pc : TaskPCs, user : Users, run : Runs, stop : BOOLEAN]]
      BY <2>13, <1>b DEF CancelNext, Cancel
    <3>3. QED
      BY <2>13, <3>1, <3>2 DEF CancelNext
  <2>14. CASE Exit \/ Crash
    <3>1. LoseMemory /\ UNCHANGED <<doc, runs, over, lost>>
      BY <2>14 DEF Exit, Crash
    <3>2. QED
      BY <3>1, <1>0 DEF LoseMemory, NoEntries, NoTasks, NoStarts, NoStops
  <2>15. ASSUME NEW r \in Runs, Expire(r) PROVE TypeOK'
    BY <2>15 DEF Expire
  <2>16. CASE UNCHANGED vars
    BY <2>16 DEF vars
  <2>17. QED
    BY <2>1, <2>2, <2>3, <2>4, <2>5, <2>6, <2>7, <2>8, <2>9, <2>10, <2>11, <2>12,
       <2>13, <2>14, <2>15, <2>16 DEF Next, RequestNext, ServerNext
<1>3. QED
  BY <1>1, <1>2, PTL DEF Spec

-----------------------------------------------------------------------------
(* Every loop is tracked, unless two start requests of one user overlap.   *)

\* No user has two start_loop calls in progress.
OneStartPerUser ==
  \A r, s \in Starters :
    /\ start[r].pc # "idle"
    /\ start[s].pc # "idle"
    /\ start[r].user = start[s].user
    => r = s

\* A start request is served by a running server, for a user without an entry:
\* nobody else registers one between its check and its task.
StartsAreFresh ==
  \A s \in Starters : start[s].pc # "idle" => /\ srv = "up"
                                              /\ reg[start[s].user] = NoTask

\* initialize meets users without an entry, before any request.
RestoresAreFresh ==
  /\ srv = "down" => \A u \in Users : reg[u] = NoTask
  /\ todo # {} => srv = "starting"
  /\ \A u \in todo : reg[u] = NoTask

IInv == EveryLoopIsTracked /\ StartsAreFresh /\ RestoresAreFresh

\* The inductive invariant holds when the server has not been started yet.
LEMMA InvInit == Init => IInv
  BY DEF Init, IInv, EveryLoopIsTracked, IsLive, StartsAreFresh, RestoresAreFresh,
     NoEntries, NoTasks, NoStarts, FreeTask, IdleStart

\* A task that starts for a user without an entry, and is registered, leaves
\* every task tracked.
LEMMA StartTracked ==
  ASSUME TypeOK, EveryLoopIsTracked, NEW u \in Users, NEW r \in Runs,
         reg[u] = NoTask, StartLoopTask(u, r)
  PROVE  /\ EveryLoopIsTracked'
         /\ \A v \in Users \ {u} : reg'[v] = reg[v]
<1> USE LoopAssumption DEF TypeOK
<1>1. PICK t \in Tasks :
        /\ task[t].pc = "none"
        /\ task' = [task EXCEPT ![t] = [pc |-> "ready", user |-> u, run |-> r, stop |-> FALSE]]
        /\ reg' = [reg EXCEPT ![u] = t]
  BY DEF StartLoopTask
<1>2. ASSUME NEW k \in Tasks, IsLive(k)' PROVE reg'[task'[k].user] = k
  <2>1. CASE k = t
    BY <1>1, <2>1
  <2>2. CASE k # t
    <3>1. IsLive(k) /\ task'[k] = task[k]
      BY <1>1, <1>2, <2>2 DEF IsLive
    <3>2. reg[task[k].user] = k /\ task[k].user # u
      BY <3>1 DEF EveryLoopIsTracked
    <3>3. QED
      BY <1>1, <3>1, <3>2
  <2>3. QED
    BY <2>1, <2>2
<1>3. QED
  BY <1>1, <1>2 DEF EveryLoopIsTracked

\* A step that neither registers nor starts anything keeps every loop tracked.
LEMMA SameEntries ==
  ASSUME TypeOK, EveryLoopIsTracked, UNCHANGED reg,
         \A t \in Tasks : IsLive(t)' => IsLive(t) /\ task'[t].user = task[t].user
  PROVE  EveryLoopIsTracked'
  BY DEF EveryLoopIsTracked

\* Every step keeps the inductive invariant as long as no user has two start
\* requests in progress.
LEMMA InvNext ==
  TypeOK /\ OneStartPerUser /\ OneStartPerUser' /\ IInv /\ [Next]_vars => IInv'
<1> SUFFICES ASSUME TypeOK, OneStartPerUser, OneStartPerUser', IInv, [Next]_vars
             PROVE IInv'
  OBVIOUS
<1> USE DEF TypeOK, IInv
<1>1. ASSUME NEW t \in Tasks, TaskNext(t), ~ TaskDone(t) PROVE IInv'
  <2>1. /\ UNCHANGED <<srv, reg, start, todo>>
        /\ task[t].pc # "none"
        /\ \E l \in TaskPCs : Goto(t, l)
    BY <1>1 DEF TaskNext, Begin, BatchSent, BatchRaises, WakeUp, DelayOver, Close,
       CloseFails, TaskStep, TaskPCs
  <2>2. EveryLoopIsTracked'
    BY <2>1, SameEntries DEF Goto, IsLive
  <2>3. QED
    BY <2>1, <2>2 DEF StartsAreFresh, RestoresAreFresh
<1>2. ASSUME NEW t \in Tasks, TaskDone(t) PROVE IInv'
  <2>1. /\ UNCHANGED <<srv, start, todo>>
        /\ IsLive(t) /\ reg[task[t].user] = t
        /\ task' = [task EXCEPT ![t] = FreeTask]
        /\ reg' = [reg EXCEPT ![task[t].user] = NoTask]
    BY <1>2 DEF TaskDone, EveryLoopIsTracked, IsLive
  <2>2. EveryLoopIsTracked'
    BY <2>1 DEF EveryLoopIsTracked, IsLive, FreeTask
  <2>3. \A u \in Users : reg[u] = NoTask => reg'[u] = NoTask
    BY <2>1
  <2>4. QED
    BY <2>1, <2>2, <2>3 DEF StartsAreFresh, RestoresAreFresh
<1>3. ASSUME NEW s \in Starters, NEW u \in Users, StartLoop(s, u) PROVE IInv'
  BY <1>3 DEF StartLoop, EveryLoopIsTracked, IsLive, StartsAreFresh, RestoresAreFresh
<1>4. ASSUME NEW s \in Starters, StoreConfig(s) PROVE IInv'
  BY <1>4 DEF StoreConfig, EveryLoopIsTracked, IsLive, StartsAreFresh, RestoresAreFresh
<1>5. ASSUME NEW s \in Starters, StoreFails(s) PROVE IInv'
  BY <1>5 DEF StoreFails, EveryLoopIsTracked, IsLive, StartsAreFresh, RestoresAreFresh,
     IdleStart
<1>6. ASSUME NEW s \in Starters, StartStored(s) PROVE IInv'
  <2> DEFINE u == start[s].user
  <2>1. /\ start[s].pc # "idle"
        /\ srv = "up" /\ reg[u] = NoTask /\ todo = {}
        /\ StartLoopTask(u, start[s].run)
        /\ start' = [start EXCEPT ![s] = IdleStart]
        /\ UNCHANGED <<srv, todo>>
    BY <1>6 DEF StartStored, StartsAreFresh, RestoresAreFresh
  <2>2. EveryLoopIsTracked' /\ \A v \in Users \ {u} : reg'[v] = reg[v]
    BY <2>1, StartTracked
  <2>3. ASSUME NEW r \in Starters, start'[r].pc # "idle"
        PROVE  srv' = "up" /\ reg'[start'[r].user] = NoTask
    <3>1. r # s /\ start'[r] = start[r]
      BY <2>1, <2>3 DEF IdleStart
    <3>2. start[r].user # u
      BY <2>1, <2>3, <3>1 DEF OneStartPerUser
    <3>3. QED
      BY <2>1, <2>2, <2>3, <3>1, <3>2 DEF StartsAreFresh
  <2>4. QED
    BY <2>1, <2>2, <2>3 DEF StartsAreFresh, RestoresAreFresh
<1>7. ASSUME NEW p \in Stoppers, NEW u \in Users, StopLoop(p, u) PROVE IInv'
  <2>1. /\ UNCHANGED <<srv, reg, start, todo>>
        /\ \A t \in Tasks : task'[t].pc = task[t].pc /\ task'[t].user = task[t].user
    BY <1>7 DEF StopLoop
  <2>2. EveryLoopIsTracked'
    BY <2>1, SameEntries DEF IsLive
  <2>3. QED
    BY <2>1, <2>2 DEF StartsAreFresh, RestoresAreFresh
<1>8. ASSUME UNCHANGED <<srv, reg, start, todo, task>> PROVE IInv'
  BY <1>8 DEF EveryLoopIsTracked, IsLive, StartsAreFresh, RestoresAreFresh
<1>9. ASSUME NEW p \in Stoppers, StopMark(p) \/ StopMarkFails(p) PROVE IInv'
  BY <1>8, <1>9 DEF StopMark, StopMarkFails
<1>10. ASSUME NEW r \in Runs, Expire(r) PROVE IInv'
  BY <1>8, <1>10 DEF Expire
<1>11. ASSUME NEW u \in Users, Restore(u) PROVE IInv'
  <2>1. /\ srv = "starting" /\ u \in todo /\ reg[u] = NoTask
        /\ todo' = todo \ {u}
        /\ UNCHANGED <<srv, start>>
    BY <1>11 DEF Restore, RestoresAreFresh
  <2>2. CASE UNCHANGED <<task, reg>>
    BY <2>1, <2>2 DEF EveryLoopIsTracked, IsLive, StartsAreFresh, RestoresAreFresh
  <2>3. CASE StartLoopTask(u, doc[u].run)
    <3>1. EveryLoopIsTracked' /\ \A v \in Users \ {u} : reg'[v] = reg[v]
      BY <2>1, <2>3, StartTracked
    <3>2. QED
      BY <2>1, <3>1 DEF StartsAreFresh, RestoresAreFresh
  <2>4. QED
    BY <1>11, <2>2, <2>3 DEF Restore
<1>12. CASE Boot \/ RestoreFails \/ Serve \/ ShutDown
  BY <1>12 DEF Boot, RestoreFails, Serve, ShutDown, EveryLoopIsTracked, IsLive,
     StartsAreFresh, RestoresAreFresh
<1>13. ASSUME NEW t \in Tasks, CancelNext(t) PROVE IInv'
  <2>1. /\ UNCHANGED <<srv, reg, start, todo>>
        /\ \A k \in Tasks : IsLive(k)' => IsLive(k) /\ task'[k].user = task[k].user
    BY <1>13 DEF CancelNext, Cancel, Goto, IsLive
  <2>2. EveryLoopIsTracked'
    BY <2>1, SameEntries
  <2>3. QED
    BY <2>1, <2>2 DEF StartsAreFresh, RestoresAreFresh
<1>14. CASE Exit \/ Crash
  BY <1>14 DEF Exit, Crash, LoseMemory, NoEntries, NoTasks, NoStarts, FreeTask,
     IdleStart, EveryLoopIsTracked, IsLive, StartsAreFresh, RestoresAreFresh
<1>15. CASE UNCHANGED vars
  BY <1>8, <1>15 DEF vars
<1>16. QED
  BY <1>1, <1>2, <1>3, <1>4, <1>5, <1>6, <1>7, <1>9, <1>10, <1>11, <1>12, <1>13,
     <1>14, <1>15 DEF Next, RequestNext, ServerNext

\* Every loop is tracked in every behaviour in which no user has two start
\* requests in progress at once: the double start of LoopDoubleStart.cfg is the
\* only way to a loop that stop_loop and shutdown cannot reach.
THEOREM EveryLoopIsTrackedHolds ==
  Spec /\ []OneStartPerUser => []EveryLoopIsTracked
<1>1. IInv => EveryLoopIsTracked
  BY DEF IInv
<1>2. QED
  BY <1>1, InvInit, InvNext, TypeCorrect, PTL DEF Spec

-----------------------------------------------------------------------------
(* An entry names a task of its user, also when starts of one user overlap. *)

\* A step that leaves the entries and the tasks' users alone, and ends nobody, keeps
\* every entry's task.
LEMMA SameLive ==
  ASSUME EntriesAreLive, UNCHANGED reg,
         \A u \in Users : reg[u] # NoTask /\ IsLive(reg[u]) =>
           IsLive(reg[u])' /\ task'[reg[u]].user = task[reg[u]].user
  PROVE  EntriesAreLive'
  BY DEF EntriesAreLive, IsLive

\* A new task is registered for its user, under a name no entry has.
LEMMA StartLive ==
  ASSUME TypeOK, EntriesAreLive, NEW u \in Users, NEW r \in Runs, StartLoopTask(u, r)
  PROVE  EntriesAreLive'
<1>1. PICK t \in Tasks :
        /\ task[t].pc = "none"
        /\ task' = [task EXCEPT ![t] = [pc |-> "ready", user |-> u, run |-> r, stop |-> FALSE]]
        /\ reg' = [reg EXCEPT ![u] = t]
  BY DEF StartLoopTask
<1>2. /\ task'[t].pc = "ready" /\ task'[t].user = u
      /\ \A k \in Tasks \ {t} : task'[k] = task[k]
      /\ reg'[u] = t /\ \A v \in Users \ {u} : reg'[v] = reg[v]
  BY <1>1 DEF TypeOK
<1>3. ASSUME NEW v \in Users, reg'[v] # NoTask
      PROVE  task'[reg'[v]].pc # "none" /\ task'[reg'[v]].user = v
  <2>1. CASE v = u
    BY <1>2, <2>1
  <2>2. CASE v # u
    <3>1. reg'[v] = reg[v] /\ reg[v] \in Tasks
      BY <1>2, <1>3, <2>2 DEF TypeOK
    <3>2. task[reg[v]].pc # "none" /\ task[reg[v]].user = v
      BY <1>3, <3>1 DEF EntriesAreLive, IsLive
    <3>3. QED
      BY <1>1, <1>2, <3>1, <3>2
  <2>3. QED
    BY <2>1, <2>2
<1>4. QED
  BY <1>3 DEF EntriesAreLive, IsLive

\* The done callback frees the name of its task, and the only entry that may have it.
LEMMA DoneLive ==
  ASSUME TypeOK, EntriesAreLive, NEW t \in Tasks, TaskDone(t)
  PROVE  EntriesAreLive'
<1>1. /\ task' = [task EXCEPT ![t] = FreeTask]
      /\ reg' = [reg EXCEPT ![task[t].user] = NoTask] /\ task[t].user \in Users
  BY DEF TaskDone, TypeOK
<1>2. ASSUME NEW v \in Users, reg'[v] # NoTask
      PROVE  task'[reg'[v]].pc # "none" /\ task'[reg'[v]].user = v
  <2>1. v # task[t].user /\ reg'[v] = reg[v] /\ reg[v] \in Tasks
    BY <1>1, <1>2 DEF TypeOK
  <2>2. task[reg[v]].pc # "none" /\ task[reg[v]].user = v
    BY <1>2, <2>1 DEF EntriesAreLive, IsLive
  <2>3. task'[reg[v]] = task[reg[v]]
    BY <1>1, <2>1, <2>2 DEF TypeOK
  <2>4. QED
    BY <2>1, <2>2, <2>3
<1>3. QED
  BY <1>2 DEF EntriesAreLive, IsLive

\* Every step keeps the entries' tasks.
LEMMA LiveNext == TypeOK /\ EntriesAreLive /\ [Next]_vars => EntriesAreLive'
<1> SUFFICES ASSUME TypeOK, EntriesAreLive, [Next]_vars PROVE EntriesAreLive'
  OBVIOUS
<1>1. ASSUME NEW t \in Tasks, TaskNext(t) PROVE EntriesAreLive'
  <2>1. CASE TaskDone(t)
    BY <2>1, DoneLive
  <2>2. CASE ~ TaskDone(t)
    <3>1. UNCHANGED reg /\ \E l \in TaskPCs \ {"none"} : Goto(t, l)
      BY <1>1, <2>2 DEF TaskNext, Begin, BatchSent, BatchRaises, WakeUp, DelayOver, Close,
         CloseFails, TaskStep, TaskPCs
    <3>2. \A k \in Tasks : IsLive(k) => IsLive(k)' /\ task'[k].user = task[k].user
      BY <3>1 DEF Goto, IsLive, TypeOK
    <3>3. QED
      BY <3>1, <3>2, SameLive DEF TypeOK
  <2>3. QED
    BY <2>1, <2>2
<1>2. ASSUME NEW s \in Starters, StartStored(s) PROVE EntriesAreLive'
  BY <1>2, StartLive DEF StartStored, TypeOK
<1>3. ASSUME NEW u \in Users, Restore(u) PROVE EntriesAreLive'
  <2>1. CASE UNCHANGED <<task, reg>>
    BY <2>1 DEF EntriesAreLive, IsLive
  <2>2. CASE StartLoopTask(u, doc[u].run)
    BY <2>2, StartLive DEF TypeOK
  <2>3. QED
    BY <1>3, <2>1, <2>2 DEF Restore
<1>4. ASSUME NEW p \in Stoppers, NEW u \in Users, StopLoop(p, u) PROVE EntriesAreLive'
  <2>1. /\ UNCHANGED reg
        /\ \A t \in Tasks : task'[t].pc = task[t].pc /\ task'[t].user = task[t].user
    BY <1>4 DEF StopLoop, TypeOK
  <2>2. QED
    BY <2>1, SameLive DEF IsLive, TypeOK
<1>5. ASSUME NEW t \in Tasks, CancelNext(t) PROVE EntriesAreLive'
  <2>1. /\ UNCHANGED reg
        /\ \A k \in Tasks : IsLive(k) => IsLive(k)' /\ task'[k].user = task[k].user
    BY <1>5 DEF CancelNext, Cancel, Goto, IsLive, TypeOK
  <2>2. QED
    BY <2>1, SameLive DEF TypeOK
<1>6. CASE Exit \/ Crash
  BY <1>6 DEF Exit, Crash, LoseMemory, NoEntries, EntriesAreLive
<1>7. ASSUME UNCHANGED <<reg, task>> PROVE EntriesAreLive'
  BY <1>7, SameLive DEF IsLive
<1>8. ASSUME NEW s \in Starters,
             (\E u \in Users : StartLoop(s, u)) \/ StoreConfig(s) \/ StoreFails(s)
      PROVE  EntriesAreLive'
  BY <1>7, <1>8 DEF StartLoop, StoreConfig, StoreFails
<1>9. ASSUME NEW p \in Stoppers, StopMark(p) \/ StopMarkFails(p) PROVE EntriesAreLive'
  BY <1>7, <1>9 DEF StopMark, StopMarkFails
<1>10. CASE Boot \/ RestoreFails \/ Serve \/ ShutDown
  BY <1>7, <1>10 DEF Boot, RestoreFails, Serve, ShutDown
<1>11. ASSUME NEW r \in Runs, Expire(r) PROVE EntriesAreLive'
  BY <1>7, <1>11 DEF Expire
<1>12. CASE UNCHANGED vars
  BY <1>7, <1>12 DEF vars
<1>13. QED
  BY <1>1, <1>2, <1>3, <1>4, <1>5, <1>6, <1>8, <1>9, <1>10, <1>11, <1>12
     DEF Next, RequestNext, ServerNext

\* A user's entry names a task of theirs that exists, for any number of users, tasks
\* and overlapping requests: nobody is turned away, or stopped, for another's loop.
THEOREM EntriesAreLiveHolds == Spec => []EntriesAreLive
<1>1. Init => EntriesAreLive
  BY DEF Init, NoEntries, EntriesAreLive
<1>2. QED
  BY <1>1, LiveNext, TypeCorrect, PTL DEF Spec

-----------------------------------------------------------------------------
(* A document that says active belongs to a loop, or to one about to be    *)
(* created, whatever fails, stops, times out or crashes in between.        *)

\* A task works on the very run that the user's document names.
HasWorker(u) ==
  \E t \in Tasks : task[t].pc \in Working /\ task[t].user = u /\ task[t].run = doc[u].run

\* A start request has stored the user's document and has yet to create the task.
HasStart(u) ==
  \E s \in Starters :
    start[s].pc = "stored" /\ start[s].user = u /\ start[s].run = doc[u].run

\* Requests are served only when initialize has handled every document.
RequestsComeLast ==
  /\ \A s \in Starters : start[s].pc # "idle" => srv = "up"
  /\ srv = "up" => todo = {}

\* From initialize on, an active document is still to be restored, or has its loop
\* or the request that is about to create it.
Accounted(u) == doc[u].active /\ u \notin lost => u \in todo \/ HasWorker(u) \/ HasStart(u)

StatusInv ==
  /\ RequestsComeLast
  /\ srv \in {"starting", "up"} => \A u \in Users : Accounted(u)

\* Before the first start of the server there is no request and no loop.
LEMMA StatusInit == Init => StatusInv
  BY DEF Init, StatusInv, RequestsComeLast, NoStarts, IdleStart

\* A step that leaves a user's document, or makes it inactive or lost, and leaves the
\* work on its run in place, keeps the user accounted for.
LEMMA KeptAccounted ==
  ASSUME TypeOK, NEW u \in Users, Accounted(u),
         (doc'[u].active /\ u \notin lost') =>
            /\ doc[u].active /\ u \notin lost /\ doc'[u].run = doc[u].run
            /\ u \in todo => u \in todo'
            /\ \A t \in Tasks : task[t].pc \in Working /\ task[t].user = u
                                  /\ task[t].run = doc[u].run =>
                 task'[t].pc \in Working /\ task'[t].user = u /\ task'[t].run = task[t].run
            /\ \A s \in Starters : start[s].pc = "stored" => start'[s] = start[s]
  PROVE  Accounted(u)'
  BY DEF Accounted, HasWorker, HasStart

\* A new task works on the run it is given, and no other task changes.
LEMMA StartWorks ==
  ASSUME TypeOK, NEW u \in Users, NEW r \in Runs, StartLoopTask(u, r)
  PROVE  /\ \E t \in Tasks : task'[t].pc \in Working /\ task'[t].user = u /\ task'[t].run = r
         /\ \A t \in Tasks : task[t].pc \in Working => task'[t] = task[t]
<1>1. PICK t \in Tasks :
        /\ task[t].pc = "none"
        /\ task' = [task EXCEPT ![t] = [pc |-> "ready", user |-> u, run |-> r, stop |-> FALSE]]
  BY DEF StartLoopTask
<1>2. task'[t] = [pc |-> "ready", user |-> u, run |-> r, stop |-> FALSE]
  BY <1>1 DEF TypeOK
<1>3. QED
  BY <1>1, <1>2 DEF TypeOK, Working

\* Every step keeps active documents accounted for.
LEMMA StatusNext == TypeOK /\ StatusInv /\ [Next]_vars => StatusInv'
<1> SUFFICES ASSUME TypeOK, StatusInv, [Next]_vars PROVE StatusInv'
  OBVIOUS
<1> USE DEF StatusInv, RequestsComeLast
<1>1. ASSUME NEW t \in Tasks, TaskNext(t) PROVE StatusInv'
  <2>1. UNCHANGED <<srv, start, todo>>
    BY <1>1 DEF TaskNext, Begin, BatchSent, BatchRaises, WakeUp, DelayOver, Close,
       CloseFails, TaskDone, TaskStep
  <2>2. ASSUME NEW u \in Users, Accounted(u) PROVE Accounted(u)'
    <3>1. CASE Begin(t) \/ BatchSent(t) \/ BatchRaises(t) \/ WakeUp(t) \/ DelayOver(t)
      <4>1. /\ UNCHANGED <<doc, lost>>
            /\ \E l \in Working : Goto(t, l)
        BY <3>1 DEF Begin, BatchSent, BatchRaises, WakeUp, DelayOver, TaskStep, Working
      <4>2. \A k \in Tasks : task[k].pc \in Working =>
              task'[k].pc \in Working /\ task'[k].user = task[k].user /\ task'[k].run = task[k].run
        BY <4>1 DEF Goto, TypeOK
      <4>3. QED
        BY <2>1, <2>2, <4>1, <4>2, KeptAccounted
    <3>2. CASE Close(t) \/ CloseFails(t)
      <4>1. /\ Goto(t, "done")
            /\ \/ doc' = [doc EXCEPT ![task[t].user].active = FALSE] /\ UNCHANGED lost
               \/ UNCHANGED doc /\ lost' = lost \cup {task[t].user}
        BY <3>2 DEF Close, CloseFails, MarkInactive
      <4>2. task[t].user \in Users
        BY DEF TypeOK
      <4>3. CASE task[t].user = u
        <5>1. ~ (doc'[u].active /\ u \notin lost')
          BY <4>1, <4>2, <4>3 DEF TypeOK
        <5>2. QED
          BY <5>1 DEF Accounted
      <4>4. CASE task[t].user # u
        <5>1. doc'[u] = doc[u] /\ (u \in lost' <=> u \in lost)
          BY <4>1, <4>2, <4>4 DEF TypeOK
        <5>2. \A k \in Tasks : task[k].user = u => task'[k] = task[k]
          BY <4>1, <4>4 DEF Goto, TypeOK
        <5>3. QED
          BY <2>1, <2>2, <5>1, <5>2, KeptAccounted
      <4>5. QED
        BY <4>3, <4>4
    <3>3. CASE TaskDone(t)
      <4>1. UNCHANGED <<doc, lost>> /\ task[t].pc = "done" /\ task' = [task EXCEPT ![t] = FreeTask]
        BY <3>3 DEF TaskDone
      <4>2. \A k \in Tasks : task[k].pc \in Working => task'[k] = task[k]
        BY <4>1 DEF TypeOK, Working
      <4>3. QED
        BY <2>1, <2>2, <4>1, <4>2, KeptAccounted
    <3>4. QED
      BY <1>1, <3>1, <3>2, <3>3 DEF TaskNext
  <2>3. QED
    BY <2>1, <2>2
<1>2. ASSUME NEW s \in Starters, NEW u \in Users, StartLoop(s, u) PROVE StatusInv'
  <2>1. /\ srv = "up" /\ start[s].pc = "idle"
        /\ UNCHANGED <<srv, doc, task, todo, lost>>
        /\ \A r \in Starters : start[r].pc = "stored" => start'[r] = start[r]
    BY <1>2 DEF StartLoop, TypeOK
  <2>2. \A v \in Users : Accounted(v) => Accounted(v)'
    BY <2>1, KeptAccounted
  <2>3. QED
    BY <2>1, <2>2
<1>3. ASSUME NEW s \in Starters, StoreConfig(s) PROVE StatusInv'
  <2> DEFINE u == start[s].user
  <2>1. /\ start[s].pc = "storing" /\ srv = "up"
        /\ start' = [start EXCEPT ![s].pc = "stored"]
        /\ doc' = [doc EXCEPT ![u] = [active |-> TRUE, run |-> start[s].run]]
        /\ lost' = lost \ {u}
        /\ UNCHANGED <<srv, task, todo>>
    BY <1>3 DEF StoreConfig
  <2>2. u \in Users /\ Accounted(u)'
    <3>1. /\ start'[s].pc = "stored" /\ start'[s].user = u
          /\ start'[s].run = start[s].run /\ doc'[u].run = start[s].run /\ u \in Users
      BY <2>1 DEF TypeOK
    <3>2. HasStart(u)'
      BY <3>1 DEF HasStart
    <3>3. QED
      BY <3>1, <3>2 DEF Accounted
  <2>3. ASSUME NEW v \in Users, v # u, Accounted(v) PROVE Accounted(v)'
    <3>1. /\ doc'[v] = doc[v] /\ (v \in lost' <=> v \in lost)
          /\ \A r \in Starters : start[r].pc = "stored" => start'[r] = start[r]
      BY <2>1, <2>3 DEF TypeOK
    <3>2. QED
      BY <2>1, <2>3, <3>1, KeptAccounted
  <2>4. QED
    BY <2>1, <2>2, <2>3
<1>4. ASSUME NEW s \in Starters, StoreFails(s) PROVE StatusInv'
  <2>1. /\ UNCHANGED <<srv, doc, task, todo, lost>>
        /\ \A r \in Starters : start'[r].pc # "idle" => start[r].pc # "idle"
        /\ \A r \in Starters : start[r].pc = "stored" => start'[r] = start[r]
    BY <1>4 DEF StoreFails, TypeOK, IdleStart
  <2>2. \A v \in Users : Accounted(v) => Accounted(v)'
    BY <2>1, KeptAccounted
  <2>3. QED
    BY <2>1, <2>2
<1>5. ASSUME NEW s \in Starters, StartStored(s) PROVE StatusInv'
  <2> DEFINE u == start[s].user
  <2>1. /\ start[s].pc = "stored"
        /\ StartLoopTask(u, start[s].run)
        /\ start' = [start EXCEPT ![s] = IdleStart]
        /\ UNCHANGED <<srv, doc, todo, lost>>
        /\ u \in Users /\ start[s].run \in Runs
    BY <1>5 DEF StartStored, TypeOK
  <2>2. /\ \E t \in Tasks : task'[t].pc \in Working /\ task'[t].user = u
                              /\ task'[t].run = start[s].run
        /\ \A t \in Tasks : task[t].pc \in Working => task'[t] = task[t]
    BY <2>1, StartWorks
  <2>3. ASSUME NEW v \in Users, Accounted(v) PROVE Accounted(v)'
    <3>1. HasWorker(v) => HasWorker(v)'
      BY <2>1, <2>2 DEF HasWorker
    <3>2. HasStart(v) => HasStart(v)' \/ HasWorker(v)'
      <4>1. ASSUME NEW r \in Starters, start[r].pc = "stored", start[r].user = v,
                   start[r].run = doc[v].run
            PROVE  HasStart(v)' \/ HasWorker(v)'
        <5>1. CASE r = s
          BY <2>1, <2>2, <4>1, <5>1 DEF HasWorker
        <5>2. CASE r # s
          <6>1. start'[r] = start[r]
            BY <2>1, <5>2 DEF TypeOK
          <6>2. QED
            BY <2>1, <4>1, <6>1 DEF HasStart
        <5>3. QED
          BY <5>1, <5>2
      <4>2. QED
        BY <4>1 DEF HasStart
    <3>3. QED
      BY <2>1, <2>3, <3>1, <3>2 DEF Accounted
  <2>4. \A r \in Starters : start'[r].pc # "idle" => start[r].pc # "idle"
    BY <2>1 DEF IdleStart, TypeOK
  <2>5. QED
    BY <2>1, <2>3, <2>4
<1>6. ASSUME NEW p \in Stoppers, NEW u \in Users, StopLoop(p, u) PROVE StatusInv'
  <2>1. /\ UNCHANGED <<srv, doc, start, todo, lost>>
        /\ \A t \in Tasks : /\ task'[t].pc = task[t].pc
                            /\ task'[t].user = task[t].user
                            /\ task'[t].run = task[t].run
    BY <1>6 DEF StopLoop, TypeOK
  <2>2. \A v \in Users : Accounted(v) => Accounted(v)'
    BY <2>1, KeptAccounted
  <2>3. QED
    BY <2>1, <2>2
<1>7. ASSUME NEW p \in Stoppers, StopMark(p) \/ StopMarkFails(p) PROVE StatusInv'
  <2>1. /\ UNCHANGED <<srv, task, start, todo, lost>>
        /\ UNCHANGED doc \/ doc' = [doc EXCEPT ![stop[p].user].active = FALSE]
    BY <1>7 DEF StopMark, StopMarkFails, MarkInactive
  <2>2. \A v \in Users : doc'[v].active => doc'[v] = doc[v]
    <3>1. stop[p].user \in Users
      BY DEF TypeOK
    <3>2. QED
      BY <2>1, <3>1 DEF TypeOK
  <2>3. \A v \in Users : Accounted(v) => Accounted(v)'
    BY <2>1, <2>2, KeptAccounted
  <2>4. QED
    BY <2>1, <2>3
<1>8. CASE Boot
  BY <1>8 DEF Boot, Accounted
<1>9. ASSUME NEW u \in Users, Restore(u) PROVE StatusInv'
  <2>1. /\ srv = "starting" /\ u \in todo /\ todo' = todo \ {u}
        /\ UNCHANGED <<srv, start, lost>>
        /\ doc[u].run \in Runs
    BY <1>9 DEF Restore, TypeOK
  <2>2. CASE MarkInactive(u) /\ UNCHANGED <<task, reg>>
    <3>1. /\ ~ doc'[u].active
          /\ \A v \in Users \ {u} : doc'[v] = doc[v]
      BY <2>2 DEF MarkInactive, TypeOK
    <3>2. \A v \in Users : Accounted(v) => Accounted(v)'
      BY <2>1, <2>2, <3>1, KeptAccounted
    <3>3. QED
      BY <2>1, <3>2
  <2>3. CASE StartLoopTask(u, doc[u].run) /\ UNCHANGED doc
    <3>1. /\ \E t \in Tasks : task'[t].pc \in Working /\ task'[t].user = u
                                /\ task'[t].run = doc[u].run
          /\ \A t \in Tasks : task[t].pc \in Working => task'[t] = task[t]
      BY <2>1, <2>3, StartWorks
    <3>2. Accounted(u)'
      BY <2>3, <3>1 DEF Accounted, HasWorker
    <3>3. \A v \in Users \ {u} : Accounted(v) => Accounted(v)'
      BY <2>1, <2>3, <3>1, KeptAccounted
    <3>4. QED
      BY <2>1, <3>2, <3>3
  <2>4. QED
    BY <1>9, <2>2, <2>3 DEF Restore
<1>10. CASE RestoreFails
  <2>1. \A u \in Users : Accounted(u) => Accounted(u)'
    BY <1>10 DEF RestoreFails, Accounted, HasWorker, HasStart
  <2>2. QED
    BY <1>10, <2>1 DEF RestoreFails
<1>11. CASE Serve
  BY <1>11 DEF Serve, Accounted, HasWorker, HasStart
<1>12. CASE ShutDown
  BY <1>12 DEF ShutDown
<1>13. ASSUME NEW t \in Tasks, CancelNext(t) PROVE StatusInv'
  BY <1>13 DEF CancelNext
<1>14. CASE Exit \/ Crash
  BY <1>14 DEF Exit, Crash, LoseMemory, NoStarts, IdleStart
<1>15. ASSUME UNCHANGED <<srv, doc, task, start, todo, lost>> PROVE StatusInv'
  BY <1>15 DEF Accounted, HasWorker, HasStart
<1>16. QED
  BY <1>1, <1>2, <1>3, <1>4, <1>5, <1>6, <1>7, <1>8, <1>9, <1>10, <1>11, <1>12,
     <1>13, <1>14, <1>15 DEF Next, RequestNext, ServerNext, Expire, vars

\* The status a user sees is not a ghost, for any number of users and of requests
\* at once: unless a failed database call left it behind, an active document has a
\* task that works on its run, or a request about to create it.
THEOREM ActiveHasLoopHolds == Spec => []ActiveHasLoop
<1>1. StatusInv => ActiveHasLoop
  BY DEF StatusInv, RequestsComeLast, Accounted, HasWorker, HasStart, ActiveHasLoop
<1>2. QED
  BY <1>1, StatusInit, StatusNext, TypeCorrect, PTL DEF Spec

=============================================================================
