# SimulatorTools in TLA+

SimulatorTools creates and drives simulated network devices. A FastAPI backend
(`src/backend`) manages devices on a Sapro host over SSH, keeps them in
PostgreSQL, sends SNMP traps and IRP messages to them, at once or in background
loops whose state is in MongoDB, and works with CyberControllers over HTTP and
SSH. A second process, the sapro-proxy (`src/sapro-proxy`), serves HTTPS for
devices that have no SOAP section. A React frontend uses the backend's API.

The state that is hard to get right is spread over processes and stores that no
transaction spans: locks in the backend's memory, background tasks on its event
loop, rows, documents, files and devices on other hosts, sockets of another
process. This directory models those parts, checks them with TLC on small
instances and proves the most important results with TLAPS for instances of
every size.

`PROJECT.json` has the same project as data: the components, the runs, the
lines of source behind every definition, the hazards with their properties, the
findings, the theorems, and for each property a plausible bug that breaks it.

## 1. Inventory

`B` stands for `src/backend/app`.

| Component | State | Operations | Hard behaviour | What makes it correct | Module |
|---|---|---|---|---|---|
| Map locks, `B/utils/map_lock.py` | a lock object per map, created on first use | `lock`, `lock_maps`; `acquire(_maps)`, `release(_maps)` | threads against coroutines, 600 s timeouts, rollback, release in a generator's `finally` | exclusion, no circular wait, an answer to every request | `MapLock`, `ExclusiveMaps` |
| Simulator handlers, `B/routes/sapro.py` | rows of `simulators` | create (single, range, stream), update, update-fields (both forms), delete, list | three stores without a transaction, each step may fail, crash in between, list runs beside everything | the three stores agree, a simulator appears and goes as a whole | `SimulatorRegistry`, `AtomicSimulators` |
| Map control, `B/routes/sapro.py` 975-1103, 1304-1495 | maps on the host, `.map` and `.proj` files | start, stop, create a map; start, stop, restart a simulator | waits of minutes under a lock; `create_map` reads and writes a file without one | a start is undisturbed, no map is lost | `MapControl` |
| Sapro commands, `B/modules/sapro/sapro_client.py` | devices and map files on the Sapro host | create, update, delete, start, stop devices; maps; `get_all_devices` | answers are lost, a command reports failure after it has had its effect | effect and answer, as far as callers can tell | in `SimulatorRegistry`, `MapControl`, `PollingLoad` |
| SSH clients, `B/utils/sapro_ssh.py`, `cc_ssh.py` | a connection each, a pool of 24 | connect with retries, execute, copy | commands outlive their timeout, reconnects, a lock per client | a command is sent once, a connection has one user | `SshClient` |
| SNMP and IRP loops, `B/modules/reporter/{snmp,irp}/*_loop_manager.py` | `_running_tasks`, `_stop_events`, documents | `initialize`, `shutdown`, `start_loop`, `stop_loop`, the executor, the done callback | every `await` interleaves; crash and restart; a stop races a timeout | one reachable loop per user, honest status, stop takes effect | `LoopManager` |
| Their batches, `_send_batch` | counters and errors in the loop's document | one coroutine per simulator, results written one by one (SNMP) or at the end (IRP) | partial failures, failing writes, a stop between two messages | counters add up, a failure is seen, a stop is quick | `LoopBatch` |
| Loop routes, `B/routes/reporter.py` 1919-2061 | loop documents of all users | `start_snmp_loop`, `stop_snmp_loop` | check, await, act; rounding | the capacity holds, the 409 offers the largest number | `LoopRoutes` |
| Trap sending, `B/modules/reporter/snmp/attack_traps.py`, `.../irp/irp_module.py`, `B/routes/reporter.py` | results of one request | sub-batches of traps, messages one by one, the reply | nested results, some of them errors | the reply says what happened | `TrapReply` |
| Streaming progress, `B/routes/reporter.py` 1069-1125 and its IRP twin | a queue, a set of completed simulators | produce, poll, gather, drain | a sender that raises, a client that leaves, events behind the last look | every event arrives, the stream ends | `TrapStream` |
| Polling structures, `B/routes/reporter.py` 680-800, `.../polling/` | an XMF file, each device's Soap element | write, load into each device | one device of several fails, field updates in between | "all loaded" means it | `PollingLoad` |
| IRP templates and builder, `.../irp/tools/template_generator.py`, `message_builder.py` | none | format to JSON, JSON to bytes | the builder follows the JSON, the receiver the format; containers are guessed from their names | a receiver reads what the user wrote | `IrpMessage` |
| IRP message test, `.../irp/core/message_testing_coordinator.py`, `udp_listener.py`, `pcap_extractor.py`, `B/routes/reporter.py` 1394-1543 | two threads, a socket on port 2088, a capture file | send after two seconds, listen, write the file, parse it | joins with time limits, threads that outlive their test | the verdict is on the test's own message | `MessageTest` |
| CC sessions and devices, `B/routes/cybercontroller.py` 75-1129, `B/modules/cc/cc_client.py` | `cc_sessions` rows, cached handlers with cookies | login, logout, add, delete, validate devices, three streams | users share a handler; sessions expire; a failed device is met again in the next phase | sessions stay apart, counters add up, streams complete | `CCSession` |
| CC data formats, `B/routes/cybercontroller.py` 1200-1640, `cc_client.py` | files on the controller, their backups | upload, download | fallback to the closest lower version, failed reads | the schema served is the one meant | `DataFormat` |
| Driver deploy jobs, `B/routes/cybercontroller.py` 2000-2250, `B/utils/device_driver.py` | job and driver documents, JARs, a script on the host | upload, deploy, run, poll | restart in the middle, failing progress writes, two jobs on one script | counters heal, every job ends | `DeployJob` |
| Proxy listeners, `src/sapro-proxy/proxy/listener_manager.py` | `active_listeners`, sockets | `sync`, start and stop of a listener, poll loop | half-failed binds, busy servers, restarts, stale snapshots | no orphan socket, all ports or none, convergence | `ProxyListener` |

Not modelled, and why:

| Component | Reason |
|---|---|
| Proxy request handlers | a function from a request to a response; file reads |
| IP ranges (`parse_ip_range`) | a pure function of a few lines, see section 6 |
| IRP parser | a jar behind a command line; what a test makes of its end is in `MessageTest` |
| OID compiler, template converter | text to text, no state |
| Users, roles, permissions, favourites, SNMP templates, health | one row or document, one statement |
| Database set-up, seeds, scripts | connection objects, one-off scripts |
| Frontend | pages over the API; its inactivity timer and loop store are small and keep no shared state |

## 2. Modules

    ExclusiveMaps  <--implements--  MapLock             (MapLockProofs)
          ^
          | INSTANCE (variables asked, inside)
    SimulatorRegistry  --variable ear-->  ProxyListener  (SimulatorRegistryProofs,
          |                                               ConnectionProofs)
          | implements
          v
    AtomicSimulators                                     (SimulatorRegistryProofs)
    LoopManager                                          (LoopManagerProofs)

    Reporter     = TrapStream | TrapReply | MessageTest | PollingLoad   (ReporterProofs)
                   | LoopBatch | LoopRoutes                             (LoopProofs)
    MCReporter   = Reporter | IrpMessage
    MCHost       = SshClient | MapControl | DeployJob                   (HostProofs)
    MCController = CCSession | DataFormat                               (ConnectionProofs)

    SumLemmas: sums over finite sets, for LoopProofs and ReporterProofs

`Reporter`, `MCReporter`, `MCHost` and `MCController` put components side by side that share
no state. A variable `part`, chosen in the initial state, says which of them moves in a behaviour; the
others keep one initial state. The state graph is thus the union of the
components' own graphs and not their product, and each property is decided by
the graph of its component. These components come to rest (their requests are
bounded or they end), so deadlock is not checked there; it is checked in all
other runs, where the environment can always act. `MCRegistry` puts two instances of
`SimulatorRegistry` side by side in the same way.

**ExclusiveMaps** is what the lock manager promises a handler: it runs with all
the maps it named to itself, or is refused (409) without having run.

**MapLock** is the lock manager and its two kinds of client. A map is its rank in
the sorted order of names. A *thread* is a synchronous handler in the worker
pool (`with lock_maps(...)`); a *stream* is an `async` handler that acquires on
the event loop and releases in its generator. `loop` says which stream occupies
the event loop, which is what makes a blocking `acquire` there interesting. Lock
objects are numbers that know no owner, like `threading.Lock`; `ref` is the
object a process was handed, `lockOf` the dictionary. One step is one call that
another thread can see: a dictionary look-up under the guard, an acquire that
succeeds, a timeout, one release.

**SimulatorRegistry** composes the handlers with the promise of ExclusiveMaps
(that MapLock keeps it is proved, so the registry need not repeat it). `dev` is
the Sapro host, `row` the table, `ear` the listener documents; `op[o]` is a
request with its local variables. Each call to a store is a step, except three
pairs no other request can tell apart: a device of a range with its listener
document, a single create's row with its listener document, and the row of an
update with its listener document. A commit may go through and reading the rows
back may fail, which the code takes for a failed commit. Every call may fail;
Sapro commands may fail after their effect. `stray` and `mute` are history:
addresses at which a failure or crash may have left the stores at odds, so that
the invariants speak about everything else. Handlers that check rows *before*
the lock (stream) and those that check *under* it are distinguished; `list`
takes no map lock and works on a snapshot in which some maps may be missing
(stopped, unreadable, another workspace). An update deletes on the *new* map's
path, as the code does.

**AtomicSimulators** is what the handlers promise to somebody who does not know
about the three stores: a simulator is there, on one map with one template, or it
is not. A create makes all it has in hand appear at once where nothing was, a
simulator's template changes or it goes in one step, it never moves, and a failure
or crash may lose what requests have in hand and nothing else. Under the
refinement mapping (`Simulator(ip)`) an address in `stray` is lost; a simulator is
there from the commit of its row until its device is deleted; while an update
has its device withdrawn, it is the device the update will make.

**MapControl** has the other handlers of `sapro.py`. `req[h]` is the request of a
thread; `lock` is MapLock's promise for a single map; `map` and `sim` are states
on the host, `row` the status in the database. A start sends its command and
polls under its lock; `start_simulator` gives the lock back before it waits for
its devices and writes their rows. `create_map` is three steps, a read and two
writes, with no lock.

**SshClient** is a pool of clients and their calls. A ticket is the value of
`_pool_index` a call was handed; `host[k]` counts how often the host has started
and finished the command of ticket `k`, so that a command that outlives its
call's timeout is still there. `CCSSHClient` is a pool of one.

**LoopManager** is the life cycle of a user's loop: a start is check, store,
create task; a stop is signal, then write; a task alternates between sending and
waiting, closes in its `finally` block and is removed by its done callback. The
process boots, restores loops from their documents, serves, shuts down by
cancelling one task after the other, or crashes. `over` is the set of runs whose
timeout has passed. `lost` is history: users whose document a failed database
call left out of date. `reg` stands for `_running_tasks` and `_stop_events`,
which every method writes together. The SNMP and the IRP manager are the same
line by line as far as this goes.

**LoopBatch** refines LoopManager's step "sending" of one task: a coroutine for
each simulator, whose send and whose database call are steps. SNMP sends all
traps of a simulator in one call and counts them at once; IRP looks at the stop
event before each message and counts when the batch is over. The call of SNMP sends
sub-batches of ten, and may raise after the first ones: what they had confirmed is
`sent`, but no number is returned (`unreported`, history).

**LoopRoutes** has the start route as read of the active loops, check, and write
of the new document, with those of other users in between.

**TrapReply** serves the addresses of a request one after the other and makes the
reply; **TrapStream** is the same as a stream: a task per address, an unbounded
queue (`put`, of which `taken` are sent), `completed_simulators`, and the places
of the generator: polling, gathering, draining.

**PollingLoad** is one request on the event loop beside one field update in a
thread; each command on a device is a step. **IrpMessage** is algorithms: formats
are sequences of elements, `Template` makes the JSON of a format, `Build` the
packet of a JSON, `Received` reads a packet along the format; the actions are a
user's edits. It uses RECURSIVE operators, which the prover cannot deal with, so it is
not in `Reporter`, whose types are a theorem, but added to it in `MCReporter`.

**MessageTest** is the handler of a test with its threads. The handler blocks the
event loop, so there is one test at a time; `place` is where its handler is. Each
test has a thread that sleeps and sends and one that listens, and the handler
waits for both only so long (`overdue` is history: a wait has given up). The
message of a thread that is late may reach the listener of the next test, which
binds the same port; and packets are counted where the listener keeps them, not
in the file that is parsed.

**CCSession** has `row[u]` (the table), `cookie[c]` (the handler that all users
with credentials `c` share) and `live` (what the controller accepts); one stream
over a range of devices runs beside logins, logouts, deletes and the
controller's own changes. Handlers without an `await` are single steps.
**DataFormat** has files, their `.original` backups and the last reply; both
handlers are single steps, with a failure of each remote call as an outcome.

**DeployJob** has, for each job, its document and the next step of its thread;
`script` is the one `upload_DD.sh` on the controller that all jobs share.

**ProxyListener** is the proxy's poll loop: a snapshot of the collection, the
starts, the stops, each socket bound, shut down and closed on its own. The
backend, the host's addresses and the clients are the environment.

## 3. Runs

| Run | Question | Bounds and why they are enough |
|---|---|---|
| `map_lock` | exclusion, no circular wait, refinement of ExclusiveMaps, every request answered | 1 thread, 2 streams, 2 maps: the smallest instance with both client kinds, two streams that meet on the event loop, and opposite orders. Theorems cover all sizes. |
| `map_lock_loop` | can the event loop wait for itself? yes | same |
| `loops` | tracked loops, entries that name live loops, honest status, stop takes effect | 2 users, 1 starter, 1 stopper, 2 tasks, 2 runs: a loop, its successor, another user's loop to be restored and cancelled in order; starts do not overlap here |
| `loops_double_start` | two starts of one user that overlap | 1 user, 2 starters |
| `loops_shutdown` | does shutdown keep the documents? no | as `loops` |
| `registry` | two requests at a time, of the kinds that check under the lock: do stores agree, does a new row have its device, does each request take effect at once, as AtomicSimulators says? | two instances side by side (`MCRegistry`). 1 address and 2 maps: conflicts are per address, and two maps are needed for requests on one address that do *not* exclude each other. 2 addresses and 1 map, kinds `range`, `delete`, `update`: a range needs two addresses to be atomic about. Both dimensions together are beyond the time of a run; theorems cover all sizes |
| `registry_alone` | all kinds, one after the other, all failures and crashes | 2 addresses (a range needs two), 2 maps, 1 request |
| `registry_two_maps` | does a served simulator keep its listener? no | 1 address, 2 maps |
| `proxy` | no orphan sockets, all ports, convergence | 2 addresses, 2 ports: a half-bound address beside an active one |
| `reporter` | is what is reported what was sent, stored, loaded or captured, and read what was written? | see below |
| `host` | are commands, starts, creates and jobs as their callers take them? | see below |
| `controller` | sessions apart, streams complete, the right schema | see below |

The bounds of the composed runs:

* `reporter`. *Streams*: lists of one to three addresses and one address named
  twice; one to three events per simulator. *Batches*: 2 simulators, 2 messages,
  2 batches: a failure of one beside success of the other, a stop between two
  messages, an error that a second batch must clear. *Replies*: 2 addresses, up
  to 3 items in sub-batches of 2, so that a last sub-batch is shorter; two
  message names, so that names repeat. *Routes*: 2 users, 4 starts, three
  configurations whose batches in 15 s are 8, 4 and 2 (`ceil` exact and not),
  of which only some pairs fit into a capacity of 19 (24 000 in the code).
  *Polling*: 2 devices. *Tests*: 3, a test
  whose thread is late and two more that may meet it. *Messages*: four formats
  that have between them the shapes of the bundled formats (loops, structs, clones,
  templates, arrays, conditions, div-mod composites), numbers below and above one
  byte, one that is no remainder of the division by 3, 4 edits.
* `host`. *SSH*: 2 threads, 3 calls, 2 clients, 2 attempts: the pool goes round,
  so that two calls meet behind one client. *Maps*: 2 handlers, 2 maps, 3
  requests: a create during a create, a stop during a start, and a third after
  them. *Jobs*: 2 jobs over 2 drivers, 2 uploads: one lost progress write with a
  later one, and two jobs on one script.
* `controller`. *Sessions*: 2 users who share credentials, 2 sessions, a stream
  over 2 devices with 2 polls (30 in the code). *Formats*: three requested
  versions, one on the host, one with no lower version, one with a lower
  version; one custom file.

Other bounds: `MaxRuns` (accepted starts), `MaxBatches`, `MaxStarts`,
`MaxRequests`, `MaxCalls`, `MaxUploads`, `MaxEdits`, `MaxTests`, `MaxSessions` count events
that may go on for ever in the code; lock objects are bounded by the number of
maps because one is created per map.

### Premises of properties

Some properties hold only outside a condition that is itself part of the model,
kept as a history variable or a definition. Without it each of them fails, and
that is what the code does:

| Property | Premise | Without it |
|---|---|---|
| `CapacityHolds` | no `overlap`: no start reads the active loops between another's read and write | two users are both admitted and exceed the capacity together |
| `MapsSurviveCreates` | no `mishap`: no two creates overlapped, none failed half-way | the second create writes the workspace back without the first one's map; a create that fails after the map's file leaves a file nobody names, and the next create of that map empties it |
| `AllMeansLoaded` | the device was not `touched` by a field update meanwhile | an update that has read the element before the load writes the old one back |
| `EveryStreamEnds` | `Distinct`: no address is named twice | `completed_simulators` is a set and is compared with the length of the list: the stream polls for ever |
| `ReplyIsTrue` | `DistinctNames` of the IRP messages for one address | results are kept under the name: a success hides the failure of its namesake |
| `TestsItsMessage` | no wait is `overdue` | a packet that arrives after the file was written is counted, and the empty file is parsed and called completed; or the late message of one test is taken for that of the next |
| `SentIsCounted` | no `dbFailed`, no batch `aborted` by a stop; all but what is `unreported` | an IRP batch that is stopped is not counted at all; an SNMP sender that raises in a later sub-batch returns no number for the earlier ones |
| `MessagesAreRead` | what was read is what was written if every remainder is `below` its denominator | the sum is built and read back as other numbers (8 below) |
| `SchemaIsTheOneAsked` (theorem) | `FullVersions`: versions have three numbers or more | `10.6` beside `10.6.0`: equal when compared, and different files |
| `StoresAgree`, `BareIsServed` | addresses not in `stray`, `mute` | failures and crashes leave the stores at odds, and nothing repairs them but a list |
| `EveryLoopIsTracked` (theorem) | `[]OneStartPerUser` | run `loops_double_start` |
| `NewRowHasDevice`, `StoresAgree`, `BareIsServed` (theorems) | `[]ListsAlone`: no other request runs beside a list | a list writes rows from what it read before another request's work (7 below) |
| `StoresAgree` (theorem), for streaming creates | `[]StreamsFree`: one that waits for its map would still find no rows | two streams check before the lock; the clean-up of the second deletes the device of the first |
| `BareIsServed` (theorem) | `[]AddressesApart`: no two requests in progress share an address | run `registry_two_maps` |
| `ImplementsAtomicSimulators` (theorems) | no `list`; with `stream`, `[]StreamsFree` or `[]AddressesApart` | a list inserts and deletes rows of addresses that no request has in hand |

### What the failing runs show

1. `map_lock_loop`: two streams on one map. The second blocks the event loop in
   `acquire`; the first needs the event loop to release. Everything the backend
   serves stands still until the timeout of 600 s, then the second is refused.
2. `loops_double_start`: two overlapping starts of a user both pass the check.
3. `loops_shutdown`: a clean shutdown writes `is_active: False` for each loop it
   cancels, so nothing is restored; only a crash keeps loops.
4. `registry_two_maps`: locks are per map, listener documents per address.

Four more properties are stated in the modules and do not hold. To see the
behaviour, check the property with the constants given:

5. `StreamsGiveBack` (PROPERTY of `MapLock` under `FairSpec`, constants of
   `MapLockLoop.cfg`): a stream takes
   its locks before its generator starts. If the client is gone by then, the
   generator is closed unstarted, its `finally` never runs, and the maps stay
   locked until the backend restarts.
6. `LoopHasStatus` (INVARIANT of `LoopManager`, constants of `LoopDoubleStart.cfg` with one
   starter): the write of a stop lands on the user's next loop, which runs on
   and is shown as stopped.
7. `CheckedStaysFree` (INVARIANT of `SimulatorRegistry`, one address, one map, two requests,
   kinds `{"single", "list"}`): a list inserts the row of a device that a create
   has made and not yet saved; the create fails with 409 and deletes the device.
8. `ReadAsWritten` (INVARIANT of `MCReporter`, constants of `Reporter.cfg`): the
   builder of a div-mod pair adds quotient and remainder up and does not look
   whether the remainder is below the denominator (`message_builder.py:1117`).
   0 and 7 by 3 are read as 2 and 1, without an exception.

`StoresAgree` is checked for concurrent requests of the kinds that check under
their map's lock. With `stream` it fails beside other requests, because two streams
check before the lock and the clean-up of the second deletes the device of the
first; with `list` it fails beside other requests, because a list writes from an
old snapshot without any lock (7 is the shortest such behaviour). `NewRowHasDevice`
fails only for a list beside others. These are limits of the code, not of the
bounds; section 5 has what holds with streams and lists, and when.

`ImplementsAtomicSimulators` was also checked for one request at a time on two
addresses and two maps, streaming creates included. The types of the loop manager, of
the registry and of the proxy are theorems and not invariants of a run.

## 4. Fairness

* **MapLock**: threads are weakly fair. A stream is strongly fair, because its
  steps are enabled only while the event loop is free and the loop's ready queue
  is first-in first-out. Clients need not send or disconnect. A handler's body is
  assumed to end (each of its commands has a timeout); `EveryRequestAnswered`
  does not need that, since a wait ends with its own timeout.
* **LoopManager**: every task is weakly fair: the event loop runs what is ready,
  a delay ends, a database call returns or raises. Starts, stops, timeouts of
  runs, crashes and shutdowns are not fair.
* **TrapStream**: the generator and the tasks are weakly fair, as asyncio resumes
  both after each send and each sleep. That the client leaves is never needed.
* **DeployJob**: each job's thread is weakly fair: the default executor has more
  threads than jobs in use, and every SSH command has a timeout. Restarts are
  not fair, and the job of one (`thread[j] = "gone"`) is excepted by the
  property: its document says "running" for ever.
* **CCSession**: the generator is weakly fair, resumed after each yield and
  sleep. Devices need not come up and sessions may expire at any time.
* **ProxyListener**: the poll loop is weakly fair, and `restart: unless-stopped`
  in the compose file makes a restart fair. What the environment must do for the
  listeners to settle is the premise `Quiet` of the property, not fairness:
  failures stop, and no client keeps a server busy for good. Without either the
  property fails.
* The other modules have safety properties only: a handler's progress is that of
  its commands.

## 5. Proofs

Assumptions are the named `ASSUME`s of the modules (names of threads and streams
are disjoint, a pool is not empty, there is at least one port, and the like), all
evaluated by TLC. No proof bounds a number of processes, maps or devices. Where
sums or cardinalities occur, the sets are assumed finite (users, simulators,
devices); the numbers of a version are assumed to have one or two digits and its
major number to be 8 or 10, as `FileName` needs it to be invertible.

* **MapLockProofs**. `MutualExclusion` is not inductive: locks have no owner, so one must
  know that a lock object belongs to one map (`LockObjects`), that a handed
  reference is the dictionary's (`RefsCurrent`: entries are never replaced),
  that whoever holds a map has its object locked (`HeldLocked`), and how far each
  process has come (`Stage`: what is held lies below what is still to be taken, a
  process that waits has its reference, one that runs its command holds all it
  wants). `IInv` is their conjunction. *No circular wait*
  follows from the stage: whoever waits wants a map above all it holds, so the
  process waiting for the highest map waits for nobody in the set
  (`GreatestMap`, by the finiteness of `1..MapCount`). *Implements ExclusiveMaps*:
  the last `Acquire` is `Enter`, where exclusion gives the guard; the start of a
  rollback or release is `Leave`; the rest stutters.
* **LoopManagerProofs**. `EveryLoopIsTracked` is false in general (run
  `loops_double_start`). The theorem states the condition under which it holds:
  `Spec /\ []OneStartPerUser => []EveryLoopIsTracked`,
  that is, no two start requests of one user are in progress at once. The invariant
  adds that a start in progress, or a document to be restored, belongs to a user
  without a task. `ActiveHasLoop` needs no such condition. What must be carried is
  stronger than it: from `initialize` on, an active document that is not `lost`
  is still to be restored, or a task *works on the run it names*, or a start has
  stored it and has yet to create its task (`Accounted`); and requests are served
  only when nothing is left to restore (`RequestsComeLast`). `EntriesAreLive` is the
  converse of `EveryLoopIsTracked`, needs no condition on starts and is inductive
  with the types: an entry is written with the task that is created, and what
  ends a task (`TaskDone`, the end of the process) removes the entry of its user,
  which after overlapping starts may be that of another task.
* **LoopProofs**, of `LoopBatch` and `LoopRoutes`.
  `StopsWithinOneMessage`: what must be carried is when a
  message is late (`LateOnce`): a simulator that has sent one late message is not in
  the middle of another, and since the stop event stays set, its next look ends it.
  `SentIsCounted` is a statement between batches; within one, what was confirmed is
  in the document, *or still held by coroutines*, or `unreported` (`Balance`: `sent` is
  these two and a sum over the simulators), those of SNMP that are about to count, and all of IRP
  until the batch is stored. `NoErrorMeansSent` rests on `Coroutines`: a coroutine
  is over only with every trap handled, or with the stop event set.
  `CapacityHolds`: as long as no start overlapped another, at most one request is
  between its read and its write (`OneAtATime`), what it read covers the loops that
  are active now (`Current`: others may have ended, none was added), and what it is
  about to write fits with that (`Admitted`). Loads are sums over the active users.
  `OfferIsLargest` is arithmetic: a load is linear in the traps (times simulators,
  times batches per window, which are rounded up), the offer is what is left of the
  capacity divided by that factor, and `o` traps fit exactly if `o` is at most the
  quotient.
* **ReporterProofs**, of `TrapStream`, `TrapReply`, `MessageTest` and `PollingLoad`.
  `NothingIsLost` spans two loops of the generator. The invariant:
  a task that is done has put all its events (`TasksPut`), the form for one simulator
  puts and takes in turn (`SingleSends`), and a generator that has left the polling loop
  gathers every task before it drains, so that at its end all has been taken
  (`EndedWithAll`).
  `ReplyIsTrue`: confirmed items are among those dealt with (`WithinDone`), and each
  IRP message dealt with has its own result under its name (`ResultsKept`, which
  is where distinct names are needed); SNMP counters are sums over sub-batches.
  `TestsItsMessage`: as long as no join gave up, the threads of earlier tests have
  ended (`ThreadsEnded`), so a listener has at most its own message, and the file that
  was written has what the listener has (`FileIsOwn`).
  `AllMeansLoaded`: the device of a loaded position is there with the file, or was
  touched by the field update, or is being created again because the list names it
  twice, or a second load of it has failed (`Served`). The last two cannot be dropped: a
  list with a repetition takes a served device away again for a while.
* **HostProofs**. `StartIsUndisturbed` rests on `HoldsLock`: a handler at its
  command, or waiting for its map, is the one its map's lock names; two of them
  cannot be. `OneUserPerClient`: every call in progress has a ticket of its own
  and its client is the ticket modulo the pool's size (`TicketsApart`), a
  client's lock is held by a call past waiting (`LocksHeld`); and two tickets
  with one remainder are a full round apart (`RoundApart`, arithmetic).
  `RunsAtMostOnce` adds what the host has of a ticket's command in each place of
  its call (`HostAgrees`): nothing while connecting, whichever attempt it is.
  `MapsSurviveCreates`: unless creates overlapped or one failed half-way, at most
  one request is creating, it knows the workspace as it is, and the map it creates
  has no file before it writes one (`CreatesAlone`).
  `CountersHeal`: the counters of a document are those of some prefix of its
  thread's results that is at least as long as the results recorded (`Healed`), and
  a thread that is about to record has one result more (`Fits`). `HostTypes` is
  type correctness of the composition.
* **ConnectionProofs**, of `ProxyListener`, `CCSession` and `DataFormat`.
  *Listeners*: type correctness, `NoOrphanSocket` and
  `ActiveListensOnAllPorts`. The invariant adds that the address in hand is not an
  active one and is in hand exactly in the three phases that have one, that
  `toStart` has no active address, and that `shutdown()` is only ever
  pending on a server of the address in hand while it is being closed.
  *Sessions*: `SessionsApart`, an action property. Session ids in rows are
  distinct (`RowsDiffer`), because a login only stores a session no other row has,
  so closing one user's session leaves the others' accepted.
  *Device streams*: `CompleteCounts`, the safety half of `StreamCompletes`. The
  counters are cardinalities of the verdicts told (`Tally`); a device without a final
  one is yet to be added, is added, or is waited for (`Statuses`), so that none is told
  twice, and when nothing is waited for, all are told.
  *Data formats*: `SchemaIsTheOneAsked` under the hypothesis `FullVersions`, that
  versions are named with three numbers at least (as the docstrings of the routes
  name them: "10.6.0.0"). A file name then determines the three numbers
  (`FileNames`, arithmetic on digits), the closest lower version of one whose file
  is there is that file (`ShortIsLast`), and a file holds a custom schema or the one
  of its own name (`FilesInv`). With `10.6` beside `10.6.0` the hypothesis fails:
  the two compare as equal and have different files.
  `ControllerTypes` is type correctness of the composition.
* **SumLemmas**. The facts about `SumFunctionOnSet` the proofs above use: it is an
  integer, it is any one term and the sum of the others (`SumRemove`), it is
  monotone, it changes by what one term changes. The library states no such facts,
  and its induction theorems cannot be instantiated here; instead each proof
  takes, of the subsets of a finite set for which a claim fails, a least one
  (`SmallestBad`, by the well-foundedness of strict inclusion), removes an element
  and finds a smaller one.
* **SimulatorRegistryProofs**. Type correctness, for every number of addresses, maps
  and requests of every kind; and `NewRowHasDevice` (`NewRowHasDeviceHolds` without
  lists). That a row
  names a device at the moment it is written rests on minutes-old work: the
  device was made steps ago. The invariant says which maps a request touches in
  each phase (`PhaseFits`, `Touches`), that it has asked for them and is inside
  them while it runs (`MapsAsked`), that no two requests are inside one map
  (`Exclusive`), and that the addresses whose row is still to be written have
  their device (`MadeIsThere`). A request only takes devices from maps it is
  inside (`OnlyInside`), so nobody else's pending device can go (`MadeKept`).
  The steps are proved by what they do to a request: it stays outside, asks,
  enters, advances or ends. Promise and proof meet here: what MapLock is proved to
  implement is what this proof uses.

  *Lists* take no map, so what protects the others does not protect them. The
  theorems that include them have the hypothesis `ListsAlone`, that no other request
  runs beside a list. Then what a list has read stays as it was until it writes it
  (`Snapshots`: an address it saw on a map has its device there, and one whose row
  it has yet to write has none elsewhere), its rows name devices
  (`NewRowHasDeviceIfListsAlone`), and it leaves devices and rows in agreement
  (`AgreeList`). The theorems without lists are corollaries.

  *Devices and rows* (`StoresAgreeHolds`). `StoresAgree` speaks of the addresses
  nobody works on; while somebody does, device and row differ, and the invariant
  (`Agrees`, for every address outside `stray`) says by how much, from the phase of
  the request: a create `Keeps` devices without rows and `Claims` addresses it has
  found without one; a delete or an update `Took` the device the row still names,
  and `Saves` where it has put it back. Of a step only the address in hand
  matters, and of that only the map its request is inside (`Handled`): what others
  have in hand there is in other maps. Everything else is `Undisturbed`. All of this
  needs the check for rows under the map's lock, which streaming creates do not
  have. `StoresAgreeIfStreamsFree` proves it for them, and for lists that run
  alone, under the hypothesis `StreamsFree`, that a waiting stream would still find
  no rows; what two streams can do to each other (hazard at `sapro.py:518`) is
  exactly what that excludes.

  *Devices and listeners* (`BareIsServedHolds`). The listener is registered by
  address, and no lock is about addresses: `registry_two_maps` shows two requests
  for one address in two maps undo each other's work. The hypothesis
  `AddressesApart` is that no two requests in progress share an address; it
  implies `StreamsFree`. Then rows appear only by the request that counts on there
  being none (`RowsFree`), an address has at most one device (`OwnDevice`), and a
  device without SOAP has its listener unless it is `Fresh`, made with a template
  its request has yet to register. With one request at a time all the hypotheses
  hold, and `AllAgreeOneAtATime` says what `registry_alone` checks, with
  `NewRowHasDevice`, for every number of addresses and maps and all seven kinds.

  *Simulators* (`ImplementsAtomicSimulatorsHolds`, and with streaming creates
  `ImplementsAtomicIfStreamsFree` and `ImplementsAtomicIfApart`). Each step of a
  handler maps to a step of AtomicSimulators or to a stutter. A create takes effect
  at its commit, a delete when the device is gone, an update when the old device is
  withdrawn; a failure or a crash marks the addresses it leaves at odds, which is
  `Lose`. From there the argument is about the mapping: outside `stray`, the
  simulator at an address is given by its row, its device and the one request that
  is in charge of it while its device is withdrawn (`OneInCharge`: two would both be
  inside the map of the row); what a create has made is what it was asked for
  (`MadeAsAsked`), so that the step in which the rows appear makes them all appear
  with one map and template; and `Agrees` says that there was nothing at
  these addresses before.

  The invariants were first checked by TLC on small instances (one address, two or
  three maps, two requests; one address, two maps, three requests; two addresses
  and two requests kept apart; with lists kept alone).

* **Types**. `ReporterTypes`, `HostTypes` and `ControllerTypes` prove the type
  invariants of the compositions. That of the batches is more than a typing: its
  bounds on the totals (`BatchTypes`) say that a loop's document never counts, and a
  loop never sends, more than its batches can have. The totals are
  compared with what the counted batches can have plus a sum over the coroutines of
  the present one (`TotalWithin`), which SNMP counts one by one and IRP at the end,
  and the error handler counts without its totals.

Only model-checked: all liveness (`EveryRequestAnswered`, `StopTakesEffect`,
`ListenersFollow`, `EveryStreamEnds`, `JobsEnd`, and the second half of
`StreamCompletes`: fairness and `ENABLED` are out of the prover's reach), and
`MessagesAreRead` (RECURSIVE definitions, which no module with a theorem may reach).
Every other property of a passing run is a theorem, for the kinds and under the
premises of section 3.

## 6. Abstractions and what is left out

Simulators, maps and the Sapro host:

* Payloads, templates, progress events, logging and version columns. A template
  is "soap" or "bare".
* `get_all_devices` is one snapshot of the maps it reads; the code reads them one
  after the other.
* The streaming form of update-fields differs from the other one in how it holds
  its maps (MapLock) and in ending early when its client leaves; for the stores
  that is as if the commands for the remaining addresses failed without effect.
* The Sapro host is external: create succeeds on an existing device (as
  `create_device` treats it), delete of an absent one reports failure.
* The user's identity and workspace appear only as the maps a list does not read.
  `MapControl` has one workspace and one simulator per map. `fetch_device_info`
  after a start is part of the row's refresh.
* In `MapControl`, a row is written or not (`RefreshRow`); no property reads it.
* `close` of an SSH client and the dictionary of CyberController clients.

Reporter:

* In the loop manager a batch is a state; LoopBatch has what is inside. The
  counters of the config object in memory are only logged. `get_status` and
  `get_all_active` are reads.
* IRP routes check no capacity and forward to their manager.
* Text of traps and of XMF files. Of a captured packet and the text made of it for
  the parser, whose message it is and whether it has headers.
* IRP formats: numbers stand for all field types; switches, overlapping fields
  and footprints are left out. `MessagesAreRead` is about the templates the portal
  generates and edits of their numbers, for formats of the shapes the bundled
  ones have. Outside them the builder does other things, which the model has as
  far as it has the shapes: a struct that mixes a clone with other fields may
  hand all its values to the clone; a JSON in another order than its format
  gives bytes that are read wrongly, without an error; a name is looked for
  anywhere below, and the first one found is taken; an item that begins with the
  end mark 999999 ends its loop early.

CyberController:

* Versions of a single number, which `_extract_version_from_filename` takes apart digit
  by digit (`FormatAssumption`).
* Its device tree is a set of devices, each absent, down or up. Groups,
  favourites and property pages are single forwarded calls.
* The copies of data formats in MongoDB (`irp_data_formats`, one document each).

Proxy: the TLS handshake and the request count as one busy period of a
single-threaded `HTTPServer`. A `thread.start()` that raises `RuntimeError` because the
process is out of threads is left out: `_start_listener` catches `OSError` only, and
the servers of the address that it had started before would run on. `shutdown_all` coincides with the process's end.

Disagreements met while modelling, each visible in the lines without a run:

* `cybercontroller.py:1478`: the check for an existing backup compares its output
  with `not_exists`; when the check itself fails, the backup is skipped, though
  it is to be created if it does not exist.
* `cc_client.py:716`: `_extract_version_from_filename("IdsDataFormat1003.xml")`
  gives `10.3`, its docstring says `10.0.3`.
* `cybercontroller.py:640`: the docstring of the stream with status has it wait
  after each device; it adds all of them first.
* `sapro.py:848`: an update with another map deletes the device at the new map's
  path, where it is not, so it always fails; the docstring (807) allows the map.
* `sapro.py:321`: when reading back the rows fails after the commit went through,
  their devices are deleted and the rows stay.
* `parse_ip_range` allows 255 addresses, the create handlers 254.
* A `cc_sessions` row stays after a `RuntimeError` (500) with a session that the
  controller no longer accepts; two uploads of one driver both pass the check
  for an existing name; a deploy job stays "running" after a restart.

## 7. Plan

Done, in this order: `ExclusiveMaps`, `MapLock`, `LoopManager`,
`SimulatorRegistry`, `ProxyListener` with their proofs; then `TrapStream`,
`LoopBatch`, `TrapReply`, `LoopRoutes`, `PollingLoad`, `IrpMessage`, `MessageTest`,
`SshClient`, `MapControl`, `DeployJob`, `CCSession`, `DataFormat`; then the proofs of
their safety properties (`LoopProofs`, `ReporterProofs`, `HostProofs`,
`ConnectionProofs`, on `SumLemmas`).

Then the registry against `AtomicSimulators`, its properties with lists, and the
types of `Reporter`'s components.

Left, most important first:

1. `AtomicSimulators` with lists that run alone: a list would be an abstract step that
   may take up any address.
2. Switches, overlapping fields and footprints in `IrpMessage`.
