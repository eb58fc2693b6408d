----------------------------- MODULE CCSession ------------------------------
(***************************************************************************)
(* The portal's sessions on one CyberController and the requests that use  *)
(* them: cc_login, cc_logout, the device requests and the streams that add *)
(* or validate a range of devices (backend/app/routes/cybercontroller.py), *)
(* with the handler's methods they call (modules/cc/cc_client.py).         *)
(*                                                                         *)
(* The handlers are coroutines whose HTTP calls block, so one without an   *)
(* await is a single step; a stream gives way at each of its yields and    *)
(* each poll of wait_for_device_up.  The controller is external: it may    *)
(* end a session, answer nothing, or report a device up or down any time.  *)
(***************************************************************************)
EXTENDS Integers, FiniteSets

CONSTANTS
  Users,        \* users of the portal
  Creds,        \* user names and passwords known to the CyberController
  NoSession,    \* no row in cc_sessions
  Total,        \* number of addresses in the range of the stream
  Polls,        \* polls of wait_for_device_up before it gives up (30 in the code)
  MaxSessions   \* bound on the sessions the CyberController opens

ASSUME CCAssumption ==
  /\ Total \in Nat \ {0}
  /\ Polls \in Nat \ {0}
  /\ MaxSessions \in Nat
  /\ NoSession \notin Nat

VARIABLES
  issued,      \* how many session ids the CyberController has made
  live,        \* the ids it accepts
  cookie,      \* cookie[c]: JSESSIONID of the cached handler of credentials c
  row,         \* row[u]: jsession_id of user u's row in cc_sessions
  device,      \* device[a]: "absent", "down" or "up" on the CyberController
  kind,        \* which stream runs
  phase,       \* where its generator is
  sid,         \* the session id it took from the row when it was opened
  at,          \* the address it adds next
  wait,        \* wait[a]: polls made for a, or NotWaiting / IsUp
  added,       \* added_devices
  verdict,     \* verdict[a]: the last status the client was told of a
  successful, failed    \* the generator's counters

sessionVars == <<issued, live, cookie, row>>
streamState == <<kind, phase, sid, at, wait, added, verdict, successful, failed>>
ccVars      == <<sessionVars, device, streamState>>

Sids == 1 .. MaxSessions
Addresses == 1 .. Total
Kinds == {"stream", "with-status", "add-batch", "validate-batch"}
Waits(k) == k # "add-batch"

NotWaiting == -2
IsUp == -1

CCTypeOK ==
  /\ issued \in 0 .. MaxSessions
  /\ live \subseteq 1 .. issued
  /\ cookie \in [Creds -> Sids \cup {NoSession}]
  /\ row \in [Users -> Sids \cup {NoSession}]
  /\ device \in [Addresses -> {"absent", "down", "up"}]
  /\ kind \in Kinds
  /\ phase \in {"none", "adding", "waiting", "complete", "gone"}
  /\ sid \in Sids \cup {NoSession}
  /\ at \in 1 .. Total + 1
  /\ wait \in [Addresses -> (0 .. Polls) \cup {NotWaiting, IsUp}]
  /\ added \subseteq Addresses
  /\ verdict \in [Addresses -> {"none", "added", "success", "failed"}]
  /\ successful \in 0 .. 2 * Total /\ failed \in 0 .. 2 * Total

CCInit ==
  /\ issued = 0 /\ live = {}
  /\ cookie = [c \in Creds |-> NoSession]
  /\ row = [u \in Users |-> NoSession]
  /\ device = [a \in Addresses |-> "absent"]
  /\ kind = "stream" /\ phase = "none" /\ sid = NoSession /\ at = 1
  /\ wait = [a \in Addresses |-> NotWaiting]
  /\ added = {}
  /\ verdict = [a \in Addresses |-> "none"]
  /\ successful = 0 /\ failed = 0

-----------------------------------------------------------------------------
(* Login and logout.                                                       *)

\* The row of u is replaced; jsession_id is UNIQUE, so that the commit of an id
\* another user has fails and is rolled back.
StoreSessionAnyhow(u, s) == row' = [row EXCEPT ![u] = s]
StoreSession(u, s) ==
  row' = IF \E v \in Users \ {u} : row[v] = s THEN row ELSE [row EXCEPT ![u] = s]

\* CCHandler.login: the handler of a user name and password is shared, and so
\* is the cookie it sends along; the CyberController may answer with the session
\* of that cookie or with a new one.
LoginAnswers(c) ==
  ({cookie[c]} \cap live) \cup (IF issued < MaxSessions THEN {issued + 1} ELSE {})

Login(u, c) ==
  /\ \E s \in LoginAnswers(c) :
       /\ issued' = IF s > issued THEN s ELSE issued
       /\ live' = live \cup {s}
       /\ cookie' = [cookie EXCEPT ![c] = s]
       /\ StoreSession(u, s)
  /\ UNCHANGED <<device, streamState>>

\* CCHandler.logout: what is live after it, whatever it answers.
LogoutLeaves(s) == {live, live \ {s}}

\* The row goes whether or not the CyberController has closed the session; the
\* cached handler, which is not the one used here, keeps its cookie.
Logout(u) ==
  /\ row[u] # NoSession
  /\ live' \in LogoutLeaves(row[u])
  /\ row' = [row EXCEPT ![u] = NoSession]
  /\ UNCHANGED <<issued, cookie, device, streamState>>

\* get_all_dps: a session that was good when it was checked and then fails to
\* fetch the devices loses its row; one that was not good leaves it (the failed
\* refresh is a RuntimeError, answered with 500).
GetSimulatorsFails(u) ==
  /\ row[u] \in live
  /\ row' = [row EXCEPT ![u] = NoSession]
  /\ UNCHANGED <<issued, live, cookie, device, streamState>>

\* is_logged_in: a GET with the session's cookie; refresh_session cannot help,
\* since the handler of a request has no user name and password.
LoggedIn(s) == s \in live

-----------------------------------------------------------------------------
(* Devices, one request at a time.                                         *)

\* get_organization_tree: it needs the session, and may know neither site.
ParentFound(s) == IF LoggedIn(s) THEN BOOLEAN ELSE {FALSE}

\* What add_device can say and do: status "ok", or a body it cannot read (200
\* all the same); an error status; an exception after the device was made.
AddOutcomes(s) ==
  {"refused"} \cup IF TRUE \in ParentFound(s) THEN {"ok", "unread", "lost"} ELSE {}
Says(outcome) == outcome \in {"ok", "unread"}
WithDevice(d, a, outcome) ==
  IF outcome = "refused" \/ d[a] # "absent" THEN d ELSE [d EXCEPT ![a] = "down"]

\* add_cc_simulator: the tree of the organisation is read and the device posted
\* in one blocking call; a range is a loop of these.
AddSimulator(u) ==
  /\ row[u] # NoSession
  /\ \E a \in Addresses : \E o \in AddOutcomes(row[u]) :
       device' = WithDevice(device, a, o)
  /\ UNCHANGED <<sessionVars, streamState>>

\* delete_device: one that DefenseFlow manages is taken from its list first and
\* then deleted again; any of these calls may fail.
DeleteLeaves(s, a) ==
  {device} \cup IF LoggedIn(s) THEN {[device EXCEPT ![a] = "absent"]} ELSE {}

DeleteSimulator(u) ==
  /\ row[u] # NoSession
  /\ \E a \in Addresses : device' \in DeleteLeaves(row[u], a)
  /\ UNCHANGED <<sessionVars, streamState>>

-----------------------------------------------------------------------------
(* Streams.                                                                *)

\* The row is read once; the generator keeps its session id.
Open(u, k) ==
  /\ phase = "none"
  /\ row[u] # NoSession
  /\ kind' = k
  /\ sid' = row[u]
  /\ UNCHANGED <<at, added, verdict, successful, failed, sessionVars, device>>

AddStream(u)           == Open(u, "stream") /\ phase' = "adding" /\ UNCHANGED wait
AddStreamWithStatus(u) == Open(u, "with-status") /\ phase' = "adding" /\ UNCHANGED wait
AddBatch(u)            == Open(u, "add-batch") /\ phase' = "adding" /\ UNCHANGED wait

ValidateBatch(u) ==
  /\ Open(u, "validate-batch")
  /\ phase' = "waiting"
  /\ wait' = [a \in Addresses |-> 0]

\* Phase 1: one device after the other, a yield after each.
AddOne ==
  /\ phase = "adding"
  /\ at <= Total
  /\ \E o \in AddOutcomes(sid) :
       /\ device' = WithDevice(device, at, o)
       /\ added' = IF Says(o) /\ Waits(kind) THEN added \cup {at} ELSE added
       /\ verdict' = [verdict EXCEPT ![at] = IF ~ Says(o) THEN "failed"
                                             ELSE IF Waits(kind) THEN "added" ELSE "success"]
       /\ successful' = IF Says(o) /\ ~ Waits(kind) THEN successful + 1 ELSE successful
       /\ failed' = IF Says(o) THEN failed ELSE failed + 1
  /\ at' = at + 1
  /\ UNCHANGED <<kind, phase, sid, wait, sessionVars>>

\* Phase 2: wait_for_device_up for every device that was added, all at once.
StartWaitingForAll ==
  /\ phase = "adding"
  /\ at > Total
  /\ phase' = "waiting"
  /\ wait' = [a \in Addresses |-> 0]
  /\ UNCHANGED <<kind, sid, at, added, verdict, successful, failed, sessionVars, device>>
StartWaiting ==
  /\ phase = "adding"
  /\ at > Total
  /\ phase' = "waiting"
  /\ wait' = [a \in Addresses |-> IF a \in added THEN 0 ELSE NotWaiting]
  /\ UNCHANGED <<kind, sid, at, added, verdict, successful, failed, sessionVars, device>>

\* get_device_status
StatusOK(a) == LoggedIn(sid) /\ device[a] = "up"

\* One poll; a lost session, an error and an exception count as a poll too.
PollOnceMore(a) ==
  /\ phase = "waiting"
  /\ wait[a] \in 0 .. Polls
  /\ \/ StatusOK(a) /\ wait' = [wait EXCEPT ![a] = IsUp]
     \/ wait' = [wait EXCEPT ![a] = @ + 1]
  /\ UNCHANGED <<kind, phase, sid, at, added, verdict, successful, failed, sessionVars, device>>
PollDevice(a) ==
  /\ phase = "waiting"
  /\ wait[a] \in 0 .. Polls - 1
  /\ \/ StatusOK(a) /\ wait' = [wait EXCEPT ![a] = IsUp]
     \/ wait' = [wait EXCEPT ![a] = @ + 1]
  /\ UNCHANGED <<kind, phase, sid, at, added, verdict, successful, failed, sessionVars, device>>

Waited(a) == wait[a] \in {IsUp, Polls}
Reported(a) == wait[a] = NotWaiting

\* The result of one device reaches the client.
Report(a) ==
  IF wait[a] = IsUp
  THEN /\ verdict' = [verdict EXCEPT ![a] = "success"]
       /\ successful' = successful + 1
       /\ UNCHANGED failed
  ELSE /\ verdict' = [verdict EXCEPT ![a] = "failed"]
       /\ failed' = failed + 1
       /\ UNCHANGED successful

\* asyncio.gather: nothing is reported before every wait is over, then all in
\* the order of the addresses.
ReportGathered ==
  /\ phase = "waiting"
  /\ kind = "stream"
  /\ \A b \in Addresses : Waited(b) \/ Reported(b)
  /\ \E a \in Addresses :
       /\ Waited(a)
       /\ \A b \in Addresses : b < a => Reported(b)
       /\ Report(a)
       /\ wait' = [wait EXCEPT ![a] = NotWaiting]
  /\ UNCHANGED <<kind, phase, sid, at, added, sessionVars, device>>

\* asyncio.as_completed: each one as soon as its own wait is over.
ReportCompleted ==
  /\ phase = "waiting"
  /\ kind # "stream"
  /\ \E a \in Addresses :
       /\ Waited(a)
       /\ Report(a)
       /\ wait' = [wait EXCEPT ![a] = NotWaiting]
  /\ UNCHANGED <<kind, phase, sid, at, added, sessionVars, device>>

\* The complete event, with the counters.
Complete ==
  /\ phase = "waiting"
  /\ \A a \in Addresses : Reported(a)
  /\ phase' = "complete"
  /\ UNCHANGED <<kind, sid, at, wait, added, verdict, successful, failed, sessionVars, device>>

ClientLeaves ==
  /\ phase \in {"adding", "waiting"}
  /\ phase' = "gone"
  /\ UNCHANGED <<kind, sid, at, wait, added, verdict, successful, failed, sessionVars, device>>

-----------------------------------------------------------------------------
(* The CyberController (external).                                         *)

SessionExpires ==
  /\ \E s \in live : live' = live \ {s}
  /\ UNCHANGED <<issued, cookie, row, device, streamState>>

DeviceChanges ==
  /\ \E a \in Addresses :
       /\ device[a] # "absent"
       /\ device' = [device EXCEPT ![a] = IF @ = "up" THEN "down" ELSE "up"]
  /\ UNCHANGED <<kind, phase, sid, at, wait, added, verdict, successful, failed, sessionVars>>

-----------------------------------------------------------------------------
GeneratorStep ==
  \/ AddOne
  \/ StartWaiting
  \/ \E a \in Addresses : PollDevice(a)
  \/ ReportGathered
  \/ ReportCompleted
  \/ Complete

CCNext ==
  \/ \E u \in Users, c \in Creds : Login(u, c)
  \/ \E u \in Users :
       \/ Logout(u) \/ GetSimulatorsFails(u)
       \/ AddSimulator(u) \/ DeleteSimulator(u)
       \/ AddStream(u) \/ AddStreamWithStatus(u) \/ AddBatch(u) \/ ValidateBatch(u)
  \/ GeneratorStep
  \/ ClientLeaves
  \/ SessionExpires \/ DeviceChanges

CCSpec == CCInit /\ [][CCNext]_ccVars

\* The event loop resumes the generator after a yield and a task after a sleep.
CCFairness == WF_ccVars(GeneratorStep)

-----------------------------------------------------------------------------
(* Properties.                                                             *)

Told(v) == {a \in Addresses : verdict[a] = v}

\* Every address has had a final status, and the counters are those of the statuses.
CountsAreVerdicts ==
  /\ Told("success") \cup Told("failed") = Addresses
  /\ successful = Cardinality(Told("success"))
  /\ failed = Cardinality(Told("failed"))

\* A logout, or a row dropped after a failed fetch, never takes away the session
\* of another user's row, although users with the same credentials on the
\* CyberController share one handler and its cookie.
SessionsApart ==
  [][\A u, v \in Users :
       u # v /\ row[u] # NoSession /\ row'[u] = NoSession /\ row[v] \in live => row[v] \in live']_ccVars

\* A stream whose client stays completes, also when the session it took from the
\* row is closed while it runs.  Its complete event has counters that are those of
\* the statuses it has sent, one for each address: a device that failed in the
\* first phase is neither waited for nor counted again in the second.
StreamCompletes ==
  phase \in {"adding", "waiting"} ~>
    phase = "gone" \/ (phase = "complete" /\ CountsAreVerdicts)
=============================================================================
