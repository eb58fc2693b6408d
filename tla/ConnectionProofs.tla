------------------------- MODULE ConnectionProofs -------------------------
(***************************************************************************)
(* What the connections to the outside guarantee for any number of         *)
(* addresses, ports, users, devices and versions: the proxy's listeners,   *)
(* the rows of cc_sessions and the device streams of a CyberController,    *)
(* and its IdsDataFormat files.                                            *)
(***************************************************************************)
EXTENDS ProxyListener, MCController, FiniteSetTheorems, SequenceTheorems, TLAPS

-----------------------------------------------------------------------------
(***************************************************************************)
(* The proxy: an active listener listens on every port, and no socket is   *)
(* left behind.                                                            *)
(***************************************************************************)

\* Type correctness of the proxy's listener manager and its environment.
THEOREM ListenerTypes == Spec => []TypeOK
<1>1. Init => TypeOK
  BY DEF Init, TypeOK
<1>2. TypeOK /\ [Next]_vars => TypeOK'
  <2> SUFFICES ASSUME TypeOK, [Next]_vars PROVE TypeOK'
    OBVIOUS
  <2> USE DEF TypeOK, env, Socks, SocksOf, Mine
  <2>1. CASE Boot
    BY <2>1 DEF Boot
  <2>2. CASE Sync
    BY <2>2 DEF Sync
  <2>3. CASE Sleep
    BY <2>3 DEF Sleep
  <2>4. ASSUME NEW ip \in Ips, StartListener(ip) \/ StopListener(ip) PROVE TypeOK'
    BY <2>4 DEF StartListener, StopListener
  <2>5. ASSUME NEW s \in Socks, Bind(s) \/ Shutdown(s) PROVE TypeOK'
    BY <2>5 DEF Bind, Shutdown
  <2>6. CASE BindFails
    BY <2>6 DEF BindFails
  <2>7. CASE Started
    <3>1. PICK p \in Ports : TRUE
      BY ProxyAssumption
    <3>2. <<cur, p>> \in Mine
      BY <2>7, <3>1 DEF Started
    <3>3. cur \in Ips
      BY <3>2
    <3>4. QED
      BY <2>7, <3>3 DEF Started
  <2>8. CASE ServerClose
    BY <2>8 DEF ServerClose
  <2>9. CASE Stopped
    BY <2>9 DEF Stopped
  <2>10. CASE SyncFails \/ Crash
    BY <2>10 DEF SyncFails, Crash, Die
  <2>11. CASE Backend
    BY <2>11 DEF Backend, Register, Unregister
  <2>12. CASE Host
    BY <2>12 DEF Host
  <2>13. ASSUME NEW s \in Socks, Connect(s) \/ Disconnect(s) PROVE TypeOK'
    BY <2>13 DEF Connect, Disconnect
  <2>14. CASE UNCHANGED vars
    BY <2>14 DEF vars
  <2>15. QED
    BY <2>1, <2>2, <2>3, <2>4, <2>5, <2>6, <2>7, <2>8, <2>9, <2>10, <2>11, <2>12,
       <2>13, <2>14 DEF Next, Manager
<1>3. QED
  BY <1>1, <1>2, PTL DEF Spec

-----------------------------------------------------------------------------
(* The inductive invariant: the address in hand is not active, the loops of  *)
(* a sync agree with active_listeners, and shutdown is called on a server of *)
(* the address in hand only.                                                 *)

InHand ==
  /\ cur # NoIp <=> pc \in {"binding", "undoing", "closing"}
  /\ cur \notin active
  /\ shut # NoSock => shut \in Mine /\ pc \in {"undoing", "closing"}

LoopsAgree == toStart \cap active = {} /\ cur \notin toStart

ListenerInv == TypeOK /\ InHand /\ LoopsAgree /\ NoOrphanSocket /\ ActiveListensOnAllPorts

\* The proxy starts without listeners.
LEMMA ListenerInit == Init => ListenerInv
  BY DEF Init, ListenerInv, TypeOK, InHand, LoopsAgree, NoOrphanSocket, ActiveListensOnAllPorts

\* Every step of the manager and of its environment keeps the invariant.
LEMMA ListenerNext == ListenerInv /\ TypeOK' /\ [Next]_vars => ListenerInv'
<1> SUFFICES ASSUME ListenerInv, TypeOK', [Next]_vars PROVE ListenerInv'
  OBVIOUS
<1> USE ProxyAssumption DEF ListenerInv, TypeOK, InHand, LoopsAgree, NoOrphanSocket,
    ActiveListensOnAllPorts, env, Socks, SocksOf, Mine
<1>1. CASE Boot
  BY <1>1 DEF Boot
<1>2. CASE Sync
  BY <1>2 DEF Sync
<1>3. CASE Sleep
  BY <1>3 DEF Sleep
<1>4. ASSUME NEW ip \in Ips, StartListener(ip) PROVE ListenerInv'
  BY <1>4 DEF StartListener
<1>5. ASSUME NEW ip \in Ips, StopListener(ip) PROVE ListenerInv'
  BY <1>5 DEF StopListener
<1>6. ASSUME NEW s \in Socks, Bind(s) PROVE ListenerInv'
  BY <1>6 DEF Bind
<1>7. ASSUME NEW s \in Socks, Shutdown(s) PROVE ListenerInv'
  BY <1>7 DEF Shutdown
<1>8. CASE BindFails
  BY <1>8 DEF BindFails
<1>9. CASE Started
  BY <1>9 DEF Started
<1>10. CASE ServerClose
  BY <1>10 DEF ServerClose
<1>11. CASE Stopped
  BY <1>11 DEF Stopped
<1>12. CASE SyncFails \/ Crash
  BY <1>12 DEF SyncFails, Crash, Die
<1>13. CASE Backend \/ Host
  BY <1>13 DEF Backend, Host, Register, Unregister
<1>14. ASSUME NEW s \in Socks, Connect(s) \/ Disconnect(s) PROVE ListenerInv'
  BY <1>14 DEF Connect, Disconnect
<1>15. CASE UNCHANGED vars
  BY <1>15 DEF vars
<1>16. QED
  BY <1>1, <1>2, <1>3, <1>4, <1>5, <1>6, <1>7, <1>8, <1>9, <1>10, <1>11, <1>12, <1>13,
     <1>14, <1>15 DEF Next, Manager

\* Whatever the binds, failures, shutdowns and crashes before: a socket that is
\* bound belongs to an active listener or to the one in hand.
THEOREM NoOrphanSocketHolds == Spec => []NoOrphanSocket
  BY ListenerInit, ListenerNext, ListenerTypes, PTL DEF Spec, ListenerInv

\* An address in active_listeners is listened on at every configured port.
THEOREM ActiveListensOnAllPortsHolds == Spec => []ActiveListensOnAllPorts
  BY ListenerInit, ListenerNext, ListenerTypes, PTL DEF Spec, ListenerInv

-----------------------------------------------------------------------------
(***************************************************************************)
(* The sessions of a CyberController: no user closes another one's.        *)
(***************************************************************************)

\* What the steps need to know of the types.
RowTypes ==
  /\ issued \in Nat
  /\ live \subseteq Nat
  /\ cookie \in [Creds -> Nat \cup {NoSession}]
  /\ row \in [Users -> Nat \cup {NoSession}]

\* jsession_id is UNIQUE.
RowsDiffer == \A u, v \in Users : u # v /\ row[u] # NoSession => row[u] # row[v]

RowsInv == RowTypes /\ RowsDiffer

\* Nobody is logged in at first.
LEMMA RowsInit == CCInit => RowsInv
  BY DEF CCInit, RowsInv, RowTypes, RowsDiffer

\* A login opens a session or goes on with the one of its handler's cookie, and
\* keeps every session that is live.
LEMMA LoginStep ==
  ASSUME RowsInv, NEW u \in Users, NEW c \in Creds, Login(u, c)
  PROVE  /\ RowsInv'
         /\ live \subseteq live'
         /\ \A w \in Users : row'[w] = NoSession => row[w] = NoSession
<1> USE DEF RowsInv, RowTypes, RowsDiffer
<1>1. PICK s \in LoginAnswers(c) :
        /\ issued' = IF s > issued THEN s ELSE issued
        /\ live' = live \cup {s}
        /\ cookie' = [cookie EXCEPT ![c] = s]
        /\ StoreSession(u, s)
  BY DEF Login
<1>2. s \in Nat
  BY <1>1 DEF LoginAnswers
<1>3. s # NoSession
  BY <1>2, CCAssumption
<1>4. CASE \E v \in Users \ {u} : row[v] = s
  BY <1>1, <1>2, <1>4 DEF StoreSession
<1>5. CASE ~ \E v \in Users \ {u} : row[v] = s
  <2>1. row' = [row EXCEPT ![u] = s]
    BY <1>1, <1>5 DEF StoreSession
  <2>2. RowsDiffer'
    BY <1>5, <2>1, <1>3
  <2>3. QED
    BY <1>1, <1>2, <1>3, <2>1, <2>2
<1>6. QED
  BY <1>4, <1>5

\* The steps that take a row away: a logout, and a fetch that fails.
LEMMA RowGoes ==
  ASSUME RowsInv, NEW u \in Users, Logout(u) \/ GetSimulatorsFails(u)
  PROVE  /\ RowsInv'
         /\ row' = [row EXCEPT ![u] = NoSession]
         /\ live \ {row[u]} \subseteq live'
<1> USE DEF RowsInv, RowTypes, RowsDiffer
<1>1. CASE Logout(u)
  BY <1>1 DEF Logout, LogoutLeaves
<1>2. CASE GetSimulatorsFails(u)
  BY <1>2 DEF GetSimulatorsFails
<1>3. QED
  BY <1>1, <1>2

\* Every other step keeps the rows, and ends no session by itself - except the
\* CyberController, which may end any.
LEMMA RowsStay ==
  ASSUME RowsInv, [CCNext]_ccVars,
         ~ \E u \in Users, c \in Creds : Login(u, c),
         ~ \E u \in Users : Logout(u) \/ GetSimulatorsFails(u)
  PROVE  RowsInv' /\ row' = row
<1>1. SUFFICES issued' = issued /\ cookie' = cookie /\ row' = row /\ live' \subseteq live
  BY <1>1 DEF RowsInv, RowTypes, RowsDiffer
<1>2. ASSUME NEW u \in Users, AddSimulator(u) \/ DeleteSimulator(u) PROVE <1>1!1
  BY <1>2 DEF AddSimulator, DeleteSimulator, sessionVars
<1>3. ASSUME NEW u \in Users,
             AddStream(u) \/ AddStreamWithStatus(u) \/ AddBatch(u) \/ ValidateBatch(u)
      PROVE  <1>1!1
  BY <1>3 DEF AddStream, AddStreamWithStatus, AddBatch, ValidateBatch, Open, sessionVars
<1>4. CASE AddOne \/ StartWaiting \/ Complete \/ ClientLeaves
  BY <1>4 DEF AddOne, StartWaiting, Complete, ClientLeaves, sessionVars
<1>5. ASSUME NEW a \in Addresses, PollDevice(a) PROVE <1>1!1
  BY <1>5 DEF PollDevice, sessionVars
<1>6. CASE ReportGathered \/ ReportCompleted
  BY <1>6 DEF ReportGathered, ReportCompleted, sessionVars
<1>7. CASE SessionExpires
  BY <1>7 DEF SessionExpires
<1>8. CASE DeviceChanges
  BY <1>8 DEF DeviceChanges, sessionVars
<1>9. CASE UNCHANGED ccVars
  BY <1>9 DEF ccVars, sessionVars
<1>10. QED
  BY <1>2, <1>3, <1>4, <1>5, <1>6, <1>7, <1>8, <1>9 DEF CCNext, GeneratorStep

LEMMA RowsNext == RowsInv /\ [CCNext]_ccVars => RowsInv'
  BY LoginStep, RowGoes, RowsStay

\* What one user's logout, or failed fetch, does to the others: their rows hold
\* other ids, and only the id of the row that goes may be closed.
THEOREM SessionsApartHolds == CCSpec => SessionsApart
<1> DEFINE Apart == \A u, v \in Users :
                      u # v /\ row[u] # NoSession /\ row'[u] = NoSession /\ row[v] \in live
                        => row[v] \in live'
<1>1. ASSUME RowsInv, [CCNext]_ccVars PROVE Apart
  <2> SUFFICES ASSUME NEW u \in Users, NEW v \in Users,
                      u # v, row[u] # NoSession, row'[u] = NoSession, row[v] \in live
               PROVE  row[v] \in live'
    OBVIOUS
  <2> USE <1>1 DEF RowsInv, RowTypes
  <2>1. ASSUME NEW w \in Users, NEW c \in Creds, Login(w, c) PROVE row[v] \in live'
    BY <2>1, LoginStep
  <2>2. ASSUME NEW w \in Users, Logout(w) \/ GetSimulatorsFails(w) PROVE row[v] \in live'
    <3>1. w = u
      BY <2>2, RowGoes
    <3>2. row[v] # row[u]
      BY DEF RowsDiffer
    <3>3. QED
      BY <2>2, <3>1, <3>2, RowGoes
  <2>3. QED
    BY <2>1, <2>2, RowsStay
<1>2. RowsInv /\ [CCNext]_ccVars => [Apart]_ccVars
  BY <1>1
<1>3. QED
  BY <1>2, RowsInit, RowsNext, PTL DEF CCSpec, SessionsApart

-----------------------------------------------------------------------------
(***************************************************************************)
(* The device streams of a CyberController.                                *)
(***************************************************************************)
\* The types, the counters' left aside.
CCShape ==
  /\ issued \in 0 .. MaxSessions /\ live \subseteq 1 .. issued
  /\ cookie \in [Creds -> Sids \cup {NoSession}] /\ row \in [Users -> Sids \cup {NoSession}]
  /\ device \in [Addresses -> {"absent", "down", "up"}]
  /\ kind \in Kinds /\ phase \in {"none", "adding", "waiting", "complete", "gone"}
  /\ sid \in Sids \cup {NoSession} /\ at \in 1 .. Total + 1
  /\ wait \in [Addresses -> (0 .. Polls) \cup {NotWaiting, IsUp}]
  /\ added \subseteq Addresses
  /\ verdict \in [Addresses -> {"none", "added", "success", "failed"}]

\* The counters are those of the statuses the client was told.
Tally == successful = Cardinality(Told("success")) /\ failed = Cardinality(Told("failed"))

\* Who is still to hear a final status: in the first phase the devices that were
\* added and those to come, in the second those that are waited for.
Final(a) == verdict[a] \in {"success", "failed"}
Statuses ==
  /\ phase = "none" => at = 1
  /\ phase \in {"none", "adding"} =>
       \A a \in Addresses : /\ a >= at => verdict[a] = "none" /\ a \notin added
                            /\ a < at => IF a \in added THEN verdict[a] = "added" ELSE Final(a)
  /\ phase = "waiting" => \A a \in Addresses : Final(a) <=> wait[a] = NotWaiting
  /\ phase = "complete" => \A a \in Addresses : Final(a)

StreamsInv == CCShape /\ Tally /\ Statuses

LEMMA ToldFacts ==
  ASSUME NEW v
  PROVE  IsFiniteSet(Told(v)) /\ Cardinality(Told(v)) \in Nat /\ Cardinality(Told(v)) <= Total
<1>1. Total \in Nat /\ Total \in Int /\ 1 \in Int
  BY CCAssumption
<1>2. IsFiniteSet(Addresses) /\ Cardinality(Addresses) = Total
  <2>1. IsFiniteSet(1 .. Total) /\ Cardinality(1 .. Total) = IF 1 > Total THEN 0 ELSE Total - 1 + 1
    BY <1>1, FS_Interval
  <2>2. QED
    BY <1>1, <2>1, CCAssumption DEF Addresses
<1>3. Told(v) \in SUBSET Addresses
  BY DEF Told
<1>4. IsFiniteSet(Told(v)) /\ Cardinality(Told(v)) <= Cardinality(Addresses)
  BY <1>2, <1>3, FS_Subset
<1>5. Cardinality(Told(v)) \in Nat
  BY <1>4, FS_CardinalityType
<1>6. QED
  BY <1>2, <1>4, <1>5

LEMMA StreamsTypes == StreamsInv => CCTypeOK
<1> SUFFICES ASSUME StreamsInv PROVE CCTypeOK
  OBVIOUS
<1>1. successful \in 0 .. 2 * Total /\ failed \in 0 .. 2 * Total
  BY ToldFacts, CCAssumption DEF StreamsInv, Tally
<1>2. QED
  BY <1>1 DEF StreamsInv, CCShape, CCTypeOK

LEMMA StreamsInit == CCInit => StreamsInv
<1> SUFFICES ASSUME CCInit PROVE StreamsInv
  OBVIOUS
<1> USE CCAssumption DEF CCInit
<1>1. CCShape
  BY DEF CCShape, Kinds, Addresses, NotWaiting, IsUp, Sids
<1>2. Told("success") = {} /\ Told("failed") = {}
  BY DEF Told
<1>3. Tally
  BY <1>2, FS_EmptySet DEF Tally
<1>4. Statuses
  BY DEF Statuses, Addresses
<1>5. QED
  BY <1>1, <1>3, <1>4 DEF StreamsInv

\* A status told to a device changes the counters by what it says.
LEMMA TellOne ==
  ASSUME CCShape, Tally, NEW a \in Addresses, ~ Final(a), NEW v,
         verdict' = [verdict EXCEPT ![a] = v],
         successful' = IF v = "success" THEN successful + 1 ELSE successful,
         failed' = IF v = "failed" THEN failed + 1 ELSE failed
  PROVE  Tally' /\ (\A b \in Addresses \ {a} : verdict'[b] = verdict[b]) /\ verdict'[a] = v
<1>1. (\A b \in Addresses \ {a} : verdict'[b] = verdict[b]) /\ verdict'[a] = v
  BY DEF CCShape
<1>2. ASSUME NEW w \in {"success", "failed"}
      PROVE  Cardinality(Told(w)') = IF v = w THEN Cardinality(Told(w)) + 1 ELSE Cardinality(Told(w))
  <2>1. a \notin Told(w) /\ IsFiniteSet(Told(w))
    BY ToldFacts DEF Told, Final
  <2>2. Told(w)' = IF v = w THEN Told(w) \cup {a} ELSE Told(w)
    BY <1>1, <2>1 DEF Told
  <2>3. Cardinality(Told(w) \cup {a}) = Cardinality(Told(w)) + 1
    BY <2>1, FS_AddElement
  <2>4. QED
    BY <2>2, <2>3
<1>3. /\ Cardinality(Told("success")') = successful'
      /\ Cardinality(Told("failed")') = failed'
  BY <1>2 DEF Tally
<1>4. QED
  BY <1>1, <1>3 DEF Tally

\* The generator's steps.
LEMMA AddOneKeeps ==
  ASSUME StreamsInv, AddOne
  PROVE  StreamsInv'
<1>1. CCShape /\ Tally /\ Statuses /\ phase = "adding" /\ at <= Total
  BY DEF AddOne, StreamsInv
<1>2. PICK o \in AddOutcomes(sid) :
        /\ device' = WithDevice(device, at, o)
        /\ added' = IF Says(o) /\ Waits(kind) THEN added \cup {at} ELSE added
        /\ verdict' = [verdict EXCEPT ![at] = IF ~ Says(o) THEN "failed"
                                              ELSE IF Waits(kind) THEN "added" ELSE "success"]
        /\ successful' = IF Says(o) /\ ~ Waits(kind) THEN successful + 1 ELSE successful
        /\ failed' = IF Says(o) THEN failed ELSE failed + 1
  BY DEF AddOne
<1>3. at' = at + 1 /\ UNCHANGED <<kind, phase, sid, wait, sessionVars>>
  BY DEF AddOne
<1> DEFINE v == IF ~ Says(o) THEN "failed" ELSE IF Waits(kind) THEN "added" ELSE "success"
<1>4. at \in Addresses /\ verdict[at] = "none" /\ at \notin added /\ ~ Final(at) /\ at \in Nat /\ Total \in Nat
  BY <1>1, CCAssumption DEF CCShape, Statuses, Addresses, Final
<1>5. /\ v \in {"failed", "added", "success"}
      /\ (v = "added" <=> Says(o) /\ Waits(kind))
      /\ successful' = IF v = "success" THEN successful + 1 ELSE successful
      /\ failed' = IF v = "failed" THEN failed + 1 ELSE failed
      /\ verdict' = [verdict EXCEPT ![at] = v]
  BY <1>2
<1> HIDE DEF v
<1>6. Tally' /\ (\A b \in Addresses \ {at} : verdict'[b] = verdict[b]) /\ verdict'[at] = v
  BY <1>1, <1>4, <1>5, TellOne
<1>7. CCShape'
  <2>1. device' \in [Addresses -> {"absent", "down", "up"}]
    BY <1>1, <1>2, <1>4 DEF CCShape, WithDevice
  <2>2. verdict' \in [Addresses -> {"none", "added", "success", "failed"}]
    BY <1>1, <1>5 DEF CCShape
  <2>3. added' \subseteq Addresses /\ at' \in 1 .. Total + 1
    BY <1>1, <1>2, <1>3, <1>4 DEF CCShape
  <2>4. QED
    BY <1>1, <1>3, <2>1, <2>2, <2>3 DEF CCShape, sessionVars
<1>8. Statuses'
  <2> SUFFICES ASSUME NEW a \in Addresses
               PROVE  /\ a >= at' => verdict'[a] = "none" /\ a \notin added'
                      /\ a < at' => IF a \in added' THEN verdict'[a] = "added"
                                    ELSE verdict'[a] \in {"success", "failed"}
    BY <1>1, <1>3 DEF Statuses, Final
  <2>1. a \in Nat
    BY DEF Addresses
  <2>2. added' = IF v = "added" THEN added \cup {at} ELSE added
    BY <1>2, <1>5
  <2>3. CASE a = at
    BY <1>3, <1>4, <1>5, <1>6, <2>2, <2>3
  <2>4. CASE a # at
    <3>1. verdict'[a] = verdict[a] /\ (a \in added' <=> a \in added)
      BY <1>6, <2>2, <2>4
    <3>2. (a >= at' => a >= at) /\ (a < at' => a < at)
      BY <1>3, <1>4, <2>1, <2>4
    <3>3. QED
      BY <1>1, <3>1, <3>2 DEF Statuses, Final
  <2>5. QED
    BY <2>3, <2>4
<1>9. QED
  BY <1>6, <1>7, <1>8 DEF StreamsInv

\* The steps that tell nothing.
LEMMA SilentKeeps ==
  ASSUME StreamsInv, UNCHANGED <<verdict, successful, failed>>, CCShape', Statuses'
  PROVE  StreamsInv'
BY DEF StreamsInv, Tally, Told

LEMMA WaitingKeeps ==
  ASSUME StreamsInv,
         \/ StartWaiting \/ Complete \/ ClientLeaves
         \/ \E a \in Addresses : PollDevice(a)
  PROVE  StreamsInv'
<1>1. CCShape /\ Statuses
  BY DEF StreamsInv
<1>2. ASSUME StartWaiting PROVE StreamsInv'
  <2>1. CCShape'
    BY <1>1, <1>2, CCAssumption DEF StartWaiting, CCShape, sessionVars
  <2>2. \A a \in Addresses : a < at /\ a \in Nat
    BY <1>1, <1>2, CCAssumption DEF StartWaiting, CCShape, Addresses
  <2>3. \A a \in Addresses : Final(a)' <=> wait'[a] = NotWaiting
    BY <1>1, <1>2, <2>2 DEF StartWaiting, Statuses, Final, NotWaiting
  <2>4. Statuses' /\ UNCHANGED <<verdict, successful, failed>>
    BY <1>2, <2>3 DEF StartWaiting, Statuses
  <2>5. QED
    BY <2>1, <2>4, SilentKeeps
<1>3. ASSUME Complete \/ ClientLeaves PROVE StreamsInv'
  <2>1. CCShape' /\ UNCHANGED <<verdict, successful, failed>>
    BY <1>1, <1>3 DEF Complete, ClientLeaves, CCShape, sessionVars
  <2>2. Statuses'
    BY <1>1, <1>3 DEF Complete, ClientLeaves, Statuses, Reported, Final
  <2>3. QED
    BY <2>1, <2>2, SilentKeeps
<1>4. ASSUME NEW a \in Addresses, PollDevice(a) PROVE StreamsInv'
  <2>1. wait[a] \in 0 .. Polls - 1 /\ phase = "waiting" /\ Polls \in Nat
    BY <1>4, CCAssumption DEF PollDevice
  <2>2. PICK w \in {IsUp, wait[a] + 1} : wait' = [wait EXCEPT ![a] = w]
    BY <1>4 DEF PollDevice
  <2>3. w \in (0 .. Polls) \cup {IsUp} /\ w # NotWaiting /\ wait[a] # NotWaiting
    BY <2>1 DEF IsUp, NotWaiting
  <2>4. wait' \in [Addresses -> (0 .. Polls) \cup {NotWaiting, IsUp}]
    BY <1>1, <2>2, <2>3 DEF CCShape
  <2>5. CCShape' /\ UNCHANGED <<verdict, successful, failed, phase, at, added>>
    BY <1>1, <1>4, <2>4 DEF PollDevice, CCShape, sessionVars
  <2>6. \A b \in Addresses : wait'[b] = NotWaiting <=> wait[b] = NotWaiting
    BY <1>1, <2>2, <2>3 DEF CCShape
  <2>7. Statuses'
    BY <1>1, <2>1, <2>5, <2>6 DEF Statuses, Final
  <2>8. QED
    BY <2>5, <2>7, SilentKeeps
<1>5. QED
  BY <1>2, <1>3, <1>4

LEMMA ReportKeeps ==
  ASSUME StreamsInv, ReportGathered \/ ReportCompleted
  PROVE  StreamsInv'
<1>1. CCShape /\ Tally /\ Statuses /\ phase = "waiting"
  BY DEF StreamsInv, ReportGathered, ReportCompleted
<1>2. UNCHANGED <<kind, phase, sid, at, added, sessionVars, device>>
  BY DEF ReportGathered, ReportCompleted
<1>3. PICK a \in Addresses : Waited(a) /\ Report(a) /\ wait' = [wait EXCEPT ![a] = NotWaiting]
  BY DEF ReportGathered, ReportCompleted
<1> DEFINE v == IF wait[a] = IsUp THEN "success" ELSE "failed"
<1>4. wait[a] # NotWaiting /\ ~ Final(a)
  BY <1>1, <1>3, CCAssumption DEF Waited, IsUp, NotWaiting, Statuses
<1>5. /\ v \in {"failed", "success"}
      /\ verdict' = [verdict EXCEPT ![a] = v]
      /\ successful' = IF v = "success" THEN successful + 1 ELSE successful
      /\ failed' = IF v = "failed" THEN failed + 1 ELSE failed
  BY <1>3 DEF Report
<1> HIDE DEF v
<1>6. Tally' /\ (\A b \in Addresses \ {a} : verdict'[b] = verdict[b]) /\ verdict'[a] = v
  BY <1>1, <1>4, <1>5, TellOne
<1>7. CCShape'
  BY <1>1, <1>2, <1>3, <1>5 DEF CCShape, sessionVars
<1>8. \A b \in Addresses : Final(b)' <=> wait'[b] = NotWaiting
  <2> TAKE b \in Addresses
  <2>1. CASE b = a
    BY <1>1, <1>3, <1>5, <1>6, <2>1 DEF Final, CCShape
  <2>2. CASE b # a
    BY <1>1, <1>3, <1>6, <2>2 DEF Final, CCShape, Statuses
  <2>3. QED
    BY <2>1, <2>2
<1>9. Statuses'
  BY <1>1, <1>2, <1>8 DEF Statuses
<1>10. QED
  BY <1>6, <1>7, <1>9 DEF StreamsInv

\* A stream is opened.
LEMMA OpenKeeps ==
  ASSUME StreamsInv, NEW u \in Users,
         AddStream(u) \/ AddStreamWithStatus(u) \/ AddBatch(u) \/ ValidateBatch(u)
  PROVE  StreamsInv'
<1>1. CCShape /\ Statuses
  BY DEF StreamsInv
<1>2. PICK k \in Kinds : Open(u, k)
  BY DEF AddStream, AddStreamWithStatus, AddBatch, ValidateBatch, Kinds
<1>3. /\ phase = "none" /\ kind' = k /\ sid' = row[u]
      /\ UNCHANGED <<at, added, verdict, successful, failed, sessionVars, device>>
  BY <1>2 DEF Open
<1>4. \/ phase' = "adding" /\ wait' = wait
      \/ phase' = "waiting" /\ wait' = [a \in Addresses |-> 0]
  BY DEF AddStream, AddStreamWithStatus, AddBatch, ValidateBatch
<1>5. CCShape'
  <2>1. wait' \in [Addresses -> (0 .. Polls) \cup {NotWaiting, IsUp}]
    BY <1>1, <1>4, CCAssumption DEF CCShape
  <2>2. QED
    BY <1>1, <1>3, <1>4, <2>1 DEF CCShape, sessionVars
<1>6. \A a \in Addresses : a >= at /\ verdict[a] = "none"
  BY <1>1, <1>3 DEF Statuses, Addresses
<1>7. Statuses'
  BY <1>1, <1>3, <1>4, <1>6 DEF Statuses, Final, NotWaiting
<1>8. QED
  BY <1>3, <1>5, <1>7, SilentKeeps

\* The steps beside the streams.
LEMMA BesideKeeps ==
  ASSUME StreamsInv, UNCHANGED streamState,
         \/ \E u \in Users : \/ \E c \in Creds : Login(u, c)
                             \/ Logout(u) \/ GetSimulatorsFails(u)
                             \/ AddSimulator(u) \/ DeleteSimulator(u)
         \/ SessionExpires \/ DeviceChanges \/ UNCHANGED ccVars
  PROVE  StreamsInv'
<1>1. CCShape /\ Statuses
  BY DEF StreamsInv
<1>2. UNCHANGED <<kind, phase, sid, at, wait, added, verdict, successful, failed>>
  BY DEF streamState
<1>3. Statuses'
  BY <1>1, <1>2 DEF Statuses, Final
<1> DEFINE Sessions == /\ issued' \in 0 .. MaxSessions /\ live' \subseteq 1 .. issued'
                       /\ cookie' \in [Creds -> Sids \cup {NoSession}]
                       /\ row' \in [Users -> Sids \cup {NoSession}]
           Devices == device' \in [Addresses -> {"absent", "down", "up"}]
<1>4. ASSUME NEW u \in Users, NEW c \in Creds, Login(u, c) PROVE Sessions /\ Devices
  <2>1. PICK s \in LoginAnswers(c) :
          /\ issued' = IF s > issued THEN s ELSE issued
          /\ live' = live \cup {s}
          /\ cookie' = [cookie EXCEPT ![c] = s]
          /\ StoreSession(u, s)
    BY <1>4 DEF Login
  <2>2. s \in Sids /\ s <= issued + 1 /\ issued \in Nat
    BY <1>1, <2>1, CCAssumption DEF LoginAnswers, CCShape, Sids
  <2>3. issued' \in 0 .. MaxSessions /\ live' \subseteq 1 .. issued'
    BY <1>1, <2>1, <2>2, CCAssumption DEF CCShape, Sids
  <2>4. cookie' \in [Creds -> Sids \cup {NoSession}] /\ row' \in [Users -> Sids \cup {NoSession}]
    BY <1>1, <2>1, <2>2 DEF CCShape, StoreSession
  <2>5. QED
    BY <1>1, <1>4, <2>3, <2>4 DEF CCShape, Login
<1>5. ASSUME NEW u \in Users, Logout(u) \/ GetSimulatorsFails(u) PROVE Sessions /\ Devices
  BY <1>1, <1>5 DEF CCShape, Logout, LogoutLeaves, GetSimulatorsFails
<1>6. ASSUME NEW u \in Users, AddSimulator(u) \/ DeleteSimulator(u) PROVE Sessions /\ Devices
  <2>1. Devices
    BY <1>1, <1>6 DEF CCShape, AddSimulator, DeleteSimulator, WithDevice, DeleteLeaves
  <2>2. QED
    BY <1>1, <1>6, <2>1 DEF CCShape, AddSimulator, DeleteSimulator, sessionVars
<1>7. ASSUME SessionExpires \/ DeviceChanges PROVE Sessions /\ Devices
  BY <1>1, <1>7 DEF CCShape, SessionExpires, DeviceChanges, sessionVars
<1>8. ASSUME UNCHANGED ccVars PROVE Sessions /\ Devices
  BY <1>1, <1>8 DEF CCShape, ccVars, sessionVars
<1>9. Sessions /\ Devices
  BY <1>4, <1>5, <1>6, <1>7, <1>8
<1>10. CCShape'
  BY <1>1, <1>2, <1>9 DEF CCShape
<1>11. QED
  BY <1>2, <1>3, <1>10, SilentKeeps

LEMMA StreamsNext == StreamsInv /\ [CCNext]_ccVars => StreamsInv'
<1> SUFFICES ASSUME StreamsInv, [CCNext]_ccVars PROVE StreamsInv'
  OBVIOUS
<1>1. CASE GeneratorStep \/ ClientLeaves
  BY <1>1, AddOneKeeps, WaitingKeeps, ReportKeeps DEF GeneratorStep
<1>2. CASE \E u \in Users :
             AddStream(u) \/ AddStreamWithStatus(u) \/ AddBatch(u) \/ ValidateBatch(u)
  BY <1>2, OpenKeeps
<1>3. CASE \/ \E u \in Users : \/ \E c \in Creds : Login(u, c)
                               \/ Logout(u) \/ GetSimulatorsFails(u)
                               \/ AddSimulator(u) \/ DeleteSimulator(u)
           \/ SessionExpires \/ DeviceChanges \/ UNCHANGED ccVars
  <2>1. UNCHANGED streamState
    BY <1>3 DEF Login, Logout, GetSimulatorsFails, AddSimulator, DeleteSimulator, SessionExpires,
                DeviceChanges, ccVars, streamState
  <2>2. QED
    BY <1>3, <2>1, BesideKeeps
<1>4. QED
  BY <1>1, <1>2, <1>3 DEF CCNext

\* The complete event of a stream has the counters of the statuses it has sent,
\* one for each address, however sessions, devices and polls went.
THEOREM CompleteCounts == CCSpec => [](phase = "complete" => CountsAreVerdicts)
<1>1. StreamsInv => (phase = "complete" => CountsAreVerdicts)
  <2> SUFFICES ASSUME StreamsInv, phase = "complete" PROVE CountsAreVerdicts
    OBVIOUS
  <2>1. Told("success") \cup Told("failed") = Addresses
    BY DEF StreamsInv, Statuses, Final, Told
  <2>2. QED
    BY <2>1 DEF StreamsInv, Tally, CountsAreVerdicts
<1>2. QED
  BY <1>1, StreamsInit, StreamsNext, PTL DEF CCSpec

-----------------------------------------------------------------------------
(***************************************************************************)
(* The IdsDataFormat files.                                                *)
(***************************************************************************)
\* The first three numbers, which are what a file name holds.
Short(v) == <<v[1], v[2], v[3]>>
Versions == Asked \cup OnHost
FullVersions == \A v \in Versions : Len(v) >= 3

LEMMA NumberFacts ==
  ASSUME FullVersions, NEW v \in Versions
  PROVE  /\ v \in Seq(Nat) /\ Len(v) >= 3 /\ v[1] \in {8, 10} /\ v[2] \in 0 .. 99 /\ v[3] \in 0 .. 99
         /\ SubSeq(v, 1, 3) = Short(v)
         /\ \A i \in 1 .. 3 : Number(v, i) = v[i]
         /\ \A i \in 1 .. 4 : Number(v, i) \in Nat
<1>1. v \in Seq(Nat) /\ Len(v) >= 3 /\ Len(v) \in Nat /\ v[1] \in {8, 10}
      /\ \A i \in 2 .. Len(v) : v[i] \in 0 .. 99
  BY FormatAssumption DEF FullVersions, Versions
<1>2. v[2] \in 0 .. 99 /\ v[3] \in 0 .. 99
  BY <1>1
<1>3. SubSeq(v, 1, 3) = Short(v)
  <2>1. \A i \in 1 .. 3 : v[i] \in Nat
    BY <1>1
  <2>2. SubSeq(v, 1, 3) \in Seq(Nat) /\ Len(SubSeq(v, 1, 3)) = 3
        /\ \A i \in 1 .. 3 : SubSeq(v, 1, 3)[i] = v[i]
    BY <2>1, SubSeqProperties
  <2>3. v[1] \in Nat /\ v[2] \in Nat /\ v[3] \in Nat
    BY <2>1
  <2>4. /\ Short(v) \in Seq(Nat) /\ Len(Short(v)) = 3
        /\ Short(v)[1] = v[1] /\ Short(v)[2] = v[2] /\ Short(v)[3] = v[3]
    BY <2>3 DEF Short
  <2>5. \A i \in 1 .. 3 : i = 1 \/ i = 2 \/ i = 3
    OBVIOUS
  <2>6. \A i \in 1 .. 3 : SubSeq(v, 1, 3)[i] = Short(v)[i]
    BY <2>2, <2>4, <2>5
  <2>7. QED
    BY <2>2, <2>4, <2>6, SeqEqual
<1>4. \A i \in 1 .. 3 : Number(v, i) = v[i]
  BY <1>1 DEF Number
<1>5. \A i \in 1 .. 4 : Number(v, i) \in Nat
  BY <1>1 DEF Number
<1>6. QED
  BY <1>1, <1>2, <1>3, <1>4, <1>5

LEMMA ShortNumbers ==
  ASSUME FullVersions, NEW v \in Versions
  PROVE  /\ \A i \in 1 .. 3 : Number(Short(v), i) = Number(v, i)
         /\ Number(Short(v), 4) = 0
<1>1. Len(Short(v)) = 3 /\ Short(v)[1] = v[1] /\ Short(v)[2] = v[2] /\ Short(v)[3] = v[3]
  BY DEF Short
<1>2. \A i \in 1 .. 3 : i = 1 \/ i = 2 \/ i = 3
  OBVIOUS
<1>3. QED
  BY <1>1, <1>2, NumberFacts DEF Number

\* A version is lower when the first of its numbers that differs is.
LEMMA LessMeans ==
  ASSUME NEW v, NEW w
  PROVE  Less(v, w) <=>
           \/ Number(v, 1) < Number(w, 1)
           \/ /\ Number(v, 1) = Number(w, 1)
              /\ Number(v, 2) < Number(w, 2)
           \/ /\ Number(v, 1) = Number(w, 1) /\ Number(v, 2) = Number(w, 2)
              /\ Number(v, 3) < Number(w, 3)
           \/ /\ Number(v, 1) = Number(w, 1) /\ Number(v, 2) = Number(w, 2)
              /\ Number(v, 3) = Number(w, 3) /\ Number(v, 4) < Number(w, 4)
<1> DEFINE Same(i) == Number(v, i) = Number(w, i)
<1>1. (1 .. 1 - 1 = {}) /\ (1 .. 2 - 1 = {1}) /\ (1 .. 3 - 1 = {1, 2}) /\ (1 .. 4 - 1 = {1, 2, 3})
  OBVIOUS
<1>2. 1 .. 4 = {1, 2, 3, 4}
  OBVIOUS
<1>3. QED
  BY <1>1, <1>2 DEF Less

\* A number below 100 is its two digits.
LEMMA DigitFacts ==
  ASSUME NEW x \in 0 .. 99
  PROVE  x \div 10 \in Nat /\ x % 10 \in Nat /\ 10 * (x \div 10) + (x % 10) = x
<1> DEFINE y == x \div 10
           z == x % 10
<1>1. y \in Int /\ z \in 0 .. 9 /\ x = 10 * y + z
  OBVIOUS
<1> HIDE DEF y, z
<1>2. y \in Nat /\ z \in Nat /\ 10 * y + z = x
  BY <1>1
<1>3. QED
  BY <1>2 DEF y, z

\* Four numbers of a sequence.
LEMMA FourOf ==
  ASSUME NEW n, NEW k \in Nat, NEW m \in Nat, m = k + 3, \A i \in k .. m : n[i] \in Nat
  PROVE  /\ Len(SubSeq(n, k, m)) = 4
         /\ SubSeq(n, k, m)[1] = n[k] /\ SubSeq(n, k, m)[2] = n[k + 1]
         /\ SubSeq(n, k, m)[3] = n[k + 2] /\ SubSeq(n, k, m)[4] = n[k + 3]
<1> DEFINE s == SubSeq(n, k, m)
<1>1. /\ Len(s) = IF k <= m THEN m - k + 1 ELSE 0
      /\ \A i \in 1 .. m - k + 1 : s[i] = n[k + i - 1]
  BY SubSeqProperties
<1> HIDE DEF s
<1>2. Len(s) = 4 /\ 1 .. m - k + 1 = 1 .. 4
  BY <1>1
<1>3. s[1] = n[k + 1 - 1] /\ s[2] = n[k + 2 - 1] /\ s[3] = n[k + 3 - 1] /\ s[4] = n[k + 4 - 1]
  BY <1>1, <1>2
<1>4. k + 1 - 1 = k /\ k + 2 - 1 = k + 1 /\ k + 3 - 1 = k + 2 /\ k + 4 - 1 = k + 3
  OBVIOUS
<1>5. QED
  BY <1>2, <1>3, <1>4 DEF s

\* The items of a sequence of one or two followed by two and again by two.
LEMMA IndexFacts ==
  ASSUME NEW n, NEW m, NEW p, NEW q, NEW r, NEW l \in {1, 2},
         \A i \in 1 .. l + 2 : m[i] = IF i <= l THEN p[i] ELSE q[i - l],
         \A i \in 1 .. l + 4 : n[i] = IF i <= l + 2 THEN m[i] ELSE r[i - (l + 2)]
  PROVE  /\ n[1] = p[1] /\ n[l + 1] = q[1] /\ n[l + 2] = q[2]
         /\ n[l + 3] = r[1] /\ n[l + 4] = r[2]
  OBVIOUS

\* The digits of a file name: those of the major version and two pairs.
Joined(p, a, b, c, d) == p \o <<a, b>> \o <<c, d>>

LEMMA NameFacts ==
  ASSUME NEW p \in Seq(Nat), Len(p) \in {1, 2},
         NEW a \in Nat, NEW b \in Nat, NEW c \in Nat, NEW d \in Nat,
         NEW n, n = Joined(p, a, b, c, d)
  PROVE  /\ Len(n) = Len(p) + 4 /\ n[1] = p[1]
         /\ Pairs(SubSeq(n, Len(p) + 1, Len(n))) \in [1 .. 2 -> Nat]
         /\ Pairs(SubSeq(n, Len(p) + 1, Len(n)))[1] = 10 * a + b
         /\ Pairs(SubSeq(n, Len(p) + 1, Len(n)))[2] = 10 * c + d
<1> DEFINE q == <<a, b>>
           r == <<c, d>>
           l == Len(p)
<1>1. /\ q \in Seq(Nat) /\ Len(q) = 2 /\ q[1] = a /\ q[2] = b
      /\ r \in Seq(Nat) /\ Len(r) = 2 /\ r[1] = c /\ r[2] = d
      /\ l \in {1, 2} /\ l \in Nat
  OBVIOUS
<1> HIDE DEF q, r
<1>2. /\ p \o q \in Seq(Nat) /\ Len(p \o q) = Len(p) + Len(q)
      /\ \A i \in 1 .. Len(p) + Len(q) : (p \o q)[i] = IF i <= Len(p) THEN p[i] ELSE q[i - Len(p)]
  BY <1>1, ConcatProperties
<1>3. /\ p \o q \in Seq(Nat) /\ Len(p \o q) = l + 2
      /\ \A i \in 1 .. l + 2 : (p \o q)[i] = IF i <= l THEN p[i] ELSE q[i - l]
  BY <1>2, <1>1
<1>4. /\ n \in Seq(Nat) /\ Len(n) = l + 4
      /\ \A i \in 1 .. l + 4 : n[i] = IF i <= l + 2 THEN (p \o q)[i] ELSE r[i - (l + 2)]
  <2>1. n = (p \o q) \o r
    BY DEF q, r, Joined
  <2> DEFINE pq == p \o q
  <2>2. pq \in Seq(Nat) /\ Len(pq) = l + 2 /\ n = pq \o r
    BY <1>3, <2>1
  <2> HIDE DEF pq, l
  <2>3. /\ pq \o r \in Seq(Nat) /\ Len(pq \o r) = Len(pq) + Len(r)
        /\ \A i \in 1 .. Len(pq) + Len(r) : (pq \o r)[i] = IF i <= Len(pq) THEN pq[i] ELSE r[i - Len(pq)]
    BY <1>1, <2>2, ConcatProperties
  <2>4. Len(pq) + Len(r) = l + 4
    BY <1>1, <2>2
  <2>5. QED
    BY <2>2, <2>3, <2>4 DEF pq
<1> HIDE DEF l
<1>5. \A i \in 1 .. l + 2 : (p \o q)[i] = IF i <= l THEN p[i] ELSE q[i - l]
  BY <1>3
<1>6. \A i \in 1 .. l + 4 : n[i] = IF i <= l + 2 THEN (p \o q)[i] ELSE r[i - (l + 2)]
  BY <1>4
<1>7. n[1] = p[1] /\ n[l + 1] = a /\ n[l + 2] = b /\ n[l + 3] = c /\ n[l + 4] = d
  <2> DEFINE pq == p \o q
  <2>1. \A i \in 1 .. l + 2 : pq[i] = IF i <= l THEN p[i] ELSE q[i - l]
    BY <1>5
  <2>2. \A i \in 1 .. l + 4 : n[i] = IF i <= l + 2 THEN pq[i] ELSE r[i - (l + 2)]
    BY <1>6
  <2>3. l \in {1, 2}
    BY <1>1
  <2> HIDE DEF pq
  <2>4. /\ n[1] = p[1] /\ n[l + 1] = q[1] /\ n[l + 2] = q[2]
        /\ n[l + 3] = r[1] /\ n[l + 4] = r[2]
    BY <2>1, <2>2, <2>3, IndexFacts
  <2>5. q[1] = a /\ q[2] = b /\ r[1] = c /\ r[2] = d
    BY <1>1
  <2>6. QED
    BY <2>4, <2>5
<1> DEFINE s == SubSeq(n, l + 1, l + 4)
<1>8. Len(s) = 4 /\ s[1] = a /\ s[2] = b /\ s[3] = c /\ s[4] = d
  <2> DEFINE k == l + 1
             m == l + 4
  <2>1. k \in Nat /\ m \in Nat /\ m = k + 3
    BY <1>1
  <2>2. k + 1 = l + 2 /\ k + 2 = l + 3 /\ k + 3 = l + 4
    BY <1>1
  <2>3. \A i \in k .. m : n[i] \in Nat
    <3> TAKE i \in k .. m
    <3>1. i \in 1 .. Len(n)
      BY <1>1, <1>4
    <3>2. QED
      BY <1>4, <3>1, ElementOfSeq
  <2> HIDE DEF k, m
  <2>4. /\ Len(SubSeq(n, k, m)) = 4
        /\ SubSeq(n, k, m)[1] = n[k] /\ SubSeq(n, k, m)[2] = n[k + 1]
        /\ SubSeq(n, k, m)[3] = n[k + 2] /\ SubSeq(n, k, m)[4] = n[k + 3]
    BY <2>1, <2>3, FourOf
  <2>5. QED
    BY <1>7, <2>1, <2>2, <2>4 DEF k, m
<1> HIDE DEF s
<1>9. /\ Pairs(s) \in [1 .. 2 -> Nat]
      /\ Pairs(s)[1] = 10 * a + b /\ Pairs(s)[2] = 10 * c + d
  <2>1. (4 + 1) \div 2 = 2
    OBVIOUS
  <2>2. Pairs(s) = [i \in 1 .. 2 |-> IF 2 * i <= 4 THEN 10 * s[2 * i - 1] + s[2 * i] ELSE s[2 * i - 1]]
    BY <1>8, <2>1 DEF Pairs
  <2>3. /\ Pairs(s)[1] = 10 * s[1] + s[2] /\ Pairs(s)[2] = 10 * s[3] + s[4]
        /\ DOMAIN Pairs(s) = 1 .. 2 /\ Pairs(s) = [i \in 1 .. 2 |-> Pairs(s)[i]]
    BY <2>2
  <2>4. \A i \in 1 .. 2 : Pairs(s)[i] \in Nat
    BY <1>8, <2>3
  <2>5. QED
    BY <1>8, <2>3, <2>4
<1>10. QED
  BY <1>4, <1>7, <1>9 DEF s, l

\* The file name tells the first three numbers, and tells them apart.
LEMMA FileNames ==
  ASSUME FullVersions, NEW v \in Versions
  PROVE  VersionOf(FileName(v)) = Short(v) /\ FileName(Short(v)) = FileName(v)
<1> DEFINE a == v[2] \div 10
           b == v[2] % 10
           c == v[3] \div 10
           d == v[3] % 10
           p == Digits(v[1])
           n == FileName(v)
<1>1. /\ v[1] \in {8, 10} /\ Len(v) >= 3 /\ Len(v) \in Nat
      /\ v[2] \in 0 .. 99 /\ v[3] \in 0 .. 99
  BY NumberFacts
<1>2. /\ a \in Nat /\ b \in Nat /\ c \in Nat /\ d \in Nat
      /\ 10 * a + b = v[2] /\ 10 * c + d = v[3]
  BY <1>1, DigitFacts
<1>3. n = Joined(p, a, b, c, d)
  <2>1. 2 <= Len(v) /\ 3 <= Len(v)
    BY <1>1
  <2>2. QED
    BY <2>1 DEF FileName, Padded, TwoDigits, Joined
<1>4. FileName(Short(v)) = n
  <2>1. Len(Short(v)) = 3 /\ Short(v)[1] = v[1] /\ Short(v)[2] = v[2] /\ Short(v)[3] = v[3]
    BY DEF Short
  <2>2. 2 <= Len(Short(v)) /\ 3 <= Len(Short(v))
    BY <2>1
  <2>3. FileName(Short(v)) = Joined(p, a, b, c, d)
    BY <2>1, <2>2 DEF FileName, Padded, TwoDigits, Joined
  <2>4. QED
    BY <1>3, <2>3
<1> HIDE DEF a, b, c, d, n
<1>5. p \in Seq(Nat) /\ (v[1] = 8 => Len(p) = 1 /\ p[1] = 8) /\ (v[1] = 10 => Len(p) = 2 /\ p[1] = 1)
  BY <1>1 DEF Digits
<1>6. (v[1] = 8 => Len(p) = 1) /\ (v[1] = 10 => Len(p) = 2)
  BY <1>5
<1>7. (v[1] = 8 => p[1] = 8) /\ (v[1] = 10 => p[1] = 1)
  BY <1>5
<1>8. Len(p) \in {1, 2}
  BY <1>1, <1>6
<1> HIDE DEF p
<1> DEFINE q == Pairs(SubSeq(n, Len(p) + 1, Len(n)))
<1>9. Len(n) = Len(p) + 4 /\ n[1] = p[1] /\ q \in [1 .. 2 -> Nat] /\ q[1] = v[2] /\ q[2] = v[3]
  <2>1. /\ Len(n) = Len(p) + 4 /\ n[1] = p[1] /\ q \in [1 .. 2 -> Nat]
        /\ q[1] = 10 * a + b /\ q[2] = 10 * c + d
    <3>1. p \in Seq(Nat) /\ a \in Nat /\ b \in Nat /\ c \in Nat /\ d \in Nat
      BY <1>2, <1>5
    <3>2. QED
      <4> HIDE DEF q
      <4>1. Pairs(SubSeq(n, Len(p) + 1, Len(n))) = q
        BY DEF q
      <4>2. QED
        BY <1>3, <1>8, <3>1, <4>1, NameFacts
  <2> HIDE DEF q
  <2>2. QED
    BY <1>2, <2>1
<1>10. q = Pairs(SubSeq(n, Len(p) + 1, Len(n)))
  OBVIOUS
<1> HIDE DEF q
<1>11. n[1] = p[1]
  BY <1>9
<1>12. VersionOf(n) = <<v[1]>> \o q
  <2>1. CASE v[1] = 8
    <3>1. Len(p) = 1
      BY <1>6, <2>1
    <3>2. Len(p) + 1 = 2
      BY <3>1
    <3>3. n[1] = 8
      BY <1>7, <1>11, <2>1
    <3>4. QED
      BY <1>10, <2>1, <3>2, <3>3 DEF VersionOf
  <2>2. CASE v[1] = 10
    <3>1. Len(p) = 2
      BY <1>6, <2>2
    <3>2. Len(p) + 1 = 3
      BY <3>1
    <3>3. n[1] # 8
      BY <1>7, <1>11, <2>2
    <3>4. QED
      BY <1>10, <2>2, <3>2, <3>3 DEF VersionOf
  <2>3. QED
    BY <1>1, <2>1, <2>2
<1>13. <<v[1]>> \o q = Short(v)
  <2> DEFINE m == <<v[1]>>
  <2>1. m \in Seq(Nat) /\ Len(m) = 1 /\ m[1] = v[1] /\ q \in Seq(Nat) /\ Len(q) = 2
    <3>1. v[1] \in Nat
      BY <1>1
    <3>2. q \in Seq(Nat) /\ Len(q) = 2
      <4>1. q \in [1 .. 2 -> Nat] /\ 2 \in Nat
        BY <1>9
      <4>2. q \in Seq(Nat)
        BY <4>1, SeqDef
      <4>3. QED
        BY <4>1, <4>2
    <3>3. QED
      BY <3>1, <3>2
  <2> HIDE DEF m
  <2>2. /\ m \o q \in Seq(Nat) /\ Len(m \o q) = Len(m) + Len(q)
        /\ \A i \in 1 .. Len(m) + Len(q) : (m \o q)[i] = IF i <= Len(m) THEN m[i] ELSE q[i - Len(m)]
    BY <2>1, ConcatProperties
  <2> DEFINE mq == m \o q
  <2>3. /\ mq \in Seq(Nat) /\ Len(mq) = Len(m) + Len(q)
         /\ \A i \in 1 .. Len(m) + Len(q) : mq[i] = IF i <= Len(m) THEN m[i] ELSE q[i - Len(m)]
    BY <2>2
  <2> HIDE DEF mq
  <2>4. Len(m) + Len(q) = 3 /\ 2 - Len(m) = 1 /\ 3 - Len(m) = 2
    BY <2>1
  <2>5. Len(mq) = 3
    BY <2>3, <2>4
  <2>6. mq[1] = v[1] /\ mq[2] = v[2] /\ mq[3] = v[3]
    <3>1. mq[1] = m[1] /\ mq[2] = q[2 - Len(m)] /\ mq[3] = q[3 - Len(m)]
      BY <2>1, <2>3, <2>4
    <3>2. q[1] = v[2] /\ q[2] = v[3]
      BY <1>9
    <3>3. m[1] = v[1]
      BY <2>1
    <3>4. mq[2] = q[1] /\ mq[3] = q[2]
      BY <2>4, <3>1
    <3>5. QED
      BY <3>1, <3>2, <3>3, <3>4
  <2>7. v[1] \in Nat /\ v[2] \in Nat /\ v[3] \in Nat
    <3>1. v[1] \in {8, 10}
      BY <1>1
    <3>2. v[2] \in 0 .. 99 /\ v[3] \in 0 .. 99
      BY <1>1
    <3>3. QED
      BY <3>1, <3>2
  <2>8. /\ Short(v) \in Seq(Nat) /\ Len(Short(v)) = 3
        /\ Short(v)[1] = v[1] /\ Short(v)[2] = v[2] /\ Short(v)[3] = v[3]
    BY <2>7 DEF Short
  <2>9. \A i \in 1 .. 3 : i = 1 \/ i = 2 \/ i = 3
    OBVIOUS
  <2>10. \A i \in 1 .. 3 : mq[i] = Short(v)[i]
    BY <2>6, <2>8, <2>9
  <2>11. mq = Short(v)
    BY <2>5, <2>3, <2>8, <2>10, SeqEqual
  <2>12. QED
    BY <2>11 DEF m, mq
<1>14. QED
  BY <1>4, <1>12, <1>13 DEF n
-----------------------------------------------------------------------------
(* What Less orders: versions with the same first three numbers, of which one *)
(* has no fourth, are compared by the fourth.                                 *)

\* The file that is not above a version is not above its first three numbers,
\* and one that is not below those either is the version's own.
LEMMA ShortIsLast ==
  ASSUME FullVersions, NEW v \in Versions, NEW u \in Versions, ~ Less(v, Short(u))
  PROVE  /\ ~ Less(Short(v), Short(u))
         /\ ~ Less(Short(u), Short(v)) => Short(u) = Short(v)
<1>1. /\ Number(Short(v), 1) = Number(v, 1) /\ Number(Short(v), 2) = Number(v, 2)
      /\ Number(Short(v), 3) = Number(v, 3) /\ Number(Short(v), 4) = 0
  BY ShortNumbers
<1>2. /\ Number(Short(u), 1) = Number(u, 1) /\ Number(Short(u), 2) = Number(u, 2)
      /\ Number(Short(u), 3) = Number(u, 3) /\ Number(Short(u), 4) = 0
  BY ShortNumbers
<1>3. /\ Number(v, 1) \in Nat /\ Number(v, 2) \in Nat /\ Number(v, 3) \in Nat /\ Number(v, 4) \in Nat
      /\ Number(u, 1) \in Nat /\ Number(u, 2) \in Nat /\ Number(u, 3) \in Nat
      /\ Number(v, 1) = v[1] /\ Number(v, 2) = v[2] /\ Number(v, 3) = v[3]
      /\ Number(u, 1) = u[1] /\ Number(u, 2) = u[2] /\ Number(u, 3) = u[3]
  BY NumberFacts
<1>4. ~ Less(Short(v), Short(u))
  BY <1>1, <1>2, <1>3, LessMeans
<1>5. ASSUME ~ Less(Short(u), Short(v)) PROVE Short(u) = Short(v)
  <2>1. /\ Number(u, 1) = Number(v, 1) /\ Number(u, 2) = Number(v, 2) /\ Number(u, 3) = Number(v, 3)
    BY <1>1, <1>2, <1>3, <1>4, <1>5, LessMeans
  <2>2. u[1] = v[1] /\ u[2] = v[2] /\ u[3] = v[3]
    BY <1>3, <2>1
  <2>3. QED
    BY <2>2 DEF Short
<1>6. QED
  BY <1>4, <1>5

-----------------------------------------------------------------------------
(* The invariant: a file and its backup hold a custom file, or the one the    *)
(* CyberController came with under that very name.                            *)

Holds(n) == {NoFile, Original(n)} \cup {Custom(c) : c \in Customs}

FilesInv ==
  /\ file = [n \in Names |-> file[n]] /\ backup = [n \in Names |-> backup[n]]
  /\ \A n \in Names : file[n] \in Holds(n) /\ backup[n] \in Holds(n)
  /\ reply.kind \in {"none", "uploaded", "downloaded"}

\* What may be fetched for a version is in its own file, or in one that is not
\* above its first three numbers and is its own if its own is there.
LEMMA FetchedFrom ==
  ASSUME FullVersions, NEW v \in Versions, NEW files, files = [n \in Names |-> files[n]],
         NEW got \in Fetched(v, files)
  PROVE  \E u \in Versions :
           /\ got = files[FileName(u)] /\ got # NoFile
           /\ ~ Less(Short(v), Short(u))
           /\ files[FileName(v)] # NoFile => FileName(u) = FileName(v)
<1>1. got # NoFile
  BY DEF Fetched
<1>2. FileName(v) \in Names
  BY DEF Names, Versions
<1>3. CASE got = files[FileName(v)]
  <2>1. ~ Less(Short(v), Short(v))
    <3>1. /\ Number(Short(v), 1) \in Nat /\ Number(Short(v), 2) \in Nat
          /\ Number(Short(v), 3) \in Nat /\ Number(Short(v), 4) \in Nat
      BY ShortNumbers, NumberFacts
    <3>2. QED
      BY <3>1, LessMeans
  <2>2. QED
    BY <1>1, <1>3, <2>1
<1>4. CASE got # files[FileName(v)]
  <2>1. PICK w \in ClosestLower(v, Available(files)) : got = files[FileName(w)]
    BY <1>4 DEF Fetched
  <2>2. w \in Available(files) /\ ~ Less(v, w)
        /\ \A x \in Available(files) : ~ Less(v, x) => ~ Less(w, x)
    BY <2>1 DEF ClosestLower
  <2>3. PICK u \in Versions : w = VersionOf(FileName(u))
    BY <2>2 DEF Available, Names, Versions
  <2>4. w = Short(u) /\ FileName(w) = FileName(u)
    BY <2>3, FileNames
  <2>5. ~ Less(Short(v), Short(u))
    BY <2>2, <2>4, ShortIsLast
  <2>6. ASSUME files[FileName(v)] # NoFile PROVE FileName(u) = FileName(v)
    <3>1. Short(v) \in Available(files)
      <4>1. VersionOf(FileName(v)) = Short(v)
        BY FileNames
      <4>2. QED
        BY <1>2, <2>6, <4>1 DEF Available
    <3>2. ~ Less(v, Short(v))
      <4>1. /\ Number(Short(v), 1) = Number(v, 1) /\ Number(Short(v), 2) = Number(v, 2)
            /\ Number(Short(v), 3) = Number(v, 3) /\ Number(Short(v), 4) = 0
        BY ShortNumbers
      <4>2. /\ Number(v, 1) \in Nat /\ Number(v, 2) \in Nat
            /\ Number(v, 3) \in Nat /\ Number(v, 4) \in Nat
        BY NumberFacts
      <4>3. QED
        BY <4>1, <4>2, LessMeans
    <3>3. ~ Less(Short(u), Short(v))
      BY <2>2, <2>4, <3>1, <3>2
    <3>4. Short(u) = Short(v)
      BY <2>2, <2>4, <3>3, ShortIsLast
    <3>5. QED
      BY <3>4, FileNames
  <2>7. QED
    BY <1>1, <2>1, <2>4, <2>5, <2>6
<1>5. QED
  BY <1>3, <1>4

\* An upload leaves its file in place, and reads that very file back.
LEMMA UploadStep ==
  ASSUME FullVersions, FilesInv, SchemaIsTheOneAsked,
         NEW v \in Asked, NEW c \in Customs, Upload(v, c)
  PROVE  FilesInv' /\ SchemaIsTheOneAsked'
<1> DEFINE n == FileName(v)
           files == [file EXCEPT ![n] = Custom(c)]
<1>1. n \in Names /\ v \in Versions
  BY DEF Names, Versions
<1>2. PICK lost \in BOOLEAN :
        /\ backup' = IF backup[n] = NoFile /\ ~ lost THEN [backup EXCEPT ![n] = file[n]] ELSE backup
        /\ \/ UNCHANGED <<file, reply>>
           \/ /\ file' = files
              /\ \/ UNCHANGED reply
                 \/ \E got \in Fetched(v, files) :
                      reply' = [kind |-> "uploaded", version |-> v, content |-> got, sent |-> Custom(c)]
  BY DEF Upload
<1>3. files = [m \in Names |-> files[m]] /\ files[n] = Custom(c)
      /\ \A m \in Names : files[m] \in Holds(m)
  BY <1>1 DEF FilesInv, Holds
<1>4. Custom(c) # NoFile
  BY FileAssumption DEF Contents
<1> HIDE DEF files, n
<1>5. ASSUME NEW got \in Fetched(v, files) PROVE got = Custom(c)
  <2>1. PICK u \in Versions :
          got = files[FileName(u)] /\ (files[FileName(v)] # NoFile => FileName(u) = FileName(v))
    BY <1>1, <1>3, <1>5, FetchedFrom
  <2>2. QED
    BY <1>3, <1>4, <2>1 DEF n
<1>6. /\ backup' = [m \in Names |-> backup'[m]] /\ \A m \in Names : backup'[m] \in Holds(m)
  BY <1>1, <1>2 DEF FilesInv
<1>7. CASE UNCHANGED <<file, reply>>
  BY <1>6, <1>7 DEF FilesInv, SchemaIsTheOneAsked
<1>8. CASE file' = files /\ UNCHANGED reply
  BY <1>3, <1>6, <1>8 DEF FilesInv, SchemaIsTheOneAsked
<1>9. ASSUME file' = files, NEW got \in Fetched(v, files),
             reply' = [kind |-> "uploaded", version |-> v, content |-> got, sent |-> Custom(c)]
      PROVE  FilesInv' /\ SchemaIsTheOneAsked'
  <2>1. got = Custom(c)
    BY <1>5, <1>9
  <2>2. reply'.kind = "uploaded" /\ reply'.content = reply'.sent
    BY <1>9, <2>1
  <2>3. QED
    BY <1>3, <1>6, <1>9, <2>2 DEF FilesInv, SchemaIsTheOneAsked
<1>10. QED
  BY <1>2, <1>7, <1>8, <1>9

\* The files and the backups a download may find or make.
LEMMA ServedMeans ==
  ASSUME NEW n, NEW served \in Served(n)
  PROVE  /\ served[1] = file \/ served[1] = [file EXCEPT ![n] = backup[n]]
         /\ served[2] = backup \/ served[2] = [backup EXCEPT ![n] = NoFile]
  BY DEF Served

\* A download may bring the backup back, and reads a file that is not above what
\* was asked for.
LEMMA DownloadStep ==
  ASSUME FullVersions, FilesInv, SchemaIsTheOneAsked, NEW v \in Asked, Download(v)
  PROVE  FilesInv' /\ SchemaIsTheOneAsked'
<1> DEFINE n == FileName(v)
<1>1. n \in Names /\ v \in Versions
  BY DEF Names, Versions
<1>2. PICK served \in Served(n) :
        /\ file' = served[1] /\ backup' = served[2]
        /\ \/ UNCHANGED reply
           \/ \E got \in Fetched(v, served[1]) :
                reply' = [kind |-> "downloaded", version |-> v, content |-> got, sent |-> got]
  BY DEF Download
<1>3. /\ file' = file \/ file' = [file EXCEPT ![n] = backup[n]]
      /\ backup' = backup \/ backup' = [backup EXCEPT ![n] = NoFile]
  BY <1>2, ServedMeans
<1> HIDE DEF n
<1>4. /\ file' = [m \in Names |-> file'[m]] /\ backup' = [m \in Names |-> backup'[m]]
      /\ \A m \in Names : file'[m] \in Holds(m) /\ backup'[m] \in Holds(m)
  BY <1>1, <1>3 DEF FilesInv, Holds
<1>5. CASE UNCHANGED reply
  BY <1>4, <1>5 DEF FilesInv, SchemaIsTheOneAsked
<1>6. ASSUME NEW got \in Fetched(v, file'),
             reply' = [kind |-> "downloaded", version |-> v, content |-> got, sent |-> got]
      PROVE  FilesInv' /\ SchemaIsTheOneAsked'
  <2>1. PICK u \in Versions :
          got = file'[FileName(u)] /\ got # NoFile /\ ~ Less(Short(v), Short(u))
    BY <1>1, <1>4, <1>6, FetchedFrom
  <2>2. FileName(u) \in Names
    BY DEF Names, Versions
  <2>3. got \in Holds(FileName(u))
    BY <1>4, <2>1, <2>2
  <2>4. ASSUME ~ got.custom PROVE ~ Less(SubSeq(v, 1, 3), VersionOf(got.is))
    <3>1. got = Original(FileName(u))
      BY <2>1, <2>3, <2>4 DEF Holds, Custom
    <3>2. VersionOf(got.is) = Short(u)
      BY <3>1, FileNames DEF Original
    <3>3. SubSeq(v, 1, 3) = Short(v)
      BY <1>1, NumberFacts
    <3>4. QED
      BY <2>1, <3>2, <3>3
  <2>5. reply'.kind = "downloaded" /\ reply'.content = got /\ reply'.version = v
    BY <1>6
  <2>6. QED
    BY <1>4, <2>4, <2>5 DEF FilesInv, SchemaIsTheOneAsked
<1>7. QED
  BY <1>2, <1>5, <1>6

LEMMA FilesInit == FormatInit => FilesInv /\ SchemaIsTheOneAsked
<1> SUFFICES ASSUME FormatInit PROVE FilesInv /\ SchemaIsTheOneAsked
  OBVIOUS
<1>1. reply.kind = "none"
  BY DEF FormatInit, NoReply
<1>2. FilesInv
  BY <1>1 DEF FormatInit, FilesInv, Holds
<1>3. QED
  BY <1>1, <1>2 DEF SchemaIsTheOneAsked

\* Whoever names versions in full is answered with the schema that was asked for.
THEOREM SchemaIsTheOneAskedHolds ==
  ASSUME FullVersions
  PROVE  FormatSpec => []SchemaIsTheOneAsked
<1>1. FilesInv /\ SchemaIsTheOneAsked /\ [FormatNext]_formatVars => FilesInv' /\ SchemaIsTheOneAsked'
  <2> SUFFICES ASSUME FilesInv, SchemaIsTheOneAsked, [FormatNext]_formatVars
               PROVE  FilesInv' /\ SchemaIsTheOneAsked'
    OBVIOUS
  <2>1. CASE FormatNext
    BY <2>1, UploadStep, DownloadStep DEF FormatNext
  <2>2. CASE UNCHANGED formatVars
    BY <2>2 DEF formatVars, FilesInv, SchemaIsTheOneAsked
  <2>3. QED
    BY <2>1, <2>2
<1>2. QED
  BY <1>1, FilesInit, PTL DEF FormatSpec

-----------------------------------------------------------------------------
(***************************************************************************)
(* The two together.                                                       *)
(***************************************************************************)
\* The files keep their type whatever the versions look like.
LEMMA FormatTypes == FormatTypeOK /\ [FormatNext]_formatVars => FormatTypeOK'
<1> SUFFICES ASSUME FormatTypeOK, [FormatNext]_formatVars PROVE FormatTypeOK'
  OBVIOUS
<1> USE DEF FormatTypeOK
<1>1. ASSUME NEW v \in Asked, NEW c \in Customs, Upload(v, c) PROVE FormatTypeOK'
  <2>1. FileName(v) \in Names /\ Custom(c) \in Contents
    BY DEF Names, Contents
  <2>2. /\ file' = file \/ file' = [file EXCEPT ![FileName(v)] = Custom(c)]
        /\ backup' = backup \/ backup' = [backup EXCEPT ![FileName(v)] = file[FileName(v)]]
        /\ reply' = reply \/ reply'.kind = "uploaded"
    BY <1>1 DEF Upload
  <2>3. QED
    BY <2>1, <2>2
<1>2. ASSUME NEW v \in Asked, Download(v) PROVE FormatTypeOK'
  <2>1. FileName(v) \in Names
    BY DEF Names
  <2>2. PICK served \in Served(FileName(v)) :
          /\ file' = served[1] /\ backup' = served[2]
          /\ \/ UNCHANGED reply
             \/ \E got \in Fetched(v, served[1]) :
                  reply' = [kind |-> "downloaded", version |-> v, content |-> got, sent |-> got]
    BY <1>2 DEF Download
  <2>3. /\ file' = file \/ file' = [file EXCEPT ![FileName(v)] = backup[FileName(v)]]
        /\ backup' = backup \/ backup' = [backup EXCEPT ![FileName(v)] = NoFile]
    BY <2>2, ServedMeans
  <2>4. reply' = reply \/ reply'.kind = "downloaded"
    BY <2>2
  <2>5. QED
    BY <2>1, <2>3, <2>4
<1>3. CASE UNCHANGED formatVars
  BY <1>3 DEF formatVars
<1>4. QED
  BY <1>1, <1>2, <1>3 DEF FormatNext

\* Type correctness of the portal's side of a CyberController, for any number of
\* users, credentials and devices, polls and versions.
THEOREM ControllerTypes == ControllerSpec => []ControllerTypeOK
<1>1. ControllerInit => StreamsInv /\ FormatTypeOK
  <2>1. FormatInit => FormatTypeOK
    BY DEF FormatInit, FormatTypeOK, NoReply, Contents
  <2>2. QED
    BY <2>1, StreamsInit DEF ControllerInit
<1>2. [ControllerNext]_controllerVars => [CCNext]_ccVars /\ [FormatNext]_formatVars
  BY DEF ControllerNext, SessionsMove, FormatsMove, controllerVars
<1>3. StreamsInv /\ FormatTypeOK /\ [ControllerNext]_controllerVars => StreamsInv' /\ FormatTypeOK'
  BY <1>2, StreamsNext, FormatTypes
<1>4. StreamsInv /\ FormatTypeOK => ControllerTypeOK
  BY StreamsTypes DEF ControllerTypeOK
<1>5. QED
  BY <1>1, <1>3, <1>4, PTL DEF ControllerSpec
=============================================================================
