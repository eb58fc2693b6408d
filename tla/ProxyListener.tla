--------------------------- MODULE ProxyListener ---------------------------
(***************************************************************************)
(* ListenerManager of the sapro-proxy                                      *)
(* (sapro-proxy/proxy/listener_manager.py), a process of its own that      *)
(* polls the proxy_listeners collection and keeps one HTTPS server for     *)
(* every port of every address in it.  The backend writes the collection   *)
(* (variable ear of module SimulatorRegistry) whenever it likes, addresses *)
(* come and go on the host, clients keep handlers busy, and the process    *)
(* may crash, which the container runtime answers with a restart.          *)
(***************************************************************************)
CONSTANTS Ips,     \* device addresses
          Ports,   \* SAPRO_PROXY_PORTS
          NoIp,    \* value of cur outside _start_listener and _stop_listener
          NoSock   \* value of shut when no server is being shut down

ASSUME ProxyAssumption == Ports # {} /\ NoIp \notin Ips /\ NoSock \notin Ips \X Ports

VARIABLES
  ear,       \* the addresses with a proxy_listeners document
  up,        \* the addresses that can be bound on the host
  open,      \* the sockets <<ip, port>> that are bound, each with its server thread
  stuck,     \* the sockets whose single-threaded server is busy with a client
  active,    \* the keys of active_listeners
  pc,        \* "down", "idle", "syncing", "binding", "undoing" or "closing"
  polling,   \* the first sync is done
  toStart,   \* the loops of the sync in progress: desired_ips - current_ips ...
  toStop,    \* ... and current_ips - desired_ips
  cur,       \* the address in hand
  shut       \* the server whose shutdown() has been called

vars == <<ear, up, open, stuck, active, pc, polling, toStart, toStop, cur, shut>>
env  == <<ear, up, stuck>>

Socks == Ips \X Ports
SocksOf(ip) == {ip} \X Ports
Mine == open \cap SocksOf(cur)

TypeOK ==
  /\ ear \in SUBSET Ips
  /\ up \in SUBSET Ips
  /\ open \in SUBSET Socks
  /\ stuck \in SUBSET open
  /\ active \in SUBSET Ips
  /\ pc \in {"down", "idle", "syncing", "binding", "undoing", "closing"}
  /\ polling \in BOOLEAN
  /\ toStart \in SUBSET Ips
  /\ toStop \in SUBSET Ips
  /\ cur \in Ips \cup {NoIp}
  /\ shut \in Socks \cup {NoSock}

Init ==
  /\ ear = {} /\ up = {} /\ open = {} /\ stuck = {} /\ active = {}
  /\ pc = "down"
  /\ polling = FALSE
  /\ toStart = {} /\ toStop = {}
  /\ cur = NoIp
  /\ shut = NoSock

-----------------------------------------------------------------------------
(* sync.                                                                   *)

Boot ==
  /\ pc = "down"
  /\ pc' = "idle"
  /\ UNCHANGED <<env, open, active, polling, toStart, toStop, cur, shut>>

\* Both differences are taken from the one snapshot of the collection.
SyncNeverStops ==
  /\ pc = "idle"
  /\ pc' = "syncing"
  /\ toStart' = ear \ active
  /\ toStop' = {}
  /\ UNCHANGED <<env, open, active, polling, cur, shut>>
Sync ==
  /\ pc = "idle"
  /\ pc' = "syncing"
  /\ toStart' = ear \ active
  /\ toStop' = active \ ear
  /\ UNCHANGED <<env, open, active, polling, cur, shut>>

\* Everything but the documents and the host's addresses ends with the process.
Die ==
  /\ pc' = "down"
  /\ polling' = FALSE
  /\ open' = {} /\ stuck' = {} /\ active' = {} /\ toStart' = {} /\ toStop' = {}
  /\ cur' = NoIp
  /\ shut' = NoSock
  /\ UNCHANGED <<ear, up>>

\* find raises: the poll loop goes on, but nobody catches it in the first sync.
SyncFails ==
  /\ pc = "idle"
  /\ ~ polling
  /\ Die

StartListener(ip) ==
  /\ pc = "syncing" /\ ip \in toStart
  /\ toStart' = toStart \ {ip}
  /\ cur' = ip
  /\ pc' = "binding"
  /\ UNCHANGED <<env, open, active, polling, toStop, shut>>

\* Starts come before stops.
StopListener(ip) ==
  /\ pc = "syncing" /\ toStart = {} /\ ip \in toStop
  /\ toStop' = toStop \ {ip}
  /\ active' = active \ {ip}
  /\ cur' = ip
  /\ pc' = "closing"
  /\ UNCHANGED <<env, open, polling, toStart, shut>>

Sleep ==
  /\ pc = "syncing" /\ toStart = {} /\ toStop = {}
  /\ pc' = "idle"
  /\ polling' = TRUE
  /\ UNCHANGED <<env, open, active, toStart, toStop, cur, shut>>

-----------------------------------------------------------------------------
(* _start_listener and _stop_listener.                                     *)

Bind(s) ==
  /\ pc = "binding" /\ s \in SocksOf(cur) \ open /\ cur \in up
  /\ open' = open \cup {s}
  /\ UNCHANGED <<env, active, pc, polling, toStart, toStop, cur, shut>>

\* OSError: the address is not on the host, or another process has the port.
BindFailsSkipsPort ==
  /\ pc = "binding" /\ Mine # SocksOf(cur)
  /\ active' = active \cup {cur}
  /\ cur' = NoIp
  /\ pc' = "syncing"
  /\ UNCHANGED <<env, open, polling, toStart, toStop, shut>>
BindFailsLeaks ==
  /\ pc = "binding" /\ Mine # SocksOf(cur)
  /\ cur' = NoIp
  /\ pc' = "syncing"
  /\ UNCHANGED <<env, open, active, polling, toStart, toStop, shut>>
BindFails ==
  /\ pc = "binding" /\ Mine # SocksOf(cur)
  /\ pc' = "undoing"
  /\ UNCHANGED <<env, open, active, polling, toStart, toStop, cur, shut>>

Started ==
  /\ pc = "binding" /\ Mine = SocksOf(cur)
  /\ active' = active \cup {cur}
  /\ cur' = NoIp
  /\ pc' = "syncing"
  /\ UNCHANGED <<env, open, polling, toStart, toStop, shut>>

\* server.shutdown() is called, and returns when the server thread has left
\* its loop: not before the request it is busy with is over.
Shutdown(s) ==
  /\ pc \in {"undoing", "closing"} /\ shut = NoSock /\ s \in Mine
  /\ shut' = s
  /\ UNCHANGED <<env, open, active, pc, polling, toStart, toStop, cur>>

ServerClose ==
  /\ shut # NoSock /\ shut \notin stuck
  /\ open' = open \ {shut}
  /\ shut' = NoSock
  /\ UNCHANGED <<env, active, pc, polling, toStart, toStop, cur>>

Stopped ==
  /\ pc \in {"undoing", "closing"} /\ Mine = {}
  /\ cur' = NoIp
  /\ pc' = "syncing"
  /\ UNCHANGED <<env, open, active, polling, toStart, toStop, shut>>

-----------------------------------------------------------------------------
(* The environment.                                                        *)

Register(ip)   == ear' = ear \cup {ip}
Unregister(ip) == ear' = ear \ {ip}

Backend == \E ip \in Ips :
  /\ Register(ip) \/ Unregister(ip)
  /\ UNCHANGED <<up, open, stuck, active, pc, polling, toStart, toStop, cur, shut>>

\* Sapro brings addresses of devices up and down; bound sockets survive that.
Host == \E ip \in Ips :
  /\ up' \in {up \cup {ip}, up \ {ip}}
  /\ UNCHANGED <<ear, open, stuck, active, pc, polling, toStart, toStop, cur, shut>>

\* A server that was told to shut down takes no further connection.
Connect(s) ==
  /\ s \in open \ {shut}
  /\ stuck' = stuck \cup {s}
  /\ UNCHANGED <<ear, up, open, active, pc, polling, toStart, toStop, cur, shut>>

Disconnect(s) ==
  /\ s \in stuck
  /\ stuck' = stuck \ {s}
  /\ UNCHANGED <<ear, up, open, active, pc, polling, toStart, toStop, cur, shut>>

Crash == pc # "down" /\ Die

-----------------------------------------------------------------------------
Manager ==
  \/ Boot \/ Sync \/ Sleep
  \/ \E ip \in Ips : StartListener(ip) \/ StopListener(ip)
  \/ \E s \in Socks : Bind(s) \/ Shutdown(s)
  \/ BindFails \/ Started \/ ServerClose \/ Stopped

Next ==
  \/ Manager
  \/ SyncFails
  \/ Backend
  \/ Host
  \/ \E s \in Socks : Connect(s) \/ Disconnect(s)
  \/ Crash

Spec == Init /\ [][Next]_vars

\* The process is restarted when it ends, sleeps five seconds between two
\* syncs and is scheduled.  Nothing is assumed of the backend, the host or
\* the clients.
FairSpec == Spec /\ WF_vars(Manager)

-----------------------------------------------------------------------------
(* Properties.                                                             *)

\* No socket is left behind: whatever listens belongs to an active listener, or
\* to the one being started or stopped, after a bind that failed half-way too.
NoOrphanSocket ==
  \A s \in open : \E ip \in active \cup {cur} : s \in SocksOf(ip)

\* "Each device IP gets one HTTPServer per configured port": an active listener
\* listens on every port, although the ports are bound one by one.
ActiveListensOnAllPorts ==
  \A ip \in active : SocksOf(ip) \subseteq open

\* The collection and the host come to rest, the process stops failing, binds
\* of addresses that are up succeed and no client keeps a server busy for good.
Quiet ==
  /\ <>[][~ Crash /\ ~ SyncFails /\ ~ (BindFails /\ cur \in up)]_vars
  /\ \A s \in Socks : []<>(s \notin stuck)

\* The listeners follow the collection: once all is quiet, an address that is
\* in it (and on the host) is listened on for good, and one that is not in it
\* is closed for good, whatever became of the syncs before.
ListenersFollow ==
  Quiet => \A ip \in Ips :
    /\ <>[](ip \in ear \cap up) => <>[](SocksOf(ip) \subseteq open)
    /\ <>[](ip \notin ear) => <>[](open \cap SocksOf(ip) = {})
=============================================================================
