----------------------------- MODULE SshClient -----------------------------
(***************************************************************************)
(* The SSH clients: SaproSSHClient with its round-robin pool               *)
(* (backend/app/utils/sapro_ssh.py) and CCSSHClient, one for each          *)
(* CyberController (cc_ssh.py; a pool of one).  A call takes the client's  *)
(* lock, connects if the transport is not active, with retries, and runs   *)
(* its command or copies its file.  A command whose answer does not come   *)
(* in time goes on running on the host: the call has failed all the same.  *)
(***************************************************************************)
EXTENDS Integers, FiniteSets

CONSTANTS Threads,     \* threads of request handlers and loops
          NoThread,    \* the owner of a free lock
          PoolSize,    \* _SSH_POOL_SIZE
          MaxRetries,  \* max_retries
          MaxCalls     \* bound on the number of calls

ASSUME SshAssumption ==
  /\ NoThread \notin Threads
  /\ PoolSize \in Nat \ {0} /\ MaxRetries \in Nat \ {0} /\ MaxCalls \in Nat

VARIABLES
  poolIndex,  \* _pool_index
  transport,  \* transport[c]: "none", "active" or "broken"
  owner,      \* owner[c]: the thread that holds the lock of client c
  call,       \* call[t]: the call of thread t
  host        \* host[t]: how often the host has started and finished its command

sshVars == <<poolIndex, transport, owner, call, host>>

Clients  == 0 .. PoolSize - 1
Tickets  == 0 .. MaxCalls - 1
NoCall   == [at |-> "idle", kind |-> "command", client |-> 0, ticket |-> 0,
             attempt |-> 0, result |-> "none"]
SshCalls == [at : {"idle", "waiting", "connecting", "sending", "reading"},
             kind : {"command", "copy"}, client : Clients, ticket : Nat,
             attempt : 0 .. MaxRetries - 1, result : {"none", "ok", "failed"}]

SshTypeOK ==
  /\ poolIndex \in 0 .. MaxCalls
  /\ transport \in [Clients -> {"none", "active", "broken"}]
  /\ owner \in [Clients -> Threads \cup {NoThread}]
  /\ call \in [Threads -> SshCalls]
  /\ host \in [Tickets -> [started : 0 .. 2, finished : 0 .. 2]]

SshInit ==
  /\ poolIndex = 0
  /\ transport = [c \in Clients |-> "none"]
  /\ owner = [c \in Clients |-> NoThread]
  /\ call = [t \in Threads |-> NoCall]
  /\ host = [k \in Tickets |-> [started |-> 0, finished |-> 0]]

At(t, where) == call[t].at = where
Mine(t)      == call[t].client
Finished(k)  == host[k].finished = host[k].started

\* The call returns, and the lock with it.
ReturnCall(t, r) ==
  /\ call' = [call EXCEPT ![t].at = "idle", ![t].result = r]
  /\ owner' = [owner EXCEPT ![Mine(t)] = NoThread]

-----------------------------------------------------------------------------
\* get_sapro_ssh_client: the next client of the pool, for a new call.
GetClientAgain(t, k) ==
  /\ At(t, "idle")
  /\ poolIndex < MaxCalls
  /\ call' = [call EXCEPT ![t] = [NoCall EXCEPT !.at = "waiting", !.kind = k, !.ticket = poolIndex,
                                                !.client = (poolIndex \div 2) % PoolSize]]
  /\ poolIndex' = poolIndex + 1
  /\ UNCHANGED <<transport, owner, host>>
GetClient(t, k) ==
  /\ At(t, "idle")
  /\ poolIndex < MaxCalls
  /\ call' = [call EXCEPT ![t] = [NoCall EXCEPT !.at = "waiting", !.kind = k, !.ticket = poolIndex,
                                                !.client = poolIndex % PoolSize]]
  /\ poolIndex' = poolIndex + 1
  /\ UNCHANGED <<transport, owner, host>>

\* The lock, and _ensure_connected: an active transport is used again.
LockClientUnlocked(t) ==
  /\ At(t, "waiting")
  /\ owner' = [owner EXCEPT ![Mine(t)] = t]
  /\ call' = [call EXCEPT ![t].at = IF transport[Mine(t)] = "active" THEN "sending" ELSE "connecting"]
  /\ UNCHANGED <<poolIndex, transport, host>>
LockClient(t) ==
  /\ At(t, "waiting")
  /\ owner[Mine(t)] = NoThread
  /\ owner' = [owner EXCEPT ![Mine(t)] = t]
  /\ call' = [call EXCEPT ![t].at = IF transport[Mine(t)] = "active" THEN "sending" ELSE "connecting"]
  /\ UNCHANGED <<poolIndex, transport, host>>

\* _connect: one attempt, which closes what is left of the last connection.
Connect(t) ==
  /\ At(t, "connecting")
  /\ transport' = [transport EXCEPT ![Mine(t)] = "active"]
  /\ call' = [call EXCEPT ![t].at = "sending"]
  /\ UNCHANGED <<poolIndex, owner, host>>

\* A wrong password ends the attempts, any other error is tried again.
ConnectFailsOnceMore(t) ==
  /\ At(t, "connecting")
  /\ transport' = [transport EXCEPT ![Mine(t)] = "none"]
  /\ \/ ReturnCall(t, "failed")
     \/ /\ call[t].attempt < MaxRetries
        /\ call' = [call EXCEPT ![t].attempt = @ + 1]
        /\ UNCHANGED owner
  /\ UNCHANGED <<poolIndex, host>>
ConnectFails(t) ==
  /\ At(t, "connecting")
  /\ transport' = [transport EXCEPT ![Mine(t)] = "none"]
  /\ \/ ReturnCall(t, "failed")
     \/ /\ call[t].attempt + 1 < MaxRetries
        /\ call' = [call EXCEPT ![t].attempt = @ + 1]
        /\ UNCHANGED owner
  /\ UNCHANGED <<poolIndex, host>>

\* exec_command, or the copy's request, reaches the host ...
SendCommand(t) ==
  /\ At(t, "sending")
  /\ transport[Mine(t)] = "active"
  /\ call' = [call EXCEPT ![t].at = "reading"]
  /\ host' = [host EXCEPT ![call[t].ticket].started = @ + 1]
  /\ UNCHANGED <<poolIndex, transport, owner>>

\* ... and is answered: exit status, stderr.
ReadAnswerEarly(t, r) ==
  /\ At(t, "reading")
  /\ transport[Mine(t)] = "active"
  /\ ReturnCall(t, r)
  /\ UNCHANGED <<poolIndex, transport, host>>
ReadAnswer(t, r) ==
  /\ At(t, "reading")
  /\ Finished(call[t].ticket)
  /\ transport[Mine(t)] = "active"
  /\ ReturnCall(t, r)
  /\ UNCHANGED <<poolIndex, transport, host>>

\* A broken connection, or a timeout while the command runs: the client closes
\* the connection (not after a copy, nor for an error that is neither SSH's nor
\* the network's), the next call connects again, and this one is not repeated.
CallFailsRetried(t) ==
  /\ call[t].at \in {"sending", "reading"}
  /\ transport' = [transport EXCEPT ![Mine(t)] = "none"]
  /\ IF call[t].attempt < 1 /\ MaxRetries > 1
       THEN call' = [call EXCEPT ![t].at = "connecting", ![t].attempt = 1] /\ UNCHANGED owner
       ELSE ReturnCall(t, "failed")
  /\ UNCHANGED <<poolIndex, host>>
CallFails(t) ==
  /\ call[t].at \in {"sending", "reading"}
  /\ \/ transport' = [transport EXCEPT ![Mine(t)] = "none"] /\ call[t].kind = "command"
     \/ UNCHANGED transport
  /\ ReturnCall(t, "failed")
  /\ UNCHANGED <<poolIndex, host>>

-----------------------------------------------------------------------------
(* The host and the network.                                               *)

\* A command ends on the host, whether or not a call still waits for it.
HostFinishes(k) ==
  /\ ~ Finished(k)
  /\ host' = [host EXCEPT ![k].finished = @ + 1]
  /\ UNCHANGED <<poolIndex, transport, owner, call>>

ConnectionBreaks(c) ==
  /\ transport[c] = "active"
  /\ transport' = [transport EXCEPT ![c] = "broken"]
  /\ UNCHANGED <<poolIndex, owner, call, host>>

CallStep(t) ==
  \/ LockClient(t)
  \/ Connect(t)
  \/ ConnectFails(t)
  \/ SendCommand(t)
  \/ \E r \in {"ok", "failed"} : ReadAnswer(t, r)
  \/ CallFails(t)

SshNext ==
  \/ \E t \in Threads : \/ \E k \in {"command", "copy"} : GetClient(t, k)
                        \/ CallStep(t)
  \/ \E k \in Tickets : HostFinishes(k)
  \/ \E c \in Clients : ConnectionBreaks(c)

SshSpec == SshInit /\ [][SshNext]_sshVars

-----------------------------------------------------------------------------
(* Properties.                                                             *)

\* A call runs its command on the host at most once, however often it tried to
\* connect, and one that succeeds has seen it finish: nothing is sent twice.
RunsAtMostOnce ==
  /\ \A k \in Tickets : host[k].started <= 1
  /\ \A t \in Threads : call[t].result = "ok" => host[call[t].ticket].finished = 1

\* A thread that holds a client's lock is the only one that uses its connection,
\* and one that has to wait for it was handed out a full round of the pool
\* after the holder.
OneUserPerClient ==
  \A t \in Threads :
    /\ ~ At(t, "idle") /\ ~ At(t, "waiting") => owner[Mine(t)] = t
    /\ At(t, "waiting") /\ owner[Mine(t)] # NoThread =>
         LET s == owner[Mine(t)]
         IN  \/ call[t].ticket - call[s].ticket >= PoolSize
             \/ call[s].ticket - call[t].ticket >= PoolSize
=============================================================================
