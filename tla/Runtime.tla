------------------------------- MODULE Runtime ------------------------------
(***************************************************************************)
(* The life of the broker process: Build, which restores the metadata      *)
(* snapshot; the servers and the worker; the shutdown sequence of          *)
(* cmd/broker/main.go under one deadline; Runtime.Close, which saves the   *)
(* snapshot; and a process that is killed instead.  What the requests do   *)
(* to the metadata is reduced to the state of each message.                *)
(***************************************************************************)
EXTENDS Naturals, FiniteSets

CONSTANTS
  Msgs,
  Transactional, \* the messages that are published in a transaction
  Clients,
  Via,       \* the server each client talks to: "http", "grpc" or "amqp"
  None,      \* no snapshot
  Kills,     \* whether the process may be killed
  MaxStarts  \* bound on the starts of the process

States == {"none", "Staged", "Available", "Acquired", "Accepted", "Released", "DeadLettered"}

ASSUME RuntimeConstants ==
  /\ Transactional \subseteq Msgs
  /\ Via \in [Clients -> {"http", "grpc", "amqp"}]
  /\ None \notin [Msgs -> States]
  /\ Kills \in BOOLEAN
  /\ MaxStarts \in Nat

VARIABLES
  phase,    \* where main is
  expired,  \* whether the deadline of the shutdown has passed: "no", or while
            \* only connections were "open", or with work "under way"
  mem,      \* storage.Memory: the state of every message
  disk,     \* metadata.json
  client,   \* each client: "away", "idle", "busy", or "ghost" for a request
            \* whose client has been told that it timed out
  worker,   \* "idle", "sweep" or "stopped"
  leased,   \* whether the node owns a shard lease
  starts,
  acked,    \* history: messages published outside transactions, and
            \* acknowledged
  ghosted,  \* history: messages a ghost of this process has changed
  saved,    \* history: whether this process has saved its metadata
  unclean   \* history: whether a process has ended without saving

hist == <<acked, ghosted, unclean>>
vars == <<phase, expired, mem, disk, client, worker, leased, starts, saved, hist>>

-----------------------------------------------------------------------------
(* Start and restart.                                                      *)

\* Mutation: only the messages that are available are restored.
RestoreReady(s) == [m \in Msgs |-> IF s[m] = "Available" THEN s[m] ELSE "none"]

\* Mutation: acquired messages are restored as they are.
RestoreVerbatim(s) == s

Restore(s) == [m \in Msgs |-> IF s[m] = "Acquired" THEN "Released" ELSE s[m]]

\* The nodes' leases are kept in memory.
Build ==
  /\ phase \in {"down", "exited"}
  /\ starts < MaxStarts
  /\ starts' = starts + 1
  /\ mem' = IF disk = None THEN [m \in Msgs |-> "none"] ELSE Restore(disk)
  /\ phase' = "serving"
  /\ expired' = "no"
  /\ saved' = FALSE
  /\ leased' = FALSE
  /\ ghosted' = {}
  /\ worker' = "idle"
  /\ client' = [c \in Clients |-> "away"]
  /\ UNCHANGED <<disk, acked, unclean>>

-----------------------------------------------------------------------------
(* The servers.                                                            *)

Late == expired # "no"

Up == phase \notin {"down", "exited"}

\* The HTTP and gRPC listeners are closed when the shutdown begins, the AMQP
\* listener in AMQP.Close.
Listening(c) ==
  IF Via[c] = "amqp" THEN phase \in {"serving", "http", "grpc", "workers"}
                     ELSE phase = "serving"

Connect(c) ==
  /\ Listening(c)
  /\ client[c] = "away"
  /\ client' = [client EXCEPT ![c] = "idle"]
  /\ UNCHANGED <<phase, expired, mem, disk, worker, leased, starts, saved, hist>>

\* A request arrives.  The context of the AMQP handlers ends with the signal:
\* what arrives then has no effect and ends the connection.
Arrive(c) ==
  /\ Up
  /\ client[c] = "idle"
  /\ Via[c] = "amqp" \/ phase = "serving"
  /\ client' = [client EXCEPT ![c] = IF phase = "serving" THEN "busy" ELSE "away"]
  /\ UNCHANGED <<phase, expired, mem, disk, worker, leased, starts, saved, hist>>

Hangup(c) ==
  /\ Up
  /\ client[c] = "idle"
  /\ client' = [client EXCEPT ![c] = "away"]
  /\ UNCHANGED <<phase, expired, mem, disk, worker, leased, starts, saved, hist>>

\* What a request may make of a message.  It creates one, or writes a record it
\* has read earlier back in any of these states; only the records of transactions
\* are ever deleted.
After(m) ==
  IF mem[m] = "none"
  THEN IF m \in Transactional THEN {"Staged"} ELSE {"Available", "DeadLettered"}
  ELSE {"Available", "Acquired", "Accepted", "DeadLettered"}
         \cup (IF m \in Transactional THEN {"none"} ELSE {})

Handle ==
  /\ mem' \in [Msgs -> States]
  /\ \A m \in Msgs : mem'[m] = mem[m] \/ mem'[m] \in After(m)

\* The request is done and its client told so.
Respond(c) ==
  /\ Up
  /\ client[c] = "busy"
  /\ client' = [client EXCEPT ![c] = "idle"]
  /\ Handle
  /\ acked' = acked \cup {m \in Msgs \ Transactional : mem[m] = "none" /\ mem'[m] # "none"}
  /\ UNCHANGED <<phase, expired, disk, worker, leased, starts, saved, ghosted, unclean>>

\* The cluster endpoint acquires a lease.
RespondEnsure(c) ==
  /\ Up
  /\ Via[c] = "http"
  /\ client[c] = "busy"
  /\ client' = [client EXCEPT ![c] = "idle"]
  /\ leased' = TRUE
  /\ UNCHANGED <<phase, expired, mem, disk, worker, starts, saved, hist>>

\* The request fails, half way perhaps.  An AMQP connection ends with it.
Refuse(c) ==
  /\ Up
  /\ client[c] = "busy"
  /\ client' = [client EXCEPT ![c] = IF Via[c] = "amqp" THEN "away" ELSE "idle"]
  /\ Handle
  /\ UNCHANGED <<phase, expired, disk, worker, leased, starts, saved, hist>>

\* http.TimeoutHandler answers for a handler that still runs.
Abandon(c) ==
  /\ Up
  /\ client[c] = "busy"
  /\ Via[c] = "http"
  /\ client' = [client EXCEPT ![c] = "ghost"]
  /\ UNCHANGED <<phase, expired, mem, disk, worker, leased, starts, saved, hist>>

\* A handler whose client is gone goes on with writes it was let through to, or
\* the ended context stops it.
Haunt(c) ==
  /\ Up
  /\ client[c] = "ghost"
  /\ \/ /\ Handle
        /\ ghosted' = ghosted \cup {m \in Msgs : mem'[m] # mem[m]}
        /\ UNCHANGED client
     \/ /\ client' = [client EXCEPT ![c] = "away"]
        /\ UNCHANGED <<mem, ghosted>>
  /\ UNCHANGED <<phase, expired, disk, worker, leased, starts, saved, acked, unclean>>

-----------------------------------------------------------------------------
(* The worker.                                                             *)

SweepBegin ==
  /\ phase = "serving"
  /\ worker = "idle"
  /\ worker' = "sweep"
  /\ UNCHANGED <<phase, expired, mem, disk, client, leased, starts, saved, hist>>

\* What the sweeps make of the messages they find.
Swept(m) == {"Available", "DeadLettered"} \cup (IF m \in Transactional THEN {"none"} ELSE {})

\* Mutation: the sweep uses the state StateExpired, which nothing else knows.
SweepEndExpired ==
  /\ Up
  /\ worker = "sweep"
  /\ worker' = "idle"
  /\ mem' = [m \in Msgs |-> IF mem[m] = "Available" THEN "Expired" ELSE mem[m]]
  /\ UNCHANGED <<phase, expired, disk, client, leased, starts, saved, hist>>

SweepEnd ==
  /\ Up
  /\ worker = "sweep"
  /\ worker' = "idle"
  /\ mem' \in [Msgs -> States]
  /\ \A m \in Msgs : mem'[m] = mem[m] \/ (mem[m] # "none" /\ mem'[m] \in Swept(m))
  /\ UNCHANGED <<phase, expired, disk, client, leased, starts, saved, hist>>

-----------------------------------------------------------------------------
(* The shutdown: each server is closed in turn, and each wait ends with    *)
(* the deadline.                                                           *)

Goto(p) ==
  /\ phase' = p
  /\ UNCHANGED <<expired, mem, disk, client, leased, starts, saved, hist>>

Signal ==
  /\ phase = "serving"
  /\ Goto("http")
  /\ UNCHANGED worker

Waiting(server) == \E c \in Clients : Via[c] = server /\ client[c] = "busy"
Connected       == \E c \in Clients : Via[c] = "amqp" /\ client[c] \in {"idle", "busy"}

\* The deadline passes while the shutdown waits; its other steps take no time
\* beside it.
Expire ==
  /\ \/ phase = "http" /\ Waiting("http")
     \/ phase = "grpc" /\ Waiting("grpc")
     \/ phase = "workers" /\ worker = "sweep"
     \/ phase = "amqp" /\ Connected
  /\ ~Late
  /\ expired' = IF worker = "sweep" \/ \E c \in Clients : client[c] = "busy"
                THEN "under way" ELSE "open"
  /\ UNCHANGED <<phase, mem, disk, client, worker, leased, starts, saved, hist>>

ShutdownHTTP ==
  /\ phase = "http"
  /\ ~Waiting("http") \/ Late
  /\ Goto("grpc")
  /\ UNCHANGED worker

\* At the deadline gRPC is stopped: the clients of the calls under way get an
\* error.
CloseGRPC ==
  /\ phase = "grpc"
  /\ ~Waiting("grpc") \/ Late
  /\ phase' = "workers"
  /\ client' = [c \in Clients |-> IF Via[c] = "grpc" /\ client[c] = "busy" THEN "ghost"
                                  ELSE client[c]]
  /\ UNCHANGED <<expired, mem, disk, worker, leased, starts, saved, hist>>

StopWorkers ==
  /\ phase = "workers"
  /\ \/ worker = "idle" /\ worker' = "stopped"
     \/ worker = "sweep" /\ Late /\ UNCHANGED worker
  /\ Goto("amqp")

\* AMQP.Close waits for every connection to end; at the deadline it returns an
\* error and Close with it, before the snapshot is saved.
CloseAMQP ==
  /\ phase = "amqp"
  /\ ~Connected
  /\ Goto("save")
  /\ UNCHANGED worker

Exit ==
  /\ phase' = "exited"
  /\ client' = [c \in Clients |-> "away"]
  /\ worker' = "stopped"
  /\ unclean' = (unclean \/ ~saved)
  /\ UNCHANGED <<expired, mem, disk, leased, starts, saved, acked, ghosted>>

\* Mutation: the deadline does not end the wait for the connections.
CloseNeverFails ==
  /\ phase = "save"
  /\ Late
  /\ Exit

CloseFails ==
  /\ phase \in {"amqp", "save"}
  /\ Late
  /\ Exit

\* Mutation: the snapshot is taken after the deadline too.
SaveAnyway ==
  /\ phase = "save"
  /\ disk' = mem
  /\ saved' = TRUE
  /\ phase' = "log"
  /\ UNCHANGED <<expired, mem, client, worker, leased, starts, hist>>

\* Save writes a temporary file and renames it.
Save ==
  /\ phase = "save"
  /\ ~Late
  /\ disk' = mem
  /\ saved' = TRUE
  /\ phase' = "log"
  /\ UNCHANGED <<expired, mem, client, worker, leased, starts, hist>>

CloseLog ==
  /\ phase = "log"
  /\ Exit

Kill ==
  /\ Kills
  /\ Up
  /\ phase' = "down"
  /\ client' = [c \in Clients |-> "away"]
  /\ worker' = "stopped"
  /\ unclean' = (unclean \/ ~saved)
  /\ UNCHANGED <<expired, mem, disk, leased, starts, saved, acked, ghosted>>

-----------------------------------------------------------------------------
Init ==
  /\ phase = "down"
  /\ expired = "no"
  /\ mem = [m \in Msgs |-> "none"]
  /\ disk = None
  /\ client = [c \in Clients |-> "away"]
  /\ worker = "stopped"
  /\ leased = FALSE
  /\ starts = 0
  /\ saved = FALSE
  /\ acked = {} /\ ghosted = {}
  /\ unclean = FALSE

Serve(c) ==
  \/ Connect(c) \/ Arrive(c) \/ Hangup(c) \/ Respond(c) \/ RespondEnsure(c)
  \/ Refuse(c) \/ Abandon(c) \/ Haunt(c)

Shutdown ==
  ShutdownHTTP \/ CloseGRPC \/ StopWorkers \/ CloseAMQP \/ Save \/ CloseFails \/ CloseLog

Next ==
  \/ Build \/ Signal \/ Expire \/ Shutdown \/ Kill
  \/ SweepBegin \/ SweepEnd
  \/ \E c \in Clients : Serve(c)

Spec == Init /\ [][Next]_vars

\* main goes on whenever it can, and the timer of the shutdown fires.
FairSpec == Spec /\ WF_vars(Shutdown) /\ WF_vars(Expire)

-----------------------------------------------------------------------------
(* Properties the code has.                                                *)

\* Every variable has its type: every message of the process and of the snapshot
\* is in a state that Restore and ListReady know.
TypeOK ==
  /\ phase \in {"down", "serving", "http", "grpc", "workers", "amqp", "save", "log", "exited"}
  /\ expired \in {"no", "open", "under way"}
  /\ mem \in [Msgs -> States]
  /\ disk \in [Msgs -> States] \cup {None}
  /\ client \in [Clients -> {"away", "idle", "busy", "ghost"}]
  /\ worker \in {"idle", "sweep", "stopped"}
  /\ leased \in BOOLEAN
  /\ starts \in 0 .. MaxStarts
  /\ saved \in BOOLEAN
  /\ acked \subseteq Msgs \ Transactional
  /\ ghosted \subseteq Msgs
  /\ unclean \in BOOLEAN

\* The snapshot that Close saves is the last word: nothing changes the metadata
\* of the process after it, except a request whose client was told that it had
\* timed out.
SavedIsLast == saved => \A m \in Msgs : disk[m] # mem[m] => m \in ghosted

\* As long as every process saves its metadata before it ends, restarts lose no
\* message whose publication was acknowledged.
CleanRestartKeeps ==
  (~unclean /\ phase = "serving") => \A m \in acked : mem[m] # "none"

\* A process that follows one that saved its metadata takes over where that one
\* stopped, but for what its ghosts did; a message that was acquired then is
\* released.
RestartResumes ==
  [][Build /\ saved =>
       \A m \in Msgs \ ghosted :
         mem'[m] = IF mem[m] = "Acquired" THEN "Released" ELSE mem[m]]_vars

\* Once the signal has come the process ends, whatever its clients do: every
\* wait of the shutdown gives up at the deadline.
ShutdownEnds == (phase = "http") ~> ~Up

-----------------------------------------------------------------------------
(* What the documentation says and the code does not do.                   *)

\* README.md: "`SIGINT` and `SIGTERM` stop HTTP/gRPC intake, stop workers, close
\* AMQP connections, persist metadata, flush the body log, and then exit."
\* Metadata is not persisted only if a request or a sweep outlasts the deadline.
ShutdownPersists == (phase = "exited" /\ ~saved) => expired = "under way"

\* README.md: "The runtime releases owned leases during graceful shutdown."
LeasesReleased == phase = "exited" => ~leased

\* README.md: "an atomic metadata snapshot plus a durable, replaceable
\* append-only message-body log".  An acknowledged message outlives the process.
AckedSurvives == phase = "serving" => \A m \in acked : mem[m] # "none"

ListReady == {m \in Msgs : mem[m] = "Available"}

\* README.md: "Releasing a delivery makes it available again".  What Restore
\* releases is what ListReady offers.
ReleasedIsReady ==
  phase = "serving" => \A m \in Msgs : mem[m] = "Released" => m \in ListReady
=============================================================================
