--------------------------- MODULE RuntimeProofs ----------------------------
(***************************************************************************)
(* Proofs about Runtime, for every set of messages and clients and every   *)
(* number of starts.                                                       *)
(***************************************************************************)
EXTENDS Runtime, TLAPS

-----------------------------------------------------------------------------
(* The inductive invariant.                                                *)

\* What the shutdown has waited for is over: the requests of a server that was
\* closed in time, the worker, the connections.
Quiet ==
  /\ (phase \in {"grpc", "workers", "amqp", "save", "log"} /\ ~Late) => ~Waiting("http")
  /\ phase \in {"workers", "amqp", "save", "log"} => ~Waiting("grpc")
  /\ (phase \in {"amqp", "save", "log"} /\ ~Late) => worker = "stopped"
  /\ phase \in {"save", "log"} => ~Connected
  /\ phase = "log" => ~Late
  /\ saved => phase \in {"log", "exited", "down"}
  /\ saved => disk \in [Msgs -> States]

\* A state of the metadata that has every acknowledged message.
Keeps(f) == \A m \in acked : f[m] # "none"

\* If every process has saved its metadata, the memory of a running process, and
\* the snapshot of one that has ended or is ending, have what was acknowledged.
AllKept ==
  ~unclean =>
    /\ Up => Keeps(mem)
    /\ saved => Keeps(disk)
    /\ ~Up => IF disk = None THEN acked = {} ELSE Keeps(disk)

RuntimeInv == TypeOK /\ Quiet /\ SavedIsLast /\ AllKept

-----------------------------------------------------------------------------
\* Requests and sweeps leave no message outside transactions unknown that was
\* known before.
LEMMA KnownStays ==
  ASSUME TypeOK, Handle \/ SweepEnd
  PROVE  \A m \in Msgs \ Transactional : mem[m] # "none" => mem'[m] # "none"
BY Zenon DEF Handle, After, SweepEnd, Swept

\* What Build puts into memory.
LEMMA BuildEffect ==
  ASSUME TypeOK, Build
  PROVE  /\ mem' \in [Msgs -> States]
         /\ disk # None => \A m \in Msgs : mem'[m] = IF disk[m] = "Acquired" THEN "Released"
                                                     ELSE disk[m]
<1>1. CASE disk = None
  BY <1>1, Zenon DEF Build, States
<1>2. CASE disk # None
  BY <1>2, Zenon DEF Build, TypeOK, Restore, States
<1> QED
  BY <1>1, <1>2, Zenon

-----------------------------------------------------------------------------
(* Type correctness.                                                       *)

\* A step of a handler, which changes the clients and the metadata.
LEMMA HandlerTyped ==
  ASSUME TypeOK, client' \in [Clients -> {"away", "idle", "busy", "ghost"}],
         mem' \in [Msgs -> States], ghosted' \subseteq Msgs,
         UNCHANGED <<phase, expired, disk, worker, leased, starts, saved, acked, unclean>>
  PROVE  TypeOK'
<1>1. /\ phase' = phase /\ expired' = expired /\ disk' = disk
      /\ worker' = worker /\ starts' = starts /\ acked' = acked
  BY Zenon
<1>2. leased' \in BOOLEAN
  BY Zenon DEF TypeOK
<1>3. saved' \in BOOLEAN
  BY Zenon DEF TypeOK
<1>4. unclean' \in BOOLEAN
  BY Zenon DEF TypeOK, hist
<1>5. /\ phase' \in {"down", "serving", "http", "grpc", "workers", "amqp", "save", "log", "exited"}
      /\ expired' \in {"no", "open", "under way"}
      /\ worker' \in {"idle", "sweep", "stopped"}
      /\ mem' \in [Msgs -> States]
      /\ disk' \in [Msgs -> States] \cup {None}
  BY <1>1, Zenon DEF TypeOK
<1>6. /\ starts' \in 0 .. MaxStarts
      /\ acked' \subseteq Msgs \ Transactional /\ ghosted' \subseteq Msgs
  BY <1>1, Zenon DEF TypeOK
<1> QED
  BY <1>2, <1>3, <1>4, <1>5, <1>6, Zenon DEF TypeOK

\* A step that only changes the clients.
LEMMA ClientsTyped ==
  ASSUME TypeOK, client' \in [Clients -> {"away", "idle", "busy", "ghost"}],
         UNCHANGED <<phase, expired, mem, disk, worker, leased, starts, saved, hist>>
  PROVE  TypeOK'
<1>1. mem' \in [Msgs -> States] /\ ghosted' \subseteq Msgs
  BY Zenon DEF TypeOK, hist
<1> QED
  BY <1>1, HandlerTyped, Zenon DEF hist

\* Build counts the starts up to their bound.
LEMMA BuildCounts ==
  ASSUME TypeOK, Build
  PROVE  starts' \in 0 .. MaxStarts
<1>1. starts \in 0 .. MaxStarts /\ starts < MaxStarts /\ starts' = starts + 1
  BY Zenon DEF TypeOK, Build
<1> QED
  BY <1>1, RuntimeConstants

\* Every step preserves the types.
LEMMA StepTyped ==
  ASSUME TypeOK, [Next]_vars
  PROVE  TypeOK'
<1>1. CASE UNCHANGED vars
  <2>1. client' \in [Clients -> {"away", "idle", "busy", "ghost"}]
    BY <1>1, Zenon DEF vars, TypeOK
  <2> QED
    BY <1>1, <2>1, ClientsTyped, Zenon DEF vars
<1> USE RuntimeConstants DEF TypeOK
<1>2. CASE Build
  <2>1. mem' \in [Msgs -> States]
    BY <1>2, BuildEffect, Zenon
  <2>2. starts' \in 0 .. MaxStarts
    BY <1>2, BuildCounts, Zenon
  <2>3. client' \in [Clients -> {"away", "idle", "busy", "ghost"}]
    BY <1>2, Zenon DEF Build
  <2>4. disk' \in [Msgs -> States] \cup {None} /\ unclean' \in BOOLEAN
    BY <1>2, Zenon DEF Build
  <2>5. /\ phase' \in {"down", "serving", "http", "grpc", "workers", "amqp", "save", "log", "exited"}
        /\ expired' \in {"no", "open", "under way"}
        /\ worker' \in {"idle", "sweep", "stopped"}
        /\ leased' \in BOOLEAN /\ saved' \in BOOLEAN
        /\ acked' \subseteq Msgs \ Transactional /\ ghosted' \subseteq Msgs
    BY <1>2, Zenon DEF Build
  <2> QED
    BY <2>1, <2>2, <2>3, <2>4, <2>5, Zenon
<1>3. CASE Signal \/ Expire
  BY <1>3, Zenon DEF Signal, Expire, Goto, hist
<1>4. CASE ShutdownHTTP \/ StopWorkers \/ CloseAMQP
  BY <1>4, ZenonT(30) DEF ShutdownHTTP, StopWorkers, CloseAMQP, Goto, hist
<1>5. CASE CloseGRPC
  BY <1>5, Zenon DEF CloseGRPC, hist
<1>6. CASE Save
  BY <1>6, Zenon DEF Save, hist
<1>7. CASE CloseFails \/ CloseLog \/ Kill
  BY <1>7, Zenon DEF CloseFails, CloseLog, Kill, Exit
<1>8. CASE SweepBegin
  BY <1>8, Zenon DEF SweepBegin, hist
<1>9. CASE SweepEnd
  BY <1>9, ZenonT(30) DEF SweepEnd, hist
<1>10. ASSUME NEW c \in Clients, Connect(c) \/ Arrive(c) \/ Hangup(c)
       PROVE  TypeOK'
  <2>1. client' \in [Clients -> {"away", "idle", "busy", "ghost"}]
    BY <1>10, Zenon DEF Connect, Arrive, Hangup
  <2> QED
    BY <1>10, <2>1, ClientsTyped, Zenon DEF Connect, Arrive, Hangup
<1>13. ASSUME NEW c \in Clients, RespondEnsure(c) PROVE TypeOK'
  <2>1. client' \in [Clients -> {"away", "idle", "busy", "ghost"}]
    BY <1>13, Zenon DEF RespondEnsure
  <2> QED
    BY <1>13, <2>1, ZenonT(40) DEF RespondEnsure, hist
<1>14. ASSUME NEW c \in Clients, Abandon(c) PROVE TypeOK'
  <2>1. client' \in [Clients -> {"away", "idle", "busy", "ghost"}]
    BY <1>14, Zenon DEF Abandon
  <2> QED
    BY <1>14, <2>1, ClientsTyped, Zenon DEF Abandon
<1>11. ASSUME NEW c \in Clients, Respond(c) PROVE TypeOK'
  <2>1. mem' \in [Msgs -> States] /\ acked' \subseteq Msgs \ Transactional
    BY <1>11, Zenon DEF Respond, Handle
  <2>2. leased' \in BOOLEAN /\ saved' \in BOOLEAN /\ unclean' \in BOOLEAN
    BY <1>11, Zenon DEF Respond
  <2> QED
    BY <1>11, <2>1, <2>2, Zenon DEF Respond
<1>12. ASSUME NEW c \in Clients, Haunt(c) PROVE TypeOK'
  <2>1. mem' \in [Msgs -> States] /\ ghosted' \subseteq Msgs
    BY <1>12, Zenon DEF Haunt, Handle
  <2>2. client' \in [Clients -> {"away", "idle", "busy", "ghost"}]
    BY <1>12, Zenon DEF Haunt
  <2>3. UNCHANGED <<phase, expired, disk, worker, leased, starts, saved, acked, unclean>>
    BY <1>12, Zenon DEF Haunt
  <2> HIDE DEF TypeOK
  <2> QED
    BY <2>1, <2>2, <2>3, HandlerTyped, Zenon
<1>15. ASSUME NEW c \in Clients, Refuse(c) PROVE TypeOK'
  <2>1. /\ mem' \in [Msgs -> States]
        /\ client' \in [Clients -> {"away", "idle", "busy", "ghost"}]
    BY <1>15, Zenon DEF Refuse, Handle
  <2>2. /\ UNCHANGED <<phase, expired, disk, worker, leased, starts, saved, acked, unclean>>
        /\ ghosted' \subseteq Msgs
    BY <1>15, Zenon DEF Refuse, hist
  <2> HIDE DEF TypeOK
  <2> QED
    BY <2>1, <2>2, HandlerTyped, Zenon
<1> QED
  BY <1>1, <1>2, <1>3, <1>4, <1>5, <1>6, <1>7, <1>8, <1>9, <1>10, <1>11, <1>12, <1>13, <1>14, <1>15, Zenon
     DEF Next, Serve, Shutdown

-----------------------------------------------------------------------------
(* What the shutdown has waited for stays over.                            *)

\* A request under way is one of a server that still serves.
LEMMA NobodyBusy ==
  ASSUME TypeOK, Quiet, NEW c \in Clients, client[c] = "busy"
  PROVE  ~saved \/ ~Up
<1>1. SUFFICES ASSUME saved, Up PROVE FALSE
  BY Zenon
<1>2. phase = "log" /\ ~Late
  BY <1>1, Zenon DEF Quiet, Up
<1>3. ~Waiting("http") /\ ~Waiting("grpc") /\ ~Connected
  BY <1>2, Zenon DEF Quiet
<1>4. Via[c] \in {"http", "grpc", "amqp"}
  BY RuntimeConstants, Zenon
<1> QED
  BY <1>3, <1>4, Zenon DEF Waiting, Connected

\* Steps of a client let no wait of the shutdown begin again.
LEMMA ClientQuiet ==
  ASSUME TypeOK, Quiet, NEW c \in Clients, NEW st \in {"away", "idle", "busy", "ghost"},
         client' = [client EXCEPT ![c] = st],
         st = "busy" => phase = "serving",
         st = "idle" => Listening(c) \/ client[c] \in {"idle", "busy"},
         UNCHANGED <<phase, expired, disk, worker, saved>>
  PROVE  Quiet'
<1>1. ASSUME NEW v \in {"http", "grpc"}, ~Waiting(v), phase # "serving" PROVE ~Waiting(v)'
  BY <1>1, Zenon DEF Waiting, TypeOK
<1>2. ASSUME phase \in {"save", "log"}, ~Connected PROVE ~Connected'
  BY <1>2, Zenon DEF Connected, TypeOK, Listening
<1>3. Late' = Late
  BY Zenon DEF Late
<1> QED
  BY <1>1, <1>2, <1>3, Zenon DEF Quiet

\* Every step keeps what the shutdown has waited for over.
LEMMA StepQuiet ==
  ASSUME TypeOK, Quiet, [Next]_vars
  PROVE  Quiet'
<1>1. CASE UNCHANGED vars
  BY <1>1, Zenon DEF vars, Quiet, Late, Waiting, Connected
<1>2. CASE Build
  BY <1>2, Zenon DEF Build, Quiet
<1>3. CASE Signal
  BY <1>3, Zenon DEF Signal, Goto, Quiet
<1>4. CASE Expire
  <2>1. Late' /\ phase \notin {"save", "log"}
    BY <1>4, Zenon DEF Expire, Late
  <2>2. Waiting("grpc")' = Waiting("grpc")
    BY <1>4, Zenon DEF Expire, Waiting
  <2> QED
    BY <1>4, <2>1, <2>2, Zenon DEF Expire, Quiet
<1>5. CASE ShutdownHTTP
  BY <1>5, Zenon DEF ShutdownHTTP, Goto, Quiet, Late, Waiting
<1>6. CASE CloseGRPC
  <2>1. ~Waiting("grpc")'
    BY <1>6, Zenon DEF CloseGRPC, Waiting
  <2>2. ~Waiting("http") => ~Waiting("http")'
    BY <1>6, Zenon DEF CloseGRPC, Waiting
  <2>3. Late' = Late
    BY <1>6, Zenon DEF CloseGRPC, Late
  <2> QED
    BY <1>6, <2>1, <2>2, <2>3, Zenon DEF CloseGRPC, Quiet
<1>7. CASE StopWorkers
  BY <1>7, Zenon DEF StopWorkers, Goto, Quiet, Late, Waiting
<1>8. CASE CloseAMQP
  BY <1>8, Zenon DEF CloseAMQP, Goto, Quiet, Late, Waiting, Connected
<1>9. CASE Save
  <2>1. disk' \in [Msgs -> States]
    BY <1>9, Zenon DEF Save, TypeOK
  <2>2. ~Late /\ Late' = Late /\ Connected' = Connected /\ Waiting("grpc")' = Waiting("grpc")
        /\ Waiting("http")' = Waiting("http") /\ worker' = worker
    BY <1>9, Zenon DEF Save, Late, Waiting, Connected
  <2>3. phase = "save" /\ phase' = "log"
    BY <1>9, Zenon DEF Save
  <2> QED
    BY <2>1, <2>2, <2>3, Zenon DEF Quiet
<1>10. CASE CloseFails \/ CloseLog \/ Kill
  BY <1>10 DEF CloseFails, CloseLog, Kill, Exit, Quiet
<1>11. CASE SweepBegin
  BY <1>11, Zenon DEF SweepBegin, Quiet
<1>12. CASE SweepEnd
  BY <1>12, Zenon DEF SweepEnd, Quiet, Late, Waiting, Connected
<1>13. ASSUME NEW c \in Clients, Serve(c) PROVE Quiet'
  <2>1. CASE Connect(c)
    BY <2>1, ClientQuiet, Zenon DEF Connect
  <2>2. CASE Arrive(c)
    <3>1. CASE phase = "serving"
      BY <2>2, <3>1, ClientQuiet, Zenon DEF Arrive
    <3>2. CASE phase # "serving"
      BY <2>2, <3>2, ClientQuiet, Zenon DEF Arrive
    <3> QED
      BY <3>1, <3>2, Zenon
  <2>3. CASE Hangup(c)
    BY <2>3, ClientQuiet, Zenon DEF Hangup
  <2>4. CASE Respond(c)
    BY <2>4, ClientQuiet, Zenon DEF Respond
  <2>5. CASE RespondEnsure(c)
    BY <2>5, ClientQuiet, Zenon DEF RespondEnsure
  <2>6. CASE Refuse(c)
    <3>1. CASE Via[c] = "amqp"
      BY <2>6, <3>1, ClientQuiet, Zenon DEF Refuse
    <3>2. CASE Via[c] # "amqp"
      BY <2>6, <3>2, ClientQuiet, Zenon DEF Refuse
    <3> QED
      BY <3>1, <3>2, Zenon
  <2>7. CASE Abandon(c)
    BY <2>7, ClientQuiet, Zenon DEF Abandon
  <2>8. CASE Haunt(c)
    <3>1. CASE UNCHANGED client
      BY <2>8, <3>1, Zenon DEF Haunt, Quiet, Late, Waiting, Connected
    <3>2. CASE client' = [client EXCEPT ![c] = "away"]
      BY <2>8, <3>2, ClientQuiet, Zenon DEF Haunt
    <3> QED
      BY <2>8, <3>1, <3>2, Zenon DEF Haunt
  <2> QED
    BY <1>13, <2>1, <2>2, <2>3, <2>4, <2>5, <2>6, <2>7, <2>8, Zenon DEF Serve
<1> QED
  BY <1>1, <1>2, <1>3, <1>4, <1>5, <1>6, <1>7, <1>8, <1>9, <1>10, <1>11, <1>12, <1>13, Zenon
     DEF Next, Shutdown

-----------------------------------------------------------------------------
(* What the snapshot and the memory keep.                                  *)

\* The snapshot stays the last word: once it is saved no request is under way
\* but the ghosts, and no sweep.
LEMMA StepLast ==
  ASSUME TypeOK, Quiet, SavedIsLast, [Next]_vars
  PROVE  SavedIsLast'
<1>1. CASE UNCHANGED <<mem, disk, saved, ghosted>>
  BY <1>1, Zenon DEF SavedIsLast
<1>2. CASE Build
  BY <1>2, Zenon DEF Build, SavedIsLast
<1>3. CASE Save
  BY <1>3, Zenon DEF Save, SavedIsLast
<1>4. CASE SweepEnd
  <2>1. ~saved
    BY <1>4, Zenon DEF SweepEnd, Quiet, Up
  <2> QED
    BY <1>4, <2>1, Zenon DEF SweepEnd, SavedIsLast
<1>5. ASSUME NEW c \in Clients, Respond(c) \/ Refuse(c) PROVE SavedIsLast'
  <2>1. ~saved
    BY <1>5, NobodyBusy, Zenon DEF Respond, Refuse
  <2> QED
    BY <1>5, <2>1, Zenon DEF Respond, Refuse, SavedIsLast
<1>6. ASSUME NEW c \in Clients, Haunt(c) PROVE SavedIsLast'
  BY <1>6, Zenon DEF Haunt, SavedIsLast
<1>7. UNCHANGED <<mem, disk, saved, ghosted>> \/ Build \/ Save \/ SweepEnd
        \/ \E c \in Clients : Respond(c) \/ Refuse(c) \/ Haunt(c)
  BY Zenon
     DEF Next, vars, hist, Serve, Shutdown, Signal, Expire, Kill, SweepBegin, Goto, Exit,
         ShutdownHTTP, CloseGRPC, StopWorkers, CloseAMQP, CloseFails, CloseLog,
         Connect, Arrive, Hangup, RespondEnsure, Abandon
<1> QED
  BY <1>1, <1>2, <1>3, <1>4, <1>5, <1>6, <1>7, Zenon

\* A process that ends without saving is unclean.
LEMMA EndKept ==
  ASSUME TypeOK, Quiet, AllKept, Up,
         phase' \in {"down", "exited"}, unclean' = (unclean \/ ~saved),
         UNCHANGED <<mem, disk, saved, acked>>
  PROVE  AllKept'
<1>1. SUFFICES ASSUME ~unclean' PROVE AllKept'
  BY Zenon DEF AllKept
<1>2. ~unclean /\ saved
  BY <1>1, Zenon
<1>3. disk # None
  BY <1>2, RuntimeConstants, Zenon DEF Quiet
<1>4. Keeps(disk)
  BY <1>2, Zenon DEF AllKept
<1>5. Keeps(disk)' /\ disk' # None /\ ~Up'
  BY <1>3, <1>4, Zenon DEF Keeps, Up
<1> QED
  BY <1>5, Zenon DEF AllKept

\* Every step keeps what was acknowledged.
LEMMA StepKept ==
  ASSUME TypeOK, Quiet, AllKept, [Next]_vars
  PROVE  AllKept'
<1>1. CASE UNCHANGED <<mem, disk, saved, acked, unclean>> /\ Up' = Up
  BY <1>1, Zenon DEF AllKept, Keeps
<1>2. CASE Build
  <2>1. SUFFICES ASSUME ~unclean PROVE Keeps(mem)'
    BY <1>2, Zenon DEF Build, AllKept, Up
  <2>2. ~Up /\ acked' = acked /\ acked \subseteq Msgs
    BY <1>2, Zenon DEF Build, Up, TypeOK
  <2>3. CASE disk = None
    BY <2>1, <2>2, <2>3, Zenon DEF AllKept, Keeps
  <2>4. CASE disk # None
    <3>1. Keeps(disk)
      BY <2>1, <2>2, <2>4, Zenon DEF AllKept
    <3>2. \A m \in Msgs : mem'[m] = IF disk[m] = "Acquired" THEN "Released" ELSE disk[m]
      BY <1>2, <2>4, BuildEffect, Zenon
    <3> QED
      BY <2>2, <3>1, <3>2, Zenon DEF Keeps
  <2> QED
    BY <2>3, <2>4, Zenon
<1>3. CASE Save
  <2>1. Up /\ Up'
    BY <1>3, Zenon DEF Save, Up
  <2>2. disk' = mem /\ mem' = mem /\ acked' = acked /\ unclean' = unclean
    BY <1>3, Zenon DEF Save, hist
  <2> QED
    BY <2>1, <2>2, Zenon DEF AllKept, Keeps
<1>4. CASE SweepEnd
  <2>1. Up /\ Up'
    BY <1>4, Zenon DEF SweepEnd, Up
  <2>2. disk' = disk /\ acked' = acked /\ unclean' = unclean /\ saved' = saved
    BY <1>4, Zenon DEF SweepEnd, hist
  <2>3. acked \subseteq Msgs \ Transactional
    BY Zenon DEF TypeOK
  <2> QED
    BY <1>4, <2>1, <2>2, <2>3, KnownStays, Zenon DEF AllKept, Keeps
<1>5. ASSUME NEW c \in Clients, Respond(c) PROVE AllKept'
  <2>1. Up /\ Up' /\ ~saved
    BY <1>5, NobodyBusy, Zenon DEF Respond, Up
  <2>2. ~saved' /\ unclean' = unclean
    BY <1>5, <2>1, Zenon DEF Respond
  <2>3. SUFFICES ASSUME Keeps(mem) PROVE Keeps(mem)'
    BY <2>1, <2>2, Zenon DEF AllKept
  <2>4. acked \subseteq Msgs \ Transactional
    BY Zenon DEF TypeOK
  <2> QED
    BY <1>5, <2>3, <2>4, KnownStays, Zenon DEF Respond, Keeps
<1>6. ASSUME NEW c \in Clients, Refuse(c) \/ Haunt(c) PROVE AllKept'
  <2>1. disk' = disk /\ acked' = acked /\ unclean' = unclean /\ saved' = saved
    BY <1>6, Zenon DEF Haunt, Refuse, hist
  <2>2. Up /\ Up'
    BY <1>6, Zenon DEF Haunt, Refuse, Up
  <2>3. acked \subseteq Msgs \ Transactional
    BY Zenon DEF TypeOK
  <2>4. Keeps(mem) => Keeps(mem)'
    BY <1>6, <2>1, <2>3, KnownStays, Zenon DEF Haunt, Refuse, Keeps
  <2>5. Keeps(disk) => Keeps(disk)'
    BY <2>1, Zenon DEF Keeps
  <2> QED
    BY <2>1, <2>2, <2>4, <2>5, Zenon DEF AllKept
<1>7. CASE CloseFails \/ CloseLog \/ Kill
  <2>1. /\ Up /\ phase' \in {"down", "exited"} /\ unclean' = (unclean \/ ~saved)
        /\ UNCHANGED <<mem, disk, saved, acked>>
    BY <1>7, Zenon DEF CloseFails, CloseLog, Kill, Exit, Up
  <2> QED
    BY <2>1, EndKept, Zenon
<1>8. \/ UNCHANGED <<mem, disk, saved, acked, unclean>> /\ Up' = Up
      \/ Build \/ Save \/ SweepEnd \/ CloseFails \/ CloseLog \/ Kill
      \/ \E c \in Clients : Respond(c) \/ Refuse(c) \/ Haunt(c)
  BY ZenonT(30) DEF Next, vars, hist, Serve, Shutdown, Signal, Expire, SweepBegin, Goto, Up,
         ShutdownHTTP, CloseGRPC, StopWorkers, CloseAMQP,
         Connect, Arrive, Hangup, RespondEnsure, Abandon
<1> QED
  BY <1>1, <1>2, <1>3, <1>4, <1>5, <1>6, <1>7, <1>8, Zenon

-----------------------------------------------------------------------------
(* The theorems.                                                           *)

\* The invariant holds of every behaviour.
LEMMA Invariance == Spec => []RuntimeInv
<1>1. Init => RuntimeInv
  <2> SUFFICES ASSUME Init PROVE RuntimeInv
    BY Zenon
  <2>1. TypeOK
    <3>1. mem \in [Msgs -> States] /\ client \in [Clients -> {"away", "idle", "busy", "ghost"}]
      BY Zenon DEF Init, States
    <3>2. starts \in 0 .. MaxStarts
      BY RuntimeConstants DEF Init
    <3> QED
      BY <3>1, <3>2, Zenon DEF Init, TypeOK
  <2>2. Quiet
    BY Zenon DEF Init, Quiet
  <2>3. SavedIsLast /\ AllKept
    BY Zenon DEF Init, SavedIsLast, AllKept, Up
  <2> QED
    BY <2>1, <2>2, <2>3, Zenon DEF RuntimeInv
<1>2. RuntimeInv /\ [Next]_vars => RuntimeInv'
  BY StepTyped, StepQuiet, StepLast, StepKept, Zenon DEF RuntimeInv
<1> QED
  BY <1>1, <1>2, PTL DEF Spec

\* Type correctness of the process.
THEOREM TypeCorrect == Spec => []TypeOK
BY Invariance, PTL DEF RuntimeInv

\* For any number of clients and messages, nothing changes the metadata after
\* Close has saved it, except a request whose client was told it had failed.
THEOREM SnapshotIsLast == Spec => []SavedIsLast
BY Invariance, PTL DEF RuntimeInv

\* For any number of clients, messages and restarts, a broker whose processes
\* all save their metadata loses no acknowledged message.
THEOREM CleanRestarts == Spec => []CleanRestartKeeps
<1>1. RuntimeInv => CleanRestartKeeps
  BY Zenon DEF RuntimeInv, AllKept, CleanRestartKeeps, Keeps, Up
<1> QED
  BY <1>1, Invariance, PTL

\* Build takes over from the process before, if that one saved its metadata,
\* wherever it was stopped.
THEOREM Resumption == Spec => RestartResumes
<1>1. RuntimeInv /\ [Next]_vars =>
        [Build /\ saved => \A m \in Msgs \ ghosted :
           mem'[m] = IF mem[m] = "Acquired" THEN "Released" ELSE mem[m]]_vars
  <2> SUFFICES ASSUME RuntimeInv, Build, saved, NEW m \in Msgs \ ghosted
               PROVE  mem'[m] = IF mem[m] = "Acquired" THEN "Released" ELSE mem[m]
    BY Zenon
  <2>1. disk # None
    BY RuntimeConstants, Zenon DEF RuntimeInv, Quiet
  <2>2. disk[m] = mem[m]
    BY Zenon DEF RuntimeInv, SavedIsLast
  <2> QED
    BY <2>1, <2>2, BuildEffect, Zenon DEF RuntimeInv
<1> QED
  BY <1>1, Invariance, PTL DEF Spec, RestartResumes
=============================================================================
