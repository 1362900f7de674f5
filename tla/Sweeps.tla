------------------------------- MODULE Sweeps -------------------------------
(***************************************************************************)
(* The sweep of internal/worker: Runtime.Sweep moves the expired messages  *)
(* away first and then times transactions out, on the messages that        *)
(* requests commit and roll back meanwhile.  An error in the first half    *)
(* skips the second half of that tick.  No context is cancelled here.       *)
(***************************************************************************)
EXTENDS Transactions

VARIABLES
  half,  \* where the worker is in Runtime.Sweep, or "waiting" for its ticker
  due    \* the expired messages SweepExpired has read and not yet written

sweeps == <<half, due>>
all    == <<vars, sweeps>>

Available == {m \in DOMAIN msgs : msgs[m].state = "available"}

\* SweepExpired reads all messages; which of the available ones have expired is
\* left open.
SweepMessages ==
  /\ half = "waiting"
  /\ pc[Worker] = "idle"
  /\ half' = "messages"
  /\ due' \in SUBSET Available
  /\ UNCHANGED vars

\* deadLetter writes the record as it was read back, at the dead-letter address
\* or dead-lettered, and fails if a rollback has deleted it: the error is logged,
\* and the ticker waited for.
SweepMessage(m) ==
  /\ half = "messages"
  /\ m \in due
  /\ IF m \in DOMAIN msgs
     THEN /\ \E state \in {"available", "dead-lettered"} :
               msgs' = [msgs EXCEPT ![m] = [state |-> state, tx |-> None]]
          /\ due' = due \ {m}
          /\ UNCHANGED half
     ELSE /\ half' = "waiting"
          /\ due' = {}
          /\ UNCHANGED msgs
  /\ UNCHANGED <<now, txs, locals, history>>

SweepTransactions ==
  /\ half = "messages"
  /\ due = {}
  /\ Sweep
  /\ half' = "waiting"
  /\ UNCHANGED due

WorkerStep ==
  \/ SweepMessages
  \/ \E m \in Msgs : SweepMessage(m)
  \/ SweepTransactions
  \/ (SweepNext \/ SweepDone \/ Undo(Worker)) /\ UNCHANGED sweeps

SweepsInit == Init /\ half = "waiting" /\ due = {}

SweepsNext ==
  \/ WorkerStep
  \/ /\ \/ \E p \in Clients : Request(p) \/ Proceed(p)
        \/ \E m \in Msgs : Consume(m)
        \/ Tick
     /\ UNCHANGED sweeps

\* As in Transactions; the steps of the worker are those of both halves.
SweepsSpec ==
  /\ SweepsInit
  /\ [][SweepsNext]_all
  /\ WF_all(Tick /\ UNCHANGED sweeps)
  /\ WF_all(WorkerStep)
  /\ \A p \in Clients : WF_all(Proceed(p) /\ UNCHANGED sweeps)
=============================================================================
