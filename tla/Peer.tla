-------------------------------- MODULE Peer --------------------------------
(***************************************************************************)
(* The AMQP adapter (internal/amqp/adapter/server.go): one goroutine per   *)
(* connection reads frames and handles them one by one, over the shared    *)
(* registries of connections, sessions and links and the delivery service. *)
(*                                                                         *)
(* A handler that returns an error ends its connection.  A handler touches *)
(* only the sessions and links of its own connection, so each is one step; *)
(* onFlow, which calls Acquire in a loop, is one step per delivery.        *)
(* Frames are decoded, and what the delivery service answers is any of its *)
(* answers.                                                                *)
(***************************************************************************)
EXTENDS Naturals, FiniteSets

CONSTANTS
  Peers,
  Channels,
  Handles,
  MaxHandle,  \* the greatest handle Session.Attach takes
  Rune,       \* what string(rune(n)) makes of a channel or handle n: one
              \* replacement character for all that are no code points
  MaxConnections,
  Prefetch,   \* the prefetch of a link's consumer
  Window,     \* the initial incoming window of a session
  Credits,    \* the credits peers grant
  MaxIds,     \* bound on the ids drawn for sessions and links
  MaxDeliveries  \* bound on the deliveries

ASSUME PeerConstants ==
  /\ Channels \subseteq Nat /\ Handles \subseteq Nat
  /\ Channels \cup Handles \subseteq DOMAIN Rune
  /\ MaxHandle \in Nat /\ MaxConnections \in Nat /\ Prefetch \in Nat /\ Window \in Nat
  /\ Credits \subseteq Nat
  /\ MaxIds \in Nat /\ MaxDeliveries \in Nat

VARIABLES
  phase,        \* where the goroutine of each peer is
  state,        \* Connection.State
  mapped,       \* Connection.Sessions: ids by channel
  connections,  \* the registry of connections
  sessions,     \* the registry of sessions, and its index by channel
  channels,
  links,        \* the registry of links, and its index by handle
  handles,
  sessionIDs,   \* peer.sessionIDs: ids by channel
  linkIDs,      \* peer.linkIDs: ids by channel and handle
  unsettled,    \* peer.deliveryConsumer: links by delivery id
  flow,         \* the link onFlow serves and how many deliveries it may still send
  consumers,    \* the delivery service: whether the consumer of a link is connected
  lastId,       \* the last id drawn for a session or a link
  deliverySeq,
  panicked,     \* whether a handler has used a link that is not there
  ended         \* history: the links whose session onEnd has ended

registries == <<connections, sessions, channels, links, handles>>
locals     == <<sessionIDs, linkIDs, unsettled, flow>>
vars       == <<phase, state, mapped, registries, locals, consumers, lastId, deliverySeq,
                panicked, ended>>

Put(f, k, v)  == [x \in DOMAIN f \cup {k} |-> IF x = k THEN v ELSE f[x]]
Without(f, S) == [x \in DOMAIN f \ S |-> f[x]]
Empty         == [x \in {} |-> 0]
NoFlow        == [link |-> 0, left |-> 0]

At(p, where)  == phase[p] = where /\ ~panicked
Goto(p, where) == phase' = [phase EXCEPT ![p] = where]

\* The handler writes its answer and is ready for the next frame, or cannot
\* write and returns the error.
Reply(p) == Goto(p, "serving") \/ Goto(p, "leaving")

Fail(p) == Goto(p, "leaving")

-----------------------------------------------------------------------------
(* Connections.                                                            *)

\* Connection.Transition.
Valid == {<<"start", "header">>, <<"start", "closed">>, <<"header", "open">>,
          <<"header", "closed">>, <<"open", "closing">>, <<"open", "closed">>,
          <<"closing", "closed">>}

After(s, t) == IF <<s, t>> \in Valid THEN t ELSE s

Transition(p, t) == state' = [state EXCEPT ![p] = After(@, t)]

Full == Cardinality(connections) >= MaxConnections

Accept(p) ==
  /\ At(p, "away")
  /\ ~Full
  /\ connections' = connections \cup {p}
  /\ state' = [state EXCEPT ![p] = "start"]
  /\ mapped' = [mapped EXCEPT ![p] = Empty]
  /\ sessionIDs' = [sessionIDs EXCEPT ![p] = Empty]
  /\ linkIDs' = [linkIDs EXCEPT ![p] = Empty]
  /\ unsettled' = [unsettled EXCEPT ![p] = Empty]
  /\ Goto(p, "handshake")
  /\ UNCHANGED <<sessions, channels, links, handles, flow, consumers, lastId, deliverySeq,
                 panicked, ended>>

Handshake(p) ==
  /\ At(p, "handshake")
  /\ \/ Transition(p, "header") /\ Goto(p, "serving")
     \/ Fail(p) /\ UNCHANGED state
  /\ UNCHANGED <<mapped, registries, locals, consumers, lastId, deliverySeq, panicked, ended>>

OnOpen(p) ==
  /\ At(p, "serving")
  /\ IF state[p] = "header" THEN Transition(p, "open") /\ Reply(p)
                            ELSE Fail(p) /\ UNCHANGED state
  /\ UNCHANGED <<mapped, registries, locals, consumers, lastId, deliverySeq, panicked, ended>>

OnClose(p) ==
  /\ At(p, "serving")
  /\ LET closing == After(state[p], "closing")
     IN  state' \in {[state EXCEPT ![p] = s] : s \in {closing, After(closing, "closed")}}
  /\ Goto(p, "leaving")
  /\ UNCHANGED <<mapped, registries, locals, consumers, lastId, deliverySeq, panicked, ended>>

\* A frame without body, the heartbeat of AMQP, is no performative and ends the
\* connection like one that cannot be decoded.
IdleFrame(p) ==
  /\ At(p, "serving")
  /\ Fail(p)
  /\ UNCHANGED <<state, mapped, registries, locals, consumers, lastId, deliverySeq,
                 panicked, ended>>

\* The peer hangs up, sends what cannot be decoded, or is silent for longer than
\* the idle timeout.
ReadFails(p) ==
  /\ At(p, "serving")
  /\ Fail(p)
  /\ UNCHANGED <<state, mapped, registries, locals, consumers, lastId, deliverySeq,
                 panicked, ended>>

ChannelKey(p, ch) == <<p, Rune[ch]>>

\* The sessions that Registry.RemoveConnection removes.
Owned(p) == {id \in DOMAIN sessions : sessions[id].peer = p}

\* Mutation: the connection stays registered.
LeaveRegistered(p) ==
  /\ At(p, "leaving")
  /\ channels' = Without(channels, {ChannelKey(p, sessions[id].channel) : id \in Owned(p)})
  /\ sessions' = Without(sessions, Owned(p))
  /\ Transition(p, "closed")
  /\ Goto(p, "away")
  /\ UNCHANGED <<mapped, connections, links, handles, locals, consumers, lastId, deliverySeq,
                 panicked, ended>>

\* The deferred function of handle.
Leave(p) ==
  /\ At(p, "leaving")
  /\ channels' = Without(channels, {ChannelKey(p, sessions[id].channel) : id \in Owned(p)})
  /\ sessions' = Without(sessions, Owned(p))
  /\ connections' = connections \ {p}
  /\ Transition(p, "closed")
  /\ Goto(p, "away")
  /\ UNCHANGED <<mapped, links, handles, locals, consumers, lastId, deliverySeq,
                 panicked, ended>>

-----------------------------------------------------------------------------
(* Sessions.                                                               *)

NewSession(p, ch) == [peer |-> p, channel |-> ch, links |-> Empty, window |-> Window]

\* Connection.AddSession.
Addable(p, ch) == state[p] = "open" /\ ch \notin DOMAIN mapped[p]

OnBegin(p, ch) ==
  /\ At(p, "serving")
  /\ lastId < MaxIds
  /\ LET id  == lastId + 1
         key == ChannelKey(p, ch)
     IN  IF state[p] # "open" \/ key \in DOMAIN channels
         THEN Fail(p) /\ UNCHANGED <<mapped, sessions, channels, sessionIDs, lastId>>
         ELSE /\ lastId' = id
              /\ sessions' = Put(sessions, id, NewSession(p, ch))
              /\ channels' = Put(channels, key, id)
              /\ IF Addable(p, ch)
                 THEN /\ mapped' = [mapped EXCEPT ![p] = Put(@, ch, id)]
                      /\ sessionIDs' = [sessionIDs EXCEPT ![p] = Put(@, ch, id)]
                      /\ Reply(p)
                 ELSE Fail(p) /\ UNCHANGED <<mapped, sessionIDs>>
  /\ UNCHANGED <<state, connections, links, handles, linkIDs, unsettled, flow, consumers,
                 deliverySeq, panicked, ended>>

\* A frame on a channel that is not mapped.
Unmapped(p, ch) ==
  /\ At(p, "serving")
  /\ ch \notin DOMAIN sessionIDs[p]
  /\ Fail(p)
  /\ UNCHANGED <<state, mapped, registries, locals, consumers, lastId, deliverySeq,
                 panicked, ended>>

HandleKey(s, h) == <<s, Rune[h]>>

\* The links that Registry.RemoveSession removes.
OfSession(id) == {l \in DOMAIN links : links[l].session = id}

\* Mutation: the registry's index keeps the channel.
OnEndKeepsChannel(p, ch) ==
  /\ At(p, "serving")
  /\ ch \in DOMAIN sessionIDs[p]
  /\ LET id == sessionIDs[p][ch]
     IN  /\ handles' = Without(handles, {HandleKey(id, links[l].handle) : l \in OfSession(id)})
         /\ links' = Without(links, OfSession(id))
         /\ sessions' = Without(sessions, {id})
         /\ ended' = ended \cup OfSession(id)
  /\ mapped' = [mapped EXCEPT ![p] = Without(@, {ch})]
  /\ sessionIDs' = [sessionIDs EXCEPT ![p] = Without(@, {ch})]
  /\ Reply(p)
  /\ UNCHANGED <<state, connections, channels, linkIDs, unsettled, flow, consumers, lastId,
                 deliverySeq, panicked>>

\* The links of the session go, peer.linkIDs keeps their ids.
OnEnd(p, ch) ==
  /\ At(p, "serving")
  /\ ch \in DOMAIN sessionIDs[p]
  /\ LET id == sessionIDs[p][ch]
     IN  /\ handles' = Without(handles, {HandleKey(id, links[l].handle) : l \in OfSession(id)})
         /\ links' = Without(links, OfSession(id))
         /\ sessions' = Without(sessions, {id})
         /\ channels' = Without(channels, {ChannelKey(p, ch)})
         /\ ended' = ended \cup OfSession(id)
  /\ mapped' = [mapped EXCEPT ![p] = Without(@, {ch})]
  /\ sessionIDs' = [sessionIDs EXCEPT ![p] = Without(@, {ch})]
  /\ Reply(p)
  /\ UNCHANGED <<state, connections, linkIDs, unsettled, flow, consumers, lastId,
                 deliverySeq, panicked>>

-----------------------------------------------------------------------------
(* Links.                                                                  *)

\* role is the broker's end.
NewLink(s, h, role) ==
  [session |-> s, handle |-> h, role |-> role,
   credit |-> IF role = "sender" THEN Prefetch ELSE 0]

\* Session.Attach.
Attachable(s, h) == h \notin DOMAIN sessions[s].links /\ h <= MaxHandle

\* A link that Session.Attach refuses stays in the registry of links.
OnAttach(p, ch, h, role) ==
  /\ At(p, "serving")
  /\ ch \in DOMAIN sessionIDs[p]
  /\ lastId < MaxIds
  /\ LET id  == lastId + 1
         s   == sessionIDs[p][ch]
         key == HandleKey(s, h)
     IN  IF key \in DOMAIN handles
         THEN Fail(p) /\ UNCHANGED <<sessions, links, handles, linkIDs, consumers, lastId>>
         ELSE /\ lastId' = id
              /\ handles' = Put(handles, key, id)
              /\ links' = Put(links, id, NewLink(s, h, role))
              /\ IF ~Attachable(s, h)
                 THEN Fail(p) /\ UNCHANGED <<sessions, linkIDs, consumers>>
                 ELSE /\ sessions' = [sessions EXCEPT ![s].links = Put(@, h, id)]
                      /\ linkIDs' = [linkIDs EXCEPT ![p] = Put(@, <<ch, h>>, id)]
                      /\ \/ /\ consumers' = IF role = "sender" THEN Put(consumers, id, TRUE)
                                            ELSE consumers
                            /\ Reply(p)
                         \/ /\ role = "sender"   \* Register fails
                            /\ Fail(p)
                            /\ UNCHANGED consumers
  /\ UNCHANGED <<state, mapped, connections, channels, sessionIDs, unsettled, flow,
                 deliverySeq, panicked, ended>>

\* A Detach or Transfer for a handle without link id.  The window that Transfer
\* uses up goes with the session.
UnknownHandle(p, ch, h) ==
  /\ At(p, "serving")
  /\ ch \in DOMAIN sessionIDs[p]
  /\ <<ch, h>> \notin DOMAIN linkIDs[p]
  /\ Fail(p)
  /\ UNCHANGED <<state, mapped, registries, locals, consumers, lastId, deliverySeq,
                 panicked, ended>>

\* The key that Registry.Remove removes with a link.
KeysOf(id) ==
  IF id \in DOMAIN links THEN {HandleKey(links[id].session, links[id].handle)} ELSE {}

OnDetach(p, ch, h) ==
  /\ At(p, "serving")
  /\ ch \in DOMAIN sessionIDs[p]
  /\ <<ch, h>> \in DOMAIN linkIDs[p]
  /\ LET id == linkIDs[p][<<ch, h>>]
     IN  /\ consumers' = IF id \in DOMAIN links /\ links[id].role = "sender"
                         THEN Put(consumers, id, FALSE) ELSE consumers
         /\ handles' = Without(handles, KeysOf(id))
         /\ links' = Without(links, {id})
  /\ sessions' = [sessions EXCEPT ![sessionIDs[p][ch]].links = Without(@, {h})]
  /\ linkIDs' = [linkIDs EXCEPT ![p] = Without(@, {<<ch, h>>})]
  /\ Reply(p)
  /\ UNCHANGED <<state, mapped, connections, channels, sessionIDs, unsettled, flow,
                 lastId, deliverySeq, panicked, ended>>

-----------------------------------------------------------------------------
(* Flow, transfers and dispositions.                                       *)

\* The window of the session is set to the one the peer names.  A handle whose
\* link is gone is skipped.
OnFlow(p, ch, h, window, credit) ==
  /\ At(p, "serving")
  /\ ch \in DOMAIN sessionIDs[p]
  /\ sessions' = [sessions EXCEPT ![sessionIDs[p][ch]].window = window]
  /\ LET id == IF <<ch, h>> \in DOMAIN linkIDs[p] THEN linkIDs[p][<<ch, h>>] ELSE 0
     IN  IF id \notin DOMAIN links
         THEN UNCHANGED <<phase, links, flow>>
         ELSE /\ links' = [links EXCEPT ![id].credit = credit]
              /\ IF links[id].role = "sender"
                 THEN /\ flow' = [flow EXCEPT ![p] = [link |-> id, left |-> credit]]
                      /\ Goto(p, "flow")
                 ELSE UNCHANGED <<phase, flow>>
  /\ UNCHANGED <<state, mapped, connections, channels, handles, sessionIDs, linkIDs,
                 unsettled, consumers, lastId, deliverySeq, panicked, ended>>

\* Link.Consume at the sending end.
Consume(l) ==
  /\ links[l].credit > 0
  /\ links' = [links EXCEPT ![l].credit = @ - 1]

\* Mutation: the loop runs once more than it has credit for.
FlowDeliverOneMore(p) ==
  /\ At(p, "flow")
  /\ deliverySeq < MaxDeliveries
  /\ deliverySeq' = deliverySeq + 1
  /\ links' = [links EXCEPT ![flow[p].link].credit = @ - 1]
  /\ flow' = [flow EXCEPT ![p].left = @ - 1]
  /\ unsettled' = [unsettled EXCEPT ![p] = Put(@, deliverySeq + 1, flow[p].link)]
  /\ UNCHANGED <<phase, state, mapped, connections, sessions, channels, handles, sessionIDs,
                 linkIDs, consumers, lastId, panicked, ended>>

\* Mutation: the link's credit is not checked, nor used up.
FlowDeliverFree(p) ==
  /\ At(p, "flow")
  /\ flow[p].left > 0
  /\ deliverySeq < MaxDeliveries
  /\ deliverySeq' = deliverySeq + 1
  /\ flow' = [flow EXCEPT ![p].left = @ - 1]
  /\ unsettled' = [unsettled EXCEPT ![p] = Put(@, deliverySeq + 1, flow[p].link)]
  /\ UNCHANGED <<phase, state, mapped, registries, sessionIDs, linkIDs, consumers, lastId,
                 panicked, ended>>

\* Acquire has a message, and the link the credit for it; the transfer is
\* written, or is too large or cannot be written.
FlowDeliver(p) ==
  /\ At(p, "flow")
  /\ flow[p].left > 0
  /\ deliverySeq < MaxDeliveries
  /\ deliverySeq' = deliverySeq + 1
  /\ \/ /\ Consume(flow[p].link)
        /\ flow' = [flow EXCEPT ![p].left = @ - 1]
        /\ unsettled' = [unsettled EXCEPT ![p] = Put(@, deliverySeq + 1, flow[p].link)]
        /\ UNCHANGED phase
     \/ /\ Consume(flow[p].link)   \* write fails
        /\ flow' = [flow EXCEPT ![p] = NoFlow]
        /\ Fail(p)
        /\ UNCHANGED unsettled
     \/ /\ flow' = [flow EXCEPT ![p] = NoFlow]   \* Consume fails
        /\ Fail(p)
        /\ UNCHANGED <<links, unsettled>>
  /\ UNCHANGED <<state, mapped, connections, sessions, channels, handles, sessionIDs, linkIDs,
                 consumers, lastId, panicked, ended>>

\* The credit is used up, or Acquire has no message; or it returns an error,
\* which ends the connection.
FlowEnds(p) ==
  /\ At(p, "flow")
  /\ Goto(p, "serving") \/ (flow[p].left > 0 /\ Fail(p))
  /\ flow' = [flow EXCEPT ![p] = NoFlow]
  /\ UNCHANGED <<state, mapped, registries, sessionIDs, linkIDs, unsettled, consumers, lastId,
                 deliverySeq, panicked, ended>>

\* Session.ConsumeIncoming.
Exhausted(s) == sessions[s].window = 0

\* The link is used without asking whether it was found.
OnTransfer(p, ch, h) ==
  /\ At(p, "serving")
  /\ ch \in DOMAIN sessionIDs[p]
  /\ <<ch, h>> \in DOMAIN linkIDs[p]
  /\ LET s  == sessionIDs[p][ch]
         id == linkIDs[p][<<ch, h>>]
     IN  IF Exhausted(s)
         THEN Fail(p) /\ UNCHANGED <<sessions, panicked>>
         ELSE /\ sessions' = [sessions EXCEPT ![s].window = @ - 1]
              /\ panicked' = (id \notin DOMAIN links)
              /\ IF id \in DOMAIN links /\ links[id].role = "receiver"
                 THEN Reply(p)   \* or the body is refused, or Publish fails
                 ELSE Fail(p)
  /\ UNCHANGED <<state, mapped, connections, channels, links, handles, locals, consumers,
                 lastId, deliverySeq, ended>>

\* Settle is called for every delivery of the range that was sent to this peer;
\* what it returns is ignored.
OnDisposition(p, first, last) ==
  /\ At(p, "serving")
  /\ unsettled' = [unsettled EXCEPT ![p] = Without(@, first .. last)]
  /\ UNCHANGED <<phase, state, mapped, registries, sessionIDs, linkIDs, flow, consumers,
                 lastId, deliverySeq, panicked, ended>>

-----------------------------------------------------------------------------
Init ==
  /\ phase = [p \in Peers |-> "away"]
  /\ state = [p \in Peers |-> "closed"]
  /\ mapped = [p \in Peers |-> Empty]
  /\ connections = {}
  /\ sessions = Empty /\ channels = Empty
  /\ links = Empty /\ handles = Empty
  /\ sessionIDs = [p \in Peers |-> Empty]
  /\ linkIDs = [p \in Peers |-> Empty]
  /\ unsettled = [p \in Peers |-> Empty]
  /\ flow = [p \in Peers |-> NoFlow]
  /\ consumers = Empty
  /\ lastId = 0 /\ deliverySeq = 0
  /\ panicked = FALSE
  /\ ended = {}

Frame(p) ==
  \/ OnOpen(p) \/ OnClose(p) \/ IdleFrame(p)
  \/ \E ch \in Channels : OnBegin(p, ch) \/ OnEnd(p, ch) \/ Unmapped(p, ch)
  \/ \E ch \in Channels, h \in Handles :
       \/ \E role \in {"sender", "receiver"} : OnAttach(p, ch, h, role)
       \/ \E window \in Credits, credit \in Credits : OnFlow(p, ch, h, window, credit)
       \/ OnDetach(p, ch, h) \/ OnTransfer(p, ch, h) \/ UnknownHandle(p, ch, h)
  \/ \E first, last \in 1 .. deliverySeq : OnDisposition(p, first, last)

Next ==
  \E p \in Peers :
    \/ Accept(p) \/ Handshake(p) \/ Frame(p) \/ ReadFails(p) \/ Leave(p)
    \/ FlowDeliver(p) \/ FlowEnds(p)

Spec == Init /\ [][Next]_vars

-----------------------------------------------------------------------------
(* Properties the code has.                                                *)

\* Every variable has its type: no window and no credit, which are unsigned,
\* falls below zero.
TypeOK ==
  /\ phase \in [Peers -> {"away", "handshake", "serving", "flow", "leaving"}]
  /\ state \in [Peers -> {"start", "header", "open", "closing", "closed"}]
  /\ connections \subseteq Peers
  /\ \A id \in DOMAIN sessions :
       /\ sessions[id].peer \in Peers /\ sessions[id].channel \in Channels
       /\ sessions[id].window \in Nat
  /\ \A id \in DOMAIN links :
       /\ links[id].handle \in Handles /\ links[id].role \in {"sender", "receiver"}
       /\ links[id].credit \in Nat
  /\ \A p \in Peers :
       /\ DOMAIN mapped[p] \subseteq Channels /\ DOMAIN sessionIDs[p] \subseteq Channels
       /\ DOMAIN linkIDs[p] \subseteq Channels \X Handles
       /\ DOMAIN unsettled[p] \subseteq 1 .. deliverySeq
       /\ flow[p].left \in Nat
  /\ lastId \in 0 .. MaxIds /\ deliverySeq \in 0 .. MaxDeliveries
  /\ panicked \in BOOLEAN

\* Every connection that is being handled has a slot in the registry, and there
\* are no more of them than the limit: each way a handler ends frees its slot.
SlotsMatch ==
  /\ connections = {p \in Peers : phase[p] # "away"}
  /\ Cardinality(connections) <= MaxConnections

\* The four tables of sessions agree: the peer's, the connection's, the
\* registry's and its index by channel.  A handler that finds a channel in its
\* own table finds the session everywhere, the connection is open then, and
\* nothing is left of a connection that has ended.
SessionTables ==
  /\ \A p \in connections :
       /\ sessionIDs[p] = mapped[p]
       /\ DOMAIN sessionIDs[p] # {} /\ phase[p] # "leaving" => state[p] = "open"
       /\ \A ch \in DOMAIN sessionIDs[p] :
            /\ sessionIDs[p][ch] \in DOMAIN sessions
            /\ sessions[sessionIDs[p][ch]].peer = p
            /\ sessions[sessionIDs[p][ch]].channel = ch
  /\ \A id \in DOMAIN sessions :
       LET s == sessions[id]
       IN  /\ s.peer \in connections
           /\ s.channel \in DOMAIN sessionIDs[s.peer] /\ sessionIDs[s.peer][s.channel] = id
           /\ <<s.peer, Rune[s.channel]>> \in DOMAIN channels
           /\ channels[<<s.peer, Rune[s.channel]>>] = id
  /\ DOMAIN channels = {<<sessions[id].peer, Rune[sessions[id].channel]>> : id \in DOMAIN sessions}

\* The tables of links agree: a handle of a session is the handle the peer and
\* the registry of links know its link by.
HandleTables ==
  \A id \in DOMAIN sessions :
    \A h \in DOMAIN sessions[id].links :
      LET l == sessions[id].links[h]
          k == <<sessions[id].channel, h>>
      IN  /\ k \in DOMAIN linkIDs[sessions[id].peer] /\ linkIDs[sessions[id].peer][k] = l
          /\ l \in DOMAIN links /\ links[l].session = id /\ links[l].handle = h
          /\ <<id, Rune[h]>> \in DOMAIN handles /\ handles[<<id, Rune[h]>>] = l

\* The peer's table of links outlives the session: a handle may lead to a link
\* that is gone, but only to one of a session that has ended.  Nothing else can
\* make onTransfer use a link that is not there.
StaleHandles ==
  /\ \A p \in connections : \A k \in DOMAIN linkIDs[p] :
       linkIDs[p][k] \in DOMAIN links \cup ended
  /\ panicked => ended # {}

\* The eight tables of connections, sessions and links agree, whichever handler
\* begins, attaches, detaches, ends or is cut off.
TablesAgree == SessionTables /\ HandleTables /\ StaleHandles

\* While onFlow sends, its loop and the credit of its link count alike, so that
\* Consume never refuses a message Acquire has taken for want of credit.
FlowAgrees ==
  \A p \in Peers : phase[p] = "flow" =>
    /\ flow[p].link \in DOMAIN links
    /\ links[flow[p].link].role = "sender"
    /\ links[flow[p].link].credit = flow[p].left

-----------------------------------------------------------------------------
\* README.md: "disconnect recovery".  The consumer of a link is disconnected when
\* its connection has ended.
ConsumersLeave ==
  \A l \in DOMAIN consumers :
    consumers[l] => \E p \in connections : \E k \in DOMAIN linkIDs[p] : linkIDs[p][k] = l

\* README.md: "heartbeats through idle frames".  A peer that has nothing to say
\* for longer than the idle timeout keeps its connection with an empty frame.
HeartbeatKeeps ==
  [][\A p \in Peers : IdleFrame(p) => phase'[p] = "serving"]_vars
=============================================================================
