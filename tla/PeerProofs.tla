----------------------------- MODULE PeerProofs -----------------------------
(***************************************************************************)
(* Proofs about Peer, for any number of peers, channels, handles and ids:  *)
(* type correctness, the agreement of the tables that know a session or a  *)
(* link, that the loop of a flow and the credit of its link count alike,   *)
(* and that a connection holds its slot exactly while it is handled.       *)
(***************************************************************************)
EXTENDS Peer, TLAPS

-----------------------------------------------------------------------------
(* Tables.                                                                 *)

\* The tables of ids with keys in S.
Table(S) == UNION {[D -> Nat] : D \in SUBSET S}

\* A table has its keys in S and ids for values.
LEMMA TableFacts ==
  ASSUME NEW S, NEW f \in Table(S)
  PROVE  DOMAIN f \subseteq S /\ \A x \in DOMAIN f : f[x] \in Nat
  BY Zenon DEF Table

\* What Put does to a function.
LEMMA PutFacts ==
  ASSUME NEW f, NEW k, NEW v
  PROVE  /\ DOMAIN Put(f, k, v) = DOMAIN f \cup {k}
         /\ Put(f, k, v)[k] = v
         /\ \A x \in DOMAIN f : x # k => Put(f, k, v)[x] = f[x]
  BY Zenon DEF Put

\* What Without does to a function.
LEMMA WithoutFacts ==
  ASSUME NEW f, NEW S
  PROVE  /\ DOMAIN Without(f, S) = DOMAIN f \ S
         /\ \A x \in DOMAIN f \ S : Without(f, S)[x] = f[x]
  BY Zenon DEF Without

\* A table with one more entry is a table.
LEMMA PutTable ==
  ASSUME NEW S, NEW f \in Table(S), NEW k \in S, NEW v \in Nat
  PROVE  Put(f, k, v) \in Table(S)
<1>1. DOMAIN f \cup {k} \in SUBSET S
  BY TableFacts, Zenon
<1>2. Put(f, k, v) \in [DOMAIN f \cup {k} -> Nat]
  BY TableFacts, Zenon DEF Put
<1>3. QED
  BY <1>1, <1>2, Zenon DEF Table

\* A table with fewer entries is a table.
LEMMA WithoutTable ==
  ASSUME NEW S, NEW f \in Table(S), NEW R
  PROVE  Without(f, R) \in Table(S)
<1>1. DOMAIN f \ R \in SUBSET S
  BY TableFacts, Zenon
<1>2. Without(f, R) \in [DOMAIN f \ R -> Nat]
  BY TableFacts, Zenon DEF Without
<1>3. QED
  BY <1>1, <1>2, Zenon DEF Table

\* The table without entries.
LEMMA EmptyTable ==
  ASSUME NEW S
  PROVE  Empty \in Table(S) /\ DOMAIN Empty = {}
<1>1. DOMAIN Empty = {} /\ Empty \in [{} -> Nat]
  BY Zenon DEF Empty
<1>2. QED
  BY <1>1, Zenon DEF Table

-----------------------------------------------------------------------------
(* The inductive invariant.                                                *)

Session == [peer : Peers, channel : Channels, links : Table(Handles), window : Nat]
Link    == [session : Nat, handle : Handles, role : {"sender", "receiver"}, credit : Nat]

Places ==
  /\ phase \in [Peers -> {"away", "handshake", "serving", "flow", "leaving"}]
  /\ state \in [Peers -> {"start", "header", "open", "closing", "closed"}]
  /\ connections \subseteq Peers
  /\ flow \in [Peers -> [link : Nat, left : Nat]]

Registered ==
  /\ sessions \in [DOMAIN sessions -> Session]
  /\ links \in [DOMAIN links -> Link]

Known ==
  /\ mapped \in [Peers -> Table(Channels)]
  /\ sessionIDs \in [Peers -> Table(Channels)]
  /\ linkIDs \in [Peers -> Table(Channels \X Handles)]

Counters ==
  /\ unsettled \in [Peers -> Table(1 .. deliverySeq)]
  /\ lastId \in 0 .. MaxIds /\ deliverySeq \in 0 .. MaxDeliveries

Typed == Places /\ Registered /\ Known /\ Counters /\ panicked \in BOOLEAN

\* Ids are drawn in order: what is in the tables was drawn before.
Drawn ==
  /\ DOMAIN sessions \subseteq 1 .. lastId
  /\ DOMAIN links \subseteq 1 .. lastId
  /\ \A p \in Peers : \A k \in DOMAIN linkIDs[p] : linkIDs[p][k] \in 1 .. lastId

\* The index of the registry of links.
Indexed ==
  \A l \in DOMAIN links :
    /\ HandleKey(links[l].session, links[l].handle) \in DOMAIN handles
    /\ handles[HandleKey(links[l].session, links[l].handle)] = l

\* No link is known by two handles, nor to two peers.
OneHandle ==
  \A p, q \in Peers : \A j \in DOMAIN linkIDs[p], k \in DOMAIN linkIDs[q] :
    linkIDs[p][j] = linkIDs[q][k] => p = q /\ j = k

\* A link that a peer finds by a handle is of a session of that peer.
OfPeer ==
  \A p \in connections : \A k \in DOMAIN linkIDs[p] :
    linkIDs[p][k] \in DOMAIN links =>
      /\ links[linkIDs[p][k]].session \in DOMAIN sessions
      /\ sessions[links[linkIDs[p][k]].session].peer = p

\* A peer that is sent messages to has a handle for the link.
FlowKnown ==
  \A p \in Peers : phase[p] = "flow" =>
    \E k \in DOMAIN linkIDs[p] : linkIDs[p][k] = flow[p].link

\* A peer with a running handler has a slot, and no other.
Slots == connections = {p \in Peers : phase[p] # "away"}

LinkInv == Drawn /\ HandleTables /\ StaleHandles /\ Indexed /\ OneHandle /\ OfPeer
FlowInv == FlowAgrees /\ FlowKnown

PeerInv ==
  /\ Typed
  /\ Slots
  /\ SessionTables
  /\ LinkInv
  /\ FlowInv

\* The entries of the tables, one peer, one session and one handle at a time.
SessionsOf(q) ==
  /\ sessionIDs[q] = mapped[q]
  /\ DOMAIN sessionIDs[q] # {} /\ phase[q] # "leaving" => state[q] = "open"
  /\ \A ch \in DOMAIN sessionIDs[q] :
       /\ sessionIDs[q][ch] \in DOMAIN sessions
       /\ sessions[sessionIDs[q][ch]].peer = q
       /\ sessions[sessionIDs[q][ch]].channel = ch

SessionOf(x) ==
  /\ sessions[x].peer \in connections
  /\ sessions[x].channel \in DOMAIN sessionIDs[sessions[x].peer]
  /\ sessionIDs[sessions[x].peer][sessions[x].channel] = x
  /\ <<sessions[x].peer, Rune[sessions[x].channel]>> \in DOMAIN channels
  /\ channels[<<sessions[x].peer, Rune[sessions[x].channel]>>] = x

ChannelOf(k) ==
  \E x \in DOMAIN sessions : k = <<sessions[x].peer, Rune[sessions[x].channel]>>

LinkOf(x, h) ==
  /\ <<sessions[x].channel, h>> \in DOMAIN linkIDs[sessions[x].peer]
  /\ linkIDs[sessions[x].peer][<<sessions[x].channel, h>>] = sessions[x].links[h]
  /\ sessions[x].links[h] \in DOMAIN links
  /\ links[sessions[x].links[h]].session = x /\ links[sessions[x].links[h]].handle = h
  /\ <<x, Rune[h]>> \in DOMAIN handles /\ handles[<<x, Rune[h]>>] = sessions[x].links[h]

\* What the invariant says of each entry.
LEMMA Entries ==
  ASSUME PeerInv
  PROVE  /\ \A q \in connections : q \in Peers /\ SessionsOf(q)
         /\ \A x \in DOMAIN sessions : SessionOf(x)
         /\ \A k \in DOMAIN channels : ChannelOf(k)
         /\ \A x \in DOMAIN sessions : \A h \in DOMAIN sessions[x].links : LinkOf(x, h)
<1>1. \A q \in connections : q \in Peers /\ SessionsOf(q)
  BY Zenon DEF PeerInv, Typed, Places, SessionTables, SessionsOf
<1>2. \A x \in DOMAIN sessions : SessionOf(x)
  BY Zenon DEF PeerInv, SessionTables, SessionOf
<1>3. \A k \in DOMAIN channels : ChannelOf(k)
  <2>1. SessionTables
    BY Zenon DEF PeerInv
  <2>2. QED
    BY ONLY <2>1, Zenon DEF SessionTables, ChannelOf
<1>4. \A x \in DOMAIN sessions : \A h \in DOMAIN sessions[x].links : LinkOf(x, h)
  <2>1. HandleTables
    BY Zenon DEF PeerInv, LinkInv
  <2>2. QED
    BY ONLY <2>1 DEF HandleTables, LinkOf
<1>5. QED
  BY <1>1, <1>2, <1>3, <1>4, Zenon

\* The tables of sessions agree when every entry does.
LEMMA SessionTablesNew ==
  ASSUME \A q \in connections' : SessionsOf(q)',
         \A x \in DOMAIN sessions' : SessionOf(x)',
         \A k \in DOMAIN channels' : ChannelOf(k)'
  PROVE  SessionTables'
<1>1. DOMAIN channels' =
        {<<sessions'[x].peer, Rune[sessions'[x].channel]>> : x \in DOMAIN sessions'}
  BY Zenon DEF SessionOf, ChannelOf
<1>2. QED
  BY <1>1, Zenon DEF SessionTables, SessionsOf, SessionOf

\* The tables of links agree when every entry does.
LEMMA HandleTablesNew ==
  ASSUME \A x \in DOMAIN sessions' : \A h \in DOMAIN sessions'[x].links : LinkOf(x, h)'
  PROVE  HandleTables'
  BY ZenonT(40) DEF HandleTables, LinkOf

\* A handle whose session, link and keys are left alone.
LEMMA LinkOfKept ==
  ASSUME NEW x, NEW h, LinkOf(x, h), sessions'[x] = sessions[x],
         linkIDs'[sessions[x].peer] = linkIDs[sessions[x].peer],
         sessions[x].links[h] \in DOMAIN links',
         links'[sessions[x].links[h]] = links[sessions[x].links[h]],
         <<x, Rune[h]>> \in DOMAIN handles',
         handles'[<<x, Rune[h]>>] = handles[<<x, Rune[h]>>]
  PROVE  LinkOf(x, h)'
  BY Zenon DEF LinkOf

\* A peer whose own tables and sessions are left alone.
LEMMA SessionsOfKept ==
  ASSUME NEW q, SessionsOf(q), sessionIDs'[q] = sessionIDs[q], mapped'[q] = mapped[q],
         phase'[q] = phase[q], state'[q] = state[q],
         \A x \in DOMAIN sessions :
           sessions[x].peer = q => x \in DOMAIN sessions' /\ sessions'[x] = sessions[x]
  PROVE  SessionsOf(q)'
  BY DEF SessionsOf

-----------------------------------------------------------------------------
(* Steps that leave tables alone.                                          *)

\* A function with one more entry of a type.
LEMMA PutTyped ==
  ASSUME NEW T, NEW f, f \in [DOMAIN f -> T], NEW k, NEW v \in T
  PROVE  Put(f, k, v) \in [DOMAIN Put(f, k, v) -> T]
  BY Zenon DEF Put

\* A function with fewer entries of a type.
LEMMA WithoutTyped ==
  ASSUME NEW T, NEW f, f \in [DOMAIN f -> T], NEW R
  PROVE  Without(f, R) \in [DOMAIN Without(f, R) -> T]
  BY Zenon DEF Without

\* Sessions keep their peers and channels.
SamePeers ==
  /\ DOMAIN sessions' = DOMAIN sessions
  /\ \A id \in DOMAIN sessions :
       sessions'[id].peer = sessions[id].peer /\ sessions'[id].channel = sessions[id].channel

\* Sessions keep their links, and links their sessions and handles.
SameLinks ==
  /\ SamePeers
  /\ \A id \in DOMAIN sessions : sessions'[id].links = sessions[id].links
  /\ DOMAIN links' = DOMAIN links
  /\ \A l \in DOMAIN links :
       links'[l].session = links[l].session /\ links'[l].handle = links[l].handle

\* The handler of a peer goes on or leaves: no slot is taken or freed.
LEMMA SlotsKept ==
  ASSUME Typed, Slots, NEW p \in Peers, phase[p] # "away",
         NEW w, w # "away", phase' = phase \/ phase' = [phase EXCEPT ![p] = w],
         connections' = connections
  PROVE  Slots'
  BY Zenon DEF Typed, Places, Slots

\* No table of sessions is changed, and the connection stays open.
LEMMA SessionsKept ==
  ASSUME SessionTables, SamePeers, UNCHANGED <<connections, sessionIDs, mapped, channels>>,
         \A q \in connections :
           DOMAIN sessionIDs[q] # {} /\ phase'[q] # "leaving" => state'[q] = "open"
  PROVE  SessionTables'
  BY DEF SessionTables, SamePeers

\* No table of links is changed.
LEMMA LinksKept ==
  ASSUME LinkInv, SameLinks, UNCHANGED <<connections, handles, linkIDs, lastId, ended>>,
         panicked' => panicked \/ ended # {}
  PROVE  LinkInv'
<1>1. Drawn' /\ StaleHandles' /\ OneHandle'
  BY DEF LinkInv, SameLinks, SamePeers, Drawn, StaleHandles, OneHandle
<1>2. HandleTables'
  BY DEF LinkInv, SameLinks, SamePeers, HandleTables
<1>3. Indexed'
  BY DEF LinkInv, SameLinks, SamePeers, Indexed, HandleKey
<1>4. OfPeer'
  BY DEF LinkInv, SameLinks, SamePeers, OfPeer
<1>5. QED
  BY <1>1, <1>2, <1>3, <1>4, Zenon DEF LinkInv

\* A peer was sent messages to before the step, on a link the step leaves alone.
Undisturbed(q) ==
  /\ phase[q] = "flow"
  /\ flow'[q] = flow[q]
  /\ linkIDs'[q] = linkIDs[q]
  /\ flow[q].link \in DOMAIN links'
  /\ links'[flow[q].link] = links[flow[q].link]

\* No peer begins to be sent messages, and those that are go on.
LEMMA FlowKept ==
  ASSUME FlowInv, \A q \in Peers : phase'[q] = "flow" => Undisturbed(q)
  PROVE  FlowInv'
<1> SUFFICES ASSUME NEW q \in Peers, phase'[q] = "flow"
             PROVE  /\ flow'[q].link \in DOMAIN links'
                    /\ links'[flow'[q].link].role = "sender"
                    /\ links'[flow'[q].link].credit = flow'[q].left
                    /\ \E k \in DOMAIN linkIDs'[q] : linkIDs'[q][k] = flow'[q].link
  BY Zenon DEF FlowInv, FlowAgrees, FlowKnown
<1>1. QED
  BY DEF Undisturbed, FlowInv, FlowAgrees, FlowKnown

\* Only where the handler is, the state of the connection, what is unsettled and
\* the flow that ends are changed.
LEMMA Quiet ==
  ASSUME PeerInv, NEW p \in Peers, phase[p] # "away",
         NEW w \in {"serving", "leaving"}, phase' = [phase EXCEPT ![p] = w],
         NEW s \in {"start", "header", "open", "closing", "closed"},
         state' = [state EXCEPT ![p] = s],
         state[p] = "open" /\ w # "leaving" => s = "open",
         phase[p] = "leaving" => w = "leaving",
         flow' = flow \/ flow' = [flow EXCEPT ![p] = NoFlow],
         UNCHANGED <<mapped, registries, sessionIDs, linkIDs, unsettled, lastId, deliverySeq,
                     panicked, ended>>
  PROVE  PeerInv'
<1>1. Typed'
  <2>1. Places'
    BY DEF PeerInv, Typed, Places, registries, NoFlow
  <2>2. Registered'
    BY Zenon DEF PeerInv, Typed, Registered, registries
  <2>3. Known'
    BY Zenon DEF PeerInv, Typed, Known
  <2>4. Counters' /\ (panicked \in BOOLEAN)'
    BY Zenon DEF PeerInv, Typed, Counters
  <2>5. QED
    BY <2>1, <2>2, <2>3, <2>4, Zenon DEF Typed
<1>2. Slots'
  BY SlotsKept, Zenon DEF PeerInv, registries
<1>3. SamePeers /\ SameLinks
  BY Zenon DEF SamePeers, SameLinks, registries
<1>4. SessionTables'
  <2>1. \A q \in connections :
          DOMAIN sessionIDs[q] # {} /\ phase'[q] # "leaving" => state'[q] = "open"
    BY DEF PeerInv, Typed, Places, SessionTables
  <2>2. QED
    BY <2>1, <1>3, SessionsKept, Zenon DEF PeerInv, registries
<1>5. LinkInv'
  BY <1>3, LinksKept, Zenon DEF PeerInv, registries
<1>6. FlowInv'
  <2>1. \A q \in Peers : phase'[q] = "flow" => Undisturbed(q)
    BY Zenon DEF PeerInv, Typed, Places, FlowInv, FlowAgrees, Undisturbed, registries
  <2>2. QED
    BY <2>1, FlowKept, Zenon DEF PeerInv
<1>7. QED
  BY <1>1, <1>2, <1>4, <1>5, <1>6, Zenon DEF PeerInv

\* As above, where the state of the connection stays as it is.
LEMMA QuietPhase ==
  ASSUME PeerInv, NEW p \in Peers, phase[p] \in {"handshake", "serving", "flow"},
         NEW w \in {"serving", "leaving"}, phase' = [phase EXCEPT ![p] = w],
         flow' = flow \/ flow' = [flow EXCEPT ![p] = NoFlow],
         UNCHANGED <<state, mapped, registries, sessionIDs, linkIDs, unsettled, lastId,
                     deliverySeq, panicked, ended>>
  PROVE  PeerInv'
<1>1. /\ state[p] \in {"start", "header", "open", "closing", "closed"}
      /\ state' = [state EXCEPT ![p] = state[p]]
  BY Zenon DEF PeerInv, Typed, Places
<1>2. QED
  BY <1>1, Quiet, Zenon

\* The handlers that change no table.
LEMMA HandshakeStep ==
  ASSUME PeerInv, NEW p \in Peers, Handshake(p)
  PROVE  PeerInv'
<1>1. CASE Transition(p, "header") /\ Goto(p, "serving")
  <2>1. /\ After(state[p], "header") \in {"start", "header", "open", "closing", "closed"}
        /\ state[p] = "open" => After(state[p], "header") = "open"
    BY Zenon DEF PeerInv, Typed, Places, After, Valid
  <2>2. QED
    BY <1>1, <2>1, Quiet, Zenon DEF Handshake, At, Goto, Transition, locals
<1>2. CASE Fail(p) /\ UNCHANGED state
  BY <1>2, QuietPhase, Zenon DEF Handshake, At, Goto, Fail, locals
<1>3. QED
  BY <1>1, <1>2, Zenon DEF Handshake

\* onOpen.
LEMMA OnOpenStep ==
  ASSUME PeerInv, NEW p \in Peers, OnOpen(p)
  PROVE  PeerInv'
<1>1. CASE state[p] = "header"
  <2>1. After(state[p], "open") = "open"
    BY <1>1, Zenon DEF After, Valid
  <2>2. PICK w \in {"serving", "leaving"} : phase' = [phase EXCEPT ![p] = w]
    BY <1>1, Zenon DEF OnOpen, Reply, Goto
  <2>3. QED
    BY <1>1, <2>1, <2>2, Quiet, Zenon DEF OnOpen, At, Transition, locals
<1>2. CASE state[p] # "header"
  BY <1>2, QuietPhase, Zenon DEF OnOpen, At, Goto, Fail, locals
<1>3. QED
  BY <1>1, <1>2, Zenon

\* onClose.
LEMMA OnCloseStep ==
  ASSUME PeerInv, NEW p \in Peers, OnClose(p)
  PROVE  PeerInv'
<1>1. PICK s \in {"start", "header", "open", "closing", "closed"} : state' = [state EXCEPT ![p] = s]
  BY Zenon DEF PeerInv, Typed, Places, OnClose, After
<1>2. QED
  BY <1>1, Quiet, Zenon DEF OnClose, At, Goto, locals

\* Frames that are refused, and a connection that ends.
LEMMA FailingSteps ==
  ASSUME PeerInv, NEW p \in Peers,
         \/ IdleFrame(p) \/ ReadFails(p)
         \/ \E ch \in Channels : Unmapped(p, ch)
         \/ \E ch \in Channels, h \in Handles : UnknownHandle(p, ch, h)
  PROVE  PeerInv'
<1>1. /\ phase[p] = "serving" /\ phase' = [phase EXCEPT ![p] = "leaving"]
      /\ UNCHANGED <<state, mapped, registries, locals, lastId, deliverySeq, panicked, ended>>
  BY Zenon DEF IdleFrame, ReadFails, Unmapped, UnknownHandle, At, Fail, Goto
<1>2. QED
  BY <1>1, QuietPhase, Zenon DEF locals

\* The loop of onFlow ends.
LEMMA FlowEndsStep ==
  ASSUME PeerInv, NEW p \in Peers, FlowEnds(p)
  PROVE  PeerInv'
<1>1. PICK w \in {"serving", "leaving"} : phase' = [phase EXCEPT ![p] = w]
  BY Zenon DEF FlowEnds, Goto, Fail
<1>2. QED
  BY <1>1, QuietPhase, Zenon DEF FlowEnds, At

-----------------------------------------------------------------------------
(* Steps that change windows and credits.                                  *)

\* A connection that is served has its sessions.
LEMMA Served ==
  ASSUME PeerInv, NEW p \in Peers, phase[p] # "away"
  PROVE  /\ p \in connections
         /\ \A ch \in DOMAIN sessionIDs[p] :
              /\ ch \in Channels
              /\ sessionIDs[p][ch] \in DOMAIN sessions
              /\ sessions[sessionIDs[p][ch]] \in Session
              /\ sessions[sessionIDs[p][ch]].peer = p
              /\ sessions[sessionIDs[p][ch]].channel = ch
<1>1. p \in connections
  BY Zenon DEF PeerInv, Slots
<1>2. DOMAIN sessionIDs[p] \subseteq Channels
  BY TableFacts, Zenon DEF PeerInv, Typed, Known
<1>3. QED
  BY <1>1, <1>2 DEF PeerInv, SessionTables, Typed, Registered

\* The window of a session is changed.
LEMMA WindowSet ==
  ASSUME Registered, NEW s \in DOMAIN sessions, NEW n \in Nat,
         sessions' = [sessions EXCEPT ![s].window = n]
  PROVE  /\ (sessions \in [DOMAIN sessions -> Session])'
         /\ SamePeers
         /\ \A id \in DOMAIN sessions : sessions'[id].links = sessions[id].links
<1>1. \A id \in DOMAIN sessions : sessions[id] \in Session
  BY Zenon DEF Registered
<1>2. [sessions[s] EXCEPT !.window = n] \in Session
  BY <1>1, Zenon DEF Session
<1>3. /\ DOMAIN sessions' = DOMAIN sessions
      /\ sessions'[s] = [sessions[s] EXCEPT !.window = n]
      /\ \A id \in DOMAIN sessions : id # s => sessions'[id] = sessions[id]
  BY Zenon
<1>4. sessions' = [id \in DOMAIN sessions' |-> sessions'[id]]
  BY Zenon
<1>5. \A id \in DOMAIN sessions' : sessions'[id] \in Session
  BY <1>1, <1>2, <1>3, Zenon
<1>6. sessions' \in [DOMAIN sessions' -> Session]
  BY ONLY <1>4, <1>5, Zenon
<1>7. /\ sessions'[s].peer = sessions[s].peer
      /\ sessions'[s].channel = sessions[s].channel
      /\ sessions'[s].links = sessions[s].links
  BY <1>1, <1>3, Zenon DEF Session
<1>8. QED
  BY <1>3, <1>6, <1>7, Zenon DEF SamePeers

\* The credit of a link is changed.
LEMMA CreditSet ==
  ASSUME Registered, NEW l \in DOMAIN links, NEW n \in Nat,
         links' = [links EXCEPT ![l].credit = n]
  PROVE  /\ (links \in [DOMAIN links -> Link])'
         /\ DOMAIN links' = DOMAIN links
         /\ \A k \in DOMAIN links :
              links'[k].session = links[k].session /\ links'[k].handle = links[k].handle
         /\ links'[l].role = links[l].role /\ links'[l].credit = n
         /\ \A k \in DOMAIN links : k # l => links'[k] = links[k]
<1>1. \A k \in DOMAIN links : links[k] \in Link
  BY Zenon DEF Registered
<1>2. [links[l] EXCEPT !.credit = n] \in Link
  BY <1>1, Zenon DEF Link
<1>3. /\ DOMAIN links' = DOMAIN links
      /\ links'[l] = [links[l] EXCEPT !.credit = n]
      /\ \A k \in DOMAIN links : k # l => links'[k] = links[k]
  BY Zenon
<1>4. links' = [k \in DOMAIN links' |-> links'[k]]
  BY Zenon
<1>5. \A k \in DOMAIN links' : links'[k] \in Link
  BY <1>1, <1>2, <1>3, Zenon
<1>6. links' \in [DOMAIN links' -> Link]
  BY ONLY <1>4, <1>5, Zenon
<1>7. /\ links'[l].session = links[l].session /\ links'[l].handle = links[l].handle
      /\ links'[l].role = links[l].role /\ links'[l].credit = n
  BY <1>1, <1>3 DEF Link
<1>8. QED
  BY <1>3, <1>6, <1>7, Zenon

\* onDisposition.
LEMMA OnDispositionStep ==
  ASSUME PeerInv, NEW p \in Peers, NEW first, NEW last, OnDisposition(p, first, last)
  PROVE  PeerInv'
<1> USE DEF registries
<1>1. Typed'
  <2>1. unsettled[p] \in Table(1 .. deliverySeq)
    BY Zenon DEF PeerInv, Typed, Counters
  <2>2. Without(unsettled[p], first .. last) \in Table(1 .. deliverySeq)
    BY <2>1, WithoutTable, Zenon
  <2>3. Counters'
    BY <2>2, Zenon DEF PeerInv, Typed, Counters, OnDisposition
  <2>4. Places' /\ Registered' /\ Known' /\ (panicked \in BOOLEAN)'
    BY Zenon DEF PeerInv, Typed, Places, Registered, Known, OnDisposition
  <2>5. QED
    BY <2>3, <2>4, Zenon DEF Typed
<1>2. Slots'
  BY Zenon DEF PeerInv, Slots, OnDisposition
<1>3. SamePeers /\ SameLinks
  BY Zenon DEF SamePeers, SameLinks, OnDisposition
<1>4. SessionTables'
  BY <1>3, SessionsKept, Zenon DEF PeerInv, SessionTables, OnDisposition
<1>5. LinkInv'
  BY <1>3, LinksKept, Zenon DEF PeerInv, OnDisposition
<1>6. FlowInv'
  BY Zenon DEF PeerInv, FlowInv, FlowAgrees, FlowKnown, OnDisposition
<1>7. QED
  BY <1>1, <1>2, <1>4, <1>5, <1>6, Zenon DEF PeerInv

\* The places of the peers, the tables the peers know and the counters have their
\* types after a step that changes only windows, credits and the flow of a peer.
LEMMA TablesTyped ==
  ASSUME Typed, Registered', Places',
         UNCHANGED <<mapped, sessionIDs, linkIDs, unsettled, lastId, deliverySeq>>,
         (panicked \in BOOLEAN)'
  PROVE  Typed'
<1>1. Known' /\ Counters'
  BY Zenon DEF Typed, Known, Counters
<1>2. QED
  BY <1>1, Zenon DEF Typed

\* onTransfer.  A link that is not there was ended before.
LEMMA OnTransferStep ==
  ASSUME PeerInv, NEW p \in Peers, NEW ch \in Channels, NEW h \in Handles, OnTransfer(p, ch, h)
  PROVE  PeerInv'
<1> DEFINE s  == sessionIDs[p][ch]
           id == linkIDs[p][<<ch, h>>]
<1>1. /\ phase[p] = "serving" /\ ch \in DOMAIN sessionIDs[p] /\ <<ch, h>> \in DOMAIN linkIDs[p]
      /\ UNCHANGED <<state, mapped, connections, channels, links, handles, locals, lastId,
                     deliverySeq, ended>>
  BY Zenon DEF OnTransfer, At
<1>2. p \in connections /\ s \in DOMAIN sessions /\ sessions[s] \in Session
  BY <1>1, Served, Zenon
<1>3. CASE Exhausted(s)
  BY <1>1, <1>3, QuietPhase, Zenon DEF OnTransfer, Fail, Goto, registries, locals
<1>4. CASE ~Exhausted(s)
  <2>1. /\ sessions' = [sessions EXCEPT ![s].window = sessions[s].window - 1]
        /\ panicked' = (id \notin DOMAIN links)
        /\ phase' = [phase EXCEPT ![p] = "serving"] \/ phase' = [phase EXCEPT ![p] = "leaving"]
    BY <1>4, Zenon DEF OnTransfer, Reply, Fail, Goto
  <2>2. sessions[s].window - 1 \in Nat
    BY <1>2, <1>4 DEF Exhausted, Session
  <2>3. /\ (sessions \in [DOMAIN sessions -> Session])'
        /\ SamePeers
        /\ \A x \in DOMAIN sessions : sessions'[x].links = sessions[x].links
    BY <1>2, <2>1, <2>2, WindowSet, Zenon DEF PeerInv, Typed
  <2>4. SameLinks
    BY <1>1, <2>3, Zenon DEF SameLinks
  <2>5. Typed'
    <3>1. Registered'
      BY <1>1, <2>3, Zenon DEF PeerInv, Typed, Registered
    <3>2. Places'
      BY <1>1, <2>1, Zenon DEF PeerInv, Typed, Places, locals
    <3>3. (panicked \in BOOLEAN)'
      BY <2>1, Zenon
    <3>4. QED
      BY <1>1, <3>1, <3>2, <3>3, TablesTyped, Zenon DEF PeerInv, locals
  <2>6. Slots'
    BY <1>1, <2>1, SlotsKept, Zenon DEF PeerInv
  <2>7. SessionTables'
    <3>1. \A q \in connections :
            DOMAIN sessionIDs[q] # {} /\ phase'[q] # "leaving" => state'[q] = "open"
      BY <1>1, <2>1 DEF PeerInv, Typed, Places, SessionTables
    <3>2. QED
      BY <1>1, <2>3, <3>1, SessionsKept, Zenon DEF PeerInv, locals
  <2>8. LinkInv'
    <3>1. panicked' => ended # {}
      BY <1>1, <1>2, <2>1, Zenon DEF PeerInv, LinkInv, StaleHandles
    <3>2. QED
      BY <1>1, <2>4, <3>1, LinksKept, Zenon DEF PeerInv, locals
  <2>9. FlowInv'
    <3>1. \A q \in Peers : phase'[q] = "flow" => Undisturbed(q)
      BY <1>1, <2>1, Zenon
         DEF PeerInv, Typed, Places, FlowInv, FlowAgrees, Undisturbed, locals
    <3>2. QED
      BY <3>1, FlowKept, Zenon DEF PeerInv
  <2>10. QED
    BY <2>5, <2>6, <2>7, <2>8, <2>9, Zenon DEF PeerInv
<1>5. QED
  BY <1>3, <1>4, Zenon

\* No other peer is sent messages on a link that this one has a handle for.
LEMMA OthersFlow ==
  ASSUME PeerInv, NEW p \in Peers, NEW k \in DOMAIN linkIDs[p],
         NEW q \in Peers, q # p, phase[q] = "flow"
  PROVE  flow[q].link # linkIDs[p][k]
  BY DEF PeerInv, LinkInv, OneHandle, FlowInv, FlowKnown

\* onFlow.
LEMMA OnFlowStep ==
  ASSUME PeerInv, NEW p \in Peers, NEW ch \in Channels, NEW h \in Handles,
         NEW window \in Credits, NEW credit \in Credits, OnFlow(p, ch, h, window, credit)
  PROVE  PeerInv'
<1> DEFINE s  == sessionIDs[p][ch]
           id == IF <<ch, h>> \in DOMAIN linkIDs[p] THEN linkIDs[p][<<ch, h>>] ELSE 0
<1>1. /\ phase[p] = "serving" /\ ch \in DOMAIN sessionIDs[p]
      /\ sessions' = [sessions EXCEPT ![s].window = window]
      /\ UNCHANGED <<state, mapped, connections, channels, handles, sessionIDs, linkIDs,
                     unsettled, lastId, deliverySeq, panicked, ended>>
  BY Zenon DEF OnFlow, At
<1>2. window \in Nat /\ credit \in Nat
  BY PeerConstants, Zenon
<1>3. p \in connections /\ s \in DOMAIN sessions /\ sessions[s] \in Session
  BY <1>1, Served, Zenon
<1>4. /\ (sessions \in [DOMAIN sessions -> Session])'
      /\ SamePeers
      /\ \A x \in DOMAIN sessions : sessions'[x].links = sessions[x].links
  BY <1>1, <1>2, <1>3, WindowSet, Zenon DEF PeerInv, Typed
<1>5. \/ UNCHANGED <<phase, links, flow>>
      \/ /\ id \in DOMAIN links
         /\ links' = [links EXCEPT ![id].credit = credit]
         /\ \/ UNCHANGED <<phase, flow>>
            \/ /\ links[id].role = "sender"
               /\ flow' = [flow EXCEPT ![p] = [link |-> id, left |-> credit]]
               /\ phase' = [phase EXCEPT ![p] = "flow"]
  BY Zenon DEF OnFlow, Goto
<1>6. id \in DOMAIN links => <<ch, h>> \in DOMAIN linkIDs[p] /\ id = linkIDs[p][<<ch, h>>]
  BY DEF PeerInv, LinkInv, Drawn
<1>7. /\ (links \in [DOMAIN links -> Link])'
      /\ DOMAIN links' = DOMAIN links
      /\ \A k \in DOMAIN links :
           links'[k].session = links[k].session /\ links'[k].handle = links[k].handle
      /\ \A k \in DOMAIN links : k # id => links'[k] = links[k]
      /\ phase'[p] = "flow" => links'[id].role = "sender" /\ links'[id].credit = credit
  <2>1. CASE UNCHANGED <<phase, links, flow>>
    BY <1>1, <2>1, Zenon DEF PeerInv, Typed, Registered
  <2>2. CASE ~UNCHANGED <<phase, links, flow>>
    <3>1. id \in DOMAIN links /\ links' = [links EXCEPT ![id].credit = credit]
      BY <1>5, <2>2, Zenon
    <3>2. Registered
      BY Zenon DEF PeerInv, Typed
    <3> HIDE DEF id
    <3>3. /\ (links \in [DOMAIN links -> Link])'
          /\ DOMAIN links' = DOMAIN links
          /\ \A k \in DOMAIN links :
               links'[k].session = links[k].session /\ links'[k].handle = links[k].handle
          /\ links'[id].role = links[id].role /\ links'[id].credit = credit
          /\ \A k \in DOMAIN links : k # id => links'[k] = links[k]
      BY <3>1, <3>2, <1>2, CreditSet, Zenon
    <3>4. phase'[p] = "flow" => links[id].role = "sender"
      BY <1>1, <1>5, <2>2, Zenon
    <3>5. QED
      BY <3>3, <3>4, Zenon
  <2>3. QED
    BY <2>1, <2>2, Zenon
<1>8. SameLinks
  BY <1>4, <1>7, Zenon DEF SameLinks
<1>9. \A q \in Peers \ {p} : phase'[q] = phase[q] /\ flow'[q] = flow[q]
  BY <1>5, Zenon DEF PeerInv, Typed, Places
<1>10. phase'[p] # "leaving" /\ phase'[p] # "away"
  BY <1>1, <1>5, Zenon DEF PeerInv, Typed, Places
<1>11. Typed'
  <2>1. Registered'
    BY <1>4, <1>7, Zenon DEF Registered
  <2>2. Places'
    <3>1. flow' \in [Peers -> [link : Nat, left : Nat]]
      <4>1. id \in DOMAIN links => id \in Nat
        BY DEF PeerInv, LinkInv, Drawn
      <4> HIDE DEF id
      <4>2. QED
        BY <1>2, <1>5, <4>1 DEF PeerInv, Typed, Places
    <3>2. phase' \in [Peers -> {"away", "handshake", "serving", "flow", "leaving"}]
      BY <1>5, Zenon DEF PeerInv, Typed, Places
    <3>3. QED
      BY <1>1, <3>1, <3>2, Zenon DEF PeerInv, Typed, Places
  <2>3. (panicked \in BOOLEAN)'
    BY <1>1, Zenon DEF PeerInv, Typed
  <2>4. QED
    BY <1>1, <2>1, <2>2, <2>3, TablesTyped, Zenon DEF PeerInv
<1>12. Slots'
  BY <1>1, <1>5, SlotsKept, Zenon DEF PeerInv
<1>13. SessionTables'
  <2>1. \A q \in connections :
          DOMAIN sessionIDs[q] # {} /\ phase'[q] # "leaving" => state'[q] = "open"
    BY <1>1, <1>9 DEF PeerInv, Typed, Places, SessionTables
  <2>2. QED
    BY <1>1, <1>4, <2>1, SessionsKept, Zenon DEF PeerInv
<1>14. LinkInv'
  BY <1>1, <1>8, LinksKept, Zenon DEF PeerInv
<1>15. FlowInv'
  <2> HIDE DEF id
  <2> SUFFICES ASSUME NEW q \in Peers, phase'[q] = "flow"
               PROVE  /\ flow'[q].link \in DOMAIN links'
                      /\ links'[flow'[q].link].role = "sender"
                      /\ links'[flow'[q].link].credit = flow'[q].left
                      /\ \E k \in DOMAIN linkIDs'[q] : linkIDs'[q][k] = flow'[q].link
    BY Zenon DEF FlowInv, FlowAgrees, FlowKnown
  <2>1. CASE q = p
    <3>1. id \in DOMAIN links /\ flow'[p] = [link |-> id, left |-> credit]
      BY <1>1, <1>5, <2>1, Zenon DEF PeerInv, Typed, Places
    <3>2. flow'[p].link = id /\ flow'[p].left = credit
      BY <3>1
    <3>3. QED
      BY <1>1, <1>6, <1>7, <2>1, <3>1, <3>2, Zenon
  <2>2. CASE q # p
    <3>1. phase[q] = "flow" /\ flow'[q] = flow[q]
      BY <1>9, <2>2, Zenon
    <3>2. /\ flow[q].link \in DOMAIN links
          /\ links[flow[q].link].role = "sender"
          /\ links[flow[q].link].credit = flow[q].left
          /\ \E k \in DOMAIN linkIDs[q] : linkIDs[q][k] = flow[q].link
      BY <3>1, Zenon DEF PeerInv, FlowInv, FlowAgrees, FlowKnown
    <3>3. id \in DOMAIN links => flow[q].link # id
      BY <1>6, <2>2, <3>1, OthersFlow, Zenon
    <3>4. links'[flow[q].link] = links[flow[q].link]
      BY <1>7, <3>2, <3>3, Zenon
    <3>5. QED
      BY <1>1, <1>7, <3>1, <3>2, <3>4, Zenon
  <2>3. QED
    BY <2>1, <2>2, Zenon
<1>16. QED
  BY <1>11, <1>12, <1>13, <1>14, <1>15, Zenon DEF PeerInv

\* A table is one for a larger set of keys.
LEMMA TableGrows ==
  ASSUME NEW S, NEW R, S \subseteq R, NEW f \in Table(S)
  PROVE  f \in Table(R)
  BY Zenon DEF Table

\* One round of the loop of onFlow.
LEMMA FlowDeliverStep ==
  ASSUME PeerInv, NEW p \in Peers, FlowDeliver(p)
  PROVE  PeerInv'
<1> DEFINE l == flow[p].link
<1>1. /\ phase[p] = "flow" /\ flow[p].left > 0
      /\ deliverySeq < MaxDeliveries /\ deliverySeq' = deliverySeq + 1
      /\ UNCHANGED <<state, mapped, connections, sessions, channels, handles, sessionIDs,
                     linkIDs, lastId, panicked, ended>>
  BY Zenon DEF FlowDeliver, At
<1>2. /\ l \in DOMAIN links /\ l \in Nat
      /\ links[l].role = "sender" /\ links[l].credit = flow[p].left
      /\ \E k \in DOMAIN linkIDs[p] : linkIDs[p][k] = l
  BY <1>1, Zenon DEF PeerInv, Typed, Places, FlowInv, FlowAgrees, FlowKnown
<1>3. flow[p] \in [link : Nat, left : Nat] /\ flow[p].left \in Nat /\ flow[p].left - 1 \in Nat
  BY <1>1 DEF PeerInv, Typed, Places
<1>4. /\ links' = links \/ links' = [links EXCEPT ![l].credit = links[l].credit - 1]
      /\ \/ /\ links' = [links EXCEPT ![l].credit = links[l].credit - 1]
            /\ flow' = [flow EXCEPT ![p].left = flow[p].left - 1]
            /\ unsettled' = [unsettled EXCEPT ![p] = Put(unsettled[p], deliverySeq + 1, l)]
            /\ phase' = phase
         \/ /\ flow' = [flow EXCEPT ![p] = NoFlow]
            /\ phase' = [phase EXCEPT ![p] = "leaving"]
            /\ unsettled' = unsettled
  BY Zenon DEF FlowDeliver, Consume, Fail, Goto
<1>5. /\ (links \in [DOMAIN links -> Link])'
      /\ DOMAIN links' = DOMAIN links
      /\ \A k \in DOMAIN links :
           links'[k].session = links[k].session /\ links'[k].handle = links[k].handle
      /\ links'[l].role = "sender"
      /\ \A k \in DOMAIN links : k # l => links'[k] = links[k]
      /\ phase'[p] = "flow" => links'[l].credit = flow[p].left - 1
  <2>1. Registered
    BY Zenon DEF PeerInv, Typed
  <2> HIDE DEF l
  <2>2. CASE links' = [links EXCEPT ![l].credit = links[l].credit - 1]
    <3>1. links' = [links EXCEPT ![l].credit = flow[p].left - 1]
      BY <1>2, <2>2, Zenon
    <3>2. QED
      BY <1>2, <1>3, <2>1, <3>1, CreditSet, Zenon
  <2>3. CASE links' = links /\ phase' = [phase EXCEPT ![p] = "leaving"]
    <3>1. phase'[p] # "flow"
      BY <2>3, Zenon DEF PeerInv, Typed, Places
    <3>2. QED
      BY <1>2, <2>1, <2>3, <3>1, Zenon DEF Registered
  <2>4. QED
    BY <1>4, <2>2, <2>3, Zenon
<1>6. SamePeers /\ SameLinks
  BY <1>1, <1>5, Zenon DEF SamePeers, SameLinks
<1>7. \A q \in Peers \ {p} : phase'[q] = phase[q] /\ flow'[q] = flow[q]
  BY <1>4, Zenon DEF PeerInv, Typed, Places
<1>8. Typed'
  <2>1. Registered'
    BY <1>1, <1>5, Zenon DEF PeerInv, Typed, Registered
  <2>2. Places'
    <3>1. [flow[p] EXCEPT !.left = flow[p].left - 1] \in [link : Nat, left : Nat]
      BY <1>3, Zenon
    <3>2. flow' \in [Peers -> [link : Nat, left : Nat]]
      BY <1>4, <3>1 DEF PeerInv, Typed, Places, NoFlow
    <3>3. phase' \in [Peers -> {"away", "handshake", "serving", "flow", "leaving"}]
      BY <1>4, Zenon DEF PeerInv, Typed, Places
    <3>4. QED
      BY <1>1, <3>2, <3>3, Zenon DEF PeerInv, Typed, Places
  <2>3. Counters'
    <3>1. deliverySeq \in Nat /\ deliverySeq' \in 0 .. MaxDeliveries
      BY <1>1, PeerConstants DEF PeerInv, Typed, Counters
    <3>2. 1 .. deliverySeq \subseteq 1 .. deliverySeq' /\ deliverySeq + 1 \in 1 .. deliverySeq'
      BY <1>1, <3>1
    <3>3. \A q \in Peers : unsettled[q] \in Table(1 .. deliverySeq')
      BY <3>2, TableGrows, Zenon DEF PeerInv, Typed, Counters
    <3>4. Put(unsettled[p], deliverySeq + 1, l) \in Table(1 .. deliverySeq')
      BY <1>2, <3>2, <3>3, PutTable, Zenon
    <3>5. unsettled' \in [Peers -> Table(1 .. deliverySeq')]
      <4>1. unsettled = [q \in Peers |-> unsettled[q]]
        BY Zenon DEF PeerInv, Typed, Counters
      <4> HIDE DEF l
      <4>2. QED
        BY <1>4, <3>3, <3>4, <4>1, Zenon
    <3>6. QED
      BY <1>1, <3>1, <3>5, Zenon DEF PeerInv, Typed, Counters
  <2>4. Known' /\ (panicked \in BOOLEAN)'
    BY <1>1, Zenon DEF PeerInv, Typed, Known
  <2>5. QED
    BY <2>1, <2>2, <2>3, <2>4, Zenon DEF Typed
<1>9. Slots'
  BY <1>1, <1>4, SlotsKept, Zenon DEF PeerInv
<1>10. SessionTables'
  <2>1. \A q \in connections :
          DOMAIN sessionIDs[q] # {} /\ phase'[q] # "leaving" => state'[q] = "open"
    BY <1>1, <1>4, <1>7 DEF PeerInv, Typed, Places, SessionTables
  <2>2. QED
    BY <1>1, <1>6, <2>1, SessionsKept, ZenonT(40) DEF PeerInv
<1>11. LinkInv'
  BY <1>1, <1>6, LinksKept, Zenon DEF PeerInv
<1>12. FlowInv'
  <2> SUFFICES ASSUME NEW q \in Peers, phase'[q] = "flow"
               PROVE  /\ flow'[q].link \in DOMAIN links'
                      /\ links'[flow'[q].link].role = "sender"
                      /\ links'[flow'[q].link].credit = flow'[q].left
                      /\ \E k \in DOMAIN linkIDs'[q] : linkIDs'[q][k] = flow'[q].link
    BY Zenon DEF FlowInv, FlowAgrees, FlowKnown
  <2>1. CASE q = p
    <3>1. flow' = [flow EXCEPT ![p].left = flow[p].left - 1]
      BY <1>4, <2>1, Zenon DEF PeerInv, Typed, Places
    <3>2. flow'[p].link = l /\ flow'[p].left = flow[p].left - 1
      BY <1>3, <3>1, Zenon DEF PeerInv, Typed, Places
    <3>3. QED
      BY <1>1, <1>2, <1>5, <2>1, <3>2, Zenon
  <2>2. CASE q # p
    <3>1. phase[q] = "flow" /\ flow'[q] = flow[q]
      BY <1>7, <2>2, Zenon
    <3>2. /\ flow[q].link \in DOMAIN links
          /\ links[flow[q].link].role = "sender"
          /\ links[flow[q].link].credit = flow[q].left
          /\ \E k \in DOMAIN linkIDs[q] : linkIDs[q][k] = flow[q].link
      BY <3>1, Zenon DEF PeerInv, FlowInv, FlowAgrees, FlowKnown
    <3>3. flow[q].link # l
      BY <1>2, <2>2, <3>1, OthersFlow, Zenon
    <3>4. links'[flow[q].link] = links[flow[q].link]
      BY <1>5, <3>2, <3>3, Zenon
    <3>5. QED
      BY <1>1, <1>5, <3>1, <3>2, <3>4, Zenon
  <2>3. QED
    BY <2>1, <2>2, Zenon
<1>13. QED
  BY <1>8, <1>9, <1>10, <1>11, <1>12, Zenon DEF PeerInv

-----------------------------------------------------------------------------
(* Connections come and go.                                                *)

\* A connection is accepted while there is a slot.  No session is left of the
\* one the peer had before.
LEMMA AcceptStep ==
  ASSUME PeerInv, NEW p \in Peers, Accept(p)
  PROVE  PeerInv'
<1>1. /\ phase[p] = "away" /\ phase' = [phase EXCEPT ![p] = "handshake"]
      /\ connections' = connections \cup {p}
      /\ state' = [state EXCEPT ![p] = "start"]
      /\ mapped' = [mapped EXCEPT ![p] = Empty]
      /\ sessionIDs' = [sessionIDs EXCEPT ![p] = Empty]
      /\ linkIDs' = [linkIDs EXCEPT ![p] = Empty]
      /\ unsettled' = [unsettled EXCEPT ![p] = Empty]
      /\ UNCHANGED <<sessions, channels, links, handles, flow, lastId, deliverySeq, panicked, ended>>
  BY Zenon DEF Accept, At, Goto
<1>2. p \notin connections /\ \A id \in DOMAIN sessions : sessions[id].peer # p
  <2>1. p \notin connections
    BY <1>1, Zenon DEF PeerInv, Slots
  <2>2. QED
    BY <2>1, Entries, Zenon DEF SessionOf
<1>3. /\ sessionIDs'[p] = Empty /\ mapped'[p] = Empty /\ linkIDs'[p] = Empty
      /\ \A q \in Peers \ {p} :
           /\ sessionIDs'[q] = sessionIDs[q] /\ mapped'[q] = mapped[q] /\ linkIDs'[q] = linkIDs[q]
           /\ phase'[q] = phase[q] /\ state'[q] = state[q]
  BY <1>1, Zenon DEF PeerInv, Typed, Places, Known
<1>4. DOMAIN Empty = {}
  BY EmptyTable, Zenon
<1>5. Typed'
  <2>1. Places'
    BY <1>1, Zenon DEF PeerInv, Typed, Places
  <2>2. Registered' /\ (panicked \in BOOLEAN)'
    BY <1>1, Zenon DEF PeerInv, Typed, Registered
  <2>3. Known'
    BY <1>1, EmptyTable, Zenon DEF PeerInv, Typed, Known
  <2>4. Counters'
    BY <1>1, EmptyTable, Zenon DEF PeerInv, Typed, Counters
  <2>5. QED
    BY <2>1, <2>2, <2>3, <2>4, Zenon DEF Typed
<1>6. Slots'
  BY <1>1, Zenon DEF PeerInv, Slots, Typed, Places
<1>7. SessionTables'
  <2>1. ASSUME NEW q \in connections' PROVE SessionsOf(q)'
    <3>1. CASE q = p
      BY <1>3, <1>4, <3>1, Zenon DEF SessionsOf
    <3>2. CASE q # p
      <4>1. q \in connections /\ q \in Peers \ {p} /\ SessionsOf(q)
        BY <1>1, <2>1, <3>2, Entries, Zenon
      <4>2. /\ sessionIDs'[q] = sessionIDs[q] /\ mapped'[q] = mapped[q]
            /\ phase'[q] = phase[q] /\ state'[q] = state[q] /\ sessions' = sessions
        BY <1>1, <1>3, <4>1, Zenon
      <4>3. QED
        BY <4>1, <4>2, SessionsOfKept, Zenon
    <3>3. QED
      BY <3>1, <3>2, Zenon
  <2>2. ASSUME NEW x \in DOMAIN sessions' PROVE SessionOf(x)'
    <3>1. x \in DOMAIN sessions /\ sessions' = sessions /\ channels' = channels
      BY <1>1, <2>2, Zenon
    <3>2. SessionOf(x) /\ sessions[x].peer \in connections
      BY <3>1, Entries, Zenon DEF SessionOf
    <3>3. /\ sessions[x].peer \in connections'
          /\ sessionIDs'[sessions[x].peer] = sessionIDs[sessions[x].peer]
      BY <1>1, <1>2, <1>3, <3>1, <3>2, Entries, Zenon
    <3>4. QED
      BY ONLY <3>1, <3>2, <3>3, Zenon DEF SessionOf
  <2>3. \A k \in DOMAIN channels' : ChannelOf(k)'
    BY <1>1, Entries, Zenon DEF ChannelOf
  <2>4. QED
    BY <2>1, <2>2, <2>3, SessionTablesNew, Zenon
<1>8. LinkInv'
  <2>1. Drawn' /\ OneHandle'
    <3>1. \A q \in Peers : linkIDs'[q] = linkIDs[q] \/ (q = p /\ DOMAIN linkIDs'[q] = {})
      BY <1>3, <1>4, Zenon
    <3>2. UNCHANGED <<sessions, links, lastId>> /\ Drawn /\ OneHandle
      BY <1>1, Zenon DEF PeerInv, LinkInv
    <3>3. QED
      BY ONLY <3>1, <3>2 DEF Drawn, OneHandle
  <2>2. HandleTables'
    <3>1. \A id \in DOMAIN sessions : linkIDs'[sessions[id].peer] = linkIDs[sessions[id].peer]
      BY <1>2, <1>3, Zenon DEF PeerInv, Typed, Places, SessionTables
    <3>2. UNCHANGED <<sessions, links, handles>>
      BY <1>1, Zenon
    <3>3. ASSUME NEW id \in DOMAIN sessions, NEW h \in DOMAIN sessions[id].links
          PROVE  LinkOf(id, h)'
      <4>1. LinkOf(id, h)
        BY Entries, Zenon
      <4>2. QED
        BY <3>1, <3>2, <4>1, LinkOfKept, Zenon DEF LinkOf
    <3>4. QED
      BY <3>2, <3>3, HandleTablesNew, Zenon
  <2>3. StaleHandles' /\ OfPeer'
    <3>1. \A q \in connections' : q = p \/ (q \in connections /\ linkIDs'[q] = linkIDs[q])
      BY <1>1, <1>3, Zenon DEF PeerInv, Typed, Places
    <3>2. linkIDs'[p] = Empty /\ DOMAIN Empty = {}
      BY <1>3, <1>4, Zenon
    <3>3. StaleHandles'
      BY <1>1, <3>1, <3>2, Zenon DEF PeerInv, LinkInv, StaleHandles
    <3>4. OfPeer'
      <4>1. UNCHANGED <<sessions, links>> /\ OfPeer
        BY <1>1, Zenon DEF PeerInv, LinkInv
      <4>2. QED
        BY ONLY <3>1, <3>2, <4>1 DEF OfPeer
    <3>5. QED
      BY <3>3, <3>4, Zenon
  <2>4. Indexed'
    BY <1>1, Zenon DEF PeerInv, LinkInv, Indexed, HandleKey
  <2>5. QED
    BY <2>1, <2>2, <2>3, <2>4, Zenon DEF LinkInv
<1>9. FlowInv'
  <2>1. \A q \in Peers : phase'[q] = "flow" => Undisturbed(q)
    BY <1>1, <1>3, Zenon DEF PeerInv, Typed, Places, FlowInv, FlowAgrees, Undisturbed
  <2>2. QED
    BY <2>1, FlowKept, Zenon DEF PeerInv
<1>10. QED
  BY <1>5, <1>6, <1>7, <1>8, <1>9, Zenon DEF PeerInv

\* The deferred function of a connection frees its slot and its sessions.  Its
\* links stay.
LEMMA LeaveStep ==
  ASSUME PeerInv, NEW p \in Peers, Leave(p)
  PROVE  PeerInv'
<1>1. /\ phase[p] = "leaving" /\ phase' = [phase EXCEPT ![p] = "away"]
      /\ channels' = Without(channels, {<<p, Rune[sessions[id].channel]>> : id \in Owned(p)})
      /\ sessions' = Without(sessions, Owned(p))
      /\ connections' = connections \ {p}
      /\ state' = [state EXCEPT ![p] = After(state[p], "closed")]
      /\ UNCHANGED <<mapped, links, handles, sessionIDs, linkIDs, unsettled, flow, lastId,
                     deliverySeq, panicked, ended>>
  BY Zenon DEF Leave, At, Goto, Transition, ChannelKey, locals
<1>2. /\ DOMAIN sessions' = {id \in DOMAIN sessions : sessions[id].peer # p}
      /\ \A id \in DOMAIN sessions' : id \in DOMAIN sessions /\ sessions'[id] = sessions[id]
  <2>1. sessions' = Without(sessions, Owned(p))
    BY <1>1, Zenon
  <2>2. QED
    BY ONLY <2>1, Zenon DEF Without, Owned
<1>3. /\ DOMAIN channels' = DOMAIN channels \ {<<p, Rune[sessions[id].channel]>> : id \in Owned(p)}
      /\ \A k \in DOMAIN channels' : channels'[k] = channels[k]
  <2> DEFINE K == {<<p, Rune[sessions[id].channel]>> : id \in Owned(p)}
  <2>1. channels' = Without(channels, K)
    BY <1>1, Zenon
  <2>2. DOMAIN channels' = DOMAIN channels \ K /\ \A k \in DOMAIN channels' : channels'[k] = channels[k]
    <3> HIDE DEF K
    <3>1. QED
      BY ONLY <2>1, Zenon DEF Without
  <2>3. QED
    BY <2>2, Zenon
<1>4. \A q \in Peers \ {p} : phase'[q] = phase[q] /\ state'[q] = state[q]
  BY <1>1, Zenon DEF PeerInv, Typed, Places
<1>5. Typed'
  <2>1. After(state[p], "closed") \in {"start", "header", "open", "closing", "closed"}
    BY Zenon DEF PeerInv, Typed, Places, After
  <2>2. Places'
    BY <1>1, <2>1, Zenon DEF PeerInv, Typed, Places
  <2>3. Registered'
    BY <1>1, WithoutTyped, Zenon DEF PeerInv, Typed, Registered
  <2>4. Known' /\ Counters' /\ (panicked \in BOOLEAN)'
    BY <1>1, Zenon DEF PeerInv, Typed, Known, Counters
  <2>5. QED
    BY <2>2, <2>3, <2>4, Zenon DEF Typed
<1>6. Slots'
  BY <1>1, Zenon DEF PeerInv, Slots, Typed, Places
<1>7. SessionTables'
  <2>1. ASSUME NEW q \in connections' PROVE SessionsOf(q)'
    <3>1. q \in connections /\ q \in Peers \ {p} /\ SessionsOf(q)
      BY <1>1, <2>1, Entries, Zenon
    <3>2. sessionIDs'[q] = sessionIDs[q] /\ mapped'[q] = mapped[q]
      BY <1>1, Zenon
    <3>3. \A x \in DOMAIN sessions :
            sessions[x].peer = q => x \in DOMAIN sessions' /\ sessions'[x] = sessions[x]
      BY <1>2, <3>1, Zenon
    <3>4. QED
      BY <1>4, <3>1, <3>2, <3>3, SessionsOfKept, Zenon
  <2>2. \A id \in DOMAIN sessions' :
          <<sessions[id].peer, Rune[sessions[id].channel]>> \in DOMAIN channels'
    <3>1. \A id \in DOMAIN sessions' : id \in DOMAIN sessions /\ sessions[id].peer # p
      BY <1>2, Zenon
    <3>2. \A id \in DOMAIN sessions :
            <<sessions[id].peer, Rune[sessions[id].channel]>> \in DOMAIN channels
      BY Entries, Zenon DEF SessionOf
    <3>3. QED
      BY ONLY <1>3, <3>1, <3>2, Zenon
  <2>3. ASSUME NEW id \in DOMAIN sessions' PROVE SessionOf(id)'
    <3>1. id \in DOMAIN sessions /\ sessions'[id] = sessions[id] /\ sessions[id].peer # p
      BY <1>2, <2>3, Zenon
    <3>2. SessionOf(id)
      BY <3>1, Entries, Zenon
    <3>3. sessions[id].peer \in connections' /\ sessionIDs' = sessionIDs
      BY <1>1, <3>1, <3>2, Zenon DEF SessionOf
    <3>4. /\ <<sessions[id].peer, Rune[sessions[id].channel]>> \in DOMAIN channels'
          /\ channels'[<<sessions[id].peer, Rune[sessions[id].channel]>>] = id
      BY <1>3, <2>2, <2>3, <3>2, Zenon DEF SessionOf
    <3>5. QED
      BY ONLY <3>1, <3>2, <3>3, <3>4, Zenon DEF SessionOf
  <2>4. ASSUME NEW k \in DOMAIN channels' PROVE ChannelOf(k)'
    <3>1. k \in DOMAIN channels /\ ChannelOf(k)
      BY <1>3, <2>4, Entries, Zenon
    <3>2. PICK id \in DOMAIN sessions : k = <<sessions[id].peer, Rune[sessions[id].channel]>>
      BY <3>1, Zenon DEF ChannelOf
    <3>3. id \notin Owned(p)
      BY <1>3, <3>2, Zenon DEF Owned
    <3>4. id \in DOMAIN sessions' /\ sessions'[id] = sessions[id]
      BY <1>2, <3>3, Zenon DEF Owned
    <3>5. QED
      BY <3>2, <3>4, Zenon DEF ChannelOf
  <2>5. QED
    BY <2>1, <2>3, <2>4, SessionTablesNew, Zenon
<1>8. LinkInv'
  <2>0. /\ UNCHANGED <<links, handles, linkIDs, lastId, panicked, ended>>
        /\ DOMAIN sessions' \subseteq DOMAIN sessions
        /\ \A q \in connections' : q \in connections /\ q # p
        /\ Drawn /\ OneHandle /\ StaleHandles /\ OfPeer
    BY <1>1, <1>2, Zenon DEF PeerInv, LinkInv
  <2>1. Drawn' /\ OneHandle' /\ StaleHandles'
    BY ONLY <2>0 DEF Drawn, OneHandle, StaleHandles
  <2>2. HandleTables'
    <3>1. ASSUME NEW id \in DOMAIN sessions', NEW h \in DOMAIN sessions'[id].links
          PROVE  LinkOf(id, h)'
      <4>1. id \in DOMAIN sessions /\ sessions'[id] = sessions[id] /\ LinkOf(id, h)
        BY <1>2, Entries, Zenon
      <4>2. QED
        BY <2>0, <4>1, LinkOfKept, Zenon DEF LinkOf
    <3>2. QED
      BY <3>1, HandleTablesNew, Zenon
  <2>3. OfPeer'
    BY ONLY <1>2, <2>0 DEF OfPeer
  <2>4. Indexed'
    BY <1>1, Zenon DEF PeerInv, LinkInv, Indexed, HandleKey
  <2>5. QED
    BY <2>1, <2>2, <2>3, <2>4, Zenon DEF LinkInv
<1>9. FlowInv'
  <2>1. \A q \in Peers : phase'[q] = "flow" => Undisturbed(q)
    BY <1>1, Zenon DEF PeerInv, Typed, Places, FlowInv, FlowAgrees, Undisturbed
  <2>2. QED
    BY <2>1, FlowKept, Zenon DEF PeerInv
<1>10. QED
  BY <1>5, <1>6, <1>7, <1>8, <1>9, Zenon DEF PeerInv

-----------------------------------------------------------------------------
(* Sessions come and go.                                                   *)

\* What the tables hold of a session.
LEMMA SessionEntry ==
  ASSUME PeerInv, NEW x \in DOMAIN sessions
  PROVE  /\ sessions[x] \in Session /\ x \in 1 .. lastId
         /\ sessions[x].peer \in connections /\ sessions[x].peer \in Peers
         /\ sessions[x].channel \in DOMAIN sessionIDs[sessions[x].peer]
         /\ sessionIDs[sessions[x].peer][sessions[x].channel] = x
         /\ <<sessions[x].peer, Rune[sessions[x].channel]>> \in DOMAIN channels
         /\ channels[<<sessions[x].peer, Rune[sessions[x].channel]>>] = x
<1>1. sessions[x] \in Session /\ x \in 1 .. lastId
  BY Zenon DEF PeerInv, Typed, Registered, LinkInv, Drawn
<1>2. QED
  BY <1>1, Zenon DEF PeerInv, SessionTables, Session

\* onBegin.  A channel that is free in the registry is free in the connection.
LEMMA OnBeginStep ==
  ASSUME PeerInv, NEW p \in Peers, NEW ch \in Channels, OnBegin(p, ch)
  PROVE  PeerInv'
<1> DEFINE id  == lastId + 1
           key == <<p, Rune[ch]>>
<1>1. /\ phase[p] = "serving" /\ lastId < MaxIds
      /\ UNCHANGED <<state, connections, links, handles, linkIDs, unsettled, flow,
                     deliverySeq, panicked, ended>>
  BY Zenon DEF OnBegin, At
<1>2. CASE state[p] # "open" \/ key \in DOMAIN channels
  <2>1. /\ phase' = [phase EXCEPT ![p] = "leaving"]
        /\ UNCHANGED <<mapped, sessions, channels, sessionIDs, lastId>>
    BY <1>2, Zenon DEF OnBegin, ChannelKey, Fail, Goto
  <2>2. QED
    BY <1>1, <2>1, QuietPhase, Zenon DEF registries
<1>3. CASE state[p] = "open" /\ key \notin DOMAIN channels
  <2>1. p \in connections /\ sessionIDs[p] = mapped[p]
    BY <1>1, Zenon DEF PeerInv, Slots, SessionTables
  <2>2. ch \notin DOMAIN sessionIDs[p]
    <3>1. SUFFICES ASSUME ch \in DOMAIN sessionIDs[p] PROVE FALSE
      BY Zenon
    <3>2. /\ sessionIDs[p][ch] \in DOMAIN sessions
          /\ sessions[sessionIDs[p][ch]].peer = p /\ sessions[sessionIDs[p][ch]].channel = ch
      BY <1>1, <3>1, Served, Zenon
    <3>3. QED
      BY <1>3, <3>2, SessionEntry, Zenon
  <2>3. /\ lastId' = id
        /\ sessions' = Put(sessions, id, NewSession(p, ch))
        /\ channels' = Put(channels, key, id)
        /\ mapped' = [mapped EXCEPT ![p] = Put(mapped[p], ch, id)]
        /\ sessionIDs' = [sessionIDs EXCEPT ![p] = Put(sessionIDs[p], ch, id)]
        /\ phase' = [phase EXCEPT ![p] = "serving"] \/ phase' = [phase EXCEPT ![p] = "leaving"]
    BY <1>3, <2>1, <2>2, Zenon DEF OnBegin, ChannelKey, Addable, Reply, Goto
  <2>4. lastId \in Nat /\ id \in Nat /\ id \in 1 .. lastId' /\ lastId' \in 0 .. MaxIds
        /\ 1 .. lastId \subseteq 1 .. lastId' /\ id \notin 1 .. lastId
    <3>1. lastId \in 0 .. MaxIds /\ MaxIds \in Nat
      BY PeerConstants, Zenon DEF PeerInv, Typed, Counters
    <3>2. lastId' = lastId + 1 /\ lastId < MaxIds
      BY <1>1, <2>3, Zenon
    <3>3. QED
      BY ONLY <3>1, <3>2
  <2> HIDE DEF id, key
  <2>5. /\ DOMAIN sessions' = DOMAIN sessions \cup {id}
        /\ sessions'[id] = NewSession(p, ch)
        /\ \A x \in DOMAIN sessions : x # id /\ sessions'[x] = sessions[x]
    <3>1. sessions' = Put(sessions, id, NewSession(p, ch)) /\ id \notin DOMAIN sessions
      BY <2>3, <2>4, Zenon DEF PeerInv, LinkInv, Drawn
    <3>2. QED
      BY ONLY <3>1, Zenon DEF Put
  <2>6. /\ DOMAIN channels' = DOMAIN channels \cup {key}
        /\ channels'[key] = id
        /\ \A k \in DOMAIN channels : channels'[k] = channels[k]
    <3>1. channels' = Put(channels, key, id) /\ key \notin DOMAIN channels
      BY <1>3, <2>3, Zenon
    <3>2. QED
      BY ONLY <3>1, Zenon DEF Put
  <2>7. /\ sessionIDs'[p] = mapped'[p]
        /\ DOMAIN sessionIDs'[p] = DOMAIN sessionIDs[p] \cup {ch}
        /\ sessionIDs'[p][ch] = id
        /\ \A c \in DOMAIN sessionIDs[p] : sessionIDs'[p][c] = sessionIDs[p][c]
    <3>1. sessionIDs'[p] = Put(sessionIDs[p], ch, id) /\ mapped'[p] = Put(sessionIDs[p], ch, id)
      BY <2>1, <2>3, Zenon DEF PeerInv, Typed, Known
    <3>2. QED
      BY ONLY <2>2, <3>1, Zenon DEF Put
  <2>8. \A q \in Peers \ {p} :
          sessionIDs'[q] = sessionIDs[q] /\ mapped'[q] = mapped[q] /\ phase'[q] = phase[q]
    BY <2>3, Zenon DEF PeerInv, Typed, Known, Places
  <2>9. /\ NewSession(p, ch) \in Session
        /\ sessions'[id].peer = p /\ sessions'[id].channel = ch /\ sessions'[id].links = Empty
    BY <2>5, EmptyTable, PeerConstants DEF NewSession, Session
  <2>10. Typed'
    <3>1. Places'
      BY <1>1, <2>3, Zenon DEF PeerInv, Typed, Places
    <3>2. sessions' \in [DOMAIN sessions' -> Session]
      BY <2>3, <2>9, PutTyped, Zenon DEF PeerInv, Typed, Registered
    <3>3. Registered' /\ (panicked \in BOOLEAN)'
      BY <1>1, <3>2, Zenon DEF PeerInv, Typed, Registered
    <3>4. Known'
      <4>1. Put(sessionIDs[p], ch, id) \in Table(Channels) /\ Put(mapped[p], ch, id) \in Table(Channels)
        BY <2>4, PutTable, Zenon DEF PeerInv, Typed, Known
      <4>2. QED
        BY <1>1, <2>3, <4>1, Zenon DEF PeerInv, Typed, Known
    <3>5. Counters'
      BY <1>1, <2>4, Zenon DEF PeerInv, Typed, Counters
    <3>6. QED
      BY <3>1, <3>3, <3>4, <3>5, Zenon DEF Typed
  <2>11. Slots'
    BY <1>1, <2>3, SlotsKept, Zenon DEF PeerInv
  <2>12. SessionTables'
    <3>1. ASSUME NEW q \in connections' PROVE SessionsOf(q)'
      <4>1. q \in connections /\ q \in Peers /\ SessionsOf(q)
        BY <1>1, <3>1, Entries, Zenon
      <4>2. CASE q = p
        <5>1. state'[p] = "open"
          BY <1>1, <1>3, Zenon
        <5>2. SessionsOf(p)
          BY <4>1, <4>2, Zenon
        <5>3. \A c \in DOMAIN sessionIDs'[p] :
                /\ sessionIDs'[p][c] \in DOMAIN sessions'
                /\ sessions'[sessionIDs'[p][c]].peer = p
                /\ sessions'[sessionIDs'[p][c]].channel = c
          <6>1. TAKE c \in DOMAIN sessionIDs'[p]
          <6>2. CASE c = ch
            BY <2>5, <2>7, <2>9, <6>2, Zenon
          <6>3. CASE c # ch
            <7>1. c \in DOMAIN sessionIDs[p] /\ sessionIDs'[p][c] = sessionIDs[p][c]
              BY <2>7, <6>1, <6>3, Zenon
            <7>2. /\ sessionIDs[p][c] \in DOMAIN sessions
                  /\ sessions[sessionIDs[p][c]].peer = p
                  /\ sessions[sessionIDs[p][c]].channel = c
              BY <5>2, <7>1, Zenon DEF SessionsOf
            <7>3. /\ sessions'[sessionIDs[p][c]] = sessions[sessionIDs[p][c]]
                  /\ sessionIDs[p][c] \in DOMAIN sessions'
              BY <2>5, <7>2, Zenon
            <7>4. QED
              BY <7>1, <7>2, <7>3, Zenon
          <6>4. QED
            BY <6>2, <6>3, Zenon
        <5>4. QED
          BY <2>7, <4>2, <5>1, <5>3, Zenon DEF SessionsOf
      <4>3. CASE q # p
        BY <1>1, <2>5, <2>8, <4>1, <4>3, SessionsOfKept, Zenon
      <4>4. QED
        BY <4>2, <4>3, Zenon
    <3>2. ASSUME NEW x \in DOMAIN sessions' PROVE SessionOf(x)'
      <4>1. CASE x = id
        BY <1>1, <2>1, <2>6, <2>7, <2>9, <4>1, Zenon DEF key, SessionOf
      <4>2. CASE x # id
        <5>1. x \in DOMAIN sessions /\ sessions'[x] = sessions[x]
          BY <2>5, <3>2, <4>2, Zenon
        <5>2. SessionOf(x) /\ sessions[x].peer \in Peers
          BY <5>1, SessionEntry, Zenon DEF SessionOf
        <5>3. /\ sessions[x].channel \in DOMAIN sessionIDs'[sessions[x].peer]
              /\ sessionIDs'[sessions[x].peer][sessions[x].channel] = x
          BY <2>7, <2>8, <5>2, Zenon DEF SessionOf
        <5>4. sessions[x].peer \in connections'
          BY <1>1, <5>2, Zenon DEF SessionOf
        <5>5. QED
          BY ONLY <2>6, <5>1, <5>2, <5>3, <5>4, Zenon DEF SessionOf
      <4>3. QED
        BY <4>1, <4>2, Zenon
    <3>3. ASSUME NEW k \in DOMAIN channels' PROVE ChannelOf(k)'
      <4>1. CASE k = key
        BY <2>5, <2>9, <4>1, Zenon DEF key, ChannelOf
      <4>2. CASE k \in DOMAIN channels
        <5>1. PICK x \in DOMAIN sessions : k = <<sessions[x].peer, Rune[sessions[x].channel]>>
          BY <4>2, Entries, Zenon DEF ChannelOf
        <5>2. QED
          BY <2>5, <5>1, Zenon DEF ChannelOf
      <4>3. QED
        BY <2>6, <3>3, <4>1, <4>2, Zenon
    <3>4. QED
      BY <3>1, <3>2, <3>3, SessionTablesNew, Zenon
  <2>13. LinkInv'
    <3>1. Drawn'
      BY <1>1, <2>4, <2>5, Zenon DEF PeerInv, LinkInv, Drawn
    <3>2. HandleTables'
      <4>1. UNCHANGED <<links, handles, linkIDs>>
        BY <1>1, Zenon
      <4>2. DOMAIN sessions'[id].links = {}
        BY <2>9, EmptyTable, Zenon
      <4>3. ASSUME NEW x \in DOMAIN sessions', NEW h \in DOMAIN sessions'[x].links
            PROVE  LinkOf(x, h)'
        <5>1. x \in DOMAIN sessions /\ sessions'[x] = sessions[x] /\ LinkOf(x, h)
          BY <2>5, <4>2, <4>3, Entries, Zenon
        <5>2. QED
          BY <4>1, <5>1, LinkOfKept, Zenon DEF LinkOf
      <4>4. QED
        BY <4>3, HandleTablesNew, Zenon
    <3>0. UNCHANGED <<connections, links, handles, linkIDs, panicked, ended>>
          /\ StaleHandles /\ OneHandle /\ Indexed /\ OfPeer
      BY <1>1, Zenon DEF PeerInv, LinkInv
    <3>3. StaleHandles' /\ OneHandle'
      BY ONLY <3>0 DEF StaleHandles, OneHandle
    <3>4. Indexed'
      BY ONLY <3>0, Zenon DEF Indexed, HandleKey
    <3>5. OfPeer'
      BY ONLY <2>5, <3>0 DEF OfPeer
    <3>6. QED
      BY <3>1, <3>2, <3>3, <3>4, <3>5, Zenon DEF LinkInv
  <2>14. FlowInv'
    <3>1. \A q \in Peers : phase'[q] = "flow" => Undisturbed(q)
      BY <1>1, <2>3, Zenon DEF PeerInv, Typed, Places, FlowInv, FlowAgrees, Undisturbed
    <3>2. QED
      BY <3>1, FlowKept, Zenon DEF PeerInv
  <2>15. QED
    BY <2>10, <2>11, <2>12, <2>13, <2>14, Zenon DEF PeerInv
<1>4. QED
  BY <1>2, <1>3, Zenon

\* onEnd.  The links of the session go with it; no other session, and no link on
\* which another peer is sent messages, is of this one.
LEMMA OnEndStep ==
  ASSUME PeerInv, NEW p \in Peers, NEW ch \in Channels, OnEnd(p, ch)
  PROVE  PeerInv'
<1> DEFINE id   == sessionIDs[p][ch]
           key  == <<p, Rune[ch]>>
           keys == {HandleKey(id, links[l].handle) : l \in OfSession(id)}
<1>1. /\ phase[p] = "serving" /\ ch \in DOMAIN sessionIDs[p]
      /\ handles' = Without(handles, keys)
      /\ links' = Without(links, OfSession(id))
      /\ sessions' = Without(sessions, {id})
      /\ channels' = Without(channels, {key})
      /\ ended' = ended \cup OfSession(id)
      /\ mapped' = [mapped EXCEPT ![p] = Without(mapped[p], {ch})]
      /\ sessionIDs' = [sessionIDs EXCEPT ![p] = Without(sessionIDs[p], {ch})]
      /\ phase' = [phase EXCEPT ![p] = "serving"] \/ phase' = [phase EXCEPT ![p] = "leaving"]
      /\ UNCHANGED <<state, connections, linkIDs, unsettled, flow, lastId, deliverySeq, panicked>>
  BY Zenon DEF OnEnd, At, ChannelKey, Reply, Goto
<1>2. /\ p \in connections /\ id \in DOMAIN sessions
      /\ sessions[id].peer = p /\ sessions[id].channel = ch
  BY <1>1, Served, Zenon
<1>3. sessionIDs[p] = mapped[p] /\ state[p] = "open"
  BY <1>1, <1>2, Zenon DEF PeerInv, SessionTables
<1>4. key \in DOMAIN channels /\ channels[key] = id
  BY <1>2, SessionEntry, Zenon
<1>5. \A k \in keys : k[1] = id
  BY DEF HandleKey
<1> HIDE DEF id, key, keys
<1>6. /\ DOMAIN sessions' = DOMAIN sessions \ {id}
      /\ \A x \in DOMAIN sessions' : sessions'[x] = sessions[x]
  BY ONLY <1>1, Zenon DEF Without
<1>7. /\ DOMAIN channels' = DOMAIN channels \ {key}
      /\ \A k \in DOMAIN channels' : channels'[k] = channels[k]
  BY ONLY <1>1, Zenon DEF Without
<1>8. /\ DOMAIN links' = {l \in DOMAIN links : links[l].session # id}
      /\ \A l \in DOMAIN links' : links'[l] = links[l]
  BY ONLY <1>1, Zenon DEF Without, OfSession
<1>9. /\ DOMAIN handles' = DOMAIN handles \ keys
      /\ \A k \in DOMAIN handles' : handles'[k] = handles[k]
  BY ONLY <1>1, Zenon DEF Without
<1>10. /\ sessionIDs'[p] = mapped'[p]
       /\ DOMAIN sessionIDs'[p] = DOMAIN sessionIDs[p] \ {ch}
       /\ \A c \in DOMAIN sessionIDs'[p] : sessionIDs'[p][c] = sessionIDs[p][c]
  <2>1. /\ sessionIDs'[p] = Without(sessionIDs[p], {ch})
        /\ mapped'[p] = Without(sessionIDs[p], {ch})
    BY <1>1, <1>3, Zenon DEF PeerInv, Typed, Known
  <2>2. QED
    BY ONLY <2>1, Zenon DEF Without
<1>11. \A q \in Peers \ {p} :
         sessionIDs'[q] = sessionIDs[q] /\ mapped'[q] = mapped[q] /\ phase'[q] = phase[q]
  BY <1>1, Zenon DEF PeerInv, Typed, Known, Places
<1>12. Typed'
  <2>1. Places'
    BY <1>1, Zenon DEF PeerInv, Typed, Places
  <2>2. Registered' /\ (panicked \in BOOLEAN)'
    BY <1>1, WithoutTyped, Zenon DEF PeerInv, Typed, Registered
  <2>3. Known'
    <3>1. /\ Without(sessionIDs[p], {ch}) \in Table(Channels)
          /\ Without(mapped[p], {ch}) \in Table(Channels)
      BY WithoutTable, Zenon DEF PeerInv, Typed, Known
    <3>2. QED
      BY <1>1, <3>1, Zenon DEF PeerInv, Typed, Known
  <2>4. Counters'
    BY <1>1, Zenon DEF PeerInv, Typed, Counters
  <2>5. QED
    BY <2>1, <2>2, <2>3, <2>4, Zenon DEF Typed
<1>13. Slots'
  BY <1>1, SlotsKept, Zenon DEF PeerInv
<1>14. SessionTables'
  <2>1. ASSUME NEW q \in connections' PROVE SessionsOf(q)'
    <3>1. q \in connections /\ q \in Peers /\ SessionsOf(q)
      BY <1>1, <2>1, Entries, Zenon
    <3>2. CASE q = p
      <4>1. SessionsOf(p) /\ state'[p] = "open"
        BY <1>1, <1>3, <3>1, <3>2, Zenon
      <4>2. \A c \in DOMAIN sessionIDs'[p] :
              /\ sessionIDs'[p][c] \in DOMAIN sessions'
              /\ sessions'[sessionIDs'[p][c]].peer = p
              /\ sessions'[sessionIDs'[p][c]].channel = c
        BY ONLY <1>2, <1>6, <1>10, <4>1 DEF SessionsOf
      <4>3. QED
        BY <1>10, <3>2, <4>1, <4>2, Zenon DEF SessionsOf
    <3>3. CASE q # p
      <4>1. \A x \in DOMAIN sessions :
              sessions[x].peer = q => x \in DOMAIN sessions' /\ sessions'[x] = sessions[x]
        BY <1>2, <1>6, <3>3, Zenon
      <4>2. QED
        BY <1>1, <1>11, <3>1, <3>3, <4>1, SessionsOfKept, Zenon
    <3>4. QED
      BY <3>2, <3>3, Zenon
  <2>2. \A x \in DOMAIN sessions : x # id =>
          <<sessions[x].peer, Rune[sessions[x].channel]>> # key
    BY <1>4, SessionEntry, Zenon
  <2>3. ASSUME NEW x \in DOMAIN sessions' PROVE SessionOf(x)'
    <3>1. x \in DOMAIN sessions /\ x # id /\ sessions'[x] = sessions[x]
      BY <1>6, Zenon
    <3>2. /\ sessions[x].peer \in connections /\ sessions[x].peer \in Peers
          /\ sessions[x].channel \in DOMAIN sessionIDs[sessions[x].peer]
          /\ sessionIDs[sessions[x].peer][sessions[x].channel] = x
          /\ <<sessions[x].peer, Rune[sessions[x].channel]>> \in DOMAIN channels
          /\ channels[<<sessions[x].peer, Rune[sessions[x].channel]>>] = x
      BY <3>1, SessionEntry, Zenon
    <3>3. sessions[x].peer = p => sessions[x].channel # ch
      BY <3>1, <3>2, Zenon DEF id
    <3>4. /\ sessions[x].channel \in DOMAIN sessionIDs'[sessions[x].peer]
          /\ sessionIDs'[sessions[x].peer][sessions[x].channel] = x
      <4>1. CASE sessions[x].peer = p
        BY <1>10, <3>2, <3>3, <4>1, Zenon
      <4>2. CASE sessions[x].peer # p
        BY <1>11, <3>2, <4>2, Zenon
      <4>3. QED
        BY <4>1, <4>2, Zenon
    <3>5. connections' = connections
      BY <1>1, Zenon
    <3>6. QED
      BY <1>7, <2>2, <3>1, <3>2, <3>4, <3>5, Zenon DEF SessionOf
  <2>4. ASSUME NEW k \in DOMAIN channels' PROVE ChannelOf(k)'
    <3>1. k \in DOMAIN channels /\ k # key
      BY <1>7, <2>4, Zenon
    <3>2. PICK x \in DOMAIN sessions : k = <<sessions[x].peer, Rune[sessions[x].channel]>>
      BY <3>1, Entries, Zenon DEF ChannelOf
    <3>3. x # id
      BY <1>2, <3>1, <3>2, Zenon DEF key
    <3>4. QED
      BY <1>6, <3>2, <3>3, Zenon DEF ChannelOf
  <2>5. QED
    BY <2>1, <2>3, <2>4, SessionTablesNew, Zenon
<1>15. LinkInv'
  <2>1. Drawn'
    BY <1>1, <1>6, <1>8, Zenon DEF PeerInv, LinkInv, Drawn
  <2>2. HandleTables'
    <3>1. ASSUME NEW x \in DOMAIN sessions', NEW h \in DOMAIN sessions'[x].links
          PROVE  LinkOf(x, h)'
      <4>1. x \in DOMAIN sessions /\ x # id /\ sessions'[x] = sessions[x] /\ LinkOf(x, h)
        BY <1>6, <3>1, Entries, Zenon
      <4>2. <<x, Rune[h]>> \notin keys
        BY <1>5, <4>1, Zenon
      <4>3. /\ sessions[x].links[h] \in DOMAIN links'
            /\ links'[sessions[x].links[h]] = links[sessions[x].links[h]]
        BY <1>8, <4>1, Zenon DEF LinkOf
      <4>4. <<x, Rune[h]>> \in DOMAIN handles' /\ handles'[<<x, Rune[h]>>] = handles[<<x, Rune[h]>>]
        BY <1>9, <4>1, <4>2, Zenon DEF LinkOf
      <4>5. linkIDs' = linkIDs
        BY <1>1, Zenon
      <4>6. QED
        BY <4>1, <4>3, <4>4, <4>5, LinkOfKept, Zenon
    <3>2. QED
      BY <3>1, HandleTablesNew, Zenon
  <2>3. StaleHandles'
    <3>1. DOMAIN links \cup ended \subseteq DOMAIN links' \cup ended'
      BY <1>1, <1>8, Zenon DEF OfSession
    <3>2. ended \subseteq ended' /\ UNCHANGED <<linkIDs, panicked, connections>> /\ StaleHandles
      BY <1>1, Zenon DEF PeerInv, LinkInv
    <3>3. QED
      BY ONLY <3>1, <3>2, Zenon DEF StaleHandles
  <2>4. Indexed'
    <3> SUFFICES ASSUME NEW l \in DOMAIN links'
                 PROVE  /\ HandleKey(links'[l].session, links'[l].handle) \in DOMAIN handles'
                        /\ handles'[HandleKey(links'[l].session, links'[l].handle)] = l
      BY Zenon DEF Indexed, HandleKey
    <3>1. l \in DOMAIN links /\ links[l].session # id /\ links'[l] = links[l]
      BY <1>8, Zenon
    <3>2. HandleKey(links[l].session, links[l].handle) \notin keys
      BY <1>5, <3>1, Zenon DEF HandleKey
    <3>3. QED
      BY <1>9, <3>1, <3>2, Zenon DEF PeerInv, LinkInv, Indexed
  <2>5. OneHandle'
    <3>1. linkIDs' = linkIDs /\ OneHandle
      BY <1>1, ZenonT(40) DEF PeerInv, LinkInv
    <3>2. QED
      BY ONLY <3>1 DEF OneHandle
  <2>6. OfPeer'
    <3>1. UNCHANGED <<connections, linkIDs>> /\ OfPeer
      BY <1>1, Zenon DEF PeerInv, LinkInv
    <3>2. QED
      BY ONLY <1>6, <1>8, <3>1 DEF OfPeer
  <2>7. QED
    BY <2>1, <2>2, <2>3, <2>4, <2>5, <2>6, Zenon DEF LinkInv
<1>16. FlowInv'
  <2>1. ASSUME NEW q \in Peers, phase'[q] = "flow"
        PROVE  Undisturbed(q)
    <3>1. q # p /\ phase[q] = "flow"
      BY <1>1, <1>11, <2>1, Zenon DEF PeerInv, Typed, Places
    <3>2. q \in connections
      BY <3>1, Zenon DEF PeerInv, Slots
    <3>3. /\ flow[q].link \in DOMAIN links
          /\ sessions[links[flow[q].link].session].peer = q
      BY <3>1, <3>2 DEF PeerInv, LinkInv, OfPeer, FlowInv, FlowAgrees, FlowKnown
    <3>4. links[flow[q].link].session # id
      BY <1>2, <3>1, <3>3, Zenon
    <3>5. QED
      BY <1>1, <1>8, <3>1, <3>3, <3>4, Zenon DEF Undisturbed
  <2>2. QED
    BY <2>1, FlowKept, Zenon DEF PeerInv
<1>17. QED
  BY <1>12, <1>13, <1>14, <1>15, <1>16, Zenon DEF PeerInv

-----------------------------------------------------------------------------
(* Links come and go.                                                      *)

\* The links of a session are changed.
LEMMA LinksSet ==
  ASSUME Registered, NEW s \in DOMAIN sessions, NEW t \in Table(Handles),
         sessions' = [sessions EXCEPT ![s].links = t]
  PROVE  /\ (sessions \in [DOMAIN sessions -> Session])'
         /\ SamePeers
         /\ sessions'[s].links = t
         /\ \A x \in DOMAIN sessions : x # s => sessions'[x] = sessions[x]
<1>1. \A x \in DOMAIN sessions : sessions[x] \in Session
  BY Zenon DEF Registered
<1>2. [sessions[s] EXCEPT !.links = t] \in Session
  BY <1>1, Zenon DEF Session
<1>3. /\ DOMAIN sessions' = DOMAIN sessions
      /\ sessions'[s] = [sessions[s] EXCEPT !.links = t]
      /\ \A x \in DOMAIN sessions : x # s => sessions'[x] = sessions[x]
  BY Zenon
<1>4. sessions' = [x \in DOMAIN sessions' |-> sessions'[x]]
  BY Zenon
<1>5. \A x \in DOMAIN sessions' : sessions'[x] \in Session
  BY <1>1, <1>2, <1>3, Zenon
<1>6. sessions' \in [DOMAIN sessions' -> Session]
  BY ONLY <1>4, <1>5, Zenon
<1>7. /\ sessions'[s].peer = sessions[s].peer
      /\ sessions'[s].channel = sessions[s].channel
      /\ sessions'[s].links = t
  BY <1>1, <1>3 DEF Session
<1>8. QED
  BY <1>3, <1>6, <1>7, Zenon DEF SamePeers

\* A handle of a session that is not this handle of this channel is another key of
\* the peer's table.
LEMMA OtherKey ==
  ASSUME PeerInv, NEW p \in Peers, NEW ch \in DOMAIN sessionIDs[p], NEW h,
         NEW x \in DOMAIN sessions, NEW g, x # sessionIDs[p][ch] \/ g # h,
         sessions[x].peer = p
  PROVE  <<sessions[x].channel, g>> # <<ch, h>>
  BY SessionEntry, Zenon

\* A new link is registered under a free key, whether or not the session attaches
\* it.
Registers(s, h, role, id) ==
  /\ id = lastId + 1 /\ lastId' = id
  /\ <<s, Rune[h]>> \notin DOMAIN handles
  /\ handles' = Put(handles, <<s, Rune[h]>>, id)
  /\ links' = Put(links, id, NewLink(s, h, role))

Grown(s, h, id) ==
  /\ lastId \in Nat /\ id \in Nat /\ id \in 1 .. lastId'
  /\ 1 .. lastId \subseteq 1 .. lastId' /\ id \notin 1 .. lastId
  /\ DOMAIN links' = DOMAIN links \cup {id} /\ id \notin DOMAIN links
  /\ links'[id].session = s /\ links'[id].handle = h
  /\ \A l \in DOMAIN links : links'[l] = links[l]
  /\ DOMAIN handles' = DOMAIN handles \cup {<<s, Rune[h]>>}
  /\ handles'[<<s, Rune[h]>>] = id
  /\ \A k \in DOMAIN handles : handles'[k] = handles[k]

\* The registry of links then has one link and one key more, and its index agrees.
LEMMA LinkAdded ==
  ASSUME PeerInv, NEW s, NEW h, NEW role, NEW id, Registers(s, h, role, id)
  PROVE  Grown(s, h, id) /\ Indexed'
<1> USE DEF Registers
<1>1. /\ lastId \in Nat /\ id \in Nat /\ id \in 1 .. lastId'
      /\ 1 .. lastId \subseteq 1 .. lastId' /\ id \notin 1 .. lastId
  <2>1. lastId \in Nat
    <3>1. lastId \in 0 .. MaxIds
      BY Zenon DEF PeerInv, Typed, Counters
    <3>2. QED
      BY ONLY <3>1, PeerConstants
  <2>2. id = lastId + 1 /\ lastId' = id
    BY Zenon
  <2>3. QED
    BY ONLY <2>1, <2>2
<1>2. id \notin DOMAIN links
  BY <1>1, Zenon DEF PeerInv, LinkInv, Drawn
<1>3. /\ DOMAIN links' = DOMAIN links \cup {id}
      /\ links'[id] = NewLink(s, h, role)
      /\ \A l \in DOMAIN links : links'[l] = links[l]
  BY <1>2, Zenon DEF Put
<1>4. links'[id].session = s /\ links'[id].handle = h
  BY <1>3 DEF NewLink
<1>5. /\ DOMAIN handles' = DOMAIN handles \cup {<<s, Rune[h]>>}
      /\ handles'[<<s, Rune[h]>>] = id
      /\ \A k \in DOMAIN handles : handles'[k] = handles[k]
  BY Zenon DEF Put
<1>6. Indexed'
  <2> SUFFICES ASSUME NEW l \in DOMAIN links'
               PROVE  /\ HandleKey(links'[l].session, links'[l].handle) \in DOMAIN handles'
                      /\ handles'[HandleKey(links'[l].session, links'[l].handle)] = l
    BY Zenon DEF Indexed, HandleKey
  <2>1. CASE l = id
    BY <1>4, <1>5, <2>1, Zenon DEF HandleKey
  <2>2. CASE l # id
    <3>1. l \in DOMAIN links /\ links'[l] = links[l]
      BY <1>3, <2>2, Zenon
    <3>2. /\ HandleKey(links[l].session, links[l].handle) \in DOMAIN handles
          /\ handles[HandleKey(links[l].session, links[l].handle)] = l
      BY <3>1, Zenon DEF PeerInv, LinkInv, Indexed
    <3>3. QED
      BY <1>5, <3>1, <3>2, Zenon
  <2>3. QED
    BY <2>1, <2>2, Zenon
<1>7. QED
  BY <1>1, <1>2, <1>3, <1>4, <1>5, <1>6, Zenon DEF Grown

\* A peer that is being served stays open, or leaves.
LEMMA StillOpen ==
  ASSUME PeerInv, NEW p \in Peers, phase[p] = "serving", UNCHANGED state,
         phase' = [phase EXCEPT ![p] = "serving"] \/ phase' = [phase EXCEPT ![p] = "leaving"]
  PROVE  \A q \in connections :
           DOMAIN sessionIDs[q] # {} /\ phase'[q] # "leaving" => state'[q] = "open"
<1>1. phase \in [Peers -> {"away", "handshake", "serving", "flow", "leaving"}] /\ connections \subseteq Peers
  BY Zenon DEF PeerInv, Typed, Places
<1>2. \A q \in Peers : phase'[q] # "leaving" => phase[q] # "leaving"
  BY ONLY <1>1, phase[p] = "serving",
     phase' = [phase EXCEPT ![p] = "serving"] \/ phase' = [phase EXCEPT ![p] = "leaving"], Zenon
<1>3. \A q \in connections :
        DOMAIN sessionIDs[q] # {} /\ phase[q] # "leaving" => state[q] = "open"
  BY Zenon DEF PeerInv, SessionTables
<1>4. QED
  BY <1>1, <1>2, <1>3, Zenon

\* onAttach.
LEMMA OnAttachStep ==
  ASSUME PeerInv, NEW p \in Peers, NEW ch \in Channels, NEW h \in Handles,
         NEW role \in {"sender", "receiver"}, OnAttach(p, ch, h, role)
  PROVE  PeerInv'
<1> DEFINE id  == lastId + 1
           s   == sessionIDs[p][ch]
           key == <<s, Rune[h]>>
<1>1. /\ phase[p] = "serving" /\ ch \in DOMAIN sessionIDs[p] /\ lastId < MaxIds
      /\ UNCHANGED <<state, mapped, connections, channels, sessionIDs, unsettled, flow,
                     deliverySeq, panicked, ended>>
  BY Zenon DEF OnAttach, At
<1>2. p \in connections /\ s \in DOMAIN sessions /\ sessions[s] \in Session
      /\ sessions[s].peer = p /\ sessions[s].channel = ch
  BY <1>1, Served, Zenon
<1>3. CASE key \in DOMAIN handles
  <2>1. /\ phase' = [phase EXCEPT ![p] = "leaving"]
        /\ UNCHANGED <<sessions, links, handles, linkIDs, lastId>>
    BY <1>3, Zenon DEF OnAttach, HandleKey, Fail, Goto
  <2>2. QED
    BY <1>1, <2>1, QuietPhase, Zenon DEF registries
<1>4. CASE key \notin DOMAIN handles
  <2>1. /\ lastId' = id
        /\ handles' = Put(handles, key, id)
        /\ links' = Put(links, id, NewLink(s, h, role))
        /\ phase' = [phase EXCEPT ![p] = "serving"] \/ phase' = [phase EXCEPT ![p] = "leaving"]
    BY <1>4, Zenon DEF OnAttach, HandleKey, Reply, Fail, Goto
  <2>2. \/ UNCHANGED <<sessions, linkIDs>>
        \/ /\ h \notin DOMAIN sessions[s].links
           /\ sessions' = [sessions EXCEPT ![s].links = Put(sessions[s].links, h, id)]
           /\ linkIDs' = [linkIDs EXCEPT ![p] = Put(linkIDs[p], <<ch, h>>, id)]
    BY <1>4, Zenon DEF OnAttach, HandleKey, Attachable
  <2>3. id = lastId + 1
    BY Zenon
  <2> HIDE DEF id, s
  <2>4. /\ lastId \in Nat /\ id \in Nat /\ id \in 1 .. lastId'
        /\ 1 .. lastId \subseteq 1 .. lastId' /\ id \notin 1 .. lastId
        /\ DOMAIN links' = DOMAIN links \cup {id} /\ id \notin DOMAIN links
        /\ links'[id].session = s /\ links'[id].handle = h
        /\ \A l \in DOMAIN links : links'[l] = links[l]
        /\ DOMAIN handles' = DOMAIN handles \cup {<<s, Rune[h]>>}
        /\ handles'[<<s, Rune[h]>>] = id
        /\ \A k \in DOMAIN handles : handles'[k] = handles[k]
        /\ Indexed'
    <3>1. Registers(s, h, role, id)
      BY <1>4, <2>1, <2>3, Zenon DEF Registers
    <3>2. Grown(s, h, id) /\ Indexed'
      BY <3>1, LinkAdded, Zenon
    <3>3. QED
      BY <3>2, Zenon DEF Grown
  <2>5. s \in Nat
    <3>1. s \in 1 .. lastId /\ lastId \in Nat
      BY <1>2, <2>4, SessionEntry, Zenon
    <3>2. QED
      BY ONLY <3>1
  <2>6. links' \in [DOMAIN links' -> Link]
    <3>1. NewLink(s, h, role) \in Link
      BY <2>5, PeerConstants, Zenon DEF NewLink, Link
    <3>2. QED
      BY <2>1, <3>1, PutTyped, Zenon DEF PeerInv, Typed, Registered
  <2>7. lastId' \in 0 .. MaxIds
    BY <1>1, <2>1, <2>3, <2>4, PeerConstants
  <2>8. Places' /\ Counters' /\ (panicked \in BOOLEAN)'
    <3>1. Places'
      BY <1>1, <2>1, Zenon DEF PeerInv, Typed, Places
    <3>2. Counters' /\ (panicked \in BOOLEAN)'
      BY <1>1, <2>7, Zenon DEF PeerInv, Typed, Counters
    <3>3. QED
      BY <3>1, <3>2, Zenon
  <2>9. Slots'
    BY <1>1, <2>1, SlotsKept, Zenon DEF PeerInv
  <2>10. \A q \in connections :
           DOMAIN sessionIDs[q] # {} /\ phase'[q] # "leaving" => state'[q] = "open"
    BY <1>1, <2>1, StillOpen, Zenon
  <2>11. \A q \in Peers : phase'[q] = "flow" => q # p /\ phase[q] = "flow"
    BY <1>1, <2>1, Zenon DEF PeerInv, Typed, Places
  <2>12. \A q \in Peers : phase'[q] = "flow" =>
           flow[q].link \in DOMAIN links' /\ links'[flow[q].link] = links[flow[q].link]
    BY <2>4, <2>11, Zenon DEF PeerInv, FlowInv, FlowAgrees
  <2>13. CASE UNCHANGED <<sessions, linkIDs>>
    <3>1. Typed'
      BY <1>1, <2>6, <2>8, <2>13, Zenon DEF PeerInv, Typed, Registered, Known
    <3>2. SamePeers
      BY <2>13, Zenon DEF SamePeers
    <3>3. SessionTables'
      BY <1>1, <2>10, <3>2, SessionsKept, Zenon DEF PeerInv
    <3>4. Drawn'
      BY <2>4, <2>13, Zenon DEF PeerInv, LinkInv, Drawn
    <3>5. HandleTables'
      <4>1. ASSUME NEW x \in DOMAIN sessions', NEW g \in DOMAIN sessions'[x].links
            PROVE  LinkOf(x, g)'
        <5>1. x \in DOMAIN sessions /\ sessions' = sessions /\ linkIDs' = linkIDs /\ LinkOf(x, g)
          BY <2>13, <4>1, Entries, Zenon
        <5>2. /\ sessions[x].links[g] \in DOMAIN links'
              /\ links'[sessions[x].links[g]] = links[sessions[x].links[g]]
              /\ <<x, Rune[g]>> \in DOMAIN handles'
              /\ handles'[<<x, Rune[g]>>] = handles[<<x, Rune[g]>>]
          BY <2>4, <5>1, Zenon DEF LinkOf
        <5>3. QED
          BY <5>1, <5>2, LinkOfKept, Zenon
      <4>2. QED
        BY <4>1, HandleTablesNew, Zenon
    <3>6. StaleHandles' /\ OneHandle'
      <4>1. /\ UNCHANGED <<connections, linkIDs, panicked, ended>>
            /\ DOMAIN links \subseteq DOMAIN links' /\ StaleHandles /\ OneHandle
        BY <1>1, <2>4, <2>13, Zenon DEF PeerInv, LinkInv
      <4>2. StaleHandles'
        BY ONLY <4>1, Zenon DEF StaleHandles
      <4>3. OneHandle'
        <5>1. linkIDs' = linkIDs /\ OneHandle
          BY <4>1, ZenonT(40)
        <5>2. QED
          BY ONLY <5>1, SMTT(30) DEF OneHandle
      <4>4. QED
        BY <4>2, <4>3, Zenon
    <3>7. OfPeer'
      <4>1. \A q \in connections : \A k \in DOMAIN linkIDs[q] : linkIDs[q][k] # id
        <5>1. \A q \in Peers : \A k \in DOMAIN linkIDs[q] : linkIDs[q][k] \in 1 .. lastId
          BY Zenon DEF PeerInv, LinkInv, Drawn
        <5>2. id \notin 1 .. lastId
          BY <2>4, Zenon
        <5>3. QED
          BY <5>1, <5>2, Entries, Zenon
      <4>2. /\ UNCHANGED <<connections, linkIDs, sessions>> /\ OfPeer
            /\ DOMAIN links' = DOMAIN links \cup {id}
            /\ \A l \in DOMAIN links : links'[l] = links[l]
        BY <1>1, <2>4, <2>13, Zenon DEF PeerInv, LinkInv
      <4>3. QED
        BY ONLY <4>1, <4>2 DEF OfPeer
    <3>8. LinkInv'
      BY <2>4, <3>4, <3>5, <3>6, <3>7, Zenon DEF LinkInv
    <3>9. FlowInv'
      <4>1. \A q \in Peers : phase'[q] = "flow" => Undisturbed(q)
        BY <1>1, <2>11, <2>12, <2>13, ZenonT(40) DEF Undisturbed
      <4>2. QED
        BY <4>1, FlowKept, Zenon DEF PeerInv
    <3>10. QED
      BY <2>9, <3>1, <3>3, <3>8, <3>9, Zenon DEF PeerInv
  <2>14. CASE /\ h \notin DOMAIN sessions[s].links
              /\ sessions' = [sessions EXCEPT ![s].links = Put(sessions[s].links, h, id)]
              /\ linkIDs' = [linkIDs EXCEPT ![p] = Put(linkIDs[p], <<ch, h>>, id)]
    <3>1. /\ (sessions \in [DOMAIN sessions -> Session])'
          /\ SamePeers
          /\ sessions'[s].links = Put(sessions[s].links, h, id)
          /\ \A x \in DOMAIN sessions : x # s => sessions'[x] = sessions[x]
      <4>1. sessions[s].links \in Table(Handles)
        BY <1>2, Zenon DEF Session
      <4>2. Put(sessions[s].links, h, id) \in Table(Handles)
        BY <2>4, <4>1, PutTable, Zenon
      <4>3. QED
        BY <1>2, <2>14, <4>2, LinksSet, Zenon DEF PeerInv, Typed
    <3>2. /\ DOMAIN sessions'[s].links = DOMAIN sessions[s].links \cup {h}
          /\ sessions'[s].links[h] = id
          /\ \A g \in DOMAIN sessions[s].links : sessions'[s].links[g] = sessions[s].links[g]
      BY ONLY <2>14, <3>1, Zenon DEF Put
    <3>3. /\ DOMAIN linkIDs'[p] = DOMAIN linkIDs[p] \cup {<<ch, h>>}
          /\ linkIDs'[p][<<ch, h>>] = id
          /\ \A k \in DOMAIN linkIDs[p] : k # <<ch, h>> => linkIDs'[p][k] = linkIDs[p][k]
      <4>1. linkIDs'[p] = Put(linkIDs[p], <<ch, h>>, id)
        BY <2>14, Zenon DEF PeerInv, Typed, Known
      <4>2. QED
        BY ONLY <4>1, Zenon DEF Put
    <3>4. \A q \in Peers \ {p} : linkIDs'[q] = linkIDs[q]
      BY <2>14, Zenon DEF PeerInv, Typed, Known
    <3>5. Typed'
      <4>1. Put(linkIDs[p], <<ch, h>>, id) \in Table(Channels \X Handles)
        BY <2>4, PutTable, Zenon DEF PeerInv, Typed, Known
      <4>2. Known'
        BY <1>1, <2>14, <4>1, Zenon DEF PeerInv, Typed, Known
      <4>3. Registered'
        BY <2>6, <3>1, Zenon DEF Registered
      <4>4. QED
        BY <2>8, <4>2, <4>3, Zenon DEF Typed
    <3>6. SessionTables'
      BY <1>1, <2>10, <3>1, SessionsKept, Zenon DEF PeerInv
    <3>7. \A q \in Peers : \A k \in DOMAIN linkIDs'[q] :
            \/ linkIDs'[q][k] = id /\ q = p /\ k = <<ch, h>>
            \/ /\ k \in DOMAIN linkIDs[q] /\ linkIDs'[q][k] = linkIDs[q][k]
               /\ linkIDs[q][k] \in 1 .. lastId /\ linkIDs[q][k] # id
      <4>1. \A q \in Peers : \A k \in DOMAIN linkIDs[q] :
              linkIDs[q][k] \in 1 .. lastId /\ linkIDs[q][k] # id
        BY <2>4, Zenon DEF PeerInv, LinkInv, Drawn
      <4>2. QED
        BY <3>3, <3>4, <4>1, Zenon
    <3>8. Drawn'
      <4>1. DOMAIN sessions' \subseteq 1 .. lastId' /\ DOMAIN links' \subseteq 1 .. lastId'
        BY <2>4, <3>1, Zenon DEF SamePeers, PeerInv, LinkInv, Drawn
      <4>2. \A q \in Peers : \A k \in DOMAIN linkIDs'[q] : linkIDs'[q][k] \in 1 .. lastId'
        BY <2>4, <3>7, Zenon
      <4>3. QED
        BY <4>1, <4>2, Zenon DEF Drawn
    <3>9. HandleTables'
      <4>1. ASSUME NEW x \in DOMAIN sessions', NEW g \in DOMAIN sessions'[x].links
            PROVE  LinkOf(x, g)'
        <5>1. /\ x \in DOMAIN sessions
              /\ sessions'[x].peer = sessions[x].peer /\ sessions'[x].channel = sessions[x].channel
          BY <3>1, <4>1, Zenon DEF SamePeers
        <5>2. CASE x = s /\ g = h
          BY <1>2, <2>4, <3>2, <3>3, <5>1, <5>2, Zenon DEF LinkOf
        <5>3. CASE x # s \/ g # h
          <6>1. g \in DOMAIN sessions[x].links /\ sessions'[x].links[g] = sessions[x].links[g]
            <7>1. CASE x # s
              BY <3>1, <4>1, <5>1, <7>1, Zenon
            <7>2. CASE x = s
              BY <3>2, <4>1, <5>3, <7>2, Zenon
            <7>3. QED
              BY <7>1, <7>2, Zenon
          <6>2. LinkOf(x, g) /\ sessions[x].peer \in Peers
            BY <5>1, <6>1, Entries, SessionEntry, Zenon
          <6>3. sessions[x].peer = p => <<sessions[x].channel, g>> # <<ch, h>>
            BY <1>1, <5>1, <5>3, OtherKey, Zenon DEF s
          <6>4. /\ <<sessions[x].channel, g>> \in DOMAIN linkIDs'[sessions[x].peer]
                /\ linkIDs'[sessions[x].peer][<<sessions[x].channel, g>>] = sessions[x].links[g]
            <7>1. CASE sessions[x].peer = p
              BY <3>3, <6>2, <6>3, <7>1, Zenon DEF LinkOf
            <7>2. CASE sessions[x].peer # p
              BY <3>4, <6>2, <7>2, Zenon DEF LinkOf
            <7>3. QED
              BY <7>1, <7>2, Zenon
          <6>5. /\ sessions[x].links[g] \in DOMAIN links'
                /\ links'[sessions[x].links[g]] = links[sessions[x].links[g]]
                /\ <<x, Rune[g]>> \in DOMAIN handles'
                /\ handles'[<<x, Rune[g]>>] = handles[<<x, Rune[g]>>]
            BY <2>4, <6>2, Zenon DEF LinkOf
          <6>6. QED
            BY ONLY <5>1, <6>1, <6>2, <6>4, <6>5, Zenon DEF LinkOf
        <5>4. QED
          BY <5>2, <5>3, Zenon
      <4>2. QED
        BY <4>1, HandleTablesNew, Zenon
    <3>10. StaleHandles'
      <4>1. /\ UNCHANGED <<connections, panicked, ended>> /\ connections \subseteq Peers
            /\ DOMAIN links' = DOMAIN links \cup {id} /\ StaleHandles
        BY <1>1, <2>4, Zenon DEF PeerInv, Typed, Places, LinkInv
      <4>2. QED
        BY ONLY <3>7, <4>1, ZenonT(40) DEF StaleHandles
    <3>11. OneHandle'
      <4>1. OneHandle
        BY Zenon DEF PeerInv, LinkInv
      <4>2. QED
        BY ONLY <3>7, <4>1 DEF OneHandle
    <3>12. OfPeer'
      <4> SUFFICES ASSUME NEW q \in connections, NEW k \in DOMAIN linkIDs'[q],
                          linkIDs'[q][k] \in DOMAIN links'
                   PROVE  /\ links'[linkIDs'[q][k]].session \in DOMAIN sessions
                          /\ sessions[links'[linkIDs'[q][k]].session].peer = q
        BY <1>1, <3>1, Zenon DEF OfPeer, SamePeers
      <4>1. q \in Peers
        BY Zenon DEF PeerInv, Typed, Places
      <4>2. CASE linkIDs'[q][k] = id /\ q = p
        BY <1>2, <2>4, <4>2, ZenonT(40)
      <4>3. CASE /\ k \in DOMAIN linkIDs[q] /\ linkIDs'[q][k] = linkIDs[q][k]
                 /\ linkIDs[q][k] # id
        <5>1. linkIDs[q][k] \in DOMAIN links /\ links'[linkIDs[q][k]] = links[linkIDs[q][k]]
          BY <2>4, <4>3, Zenon
        <5>2. OfPeer
          BY Zenon DEF PeerInv, LinkInv
        <5>3. QED
          BY ONLY <4>3, <5>1, <5>2, q \in connections, SMTT(30) DEF OfPeer
      <4>4. QED
        BY <3>7, <4>1, <4>2, <4>3, Zenon
    <3>13. LinkInv'
      BY <2>4, <3>8, <3>9, <3>10, <3>11, <3>12, Zenon DEF LinkInv
    <3>14. FlowInv'
      <4>1. \A q \in Peers : phase'[q] = "flow" => Undisturbed(q)
        BY <1>1, <2>11, <2>12, <3>4, Zenon DEF Undisturbed
      <4>2. QED
        BY <4>1, FlowKept, Zenon DEF PeerInv
    <3>15. QED
      BY <2>9, <3>5, <3>6, <3>13, <3>14, Zenon DEF PeerInv
  <2>15. QED
    BY <2>2, <2>13, <2>14, Zenon
<1>5. QED
  BY <1>3, <1>4, Zenon

\* onDetach.  The link may be gone already; no other handle leads to it.
LEMMA OnDetachStep ==
  ASSUME PeerInv, NEW p \in Peers, NEW ch \in Channels, NEW h \in Handles, OnDetach(p, ch, h)
  PROVE  PeerInv'
<1> DEFINE id   == linkIDs[p][<<ch, h>>]
           s    == sessionIDs[p][ch]
           keys == KeysOf(id)
<1>1. /\ phase[p] = "serving" /\ ch \in DOMAIN sessionIDs[p] /\ <<ch, h>> \in DOMAIN linkIDs[p]
      /\ handles' = Without(handles, keys)
      /\ links' = Without(links, {id})
      /\ sessions' = [sessions EXCEPT ![s].links = Without(sessions[s].links, {h})]
      /\ linkIDs' = [linkIDs EXCEPT ![p] = Without(linkIDs[p], {<<ch, h>>})]
      /\ phase' = [phase EXCEPT ![p] = "serving"] \/ phase' = [phase EXCEPT ![p] = "leaving"]
      /\ UNCHANGED <<state, mapped, connections, channels, sessionIDs, unsettled, flow,
                     lastId, deliverySeq, panicked, ended>>
  BY Zenon DEF OnDetach, At, Reply, Goto
<1>2. /\ p \in connections /\ s \in DOMAIN sessions /\ sessions[s] \in Session
      /\ sessions[s].peer = p /\ sessions[s].channel = ch
  BY <1>1, Served, Zenon
<1>3. \A k \in keys : k \in DOMAIN handles => handles[k] = id
  BY Zenon DEF KeysOf, PeerInv, LinkInv, Indexed
<1>4. \A q \in Peers : \A k \in DOMAIN linkIDs[q] : q # p \/ k # <<ch, h>> => linkIDs[q][k] # id
  BY <1>1 DEF PeerInv, LinkInv, OneHandle
<1> HIDE DEF id, s, keys
<1>5. /\ DOMAIN links' = DOMAIN links \ {id}
      /\ \A l \in DOMAIN links' : links'[l] = links[l]
  BY ONLY <1>1, Zenon DEF Without
<1>6. /\ DOMAIN handles' = DOMAIN handles \ keys
      /\ \A k \in DOMAIN handles' : handles'[k] = handles[k]
  BY ONLY <1>1, Zenon DEF Without
<1>7. /\ (sessions \in [DOMAIN sessions -> Session])'
      /\ SamePeers
      /\ sessions'[s].links = Without(sessions[s].links, {h})
      /\ \A x \in DOMAIN sessions : x # s => sessions'[x] = sessions[x]
  <2>1. sessions[s].links \in Table(Handles)
    BY <1>2, Zenon DEF Session
  <2>2. Without(sessions[s].links, {h}) \in Table(Handles)
    BY <2>1, WithoutTable, Zenon
  <2>3. QED
    BY <1>1, <1>2, <2>2, LinksSet, Zenon DEF PeerInv, Typed
<1>8. /\ DOMAIN sessions'[s].links = DOMAIN sessions[s].links \ {h}
      /\ \A g \in DOMAIN sessions'[s].links : sessions'[s].links[g] = sessions[s].links[g]
  BY ONLY <1>7, Zenon DEF Without
<1>9. /\ DOMAIN linkIDs'[p] = DOMAIN linkIDs[p] \ {<<ch, h>>}
      /\ \A k \in DOMAIN linkIDs'[p] : linkIDs'[p][k] = linkIDs[p][k]
  <2>1. linkIDs'[p] = Without(linkIDs[p], {<<ch, h>>})
    BY <1>1, Zenon DEF PeerInv, Typed, Known
  <2>2. QED
    BY ONLY <2>1, Zenon DEF Without
<1>10. \A q \in Peers \ {p} : linkIDs'[q] = linkIDs[q]
  BY <1>1, Zenon DEF PeerInv, Typed, Known
<1>11. \A q \in Peers : \A k \in DOMAIN linkIDs'[q] :
         /\ k \in DOMAIN linkIDs[q] /\ linkIDs'[q][k] = linkIDs[q][k]
         /\ linkIDs[q][k] # id
  BY <1>4, <1>9, <1>10, Zenon
<1>12. Typed'
  <2>1. Places'
    BY <1>1, Zenon DEF PeerInv, Typed, Places
  <2>2. links' \in [DOMAIN links' -> Link]
    BY <1>1, WithoutTyped, Zenon DEF PeerInv, Typed, Registered
  <2>3. Registered'
    BY <1>7, <2>2, Zenon DEF Registered
  <2>4. Known'
    <3>1. Without(linkIDs[p], {<<ch, h>>}) \in Table(Channels \X Handles)
      BY WithoutTable, Zenon DEF PeerInv, Typed, Known
    <3>2. QED
      BY <1>1, <3>1, Zenon DEF PeerInv, Typed, Known
  <2>5. Counters' /\ (panicked \in BOOLEAN)'
    BY <1>1, Zenon DEF PeerInv, Typed, Counters
  <2>6. QED
    BY <2>1, <2>3, <2>4, <2>5, Zenon DEF Typed
<1>13. Slots'
  BY <1>1, SlotsKept, Zenon DEF PeerInv
<1>14. SessionTables'
  <2>1. \A q \in connections :
          DOMAIN sessionIDs[q] # {} /\ phase'[q] # "leaving" => state'[q] = "open"
    BY <1>1, StillOpen, Zenon
  <2>2. QED
    BY <1>1, <1>7, <2>1, SessionsKept, Zenon DEF PeerInv
<1>15. LinkInv'
  <2> DOMAIN sessions' = DOMAIN sessions /\ UNCHANGED <<connections, lastId, panicked, ended>>
    BY <1>1, <1>7, Zenon DEF SamePeers
  <2>1. Drawn'
    BY <1>5, <1>11, Zenon DEF PeerInv, LinkInv, Drawn
  <2>2. HandleTables'
    <3>1. ASSUME NEW x \in DOMAIN sessions', NEW g \in DOMAIN sessions'[x].links
          PROVE  LinkOf(x, g)'
      <4>1. /\ x \in DOMAIN sessions
            /\ sessions'[x].peer = sessions[x].peer /\ sessions'[x].channel = sessions[x].channel
        BY <1>7, <3>1, Zenon DEF SamePeers
      <4>2. /\ g \in DOMAIN sessions[x].links /\ sessions'[x].links[g] = sessions[x].links[g]
            /\ x # s \/ g # h
        BY <1>7, <1>8, <3>1, <4>1, Zenon
      <4>3. LinkOf(x, g) /\ sessions[x].peer \in Peers
        BY <4>1, <4>2, Entries, SessionEntry, Zenon
      <4>4. sessions[x].peer = p => <<sessions[x].channel, g>> # <<ch, h>>
        BY <1>1, <4>1, <4>2, OtherKey, ZenonT(40) DEF s
      <4>5. sessions[x].links[g] # id
        BY <1>4, <4>3, <4>4, Zenon DEF LinkOf
      <4>6. <<x, Rune[g]>> \notin keys
        BY <1>3, <4>3, <4>5, Zenon DEF LinkOf
      <4>7. /\ <<sessions[x].channel, g>> \in DOMAIN linkIDs'[sessions[x].peer]
            /\ linkIDs'[sessions[x].peer][<<sessions[x].channel, g>>] = sessions[x].links[g]
        <5>1. CASE sessions[x].peer = p
          BY <1>9, <4>3, <4>4, <5>1, Zenon DEF LinkOf
        <5>2. CASE sessions[x].peer # p
          BY <1>10, <4>3, <5>2, Zenon DEF LinkOf
        <5>3. QED
          BY <5>1, <5>2, Zenon
      <4>8. /\ sessions[x].links[g] \in DOMAIN links'
            /\ links'[sessions[x].links[g]] = links[sessions[x].links[g]]
            /\ <<x, Rune[g]>> \in DOMAIN handles'
            /\ handles'[<<x, Rune[g]>>] = handles[<<x, Rune[g]>>]
        BY <1>5, <1>6, <4>3, <4>5, <4>6, Zenon DEF LinkOf
      <4>9. QED
        BY ONLY <4>1, <4>2, <4>3, <4>7, <4>8, Zenon DEF LinkOf
    <3>2. QED
      BY <3>1, HandleTablesNew, Zenon
  <2>3. StaleHandles'
    <3>1. /\ UNCHANGED <<connections, panicked, ended>> /\ connections \subseteq Peers
          /\ DOMAIN links' = DOMAIN links \ {id} /\ StaleHandles
      BY <1>5, Zenon DEF PeerInv, Typed, Places, LinkInv
    <3>2. QED
      BY ONLY <1>11, <3>1 DEF StaleHandles
  <2>4. Indexed'
    <3> SUFFICES ASSUME NEW l \in DOMAIN links'
                 PROVE  /\ HandleKey(links'[l].session, links'[l].handle) \in DOMAIN handles'
                        /\ handles'[HandleKey(links'[l].session, links'[l].handle)] = l
      BY Zenon DEF Indexed, HandleKey
    <3>1. l \in DOMAIN links /\ l # id /\ links'[l] = links[l]
      BY <1>5, Zenon
    <3>2. /\ HandleKey(links[l].session, links[l].handle) \in DOMAIN handles
          /\ handles[HandleKey(links[l].session, links[l].handle)] = l
      BY <3>1, Zenon DEF PeerInv, LinkInv, Indexed
    <3>3. HandleKey(links[l].session, links[l].handle) \notin keys
      BY <1>3, <3>1, <3>2, Zenon
    <3>4. QED
      BY <1>6, <3>1, <3>2, <3>3, Zenon
  <2>5. OneHandle'
    <3>1. OneHandle
      BY Zenon DEF PeerInv, LinkInv
    <3>2. QED
      BY ONLY <1>11, <3>1 DEF OneHandle
  <2>6. OfPeer'
    <3> SUFFICES ASSUME NEW q \in connections, NEW k \in DOMAIN linkIDs'[q],
                        linkIDs'[q][k] \in DOMAIN links'
                 PROVE  /\ links'[linkIDs'[q][k]].session \in DOMAIN sessions
                        /\ sessions[links'[linkIDs'[q][k]].session].peer = q
      <4>1. \A x \in DOMAIN sessions : sessions'[x].peer = sessions[x].peer
        BY <1>7, Zenon DEF SamePeers
      <4>2. QED
        BY <4>1, Zenon DEF OfPeer
    <3>1. q \in Peers
      BY Zenon DEF PeerInv, Typed, Places
    <3>2. k \in DOMAIN linkIDs[q] /\ linkIDs'[q][k] = linkIDs[q][k]
      BY <1>11, <3>1, Zenon
    <3>3. linkIDs[q][k] \in DOMAIN links /\ links'[linkIDs[q][k]] = links[linkIDs[q][k]]
      BY <1>5, <3>2, Zenon
    <3>4. OfPeer
      BY Zenon DEF PeerInv, LinkInv
    <3>5. /\ links[linkIDs[q][k]].session \in DOMAIN sessions
          /\ sessions[links[linkIDs[q][k]].session].peer = q
      BY <3>2, <3>3, <3>4, Zenon DEF OfPeer
    <3>6. QED
      BY <3>2, <3>3, <3>5, Zenon
  <2>7. QED
    BY <2>1, <2>2, <2>3, <2>4, <2>5, <2>6, Zenon DEF LinkInv
<1>16. FlowInv'
  <2>1. ASSUME NEW q \in Peers, phase'[q] = "flow"
        PROVE  Undisturbed(q)
    <3>1. q # p /\ phase[q] = "flow"
      BY <1>1, <2>1, Zenon DEF PeerInv, Typed, Places
    <3>2. flow[q].link # id
      BY <1>1, <3>1, OthersFlow, Zenon DEF id
    <3>3. flow[q].link \in DOMAIN links
      BY <3>1, Zenon DEF PeerInv, FlowInv, FlowAgrees
    <3>4. QED
      BY <1>1, <1>5, <1>10, <3>1, <3>2, <3>3, Zenon DEF Undisturbed
  <2>2. QED
    BY <2>1, FlowKept, Zenon DEF PeerInv
<1>17. QED
  BY <1>12, <1>13, <1>14, <1>15, <1>16, Zenon DEF PeerInv

-----------------------------------------------------------------------------
(* The theorems.                                                           *)

\* A server that has just started.
LEMMA InitPeerInv == Init => PeerInv
<1> SUFFICES ASSUME Init PROVE PeerInv
  BY Zenon
<1>1. DOMAIN Empty = {}
  BY EmptyTable, Zenon
<1>2. Typed
  <2>1. Places
    BY Zenon DEF Init, Places, NoFlow
  <2>2. sessions \in [DOMAIN sessions -> Session] /\ links \in [DOMAIN links -> Link]
    BY <1>1, Zenon DEF Init, Empty
  <2>3. Known
    BY EmptyTable, Zenon DEF Init, Known
  <2>4. Counters
    BY EmptyTable, PeerConstants DEF Init, Counters
  <2>5. panicked \in BOOLEAN
    BY Zenon DEF Init
  <2>6. QED
    BY <2>1, <2>2, <2>3, <2>4, <2>5, Zenon DEF Typed, Registered
<1>3. Slots
  BY Zenon DEF Init, Slots
<1>4. SessionTables
  BY <1>1, Zenon DEF Init, SessionTables
<1>5. LinkInv
  BY <1>1, Zenon
     DEF Init, LinkInv, Drawn, HandleTables, StaleHandles, Indexed, OneHandle, OfPeer
<1>6. FlowInv
  BY Zenon DEF Init, FlowInv, FlowAgrees, FlowKnown
<1>7. QED
  BY <1>2, <1>3, <1>4, <1>5, <1>6, Zenon DEF PeerInv

\* Every step keeps the invariant.
LEMMA NextPeerInv == PeerInv /\ [Next]_vars => PeerInv'
<1> SUFFICES ASSUME PeerInv, [Next]_vars PROVE PeerInv'
  BY Zenon
<1>1. ASSUME NEW p \in Peers, Frame(p) PROVE PeerInv'
  <2>1. CASE OnOpen(p) \/ OnClose(p) \/ IdleFrame(p)
    BY <2>1, OnOpenStep, OnCloseStep, FailingSteps, Zenon
  <2>2. CASE \E ch \in Channels : OnBegin(p, ch) \/ OnEnd(p, ch) \/ Unmapped(p, ch)
    BY <2>2, OnBeginStep, OnEndStep, FailingSteps, Zenon
  <2>3. ASSUME NEW ch \in Channels, NEW h \in Handles,
               \/ \E role \in {"sender", "receiver"} : OnAttach(p, ch, h, role)
               \/ \E window \in Credits, credit \in Credits : OnFlow(p, ch, h, window, credit)
               \/ OnDetach(p, ch, h) \/ OnTransfer(p, ch, h) \/ UnknownHandle(p, ch, h)
        PROVE  PeerInv'
    BY <2>3, OnAttachStep, OnFlowStep, OnDetachStep, OnTransferStep, FailingSteps, Zenon
  <2>4. CASE \E first, last \in 1 .. deliverySeq : OnDisposition(p, first, last)
    BY <2>4, OnDispositionStep, Zenon
  <2>5. QED
    BY <1>1, <2>1, <2>2, <2>3, <2>4, Zenon DEF Frame
<1>2. ASSUME NEW p \in Peers,
             \/ Accept(p) \/ Handshake(p) \/ Frame(p) \/ ReadFails(p) \/ Leave(p)
             \/ FlowDeliver(p) \/ FlowEnds(p)
      PROVE  PeerInv'
  BY <1>1, <1>2, AcceptStep, HandshakeStep, FailingSteps, LeaveStep, FlowDeliverStep, FlowEndsStep, Zenon
<1>3. CASE UNCHANGED vars
  <2>1. UNCHANGED <<phase, state, mapped, connections, sessions, channels, links, handles,
                    sessionIDs, linkIDs, unsettled, flow, lastId, deliverySeq, panicked, ended>>
    BY <1>3, Zenon DEF vars, registries, locals
  <2>2. Typed'
    BY <2>1, Zenon DEF PeerInv, Typed, Places, Registered, Known, Counters
  <2>3. Slots' /\ SessionTables' /\ FlowInv'
    <3>1. Slots'
      BY <2>1, Zenon DEF PeerInv, Slots
    <3>2. SamePeers
      BY <2>1, Zenon DEF SamePeers
    <3>3. \A q \in connections :
            DOMAIN sessionIDs[q] # {} /\ phase'[q] # "leaving" => state'[q] = "open"
      BY <2>1, Entries, Zenon DEF SessionsOf
    <3>4. SessionTables'
      BY <2>1, <3>2, <3>3, SessionsKept, Zenon DEF PeerInv
    <3>5. FlowInv'
      BY <2>1, Zenon DEF PeerInv, FlowInv, FlowAgrees, FlowKnown
    <3>6. QED
      BY <3>1, <3>4, <3>5, Zenon
  <2>4. SamePeers /\ SameLinks
    BY <2>1, Zenon DEF SamePeers, SameLinks
  <2>5. LinkInv'
    BY <2>1, <2>4, LinksKept, Zenon DEF PeerInv
  <2>6. QED
    BY <2>2, <2>3, <2>5, Zenon DEF PeerInv
<1>4. QED
  BY <1>2, <1>3, Zenon DEF Next

\* The invariant holds of every behaviour.
LEMMA Invariance == Spec => []PeerInv
  BY InitPeerInv, NextPeerInv, PTL DEF Spec

\* Every variable of the AMQP server has its type; windows and credits never fall
\* below zero.
THEOREM TypeCorrect == Spec => []TypeOK
<1>1. PeerInv => TypeOK
  <2> SUFFICES ASSUME PeerInv PROVE TypeOK
    BY Zenon
  <2>1. \A id \in DOMAIN sessions :
          /\ sessions[id].peer \in Peers /\ sessions[id].channel \in Channels
          /\ sessions[id].window \in Nat
    BY Zenon DEF PeerInv, Typed, Registered, Session
  <2>2. \A id \in DOMAIN links :
          /\ links[id].handle \in Handles /\ links[id].role \in {"sender", "receiver"}
          /\ links[id].credit \in Nat
    BY Zenon DEF PeerInv, Typed, Registered, Link
  <2>3. \A p \in Peers :
          /\ DOMAIN mapped[p] \subseteq Channels /\ DOMAIN sessionIDs[p] \subseteq Channels
          /\ DOMAIN linkIDs[p] \subseteq Channels \X Handles
          /\ DOMAIN unsettled[p] \subseteq 1 .. deliverySeq
    BY TableFacts, Zenon DEF PeerInv, Typed, Known, Counters
  <2>4. QED
    BY <2>1, <2>2, <2>3, Zenon DEF PeerInv, Typed, Places, Counters, TypeOK
<1>2. QED
  BY <1>1, Invariance, PTL

\* The tables of the registries, of the connections and of the peers agree.
THEOREM Tables == Spec => []TablesAgree
<1>1. PeerInv => TablesAgree
  BY Zenon DEF PeerInv, LinkInv, TablesAgree
<1>2. QED
  BY <1>1, Invariance, PTL

\* The loop of onFlow and the credit of its link count alike.
THEOREM Flows == Spec => []FlowAgrees
<1>1. PeerInv => FlowAgrees
  BY Zenon DEF PeerInv, FlowInv
<1>2. QED
  BY <1>1, Invariance, PTL

-----------------------------------------------------------------------------
(* The number of slots.                                                    *)

INSTANCE FiniteSetTheorems

SlotCount == IsFiniteSet(connections) /\ Cardinality(connections) <= MaxConnections

\* Only accepting a connection takes a slot, and only while one is free.
LEMMA CountNext == PeerInv /\ SlotCount /\ [Next]_vars => SlotCount'
<1> SUFFICES ASSUME PeerInv, SlotCount, [Next]_vars PROVE SlotCount'
  BY Zenon
<1>1. IsFiniteSet(connections) /\ Cardinality(connections) \in Nat
  BY FS_CardinalityType, Zenon DEF SlotCount
<1>2. ASSUME NEW p \in Peers, Accept(p) PROVE SlotCount'
  <2>1. connections' = connections \cup {p} /\ p \notin connections
    BY <1>2, ZenonT(40) DEF Accept, At, PeerInv, Slots
  <2>2. Cardinality(connections) < MaxConnections
    BY <1>1, <1>2, PeerConstants, SMTT(30) DEF Accept, Full
  <2>3. IsFiniteSet(connections') /\ Cardinality(connections') = Cardinality(connections) + 1
    BY <1>1, <2>1, FS_AddElement, ZenonT(40)
  <2>4. QED
    BY <1>1, <2>2, <2>3, PeerConstants, SMTT(30) DEF SlotCount
<1>3. ASSUME NEW p \in Peers, Leave(p) PROVE SlotCount'
  <2>1. connections' = connections \ {p}
    BY <1>3, Zenon DEF Leave
  <2>2. /\ IsFiniteSet(connections') /\ Cardinality(connections') \in Nat
        /\ Cardinality(connections') <= Cardinality(connections)
    BY <1>1, <2>1, FS_RemoveElement, FS_CardinalityType, SMTT(30)
  <2>3. QED
    BY <1>1, <2>2, PeerConstants, SMTT(30) DEF SlotCount
<1>4. CASE connections' = connections
  BY <1>4, Zenon DEF SlotCount
<1>5. ASSUME NEW p \in Peers, Frame(p) PROVE connections' = connections
  <2>1. CASE OnOpen(p) \/ OnClose(p) \/ IdleFrame(p)
    BY <2>1, Zenon DEF OnOpen, OnClose, IdleFrame, registries
  <2>2. ASSUME NEW ch \in Channels, OnBegin(p, ch) \/ OnEnd(p, ch) \/ Unmapped(p, ch)
        PROVE  connections' = connections
    BY <2>2, Zenon DEF OnBegin, OnEnd, Unmapped, registries
  <2>3. ASSUME NEW ch \in Channels, NEW h \in Handles,
               \/ \E role \in {"sender", "receiver"} : OnAttach(p, ch, h, role)
               \/ \E window \in Credits, credit \in Credits : OnFlow(p, ch, h, window, credit)
        PROVE  connections' = connections
    BY <2>3, Zenon DEF OnAttach, OnFlow
  <2>4. ASSUME NEW ch \in Channels, NEW h \in Handles,
               OnDetach(p, ch, h) \/ OnTransfer(p, ch, h) \/ UnknownHandle(p, ch, h)
        PROVE  connections' = connections
    BY <2>4, Zenon DEF OnDetach, OnTransfer, UnknownHandle, registries
  <2>5. CASE \E first, last \in 1 .. deliverySeq : OnDisposition(p, first, last)
    BY <2>5, Zenon DEF OnDisposition, registries
  <2>6. QED
    BY <1>5, <2>1, <2>2, <2>3, <2>4, <2>5, ZenonT(40) DEF Frame
<1>6. ASSUME NEW p \in Peers, Handshake(p) \/ ReadFails(p) \/ FlowDeliver(p) \/ FlowEnds(p)
      PROVE  connections' = connections
  BY <1>6, Zenon DEF Handshake, ReadFails, FlowDeliver, FlowEnds, registries
<1>7. CASE UNCHANGED vars
  BY <1>4, <1>7, Zenon DEF vars, registries
<1>8. QED
  BY <1>2, <1>3, <1>4, <1>5, <1>6, <1>7, ZenonT(40) DEF Next

\* The registry of connections holds the slot of every connection with a running
\* handler and of no other, and never more than MaxConnections, whatever frame or
\* failure a handler ends on: an accepted connection always gets its slot back.
THEOREM SlotsFreed == Spec => []SlotsMatch
<1>1. Init => SlotCount
  BY FS_EmptySet, PeerConstants DEF Init, SlotCount
<1>2. PeerInv /\ SlotCount => SlotsMatch
  BY Zenon DEF PeerInv, Slots, SlotCount, SlotsMatch
<1>3. QED
  BY <1>1, <1>2, CountNext, Invariance, PTL DEF Spec
=============================================================================
