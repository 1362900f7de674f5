----------------------------- MODULE Addresses ------------------------------
(***************************************************************************)
(* Addresses and bindings: the address service (internal/address) over the *)
(* in-memory store.  Create and Bind first look up the addresses they      *)
(* refer to and store their record in a later call of the store, so the    *)
(* requests of several clients interleave between the two.                 *)
(***************************************************************************)
EXTENDS Integers

CONSTANTS
  Names,     \* the names namePattern accepts
  None,      \* no name: no dead-letter address
  Creations, \* the creation requests
  Bindings,  \* the binding requests
  Ids,       \* binding ids newID may produce (bounds the bindings)
  Pausable,  \* addresses an operator pauses and resumes
  Clients,   \* goroutines that serve management requests
  Idle

Kinds == {"queue", "topic", "fanout", "direct", "temporary"}

ASSUME AddressConstants ==
  /\ None \notin Names
  /\ Creations \subseteq [name : Names, kind : Kinds, deadLetter : Names \cup {None}]
  /\ \A in \in Bindings : in.source \in Names /\ in.destination \in Names /\ in.priority \in Int
  /\ Pausable \subseteq Names
  /\ Idle \notin Creations \cup Bindings
  /\ Creations \cap Bindings = {}

VARIABLES
  addresses, \* Memory.addresses
  bindings,  \* Memory.bindings
  call       \* the request each client's goroutine has checked and not yet stored

vars == <<addresses, bindings, call>>

-----------------------------------------------------------------------------
Exists(n) == n \in DOMAIN addresses

Put(f, k, v) == [x \in DOMAIN f \cup {k} |-> IF x = k THEN v ELSE f[x]]

Call(c, in) ==
  /\ call' = [call EXCEPT ![c] = in]
  /\ UNCHANGED <<addresses, bindings>>

\* Mutation: the dead-letter address may be created later.
CreateUnchecked(c, in) ==
  /\ call[c] = Idle
  /\ in.deadLetter # in.name
  /\ Call(c, in)

\* New refuses an address that is its own dead-letter address.
Create(c, in) ==
  /\ call[c] = Idle
  /\ in.deadLetter # in.name
  /\ in.deadLetter = None \/ Exists(in.deadLetter)
  /\ Call(c, in)

\* Mutation: an address is created again.
StoreAgain(c) ==
  /\ call[c] \in Creations
  /\ addresses' = Put(addresses, call[c].name,
                      [kind |-> call[c].kind, deadLetter |-> call[c].deadLetter,
                       paused |-> FALSE])
  /\ call' = [call EXCEPT ![c] = Idle]
  /\ UNCHANGED bindings

\* Memory.Create refuses a name that has been taken meanwhile.
Store(c) ==
  /\ call[c] \in Creations
  /\ addresses' = IF Exists(call[c].name) THEN addresses
                  ELSE Put(addresses, call[c].name,
                           [kind |-> call[c].kind, deadLetter |-> call[c].deadLetter,
                            paused |-> FALSE])
  /\ call' = [call EXCEPT ![c] = Idle]
  /\ UNCHANGED bindings

Bind(c, in) ==
  /\ call[c] = Idle
  /\ Exists(in.source) /\ Exists(in.destination)
  /\ in.source # in.destination
  /\ in.priority \in 0 .. 9
  /\ Call(c, in)

CreateBinding(c, id) ==
  /\ call[c] \in Bindings
  /\ id \notin DOMAIN bindings
  /\ bindings' = Put(bindings, id, call[c])
  /\ call' = [call EXCEPT ![c] = Idle]
  /\ UNCHANGED addresses

\* Every call of the store first returns ctx.Err().
Cancel(c) ==
  /\ call[c] # Idle
  /\ Call(c, Idle)

SetPaused(n, paused) ==
  /\ Exists(n)
  /\ addresses' = [addresses EXCEPT ![n].paused = paused]
  /\ UNCHANGED <<bindings, call>>

Init ==
  /\ addresses = <<>>
  /\ bindings = <<>>
  /\ call = [c \in Clients |-> Idle]

Next ==
  \/ \E c \in Clients :
       \/ \E in \in Creations : Create(c, in)
       \/ \E in \in Bindings : Bind(c, in)
       \/ Store(c)
       \/ \E id \in Ids : CreateBinding(c, id)
       \/ Cancel(c)
  \/ \E n \in Pausable, paused \in BOOLEAN : SetPaused(n, paused)

Spec == Init /\ [][Next]_vars

-----------------------------------------------------------------------------
(* Properties the code has.                                                *)

Address == [kind : Kinds, deadLetter : Names \cup {None}, paused : BOOLEAN]

\* A request has the form NewBinding accepts.
Bindable(in) ==
  in \in Bindings /\ in.source # in.destination /\ in.priority \in 0 .. 9

\* Every variable has its type: what is stored was checked.
TypeOK ==
  /\ DOMAIN addresses \subseteq Names
  /\ addresses \in [DOMAIN addresses -> Address]
  /\ DOMAIN bindings \subseteq Ids
  /\ \A id \in DOMAIN bindings : Bindable(bindings[id])
  /\ call \in [Clients -> Creations \cup Bindings \cup {Idle}]

\* Both ends of a binding, and the dead-letter address of every address, exist,
\* although they were looked up in an earlier call of the store: deadLetter,
\* ReplayDead and Resolve find the addresses they are sent to.
NamesResolve ==
  /\ \A n \in DOMAIN addresses : addresses[n].deadLetter = None \/ Exists(addresses[n].deadLetter)
  /\ \A id \in DOMAIN bindings : Exists(bindings[id].source) /\ Exists(bindings[id].destination)

\* Dead-letter addresses form chains that end, in whatever order clients create
\* them: every set of addresses has one whose dead-letter address is not in it.
\* An expired message that is moved along them is not moved for ever.
ChainsEnd ==
  \A S \in SUBSET DOMAIN addresses :
    S # {} => \E n \in S : addresses[n].deadLetter \notin S
=============================================================================
