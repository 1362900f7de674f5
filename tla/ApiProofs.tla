----------------------------- MODULE ApiProofs ------------------------------
(***************************************************************************)
(* Proofs about Api, for any number of requests, rate, timeout and routes  *)
(* asked for: the types, the bound of the rate limit and the accounts.     *)
(***************************************************************************)
EXTENDS Api, Integers, TLAPS

Succeeded == {200, 201, 202, 0}
OfService == {404, 409, 422, 500, 3, 5}

-----------------------------------------------------------------------------
(* The routes.                                                             *)

\* What the statuses of a route say.
Regular(r, e) ==
  /\ e.ok \in Succeeded
  /\ e.fail \in OfService \cup {None}
  /\ r \notin DOMAIN Grpc => e.fail \notin {3, 5}
  /\ r \in DOMAIN Grpc => e.body # "message"
  /\ r = "publish" => e.ok = 201
  /\ r = "acquire" => e.ok = 200

\* The tables of routes have no name in common with gRPC's.
LEMMA GrpcNames ==
  DOMAIN Grpc = {"Health", "CreateAddress", "GetDepth", "PauseAddress", "ListConnections",
                 "GetTransaction"}
  BY Zenon DEF Grpc

\* Every route has a status of success and, where its service may fail, one of
\* failure, and the two are told apart.
LEMMA RegularRoutes ==
  ASSUME NEW r \in DOMAIN Routes
  PROVE  Regular(r, Routes[r])
<1>1. ASSUME r \in DOMAIN Probes PROVE Regular(r, Probes[r])
  BY <1>1, GrpcNames, ApiConstants DEF Probes, Route, Regular, Succeeded, OfService
<1>2. ASSUME r \in DOMAIN AddressRoutes PROVE Regular(r, AddressRoutes[r])
  BY <1>2, GrpcNames, ApiConstants DEF AddressRoutes, Route, Regular, Succeeded, OfService
<1>3. ASSUME r \in DOMAIN TransactionRoutes PROVE Regular(r, TransactionRoutes[r])
  BY <1>3, GrpcNames, ApiConstants
     DEF TransactionRoutes, Route, Regular, Succeeded, OfService
<1>4. ASSUME r \in DOMAIN MessageRoutes PROVE Regular(r, MessageRoutes[r])
  BY <1>4, GrpcNames, ApiConstants DEF MessageRoutes, Route, Regular, Succeeded, OfService
<1>5. ASSUME r \in DOMAIN Grpc PROVE Regular(r, Grpc[r])
  BY <1>5, GrpcNames, ApiConstants DEF Grpc, Route, Regular, Succeeded, OfService
<1>6. QED
  BY <1>1, <1>2, <1>3, <1>4, <1>5, Zenon DEF Routes

-----------------------------------------------------------------------------
(* One request.                                                            *)

\* What a handler has done when it has replied: refused the request itself, or
\* passed on an error of the service or its success.
Settled(q) ==
  \/ reply[q] \in {400, 413, 422, 3} /\ result[q] = None
  \/ /\ reply[q] = RouteOf(q).fail /\ reply[q] # None
     /\ result[q] # None /\ ~result[q].ok
  \/ reply[q] = RouteOf(q).ok /\ result[q] # None /\ result[q].ok

\* Where the two goroutines of a request are, and what they have written.
Stages(q) ==
  /\ outer[q] = "away" => inner[q] = "none" /\ answer[q] = None /\ admitted[q] = None
  /\ outer[q] # "away" => req[q] \in Asks[q]
  /\ inner[q] \in {"none", "start", "call"} => reply[q] = None /\ result[q] = None
  /\ inner[q] = "reply" => reply[q] = None /\ result[q] # None /\ result[q].ok
  /\ inner[q] = "panicked" => reply[q] = None
  /\ inner[q] = "done" => Settled(q)
  /\ outer[q] = "serving" => answer[q] = None /\ inner[q] # "none"
  /\ outer[q] = "answered" =>
       \/ inner[q] = "none" /\ answer[q] \in {429, 401, 13, 16}
       \/ inner[q] # "none" /\ answer[q] = 503
       \/ inner[q] = "done" /\ answer[q] = reply[q]
       \/ inner[q] = "panicked" /\ answer[q] = 500

RequestInv == TypeOK /\ \A q \in Requests : Stages(q)

\* A step of one request.
Only(q) ==
  \A r \in Requests : r # q =>
    /\ req'[r] = req[r] /\ admitted'[r] = admitted[r]
    /\ outer'[r] = outer[r] /\ answer'[r] = answer[r]
    /\ inner'[r] = inner[r] /\ reply'[r] = reply[r] /\ result'[r] = result[r]

\* It does not move another.
LEMMA OthersStay ==
  ASSUME \A r \in Requests : Stages(r), NEW q, Only(q)
  PROVE  \A r \in Requests : r # q => Stages(r)'
  BY DEF Only, Stages, Settled, RouteOf

\* The route of a request that has arrived.
LEMMA RouteKnown ==
  ASSUME NEW q \in Requests, Stages(q), outer[q] # "away"
  PROVE  req[q].route \in DOMAIN Routes /\ Regular(req[q].route, RouteOf(q))
<1>1. req[q].route \in DOMAIN Routes
  BY AskedRoutes DEF Stages
<1>2. QED
  BY <1>1, RegularRoutes, Zenon DEF RouteOf

\* The statuses.
LEMMA StatusTypes ==
  /\ Succeeded \cup OfService \cup {400, 401, 413, 422, 429, 503, 500, 13, 16, 3} \subseteq Statuses
  /\ None \notin Statuses
  BY ApiConstants DEF Succeeded, OfService, Statuses

\* The rate limit counts no more than Rate.
LEMMA LimitTypes ==
  ASSUME TypeOK, NEW q \in Requests, Limit(q)
  PROVE  /\ window' \in Nat \cup {None} /\ count' \in 0 .. Rate
         /\ admitted' \in [Requests -> Nat \cup {None}]
         /\ admitted' = admitted \/ admitted' = [admitted EXCEPT ![q] = now]
  BY ApiConstants DEF TypeOK, Limit, Fresh, Counted, allow, CountedNext

\* A request arrives.
LEMMA ArriveRequest ==
  ASSUME RequestInv, NEW q \in Requests, NEW ask \in Asks[q],
         HttpRequest(q, ask) \/ GrpcRequest(q, ask)
  PROVE  RequestInv' /\ Only(q)
<1>1. /\ outer[q] = "away" /\ now' = now
      /\ req' = [req EXCEPT ![q] = ask] /\ UNCHANGED <<reply, result, metrics>>
  BY DEF HttpRequest, GrpcRequest, Arrive, Refuse, Serve, handler
<1>2. /\ window' \in Nat \cup {None} /\ count' \in 0 .. Rate
      /\ admitted' \in [Requests -> Nat \cup {None}]
      /\ admitted' = admitted \/ admitted' = [admitted EXCEPT ![q] = now]
  BY LimitTypes, Zenon DEF HttpRequest, GrpcRequest, RequestInv, TypeOK, limiter
<1>3. \/ /\ outer' = [outer EXCEPT ![q] = "serving"] /\ inner' = [inner EXCEPT ![q] = "start"]
         /\ answer' = answer
      \/ \E status \in {429, 401, 13, 16} :
           /\ outer' = [outer EXCEPT ![q] = "answered"] /\ inner' = inner
           /\ answer' = [answer EXCEPT ![q] = status]
  BY DEF HttpRequest, GrpcRequest, Refuse, Answer, Serve, handler
<1>4. TypeOK'
  <2>1. req' \in [Requests -> (UNION {Asks[r] : r \in Requests}) \cup {None}]
    BY <1>1, Zenon DEF RequestInv, TypeOK
  <2>2. QED
    BY <1>1, <1>2, <1>3, <2>1, StatusTypes DEF RequestInv, TypeOK
<1>5. Only(q)
  <2>1. \A r \in Requests : r # q => req'[r] = req[r] /\ admitted'[r] = admitted[r]
    BY <1>1, <1>2, Zenon DEF RequestInv, TypeOK
  <2>2. \A r \in Requests : r # q =>
          outer'[r] = outer[r] /\ answer'[r] = answer[r] /\ inner'[r] = inner[r]
    BY <1>3 DEF RequestInv, TypeOK
  <2>3. QED
    BY <1>1, <2>1, <2>2, Zenon DEF Only
<1>6. Stages(q)'
  <2>1. Stages(q)
    BY Zenon DEF RequestInv
  <2>2. /\ req'[q] = ask /\ inner[q] = "none" /\ answer[q] = None
        /\ reply'[q] = None /\ result'[q] = None
    BY <1>1, <2>1 DEF Stages, RequestInv, TypeOK
  <2>3. \/ outer'[q] = "serving" /\ inner'[q] = "start" /\ answer'[q] = None
        \/ outer'[q] = "answered" /\ inner'[q] = "none" /\ answer'[q] \in {429, 401, 13, 16}
    BY <1>3, <2>2 DEF RequestInv, TypeOK
  <2>4. QED
    BY <2>2, <2>3 DEF Stages
<1>7. QED
  BY <1>4, <1>5, <1>6, OthersStay, Zenon DEF RequestInv

\* The handler decodes the request or refuses it.
LEMMA DecodeRequest ==
  ASSUME RequestInv, NEW q \in Requests, Decode(q)
  PROVE  RequestInv' /\ Only(q)
<1>1. /\ inner[q] = "start" /\ UNCHANGED <<now, req, limiter, serving, result>>
      /\ \/ inner' = [inner EXCEPT ![q] = "call"] /\ reply' = reply
         \/ \E status \in {400, 413, 422, 3} :
              /\ inner' = [inner EXCEPT ![q] = "done"]
              /\ reply' = [reply EXCEPT ![q] = status]
  BY DEF Decode, Goto, Write
<1>2. TypeOK'
  <2>1. metrics' \in [{"requests", "failures", "published", "delivered"} -> Nat]
    <3>1. PICK a \in {0, 1}, b \in {0, 1} :
            metrics' = [metrics EXCEPT !["requests"] = @ + a, !["failures"] = @ + b]
      BY ZenonT(30) DEF Decode, Instrumented
    <3>2. QED
      BY <3>1 DEF RequestInv, TypeOK
  <2>2. QED
    BY <1>1, <2>1, StatusTypes DEF RequestInv, TypeOK, limiter, serving
<1>3. Only(q)
  BY <1>1 DEF Only, RequestInv, TypeOK, limiter, serving
<1>4. Stages(q)'
  <2>1. Stages(q) /\ outer[q] # "away"
    BY <1>1 DEF RequestInv, TypeOK, Stages
  <2>2. \/ inner'[q] = "call" /\ reply'[q] = reply[q]
        \/ inner'[q] = "done" /\ reply'[q] \in {400, 413, 422, 3}
    BY <1>1 DEF RequestInv, TypeOK
  <2>3. QED
    BY <1>1, <2>1, <2>2 DEF Stages, Settled, limiter, serving
<1>5. QED
  BY <1>2, <1>3, <1>4, OthersStay, Zenon DEF RequestInv

\* The service returns.
LEMMA ReturnRequest ==
  ASSUME RequestInv, NEW q \in Requests, Return(q)
  PROVE  RequestInv' /\ Only(q)
<1>1. inner[q] = "call" /\ UNCHANGED <<now, req, limiter, serving>>
  BY Zenon DEF Return
<1>2. Stages(q) /\ outer[q] # "away"
  BY <1>1 DEF RequestInv, Stages
<1>3. Regular(req[q].route, RouteOf(q)) /\ RouteOf(q)' = RouteOf(q)
  BY <1>1, <1>2, RouteKnown, Zenon DEF RouteOf
<1>4. \/ \E status \in OfService :
           /\ status = RouteOf(q).fail
           /\ inner' = [inner EXCEPT ![q] = "done"] /\ reply' = [reply EXCEPT ![q] = status]
           /\ result' = [result EXCEPT ![q] = [ok |-> FALSE, copies |-> 0]]
           /\ metrics' = metrics \/ metrics' = [metrics EXCEPT !["failures"] = @ + 1]
      \/ \E n \in Nat :
           /\ inner' = [inner EXCEPT ![q] = "reply"] /\ reply' = reply
           /\ result' = [result EXCEPT ![q] = [ok |-> TRUE, copies |-> n]]
           /\ metrics' = metrics
  BY <1>3, ApiConstants DEF Return, fail, Write, Goto, Add, Regular
<1>5. TypeOK'
  <2>1. metrics' \in [{"requests", "failures", "published", "delivered"} -> Nat]
    <3>1. metrics' = metrics \/ metrics' = [metrics EXCEPT !["failures"] = @ + 1]
      BY <1>4, Zenon
    <3>2. metrics \in [{"requests", "failures", "published", "delivered"} -> Nat]
      BY Zenon DEF RequestInv, TypeOK
    <3>3. QED
      BY ONLY <3>1, <3>2
  <2>2. /\ inner' \in [Requests -> {"none", "start", "call", "reply", "done", "panicked"}]
        /\ reply' \in [Requests -> Statuses \cup {None}]
    BY <1>4, StatusTypes, SMTT(30) DEF RequestInv, TypeOK
  <2>3. result' \in [Requests -> [ok : BOOLEAN, copies : Nat] \cup {None}]
    <3>1. PICK e \in [ok : BOOLEAN, copies : Nat] : result' = [result EXCEPT ![q] = e]
      BY <1>4, Zenon
    <3>2. QED
      BY <3>1, Zenon DEF RequestInv, TypeOK
  <2>4. QED
    BY <1>1, <2>1, <2>2, <2>3, Zenon DEF RequestInv, TypeOK, limiter, serving
<1>6. Only(q)
  BY <1>1, <1>4 DEF Only, RequestInv, TypeOK, limiter, serving
<1>7. Stages(q)'
  <2>1. \/ /\ inner'[q] = "done" /\ reply'[q] = RouteOf(q).fail /\ reply'[q] # None
           /\ result'[q] # None /\ ~result'[q].ok
        \/ inner'[q] = "reply" /\ reply'[q] = None /\ result'[q] # None /\ result'[q].ok
    <3>1. reply[q] = None
      BY <1>1, <1>2, Zenon DEF Stages
    <3>2. DOMAIN inner = Requests /\ DOMAIN reply = Requests /\ DOMAIN result = Requests
      BY Zenon DEF RequestInv, TypeOK
    <3>3. CASE \E status \in OfService :
                 /\ status = RouteOf(q).fail
                 /\ inner' = [inner EXCEPT ![q] = "done"] /\ reply' = [reply EXCEPT ![q] = status]
                 /\ result' = [result EXCEPT ![q] = [ok |-> FALSE, copies |-> 0]]
      <4>1. inner'[q] = "done" /\ reply'[q] = RouteOf(q).fail /\ reply'[q] \in OfService
        BY <3>2, <3>3, Zenon
      <4>2. result'[q] \in [ok : BOOLEAN, copies : Nat] /\ ~result'[q].ok
        BY <3>2, <3>3
      <4>3. QED
        BY <4>1, <4>2, ApiConstants DEF OfService
    <3>4. CASE \E n \in Nat :
                 /\ inner' = [inner EXCEPT ![q] = "reply"] /\ reply' = reply
                 /\ result' = [result EXCEPT ![q] = [ok |-> TRUE, copies |-> n]]
      <4>1. inner'[q] = "reply" /\ reply'[q] = None
        BY <3>1, <3>2, <3>4, Zenon
      <4>2. result'[q] \in [ok : BOOLEAN, copies : Nat] /\ result'[q].ok
        BY <3>2, <3>4
      <4>3. QED
        BY <4>1, <4>2, ApiConstants, Zenon
    <3>5. QED
      BY <1>4, <3>3, <3>4, Zenon
  <2>2. QED
    BY <1>1, <1>2, <1>3, <2>1 DEF Stages, Settled, limiter, serving
<1>8. QED
  BY <1>5, <1>6, <1>7, OthersStay, Zenon DEF RequestInv

\* The handler replies with success.
LEMMA ReplyRequest ==
  ASSUME RequestInv, NEW q \in Requests, Reply(q)
  PROVE  RequestInv' /\ Only(q)
<1>1. /\ inner[q] = "reply" /\ UNCHANGED <<now, req, limiter, serving, result>>
      /\ inner' = [inner EXCEPT ![q] = "done"]
      /\ reply' = [reply EXCEPT ![q] = RouteOf(q).ok]
  BY Zenon DEF Reply, Write, Goto
<1>2. Stages(q) /\ outer[q] # "away" /\ result[q] \in [ok : BOOLEAN, copies : Nat]
  BY <1>1 DEF RequestInv, Stages, TypeOK
<1>3. RouteOf(q).ok \in Succeeded /\ RouteOf(q)' = RouteOf(q)
  BY <1>1, <1>2, RouteKnown, Zenon DEF RouteOf, Regular
<1>4. TypeOK'
  <2>1. metrics' \in [{"requests", "failures", "published", "delivered"} -> Nat]
    <3>1. \/ metrics' = [metrics EXCEPT !["published"] = @ + result[q].copies]
          \/ metrics' = [metrics EXCEPT !["delivered"] = @ + 1]
          \/ metrics' = metrics
      BY Zenon DEF Reply, Add, Routed
    <3>2. /\ metrics \in [{"requests", "failures", "published", "delivered"} -> Nat]
          /\ result[q].copies \in Nat
      BY <1>2, Zenon DEF RequestInv, TypeOK
    <3>3. QED
      BY ONLY <3>1, <3>2
  <2>2. QED
    BY <1>1, <1>3, <2>1, StatusTypes DEF RequestInv, TypeOK, limiter, serving
<1>5. Only(q)
  BY <1>1, Zenon DEF Only, RequestInv, TypeOK, limiter, serving
<1>6. Stages(q)'
  <2>1. inner'[q] = "done" /\ reply'[q] = RouteOf(q).ok
    BY <1>1, Zenon DEF RequestInv, TypeOK
  <2>2. QED
    BY <1>1, <1>2, <1>3, <2>1 DEF Stages, Settled, limiter, serving
<1>7. QED
  BY <1>4, <1>5, <1>6, OthersStay, Zenon DEF RequestInv

\* The handler panics.
LEMMA PanicRequest ==
  ASSUME RequestInv, NEW q \in Requests, Panic(q)
  PROVE  RequestInv' /\ Only(q)
<1>1. /\ inner[q] \in {"call", "reply"} /\ inner' = [inner EXCEPT ![q] = "panicked"]
      /\ UNCHANGED <<now, req, limiter, serving, reply, result, metrics>>
  BY Zenon DEF Panic, Goto
<1>2. TypeOK' /\ Only(q)
  BY <1>1, Zenon DEF Only, RequestInv, TypeOK, limiter, serving
<1>3. Stages(q)'
  <2>1. inner'[q] = "panicked" /\ Stages(q)
    BY <1>1, Zenon DEF RequestInv, TypeOK
  <2>2. QED
    BY <1>1, <2>1 DEF Stages, limiter, serving
<1>4. QED
  BY <1>2, <1>3, OthersStay, Zenon DEF RequestInv

\* The client is answered.
LEMMA AnswerRequest ==
  ASSUME RequestInv, NEW q \in Requests, Finish(q) \/ Expire(q) \/ Hangup(q)
  PROVE  RequestInv' /\ Only(q)
<1>1. /\ outer[q] = "serving" /\ UNCHANGED <<now, req, limiter, handler>>
      /\ \E status :
           /\ outer' = [outer EXCEPT ![q] = "answered"]
           /\ answer' = [answer EXCEPT ![q] = status]
           /\ \/ inner[q] = "done" /\ status = reply[q]
              \/ inner[q] = "panicked" /\ status = 500
              \/ status = 503
  BY DEF Finish, Expire, Hangup, Answer
<1>2. PICK status :
        /\ outer' = [outer EXCEPT ![q] = "answered"]
        /\ answer' = [answer EXCEPT ![q] = status]
        /\ \/ inner[q] = "done" /\ status = reply[q]
           \/ inner[q] = "panicked" /\ status = 500
           \/ status = 503
  BY <1>1, Zenon
<1>3. TypeOK' /\ Only(q)
  <2> status \in Statuses \cup {None}
    BY <1>2, StatusTypes DEF RequestInv, TypeOK
  <2>1. /\ outer' \in [Requests -> {"away", "serving", "answered"}]
        /\ answer' \in [Requests -> Statuses \cup {None}]
        /\ \A r \in Requests : r # q => outer'[r] = outer[r] /\ answer'[r] = answer[r]
    BY <1>2 DEF RequestInv, TypeOK
  <2>2. QED
    BY <1>1, <2>1 DEF Only, RequestInv, TypeOK, limiter, handler
<1>4. Stages(q)'
  <2>1. Stages(q) /\ outer'[q] = "answered" /\ answer'[q] = status
    BY <1>2 DEF RequestInv, TypeOK
  <2>2. UNCHANGED <<req, inner, reply, result, admitted>>
    BY <1>1, ZenonT(40) DEF limiter, handler
  <2>3. QED
    BY <1>1, <1>2, <2>1, <2>2 DEF Stages, Settled, RouteOf
<1>5. QED
  BY <1>3, <1>4, OthersStay, Zenon DEF RequestInv

\* The clock, or nothing.
LEMMA TickRequests ==
  ASSUME RequestInv, Tick \/ UNCHANGED vars
  PROVE  RequestInv' /\ UNCHANGED <<req, limiter, serving, handler>>
<1>1. UNCHANGED <<req, limiter, serving, handler>> /\ (now' = now \/ now' = now + 1)
  BY Zenon DEF Tick, vars
<1>2. TypeOK'
  BY <1>1 DEF RequestInv, TypeOK, limiter, serving, handler
<1>3. \A q \in Requests : Stages(q)'
  BY <1>1 DEF RequestInv, Stages, Settled, RouteOf, limiter, serving, handler
<1>4. QED
  BY <1>1, <1>2, <1>3, Zenon DEF RequestInv

\* The invariant of single requests holds of every behaviour.
LEMMA Requested == Spec => []RequestInv
<1>1. Init => RequestInv
  BY ApiConstants DEF Init, RequestInv, TypeOK, Stages, Statuses
<1>2. RequestInv /\ [Next]_vars => RequestInv'
  BY ArriveRequest, DecodeRequest, ReturnRequest, ReplyRequest, PanicRequest, AnswerRequest,
     TickRequests, Zenon DEF Next, Outer, Inner
<1>3. QED
  BY <1>1, <1>2, PTL DEF Spec

\* Every variable keeps its type, and no window counts more than Rate requests,
\* whatever requests there are and however they interleave.
THEOREM TypeCorrect == Spec => []TypeOK
<1>1. RequestInv => TypeOK
  BY Zenon DEF RequestInv
<1>2. QED
  BY <1>1, Requested, PTL

-----------------------------------------------------------------------------
(* What a step counts.                                                     *)

Arrived == {q \in Requests : outer[q] # "away"}

\* A step of q adds b to the requests, f to the failures, d to the deliveries and
\* n to the copies, as q enters the sets they count.
Enters(q, k, before, after) ==
  IF k = 1 THEN q \in after /\ q \notin before ELSE (q \in after <=> q \in before)

Accounts(q, b, f, d, n) ==
  /\ Enters(q, b, Begun, Begun')
  /\ Enters(q, f, Failed, Failed')
  /\ Enters(q, d, Delivered, Delivered')
  /\ \/ n = 0 /\ q \notin Published /\ q \notin Published'
     \/ n = 0 /\ (q \in Published' <=> q \in Published) /\ result'[q] = result[q]
     \/ q \in Published' /\ q \notin Published /\ result'[q].copies = n
  /\ metrics'.requests = metrics.requests + b
  /\ metrics'.failures = metrics.failures + f
  /\ metrics'.delivered = metrics.delivered + d
  /\ metrics'.published = metrics.published + n

Booked(q) == \E b, f, d \in {0, 1}, n \in Nat : Accounts(q, b, f, d, n)

\* A step of one request keeps the other requests in their sets.
LEMMA OthersCounted ==
  ASSUME NEW q, Only(q)
  PROVE  /\ \A r \in Requests : r # q => (r \in Begun' <=> r \in Begun)
         /\ \A r \in Requests : r # q => (r \in Failed' <=> r \in Failed)
         /\ \A r \in Requests : r # q => (r \in Published' <=> r \in Published)
         /\ \A r \in Requests : r # q => (r \in Delivered' <=> r \in Delivered)
         /\ \A r \in Requests : r # q => (r \in Arrived' <=> r \in Arrived)
  BY DEF Only, Begun, Failed, Published, Delivered, Replied, Http, Arrived

\* A step that counts nothing: the handler is where it was, or neither has begun
\* nor has replied.
LEMMA QuietBooked ==
  ASSUME TypeOK, NEW q \in Requests, metrics' = metrics,
         \/ inner'[q] = inner[q] /\ req'[q] = req[q] /\ reply'[q] = reply[q] /\ result'[q] = result[q]
         \/ inner[q] = "none" /\ inner'[q] \in {"none", "start"}
         \/ inner[q] \in {"call", "reply"} /\ inner'[q] \in {"reply", "panicked"} /\ req'[q] = req[q]
  PROVE  Booked(q)
<1>1. q \in Begun' <=> q \in Begun
  BY Zenon DEF Begun, Http
<1>2. /\ q \in Failed' <=> q \in Failed
      /\ q \in Delivered' <=> q \in Delivered
  BY DEF Failed, Delivered, Replied, Http
<1>3. \/ q \notin Published /\ q \notin Published'
      \/ (q \in Published' <=> q \in Published) /\ result'[q] = result[q]
  BY DEF Published, Replied, Http
<1>4. metrics \in [{"requests", "failures", "published", "delivered"} -> Nat]
  BY Zenon DEF TypeOK
<1>5. /\ metrics'.requests = metrics.requests + 0 /\ metrics'.failures = metrics.failures + 0
      /\ metrics'.delivered = metrics.delivered + 0 /\ metrics'.published = metrics.published + 0
  BY ONLY <1>4, metrics' = metrics
<1>6. Accounts(q, 0, 0, 0, 0)
  BY ONLY <1>1, <1>2, <1>3, <1>5 DEF Accounts, Enters
<1>7. QED
  BY <1>6, Zenon DEF Booked

\* The handler begins.
LEMMA DecodeBooked ==
  ASSUME RequestInv, NEW q \in Requests, Decode(q)
  PROVE  Booked(q)
<1> DEFINE b == IF Http(req[q]) THEN 1 ELSE 0
           f == IF reply'[q] = 422 THEN 1 ELSE 0
<1>1. b \in {0, 1} /\ f \in {0, 1} /\ b \in Nat /\ f \in Nat
  OBVIOUS
<1>2. /\ inner[q] = "start" /\ req' = req
      /\ metrics' = [metrics EXCEPT !["requests"] = @ + b, !["failures"] = @ + f]
  BY Zenon DEF Decode, Instrumented
<1>3. metrics \in [{"requests", "failures", "published", "delivered"} -> Nat]
  BY Zenon DEF RequestInv, TypeOK
<1>4. /\ metrics'.requests = metrics.requests + b /\ metrics'.failures = metrics.failures + f
      /\ metrics'.delivered = metrics.delivered + 0 /\ metrics'.published = metrics.published + 0
  <2> HIDE DEF b, f
  <2>1. QED
    BY <1>1, <1>2, <1>3
<1>5. /\ reply[q] = None
      /\ RouteOf(q).body = "message" => Http(req[q])
  <2>1. Stages(q) /\ outer[q] # "away"
    BY <1>2 DEF RequestInv, Stages
  <2>2. QED
    BY <1>2, <2>1, RouteKnown DEF Stages, Regular, Http
<1>6. \/ inner'[q] = "call" /\ reply'[q] = None
      \/ inner'[q] = "done" /\ reply'[q] \in {400, 413, 3}
      \/ inner'[q] = "done" /\ reply'[q] = 422 /\ Http(req[q])
  <2>1. DOMAIN inner = Requests /\ DOMAIN reply = Requests
    BY Zenon DEF RequestInv, TypeOK
  <2>2. CASE Goto(q, "call") /\ UNCHANGED reply
    BY <1>5, <2>1, <2>2 DEF Goto
  <2>3. CASE \E status \in {400, 413, 3} : Write(q, status)
    BY <2>1, <2>3 DEF Goto, Write
  <2>4. CASE RouteOf(q).body = "message" /\ Write(q, 422)
    BY <1>5, <2>1, <2>4 DEF Goto, Write
  <2>5. QED
    BY <2>2, <2>3, <2>4 DEF Decode
<1>7. Enters(q, b, Begun, Begun')
  BY <1>2, <1>6 DEF Begun, Enters
<1>8. Enters(q, f, Failed, Failed')
  BY <1>2, <1>6, ApiConstants DEF Failed, Replied, Enters
<1>9. q \notin Delivered /\ q \notin Delivered' /\ q \notin Published /\ q \notin Published'
  BY <1>2, <1>6, ApiConstants DEF Delivered, Published, Replied
<1> HIDE DEF b, f
<1>10. Enters(q, 0, Delivered, Delivered')
  BY ONLY <1>9 DEF Enters
<1>11. Accounts(q, b, f, 0, 0)
  BY ONLY <1>4, <1>7, <1>8, <1>9, <1>10, Zenon DEF Accounts
<1>12. QED
  BY <1>1, <1>11, Zenon DEF Booked

\* The service returns.
LEMMA ReturnBooked ==
  ASSUME RequestInv, NEW q \in Requests, Return(q)
  PROVE  Booked(q)
<1>1. inner[q] = "call" /\ req' = req
  BY Zenon DEF Return
<1>2. Regular(req[q].route, RouteOf(q))
  BY <1>1, RouteKnown DEF RequestInv, Stages
<1>3. metrics \in [{"requests", "failures", "published", "delivered"} -> Nat]
  BY Zenon DEF RequestInv, TypeOK
<1>4. CASE RouteOf(q).fail # None /\ fail(q, RouteOf(q).fail)
  <2> DEFINE f == IF Http(req[q]) THEN 1 ELSE 0
  <2>1. /\ inner'[q] = "done" /\ reply'[q] \in OfService
        /\ Http(req[q]) => reply'[q] \in {404, 409, 422, 500}
    BY <1>2, <1>4 DEF fail, Write, Goto, Regular, OfService, Http, RequestInv, TypeOK
  <2>2. /\ metrics'.requests = metrics.requests + 0 /\ metrics'.failures = metrics.failures + f
        /\ metrics'.delivered = metrics.delivered + 0 /\ metrics'.published = metrics.published + 0
    BY <1>3, <1>4 DEF fail, Add
  <2>3. Enters(q, 0, Begun, Begun')
    BY <1>1, <2>1 DEF Begun, Enters
  <2>4. Enters(q, f, Failed, Failed')
    BY <1>1, <2>1 DEF Failed, Replied, Enters
  <2>5. q \notin Delivered /\ q \notin Delivered' /\ q \notin Published /\ q \notin Published'
    BY <1>1, <2>1 DEF Delivered, Published, Replied, OfService
  <2>6. f \in {0, 1}
    BY Zenon
  <2> HIDE DEF f
  <2>7. Enters(q, 0, Delivered, Delivered')
    BY ONLY <2>5 DEF Enters
  <2>8. Accounts(q, 0, f, 0, 0)
    BY ONLY <2>2, <2>3, <2>4, <2>5, <2>7, Zenon DEF Accounts
  <2>9. QED
    BY <2>6, <2>8, Zenon DEF Booked
<1>5. CASE Goto(q, "reply") /\ UNCHANGED <<reply, metrics>>
  <2>1. inner'[q] = "reply"
    BY <1>5, Zenon DEF Goto, RequestInv, TypeOK
  <2>2. QED
    BY <1>1, <1>5, <2>1, QuietBooked, Zenon DEF RequestInv
<1>6. QED
  BY <1>4, <1>5, Zenon DEF Return

\* The handler replies.
LEMMA ReplyBooked ==
  ASSUME RequestInv, NEW q \in Requests, Reply(q)
  PROVE  Booked(q)
<1> DEFINE n == IF req[q].route = "publish" THEN result[q].copies ELSE 0
           d == IF req[q].route = "acquire" THEN 1 ELSE 0
<1>1. /\ inner[q] = "reply" /\ UNCHANGED <<req, result>>
      /\ inner'[q] = "done" /\ reply'[q] = RouteOf(q).ok
  BY Zenon DEF Reply, Write, Goto, RequestInv, TypeOK
<1>2. Regular(req[q].route, RouteOf(q)) /\ result[q] \in [ok : BOOLEAN, copies : Nat]
  BY <1>1, RouteKnown DEF RequestInv, Stages, TypeOK
<1>3. metrics \in [{"requests", "failures", "published", "delivered"} -> Nat]
  BY Zenon DEF RequestInv, TypeOK
<1>4. n \in Nat /\ d \in {0, 1}
  BY <1>2, Zenon
<1>5. /\ metrics'.requests = metrics.requests + 0 /\ metrics'.failures = metrics.failures + 0
      /\ metrics'.delivered = metrics.delivered + d /\ metrics'.published = metrics.published + n
  BY <1>2, <1>3 DEF Reply, Add, Routed
<1>6. reply'[q] \in Succeeded
  BY <1>1, <1>2, ZenonT(40) DEF Regular
<1>7. Enters(q, 0, Begun, Begun')
  BY <1>1 DEF Begun, Enters
<1>8. Enters(q, 0, Failed, Failed')
  BY <1>1, <1>6 DEF Failed, Replied, Succeeded, Enters
<1>9. Enters(q, d, Delivered, Delivered')
  BY <1>1, <1>2, GrpcNames DEF Delivered, Replied, Regular, Http, Enters
<1>10. \/ n = 0 /\ q \notin Published /\ q \notin Published'
       \/ q \in Published' /\ q \notin Published /\ result'[q].copies = n
  BY <1>1, <1>2, GrpcNames DEF Published, Replied, Regular, Http
<1> HIDE DEF n, d
<1>11. Accounts(q, 0, 0, d, n)
  BY ONLY <1>5, <1>7, <1>8, <1>9, <1>10, Zenon DEF Accounts
<1>12. QED
  BY <1>4, <1>11, Zenon DEF Booked

\* Every step but the clock's is one of a request, and books what it counts.
LEMMA AllBooked ==
  ASSUME RequestInv, Next, ~Tick
  PROVE  RequestInv' /\ \E q \in Requests : Only(q) /\ Booked(q)
<1>1. ASSUME NEW q \in Requests, NEW ask \in Asks[q], HttpRequest(q, ask) \/ GrpcRequest(q, ask)
      PROVE  Booked(q)
  <2>1. outer[q] = "away" /\ metrics' = metrics
    BY <1>1 DEF HttpRequest, GrpcRequest, Arrive, Refuse, Serve, handler
  <2>2. inner' = inner \/ inner' = [inner EXCEPT ![q] = "start"]
    BY <1>1, Zenon DEF HttpRequest, GrpcRequest, Refuse, Serve, handler
  <2>3. inner[q] = "none" /\ inner'[q] \in {"none", "start"}
    BY <2>1, <2>2 DEF RequestInv, Stages, TypeOK
  <2>4. QED
    BY <2>1, <2>3, QuietBooked, Zenon DEF RequestInv
<1>2. ASSUME NEW q \in Requests, Outer(q) \/ Hangup(q) PROVE Booked(q)
  <2>1. UNCHANGED <<inner, req, reply, result, metrics>>
    BY <1>2 DEF Outer, Finish, Expire, Hangup, handler
  <2>2. QED
    BY <2>1, QuietBooked, ZenonT(40) DEF RequestInv
<1>3. ASSUME NEW q \in Requests, Panic(q) PROVE Booked(q)
  <2>1. /\ inner[q] \in {"call", "reply"} /\ inner'[q] = "panicked"
        /\ UNCHANGED <<req, metrics>>
    BY <1>3, Zenon DEF Panic, Goto, RequestInv, TypeOK
  <2>2. QED
    BY <2>1, QuietBooked, Zenon DEF RequestInv
<1>4. ASSUME NEW q \in Requests, Inner(q) PROVE RequestInv' /\ Only(q) /\ Booked(q)
  BY <1>3, <1>4, DecodeRequest, ReturnRequest, ReplyRequest, PanicRequest, DecodeBooked,
     ReturnBooked, ReplyBooked, Zenon DEF Inner
<1>5. ASSUME NEW q \in Requests, Outer(q) \/ Hangup(q) PROVE RequestInv' /\ Only(q) /\ Booked(q)
  BY <1>2, <1>5, AnswerRequest, Zenon DEF Outer
<1>6. ASSUME NEW q \in Requests, NEW ask \in Asks[q], HttpRequest(q, ask) \/ GrpcRequest(q, ask)
      PROVE  RequestInv' /\ Only(q) /\ Booked(q)
  BY <1>1, <1>6, ArriveRequest, Zenon
<1>7. QED
  BY <1>4, <1>5, <1>6, Zenon DEF Next

-----------------------------------------------------------------------------
(* The rate limit.                                                         *)

INSTANCE FiniteSetTheorems

\* The requests that have passed, by the times a they passed at: all, those since
\* t, and those in an interval.
Times == [Requests -> Nat \cup {None}]

All(a)            == {q \in Requests : a[q] # None}
Since(a, t)       == {q \in Requests : a[q] # None /\ a[q] >= t}
Passed(a, lo, hi) == {q \in Requests : a[q] \in lo .. hi}

\* A window began at w with a request that passed, and the c since passed within
\* a second.
\* The window before it had begun a second earlier with a request of its own, so
\* that fewer than Rate passed in what is left of a second before w.
Window(a, w, c) ==
  /\ Cardinality(Since(a, w)) = c
  /\ \E q \in Requests : a[q] = w
  /\ \A q \in Requests : a[q] # None => a[q] < w + Second
  /\ \A t \in Nat : t + Second > w => Cardinality(Passed(a, t, w - 1)) < Rate
  /\ \A t \in Nat : t + Second <= w => Cardinality(Passed(a, t, t + Second - 1)) < 2 * Rate

\* Times are numbers.
LEMMA NoTime == \A lo \in Nat, hi \in Int : None \notin lo .. hi
  BY ApiConstants

\* What has passed is finite.
LEMMA PassedFinite ==
  ASSUME NEW a \in Times, IsFiniteSet(All(a))
  PROVE  /\ \A t \in Nat : IsFiniteSet(Since(a, t)) /\ Cardinality(Since(a, t)) \in Nat
         /\ \A lo \in Nat, hi \in Int :
              IsFiniteSet(Passed(a, lo, hi)) /\ Cardinality(Passed(a, lo, hi)) \in Nat
<1>1. \A lo \in Nat, hi \in Int : Passed(a, lo, hi) \subseteq All(a)
  BY NoTime, Zenon DEF Passed, All
<1>2. \A t \in Nat : Since(a, t) \subseteq All(a)
  BY Zenon DEF Since, All
<1>3. QED
  BY <1>1, <1>2, FS_Subset, FS_CardinalityType, Zenon

\* The bound, from the window in force: an interval of a second that reaches into
\* it holds fewer than Rate requests from before.
LEMMA Bounded ==
  ASSUME NEW a \in Times, IsFiniteSet(All(a)), NEW w \in Nat, NEW c \in 0 .. Rate,
         Window(a, w, c), NEW t \in Nat
  PROVE  Cardinality(Passed(a, t, t + Second - 1)) < 2 * Rate
<1>1. CASE t + Second <= w
  BY <1>1, Zenon DEF Window
<1>2. CASE t + Second > w
  <2> DEFINE A == Passed(a, t, w - 1)
             B == Since(a, w)
             C == Passed(a, t, t + Second - 1)
  <2>1. C \subseteq A \cup B
    BY <1>2, ApiConstants DEF Passed, Since, Times
  <2>2. t \in Nat /\ w - 1 \in Int /\ t + Second - 1 \in Int
    BY ApiConstants
  <2>3. /\ IsFiniteSet(A) /\ Cardinality(A) \in Nat
        /\ IsFiniteSet(B) /\ Cardinality(B) \in Nat
        /\ Cardinality(C) \in Nat
    BY <2>2, PassedFinite, Zenon
  <2>4. Cardinality(A) < Rate /\ Cardinality(B) = c
    BY <1>2, Zenon DEF Window
  <2> HIDE DEF A, B, C
  <2>5. /\ IsFiniteSet(A \cup B)
        /\ Cardinality(A \cup B) = Cardinality(A) + Cardinality(B) - Cardinality(A \cap B)
    BY <2>3, FS_Union, Zenon
  <2>6. Cardinality(A \cap B) \in Nat
    BY <2>3, FS_Intersection, FS_CardinalityType, Zenon
  <2>7. Cardinality(C) <= Cardinality(A \cup B)
    BY <2>1, <2>5, FS_Subset, Zenon
  <2>8. Cardinality(C) < 2 * Rate
    BY <2>3, <2>4, <2>5, <2>6, <2>7, ApiConstants
  <2>9. QED
    BY <2>8, Zenon DEF C
<1>3. QED
  BY <1>1, <1>2, ApiConstants

\* A request passes at n, not before the window began: the window counts it.
LEMMA PassesInWindow ==
  ASSUME NEW a \in Times, IsFiniteSet(All(a)), NEW w \in Nat, NEW c \in Nat, Window(a, w, c),
         NEW n \in Nat, w <= n, n - w < Second, NEW q \in Requests, a[q] = None,
         NEW b, b = [a EXCEPT ![q] = n]
  PROVE  Window(b, w, c + 1)
<1>1. b[q] = n /\ \A r \in Requests : r # q => b[r] = a[r]
  BY Zenon DEF Times
<1>2. Cardinality(Since(b, w)) = c + 1
  <2>1. Since(b, w) = Since(a, w) \cup {q} /\ q \notin Since(a, w)
    BY <1>1, ApiConstants, Zenon DEF Since
  <2>2. IsFiniteSet(Since(a, w)) /\ Cardinality(Since(a, w)) = c
    BY PassedFinite, Zenon DEF Window
  <2>3. QED
    BY <2>1, <2>2, FS_AddElement, Zenon
<1>3. \E r \in Requests : b[r] = w
  BY <1>1, ApiConstants, Zenon DEF Window
<1>4. \A t \in Nat : Passed(b, t, w - 1) = Passed(a, t, w - 1)
  BY <1>1, NoTime DEF Passed
<1>5. \A t \in Nat : t + Second <= w => Passed(b, t, t + Second - 1) = Passed(a, t, t + Second - 1)
  BY <1>1, NoTime, ApiConstants DEF Passed
<1>6. \A r \in Requests : b[r] # None => b[r] < w + Second
  BY <1>1, ApiConstants DEF Window
<1>7. QED
  BY <1>2, <1>3, <1>4, <1>5, <1>6, ZenonT(40) DEF Window

\* A request passes at n and begins a window, a second after the last began or as
\* the first.
LEMMA BeginsWindow ==
  ASSUME Rate > 0, NEW a \in Times, IsFiniteSet(All(a)), NEW n \in Nat,
         \/ \A r \in Requests : a[r] = None
         \/ \E w \in Nat, c \in 0 .. Rate : Window(a, w, c) /\ n - w >= Second,
         NEW q \in Requests, a[q] = None, NEW b, b = [a EXCEPT ![q] = n]
  PROVE  Window(b, n, 1)
<1>1. b[q] = n /\ \A r \in Requests : r # q => b[r] = a[r]
  BY Zenon DEF Times
<1>2. \A t \in Nat : Passed(b, t, n - 1) = Passed(a, t, n - 1)
  BY <1>1, NoTime DEF Passed
<1>3. \A t \in Nat : t + Second <= n => Passed(b, t, t + Second - 1) = Passed(a, t, t + Second - 1)
  BY <1>1, NoTime, ApiConstants DEF Passed
<1>4. CASE \A r \in Requests : a[r] = None
  <2>1. \A t \in Nat, hi \in Int : Passed(a, t, hi) = {}
    BY <1>4, NoTime, Zenon DEF Passed
  <2>2. Since(b, n) = {q}
    BY <1>1, <1>4, ApiConstants DEF Since
  <2>3. \A t \in Nat : n - 1 \in Int /\ t + Second - 1 \in Int
    BY ApiConstants
  <2>4. \A t \in Nat, hi \in Int : Cardinality(Passed(a, t, hi)) = 0
    BY <2>1, FS_EmptySet, Zenon
  <2>5. \A t \in Nat : t + Second > n => Cardinality(Passed(b, t, n - 1)) < Rate
    BY <1>2, <2>3, <2>4, ApiConstants, ZenonT(30)
  <2>6. \A t \in Nat : t + Second <= n => Cardinality(Passed(b, t, t + Second - 1)) < 2 * Rate
    <3>1. ASSUME NEW t \in Nat, t + Second <= n
          PROVE  Cardinality(Passed(b, t, t + Second - 1)) = 0
      <4>1. Passed(b, t, t + Second - 1) = Passed(a, t, t + Second - 1)
        BY <1>3, <3>1, Zenon
      <4>2. Cardinality(Passed(a, t, t + Second - 1)) = 0
        BY <2>3, <2>4, Zenon
      <4>3. QED
        BY <4>1, <4>2, Zenon
    <3>2. 0 < 2 * Rate
      BY ApiConstants
    <3>3. QED
      BY <3>1, <3>2, Zenon
  <2>7. Cardinality(Since(b, n)) = 1
    BY <2>2, FS_Singleton, Zenon
  <2>8. \A r \in Requests : b[r] # None => b[r] < n + Second
    BY <1>1, <1>4, ApiConstants
  <2>9. QED
    BY <1>1, <2>5, <2>6, <2>7, <2>8, ZenonT(40) DEF Window
<1>5. ASSUME NEW w \in Nat, NEW c \in 0 .. Rate, Window(a, w, c), n - w >= Second
      PROVE  Window(b, n, 1)
  <2>1. \A t \in Nat : t + Second <= n => Cardinality(Passed(b, t, t + Second - 1)) < 2 * Rate
    BY <1>3, <1>5, Bounded, Zenon
  <2>2. ASSUME NEW t \in Nat, t + Second > n
        PROVE  Cardinality(Passed(b, t, n - 1)) < Rate
    <3>1. PICK r \in Requests : a[r] = w
      BY <1>5, Zenon DEF Window
    <3>2. Passed(b, t, n - 1) \subseteq Since(a, w) \ {r} /\ r \in Since(a, w)
      BY <1>2, <1>5, <2>2, <3>1, ApiConstants DEF Passed, Since, Times
    <3>3. IsFiniteSet(Since(a, w)) /\ Cardinality(Since(a, w)) = c
      BY <1>5, PassedFinite, Zenon DEF Window
    <3>4. IsFiniteSet(Since(a, w) \ {r}) /\ Cardinality(Since(a, w) \ {r}) = c - 1
      BY <3>2, <3>3, FS_RemoveElement, Zenon
    <3>5. Cardinality(Passed(b, t, n - 1)) <= c - 1 /\ IsFiniteSet(Passed(b, t, n - 1))
      <4> DEFINE P == Passed(b, t, n - 1)
                 R == Since(a, w) \ {r}
      <4>1. P \in SUBSET R /\ IsFiniteSet(R) /\ Cardinality(R) = c - 1
        BY <3>2, <3>4, Zenon
      <4> HIDE DEF P, R
      <4>2. IsFiniteSet(P) /\ Cardinality(P) <= c - 1
        BY <4>1, FS_Subset, Zenon
      <4>3. QED
        BY <4>2, Zenon DEF P
    <3>6. ASSUME NEW k \in Nat, k <= c - 1 PROVE k < Rate
      BY <3>6, ApiConstants
    <3>7. Cardinality(Passed(b, t, n - 1)) \in Nat
      BY <3>5, FS_CardinalityType, Zenon
    <3>8. QED
      BY <3>5, <3>6, <3>7, Zenon
  <2>3. Cardinality(Since(b, n)) = 1
    <3>1. Since(b, n) = {q}
      BY <1>1, <1>5, ApiConstants DEF Since, Times, Window
    <3>2. QED
      BY <3>1, FS_Singleton, ZenonT(40)
  <2>4. \A r \in Requests : b[r] # None => b[r] < n + Second
    BY <1>1, <1>5, ApiConstants DEF Window, Times
  <2>5. QED
    BY <1>1, <2>1, <2>2, <2>3, <2>4, Zenon DEF Window
<1>6. QED
  BY <1>4, <1>5, Zenon

LimitInv ==
  /\ IsFiniteSet(All(admitted))
  /\ Rate > 0 => IF window = None THEN \A q \in Requests : admitted[q] = None
                                  ELSE window <= now /\ Window(admitted, window, count)

\* The rate limit keeps the invariant.
LEMMA LimitKeeps ==
  ASSUME TypeOK, LimitInv, NEW q \in Requests, admitted[q] = None, Limit(q), now' = now
  PROVE  LimitInv'
<1>1. admitted \in Times /\ now \in Nat
  BY Zenon DEF TypeOK, Times
<1>2. CASE allow
  <2>1. admitted' = [admitted EXCEPT ![q] = now]
    BY <1>2, Zenon DEF Limit
  <2>2. IsFiniteSet(All(admitted'))
    <3>1. All(admitted') = All(admitted) \cup {q}
      BY <1>1, <2>1, ApiConstants, Zenon DEF All, Times
    <3>2. QED
      BY <3>1, FS_AddElement, Zenon DEF LimitInv
  <2>3. ASSUME Rate > 0, Fresh
        PROVE  window' = now /\ Window(admitted', now, 1)
    <3>1. window' = now
      BY <2>3 DEF Limit
    <3>2. \/ \A r \in Requests : admitted[r] = None
          \/ \E w \in Nat, c \in 0 .. Rate : Window(admitted, w, c) /\ now - w >= Second
      BY <2>3, Zenon DEF LimitInv, Fresh, TypeOK
    <3>3. QED
      BY <1>1, <2>1, <2>3, <3>1, <3>2, BeginsWindow, ZenonT(30) DEF LimitInv
  <2>4. ASSUME Rate > 0, Fresh
        PROVE  count' = 1
    BY <1>2, <2>4 DEF Limit, CountedNext, Counted
  <2>5. ASSUME Rate > 0, ~Fresh
        PROVE  window' = window /\ window' # None /\ window <= now /\ Window(admitted', window, count')
    <3>1. /\ window' = window /\ window # None /\ count' = count + 1
          /\ window \in Nat /\ count \in Nat /\ now - window < Second
      BY <1>2, <2>5, ApiConstants DEF Limit, CountedNext, Counted, Fresh, TypeOK
    <3>2. window <= now /\ Window(admitted, window, count)
      BY <2>5, <3>1, Zenon DEF LimitInv
    <3>3. Window(admitted', window, count + 1)
      BY <1>1, <2>1, <3>1, <3>2, PassesInWindow, Zenon DEF LimitInv
    <3>4. QED
      BY <3>1, <3>2, <3>3, Zenon
  <2>6. QED
    BY <1>1, <2>2, <2>3, <2>4, <2>5, ApiConstants DEF LimitInv
<1>3. CASE ~allow
  <2>1. Rate > 0 /\ ~Fresh
    BY <1>3, ApiConstants DEF allow, Counted
  <2>2. admitted' = admitted /\ window' = window /\ count' = count
    BY <1>3, <2>1, Zenon DEF Limit, CountedNext, Counted
  <2>3. QED
    BY <2>2, Zenon DEF LimitInv
<1>4. QED
  BY <1>2, <1>3, Zenon

\* So does every step.
LEMMA LimitNext == RequestInv /\ LimitInv /\ [Next]_vars => LimitInv'
<1> SUFFICES ASSUME RequestInv, LimitInv, [Next]_vars PROVE LimitInv'
  BY Zenon
<1>1. ASSUME NEW q \in Requests, NEW ask \in Asks[q], HttpRequest(q, ask) PROVE LimitInv'
  <2>1. outer[q] = "away" /\ now' = now /\ Limit(q)
    BY <1>1, ZenonT(40) DEF HttpRequest, Arrive
  <2>2. QED
    BY <2>1, LimitKeeps, Zenon DEF RequestInv, Stages
<1>2. CASE UNCHANGED limiter /\ (now' = now \/ now' = now + 1)
  BY <1>2 DEF LimitInv, limiter, RequestInv, TypeOK
<1>3. ASSUME NEW q \in Requests, NEW ask \in Asks[q], GrpcRequest(q, ask) PROVE LimitInv'
  BY <1>2, <1>3, ZenonT(40) DEF GrpcRequest, Arrive
<1>4. ASSUME NEW q \in Requests, Outer(q) \/ Hangup(q) PROVE LimitInv'
  BY <1>2, <1>4 DEF Outer, Finish, Expire, Hangup
<1>5. ASSUME NEW q \in Requests, Inner(q) PROVE LimitInv'
  BY <1>2, <1>5, Zenon DEF Inner, Decode, Return, Reply, Panic
<1>6. CASE Tick \/ UNCHANGED vars
  BY <1>2, <1>6, Zenon DEF Tick, vars
<1>7. QED
  BY <1>1, <1>3, <1>4, <1>5, <1>6, Zenon DEF Next

\* However requests arrive, fewer than twice Rate of them pass the limit in any
\* second: the count begins anew with a window, but never twice within a second.
THEOREM RateLimit == Spec => []RateBounded
<1>1. Init => LimitInv
  <2>1. ASSUME Init PROVE All(admitted) = {} /\ window = None /\ \A q \in Requests : admitted[q] = None
    BY <2>1, Zenon DEF Init, All
  <2>2. QED
    BY <2>1, FS_EmptySet, Zenon DEF LimitInv
<1>2. RequestInv /\ LimitInv => RateBounded
  <2>1. SUFFICES ASSUME RequestInv, LimitInv, Rate > 0, NEW t \in Nat
                 PROVE  Cardinality(Passed(admitted, t, t + Second - 1)) < 2 * Rate
    BY DEF RateBounded, Passed, RequestInv, TypeOK
  <2>2. admitted \in Times /\ IsFiniteSet(All(admitted))
    BY <2>1, Zenon DEF RequestInv, TypeOK, Times, LimitInv
  <2>3. CASE window = None
    <3>1. Passed(admitted, t, t + Second - 1) = {}
      <4>1. None \notin t .. t + Second - 1
        BY NoTime, ApiConstants
      <4>2. QED
        BY <2>1, <2>3, <4>1, Zenon DEF LimitInv, Passed
    <3>2. Cardinality(Passed(admitted, t, t + Second - 1)) = 0
      BY <3>1, FS_EmptySet, Zenon
    <3>3. QED
      BY <2>1, <3>2, ApiConstants
  <2>4. CASE window # None
    <3>1. window \in Nat /\ count \in 0 .. Rate /\ Window(admitted, window, count)
      BY <2>1, <2>4, Zenon DEF LimitInv, RequestInv, TypeOK
    <3>2. QED
      BY <2>2, <3>1, Bounded, Zenon
  <2>5. QED
    BY <2>3, <2>4, ZenonT(40)
<1>3. QED
  BY <1>1, <1>2, LimitNext, Requested, PTL DEF Spec

-----------------------------------------------------------------------------
(* The accounts.                                                           *)

AccountInv ==
  /\ IsFiniteSet(Arrived) /\ IsFiniteSet(Copied)
  /\ metrics.requests = Cardinality(Begun)
  /\ metrics.failures = Cardinality(Failed)
  /\ metrics.published = Cardinality(Copied)
  /\ metrics.delivered = Cardinality(Delivered)

\* Only requests that have arrived are counted.
LEMMA CountedArrived ==
  ASSUME RequestInv, IsFiniteSet(Arrived)
  PROVE  /\ Begun \subseteq Requests /\ Failed \subseteq Begun
         /\ Published \subseteq Begun /\ Delivered \subseteq Begun
         /\ IsFiniteSet(Begun) /\ IsFiniteSet(Failed) /\ IsFiniteSet(Delivered)
<1>1. Begun \subseteq Arrived
  BY Zenon DEF Begun, Arrived, RequestInv, Stages
<1>2. Failed \subseteq Begun /\ Published \subseteq Begun /\ Delivered \subseteq Begun
  BY DEF Begun, Failed, Published, Delivered, Replied
<1>3. QED
  BY <1>1, <1>2, FS_Subset, Zenon DEF Begun

\* A set that a step of one request changes.
LEMMA CountAfter ==
  ASSUME NEW q, NEW S \in SUBSET Requests, IsFiniteSet(S), NEW T \in SUBSET Requests,
         \A r \in Requests : r # q => (r \in T <=> r \in S)
  PROVE  /\ (q \in T <=> q \in S) => T = S
         /\ q \in T /\ q \notin S => Cardinality(T) = Cardinality(S) + 1
<1>1. ASSUME q \in T, q \notin S PROVE T = S \cup {q}
  BY <1>1, Zenon
<1>2. QED
  BY <1>1, FS_AddElement

\* The accounts of a step.
LEMMA AccountStep ==
  ASSUME RequestInv, AccountInv, NEW q \in Requests, Only(q),
         NEW b \in {0, 1}, NEW f \in {0, 1}, NEW d \in {0, 1}, NEW n \in Nat,
         Accounts(q, b, f, d, n)
  PROVE  AccountInv'
<1>1. IsFiniteSet(Arrived')
  <2>1. Arrived' \subseteq Arrived \cup {q}
    BY OthersCounted, Zenon DEF Arrived
  <2>2. IsFiniteSet(Arrived \cup {q})
    BY FS_AddElement, Zenon DEF AccountInv
  <2>3. QED
    BY <2>1, <2>2, FS_Subset, Zenon
<1>2. /\ Begun \subseteq Requests /\ Failed \subseteq Requests /\ Delivered \subseteq Requests
      /\ IsFiniteSet(Begun) /\ IsFiniteSet(Failed) /\ IsFiniteSet(Delivered)
  BY CountedArrived, Zenon DEF AccountInv
<1>3. /\ Begun' \subseteq Requests /\ Failed' \subseteq Requests /\ Delivered' \subseteq Requests
      /\ Published' \subseteq Requests /\ Published \subseteq Requests
  BY Zenon DEF Begun, Failed, Delivered, Published, Replied
<1>4. metrics'.requests = Cardinality(Begun')
  <2>1. Enters(q, b, Begun, Begun') /\ \A r \in Requests : r # q => (r \in Begun' <=> r \in Begun)
    BY OthersCounted, Zenon DEF Accounts
  <2>2. IF b = 1 THEN Cardinality(Begun') = Cardinality(Begun) + 1 ELSE Begun' = Begun
    BY <1>2, <1>3, <2>1, CountAfter DEF Enters
  <2>3. /\ metrics'.requests = metrics.requests + b
        /\ metrics.requests = Cardinality(Begun) /\ metrics.requests \in Nat
    BY Zenon DEF Accounts, AccountInv, RequestInv, TypeOK
  <2>4. b \in {0, 1}
    BY Zenon
  <2>5. QED
    BY ONLY <2>2, <2>3, <2>4
<1>5. metrics'.failures = Cardinality(Failed')
  <2>1. Enters(q, f, Failed, Failed') /\ \A r \in Requests : r # q => (r \in Failed' <=> r \in Failed)
    BY OthersCounted, Zenon DEF Accounts
  <2>2. IF f = 1 THEN Cardinality(Failed') = Cardinality(Failed) + 1 ELSE Failed' = Failed
    BY <1>2, <1>3, <2>1, CountAfter DEF Enters
  <2>3. /\ metrics'.failures = metrics.failures + f
        /\ metrics.failures = Cardinality(Failed) /\ metrics.failures \in Nat
    BY Zenon DEF Accounts, AccountInv, RequestInv, TypeOK
  <2>4. f \in {0, 1}
    BY Zenon
  <2>5. QED
    BY ONLY <2>2, <2>3, <2>4
<1>6. metrics'.delivered = Cardinality(Delivered')
  <2>1. Enters(q, d, Delivered, Delivered') /\ \A r \in Requests : r # q => (r \in Delivered' <=> r \in Delivered)
    BY OthersCounted, Zenon DEF Accounts
  <2>2. IF d = 1 THEN Cardinality(Delivered') = Cardinality(Delivered) + 1 ELSE Delivered' = Delivered
    BY <1>2, <1>3, <2>1, CountAfter DEF Enters
  <2>3. /\ metrics'.delivered = metrics.delivered + d
        /\ metrics.delivered = Cardinality(Delivered) /\ metrics.delivered \in Nat
    BY Zenon DEF Accounts, AccountInv, RequestInv, TypeOK
  <2>4. d \in {0, 1}
    BY Zenon
  <2>5. QED
    BY ONLY <2>2, <2>3, <2>4
<1>7. IsFiniteSet(Copied') /\ metrics'.published = Cardinality(Copied')
  <2>0. \A r \in Requests : r # q => (r \in Published' <=> r \in Published)
    BY OthersCounted, Zenon
  <2>1. \A r \in Published : r # q => r \in Published' /\ result'[r] = result[r]
    BY <1>3, <2>0, Zenon DEF Only
  <2>2. \A r \in Published' : r # q => r \in Published /\ result'[r] = result[r]
    BY <1>3, <2>0, Zenon DEF Only
  <2> metrics'.published = metrics.published + n
    BY Zenon DEF Accounts
  <2>3. CASE \/ n = 0 /\ q \notin Published /\ q \notin Published'
             \/ n = 0 /\ (q \in Published' <=> q \in Published) /\ result'[q] = result[q]
    <3>1. /\ q \in Published' <=> q \in Published
          /\ q \in Published => result'[q] = result[q]
      BY ONLY <2>3, Zenon
    <3>2. Published' = Published /\ \A r \in Published : result'[r] = result[r]
      BY ONLY <2>1, <2>2, <3>1
    <3>3. Copied' = Copied
      BY ONLY <3>2, ZenonT(40) DEF Copied
    <3>4. QED
      BY <2>3, <3>3 DEF AccountInv, RequestInv, TypeOK
  <2>4. CASE q \in Published' /\ q \notin Published /\ result'[q].copies = n
    <3> DEFINE New == {q} \X (1 .. n)
    <3>1. Copied' = Copied \cup New
      <4>1. Published' = Published \cup {q} /\ \A r \in Published : result'[r] = result[r]
        BY <2>1, <2>2, <2>4, Zenon
      <4>2. QED
        BY <2>4, <4>1 DEF Copied
    <3>2. Copied \cap New = {}
      BY <2>4 DEF Copied
    <3>3. IsFiniteSet(New) /\ Cardinality(New) = n
      <4>1. IsFiniteSet(1 .. n) /\ Cardinality(1 .. n) = n
        BY FS_Interval
      <4>2. IsFiniteSet({q}) /\ Cardinality({q}) = 1
        BY FS_Singleton, Zenon
      <4>3. IsFiniteSet(New) /\ Cardinality(New) = Cardinality({q}) * Cardinality(1 .. n)
        BY <4>1, <4>2, FS_Product, Zenon
      <4>4. QED
        BY <4>1, <4>2, <4>3
    <3> HIDE DEF New
    <3>4. IsFiniteSet(Copied) /\ Cardinality(Copied) \in Nat
      BY FS_CardinalityType, Zenon DEF AccountInv
    <3>5. /\ IsFiniteSet(Copied \cup New)
          /\ Cardinality(Copied \cup New)
               = Cardinality(Copied) + Cardinality(New) - Cardinality(Copied \cap New)
      BY <3>3, <3>4, FS_Union, Zenon
    <3>6. Cardinality(Copied \cap New) = 0
      BY <3>2, FS_EmptySet, Zenon
    <3>7. QED
      BY <3>1, <3>3, <3>4, <3>5, <3>6 DEF AccountInv
  <2>5. QED
    BY <2>3, <2>4, Zenon DEF Accounts
<1>8. QED
  BY <1>1, <1>4, <1>5, <1>6, <1>7, Zenon DEF AccountInv

\* Every step keeps the accounts.
LEMMA AccountNext == RequestInv /\ AccountInv /\ [Next]_vars => AccountInv'
<1> SUFFICES ASSUME RequestInv, AccountInv, [Next]_vars PROVE AccountInv'
  BY Zenon
<1>1. CASE Next /\ ~Tick
  BY <1>1, AllBooked, AccountStep, Zenon DEF Booked
<1>2. CASE Tick \/ UNCHANGED vars
  <2>1. UNCHANGED <<outer, inner, req, reply, result, metrics>>
    BY <1>2, Zenon DEF Tick, vars, serving, handler
  <2>2. /\ Begun' = Begun /\ Failed' = Failed /\ Delivered' = Delivered
        /\ Published' = Published /\ Arrived' = Arrived
    BY <2>1 DEF Begun, Failed, Delivered, Published, Replied, Arrived
  <2>3. Copied' = Copied
    BY <2>1, <2>2, Zenon DEF Copied
  <2>4. QED
    BY <2>1, <2>2, <2>3, Zenon DEF AccountInv
<1>3. QED
  BY <1>1, <1>2, Zenon

\* What clients are told and what /metrics says is what the services have done, for
\* any number of requests in any order: every success was one, a refused request
\* never reached a service, and whatever was done is counted once, also by handlers
\* that nobody waits for any more.
THEOREM AccountsAgree == Spec => []Accounted
<1>1. Init => AccountInv
  <2> SUFFICES ASSUME Init PROVE AccountInv
    BY Zenon
  <2>1. Begun = {} /\ Failed = {} /\ Delivered = {} /\ Published = {} /\ Arrived = {}
    BY DEF Init, Begun, Failed, Delivered, Published, Replied, Arrived
  <2>2. Copied = {}
    BY <2>1, Zenon DEF Copied
  <2>3. QED
    BY <2>1, <2>2, FS_EmptySet, Zenon DEF Init, AccountInv
<1>2. RequestInv /\ AccountInv => Accounted
  <2> SUFFICES ASSUME RequestInv, AccountInv PROVE Accounted
    BY Zenon
  <2>1. ASSUME NEW q \in Requests
        PROVE  /\ answer[q] \in {200, 201, 202, 0} => result[q] # None /\ result[q].ok
               /\ answer[q] \in {400, 401, 413, 429, 13, 16} =>
                    result[q] = None /\ inner[q] \in {"none", "done"}
    <3>1. Stages(q) /\ outer[q] \in {"away", "serving", "answered"}
      BY Zenon DEF RequestInv, TypeOK
    <3>2. outer[q] # "away" =>
            /\ RouteOf(q).ok \in Succeeded
            /\ RouteOf(q).fail \in OfService \cup {None}
      BY <3>1, RouteKnown, Zenon DEF Regular
    <3>3. answer[q] = None => answer[q] \notin Nat
      BY ApiConstants, Zenon
    <3>4. QED
      BY <3>1, <3>2, <3>3 DEF Stages, Settled, Succeeded, OfService
  <2>2. QED
    BY <2>1, Zenon DEF AccountInv, Accounted
<1>3. QED
  BY <1>1, <1>2, AccountNext, Requested, PTL DEF Spec
=============================================================================
