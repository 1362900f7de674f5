-------------------------------- MODULE Api ---------------------------------
(***************************************************************************)
(* The HTTP and the gRPC interface: internal/platform/httpx and grpcx.  A  *)
(* request passes the middleware (rate limit, bearer token) in a goroutine *)
(* of its own.  http.TimeoutHandler then runs the handler in a second one, *)
(* and answers without it when the context of the request ends first; the  *)
(* handler goes on.  A gRPC call waits for its handler.                    *)
(*                                                                         *)
(* What a service does is its result here: the routed copies, or an error. *)
(***************************************************************************)
EXTENDS Naturals, FiniteSets

CONSTANTS
  Requests,  \* requests, each made once
  Asks,      \* what each of them may ask for: routes, with a valid token or not
  Rate,      \* Middleware.Rate, 0 for no limit
  Anonymous, \* AllowAnonymous
  Second,    \* ticks of the clock in a second
  Timeout,   \* ticks until a handler is given up
  Copies,    \* numbers of copies a publication may be routed to
  None,      \* nothing yet
  MaxTime    \* bound on the time of the arrivals

ASSUME ApiConstants ==
  /\ Rate \in Nat
  /\ Anonymous \in BOOLEAN
  /\ Second \in Nat \ {0}
  /\ Timeout \in Nat \ {0}
  /\ Copies \subseteq Nat
  /\ MaxTime \in Nat
  /\ None \notin Nat /\ None \notin [ok : BOOLEAN, copies : Nat]

VARIABLES
  now,
  window,    \* Middleware.window and Middleware.count; no window is None
  count,
  req,       \* what each request asks for
  outer,     \* where the goroutine that serves a request is
  inner,     \* where its handler is
  reply,     \* the status its handler has written
  answer,    \* the status its client was sent
  result,    \* what the service has returned: no error, and how many copies
  metrics,   \* Metrics
  admitted   \* history: when the rate limit let a request pass

limiter == <<window, count, admitted>>
serving == <<outer, answer>>
handler == <<inner, reply, result, metrics>>
vars    == <<now, req, limiter, serving, handler>>

-----------------------------------------------------------------------------
\* A route: what of the request the handler reads before it calls the service
\* ("message" is JSON with a duration in it, "optional" JSON that may be left
\* out, "name" a name that has to be there), and the status of success and of
\* an error of the service; where a service has no error, it is None.
Route(body, ok, fail) == [body |-> body, ok |-> ok, fail |-> fail]

Probes ==
  [health  |-> Route("nothing", 200, None),
   ready   |-> Route("nothing", 200, None),
   metrics |-> Route("nothing", 200, None),
   status  |-> Route("nothing", 200, None)]

AddressRoutes ==
  [createAddress |-> Route("json", 201, 422),
   listAddresses |-> Route("nothing", 200, 500),
   createBinding |-> Route("json", 201, 422),
   listBindings  |-> Route("nothing", 200, 500),
   depth         |-> Route("nothing", 200, 404),
   pause         |-> Route("json", 200, 404),
   replay        |-> Route("optional", 200, 500)]

TransactionRoutes ==
  [connections         |-> Route("nothing", 200, None),
   transaction         |-> Route("nothing", 200, 404),
   declareTransaction  |-> Route("json", 201, 422),
   commitTransaction   |-> Route("nothing", 200, 409),
   rollbackTransaction |-> Route("nothing", 200, 409)]

MessageRoutes ==
  [publish        |-> Route("message", 201, 422),
   stagePublish   |-> Route("message", 202, 409),
   createConsumer |-> Route("json", 201, 422),
   acquire        |-> Route("nothing", 200, 409),
   settle         |-> Route("json", 200, 409),
   ensureLease    |-> Route("nothing", 201, 409),
   leases         |-> Route("nothing", 200, 500)]

\* gRPC: codes OK, InvalidArgument, NotFound.
Grpc ==
  [Health          |-> Route("nothing", 0, None),
   CreateAddress   |-> Route("json", 0, 3),
   GetDepth        |-> Route("name", 0, 5),
   PauseAddress    |-> Route("nothing", 0, 5),
   ListConnections |-> Route("nothing", 0, None),
   GetTransaction  |-> Route("nothing", 0, 5)]

Http(ask) == ask.route \notin DOMAIN Grpc

Routes ==
  [r \in UNION {DOMAIN Probes, DOMAIN AddressRoutes, DOMAIN TransactionRoutes,
                DOMAIN MessageRoutes, DOMAIN Grpc} |->
     CASE r \in DOMAIN Probes            -> Probes[r]
       [] r \in DOMAIN AddressRoutes     -> AddressRoutes[r]
       [] r \in DOMAIN TransactionRoutes -> TransactionRoutes[r]
       [] r \in DOMAIN MessageRoutes     -> MessageRoutes[r]
       [] r \in DOMAIN Grpc              -> Grpc[r]]

\* A request that matches no route is not modelled.
ASSUME AskedRoutes == \A q \in Requests : \A ask \in Asks[q] : ask.route \in DOMAIN Routes

RouteOf(q) == Routes[req[q].route]

Authorized(ask) ==
  Anonymous \/ ask.route \in {"health", "ready", "metrics", "Health"} \/ ask.token

-----------------------------------------------------------------------------
\* The outer goroutine writes its answer and is done.
Answer(q, status) ==
  /\ outer' = [outer EXCEPT ![q] = "answered"]
  /\ answer' = [answer EXCEPT ![q] = status]

Serve(q) ==
  /\ outer' = [outer EXCEPT ![q] = "serving"]
  /\ inner' = [inner EXCEPT ![q] = "start"]
  /\ UNCHANGED <<answer, reply, result, metrics>>

Refuse(q, status) == Answer(q, status) /\ UNCHANGED handler

\* Middleware.allow: whether a new window begins, the requests counted in the
\* window, and the count with this request.
Fresh   == window = None \/ now - window >= Second
Counted == IF Fresh THEN 0 ELSE count
allow   == Rate = 0 \/ Counted < Rate

\* Mutation: requests that are refused are counted as well.
CountedNextAlways == Counted + 1

\* Mutation: nothing is counted.
CountedNextNever == Counted

CountedNext == IF allow THEN Counted + 1 ELSE Counted

Limit(q) ==
  /\ IF Rate = 0 THEN UNCHANGED <<window, count>>
     ELSE window' = (IF Fresh THEN now ELSE window) /\ count' = CountedNext
  /\ admitted' = IF allow THEN [admitted EXCEPT ![q] = now] ELSE admitted

\* A request arrives.  A bound: within MaxTime.
Arrive(q, ask) ==
  /\ outer[q] = "away"
  /\ now <= MaxTime
  /\ req' = [req EXCEPT ![q] = ask]
  /\ UNCHANGED now

\* limit, authenticate and the start of TimeoutHandler.
HttpRequest(q, ask) ==
  /\ Arrive(q, ask)
  /\ Http(ask)
  /\ Limit(q)
  /\ IF ~allow THEN Refuse(q, 429)
     ELSE IF ~Authorized(ask) THEN Refuse(q, 401)
     ELSE Serve(q)

\* dispatch and interceptor.  The message is unmarshalled before the token is
\* looked at.  The timeout of a call with a token ends its context, which may
\* make the service fail, and nothing else.
GrpcRequest(q, ask) ==
  /\ Arrive(q, ask)
  /\ ~Http(ask)
  /\ \/ Refuse(q, 13)
     \/ ~Authorized(ask) /\ Refuse(q, 16)
     \/ Authorized(ask) /\ Serve(q)
  /\ UNCHANGED limiter

\* Mutation: the timeout ends the context, and the handler is waited for.
TimedOutWaits(q) == now >= admitted[q] + Timeout /\ inner[q] \in {"done", "panicked"}

\* TimeoutHandler's timer was started when the request was let in.
TimedOut(q) == now >= admitted[q] + Timeout

-----------------------------------------------------------------------------
\* The handler.
Goto(q, label) == inner' = [inner EXCEPT ![q] = label]

Write(q, status) ==
  /\ Goto(q, "done")
  /\ reply' = [reply EXCEPT ![q] = status]

Add(counter, n) == metrics' = [metrics EXCEPT ![counter] = @ + n]

\* Server.fail
fail(q, status) ==
  /\ Write(q, status)
  /\ IF Http(req[q]) THEN Add("failures", 1) ELSE UNCHANGED metrics

\* What instrument adds to Metrics.Requests.
Instrumented(q) == IF Http(req[q]) THEN 1 ELSE 0

\* instrument, decode, publishRequest.domain, and the checks of the gRPC
\* handlers.  JSON that cannot be decoded is not counted as a failure, a duration
\* that cannot be is.
Decode(q) ==
  /\ inner[q] = "start"
  /\ LET body == RouteOf(q).body
     IN  \/ Goto(q, "call") /\ UNCHANGED reply
         \/ /\ body # "nothing"
            /\ \E status \in IF Http(req[q]) THEN {400, 413} ELSE {3} : Write(q, status)
         \/ body = "message" /\ Write(q, 422)
  /\ metrics' = [metrics EXCEPT !.requests = @ + Instrumented(q),
                                !.failures = @ + IF reply'[q] = 422 THEN 1 ELSE 0]
  /\ UNCHANGED <<now, req, limiter, serving, result>>

\* The service returns.
Return(q) ==
  /\ inner[q] = "call"
  /\ \/ /\ RouteOf(q).fail # None
        /\ result' = [result EXCEPT ![q] = [ok |-> FALSE, copies |-> 0]]
        /\ fail(q, RouteOf(q).fail)
     \/ /\ \E n \in IF req[q].route = "publish" THEN Copies ELSE {1} :
             result' = [result EXCEPT ![q] = [ok |-> TRUE, copies |-> n]]
        /\ Goto(q, "reply")
        /\ UNCHANGED <<reply, metrics>>
  /\ UNCHANGED <<now, req, limiter, serving>>

\* Mutation: what nobody waits for any more is not counted.
RoutedUnlessLate(q) == IF outer[q] = "serving" THEN result[q].copies ELSE 0

\* The copies publish counts.
Routed(q) == result[q].copies

Reply(q) ==
  /\ inner[q] = "reply"
  /\ Write(q, RouteOf(q).ok)
  /\ CASE req[q].route = "publish" -> Add("published", Routed(q))
       [] req[q].route = "acquire" -> Add("delivered", 1)
       [] OTHER                    -> UNCHANGED metrics
  /\ UNCHANGED <<now, req, limiter, serving, result>>

\* A panic in a gRPC handler is recovered by nobody and ends the process.
Panic(q) ==
  /\ inner[q] \in {"call", "reply"}
  /\ Http(req[q])
  /\ Goto(q, "panicked")
  /\ UNCHANGED <<now, req, limiter, serving, reply, result, metrics>>

-----------------------------------------------------------------------------
\* TimeoutHandler: the answer is the handler's, if it is there; a panic of the
\* handler is one of the outer goroutine, which recoverer answers.
Finish(q) ==
  /\ outer[q] = "serving"
  /\ \/ inner[q] = "done" /\ Answer(q, reply[q])
     \/ inner[q] = "panicked" /\ Answer(q, 500)
  /\ UNCHANGED <<now, req, limiter, handler>>

\* Its timer answers for the handler.
Expire(q) ==
  /\ outer[q] = "serving"
  /\ Http(req[q])
  /\ TimedOut(q)
  /\ Answer(q, 503)
  /\ UNCHANGED <<now, req, limiter, handler>>

\* A client that is gone has ended the context of its request as well.
Hangup(q) ==
  /\ outer[q] = "serving"
  /\ Http(req[q])
  /\ Answer(q, 503)
  /\ UNCHANGED <<now, req, limiter, handler>>

\* The clock goes on as long as there may be arrivals or timeouts.
Tick ==
  /\ \/ now < MaxTime
     \/ \E q \in Requests : outer[q] = "serving" /\ Http(req[q]) /\ now < admitted[q] + Timeout
  /\ now' = now + 1
  /\ UNCHANGED <<req, limiter, serving, handler>>

Init ==
  /\ now = 0
  /\ window = None /\ count = 0
  /\ req = [q \in Requests |-> None]
  /\ outer = [q \in Requests |-> "away"]
  /\ inner = [q \in Requests |-> "none"]
  /\ reply = [q \in Requests |-> None]
  /\ answer = [q \in Requests |-> None]
  /\ result = [q \in Requests |-> None]
  /\ metrics = [requests |-> 0, failures |-> 0, published |-> 0, delivered |-> 0]
  /\ admitted = [q \in Requests |-> None]

Outer(q) == Finish(q) \/ Expire(q)
Inner(q) == Decode(q) \/ Return(q) \/ Reply(q) \/ Panic(q)

Next ==
  \/ \E q \in Requests :
       \/ \E ask \in Asks[q] : HttpRequest(q, ask) \/ GrpcRequest(q, ask)
       \/ Outer(q)
       \/ Inner(q)
       \/ Hangup(q)
  \/ Tick

Spec == Init /\ [][Next]_vars

\* The clock goes on and the goroutine that serves a request is scheduled.
\* Nothing is assumed of handlers: a service may never return.
FairSpec ==
  /\ Spec
  /\ WF_vars(Tick)
  /\ \A q \in Requests : WF_vars(Outer(q))

-----------------------------------------------------------------------------
(* Properties the code has.                                                *)

Statuses == {200, 201, 202, 400, 401, 404, 409, 413, 422, 429, 500, 503, 0, 3, 5, 13, 16}

\* Every variable has its type, and no window counts more than Rate requests.
TypeOK ==
  /\ now \in Nat
  /\ window \in Nat \cup {None}
  /\ count \in 0 .. Rate
  /\ req \in [Requests -> (UNION {Asks[q] : q \in Requests}) \cup {None}]
  /\ outer \in [Requests -> {"away", "serving", "answered"}]
  /\ inner \in [Requests -> {"none", "start", "call", "reply", "done", "panicked"}]
  /\ reply \in [Requests -> Statuses \cup {None}]
  /\ answer \in [Requests -> Statuses \cup {None}]
  /\ result \in [Requests -> [ok : BOOLEAN, copies : Nat] \cup {None}]
  /\ metrics \in [{"requests", "failures", "published", "delivered"} -> Nat]
  /\ admitted \in [Requests -> Nat \cup {None}]

\* Windows begin with a request and not with the second, so that the end of one
\* and the beginning of the next may fall together: fewer than twice Rate
\* requests pass in any second, wherever it begins, and no more than that is
\* promised.
RateBounded ==
  Rate > 0 =>
    \A t \in 0 .. now :
      Cardinality({q \in Requests : admitted[q] \in t .. t + Second - 1}) < 2 * Rate

Begun == {q \in Requests : inner[q] \notin {"none", "start"} /\ Http(req[q])}

\* The HTTP requests whose handlers have replied with one of the statuses.
Replied(statuses) ==
  {q \in Requests : inner[q] = "done" /\ Http(req[q]) /\ reply[q] \in statuses}

Failed    == Replied({404, 409, 422, 500})
Published == {q \in Replied({201}) : req[q].route = "publish"}
Delivered == {q \in Replied({200}) : req[q].route = "acquire"}

\* The copies of publications, numbered.
Copied == UNION {{q} \X (1 .. result[q].copies) : q \in Published}

\* What clients are told and what /metrics says is what the services have done.
\* A success was one.  A request that was answered with an error of its own
\* making has not reached a service and never will.  Every request that was let
\* in, every error of a service, every copy and every delivery is counted once,
\* those of handlers that nobody waits for included.
Accounted ==
  /\ \A q \in Requests :
       /\ answer[q] \in {200, 201, 202, 0} => result[q] # None /\ result[q].ok
       /\ answer[q] \in {400, 401, 413, 429, 13, 16} =>
            result[q] = None /\ inner[q] \in {"none", "done"}
  /\ metrics.requests = Cardinality(Begun)
  /\ metrics.failures = Cardinality(Failed)
  /\ metrics.published = Cardinality(Copied)
  /\ metrics.delivered = Cardinality(Delivered)

\* Every HTTP request is answered, whatever its handler does: the rate limit and
\* the token are decided at once, and the timeout does not wait for the handler.
EventuallyAnswered ==
  \A q \in Requests :
    (outer[q] = "serving" /\ Http(req[q])) ~> (outer[q] = "answered")
=============================================================================
