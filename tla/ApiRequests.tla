----------------------------- MODULE ApiRequests -----------------------------
(***************************************************************************)
(* What the API process does with an HTTP request, between the server that *)
(* hands it over and the services.  From the outside inwards, a request    *)
(* passes                                                                  *)
(*                                                                         *)
(*   the rate limiter      may answer 429                                  *)
(*   the API key check     may answer 401                                  *)
(*   the IP allow list     may answer 403, on the callback routes          *)
(*   the security headers  dress every answer that comes from within       *)
(*   exception handlers    turn exceptions from within into answers        *)
(*   validation            may raise RequestValidationError                *)
(*   the route                                                             *)
(*                                                                         *)
(* and whatever nobody handles becomes a bare 500 outside of all of them.  *)
(* The rate limiter's verdict and what the services return or raise are    *)
(* inputs here: RateLimiter and PaymentSystem say which they can be.       *)
(***************************************************************************)
EXTENDS RequestSchemas

CONSTANT Hits   \* the requests that arrive

VARIABLES
  phase,      \* the API process is "down" or "serving"
  settings,   \* the settings it was started with
  env,        \* env.db: PostgreSQL is "up", "down" or "hung"; env.redis: Redis answers
  place,      \* place[h]: how far request h has come
  request,    \* request[h]: the request, once it has arrived
  answer,     \* answer[h]: the answer that was sent, or NoAnswer
  raised,     \* raised[h]: the exception that ended the work on h, or "none"
  healthy,    \* healthy[h]: all_healthy in the readiness probe h
  seen        \* history: seen[h]: what env has shown while the probe h ran

hitVars == <<place, request, answer, raised, healthy, seen>>
vars    == <<phase, settings, env, hitVars>>

Setting == [production : BOOLEAN,   \* daraja_base_url is not the sandbox
            trust      : BOOLEAN,   \* trust_callback_ips_in_sandbox
            sentry     : BOOLEAN]   \* sentry_dsn is set

\* Bodies and ids: "incomplete" lacks a field, or has one of a wrong type or
\* length; "rejected" fails one of the request's own validators, such as
\* normalise_phone; "unreadable" is an envelope whose stkCallback is missing or
\* does not validate.  Addresses are on the allow list, others, or no addresses
\* at all: `peer` is the one at the other end of the connection, `forwarded` what
\* the request's X-Forwarded-For header begins with, if it has one.  Of their
\* combinations there are those that ClientAddress tells apart.
Request ==
  [route : {"initiate"}, key : BOOLEAN, peer : {"other"}, forwarded : {"none"},
   body  : {"valid", "incomplete", "rejected"}]
  \cup [route : {"status"}, key : BOOLEAN, peer : {"other"}, forwarded : {"none"},
        body  : {"known", "unknown", "notUuid"}]
  \cup [route : {"callback"}, key : {FALSE}, peer : {"listed"}, forwarded : {"none", "other"},
        body  : {"valid", "unreadable", "incomplete"}]
  \cup [route : {"callback"}, key : {FALSE}, peer : {"other"},
        forwarded : {"none", "listed", "garbled"},
        body  : {"valid", "unreadable", "incomplete"}]
  \cup [route : {"health", "ready"}, key : {FALSE}, peer : {"other"}, forwarded : {"none"},
        body  : {"none"}]
NoRequest == [route |-> "none", key |-> FALSE, peer |-> "other", forwarded |-> "none",
              body  |-> "none"]

\* A hung PostgreSQL takes statements and does not answer them: no timeout of the
\* code's ends such a wait, only that for a connection of the pool ends
Env == [db : {"up", "down", "hung"}, redis : BOOLEAN]

\* What a look at env may show
Shows(e) ==
  {what \in {"dbUp", "redisUp", "trouble"} :
     CASE what = "dbUp"    -> e.db = "up"
       [] what = "redisUp" -> e.redis
       [] what = "trouble" -> e.db # "up" \/ ~e.redis}

Dressed(status) == [status |-> status, dressed |-> TRUE]
Bare500  == [status |-> 500, dressed |-> FALSE]
NoAnswer == [status |-> 0, dressed |-> FALSE]

-----------------------------------------------------------------------------
(***************************************************************************)
(* Exceptions.                                                             *)
(***************************************************************************)

\* The classes of an exception, from its own up to the most general one
Lineage ==
  [none                   |-> <<>>,
   RequestValidationError |-> <<"RequestValidationError">>,
   ValidatorError         |-> <<"RequestValidationError">>,
   PaymentNotFoundError   |-> <<"PaymentNotFoundError", "DomainError", "AppError">>,
   DuplicatePaymentError  |-> <<"DuplicatePaymentError", "DomainError", "AppError">>,
   DarajaError            |-> <<"DarajaError", "InfraError", "AppError">>,
   DarajaAuthError        |-> <<"DarajaAuthError", "DarajaError", "InfraError", "AppError">>,
   DarajaCircuitOpenError |-> <<"DarajaCircuitOpenError", "DarajaError", "InfraError", "AppError">>,
   Other                  |-> <<>>]

Exception == DOMAIN Lineage

\* The handlers that create_app registers, and their status codes
HandlerStatus ==
  [RequestValidationError |-> 422, PaymentNotFoundError   |-> 404,
   DuplicatePaymentError  |-> 409, RateLimitError         |-> 429,
   DarajaCircuitOpenError |-> 503, DarajaError            |-> 502,
   DomainError            |-> 400, AppError               |-> 500]

\* Two exceptions put something into the answer that is no JSON: a set, and the
\* ValueError of the validator.  Rendering them raises a TypeError.
Unrenderable == {"DuplicatePaymentError", "ValidatorError"}

\* (mistake: a handler serves only the class it is registered for)
AnswerToExactClass(exc) ==
  IF exc \in DOMAIN HandlerStatus \ Unrenderable THEN Dressed(HandlerStatus[exc]) ELSE Bare500

\* The handler of the nearest class answers, within the headers
AnswerTo(exc) ==
  LET line    == Lineage[exc]
      nearest == {i \in DOMAIN line : /\ line[i] \in DOMAIN HandlerStatus
                                      /\ \A j \in 1 .. i - 1 : line[j] \notin DOMAIN HandlerStatus}
  IN  IF nearest = {} \/ exc \in Unrenderable
        THEN Bare500
        ELSE Dressed(HandlerStatus[line[CHOOSE i \in nearest : TRUE]])

-----------------------------------------------------------------------------
(***************************************************************************)
(* Layers.                                                                 *)
(***************************************************************************)

\* Those of the prefixes that the layers look for with which a route's path begins
Begins ==
  [initiate |-> {"/"},
   status   |-> {"/"},
   callback |-> {"/", "/api/v1/callback/"},
   health   |-> {"/", "/health"},
   ready    |-> {"/", "/ready"}]

\* _EXEMPT_PREFIXES (of the API's own routes); every path begins with "/"
ExemptPrefixes == {"/api/v1/callback/", "/health", "/", "/ready"}

AsksForKey(route) == Begins[route] \cap ExemptPrefixes = {}

ChecksAddress(route) == "/api/v1/callback/" \in Begins[route] /\ ~settings.trust

\* _extract_client_ip: what the header says goes before whom the request is from
ClientAddress(req) == IF req.forwarded = "none" THEN req.peer ELSE req.forwarded

\* What the layers outside of the headers answer, if they answer.  An address
\* that is none raises a ValueError, which the allow list does not catch.
Screened(req) ==
  IF AsksForKey(req.route) /\ ~req.key THEN [status |-> 401, dressed |-> FALSE]
  ELSE IF ~ChecksAddress(req.route) \/ ClientAddress(req) = "listed" THEN NoAnswer
  ELSE IF ClientAddress(req) = "garbled" THEN Bare500
  ELSE [status |-> 403, dressed |-> FALSE]

\* What the validation of a request raises
Invalid(req) ==
  IF req.body = "incomplete" THEN "RequestValidationError"
  ELSE IF req.body = "rejected" THEN "ValidatorError"
  ELSE "none"

-----------------------------------------------------------------------------
(***************************************************************************)
(* The process.                                                            *)
(***************************************************************************)

Init ==
  /\ phase    = "down"
  /\ settings = [production |-> FALSE, trust |-> FALSE, sentry |-> FALSE]
  /\ env      = [db |-> "up", redis |-> TRUE]
  /\ place    = [h \in Hits |-> "idle"]
  /\ request  = [h \in Hits |-> NoRequest]
  /\ answer   = [h \in Hits |-> NoAnswer]
  /\ raised   = [h \in Hits |-> "none"]
  /\ healthy  = [h \in Hits |-> TRUE]
  /\ seen     = [h \in Hits |-> {}]

Probing == {"probeDb", "probeRedis"}
InHand  == {"limiter", "service", "query", "background"} \cup Probing
Ended   == {"answered", "processed", "failed", "lost"}

TypeOK ==
  /\ phase    \in {"down", "serving"}
  /\ settings \in Setting
  /\ env      \in Env
  /\ place    \in [Hits -> {"idle"} \cup InHand \cup Ended]
  /\ request  \in [Hits -> Request \cup {NoRequest}]
  /\ answer   \in [Hits -> [status  : {0, 200, 202, 400, 401, 403, 404, 409, 422, 429, 500, 502, 503},
                            dressed : BOOLEAN]]
  /\ raised   \in [Hits -> Exception]
  /\ healthy  \in [Hits -> BOOLEAN]
  /\ seen     \in [Hits -> SUBSET {"dbUp", "redisUp", "trouble"}]
  /\ \A h \in Hits : place[h] \in InHand => phase = "serving"

\* (mistake: the check takes the sandbox for production)
ProdSafetyChecksInSandbox(s) == ~(~s.production /\ s.trust)

\* prod_safety_checks, of what is kept here
ProdSafetyChecks(s) == ~(s.production /\ s.trust)

\* sentry_sdk.init does not know the option service_name
ConfigureSentry(s) == ~s.sentry

\* A process starts whether or not PostgreSQL and Redis answer
Startable(s) == ProdSafetyChecks(s) /\ ConfigureSentry(s)

Start ==
  /\ phase = "down"
  /\ phase' = "serving"
  /\ settings' \in {s \in Setting : Startable(s)}
  /\ UNCHANGED <<env, hitVars>>

\* (mistake: the process does not wait for what it has in hand)
StopAtOnce ==
  /\ phase = "serving"
  /\ phase' = "down"
  /\ UNCHANGED <<settings, env, hitVars>>

\* The server lets requests and background tasks finish before the lifespan
\* closes the connections
Stop ==
  /\ phase = "serving"
  /\ \A h \in Hits : place[h] \notin InHand
  /\ phase' = "down"
  /\ UNCHANGED <<settings, env, hitVars>>

\* The process dies: answers that were not sent, and work that was to follow an
\* answer, are lost.
Crash ==
  /\ phase = "serving"
  /\ phase' = "down"
  /\ place' = [h \in Hits |-> IF place[h] \in InHand THEN "lost" ELSE place[h]]
  /\ seen'  = [h \in Hits |-> {}]
  /\ UNCHANGED <<settings, env, request, answer, raised, healthy>>

\* PostgreSQL or Redis fails or comes back
Outage ==
  /\ env' \in Env \ {env}
  /\ env'.db = env.db \/ env'.redis = env.redis
  /\ seen' = [h \in Hits |-> IF place[h] \in Probing THEN seen[h] \cup Shows(env') ELSE seen[h]]
  /\ UNCHANGED <<phase, settings, place, request, answer, raised, healthy>>

-----------------------------------------------------------------------------
(***************************************************************************)
(* A request.                                                              *)
(***************************************************************************)

Send(h, what) == answer' = [answer EXCEPT ![h] = what]
GoTo(h, where) == place' = [place EXCEPT ![h] = where]

Return(h, status) ==
  Send(h, Dressed(status)) /\ GoTo(h, "answered") /\ UNCHANGED raised

Raise(h, exc) ==
  /\ Send(h, AnswerTo(exc))
  /\ GoTo(h, "answered")
  /\ raised' = [raised EXCEPT ![h] = exc]

Arrive(h) ==
  /\ phase = "serving" /\ place[h] = "idle"
  /\ request' \in {[request EXCEPT ![h] = req] : req \in Request}
  /\ GoTo(h, "limiter")
  /\ UNCHANGED <<phase, settings, env, answer, raised, healthy, seen>>

\* Only a Redis that answers can deny
Deny(h) ==
  /\ place[h] = "limiter" /\ env.redis
  /\ Send(h, [status |-> 429, dressed |-> FALSE])
  /\ GoTo(h, "answered")
  /\ UNCHANGED <<phase, settings, env, request, raised, healthy, seen>>

\* (mistake: the callback is processed before it is answered)
HandleCallbackInline(h) ==
  IF request[h].body = "valid" /\ env.db # "up"
    THEN Raise(h, "Other") ELSE Return(h, 200)

\* An envelope that cannot be read is acknowledged and forgotten
HandleCallback(h) ==
  IF request[h].body = "valid"
    THEN Send(h, Dressed(200)) /\ GoTo(h, "background") /\ UNCHANGED raised
    ELSE Return(h, 200)

\* The route, up to its first await
Handle(h) ==
  CASE request[h].route = "initiate" -> GoTo(h, "service") /\ UNCHANGED <<answer, raised>>
    [] request[h].route = "status"   -> GoTo(h, "query") /\ UNCHANGED <<answer, raised>>
    [] request[h].route = "callback" -> HandleCallback(h)
    [] request[h].route = "health"   -> Return(h, 200)
    [] request[h].route = "ready"    -> GoTo(h, "probeDb") /\ UNCHANGED <<answer, raised>>

\* The rate limiter admits the request or fails open; nothing awaits from here
\* to the route's first await.
Admit(h) ==
  /\ place[h] = "limiter"
  /\ IF Screened(request[h]) # NoAnswer
       THEN Send(h, Screened(request[h])) /\ GoTo(h, "answered") /\ UNCHANGED raised
       ELSE IF Invalid(request[h]) # "none"
              THEN Raise(h, Invalid(request[h]))
              ELSE Handle(h)
  /\ seen' = [seen EXCEPT ![h] = IF place'[h] = "probeDb" THEN Shows(env) ELSE {}]
  /\ UNCHANGED <<phase, settings, env, request, healthy>>

\* What initiate_stk_push can end with.  That the circuit is open is never
\* raised in fact (see DarajaClient), but it has its handler.
Initiate(h) ==
  /\ place[h] = "service"
  /\ \/ Return(h, 202)
     \/ \E exc \in {"DuplicatePaymentError", "DarajaError", "DarajaAuthError",
                    "DarajaCircuitOpenError", "Other"} : Raise(h, exc)
  /\ UNCHANGED <<phase, settings, env, request, healthy, seen>>

\* PostgreSQL refuses an id that is no UUID.  Here and below, a PostgreSQL that
\* hangs may fail the statement, for want of a connection, or never answer it.
QueryStatus(h) ==
  /\ place[h] = "query"
  /\ IF env.db # "up" \/ request[h].body = "notUuid" THEN Raise(h, "Other")
     ELSE IF request[h].body = "unknown" THEN Raise(h, "PaymentNotFoundError")
     ELSE Return(h, 200)
  /\ UNCHANGED <<phase, settings, env, request, healthy, seen>>

ProbeDb(h) ==
  /\ place[h] = "probeDb"
  /\ healthy' = [healthy EXCEPT ![h] = (env.db = "up")]
  /\ GoTo(h, "probeRedis")
  /\ UNCHANGED <<phase, settings, env, request, answer, raised, seen>>

\* (mistake: the second check overwrites what the first one found)
ProbeRedisOnly(h) ==
  /\ place[h] = "probeRedis"
  /\ Return(h, IF env.redis THEN 200 ELSE 503)
  /\ seen' = [seen EXCEPT ![h] = {}]
  /\ UNCHANGED <<phase, settings, env, request, healthy>>

ProbeRedis(h) ==
  /\ place[h] = "probeRedis"
  /\ Return(h, IF healthy[h] /\ env.redis THEN 200 ELSE 503)
  /\ seen' = [seen EXCEPT ![h] = {}]
  /\ UNCHANGED <<phase, settings, env, request, healthy>>

\* (mistake: the callback is processed again until the database answers)
BackgroundUntilDone(h) ==
  /\ place[h] = "background" /\ env.db = "up"
  /\ GoTo(h, "processed")
  /\ UNCHANGED <<phase, settings, env, request, answer, raised, healthy, seen>>

\* The task that follows the answer.  Its exceptions are logged, no more; a
\* duplicate is recognised without the database.
Background(h) ==
  /\ place[h] = "background"
  /\ \/ (env.db = "up" \/ env.redis) /\ GoTo(h, "processed")
     \/ env.db # "up" /\ GoTo(h, "failed")
  /\ UNCHANGED <<phase, settings, env, request, answer, raised, healthy, seen>>

HitStep(h) ==
  \/ Deny(h) \/ Admit(h) \/ Initiate(h) \/ QueryStatus(h)
  \/ ProbeDb(h) \/ ProbeRedis(h) \/ Background(h)

Next ==
  \/ Start \/ Stop \/ Crash \/ Outage
  \/ \E h \in Hits : Arrive(h) \/ HitStep(h)

Spec == Init /\ [][Next]_vars

\* A statement of the request's may be waiting for a PostgreSQL that hangs
WaitsForHung(h) ==
  env.db = "hung" /\ place[h] \in {"service", "query", "probeDb", "background"}

\* The event loop resumes a request whose await has ended.  Those on Redis, on
\* Daraja and on a connection of the pool end, because they have timeouts.
FairSpec == Spec /\ \A h \in Hits : WF_vars(~WaitsForHung(h) /\ HitStep(h))

-----------------------------------------------------------------------------
\* Whatever becomes of PostgreSQL and Redis, a callback that passes for one of
\* Safaricom's and can be read is acknowledged before it is worked on, unless the
\* rate limiter sends it away; it is never answered with an error that its
\* processing ran into.  That the work succeeds is not said: see Background.
AckWhateverFails ==
  \A h \in Hits :
    (/\ request[h].route = "callback" /\ ClientAddress(request[h]) = "listed"
     /\ request[h].body = "valid" /\ answer[h] # NoAnswer)
      => \/ answer[h].status = 429
         \/ answer[h] = Dressed(200)
            /\ place[h] \in {"background", "processed", "failed", "lost"}

\* A process that talks to the production Daraja works on no callback unless the
\* address it reads for it is one of Safaricom's, however often it is started anew
\* with other settings: the check of the settings and the allow list fit together.
\* That the callback is Safaricom's (ip_allowlist.py:2, "only requests coming from
\* Safaricoms Known callback IPs") does not follow, and is not so: where no proxy
\* in front of the process sets X-Forwarded-For, it says what its sender wants.
ProductionCallbacksAreListed ==
  \A h \in Hits :
    (place[h] = "background" /\ settings.production)
      => \/ request[h].forwarded = "listed"
         \/ request[h].forwarded = "none" /\ request[h].peer = "listed"

\* Whichever of the texts a request for a payment came with, its phone number
\* has been read as that of the subscriber it spells, with or without separators
\* and plus sign, and what spells none was rejected: no two spellings become one
\* subscriber's by mistake.
PhoneIsRead == \A h \in Hits : place[h] = "service" => Misread = {}

\* The answers without security headers are the refusals of the outer layers
\* and the errors that no handler could answer; every other error of the
\* service's own classes gets its handler's answer.
BareAnswersAreKnown ==
  \A h \in Hits :
    (answer[h] # NoAnswer /\ ~answer[h].dressed)
      => \/ answer[h].status \in {403, 429}
         \/ answer[h].status = 500
            /\ \/ request[h].route = "callback" /\ request[h].forwarded = "garbled"
               \/ raised[h] \in {"Other", "DuplicatePaymentError", "ValidatorError"}

\* The readiness probe looks at PostgreSQL and Redis one after the other while
\* both come and go: it says ready only if each answered at some time since it
\* began, and not ready only if one of them was down at some time.
ReadyIsTrue ==
  [][\A h \in Hits :
       (place[h] = "probeRedis" /\ place'[h] = "answered")
         => IF answer'[h].status = 200
              THEN {"dbUp", "redisUp"} \subseteq seen[h]
              ELSE "trouble" \in seen[h]]_vars

\* A request that has arrived, and the work that follows its answer, come to an
\* end, though PostgreSQL or Redis may stay down for ever, or to a statement that
\* a hung PostgreSQL leaves without an answer: whatever else is in its way ends.
HitsEnd == \A h \in Hits : (place[h] \in InHand) ~> (place[h] \in Ended \/ WaitsForHung(h))
=============================================================================
