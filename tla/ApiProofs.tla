------------------------------ MODULE ApiProofs ------------------------------
(***************************************************************************)
(* Proofs about ApiRequests, for any set of requests.                      *)
(***************************************************************************)
EXTENDS ApiRequests, SchemaProofs, TLAPS

Status == {0, 200, 202, 400, 401, 403, 404, 409, 422, 429, 500, 502, 503}
Answer == [status : Status, dressed : BOOLEAN]
Sights == {"dbUp", "redisUp", "trouble"}

-----------------------------------------------------------------------------
\* Every exception is answered with one of the handlers' status codes, or bare
LEMMA AnswerToType ==
  ASSUME NEW exc \in Exception
  PROVE  AnswerTo(exc) \in Answer
<1> DEFINE line    == Lineage[exc]
           nearest == {i \in DOMAIN line : /\ line[i] \in DOMAIN HandlerStatus
                                           /\ \A j \in 1 .. i - 1 : line[j] \notin DOMAIN HandlerStatus}
<1>1. \A class \in DOMAIN HandlerStatus : HandlerStatus[class] \in Status
  BY DEF HandlerStatus, Status
<1>2. ASSUME nearest # {} PROVE line[CHOOSE i \in nearest : TRUE] \in DOMAIN HandlerStatus
  <2>1. (CHOOSE i \in nearest : TRUE) \in nearest
    BY <1>2
  <2> QED
    BY <2>1
<1> QED
  BY <1>1, <1>2 DEF AnswerTo, Answer, Dressed, Bare500, Status

\* The classes that a handler serves are answered within the headers
LEMMA HandledIsDressed ==
  ASSUME NEW exc \in Exception,
         exc \notin {"none", "Other", "DuplicatePaymentError", "ValidatorError"}
  PROVE  AnswerTo(exc).dressed
<1> DEFINE line    == Lineage[exc]
           nearest == {i \in DOMAIN line : /\ line[i] \in DOMAIN HandlerStatus
                                           /\ \A j \in 1 .. i - 1 : line[j] \notin DOMAIN HandlerStatus}
<1>1. DOMAIN HandlerStatus =
        {"RequestValidationError", "PaymentNotFoundError", "DuplicatePaymentError",
         "RateLimitError", "DarajaCircuitOpenError", "DarajaError", "DomainError", "AppError"}
  BY DEF HandlerStatus
<1>2. CASE exc = "DarajaAuthError"
  <2>1. 2 \in DOMAIN line /\ line[1] = "DarajaAuthError" /\ line[2] = "DarajaError"
    BY <1>2 DEF Lineage
  <2>2. 2 \in nearest
    BY <1>1, <2>1
  <2> QED
    BY <2>2, <1>2 DEF AnswerTo, Dressed, Unrenderable
<1>3. CASE exc \in {"RequestValidationError", "PaymentNotFoundError", "DarajaError",
                    "DarajaCircuitOpenError"}
  <2>1. 1 \in DOMAIN line /\ line[1] = exc
    BY <1>3 DEF Lineage
  <2>2. 1 \in nearest
    BY <1>1, <1>3, <2>1
  <2> QED
    BY <2>2, <1>3 DEF AnswerTo, Dressed, Unrenderable
<1> QED
  BY <1>2, <1>3 DEF Exception, Lineage

\* The others are not
LEMMA UnhandledIsBare ==
  ASSUME NEW exc \in {"Other", "DuplicatePaymentError", "ValidatorError"}
  PROVE  AnswerTo(exc) = Bare500
<1>1. exc = "Other" => Lineage[exc] = <<>>
  BY DEF Lineage
<1>2. exc = "Other" => DOMAIN Lineage[exc] = {}
  BY <1>1
<1> QED
  BY <1>2 DEF AnswerTo, Unrenderable

-----------------------------------------------------------------------------
(***************************************************************************)
(* The inductive invariant: what holds of a request at each place of its   *)
(* way, and of the settings of a process that serves.                      *)
(***************************************************************************)

Routed(h) ==
  /\ place[h] = "idle"    => answer[h] = NoAnswer
  /\ place[h] # "idle"    => request[h] \in Request
  /\ place[h] = "service" => request[h].route = "initiate"
  /\ place[h] = "query"   => request[h].route = "status"
  /\ place[h] \in Probing => request[h].route = "ready"
  /\ place[h] = "background" =>
       /\ request[h].route = "callback" /\ request[h].body = "valid"
       /\ ClientAddress(request[h]) = "listed" \/ settings.trust
       /\ answer[h] = Dressed(200)

\* What a probe has seen so far, and what it has made of PostgreSQL
Probed(h) ==
  /\ place[h] \in Probing => Shows(env) \subseteq seen[h]
  /\ place[h] = "probeRedis" => (IF healthy[h] THEN "dbUp" ELSE "trouble") \in seen[h]

\* AckWhateverFails and BareAnswersAreKnown, of one request
Acked(h) ==
  (/\ request[h].route = "callback" /\ ClientAddress(request[h]) = "listed"
   /\ request[h].body = "valid" /\ answer[h] # NoAnswer)
    => \/ answer[h].status = 429
       \/ answer[h] = Dressed(200)
          /\ place[h] \in {"background", "processed", "failed", "lost"}

Accounted(h) ==
  (answer[h] # NoAnswer /\ ~answer[h].dressed)
    => \/ answer[h].status \in {403, 429}
       \/ answer[h].status = 500
          /\ \/ request[h].route = "callback" /\ request[h].forwarded = "garbled"
             \/ raised[h] \in {"Other", "DuplicatePaymentError", "ValidatorError"}

Sound(h) == Routed(h) /\ Probed(h) /\ Acked(h) /\ Accounted(h)

SettingsInv == phase = "serving" => Startable(settings)

HitInv == \A h \in Hits : Sound(h)

IInv == TypeOK /\ SettingsInv /\ HitInv

\* A step of request h leaves the others where they are
Alone(h) ==
  /\ UNCHANGED <<phase, settings, env>>
  /\ \A o \in Hits \ {h} :
       /\ place'[o] = place[o] /\ request'[o] = request[o] /\ answer'[o] = answer[o]
       /\ raised'[o] = raised[o] /\ healthy'[o] = healthy[o] /\ seen'[o] = seen[o]

-----------------------------------------------------------------------------
(***************************************************************************)
(* The layers.                                                             *)
(***************************************************************************)

LEMMA ScreenedType == ASSUME NEW req PROVE Screened(req) \in Answer
  BY DEF Screened, Answer, Status, NoAnswer, Bare500

LEMMA RouteType ==
  ASSUME NEW req \in Request
  PROVE  req.route \in {"initiate", "status", "callback", "health", "ready"}
  BY DEF Request

\* No route asks for a key, and the callback route alone for an address
LEMMA RouteLayers ==
  ASSUME NEW route \in {"initiate", "status", "callback", "health", "ready"}
  PROVE  /\ ~ AsksForKey(route)
         /\ route # "callback" => ~ ChecksAddress(route)
         /\ route = "callback" => ChecksAddress(route) = ~settings.trust
<1>1. "/" \in ExemptPrefixes
  BY DEF ExemptPrefixes
<1>2. "/" \in Begins[route] /\ (route # "callback" => "/api/v1/callback/" \notin Begins[route])
  BY DEF Begins
<1>3. "/api/v1/callback/" \in Begins["callback"]
  BY DEF Begins
<1> QED
  BY <1>1, <1>2, <1>3 DEF AsksForKey, ChecksAddress

\* What the outer layers answer: nothing to a callback of Safaricom's, and
\* nothing but their refusals and a bare 500 to an address that is none
LEMMA ScreenedAnswer ==
  ASSUME NEW req \in Request
  PROVE  /\ Screened(req) # NoAnswer =>
              /\ req.route = "callback" /\ ClientAddress(req) # "listed"
              /\ \/ Screened(req).status = 403
                 \/ Screened(req).status = 500 /\ req.forwarded = "garbled"
         /\ (req.route = "callback" /\ Screened(req) = NoAnswer) =>
              ClientAddress(req) = "listed" \/ settings.trust
<1>1. Screened(req) =
        IF req.route = "callback" /\ ClientAddress(req) # "listed" /\ ~settings.trust
          THEN IF ClientAddress(req) = "garbled" THEN Bare500 ELSE [status |-> 403, dressed |-> FALSE]
          ELSE NoAnswer
  BY RouteType, RouteLayers DEF Screened
<1>2. ClientAddress(req) = "garbled" => req.forwarded = "garbled"
  BY DEF ClientAddress, Request
<1> QED
  BY <1>1, <1>2 DEF NoAnswer, Bare500

-----------------------------------------------------------------------------
(***************************************************************************)
(* One request.                                                            *)
(***************************************************************************)

\* A step of a request leaves the others, the process and its surroundings alone
LEMMA HitIsAlone ==
  ASSUME IInv, NEW h \in Hits, Arrive(h) \/ HitStep(h)
  PROVE  Alone(h)
<1> USE DEF IInv, TypeOK, Alone, GoTo, Send
<1>1. CASE Arrive(h)
  BY <1>1 DEF Arrive
<1>2. CASE Deny(h)
  BY <1>2 DEF Deny
<1>3. CASE Admit(h)
  <2>1. CASE Screened(request[h]) # NoAnswer
    BY <1>3, <2>1 DEF Admit
  <2>2. CASE Screened(request[h]) = NoAnswer /\ Invalid(request[h]) # "none"
    BY <1>3, <2>2 DEF Admit, Raise
  <2>3. CASE Screened(request[h]) = NoAnswer /\ Invalid(request[h]) = "none"
    <3>1. Handle(h) /\ request[h] \in Request
      BY <1>3, <2>3 DEF Admit, HitInv, Sound, Routed
    <3>2. \A o \in Hits \ {h} :
            place'[o] = place[o] /\ answer'[o] = answer[o] /\ raised'[o] = raised[o]
      <4>1. CASE request[h].route = "callback"
        BY <3>1, <4>1 DEF Handle, HandleCallback, Return
      <4>2. CASE request[h].route = "health"
        BY <3>1, <4>2 DEF Handle, Return
      <4>3. CASE request[h].route = "initiate"
        BY <3>1, <4>3 DEF Handle
      <4>4. CASE request[h].route = "status"
        BY <3>1, <4>4 DEF Handle
      <4>5. CASE request[h].route = "ready"
        BY <3>1, <4>5 DEF Handle
      <4> QED
        BY <3>1, <4>1, <4>2, <4>3, <4>4, <4>5, RouteType
    <3> QED
      BY <1>3, <3>2 DEF Admit
  <2> QED
    BY <2>1, <2>2, <2>3
<1>4. CASE Initiate(h)
  BY <1>4 DEF Initiate, Return, Raise
<1>5. CASE QueryStatus(h)
  BY <1>5 DEF QueryStatus, Return, Raise
<1>6. CASE ProbeDb(h)
  BY <1>6 DEF ProbeDb
<1>7. CASE ProbeRedis(h)
  BY <1>7 DEF ProbeRedis, Return
<1>8. CASE Background(h)
  BY <1>8 DEF Background
<1> QED
  BY <1>1, <1>2, <1>3, <1>4, <1>5, <1>6, <1>7, <1>8 DEF HitStep

\* An answer with an exception's status, from wherever the request was served
LEMMA RaiseIsSound ==
  ASSUME IInv, NEW h \in Hits, NEW exc \in Exception \ {"none"}, Raise(h, exc),
         place[h] \in InHand, UNCHANGED <<settings, env, request>>,
         ~(/\ request[h].route = "callback" /\ ClientAddress(request[h]) = "listed"
           /\ request[h].body = "valid")
  PROVE  Sound(h)'
<1>1. /\ place'[h] = "answered" /\ raised'[h] = exc /\ answer'[h] = AnswerTo(exc)
      /\ request'[h] = request[h] /\ request[h] \in Request
  BY DEF Raise, Send, GoTo, IInv, TypeOK, HitInv, Sound, Routed, InHand, Probing
<1>2. Accounted(h)'
  <2>1. CASE exc \in {"Other", "DuplicatePaymentError", "ValidatorError"}
    BY <1>1, <2>1, UnhandledIsBare DEF Accounted, Bare500
  <2>2. CASE exc \notin {"Other", "DuplicatePaymentError", "ValidatorError"}
    BY <1>1, <2>2, HandledIsDressed DEF Accounted
  <2> QED
    BY <2>1, <2>2
<1> QED
  BY <1>1, <1>2 DEF Sound, Routed, Probed, Acked, Probing

LEMMA HitIsSound ==
  ASSUME IInv, NEW h \in Hits, Arrive(h) \/ HitStep(h)
  PROVE  Sound(h)'
<1>0. /\ Sound(h) /\ UNCHANGED <<phase, settings, env>>
      /\ place[h] # "idle" => request[h] \in Request
  BY HitIsAlone DEF IInv, HitInv, Sound, Routed, Alone
<1>1. CASE Arrive(h)
  <2>1. place'[h] = "limiter" /\ request'[h] \in Request /\ answer'[h] = NoAnswer
    BY <1>0, <1>1 DEF Arrive, GoTo, IInv, TypeOK, Sound, Routed
  <2> QED
    BY <2>1 DEF Sound, Routed, Probed, Acked, Accounted, Probing
<1>2. CASE Deny(h)
  <2>1. /\ place'[h] = "answered" /\ answer'[h].status = 429 /\ request'[h] \in Request
    BY <1>0, <1>2 DEF Deny, GoTo, Send, IInv, TypeOK
  <2> QED
    BY <2>1 DEF Sound, Routed, Probed, Acked, Accounted, Probing
<1>3. CASE Admit(h)
  <2>0. request'[h] = request[h] /\ request[h] \in Request /\ place[h] = "limiter"
    BY <1>0, <1>3 DEF Admit
  <2>1. CASE Screened(request[h]) # NoAnswer
    <3>1. place'[h] = "answered" /\ answer'[h] = Screened(request[h])
      BY <1>3, <2>1 DEF Admit, Send, GoTo, IInv, TypeOK
    <3> QED
      BY <2>0, <2>1, <3>1, ScreenedAnswer
      DEF Sound, Routed, Probed, Acked, Accounted, Probing
  <2>2. CASE Screened(request[h]) = NoAnswer /\ Invalid(request[h]) # "none"
    <3>1. Raise(h, Invalid(request[h]))
      BY <1>3, <2>2 DEF Admit
    <3>2. Invalid(request[h]) \in Exception \ {"none"} /\ request[h].body # "valid"
      BY <2>2 DEF Invalid, Exception, Lineage
    <3> QED
      BY <1>3, <2>0, <3>1, <3>2, RaiseIsSound DEF Admit, InHand
  <2>3. CASE Handle(h) /\ Screened(request[h]) = NoAnswer
    <3>1. CASE request[h].route = "callback"
      <4>1. HandleCallback(h)
        BY <2>3, <3>1 DEF Handle
      <4>2. ClientAddress(request[h]) = "listed" \/ settings.trust
        BY <2>0, <2>3, <3>1, ScreenedAnswer
      <4>3. /\ answer'[h] = Dressed(200)
            /\ \/ place'[h] = "background" /\ request[h].body = "valid"
               \/ place'[h] = "answered" /\ request[h].body # "valid"
        BY <2>0, <4>1 DEF HandleCallback, Return, Send, GoTo, IInv, TypeOK
      <4> QED
        BY <1>0, <2>0, <3>1, <4>2, <4>3
        DEF Sound, Routed, Probed, Acked, Accounted, Probing, Dressed
    <3>2. CASE request[h].route = "health"
      <4>1. answer'[h] = Dressed(200) /\ place'[h] = "answered"
        BY <2>0, <2>3, <3>2 DEF Handle, Return, Send, GoTo, IInv, TypeOK
      <4> QED
        BY <2>0, <3>2, <4>1 DEF Sound, Routed, Probed, Acked, Accounted, Probing, Dressed
    <3>3. CASE request[h].route = "initiate"
      <4>1. answer' = answer /\ raised' = raised /\ place'[h] = "service"
        BY <2>0, <2>3, <3>3 DEF Handle, GoTo, IInv, TypeOK
      <4> QED
        BY <1>0, <2>0, <3>3, <4>1 DEF Sound, Routed, Probed, Acked, Accounted, Probing
    <3>4. CASE request[h].route = "status"
      <4>1. answer' = answer /\ raised' = raised /\ place'[h] = "query"
        BY <2>0, <2>3, <3>4 DEF Handle, GoTo, IInv, TypeOK
      <4> QED
        BY <1>0, <2>0, <3>4, <4>1 DEF Sound, Routed, Probed, Acked, Accounted, Probing
    <3>5. CASE request[h].route = "ready"
      <4>1. answer' = answer /\ raised' = raised /\ place'[h] = "probeDb"
        BY <2>0, <2>3, <3>5 DEF Handle, GoTo, IInv, TypeOK
      <4>2. Shows(env') \subseteq seen'[h]
        BY <1>0, <1>3, <4>1 DEF Admit, IInv, TypeOK
      <4> QED
        BY <1>0, <2>0, <3>5, <4>1, <4>2 DEF Sound, Routed, Probed, Acked, Accounted, Probing
    <3> QED
      BY <2>0, <3>1, <3>2, <3>3, <3>4, <3>5, RouteType
  <2> QED
    BY <1>3, <2>1, <2>2, <2>3 DEF Admit
<1>4. CASE Initiate(h) \/ QueryStatus(h)
  <2>0. request'[h] = request[h] /\ request[h].route # "callback" /\ place[h] \in InHand
    BY <1>0, <1>4 DEF Initiate, QueryStatus, InHand, Sound, Routed
  <2>1. CASE Return(h, 200) \/ Return(h, 202)
    <3>1. /\ answer'[h] = Dressed(200) \/ answer'[h] = Dressed(202)
          /\ place'[h] = "answered"
      BY <2>1 DEF Return, Send, GoTo, IInv, TypeOK
    <3> QED
      BY <1>0, <2>0, <3>1
      DEF Sound, Routed, Probed, Acked, Accounted, Probing, Dressed, InHand
  <2>2. ASSUME NEW exc \in Exception \ {"none"}, Raise(h, exc) PROVE Sound(h)'
    BY <1>4, <2>0, <2>2, RaiseIsSound DEF Initiate, QueryStatus
  <2> QED
    BY <1>4, <2>1, <2>2 DEF Initiate, QueryStatus, Exception, Lineage
<1>5. CASE ProbeDb(h)
  <2>1. /\ place[h] = "probeDb" /\ place'[h] = "probeRedis" /\ healthy'[h] = (env.db = "up")
        /\ request'[h] = request[h] /\ answer'[h] = answer[h]
        /\ raised'[h] = raised[h] /\ seen'[h] = seen[h] /\ env' = env
    BY <1>5 DEF ProbeDb, GoTo, IInv, TypeOK
  <2>2. /\ Shows(env) \subseteq seen[h]
        /\ (IF env.db = "up" THEN "dbUp" ELSE "trouble") \in Shows(env)
    BY <1>0, <2>1 DEF Sound, Probed, Probing, Shows
  <2>3. Probed(h)'
    BY <2>1, <2>2 DEF Probed, Probing
  <2> QED
    BY <1>0, <2>1, <2>3 DEF Sound, Routed, Acked, Accounted, Probing
<1>6. CASE ProbeRedis(h)
  <2>1. /\ place'[h] = "answered" /\ answer'[h].dressed /\ request'[h] = request[h]
        /\ request[h] \in Request /\ request[h].route = "ready"
    BY <1>0, <1>6
    DEF ProbeRedis, Return, Send, GoTo, Dressed, IInv, TypeOK, Sound, Routed, Probing
  <2> QED
    BY <2>1 DEF Sound, Routed, Probed, Acked, Accounted, Probing
<1>7. CASE Background(h)
  <2>1. /\ place[h] = "background" /\ place'[h] \in {"processed", "failed"}
        /\ request'[h] = request[h] /\ answer'[h] = answer[h] /\ raised'[h] = raised[h]
    BY <1>7 DEF Background, GoTo, IInv, TypeOK
  <2> QED
    BY <1>0, <2>1 DEF Sound, Routed, Probed, Acked, Accounted, Probing
<1> QED
  BY <1>1, <1>2, <1>3, <1>4, <1>5, <1>6, <1>7 DEF HitStep

\* What a step makes of the types; only what it answers is of interest
LEMMA HitType ==
  ASSUME IInv, NEW h \in Hits, Arrive(h) \/ HitStep(h)
  PROVE  TypeOK'
<1> USE DEF TypeOK, GoTo, Send
<1>0. /\ TypeOK /\ UNCHANGED <<phase, settings, env>>
      /\ answer \in [Hits -> Answer]
  BY HitIsAlone DEF IInv, Alone, Answer, Status
<1>1. /\ place'   \in [Hits -> {"idle"} \cup InHand \cup Ended]
      /\ answer'  \in [Hits -> Answer]
      /\ raised'  \in [Hits -> Exception]
      /\ UNCHANGED request \/ Arrive(h)
      /\ UNCHANGED healthy \/ ProbeDb(h)
      /\ place[h] # "idle" => place[h] \in InHand
  <2> USE DEF InHand, Probing, Ended
  <2>1. CASE Arrive(h)
    BY <1>0, <2>1 DEF Arrive
  <2>2. CASE Deny(h)
    <3>1. [status |-> 429, dressed |-> FALSE] \in Answer
      BY DEF Answer, Status
    <3> QED
      BY <1>0, <2>2, <3>1 DEF Deny
  <2>3. ASSUME Return(h, 200) \/ Return(h, 202) \/ Return(h, 503), place[h] \in InHand
        PROVE  /\ place'  \in [Hits -> {"idle"} \cup InHand \cup Ended]
               /\ answer' \in [Hits -> Answer] /\ raised' \in [Hits -> Exception]
    <3>1. {Dressed(200), Dressed(202), Dressed(503)} \subseteq Answer
      BY DEF Dressed, Answer, Status
    <3>2. \E what \in Answer : Send(h, what) /\ GoTo(h, "answered") /\ UNCHANGED raised
      BY <2>3, <3>1 DEF Return
    <3> QED
      BY <1>0, <3>2
  <2>4. ASSUME NEW exc \in Exception, Raise(h, exc)
        PROVE  /\ place'  \in [Hits -> {"idle"} \cup InHand \cup Ended]
               /\ answer' \in [Hits -> Answer] /\ raised' \in [Hits -> Exception]
    BY <1>0, <2>4, AnswerToType DEF Raise
  <2>5. CASE Admit(h)
    <3>0. request[h] \in Request
      BY <2>5 DEF Admit, IInv, HitInv, Sound, Routed
    <3>1. CASE Screened(request[h]) # NoAnswer
      BY <1>0, <2>5, <3>1, ScreenedType DEF Admit
    <3>2. CASE Screened(request[h]) = NoAnswer /\ Invalid(request[h]) # "none"
      <4>1. Invalid(request[h]) \in Exception
        BY DEF Invalid, Exception, Lineage
      <4> QED
        BY <2>4, <2>5, <3>2, <4>1 DEF Admit
    <3>3. CASE Handle(h)
      <4>1. Dressed(200) \in Answer
        BY DEF Dressed, Answer, Status
      <4>2. CASE request[h].route = "callback"
        <5>0. place[h] \in InHand
          BY <2>5 DEF Admit
        <5>1. HandleCallback(h)
          BY <3>3, <4>2 DEF Handle
        <5>2. CASE request[h].body = "valid"
          <6>1. /\ answer' = [answer EXCEPT ![h] = Dressed(200)]
                /\ place' = [place EXCEPT ![h] = "background"]
                /\ raised' = raised
            BY <5>1, <5>2 DEF HandleCallback
          <6> QED
            BY <1>0, <2>5, <4>1, <5>0, <6>1 DEF Admit
        <5>3. CASE request[h].body # "valid"
          <6>1. Return(h, 200)
            BY <5>1, <5>3 DEF HandleCallback
          <6> QED
            BY <2>3, <2>5, <5>0, <6>1 DEF Admit
        <5> QED
          BY <5>2, <5>3
      <4>3. CASE request[h].route = "health"
        BY <2>3, <2>5, <3>3, <4>3 DEF Admit, Handle
      <4>4. CASE request[h].route = "initiate"
        BY <1>0, <2>5, <3>3, <4>4 DEF Admit, Handle
      <4>5. CASE request[h].route = "status"
        BY <1>0, <2>5, <3>3, <4>5 DEF Admit, Handle
      <4>6. CASE request[h].route = "ready"
        BY <1>0, <2>5, <3>3, <4>6 DEF Admit, Handle
      <4> QED
        BY <2>5, <3>0, <4>2, <4>3, <4>4, <4>5, <4>6, RouteType DEF Admit
    <3> QED
      BY <2>5, <3>1, <3>2, <3>3 DEF Admit
  <2>6. CASE Initiate(h) \/ QueryStatus(h)
    <3>1. Return(h, 200) \/ Return(h, 202) \/ \E exc \in Exception : Raise(h, exc)
      BY <2>6 DEF Initiate, QueryStatus, Exception, Lineage
    <3> QED
      BY <2>3, <2>4, <2>6, <3>1 DEF Initiate, QueryStatus
  <2>7. CASE ProbeDb(h)
    BY <1>0, <2>7 DEF ProbeDb
  <2>8. CASE ProbeRedis(h)
    BY <2>3, <2>8 DEF ProbeRedis
  <2>9. CASE Background(h)
    BY <1>0, <2>9 DEF Background
  <2> QED
    BY <2>1, <2>2, <2>5, <2>6, <2>7, <2>8, <2>9 DEF HitStep
<1>2. request' \in [Hits -> Request \cup {NoRequest}]
  BY <1>0, <1>1 DEF Arrive
<1>3. healthy' \in [Hits -> BOOLEAN]
  <2>1. CASE ProbeDb(h)
    <3> DEFINE up == env.db = "up"
    <3>1. healthy' = [healthy EXCEPT ![h] = up] /\ up \in BOOLEAN
      BY <2>1 DEF ProbeDb
    <3> HIDE DEF up
    <3> QED
      BY <1>0, <3>1
  <2>2. CASE ~ProbeDb(h)
    BY <1>0, <2>2 DEF Arrive, HitStep, Deny, Admit, Initiate, QueryStatus, ProbeRedis, Background
  <2> QED
    BY <2>1, <2>2
<1>4. seen' \in [Hits -> SUBSET Sights]
  <2>1. \/ UNCHANGED seen
        \/ \E what \in SUBSET Sights : seen' = [seen EXCEPT ![h] = what]
    <3>1. Shows(env) \in SUBSET Sights /\ {} \in SUBSET Sights
      BY DEF Shows, Sights
    <3>2. CASE Admit(h)
      <4>1. PICK what \in {Shows(env), {}} : seen' = [seen EXCEPT ![h] = what]
        BY <3>2 DEF Admit
      <4> QED
        BY <3>1, <4>1
    <3>3. CASE ~Admit(h)
      BY <1>0, <3>1, <3>3 DEF Arrive, HitStep, Deny, Initiate, QueryStatus, ProbeDb, ProbeRedis,
                Background
    <3> QED
      BY <3>2, <3>3
  <2>2. seen \in [Hits -> SUBSET Sights]
    BY <1>0 DEF Sights
  <2> QED
    BY <2>1, <2>2
<1>5. \A o \in Hits : place'[o] \in InHand => phase' = "serving"
  <2>1. phase = "serving"
    BY <1>0, <1>1 DEF Arrive, HitStep, Deny, Admit, Initiate, QueryStatus, ProbeDb,
                      ProbeRedis, Background
  <2> QED
    BY <1>0, <2>1
<1> QED
  BY <1>0, <1>1, <1>2, <1>3, <1>4, <1>5 DEF Answer, Status, Sights

-----------------------------------------------------------------------------
(***************************************************************************)
(* The process and its surroundings.                                       *)
(***************************************************************************)

LEMMA HitStepKeeps ==
  ASSUME IInv, NEW h \in Hits, Arrive(h) \/ HitStep(h)
  PROVE  IInv'
<1>1. Alone(h)
  BY HitIsAlone
<1>2. SettingsInv'
  BY <1>1 DEF IInv, SettingsInv, Alone, Startable
<1>3. ASSUME NEW o \in Hits PROVE Sound(o)'
  <2>1. CASE o = h
    BY <2>1, HitIsSound
  <2>2. CASE o # h
    BY <1>1, <2>2 DEF IInv, HitInv, Alone, Sound, Routed, Probed, Acked, Accounted
  <2> QED
    BY <2>1, <2>2
<1> QED
  BY <1>2, <1>3, HitType DEF IInv, HitInv

\* The start, the end and the death of a process, and outages
LEMMA ProcessStepKeeps ==
  ASSUME IInv, Start \/ Stop \/ Crash \/ Outage
  PROVE  IInv'
<1> USE DEF IInv, TypeOK
<1>0. \A h \in Hits : Sound(h)
  BY DEF HitInv
<1>1. CASE Start
  <2>1. \A h \in Hits : place[h] # "background"
    BY <1>1 DEF Start, InHand
  <2>2. HitInv'
    BY <1>0, <1>1, <2>1
    DEF Start, hitVars, HitInv, Sound, Routed, Probed, Acked, Accounted
  <2>3. SettingsInv'
    BY <1>1 DEF Start, SettingsInv, Startable
  <2> QED
    BY <1>1, <2>2, <2>3 DEF Start, hitVars
<1>2. CASE Stop
  <2>1. HitInv'
    BY <1>0, <1>2 DEF Stop, hitVars, HitInv, Sound, Routed, Probed, Acked, Accounted
  <2> QED
    BY <1>2, <2>1 DEF Stop, hitVars, SettingsInv
<1>3. CASE Crash
  <2>1. \A h \in Hits :
          place'[h] = (IF place[h] \in InHand THEN "lost" ELSE place[h]) /\ place'[h] \notin InHand
    BY <1>3 DEF Crash, InHand, Probing
  <2>2. ASSUME NEW h \in Hits PROVE Sound(h)'
    <3>1. Acked(h)'
      BY <1>0, <1>3, <2>1 DEF Crash, Sound, Acked, InHand, Probing
    <3>2. Accounted(h)' /\ Probed(h)'
      BY <1>0, <1>3, <2>1 DEF Crash, Sound, Accounted, Probed, InHand, Probing
    <3>3. Routed(h)'
      BY <1>0, <1>3, <2>1 DEF Crash, Sound, Routed, InHand, Probing
    <3> QED
      BY <3>1, <3>2, <3>3 DEF Sound
  <2>3. place' \in [Hits -> {"idle"} \cup InHand \cup Ended] /\ seen' \in [Hits -> SUBSET Sights]
    BY <1>3 DEF Crash, Ended
  <2> QED
    BY <1>3, <2>1, <2>2, <2>3 DEF Crash, HitInv, SettingsInv
<1>4. CASE Outage
  <2>1. env' \in Env /\ Shows(env') \subseteq Sights
    BY <1>4 DEF Outage, Shows, Sights
  <2>2. \A h \in Hits :
          seen'[h] = IF place[h] \in Probing THEN seen[h] \cup Shows(env') ELSE seen[h]
    BY <1>4 DEF Outage
  <2>3. \A h \in Hits : Probed(h)'
    BY <1>0, <1>4, <2>2 DEF Outage, Sound, Probed, Probing
  <2>5. seen' \in [Hits -> SUBSET Sights]
    <3> DEFINE shown == Shows(env')
               new(h) == IF place[h] \in Probing THEN seen[h] \cup shown ELSE seen[h]
    <3>1. seen \in [Hits -> SUBSET Sights] /\ shown \subseteq Sights
      BY <2>1 DEF Sights
    <3>2. seen' = [h \in Hits |-> new(h)]
      BY <1>4 DEF Outage
    <3>3. \A h \in Hits : new(h) \in SUBSET Sights
      BY <3>1
    <3> HIDE DEF new
    <3> QED
      BY <3>2, <3>3
  <2>4. HitInv'
    BY <1>0, <1>4, <2>3 DEF Outage, HitInv, Sound, Routed, Acked, Accounted
  <2> QED
    BY <1>4, <2>1, <2>4, <2>5 DEF Outage, SettingsInv, Sights
<1> QED
  BY <1>1, <1>2, <1>3, <1>4

-----------------------------------------------------------------------------
(***************************************************************************)
(* What holds of every process.                                            *)
(***************************************************************************)

\* Every state reached has the inductive invariant
LEMMA Inductive == Spec => []IInv
<1>1. ASSUME Init PROVE IInv
  <2> USE <1>1 DEF Init
  <2>1. TypeOK
    BY DEF TypeOK, Setting, Env, Exception, Lineage, NoAnswer, InHand, Probing
  <2>2. SettingsInv /\ HitInv
    BY DEF SettingsInv, HitInv, Sound, Routed, Probed, Acked, Accounted, Probing
  <2> QED
    BY <2>1, <2>2 DEF IInv
<1>2. ASSUME IInv, [Next]_vars PROVE IInv'
  <2>1. CASE UNCHANGED vars
    BY <1>2, <2>1
    DEF vars, hitVars, IInv, TypeOK, SettingsInv, HitInv, Sound, Routed, Probed, Acked, Accounted
  <2>2. CASE Next
    BY <1>2, <2>2, HitStepKeeps, ProcessStepKeeps DEF Next
  <2> QED
    BY <1>2, <2>1, <2>2
<1> QED
  BY <1>1, <1>2, PTL DEF Spec

\* The state of the API process and of the requests keeps its types; a process
\* that is down has nothing in hand.
THEOREM TypeCorrect == Spec => []TypeOK
<1>1. IInv => TypeOK
  BY DEF IInv
<1> QED
  BY <1>1, Inductive, PTL

\* A readable callback that passes for one of Safaricom's gets its 200 before it
\* is worked on, whatever fails, unless the rate limiter sends it away.
THEOREM AckWhateverFailsHolds == Spec => []AckWhateverFails
<1>1. IInv => AckWhateverFails
  BY DEF IInv, HitInv, Sound, Acked, AckWhateverFails
<1> QED
  BY <1>1, Inductive, PTL

\* A process that talks to the production Daraja works on a callback only if the
\* address that it reads for it is one of Safaricom's: the first one that the
\* X-Forwarded-For header names, or without it that of the connection.
THEOREM ProductionCallbacksAreListedHolds == Spec => []ProductionCallbacksAreListed
<1>1. ASSUME IInv, NEW h \in Hits, place[h] = "background", settings.production
      PROVE  ClientAddress(request[h]) = "listed"
  <2>1. phase = "serving"
    BY <1>1 DEF IInv, TypeOK, InHand
  <2>2. Startable(settings)
    BY <1>1, <2>1 DEF IInv, SettingsInv
  <2>3. ClientAddress(request[h]) = "listed" \/ settings.trust
    BY <1>1 DEF IInv, HitInv, Sound, Routed
  <2> QED
    BY <1>1, <2>2, <2>3 DEF Startable, ProdSafetyChecks
<1>2. IInv => ProductionCallbacksAreListed
  BY <1>1 DEF ProductionCallbacksAreListed, ClientAddress
<1> QED
  BY <1>2, Inductive, PTL

\* A request for a payment gets to the service with the phone number it spells,
\* for any number of digits and whatever texts clients send.
THEOREM PhoneIsReadHolds == Spec => []PhoneIsRead
<1>1. PhoneIsRead
  BY NothingIsMisread DEF PhoneIsRead
<1> QED
  BY <1>1, PTL

\* An answer without the security headers is a refusal of the outer layers or
\* one of the errors that no handler could render.
THEOREM BareAnswersAreKnownHolds == Spec => []BareAnswersAreKnown
<1>1. IInv => BareAnswersAreKnown
  BY DEF IInv, HitInv, Sound, Accounted, BareAnswersAreKnown
<1> QED
  BY <1>1, Inductive, PTL

\* The readiness probe never says more than it saw, and never less.
THEOREM ReadyIsTrueHolds == Spec => ReadyIsTrue
<1> DEFINE A == \A h \in Hits :
                  (place[h] = "probeRedis" /\ place'[h] = "answered")
                    => IF answer'[h].status = 200
                         THEN {"dbUp", "redisUp"} \subseteq seen[h]
                         ELSE "trouble" \in seen[h]
<1>1. ASSUME IInv, [Next]_vars, NEW h \in Hits, place[h] = "probeRedis", place'[h] = "answered"
      PROVE  IF answer'[h].status = 200
               THEN {"dbUp", "redisUp"} \subseteq seen[h]
               ELSE "trouble" \in seen[h]
  <2>1. ProbeRedis(h)
    <3>1. \E o \in Hits : Arrive(o) \/ HitStep(o)
      BY <1>1 DEF Next, Start, Stop, Crash, Outage, vars, hitVars, IInv, TypeOK
    <3>2. PICK o \in Hits : Arrive(o) \/ HitStep(o)
      BY <3>1
    <3>3. o = h
      BY <1>1, <3>2, HitIsAlone DEF Alone
    <3> QED
      BY <1>1, <3>2, <3>3
      DEF HitStep, Arrive, Deny, Admit, Initiate, QueryStatus, ProbeDb, Background
  <2>2. answer'[h].status = (IF healthy[h] /\ env.redis THEN 200 ELSE 503)
    BY <1>1, <2>1 DEF ProbeRedis, Return, Send, Dressed, IInv, TypeOK
  <2>3. /\ Shows(env) \subseteq seen[h]
        /\ (IF healthy[h] THEN "dbUp" ELSE "trouble") \in seen[h]
    BY <1>1 DEF IInv, HitInv, Sound, Probed, Probing
  <2>4. healthy[h] \in BOOLEAN /\ env.redis \in BOOLEAN
    BY <1>1 DEF IInv, TypeOK, Env
  <2>5. CASE healthy[h] /\ env.redis
    <3>1. "redisUp" \in Shows(env)
      BY <2>5 DEF Shows
    <3> QED
      BY <2>2, <2>3, <2>5, <3>1
  <2>6. CASE ~healthy[h]
    BY <2>2, <2>3, <2>6
  <2>7. CASE ~env.redis
    <3>1. "trouble" \in Shows(env)
      BY <2>7 DEF Shows
    <3> QED
      BY <2>2, <2>3, <2>7, <3>1
  <2> QED
    BY <2>4, <2>5, <2>6, <2>7
<1>2. ASSUME IInv, [Next]_vars PROVE A
  BY <1>1, <1>2
<1> QED
  BY <1>2, Inductive, PTL DEF Spec, ReadyIsTrue
=============================================================================
