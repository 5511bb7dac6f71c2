-------------------------- MODULE ApiRequestsProofs --------------------------
(***************************************************************************)
(* What a request is answered and what it deletes, for any requests with   *)
(* any number of ids.                                                      *)
(***************************************************************************)
EXTENDS ApiRequests, TLAPS

-----------------------------------------------------------------------------
(* The invariant *)

Used == {i \in 1..req.ids : WasUsed(i)}

\* Stages that a request passes in the service, and those where it counts the use.
Deciding == {"flows", "pipelines", "decide", "delete"}
Serving == {"service", "return"} \cup Deciding

NoResponse == [status |-> 200, texts |-> <<>>, usage |-> {}]

\* Before there is an answer there is no error and nothing of a response.
NothingYet ==
    /\ stage \notin {"unwind", "sent"} => response = NoResponse
    /\ stage \notin {"discard", "unwind", "sent"} => errors = <<>>
    /\ stage \notin {"return", "unwind", "sent"} => result = "none" /\ deleted = {}

\* Nothing is served that has not been identified and, for a delete, permitted.
Identified ==
    /\ stage = "auth" => req.route \in AuthRoutes
    /\ stage \in Serving \/ result # "none" => req.route \in AuthRoutes
    /\ stage = "handle" /\ req.route \in AuthRoutes => user = getUserId /\ user # Nobody
    /\ stage \in Serving \/ result # "none" => user = getUserId /\ user # Nobody

Permitted ==
    /\ stage \in Deciding => req.route \in DeleteRoutes
    /\ stage \in Deciding \cup {"service"} /\ req.route \in DeleteRoutes =>
         deleteOptions = "ok"

\* Both services have been asked about the ids up to n, and of the rest no use is known.
AskedUpTo(n) ==
    /\ was.asked = Services \X (1..n)
    /\ was.used \subseteq was.asked

\* The ids found in use are those that were when asked, as far as the request has got.
Counted ==
    /\ stage \in {"otel", "discard", "auth", "handle", "service"} =>
         asked = [id |-> 1, flows |-> 0] /\ inUse = {} /\ AskedUpTo(0)
    /\ stage \in {"flows", "pipelines"} =>
         /\ asked.id \in 1..req.ids
         /\ inUse = {i \in 1..(asked.id - 1) : WasUsed(i)}
    /\ stage = "flows" => AskedUpTo(asked.id - 1)
    /\ stage = "pipelines" =>
         /\ was.asked = Services \X (1..(asked.id - 1)) \cup {<<"flows", asked.id>>}
         /\ was.used \subseteq was.asked
         /\ asked.flows > 0 <=> <<"flows", asked.id>> \in was.used
    /\ stage \in {"decide", "delete"} => inUse = Used /\ AskedUpTo(req.ids)

\* What was used when asked is not deleted without force, nor is what was not asked about.
Kept ==
    /\ deleted # {} => AskedUpTo(req.ids)
    /\ stage = "delete" => Used = {} \/ req.force = "true"
    /\ deleted # {} => Used = {} \/ (req.force = "true" /\ Administrator)
    /\ result = "inUse" => deleted = {} /\ inUse = Used /\ Used # {}
    /\ result = "usageUnavailable" => deleted = {}

\* What a handler may be told by the service.
Results ==
    IF req.route \in DeleteRoutes
    THEN {"ok", "invalid", "missingRights", "notFound", "versionNotFound", "conflict",
          "internal", "usageUnavailable", "inUse"}
    ELSE Outcomes

\* A response that says what happened, and no more than it may.
Proper(r, res) ==
    req.route \in AuthRoutes =>
        /\ r.status < 400 <=> res = "ok"
        /\ user # Nobody => r.status \in Documented[req.route]
        /\ user = Nobody => r.status = 401 /\ res = "none"
        /\ Len(r.texts) <= 1
        /\ \A k \in DOMAIN r.texts : r.texts[k] \in Sentinels \cup {"generic"}
        /\ res = "inUse" => r.status = 409 /\ r.texts = <<>> /\ r.usage = Used

\* What the error handler makes of a response.
Handed == IF errors = <<>> THEN response
          ELSE [status |-> statusCode(errors[1]), texts |-> errors, usage |-> response.usage]

Answered ==
    /\ stage = "return" => result \in Results
    /\ stage = "unwind" => Proper(Handed, result)
    /\ stage = "sent" => Proper(response, result)

\* The inductive invariant.
IInv ==
    /\ TypeOK /\ req \in Requests /\ NothingYet /\ Identified /\ Permitted
    /\ Counted /\ Kept /\ Answered

-----------------------------------------------------------------------------
(* Lemmas *)

\* What is said of the request alone stays true of it.
LEMMA SameRequest ==
    ASSUME req' = req
    PROVE  /\ getUserId' = getUserId /\ deleteOptions' = deleteOptions
           /\ Administrator' = Administrator /\ Results' = Results
BY DEF getUserId, deleteOptions, isAdmin, Administrator, Results, Outcomes

\* What is said of the questions stays true until another one is asked.
LEMMA SameQuestions ==
    ASSUME req' = req, was' = was
    PROVE  /\ Used' = Used
           /\ \A i : WasUsed(i)' = WasUsed(i)
           /\ \A n : AskedUpTo(n)' = AskedUpTo(n)
BY DEF Used, WasUsed, AskedUpTo

\* The fields of a request.
LEMMA RequestFields ==
    ASSUME req \in Request
    PROVE  /\ req.ids \in 0..MaxIds /\ req.ids \in Nat
           /\ req.userId \in BOOLEAN /\ req.forUser \in BOOLEAN
           /\ req.roles \in {"absent", "user", "admin"}
           /\ req.route \in PublicRoutes \cup AuthRoutes
<1>1. req.ids \in 0..MaxIds /\ MaxIds \in Nat
  BY RequestAssumption DEF Request
<1>2. req.ids \in Nat
  BY <1>1
<1> QED BY <1>1, <1>2 DEF Request

\* Who a request is for, and by whose word.
LEMMA Identity ==
    ASSUME req \in Request
    PROVE  /\ getUserId = "target" => req.roles = "admin"
           /\ getUserId = "subject" => ~req.userId /\ req.token \in {"user", "admin"}
BY RequestFields DEF getUserId, Nobody

\* safeError leaves nothing but the sentinels and one word for the rest.
LEMMA SafeErrorIsSafe ==
    ASSUME NEW err \in Errors
    PROVE  safeError(err) \in Sentinels \cup {"generic"}
BY DEF safeError

\* Every error has a status, and none of them is a success.
LEMMA StatusOfError ==
    ASSUME NEW err
    PROVE  statusCode(err) \in {400, 403, 404, 409, 500, 502}
BY DEF statusCode

\* Whatever the service returns, its status is documented for the route.
LEMMA StatusDocumented ==
    ASSUME req \in Request, req.route \in AuthRoutes, result \in Results, result # "ok"
    PROVE  /\ result \in Errors
           /\ statusCode(safeError(result)) \in Documented[req.route]
<1>1. result \in Errors
  BY DEF Results, Outcomes, Errors, Sentinels, AuthRoutes, DeleteRoutes
<1>2. CASE req.route \in DeleteRoutes
  BY <1>1, <1>2 DEF Results, statusCode, safeError, Documented, DeleteRoutes, Sentinels
<1>3. CASE req.route \notin DeleteRoutes
  BY <1>1, <1>3 DEF Results, Outcomes, statusCode, safeError, Documented, DeleteRoutes,
      AuthRoutes, Sentinels
<1> QED BY <1>1, <1>2, <1>3

\* The invariant holds when a request arrives.
LEMMA InitIInv == Init => IInv
<1> SUFFICES ASSUME Init PROVE IInv
  OBVIOUS
<1>1. req \in Request /\ req \in Requests /\ req.ids \in 0..MaxIds /\ MaxIds \in Nat
  BY RequestAssumption DEF Init, Request
<1>2. TypeOK
  BY <1>1 DEF Init, TypeOK, Stages, Errors, Response, Nobody
<1>3. AskedUpTo(0)
  BY DEF Init, AskedUpTo
<1> QED
  BY <1>1, <1>2, <1>3 DEF Init, IInv, NothingYet, Identified, Permitted, Counted, Kept, Answered,
      NoResponse, Serving, Deciding

\* Errors come one at a time.
LEMMA OneError ==
    ASSUME NEW e \in Errors
    PROVE  <<e>> \in Seq(Errors) /\ <<e>> # <<>> /\ <<e>>[1] = e /\ Len(<<e>>) = 1
OBVIOUS

\* The middleware in front of the identity.
LEMMA GinOpenTelemetryIInv == IInv /\ GinOpenTelemetry => IInv'
<1> SUFFICES ASSUME IInv, GinOpenTelemetry PROVE IInv'
  OBVIOUS
<1>1. errors' \in Seq(Errors)
  <2>1. <<"baggage">> \in Seq(Errors) /\ <<>> \in Seq(Errors)
    BY OneError DEF Errors
  <2> QED BY <2>1 DEF GinOpenTelemetry
<1>2. TypeOK'
  BY <1>1 DEF IInv, GinOpenTelemetry, TypeOK, Stages
<1> QED
  BY <1>2, SameRequest, SameQuestions DEF GinOpenTelemetry, IInv, NothingYet, Identified,
      Permitted, Counted, Kept, Answered, Serving, Deciding
\* DiscardBaggageErrors.
LEMMA DiscardBaggageErrorsIInv == IInv /\ DiscardBaggageErrors => IInv'
<1> SUFFICES ASSUME IInv, DiscardBaggageErrors PROVE IInv'
  OBVIOUS
<1>1. TypeOK'
  BY DEF IInv, DiscardBaggageErrors, TypeOK, Stages
<1> QED
  BY <1>1, SameRequest, SameQuestions DEF DiscardBaggageErrors, IInv, NothingYet, Identified,
      Permitted, Counted, Kept, Answered, Serving, Deciding

\* An answer that stands in the response instead of an error.
LEMMA ReplyProper ==
    ASSUME NEW status \in Nat, TypeOK, response = NoResponse, errors = <<>>, req' = req,
           Reply(status), req.route \in AuthRoutes,
           status < 400 <=> result' = "ok",
           user' # Nobody => status \in Documented[req.route],
           user' = Nobody => status = 401 /\ result' = "none", result' # "inUse"
    PROVE  Proper(Handed, result)'
<1>1. Handed' = [status |-> status, texts |-> <<>>, usage |-> {}]
  BY DEF Reply, NoResponse, Handed
<1> QED BY <1>1 DEF Proper

\* An error, which the error handler puts into the response.
LEMMA FailProper ==
    ASSUME NEW err \in Sentinels \cup {"generic"}, TypeOK, response = NoResponse,
           errors = <<>>, req' = req, Fail(err), req.route \in AuthRoutes, user' # Nobody,
           result' \notin {"ok", "inUse"}, statusCode(err) \in Documented[req.route]
    PROVE  Proper(Handed, result)'
<1>1. errors' = <<err>>
  BY DEF Fail
<1>2. Handed' = [status |-> statusCode(err), texts |-> <<err>>, usage |-> {}]
  BY <1>1 DEF Fail, NoResponse, Handed
<1>3. ~(statusCode(err) < 400)
  BY StatusOfError
<1> QED BY <1>2, <1>3 DEF Proper

\* AuthMiddleware: who is not known is answered at once.
LEMMA AuthMiddlewareIInv == IInv /\ AuthMiddleware => IInv'
<1> SUFFICES ASSUME IInv, AuthMiddleware PROVE IInv'
  OBVIOUS
<1>1. getUserId \in {Nobody, "header", "subject", "target"}
  BY DEF getUserId
<1>2. req.route \in AuthRoutes /\ errors = <<>> /\ response = NoResponse /\ result = "none"
  BY DEF AuthMiddleware, IInv, NothingYet, Identified
<1>3. CASE getUserId = Nobody
  <2>1. Reply(401) /\ req' = req /\ result' = "none" /\ user' = Nobody
    BY <1>2, <1>3 DEF AuthMiddleware
  <2>2. TypeOK'
    <3>1. response' \in Response
      BY <2>1 DEF IInv, TypeOK, Reply, Response
    <3> QED BY <1>1, <1>3, <2>1, <3>1 DEF AuthMiddleware, IInv, TypeOK, Stages, Reply
  <2>3. Proper(Handed, result)'
    BY <1>2, <2>1, ReplyProper DEF IInv, Nobody
  <2> QED
    BY <2>1, <2>2, <2>3, SameRequest, SameQuestions DEF AuthMiddleware, Reply, IInv,
        NothingYet, Identified, Permitted, Counted, Kept, Answered, Serving, Deciding
<1>4. CASE getUserId # Nobody
  <2>1. TypeOK'
    BY <1>1, <1>4 DEF AuthMiddleware, IInv, TypeOK, Stages
  <2> QED
    BY <1>2, <1>4, <2>1, SameRequest, SameQuestions DEF AuthMiddleware, IInv, NothingYet,
        Identified, Permitted, Counted, Kept, Answered, Serving, Deciding
<1> QED BY <1>3, <1>4

\* The error handler.
LEMMA ErrorHandlerIInv == IInv /\ ErrorHandler => IInv'
<1> SUFFICES ASSUME IInv, ErrorHandler PROVE IInv'
  OBVIOUS
<1>1. response' = Handed /\ req' = req /\ result' = result /\ user' = user /\ was' = was
  BY DEF ErrorHandler, Handed
<1>2. Proper(response, result)'
  <2>1. Proper(Handed, result)
    BY DEF ErrorHandler, IInv, Answered
  <2>2. Used' = Used
    BY <1>1, SameQuestions
  <2> QED BY <1>1, <2>1, <2>2 DEF Proper
<1>3. Handed \in Response
  <2>1. CASE errors = <<>>
    BY <2>1 DEF Handed, IInv, TypeOK
  <2>2. CASE errors # <<>>
    <3>1. statusCode(errors[1]) \in Nat
      BY StatusOfError
    <3> QED BY <2>2, <3>1 DEF Handed, IInv, TypeOK, Response
  <2> QED BY <2>1, <2>2
<1>4. TypeOK'
  BY <1>1, <1>3 DEF ErrorHandler, IInv, TypeOK, Stages
<1> QED
  BY <1>1, <1>2, <1>4, SameRequest, SameQuestions DEF ErrorHandler, IInv, NothingYet,
      Identified, Permitted, Counted, Kept, Answered, Serving, Deciding
-----------------------------------------------------------------------------
(* What handlers have in common *)

\* A handler calls the service.
LEMMA Calls ==
    ASSUME IInv, stage = "handle", req.route \in AuthRoutes, Call, UNCHANGED Handled,
           req.route \in DeleteRoutes => deleteOptions = "ok"
    PROVE  IInv'
<1>1. TypeOK'
  BY DEF IInv, TypeOK, Call, Handled, Stages
<1> QED
  BY <1>1, SameRequest, SameQuestions DEF Call, Handled, IInv, NothingYet, Identified,
      Permitted, Counted, Kept, Answered, Serving, Deciding

\* A handler refuses a request before it calls the service.
LEMMA Refuses ==
    ASSUME NEW err \in {"invalid", "missingRights"}, IInv, stage = "handle",
           req.route \in AuthRoutes, Fail(err), UNCHANGED Handled,
           statusCode(err) \in Documented[req.route]
    PROVE  IInv'
<1>1. err \in Sentinels /\ err \in Errors
  BY DEF Sentinels, Errors
<1>2. /\ errors = <<>> /\ response = NoResponse /\ result = "none" /\ deleted = {}
      /\ result' = result /\ user' # Nobody /\ req' = req
  BY DEF IInv, NothingYet, Identified, Handled
<1>3. errors' \in Seq(Errors)
  BY <1>1, <1>2, OneError DEF Fail
<1>4. TypeOK'
  BY <1>3 DEF IInv, TypeOK, Fail, Handled, Stages
<1>5. Proper(Handed, result)'
  BY <1>1, <1>2, FailProper DEF IInv
<1> QED
  BY <1>2, <1>4, <1>5, SameRequest, SameQuestions DEF Fail, Handled, IInv, NothingYet,
      Identified, Permitted, Counted, Kept, Answered, Serving, Deciding

\* A handler replies that all went well.
LEMMA Succeeds ==
    ASSUME NEW status \in Nat, IInv, stage = "return", result = "ok", Reply(status),
           UNCHANGED Handled, status \in Documented[req.route], status < 400
    PROVE  IInv'
<1>1. /\ errors = <<>> /\ response = NoResponse /\ result' = result
      /\ req.route \in AuthRoutes /\ user' # Nobody /\ req' = req
  BY DEF IInv, NothingYet, Identified, Serving, Handled
<1>2. TypeOK'
  BY <1>1 DEF IInv, TypeOK, Reply, Handled, Stages, Response
<1>3. Proper(Handed, result)'
  BY <1>1, ReplyProper DEF IInv
<1> QED
  BY <1>1, <1>2, <1>3, SameRequest, SameQuestions DEF Reply, Handled, IInv, NothingYet,
      Identified, Permitted, Counted, Kept, Answered, Serving, Deciding

\* A handler passes on an error of the service.
LEMMA Fails ==
    ASSUME IInv, stage = "return", result \notin {"ok", "inUse"},
           Fail(safeError(result)), UNCHANGED Handled
    PROVE  IInv'
<1>1. /\ errors = <<>> /\ response = NoResponse /\ result' = result
      /\ req.route \in AuthRoutes /\ result \in Results /\ req \in Request
      /\ user' # Nobody /\ req' = req
  BY DEF IInv, NothingYet, Identified, Answered, Serving, Handled, TypeOK
<1>2. /\ safeError(result) \in Sentinels \cup {"generic"}
      /\ statusCode(safeError(result)) \in Documented[req.route]
  BY <1>1, StatusDocumented, SafeErrorIsSafe
<1>3. errors' \in Seq(Errors)
  BY <1>1, <1>2, OneError DEF Fail, Errors
<1>4. TypeOK'
  BY <1>3 DEF IInv, TypeOK, Fail, Handled, Stages
<1>5. Proper(Handed, result)'
  BY <1>1, <1>2, FailProper DEF IInv
<1> QED
  BY <1>1, <1>4, <1>5, SameRequest, SameQuestions DEF Fail, Handled, IInv, NothingYet,
      Identified, Permitted, Counted, Kept, Answered, Serving, Deciding

\* deleteFailed names all that is used, if one id is all there is.
LEMMA NamesUse ==
    ASSUME NEW batch \in BOOLEAN, IInv, stage = "return", result = "inUse",
           deleteFailed(batch), UNCHANGED Handled, req.route \in DeleteRoutes,
           batch \/ req.ids = 1
    PROVE  IInv'
<1>1. /\ errors = <<>> /\ response = NoResponse /\ result' = result
      /\ req.route \in AuthRoutes /\ inUse = Used /\ Used # {} /\ req \in Request
  BY DEF IInv, NothingYet, Identified, Kept, Serving, Handled, TypeOK
<1>2. (IF batch THEN inUse ELSE {CHOOSE i \in inUse : TRUE}) = Used
  <2>1. ~batch => Used = {1}
    BY <1>1 DEF Used
  <2> QED BY <1>1, <2>1
<1>3. /\ response' = [status |-> 409, texts |-> <<>>, usage |-> Used]
      /\ stage' = "unwind" /\ errors' = errors
  BY <1>1, <1>2 DEF deleteFailed, NoResponse
<1>4. Used \in SUBSET (1..MaxIds)
  <2>1. req.ids \in 0..MaxIds /\ MaxIds \in Nat
    BY <1>1, RequestAssumption DEF Request, AuthRoutes
  <2>2. 1..req.ids \subseteq 1..MaxIds
    BY <2>1
  <2> QED BY <2>2 DEF Used
<1>5. TypeOK'
  <2>1. response' \in Response
    BY <1>3, <1>4 DEF Response
  <2> QED BY <1>3, <2>1 DEF IInv, TypeOK, Handled, Stages
<1>6. Handed' = [status |-> 409, texts |-> <<>>, usage |-> Used]
  BY <1>1, <1>3 DEF Handed
<1>7. Proper(Handed, result)'
  <2>1. 409 \in Documented[req.route]
    BY <1>1 DEF Documented, DeleteRoutes
  <2>2. user' = user /\ user # Nobody /\ req' = req /\ result' = "inUse" /\ Used' = Used
    BY <1>1, SameQuestions DEF Handled, IInv, Identified, Serving
  <2> QED BY <1>6, <2>1, <2>2 DEF Proper
<1> QED
  BY <1>1, <1>3, <1>5, <1>7, SameRequest, SameQuestions DEF Handled, IInv, NothingYet,
      Identified, Permitted, Counted, Kept, Answered, Serving, Deciding
-----------------------------------------------------------------------------
(* The handlers *)

\* getAll and getOperator only pass through.
LEMMA ReadHandlersIInv == IInv /\ (getAll \/ getOperator) => IInv'
<1> SUFFICES ASSUME IInv, getAll \/ getOperator PROVE IInv'
  OBVIOUS
<1>1. /\ req.route \in {"getAll", "getOperator"} /\ req.route \in AuthRoutes
      /\ req.route \notin DeleteRoutes /\ UNCHANGED Handled
      /\ (stage = "handle" /\ Call) \/ (stage = "return" /\ Answer(200))
  BY DEF getAll, getOperator, Enter, Leave, AuthRoutes, DeleteRoutes
<1>2. CASE Call /\ stage = "handle"
  BY <1>1, <1>2, Calls
<1>3. CASE stage = "return" /\ Answer(200)
  <2>1. result \in Results /\ "inUse" \notin Results /\ 200 \in Documented[req.route]
    BY <1>1, <1>3 DEF IInv, Answered, Results, Outcomes, Documented
  <2>2. CASE result = "ok"
    BY <1>1, <1>3, <2>1, <2>2, Succeeds DEF Answer
  <2>3. CASE result # "ok"
    BY <1>1, <1>3, <2>1, <2>3, Fails DEF Answer
  <2> QED BY <2>2, <2>3
<1> QED BY <1>1, <1>2, <1>3

\* The handlers that store something check the body first.
LEMMA WriteHandlersIInv ==
    IInv /\ (putOperator \/ postOperator \/ putOperatorVersion) => IInv'
<1> SUFFICES ASSUME IInv, putOperator \/ postOperator \/ putOperatorVersion PROVE IInv'
  OBVIOUS
<1>1. /\ req.route \in {"putOperator", "postOperator", "putOperatorVersion"}
      /\ req.route \in AuthRoutes /\ req.route \notin DeleteRoutes /\ UNCHANGED Handled
      /\ \/ stage = "handle" /\ (Call \/ Fail("invalid"))
         \/ stage = "return" /\ \E s \in Documented[req.route] : s \in Nat /\ s < 400 /\ Answer(s)
  <2>1. CASE putOperator
    BY <2>1 DEF putOperator, Enter, Leave, AuthRoutes, DeleteRoutes, Documented
  <2>2. CASE postOperator
    BY <2>2 DEF postOperator, Enter, Leave, AuthRoutes, DeleteRoutes, Documented
  <2>3. CASE putOperatorVersion
    BY <2>3 DEF putOperatorVersion, Enter, Leave, AuthRoutes, DeleteRoutes, Documented
  <2> QED BY <2>1, <2>2, <2>3
<1>2. CASE stage = "handle" /\ Call
  BY <1>1, <1>2, Calls
<1>3. CASE stage = "handle" /\ Fail("invalid")
  <2>1. statusCode("invalid") \in Documented[req.route]
    BY <1>1 DEF statusCode, Documented
  <2> QED BY <1>1, <1>3, <2>1, Refuses
<1>4. ASSUME NEW s \in Documented[req.route], s \in Nat, s < 400, stage = "return", Answer(s)
      PROVE  IInv'
  <2>1. result \in Results /\ "inUse" \notin Results
    BY <1>1, <1>4 DEF IInv, Answered, Results, Outcomes
  <2>2. CASE result = "ok"
    BY <1>1, <1>4, <2>2, Succeeds DEF Answer
  <2>3. CASE result # "ok"
    BY <1>1, <1>4, <2>1, <2>3, Fails DEF Answer
  <2> QED BY <2>2, <2>3
<1> QED BY <1>1, <1>2, <1>3, <1>4

\* The handlers that delete ask deleteOptions first, and name what is used.
LEMMA DeleteHandlersIInv ==
    IInv /\ (deleteOperatorVersion \/ deleteOperator \/ deleteOperators) => IInv'
<1> SUFFICES ASSUME IInv, deleteOperatorVersion \/ deleteOperator \/ deleteOperators
             PROVE  IInv'
  OBVIOUS
<1>1. req.route \in DeleteRoutes /\ req.route \in AuthRoutes /\ UNCHANGED Handled
  BY DEF deleteOperatorVersion, deleteOperator, deleteOperators, Enter, Leave, AuthRoutes,
      DeleteRoutes
<1>2. \/ stage = "handle" /\ (CallWithOptions \/ Fail("invalid"))
      \/ /\ stage = "return"
         /\ IF result = "ok" THEN Reply(204)
            ELSE deleteFailed(req.route = "deleteOperators")
  BY DEF deleteOperatorVersion, deleteOperator, deleteOperators, Enter, Leave
<1>3. \A err \in {"invalid", "missingRights"} :
         safeError(err) = err /\ statusCode(err) \in Documented[req.route]
  BY <1>1 DEF safeError, Sentinels, statusCode, Documented, DeleteRoutes
<1>4. CASE stage = "handle" /\ Fail("invalid")
  BY <1>1, <1>3, <1>4, Refuses
<1>5. CASE stage = "handle" /\ CallWithOptions
  <2>1. CASE deleteOptions = "ok"
    BY <1>1, <1>5, <2>1, Calls DEF CallWithOptions
  <2>2. CASE deleteOptions # "ok"
    <3>1. deleteOptions \in {"invalid", "missingRights"}
      BY <2>2 DEF deleteOptions
    <3>2. Fail(deleteOptions)
      BY <1>3, <1>5, <2>2, <3>1 DEF CallWithOptions
    <3> QED BY <1>1, <1>3, <1>5, <3>1, <3>2, Refuses
  <2> QED BY <2>1, <2>2
<1>6. CASE stage = "return" /\ result = "ok" /\ Reply(204)
  <2>1. 204 \in Documented[req.route]
    BY <1>1 DEF Documented, DeleteRoutes
  <2> QED BY <1>1, <1>6, <2>1, Succeeds
<1>7. CASE stage = "return" /\ result # "ok" /\ deleteFailed(req.route = "deleteOperators")
  <2>1. CASE result = "inUse"
    <3>1. req.route = "deleteOperators" \/ req.ids = 1
      BY <1>1, RequestAssumption DEF IInv
    <3> QED BY <1>1, <1>7, <2>1, <3>1, NamesUse
  <2>2. CASE result # "inUse"
    BY <1>1, <1>7, <2>2, Fails DEF deleteFailed
  <2> QED BY <2>1, <2>2
<1> QED BY <1>2, <1>4, <1>5, <1>6, <1>7

\* The public routes answer at once.
LEMMA PublicHandlersIInv == IInv /\ (getHealthCheckH \/ getSwaggerDocH) => IInv'
<1> SUFFICES ASSUME IInv, getHealthCheckH \/ getSwaggerDocH PROVE IInv'
  OBVIOUS
<1>1. /\ req.route \notin AuthRoutes /\ stage = "handle" /\ UNCHANGED Handled
      /\ Reply(200) \/ Fail("internal")
  BY DEF getHealthCheckH, getSwaggerDocH, Enter, AuthRoutes, DeleteRoutes
<1>2. errors = <<>> /\ response = NoResponse /\ result = "none" /\ result' = result
  BY <1>1 DEF IInv, NothingYet, Handled
<1>3. Proper(Handed, result)'
  BY <1>1 DEF Proper, Handled
<1>4. TypeOK'
  <2>1. CASE Reply(200)
    BY <1>1, <2>1 DEF IInv, TypeOK, Reply, Handled, Stages, Response
  <2>2. CASE Fail("internal")
    <3>1. errors' \in Seq(Errors)
      BY <1>2, <2>2, OneError DEF Fail, Errors
    <3> QED BY <1>1, <2>2, <3>1 DEF IInv, TypeOK, Fail, Handled, Stages
  <2> QED BY <1>1, <2>1, <2>2
<1> QED
  BY <1>1, <1>2, <1>3, <1>4, SameRequest, SameQuestions DEF Reply, Fail, Handled, IInv,
      NothingYet, Identified, Permitted, Counted, Kept, Answered, Serving, Deciding
-----------------------------------------------------------------------------
(* The service *)

\* What deletes nothing may fail in any way that the route documents.
LEMMA RepositoryIInv == IInv /\ Repository => IInv'
<1> SUFFICES ASSUME IInv, Repository PROVE IInv'
  OBVIOUS
<1>1. /\ req.route \in AuthRoutes /\ req.route \notin DeleteRoutes
      /\ result' \in Outcomes /\ stage' = "return"
  BY DEF Repository, Return, IInv, Identified, Serving
<1>2. Outcomes \subseteq ({"ok"} \cup Errors) \ {"inUse", "usageUnavailable"}
  BY <1>1 DEF Outcomes, AuthRoutes, Errors, Sentinels
<1>3. TypeOK'
  BY <1>1, <1>2 DEF Repository, IInv, TypeOK, Stages
<1> QED
  BY <1>1, <1>2, <1>3, SameRequest, SameQuestions DEF Repository, IInv, NothingYet,
      Identified, Permitted, Counted, Kept, Answered, Results, Serving, Deciding

\* A request that goes on to the next question about the ids it names.
LEMMA CheckFirstIInv == IInv /\ CheckFirst => IInv'
<1> SUFFICES ASSUME IInv, CheckFirst PROVE IInv'
  OBVIOUS
<1>1. /\ req.route \in DeleteRoutes /\ req' = req /\ req.ids \in Nat
      /\ inUse = {} /\ asked = [id |-> 1, flows |-> 0] /\ AskedUpTo(0) /\ was' = was
  BY RequestFields DEF CheckFirst, IInv, TypeOK, Counted
<1>2. CASE \E r \in {"missingRights", "internal", "invalid", "notFound", "versionNotFound"} :
              Return(r)
  <2>1. result' \in Results /\ result' \in Errors /\ result' \notin {"inUse", "usageUnavailable"}
    BY <1>1, <1>2 DEF Return, Results, Errors, Sentinels
  <2>2. TypeOK'
    BY <1>2, <2>1 DEF Return, CheckFirst, IInv, TypeOK, Stages
  <2> QED
    BY <1>1, <1>2, <2>1, <2>2, SameRequest, SameQuestions DEF Return, CheckFirst, IInv,
        NothingYet, Identified, Permitted, Counted, Kept, Answered, Serving, Deciding
<1>3. CASE stage' = (IF req.ids = 0 THEN "decide" ELSE "flows") /\ UNCHANGED result
  <2>1. TypeOK'
    BY <1>3 DEF CheckFirst, IInv, TypeOK, Stages
  <2>2. req.ids = 0 => Used = {}
    BY DEF Used
  <2>3. {i \in 1..(asked.id - 1) : WasUsed(i)} = {}
    BY <1>1
  <2>4. Counted'
    <3>1. asked.id - 1 = 0 /\ asked' = asked /\ inUse' = inUse
      BY <1>1 DEF CheckFirst
    <3>2. CASE req.ids = 0
      BY <1>1, <1>3, <2>2, <3>1, <3>2, SameQuestions DEF Counted
    <3>3. CASE req.ids # 0
      <4>1. stage' = "flows" /\ asked'.id \in 1..req'.ids
        BY <1>1, <1>3, <3>1, <3>3
      <4>2. AskedUpTo(0)' /\ inUse' = {i \in 1..0 : WasUsed(i)'}
        BY <1>1, <3>1, SameQuestions
      <4> QED BY <3>1, <4>1, <4>2 DEF Counted, AskedUpTo
    <3> QED BY <3>2, <3>3
  <2> QED
    BY <1>1, <1>3, <2>1, <2>4, SameRequest, SameQuestions DEF CheckFirst, IInv, NothingYet,
        Identified, Permitted, Kept, Answered, Serving, Deciding
<1> QED BY <1>2, <1>3 DEF CheckFirst

\* A sure answer is the truth.
LEMMA SureAnswer ==
    ASSUME NEW used \in BOOLEAN, NEW a \in UsageAnswers(used)
    PROVE  /\ flowUsage(a) # Unknown => flowUsage(a) = IF used THEN 1 ELSE 0
           /\ pipelineUsage(a) # Unknown => pipelineUsage(a) = IF used THEN 1 ELSE 0
<1>1. ASSUME a.status = 200, ~a.garbled, a.count # <<>>, a.count # <<-1>>
      PROVE  a.count = <<IF used THEN 1 ELSE 0>>
  BY <1>1 DEF UsageAnswers
<1> QED BY <1>1 DEF flowUsage, pipelineUsage, Unknown

\* A question is kept with its id.
LEMMA AskedTyped ==
    ASSUME IInv, stage \in {"flows", "pipelines"}, NEW service \in Services, Ask(service),
           req' = req
    PROVE  was' \in [asked : SUBSET (Services \X (1..req'.ids)),
                     used : SUBSET (Services \X (1..req'.ids))]
<1>1. <<service, asked.id>> \in Services \X (1..req.ids)
  BY DEF IInv, Counted
<1>2. was \in [asked : SUBSET (Services \X (1..req.ids)),
              used : SUBSET (Services \X (1..req.ids))]
  BY DEF IInv, TypeOK
<1> QED BY <1>1, <1>2 DEF Ask

\* Without a sure answer the request ends.
LEMMA UsageUnavailable ==
    ASSUME IInv, stage \in {"flows", "pipelines"}, NEW service \in Services, Ask(service),
           Return("usageUnavailable"),
           UNCHANGED <<req, uses, errors, user, asked, inUse, deleted, response>>
    PROVE  IInv'
<1>1. req.route \in DeleteRoutes /\ "usageUnavailable" \in Errors /\ deleted = {}
  BY DEF IInv, Permitted, Deciding, Errors, Sentinels, NothingYet
<1>2. TypeOK'
  BY <1>1, AskedTyped DEF Return, IInv, TypeOK, Stages
<1> QED
  BY <1>1, <1>2, SameRequest DEF Return, IInv, NothingYet, Identified, Permitted, Counted,
      Kept, Answered, Results, Serving, Deciding

\* The flow repository answers.
LEMMA AskFlowsIInv == IInv /\ AskFlows => IInv'
<1> SUFFICES ASSUME IInv, AskFlows PROVE IInv'
  OBVIOUS
<1> DEFINE used == <<"flows", asked.id>> \in uses
<1>0. used \in BOOLEAN /\ "flows" \in Services /\ Ask("flows")
  BY DEF Services, AskFlows
<1>1. PICK a \in UsageAnswers(used) :
        IF flowUsage(a) = Unknown
        THEN Return("usageUnavailable") /\ UNCHANGED asked
        ELSE /\ stage' = "pipelines" /\ asked' = [asked EXCEPT !.flows = flowUsage(a)]
             /\ UNCHANGED result
  BY DEF AskFlows
<1>2. CASE flowUsage(a) = Unknown
  BY <1>0, <1>1, <1>2, UsageUnavailable DEF AskFlows
<1>3. CASE flowUsage(a) # Unknown
  <2>1. /\ flowUsage(a) \in Int
        /\ flowUsage(a) > 0 <=> used
    <3> HIDE DEF used
    <3> QED BY <1>0, <1>3, SureAnswer
  <2>2. /\ asked'.id = asked.id
        /\ asked' \in [id : 1..(MaxIds + 1), flows : Int]
        /\ asked'.flows = flowUsage(a)
    BY <1>1, <1>3, <2>1 DEF IInv, TypeOK
  <2>3. TypeOK'
    <3>1. was' \in [asked : SUBSET (Services \X (1..req'.ids)),
                    used : SUBSET (Services \X (1..req'.ids))]
      BY <1>0, AskedTyped DEF AskFlows
    <3> QED BY <1>1, <1>3, <2>2, <3>1 DEF AskFlows, IInv, TypeOK, Stages
  <2>4. /\ asked.id \in 1..req.ids /\ AskedUpTo(asked.id - 1)
        /\ inUse = {i \in 1..(asked.id - 1) : WasUsed(i)}
    BY DEF AskFlows, IInv, Counted
  <2>5. /\ was'.asked = Services \X (1..(asked.id - 1)) \cup {<<"flows", asked.id>>}
        /\ was'.used \subseteq was'.asked
        /\ <<"flows", asked.id>> \in was'.used <=> used
    <3>1. /\ was'.asked = was.asked \cup {<<"flows", asked.id>>}
          /\ was'.used = was.used \cup (uses \cap {<<"flows", asked.id>>})
      BY <1>0 DEF Ask
    <3>2. <<"flows", asked.id>> \notin Services \X (1..(asked.id - 1))
      BY <2>4
    <3> QED BY <2>4, <3>1, <3>2 DEF AskedUpTo
  <2>6. {i \in 1..(asked.id - 1) : WasUsed(i)} = {i \in 1..(asked.id - 1) : WasUsed(i)'}
    BY <1>0, <2>4 DEF Ask, WasUsed
  <2>7. Counted'
    BY <1>1, <1>3, <2>1, <2>2, <2>4, <2>5, <2>6 DEF AskFlows, Counted
  <2> QED
    BY <1>1, <1>3, <2>3, <2>7, SameRequest DEF AskFlows, IInv, NothingYet, Identified,
        Permitted, Kept, Answered, Serving, Deciding
<1> QED BY <1>2, <1>3

\* The pipeline registry answers, and the next id is asked about.
LEMMA AskPipelinesIInv == IInv /\ AskPipelines => IInv'
<1> SUFFICES ASSUME IInv, AskPipelines PROVE IInv'
  OBVIOUS
<1> DEFINE used == <<"pipelines", asked.id>> \in uses
<1>0. used \in BOOLEAN /\ "pipelines" \in Services /\ Ask("pipelines")
  BY DEF Services, AskPipelines
<1>1. PICK a \in UsageAnswers(used) :
        IF pipelineUsage(a) = Unknown
        THEN Return("usageUnavailable") /\ UNCHANGED <<asked, inUse>>
        ELSE /\ inUse' = IF asked.flows > 0 \/ pipelineUsage(a) > 0
                         THEN inUse \cup {asked.id} ELSE inUse
             /\ asked' = [id |-> asked.id + 1, flows |-> 0]
             /\ stage' = IF asked.id = req.ids THEN "decide" ELSE "flows"
             /\ UNCHANGED result
  BY DEF AskPipelines
<1>2. CASE pipelineUsage(a) = Unknown
  BY <1>0, <1>1, <1>2, UsageUnavailable DEF AskPipelines
<1>3. CASE pipelineUsage(a) # Unknown
  <2>1. /\ asked.id \in 1..req.ids /\ req.ids \in 0..MaxIds /\ MaxIds \in Nat
        /\ inUse = {i \in 1..(asked.id - 1) : WasUsed(i)}
        /\ was.asked = Services \X (1..(asked.id - 1)) \cup {<<"flows", asked.id>>}
        /\ was.used \subseteq was.asked
        /\ asked.flows > 0 <=> <<"flows", asked.id>> \in was.used
    BY RequestAssumption DEF AskPipelines, IInv, Counted, TypeOK, Request
  <2>2. /\ was'.asked = was.asked \cup {<<"pipelines", asked.id>>}
        /\ was'.used = was.used \cup (uses \cap {<<"pipelines", asked.id>>})
    BY <1>0 DEF Ask
  <2>3. was'.asked = Services \X (1..asked.id) /\ was'.used \subseteq was'.asked
    <3>1. 1..asked.id = 1..(asked.id - 1) \cup {asked.id}
      BY <2>1
    <3>2. Services \X (1..asked.id) = Services \X (1..(asked.id - 1))
            \cup {<<"flows", asked.id>>, <<"pipelines", asked.id>>}
      BY <3>1 DEF Services
    <3> QED BY <2>1, <2>2, <3>2
  <2>4. asked.flows > 0 \/ pipelineUsage(a) > 0 <=>
          \E service \in Services : <<service, asked.id>> \in was'.used
    <3>1. pipelineUsage(a) > 0 <=> used
      <4> HIDE DEF used
      <4> QED BY <1>0, <1>3, SureAnswer
    <3>2. <<"pipelines", asked.id>> \notin was.used
      BY <2>1
    <3>3. <<"pipelines", asked.id>> \in was'.used <=> used
      BY <2>2, <3>2
    <3>4. <<"flows", asked.id>> \in was'.used <=> <<"flows", asked.id>> \in was.used
      BY <2>2
    <3> HIDE DEF used
    <3> QED BY <2>1, <3>1, <3>3, <3>4 DEF Services
  <2>5. \A i \in 1..(asked.id - 1) : WasUsed(i)' <=> WasUsed(i)
    <3>1. ASSUME NEW i \in 1..(asked.id - 1), NEW service \in Services
          PROVE  <<service, i>> \in was'.used <=> <<service, i>> \in was.used
      BY <2>1, <2>2
    <3> QED BY <3>1 DEF WasUsed
  <2>6. inUse' = {i \in 1..asked.id : WasUsed(i)'}
    <3>1. inUse' = IF \E service \in Services : <<service, asked.id>> \in was'.used
                   THEN inUse \cup {asked.id} ELSE inUse
      BY <1>1, <1>3, <2>4
    <3>2. \A i \in 1..asked.id : i = asked.id \/ i \in 1..(asked.id - 1)
      BY <2>1
    <3>3. ASSUME NEW i \in 1..(asked.id - 1)
          PROVE  i \in inUse' <=> WasUsed(i)'
      BY <2>1, <2>5, <3>1
    <3>4. asked.id \in inUse' <=> \E service \in Services : <<service, asked.id>> \in was'.used
      BY <2>1, <3>1
    <3>5. inUse' \subseteq 1..asked.id
      BY <2>1, <3>1
    <3> QED BY <2>1, <3>2, <3>3, <3>4, <3>5 DEF WasUsed
  <2>7. TypeOK'
    <3>1. inUse' \subseteq 1..req.ids
      BY <2>1, <2>6
    <3>2. asked' \in [id : 1..(MaxIds + 1), flows : Int]
      BY <1>1, <1>3, <2>1
    <3>3. was' \in [asked : SUBSET (Services \X (1..req'.ids)),
                    used : SUBSET (Services \X (1..req'.ids))]
      BY <1>0, AskedTyped DEF AskPipelines
    <3> QED
      BY <1>1, <1>3, <3>1, <3>2, <3>3 DEF AskPipelines, IInv, TypeOK, Stages
  <2>8. Counted'
    <3>1. /\ req' = req /\ asked'.id = asked.id + 1 /\ asked'.id - 1 = asked.id
          /\ stage' = IF asked.id = req.ids THEN "decide" ELSE "flows"
      BY <1>1, <1>3, <2>1 DEF AskPipelines
    <3>2. CASE asked.id = req.ids
      <4>1. AskedUpTo(req.ids)' /\ inUse' = Used'
        BY <2>3, <2>6, <3>1, <3>2 DEF AskedUpTo, Used
      <4> QED BY <3>1, <3>2, <4>1 DEF Counted
    <3>3. CASE asked.id # req.ids
      <4>1. asked'.id \in 1..req'.ids
        BY <2>1, <3>1, <3>3
      <4>2. AskedUpTo(asked.id - 1)'
        BY <2>3, <3>1 DEF AskedUpTo
      <4> QED BY <2>6, <3>1, <3>3, <4>1, <4>2 DEF Counted
    <3> QED BY <3>2, <3>3
  <2> QED
    BY <1>1, <1>3, <2>7, <2>8, SameRequest DEF AskPipelines, IInv, NothingYet, Identified,
        Permitted, Kept, Answered, Serving, Deciding
<1> QED BY <1>2, <1>3

\* What is saved or removed meanwhile changes nothing of what was asked before.
LEMMA SaveOrRemoveIInv == IInv /\ SaveOrRemove => IInv'
<1> SUFFICES ASSUME IInv, SaveOrRemove PROVE IInv'
  OBVIOUS
<1>1. TypeOK'
  BY DEF SaveOrRemove, IInv, TypeOK
<1> QED
  BY <1>1, SameRequest, SameQuestions DEF SaveOrRemove, IInv, NothingYet, Identified,
      Permitted, Counted, Kept, Answered, Serving, Deciding

\* usedBy refuses what is used, unless force was said and may be.
LEMMA UsedByIInv == IInv /\ usedBy => IInv'
<1> SUFFICES ASSUME IInv, usedBy PROVE IInv'
  OBVIOUS
<1>1. inUse = Used /\ req.route \in DeleteRoutes /\ deleted = {} /\ "inUse" \in Errors
  BY DEF usedBy, IInv, Counted, Permitted, Deciding, NothingYet, Errors, Sentinels
<1>2. TypeOK'
  BY <1>1 DEF usedBy, Return, IInv, TypeOK, Stages
<1> QED
  BY <1>1, <1>2, SameRequest, SameQuestions DEF usedBy, Return, IInv, NothingYet, Identified,
      Permitted, Counted, Kept, Answered, Results, Serving, Deciding

\* What is permitted with force is permitted to an administrator.
LEMMA ForceIsForAdministrators ==
    ASSUME req \in Request, deleteOptions = "ok", req.force = "true"
    PROVE  Administrator
BY DEF deleteOptions, isAdmin, Administrator, Request

\* The repository deletes all of the ids or some, once the use of all is known.
LEMMA DeleteIInv == IInv /\ Delete => IInv'
<1> SUFFICES ASSUME IInv, Delete PROVE IInv'
  OBVIOUS
<1>1. /\ req.route \in DeleteRoutes /\ deleteOptions = "ok" /\ req \in Request
      /\ Used = {} \/ req.force = "true"
  BY DEF Delete, IInv, Permitted, Kept, Deciding, TypeOK
<1>2. Used = {} \/ (req.force = "true" /\ Administrator)
  BY <1>1, ForceIsForAdministrators
<1>3. /\ stage' = "return" /\ deleted' \subseteq 1..req.ids
      /\ result' \in {"ok", "missingRights", "internal", "invalid", "notFound", "conflict"}
  <2>1. req.ids \in Nat /\ deleted = {}
    BY <1>1, RequestFields DEF Delete, IInv, NothingYet
  <2>2. \A n \in 0..req.ids : 1..n \subseteq 1..req.ids
    BY <2>1
  <2>3. \A n \in 0..(req.ids - 1) : 1..n \subseteq 1..req.ids
    BY <2>1
  <2> QED BY <2>1, <2>2, <2>3 DEF Delete, Return
<1>4. result' \in Results /\ result' \in {"ok"} \cup Errors
  BY <1>1, <1>3 DEF Results, Errors, Sentinels
<1>5. TypeOK'
  BY <1>3, <1>4 DEF Delete, IInv, TypeOK, Stages
<1> QED
  BY <1>1, <1>2, <1>3, <1>4, <1>5, SameRequest, SameQuestions DEF Delete, IInv, NothingYet,
      Identified, Permitted, Counted, Kept, Answered, Serving, Deciding

-----------------------------------------------------------------------------
(* The theorems *)

\* Every step, and every stutter, preserves the invariant.
LEMMA NextIInv == IInv /\ [Next]_vars => IInv'
<1>1. IInv /\ UNCHANGED vars => IInv'
  BY SameRequest, SameQuestions DEF vars, IInv, TypeOK, NothingYet, Identified, Permitted,
      Counted, Kept, Answered, Handed, Proper
<1> QED
  BY <1>1, GinOpenTelemetryIInv, DiscardBaggageErrorsIInv, AuthMiddlewareIInv,
      ErrorHandlerIInv, ReadHandlersIInv, WriteHandlersIInv, DeleteHandlersIInv,
      PublicHandlersIInv, RepositoryIInv, CheckFirstIInv, AskFlowsIInv, AskPipelinesIInv,
      UsedByIInv, DeleteIInv, SaveOrRemoveIInv DEF Next

\* The invariant holds in every reachable state.
LEMMA Inductive == Spec => []IInv
BY InitIInv, NextIInv, PTL DEF Spec

\* The parts of a request and its response keep their types.
THEOREM RequestTypeCorrect == Spec => []TypeOK
<1>1. IInv => TypeOK
  BY DEF IInv
<1> QED BY <1>1, Inductive, PTL

\* What flows or pipelines used when they were asked is deleted only by an administrator
\* with force, nothing is deleted without the questions, and a refusal deletes nothing and
\* names what was used (usedBy, deleteOptions, Client.Usage).
THEOREM UsedWhenAskedStaysKept == Spec => []UsedWhenAskedIsKept
<1>1. IInv => UsedWhenAskedIsKept
  <2> SUFFICES ASSUME IInv PROVE UsedWhenAskedIsKept
    OBVIOUS
  <2>1. deleted # {} => was.asked = Services \X (1..req.ids)
    BY DEF IInv, Kept, AskedUpTo
  <2>2. deleted # {} /\ (\E i \in 1..req.ids : WasUsed(i)) =>
          req.force = "true" /\ Administrator
    BY DEF IInv, Kept, Used
  <2>3. result \in {"inUse", "usageUnavailable"} => deleted = {}
    BY DEF IInv, Kept
  <2>4. ASSUME Sent, result = "inUse"
        PROVE  response.status = 409 /\ response.texts = <<>> /\ response.usage = Used
    <3>1. req.route \in AuthRoutes
      BY <2>4 DEF IInv, Identified
    <3> QED BY <2>4, <3>1 DEF IInv, Answered, Proper, Sent
  <2> QED BY <2>1, <2>2, <2>3, <2>4 DEF UsedWhenAskedIsKept, Used
<1> QED BY <1>1, Inductive, PTL

\* Nobody is served who was not named by the gateway or a token (AuthMiddleware).
THEOREM CallerIsServed == Spec => []ServesTheCaller
<1>1. IInv => ServesTheCaller
  BY Identity DEF IInv, TypeOK, Identified, ServesTheCaller
<1> QED BY <1>1, Inductive, PTL

\* The caller reads success exactly if there was one (DiscardBaggageErrors, Fail, Reply).
THEOREM OutcomeIsTold == Spec => []AnswerTellsOutcome
<1>1. IInv => AnswerTellsOutcome
  BY DEF IInv, Answered, Proper, AnswerTellsOutcome, Sent
<1> QED BY <1>1, Inductive, PTL

\* On an operator route nothing but sentinels reaches the caller (safeError).
THEOREM InternalsKept == Spec => []InternalsStayInside
<1>1. IInv => InternalsStayInside
  BY DEF IInv, Answered, Proper, InternalsStayInside, Sent
<1> QED BY <1>1, Inductive, PTL

\* Whose name is known is answered only with a status that the comment above the handler
\* lists, and who is not is answered with 401 and nothing else (statusCode, AuthMiddleware).
THEOREM StatusIsDocumented == Spec => []AnswersAsDocumented
<1>1. IInv => AnswersAsDocumented
  BY DEF IInv, Answered, Proper, AnswersAsDocumented, Sent
<1> QED BY <1>1, Inductive, PTL
=============================================================================
