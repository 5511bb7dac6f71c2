---------------------------- MODULE ApiRequests ----------------------------
(***************************************************************************)
(* One request on its way through the HTTP layer: the middleware in the    *)
(* order New gives it, the handlers, the service below them as far as it   *)
(* decides about errors, and back (pkg/api).  A delete asks the flow       *)
(* repository and the pipeline registry first who uses what it is about    *)
(* (pkg/flowrepo, pkg/pipelines, pkg/service); they may not answer, or     *)
(* answer anything.  What the repository does to the stores is in          *)
(* OperatorLifecycle and OperatorVersions; here it is an outcome.          *)
(***************************************************************************)
EXTENDS Integers, Sequences, FiniteSets

CONSTANTS
    Requests,   \* those that are made
    MaxIds      \* ids a request names

VARIABLES
    req,       \* the request
    stage,     \* where it is
    errors,    \* what gc.Error has collected
    user,      \* UserIdKey of the gin context
    asked,     \* the usage question: id and the flows reported for it
    inUse,     \* ids found in use
    result,    \* what the service returned
    deleted,   \* ids deleted
    response,
    uses,      \* which service's flows or pipelines use which of the ids
    was        \* history: what was asked of them, and what of it was used then

vars == <<req, stage, errors, user, asked, inUse, result, deleted, response, uses, was>>

Services == {"flows", "pipelines"}

DeleteRoutes == {"deleteOperatorVersion", "deleteOperator", "deleteOperators"}
BodyRoutes == {"putOperator", "postOperator", "putOperatorVersion", "deleteOperators"}
PublicRoutes == {"getHealthCheckH", "getSwaggerDocH"}
AuthRoutes ==
    {"getAll", "getOperator", "putOperator", "postOperator", "putOperatorVersion"}
        \cup DeleteRoutes

\* userId, roles, token: the headers; forUser, force: the query; body: what binding
\* makes of it; ids: how many it names.
Request ==
    [route : PublicRoutes \cup AuthRoutes, baggage : BOOLEAN,
     userId : BOOLEAN, roles : {"absent", "user", "admin"},
     token : {"absent", "malformed", "user", "admin"}, forUser : BOOLEAN,
     force : {"", "true", "false", "malformed"},
     body : {"ok", "malformed", "differs"}, ids : 0..MaxIds]

\* Only a list names none, or more than one.
ASSUME RequestAssumption ==
    /\ MaxIds \in Nat
    /\ Requests \subseteq Request
    /\ \A r \in Requests : r.route \in DeleteRoutes \ {"deleteOperators"} => r.ids = 1

Sentinels ==
    {"invalid", "missingRights", "notFound", "versionNotFound", "conflict",
     "usageUnavailable", "inUse"}
Errors == Sentinels \cup {"internal", "generic", "baggage"}

\* usage: the ids whose use the body names.
Response == [status : Nat, texts : Seq(Errors), usage : SUBSET (1..MaxIds)]

Nobody == "nobody"

Stages ==
    {"otel", "discard", "auth", "handle", "service", "flows", "pipelines", "decide",
     "delete", "return", "unwind", "sent"}

TypeOK ==
    /\ req \in Request
    /\ stage \in Stages
    /\ errors \in Seq(Errors)
    /\ user \in {Nobody, "header", "subject", "target"}
    /\ asked \in [id : 1..(MaxIds + 1), flows : Int]
    /\ inUse \cup deleted \subseteq 1..req.ids
    /\ result \in {"none", "ok"} \cup Errors
    /\ response \in Response
    /\ uses \subseteq Services \X (1..req.ids)
    /\ was \in [asked : SUBSET (Services \X (1..req.ids)),
                 used : SUBSET (Services \X (1..req.ids))]

Init ==
    /\ req \in Requests
    /\ stage = "otel"
    /\ errors = <<>>
    /\ user = Nobody
    /\ asked = [id |-> 1, flows |-> 0]
    /\ inUse = {}
    /\ result = "none"
    /\ deleted = {}
    /\ response = [status |-> 200, texts |-> <<>>, usage |-> {}]
    /\ uses \in SUBSET (Services \X (1..req.ids))
    /\ was = [asked |-> {}, used |-> {}]

-----------------------------------------------------------------------------
(* Errors *)

\* Mutant: an unavailable service is 503.
statusUnavailable(err) ==
    CASE err = "invalid"                          -> 400
      [] err = "missingRights"                    -> 403
      [] err \in {"notFound", "versionNotFound"}  -> 404
      [] err \in {"conflict", "inUse"}            -> 409
      [] err = "usageUnavailable"                 -> 503
      [] OTHER                                    -> 500

statusCode(err) ==
    CASE err = "invalid"                          -> 400
      [] err = "missingRights"                    -> 403
      [] err \in {"notFound", "versionNotFound"}  -> 404
      [] err \in {"conflict", "inUse"}            -> 409
      [] err = "usageUnavailable"                 -> 502
      [] OTHER                                    -> 500

\* Mutant: everything may pass.
AnyError(err) == err

safeError(err) == IF err \in Sentinels THEN err ELSE "generic"

\* gc.Error, and the way back.
Fail(err) ==
    /\ errors' = Append(errors, err)
    /\ stage' = "unwind"
    /\ UNCHANGED response

Reply(status) ==
    /\ response' = [response EXCEPT !.status = status]
    /\ stage' = "unwind"
    /\ UNCHANGED errors

-----------------------------------------------------------------------------
(* The middleware, outside in *)

\* otelx reports a user name that it cannot put into the baggage.
GinOpenTelemetry ==
    /\ stage = "otel"
    /\ errors' = IF req.baggage THEN <<"baggage">> ELSE <<>>
    /\ stage' = "discard"
    /\ UNCHANGED <<req, uses, was, user, asked, inUse, result, deleted, response>>

\* Mutant: they are only logged.
KeepBaggageErrors ==
    /\ stage = "discard"
    /\ stage' = IF req.route \in AuthRoutes THEN "auth" ELSE "handle"
    /\ UNCHANGED <<req, uses, was, errors, user, asked, inUse, result, deleted, response>>

DiscardBaggageErrors ==
    /\ stage = "discard"
    /\ errors' = <<>>
    /\ stage' = IF req.route \in AuthRoutes THEN "auth" ELSE "handle"
    /\ UNCHANGED <<req, uses, was, user, asked, inUse, result, deleted, response>>

\* Mutant: the admin role is not asked for.
UserIdForAnyone ==
    IF req.forUser THEN "target"
    ELSE IF req.userId THEN "header"
    ELSE IF req.token \in {"user", "admin"} THEN "subject"
    ELSE Nobody

\* for_user counts if the gateway says that the caller is an admin; then the
\* gateway's user, then the token's.  That a token has a subject is left to its issuer.
getUserId ==
    IF req.forUser /\ req.roles = "admin" THEN "target"
    ELSE IF req.userId THEN "header"
    ELSE IF req.token \in {"user", "admin"} THEN "subject"
    ELSE Nobody

\* 401 comes with a text of its own, not with an error.
AuthMiddleware ==
    /\ stage = "auth"
    /\ user' = getUserId
    /\ IF getUserId = Nobody
       THEN Reply(401)
       ELSE stage' = "handle" /\ UNCHANGED <<errors, response>>
    /\ UNCHANGED <<req, uses, was, asked, inUse, result, deleted>>

\* gin-middleware: errors make a response, 500 unless the sentinel says otherwise.
ErrorHandler ==
    /\ stage = "unwind"
    /\ stage' = "sent"
    /\ response' = IF errors = <<>> THEN response
                   ELSE [status |-> statusCode(errors[1]), texts |-> errors,
                         usage |-> response.usage]
    /\ UNCHANGED <<req, uses, was, errors, user, asked, inUse, result, deleted>>

-----------------------------------------------------------------------------
(* The handlers: before the call of the service, and after it *)

Enter(route) == stage = "handle" /\ req.route = route
Leave(route) == stage = "return" /\ req.route = route

Call == stage' = "service" /\ UNCHANGED <<errors, response>>

Handled == <<req, uses, was, user, asked, inUse, result, deleted>>

\* The common way back.
Answer(success) == IF result = "ok" THEN Reply(success) ELSE Fail(safeError(result))

getAll ==
    /\ \/ Enter("getAll") /\ Call
       \/ Leave("getAll") /\ Answer(200)
    /\ UNCHANGED Handled

getOperator ==
    /\ \/ Enter("getOperator") /\ Call
       \/ Leave("getOperator") /\ Answer(200)
    /\ UNCHANGED Handled

putOperator ==
    /\ \/ Enter("putOperator") /\ IF req.body = "malformed" THEN Fail("invalid") ELSE Call
       \/ Leave("putOperator") /\ Answer(201)
    /\ UNCHANGED Handled

\* Mutant: the error of the service is passed on as it is.
postOperatorUnsafe ==
    /\ \/ Enter("postOperator") /\ IF req.body = "malformed" THEN Fail("invalid") ELSE Call
       \/ Leave("postOperator") /\ IF result = "ok" THEN Reply(200) ELSE Fail(result)
    /\ UNCHANGED Handled

postOperator ==
    /\ \/ Enter("postOperator") /\ IF req.body = "malformed" THEN Fail("invalid") ELSE Call
       \/ Leave("postOperator") /\ Answer(200)
    /\ UNCHANGED Handled

\* The label in the body must be that of the path; a new one is 201.
putOperatorVersion ==
    /\ \/ Enter("putOperatorVersion") /\ IF req.body # "ok" THEN Fail("invalid") ELSE Call
       \/ Leave("putOperatorVersion") /\ \E success \in {200, 201} : Answer(success)
    /\ UNCHANGED Handled

isAdmin == IF req.roles # "absent" THEN req.roles = "admin" ELSE req.token = "admin"

\* Mutant: force is for everyone.
ForceForAnyone == IF req.force = "malformed" THEN "invalid" ELSE "ok"

\* What is wrong with force; without an error it is taken as given.
deleteOptions ==
    CASE req.force = "malformed"          -> "invalid"
      [] req.force = "true" /\ ~isAdmin   -> "missingRights"
      [] OTHER                            -> "ok"

CallWithOptions == IF deleteOptions = "ok" THEN Call ELSE Fail(safeError(deleteOptions))

\* A refusal for use names it in the body, past the error handler.
deleteFailed(batch) ==
    IF result # "inUse"
    THEN Fail(safeError(result))
    ELSE /\ response' = [status |-> 409, texts |-> response.texts,
              usage |-> IF batch THEN inUse ELSE {CHOOSE i \in inUse : TRUE}]
         /\ stage' = "unwind"
         /\ UNCHANGED errors

deleteOperatorVersion ==
    /\ \/ Enter("deleteOperatorVersion") /\ CallWithOptions
       \/ Leave("deleteOperatorVersion") /\ IF result = "ok" THEN Reply(204) ELSE deleteFailed(FALSE)
    /\ UNCHANGED Handled

deleteOperator ==
    /\ \/ Enter("deleteOperator") /\ CallWithOptions
       \/ Leave("deleteOperator") /\ IF result = "ok" THEN Reply(204) ELSE deleteFailed(FALSE)
    /\ UNCHANGED Handled

deleteOperators ==
    /\ \/ Enter("deleteOperators") /\ IF req.body = "malformed" THEN Fail("invalid") ELSE CallWithOptions
       \/ Leave("deleteOperators") /\ IF result = "ok" THEN Reply(204) ELSE deleteFailed(TRUE)
    /\ UNCHANGED Handled

getHealthCheckH == Enter("getHealthCheckH") /\ Reply(200) /\ UNCHANGED Handled

\* The file may be missing; the error of os.Stat is not made safe.
getSwaggerDocH ==
    /\ Enter("getSwaggerDocH")
    /\ Reply(200) \/ Fail("internal")
    /\ UNCHANGED Handled

-----------------------------------------------------------------------------
(* The service *)

Return(r) == stage' = "return" /\ result' = r

\* What the repository makes of a request that deletes nothing.
Outcomes ==
    LET all == {"ok", "invalid", "missingRights", "notFound", "conflict", "internal"} IN
    [getAll |-> {"ok", "invalid", "internal"}, getOperator |-> all \ {"conflict"},
     putOperator |-> {"ok", "internal"}, postOperator |-> all,
     putOperatorVersion |-> all][req.route]

Repository ==
    /\ stage = "service"
    /\ req.route \notin DeleteRoutes
    /\ \E r \in Outcomes : Return(r)
    /\ UNCHANGED <<req, uses, was, errors, user, asked, inUse, deleted, response>>

\* The rights first; for a version also its label and the version itself.
CheckFirst ==
    /\ stage = "service"
    /\ req.route \in DeleteRoutes
    /\ \/ stage' = (IF req.ids = 0 THEN "decide" ELSE "flows") /\ UNCHANGED result
       \/ \E r \in {"missingRights", "internal"} : Return(r)
       \/ /\ req.route = "deleteOperatorVersion"
          /\ \E r \in {"invalid", "notFound", "versionNotFound"} : Return(r)
    /\ UNCHANGED <<req, uses, was, errors, user, asked, inUse, deleted, response>>

Unknown == -1

\* How a usage service may answer, if at all (status 0): any error, anything for a body,
\* but never a false count under 200.
UsageAnswers(used) ==
    {a \in [status : {0, 200, 500}, garbled : BOOLEAN,
            count : {<<>>, <<-1>>, <<0>>, <<1>>}] :
        a.status = 200 /\ ~a.garbled /\ a.count \in {<<0>>, <<1>>} =>
            a.count = <<IF used THEN 1 ELSE 0>>}

\* Mutant: a missing count decodes as zero.
UsageMissingIsZero(a) ==
    IF a.status # 200 \/ a.garbled \/ a.count = <<-1>> THEN Unknown
    ELSE IF a.count = <<>> THEN 0 ELSE a.count[1]

\* Client.Usage of the flow repository: what is not surely a count is an error.
flowUsage(a) ==
    IF a.status = 200 /\ ~a.garbled /\ a.count # <<>> /\ a.count # <<-1>>
    THEN a.count[1] ELSE Unknown

\* Client.Usage of the pipeline registry.
pipelineUsage(a) ==
    IF a.status = 200 /\ ~a.garbled /\ a.count # <<>> /\ a.count # <<-1>>
    THEN a.count[1] ELSE Unknown

\* A question to a service, and the truth at that moment.
Ask(service) ==
    was' = [asked |-> was.asked \cup {<<service, asked.id>>},
            used |-> was.used \cup (uses \cap {<<service, asked.id>>})]

AskFlows ==
    /\ stage = "flows"
    /\ Ask("flows")
    /\ \E a \in UsageAnswers(<<"flows", asked.id>> \in uses) :
         IF flowUsage(a) = Unknown
         THEN Return("usageUnavailable") /\ UNCHANGED asked
         ELSE /\ stage' = "pipelines" /\ asked' = [asked EXCEPT !.flows = flowUsage(a)]
              /\ UNCHANGED result
    /\ UNCHANGED <<req, uses, errors, user, inUse, deleted, response>>

AskPipelines ==
    /\ stage = "pipelines"
    /\ Ask("pipelines")
    /\ \E a \in UsageAnswers(<<"pipelines", asked.id>> \in uses) :
         IF pipelineUsage(a) = Unknown
         THEN Return("usageUnavailable") /\ UNCHANGED <<asked, inUse>>
         ELSE /\ inUse' = IF asked.flows > 0 \/ pipelineUsage(a) > 0
                          THEN inUse \cup {asked.id} ELSE inUse
              /\ asked' = [id |-> asked.id + 1, flows |-> 0]
              /\ stage' = IF asked.id = req.ids THEN "decide" ELSE "flows"
              /\ UNCHANGED result
    /\ UNCHANGED <<req, uses, errors, user, deleted, response>>

\* Meanwhile flows and pipelines are saved and removed.
SaveOrRemove ==
    /\ stage \in {"flows", "pipelines", "decide", "delete"}
    /\ \E use \in Services \X (1..req.ids) : uses' \in {uses \cup {use}, uses \ {use}}
    /\ UNCHANGED <<req, stage, errors, user, asked, inUse, result, deleted, response, was>>

\* Mutant: the list is refused only if all of it is in use.
usedByAll ==
    /\ stage = "decide"
    /\ IF inUse = 1..req.ids /\ inUse # {} /\ req.force # "true"
       THEN Return("inUse")
       ELSE stage' = "delete" /\ UNCHANGED result
    /\ UNCHANGED <<req, uses, was, errors, user, asked, inUse, deleted, response>>

usedBy ==
    /\ stage = "decide"
    /\ IF inUse # {} /\ req.force # "true"
       THEN Return("inUse")
       ELSE stage' = "delete" /\ UNCHANGED result
    /\ UNCHANGED <<req, uses, was, errors, user, asked, inUse, deleted, response>>

\* The repository deletes, checking the rights again; the ids go one by one and the
\* first that cannot end it.
Delete ==
    /\ stage = "delete"
    /\ \/ Return("ok") /\ deleted' = 1..req.ids
       \/ Return("missingRights") /\ UNCHANGED deleted
       \/ \E n \in 0..req.ids : Return("internal") /\ deleted' = 1..n
       \/ \E n \in 0..(req.ids - 1), r \in {"invalid", "notFound"} :
            Return(r) /\ deleted' = 1..n
       \/ /\ req.route = "deleteOperatorVersion"
          /\ Return("conflict") /\ UNCHANGED deleted
    /\ UNCHANGED <<req, uses, was, errors, user, asked, inUse, response>>

-----------------------------------------------------------------------------

Next ==
    \/ GinOpenTelemetry \/ DiscardBaggageErrors \/ AuthMiddleware \/ ErrorHandler
    \/ getAll \/ getOperator \/ putOperator \/ postOperator \/ putOperatorVersion
    \/ deleteOperatorVersion \/ deleteOperator \/ deleteOperators
    \/ getHealthCheckH \/ getSwaggerDocH
    \/ Repository \/ CheckFirst \/ AskFlows \/ AskPipelines \/ usedBy \/ Delete
    \/ SaveOrRemove

Spec == Init /\ [][Next]_vars

-----------------------------------------------------------------------------

Sent == stage = "sent"

\* An id was in use when the services were asked about it.
WasUsed(i) == \E service \in Services : <<service, i>> \in was.used

Administrator == req.roles = "admin" \/ (req.roles = "absent" /\ req.token = "admin")

\* "An unknown answer is not unused" (Client.Usage), and force "is for administrators
\* only" (deleteOptions): nothing is deleted before both services were asked about
\* every id, and if one of them was in use when asked, none is, unless an administrator
\* said force.  A refusal for use deletes nothing and, of a list, names "each used
\* operator" as of when they were asked (deleteOperators); a 502 deletes nothing either.
\* What is saved after the question is not covered: "a flow or pipeline saved in between
\* is not seen" (usedBy).
UsedWhenAskedIsKept ==
    /\ deleted # {} => was.asked = Services \X (1..req.ids)
    /\ deleted # {} /\ (\E i \in 1..req.ids : WasUsed(i)) => req.force = "true" /\ Administrator
    /\ result \in {"inUse", "usageUnavailable"} => deleted = {}
    /\ Sent /\ result = "inUse" =>
         /\ response.status = 409 /\ response.texts = <<>>
         /\ response.usage = {i \in 1..req.ids : WasUsed(i)}

\* The service works only for a user whom the gateway or a token named, and for another than
\* the caller only if the gateway says that the caller is an admin (AuthMiddleware,
\* and New, which puts it in front of these routes and no others).
ServesTheCaller ==
    result # "none" =>
        /\ user # Nobody
        /\ user = "target" => req.roles = "admin"
        /\ user = "subject" => ~req.userId /\ req.token \in {"user", "admin"}

\* A caller reads success if and only if the service had it: a baggage error does not
\* turn into "a 500 on every DELETE" (DiscardBaggageErrors), nor does clearing them
\* hide the error of a handler.
AnswerTellsOutcome ==
    Sent /\ req.route \in AuthRoutes =>
        (response.status < 400 <=> result = "ok") /\ Len(response.texts) <= 1

\* What the database or permissions-v2 said in an error is not passed on to the caller of
\* an operator route (safeError), and every handler calls it.
InternalsStayInside ==
    Sent /\ req.route \in AuthRoutes =>
        \A k \in DOMAIN response.texts : response.texts[k] \in Sentinels \cup {"generic"}

\* The statuses that the comments above the handlers list.
Documented ==
    [getAll |-> {200, 400, 500}, getOperator |-> {200, 400, 403, 404, 500},
     putOperator |-> {201, 400, 500}, postOperator |-> {200, 400, 403, 404, 409, 500},
     putOperatorVersion |-> {200, 201, 400, 403, 404, 409, 500},
     deleteOperatorVersion |-> {204, 400, 403, 404, 409, 500, 502},
     deleteOperator |-> {204, 400, 403, 404, 409, 500, 502},
     deleteOperators |-> {204, 400, 403, 404, 409, 500, 502}]

\* A request whose caller is known is answered only what the comment above its handler in
\* handler.go lists, whatever failed below.  Who is not known is answered 401 by
\* AuthMiddleware, and by nothing else; no comment lists that 401.
AnswersAsDocumented ==
    Sent /\ req.route \in AuthRoutes =>
        /\ user # Nobody => response.status \in Documented[req.route]
        /\ user = Nobody => response.status = 401 /\ result = "none"

\* "Only the sentinels we built ourselves may pass through" (safeError, pkg/api/api.go),
\* on every route.
OnlySentinelsReachTheCaller ==
    Sent => \A k \in DOMAIN response.texts : response.texts[k] \in Sentinels \cup {"generic"}
=============================================================================
