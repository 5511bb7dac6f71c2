--------------------------- MODULE AtomicOperator ---------------------------
(***************************************************************************)
(* What the repository promises the clients of one stored operator: every  *)
(* request takes effect, or is refused, at a single instant between its    *)
(* call and its answer, against the operator as it is at that instant.     *)
(* There are no revisions, reads or filters here; a request that lost a    *)
(* race is told so ("conflict") and has changed nothing.                   *)
(***************************************************************************)
EXTENDS OperatorRequests

CONSTANTS
    Clients,
    Calls       \* the requests clients make

VARIABLES
    operator,   \* the stored operator, or Gone
    request,    \* client -> its request in progress, or NoRequest
    answer      \* the last answer sent, and to whom

vars == <<operator, request, answer>>

TypeOK ==
    /\ operator \in Operator \cup {Gone}
    /\ request \in [Clients -> Requests \cup {NoRequest}]
    /\ answer \in [to : Clients, is : Answers] \cup {NoAnswer}

\* An operator starts without versions: InsertOperator drops those of the body.
Init ==
    /\ operator \in {o \in Operator : o.versions = {}}
    /\ request = [c \in Clients |-> NoRequest]
    /\ answer = NoAnswer

Call(c) ==
    /\ request[c] = NoRequest
    /\ UNCHANGED <<operator, answer>>
    /\ \E r \in Calls : request' = [request EXCEPT ![c] = r]

Respond(c, a) ==
    /\ request[c] # NoRequest
    /\ request' = [request EXCEPT ![c] = NoRequest]
    /\ answer' = [to |-> c, is |-> a]

\* The operator after r, for r valid on the operator before.
Effect(r) ==
    LET versions == NewVersions(operator.versions, r)
        meta == IF r.op = "update" THEN r.meta ELSE operator.meta
    IN  IF versions = {}
        THEN [versions |-> {}, image |-> r.image, ports |-> r.ports, meta |-> meta]
        ELSE [versions |-> versions,
              image |-> TopLevel(versions).image,
              ports |-> TopLevel(versions).ports,
              meta |-> meta]

\* The request is carried out on the operator of this instant.  The answer
\* may be lost on its way ("error"): the effect is in place all the same.
Commit(c) ==
    LET r == request[c] IN
    /\ r # NoRequest
    /\ operator # Gone
    /\ \/ /\ r.op = "delete"
          /\ operator' = Gone
       \/ /\ r.op # "delete"
          /\ ~Invalid(operator.versions, r)
          /\ ~VersionMissing(operator.versions, r)
          /\ operator' = Effect(r)
    /\ \E a \in {"ok", "error"} : Respond(c, a)

\* "notFound", "invalid" and "versionNotFound" are true of this instant.
Refuse(c) ==
    LET r == request[c] IN
    /\ r # NoRequest
    /\ \/ operator = Gone /\ Respond(c, "notFound")
       \/ r.op = "remove" /\ r.label = BadLabel /\ Respond(c, "invalid")
       \/ /\ operator # Gone
          /\ Invalid(operator.versions, r)
          /\ Respond(c, "invalid")
       \/ /\ operator # Gone
          /\ VersionMissing(operator.versions, r)
          /\ Respond(c, "versionNotFound")
    /\ UNCHANGED operator

\* The permission service, the services asked for the usage and the database
\* may refuse or fail any request; only a write can lose a race.
GiveUp(c) ==
    /\ \/ \E a \in {"missingRights", "error"} : Respond(c, a)
       \/ /\ request[c] \in RemoveRequests
          /\ \E a \in {"inUse", "unavailable"} : Respond(c, a)
       \/ /\ request[c] \notin DeleteRequests
          /\ operator # Gone
          /\ Respond(c, "conflict")
    /\ UNCHANGED operator

Next ==
    \E c \in Clients :
        \/ Call(c)
        \/ Commit(c)
        \/ Refuse(c)
        \/ GiveUp(c)

Spec == Init /\ [][Next]_vars
=============================================================================
