-------------------------- MODULE OperatorRequests --------------------------
(***************************************************************************)
(* The requests that change one stored operator (pkg/service/service.go,   *)
(* pkg/db/repo.go), what makes each of them invalid, and what each of them *)
(* makes of the operator.  Shared by the atomic specification and by the   *)
(* read-modify-write the code really performs.                             *)
(***************************************************************************)
EXTENDS VersionSet

CONSTANTS
    Metas,      \* the free fields: name, description, cost, deploymentType, pub
    Gone,       \* no document has the id (any more)
    NoRequest,  \* the client has no request in progress
    NoAnswer    \* nothing has been answered yet

UpdateRequests ==
    [op : {"update"}, image : Images \cup {NoImage},
     ports : Ports \cup {NoPorts}, meta : Metas]

PutRequests == [op : {"put"}, version : VersionBody]

RemoveRequests ==
    [op : {"remove"}, label : Labels \cup {BadLabel}, force : BOOLEAN]

DeleteRequests == [op : {"delete"}]

Requests ==
    UpdateRequests \cup PutRequests \cup RemoveRequests \cup DeleteRequests

\* An operator as its clients see it: the versions, and the top level that
\* clients unaware of versions read.
Operator ==
    [versions : SUBSET Version, image : Images \cup {NoImage},
     ports : Ports \cup {NoPorts}, meta : Metas]

Answers == {"ok", "invalid", "versionNotFound", "notFound",
            "conflict", "missingRights", "inUse", "unavailable", "error"}

-----------------------------------------------------------------------------
(* The answer to a request that cannot be carried out on these versions. *)

Invalid(versions, r) ==
    \/ /\ r.op = "update"
       /\ versions # {}
       /\ ~CheckTopLevel(r, NewestVersion(versions))
    \/ r.op = "put" /\ ~PutAllowed(versions, r.version)
    \/ /\ r.op = "remove"
       /\ \/ r.label = BadLabel
          \/ HasLabel(versions, r.label) /\ ~RemoveAllowed(versions, r.label)

VersionMissing(versions, r) ==
    r.op = "remove" /\ r.label \in Labels /\ ~HasLabel(versions, r.label)

\* The versions the request leaves behind.
NewVersions(versions, r) ==
    CASE r.op = "put"    -> PutVersion(versions, r.version)
      [] r.op = "remove" -> RemoveVersion(versions, r.label)
      [] OTHER           -> versions

\* setNewestVersion: the top level an operator with these versions gets.  Of no
\* versions NewestVersion returns the zero value.
TopLevel(versions) ==
    IF versions = {}
    THEN [image |-> NoImage, ports |-> NoPorts]
    ELSE [image |-> NewestVersion(versions).image,
          ports |-> NewestVersion(versions).ports]
=============================================================================
