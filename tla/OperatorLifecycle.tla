-------------------------- MODULE OperatorLifecycle --------------------------
(***************************************************************************)
(* Operators come and go in two stores that share no transaction: their    *)
(* documents in MongoDB and their entries in permissions-v2.  Creating and *)
(* deleting write both, one after the other (pkg/db/repo.go); deleting     *)
(* first asks who uses the operators (pkg/service/service.go); a starting  *)
(* process brings the entries in line with the documents before it serves  *)
(* (ValidateOperatorPermissions).                                          *)
(*                                                                         *)
(* Requests run concurrently, every call to another system is a step, any  *)
(* call may fail, with or without having taken effect, and the process may *)
(* end at any point: it crashes, or the five seconds of Shutdown in main   *)
(* run out.  Faults of both kinds are counted, up to MaxFaults.            *)
(***************************************************************************)
EXTENDS Integers, Sequences, FiniteSets, SequencesExt

CONSTANTS
    Ids,         \* object ids, each given out once
    Users,
    Nobody,      \* owner of an id without a document
    Batches,     \* the id lists that delete requests carry
    MaxFaults

ASSUME LifecycleAssumption ==
    /\ Nobody \notin Users
    /\ Batches \subseteq Seq(Ids)
    /\ MaxFaults \in Nat

VARIABLES
    owner,    \* id -> owner in its document, or Nobody
    rights,   \* id -> users who may administrate it; none without an entry
    issued,   \* ids given out so far
    request,  \* user -> its request
    serving,  \* the process answers requests
    boot,     \* the process that is starting
    faults,   \* faults so far
    created   \* ids whose creation was answered with success (history)

vars == <<owner, rights, issued, request, serving, boot, faults, created>>

Steps == {"idle", "insert", "grant", "check", "usage", "recheck", "delete",
          "revoke", "answered"}

Results == {"none", "ok", "notFound", "missingRights", "inUse", "unavailable",
            "error"}

\* ids: what the request is about; at: the one it has got to; used: one of
\* them is in use; gone: those it deleted (history).
Request ==
    [step : Steps, ids : Seq(Ids), at : Nat, force : BOOLEAN,
     used : BOOLEAN, gone : SUBSET Ids, result : Results]

NoRequest ==
    [step |-> "idle", ids |-> <<>>, at |-> 1, force |-> FALSE,
     used |-> FALSE, gone |-> {}, result |-> "none"]

Owners == [Ids -> Users \cup {Nobody}]
Entries == [Ids -> SUBSET Users]

\* The start: the owners and entries read, and what is left to be written.
Boot ==
    [phase : {"off", "owners", "list", "grant", "purge"},
     owners : Owners, listed : Entries, grant : SUBSET Ids, purge : SUBSET Ids]

BootOff ==
    [phase |-> "off", owners |-> [i \in Ids |-> Nobody],
     listed |-> [i \in Ids |-> {}], grant |-> {}, purge |-> {}]

TypeOK ==
    /\ owner \in Owners
    /\ rights \in Entries
    /\ issued \subseteq Ids
    /\ request \in [Users -> Request]
    /\ serving \in BOOLEAN
    /\ boot \in Boot
    /\ faults \in 0..MaxFaults
    /\ created \subseteq issued

Init ==
    /\ owner = [i \in Ids |-> Nobody]
    /\ rights = [i \in Ids |-> {}]
    /\ issued = {}
    /\ request = [u \in Users |-> NoRequest]
    /\ serving = FALSE
    /\ boot = BootOff
    /\ faults = 0
    /\ created = {}

-----------------------------------------------------------------------------
(* Steps of a request *)

\* The request of u is changed in the given way.
Becomes(u, r) == request' = [request EXCEPT ![u] = r]

Goto(u, step) == Becomes(u, [request[u] EXCEPT !.step = step])

Answer(u, result) ==
    Becomes(u, [request[u] EXCEPT !.step = "answered", !.result = result])

CanFail == faults < MaxFaults

Fault == faults' = faults + 1

\* The answer has reached the client, who may make another request.
Done(u) ==
    /\ request[u].step = "answered"
    /\ Becomes(u, NoRequest)
    /\ UNCHANGED <<owner, rights, issued, serving, boot, faults, created>>

AtEnd(r) == r.at > Len(r.ids)

\* A call of the request fails and has changed nothing.
CallFails(u) ==
    /\ request[u].step \notin {"idle", "answered"}
    /\ request[u].step \in {"usage", "delete"} => ~AtEnd(request[u])
    /\ CanFail /\ Fault
    /\ Answer(u, IF request[u].step = "usage" THEN "unavailable" ELSE "error")
    /\ UNCHANGED <<owner, rights, issued, serving, boot, created>>

-----------------------------------------------------------------------------
(* InsertOperator *)

CreateOperator(u) ==
    /\ serving
    /\ request[u].step = "idle"
    /\ issued # Ids
    /\ Goto(u, "insert")
    /\ UNCHANGED <<owner, rights, issued, serving, boot, faults, created>>

\* Mutant: the id of the body is kept, so that it may have been given out before.
InsertGivenId(u) ==
    /\ request[u].step = "insert"
    /\ \E i \in Ids :
         /\ owner' = [owner EXCEPT ![i] = u]
         /\ Becomes(u, [request[u] EXCEPT !.step = "grant", !.ids = <<i>>])
    /\ UNCHANGED <<rights, issued, serving, boot, faults, created>>

\* The document is stored under a new id; if the answer to that is lost the
\* request ends without the entry.
InsertOne(u) ==
    /\ request[u].step = "insert"
    /\ \E i \in Ids \ issued :
         /\ owner' = [owner EXCEPT ![i] = u]
         /\ issued' = issued \cup {i}
         /\ \/ /\ Becomes(u, [request[u] EXCEPT !.step = "grant", !.ids = <<i>>])
               /\ UNCHANGED faults
            \/ CanFail /\ Fault /\ Answer(u, "error")
    /\ UNCHANGED <<rights, serving, boot, created>>

\* SetPermission: the owner gets every right.
SetPermission(u) ==
    /\ request[u].step = "grant"
    /\ LET i == request[u].ids[1] IN
         /\ rights' = [rights EXCEPT ![i] = {u}]
         /\ \/ /\ Answer(u, "ok")
               /\ created' = created \cup {i}
               /\ UNCHANGED faults
            \/ CanFail /\ Fault /\ Answer(u, "error") /\ UNCHANGED created
    /\ UNCHANGED <<owner, issued, serving, boot>>

-----------------------------------------------------------------------------
(* DeleteOperator, for a list of one id, and DeleteOperators *)

DeleteOperators(u, ids, force) ==
    /\ serving
    /\ request[u].step = "idle"
    /\ Becomes(u, [NoRequest EXCEPT !.step = "check", !.ids = ids, !.force = force])
    /\ UNCHANGED <<owner, rights, issued, serving, boot, faults, created>>

\* An id without an entry is nobody's to administrate.
MayAdministrate(u, i) == u \in rights[i]

\* CheckAdministrate, in one call for the whole list.
CheckAdministrate(u, from, to) ==
    /\ request[u].step = from
    /\ IF \A i \in ToSet(request[u].ids) : MayAdministrate(u, i)
       THEN Goto(u, to)
       ELSE Answer(u, "missingRights")
    /\ UNCHANGED <<owner, rights, issued, serving, boot, faults, created>>

Check(u) == CheckAdministrate(u, "check", "usage")

\* Made again because the usage check took time.
Recheck(u) == CheckAdministrate(u, "recheck", "delete")

\* usedBy: the flow repository and the pipeline registry are asked id by id; what
\* they know is not modelled.
Usage(u) ==
    LET r == request[u] IN
    /\ r.step = "usage"
    /\ ~AtEnd(r)
    /\ \E inUse \in BOOLEAN :
         Becomes(u, [r EXCEPT !.at = @ + 1, !.used = @ \/ inUse])
    /\ UNCHANGED <<owner, rights, issued, serving, boot, faults, created>>

\* All have been asked: used operators are refused unless the delete is forced.
\* What was learnt is only logged from here on.
UsageDone(u) ==
    LET r == request[u] IN
    /\ r.step = "usage"
    /\ AtEnd(r)
    /\ IF r.used /\ ~r.force
       THEN Answer(u, "inUse")
       ELSE Becomes(u, [NoRequest EXCEPT !.step = "recheck", !.ids = r.ids])
    /\ UNCHANGED <<owner, rights, issued, serving, boot, faults, created>>

\* Mutant: the entry of the deleted operator is left behind.
DeleteWithoutRevoke(u) ==
    LET r == request[u]
        i == r.ids[r.at]
    IN
    /\ r.step = "delete"
    /\ ~AtEnd(r)
    /\ owner[i] # Nobody
    /\ owner' = [owner EXCEPT ![i] = Nobody]
    /\ Becomes(u, [r EXCEPT !.at = @ + 1, !.gone = @ \cup {i}])
    /\ UNCHANGED <<rights, issued, serving, boot, faults, created>>

\* FindOneAndDelete of the next id; a document that is not there ends the request.  The
\* ids are well formed here; a malformed one ends a batch in the same place (ApiRequests).
FindOneAndDelete(u) ==
    LET r == request[u]
        i == r.ids[r.at]
        deleted == [r EXCEPT !.gone = @ \cup {i}]
    IN
    /\ r.step = "delete"
    /\ ~AtEnd(r)
    /\ \/ /\ owner[i] # Nobody
          /\ owner' = [owner EXCEPT ![i] = Nobody]
          /\ \/ /\ Becomes(u, [deleted EXCEPT !.step = "revoke"])
                /\ UNCHANGED faults
             \/ /\ CanFail /\ Fault
                /\ Becomes(u, [deleted EXCEPT !.step = "answered", !.result = "error"])
       \/ owner[i] = Nobody /\ Answer(u, "notFound") /\ UNCHANGED <<owner, faults>>
    /\ UNCHANGED <<rights, issued, serving, boot, created>>

\* Mutant: the rights are checked id by id inside the loop.
RemoveThenRecheck(u) ==
    LET r == request[u]
        i == r.ids[r.at]
    IN
    /\ r.step = "revoke"
    /\ rights' = [rights EXCEPT ![i] = {}]
    /\ Becomes(u, [r EXCEPT !.step = "recheck", !.at = @ + 1])
    /\ UNCHANGED <<owner, issued, serving, boot, faults, created>>

\* RemoveResource of the same id.
RemoveResource(u) ==
    LET r == request[u]
        i == r.ids[r.at]
    IN
    /\ r.step = "revoke"
    /\ rights' = [rights EXCEPT ![i] = {}]
    /\ \/ /\ Becomes(u, [r EXCEPT !.step = "delete", !.at = @ + 1])
          /\ UNCHANGED faults
       \/ CanFail /\ Fault /\ Answer(u, "error")
    /\ UNCHANGED <<owner, issued, serving, boot, created>>

DeleteDone(u) ==
    /\ request[u].step = "delete"
    /\ AtEnd(request[u])
    /\ Answer(u, "ok")
    /\ UNCHANGED <<owner, rights, issued, serving, boot, faults, created>>

-----------------------------------------------------------------------------
(* ValidateOperatorPermissions *)

\* A process starts when the one before it has ended.
Start ==
    /\ ~serving
    /\ boot.phase = "off"
    /\ boot' = [boot EXCEPT !.phase = "owners"]
    /\ UNCHANGED <<owner, rights, issued, request, serving, faults, created>>

\* Mutant: the read of the owners is capped, at one.
OwnersCapped ==
    /\ boot.phase = "owners"
    /\ \E seen \in Ids :
         boot' = [boot EXCEPT !.phase = "list",
                    !.owners = [i \in Ids |-> IF i = seen THEN owner[i] ELSE Nobody]]
    /\ UNCHANGED <<owner, rights, issued, request, serving, faults, created>>

AllOperatorOwners ==
    /\ boot.phase = "owners"
    /\ boot' = [boot EXCEPT !.phase = "list", !.owners = owner]
    /\ UNCHANGED <<owner, rights, issued, request, serving, faults, created>>

\* Mutant: only operators that have an entry are looked at.
ListWithEntry ==
    /\ boot.phase = "list"
    /\ boot' = [boot EXCEPT
         !.phase = "grant",
         !.listed = rights,
         !.grant = {i \in Ids : /\ boot.owners[i] # Nobody
                                /\ rights[i] # {} /\ boot.owners[i] \notin rights[i]},
         !.purge = {i \in Ids : rights[i] # {} /\ boot.owners[i] = Nobody}]
    /\ UNCHANGED <<owner, rights, issued, request, serving, faults, created>>

\* The entries are listed.  An owner who lacks a right is to be granted them all,
\* an entry without a document is to be removed.
ListResources ==
    /\ boot.phase = "list"
    /\ boot' = [boot EXCEPT
         !.phase = "grant",
         !.listed = rights,
         !.grant = {i \in Ids : /\ boot.owners[i] # Nobody
                                /\ boot.owners[i] \notin rights[i]},
         !.purge = {i \in Ids : rights[i] # {} /\ boot.owners[i] = Nobody}]
    /\ UNCHANGED <<owner, rights, issued, request, serving, faults, created>>

\* The listed entry of an operator is written back with its owner added.
Grant(i) ==
    /\ boot.phase = "grant"
    /\ i \in boot.grant
    /\ rights' = [rights EXCEPT ![i] = boot.listed[i] \cup {boot.owners[i]}]
    /\ boot' = [boot EXCEPT !.grant = @ \ {i}]
    /\ UNCHANGED <<owner, issued, request, serving, faults, created>>

GrantDone ==
    /\ boot.phase = "grant"
    /\ boot.grant = {}
    /\ boot' = [boot EXCEPT !.phase = "purge"]
    /\ UNCHANGED <<owner, rights, issued, request, serving, faults, created>>

Purge(i) ==
    /\ boot.phase = "purge"
    /\ i \in boot.purge
    /\ rights' = [rights EXCEPT ![i] = {}]
    /\ boot' = [boot EXCEPT !.purge = @ \ {i}]
    /\ UNCHANGED <<owner, issued, request, serving, faults, created>>

\* Mutant: the server listens before the stale entries are gone.
ServeEarly ==
    /\ boot.phase = "purge"
    /\ boot' = BootOff
    /\ serving' = TRUE
    /\ UNCHANGED <<owner, rights, issued, request, faults, created>>

\* Only now the server listens.
Serve ==
    /\ boot.phase = "purge"
    /\ boot.purge = {}
    /\ boot' = BootOff
    /\ serving' = TRUE
    /\ UNCHANGED <<owner, rights, issued, request, faults, created>>

\* A call of the reconciliation fails: the process gives up starting.
StartFails ==
    /\ boot.phase # "off"
    /\ CanFail /\ Fault
    /\ boot' = BootOff
    /\ UNCHANGED <<owner, rights, issued, request, serving, created>>

\* The process ends, and with it what it was doing: a fault if a request was
\* under way.
Stop ==
    /\ serving
    /\ \/ /\ \A u \in Users : request[u].step \in {"idle", "answered"}
          /\ UNCHANGED faults
       \/ CanFail /\ Fault
    /\ serving' = FALSE
    /\ request' = [u \in Users |-> NoRequest]
    /\ UNCHANGED <<owner, rights, issued, boot, created>>

-----------------------------------------------------------------------------
(* The surroundings *)

\* A user who may administrate an operator gives the right to others or takes it
\* from them, the owner included; somebody keeps it.
Share(u, i, users) ==
    /\ MayAdministrate(u, i)
    /\ users # {}
    /\ rights' = [rights EXCEPT ![i] = users]
    /\ UNCHANGED <<owner, issued, request, serving, boot, faults, created>>

-----------------------------------------------------------------------------

RequestStep(u) ==
    \/ Done(u) \/ InsertOne(u) \/ SetPermission(u)
    \/ Check(u) \/ Usage(u) \/ UsageDone(u) \/ Recheck(u)
    \/ FindOneAndDelete(u) \/ RemoveResource(u) \/ DeleteDone(u)

BootStep ==
    \/ Start \/ AllOperatorOwners \/ ListResources
    \/ \E i \in Ids : Grant(i)
    \/ GrantDone
    \/ \E i \in Ids : Purge(i)
    \/ Serve

Next ==
    \/ \E u \in Users :
         \/ CreateOperator(u)
         \/ \E ids \in Batches, force \in BOOLEAN : DeleteOperators(u, ids, force)
         \/ RequestStep(u)
         \/ CallFails(u)
    \/ BootStep \/ StartFails \/ Stop
    \/ \E u \in Users, i \in Ids, users \in SUBSET Users : Share(u, i, users)

Spec == Init /\ [][Next]_vars

\* Handlers and the startup code keep running; faults are bounded.
FairSpec ==
    /\ Spec
    /\ WF_vars(BootStep)
    /\ \A u \in Users : WF_vars(RequestStep(u))

-----------------------------------------------------------------------------
(* Properties *)

HasDocument(i) == owner[i] # Nobody
HasEntry(i) == rights[i] # {}

\* An operator whose creation was reported as done stays reachable for as long
\* as it exists: no delete, failure or restart takes its entry away first
\* (order of the two writes in InsertOperator and DeleteOperator; the purge).
CreatedStaysReachable == \A i \in created : HasDocument(i) => HasEntry(i)

\* "so a refusal deletes nothing" (usedBy): a delete that is refused for missing
\* rights, for use, or because the use is unknown has not deleted any of its ids.
RefusalDeletesNothing ==
    \A u \in Users :
        request[u].result \in {"missingRights", "inUse", "unavailable"} =>
            request[u].gone = {}

\* Without a fault the stores only differ in an operator that a request is
\* between its two writes of.
PairedUnlessFault ==
    faults = 0 =>
        \A i \in Ids :
            /\ HasDocument(i) /\ ~HasEntry(i) =>
                 \E u \in Users : request[u].step = "grant" /\ request[u].ids[1] = i
            /\ HasEntry(i) /\ ~HasDocument(i) =>
                 \E u \in Users :
                     request[u].step = "revoke" /\ request[u].ids[request[u].at] = i

\* When a process begins to serve, documents and entries agree, whatever the one
\* before it left behind (ValidateOperatorPermissions).
StartRepairs ==
    [][~serving /\ serving' => \A i \in Ids : HasDocument(i)' <=> HasEntry(i)']_vars

\* An operator left without its entry, and an entry left without its operator,
\* are put right by a restart.
RestartRepairs ==
    \A i \in Ids :
        ~serving /\ (HasDocument(i) # HasEntry(i)) ~> (HasDocument(i) = HasEntry(i))

\* "Deletes multiple operators, all or none" (deleteOperators, pkg/api/handler.go):
\* a delete that is not answered with success has deleted nothing.
AllOrNone ==
    \A u \in Users :
        request[u].step = "answered" /\ request[u].result # "ok" =>
            request[u].gone = {}
=============================================================================
