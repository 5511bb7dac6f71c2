-------------------------- MODULE OperatorVersions --------------------------
(***************************************************************************)
(* The document of one operator and the requests that read it, decide, and *)
(* write it back (pkg/db/repo.go, called through pkg/service/service.go).  *)
(*                                                                         *)
(* Each request runs in its own goroutine, possibly in another process, so *)
(* every call to the database is a step of its own:                        *)
(*                                                                         *)
(*   "begin"   findStored; then the pure part of applyUpdate,              *)
(*             applyVersionPut or applyVersionDelete on what was read.     *)
(*             For a delete: FindOneAndDelete                              *)
(*   "usage"   the check callback of DeleteOperatorVersion                 *)
(*   "write"   UpdateOne of writeIf                                        *)
(*   "count"   CountDocuments of writeIf, after a write matched nothing    *)
(*                                                                         *)
(* CheckPermission comes before "begin" and reads nothing of this module,  *)
(* so it is not a step of its own: it may deny a request that has not      *)
(* begun (action Deny).  The rights and usage checks before a delete of    *)
(* the whole operator are those of module OperatorLifecycle.               *)
(*                                                                         *)
(* A document without the revision field has revision 0: the filter of     *)
(* writeIf matches a nil revision with an absent field, and $inc makes an  *)
(* absent field 1.                                                         *)
(***************************************************************************)
EXTENDS OperatorRequests

CONSTANTS
    Clients,
    Calls,        \* the requests clients make
    MaxRevision   \* no request that could write starts beyond this revision

ASSUME ClientAssumption ==
    /\ Calls \subseteq Requests
    /\ MaxRevision \in Nat

VARIABLES
    doc,       \* the document, or Gone
    pc,        \* client -> the call its request makes next, or "idle"
    request,   \* client -> its request in progress, or NoRequest
    stored,    \* client -> the revision and versions it has read
    answer     \* the last answer sent, and to whom

vars == <<doc, pc, request, stored, answer>>

Document ==
    [rev : Nat, versions : SUBSET Version, image : Images \cup {NoImage},
     ports : Ports \cup {NoPorts}, meta : Metas]

ASSUME DocumentAssumption ==
    /\ Gone \notin Document
    /\ Gone \notin Operator
    /\ NoRequest \notin Requests

Snapshot == [rev : Nat, versions : SUBSET Version]

NothingRead == [rev |-> 0, versions |-> {}]

Steps == {"idle", "begin", "usage", "write", "count"}

TypeOK ==
    /\ doc \in Document \cup {Gone}
    /\ pc \in [Clients -> Steps]
    /\ request \in [Clients -> Requests \cup {NoRequest}]
    /\ stored \in [Clients -> Snapshot]
    /\ answer \in [to : Clients, is : Answers] \cup {NoAnswer}
    /\ \A c \in Clients : pc[c] = "idle" <=> request[c] = NoRequest

-----------------------------------------------------------------------------

\* As InsertOperator leaves the document (revision 1, no versions), or as
\* older releases left it (no revision).
Init ==
    /\ doc \in [rev : {0, 1}, versions : {{}}, image : Images \cup {NoImage},
                ports : Ports \cup {NoPorts}, meta : Metas]
    /\ pc = [c \in Clients |-> "idle"]
    /\ request = [c \in Clients |-> NoRequest]
    /\ stored = [c \in Clients |-> NothingRead]
    /\ answer = NoAnswer

Goto(c, step) == pc' = [pc EXCEPT ![c] = step]

\* The request ends; what it had read is forgotten.
Answer(c, a) ==
    /\ Goto(c, "idle")
    /\ request' = [request EXCEPT ![c] = NoRequest]
    /\ stored' = [stored EXCEPT ![c] = NothingRead]
    /\ answer' = [to |-> c, is |-> a]

\* A request arrives.
Submit(c, r) ==
    /\ pc[c] = "idle"
    /\ doc # Gone /\ r.op # "delete" => doc.rev < MaxRevision
    /\ Goto(c, "begin")
    /\ request' = [request EXCEPT ![c] = r]
    /\ UNCHANGED <<doc, stored, answer>>

\* The permission service says that the caller lacks the right.
Deny(c) ==
    /\ pc[c] = "begin"
    /\ Answer(c, "missingRights")
    /\ UNCHANGED doc

\* DeleteOperatorVersion validates the label before anything else.
RefuseLabel(c) ==
    /\ pc[c] = "begin"
    /\ request[c].op = "remove"
    /\ request[c].label = BadLabel
    /\ Answer(c, "invalid")
    /\ UNCHANGED doc

\* The pure functions of lib/versions.go run on the document just read, so a
\* request they refuse is answered in the same step.
FindStored(c) ==
    /\ pc[c] = "begin"
    /\ request[c].op # "delete"
    /\ request[c].op = "remove" => request[c].label # BadLabel
    /\ \/ doc = Gone /\ Answer(c, "notFound")
       \/ /\ doc # Gone
          /\ Invalid(doc.versions, request[c])
          /\ Answer(c, "invalid")
       \/ /\ doc # Gone
          /\ VersionMissing(doc.versions, request[c])
          /\ Answer(c, "versionNotFound")
       \/ /\ doc # Gone
          /\ ~Invalid(doc.versions, request[c])
          /\ ~VersionMissing(doc.versions, request[c])
          /\ stored' = [stored EXCEPT ![c] =
                [rev |-> doc.rev, versions |-> doc.versions]]
          /\ Goto(c, IF request[c].op = "remove" THEN "usage" ELSE "write")
          /\ UNCHANGED <<request, answer>>
    /\ UNCHANGED doc

\* The flow repository and the pipeline registry are asked about the version
\* that was read.  A use of it is overridden by force, silence is not.
CheckUsage(c) ==
    /\ pc[c] = "usage"
    /\ \E usage \in {"unused", "used", "unavailable"} :
         \/ /\ \/ usage = "unused"
               \/ usage = "used" /\ request[c].force
            /\ Goto(c, "write")
            /\ UNCHANGED <<request, stored, answer>>
         \/ usage = "used" /\ ~request[c].force /\ Answer(c, "inUse")
         \/ usage = "unavailable" /\ Answer(c, "unavailable")
    /\ UNCHANGED doc

-----------------------------------------------------------------------------
(* writeIf *)

\* Mutant: the revision is left out of the filter.
MatchesAnyRevision(c) == doc # Gone

\* Mutant: an update of an operator without versions filters by the id alone.
MatchesAnyVersions(c) ==
    /\ doc # Gone
    /\ \/ request[c].op = "update" /\ stored[c].versions = {}
       \/ doc.rev = stored[c].rev

\* Mutant: a nil revision matches nothing.
MatchesNoNil(c) ==
    /\ doc # Gone
    /\ IF request[c].op = "update" /\ stored[c].versions = {}
       THEN doc.versions = {}
       ELSE doc.rev = stored[c].rev /\ stored[c].rev # 0

\* The filter: the revision read, or for an operator read without versions,
\* that there are still none.
Matches(c) ==
    /\ doc # Gone
    /\ IF request[c].op = "update" /\ stored[c].versions = {}
       THEN doc.versions = {}
       ELSE doc.rev = stored[c].rev

\* Mutant: the revision is not incremented.
WrittenNoInc(c) ==
    LET r == request[c]
        versions == NewVersions(stored[c].versions, r)
        top == IF r.op = "update" /\ versions = {}
               THEN [image |-> r.image, ports |-> r.ports]
               ELSE TopLevel(versions)
    IN  [rev      |-> doc.rev,
         versions |-> IF r.op = "update" THEN doc.versions ELSE versions,
         image    |-> top.image,
         ports    |-> top.ports,
         meta     |-> IF r.op = "update" THEN r.meta ELSE doc.meta]

\* The $set and $inc of the request on the document that matched: fields that
\* are not set keep the value they have by now.
Written(c) ==
    LET r == request[c]
        versions == NewVersions(stored[c].versions, r)
        top == IF r.op = "update" /\ versions = {}
               THEN [image |-> r.image, ports |-> r.ports]
               ELSE TopLevel(versions)
    IN  [rev      |-> doc.rev + 1,
         versions |-> IF r.op = "update" THEN doc.versions ELSE versions,
         image    |-> top.image,
         ports    |-> top.ports,
         meta     |-> IF r.op = "update" THEN r.meta ELSE doc.meta]

\* UpdateOne on a matching document.  The write may have happened although
\* the call fails, for example when the connection or the process ends.
WriteIf(c) ==
    /\ pc[c] = "write"
    /\ Matches(c)
    /\ doc' = Written(c)
    /\ \E a \in {"ok", "error"} : Answer(c, a)

\* UpdateOne without a match: the reason is looked up in a second call.
WriteMissed(c) ==
    /\ pc[c] = "write"
    /\ ~Matches(c)
    /\ Goto(c, "count")
    /\ UNCHANGED <<doc, request, stored, answer>>

\* Mutant: the two reasons are swapped.
CountSwapped(c) ==
    /\ pc[c] = "count"
    /\ Answer(c, IF doc = Gone THEN "conflict" ELSE "notFound")
    /\ UNCHANGED doc

CountDocuments(c) ==
    /\ pc[c] = "count"
    /\ Answer(c, IF doc = Gone THEN "notFound" ELSE "conflict")
    /\ UNCHANGED doc

\* FindOneAndDelete of DeleteOperator; the permission entry is not modelled here.
FindOneAndDelete(c) ==
    /\ pc[c] = "begin"
    /\ request[c].op = "delete"
    /\ \/ /\ doc # Gone
          /\ doc' = Gone
          /\ \E a \in {"ok", "error"} : Answer(c, a)
       \/ doc = Gone /\ Answer(c, "notFound") /\ UNCHANGED doc

\* A call fails without an effect, or the process ends before it.
Fail(c) ==
    /\ pc[c] # "idle"
    /\ Answer(c, "error")
    /\ UNCHANGED doc

Step(c) ==
    \/ RefuseLabel(c)
    \/ Deny(c)
    \/ FindStored(c)
    \/ CheckUsage(c)
    \/ WriteIf(c)
    \/ WriteMissed(c)
    \/ CountDocuments(c)
    \/ FindOneAndDelete(c)
    \/ Fail(c)

Next == \E c \in Clients : (\E r \in Calls : Submit(c, r)) \/ Step(c)

Spec == Init /\ [][Next]_vars

-----------------------------------------------------------------------------
(* Safety *)

\* Clients that do not know about versions read the top level: of an operator
\* with versions it is the newest one's, whichever writes raced
\* (setNewestVersion on every write, the filters of writeIf).
TopFollowsNewest ==
    doc # Gone /\ doc.versions # {} =>
        [image |-> doc.image, ports |-> doc.ports] = TopLevel(doc.versions)

\* Pipelines are matched to versions by image and flows by label, so both
\* identify a version, also after two clients added versions at once (PutVersion
\* checks the list that was read, and the write replaces the stored one by it).
VersionsIdentified ==
    doc # Gone => UniqueLabels(doc.versions) /\ UniqueImages(doc.versions)

\* A revision is never reused for other versions: while the revision a request
\* read is still stored, so are the versions it read ($inc in every write).
RevisionIdentifiesVersions ==
    \A c \in Clients :
        pc[c] \in {"usage", "write"} /\ doc # Gone =>
            /\ stored[c].rev =< doc.rev
            /\ stored[c].rev = doc.rev => stored[c].versions = doc.versions

\* "changed or deleted since the read" (comment in writeIf): a request is only
\* answered with a conflict when another write succeeded after its read.
ConflictIsReal ==
    \A c \in Clients :
        pc[c] = "count" /\ doc # Gone => stored[c].rev < doc.rev

\* "An operator keeps at least one version" (RemoveVersion), although two
\* deletes may each have read a list of two.
KeepsOneVersion ==
    [][doc # Gone /\ doc' # Gone /\ doc.versions # {} => doc'.versions # {}]_vars

\* A version only disappears, label and all, by a request that had read that
\* very version and so asked for the usage of its label and its image; a
\* replacement stored after the usage was asked is not removed
\* (applyVersionDelete writes under the revision it read).
OnlyCheckedVersionsRemoved ==
    [][doc # Gone /\ doc' # Gone =>
        \A v \in doc.versions : ~HasLabel(doc'.versions, v.label) =>
            \E c \in Clients :
                /\ pc[c] = "write" /\ pc'[c] = "idle"
                /\ request[c].op = "remove" /\ request[c].label = v.label
                /\ v \in stored[c].versions]_vars

-----------------------------------------------------------------------------
(* Refinement *)

View == IF doc = Gone
        THEN Gone
        ELSE [versions |-> doc.versions, image |-> doc.image,
              ports |-> doc.ports, meta |-> doc.meta]

Atomic == INSTANCE AtomicOperator WITH operator <- View

\* Read, check and conditional write together look like one atomic step on the
\* operator as it is when the write, or the refusing read, happens: no update
\* is lost, and no refusal is based on a state that is already out of date.
ImplementsAtomic == Atomic!Spec
=============================================================================
