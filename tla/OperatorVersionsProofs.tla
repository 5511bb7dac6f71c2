----------------------- MODULE OperatorVersionsProofs -----------------------
(***************************************************************************)
(* Proofs about OperatorVersions, for any number of clients, labels,       *)
(* images, port lists and revisions.                                       *)
(***************************************************************************)
EXTENDS OperatorVersions, TLAPS

USE DEF Steps

-----------------------------------------------------------------------------
(* The set operations of VersionSet *)

\* NewestVersion of at least one version is one of them (lib/versions.go,
\* NewestVersion reports ok).
LEMMA NewestIsStored ==
    ASSUME NEW versions \in SUBSET Version, versions # {}
    PROVE  NewestVersion(versions) \in versions
<1> DEFINE E == Eligible(versions)
           L == {v.label : v \in E}
<1>1. E \in SUBSET versions /\ E # {}
  BY DEF Eligible
<1>2. L \in SUBSET Labels /\ L # {}
  BY <1>1 DEF Version
<1>3. PICK top \in L : \A l \in L : l =< top
  BY <1>2, LabelAssumption
<1>4. PICK v \in E : v.label = top
  BY <1>3
<1>5. \A w \in E : w.label =< v.label
  BY <1>3, <1>4
<1>6. NewestVersion(versions) \in E
  BY <1>5 DEF NewestVersion
<1> QED BY <1>1, <1>6

\* The top level computed from versions is well typed.
LEMMA TopLevelType ==
    ASSUME NEW versions \in SUBSET Version
    PROVE  TopLevel(versions) \in
             [image : Images \cup {NoImage}, ports : Ports \cup {NoPorts}]
<1>1. CASE versions = {}
  BY <1>1 DEF TopLevel
<1>2. CASE versions # {}
  <2>1. NewestVersion(versions) \in Version
    BY <1>2, NewestIsStored
  <2> QED BY <1>2, <2>1 DEF TopLevel, Version
<1> QED BY <1>1, <1>2

\* PutVersion stores a valid version.
LEMMA PutVersionType ==
    ASSUME NEW versions \in SUBSET Version, NEW v \in VersionBody,
           PutAllowed(versions, v)
    PROVE  /\ [v EXCEPT !.ports = NonNil(v.ports)] \in Version
           /\ PutVersion(versions, v) \in SUBSET Version
           /\ PutVersion(versions, v) # {}
<1>1. NonNil(v.ports) \in Ports
  BY PortAssumption DEF NonNil, VersionBody
<1>2. v.label \in Labels /\ v.image \in Images /\ v.deprecated \in BOOLEAN
  BY DEF PutAllowed, VersionBody
<1>3. [v EXCEPT !.ports = NonNil(v.ports)] \in Version
  BY <1>1, <1>2 DEF Version, VersionBody
<1> QED BY <1>3 DEF PutVersion

\* PutVersion keeps labels and images unique: the version with the same label
\* is replaced, and no other one has the image.
LEMMA PutVersionUnique ==
    ASSUME NEW versions \in SUBSET Version, NEW v \in VersionBody,
           PutAllowed(versions, v),
           UniqueLabels(versions), UniqueImages(versions)
    PROVE  /\ UniqueLabels(PutVersion(versions, v))
           /\ UniqueImages(PutVersion(versions, v))
<1> DEFINE new == [v EXCEPT !.ports = NonNil(v.ports)]
<1>1. new.label = v.label /\ new.image = v.image
  BY DEF VersionBody
<1>2. \A w \in PutVersion(versions, v) :
        w = new \/ (w \in versions /\ w.label # v.label /\ w.image # v.image)
  BY DEF PutVersion, PutAllowed
<1> HIDE DEF new
<1>3. UniqueLabels(PutVersion(versions, v))
  BY <1>1, <1>2 DEF UniqueLabels
<1>4. UniqueImages(PutVersion(versions, v))
  BY <1>1, <1>2 DEF UniqueImages
<1> QED BY <1>3, <1>4

\* Removing versions keeps labels and images unique.
LEMMA RemoveVersionUnique ==
    ASSUME NEW versions \in SUBSET Version, NEW label,
           UniqueLabels(versions), UniqueImages(versions)
    PROVE  /\ UniqueLabels(RemoveVersion(versions, label))
           /\ UniqueImages(RemoveVersion(versions, label))
BY DEF RemoveVersion, UniqueLabels, UniqueImages

-----------------------------------------------------------------------------
(* Requests *)

\* A request allowed on versions leaves a set of valid versions behind, unique
\* in label and image if they were; only an update of an operator without
\* versions leaves none (applyUpdate, applyVersionPut, applyVersionDelete).
LEMMA NewVersionsValid ==
    ASSUME NEW versions \in SUBSET Version, NEW r \in Requests,
           ~Invalid(versions, r), ~VersionMissing(versions, r),
           r.op # "delete"
    PROVE  /\ NewVersions(versions, r) \in SUBSET Version
           /\ UniqueLabels(versions) /\ UniqueImages(versions) =>
                /\ UniqueLabels(NewVersions(versions, r))
                /\ UniqueImages(NewVersions(versions, r))
           /\ NewVersions(versions, r) = {} => r.op = "update" /\ versions = {}
<1>1. CASE r \in UpdateRequests
  BY <1>1 DEF UpdateRequests, NewVersions
<1>2. CASE r \in PutRequests
  <2>1. r.op = "put" /\ r.version \in VersionBody
    BY <1>2 DEF PutRequests
  <2>2. PutAllowed(versions, r.version)
    BY <2>1 DEF Invalid
  <2>3. NewVersions(versions, r) = PutVersion(versions, r.version)
    BY <2>1 DEF NewVersions
  <2> QED BY <2>1, <2>2, <2>3, PutVersionType, PutVersionUnique
<1>3. CASE r \in RemoveRequests
  <2>1. r.op = "remove" /\ r.label \in Labels \cup {BadLabel}
    BY <1>3 DEF RemoveRequests
  <2>2. HasLabel(versions, r.label) /\ RemoveAllowed(versions, r.label)
    BY <2>1 DEF Invalid, VersionMissing
  <2>3. NewVersions(versions, r) = RemoveVersion(versions, r.label)
    BY <2>1 DEF NewVersions
  <2>4. RemoveVersion(versions, r.label) # {}
    BY <2>2 DEF RemoveAllowed, RemoveVersion
  <2>5. RemoveVersion(versions, r.label) \in SUBSET Version
    BY DEF RemoveVersion
  <2> QED BY <2>3, <2>4, <2>5, RemoveVersionUnique
<1>4. CASE r \in DeleteRequests
  BY <1>4 DEF DeleteRequests
<1> QED BY <1>1, <1>2, <1>3, <1>4 DEF Requests

-----------------------------------------------------------------------------
(* The inductive invariant *)

\* What a request that is past its read knows of it: the request was allowed on
\* the versions it read.
Approved ==
    \A c \in Clients :
        /\ pc[c] \in {"usage", "write", "count"} => request[c].op # "delete"
        /\ pc[c] = "usage" => request[c].op = "remove"
        /\ pc[c] \in {"usage", "write"} =>
             /\ ~Invalid(stored[c].versions, request[c])
             /\ ~VersionMissing(stored[c].versions, request[c])

IInv ==
    /\ TypeOK
    /\ Approved
    /\ RevisionIdentifiesVersions
    /\ ConflictIsReal
    /\ VersionsIdentified
    /\ TopFollowsNewest

\* The invariant holds when the operator has no versions and nobody calls.
LEMMA InitIInv == Init => IInv
<1> SUFFICES ASSUME Init PROVE IInv
  OBVIOUS
<1>1. doc \in Document /\ doc.versions = {}
  BY DEF Init, Document
<1>2. TypeOK
  BY <1>1 DEF Init, TypeOK, Snapshot, NothingRead
<1>3. Approved /\ RevisionIdentifiesVersions /\ ConflictIsReal
  BY DEF Init, Approved, RevisionIdentifiesVersions, ConflictIsReal
<1>4. VersionsIdentified /\ TopFollowsNewest
  BY <1>1 DEF VersionsIdentified, TopFollowsNewest, UniqueLabels, UniqueImages
<1> QED BY <1>2, <1>3, <1>4 DEF IInv

\* A request in progress is one of Requests.
LEMMA InProgress ==
    ASSUME TypeOK, NEW c \in Clients, pc[c] # "idle"
    PROVE  request[c] \in Requests
BY DEF TypeOK

\* Answering keeps the types and what is known of the other requests, whether
\* or not the document changes.
LEMMA AnswerType ==
    ASSUME TypeOK, NEW c \in Clients, NEW a \in Answers, Answer(c, a),
           doc' \in Document \cup {Gone}
    PROVE  TypeOK'
BY DEF TypeOK, Answer, Goto, NothingRead, Snapshot

\* The request that is answered is idle, the others are where they were.
LEMMA AnswerFrame ==
    ASSUME TypeOK, NEW c \in Clients, NEW a, Answer(c, a)
    PROVE  /\ pc'[c] = "idle"
           /\ \A d \in Clients : d # c =>
                /\ pc'[d] = pc[d]
                /\ request'[d] = request[d]
                /\ stored'[d] = stored[d]
BY DEF TypeOK, Answer, Goto

\* An answer without a write preserves the invariant.
LEMMA AnswerIInv ==
    ASSUME IInv, NEW c \in Clients, NEW a \in Answers, Answer(c, a), doc' = doc
    PROVE  IInv'
<1> USE DEF IInv
<1>1. TypeOK'
  BY AnswerType DEF TypeOK
<1>2. Approved'
  BY AnswerFrame DEF Approved
<1>3. RevisionIdentifiesVersions' /\ ConflictIsReal'
  BY AnswerFrame DEF RevisionIdentifiesVersions, ConflictIsReal
<1>4. VersionsIdentified' /\ TopFollowsNewest'
  BY DEF VersionsIdentified, TopFollowsNewest
<1> QED BY <1>1, <1>2, <1>3, <1>4

-----------------------------------------------------------------------------
(* The write *)

\* A document that matches the filter of an approved request still has the
\* versions the request read, so the request is approved on it as well.
LEMMA MatchedVersions ==
    ASSUME IInv, NEW c \in Clients, pc[c] = "write", Matches(c)
    PROVE  /\ doc \in Document
           /\ doc.versions = stored[c].versions
BY DocumentAssumption
   DEF IInv, TypeOK, RevisionIdentifiesVersions, Matches, Document

\* What is written is a document of the next revision whose versions are the
\* ones computed from the versions read, with the top level that follows them.
LEMMA WrittenDocument ==
    ASSUME IInv, NEW c \in Clients, pc[c] = "write", Matches(c)
    PROVE  /\ Written(c) \in Document
           /\ Written(c).rev = doc.rev + 1
           /\ Written(c).versions = NewVersions(doc.versions, request[c])
           /\ Written(c).versions # {} =>
                [image |-> Written(c).image, ports |-> Written(c).ports]
                    = TopLevel(Written(c).versions)
<1> DEFINE r == request[c]
           versions == NewVersions(stored[c].versions, r)
           top == IF r.op = "update" /\ versions = {}
                  THEN [image |-> r.image, ports |-> r.ports]
                  ELSE TopLevel(versions)
<1>1. doc \in Document /\ doc.versions = stored[c].versions
  BY MatchedVersions
<1>2. r \in Requests /\ r.op # "delete"
  BY InProgress DEF IInv, Approved
<1>3. versions \in SUBSET Version
  <2>1. doc.versions \in SUBSET Version
    BY <1>1 DEF Document
  <2> QED BY <1>1, <1>2, <2>1, NewVersionsValid DEF IInv, Approved
<1>4. r.op = "update" => r \in UpdateRequests /\ versions = doc.versions
  BY <1>1, <1>2 DEF Requests, UpdateRequests, PutRequests, RemoveRequests,
                    DeleteRequests, NewVersions
<1>5. top \in [image : Images \cup {NoImage}, ports : Ports \cup {NoPorts}]
  <2>1. CASE r.op = "update" /\ versions = {}
    BY <1>4, <2>1 DEF UpdateRequests
  <2>2. CASE ~(r.op = "update" /\ versions = {})
    BY <1>3, <2>2, TopLevelType
  <2> QED BY <2>1, <2>2
<1>6. Written(c) =
        [rev |-> doc.rev + 1, versions |-> versions,
         image |-> top.image, ports |-> top.ports,
         meta |-> IF r.op = "update" THEN r.meta ELSE doc.meta]
  <2>1. (IF r.op = "update" THEN doc.versions ELSE versions) = versions
    BY <1>4
  <2> QED BY <2>1 DEF Written
<1>7. (IF r.op = "update" THEN r.meta ELSE doc.meta) \in Metas
  BY <1>1, <1>4 DEF UpdateRequests, Document
<1> HIDE DEF top, versions, r
<1>8. Written(c) \in Document
  BY <1>1, <1>3, <1>5, <1>6, <1>7 DEF Document
<1>9. versions # {} => [image |-> top.image, ports |-> top.ports]
                          = TopLevel(versions)
  <2>1. SUFFICES ASSUME versions # {} PROVE [image |-> top.image, ports |-> top.ports] = TopLevel(versions)
    OBVIOUS
  <2>2. top = TopLevel(versions)
    BY <2>1 DEF top
  <2> QED BY <2>2, <1>5
<1>10. versions = NewVersions(doc.versions, request[c])
  BY <1>1 DEF versions, r
<1> QED BY <1>6, <1>8, <1>9, <1>10

-----------------------------------------------------------------------------
(* Every action preserves the invariant *)

\* A new request changes neither the document nor what others have read.
LEMMA SubmitIInv ==
    ASSUME IInv, NEW c \in Clients, NEW r \in Calls, Submit(c, r)
    PROVE  IInv'
<1> USE DEF IInv
<1>1. TypeOK'
  BY ClientAssumption, DocumentAssumption DEF Submit, Goto, TypeOK
<1>2. \A d \in Clients : d # c => pc'[d] = pc[d] /\ request'[d] = request[d]
  BY DEF Submit, Goto, TypeOK
<1>3. pc'[c] = "begin" /\ stored' = stored /\ doc' = doc
  BY DEF Submit, Goto, TypeOK
<1>4. Approved'
  BY <1>2, <1>3 DEF Approved
<1>5. RevisionIdentifiesVersions' /\ ConflictIsReal'
  BY <1>2, <1>3 DEF RevisionIdentifiesVersions, ConflictIsReal
<1>6. VersionsIdentified' /\ TopFollowsNewest'
  BY <1>3 DEF VersionsIdentified, TopFollowsNewest
<1> QED BY <1>1, <1>4, <1>5, <1>6

\* A request goes on to its next call without having written.
LEMMA AdvanceIInv ==
    ASSUME IInv, NEW c \in Clients, NEW step \in {"usage", "write", "count"},
           pc[c] # "idle", Goto(c, step), UNCHANGED <<doc, request, answer>>,
           stored' \in [Clients -> Snapshot],
           \A d \in Clients : d # c => stored'[d] = stored[d],
           request[c].op # "delete",
           step = "usage" => request[c].op = "remove",
           step # "count" =>
             /\ ~Invalid(stored'[c].versions, request[c])
             /\ ~VersionMissing(stored'[c].versions, request[c])
             /\ doc # Gone =>
                  /\ stored'[c].rev =< doc.rev
                  /\ stored'[c].rev = doc.rev => stored'[c].versions = doc.versions,
           step = "count" /\ doc # Gone => stored'[c].rev < doc.rev
    PROVE  IInv'
<1> USE DEF IInv
<1>1. TypeOK'
  BY DEF TypeOK, Goto
<1>2. pc'[c] = step /\ \A d \in Clients : d # c => pc'[d] = pc[d]
  BY DEF TypeOK, Goto
<1>3. Approved'
  BY <1>2 DEF Approved
<1>4. RevisionIdentifiesVersions'
  BY <1>2 DEF RevisionIdentifiesVersions
<1>5. ConflictIsReal'
  BY <1>2 DEF ConflictIsReal
<1>6. VersionsIdentified' /\ TopFollowsNewest'
  BY DEF VersionsIdentified, TopFollowsNewest
<1> QED BY <1>1, <1>3, <1>4, <1>5, <1>6

\* The read: what is read is the document itself.
LEMMA FindStoredIInv ==
    ASSUME IInv, NEW c \in Clients, FindStored(c)
    PROVE  IInv'
<1>1. CASE \E a \in Answers : Answer(c, a)
  BY <1>1, AnswerIInv DEF FindStored
<1>2. CASE ~\E a \in Answers : Answer(c, a)
  <2> DEFINE step == IF request[c].op = "remove" THEN "usage" ELSE "write"
  <2>1. /\ doc # Gone
        /\ ~Invalid(doc.versions, request[c])
        /\ ~VersionMissing(doc.versions, request[c])
        /\ stored' = [stored EXCEPT ![c] =
              [rev |-> doc.rev, versions |-> doc.versions]]
        /\ Goto(c, step)
        /\ UNCHANGED <<doc, request, answer>>
        /\ pc[c] = "begin" /\ request[c].op # "delete"
    BY <1>2 DEF FindStored, Answers
  <2>2. doc \in Document /\ stored \in [Clients -> Snapshot]
    BY <2>1 DEF IInv, TypeOK
  <2>3. /\ stored'[c] = [rev |-> doc.rev, versions |-> doc.versions]
        /\ \A d \in Clients : d # c => stored'[d] = stored[d]
        /\ stored' \in [Clients -> Snapshot]
    BY <2>1, <2>2 DEF Document, Snapshot
  <2>4. stored'[c].rev = doc.rev /\ stored'[c].versions = doc.versions
        /\ doc.rev =< doc.rev
    BY <2>2, <2>3 DEF Document
  <2> QED BY <2>1, <2>3, <2>4, AdvanceIInv
<1> QED BY <1>1, <1>2

\* The usage check only lets the request go on, or ends it.
LEMMA CheckUsageIInv ==
    ASSUME IInv, NEW c \in Clients, CheckUsage(c)
    PROVE  IInv'
<1>1. CASE \E a \in Answers : Answer(c, a)
  BY <1>1, AnswerIInv DEF CheckUsage
<1>2. CASE ~\E a \in Answers : Answer(c, a)
  <2>1. /\ pc[c] = "usage" /\ Goto(c, "write")
        /\ UNCHANGED <<doc, request, stored, answer>>
    BY <1>2 DEF CheckUsage, Answers
  <2>2. stored \in [Clients -> Snapshot]
    BY DEF IInv, TypeOK
  <2> QED BY <2>1, <2>2, AdvanceIInv
        DEF IInv, Approved, RevisionIdentifiesVersions
<1> QED BY <1>1, <1>2

\* A filter that does not match an existing document means a later revision.
LEMMA WriteMissedIInv ==
    ASSUME IInv, NEW c \in Clients, WriteMissed(c)
    PROVE  IInv'
<1>1. /\ pc[c] = "write" /\ Goto(c, "count")
      /\ UNCHANGED <<doc, request, stored, answer>>
      /\ stored \in [Clients -> Snapshot]
  BY DEF WriteMissed, IInv, TypeOK
<1>2. doc # Gone => stored[c].rev < doc.rev
  <2> SUFFICES ASSUME doc # Gone PROVE stored[c].rev < doc.rev
    OBVIOUS
  <2>1. doc.rev \in Nat /\ stored[c].rev \in Nat
    BY <1>1 DEF IInv, TypeOK, Document, Snapshot
  <2>2. /\ stored[c].rev =< doc.rev
        /\ stored[c].rev = doc.rev => stored[c].versions = doc.versions
    BY <1>1 DEF IInv, RevisionIdentifiesVersions
  <2>3. stored[c].rev # doc.rev
    BY <2>2 DEF WriteMissed, Matches
  <2> QED BY <2>1, <2>2, <2>3
<1> QED BY <1>1, <1>2, AdvanceIInv DEF IInv, Approved

\* The write: the others' reads fall behind the new revision.
LEMMA WriteIfIInv ==
    ASSUME IInv, NEW c \in Clients, WriteIf(c)
    PROVE  IInv'
<1>1. /\ pc[c] = "write" /\ Matches(c) /\ doc' = Written(c)
      /\ doc \in Document /\ doc # Gone
  BY MatchedVersions, DocumentAssumption DEF WriteIf
<1>2. PICK a \in {"ok", "error"} : Answer(c, a)
  BY DEF WriteIf
<1>3. /\ doc' \in Document /\ doc' # Gone
      /\ doc'.rev = doc.rev + 1
      /\ doc'.versions = NewVersions(doc.versions, request[c])
      /\ doc'.versions # {} =>
           [image |-> doc'.image, ports |-> doc'.ports] = TopLevel(doc'.versions)
  BY <1>1, WrittenDocument, DocumentAssumption
<1>4. TypeOK'
  BY <1>2, <1>3, AnswerType DEF Answers, IInv
<1>5. Approved'
  BY <1>2, AnswerFrame DEF Approved, IInv
<1>6. \A d \in Clients : d # c /\ pc[d] \in {"usage", "write", "count"} =>
          stored[d].rev < doc'.rev
  <2> SUFFICES ASSUME NEW d \in Clients, pc[d] \in {"usage", "write", "count"}
               PROVE  stored[d].rev < doc'.rev
    OBVIOUS
  <2>1. doc.rev \in Nat /\ stored[d].rev \in Nat
    BY <1>1 DEF Document, IInv, TypeOK, Snapshot
  <2>2. stored[d].rev =< doc.rev
    BY <1>1, <2>1 DEF IInv, RevisionIdentifiesVersions, ConflictIsReal
  <2> QED BY <1>3, <2>1, <2>2
<1>7. RevisionIdentifiesVersions' /\ ConflictIsReal'
  <2>1. \A d \in Clients : stored[d].rev \in Nat /\ doc'.rev \in Nat
    BY <1>3 DEF Document, IInv, TypeOK, Snapshot
  <2> QED BY <1>2, <1>6, <2>1, AnswerFrame
          DEF RevisionIdentifiesVersions, ConflictIsReal, IInv
<1>8. VersionsIdentified'
  <2>1. request[c] \in Requests /\ request[c].op # "delete"
    BY <1>1, InProgress DEF IInv, Approved
  <2>2. /\ ~Invalid(doc.versions, request[c])
        /\ ~VersionMissing(doc.versions, request[c])
    BY <1>1, MatchedVersions DEF IInv, Approved
  <2>3. doc.versions \in SUBSET Version
    BY <1>1 DEF Document
  <2>4. UniqueLabels(doc.versions) /\ UniqueImages(doc.versions)
    BY <1>1 DEF IInv, VersionsIdentified
  <2> QED BY <1>3, <2>1, <2>2, <2>3, <2>4, NewVersionsValid
          DEF VersionsIdentified
<1>9. TopFollowsNewest'
  BY <1>3 DEF TopFollowsNewest
<1> QED BY <1>4, <1>5, <1>7, <1>8, <1>9 DEF IInv

\* After the delete there is nothing left to be wrong about.
LEMMA FindOneAndDeleteIInv ==
    ASSUME IInv, NEW c \in Clients, FindOneAndDelete(c)
    PROVE  IInv'
<1>1. CASE doc = Gone
  BY <1>1, AnswerIInv DEF FindOneAndDelete, Answers
<1>2. CASE doc # Gone
  <2>1. doc' = Gone /\ \E a \in {"ok", "error"} : Answer(c, a)
    BY <1>2 DEF FindOneAndDelete
  <2>2. PICK a \in {"ok", "error"} : Answer(c, a)
    BY <2>1
  <2>3. TypeOK'
    BY <2>1, <2>2, AnswerType DEF Answers, IInv
  <2>4. Approved'
    BY <2>2, AnswerFrame DEF Approved, IInv
  <2>5. RevisionIdentifiesVersions' /\ ConflictIsReal' /\ VersionsIdentified'
        /\ TopFollowsNewest'
    BY <2>1 DEF RevisionIdentifiesVersions, ConflictIsReal, VersionsIdentified,
                TopFollowsNewest
  <2> QED BY <2>3, <2>4, <2>5 DEF IInv
<1> QED BY <1>1, <1>2

\* Every step, and every stutter, preserves the inductive invariant.
LEMMA NextIInv == IInv /\ [Next]_vars => IInv'
<1> SUFFICES ASSUME IInv, [Next]_vars PROVE IInv'
  OBVIOUS
<1>1. ASSUME NEW c \in Clients, NEW r \in Calls, Submit(c, r) PROVE IInv'
  BY <1>1, SubmitIInv
<1>2. ASSUME NEW c \in Clients,
             RefuseLabel(c) \/ Deny(c) \/ CountDocuments(c) \/ Fail(c)
      PROVE  IInv'
  <2>1. doc' = doc /\ \E a \in Answers : Answer(c, a)
    BY <1>2 DEF RefuseLabel, Deny, CountDocuments, Fail, Answers
  <2> QED BY <2>1, AnswerIInv
<1>3. ASSUME NEW c \in Clients, FindStored(c) PROVE IInv'
  BY <1>3, FindStoredIInv
<1>4. ASSUME NEW c \in Clients, CheckUsage(c) PROVE IInv'
  BY <1>4, CheckUsageIInv
<1>5. ASSUME NEW c \in Clients, WriteIf(c) PROVE IInv'
  BY <1>5, WriteIfIInv
<1>6. ASSUME NEW c \in Clients, WriteMissed(c) PROVE IInv'
  BY <1>6, WriteMissedIInv
<1>7. ASSUME NEW c \in Clients, FindOneAndDelete(c) PROVE IInv'
  BY <1>7, FindOneAndDeleteIInv
<1>8. CASE UNCHANGED vars
  BY <1>8 DEF vars, IInv, TypeOK, Approved, RevisionIdentifiesVersions,
              ConflictIsReal, VersionsIdentified, TopFollowsNewest
<1> QED BY <1>1, <1>2, <1>3, <1>4, <1>5, <1>6, <1>7, <1>8 DEF Next, Step

-----------------------------------------------------------------------------
(* Theorems *)

\* The inductive invariant holds in every reachable state.
LEMMA Inductive == Spec => []IInv
BY InitIInv, NextIInv, PTL DEF Spec

\* The variables keep their types.
THEOREM TypeCorrect == Spec => []TypeOK
BY Inductive, PTL DEF IInv

\* Of an operator with versions the top level is always the newest version's.
THEOREM TopLevelCorrect == Spec => []TopFollowsNewest
BY Inductive, PTL DEF IInv

\* Labels and images identify the versions of an operator.
THEOREM VersionsCorrect == Spec => []VersionsIdentified
BY Inductive, PTL DEF IInv

\* While the revision a request read is stored, so are the versions it read.
THEOREM RevisionCorrect == Spec => []RevisionIdentifiesVersions
BY Inductive, PTL DEF IInv

\* A conflict is only answered when another write came in between.
THEOREM ConflictCorrect == Spec => []ConflictIsReal
BY Inductive, PTL DEF IInv

-----------------------------------------------------------------------------
(* Action properties *)

\* Only the write of an update, a put or a remove changes a document that stays.
LEMMA OnlyWriteIfChanges ==
    ASSUME Next, doc' # doc, doc' # Gone
    PROVE  \E c \in Clients : WriteIf(c)
BY DEF Next, Step, Submit, RefuseLabel, Deny, FindStored, CheckUsage,
       WriteMissed, CountDocuments, FindOneAndDelete, Fail

\* An operator that has versions keeps at least one, whatever deletes race.
THEOREM AlwaysKeepsOneVersion == Spec => KeepsOneVersion
<1> DEFINE A == doc # Gone /\ doc' # Gone /\ doc.versions # {}
                  => doc'.versions # {}
<1>1. IInv /\ [Next]_vars => [A]_vars
  <2> SUFFICES ASSUME IInv, Next, doc # Gone, doc' # Gone, doc.versions # {},
                      doc' # doc
               PROVE  doc'.versions # {}
    BY DEF vars
  <2>1. PICK c \in Clients : WriteIf(c)
    BY OnlyWriteIfChanges
  <2>2. /\ pc[c] = "write" /\ Matches(c)
        /\ doc'.versions = NewVersions(doc.versions, request[c])
    BY <2>1, WrittenDocument DEF WriteIf
  <2>3. doc \in Document /\ doc.versions = stored[c].versions
    BY <2>2, MatchedVersions
  <2>4. doc.versions \in SUBSET Version
    BY <2>3 DEF Document
  <2>5. /\ request[c] \in Requests /\ request[c].op # "delete"
        /\ ~Invalid(doc.versions, request[c])
        /\ ~VersionMissing(doc.versions, request[c])
    BY <2>2, <2>3, InProgress DEF IInv, Approved
  <2> QED BY <2>2, <2>4, <2>5, NewVersionsValid
<1> QED BY <1>1, Inductive, PTL DEF Spec, KeepsOneVersion

\* A version only disappears by a remove that had read that very version and
\* asked for its usage.
THEOREM AlwaysChecked == Spec => OnlyCheckedVersionsRemoved
<1> DEFINE A == doc # Gone /\ doc' # Gone =>
        \A v \in doc.versions : ~HasLabel(doc'.versions, v.label) =>
            \E c \in Clients :
                /\ pc[c] = "write" /\ pc'[c] = "idle"
                /\ request[c].op = "remove" /\ request[c].label = v.label
                /\ v \in stored[c].versions
<1>1. IInv /\ [Next]_vars => [A]_vars
  <2> SUFFICES ASSUME IInv, Next, doc # Gone, doc' # Gone,
                      NEW v \in doc.versions, ~HasLabel(doc'.versions, v.label)
               PROVE  \E c \in Clients :
                        /\ pc[c] = "write" /\ pc'[c] = "idle"
                        /\ request[c].op = "remove" /\ request[c].label = v.label
                        /\ v \in stored[c].versions
    BY DEF vars
  <2>1. doc' # doc
    BY DEF HasLabel
  <2>2. PICK c \in Clients : WriteIf(c)
    BY <2>1, OnlyWriteIfChanges
  <2>3. /\ pc[c] = "write" /\ Matches(c)
        /\ doc'.versions = NewVersions(doc.versions, request[c])
    BY <2>2, WrittenDocument DEF WriteIf
  <2>4. pc'[c] = "idle"
    BY <2>2, AnswerFrame DEF WriteIf, IInv
  <2>5. doc \in Document /\ v \in stored[c].versions /\ v \in Version
    BY <2>3, MatchedVersions DEF Document
  <2>6. request[c] \in Requests /\ request[c].op # "delete"
    BY <2>3, InProgress DEF IInv, Approved
  <2>7. request[c].op = "remove" /\ request[c].label = v.label
    <3>1. CASE request[c] \in UpdateRequests
      <4>1. doc'.versions = doc.versions
        BY <2>3, <3>1 DEF UpdateRequests, NewVersions
      <4> QED BY <4>1 DEF HasLabel
    <3>2. CASE request[c] \in PutRequests
      <4>1. doc'.versions = PutVersion(doc.versions, request[c].version)
            /\ request[c].version \in VersionBody
        BY <2>3, <3>2 DEF PutRequests, NewVersions
      <4>2. CASE v.label = request[c].version.label
        <5> DEFINE b == request[c].version
                   new == [b EXCEPT !.ports = NonNil(b.ports)]
        <5>1. new.label = v.label /\ new \in doc'.versions
          BY <4>1, <4>2 DEF VersionBody, PutVersion
        <5> QED BY <5>1 DEF HasLabel
      <4>3. CASE v.label # request[c].version.label
        <5>1. v \in doc'.versions
          BY <4>1, <4>3 DEF PutVersion
        <5> QED BY <5>1 DEF HasLabel
      <4> QED BY <4>2, <4>3
    <3>3. CASE request[c] \in RemoveRequests
      <4>1. request[c].op = "remove"
            /\ doc'.versions = RemoveVersion(doc.versions, request[c].label)
        BY <2>3, <3>3 DEF RemoveRequests, NewVersions
      <4>2. request[c].label = v.label
        BY <4>1 DEF RemoveVersion, HasLabel
      <4> QED BY <4>1, <4>2
    <3> QED BY <2>6, <3>1, <3>2, <3>3 DEF Requests, DeleteRequests
  <2> QED BY <2>3, <2>4, <2>5, <2>7
<1> QED BY <1>1, Inductive, PTL DEF Spec, OnlyCheckedVersionsRemoved

-----------------------------------------------------------------------------
(* The read-modify-write implements the atomic operator *)

\* The instance and this module have the same constants, hence the same
\* operators on versions and requests.
LEMMA SameOperators ==
    /\ Atomic!Operator = Operator
    /\ Atomic!RemoveRequests = RemoveRequests
    /\ Atomic!DeleteRequests = DeleteRequests
    /\ \A versions, r :
         /\ Atomic!Invalid(versions, r) <=> Invalid(versions, r)
         /\ Atomic!VersionMissing(versions, r) <=> VersionMissing(versions, r)
         /\ Atomic!NewVersions(versions, r) = NewVersions(versions, r)
    /\ \A versions : Atomic!TopLevel(versions) = TopLevel(versions)
<1>1. Atomic!Operator = Operator /\ Atomic!RemoveRequests = RemoveRequests
      /\ Atomic!DeleteRequests = DeleteRequests
  BY DEF Atomic!Operator, Operator, Atomic!Version, Version,
         Atomic!RemoveRequests, RemoveRequests,
         Atomic!DeleteRequests, DeleteRequests
<1>2. ASSUME NEW versions
      PROVE  Atomic!NewestVersion(versions) = NewestVersion(versions)
  BY Zenon DEF Atomic!NewestVersion, NewestVersion, Atomic!Eligible, Eligible
<1>3. ASSUME NEW versions
      PROVE  Atomic!TopLevel(versions) = TopLevel(versions)
  BY <1>2, Zenon DEF Atomic!TopLevel, TopLevel
<1>4. ASSUME NEW versions, NEW v
      PROVE  /\ Atomic!PutAllowed(versions, v) <=> PutAllowed(versions, v)
             /\ Atomic!PutVersion(versions, v) = PutVersion(versions, v)
  BY Zenon DEF Atomic!PutAllowed, PutAllowed, Atomic!PutVersion, PutVersion,
               Atomic!NonNil, NonNil
<1>5. ASSUME NEW versions, NEW label
      PROVE  /\ Atomic!HasLabel(versions, label) <=> HasLabel(versions, label)
             /\ Atomic!RemoveAllowed(versions, label)
                  <=> RemoveAllowed(versions, label)
             /\ Atomic!RemoveVersion(versions, label)
                  = RemoveVersion(versions, label)
  BY Zenon DEF Atomic!HasLabel, HasLabel, Atomic!RemoveAllowed, RemoveAllowed,
               Atomic!RemoveVersion, RemoveVersion
<1>6. ASSUME NEW body, NEW newest
      PROVE  Atomic!CheckTopLevel(body, newest) <=> CheckTopLevel(body, newest)
  BY Zenon DEF Atomic!CheckTopLevel, CheckTopLevel
<1>7. ASSUME NEW versions, NEW r
      PROVE  Atomic!Invalid(versions, r) <=> Invalid(versions, r)
  BY <1>2, <1>4, <1>5, <1>6, Zenon DEF Atomic!Invalid, Invalid
<1>8. ASSUME NEW versions, NEW r
      PROVE  /\ Atomic!VersionMissing(versions, r) <=> VersionMissing(versions, r)
             /\ Atomic!NewVersions(versions, r) = NewVersions(versions, r)
  BY <1>4, <1>5 DEF Atomic!VersionMissing, VersionMissing,
                    Atomic!NewVersions, NewVersions
<1> QED BY <1>1, <1>3, <1>7, <1>8

\* The view of a document never is the sentinel of a missing one.
LEMMA ViewOfDocument ==
    ASSUME TypeOK
    PROVE  /\ View = Gone <=> doc = Gone
           /\ doc # Gone => View.versions = doc.versions /\ View.meta = doc.meta
<1>1. CASE doc = Gone
  BY <1>1 DEF View
<1>2. CASE doc # Gone
  <2>1. View \in Operator
    BY <1>2 DEF View, TypeOK, Document, Operator
  <2> QED BY <1>2, <2>1, DocumentAssumption DEF View
<1> QED BY <1>1, <1>2

\* Initially the operator has no versions.
LEMMA InitRefines == Init => Atomic!Init
<1> SUFFICES ASSUME Init PROVE Atomic!Init
  OBVIOUS
<1>1. doc \in Document /\ doc.versions = {}
  BY DEF Init, Document
<1>2. doc # Gone
  BY <1>1, DocumentAssumption
<1>3. View \in Operator /\ View.versions = {}
  BY <1>1, <1>2 DEF View, Document, Operator
<1> QED BY <1>3, SameOperators DEF Init, Atomic!Init

\* An answer of the code is an answer of the atomic operator.
LEMMA AnswerResponds ==
    ASSUME TypeOK, NEW c \in Clients, NEW a, pc[c] # "idle", Answer(c, a)
    PROVE  Atomic!Respond(c, a)
BY DEF TypeOK, Answer, Atomic!Respond

\* A write that matched carries the request out on the stored operator.
LEMMA WriteIfRefines ==
    ASSUME IInv, NEW c \in Clients, WriteIf(c)
    PROVE  Atomic!Commit(c)
<1> DEFINE r == request[c]
<1>1. pc[c] = "write" /\ Matches(c) /\ doc' = Written(c)
  BY DEF WriteIf
<1>2. doc \in Document /\ doc.versions = stored[c].versions /\ doc # Gone
  BY <1>1, MatchedVersions, DocumentAssumption
<1>3. doc' \in Document /\ doc' # Gone
  BY <1>1, WrittenDocument, DocumentAssumption
<1>4. r \in Requests /\ r.op # "delete" /\ r # NoRequest
      /\ ~Invalid(doc.versions, r) /\ ~VersionMissing(doc.versions, r)
  BY <1>1, <1>2, InProgress, DocumentAssumption DEF IInv, Approved
<1>5. View # Gone /\ View.versions = doc.versions /\ View.meta = doc.meta
  BY <1>2, ViewOfDocument DEF IInv
<1>6. View' = Atomic!Effect(r)
  <2> DEFINE versions == NewVersions(doc.versions, r)
             meta == IF r.op = "update" THEN r.meta ELSE doc.meta
  <2>1. versions = {} => r.op = "update"
    <3>1. doc.versions \in SUBSET Version
      BY <1>2 DEF Document
    <3> QED BY <1>4, <3>1, NewVersionsValid
  <2>2. View' = [versions |-> doc'.versions, image |-> doc'.image,
                 ports |-> doc'.ports, meta |-> doc'.meta]
    BY <1>3 DEF View
  <2>3. doc'.versions = versions
    BY <1>1, WrittenDocument
  <2>4. doc'.meta = meta
    BY <1>1 DEF Written
  <2>5. CASE versions = {}
    <3>1. doc'.image = r.image /\ doc'.ports = r.ports
      BY <1>1, <1>2, <2>1, <2>5 DEF Written
    <3>2. Atomic!Effect(r) = [versions |-> {}, image |-> r.image,
                              ports |-> r.ports, meta |-> meta]
      BY <1>5, <2>5, SameOperators DEF Atomic!Effect
    <3> QED BY <2>2, <2>3, <2>4, <2>5, <3>1, <3>2
  <2>6. CASE versions # {}
    <3>1. doc'.image = TopLevel(versions).image
          /\ doc'.ports = TopLevel(versions).ports
      BY <1>1, <1>2, <2>6 DEF Written
    <3>2. Atomic!Effect(r) = [versions |-> versions,
                              image |-> TopLevel(versions).image,
                              ports |-> TopLevel(versions).ports, meta |-> meta]
      BY <1>5, <2>6, SameOperators DEF Atomic!Effect
    <3> QED BY <2>2, <2>3, <2>4, <3>1, <3>2
  <2> QED BY <2>5, <2>6
<1>7. \E a \in {"ok", "error"} : Atomic!Respond(c, a)
  BY <1>1, AnswerResponds DEF WriteIf, IInv
<1> QED BY <1>4, <1>5, <1>6, <1>7, SameOperators DEF Atomic!Commit

\* A delete carries itself out, or finds the operator gone.
LEMMA DeleteRefines ==
    ASSUME IInv, NEW c \in Clients, FindOneAndDelete(c)
    PROVE  Atomic!Commit(c) \/ Atomic!Refuse(c)
<1>1. pc[c] # "idle" /\ request[c].op = "delete" /\ request[c] # NoRequest
  BY InProgress, DocumentAssumption DEF FindOneAndDelete, IInv
<1>2. CASE doc = Gone
  <2>1. View = Gone /\ View' = Gone
    BY <1>2 DEF View, FindOneAndDelete
  <2>2. Atomic!Respond(c, "notFound")
    BY <1>1, <1>2, AnswerResponds DEF FindOneAndDelete, IInv
  <2> QED BY <1>1, <2>1, <2>2 DEF Atomic!Refuse
<1>3. CASE doc # Gone
  <2>1. View # Gone /\ View' = Gone
    BY <1>3, ViewOfDocument DEF IInv, View, FindOneAndDelete
  <2>2. \E a \in {"ok", "error"} : Atomic!Respond(c, a)
    BY <1>1, <1>3, AnswerResponds DEF FindOneAndDelete, IInv
  <2> QED BY <1>1, <2>1, <2>2 DEF Atomic!Commit
<1> QED BY <1>2, <1>3

\* The read refuses on the operator as it is, or is invisible.
LEMMA FindStoredRefines ==
    ASSUME IInv, NEW c \in Clients, FindStored(c)
    PROVE  Atomic!Refuse(c) \/ UNCHANGED <<View, request, answer>>
<1>1. pc[c] # "idle" /\ request[c] # NoRequest /\ View' = View
  BY InProgress, DocumentAssumption DEF FindStored, IInv, View
<1>2. View = Gone <=> doc = Gone
  BY ViewOfDocument DEF IInv
<1>3. doc # Gone => View.versions = doc.versions
  BY ViewOfDocument DEF IInv
<1>4. \A a : Answer(c, a) => Atomic!Respond(c, a)
  BY <1>1, AnswerResponds DEF IInv
<1> QED BY <1>1, <1>2, <1>3, <1>4, SameOperators DEF FindStored, Atomic!Refuse

\* Answers that say nothing about the operator.
LEMMA GiveUpRefines ==
    ASSUME IInv, NEW c \in Clients,
           Deny(c) \/ Fail(c) \/ CheckUsage(c) \/ CountDocuments(c)
    PROVE  \/ Atomic!GiveUp(c)
           \/ Atomic!Refuse(c)
           \/ UNCHANGED <<View, request, answer>>
<1>1. pc[c] # "idle" /\ request[c] # NoRequest /\ View' = View
  BY InProgress, DocumentAssumption
     DEF Deny, Fail, CheckUsage, CountDocuments, IInv, View
<1>2. \A a : Answer(c, a) => Atomic!Respond(c, a)
  BY <1>1, AnswerResponds DEF IInv
<1>3. CASE Deny(c) \/ Fail(c)
  BY <1>1, <1>2, <1>3 DEF Deny, Fail, Atomic!GiveUp
<1>4. CASE CheckUsage(c)
  <2>1. request[c] \in RemoveRequests
    BY <1>4, <1>1, InProgress DEF CheckUsage, IInv, Approved, Requests,
       UpdateRequests, PutRequests, DeleteRequests
  <2> QED BY <1>1, <1>2, <1>4, <2>1, SameOperators
          DEF CheckUsage, Atomic!GiveUp
<1>5. CASE CountDocuments(c)
  <2>1. request[c] \notin DeleteRequests
    BY <1>5 DEF CountDocuments, IInv, Approved, DeleteRequests
  <2>2. View = Gone <=> doc = Gone
    BY ViewOfDocument DEF IInv
  <2> QED BY <1>1, <1>2, <1>5, <2>1, <2>2, SameOperators
          DEF CountDocuments, Atomic!GiveUp, Atomic!Refuse
<1> QED BY <1>3, <1>4, <1>5

\* Every step of the code is a step of the atomic operator, or changes nothing
\* that its clients see.
LEMMA NextRefines == IInv /\ [Next]_vars => [Atomic!Next]_(Atomic!vars)
<1> SUFFICES ASSUME IInv, [Next]_vars
             PROVE  Atomic!Next \/ UNCHANGED <<View, request, answer>>
  BY DEF Atomic!vars
<1>1. ASSUME NEW c \in Clients, NEW r \in Calls, Submit(c, r)
      PROVE  Atomic!Call(c)
  BY <1>1 DEF Submit, Atomic!Call, View, IInv, TypeOK
<1>2. ASSUME NEW c \in Clients, RefuseLabel(c) PROVE Atomic!Refuse(c)
  <2>1. pc[c] # "idle" /\ request[c] # NoRequest /\ View' = View
    BY <1>2, InProgress, DocumentAssumption DEF RefuseLabel, IInv, View
  <2>2. Atomic!Respond(c, "invalid")
    BY <1>2, <2>1, AnswerResponds DEF RefuseLabel, IInv
  <2> QED BY <1>2, <2>1, <2>2 DEF RefuseLabel, Atomic!Refuse
<1>3. ASSUME NEW c \in Clients, WriteMissed(c)
      PROVE  UNCHANGED <<View, request, answer>>
  BY <1>3 DEF WriteMissed, View
<1>4. CASE UNCHANGED vars
  BY <1>4 DEF vars, View
<1> QED BY <1>1, <1>2, <1>3, <1>4, WriteIfRefines, DeleteRefines,
           FindStoredRefines, GiveUpRefines DEF Next, Step, Atomic!Next

\* No update is lost and no refusal is out of date: the repository implements
\* the atomic operator.
THEOREM Implementation == Spec => ImplementsAtomic
BY InitRefines, NextRefines, Inductive, PTL DEF Spec, Atomic!Spec, ImplementsAtomic
=============================================================================
