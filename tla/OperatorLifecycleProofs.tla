----------------------- MODULE OperatorLifecycleProofs -----------------------
(***************************************************************************)
(* The two stores stay together, for any operators, users, lists of ids    *)
(* and number of faults.                                                   *)
(***************************************************************************)
EXTENDS OperatorLifecycle, TLAPS

-----------------------------------------------------------------------------
(* Requests *)

\* What becomes of the record of a request, one operator per way of changing it.
Answered(r, result) == [r EXCEPT !.step = "answered", !.result = result]
Requested(r, ids, force) == [r EXCEPT !.step = "check", !.ids = ids, !.force = force]
Inserted(r, i) == [r EXCEPT !.step = "grant", !.ids = <<i>>]
Asked(r, inUse) == [r EXCEPT !.at = @ + 1, !.used = @ \/ inUse]
Deleted(r, i) == [[r EXCEPT !.gone = @ \cup {i}] EXCEPT !.step = "revoke"]
DeletedBadly(r, i) ==
    [[r EXCEPT !.gone = @ \cup {i}] EXCEPT !.step = "answered", !.result = "error"]
Revoked(r) == [r EXCEPT !.step = "delete", !.at = @ + 1]

\* The record that an answer leaves behind.
LEMMA AnsweredRecord ==
    ASSUME NEW r \in Request, NEW x
    PROVE  Answered(r, x) =
             [step |-> "answered", ids |-> r.ids, at |-> r.at, force |-> r.force,
              used |-> r.used, gone |-> r.gone, result |-> x]
<1> DEFINE s == [step |-> "answered", ids |-> r.ids, at |-> r.at, force |-> r.force,
                 used |-> r.used, gone |-> r.gone, result |-> r.result]
<1>1. [r EXCEPT !.step = "answered"] = s
  BY DEF Request
<1>2. [s EXCEPT !.result = x] =
        [step |-> "answered", ids |-> r.ids, at |-> r.at, force |-> r.force,
         used |-> r.used, gone |-> r.gone, result |-> x]
  OBVIOUS
<1>3. Answered(r, x) = [[r EXCEPT !.step = "answered"] EXCEPT !.result = x]
  BY DEF Answered
<1> QED BY <1>1, <1>2, <1>3, Zenon

\* The record of a request that goes to another step and nothing else.
LEMMA StepRecord ==
    ASSUME NEW r \in Request, NEW s
    PROVE  [r EXCEPT !.step = s] =
             [step |-> s, ids |-> r.ids, at |-> r.at, force |-> r.force,
              used |-> r.used, gone |-> r.gone, result |-> r.result]
BY DEF Request

\* The record of a delete that has just been asked for.
LEMMA RequestedRecord ==
    ASSUME NEW r \in Request, NEW ids, NEW force
    PROVE  Requested(r, ids, force) =
             [step |-> "check", ids |-> ids, at |-> r.at, force |-> force,
              used |-> r.used, gone |-> r.gone, result |-> r.result]
<1> DEFINE s == [step |-> "check", ids |-> r.ids, at |-> r.at, force |-> r.force,
                 used |-> r.used, gone |-> r.gone, result |-> r.result]
           t == [step |-> "check", ids |-> ids, at |-> r.at, force |-> r.force,
                 used |-> r.used, gone |-> r.gone, result |-> r.result]
<1>1. [r EXCEPT !.step = "check"] = s
  BY DEF Request
<1>2. [s EXCEPT !.ids = ids] = t
  OBVIOUS
<1>3. [t EXCEPT !.force = force] =
        [step |-> "check", ids |-> ids, at |-> r.at, force |-> force,
         used |-> r.used, gone |-> r.gone, result |-> r.result]
  OBVIOUS
<1>4. Requested(r, ids, force) =
        [[[r EXCEPT !.step = "check"] EXCEPT !.ids = ids] EXCEPT !.force = force]
  BY DEF Requested
<1> QED BY <1>1, <1>2, <1>3, <1>4, Zenon

\* The record of a create between its two writes.
LEMMA InsertedRecord ==
    ASSUME NEW r \in Request, NEW i
    PROVE  Inserted(r, i) =
             [step |-> "grant", ids |-> <<i>>, at |-> r.at, force |-> r.force,
              used |-> r.used, gone |-> r.gone, result |-> r.result]
<1> DEFINE s == [step |-> "grant", ids |-> r.ids, at |-> r.at, force |-> r.force,
                 used |-> r.used, gone |-> r.gone, result |-> r.result]
<1>1. [r EXCEPT !.step = "grant"] = s
  BY DEF Request
<1>2. [s EXCEPT !.ids = <<i>>] =
        [step |-> "grant", ids |-> <<i>>, at |-> r.at, force |-> r.force,
         used |-> r.used, gone |-> r.gone, result |-> r.result]
  OBVIOUS
<1>3. Inserted(r, i) = [[r EXCEPT !.step = "grant"] EXCEPT !.ids = <<i>>]
  BY DEF Inserted
<1> QED BY <1>1, <1>2, <1>3, Zenon

\* The record of a delete after the usage of one more id was counted.
LEMMA AskedRecord ==
    ASSUME NEW r \in Request, NEW inUse
    PROVE  Asked(r, inUse) =
             [step |-> r.step, ids |-> r.ids, at |-> r.at + 1, force |-> r.force,
              used |-> r.used \/ inUse, gone |-> r.gone, result |-> r.result]
<1> DEFINE s == [step |-> r.step, ids |-> r.ids, at |-> r.at + 1, force |-> r.force,
                 used |-> r.used, gone |-> r.gone, result |-> r.result]
<1>1. [r EXCEPT !.at = @ + 1] = s
  BY DEF Request
<1>2. [s EXCEPT !.used = r.used \/ inUse] =
        [step |-> r.step, ids |-> r.ids, at |-> r.at + 1, force |-> r.force,
         used |-> r.used \/ inUse, gone |-> r.gone, result |-> r.result]
  OBVIOUS
<1>3. Asked(r, inUse) = [[r EXCEPT !.at = @ + 1] EXCEPT !.used = r.used \/ inUse]
  BY DEF Asked
<1> QED BY <1>1, <1>2, <1>3, Zenon

\* The record of a delete whose document is gone and whose entry is not.
LEMMA DeletedRecord ==
    ASSUME NEW r \in Request, NEW i
    PROVE  Deleted(r, i) =
             [step |-> "revoke", ids |-> r.ids, at |-> r.at, force |-> r.force,
              used |-> r.used, gone |-> r.gone \cup {i}, result |-> r.result]
<1> DEFINE s == [step |-> r.step, ids |-> r.ids, at |-> r.at, force |-> r.force,
                 used |-> r.used, gone |-> r.gone \cup {i}, result |-> r.result]
<1>1. [r EXCEPT !.gone = @ \cup {i}] = s
  <2>1. ASSUME NEW g
        PROVE  [r EXCEPT !.gone = g] =
                 [step |-> r.step, ids |-> r.ids, at |-> r.at, force |-> r.force,
                  used |-> r.used, gone |-> g, result |-> r.result]
    BY DEF Request
  <2> QED BY <2>1, Zenon
<1>2. [s EXCEPT !.step = "revoke"] =
        [step |-> "revoke", ids |-> r.ids, at |-> r.at, force |-> r.force,
         used |-> r.used, gone |-> r.gone \cup {i}, result |-> r.result]
  OBVIOUS
<1> QED BY <1>1, <1>2, Zenon DEF Deleted

\* The record of a delete that failed after the document was gone.
LEMMA DeletedBadlyRecord ==
    ASSUME NEW r \in Request, NEW i
    PROVE  DeletedBadly(r, i) =
             [step |-> "answered", ids |-> r.ids, at |-> r.at, force |-> r.force,
              used |-> r.used, gone |-> r.gone \cup {i}, result |-> "error"]
<1> DEFINE s == [step |-> r.step, ids |-> r.ids, at |-> r.at, force |-> r.force,
                 used |-> r.used, gone |-> r.gone \cup {i}, result |-> r.result]
           t == [step |-> "answered", ids |-> r.ids, at |-> r.at, force |-> r.force,
                 used |-> r.used, gone |-> r.gone \cup {i}, result |-> r.result]
<1>1. [r EXCEPT !.gone = @ \cup {i}] = s
  <2>1. ASSUME NEW g
        PROVE  [r EXCEPT !.gone = g] =
                 [step |-> r.step, ids |-> r.ids, at |-> r.at, force |-> r.force,
                  used |-> r.used, gone |-> g, result |-> r.result]
    BY DEF Request
  <2> QED BY <2>1, Zenon
<1>2. [s EXCEPT !.step = "answered"] = t
  OBVIOUS
<1>3. [t EXCEPT !.result = "error"] =
        [step |-> "answered", ids |-> r.ids, at |-> r.at, force |-> r.force,
         used |-> r.used, gone |-> r.gone \cup {i}, result |-> "error"]
  OBVIOUS
<1>4. DeletedBadly(r, i) =
        [[[r EXCEPT !.gone = @ \cup {i}] EXCEPT !.step = "answered"] EXCEPT !.result = "error"]
  BY DEF DeletedBadly
<1> QED BY <1>1, <1>2, <1>3, <1>4, Zenon

\* The record of a delete that goes on to its next id.
LEMMA RevokedRecord ==
    ASSUME NEW r \in Request
    PROVE  Revoked(r) =
             [step |-> "delete", ids |-> r.ids, at |-> r.at + 1, force |-> r.force,
              used |-> r.used, gone |-> r.gone, result |-> r.result]
<1> DEFINE s == [step |-> "delete", ids |-> r.ids, at |-> r.at, force |-> r.force,
                 used |-> r.used, gone |-> r.gone, result |-> r.result]
<1>1. [r EXCEPT !.step = "delete"] = s
  BY DEF Request
<1>2. [s EXCEPT !.at = r.at + 1] =
        [step |-> "delete", ids |-> r.ids, at |-> r.at + 1, force |-> r.force,
         used |-> r.used, gone |-> r.gone, result |-> r.result]
  OBVIOUS
<1>3. Revoked(r) = [[r EXCEPT !.step = "delete"] EXCEPT !.at = r.at + 1]
  BY DEF Revoked
<1> QED BY <1>1, <1>2, <1>3, Zenon

-----------------------------------------------------------------------------
(* The invariant *)

Refusals == {"missingRights", "inUse", "unavailable"}

\* The ids whose entry is due, whose entry is to go, and which are being deleted.
Granting(r) == IF r.step = "grant" THEN {r.ids[1]} ELSE {}
Revoking(r) == IF r.step = "revoke" THEN {r.ids[r.at]} ELSE {}
Deleting(r) == IF r.step \in {"delete", "revoke"} THEN ToSet(r.ids) ELSE {}

\* What a request is like by itself.
Local(r) ==
    /\ r \in Request
    /\ r.at >= 1
    /\ r.step = "idle" => r = NoRequest
    /\ r.step \in {"insert", "check", "usage", "recheck"} => r.gone = {}
    /\ r.result # "none" => r.step = "answered"
    /\ r.result \in Refusals => r.gone = {}
    /\ r.step = "grant" => 1 \in DOMAIN r.ids
    /\ r.step = "revoke" => r.at \in DOMAIN r.ids

Requests == \A u \in Users : Local(request[u])

\* An id that has not been given out is in neither store.
Fresh == \A i \in Ids \ issued : owner[i] = Nobody /\ rights[i] = {}

\* A process starts when nobody serves, and nobody serves a request then.
OneProcess ==
    /\ serving => boot.phase = "off"
    /\ ~serving => \A u \in Users : request[u] = NoRequest

\* Between its two writes, nobody but the creator knows of an operator.
Grants ==
    \A u \in Users : \A i \in Granting(request[u]) :
        /\ i \in issued /\ owner[i] # Nobody /\ rights[i] = {}
        /\ \A v \in Users : /\ v # u => i \notin Granting(request[v])
                            /\ i \notin Deleting(request[v])

\* What is being deleted has existed, and an entry goes after its document.
Deletes ==
    \A u \in Users :
        /\ Deleting(request[u]) \subseteq issued
        /\ \A i \in Revoking(request[u]) : i \in issued /\ owner[i] = Nobody

\* What a starting process knows is true, and what it has not put right yet, it will.
Repairing ==
    /\ boot.phase \in {"list", "grant", "purge"} => boot.owners = owner
    /\ boot.phase \in {"grant", "purge"} =>
         /\ \A i \in boot.grant : owner[i] # Nobody
         /\ \A i \in boot.purge : owner[i] = Nobody
         /\ \A i \in Ids : IF owner[i] = Nobody
                           THEN rights[i] # {} => i \in boot.purge
                           ELSE rights[i] = {} => i \in boot.grant
    /\ boot.phase = "purge" => boot.grant = {}

\* Without a fault, a request accounts for every difference of the stores.
Paired ==
    faults = 0 =>
        \A i \in Ids :
            /\ owner[i] # Nobody /\ rights[i] = {} =>
                 \E u \in Users : i \in Granting(request[u])
            /\ owner[i] = Nobody /\ rights[i] # {} =>
                 \E u \in Users : i \in Revoking(request[u])

\* The inductive invariant.
IInv ==
    /\ TypeOK /\ Requests /\ Fresh /\ OneProcess
    /\ Grants /\ Deletes /\ Repairing
    /\ CreatedStaysReachable /\ Paired

\* The ids a request is about are ids.
LEMMA LocalIds ==
    ASSUME NEW r, Local(r)
    PROVE  /\ Granting(r) \subseteq Ids
           /\ Revoking(r) \subseteq Deleting(r)
           /\ Deleting(r) \subseteq Ids
<1>1. r.ids \in Seq(Ids)
  BY DEF Local, Request
<1>2. \A k \in DOMAIN r.ids : r.ids[k] \in Ids /\ r.ids[k] \in ToSet(r.ids)
  BY <1>1 DEF ToSet
<1>3. ToSet(r.ids) \subseteq Ids
  BY <1>2 DEF ToSet
<1> QED BY <1>2, <1>3 DEF Granting, Revoking, Deleting, Local

\* A user without a request has one like this.
LEMMA NoRequestLocal ==
    Local(NoRequest) /\ Granting(NoRequest) = {} /\ Revoking(NoRequest) = {}
        /\ Deleting(NoRequest) = {}
<1>1. NoRequest \in Request
  BY DEF NoRequest, Request, Steps, Results
<1> QED BY <1>1 DEF NoRequest, Local, Granting, Revoking, Deleting, Refusals

\* The invariant holds before the first process starts.
LEMMA InitIInv == Init => IInv
<1> SUFFICES ASSUME Init PROVE IInv
  OBVIOUS
<1> USE DEF Init
<1>1. NoRequest \in Request
  BY NoRequestLocal DEF Local
<1>2. BootOff \in Boot
  BY DEF BootOff, Boot, Owners, Entries
<1>3. TypeOK
  <2>1. owner \in Owners /\ rights \in Entries
    BY DEF Owners, Entries
  <2>2. request \in [Users -> Request]
    BY <1>1
  <2>3. 0 \in 0..MaxFaults
    BY LifecycleAssumption
  <2> QED BY <1>2, <2>1, <2>2, <2>3 DEF TypeOK
<1>4. Requests /\ OneProcess
  BY NoRequestLocal DEF Requests, OneProcess
<1>5. Fresh /\ CreatedStaysReachable /\ Paired
  BY DEF Fresh, CreatedStaysReachable, Paired
<1>6. Grants /\ Deletes
  BY NoRequestLocal DEF Grants, Deletes
<1>7. Repairing
  BY DEF Repairing, BootOff
<1> QED BY <1>3, <1>4, <1>5, <1>6, <1>7 DEF IInv

\* A request that is under way is served.
LEMMA UnderWay ==
    ASSUME IInv, NEW u \in Users, request[u].step # "idle"
    PROVE  serving /\ boot.phase = "off"
BY DEF IInv, OneProcess, NoRequest

\* A step that changes one request and neither store, and begins no write of an entry,
\* keeps the invariant: what the request deletes now somebody may administrate, and if
\* no fault is behind the step, the request has had no write under way.
LEMMA RequestChange ==
    ASSUME IInv, serving, NEW u \in Users, NEW r,
           request' = [request EXCEPT ![u] = r],
           Local(r), Granting(r) = {}, Revoking(r) = {},
           \A i \in Deleting(r) : i \in Deleting(request[u]) \/ rights[i] # {},
           faults' \in 0..MaxFaults,
           faults' = 0 => /\ faults = 0
                          /\ Granting(request[u]) = {} /\ Revoking(request[u]) = {},
           UNCHANGED <<owner, rights, issued, serving, boot, created>>
    PROVE  IInv'
<1>1. request \in [Users -> Request] /\ r \in Request
  BY DEF IInv, TypeOK, Local
<1>2. request'[u] = r /\ \A v \in Users : v # u => request'[v] = request[v]
  BY <1>1
<1>3. TypeOK'
  BY <1>1 DEF IInv, TypeOK
<1>4. Requests'
  BY <1>2 DEF IInv, Requests
<1>5. Fresh' /\ OneProcess' /\ Repairing' /\ CreatedStaysReachable'
  BY DEF IInv, Fresh, OneProcess, Repairing, CreatedStaysReachable, HasDocument, HasEntry
<1>6. Grants'
  BY <1>2 DEF IInv, Grants
<1>7. Deletes'
  <2>1. Deleting(r) \subseteq issued
    BY LocalIds DEF IInv, Deletes, Fresh
  <2> QED BY <1>2, <2>1 DEF IInv, Deletes
<1>8. Paired'
  BY <1>2 DEF IInv, Paired
<1> QED BY <1>3, <1>4, <1>5, <1>6, <1>7, <1>8 DEF IInv

-----------------------------------------------------------------------------
(* Steps that change a request only *)

\* An answer ends the request, whatever it was doing.
LEMMA AnsweredLocal ==
    ASSUME NEW r, Local(r), NEW x \in Results, x \in Refusals => r.gone = {}
    PROVE  /\ Local(Answered(r, x))
           /\ Granting(Answered(r, x)) = {} /\ Revoking(Answered(r, x)) = {}
           /\ Deleting(Answered(r, x)) = {}
<1>1. r \in Request
  BY DEF Local
<1> DEFINE a == [step |-> "answered", ids |-> r.ids, at |-> r.at, force |-> r.force,
                 used |-> r.used, gone |-> r.gone, result |-> x]
<1>2. Answered(r, x) = a
  BY <1>1, AnsweredRecord
<1>3. a \in Request
  BY <1>1 DEF Request, Steps
<1>4. Local(a)
  BY <1>3 DEF Local
<1> QED BY <1>2, <1>4 DEF Granting, Revoking, Deleting

\* A step of a request that answers it and writes nothing, a fault or not.
LEMMA AnswerIInv ==
    ASSUME IInv, NEW u \in Users, request[u].step # "idle", NEW x \in Results,
           Answer(u, x),
           x \in Refusals => request[u].gone = {},
           faults' \in 0..MaxFaults,
           faults' = 0 => faults = 0 /\ request[u].step \notin {"grant", "revoke"},
           UNCHANGED <<owner, rights, issued, serving, boot, created>>
    PROVE  IInv'
<1>1. request' = [request EXCEPT ![u] = Answered(request[u], x)]
  BY Zenon DEF Answer, Becomes, Answered
<1>2. serving
  BY UnderWay
<1>3. Local(request[u])
  BY DEF IInv, Requests
<1>4. faults' = 0 => /\ faults = 0
                     /\ Granting(request[u]) = {} /\ Revoking(request[u]) = {}
  BY DEF Granting, Revoking
<1> QED BY <1>1, <1>2, <1>3, <1>4, AnsweredLocal, RequestChange

\* A failed call answers the request.
LEMMA CallFailsIInv ==
    ASSUME IInv, NEW u \in Users, CallFails(u)
    PROVE  IInv'
<1> DEFINE x == IF request[u].step = "usage" THEN "unavailable" ELSE "error"
<1>1. request[u].step # "idle" /\ Answer(u, x)
  BY DEF CallFails
<1>2. x \in Results
  BY DEF Results
<1>3. x \in Refusals => request[u].gone = {}
  BY DEF Refusals, IInv, Requests, Local
<1>4. faults' \in 0..MaxFaults /\ faults' # 0
  BY LifecycleAssumption DEF CallFails, CanFail, Fault, IInv, TypeOK
<1>5. UNCHANGED <<owner, rights, issued, serving, boot, created>>
  BY DEF CallFails
<1> HIDE DEF x
<1> QED BY <1>1, <1>2, <1>3, <1>4, <1>5, AnswerIInv

\* Done, with which a user is free to make another request.
LEMMA DoneIInv ==
    ASSUME IInv, NEW u \in Users, Done(u)
    PROVE  IInv'
<1>1. serving
  BY UnderWay DEF Done
<1>2. Granting(request[u]) = {} /\ Revoking(request[u]) = {}
  BY DEF Done, Granting, Revoking
<1>3. faults' \in 0..MaxFaults /\ faults' = faults
  BY DEF Done, IInv, TypeOK
<1>4. request' = [request EXCEPT ![u] = NoRequest]
  BY DEF Done, Becomes
<1>5. UNCHANGED <<owner, rights, issued, serving, boot, created>>
  BY DEF Done
<1> QED BY <1>1, <1>2, <1>3, <1>4, <1>5, NoRequestLocal, RequestChange

\* CreateOperator.
LEMMA CreateOperatorIInv ==
    ASSUME IInv, NEW u \in Users, CreateOperator(u)
    PROVE  IInv'
<1> DEFINE q == request[u]
           r == [step |-> "insert", ids |-> q.ids, at |-> q.at, force |-> q.force,
                 used |-> q.used, gone |-> q.gone, result |-> q.result]
<1>1. q = NoRequest /\ q \in Request /\ q.at >= 1
  BY DEF CreateOperator, IInv, Requests, Local
<1>2. request' = [request EXCEPT ![u] = r]
  BY <1>1, StepRecord DEF CreateOperator, Goto, Becomes
<1>3. Local(r) /\ Granting(r) = {} /\ Revoking(r) = {} /\ Deleting(r) = {}
  <2>1. q.gone = {} /\ q.result = "none"
    BY <1>1 DEF NoRequest
  <2>2. r \in Request
    BY <1>1 DEF Request, Steps
  <2> QED BY <1>1, <2>1, <2>2 DEF Local, Refusals, Granting, Revoking, Deleting
<1>4. Granting(request[u]) = {} /\ Revoking(request[u]) = {}
  BY <1>1, NoRequestLocal
<1>5. serving /\ faults' \in 0..MaxFaults /\ faults' = faults
  BY DEF CreateOperator, IInv, TypeOK
<1>6. UNCHANGED <<owner, rights, issued, serving, boot, created>>
  BY DEF CreateOperator
<1> HIDE DEF r
<1> QED BY <1>2, <1>3, <1>4, <1>5, <1>6, RequestChange

\* DeleteOperators.
LEMMA DeleteOperatorsIInv ==
    ASSUME IInv, NEW u \in Users, NEW ids \in Batches, NEW force \in BOOLEAN,
           DeleteOperators(u, ids, force)
    PROVE  IInv'
<1> DEFINE q == NoRequest
           r == [step |-> "check", ids |-> ids, at |-> q.at, force |-> force,
                 used |-> q.used, gone |-> q.gone, result |-> q.result]
<1>1. request[u] = NoRequest /\ q \in Request
  BY NoRequestLocal DEF DeleteOperators, IInv, Requests, Local
<1>2. request' = [request EXCEPT ![u] = r]
  <2>1. request' = [request EXCEPT ![u] = Requested(q, ids, force)]
    BY Zenon DEF DeleteOperators, Becomes, Requested
  <2> QED BY <1>1, <2>1, RequestedRecord
<1>3. Local(r) /\ Granting(r) = {} /\ Revoking(r) = {} /\ Deleting(r) = {}
  <2>1. q.gone = {} /\ q.result = "none" /\ q.at = 1
    BY DEF NoRequest
  <2>2. r \in Request
    BY <1>1, LifecycleAssumption DEF Request, Steps
  <2> QED BY <2>1, <2>2 DEF Local, Refusals, Granting, Revoking, Deleting
<1>4. Granting(request[u]) = {} /\ Revoking(request[u]) = {}
  BY <1>1, NoRequestLocal
<1>5. serving /\ faults' \in 0..MaxFaults /\ faults' = faults
  BY DEF DeleteOperators, IInv, TypeOK
<1>6. UNCHANGED <<owner, rights, issued, serving, boot, created>>
  BY DEF DeleteOperators
<1> HIDE DEF r
<1> QED BY <1>2, <1>3, <1>4, <1>5, <1>6, RequestChange

\* Usage of the next id, which only adds to what is known.
LEMMA UsageIInv ==
    ASSUME IInv, NEW u \in Users, Usage(u)
    PROVE  IInv'
<1>1. PICK inUse \in BOOLEAN : request' = [request EXCEPT ![u] = Asked(request[u], inUse)]
  BY Zenon DEF Usage, Becomes, Asked
<1> DEFINE q == request[u]
           r == [step |-> q.step, ids |-> q.ids, at |-> q.at + 1, force |-> q.force,
                 used |-> q.used \/ inUse, gone |-> q.gone, result |-> q.result]
<1>2. q.step = "usage" /\ Local(q) /\ q \in Request
  BY DEF Usage, IInv, Requests, Local
<1>3. request' = [request EXCEPT ![u] = r]
  BY <1>1, <1>2, AskedRecord
<1>4. Local(r) /\ Granting(r) = {} /\ Revoking(r) = {} /\ Deleting(r) = {}
  <2>1. r \in Request
    BY <1>2 DEF Request
  <2>2. r.at >= 1 /\ r.result = "none"
    BY <1>2 DEF Local, Request
  <2> QED BY <1>2, <2>1, <2>2 DEF Local, Granting, Revoking, Deleting, Refusals
<1>5. Granting(q) = {} /\ Revoking(q) = {} /\ serving
  BY <1>2, UnderWay DEF Granting, Revoking
<1>6. faults' \in 0..MaxFaults /\ faults' = faults
  BY DEF Usage, IInv, TypeOK
<1>7. UNCHANGED <<owner, rights, issued, serving, boot, created>>
  BY DEF Usage
<1> HIDE DEF r
<1> QED BY <1>3, <1>4, <1>5, <1>6, <1>7, RequestChange

\* UsageDone: the request is refused, or goes on to the second check.
LEMMA UsageDoneIInv ==
    ASSUME IInv, NEW u \in Users, UsageDone(u)
    PROVE  IInv'
<1> DEFINE q == request[u]
           r == [step |-> "recheck", ids |-> q.ids, at |-> 1, force |-> FALSE,
                 used |-> FALSE, gone |-> {}, result |-> "none"]
<1>1. q.step = "usage" /\ Local(q) /\ q \in Request
  BY DEF UsageDone, IInv, Requests, Local
<1>2. faults' \in 0..MaxFaults /\ faults' = faults
  BY DEF UsageDone, IInv, TypeOK
<1>3. UNCHANGED <<owner, rights, issued, serving, boot, created>>
  BY DEF UsageDone
<1>4. CASE Answer(u, "inUse")
  <2>1. "inUse" \in Results /\ q.gone = {}
    BY <1>1 DEF Results, Local
  <2> QED BY <1>1, <1>2, <1>3, <1>4, <2>1, AnswerIInv
<1>5. CASE request' = [request EXCEPT ![u] = r]
  <2>1. r \in Request
    BY <1>1 DEF Request, Steps, Results
  <2>2. Local(r) /\ Granting(r) = {} /\ Revoking(r) = {} /\ Deleting(r) = {}
    BY <2>1 DEF Local, Refusals, Granting, Revoking, Deleting
  <2>3. Granting(q) = {} /\ Revoking(q) = {} /\ serving
    BY <1>1, UnderWay DEF Granting, Revoking
  <2> HIDE DEF r
  <2> QED BY <1>2, <1>3, <1>5, <2>2, <2>3, RequestChange
<1> QED BY <1>4, <1>5 DEF UsageDone, Becomes, NoRequest

\* CheckAdministrate, before and after the usage check.
LEMMA CheckIInv ==
    ASSUME IInv, NEW u \in Users, NEW from, NEW to,
           \/ from = "check" /\ to = "usage"
           \/ from = "recheck" /\ to = "delete",
           CheckAdministrate(u, from, to)
    PROVE  IInv'
<1> DEFINE q == request[u]
           r == [step |-> to, ids |-> q.ids, at |-> q.at, force |-> q.force,
                 used |-> q.used, gone |-> q.gone, result |-> q.result]
<1>1. q.step = from /\ Local(q) /\ q \in Request
  BY DEF CheckAdministrate, IInv, Requests, Local
<1>2. faults' \in 0..MaxFaults /\ faults' = faults
  BY DEF CheckAdministrate, IInv, TypeOK
<1>3. UNCHANGED <<owner, rights, issued, serving, boot, created>>
  BY DEF CheckAdministrate
<1>4. CASE Answer(u, "missingRights")
  <2>1. "missingRights" \in Results /\ q.gone = {}
    BY <1>1 DEF Results, Local
  <2>2. q.step \notin {"idle", "grant", "revoke"}
    BY <1>1
  <2> QED BY <1>2, <1>3, <1>4, <2>1, <2>2, AnswerIInv
<1>5. CASE Goto(u, to) /\ \A i \in ToSet(q.ids) : u \in rights[i]
  <2>1. request' = [request EXCEPT ![u] = r]
    BY <1>1, <1>5, StepRecord DEF Goto, Becomes
  <2>2. r \in Request
    BY <1>1 DEF Request, Steps
  <2>3. Local(r) /\ Granting(r) = {} /\ Revoking(r) = {}
    BY <1>1, <2>2 DEF Local, Refusals, Granting, Revoking
  <2>4. \A i \in Deleting(r) : rights[i] # {}
    BY <1>5 DEF Deleting
  <2>5. Granting(q) = {} /\ Revoking(q) = {} /\ serving
    BY <1>1, UnderWay DEF Granting, Revoking
  <2> HIDE DEF r
  <2> QED BY <1>2, <1>3, <2>1, <2>3, <2>4, <2>5, RequestChange
<1> QED BY <1>4, <1>5 DEF CheckAdministrate, MayAdministrate

\* DeleteDone.
LEMMA DeleteDoneIInv ==
    ASSUME IInv, NEW u \in Users, DeleteDone(u)
    PROVE  IInv'
<1>1. request[u].step = "delete" /\ Answer(u, "ok")
  BY DEF DeleteDone
<1>2. faults' \in 0..MaxFaults /\ faults' = faults
  BY DEF DeleteDone, IInv, TypeOK
<1>3. UNCHANGED <<owner, rights, issued, serving, boot, created>>
  BY DEF DeleteDone
<1> QED BY <1>1, <1>2, <1>3, AnswerIInv DEF Results, Refusals

-----------------------------------------------------------------------------
(* Steps that write to the stores *)

\* InsertOne stores an id that no request is about.
LEMMA InsertOneIInv ==
    ASSUME IInv, NEW u \in Users, InsertOne(u)
    PROVE  IInv'
<1> DEFINE q == request[u]
<1>1. PICK i \in Ids \ issued :
        /\ owner' = [owner EXCEPT ![i] = u]
        /\ issued' = issued \cup {i}
        /\ \/ /\ request' = [request EXCEPT ![u] = Inserted(q, i)]
              /\ UNCHANGED faults
           \/ /\ CanFail /\ Fault
              /\ request' = [request EXCEPT ![u] = Answered(q, "error")]
  BY Zenon DEF InsertOne, Answer, Becomes, Inserted, Answered
<1>2. q.step = "insert" /\ Local(q) /\ q \in Request /\ serving /\ boot.phase = "off"
  BY UnderWay DEF InsertOne, IInv, Requests, Local
<1>3. UNCHANGED <<rights, serving, boot, created>>
  BY DEF InsertOne
<1>4. u # Nobody /\ owner \in Owners /\ request \in [Users -> Request]
  BY LifecycleAssumption DEF IInv, TypeOK
<1>5. owner'[i] = u /\ \A j \in Ids : j # i => owner'[j] = owner[j]
  BY <1>1, <1>4 DEF Owners
<1>6. PICK r \in Request :
        /\ request' = [request EXCEPT ![u] = r]
        /\ Local(r) /\ Revoking(r) = {} /\ Deleting(r) = {}
        /\ \/ Granting(r) = {i} /\ faults' = faults
           \/ Granting(r) = {} /\ faults' = faults + 1 /\ faults < MaxFaults
  <2>1. CASE request' = [request EXCEPT ![u] = Inserted(q, i)] /\ UNCHANGED faults
    <3> DEFINE r == [step |-> "grant", ids |-> <<i>>, at |-> q.at, force |-> q.force,
                     used |-> q.used, gone |-> q.gone, result |-> q.result]
    <3>1. Inserted(q, i) = r
      BY <1>2, InsertedRecord
    <3>2. r \in Request
      BY <1>2 DEF Request, Steps
    <3>3. Local(r) /\ Revoking(r) = {} /\ Deleting(r) = {} /\ Granting(r) = {i}
      BY <1>2, <3>2 DEF Local, Revoking, Deleting, Granting, Refusals
    <3> QED BY <2>1, <3>1, <3>2, <3>3
  <2>2. CASE /\ CanFail /\ Fault
             /\ request' = [request EXCEPT ![u] = Answered(q, "error")]
    <3>1. "error" \in Results /\ "error" \notin Refusals
      BY DEF Results, Refusals
    <3>2. /\ Local(Answered(q, "error"))
          /\ Granting(Answered(q, "error")) = {} /\ Revoking(Answered(q, "error")) = {}
          /\ Deleting(Answered(q, "error")) = {}
      BY <1>2, <3>1, AnsweredLocal
    <3> QED BY <2>2, <3>2 DEF CanFail, Fault, Local
  <2> QED BY <1>1, <2>1, <2>2
<1>7. request'[u] = r /\ \A v \in Users : v # u => request'[v] = request[v]
  BY <1>4, <1>6
<1>8. TypeOK'
  <2>1. owner' \in Owners
    BY <1>1, <1>4 DEF Owners
  <2>2. faults' \in 0..MaxFaults
    BY <1>6, LifecycleAssumption DEF IInv, TypeOK
  <2>3. request' \in [Users -> Request]
    BY <1>4, <1>6
  <2> QED BY <1>1, <1>3, <2>1, <2>2, <2>3 DEF IInv, TypeOK
<1>9. Requests'
  BY <1>6, <1>7 DEF IInv, Requests
<1>10. Fresh' /\ OneProcess' /\ Repairing'
  BY <1>1, <1>2, <1>3, <1>5 DEF IInv, Fresh, OneProcess, Repairing
<1>11. CreatedStaysReachable'
  BY <1>1, <1>3, <1>5 DEF IInv, TypeOK, CreatedStaysReachable, HasDocument, HasEntry
<1>12. \A v \in Users : i \notin Granting(request[v]) /\ i \notin Deleting(request[v])
  BY DEF IInv, Grants, Deletes
<1>13. \A v \in Users : /\ Granting(request[v]) \subseteq Ids
                        /\ Revoking(request[v]) \subseteq Deleting(request[v])
                        /\ Deleting(request[v]) \subseteq Ids
  BY LocalIds DEF IInv, Requests
<1>14. Grants'
  <2>1. rights[i] = {}
    BY DEF IInv, Fresh
  <2>2. ASSUME NEW v \in Users, NEW j \in Granting(request'[v])
        PROVE  /\ j \in issued' /\ owner'[j] # Nobody /\ rights'[j] = {}
               /\ \A w \in Users : /\ w # v => j \notin Granting(request'[w])
                                   /\ j \notin Deleting(request'[w])
    <3>1. CASE v = u
      <4>1. j = i
        BY <1>6, <1>7, <2>2, <3>1
      <4> QED BY <1>1, <1>3, <1>4, <1>5, <1>6, <1>7, <1>12, <2>1, <3>1, <4>1
    <3>2. CASE v # u
      <4>1. j \in Granting(request[v]) /\ j # i /\ j \in Ids
        BY <1>7, <1>12, <1>13, <2>2, <3>2
      <4> QED BY <1>1, <1>3, <1>5, <1>6, <1>7, <3>2, <4>1 DEF IInv, Grants
    <3> QED BY <3>1, <3>2
  <2> QED BY <2>2 DEF Grants
<1>15. Deletes'
  BY <1>1, <1>5, <1>6, <1>7, <1>12, <1>13 DEF IInv, Deletes
<1>16. Paired'
  <2> SUFFICES ASSUME faults' = 0
               PROVE  \A j \in Ids :
                        /\ owner'[j] # Nobody /\ rights'[j] = {} =>
                             \E v \in Users : j \in Granting(request'[v])
                        /\ owner'[j] = Nobody /\ rights'[j] # {} =>
                             \E v \in Users : j \in Revoking(request'[v])
    BY DEF Paired
  <2>1. faults = 0 /\ Granting(r) = {i}
    BY <1>6 DEF IInv, TypeOK
  <2>2. Granting(q) = {} /\ Revoking(q) = {}
    BY <1>2 DEF Granting, Revoking
  <2> QED BY <1>3, <1>4, <1>5, <1>7, <2>1, <2>2 DEF IInv, Paired
<1> QED BY <1>8, <1>9, <1>10, <1>11, <1>14, <1>15, <1>16 DEF IInv

\* SetPermission gives the new operator its entry.
LEMMA SetPermissionIInv ==
    ASSUME IInv, NEW u \in Users, SetPermission(u)
    PROVE  IInv'
<1> DEFINE q == request[u]
           i == q.ids[1]
<1>1. q.step = "grant" /\ Local(q) /\ q \in Request /\ serving /\ boot.phase = "off"
  BY UnderWay DEF SetPermission, IInv, Requests, Local
<1>2. /\ rights' = [rights EXCEPT ![i] = {u}]
      /\ UNCHANGED <<owner, issued, serving, boot>>
  BY DEF SetPermission
<1>3. Granting(q) = {i} /\ i \in Ids /\ Revoking(q) = {} /\ Deleting(q) = {}
  BY <1>1, LocalIds DEF Granting, Revoking, Deleting
<1>4. /\ i \in issued /\ owner[i] # Nobody
      /\ \A v \in Users : /\ v # u => i \notin Granting(request[v])
                          /\ i \notin Deleting(request[v])
  BY <1>3 DEF IInv, Grants
<1>5. rights'[i] = {u} /\ \A j \in Ids : j # i => rights'[j] = rights[j]
  BY <1>2, <1>3 DEF IInv, TypeOK, Entries
<1>6. PICK x \in {"ok", "error"} :
        /\ request' = [request EXCEPT ![u] = Answered(q, x)]
        /\ \/ x = "ok" /\ created' = created \cup {i} /\ faults' = faults
           \/ x = "error" /\ created' = created /\ faults' = faults + 1 /\ faults < MaxFaults
  BY Zenon DEF SetPermission, Answer, Becomes, Answered, CanFail, Fault
<1> DEFINE r == Answered(q, x)
<1>7. Local(r) /\ Granting(r) = {} /\ Revoking(r) = {} /\ Deleting(r) = {}
  BY <1>1, AnsweredLocal DEF Results, Refusals
<1> HIDE DEF r
<1>8. /\ request' = [request EXCEPT ![u] = r]
      /\ request'[u] = r /\ \A v \in Users : v # u => request'[v] = request[v]
  BY <1>6 DEF IInv, TypeOK, r
<1>9. \A v \in Users : /\ Granting(request[v]) \subseteq Ids
                       /\ Revoking(request[v]) \subseteq Ids
  BY LocalIds DEF IInv, Requests
<1>10. TypeOK'
  <2>1. rights' \in Entries
    BY <1>2, <1>3 DEF IInv, TypeOK, Entries
  <2>2. faults' \in 0..MaxFaults /\ created' \subseteq issued'
    BY <1>2, <1>4, <1>6, LifecycleAssumption DEF IInv, TypeOK
  <2>3. request' \in [Users -> Request]
    BY <1>7, <1>8 DEF IInv, TypeOK, Local
  <2> QED BY <1>2, <2>1, <2>2, <2>3 DEF IInv, TypeOK
<1>11. Requests'
  BY <1>7, <1>8 DEF IInv, Requests
<1>12. Fresh' /\ OneProcess' /\ Repairing'
  BY <1>1, <1>2, <1>4, <1>5 DEF IInv, Fresh, OneProcess, Repairing
<1>13. CreatedStaysReachable'
  <2> SUFFICES ASSUME NEW j \in created', owner'[j] # Nobody PROVE rights'[j] # {}
    BY DEF CreatedStaysReachable, HasDocument, HasEntry
  <2>1. CASE j = i
    BY <1>5, <2>1
  <2>2. CASE j # i
    <3>1. j \in created /\ j \in Ids
      BY <1>6, <2>2 DEF IInv, TypeOK
    <3> QED BY <1>2, <1>5, <2>2, <3>1 DEF IInv, CreatedStaysReachable, HasDocument, HasEntry
  <2> QED BY <2>1, <2>2
<1>14. Grants'
  <2> SUFFICES ASSUME NEW v \in Users, NEW j \in Granting(request'[v])
               PROVE  /\ j \in issued' /\ owner'[j] # Nobody /\ rights'[j] = {}
                      /\ \A w \in Users : /\ w # v => j \notin Granting(request'[w])
                                          /\ j \notin Deleting(request'[w])
    BY DEF Grants
  <2>1. v # u /\ j \in Granting(request[v])
    BY <1>7, <1>8
  <2>2. j # i /\ j \in Ids
    BY <1>4, <1>9, <2>1
  <2> QED BY <1>2, <1>5, <1>7, <1>8, <2>1, <2>2 DEF IInv, Grants
<1>15. Deletes'
  BY <1>2, <1>7, <1>8 DEF IInv, Deletes
<1>16. Paired'
  <2> SUFFICES ASSUME faults' = 0, NEW j \in Ids
               PROVE  /\ owner'[j] # Nobody /\ rights'[j] = {} =>
                           \E v \in Users : j \in Granting(request'[v])
                      /\ owner'[j] = Nobody /\ rights'[j] # {} =>
                           \E v \in Users : j \in Revoking(request'[v])
    BY DEF Paired
  <2>1. faults = 0
    BY <1>6 DEF IInv, TypeOK
  <2>2. CASE j = i
    BY <1>2, <1>4, <1>5, <2>2
  <2>3. CASE j # i
    BY <1>2, <1>3, <1>5, <1>8, <2>1, <2>3 DEF IInv, Paired
  <2> QED BY <2>2, <2>3
<1> QED BY <1>10, <1>11, <1>12, <1>13, <1>14, <1>15, <1>16 DEF IInv

\* FindOneAndDelete takes a document of the list, which nobody is creating.
LEMMA FindOneAndDeleteIInv ==
    ASSUME IInv, NEW u \in Users, FindOneAndDelete(u)
    PROVE  IInv'
<1> DEFINE q == request[u]
           i == q.ids[q.at]
<1>1. /\ q.step = "delete" /\ Local(q) /\ q \in Request /\ q.at \in DOMAIN q.ids
      /\ serving /\ boot.phase = "off"
  <2>1. q.step = "delete" /\ Local(q) /\ q \in Request /\ q.at <= Len(q.ids)
    BY DEF FindOneAndDelete, AtEnd, IInv, Requests, Local, Request
  <2>2. q.at \in DOMAIN q.ids
    BY <2>1 DEF Local, Request
  <2> QED BY <2>1, <2>2, UnderWay
<1>2. UNCHANGED <<rights, issued, serving, boot, created>>
  BY DEF FindOneAndDelete
<1>3. CASE Answer(u, "notFound") /\ UNCHANGED <<owner, faults>>
  <2>1. faults' \in 0..MaxFaults /\ faults' = faults
    BY <1>3 DEF IInv, TypeOK
  <2>2. "notFound" \in Results /\ "notFound" \notin Refusals
    BY DEF Results, Refusals
  <2>3. q.step \notin {"idle", "grant", "revoke"}
    BY <1>1
  <2> QED BY <1>2, <1>3, <2>1, <2>2, <2>3, AnswerIInv
<1>4. CASE /\ owner[i] # Nobody
           /\ owner' = [owner EXCEPT ![i] = Nobody]
           /\ \/ /\ request' = [request EXCEPT ![u] = Deleted(q, i)]
                 /\ UNCHANGED faults
              \/ /\ CanFail /\ Fault
                 /\ request' = [request EXCEPT ![u] = DeletedBadly(q, i)]
  <2>1. i \in Deleting(q) /\ Deleting(q) = ToSet(q.ids) /\ i \in Ids /\ i \in issued
    <3>1. i \in ToSet(q.ids)
      BY <1>1 DEF ToSet
    <3>2. Deleting(q) = ToSet(q.ids)
      BY <1>1 DEF Deleting
    <3>3. Deleting(q) \subseteq Ids /\ Deleting(q) \subseteq issued
      BY <1>1, LocalIds DEF IInv, Deletes
    <3> QED BY <3>1, <3>2, <3>3
  <2>2. owner'[i] = Nobody /\ \A j \in Ids : j # i => owner'[j] = owner[j]
    BY <1>4, <2>1 DEF IInv, TypeOK, Owners
  <2>3. PICK r \in Request :
          /\ request' = [request EXCEPT ![u] = r]
          /\ Local(r) /\ Granting(r) = {} /\ Deleting(r) \subseteq Deleting(q)
          /\ \/ Revoking(r) = {i} /\ faults' = faults
             \/ Revoking(r) = {} /\ faults' = faults + 1 /\ faults < MaxFaults
    <3>1. CASE request' = [request EXCEPT ![u] = Deleted(q, i)] /\ UNCHANGED faults
      <4> DEFINE r == [step |-> "revoke", ids |-> q.ids, at |-> q.at, force |-> q.force,
                       used |-> q.used, gone |-> q.gone \cup {i}, result |-> q.result]
      <4>1. Deleted(q, i) = r
        BY <1>1, DeletedRecord
      <4>2. r \in Request
        BY <1>1, <2>1 DEF Request, Steps
      <4>3. q.result = "none"
        BY <1>1 DEF Local
      <4>4. Local(r)
        BY <1>1, <4>2, <4>3 DEF Local, Refusals
      <4>5. Revoking(r) = {i} /\ Deleting(r) = Deleting(q) /\ Granting(r) = {}
        BY <1>1 DEF Revoking, Deleting, Granting
      <4> QED BY <3>1, <4>1, <4>2, <4>4, <4>5
    <3>2. CASE /\ CanFail /\ Fault
               /\ request' = [request EXCEPT ![u] = DeletedBadly(q, i)]
      <4> DEFINE r == [step |-> "answered", ids |-> q.ids, at |-> q.at, force |-> q.force,
                       used |-> q.used, gone |-> q.gone \cup {i}, result |-> "error"]
      <4>1. DeletedBadly(q, i) = r
        BY <1>1, DeletedBadlyRecord
      <4>2. r \in Request
        BY <1>1, <2>1 DEF Request, Steps, Results
      <4>3. Local(r) /\ Revoking(r) = {} /\ Deleting(r) = {} /\ Granting(r) = {}
        BY <1>1, <4>2 DEF Local, Refusals, Revoking, Deleting, Granting
      <4> QED BY <3>2, <4>1, <4>2, <4>3 DEF CanFail, Fault
    <3> QED BY <1>4, <3>1, <3>2
  <2>4. request'[u] = r /\ \A v \in Users : v # u => request'[v] = request[v]
    BY <2>3 DEF IInv, TypeOK
  <2>5. \A v \in Users : /\ Granting(request[v]) \subseteq Ids
                         /\ i \notin Granting(request[v])
                         /\ Revoking(request[v]) \subseteq Ids
    BY <2>1, LocalIds DEF IInv, Requests, Grants
  <2>6. TypeOK'
    <3>1. owner' \in Owners
      BY <1>4, <2>1 DEF IInv, TypeOK, Owners
    <3>2. faults' \in 0..MaxFaults
      BY <2>3, LifecycleAssumption DEF IInv, TypeOK
    <3>3. request' \in [Users -> Request]
      BY <2>3 DEF IInv, TypeOK
    <3> QED BY <1>2, <3>1, <3>2, <3>3 DEF IInv, TypeOK
  <2>7. Requests'
    BY <2>3, <2>4 DEF IInv, Requests
  <2>8. Fresh' /\ OneProcess' /\ Repairing'
    BY <1>1, <1>2, <2>1, <2>2 DEF IInv, Fresh, OneProcess, Repairing
  <2>9. CreatedStaysReachable'
    BY <1>2, <2>1, <2>2 DEF IInv, TypeOK, CreatedStaysReachable, HasDocument, HasEntry
  <2>10. Grants'
    <3> SUFFICES ASSUME NEW v \in Users, NEW j \in Granting(request'[v])
                 PROVE  /\ j \in issued' /\ owner'[j] # Nobody /\ rights'[j] = {}
                        /\ \A w \in Users : /\ w # v => j \notin Granting(request'[w])
                                            /\ j \notin Deleting(request'[w])
      BY DEF Grants
    <3>1. v # u /\ j \in Granting(request[v])
      BY <2>3, <2>4
    <3>2. j # i /\ j \in Ids
      BY <2>5, <3>1
    <3> QED BY <1>2, <2>2, <2>3, <2>4, <3>1, <3>2 DEF IInv, Grants
  <2>11. Deletes'
    <3> SUFFICES ASSUME NEW v \in Users
                 PROVE  /\ Deleting(request'[v]) \subseteq issued'
                        /\ \A j \in Revoking(request'[v]) : j \in issued' /\ owner'[j] = Nobody
      BY DEF Deletes
    <3>1. CASE v = u
      BY <1>2, <2>1, <2>2, <2>3, <2>4, <3>1 DEF IInv, Deletes
    <3>2. CASE v # u
      BY <1>2, <2>2, <2>4, <2>5, <3>2 DEF IInv, Deletes
    <3> QED BY <3>1, <3>2
  <2>12. Paired'
    <3> SUFFICES ASSUME faults' = 0, NEW j \in Ids
                 PROVE  /\ owner'[j] # Nobody /\ rights'[j] = {} =>
                             \E v \in Users : j \in Granting(request'[v])
                        /\ owner'[j] = Nobody /\ rights'[j] # {} =>
                             \E v \in Users : j \in Revoking(request'[v])
      BY DEF Paired
    <3>1. faults = 0 /\ Revoking(r) = {i}
      BY <2>3 DEF IInv, TypeOK
    <3>2. Granting(q) = {} /\ Revoking(q) = {}
      BY <1>1 DEF Granting, Revoking
    <3>3. CASE j = i
      BY <2>2, <2>4, <3>1, <3>3
    <3>4. CASE j # i
      BY <1>2, <2>2, <2>4, <3>1, <3>2, <3>4 DEF IInv, Paired
    <3> QED BY <3>3, <3>4
  <2> QED BY <2>6, <2>7, <2>8, <2>9, <2>10, <2>11, <2>12 DEF IInv
<1> QED BY <1>3, <1>4, Zenon DEF FindOneAndDelete, Answer, Becomes, Deleted, DeletedBadly

\* RemoveResource takes the entry of a document that is gone.
LEMMA RemoveResourceIInv ==
    ASSUME IInv, NEW u \in Users, RemoveResource(u)
    PROVE  IInv'
<1> DEFINE q == request[u]
           i == q.ids[q.at]
<1>1. q.step = "revoke" /\ Local(q) /\ q \in Request /\ serving /\ boot.phase = "off"
  BY UnderWay DEF RemoveResource, IInv, Requests, Local
<1>2. /\ rights' = [rights EXCEPT ![i] = {}]
      /\ UNCHANGED <<owner, issued, serving, boot, created>>
  BY DEF RemoveResource
<1>3. Revoking(q) = {i} /\ i \in Ids /\ Granting(q) = {}
  BY <1>1, LocalIds DEF Granting, Revoking
<1>4. owner[i] = Nobody
  BY <1>3 DEF IInv, Deletes
<1>5. rights'[i] = {} /\ \A j \in Ids : j # i => rights'[j] = rights[j]
  BY <1>2, <1>3 DEF IInv, TypeOK, Entries
<1>6. PICK r \in Request :
        /\ request' = [request EXCEPT ![u] = r]
        /\ Local(r) /\ Granting(r) = {} /\ Revoking(r) = {}
        /\ Deleting(r) \subseteq Deleting(q)
        /\ \/ faults' = faults
           \/ faults' = faults + 1 /\ faults < MaxFaults
  <2>1. CASE request' = [request EXCEPT ![u] = Revoked(q)] /\ UNCHANGED faults
    <3> DEFINE r == [step |-> "delete", ids |-> q.ids, at |-> q.at + 1, force |-> q.force,
                     used |-> q.used, gone |-> q.gone, result |-> q.result]
    <3>1. Revoked(q) = r
      BY <1>1, RevokedRecord
    <3>2. r \in Request
      BY <1>1 DEF Request, Steps
    <3>3. r.at >= 1 /\ r.result = "none"
      BY <1>1 DEF Local, Request
    <3>4. Local(r)
      BY <3>2, <3>3 DEF Local, Refusals
    <3>5. Granting(r) = {} /\ Revoking(r) = {} /\ Deleting(r) = Deleting(q)
      BY <1>1 DEF Revoking, Deleting, Granting
    <3> QED BY <2>1, <3>1, <3>2, <3>4, <3>5
  <2>2. CASE CanFail /\ Fault /\ request' = [request EXCEPT ![u] = Answered(q, "error")]
    <3>1. "error" \in Results /\ "error" \notin Refusals
      BY DEF Results, Refusals
    <3>2. /\ Local(Answered(q, "error"))
          /\ Granting(Answered(q, "error")) = {} /\ Revoking(Answered(q, "error")) = {}
          /\ Deleting(Answered(q, "error")) = {}
      BY <1>1, <3>1, AnsweredLocal
    <3> QED BY <2>2, <3>2 DEF CanFail, Fault, Local
  <2> QED BY <2>1, <2>2, Zenon DEF RemoveResource, Answer, Becomes, Revoked, Answered
<1>7. request'[u] = r /\ \A v \in Users : v # u => request'[v] = request[v]
  BY <1>6 DEF IInv, TypeOK
<1>8. \A v \in Users : Granting(request[v]) \subseteq Ids
  BY LocalIds DEF IInv, Requests
<1>9. TypeOK'
  <2>1. rights' \in Entries
    BY <1>2, <1>3 DEF IInv, TypeOK, Entries
  <2>2. faults' \in 0..MaxFaults
    BY <1>6, LifecycleAssumption DEF IInv, TypeOK
  <2>3. request' \in [Users -> Request]
    BY <1>6 DEF IInv, TypeOK
  <2> QED BY <1>2, <2>1, <2>2, <2>3 DEF IInv, TypeOK
<1>10. Requests'
  BY <1>6, <1>7 DEF IInv, Requests
<1>11. Fresh' /\ OneProcess' /\ Repairing'
  BY <1>1, <1>2, <1>5 DEF IInv, Fresh, OneProcess, Repairing
<1>12. CreatedStaysReachable'
  BY <1>2, <1>4, <1>5 DEF IInv, TypeOK, CreatedStaysReachable, HasDocument, HasEntry
<1>13. Grants'
  <2> SUFFICES ASSUME NEW v \in Users, NEW j \in Granting(request'[v])
               PROVE  /\ j \in issued' /\ owner'[j] # Nobody /\ rights'[j] = {}
                      /\ \A w \in Users : /\ w # v => j \notin Granting(request'[w])
                                          /\ j \notin Deleting(request'[w])
    BY DEF Grants
  <2>1. v # u /\ j \in Granting(request[v]) /\ j \in Ids
    BY <1>6, <1>7, <1>8
  <2> QED BY <1>2, <1>5, <1>6, <1>7, <2>1 DEF IInv, Grants
<1>14. Deletes'
  BY <1>2, <1>6, <1>7 DEF IInv, Deletes
<1>15. Paired'
  <2> SUFFICES ASSUME faults' = 0, NEW j \in Ids
               PROVE  /\ owner'[j] # Nobody /\ rights'[j] = {} =>
                           \E v \in Users : j \in Granting(request'[v])
                      /\ owner'[j] = Nobody /\ rights'[j] # {} =>
                           \E v \in Users : j \in Revoking(request'[v])
    BY DEF Paired
  <2>1. faults = 0
    BY <1>6 DEF IInv, TypeOK
  <2>2. CASE j = i
    BY <1>2, <1>4, <1>5, <2>2
  <2>3. CASE j # i
    BY <1>2, <1>3, <1>5, <1>7, <2>1, <2>3 DEF IInv, Paired
  <2> QED BY <2>2, <2>3
<1> QED BY <1>9, <1>10, <1>11, <1>12, <1>13, <1>14, <1>15 DEF IInv

\* Share: the entry of an operator that nobody is creating keeps somebody.
LEMMA ShareIInv ==
    ASSUME IInv, NEW u \in Users, NEW i \in Ids, NEW users \in SUBSET Users,
           Share(u, i, users)
    PROVE  IInv'
<1>1. /\ rights[i] # {} /\ users # {}
      /\ rights' = [rights EXCEPT ![i] = users]
      /\ UNCHANGED <<owner, issued, request, serving, boot, faults, created>>
  BY DEF Share, MayAdministrate
<1>2. rights'[i] = users /\ \A j \in Ids : j # i => rights'[j] = rights[j]
  BY <1>1 DEF IInv, TypeOK, Entries
<1>3. \A j \in Ids : rights'[j] = {} <=> rights[j] = {}
  BY <1>1, <1>2
<1>4. TypeOK'
  <2>1. rights' \in Entries
    BY <1>1 DEF IInv, TypeOK, Entries
  <2> QED BY <1>1, <2>1 DEF IInv, TypeOK
<1>5. Requests' /\ OneProcess' /\ Deletes'
  BY <1>1 DEF IInv, Requests, OneProcess, Deletes
<1>6. Fresh' /\ Repairing' /\ Paired'
  BY <1>1, <1>3 DEF IInv, Fresh, Repairing, Paired
<1>7. CreatedStaysReachable'
  BY <1>1, <1>3 DEF IInv, TypeOK, CreatedStaysReachable, HasDocument, HasEntry
<1>8. Grants'
  <2>1. \A v \in Users : Granting(request[v]) \subseteq Ids
    BY LocalIds DEF IInv, Requests
  <2> QED BY <1>1, <1>3, <2>1 DEF IInv, Grants
<1> QED BY <1>4, <1>5, <1>6, <1>7, <1>8 DEF IInv

-----------------------------------------------------------------------------
(* The process *)

\* While nobody serves there is no request, so nothing is said about any.
LEMMA NobodyServed ==
    ASSUME IInv, ~serving
    PROVE  \A u \in Users : request[u] = NoRequest /\ Granting(request[u]) = {}
                            /\ Revoking(request[u]) = {} /\ Deleting(request[u]) = {}
BY NoRequestLocal DEF IInv, OneProcess

\* A step of a starting process that only changes what it knows.
LEMMA BootChange ==
    ASSUME IInv, boot' \in Boot, Repairing', serving => boot'.phase = "off",
           serving' => serving \/ boot'.phase = "off",
           serving' \in BOOLEAN, serving => serving',
           faults' \in 0..MaxFaults, faults' = 0 => faults = 0,
           UNCHANGED <<owner, rights, issued, request, created>>
    PROVE  IInv'
<1>1. TypeOK'
  BY DEF IInv, TypeOK
<1>2. Requests' /\ Fresh' /\ OneProcess' /\ CreatedStaysReachable'
  BY DEF IInv, Requests, Fresh, OneProcess, CreatedStaysReachable, HasDocument, HasEntry
<1>3. Grants' /\ Deletes' /\ Paired'
  BY DEF IInv, Grants, Deletes, Paired
<1> QED BY <1>1, <1>2, <1>3 DEF IInv

\* What becomes of a starting process when it has read one store, and the other.
OwnersRead(b, o) == [b EXCEPT !.phase = "list", !.owners = o]
EntriesRead(b, l, g, p) ==
    [b EXCEPT !.phase = "grant", !.listed = l, !.grant = g, !.purge = p]

\* What a starting process knows after it read the owners.
LEMMA OwnersReadRecord ==
    ASSUME NEW b \in Boot, NEW o
    PROVE  OwnersRead(b, o) =
             [phase |-> "list", owners |-> o, listed |-> b.listed,
              grant |-> b.grant, purge |-> b.purge]
<1> DEFINE s == [phase |-> "list", owners |-> b.owners, listed |-> b.listed,
                 grant |-> b.grant, purge |-> b.purge]
<1>1. [b EXCEPT !.phase = "list"] = s
  BY DEF Boot
<1>2. [s EXCEPT !.owners = o] =
        [phase |-> "list", owners |-> o, listed |-> b.listed,
         grant |-> b.grant, purge |-> b.purge]
  OBVIOUS
<1>3. OwnersRead(b, o) = [[b EXCEPT !.phase = "list"] EXCEPT !.owners = o]
  BY DEF OwnersRead
<1> QED BY <1>1, <1>2, <1>3, Zenon

\* What a starting process knows after it read the entries as well.
LEMMA EntriesReadRecord ==
    ASSUME NEW b \in Boot, NEW l, NEW g, NEW p
    PROVE  EntriesRead(b, l, g, p) =
             [phase |-> "grant", owners |-> b.owners, listed |-> l, grant |-> g, purge |-> p]
<1> DEFINE s == [phase |-> "grant", owners |-> b.owners, listed |-> b.listed,
                 grant |-> b.grant, purge |-> b.purge]
           t == [phase |-> "grant", owners |-> b.owners, listed |-> l,
                 grant |-> b.grant, purge |-> b.purge]
           w == [phase |-> "grant", owners |-> b.owners, listed |-> l,
                 grant |-> g, purge |-> b.purge]
<1>1. [b EXCEPT !.phase = "grant"] = s
  BY DEF Boot
<1>2. [s EXCEPT !.listed = l] = t
  OBVIOUS
<1>3. [t EXCEPT !.grant = g] = w
  OBVIOUS
<1>4. [w EXCEPT !.purge = p] =
        [phase |-> "grant", owners |-> b.owners, listed |-> l, grant |-> g, purge |-> p]
  OBVIOUS
<1>5. EntriesRead(b, l, g, p) =
        [[[[b EXCEPT !.phase = "grant"] EXCEPT !.listed = l] EXCEPT !.grant = g]
           EXCEPT !.purge = p]
  BY DEF EntriesRead
<1> QED BY <1>1, <1>2, <1>3, <1>4, <1>5, Zenon

\* What the steps of a starting process have in common.
LEMMA BootTypes ==
    ASSUME IInv
    PROVE  /\ boot \in Boot /\ owner \in Owners /\ rights \in Entries
           /\ faults \in 0..MaxFaults /\ serving \in BOOLEAN
           /\ boot.phase # "off" => ~serving
BY DEF IInv, TypeOK, OneProcess

\* Start.
LEMMA StartIInv == IInv /\ Start => IInv'
<1> SUFFICES ASSUME IInv, Start PROVE IInv'
  OBVIOUS
<1> DEFINE b == [phase |-> "owners", owners |-> boot.owners, listed |-> boot.listed,
                 grant |-> boot.grant, purge |-> boot.purge]
<1>1. boot' = b /\ ~serving
  BY BootTypes DEF Start, Boot
<1>2. boot' \in Boot
  BY <1>1, BootTypes DEF Boot
<1>3. Repairing'
  BY <1>1 DEF Repairing
<1> QED BY <1>1, <1>2, <1>3, BootTypes, BootChange DEF Start

\* AllOperatorOwners.
LEMMA AllOperatorOwnersIInv == IInv /\ AllOperatorOwners => IInv'
<1> SUFFICES ASSUME IInv, AllOperatorOwners PROVE IInv'
  OBVIOUS
<1> DEFINE b == [phase |-> "list", owners |-> owner, listed |-> boot.listed,
                 grant |-> boot.grant, purge |-> boot.purge]
<1>1. boot' = OwnersRead(boot, owner)
  BY Zenon DEF AllOperatorOwners, OwnersRead
<1>2. boot' = b /\ ~serving
  BY <1>1, BootTypes, OwnersReadRecord DEF AllOperatorOwners
<1>3. boot' \in Boot
  BY <1>2, BootTypes DEF Boot
<1>4. Repairing'
  BY <1>2 DEF Repairing, AllOperatorOwners
<1> QED BY <1>2, <1>3, <1>4, BootTypes, BootChange DEF AllOperatorOwners

\* ListResources: what is to be granted and purged is what the stores differ in.
LEMMA ListResourcesIInv == IInv /\ ListResources => IInv'
<1> SUFFICES ASSUME IInv, ListResources PROVE IInv'
  OBVIOUS
<1> DEFINE g == {i \in Ids : boot.owners[i] # Nobody /\ boot.owners[i] \notin rights[i]}
           p == {i \in Ids : rights[i] # {} /\ boot.owners[i] = Nobody}
           b == [phase |-> "grant", owners |-> boot.owners, listed |-> rights,
                 grant |-> g, purge |-> p]
<1>1. boot' = EntriesRead(boot, rights, g, p)
  BY Zenon DEF ListResources, EntriesRead
<1>2. boot.owners = owner /\ ~serving
  BY BootTypes DEF ListResources, IInv, Repairing
<1>3. boot' = b
  BY <1>1, BootTypes, EntriesReadRecord, Zenon
<1>4. boot' \in Boot
  BY <1>3, BootTypes DEF Boot
<1>5. Repairing'
  <2>1. UNCHANGED <<owner, rights>>
    BY DEF ListResources
  <2>2. /\ boot'.phase = "grant" /\ boot'.owners = owner
        /\ boot'.grant = g /\ boot'.purge = p
    BY <1>2, <1>3
  <2> QED BY <1>2, <2>1, <2>2 DEF Repairing
<1> QED BY <1>2, <1>3, <1>4, <1>5, BootTypes, BootChange DEF ListResources

\* GrantDone.
LEMMA GrantDoneIInv == IInv /\ GrantDone => IInv'
<1> SUFFICES ASSUME IInv, GrantDone PROVE IInv'
  OBVIOUS
<1> DEFINE b == [phase |-> "purge", owners |-> boot.owners, listed |-> boot.listed,
                 grant |-> boot.grant, purge |-> boot.purge]
<1>1. boot' = b /\ ~serving
  BY BootTypes DEF GrantDone, Boot
<1>2. boot' \in Boot
  BY <1>1, BootTypes DEF Boot
<1>3. Repairing'
  BY <1>1 DEF IInv, Repairing, GrantDone
<1> QED BY <1>1, <1>2, <1>3, BootTypes, BootChange DEF GrantDone

\* Serve.
LEMMA ServeIInv == IInv /\ Serve => IInv'
<1> SUFFICES ASSUME IInv, Serve PROVE IInv'
  OBVIOUS
<1>1. boot' = BootOff /\ serving' = TRUE /\ ~serving /\ BootOff.phase = "off"
  BY BootTypes DEF Serve, BootOff
<1>2. BootOff \in Boot
  BY DEF BootOff, Boot, Owners, Entries
<1>3. Repairing'
  BY <1>1 DEF Repairing
<1> QED BY <1>1, <1>2, <1>3, BootTypes, BootChange DEF Serve

\* StartFails.
LEMMA StartFailsIInv == IInv /\ StartFails => IInv'
<1> SUFFICES ASSUME IInv, StartFails PROVE IInv'
  OBVIOUS
<1>1. boot' = BootOff /\ ~serving /\ BootOff.phase = "off"
  BY BootTypes DEF StartFails, BootOff
<1>2. BootOff \in Boot
  BY DEF BootOff, Boot, Owners, Entries
<1>3. Repairing'
  BY <1>1 DEF Repairing
<1>4. faults' \in 0..MaxFaults /\ faults' # 0
  BY BootTypes, LifecycleAssumption DEF StartFails, CanFail, Fault
<1> QED BY <1>1, <1>2, <1>3, <1>4, BootTypes, BootChange DEF StartFails

\* A starting process that writes the entry of an id keeps the invariant, if it gives one
\* to what has a document and takes one from what has none.
LEMMA BootWrite ==
    ASSUME IInv, ~serving, boot' \in Boot, Repairing', NEW i \in Ids,
           NEW users \in SUBSET Users, users = {} <=> owner[i] = Nobody,
           rights' = [rights EXCEPT ![i] = users],
           UNCHANGED <<owner, issued, request, serving, faults, created>>
    PROVE  IInv'
<1>1. rights'[i] = users /\ \A j \in Ids : j # i => rights'[j] = rights[j]
  BY BootTypes DEF Entries
<1>2. TypeOK'
  <2>1. rights' \in Entries
    BY BootTypes DEF Entries
  <2> QED BY <2>1 DEF IInv, TypeOK
<1>3. Requests' /\ OneProcess'
  BY DEF IInv, Requests, OneProcess
<1>4. Fresh'
  BY <1>1 DEF IInv, Fresh
<1>5. CreatedStaysReachable'
  BY <1>1 DEF IInv, TypeOK, CreatedStaysReachable, HasDocument, HasEntry
<1>6. Grants' /\ Deletes'
  BY NobodyServed DEF Grants, Deletes
<1>7. Paired'
  <2> SUFFICES ASSUME faults' = 0, NEW j \in Ids
               PROVE  /\ owner'[j] # Nobody /\ rights'[j] = {} =>
                           \E v \in Users : j \in Granting(request'[v])
                      /\ owner'[j] = Nobody /\ rights'[j] # {} =>
                           \E v \in Users : j \in Revoking(request'[v])
    BY DEF Paired
  <2>1. CASE j = i
    BY <1>1, <2>1
  <2>2. CASE j # i
    BY <1>1, <2>2 DEF IInv, Paired
  <2> QED BY <2>1, <2>2
<1> QED BY <1>2, <1>3, <1>4, <1>5, <1>6, <1>7 DEF IInv

\* Grant.
LEMMA GrantIInv ==
    ASSUME IInv, NEW i \in Ids, Grant(i)
    PROVE  IInv'
<1> DEFINE users == boot.listed[i] \cup {boot.owners[i]}
           b == [phase |-> boot.phase, owners |-> boot.owners, listed |-> boot.listed,
                 grant |-> boot.grant \ {i}, purge |-> boot.purge]
<1>1. /\ boot.phase = "grant" /\ i \in boot.grant /\ ~serving
      /\ rights' = [rights EXCEPT ![i] = users]
      /\ UNCHANGED <<owner, issued, request, serving, faults, created>>
  BY BootTypes DEF Grant
<1>2. boot' = b
  <2>1. ASSUME NEW g
        PROVE  [boot EXCEPT !.grant = g] =
                 [phase |-> boot.phase, owners |-> boot.owners, listed |-> boot.listed,
                  grant |-> g, purge |-> boot.purge]
    BY BootTypes DEF Boot
  <2> QED BY <2>1, Zenon DEF Grant
<1>3. boot.owners = owner /\ owner[i] # Nobody
  BY <1>1 DEF IInv, Repairing
<1>4. users \in SUBSET Users /\ users # {}
  <2>1. boot.listed[i] \in SUBSET Users
    BY BootTypes DEF Boot, Entries
  <2>2. boot.owners[i] \in Users
    BY <1>3, BootTypes DEF Owners
  <2> QED BY <2>1, <2>2
<1>5. boot' \in Boot
  BY <1>2, BootTypes DEF Boot
<1>6. Repairing'
  <2>1. rights'[i] # {} /\ \A j \in Ids : j # i => rights'[j] = rights[j]
    BY <1>1, <1>4, BootTypes DEF Entries
  <2>2. /\ boot'.phase = "grant" /\ boot'.owners = owner /\ boot'.purge = boot.purge
        /\ boot'.grant = boot.grant \ {i}
    BY <1>1, <1>2, <1>3
  <2>3. owner' = owner
    BY <1>1
  <2> QED BY <1>1, <1>3, <2>1, <2>2, <2>3 DEF IInv, Repairing
<1> HIDE DEF users, b
<1> QED BY <1>1, <1>3, <1>4, <1>5, <1>6, BootWrite

\* Purge.
LEMMA PurgeIInv ==
    ASSUME IInv, NEW i \in Ids, Purge(i)
    PROVE  IInv'
<1> DEFINE b == [phase |-> boot.phase, owners |-> boot.owners, listed |-> boot.listed,
                 grant |-> boot.grant, purge |-> boot.purge \ {i}]
<1>1. /\ boot.phase = "purge" /\ i \in boot.purge /\ ~serving
      /\ rights' = [rights EXCEPT ![i] = {}]
      /\ UNCHANGED <<owner, issued, request, serving, faults, created>>
  BY BootTypes DEF Purge
<1>2. boot' = b
  <2>1. ASSUME NEW p
        PROVE  [boot EXCEPT !.purge = p] =
                 [phase |-> boot.phase, owners |-> boot.owners, listed |-> boot.listed,
                  grant |-> boot.grant, purge |-> p]
    BY BootTypes DEF Boot
  <2> QED BY <2>1, Zenon DEF Purge
<1>3. owner[i] = Nobody
  BY <1>1 DEF IInv, Repairing
<1>4. boot' \in Boot
  BY <1>2, BootTypes DEF Boot
<1>5. Repairing'
  <2>1. rights'[i] = {} /\ \A j \in Ids : j # i => rights'[j] = rights[j]
    BY <1>1, BootTypes DEF Entries
  <2>2. /\ boot'.phase = "purge" /\ boot'.owners = boot.owners
        /\ boot'.purge = boot.purge \ {i} /\ boot'.grant = boot.grant
    BY <1>1, <1>2
  <2>3. owner' = owner
    BY <1>1
  <2> QED BY <1>1, <1>3, <2>1, <2>2, <2>3 DEF IInv, Repairing
<1> QED BY <1>1, <1>3, <1>4, <1>5, BootWrite

\* Stop takes the requests with the process: a fault, unless none was under way.
LEMMA StopIInv == IInv /\ Stop => IInv'
<1> SUFFICES ASSUME IInv, Stop PROVE IInv'
  OBVIOUS
<1>1. /\ serving /\ serving' = FALSE
      /\ request' = [u \in Users |-> NoRequest]
      /\ UNCHANGED <<owner, rights, issued, boot, created>>
  BY DEF Stop
<1>2. \A u \in Users : request'[u] = NoRequest
  BY <1>1
<1>3. TypeOK'
  <2>1. faults' \in 0..MaxFaults
    BY BootTypes, LifecycleAssumption DEF Stop, CanFail, Fault
  <2>2. request' \in [Users -> Request]
    BY <1>1, NoRequestLocal DEF Local
  <2> QED BY <1>1, <2>1, <2>2 DEF IInv, TypeOK
<1>4. Requests' /\ OneProcess' /\ Grants' /\ Deletes'
  BY <1>1, <1>2, NoRequestLocal DEF Requests, OneProcess, Grants, Deletes
<1>5. Fresh' /\ Repairing' /\ CreatedStaysReachable'
  BY <1>1 DEF IInv, Fresh, Repairing, CreatedStaysReachable, HasDocument, HasEntry
<1>6. Paired'
  <2> SUFFICES ASSUME faults' = 0
               PROVE  \A j \in Ids : /\ ~(owner[j] # Nobody /\ rights[j] = {})
                                     /\ ~(owner[j] = Nobody /\ rights[j] # {})
    BY <1>1 DEF Paired
  <2>1. faults = 0 /\ \A u \in Users : request[u].step \in {"idle", "answered"}
    BY BootTypes DEF Stop, CanFail, Fault
  <2>2. \A u \in Users : Granting(request[u]) = {} /\ Revoking(request[u]) = {}
    BY <2>1 DEF Granting, Revoking
  <2> QED BY <2>1, <2>2 DEF IInv, Paired
<1> QED BY <1>3, <1>4, <1>5, <1>6 DEF IInv

-----------------------------------------------------------------------------

\* Every step, and every stutter, preserves the invariant.
LEMMA NextIInv == IInv /\ [Next]_vars => IInv'
<1> SUFFICES ASSUME IInv, [Next]_vars PROVE IInv'
  OBVIOUS
<1>1. ASSUME NEW u \in Users, RequestStep(u) PROVE IInv'
  <2>1. CASE Check(u)
    BY <2>1, CheckIInv DEF Check
  <2>2. CASE Recheck(u)
    BY <2>2, CheckIInv DEF Recheck
  <2> QED BY <1>1, <2>1, <2>2, DoneIInv, InsertOneIInv, SetPermissionIInv, UsageIInv,
             UsageDoneIInv, FindOneAndDeleteIInv, RemoveResourceIInv, DeleteDoneIInv
          DEF RequestStep
<1>2. ASSUME NEW u \in Users, CreateOperator(u) \/ CallFails(u) PROVE IInv'
  BY <1>2, CreateOperatorIInv, CallFailsIInv
<1>3. ASSUME NEW u \in Users, NEW ids \in Batches, NEW force \in BOOLEAN,
             DeleteOperators(u, ids, force)
      PROVE  IInv'
  BY <1>3, DeleteOperatorsIInv
<1>4. CASE BootStep
  BY <1>4, StartIInv, AllOperatorOwnersIInv, ListResourcesIInv, GrantIInv, GrantDoneIInv,
     PurgeIInv, ServeIInv DEF BootStep
<1>5. CASE StartFails \/ Stop
  BY <1>5, StartFailsIInv, StopIInv
<1>6. ASSUME NEW u \in Users, NEW i \in Ids, NEW users \in SUBSET Users, Share(u, i, users)
      PROVE  IInv'
  BY <1>6, ShareIInv
<1>7. CASE UNCHANGED vars
  BY <1>7 DEF vars, IInv, TypeOK, Requests, Fresh, OneProcess, Grants, Deletes, Repairing,
              CreatedStaysReachable, HasDocument, HasEntry, Paired
<1> QED BY <1>1, <1>2, <1>3, <1>4, <1>5, <1>6, <1>7 DEF Next

\* The invariant holds in every reachable state.
LEMMA Inductive == Spec => []IInv
BY InitIInv, NextIInv, PTL DEF Spec

\* The stores, the requests and the starting process keep their types.
THEOREM LifecycleTypeCorrect == Spec => []TypeOK
<1>1. IInv => TypeOK
  BY DEF IInv
<1> QED BY <1>1, Inductive, PTL

\* What was reported as created can be reached for as long as it exists (the order of the
\* two writes in InsertOperator and DeleteOperator; the purge).
THEOREM CreatedAlwaysReachable == Spec => []CreatedStaysReachable
<1>1. IInv => CreatedStaysReachable
  BY DEF IInv
<1> QED BY <1>1, Inductive, PTL

\* A refused delete has deleted none of its ids (Service.DeleteOperators, usedBy).
THEOREM RefusalsDeleteNothing == Spec => []RefusalDeletesNothing
<1>1. IInv => RefusalDeletesNothing
  BY DEF IInv, Requests, Local, Refusals, RefusalDeletesNothing
<1> QED BY <1>1, Inductive, PTL

\* As long as nothing fails, every difference of the stores is a request between its two
\* writes (InsertOperator, DeleteOperator).
THEOREM PairedWithoutFault == Spec => []PairedUnlessFault
<1>1. ASSUME IInv, faults = 0, NEW i \in Ids
      PROVE  /\ HasDocument(i) /\ ~HasEntry(i) =>
                  \E u \in Users : request[u].step = "grant" /\ request[u].ids[1] = i
             /\ HasEntry(i) /\ ~HasDocument(i) =>
                  \E u \in Users :
                      request[u].step = "revoke" /\ request[u].ids[request[u].at] = i
  <2>1. CASE HasDocument(i) /\ ~HasEntry(i)
    <3>1. PICK u \in Users : i \in Granting(request[u])
      BY <1>1, <2>1 DEF IInv, Paired, HasDocument, HasEntry
    <3> QED BY <2>1, <3>1 DEF Granting
  <2>2. CASE HasEntry(i) /\ ~HasDocument(i)
    <3>1. PICK u \in Users : i \in Revoking(request[u])
      BY <1>1, <2>2 DEF IInv, Paired, HasDocument, HasEntry
    <3> QED BY <2>2, <3>1 DEF Revoking
  <2> QED BY <2>1, <2>2
<1>2. IInv => PairedUnlessFault
  BY <1>1 DEF PairedUnlessFault
<1> QED BY <1>2, Inductive, PTL

\* Whatever an earlier process left behind, documents and entries agree when one begins to
\* serve (ValidateOperatorPermissions).
THEOREM StartAlwaysRepairs == Spec => StartRepairs
<1>1. ASSUME IInv, [Next]_vars, ~serving, serving', NEW i \in Ids
      PROVE  HasDocument(i)' <=> HasEntry(i)'
  <2>1. Serve
    BY <1>1 DEF Next, vars, RequestStep, BootStep, CreateOperator, DeleteOperators, CallFails,
       Done, InsertOne, SetPermission, Check, Recheck, CheckAdministrate, Usage, UsageDone,
       FindOneAndDelete, RemoveResource, DeleteDone, Start, AllOperatorOwners, ListResources,
       Grant, GrantDone, Purge, StartFails, Stop, Share
  <2>2. boot.phase = "purge" /\ boot.purge = {} /\ UNCHANGED <<owner, rights>>
    BY <2>1 DEF Serve
  <2>3. owner[i] # Nobody <=> rights[i] # {}
    BY <1>1, <2>2 DEF IInv, Repairing
  <2> QED BY <2>2, <2>3 DEF HasDocument, HasEntry
<1>2. IInv /\ [Next]_vars =>
        [~serving /\ serving' => \A i \in Ids : HasDocument(i)' <=> HasEntry(i)']_vars
  BY <1>1
<1> QED BY <1>2, Inductive, PTL DEF Spec, StartRepairs
=============================================================================
