---------------------------- MODULE VersionList ----------------------------
(***************************************************************************)
(* lib/versions.go on the slice it works on.  A label is the triple of the *)
(* numbers it is written with, or Malformed; a number beyond MaxNumber     *)
(* does not fit the int64 of semver.  A loop is one step per element.      *)
(***************************************************************************)
EXTENDS Integers, Sequences, Functions

CONSTANTS
    MaxNumber,   \* the largest int64
    Texts,       \* labels that look like v1.2.3, as triples of numbers
    Malformed,   \* stands for every label that does not look like that
    Images, NoImage,
    Ports, EmptyPorts, NoPorts,
    NoVersion,   \* NewestVersion of an empty list
    NoCall       \* no function is being called

VARIABLES
    versions,  \* the slice
    call,      \* the function being called with its argument, or NoCall
    outcome,   \* what the last put or remove returned
    next,      \* the element that a loop comes to
    result,    \* the slice that PutVersion builds
    created,   \* whether it has not met the label yet
    newest     \* the best version that NewestVersion has met, or NoVersion

locals == <<next, result, created, newest>>
vars == <<versions, call, outcome, locals>>

Version ==
    [label : Texts, image : Images, ports : Ports, deprecated : BOOLEAN]

VersionBody ==
    [label : Texts \cup {Malformed}, image : Images \cup {NoImage},
     ports : Ports \cup {NoPorts}, deprecated : BOOLEAN]

\* The elements of a list in another order.
Arranged(list, order) == [i \in DOMAIN list |-> list[order[i]]]

Orders(list) == Bijection(DOMAIN list, DOMAIN list)

Calls == [op : {"put"}, version : VersionBody]
            \cup [op : {"remove"}, label : Texts \cup {Malformed}]

\* NewestVersion expects no order.
Questions == [op : {"newest"}, list : {Arranged(versions, p) : p \in Orders(versions)}]

TypeOK ==
    /\ versions \in Seq(Version)
    /\ call \in Calls \cup Questions \cup {NoCall}
    /\ outcome \in {"none", "created", "replaced", "removed", "invalid", "notFound"}
    /\ next \in Nat \ {0}
    /\ result \in Seq(Version)
    /\ created \in BOOLEAN
    /\ newest \in Version \cup {NoVersion}

-----------------------------------------------------------------------------
(* Labels *)

ValidateVersionLabel(label) ==
    label \in Texts /\ \A i \in 1..3 : label[i] =< MaxNumber

\* The number a label is ordered by: parseVersionLabel leaves it zero when the
\* label does not parse.
Semver(label) == IF ValidateVersionLabel(label) THEN label ELSE <<0, 0, 0>>

\* compareVersions(a, b) < 0: the first number that differs decides.
Below(a, b) ==
    LET x == Semver(a.label)
        y == Semver(b.label)
    IN  \E i \in 1..3 : x[i] < y[i] /\ \A j \in 1..i-1 : x[j] = y[j]

\* An order in which smaller elements come first and equal ones stay as they were.
Sorts(order, list) ==
    \A i, j \in DOMAIN list : i < j =>
        \/ Below(list[order[i]], list[order[j]])
        \/ ~Below(list[order[j]], list[order[i]]) /\ order[i] < order[j]

\* slices.SortStableFunc
StableSort(list) == Arranged(list, CHOOSE p \in Orders(list) : Sorts(p, list))

-----------------------------------------------------------------------------
(* The operations *)

Calling(op) == call # NoCall /\ call.op = op

Begin(c) ==
    /\ call = NoCall
    /\ call' = c
    /\ outcome' = "none"
    /\ UNCHANGED <<versions, locals>>

Leave ==
    /\ call' = NoCall
    /\ next' = 1
    /\ result' = <<>>
    /\ created' = TRUE
    /\ newest' = NoVersion

Return(answer) == outcome' = answer /\ Leave

NonNil(ports) == IF ports = NoPorts THEN EmptyPorts ELSE ports

Stored(v) == [v EXCEPT !.ports = NonNil(@)]

Complete(v) == ValidateVersionLabel(v.label) /\ v.image # NoImage

\* Mutant: the image of the version that is replaced counts as taken.
TakenByAny(other, v) == other.image = v.image

Taken(other, v) == other.label # v.label /\ other.image = v.image

\* The checks before the loop of PutVersion.
PutIncomplete ==
    /\ Calling("put")
    /\ ~Complete(call.version)
    /\ Return("invalid")
    /\ UNCHANGED versions

\* One turn of the loop.
PutNext ==
    /\ Calling("put")
    /\ Complete(call.version)
    /\ next \in DOMAIN versions
    /\ UNCHANGED versions
    /\ LET v == call.version
           other == versions[next]
       IN  \/ Taken(other, v) /\ Return("invalid")
           \/ /\ ~Taken(other, v)
              /\ next' = next + 1
              /\ IF other.label = v.label
                 THEN created' = FALSE /\ UNCHANGED result
                 ELSE result' = Append(result, other) /\ UNCHANGED created
              /\ UNCHANGED <<call, outcome, newest>>

PutEnds == Calling("put") /\ Complete(call.version) /\ next > Len(versions)

\* Mutant: the new version is appended without sorting.
PutUnsorted ==
    /\ PutEnds
    /\ versions' = Append(result, Stored(call.version))
    /\ Return(IF created THEN "created" ELSE "replaced")

PutVersion ==
    /\ PutEnds
    /\ versions' = StableSort(Append(result, Stored(call.version)))
    /\ Return(IF created THEN "created" ELSE "replaced")

RemoveVersion ==
    /\ Calling("remove")
    /\ LET labelled == {i \in DOMAIN versions : versions[i].label = call.label}
       IN  \/ labelled = {} /\ Return("notFound") /\ UNCHANGED versions
           \/ labelled # {} /\ Len(versions) = 1 /\ Return("invalid") /\ UNCHANGED versions
           \/ /\ Len(versions) # 1
              /\ \E i \in labelled :
                    /\ \A j \in labelled : i =< j
                    /\ versions' = SubSeq(versions, 1, i - 1)
                                      \o SubSeq(versions, i + 1, Len(versions))
              /\ Return("removed")

\* Mutant: numbers alone decide.
NewerByNumber(v) == newest = NoVersion \/ Below(newest, v)

\* The switch of NewestVersion.
Newer(v) ==
    \/ newest = NoVersion
    \/ newest.deprecated /\ ~v.deprecated
    \/ /\ newest.deprecated = v.deprecated
       /\ Below(newest, v)

Ask(c) == call = NoCall /\ call' = c /\ UNCHANGED <<versions, outcome, locals>>

\* One turn of its loop.
NewestNext ==
    /\ Calling("newest")
    /\ next \in DOMAIN call.list
    /\ newest' = IF Newer(call.list[next]) THEN call.list[next] ELSE newest
    /\ next' = next + 1
    /\ UNCHANGED <<versions, call, outcome, result, created>>

NewestVersion ==
    /\ Calling("newest")
    /\ next > Len(call.list)
    /\ Leave
    /\ UNCHANGED <<versions, outcome>>

-----------------------------------------------------------------------------

Init ==
    /\ versions = <<>> /\ call = NoCall /\ outcome = "none"
    /\ next = 1 /\ result = <<>> /\ created = TRUE /\ newest = NoVersion

Next ==
    \/ \E c \in Calls : Begin(c)
    \/ PutIncomplete \/ PutNext \/ PutVersion
    \/ RemoveVersion
    \/ \E c \in Questions : Ask(c)
    \/ NewestNext \/ NewestVersion

Spec == Init /\ [][Next]_vars

-----------------------------------------------------------------------------
(* Properties *)

\* The list stays sorted by number, without two equal labels, through any
\* sequence of puts and removes ("sorted ascending", PutVersion).
Ascending ==
    \A i, j \in DOMAIN versions : i < j => Below(versions[i], versions[j])

\* A label as a rank: for numbers up to MaxNumber the rank orders like them.
Rank(label) ==
    IF ValidateVersionLabel(label)
    THEN (label[1] * (MaxNumber + 1) + label[2]) * (MaxNumber + 1) + label[3]
    ELSE Malformed

Ranked(v) == [v EXCEPT !.label = Rank(@)]

RankedCall ==
    IF Calling("put") THEN [call EXCEPT !.version = Ranked(@)]
    ELSE IF Calling("remove") THEN [call EXCEPT !.label = Rank(@)]
    ELSE NoCall

Catalog == INSTANCE VersionCatalog WITH
    Labels <- {Rank(t) : t \in {u \in Texts : ValidateVersionLabel(u)}},
    BadLabel <- Malformed,
    catalog <- {Ranked(versions[i]) : i \in DOMAIN versions},
    call <- RankedCall

\* The loop of NewestVersion finds the highest live version, or the highest when
\* all are deprecated, in whatever order it meets them.
NewestFound ==
    Calling("newest") /\ next > Len(call.list) =>
        IF versions = <<>> THEN newest = NoVersion
        ELSE Ranked(newest) = Catalog!NewestVersion({Ranked(versions[i]) : i \in DOMAIN versions})

\* Each call on the slice is that call on the set of its versions, with the
\* same answer.
ImplementsCatalog == Catalog!Spec

-----------------------------------------------------------------------------
(* Assumptions on the constants *)

ASSUME TextAssumption ==
    /\ MaxNumber \in Nat
    /\ \A t \in Texts : t \in Nat \X Nat \X Nat
    /\ Malformed \notin Texts
    /\ Malformed \notin Nat

\* The values that stand for nothing are none of the others.
ASSUME NoneAssumption ==
    /\ NoVersion \notin Version
    /\ NoCall \notin Calls
    /\ NoCall \notin Catalog!Calls
    /\ NoCall \notin [op : {"newest"}, list : Seq(Version)]
    /\ EmptyPorts \in Ports
    /\ NoPorts \notin Ports
=============================================================================
