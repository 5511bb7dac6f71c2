---------------------------- MODULE ListOperators ----------------------------
(***************************************************************************)
(* What one caller reads: the list (MongoRepo.All) and a single operator   *)
(* (MongoRepo.FindOperator) of pkg/db/repo.go.  A list is four calls: the  *)
(* readable ids from permissions-v2, the query with its first batch, the   *)
(* total, and the rest of the page.  Others write in between: they create, *)
(* delete, share and rename operators.                                     *)
(***************************************************************************)
EXTENDS Integers, Sequences, FiniteSets, SequencesExt

CONSTANTS
    Ids,
    Mine,        \* those the caller owns
    Names,       \* numbers in the order of the names
    FirstNames,  \* the names that the operators may have at first: functions id -> name
    Matching,    \* the names that contain the text searched for
    MaxLimit,
    BatchSize,   \* documents in the first answer of MongoDB
    Limits, Offsets,
    MaxWrites    \* writes of others in a behaviour

ASSUME ListAssumption ==
    /\ IsFiniteSet(Ids)
    /\ Mine \subseteq Ids
    /\ Names \subseteq Int /\ Matching \subseteq Names
    /\ FirstNames \subseteq [Ids -> Names]
    /\ Limits \cup Offsets \subseteq Seq(Int)
    /\ <<>> \in Limits \cap Offsets
    /\ {MaxLimit, BatchSize} \subseteq Nat \ {0}
    /\ MaxWrites \in Nat

\* A parameter of the URL is the sequence of its values; the first one counts.
Args ==
    [limit : Limits, offset : Offsets, sort : {"none", "asc", "desc"}, search : BOOLEAN]
NoArgs == [limit |-> <<>>, offset |-> <<>>, sort |-> "none", search |-> FALSE]

VARIABLES
    stored,    \* ids with a document
    deleted,   \* ids that had one
    readable,  \* ids the caller may read, according to permissions-v2
    name,      \* id -> the name of its document, which an index keeps in order
    writes,
    step,      \* the next call of the caller's request
    request,   \* its kind and arguments; ids: those permissions-v2 listed, or the one asked for
    cursor,    \* page: given out; ahead: what the query will come to; more: it has not ended
    total,
    result,
    seen,      \* could: what the caller could read at some moment of the request, steady: what
               \* was there to be listed at every one and kept its name, quiet: nothing was
               \* written (history: no action depends on it)
    last       \* the list before it, if nothing was written since (history)

vars == <<stored, deleted, readable, name, writes, step, request, cursor, total, result, seen, last>>

Store == <<stored, deleted, readable, name, writes>>

NoRequest == [kind |-> "get", args |-> NoArgs, ids |-> {}]
NoCursor == [page |-> <<>>, ahead |-> <<>>, more |-> FALSE]
NothingSeen == [could |-> {}, steady |-> {}, quiet |-> TRUE]
NoList == [known |-> FALSE, args |-> NoArgs, page |-> <<>>]

Calls == {"ids", "find", "count", "rest", "check", "findOne"}

TypeOK ==
    /\ stored \cup readable \subseteq Ids
    /\ deleted \subseteq Ids \ stored
    /\ name \in [Ids -> Names]
    /\ writes \in 0..MaxWrites
    /\ step \in {"idle", "answered"} \cup Calls
    /\ request \in [kind : {"list", "get"}, args : Args, ids : SUBSET Ids]
    /\ cursor \in [page : Seq(Ids), ahead : Seq(Ids), more : BOOLEAN]
    /\ total \in 0..Cardinality(Ids)
    /\ result \in {"none", "ok", "invalid", "missingRights", "notFound", "error"}
    /\ seen \in [could : SUBSET Ids, steady : SUBSET Ids, quiet : BOOLEAN]
    /\ last \in [known : BOOLEAN, args : Args, page : Seq(Ids)]

Init ==
    /\ stored \in SUBSET Ids
    /\ deleted = {}
    /\ readable \in SUBSET stored
    /\ name \in FirstNames
    /\ writes = 0
    /\ step = "idle"
    /\ request = NoRequest
    /\ cursor = NoCursor
    /\ total = 0
    /\ result = "none"
    /\ seen = NothingSeen
    /\ last = NoList

Answer(answer) == step' = "answered" /\ result' = answer

-----------------------------------------------------------------------------
(* The list *)

\* parseQueryInt; what is no number at all is refused like a negative one.
Malformed(values) == values # <<>> /\ values[1] < 0

\* Mutant: no limit means the highest.
ZeroIsMaximum(args) ==
    IF args.limit \in {<<>>, <<0>>} THEN MaxLimit ELSE args.limit[1]

\* 0 is no limit, for MongoDB too.
Limit(args) == IF args.limit = <<>> THEN MaxLimit ELSE args.limit[1]

Skip(args) == IF args.offset = <<>> THEN 0 ELSE args.offset[1]

Refused(args) == Malformed(args.limit) \/ Malformed(args.offset) \/ Limit(args) > MaxLimit

\* Mutant: the filter of a search forgets whom it is for.
SelectedBySearch(names, args, ids) ==
    {i \in Ids : IF args.search THEN names[i] \in Matching ELSE i \in ids \cup Mine}

\* The filter: permitted or the caller's own.
Selected(names, args, ids) ==
    {i \in ids \cup Mine : args.search => names[i] \in Matching}

\* Mutant: the direction is not looked at.
AlwaysAscending(names, args, q) ==
    args.sort # "none" => \A j, k \in DOMAIN q : j < k => names[q[j]] <= names[q[k]]

\* Sorted by name, or in any order; equal names are in any order too.
Sorted(names, args, q) ==
    \A j, k \in DOMAIN q : j < k =>
        /\ args.sort = "asc" => names[q[j]] <= names[q[k]]
        /\ args.sort = "desc" => names[q[j]] >= names[q[k]]

Orders(names, args, s) == {q \in SetToSeqs(s) : Sorted(names, args, q)}

FirstOf(q, n) == SubSeq(q, 1, IF n < Len(q) THEN n ELSE Len(q))

Behind(q, n) == SubSeq(q, n + 1, Len(q))

\* What is left of n places when m are taken; 0 places are all of them.
Fill(q, limit, m) == IF limit = 0 THEN q ELSE FirstOf(q, limit - m)

Rows(args, q) == Fill(Behind(q, Skip(args)), Limit(args), 0)

All(args) ==
    /\ step = "idle"
    /\ request' = [kind |-> "list", args |-> args, ids |-> {}]
    /\ seen' = [could |-> readable \cup Mine,
                steady |-> Selected(name, args, readable) \cap stored, quiet |-> TRUE]
    /\ IF Refused(args) THEN Answer("invalid") ELSE step' = "ids" /\ UNCHANGED result
    /\ UNCHANGED <<Store, cursor, total, last>>

\* permissions-v2 may list what objectID refuses.
ListAccessible ==
    /\ step = "ids"
    /\ \/ /\ step' = "find"
          /\ request' = [request EXCEPT !.ids = readable]
          /\ UNCHANGED result
       \/ Answer("invalid") /\ UNCHANGED request
    /\ UNCHANGED <<Store, cursor, total, seen, last>>

Found == Selected(name, request.args, request.ids) \cap stored

\* The query stays open behind a full batch, unless the limit is reached.
Find ==
    /\ step = "find"
    /\ step' = "count"
    /\ \E q \in Orders(name, request.args, Found) :
         LET page == FirstOf(Rows(request.args, q), BatchSize)
         IN cursor' = [page |-> page,
                       ahead |-> Behind(q, Skip(request.args) + Len(page)),
                       more |-> Len(page) = BatchSize /\ Len(page) # Limit(request.args)]
    /\ UNCHANGED <<Store, request, total, result, seen, last>>

\* Mutant: the total obeys the limit.
CountPage ==
    /\ step = "count"
    /\ step' = "rest"
    /\ total' = IF Limit(request.args) \in 1..Cardinality(Found)
                THEN Limit(request.args) ELSE Cardinality(Found)
    /\ UNCHANGED <<Store, request, cursor, result, seen, last>>

CountDocuments ==
    /\ step = "count"
    /\ step' = "rest"
    /\ total' = Cardinality(Found)
    /\ UNCHANGED <<Store, request, cursor, result, seen, last>>

\* cur.All: the query goes on to its end or limit.
Rest ==
    /\ step = "rest"
    /\ Answer("ok")
    /\ cursor' = IF cursor.more
                 THEN [page |-> cursor.page \o Fill(cursor.ahead, Limit(request.args),
                                                    Len(cursor.page)),
                       ahead |-> <<>>, more |-> FALSE]
                 ELSE cursor
    /\ UNCHANGED <<Store, request, total, seen, last>>

-----------------------------------------------------------------------------
(* A single operator *)

\* Mutant: the document is looked for before the right is checked.
FindOperatorUnchecked(i) ==
    /\ step = "idle"
    /\ request' = [kind |-> "get", args |-> NoArgs, ids |-> {i}]
    /\ seen' = [could |-> readable, steady |-> {}, quiet |-> TRUE]
    /\ IF i \in stored THEN step' = "check" /\ UNCHANGED result ELSE Answer("notFound")
    /\ UNCHANGED <<Store, cursor, total, last>>

FindOperator(i) ==
    /\ step = "idle"
    /\ request' = [kind |-> "get", args |-> NoArgs, ids |-> {i}]
    /\ seen' = [could |-> readable, steady |-> {}, quiet |-> TRUE]
    /\ step' = "check"
    /\ UNCHANGED <<Store, cursor, total, result, last>>

\* objectID.
FindMalformed ==
    /\ step = "idle"
    /\ Answer("invalid")
    /\ UNCHANGED <<Store, request, cursor, total, seen, last>>

CheckPermission ==
    /\ step = "check"
    /\ IF request.ids \subseteq readable
       THEN step' = "findOne" /\ UNCHANGED result
       ELSE Answer("missingRights")
    /\ UNCHANGED <<Store, request, cursor, total, seen, last>>

FindOne ==
    /\ step = "findOne"
    /\ \E i \in request.ids :
         IF i \in stored
         THEN Answer("ok") /\ cursor' = [page |-> <<i>>, ahead |-> <<>>, more |-> FALSE]
         ELSE Answer("notFound") /\ UNCHANGED cursor
    /\ UNCHANGED <<Store, request, total, seen, last>>

-----------------------------------------------------------------------------

CallFails ==
    /\ step \in Calls
    /\ Answer("error")
    /\ cursor' = NoCursor
    /\ UNCHANGED <<Store, request, total, seen, last>>

Done ==
    /\ step = "answered"
    /\ step' = "idle" /\ request' = NoRequest /\ cursor' = NoCursor
    /\ total' = 0 /\ result' = "none" /\ seen' = NothingSeen
    /\ last' = IF result = "ok" /\ seen.quiet /\ request.args.sort # "none"
               THEN [known |-> TRUE, args |-> request.args, page |-> cursor.page]
               ELSE NoList
    /\ UNCHANGED Store

Create(i) ==
    /\ i \notin stored \cup deleted
    /\ stored' = stored \cup {i}
    /\ UNCHANGED <<deleted, readable, name>>

Delete(i) ==
    /\ i \in stored
    /\ stored' = stored \ {i} /\ deleted' = deleted \cup {i}
    /\ UNCHANGED <<readable, name>>

\* UpdateOperator writes the name, among others.
Rename(i) ==
    /\ i \in stored
    /\ \E n \in Names \ {name[i]} : name' = [name EXCEPT ![i] = n]
    /\ UNCHANGED <<stored, deleted, readable>>

\* The entry of an operator in permissions-v2, which may outlive the document.
Share(i) ==
    /\ i \in stored \cup deleted
    /\ readable' = (readable \ {i}) \cup ({i} \ readable)
    /\ UNCHANGED <<stored, deleted, name>>

\* What an open query has ahead of it once the document of i is written.  If it put everything
\* in order before its first batch, it does not see the write.  If it walks an index, it comes
\* to i where i is now, or has passed that place; so i may be left out, or be given out a
\* second time.  It comes to everything else as before.
Ahead(i) ==
    LET others == ToSet(cursor.ahead) \ {i}
        matching == {i} \cap Selected(name', request.args, request.ids) \cap stored'
    IN IF cursor.more
       THEN {cursor.ahead} \cup Orders(name', request.args, others)
                           \cup Orders(name', request.args, others \cup matching)
       ELSE {cursor.ahead}

\* Somebody writes.
Write ==
    /\ writes < MaxWrites
    /\ writes' = writes + 1
    /\ \/ \E i \in Ids :
            /\ Create(i) \/ Delete(i) \/ Rename(i)
            /\ \E ahead \in Ahead(i) : cursor' = [cursor EXCEPT !.ahead = ahead]
       \/ \E i \in Ids : Share(i) /\ UNCHANGED cursor
    /\ seen' = IF step \in Calls
               THEN [could |-> seen.could \cup readable', quiet |-> FALSE,
                     steady |-> {i \in seen.steady \cap stored' \cap (readable' \cup Mine) :
                                   name'[i] = name[i]}]
               ELSE [could |-> seen.could, quiet |-> FALSE, steady |-> seen.steady]
    /\ last' = NoList
    /\ UNCHANGED <<step, request, total, result>>

Next ==
    \/ \E args \in Args : All(args)
    \/ ListAccessible \/ Find \/ CountDocuments \/ Rest
    \/ \E i \in Ids : FindOperator(i)
    \/ FindMalformed \/ CheckPermission \/ FindOne
    \/ CallFails \/ Done \/ Write

Spec == Init /\ [][Next]_vars

-----------------------------------------------------------------------------

\* What is answered is the caller's own or was readable to them at some moment of
\* the request, searched for or not (the filter in All); and "ErrNotFound means the
\* permission check passed but the document is gone" (lib/errors.go), so who may
\* not read an operator does not learn whether it exists.
OnlyWhatWasReadable ==
    /\ ToSet(cursor.page) \subseteq seen.could
    /\ result = "notFound" => request.ids \subseteq seen.could

Listed == request.kind = "list" /\ result = "ok"

\* limit=0.
Unlimited(args) == args.limit # <<>> /\ args.limit[1] = 0

\* A list that is not full, or has no limit, and skips nothing shows every operator that could
\* be listed during the whole request and kept its name, whatever else was written between
\* its calls: "a short page is indistinguishable from a short collection"
\* (docs/list-endpoint-parameters.md), so it must not be short for another reason.  Nothing is
\* said of an operator that was renamed meanwhile (UpdateOperator writes "name", which has an
\* index): the query may have passed its new place, and limit=0 may miss it too.
ShortPageIsComplete ==
    Listed /\ Skip(request.args) = 0
        /\ (Unlimited(request.args) \/ Len(cursor.page) < Limit(request.args)) =>
            seen.steady \subseteq ToSet(cursor.page)

\* The total "ignores limit and offset" (docs/list-endpoint-parameters.md): if nothing was
\* written, it tells how many there are, and the page has as many of them as fit.
TotalTellsTheRest ==
    LET left == IF total > Skip(request.args) THEN total - Skip(request.args) ELSE 0
    IN Listed /\ seen.quiet =>
        /\ total = Cardinality(seen.steady)
        /\ Len(cursor.page) = IF Unlimited(request.args) \/ left < Limit(request.args)
                              THEN left ELSE Limit(request.args)

Precedes(names, args, i, j) ==
    IF args.sort = "asc" THEN names[i] < names[j] ELSE names[j] < names[i]

\* Two pages by name, one behind the other, with nothing written in between, follow on
\* from each other: nothing on the second comes before something on the first, and what
\* comes between them is on one of them (sort, limit and offset together).  Operators of
\* the same name come in any order, on both pages too, since the order of All has no
\* second field: of two of them one may be on both pages and the other on none.
PagesFollow ==
    LET before == ToSet(last.page)
        now == ToSet(cursor.page)
        Follows(i, j) == Precedes(name, request.args, i, j)
    IN
    /\ Listed /\ seen.quiet
    /\ last.known
    /\ request.args.sort = last.args.sort /\ request.args.search = last.args.search
    /\ Skip(request.args) = Skip(last.args) + Len(last.page)
    => \A i \in before, j \in now :
          /\ ~Follows(j, i)
          /\ \A k \in seen.steady \ (before \cup now) :
                Follows(i, k) /\ Follows(k, j) => \E l \in before \cap now : name[l] = name[k]
=============================================================================
