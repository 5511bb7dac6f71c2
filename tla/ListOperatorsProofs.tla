------------------------ MODULE ListOperatorsProofs ------------------------
(***************************************************************************)
(* What a caller reads, for any operators, names, parameters, batch size   *)
(* and number of writes in between.                                        *)
(***************************************************************************)
EXTENDS ListOperators, FiniteSetTheorems, SequenceTheorems, TLAPS

-----------------------------------------------------------------------------
(* The invariant *)

\* An order of the query: everything in it once, sorted as it was asked for.
IsOrder(names, args, s, q) ==
    /\ q \in Seq(s)
    /\ \A j, k \in DOMAIN q : q[j] = q[k] => j = k
    /\ ToSet(q) = s
    /\ Sorted(names, args, q)

\* Which request is at which call.
InStep ==
    /\ step = "idle" => request.kind = "get" /\ cursor = NoCursor
    /\ step \in {"ids", "find", "count", "rest"} => request.kind = "list"
    /\ step \in {"ids", "find", "check", "findOne"} => cursor = NoCursor
    /\ step \in {"check", "findOne"} => request.kind = "get"
    /\ step # "answered" => result = "none"
    /\ request.kind = "get" => request.args = NoArgs
    /\ step \in {"ids", "find", "count", "rest"} \/ Listed => ~Refused(request.args)

\* What the caller may read is theirs, or was read from permissions-v2 in this request.
Allowed ==
    /\ step \in Calls => readable \subseteq seen.could
    /\ request.kind = "list" => Mine \subseteq seen.could
    /\ step \in {"find", "count", "rest", "findOne"} => request.ids \subseteq seen.could
    /\ step \in {"count", "rest"} => ToSet(cursor.ahead) \subseteq seen.could
    /\ OnlyWhatWasReadable

\* What was there throughout is there; if nothing was written, it is all there is to list.
Throughout ==
    /\ request.kind = "list" /\ step \in Calls =>
         seen.steady \subseteq Selected(name, request.args, readable) \cap stored
    /\ request.kind = "list" /\ seen.quiet =>
         seen.steady = Selected(name, request.args, readable) \cap stored
    /\ step \in {"find", "count", "rest"} => seen.steady \subseteq Found
    /\ step \in {"find", "count", "rest"} /\ seen.quiet => seen.steady = Found

\* Where the cursor stands after the first batch of an order.
Stands(args, q, at) ==
    LET page == FirstOf(Rows(args, q), BatchSize)
    IN at = [page |-> page,
             ahead |-> Behind(q, Skip(args) + Len(page)),
             more |-> Len(page) = BatchSize /\ Len(page) # Limit(args)]

\* A page that has room shows everything of a set, at the latest when the query has ended.
Covers(args, at, s) ==
    /\ at.more => Limit(args) = 0 \/ Len(at.page) < Limit(args)
    /\ Skip(args) = 0 /\ at.more => s \subseteq ToSet(at.page) \cup ToSet(at.ahead)
    /\ Skip(args) = 0 /\ ~at.more /\ (Unlimited(args) \/ Len(at.page) < Limit(args)) =>
         s \subseteq ToSet(at.page)

\* Between its batches the query has everything that stays as it was before or behind it; if
\* nothing was written, it stands where its first batch ended.
Batched ==
    /\ step \in {"count", "rest"} => Covers(request.args, cursor, seen.steady)
    /\ step \in {"count", "rest"} /\ seen.quiet => \E q \in Seq(seen.steady) :
         /\ IsOrder(name, request.args, seen.steady, q)
         /\ Stands(request.args, q, cursor)
    /\ step = "rest" /\ seen.quiet => total = Cardinality(seen.steady)

\* A list in which nothing was written is a page of an order of what is there.
IsPage(names, args, s, page) ==
    \E q \in Seq(s) : IsOrder(names, args, s, q) /\ page = Rows(args, q)

Paged ==
    /\ Listed /\ seen.quiet =>
         /\ total = Cardinality(seen.steady)
         /\ IsPage(name, request.args, seen.steady, cursor.page)
    /\ last.known =>
         /\ last.args.sort # "none" /\ ~Refused(last.args)
         /\ IsPage(name, last.args, Selected(name, last.args, readable) \cap stored, last.page)

\* The inductive invariant.
IInv ==
    /\ TypeOK /\ InStep /\ Allowed /\ Throughout /\ Batched /\ Paged
    /\ ShortPageIsComplete
-----------------------------------------------------------------------------
(* Sequences, and orders of a set *)

\* The first n of a sequence.
LEMMA FirstOfIs ==
    ASSUME NEW S, NEW q \in Seq(S), NEW n \in Nat
    PROVE  LET p == FirstOf(q, n)
               len == IF n < Len(q) THEN n ELSE Len(q)
           IN /\ p \in Seq(S) /\ Len(p) = len
              /\ DOMAIN p = 1..len
              /\ \A k \in 1..len : p[k] = q[k]
<1> DEFINE len == IF n < Len(q) THEN n ELSE Len(q)
<1>1. len \in Nat /\ \A k \in 1..len : q[k] \in S
  OBVIOUS
<1>2. /\ FirstOf(q, n) \in Seq(S)
      /\ Len(FirstOf(q, n)) = IF 1 <= len THEN len - 1 + 1 ELSE 0
      /\ \A k \in 1..(len - 1 + 1) : FirstOf(q, n)[k] = q[1 + k - 1]
  <2> HIDE DEF len
  <2>1. FirstOf(q, n) = SubSeq(q, 1, len)
    BY DEF FirstOf, len
  <2> QED BY <1>1, <2>1, SubSeqProperties
<1>3. DOMAIN FirstOf(q, n) = 1..Len(FirstOf(q, n))
  BY <1>2, LenProperties
<1> HIDE DEF len
<1>4. Len(FirstOf(q, n)) = len
  BY <1>1, <1>2
<1> QED BY <1>1, <1>2, <1>3, <1>4 DEF len

\* What is behind the first n of a sequence.
LEMMA BehindIs ==
    ASSUME NEW S, NEW q \in Seq(S), NEW n \in Nat
    PROVE  LET p == Behind(q, n)
               len == IF Len(q) > n THEN Len(q) - n ELSE 0
           IN /\ p \in Seq(S) /\ Len(p) = len /\ len \in Nat
              /\ DOMAIN p = 1..len
              /\ \A k \in 1..len : p[k] = q[n + k]
<1> DEFINE p == Behind(q, n)
           len == IF Len(q) > n THEN Len(q) - n ELSE 0
<1>1. Len(q) \in Nat /\ len \in Nat /\ \A k \in (n + 1)..Len(q) : q[k] \in S
  BY LenProperties
<1>2. /\ p \in Seq(S)
      /\ Len(p) = IF n + 1 <= Len(q) THEN Len(q) - (n + 1) + 1 ELSE 0
      /\ \A k \in 1..(Len(q) - (n + 1) + 1) : p[k] = q[n + 1 + k - 1]
  BY <1>1, SubSeqProperties DEF Behind
<1> HIDE DEF p
<1>3. Len(p) = len /\ \A k \in 1..len : p[k] = q[n + k]
  BY <1>1, <1>2
<1>4. DOMAIN p = 1..Len(p)
  BY <1>2, LenProperties
<1> HIDE DEF len
<1>5. p \in Seq(S) /\ Len(p) = len /\ len \in Nat /\ DOMAIN p = 1..len
      /\ \A k \in 1..len : p[k] = q[n + k]
  BY <1>1, <1>2, <1>3, <1>4
<1> QED BY <1>5 DEF p, len

\* Parameters that are not refused are numbers.
LEMMA Accepted ==
    ASSUME NEW args \in Args, ~Refused(args)
    PROVE  /\ Limit(args) \in Nat /\ Skip(args) \in Nat
           /\ Unlimited(args) <=> Limit(args) = 0
<1>1. args.limit \in Seq(Int) /\ args.offset \in Seq(Int) /\ MaxLimit \in Nat \ {0}
  BY ListAssumption DEF Args
<1>2. /\ args.limit # <<>> => args.limit[1] \in Int
      /\ args.offset # <<>> => args.offset[1] \in Int
  BY <1>1, EmptySeq, ElementOfSeq
<1> QED BY <1>1, <1>2 DEF Refused, Malformed, Limit, Skip, Unlimited

\* How many rows a page has.
PageLength(args, n) ==
    LET left == IF n > Skip(args) THEN n - Skip(args) ELSE 0
    IN IF Limit(args) # 0 /\ Limit(args) < left THEN Limit(args) ELSE left

\* The rows of a page, one by one.
LEMMA RowsAre ==
    ASSUME NEW args \in Args, ~Refused(args), NEW S, NEW q \in Seq(S)
    PROVE  /\ PageLength(args, Len(q)) \in Nat
           /\ Rows(args, q) \in Seq(S)
           /\ Len(Rows(args, q)) = PageLength(args, Len(q))
           /\ \A k \in 1..PageLength(args, Len(q)) : Rows(args, q)[k] = q[Skip(args) + k]
           /\ Limit(args) # 0 => PageLength(args, Len(q)) <= Limit(args)
           /\ PageLength(args, Len(q)) # 0 => Skip(args) + PageLength(args, Len(q)) <= Len(q)
<1> DEFINE s == Skip(args)
           n == Len(q)
           left == IF n > s THEN n - s ELSE 0
           rest == Behind(q, s)
<1>1. Limit(args) \in Nat /\ s \in Nat /\ n \in Nat
  BY Accepted
<1>2. rest \in Seq(S) /\ Len(rest) = left /\ \A k \in 1..left : rest[k] = q[s + k]
  BY <1>1, BehindIs
<1>3. Rows(args, q) = IF Limit(args) = 0 THEN rest ELSE FirstOf(rest, Limit(args))
  BY <1>1 DEF Rows, Fill
<1>4. LET p == FirstOf(rest, Limit(args))
          len == IF Limit(args) < left THEN Limit(args) ELSE left
      IN p \in Seq(S) /\ Len(p) = len /\ \A k \in 1..len : p[k] = rest[k]
  <2> HIDE DEF rest
  <2> QED BY <1>1, <1>2, FirstOfIs
<1> HIDE DEF rest
<1> QED BY <1>1, <1>2, <1>3, <1>4 DEF PageLength

\* What is chosen from Orders is an order.
LEMMA OrdersAreOrders ==
    ASSUME NEW names, NEW args, NEW s \in SUBSET Ids, NEW q \in Orders(names, args, s)
    PROVE  IsOrder(names, args, s, q)
<1> DEFINE n == Cardinality(s)
<1>1. IsFiniteSet(s) /\ n \in Nat
  BY ListAssumption, FS_Subset, FS_CardinalityType
<1>2. IsFiniteSet(1..n) /\ Cardinality(1..n) = n
  BY <1>1, FS_Interval
<1>3. q \in [1..n -> s] /\ (\A j, k \in 1..n : j # k => q[j] # q[k]) /\ Sorted(names, args, q)
  BY DEF Orders, SetToSeqs
<1> HIDE DEF n
<1>4. q \in Seq(s) /\ DOMAIN q = 1..n
  BY <1>1, <1>3, SeqDef
<1>5. q \in Injection(1..n, s)
  BY <1>3 DEF Injection, IsInjective
<1>6. q \in Surjection(1..n, s)
  BY <1>1, <1>2, <1>5, FS_Injection DEF n
<1>7. ToSet(q) = s
  BY <1>3, <1>4, <1>6 DEF Surjection, ToSet
<1> QED BY <1>3, <1>4, <1>7 DEF IsOrder

\* An order is as long as its set is large.
LEMMA OrderLength ==
    ASSUME NEW names, NEW args, NEW s \in SUBSET Ids, NEW q, IsOrder(names, args, s, q)
    PROVE  Len(q) \in Nat /\ Len(q) = Cardinality(s)
<1>1. Len(q) \in Nat /\ q \in [1..Len(q) -> s] /\ DOMAIN q = 1..Len(q)
  BY LenProperties DEF IsOrder
<1>2. IsFiniteSet(1..Len(q)) /\ Cardinality(1..Len(q)) = Len(q)
  BY <1>1, FS_Interval
<1>3. q \in Injection(1..Len(q), s) /\ q \in Surjection(1..Len(q), s)
  BY <1>1 DEF IsOrder, Injection, IsInjective, Surjection, ToSet
<1> QED BY <1>1, <1>2, <1>3, FS_Surjection

-----------------------------------------------------------------------------
(* The calls that are not part of a list change little *)

\* What Found finds.
LEMMA FoundIds == TypeOK => Found \in SUBSET Ids
BY ListAssumption DEF TypeOK, Found, Selected

\* No more is found than there are operators.
LEMMA FoundCount == TypeOK => Cardinality(Found) \in 0..Cardinality(Ids)
<1> SUFFICES ASSUME TypeOK PROVE Cardinality(Found) \in 0..Cardinality(Ids)
  OBVIOUS
<1>1. Found \in SUBSET Ids /\ IsFiniteSet(Ids)
  BY FoundIds, ListAssumption
<1> HIDE DEF Found
<1> QED BY <1>1, FS_Subset, FS_CardinalityType

-----------------------------------------------------------------------------
(* What the batches hold *)

\* The cursor after the first batch, one document by one.
LEMMA StandsAt ==
    ASSUME NEW args \in Args, ~Refused(args), NEW s \in SUBSET Ids, NEW q \in Seq(s), NEW at,
           Stands(args, q, at)
    PROVE  LET P == PageLength(args, Len(q))
               B == IF BatchSize < P THEN BatchSize ELSE P
               left == IF Len(q) > Skip(args) + B THEN Len(q) - (Skip(args) + B) ELSE 0
           IN /\ P \in Nat /\ B \in Nat /\ left \in Nat /\ Len(q) \in Nat
              /\ Skip(args) \in Nat /\ Limit(args) \in Nat
              /\ at.page \in Seq(s) /\ Len(at.page) = B /\ DOMAIN at.page = 1..B
              /\ \A k \in 1..B : at.page[k] = q[Skip(args) + k]
              /\ at.ahead \in Seq(s) /\ Len(at.ahead) = left /\ DOMAIN at.ahead = 1..left
              /\ \A k \in 1..left : at.ahead[k] = q[Skip(args) + B + k]
              /\ at.more \in BOOLEAN
              /\ at.more <=> B = BatchSize /\ B # Limit(args)
              /\ at = [page |-> at.page, ahead |-> at.ahead, more |-> at.more]
<1> DEFINE P == PageLength(args, Len(q))
           B == IF BatchSize < P THEN BatchSize ELSE P
           left == IF Len(q) > Skip(args) + B THEN Len(q) - (Skip(args) + B) ELSE 0
           rows == Rows(args, q)
           page == FirstOf(rows, BatchSize)
           ahead == Behind(q, Skip(args) + Len(page))
           more == Len(page) = BatchSize /\ Len(page) # Limit(args)
<1>1. BatchSize \in Nat \ {0} /\ Skip(args) \in Nat /\ Limit(args) \in Nat /\ Len(q) \in Nat
  BY ListAssumption, Accepted, LenProperties
<1>2. /\ P \in Nat /\ rows \in Seq(s) /\ Len(rows) = P
      /\ \A k \in 1..P : rows[k] = q[Skip(args) + k]
  BY RowsAre
<1>3. /\ page \in Seq(s) /\ Len(page) = B /\ DOMAIN page = 1..B
      /\ \A k \in 1..B : page[k] = rows[k]
  <2> HIDE DEF rows
  <2> QED BY <1>1, <1>2, FirstOfIs
<1>4. at = [page |-> page, ahead |-> ahead, more |-> more]
  BY DEF Stands
<1> HIDE DEF P, rows, page
<1>5. B \in Nat /\ B <= P
  BY <1>1, <1>2
<1>6. \A k \in 1..B : page[k] = q[Skip(args) + k]
  BY <1>2, <1>3, <1>5
<1>7. Skip(args) + B \in Nat
  BY <1>1, <1>5
<1> HIDE DEF B
<1>8. /\ ahead \in Seq(s) /\ Len(ahead) = left /\ left \in Nat /\ DOMAIN ahead = 1..left
      /\ \A k \in 1..left : ahead[k] = q[Skip(args) + B + k]
  BY <1>3, <1>7, BehindIs
<1> HIDE DEF left, ahead
<1>9. at.page = page /\ at.ahead = ahead /\ at.more = more
      /\ at = [page |-> at.page, ahead |-> at.ahead, more |-> at.more]
  BY <1>4
<1>10. more \in BOOLEAN /\ (more <=> B = BatchSize /\ B # Limit(args))
  BY <1>3
<1> HIDE DEF more
<1> QED BY <1>1, <1>2, <1>3, <1>5, <1>6, <1>8, <1>9, <1>10 DEF P, B, left

\* The first batch of an order covers it.
LEMMA StandsCovers ==
    ASSUME NEW args \in Args, ~Refused(args), NEW s \in SUBSET Ids, NEW q \in Seq(s),
           ToSet(q) = s, NEW at, Stands(args, q, at)
    PROVE  Covers(args, at, s)
<1> DEFINE P == PageLength(args, Len(q))
           B == IF BatchSize < P THEN BatchSize ELSE P
           left == IF Len(q) > Skip(args) + B THEN Len(q) - (Skip(args) + B) ELSE 0
<1>1. /\ P \in Nat /\ B \in Nat /\ left \in Nat /\ Len(q) \in Nat
      /\ Skip(args) \in Nat /\ Limit(args) \in Nat
      /\ Len(at.page) = B /\ DOMAIN at.page = 1..B
      /\ \A k \in 1..B : at.page[k] = q[Skip(args) + k]
      /\ DOMAIN at.ahead = 1..left
      /\ \A k \in 1..left : at.ahead[k] = q[Skip(args) + B + k]
      /\ at.more <=> B = BatchSize /\ B # Limit(args)
  BY StandsAt
<1>2. /\ BatchSize \in Nat \ {0} /\ DOMAIN q = 1..Len(q)
      /\ Limit(args) # 0 => P <= Limit(args)
      /\ Unlimited(args) <=> Limit(args) = 0
      /\ Skip(args) = 0 /\ (Limit(args) = 0 \/ P < Limit(args)) => P = Len(q)
  BY <1>1, ListAssumption, RowsAre, Accepted, LenProperties DEF PageLength
<1>3. B <= P /\ (B = BatchSize \/ (B = P /\ P < BatchSize))
  BY <1>1, <1>2
<1> HIDE DEF P
<1>4. at.more => Limit(args) = 0 \/ Len(at.page) < Limit(args)
  <2> HIDE DEF B
  <2>1. CASE Limit(args) # 0 /\ B = BatchSize /\ B # Limit(args)
    <3>1. B <= P /\ P <= Limit(args) /\ P \in Nat /\ B \in Nat /\ Limit(args) \in Nat
      BY <1>1, <1>2, <1>3, <2>1
    <3> QED BY <1>1, <2>1, <3>1
  <2> QED BY <1>1, <2>1
<1>5. ASSUME Skip(args) = 0, NEW x \in s PROVE x \in ToSet(at.page) \cup ToSet(at.ahead)
  <2>1. PICK k \in 1..Len(q) : q[k] = x
    BY <1>2 DEF ToSet
  <2>2. CASE k <= B
    <3>1. k \in 1..B /\ Skip(args) + k = k
      BY <1>5, <2>1, <2>2
    <3>2. k \in DOMAIN at.page /\ at.page[k] = x
      BY <1>1, <2>1, <3>1
    <3> QED BY <3>2 DEF ToSet
  <2>3. CASE k > B
    <3>1. k - B \in 1..left /\ Skip(args) + B + (k - B) = k
      BY <1>1, <1>5, <2>1, <2>3
    <3> HIDE DEF B, left
    <3>2. k - B \in DOMAIN at.ahead /\ at.ahead[k - B] = x
      BY <1>1, <2>1, <3>1
    <3> QED BY <3>2 DEF ToSet
  <2> QED BY <1>1, <2>1, <2>2, <2>3
<1>6. ASSUME Skip(args) = 0, ~at.more, Unlimited(args) \/ Len(at.page) < Limit(args)
      PROVE  s \subseteq ToSet(at.page)
  <2>a. Limit(args) = 0 \/ B < Limit(args)
    BY <1>1, <1>2, <1>6
  <2>1. B # Limit(args) \/ B # BatchSize
    <3> HIDE DEF B
    <3> QED BY <1>1, <1>2, <2>a
  <2>2. B = P /\ P < BatchSize
    <3> HIDE DEF B
    <3> QED BY <1>1, <1>3, <1>6, <2>1
  <2>3. B = Len(q)
    <3> HIDE DEF B
    <3> QED BY <1>1, <1>2, <1>6, <2>a, <2>2
  <2>4. left = 0
    BY <1>1, <2>3
  <2>5. ToSet(at.ahead) = {}
    BY <1>1, <2>4 DEF ToSet
  <2> QED BY <1>5, <1>6, <2>5
<1> QED BY <1>4, <1>5, <1>6 DEF Covers

\* Find leaves the cursor in an order of what it found.
LEMMA FindStands ==
    ASSUME IInv, Find
    PROVE  /\ \E q \in Seq(Found) :
                IsOrder(name, request.args, Found, q) /\ Stands(request.args, q, cursor')
           /\ Covers(request.args, cursor', Found)
           /\ cursor' \in [page : Seq(Ids), ahead : Seq(Ids), more : BOOLEAN]
           /\ ToSet(cursor'.page) \subseteq Found /\ ToSet(cursor'.ahead) \subseteq Found
<1> DEFINE args == request.args
<1>1. /\ step = "find" /\ args \in Args /\ ~Refused(args) /\ UNCHANGED request
      /\ Found \in SUBSET Ids
  BY FoundIds DEF IInv, TypeOK, InStep, Find
<1>2. PICK q \in Orders(name, args, Found) : Stands(args, q, cursor')
  BY DEF Find, Stands
<1>3. IsOrder(name, args, Found, q)
  BY <1>1, OrdersAreOrders
<1>4. q \in Seq(Found) /\ ToSet(q) = Found
  BY <1>3 DEF IsOrder
<1>5. Covers(args, cursor', Found)
  BY <1>1, <1>2, <1>4, StandsCovers
<1>6. /\ cursor'.page \in Seq(Found) /\ cursor'.ahead \in Seq(Found) /\ cursor'.more \in BOOLEAN
      /\ cursor' = [page |-> cursor'.page, ahead |-> cursor'.ahead, more |-> cursor'.more]
  BY <1>1, <1>2, <1>4, StandsAt
<1>7. \A p \in Seq(Found) : p \in Seq(Ids) /\ ToSet(p) \subseteq Found
  BY <1>1, SeqMonotonic, LenProperties DEF ToSet
<1>8. cursor' \in [page : Seq(Ids), ahead : Seq(Ids), more : BOOLEAN]
  BY <1>6, <1>7
<1> QED BY <1>2, <1>3, <1>4, <1>5, <1>6, <1>7, <1>8

\* What is left of an order for the rest of the page.
LEMMA FillIs ==
    ASSUME NEW limit \in Nat, NEW m \in Nat, limit = 0 \/ m < limit, NEW S, NEW q \in Seq(S)
    PROVE  LET len == IF limit # 0 /\ limit - m < Len(q) THEN limit - m ELSE Len(q)
           IN /\ Fill(q, limit, m) \in Seq(S) /\ Len(Fill(q, limit, m)) = len
              /\ \A k \in 1..len : Fill(q, limit, m)[k] = q[k]
<1>1. CASE limit = 0
  BY <1>1 DEF Fill
<1>2. CASE limit # 0
  <2>1. limit - m \in Nat /\ Fill(q, limit, m) = FirstOf(q, limit - m)
    BY <1>2 DEF Fill
  <2> QED BY <1>2, <2>1, FirstOfIs
<1> QED BY <1>1, <1>2

\* Two sequences, one behind the other.
LEMMA Joined ==
    ASSUME NEW S, NEW p \in Seq(S), NEW r \in Seq(S)
    PROVE  /\ p \o r \in Seq(S) /\ Len(p \o r) = Len(p) + Len(r)
           /\ Len(p) \in Nat /\ Len(r) \in Nat
           /\ DOMAIN (p \o r) = 1..(Len(p) + Len(r))
           /\ \A k \in 1..Len(p) : (p \o r)[k] = p[k]
           /\ \A k \in 1..Len(r) : (p \o r)[Len(p) + k] = r[k]
           /\ \A k \in 1..(Len(p) + Len(r)) :
                k \in 1..Len(p) \/ \E j \in 1..Len(r) : k = Len(p) + j
<1> DEFINE all == p \o r
<1>1. /\ all \in Seq(S) /\ Len(all) = Len(p) + Len(r)
      /\ \A k \in 1..(Len(p) + Len(r)) : all[k] = IF k <= Len(p) THEN p[k] ELSE r[k - Len(p)]
  BY ConcatProperties
<1>2. Len(p) \in Nat /\ Len(r) \in Nat
  BY LenProperties
<1> HIDE DEF all
<1>3. DOMAIN all = 1..(Len(p) + Len(r))
  BY <1>1, LenProperties
<1>4. \A k \in 1..Len(p) : all[k] = p[k]
  BY <1>1, <1>2
<1>5. ASSUME NEW k \in 1..Len(r) PROVE all[Len(p) + k] = r[k]
  <2>1. /\ Len(p) + k \in 1..(Len(p) + Len(r)) /\ ~(Len(p) + k <= Len(p))
        /\ (Len(p) + k) - Len(p) = k
    BY <1>2
  <2> QED BY <1>1, <2>1
<1>6. ASSUME NEW k \in 1..(Len(p) + Len(r)), k \notin 1..Len(p)
      PROVE  \E j \in 1..Len(r) : k = Len(p) + j
  <2>1. k - Len(p) \in 1..Len(r) /\ k = Len(p) + (k - Len(p))
    BY <1>2, <1>6
  <2> QED BY <2>1
<1> QED BY <1>1, <1>2, <1>3, <1>4, <1>5, <1>6 DEF all

\* And the operators on them.
LEMMA JoinedSets ==
    ASSUME NEW S, NEW p \in Seq(S), NEW r \in Seq(S)
    PROVE  ToSet(p \o r) = ToSet(p) \cup ToSet(r)
<1> DEFINE all == p \o r
<1>1. /\ DOMAIN all = 1..(Len(p) + Len(r))
      /\ Len(p) \in Nat /\ Len(r) \in Nat
      /\ \A k \in 1..Len(p) : all[k] = p[k]
      /\ \A k \in 1..Len(r) : all[Len(p) + k] = r[k]
      /\ \A k \in 1..(Len(p) + Len(r)) :
           k \in 1..Len(p) \/ \E j \in 1..Len(r) : k = Len(p) + j
      /\ DOMAIN p = 1..Len(p) /\ DOMAIN r = 1..Len(r)
  BY Joined, LenProperties
<1> HIDE DEF all
<1>2. ASSUME NEW k \in DOMAIN all PROVE all[k] \in ToSet(p) \cup ToSet(r)
  <2>1. CASE k \in 1..Len(p)
    BY <1>1, <2>1 DEF ToSet
  <2>2. ASSUME NEW j \in 1..Len(r), k = Len(p) + j PROVE all[k] \in ToSet(r)
    BY <1>1, <2>2 DEF ToSet
  <2> QED BY <1>1, <2>1, <2>2
<1>3. ASSUME NEW k \in DOMAIN p PROVE p[k] \in ToSet(all)
  <2>1. k \in DOMAIN all /\ all[k] = p[k]
    BY <1>1
  <2> QED BY <2>1 DEF ToSet
<1>4. ASSUME NEW k \in DOMAIN r PROVE r[k] \in ToSet(all)
  <2>1. Len(p) + k \in DOMAIN all /\ all[Len(p) + k] = r[k]
    BY <1>1
  <2> QED BY <2>1 DEF ToSet
<1>5. ToSet(all) = ToSet(p) \cup ToSet(r)
  BY <1>2, <1>3, <1>4 DEF ToSet
<1> QED BY <1>5 DEF all

\* If nothing was written, the batches are the rows of the order in which the list began.
LEMMA Continued ==
    ASSUME NEW args \in Args, ~Refused(args), NEW s \in SUBSET Ids, NEW q \in Seq(s), NEW at,
           Stands(args, q, at)
    PROVE  /\ ~at.more => at.page = Rows(args, q)
           /\ at.more => at.page \o Fill(at.ahead, Limit(args), Len(at.page)) = Rows(args, q)
<1> DEFINE P == PageLength(args, Len(q))
           B == IF BatchSize < P THEN BatchSize ELSE P
           skip == Skip(args)
           limit == Limit(args)
           left == IF Len(q) > skip + B THEN Len(q) - (skip + B) ELSE 0
           rows == Rows(args, q)
           page == at.page
           ahead == at.ahead
<1>1. /\ P \in Nat /\ B \in Nat /\ left \in Nat /\ Len(q) \in Nat /\ skip \in Nat /\ limit \in Nat
      /\ page \in Seq(s) /\ Len(page) = B
      /\ \A k \in 1..B : page[k] = q[skip + k]
      /\ ahead \in Seq(s) /\ Len(ahead) = left
      /\ \A k \in 1..left : ahead[k] = q[skip + B + k]
      /\ at.more <=> B = BatchSize /\ B # limit
  BY StandsAt
<1>2. /\ rows \in Seq(s) /\ Len(rows) = P
      /\ \A k \in 1..P : rows[k] = q[skip + k]
      /\ limit # 0 => P <= limit
  BY RowsAre
<1>3. BatchSize \in Nat \ {0}
  BY ListAssumption
<1>4. P = LET rest == IF Len(q) > skip THEN Len(q) - skip ELSE 0
          IN IF limit # 0 /\ limit < rest THEN limit ELSE rest
  BY DEF PageLength
<1> HIDE DEF P, rows, page, ahead, skip, limit
<1>5. CASE ~at.more
  <2>1. B = P
    BY <1>1, <1>2, <1>3, <1>5
  <2> HIDE DEF B
  <2>2. Len(page) = Len(rows) /\ \A k \in 1..Len(page) : page[k] = rows[k]
    BY <1>1, <1>2, <2>1
  <2>3. page = rows
    BY <1>1, <1>2, <2>2, SeqEqual
  <2> QED BY <1>5, <2>3 DEF page, rows
<1>6. CASE at.more
  <2> DEFINE F == IF limit # 0 /\ limit - B < left THEN limit - B ELSE left
             fill == Fill(ahead, limit, B)
  <2>1. limit = 0 \/ B < limit
    BY <1>1, <1>2, <1>3, <1>6
  <2>2. F \in Nat /\ F <= left /\ P = B + F
    <3>1. B = BatchSize /\ B <= P /\ P >= 1
      BY <1>1, <1>3, <1>6
    <3>2. Len(q) > skip
      BY <1>1, <1>4, <3>1
    <3>3. P = IF limit # 0 /\ limit < Len(q) - skip THEN limit ELSE Len(q) - skip
      BY <1>4, <3>2
    <3> HIDE DEF B
    <3>4. left = Len(q) - (skip + B)
      BY <1>1, <3>1, <3>2, <3>3
    <3> HIDE DEF left
    <3> QED BY <1>1, <2>1, <3>1, <3>2, <3>3, <3>4
  <2> HIDE DEF left, B
  <2>a. B \in Nat /\ limit \in Nat /\ ahead \in Seq(s) /\ Len(ahead) = left
    BY <1>1
  <2>3. fill \in Seq(s) /\ Len(fill) = F /\ \A k \in 1..F : fill[k] = ahead[k]
    <3> DEFINE len == IF limit # 0 /\ limit - B < Len(ahead) THEN limit - B ELSE Len(ahead)
    <3>1. fill \in Seq(s) /\ Len(fill) = len /\ \A k \in 1..len : fill[k] = ahead[k]
      BY <2>1, <2>a, FillIs
    <3>2. len = F
      BY <2>a
    <3> HIDE DEF len, F, fill
    <3> QED BY <3>1, <3>2
  <2> HIDE DEF F, fill
  <2> DEFINE all == page \o fill
  <2>4. /\ all \in Seq(s) /\ Len(all) = B + F
        /\ \A k \in 1..B : all[k] = page[k]
        /\ \A k \in 1..F : all[B + k] = fill[k]
        /\ \A k \in 1..(B + F) : k \in 1..B \/ \E j \in 1..F : k = B + j
    <3>1. /\ all \in Seq(s) /\ Len(all) = Len(page) + Len(fill)
          /\ \A k \in 1..Len(page) : all[k] = page[k]
          /\ \A k \in 1..Len(fill) : all[Len(page) + k] = fill[k]
          /\ \A k \in 1..(Len(page) + Len(fill)) :
               k \in 1..Len(page) \/ \E j \in 1..Len(fill) : k = Len(page) + j
      <4>1. page \in Seq(s) /\ fill \in Seq(s)
        BY <1>1, <2>3
      <4> QED BY <4>1, Joined
    <3>2. Len(page) = B /\ Len(fill) = F
      BY <1>1, <2>3
    <3> HIDE DEF all
    <3> QED BY <3>1, <3>2
  <2> HIDE DEF all
  <2>5. ASSUME NEW k \in 1..(B + F) PROVE all[k] = rows[k]
    <3>1. rows[k] = q[skip + k]
      BY <1>2, <2>2
    <3>2. CASE k \in 1..B
      BY <1>1, <2>4, <3>1, <3>2
    <3>3. ASSUME NEW j \in 1..F, k = B + j PROVE all[k] = q[skip + k]
      <4>1. j \in 1..left /\ skip + B + j = skip + k
        BY <1>1, <2>2, <3>3
      <4> QED BY <1>1, <2>3, <2>4, <3>3, <4>1
    <3> QED BY <2>4, <3>1, <3>2, <3>3
  <2>6. Len(all) = Len(rows) /\ \A k \in 1..Len(all) : all[k] = rows[k]
    BY <1>2, <2>2, <2>4, <2>5
  <2>7. all = rows
    BY <1>2, <2>4, <2>6, SeqEqual
  <2>8. Len(page) = B
    BY <1>1
  <2> QED BY <1>6, <2>7, <2>8 DEF all, fill, rows, page, ahead, limit
<1> QED BY <1>5, <1>6

\* What the page of a list holds in the end.
LEMMA RestReads ==
    ASSUME IInv, Rest
    PROVE  LET args == request.args
               page == cursor'.page
           IN /\ cursor' \in [page : Seq(Ids), ahead : Seq(Ids), more : BOOLEAN]
              /\ ToSet(page) \subseteq seen.could
              /\ Skip(args) = 0 /\ (Unlimited(args) \/ Len(page) < Limit(args)) =>
                   seen.steady \subseteq ToSet(page)
              /\ seen.quiet => IsPage(name, args, seen.steady, page)
<1> DEFINE args == request.args
           limit == Limit(args)
           first == cursor.page
           ahead == cursor.ahead
           fill == Fill(ahead, limit, Len(first))
<1>1. /\ step = "rest" /\ args \in Args /\ ~Refused(args)
      /\ cursor \in [page : Seq(Ids), ahead : Seq(Ids), more : BOOLEAN]
      /\ ToSet(first) \subseteq seen.could /\ ToSet(ahead) \subseteq seen.could
      /\ Covers(args, cursor, seen.steady)
      /\ seen.steady \in SUBSET Ids
      /\ limit \in Nat /\ (Unlimited(args) <=> limit = 0)
  BY Accepted
     DEF Rest, IInv, TypeOK, InStep, Allowed, OnlyWhatWasReadable, Batched
<1>2. ASSUME seen.quiet
      PROVE  /\ ~cursor.more => IsPage(name, args, seen.steady, first)
             /\ cursor.more => IsPage(name, args, seen.steady, first \o fill)
  <2>1. PICK q \in Seq(seen.steady) : IsOrder(name, args, seen.steady, q) /\ Stands(args, q, cursor)
    BY <1>1, <1>2 DEF IInv, Batched
  <2>2. /\ ~cursor.more => first = Rows(args, q)
        /\ cursor.more => first \o fill = Rows(args, q)
    BY <1>1, <2>1, Continued
  <2> QED BY <2>1, <2>2 DEF IsPage
<1>3. CASE ~cursor.more
  <2>1. cursor' = cursor
    BY <1>3 DEF Rest
  <2> QED BY <1>1, <1>2, <1>3, <2>1 DEF Covers
<1>4. CASE cursor.more
  <2> DEFINE page == first \o fill
             m == Len(first)
             len == IF limit # 0 /\ limit - m < Len(ahead) THEN limit - m ELSE Len(ahead)
  <2>1. cursor' = [page |-> page, ahead |-> <<>>, more |-> FALSE]
    BY <1>4 DEF Rest
  <2>2. /\ first \in Seq(Ids) /\ ahead \in Seq(Ids) /\ m \in Nat /\ Len(ahead) \in Nat
        /\ limit = 0 \/ m < limit
    BY <1>1, <1>4, LenProperties DEF Covers
  <2>3. fill \in Seq(Ids) /\ Len(fill) = len /\ \A k \in 1..len : fill[k] = ahead[k]
    <3> HIDE DEF first, ahead, limit
    <3> QED BY <1>1, <2>2, FillIs
  <2> HIDE DEF fill
  <2>4. /\ page \in Seq(Ids) /\ Len(page) = m + Len(fill)
        /\ ToSet(page) = ToSet(first) \cup ToSet(fill)
    <3> HIDE DEF first
    <3>1. page \in Seq(Ids) /\ Len(page) = Len(first) + Len(fill)
      BY <2>2, <2>3, Joined
    <3>2. ToSet(page) = ToSet(first) \cup ToSet(fill)
      BY <2>2, <2>3, JoinedSets
    <3> QED BY <3>1, <3>2
  <2>5. DOMAIN fill = 1..len /\ DOMAIN ahead = 1..Len(ahead)
    BY <2>2, <2>3, LenProperties
  <2>6. len \in Nat /\ len <= Len(ahead)
    BY <1>1, <2>2
  <2>7. ToSet(fill) \subseteq ToSet(ahead)
    <3> HIDE DEF len
    <3>1. \A k \in 1..len : k \in 1..Len(ahead)
      BY <2>2, <2>6
    <3> QED BY <2>3, <2>5, <3>1 DEF ToSet
  <2>8. ASSUME Skip(args) = 0, Unlimited(args) \/ Len(page) < limit
        PROVE  seen.steady \subseteq ToSet(page)
    <3>1. len = Len(ahead)
      <4>1. limit = 0 \/ m + len < limit
        BY <1>1, <2>3, <2>4, <2>8
      <4> QED BY <1>1, <2>2, <4>1
    <3> HIDE DEF len
    <3>2. ToSet(ahead) \subseteq ToSet(fill)
      BY <2>3, <2>5, <3>1 DEF ToSet
    <3> QED BY <1>1, <1>4, <2>4, <2>8, <3>2 DEF Covers
  <2>9. <<>> \in Seq(Ids)
    BY EmptySeq
  <2>10. seen.quiet => IsPage(name, args, seen.steady, page)
    BY <1>2, <1>4 DEF fill
  <2> HIDE DEF page
  <2>11. cursor' \in [page : Seq(Ids), ahead : Seq(Ids), more : BOOLEAN] /\ cursor'.page = page
    BY <2>1, <2>4, <2>9
  <2> QED BY <1>1, <2>4, <2>7, <2>8, <2>10, <2>11
<1> QED BY <1>3, <1>4

\* What a write leaves ahead of an open query: everything but what was written.
LEMMA AheadIs ==
    ASSUME TypeOK, NEW i \in Ids, stored' \subseteq Ids, NEW ahead \in Ahead(i)
    PROVE  /\ ahead \in Seq(Ids)
           /\ ToSet(cursor.ahead) \ {i} \subseteq ToSet(ahead)
           /\ ToSet(ahead) \subseteq ToSet(cursor.ahead) \cup
                                     ({i} \cap Selected(name', request.args, request.ids))
           /\ ~cursor.more => ahead = cursor.ahead
<1> DEFINE others == ToSet(cursor.ahead) \ {i}
           matching == {i} \cap Selected(name', request.args, request.ids) \cap stored'
<1>1. cursor.ahead \in Seq(Ids) /\ ToSet(cursor.ahead) \subseteq Ids
  BY LenProperties DEF TypeOK, ToSet
<1>2. others \in SUBSET Ids /\ others \cup matching \in SUBSET Ids
  BY <1>1
<1> HIDE DEF others, matching
<1>3. ASSUME NEW s \in SUBSET Ids, ahead \in Orders(name', request.args, s)
      PROVE  ahead \in Seq(Ids) /\ ToSet(ahead) = s
  <2>1. ahead \in Seq(s) /\ ToSet(ahead) = s
    BY <1>3, OrdersAreOrders DEF IsOrder
  <2> QED BY <2>1, SeqMonotonic
<1>4. CASE ahead = cursor.ahead
  BY <1>1, <1>4
<1>5. CASE ahead # cursor.ahead
  <2>1. /\ cursor.more
        /\ \/ ahead \in Orders(name', request.args, others)
           \/ ahead \in Orders(name', request.args, others \cup matching)
    BY <1>5 DEF Ahead, others, matching
  <2>2. ahead \in Seq(Ids) /\ (ToSet(ahead) = others \/ ToSet(ahead) = others \cup matching)
    BY <1>2, <1>3, <2>1
  <2> QED BY <2>1, <2>2 DEF others, matching
<1> QED BY <1>4, <1>5

\* What Write does to the cursor, and to what is known of the operators.
LEMMA WriteMoves ==
    ASSUME IInv, Write
    PROVE  /\ cursor' \in [page : Seq(Ids), ahead : Seq(Ids), more : BOOLEAN]
           /\ cursor'.page = cursor.page /\ cursor'.more = cursor.more
           /\ ToSet(cursor'.ahead) \subseteq ToSet(cursor.ahead) \cup Mine \cup request.ids
           /\ ~cursor.more => cursor' = cursor
           /\ step \in {"count", "rest"} =>
                seen.steady \cap seen'.steady \cap ToSet(cursor.ahead)
                  \subseteq ToSet(cursor'.ahead)
           /\ stored' \cup readable' \subseteq Ids /\ deleted' \subseteq Ids \ stored'
           /\ name' \in [Ids -> Names]
<1>1. TypeOK /\ cursor = [page |-> cursor.page, ahead |-> cursor.ahead, more |-> cursor.more]
  BY DEF IInv, TypeOK
<1>2. CASE \E i \in Ids : Share(i) /\ UNCHANGED cursor
  BY <1>1, <1>2 DEF TypeOK, Share
<1>3. ASSUME NEW i \in Ids, Create(i) \/ Delete(i) \/ Rename(i),
             NEW ahead \in Ahead(i), cursor' = [cursor EXCEPT !.ahead = ahead]
      PROVE  /\ cursor' \in [page : Seq(Ids), ahead : Seq(Ids), more : BOOLEAN]
             /\ cursor'.page = cursor.page /\ cursor'.more = cursor.more
             /\ ToSet(cursor'.ahead) \subseteq ToSet(cursor.ahead) \cup Mine \cup request.ids
             /\ ~cursor.more => cursor' = cursor
             /\ step \in {"count", "rest"} =>
                  seen.steady \cap seen'.steady \cap ToSet(cursor.ahead)
                    \subseteq ToSet(cursor'.ahead)
             /\ stored' \cup readable' \subseteq Ids /\ deleted' \subseteq Ids \ stored'
             /\ name' \in [Ids -> Names]
  <2>1. stored' \cup readable' \subseteq Ids /\ deleted' \subseteq Ids \ stored'
    BY <1>1, <1>3 DEF TypeOK, Create, Delete, Rename
  <2>2. name' \in [Ids -> Names]
    BY <1>1, <1>3 DEF TypeOK, Create, Delete, Rename
  <2>3. /\ ahead \in Seq(Ids)
        /\ ToSet(cursor.ahead) \ {i} \subseteq ToSet(ahead)
        /\ ToSet(ahead) \subseteq ToSet(cursor.ahead) \cup
                                  ({i} \cap Selected(name', request.args, request.ids))
        /\ ~cursor.more => ahead = cursor.ahead
    BY <1>1, <1>3, <2>1, AheadIs
  <2>4. cursor' = [page |-> cursor.page, ahead |-> ahead, more |-> cursor.more]
    BY <1>1, <1>3
  <2>5. ASSUME step \in {"count", "rest"} PROVE i \notin seen.steady \cap seen'.steady
    <3>1. seen.steady \subseteq stored
      BY <2>5 DEF IInv, Throughout, Found
    <3>2. seen'.steady = {k \in seen.steady \cap stored' \cap (readable' \cup Mine) :
                            name'[k] = name[k]}
      BY <2>5 DEF Write, Calls
    <3>3. CASE Create(i)
      BY <3>1, <3>3 DEF Create
    <3>4. CASE Delete(i)
      BY <3>2, <3>4 DEF Delete
    <3>5. CASE Rename(i)
      <4>1. name'[i] # name[i]
        BY <1>1, <3>5 DEF TypeOK, Rename
      <4> QED BY <3>2, <4>1
    <3> QED BY <1>3, <3>3, <3>4, <3>5
  <2>6. Selected(name', request.args, request.ids) \subseteq Mine \cup request.ids
    BY DEF Selected
  <2>7. cursor' \in [page : Seq(Ids), ahead : Seq(Ids), more : BOOLEAN]
    BY <1>1, <2>3, <2>4 DEF TypeOK
  <2>8. cursor'.page = cursor.page /\ cursor'.more = cursor.more /\ cursor'.ahead = ahead
    BY <2>4
  <2>9. ~cursor.more => cursor' = cursor
    BY <1>1, <2>3, <2>4
  <2> QED BY <2>1, <2>2, <2>3, <2>5, <2>6, <2>7, <2>8, <2>9
<1> QED BY <1>2, <1>3 DEF Write

-----------------------------------------------------------------------------
(* The invariant is one *)

\* No parameters are not refused.
LEMMA NoArgsAccepted == NoArgs \in Args /\ ~Refused(NoArgs)
BY ListAssumption DEF NoArgs, Args, Refused, Malformed, Limit

\* The invariant holds at the start.
LEMMA InitIInv == Init => IInv
<1> SUFFICES ASSUME Init PROVE IInv
  OBVIOUS
<1>1. TypeOK
  <2>1. Cardinality(Ids) \in Nat
    BY ListAssumption, FS_CardinalityType
  <2> QED BY <2>1, NoArgsAccepted, ListAssumption
       DEF Init, TypeOK, NoRequest, NoCursor, NothingSeen, NoList
<1>2. InStep /\ Batched /\ ShortPageIsComplete
  BY DEF Init, InStep, Batched, ShortPageIsComplete, Listed, NoRequest, NoCursor, NothingSeen
<1>3. Allowed
  BY DEF Init, Allowed, OnlyWhatWasReadable, ToSet, NoRequest, NoCursor, NothingSeen, Calls
<1>4. Throughout /\ Paged
  BY DEF Init, Throughout, Paged, Listed, NoRequest, NoList, NothingSeen
<1> QED BY <1>1, <1>2, <1>3, <1>4 DEF IInv

\* Every step keeps the types.
LEMMA TypeStep == IInv /\ [Next]_vars => TypeOK'
<1> SUFFICES ASSUME IInv, [Next]_vars PROVE TypeOK'
  OBVIOUS
<1> USE DEF Calls
<1>1. TypeOK /\ Mine \subseteq Ids /\ Cardinality(Ids) \in Nat
  BY ListAssumption, FS_CardinalityType DEF IInv
<1>2. ASSUME NEW args \in Args, All(args) PROVE TypeOK'
  <2>1. /\ Selected(name, args, readable) \cap stored \in SUBSET Ids
        /\ readable \cup Mine \in SUBSET Ids
    BY <1>1 DEF TypeOK
  <2> QED BY <1>1, <1>2, <2>1 DEF TypeOK, All, Answer, Store
<1>3. CASE ListAccessible
  BY <1>1, <1>3 DEF TypeOK, ListAccessible, Answer, Store
<1>4. CASE Find
  BY <1>1, <1>4, FindStands DEF TypeOK, Find, Store
<1>5. CASE CountDocuments
  BY <1>1, <1>5, FoundCount DEF TypeOK, CountDocuments, Store
<1>6. CASE Rest
  <2>1. cursor' \in [page : Seq(Ids), ahead : Seq(Ids), more : BOOLEAN]
    BY <1>6, RestReads
  <2>2. step' = "answered" /\ result' = "ok" /\ UNCHANGED <<Store, request, total, seen, last>>
    BY <1>6 DEF Rest, Answer
  <2> QED BY <1>1, <2>1, <2>2 DEF TypeOK, Store
<1>7. ASSUME NEW i \in Ids, FindOperator(i) PROVE TypeOK'
  BY <1>1, <1>7, NoArgsAccepted DEF TypeOK, FindOperator, Store
<1>8. CASE FindMalformed \/ CheckPermission
  BY <1>1, <1>8 DEF TypeOK, FindMalformed, CheckPermission, Answer, Store
<1>9. CASE FindOne
  <2>1. PICK i \in request.ids :
          IF i \in stored
          THEN Answer("ok") /\ cursor' = [page |-> <<i>>, ahead |-> <<>>, more |-> FALSE]
          ELSE Answer("notFound") /\ UNCHANGED cursor
    BY <1>9 DEF FindOne
  <2>2. i \in Ids
    BY <1>1 DEF TypeOK
  <2>3. <<i>> \in Seq(Ids)
    BY <2>2
  <2>4. cursor' \in [page : Seq(Ids), ahead : Seq(Ids), more : BOOLEAN]
    <3>1. \A p \in Seq(Ids) : [page |-> p, ahead |-> <<>>, more |-> FALSE]
                                \in [page : Seq(Ids), ahead : Seq(Ids), more : BOOLEAN]
      BY <2>2
    <3>2. CASE i \in stored
      BY <2>1, <2>3, <3>1, <3>2
    <3>3. CASE i \notin stored
      BY <1>1, <2>1, <3>3 DEF TypeOK
    <3> QED BY <3>2, <3>3
  <2> QED BY <1>1, <1>9, <2>1, <2>4 DEF TypeOK, FindOne, Answer, Store
<1>10. CASE CallFails
  BY <1>1, <1>10 DEF TypeOK, CallFails, Answer, NoCursor, Store
<1>11. CASE Done
  <2>1. last' \in [known : BOOLEAN, args : Args, page : Seq(Ids)]
    BY <1>1, <1>11, NoArgsAccepted DEF TypeOK, Done, NoList
  <2> QED BY <1>1, <1>11, <2>1, NoArgsAccepted
       DEF TypeOK, Done, NoRequest, NoCursor, NothingSeen, Store
<1>12. CASE Write
  <2>1. /\ stored' \cup readable' \subseteq Ids /\ deleted' \subseteq Ids \ stored'
        /\ name' \in [Ids -> Names]
        /\ cursor' \in [page : Seq(Ids), ahead : Seq(Ids), more : BOOLEAN]
    BY <1>12, WriteMoves
  <2>2. writes' \in 0..MaxWrites /\ UNCHANGED <<step, request, total, result>> /\ last' = NoList
    BY <1>1, <1>12, ListAssumption DEF TypeOK, Write
  <2>3. seen' \in [could : SUBSET Ids, steady : SUBSET Ids, quiet : BOOLEAN]
    <3>1. /\ seen.could \cup readable' \in SUBSET Ids
          /\ {i \in seen.steady \cap stored' \cap (readable' \cup Mine) : name'[i] = name[i]}
               \in SUBSET Ids
          /\ seen.could \in SUBSET Ids /\ seen.steady \in SUBSET Ids
      BY <1>1, <2>1 DEF TypeOK
    <3> QED BY <1>12, <3>1 DEF Write
  <2> QED BY <1>1, <2>1, <2>2, <2>3, NoArgsAccepted DEF TypeOK, NoList
<1>13. CASE UNCHANGED vars
  BY <1>1, <1>13 DEF TypeOK, vars
<1> QED BY <1>2, <1>3, <1>4, <1>5, <1>6, <1>7, <1>8, <1>9, <1>10, <1>11, <1>12, <1>13 DEF Next

\* Every step leaves a request where it says it is.
LEMMA StepStep == IInv /\ [Next]_vars => InStep'
<1> SUFFICES ASSUME IInv, [Next]_vars PROVE InStep'
  OBVIOUS
<1> USE DEF Calls, Listed
<1>1. TypeOK /\ InStep
  BY DEF IInv
<1>2. ASSUME NEW args \in Args, All(args) PROVE InStep'
  BY <1>1, <1>2 DEF InStep, All, Answer, NoCursor, Refused, Malformed, Limit
<1>3. CASE ListAccessible \/ Find \/ CountDocuments \/ Rest
  BY <1>1, <1>3 DEF TypeOK, InStep, ListAccessible, Find, CountDocuments, Rest, Answer,
      Refused, Malformed, Limit
<1>4. ASSUME NEW i \in Ids, FindOperator(i) PROVE InStep'
  BY <1>1, <1>4 DEF InStep, FindOperator
<1>5. CASE FindMalformed \/ CheckPermission \/ FindOne \/ CallFails
  BY <1>1, <1>5 DEF TypeOK, InStep, FindMalformed, CheckPermission, FindOne, CallFails, Answer
<1>6. CASE Done
  BY <1>1, <1>6 DEF InStep, Done, NoRequest
<1>7. CASE Write
  <2>1. UNCHANGED <<step, request, total, result>>
    BY <1>7 DEF Write
  <2>2. cursor = NoCursor => cursor' = NoCursor
    BY <1>7, WriteMoves DEF NoCursor
  <2> QED BY <1>1, <2>1, <2>2 DEF InStep, Refused, Malformed, Limit
<1>8. CASE UNCHANGED vars
  BY <1>1, <1>8 DEF InStep, vars, Refused, Malformed, Limit
<1> QED BY <1>2, <1>3, <1>4, <1>5, <1>6, <1>7, <1>8 DEF Next

\* No step shows the caller more than was theirs to read.
LEMMA AllowedStep == IInv /\ [Next]_vars => Allowed'
<1> SUFFICES ASSUME IInv, [Next]_vars PROVE Allowed'
  OBVIOUS
<1> USE DEF Calls
<1>1. TypeOK /\ InStep /\ Allowed
  BY DEF IInv
<1>2. ASSUME NEW args \in Args, All(args) PROVE Allowed'
  BY <1>1, <1>2
     DEF InStep, Allowed, OnlyWhatWasReadable, ToSet, All, Answer, NoCursor, Store
<1>3. CASE ListAccessible
  BY <1>1, <1>3 DEF TypeOK, InStep, Allowed, OnlyWhatWasReadable, ToSet, ListAccessible,
      Answer, Store
<1>4. CASE Find
  <2>3. ToSet(cursor'.page) \subseteq Found /\ ToSet(cursor'.ahead) \subseteq Found
    BY <1>4, FindStands
  <2>4. Found \subseteq seen.could
    BY <1>1, <1>4 DEF InStep, Allowed, Find, Found, Selected
  <2> QED BY <1>1, <1>4, <2>3, <2>4 DEF InStep, Allowed, OnlyWhatWasReadable, Find, Store
<1>5. CASE CountDocuments
  BY <1>1, <1>5 DEF Allowed, OnlyWhatWasReadable, ToSet, CountDocuments, Store
<1>6. CASE Rest
  <2>1. ToSet(cursor'.page) \subseteq seen.could
    BY <1>6, RestReads
  <2>2. /\ step' = "answered" /\ result' = "ok"
        /\ UNCHANGED <<stored, deleted, readable, name, writes, request, total, seen, last>>
    BY <1>6 DEF Rest, Answer, Store
  <2> QED BY <1>1, <2>1, <2>2 DEF Allowed, OnlyWhatWasReadable, ToSet
<1>7. ASSUME NEW i \in Ids, FindOperator(i) PROVE Allowed'
  BY <1>1, <1>7 DEF InStep, Allowed, OnlyWhatWasReadable, ToSet, FindOperator, NoCursor, Store
<1>8. CASE FindMalformed \/ CheckPermission
  BY <1>1, <1>8 DEF InStep, Allowed, OnlyWhatWasReadable, ToSet, FindMalformed, CheckPermission,
      Answer, Store
<1>9. CASE FindOne
  <2>1. PICK i \in request.ids :
          IF i \in stored
          THEN Answer("ok") /\ cursor' = [page |-> <<i>>, ahead |-> <<>>, more |-> FALSE]
          ELSE Answer("notFound") /\ UNCHANGED cursor
    BY <1>9 DEF FindOne
  <2>2. request.ids \subseteq seen.could
    BY <1>1, <1>9 DEF Allowed, FindOne
  <2>3. ToSet(<<i>>) = {i}
    BY DEF ToSet
  <2>4. ToSet(cursor'.page) \subseteq seen.could
    BY <1>1, <2>1, <2>2, <2>3 DEF Allowed, OnlyWhatWasReadable, Answer
  <2> QED BY <1>1, <1>9, <2>1, <2>2, <2>4 DEF Allowed, OnlyWhatWasReadable, FindOne, Answer, Store
<1>10. CASE CallFails
  BY <1>1, <1>10 DEF Allowed, OnlyWhatWasReadable, ToSet, CallFails, Answer, NoCursor, Store
<1>11. CASE Done
  BY <1>1, <1>11 DEF Allowed, OnlyWhatWasReadable, ToSet, Done, NoRequest, NoCursor, NothingSeen,
      Store
<1>12. CASE Write
  <2>1. /\ seen.could \subseteq seen'.could
        /\ step \in Calls => readable' \subseteq seen'.could
        /\ UNCHANGED <<step, request, total, result>>
    BY <1>12 DEF Write
  <2>2. /\ cursor'.page = cursor.page
        /\ ToSet(cursor'.ahead) \subseteq ToSet(cursor.ahead) \cup Mine \cup request.ids
    BY <1>12, WriteMoves
  <2>3. step \in {"count", "rest"} => ToSet(cursor'.ahead) \subseteq seen'.could
    BY <1>1, <2>1, <2>2 DEF InStep, Allowed
  <2>4. OnlyWhatWasReadable'
    BY <1>1, <2>1, <2>2 DEF Allowed, OnlyWhatWasReadable
  <2> QED BY <1>1, <2>1, <2>3, <2>4 DEF Allowed
<1>13. CASE UNCHANGED vars
  BY <1>1, <1>13 DEF Allowed, OnlyWhatWasReadable, ToSet, vars
<1> QED BY <1>2, <1>3, <1>4, <1>5, <1>6, <1>7, <1>8, <1>9, <1>10, <1>11, <1>12, <1>13 DEF Next

\* What was there throughout a list stays known.
LEMMA ThroughoutStep == IInv /\ [Next]_vars => Throughout'
<1> SUFFICES ASSUME IInv, [Next]_vars PROVE Throughout'
  OBVIOUS
<1> USE DEF Calls
<1>1. TypeOK /\ InStep /\ Throughout
  BY DEF IInv
<1>2. ASSUME NEW args \in Args, All(args) PROVE Throughout'
  BY <1>1, <1>2 DEF Throughout, All, Answer, Selected, Store
<1>3. CASE ListAccessible
  BY <1>1, <1>3 DEF TypeOK, InStep, Throughout, ListAccessible, Answer, Found, Selected, Store
<1>4. CASE Find \/ CountDocuments \/ Rest
  BY <1>1, <1>4
     DEF InStep, Throughout, Find, CountDocuments, Rest, Answer, Found, Selected, Store
<1>5. ASSUME NEW i \in Ids, FindOperator(i) PROVE Throughout'
  BY <1>1, <1>5 DEF Throughout, FindOperator
<1>6. CASE FindMalformed \/ CheckPermission \/ FindOne \/ CallFails
  BY <1>1, <1>6 DEF InStep, Throughout, FindMalformed, CheckPermission, FindOne, CallFails,
      Answer, Selected, Store
<1>7. CASE Done
  BY <1>1, <1>7 DEF Throughout, Done, NoRequest
<1>8. CASE Write
  <2>1. UNCHANGED <<step, request>> /\ ~seen'.quiet
    BY <1>8 DEF Write
  <2>2. CASE step \in Calls
    <3>1. seen'.steady = {i \in seen.steady \cap stored' \cap (readable' \cup Mine) :
                            name'[i] = name[i]}
      BY <1>8, <2>2 DEF Write
    <3> QED BY <1>1, <2>1, <2>2, <3>1 DEF InStep, Throughout, Found, Selected
  <2>3. CASE step \notin Calls
    BY <2>1, <2>3 DEF Throughout
  <2> QED BY <2>2, <2>3
<1>9. CASE UNCHANGED vars
  BY <1>1, <1>9 DEF Throughout, Found, Selected, vars
<1> QED BY <1>2, <1>3, <1>4, <1>5, <1>6, <1>7, <1>8, <1>9 DEF Next

\* The cursor stays where the query left it.
LEMMA BatchedStep == IInv /\ [Next]_vars => Batched'
<1> SUFFICES ASSUME IInv, [Next]_vars PROVE Batched'
  OBVIOUS
<1> USE DEF Calls
<1>1. TypeOK /\ InStep /\ Throughout /\ Batched
  BY DEF IInv
<1>2. CASE Find
  <2>1. /\ \E q \in Seq(Found) :
              IsOrder(name, request.args, Found, q) /\ Stands(request.args, q, cursor')
        /\ Covers(request.args, cursor', Found)
    BY <1>2, FindStands
  <2>2. /\ step' = "count" /\ UNCHANGED <<name, request, seen>>
        /\ seen.steady \subseteq Found /\ (seen.quiet => seen.steady = Found)
    BY <1>1, <1>2 DEF Throughout, Find, Store
  <2> DEFINE s == Found
  <2>3. /\ seen.steady \subseteq s /\ (seen.quiet => seen.steady = s)
        /\ \E q \in Seq(s) : IsOrder(name, request.args, s, q) /\ Stands(request.args, q, cursor')
        /\ Covers(request.args, cursor', s)
    BY <2>1, <2>2
  <2> HIDE DEF s
  <2>4. Covers(request.args, cursor', seen.steady)
    BY <2>3 DEF Covers
  <2> QED BY <2>2, <2>3, <2>4 DEF Batched
<1>3. CASE CountDocuments
  BY <1>1, <1>3 DEF Throughout, Batched, CountDocuments, Store
<1>4. CASE Write
  <2>1. /\ UNCHANGED <<step, request, total>> /\ ~seen'.quiet
        /\ step \in {"count", "rest"} => seen'.steady \subseteq seen.steady
    BY <1>4 DEF Write
  <2>2. /\ cursor'.page = cursor.page /\ cursor'.more = cursor.more
        /\ step \in {"count", "rest"} =>
             seen.steady \cap seen'.steady \cap ToSet(cursor.ahead) \subseteq ToSet(cursor'.ahead)
    BY <1>4, WriteMoves
  <2>3. ASSUME step \in {"count", "rest"} PROVE Covers(request.args, cursor', seen'.steady)
    <3>1. Covers(request.args, cursor, seen.steady)
      BY <1>1, <2>3 DEF Batched
    <3> QED BY <2>1, <2>2, <2>3, <3>1 DEF Covers
  <2> QED BY <2>1, <2>3 DEF Batched
<1>5. CASE UNCHANGED vars
  BY <1>1, <1>5 DEF Batched, vars
<1>6. ASSUME [Next]_vars, ~Find, ~CountDocuments, ~Write, ~UNCHANGED vars
      PROVE  step' \notin {"count", "rest"}
  BY <1>6 DEF Next, All, ListAccessible, Rest, FindOperator, FindMalformed, CheckPermission,
      FindOne, CallFails, Done, Answer
<1> QED BY <1>2, <1>3, <1>4, <1>5, <1>6 DEF Batched

\* A finished list is a page, and so is the one before it.
LEMMA PagedStep == IInv /\ [Next]_vars => Paged'
<1> SUFFICES ASSUME IInv, [Next]_vars PROVE Paged'
  OBVIOUS
<1> USE DEF Calls
<1> DEFINE Now == Listed /\ seen.quiet =>
                    /\ total = Cardinality(seen.steady)
                    /\ IsPage(name, request.args, seen.steady, cursor.page)
           Before == last.known =>
                       /\ last.args.sort # "none" /\ ~Refused(last.args)
                       /\ IsPage(name, last.args,
                                 Selected(name, last.args, readable) \cap stored, last.page)
<1>1. TypeOK /\ InStep /\ Throughout /\ Now /\ Before
  BY DEF IInv, Paged
<1>2. ASSUME UNCHANGED <<stored, readable, name, last>> PROVE Before'
  BY <1>1, <1>2
<1>3. ASSUME UNCHANGED <<stored, readable, name, last>>, ~Listed' PROVE Paged'
  BY <1>2, <1>3 DEF Paged
<1>4. ASSUME NEW args \in Args, All(args) PROVE Paged'
  BY <1>1, <1>3, <1>4 DEF InStep, All, Answer, Listed, Store
<1>5. CASE ListAccessible \/ Find \/ CountDocuments
  BY <1>1, <1>3, <1>5 DEF InStep, ListAccessible, Find, CountDocuments, Answer, Listed, Store
<1>6. CASE Rest
  <2>1. /\ seen.quiet => IsPage(name, request.args, seen.steady, cursor'.page)
        /\ step = "rest" /\ UNCHANGED <<stored, readable, name, request, total, seen, last>>
    BY <1>6, RestReads DEF Rest, Store
  <2>2. seen.quiet => total = Cardinality(seen.steady)
    BY <2>1 DEF IInv, Batched
  <2>3. Now'
    BY <2>1, <2>2
  <2> QED BY <1>2, <2>1, <2>3 DEF Paged
<1>7. ASSUME NEW i \in Ids, FindOperator(i) PROVE Paged'
  BY <1>3, <1>7 DEF FindOperator, Listed, Store
<1>8. CASE FindMalformed \/ CheckPermission \/ FindOne \/ CallFails
  <2>1. UNCHANGED <<stored, readable, name, last>>
    BY <1>8 DEF FindMalformed, CheckPermission, FindOne, CallFails, Store
  <2>2. ~Listed'
    BY <1>1, <1>8 DEF InStep, FindMalformed, CheckPermission, FindOne, CallFails, Answer, Listed
  <2> QED BY <1>3, <2>1, <2>2
<1>9. CASE Done
  <2>1. ~Listed' /\ UNCHANGED <<stored, readable, name>>
    BY <1>9 DEF Done, NoRequest, Listed, Store
  <2>2. CASE result = "ok" /\ seen.quiet /\ request.args.sort # "none"
    <3>1. Listed
      BY <1>1, <2>2 DEF TypeOK, InStep, NoArgs, Listed
    <3>2. /\ last' = [known |-> TRUE, args |-> request.args, page |-> cursor.page]
          /\ seen.steady = Selected(name, request.args, readable) \cap stored
          /\ ~Refused(request.args) /\ IsPage(name, request.args, seen.steady, cursor.page)
      BY <1>1, <1>9, <2>2, <3>1 DEF Done, InStep, Throughout, Listed
    <3>3. Before'
      BY <2>1, <2>2, <3>2
    <3> QED BY <2>1, <3>3 DEF Paged
  <2>3. CASE ~(result = "ok" /\ seen.quiet /\ request.args.sort # "none")
    BY <1>9, <2>1, <2>3 DEF Done, NoList, Paged
  <2> QED BY <2>2, <2>3
<1>10. CASE Write
  <2>1. ~seen'.quiet /\ ~last'.known
    BY <1>10 DEF Write, NoList
  <2> QED BY <2>1 DEF Paged
<1>11. CASE UNCHANGED vars
  BY <1>1, <1>2, <1>11 DEF Paged, Listed, vars
<1> QED BY <1>4, <1>5, <1>6, <1>7, <1>8, <1>9, <1>10, <1>11 DEF Next

\* A page that is short stays complete.
LEMMA ShortPageStep == IInv /\ [Next]_vars => ShortPageIsComplete'
<1> SUFFICES ASSUME IInv, [Next]_vars PROVE ShortPageIsComplete'
  OBVIOUS
<1> USE DEF Calls
<1>1. TypeOK /\ InStep /\ ShortPageIsComplete
  BY DEF IInv
<1>2. CASE Rest
  <2>1. /\ Skip(request.args) = 0
             /\ (Unlimited(request.args) \/ Len(cursor'.page) < Limit(request.args)) =>
           seen.steady \subseteq ToSet(cursor'.page)
        /\ UNCHANGED <<request, seen>>
    BY <1>2, RestReads DEF Rest
  <2> QED BY <2>1 DEF ShortPageIsComplete
<1>3. CASE Write
  <2>1. UNCHANGED <<step, request, result>> /\ cursor'.page = cursor.page
    BY <1>3, WriteMoves DEF Write
  <2>2. Listed => step \notin Calls
    BY <1>1 DEF InStep, Listed
  <2>3. step \notin Calls => seen'.steady = seen.steady
    BY <1>3 DEF Write
  <2> QED BY <1>1, <2>1, <2>2, <2>3 DEF ShortPageIsComplete, Listed
<1>4. CASE UNCHANGED vars
  BY <1>1, <1>4 DEF ShortPageIsComplete, Listed, vars
<1>5. ASSUME ~Rest, ~Write, ~UNCHANGED vars PROVE ~Listed'
  <2>1. ASSUME NEW args \in Args, All(args) PROVE ~Listed'
    BY <1>1, <2>1 DEF InStep, All, Answer, Listed
  <2>2. ASSUME NEW i \in Ids, FindOperator(i) PROVE ~Listed'
    BY <2>2 DEF FindOperator, Listed
  <2>3. CASE \/ ListAccessible \/ Find \/ CountDocuments \/ FindMalformed \/ CheckPermission
             \/ FindOne \/ CallFails \/ Done
    BY <1>1, <2>3 DEF InStep, ListAccessible, Find, CountDocuments, FindMalformed, CheckPermission,
        FindOne, CallFails, Done, NoRequest, Answer, Listed
  <2> QED BY <1>5, <2>1, <2>2, <2>3 DEF Next
<1> QED BY <1>2, <1>3, <1>4, <1>5 DEF ShortPageIsComplete

\* Every step, and every stutter, preserves the invariant.
LEMMA NextIInv == IInv /\ [Next]_vars => IInv'
BY TypeStep, StepStep, AllowedStep, ThroughoutStep, BatchedStep, PagedStep, ShortPageStep DEF IInv

\* So it always holds.
LEMMA InvariantHolds == Spec => []IInv
BY InitIInv, NextIInv, PTL DEF Spec

-----------------------------------------------------------------------------
(* The theorems *)

\* What the caller is shown is theirs or was readable to them in this request, and who may not
\* read an operator does not learn whether it exists (All, FindOperator).
THEOREM NothingElseShown == Spec => []OnlyWhatWasReadable
<1>1. IInv => OnlyWhatWasReadable
  BY DEF IInv, Allowed
<1> QED BY <1>1, InvariantHolds, PTL

\* A short page is a short collection, for any limit, batch and writes in between, as far as
\* names are kept (All).
THEOREM ShortPagesComplete == Spec => []ShortPageIsComplete
<1>1. IInv => ShortPageIsComplete
  BY DEF IInv
<1> QED BY <1>1, InvariantHolds, PTL

\* Without a write the total is how many there are, and the page has as many as fit (All).
THEOREM TotalsTell == Spec => []TotalTellsTheRest
<1>1. ASSUME IInv, Listed, seen.quiet
      PROVE  LET left == IF total > Skip(request.args) THEN total - Skip(request.args) ELSE 0
             IN /\ total = Cardinality(seen.steady)
                /\ Len(cursor.page) = IF Unlimited(request.args) \/ left < Limit(request.args)
                                      THEN left ELSE Limit(request.args)
  <2> DEFINE args == request.args
  <2>1. /\ args \in Args /\ ~Refused(args) /\ seen.steady \in SUBSET Ids
        /\ total = Cardinality(seen.steady)
        /\ IsPage(name, args, seen.steady, cursor.page)
    BY <1>1 DEF IInv, TypeOK, InStep, Paged
  <2>2. PICK q \in Seq(seen.steady) :
          IsOrder(name, args, seen.steady, q) /\ cursor.page = Rows(args, q)
    BY <2>1 DEF IsPage
  <2>3. Len(q) \in Nat /\ Len(q) = total
    BY <2>1, <2>2, OrderLength
  <2>4. Len(cursor.page) = PageLength(args, Len(q))
    BY <2>1, <2>2, RowsAre
  <2>5. Limit(args) \in Nat /\ Skip(args) \in Nat /\ (Unlimited(args) <=> Limit(args) = 0)
    BY <2>1, Accepted
  <2> QED BY <2>1, <2>3, <2>4, <2>5 DEF PageLength
<1>2. IInv => TotalTellsTheRest
  BY <1>1 DEF TotalTellsTheRest
<1> QED BY <1>2, InvariantHolds, PTL

-----------------------------------------------------------------------------
(* Two pages *)

Counts(T, s, m) == T \in SUBSET s /\ IsFiniteSet(T) /\ Cardinality(T) = m

\* The first m of an order are m.
LEMMA FirstCount ==
    ASSUME NEW names \in [Ids -> Int],
           NEW args, NEW s \in SUBSET Ids, NEW q, IsOrder(names, args, s, q), NEW m \in 0..Len(q),
           NEW T, T = {q[k] : k \in 1..m}
    PROVE  Counts(T, s, m)
<1> DEFINE f == [k \in 1..m |-> q[k]]
<1>1. Len(q) \in Nat /\ DOMAIN q = 1..Len(q) /\ \A k \in 1..Len(q) : q[k] \in s
  BY LenProperties DEF IsOrder
<1>2. m \in Nat /\ \A k \in 1..m : k \in 1..Len(q)
  BY <1>1
<1>3. IsFiniteSet(1..m) /\ Cardinality(1..m) = m
  BY <1>2, FS_Interval
<1>4. f \in Surjection(1..m, T) /\ f \in Injection(1..m, T)
  BY <1>1, <1>2 DEF Surjection, Injection, IsInjective, IsOrder
<1>5. IsFiniteSet(T) /\ Cardinality(T) = m
  BY <1>3, <1>4, FS_Surjection
<1> QED BY <1>1, <1>2, <1>5 DEF Counts

\* What an order says of two of its operators.
InOrder(names, args, x, y) ==
    /\ args.sort = "asc" => names[x] <= names[y]
    /\ args.sort = "desc" => names[x] >= names[y]

\* It is a preorder.
LEMMA OrderOfNames ==
    ASSUME NEW names \in [Ids -> Int],
           NEW args
    PROVE  /\ \A x \in Ids : InOrder(names, args, x, x)
           /\ \A x, y, z \in Ids : InOrder(names, args, x, y) /\ InOrder(names, args, y, z) =>
                InOrder(names, args, x, z)
<1>1. \A x \in Ids : names[x] \in Int
  OBVIOUS
<1> QED BY <1>1 DEF InOrder

\* One way of asking for an order.
LEMMA NamesTotal ==
    ASSUME NEW names \in [Ids -> Int],
           NEW args, args.sort \in {"asc", "desc"}
    PROVE  /\ \A x, y \in Ids : InOrder(names, args, x, y) <=> ~Precedes(names, args, y, x)
           /\ \A x, y, z \in Ids :
                Precedes(names, args, x, y) /\ InOrder(names, args, y, z) => Precedes(names, args, x, z)
           /\ \A x, y, z \in Ids :
                InOrder(names, args, x, y) /\ Precedes(names, args, y, z) => Precedes(names, args, x, z)
           /\ \A x, y \in Ids :
                InOrder(names, args, x, y) /\ InOrder(names, args, y, x) => names[x] = names[y]
           /\ \A x, y, z \in Ids : names[x] = names[y] =>
                /\ Precedes(names, args, x, z) <=> Precedes(names, args, y, z)
                /\ Precedes(names, args, z, x) <=> Precedes(names, args, z, y)
           /\ \A x \in Ids : ~Precedes(names, args, x, x)
<1>1. \A x \in Ids : names[x] \in Int
  OBVIOUS
<1> QED BY <1>1 DEF InOrder, Precedes

\* In an order nothing is behind what it precedes.
InItsOrder(names, args, s, q) ==
    /\ Len(q) \in Nat
    /\ \A k \in 1..Len(q) : q[k] \in s
    /\ \A x \in s : \E k \in 1..Len(q) : q[k] = x
    /\ \A j, k \in 1..Len(q) : j <= k => InOrder(names, args, q[j], q[k])
    /\ \A j, k \in 1..Len(q) : Precedes(names, args, q[j], q[k]) => j < k

\* Every order is one.
LEMMA OrderSorts ==
    ASSUME NEW names \in [Ids -> Int],
           NEW args, args.sort \in {"asc", "desc"}, NEW s \in SUBSET Ids, NEW q,
           IsOrder(names, args, s, q)
    PROVE  InItsOrder(names, args, s, q)
<1>1. Len(q) \in Nat /\ DOMAIN q = 1..Len(q) /\ \A k \in 1..Len(q) : q[k] \in s
  BY LenProperties DEF IsOrder
<1>2. \A x \in s : \E k \in 1..Len(q) : q[k] = x
  BY <1>1 DEF IsOrder, ToSet
<1>3. ASSUME NEW j \in 1..Len(q), NEW k \in 1..Len(q), j <= k PROVE InOrder(names, args, q[j], q[k])
  <2>1. CASE j = k
    BY <1>1, <2>1, OrderOfNames
  <2>2. CASE j < k
    BY <1>1, <2>2 DEF IsOrder, Sorted, InOrder
  <2> QED BY <1>3, <2>1, <2>2
<1>4. ASSUME NEW j \in 1..Len(q), NEW k \in 1..Len(q), Precedes(names, args, q[j], q[k]) PROVE j < k
  <2>1. CASE k <= j
    <3>1. InOrder(names, args, q[k], q[j]) /\ q[k] \in Ids /\ q[j] \in Ids
      BY <1>1, <1>3, <2>1
    <3> QED BY <1>4, <3>1, NamesTotal
  <2> QED BY <1>1, <2>1
<1> QED BY <1>1, <1>2, <1>3, <1>4 DEF InItsOrder

\* In two orders of the same set, what is further behind in one does not precede what is
\* further in front in the other: too many operators would have to come before the latter.
LEMMA OrdersAgree ==
    ASSUME NEW names \in [Ids -> Int],
           NEW args, args.sort \in {"asc", "desc"}, NEW s \in SUBSET Ids,
           NEW q, IsOrder(names, args, s, q), NEW r, IsOrder(names, args, s, r),
           NEW a \in 1..Len(q), NEW b \in 1..Len(r), a < b
    PROVE  ~Precedes(names, args, r[b], q[a])
<1> SUFFICES ASSUME Precedes(names, args, r[b], q[a]) PROVE FALSE
  OBVIOUS
<1> DEFINE T == {x \in s : Precedes(names, args, x, q[a])}
           Q == {q[k] : k \in 1..(a - 1)}
           R == {r[k] : k \in 1..b}
<1>a. InItsOrder(names, args, s, q)
  BY OrderSorts
<1>b. InItsOrder(names, args, s, r)
  BY OrderSorts
<1>1. /\ Len(q) \in Nat /\ Len(r) \in Nat
      /\ \A k \in 1..Len(q) : q[k] \in s
      /\ \A k \in 1..Len(r) : r[k] \in s
      /\ \A x \in s : \E k \in 1..Len(q) : q[k] = x
      /\ \A j, k \in 1..Len(q) : Precedes(names, args, q[j], q[k]) => j < k
      /\ \A j, k \in 1..Len(r) : j <= k => InOrder(names, args, r[j], r[k])
  BY <1>a, <1>b DEF InItsOrder
<1>2. IsFiniteSet(R) /\ Cardinality(R) = b
  <2>1. b \in 0..Len(r)
    BY <1>1
  <2>2. R = {r[k] : k \in 1..b}
    OBVIOUS
  <2> HIDE DEF R
  <2>3. Counts(R, s, b)
    BY <2>1, <2>2, FirstCount
  <2> QED BY <2>3 DEF Counts
<1>3. IsFiniteSet(Q) /\ Cardinality(Q) = a - 1
  <2>1. a - 1 \in 0..Len(q)
    BY <1>1
  <2>2. Q = {q[k] : k \in 1..(a - 1)}
    OBVIOUS
  <2> HIDE DEF Q
  <2>3. Counts(Q, s, a - 1)
    BY <2>1, <2>2, FirstCount
  <2> QED BY <2>3 DEF Counts
<1>4. T \subseteq Q
  <2>1. ASSUME NEW x \in T PROVE x \in Q
    <3>1. PICK k \in 1..Len(q) : q[k] = x
      BY <1>1
    <3>2. k < a
      BY <1>1, <3>1
    <3>3. k \in 1..(a - 1)
      BY <1>1, <3>2
    <3> QED BY <3>1, <3>3
  <2> QED BY <2>1
<1>5. R \subseteq T
  <2>1. ASSUME NEW k \in 1..b PROVE r[k] \in T
    <3>1. k \in 1..Len(r) /\ k <= b
      BY <1>1
    <3>2. InOrder(names, args, r[k], r[b]) /\ r[k] \in s /\ r[b] \in s /\ q[a] \in s
      BY <1>1, <3>1
    <3> QED BY <3>2, NamesTotal
  <2> QED BY <2>1
<1>6. R \in SUBSET Q
  BY <1>4, <1>5
<1> HIDE DEF Q, R
<1>7. b <= a - 1
  BY <1>2, <1>3, <1>6, FS_Subset
<1> QED BY <1>1, <1>7

\* The page of len operators behind the first x of an order.
PageAt(names, args, s, q, x, len, page) ==
    /\ IsOrder(names, args, s, q)
    /\ x \in Nat /\ len \in Nat
    /\ len # 0 => x + len <= Len(q)
    /\ page = {q[x + k] : k \in 1..len}

\* Where a page is in its order.
LEMMA PageOfOrder ==
    ASSUME NEW names \in [Ids -> Int],
           NEW args \in Args, ~Refused(args), NEW s \in SUBSET Ids,
           NEW q, IsOrder(names, args, s, q),
           NEW page, page = Rows(args, q)
    PROVE  PageAt(names, args, s, q, Skip(args), Len(page), ToSet(page))
<1>1. q \in Seq(s) /\ Len(q) \in Nat /\ Skip(args) \in Nat
  BY LenProperties, Accepted DEF IsOrder
<1> DEFINE P == PageLength(args, Len(q))
<1>2. /\ P \in Nat /\ page \in Seq(s) /\ Len(page) = P
      /\ \A k \in 1..P : page[k] = q[Skip(args) + k]
      /\ P # 0 => Skip(args) + P <= Len(q)
  BY <1>1, RowsAre
<1> HIDE DEF P
<1>3. DOMAIN page = 1..P
  BY <1>2, LenProperties
<1>4. ToSet(page) = {page[k] : k \in 1..P}
  BY <1>3 DEF ToSet
<1>5. {page[k] : k \in 1..P} = {q[Skip(args) + k] : k \in 1..P}
  BY <1>2
<1>6. /\ Skip(args) \in Nat /\ Len(page) \in Nat
      /\ Len(page) # 0 => Skip(args) + Len(page) <= Len(q)
  BY <1>1, <1>2
<1>7. ToSet(page) = {q[Skip(args) + k] : k \in 1..Len(page)}
  BY <1>2, <1>4, <1>5
<1> QED BY <1>6, <1>7 DEF PageAt

\* What follows of i on a page and j on the next one, for any two orders of the same set.
Following(names, args, s, before, now, i, j) ==
    /\ ~Precedes(names, args, j, i)
    /\ \A k \in s \ (before \cup now) :
         Precedes(names, args, i, k) /\ Precedes(names, args, k, j) =>
           \E l \in before \cap now : names[l] = names[k]

\* Two pages, one behind the other, of any two orders of the same set.
LEMMA TwoPages ==
    ASSUME NEW names \in [Ids -> Int],
           NEW args, args.sort \in {"asc", "desc"}, NEW s \in SUBSET Ids,
           NEW q, NEW r, NEW x, NEW len, NEW len2, NEW before, NEW now,
           PageAt(names, args, s, q, x, len, before), PageAt(names, args, s, r, x + len, len2, now),
           NEW i \in before, NEW j \in now
    PROVE  Following(names, args, s, before, now, i, j)
<1> DEFINE m == x + len
<1>p. /\ IsOrder(names, args, s, q) /\ IsOrder(names, args, s, r)
      /\ x \in Nat /\ len \in Nat /\ m \in Nat /\ len2 \in Nat
      /\ len # 0 => m <= Len(q)
      /\ len2 # 0 => m + len2 <= Len(r)
      /\ before = {q[x + k] : k \in 1..len}
      /\ now = {r[m + k] : k \in 1..len2}
  BY DEF PageAt
<1>1. PICK a \in 1..len : i = q[x + a]
  BY <1>p
<1>2. PICK b \in 1..len2 : j = r[m + b]
  BY <1>p
<1>a. InItsOrder(names, args, s, q)
  <2>1. IsOrder(names, args, s, q)
    BY <1>p
  <2> QED BY <2>1, OrderSorts
<1>b. InItsOrder(names, args, s, r)
  <2>1. IsOrder(names, args, s, r)
    BY <1>p
  <2> QED BY <2>1, OrderSorts
<1>3. /\ Len(q) \in Nat /\ Len(r) \in Nat
      /\ \A k \in 1..Len(q) : q[k] \in s
      /\ \A k \in 1..Len(r) : r[k] \in s
      /\ \A y \in s : \E k \in 1..Len(q) : q[k] = y
      /\ \A y \in s : \E k \in 1..Len(r) : r[k] = y
      /\ \A y, k \in 1..Len(q) : Precedes(names, args, q[y], q[k]) => y < k
      /\ \A y, k \in 1..Len(r) : Precedes(names, args, r[y], r[k]) => y < k
      /\ \A y, k \in 1..Len(q) : y <= k => InOrder(names, args, q[y], q[k])
      /\ \A y, k \in 1..Len(r) : y <= k => InOrder(names, args, r[y], r[k])
  BY <1>a, <1>b DEF InItsOrder
<1>4. /\ m \in Nat /\ m <= Len(q) /\ m < Len(r) /\ x + a \in 1..m /\ m + b \in 1..Len(r)
      /\ m + b > m
  BY <1>p, <1>1, <1>2, <1>3
<1>5. ~Precedes(names, args, j, i)
  <2>1. x + a \in 1..Len(q) /\ m + b \in 1..Len(r) /\ x + a < m + b
    BY <1>p, <1>3, <1>4
  <2>2. ~Precedes(names, args, r[m + b], q[x + a])
    <3>1. IsOrder(names, args, s, q) /\ IsOrder(names, args, s, r)
      BY <1>p
    <3> DEFINE y == x + a
               z == m + b
    <3>2. y \in 1..Len(q) /\ z \in 1..Len(r) /\ y < z
      BY <2>1
    <3> HIDE DEF y, z
    <3>3. ~Precedes(names, args, r[z], q[y])
      BY <3>1, <3>2, OrdersAgree
    <3> QED BY <3>3 DEF y, z
  <2> QED BY <1>1, <1>2, <2>2
<1>6. \A k \in (x + 1)..m : q[k] \in before
  <2>1. ASSUME NEW k \in (x + 1)..m PROVE q[k] \in before
    <3>1. k - x \in 1..len /\ x + (k - x) = k
      BY <1>p
    <3> QED BY <1>p, <3>1
  <2> QED BY <2>1
<1>7. \A k \in (m + 1)..(m + b) : r[k] \in now
  <2>1. ASSUME NEW k \in (m + 1)..(m + b) PROVE r[k] \in now
    <3>1. k - m \in 1..len2 /\ m + (k - m) = k
      BY <1>p, <1>2, <1>4
    <3> QED BY <1>p, <3>1
  <2> QED BY <2>1
<1> HIDE DEF m
<1>m. m \in Nat /\ Len(q) \in Nat /\ Len(r) \in Nat /\ m <= Len(q)
  BY <1>3, <1>4
<1>8. ASSUME NEW k \in s, k \notin before, k \notin now,
             Precedes(names, args, i, k), Precedes(names, args, k, j)
      PROVE  \E l \in before \cap now : names[l] = names[k]
  <2>1. PICK c \in 1..Len(q) : q[c] = k
    BY <1>3
  <2>2. PICK d \in 1..Len(r) : r[d] = k
    BY <1>3
  <2>3. c > m
    <3>a. x + a \in 1..Len(q) /\ c \in 1..Len(q) /\ Precedes(names, args, q[x + a], q[c])
      BY <1>p, <1>1, <1>3, <1>4, <1>8, <2>1
    <3>1. x + a < c
      BY <1>p, <1>3, <3>a
    <3>2. c \notin (x + 1)..m
      BY <1>p, <1>6, <1>8, <2>1
    <3> QED BY <1>p, <1>4, <3>1, <3>2
  <2>4. d <= m
    <3>1. d < m + b
      BY <1>p, <1>2, <1>3, <1>4, <1>8, <2>2
    <3>2. d \notin (m + 1)..(m + b)
      BY <1>p, <1>7, <1>8, <2>2
    <3> QED BY <1>p, <1>4, <3>1, <3>2
  <2> DEFINE Q == {q[y] : y \in 1..m}
             R == {r[y] : y \in 1..m}
  <2>5. Q \in SUBSET s /\ R \in SUBSET s /\ IsFiniteSet(Q) /\ IsFiniteSet(R)
        /\ Cardinality(Q) = m /\ Cardinality(R) = m
    <3>1. m \in 0..Len(q) /\ m \in 0..Len(r)
      BY <1>p, <1>3, <1>4
    <3>2. Q = {q[y] : y \in 1..m} /\ R = {r[y] : y \in 1..m}
      OBVIOUS
    <3> HIDE DEF Q, R
    <3>3. Counts(Q, s, m)
      BY <3>1, <3>2, FirstCount, <1>p
    <3>4. Counts(R, s, m)
      BY <3>1, <3>2, FirstCount, <1>p
    <3> QED BY <3>3, <3>4 DEF Counts
  <2>6. k \in R
    BY <1>p, <1>4, <2>2, <2>4
  <2>7. k \notin Q
    <3>1. ASSUME NEW y \in 1..m, q[y] = k PROVE FALSE
      <4>a. y \in 1..Len(q) /\ y # c
        BY <1>p, <1>3, <1>4, <2>3
      <4>b. DOMAIN q = 1..Len(q)
        BY <1>p, LenProperties DEF IsOrder
      <4>1. y \in 1..Len(q) /\ y # c /\ DOMAIN q = 1..Len(q)
        BY <4>a, <4>b
      <4> QED BY <1>p, <2>1, <3>1, <4>1 DEF IsOrder
    <3> QED BY <3>1
  <2>8. PICK l \in Q : l \notin R
    <3> HIDE DEF Q, R
    <3>1. ASSUME Q \subseteq R PROVE FALSE
      BY <2>5, <2>6, <2>7, <3>1, FS_Subset
    <3> QED BY <3>1
  <2>9. PICK e \in 1..m : l = q[e]
    BY <2>8
  <2>10. PICK f \in 1..Len(r) : l = r[f]
    BY <1>3, <2>5, <2>8
  <2>11. f > m
    BY <1>p, <1>3, <1>4, <2>8, <2>10
  <2>12. InOrder(names, args, l, k) /\ InOrder(names, args, k, l) /\ l \in Ids /\ k \in Ids
    <3>1. e \in 1..Len(q) /\ e <= c /\ d <= f
      BY <1>m, <2>3, <2>4, <2>9, <2>11
    <3>2. /\ \A y, z \in 1..Len(q) : y <= z => InOrder(names, args, q[y], q[z])
          /\ \A y, z \in 1..Len(r) : y <= z => InOrder(names, args, r[y], r[z])
          /\ \A y \in 1..Len(q) : q[y] \in Ids
      BY <1>3
    <3>3. InOrder(names, args, q[e], q[c]) /\ InOrder(names, args, r[d], r[f])
      BY <3>1, <3>2
    <3>4. q[e] \in Ids /\ q[c] \in Ids
      BY <3>1, <3>2
    <3> QED BY <2>1, <2>2, <2>9, <2>10, <3>3, <3>4
  <2>13. names[l] = names[k]
    BY <2>12, NamesTotal
  <2>14. i \in Ids /\ j \in Ids /\ Precedes(names, args, i, l) /\ Precedes(names, args, l, j)
    <3>1. i \in s /\ j \in s
      <4>1. \A y \in 1..Len(q) : q[y] \in s
        BY <1>3
      <4>2. \A y \in 1..Len(r) : r[y] \in s
        BY <1>3
      <4>3. x + a \in 1..Len(q) /\ m + b \in 1..Len(r)
        BY <1>m, <1>4
      <4> QED BY <1>1, <1>2, <4>1, <4>2, <4>3
    <3> QED BY <1>8, <2>12, <2>13, <3>1, NamesTotal
  <2>15. l \in before
    <3>b. e \in 1..Len(q) /\ Precedes(names, args, q[x + a], q[e])
      BY <1>1, <1>m, <2>9, <2>14
    <3>c. x + a \in 1..Len(q)
      BY <1>4, <1>m
    <3>a. x + a \in 1..Len(q) /\ e \in 1..Len(q) /\ Precedes(names, args, q[x + a], q[e])
      BY <3>b, <3>c
    <3>1. x + a < e
      BY <1>p, <1>3, <3>a
    <3>2. e \in (x + 1)..m
      BY <1>p, <1>4, <3>1
    <3> QED BY <1>6, <2>9, <3>2
  <2>16. l \in now
    <3>1. f < m + b
      BY <1>p, <1>2, <1>3, <1>4, <2>10, <2>14
    <3>2. m + b \in Nat /\ f \in Nat /\ m \in Nat
      BY <1>m, <1>4
    <3>3. f \in (m + 1)..(m + b)
      <4> DEFINE z == m + b
      <4>1. z \in Nat /\ f < z /\ f > m
        BY <2>11, <3>1, <3>2
      <4> HIDE DEF z
      <4>2. f \in (m + 1)..z
        BY <3>2, <4>1
      <4> QED BY <4>2 DEF z
    <3> QED BY <1>7, <2>10, <3>3
  <2> QED BY <2>13, <2>15, <2>16
<1> QED BY <1>5, <1>8 DEF Following

\* Two pages by name follow on from each other: what is on neither, between what they show,
\* has the name of something that is on both (All: sort, limit and offset together).
THEOREM PagesAlwaysFollow == Spec => []PagesFollow
<1>1. ASSUME IInv, Listed, seen.quiet, last.known,
             request.args.sort = last.args.sort, request.args.search = last.args.search,
             Skip(request.args) = Skip(last.args) + Len(last.page),
             NEW i \in ToSet(last.page), NEW j \in ToSet(cursor.page)
      PROVE  /\ ~Precedes(name, request.args, j, i)
             /\ \A k \in seen.steady \ (ToSet(last.page) \cup ToSet(cursor.page)) :
                  Precedes(name, request.args, i, k) /\ Precedes(name, request.args, k, j) =>
                    \E l \in ToSet(last.page) \cap ToSet(cursor.page) : name[l] = name[k]
  <2> DEFINE args == request.args
             s == seen.steady
  <2>1. /\ args \in Args /\ last.args \in Args /\ ~Refused(args) /\ ~Refused(last.args)
        /\ s \in SUBSET Ids /\ args.sort \in {"asc", "desc"}
        /\ name \in [Ids -> Int]
        /\ s = Selected(name, args, readable) \cap stored
        /\ IsPage(name, args, s, cursor.page)
        /\ IsPage(name, last.args, Selected(name, last.args, readable) \cap stored, last.page)
    BY <1>1, ListAssumption DEF IInv, TypeOK, Args, InStep, Throughout, Paged, Listed
  <2>2. Selected(name, last.args, readable) = Selected(name, args, readable)
    BY <1>1 DEF Selected
  <2>3. PICK q \in Seq(s) : IsOrder(name, last.args, s, q) /\ last.page = Rows(last.args, q)
    BY <2>1, <2>2 DEF IsPage
  <2>4. PICK r \in Seq(s) : IsOrder(name, args, s, r) /\ cursor.page = Rows(args, r)
    BY <2>1 DEF IsPage
  <2>5. IsOrder(name, args, s, q)
    BY <1>1, <2>3 DEF IsOrder, Sorted
  <2>6. Skip(args) = Skip(last.args) + Len(last.page)
    BY <1>1
  <2> HIDE DEF args, s
  <2>7. PageAt(name, last.args, s, q, Skip(last.args), Len(last.page), ToSet(last.page))
    BY <2>1, <2>3, PageOfOrder
  <2>8. PageAt(name, args, s, r, Skip(args), Len(cursor.page), ToSet(cursor.page))
    BY <2>1, <2>4, PageOfOrder
  <2>9. PageAt(name, args, s, q, Skip(last.args), Len(last.page), ToSet(last.page))
    BY <2>5, <2>7 DEF PageAt
  <2>10. /\ ~Precedes(name, args, j, i)
         /\ \A k \in s \ (ToSet(last.page) \cup ToSet(cursor.page)) :
              Precedes(name, args, i, k) /\ Precedes(name, args, k, j) =>
                \E l \in ToSet(last.page) \cap ToSet(cursor.page) : name[l] = name[k]
    <3> DEFINE names == name
               before == ToSet(last.page)
               now == ToSet(cursor.page)
               x == Skip(last.args)
               len == Len(last.page)
               len2 == Len(cursor.page)
    <3>1. /\ names \in [Ids -> Int] /\ args.sort \in {"asc", "desc"} /\ s \in SUBSET Ids
          /\ PageAt(names, args, s, q, x, len, before)
          /\ PageAt(names, args, s, r, x + len, len2, now)
          /\ i \in before /\ j \in now
      BY <2>1, <2>6, <2>8, <2>9
    <3> HIDE DEF names, before, now, x, len, len2
    <3>2. Following(names, args, s, before, now, i, j)
      BY <3>1, TwoPages
    <3> QED BY <3>2 DEF Following, names, before, now
  <2> QED BY <2>10 DEF args, s
<1>2. IInv => PagesFollow
  BY <1>1 DEF PagesFollow
<1> QED BY <1>2, InvariantHolds, PTL
=============================================================================
