------------------------- MODULE VersionListProofs -------------------------
(***************************************************************************)
(* Proofs about VersionList, for any labels, images and ports: the list    *)
(* stays sorted, NewestVersion finds the newest, and the functions on the  *)
(* slice are those of VersionCatalog on the set of its versions.           *)
(***************************************************************************)
EXTENDS VersionList, SequenceTheorems, FiniteSetTheorems, TLAPS

-----------------------------------------------------------------------------
(* Labels and their ranks *)

Valid(v) == ValidateVersionLabel(v.label)

\* A smaller leading number outweighs all that follows it.
LEMMA LeadingDecides ==
    ASSUME NEW K \in Nat, NEW a \in Nat, NEW b \in Nat, NEW c \in Nat, NEW d \in Nat,
           a < b, c < K
    PROVE  a * K + c < b * K + d
<1> DEFINE e == b - a - 1
<1>1. e \in Nat /\ b = a + 1 + e
  OBVIOUS
<1>2. b * K = a * K + K + e * K
  BY <1>1
<1>3. e * K \in Nat /\ a * K \in Nat
  BY <1>1
<1> HIDE DEF e
<1> QED BY <1>2, <1>3

\* What compareVersions says of two labels that parse.
LEMMA BelowIsLexicographic ==
    ASSUME NEW a, NEW b, Valid(a), Valid(b)
    PROVE  Below(a, b) <=>
             \/ a.label[1] < b.label[1]
             \/ a.label[1] = b.label[1] /\ a.label[2] < b.label[2]
             \/ /\ a.label[1] = b.label[1] /\ a.label[2] = b.label[2]
                /\ a.label[3] < b.label[3]
<1> DEFINE x == a.label
           y == b.label
<1>1. Below(a, b) <=> \E i \in 1..3 : x[i] < y[i] /\ \A j \in 1..i-1 : x[j] = y[j]
  BY DEF Below, Semver, Valid
<1> HIDE DEF x, y
<1>2. (\E i \in 1..3 : x[i] < y[i] /\ \A j \in 1..i-1 : x[j] = y[j])
        <=> \/ x[1] < y[1]
            \/ x[1] = y[1] /\ x[2] < y[2]
            \/ x[1] = y[1] /\ x[2] = y[2] /\ x[3] < y[3]
  OBVIOUS
<1> QED BY <1>1, <1>2 DEF x, y

\* The numbers of a label that parses.
LEMMA Numbers ==
    ASSUME NEW label, ValidateVersionLabel(label)
    PROVE  /\ label = <<label[1], label[2], label[3]>>
           /\ \A i \in 1..3 : label[i] \in Nat /\ label[i] < MaxNumber + 1
           /\ Rank(label) = (label[1] * (MaxNumber + 1) + label[2]) * (MaxNumber + 1) + label[3]
           /\ Rank(label) \in Nat
<1>1. label \in Nat \X Nat \X Nat /\ \A i \in 1..3 : label[i] =< MaxNumber
  BY TextAssumption DEF ValidateVersionLabel
<1>2. label[1] \in Nat /\ label[2] \in Nat /\ label[3] \in Nat
      /\ label = <<label[1], label[2], label[3]>>
  BY <1>1
<1>3. \A i \in 1..3 : label[i] \in Nat /\ label[i] < MaxNumber + 1
  BY <1>1, <1>2, TextAssumption
<1>4. Rank(label) = (label[1] * (MaxNumber + 1) + label[2]) * (MaxNumber + 1) + label[3]
  BY DEF Rank
<1>5. (label[1] * (MaxNumber + 1) + label[2]) * (MaxNumber + 1) + label[3] \in Nat
  <2> DEFINE p == label[1] * (MaxNumber + 1)
             q == (p + label[2]) * (MaxNumber + 1)
  <2>1. p \in Nat
    BY <1>2, TextAssumption
  <2> HIDE DEF p
  <2>2. q \in Nat
    BY <1>2, <2>1, TextAssumption
  <2> HIDE DEF q
  <2>3. q + label[3] \in Nat
    BY <1>2, <2>2
  <2> QED BY <2>3 DEF p, q
<1> QED BY <1>2, <1>3, <1>4, <1>5

\* compareVersions orders labels like their ranks.
LEMMA BelowRanksLower ==
    ASSUME NEW a, NEW b, Valid(a), Valid(b), Below(a, b)
    PROVE  Rank(a.label) < Rank(b.label)
<1> DEFINE K == MaxNumber + 1
           x == a.label
           y == b.label
<1>1. K \in Nat
  BY TextAssumption
<1>2. /\ x[1] \in Nat /\ x[2] \in Nat /\ x[3] \in Nat
      /\ x[2] < K /\ x[3] < K
      /\ Rank(x) = (x[1] * K + x[2]) * K + x[3]
  BY Numbers DEF Valid
<1>3. /\ y[1] \in Nat /\ y[2] \in Nat /\ y[3] \in Nat
      /\ Rank(y) = (y[1] * K + y[2]) * K + y[3]
  BY Numbers DEF Valid
<1>4. \/ x[1] < y[1]
      \/ x[1] = y[1] /\ x[2] < y[2]
      \/ x[1] = y[1] /\ x[2] = y[2] /\ x[3] < y[3]
  BY BelowIsLexicographic
<1> HIDE DEF K, x, y
<1> DEFINE p == x[1] * K + x[2]
           q == y[1] * K + y[2]
<1>5. p \in Nat /\ q \in Nat
  <2>1. x[1] * K \in Nat /\ y[1] * K \in Nat
    BY <1>1, <1>2, <1>3
  <2> QED BY <1>2, <1>3, <2>1
<1>6. p < q \/ (p = q /\ x[3] < y[3])
  <2>1. x[1] < y[1] => p < q
    BY <1>1, <1>2, <1>3, LeadingDecides
  <2>2. x[1] * K \in Nat
    BY <1>1, <1>2
  <2>3. x[1] = y[1] => q = x[1] * K + y[2]
    OBVIOUS
  <2>4. x[1] = y[1] /\ x[2] < y[2] => p < q
    BY <1>2, <1>3, <2>2, <2>3
  <2>5. x[1] = y[1] /\ x[2] = y[2] => p = q
    OBVIOUS
  <2> HIDE DEF p, q
  <2> QED BY <1>4, <2>1, <2>4, <2>5
<1>7. Rank(x) = p * K + x[3] /\ Rank(y) = q * K + y[3]
  BY <1>2, <1>3
<1> HIDE DEF p, q
<1>8. p * K + x[3] < q * K + y[3]
  <2>1. CASE p < q
    BY <1>1, <1>2, <1>3, <1>5, <2>1, LeadingDecides
  <2>2. CASE p = q /\ x[3] < y[3]
    <3>1. p * K \in Nat
      BY <1>1, <1>5
    <3> QED BY <1>2, <1>3, <2>2, <3>1
  <2> QED BY <1>6, <2>1, <2>2
<1> QED BY <1>7, <1>8 DEF x, y

\* Of two labels that parse one is below the other, or they are the same.
LEMMA BelowIsTotal ==
    ASSUME NEW a, NEW b, Valid(a), Valid(b), a.label # b.label
    PROVE  Below(a, b) \/ Below(b, a)
<1> DEFINE x == a.label
           y == b.label
<1>1. /\ x[1] \in Nat /\ x[2] \in Nat /\ x[3] \in Nat
      /\ x = <<x[1], x[2], x[3]>>
  BY Numbers DEF Valid
<1>2. /\ y[1] \in Nat /\ y[2] \in Nat /\ y[3] \in Nat
      /\ y = <<y[1], y[2], y[3]>>
  BY Numbers DEF Valid
<1>3. x[1] # y[1] \/ x[2] # y[2] \/ x[3] # y[3]
  BY <1>1, <1>2
<1>4. Below(a, b) <=> \/ x[1] < y[1]
                      \/ x[1] = y[1] /\ x[2] < y[2]
                      \/ x[1] = y[1] /\ x[2] = y[2] /\ x[3] < y[3]
  BY BelowIsLexicographic
<1>5. Below(b, a) <=> \/ y[1] < x[1]
                      \/ y[1] = x[1] /\ y[2] < x[2]
                      \/ y[1] = x[1] /\ y[2] = x[2] /\ y[3] < x[3]
  BY BelowIsLexicographic
<1> HIDE DEF x, y
<1> QED BY <1>1, <1>2, <1>3, <1>4, <1>5

\* What Below means for the rank.
Ordered(a, b) ==
    /\ Rank(a.label) \in Nat
    /\ Rank(b.label) \in Nat
    /\ Below(a, b) <=> Rank(a.label) < Rank(b.label)
    /\ a.label = b.label <=> Rank(a.label) = Rank(b.label)

\* compareVersions is the order of the ranks, and the rank identifies the label.
LEMMA BelowIsRank ==
    ASSUME NEW a, NEW b, Valid(a), Valid(b)
    PROVE  Ordered(a, b)
<1>1. Rank(a.label) \in Nat /\ Rank(b.label) \in Nat
  BY Numbers DEF Valid
<1>2. Below(a, b) => Rank(a.label) < Rank(b.label)
  BY BelowRanksLower
<1>3. Below(b, a) => Rank(b.label) < Rank(a.label)
  BY BelowRanksLower
<1>4. a.label # b.label => Below(a, b) \/ Below(b, a)
  BY BelowIsTotal
<1> QED BY <1>1, <1>2, <1>3, <1>4 DEF Ordered

-----------------------------------------------------------------------------
(* Sorting *)

Elements(list) == {list[i] : i \in DOMAIN list}

Sorted(list) == \A i, j \in DOMAIN list : i < j => Below(list[i], list[j])

AllValid(list) == \A i \in DOMAIN list : Valid(list[i])

\* A set of natural numbers has a least one.
LEMMA LeastExists ==
    ASSUME NEW S \in SUBSET Nat, S # {}
    PROVE  \E m \in S : \A k \in S : m =< k
<1> DEFINE T == {0..k : k \in S}
           R == StrictSubsetOrdering(Nat)
<1>1. T \subseteq FiniteSubsetsOf(Nat) /\ T # {}
  <2>1. \A k \in S : 0..k \in SUBSET Nat /\ IsFiniteSet(0..k)
    BY FS_Interval
  <2> QED BY <2>1 DEF FiniteSubsetsOf
<1>2. IsWellFoundedOn(R, FiniteSubsetsOf(Nat))
  BY FS_StrictSubsetOrderingWellFounded
<1> HIDE DEF T, R
<1>3. PICK x \in T : \A y \in T : <<y, x>> \notin R
  BY <1>1, <1>2, WFMin
<1>4. PICK m \in S : x = 0..m
  BY DEF T
<1>5. \A k \in S : ~(k < m)
  <2> SUFFICES ASSUME NEW k \in S, k < m
               PROVE  FALSE
    OBVIOUS
  <2>1. 0..k \in T /\ 0..k \in SUBSET Nat /\ 0..m \in SUBSET Nat
    BY DEF T
  <2>2. 0..k \subseteq 0..m /\ m \in 0..m /\ m \notin 0..k
    OBVIOUS
  <2>3. <<0..k, 0..m>> \in R
    BY <2>1, <2>2 DEF R, StrictSubsetOrdering
  <2> QED BY <1>3, <1>4, <2>1, <2>3
<1> QED BY <1>5

\* Putting a list in another order changes neither its length nor its elements.
LEMMA ArrangedKeeps ==
    ASSUME NEW list \in Seq(Version), NEW p \in Orders(list)
    PROVE  /\ Arranged(list, p) \in Seq(Version)
           /\ DOMAIN Arranged(list, p) = DOMAIN list
           /\ Len(Arranged(list, p)) = Len(list)
           /\ Elements(Arranged(list, p)) = Elements(list)
           /\ \A i \in DOMAIN list : p[i] \in DOMAIN list /\ Arranged(list, p)[i] = list[p[i]]
<1> DEFINE s == Arranged(list, p)
<1>1. /\ p \in [DOMAIN list -> DOMAIN list]
      /\ \A j \in DOMAIN list : \E i \in DOMAIN list : p[i] = j
  BY DEF Orders, Bijection, Surjection
<1>2. Len(list) \in Nat /\ DOMAIN list = 1..Len(list)
      /\ \A i \in DOMAIN list : list[i] \in Version
  BY LenProperties, ElementOfSeq
<1>3. s = [i \in DOMAIN list |-> list[p[i]]]
  BY DEF Arranged
<1>4. DOMAIN s = DOMAIN list /\ \A i \in DOMAIN list : p[i] \in DOMAIN list /\ s[i] = list[p[i]]
  BY <1>1, <1>3
<1>5. s \in [1..Len(list) -> Version]
  BY <1>1, <1>2, <1>3
<1>6. s \in Seq(Version)
  BY <1>2, <1>5, SeqDef
<1>7. Len(s) = Len(list)
  BY <1>2, <1>4, <1>6, LenProperties
<1>8. Elements(s) = Elements(list)
  BY <1>1, <1>4 DEF Elements
<1> QED BY <1>4, <1>6, <1>7, <1>8

\* A sorted list has every label once.
LEMMA SortedIsUnique ==
    ASSUME NEW list \in Seq(Version), AllValid(list), Sorted(list),
           NEW i \in DOMAIN list, NEW j \in DOMAIN list, list[i].label = list[j].label
    PROVE  i = j
<1>1. i \in Nat /\ j \in Nat
  BY LenProperties
<1>2. Ordered(list[i], list[j]) /\ Ordered(list[j], list[i])
  BY BelowIsRank DEF AllValid
<1>3. ~Below(list[i], list[j]) /\ ~Below(list[j], list[i])
  BY <1>2 DEF Ordered
<1>4. ~(i < j) /\ ~(j < i)
  BY <1>3 DEF Sorted
<1> QED BY <1>1, <1>4

\* A new version has a place in a sorted list: the stable order exists.
LEMMA StableOrderExists ==
    ASSUME NEW list \in Seq(Version), AllValid(list), Sorted(list),
           NEW v \in Version, Valid(v),
           \A w \in Elements(list) : w.label # v.label
    PROVE  \E p \in Orders(Append(list, v)) : Sorts(p, Append(list, v))
<1> DEFINE n == Len(list)
           longer == Append(list, v)
           Places == {k \in 1..n + 1 : k = n + 1 \/ Below(v, list[k])}
<1>1. n \in Nat /\ DOMAIN list = 1..n
  BY LenProperties
<1>2. /\ DOMAIN longer = 1..n + 1
      /\ \A i \in 1..n : longer[i] = list[i]
      /\ longer[n + 1] = v
  BY AppendProperties, <1>1, LenProperties
<1>3. PICK m \in Places : \A k \in Places : m =< k
  <2>1. Places \in SUBSET Nat /\ n + 1 \in Places
    BY <1>1
  <2> HIDE DEF Places
  <2> QED BY <2>1, LeastExists
<1>4. /\ m \in 1..n + 1
      /\ \A k \in 1..m-1 : k \in 1..n /\ ~Below(v, list[k])
      /\ m # n + 1 => Below(v, list[m])
  BY <1>1, <1>3
<1> DEFINE p == [i \in 1..n + 1 |-> IF i < m THEN i ELSE IF i = m THEN n + 1 ELSE i - 1]
<1>5. p \in Orders(longer)
  <2>1. p \in [1..n + 1 -> 1..n + 1]
    BY <1>1, <1>4
  <2>2. \A i, j \in 1..n + 1 : p[i] = p[j] => i = j
    BY <1>1, <1>4
  <2>3. \A k \in 1..n + 1 : \E i \in 1..n + 1 : p[i] = k
    <3> SUFFICES ASSUME NEW k \in 1..n + 1
                 PROVE  \E i \in 1..n + 1 : p[i] = k
      OBVIOUS
    <3>1. CASE k < m
      BY <1>1, <1>4, <3>1
    <3>2. CASE k = n + 1
      BY <1>1, <1>4, <3>2
    <3>3. CASE ~(k < m) /\ k # n + 1
      <4>1. k + 1 \in 1..n + 1 /\ p[k + 1] = k
        BY <1>1, <1>4, <3>3
      <4> QED BY <4>1
    <3> QED BY <3>1, <3>2, <3>3
  <2> QED BY <1>2, <2>1, <2>2, <2>3 DEF Orders, Bijection, Injection, Surjection, IsInjective
<1>6. \A k \in 1..m-1 : Below(list[k], v)
  <2> SUFFICES ASSUME NEW k \in 1..m-1
               PROVE  Below(list[k], v)
    OBVIOUS
  <2>1. k \in DOMAIN list /\ ~Below(v, list[k])
    BY <1>1, <1>4
  <2>2. Ordered(list[k], v) /\ Ordered(v, list[k]) /\ list[k].label # v.label
    BY <2>1, BelowIsRank DEF AllValid, Elements
  <2> QED BY <2>1, <2>2 DEF Ordered
<1>7. \A k \in m..n : Below(v, list[k])
  <2> SUFFICES ASSUME NEW k \in m..n
               PROVE  Below(v, list[k])
    OBVIOUS
  <2>1. m \in DOMAIN list /\ k \in DOMAIN list /\ m =< k /\ Below(v, list[m])
    BY <1>1, <1>4
  <2>2. Ordered(v, list[m]) /\ Ordered(v, list[k]) /\ Ordered(list[m], list[k])
    BY <2>1, BelowIsRank DEF AllValid
  <2>3. m = k \/ Below(list[m], list[k])
    BY <2>1, <1>1 DEF Sorted
  <2> QED BY <2>1, <2>2, <2>3 DEF Ordered
<1>8. \A i, j \in 1..n + 1 : i < j => Below(longer[p[i]], longer[p[j]])
  <2> SUFFICES ASSUME NEW i \in 1..n + 1, NEW j \in 1..n + 1, i < j
               PROVE  Below(longer[p[i]], longer[p[j]])
    OBVIOUS
  <2>1. CASE i # m /\ j # m
    <3>1. /\ p[i] \in 1..n /\ p[j] \in 1..n /\ p[i] < p[j]
          /\ longer[p[i]] = list[p[i]] /\ longer[p[j]] = list[p[j]]
      BY <1>1, <1>2, <1>4, <2>1
    <3> QED BY <1>1, <3>1 DEF Sorted
  <2>2. CASE j = m
    <3>1. p[i] = i /\ i \in 1..m-1 /\ p[j] = n + 1 /\ i \in 1..n
      BY <1>1, <1>4, <2>2
    <3> QED BY <1>2, <1>6, <3>1
  <2>3. CASE i = m
    <3>1. p[j] = j - 1 /\ j - 1 \in m..n /\ p[i] = n + 1 /\ j - 1 \in 1..n
      BY <1>1, <1>4, <2>3
    <3> QED BY <1>2, <1>7, <3>1
  <2> QED BY <2>1, <2>2, <2>3
<1> HIDE DEF p, longer, n
<1>9. Sorts(p, longer)
  BY <1>2, <1>8 DEF Sorts
<1> QED BY <1>5, <1>9 DEF longer

\* What slices.SortStableFunc makes of the list that PutVersion has built.
LEMMA SortPlaces ==
    ASSUME NEW list \in Seq(Version), AllValid(list), Sorted(list),
           NEW v \in Version, Valid(v),
           \A w \in Elements(list) : w.label # v.label
    PROVE  /\ StableSort(Append(list, v)) \in Seq(Version)
           /\ Elements(StableSort(Append(list, v))) = Elements(list) \cup {v}
           /\ AllValid(StableSort(Append(list, v)))
           /\ Sorted(StableSort(Append(list, v)))
<1> DEFINE longer == Append(list, v)
           p == CHOOSE q \in Orders(longer) : Sorts(q, longer)
           s == Arranged(longer, p)
<1>1. p \in Orders(longer) /\ Sorts(p, longer)
  BY StableOrderExists
<1>2. StableSort(longer) = s
  BY DEF StableSort
<1>3. /\ longer \in Seq(Version) /\ DOMAIN longer = 1..Len(list) + 1
      /\ DOMAIN list = 1..Len(list) /\ Len(list) \in Nat
      /\ \A i \in 1..Len(list) : longer[i] = list[i]
      /\ longer[Len(list) + 1] = v
  BY AppendProperties, LenProperties
<1> HIDE DEF longer, p
<1>4. Elements(longer) = Elements(list) \cup {v}
  BY <1>3 DEF Elements
<1>5. AllValid(longer)
  BY <1>3 DEF AllValid
<1>6. \A i, j \in DOMAIN longer : longer[i].label = longer[j].label => i = j
  <2> SUFFICES ASSUME NEW i \in DOMAIN longer, NEW j \in DOMAIN longer,
                      longer[i].label = longer[j].label
               PROVE  i = j
    OBVIOUS
  <2>1. CASE i \in DOMAIN list /\ j \in DOMAIN list
    BY <1>3, <2>1, SortedIsUnique
  <2>2. CASE i \in DOMAIN list /\ j = Len(list) + 1
    BY <1>3, <2>2 DEF Elements
  <2>3. CASE j \in DOMAIN list /\ i = Len(list) + 1
    BY <1>3, <2>3 DEF Elements
  <2> QED BY <1>3, <2>1, <2>2, <2>3
<1>7. /\ s \in Seq(Version) /\ DOMAIN s = DOMAIN longer
      /\ Elements(s) = Elements(longer)
      /\ \A i \in DOMAIN longer : p[i] \in DOMAIN longer /\ s[i] = longer[p[i]]
  BY <1>1, <1>3, ArrangedKeeps
<1> HIDE DEF s
<1>8. AllValid(s)
  BY <1>5, <1>7 DEF AllValid
<1>9. Sorted(s)
  <2> SUFFICES ASSUME NEW i \in DOMAIN longer, NEW j \in DOMAIN longer, i < j
               PROVE  Below(s[i], s[j])
    BY <1>7 DEF Sorted
  <2>1. p[i] # p[j]
    BY <1>1, <1>3 DEF Orders, Bijection, Injection, IsInjective
  <2>2. s[i].label # s[j].label
    BY <1>6, <1>7, <2>1
  <2>3. \/ Below(s[i], s[j])
        \/ ~Below(s[j], s[i])
    BY <1>1, <1>7 DEF Sorts
  <2>4. Below(s[i], s[j]) \/ Below(s[j], s[i])
    BY <1>7, <1>8, <2>2, BelowIsTotal DEF AllValid
  <2> QED BY <2>3, <2>4
<1> QED BY <1>2, <1>4, <1>7, <1>8, <1>9 DEF longer

-----------------------------------------------------------------------------
(* The invariant *)

\* The loop of PutVersion has met nothing that takes the image, has kept the versions
\* of other labels, and knows whether it has met the label.
Building ==
    Calling("put") =>
        LET v == call.version
            passed == {versions[j] : j \in 1..next - 1}
        IN  /\ next \in 1..Len(versions) + 1
            /\ \A w \in passed : ~Taken(w, v)
            /\ Elements(result) = {w \in passed : w.label # v.label}
            /\ Sorted(result)
            /\ created <=> \A w \in passed : w.label # v.label

\* Nothing in favour of w.
NoBetter(w, v) ==
    /\ v.deprecated => w.deprecated
    /\ v.deprecated = w.deprecated => Rank(w.label) =< Rank(v.label)

\* The loop of NewestVersion has the best of what it has met.
Comparing ==
    Calling("newest") =>
        LET passed == {call.list[j] : j \in 1..next - 1}
        IN  /\ next \in 1..Len(call.list) + 1
            /\ IF passed = {} THEN newest = NoVersion
               ELSE newest \in passed /\ \A w \in passed : NoBetter(w, newest)

\* A function begins with fresh variables.
Fresh ==
    call = NoCall =>
        next = 1 /\ result = <<>> /\ created = TRUE /\ newest = NoVersion

IInv ==
    /\ TypeOK
    /\ AllValid(versions)
    /\ Ascending
    /\ Building
    /\ Comparing
    /\ Fresh

\* The list is empty at first, and nothing is called.
LEMMA InitHolds == Init => IInv
<1> SUFFICES ASSUME Init PROVE IInv
  OBVIOUS
<1>1. versions = <<>> /\ DOMAIN versions = {} /\ result = <<>>
  BY DEF Init
<1>2. <<>> \in Seq(Version)
  OBVIOUS
<1>3. TypeOK
  BY <1>1, <1>2 DEF Init, TypeOK
<1>4. AllValid(versions) /\ Ascending
  BY <1>1 DEF AllValid, Ascending
<1>5. ~Calling("put") /\ ~Calling("newest")
  BY DEF Calling, Init
<1> QED BY <1>3, <1>4, <1>5 DEF IInv, Building, Comparing, Fresh, Init

\* What a step leaves alone when the function returns: the invariant is one of the
\* versions only.
LEMMA LeaveKeeps ==
    ASSUME IInv, Leave, outcome' \in {"none", "created", "replaced", "removed", "invalid", "notFound"},
           versions' \in Seq(Version), AllValid(versions'), Sorted(versions')
    PROVE  IInv'
<1>1. <<>> \in Seq(Version)
  OBVIOUS
<1>2. TypeOK'
  BY <1>1 DEF TypeOK, Leave
<1>3. Ascending'
  BY DEF Ascending, Sorted
<1>4. AllValid(versions)'
  BY DEF AllValid, Valid
<1>5. ~Calling("put")' /\ ~Calling("newest")'
  BY DEF Calling, Leave
<1>6. Fresh'
  BY DEF Fresh, Leave
<1> QED BY <1>2, <1>3, <1>4, <1>5, <1>6 DEF IInv, Building, Comparing

\* A call is what its op says.
LEMMA CallIs ==
    ASSUME TypeOK
    PROVE  /\ Calling("put") => call \in [op : {"put"}, version : VersionBody]
           /\ Calling("remove") => call \in [op : {"remove"}, label : Texts \cup {Malformed}]
           /\ Calling("newest") => call \in Questions
  BY DEF TypeOK, Calls, Questions, Calling

\* The list that NewestVersion is given has the versions of the operator.
LEMMA QuestionIs ==
    ASSUME TypeOK, Calling("newest")
    PROVE  /\ call.list \in Seq(Version)
           /\ Len(call.list) = Len(versions)
           /\ Elements(call.list) = Elements(versions)
<1>1. PICK p \in Orders(versions) : call.list = Arranged(versions, p)
  BY CallIs DEF Questions
<1> QED BY <1>1, ArrangedKeeps DEF TypeOK

\* What may be stored is a version.
LEMMA StoredIs ==
    ASSUME NEW v \in VersionBody, Complete(v)
    PROVE  Stored(v) \in Version /\ Stored(v).label = v.label /\ Valid(Stored(v))
           /\ Stored(v).image = v.image /\ Stored(v).deprecated = v.deprecated
           /\ Stored(v).ports = NonNil(v.ports)
  BY NoneAssumption
     DEF VersionBody, Version, Stored, Complete, NonNil, Valid, ValidateVersionLabel

\* The versions that the loop of PutVersion has passed.
LEMMA PassedGrows ==
    ASSUME NEW list, NEW n \in Nat, n > 0
    PROVE  {list[j] : j \in 1..n} = {list[j] : j \in 1..n - 1} \cup {list[n]}
<1>1. 1..n = (1..n - 1) \cup {n}
  OBVIOUS
<1> QED BY <1>1

\* What was built has valid labels, each of them once.
LEMMA BuiltIs ==
    ASSUME IInv, Calling("put")
    PROVE  /\ AllValid(result)
           /\ \A w \in Elements(result) : w \in Elements(versions) /\ w.label # call.version.label
<1>1. DOMAIN versions = 1..Len(versions) /\ Len(versions) \in Nat
  BY LenProperties DEF IInv, TypeOK
<1>2. \A w \in Elements(result) :
        w.label # call.version.label /\ \E j \in 1..next - 1 : w = versions[j]
  BY DEF IInv, Building
<1>3. next \in 1..Len(versions) + 1
  BY DEF IInv, Building
<1>4. \A j \in 1..next - 1 : j \in DOMAIN versions
  BY <1>1, <1>3
<1>5. \A w \in Elements(result) : w \in Elements(versions) /\ Valid(w)
  BY <1>2, <1>4 DEF Elements, IInv, AllValid
<1> QED BY <1>2, <1>5 DEF AllValid, Elements

-----------------------------------------------------------------------------
(* The steps *)

\* A function that is called begins its loop with what it knows: nothing.
LEMMA BeginKeeps ==
    ASSUME IInv, (\E c \in Calls : Begin(c)) \/ (\E c \in Questions : Ask(c))
    PROVE  IInv'
<1>1. /\ call = NoCall /\ UNCHANGED <<versions, locals>>
      /\ call' \in Calls \cup Questions
      /\ outcome' \in {outcome, "none"}
  BY DEF Begin, Ask
<1>2. next = 1 /\ result = <<>> /\ created = TRUE /\ newest = NoVersion
  BY <1>1 DEF IInv, Fresh
<1>3. TypeOK'
  BY <1>1 DEF IInv, TypeOK, locals, Questions
<1>4. AllValid(versions)' /\ Ascending'
  BY <1>1 DEF IInv, AllValid, Valid, Ascending
<1>5. next' = 1 /\ result' = <<>> /\ created' = TRUE /\ newest' = NoVersion
  BY <1>1, <1>2 DEF locals
<1>6. Building'
  <2>1. {versions'[j] : j \in 1..next' - 1} = {}
    BY <1>5
  <2>2. Elements(result') = {} /\ Sorted(result')
    BY <1>5 DEF Elements, Sorted
  <2>3. next' \in 1..Len(versions') + 1
    BY <1>3, <1>5, LenProperties DEF TypeOK
  <2> QED BY <1>5, <2>1, <2>2, <2>3 DEF Building, Elements, Sorted
<1>7. Comparing'
  <2> SUFFICES ASSUME Calling("newest")'
               PROVE  Comparing'
    BY DEF Comparing
  <2>1. {call.list'[j] : j \in 1..next' - 1} = {}
    BY <1>5
  <2>2. call.list' \in Seq(Version)
    <3>1. call' \in Questions'
      BY <1>1, <1>3 DEF TypeOK, Calls, Calling
    <3>2. PICK p \in Orders(versions') : call.list' = Arranged(versions', p)
      BY <3>1 DEF Questions, Orders, Arranged
    <3> QED BY <1>3, <3>2, ArrangedKeeps DEF TypeOK
  <2>3. next' \in 1..Len(call.list') + 1
    BY <1>5, <2>2, LenProperties
  <2> QED BY <1>5, <2>1, <2>3 DEF Comparing
<1>8. Fresh'
  BY <1>5 DEF Fresh
<1> QED BY <1>3, <1>4, <1>6, <1>7, <1>8 DEF IInv

\* A refused put changes nothing.
LEMMA PutIncompleteKeeps ==
    ASSUME IInv, PutIncomplete
    PROVE  IInv'
<1>1. Sorted(versions)
  BY DEF IInv, Ascending, Sorted
<1> QED BY <1>1, LeaveKeeps DEF PutIncomplete, Return, IInv, TypeOK

\* A turn of the loop of PutVersion.
LEMMA PutNextKeeps ==
    ASSUME IInv, PutNext
    PROVE  IInv'
<1> DEFINE v == call.version
           other == versions[next]
<1>1. CASE Taken(other, v)
  <2>1. Return("invalid") /\ versions' = versions
    BY <1>1 DEF PutNext
  <2>2. Sorted(versions)
    BY DEF IInv, Ascending, Sorted
  <2> QED BY <2>1, <2>2, LeaveKeeps DEF Return, IInv, TypeOK
<1>2. CASE ~Taken(other, v)
  <2> DEFINE passed == {versions[j] : j \in 1..next - 1}
             passedNow == {versions[j] : j \in 1..next}
  <2>1. /\ UNCHANGED <<versions, call, outcome, newest>>
        /\ next' = next + 1
        /\ next \in DOMAIN versions
        /\ \/ other.label = v.label /\ created' = FALSE /\ result' = result
           \/ other.label # v.label /\ result' = Append(result, other) /\ created' = created
    BY <1>2 DEF PutNext
  <2>2. /\ Calling("put") /\ Calling("put")' /\ ~Calling("newest")' /\ call # NoCall
    BY <2>1 DEF PutNext, Calling
  <2>3. /\ next \in Nat \ {0} /\ next \in 1..Len(versions) /\ Len(versions) \in Nat
        /\ other \in Version /\ versions \in Seq(Version) /\ result \in Seq(Version)
    BY <2>1, LenProperties, ElementOfSeq DEF IInv, TypeOK
  <2>4. passedNow = passed \cup {other}
    BY <2>3, PassedGrows
  <2>5. /\ \A w \in passed : ~Taken(w, v)
        /\ Elements(result) = {w \in passed : w.label # v.label}
        /\ Sorted(result)
        /\ created <=> \A w \in passed : w.label # v.label
    BY <2>2 DEF IInv, Building
  <2>6. AllValid(result) /\ \A w \in Elements(result) : Below(w, other)
    <3>1. \A w \in passed : Below(w, other)
      BY <2>1, <2>3 DEF IInv, Ascending
    <3> QED BY <2>2, <2>5, <3>1, BuiltIs
  <2>7. TypeOK'
    <3>1. Append(result, other) \in Seq(Version)
      BY <2>3
    <3>2. Questions' = Questions
      BY <2>1 DEF Questions
    <3>3. result' \in Seq(Version) /\ created' \in BOOLEAN
      BY <2>1, <3>1 DEF IInv, TypeOK
    <3>4. next' \in Nat \ {0}
      BY <2>1, <2>3
    <3> HIDE DEF other
    <3> QED BY <2>1, <3>2, <3>3, <3>4 DEF IInv, TypeOK, Calls
  <2>8. Elements(result') = {w \in passedNow : w.label # v.label}
    <3>1. CASE other.label = v.label
      BY <2>1, <2>4, <2>5, <3>1
    <3>2. CASE other.label # v.label
      <4>1. Elements(Append(result, other)) = Elements(result) \cup {other}
        BY <2>3, AppendProperties, LenProperties DEF Elements
      <4> QED BY <2>1, <2>4, <2>5, <3>2, <4>1
    <3> QED BY <3>1, <3>2
  <2>9. Sorted(result')
    <3>1. CASE other.label = v.label
      BY <2>1, <2>5, <3>1
    <3>2. CASE other.label # v.label
      <4>1. result' = Append(result, other)
        BY <2>1, <3>2
      <4>2. /\ DOMAIN result' = 1..Len(result) + 1 /\ DOMAIN result = 1..Len(result)
            /\ Len(result) \in Nat
            /\ \A i \in 1..Len(result) : result'[i] = result[i]
            /\ result'[Len(result) + 1] = other
        BY <2>3, <4>1, AppendProperties, LenProperties
      <4>3. \A i \in DOMAIN result : Below(result[i], other)
        BY <2>6 DEF Elements
      <4> QED BY <2>5, <4>2, <4>3 DEF Sorted
    <3> QED BY <3>1, <3>2
  <2>10. created' <=> \A w \in passedNow : w.label # v.label
    <3> HIDE DEF passed, passedNow, v
    <3>1. (\A w \in passedNow : w.label # v.label)
            <=> other.label # v.label /\ \A w \in passed : w.label # v.label
      BY <2>4
    <3>2. CASE other.label = v.label
      BY <2>1, <3>1, <3>2
    <3>3. CASE other.label # v.label
      BY <2>1, <2>5, <3>1, <3>3
    <3> QED BY <3>2, <3>3
  <2>11. \A w \in passedNow : ~Taken(w, v)
    BY <1>2, <2>4, <2>5
  <2>12. Building'
    <3>1. {versions'[j] : j \in 1..next' - 1} = passedNow
      BY <2>1, <2>3
    <3>2. next' \in 1..Len(versions') + 1 /\ call'.version = v
      BY <2>1, <2>3
    <3> HIDE DEF passed, passedNow, other
    <3> QED BY <2>8, <2>9, <2>10, <2>11, <3>1, <3>2 DEF Building, Elements, Sorted
  <2>13. AllValid(versions)' /\ Ascending'
    BY <2>1 DEF IInv, AllValid, Valid, Ascending
  <2> QED BY <2>1, <2>2, <2>7, <2>12, <2>13 DEF IInv, Comparing, Fresh
<1> QED BY <1>1, <1>2

\* The end of PutVersion: the list that was built, and the new version at its place.
LEMMA PutVersionIs ==
    ASSUME IInv, PutVersion
    PROVE  /\ versions' \in Seq(Version) /\ AllValid(versions') /\ Sorted(versions')
           /\ Elements(versions') = {w \in Elements(versions) : w.label # call.version.label}
                                       \cup {Stored(call.version)}
           /\ \A w \in Elements(versions) : ~Taken(w, call.version)
           /\ created <=> \A w \in Elements(versions) : w.label # call.version.label
<1> DEFINE v == call.version
<1>1. /\ Calling("put") /\ Complete(v) /\ next > Len(versions)
      /\ versions' = StableSort(Append(result, Stored(v)))
  BY DEF PutVersion, PutEnds
<1>2. v \in VersionBody
  BY <1>1, CallIs DEF IInv
<1>3. Stored(v) \in Version /\ Stored(v).label = v.label /\ Valid(Stored(v))
  BY <1>1, <1>2, StoredIs
<1>4. Len(versions) \in Nat /\ DOMAIN versions = 1..Len(versions)
  BY LenProperties DEF IInv, TypeOK
<1>5. next = Len(versions) + 1
  BY <1>1, <1>4 DEF IInv, Building
<1>6. {versions[j] : j \in 1..next - 1} = Elements(versions)
  BY <1>4, <1>5 DEF Elements
<1>7. /\ \A w \in Elements(versions) : ~Taken(w, v)
      /\ Elements(result) = {w \in Elements(versions) : w.label # v.label}
      /\ Sorted(result)
      /\ created <=> \A w \in Elements(versions) : w.label # v.label
  BY <1>1, <1>6 DEF IInv, Building
<1>8. AllValid(result) /\ result \in Seq(Version)
  BY <1>1, BuiltIs DEF IInv, TypeOK
<1>9. \A w \in Elements(result) : w.label # Stored(v).label
  BY <1>3, <1>7
<1> HIDE DEF v
<1>10. /\ versions' \in Seq(Version) /\ AllValid(versions') /\ Sorted(versions')
       /\ Elements(versions') = Elements(result) \cup {Stored(v)}
  BY <1>1, <1>3, <1>7, <1>8, <1>9, SortPlaces
<1> QED BY <1>7, <1>10 DEF v

\* PutVersion keeps the list sorted and valid.
LEMMA PutVersionKeeps ==
    ASSUME IInv, PutVersion
    PROVE  IInv'
<1>1. Leave /\ outcome' \in {"created", "replaced"}
  BY DEF PutVersion, Return
<1> QED BY <1>1, PutVersionIs, LeaveKeeps

Without(list, i) == SubSeq(list, 1, i - 1) \o SubSeq(list, i + 1, Len(list))

\* slices.Delete of one version takes out its label and keeps the others sorted.
LEMMA WithoutIs ==
    ASSUME NEW list \in Seq(Version), AllValid(list), Sorted(list), NEW i \in DOMAIN list
    PROVE  /\ Without(list, i) \in Seq(Version)
           /\ AllValid(Without(list, i)) /\ Sorted(Without(list, i))
           /\ Elements(Without(list, i)) = {w \in Elements(list) : w.label # list[i].label}
<1> DEFINE n == Len(list)
           a == SubSeq(list, 1, i - 1)
           b == SubSeq(list, i + 1, n)
           s == Without(list, i)
<1>1. n \in Nat /\ DOMAIN list = 1..n /\ i \in 1..n /\ \A k \in 1..n : list[k] \in Version
  BY LenProperties, ElementOfSeq
<1>2. /\ a \in Seq(Version) /\ Len(a) = i - 1
      /\ \A k \in 1..i - 1 : a[k] = list[k]
  <2>1. \A k \in 1..i - 1 : list[k] \in Version
    BY <1>1
  <2>2. 1 \in Int /\ i - 1 \in Int
    BY <1>1
  <2> HIDE DEF n
  <2>3. /\ a \in Seq(Version) /\ Len(a) = IF 1 =< i - 1 THEN i - 1 - 1 + 1 ELSE 0
        /\ \A k \in 1..i - 1 - 1 + 1 : a[k] = list[1 + k - 1]
    BY <2>1, <2>2, SubSeqProperties
  <2> QED BY <1>1, <2>3
<1>3. /\ b \in Seq(Version) /\ Len(b) = n - i
      /\ \A k \in 1..n - i : b[k] = list[i + k]
  <2>1. \A k \in i + 1..n : list[k] \in Version
    BY <1>1
  <2>2. i + 1 \in Int /\ n \in Int
    BY <1>1
  <2> HIDE DEF n
  <2>3. /\ b \in Seq(Version) /\ Len(b) = IF i + 1 =< n THEN n - (i + 1) + 1 ELSE 0
        /\ \A k \in 1..n - (i + 1) + 1 : b[k] = list[(i + 1) + k - 1]
    BY <2>1, <2>2, SubSeqProperties
  <2> QED BY <1>1, <2>3
<1>4. s = a \o b
  BY DEF Without
<1> HIDE DEF a, b, s, n
<1>5. /\ s \in Seq(Version) /\ DOMAIN s = 1..n - 1
      /\ \A k \in 1..n - 1 : s[k] = IF k < i THEN list[k] ELSE list[k + 1]
  <2>1. /\ s \in Seq(Version) /\ Len(s) = (i - 1) + (n - i)
        /\ \A k \in 1..(i - 1) + (n - i) : s[k] = IF k =< i - 1 THEN a[k] ELSE b[k - (i - 1)]
    BY <1>2, <1>3, <1>4, ConcatProperties
  <2>2. DOMAIN s = 1..n - 1
    BY <1>1, <2>1, LenProperties
  <2>3. \A k \in 1..n - 1 : s[k] = IF k < i THEN list[k] ELSE list[k + 1]
    <3> SUFFICES ASSUME NEW k \in 1..n - 1
                 PROVE  s[k] = IF k < i THEN list[k] ELSE list[k + 1]
      OBVIOUS
    <3>1. CASE k < i
      BY <1>1, <1>2, <2>1, <3>1
    <3>2. CASE ~(k < i)
      <4>1. k - (i - 1) \in 1..n - i /\ i + (k - (i - 1)) = k + 1
        BY <1>1, <3>2
      <4>2. s[k] = b[k - (i - 1)]
        BY <1>1, <2>1, <3>2
      <4>3. b[k - (i - 1)] = list[i + (k - (i - 1))]
        BY <1>3, <4>1
      <4> QED BY <3>2, <4>1, <4>2, <4>3
    <3> QED BY <3>1, <3>2
  <2> QED BY <2>1, <2>2, <2>3
<1> DEFINE f == [k \in 1..n - 1 |-> IF k < i THEN k ELSE k + 1]
<1>6. /\ \A k \in DOMAIN s : f[k] \in DOMAIN list /\ s[k] = list[f[k]]
      /\ \A k, l \in DOMAIN s : k < l => f[k] < f[l]
  BY <1>1, <1>5
<1> HIDE DEF f
<1>7. AllValid(s) /\ Sorted(s)
  BY <1>6 DEF AllValid, Sorted
<1>8. Elements(s) = {list[k] : k \in DOMAIN list \ {i}}
  <2>1. \A w : (\E k \in 1..n - 1 : w = s[k]) <=> \E k \in 1..n : k # i /\ w = list[k]
    <3> TAKE w
    <3>1. ASSUME NEW k \in 1..n - 1, w = s[k]
          PROVE  \E j \in 1..n : j # i /\ w = list[j]
      <4>1. CASE k < i
        BY <1>1, <1>5, <3>1, <4>1
      <4>2. CASE ~(k < i)
        <5>1. k + 1 \in 1..n /\ k + 1 # i /\ w = list[k + 1]
          BY <1>1, <1>5, <3>1, <4>2
        <5> QED BY <5>1
      <4> QED BY <4>1, <4>2
    <3>2. ASSUME NEW k \in 1..n, k # i, w = list[k]
          PROVE  \E j \in 1..n - 1 : w = s[j]
      <4>1. CASE k < i
        BY <1>1, <1>5, <3>2, <4>1
      <4>2. CASE ~(k < i)
        <5>1. k - 1 \in 1..n - 1 /\ ~(k - 1 < i) /\ (k - 1) + 1 = k
          BY <1>1, <3>2, <4>2
        <5>2. s[k - 1] = list[k]
          BY <1>5, <5>1
        <5> QED BY <3>2, <5>1, <5>2
      <4> QED BY <4>1, <4>2
    <3> QED BY <3>1, <3>2
  <2> QED BY <1>1, <1>5, <2>1 DEF Elements
<1>9. \A k \in DOMAIN list : k # i <=> list[k].label # list[i].label
  BY SortedIsUnique
<1>10. Elements(s) = {w \in Elements(list) : w.label # list[i].label}
  BY <1>8, <1>9 DEF Elements
<1> QED BY <1>5, <1>7, <1>10 DEF s

\* RemoveVersion keeps the list sorted and valid.
LEMMA RemoveVersionKeeps ==
    ASSUME IInv, RemoveVersion
    PROVE  IInv'
<1>1. versions \in Seq(Version) /\ AllValid(versions) /\ Sorted(versions)
  BY DEF IInv, TypeOK, Ascending, Sorted
<1>2. /\ Leave /\ outcome' \in {"notFound", "invalid", "removed"}
      /\ \/ versions' = versions
         \/ \E i \in DOMAIN versions : versions' = Without(versions, i)
  BY DEF RemoveVersion, Return, Without
<1>3. versions' \in Seq(Version) /\ AllValid(versions') /\ Sorted(versions')
  BY <1>1, <1>2, WithoutIs
<1> QED BY <1>2, <1>3, LeaveKeeps

\* The better of two versions is no worse than what was no better than either.
LEMMA BetterIsBetter ==
    ASSUME IInv, NEW v \in Version, Valid(v), NEW passed,
           \A w \in passed : w \in Version /\ Valid(w),
           IF passed = {} THEN newest = NoVersion
           ELSE newest \in passed /\ \A w \in passed : NoBetter(w, newest)
    PROVE  LET best == IF Newer(v) THEN v ELSE newest
           IN  best \in passed \cup {v} /\ \A w \in passed \cup {v} : NoBetter(w, best)
<1>1. Rank(v.label) \in Nat /\ NoBetter(v, v)
  <2>1. Rank(v.label) \in Nat
    BY BelowIsRank DEF Ordered
  <2>2. Rank(v.label) =< Rank(v.label)
    BY <2>1
  <2> QED BY <2>1, <2>2 DEF NoBetter
<1>2. CASE passed = {}
  BY <1>1, <1>2 DEF Newer
<1>3. CASE passed # {}
  <2>1. /\ newest \in passed /\ newest \in Version /\ Valid(newest)
        /\ \A w \in passed : NoBetter(w, newest)
    BY <1>3
  <2>2. newest # NoVersion
    BY <2>1, NoneAssumption
  <2>3. Ordered(newest, v)
    BY <2>1, BelowIsRank
  <2>4. v.deprecated \in BOOLEAN /\ newest.deprecated \in BOOLEAN
    BY <2>1 DEF Version
  <2>5. CASE Newer(v)
    <3>1. \A w \in passed : NoBetter(w, v)
      <4> SUFFICES ASSUME NEW w \in passed
                   PROVE  NoBetter(w, v)
        OBVIOUS
      <4>1. Ordered(w, newest) /\ NoBetter(w, newest) /\ w.deprecated \in BOOLEAN
        BY <2>1, BelowIsRank DEF Version
      <4>2. \/ newest.deprecated /\ ~v.deprecated
            \/ newest.deprecated = v.deprecated /\ Rank(newest.label) < Rank(v.label)
        BY <2>2, <2>3, <2>5 DEF Newer, Ordered
      <4>3. v.deprecated => w.deprecated
        BY <2>4, <4>1, <4>2 DEF NoBetter
      <4>4. v.deprecated = w.deprecated => Rank(w.label) =< Rank(v.label)
        <5> DEFINE rw == Rank(w.label)
                   rn == Rank(newest.label)
                   rv == Rank(v.label)
        <5>1. rw \in Nat /\ rn \in Nat /\ rv \in Nat
          BY <1>1, <4>1 DEF Ordered
        <5>2. v.deprecated = w.deprecated => rw =< rn /\ rn < rv
          BY <2>4, <4>1, <4>2 DEF NoBetter
        <5> HIDE DEF rw, rn, rv
        <5>3. v.deprecated = w.deprecated => rw =< rv
          BY <5>1, <5>2
        <5> QED BY <5>3 DEF rw, rv
      <4> QED BY <4>3, <4>4 DEF NoBetter
    <3> QED BY <1>1, <2>5, <3>1
  <2>6. CASE ~Newer(v)
    <3>1. NoBetter(v, newest)
      <4>1. newest.deprecated => v.deprecated
        BY <2>4, <2>6 DEF Newer
      <4>2. newest.deprecated = v.deprecated => Rank(v.label) =< Rank(newest.label)
        BY <2>3, <2>6 DEF Newer, Ordered
      <4> QED BY <4>1, <4>2 DEF NoBetter
    <3> QED BY <2>1, <2>6, <3>1
  <2> QED BY <2>5, <2>6
<1> QED BY <1>2, <1>3

\* A turn of the loop of NewestVersion.
LEMMA NewestNextKeeps ==
    ASSUME IInv, NewestNext
    PROVE  IInv'
<1> DEFINE list == call.list
           v == list[next]
           passed == {list[j] : j \in 1..next - 1}
<1>1. /\ Calling("newest") /\ next \in DOMAIN list
      /\ newest' = IF Newer(v) THEN v ELSE newest
      /\ next' = next + 1
      /\ UNCHANGED <<versions, call, outcome, result, created>>
  BY DEF NewestNext
<1>2. Calling("newest")' /\ ~Calling("put")' /\ call' # NoCall
  BY <1>1 DEF Calling
<1>3. list \in Seq(Version) /\ Elements(list) = Elements(versions)
  BY <1>1, QuestionIs DEF IInv
<1>4. /\ DOMAIN list = 1..Len(list) /\ Len(list) \in Nat /\ next \in 1..Len(list)
      /\ \A j \in 1..Len(list) : list[j] \in Version /\ Valid(list[j])
  <2>1. \A j \in DOMAIN list : list[j] \in Elements(versions)
    BY <1>3 DEF Elements
  <2>2. \A w \in Elements(versions) : Valid(w)
    BY DEF Elements, IInv, AllValid
  <2> QED BY <1>1, <1>3, <2>1, <2>2, LenProperties, ElementOfSeq
<1>5. IF passed = {} THEN newest = NoVersion
      ELSE newest \in passed /\ \A w \in passed : NoBetter(w, newest)
  BY <1>1 DEF IInv, Comparing
<1>6. {list[j] : j \in 1..next} = passed \cup {v}
  BY <1>4, PassedGrows
<1>7. v \in Version /\ Valid(v) /\ \A w \in passed : w \in Version /\ Valid(w)
  BY <1>4
<1> HIDE DEF v, passed
<1>8. newest' \in passed \cup {v} /\ \A w \in passed \cup {v} : NoBetter(w, newest')
  BY <1>1, <1>5, <1>7, BetterIsBetter
<1>9. TypeOK'
  <2>1. Questions' = Questions
    BY <1>1 DEF Questions
  <2>2. next' \in Nat \ {0}
    BY <1>1, <1>4
  <2>3. newest' \in Version
    BY <1>7, <1>8
  <2> QED BY <1>1, <2>1, <2>2, <2>3 DEF IInv, TypeOK, Calls
<1>10. Comparing'
  <2>1. {call.list'[j] : j \in 1..next' - 1} = passed \cup {v}
    <3>1. call.list' = list /\ next' - 1 = next
      BY <1>1, <1>4
    <3> HIDE DEF list
    <3> QED BY <1>6, <3>1
  <2>2. next' \in 1..Len(call.list') + 1
    BY <1>1, <1>4
  <2> HIDE DEF list
  <2> QED BY <1>8, <2>1, <2>2 DEF Comparing, NoBetter
<1>11. AllValid(versions)' /\ Ascending'
  BY <1>1 DEF IInv, AllValid, Valid, Ascending
<1> QED BY <1>2, <1>9, <1>10, <1>11 DEF IInv, Building, Fresh

\* The end of NewestVersion changes nothing.
LEMMA NewestVersionKeeps ==
    ASSUME IInv, NewestVersion
    PROVE  IInv'
<1>1. Sorted(versions)
  BY DEF IInv, Ascending, Sorted
<1> QED BY <1>1, LeaveKeeps DEF NewestVersion, IInv, TypeOK

\* Nothing happens.
LEMMA StutterKeeps ==
    ASSUME IInv, UNCHANGED vars
    PROVE  IInv'
<1>1. UNCHANGED <<versions, call, outcome, next, result, created, newest>>
  BY DEF vars, locals
<1>2. TypeOK'
  BY <1>1 DEF IInv, TypeOK, Questions, Calls
<1>3. AllValid(versions)' /\ Ascending' /\ Fresh'
  BY <1>1 DEF IInv, AllValid, Valid, Ascending, Fresh
<1>4. Building'
  BY <1>1 DEF IInv, Building, Calling, Elements, Sorted, Taken
<1>5. Comparing'
  BY <1>1 DEF IInv, Comparing, Calling, NoBetter
<1> QED BY <1>2, <1>3, <1>4, <1>5 DEF IInv

\* Every step keeps the invariant.
LEMMA StepHolds == IInv /\ [Next]_vars => IInv'
  BY BeginKeeps, PutIncompleteKeeps, PutNextKeeps, PutVersionKeeps, RemoveVersionKeeps,
     NewestNextKeeps, NewestVersionKeeps, StutterKeeps
     DEF Next

\* The invariant of VersionList.
THEOREM InvariantHolds == Spec => []IInv
  BY InitHolds, StepHolds, PTL DEF Spec

-----------------------------------------------------------------------------
(* The theorems *)

\* The slice, the function being called and its variables keep their types.
THEOREM ListTypeCorrect == Spec => []TypeOK
<1>1. IInv => TypeOK
  BY DEF IInv
<1> QED BY <1>1, InvariantHolds, PTL

\* Through any sequence of puts and removes, the list stays sorted by number, with
\* every label once.
THEOREM ListStaysSorted == Spec => []Ascending
<1>1. IInv => Ascending
  BY DEF IInv
<1> QED BY <1>1, InvariantHolds, PTL

-----------------------------------------------------------------------------
(* The versions as a set *)

RankLabels == {Rank(t) : t \in {u \in Texts : ValidateVersionLabel(u)}}

Slice == {Ranked(versions[i]) : i \in DOMAIN versions}

\* The ranks are what VersionSet assumes of labels: natural numbers, other than the
\* malformed one, of which any set has a highest.
THEOREM RanksAreLabels ==
    /\ RankLabels \subseteq Nat
    /\ Malformed \notin RankLabels
    /\ \A S \in SUBSET RankLabels : S # {} => \E top \in S : \A l \in S : l =< top
<1>1. RankLabels \subseteq Nat
  BY Numbers DEF RankLabels
<1>2. Malformed \notin RankLabels
  BY <1>1, TextAssumption
<1> DEFINE K == MaxNumber + 1
           bound == (K * K + K) * K + K
<1>3. K \in Nat /\ bound \in Nat
  <2>1. K \in Nat
    BY TextAssumption
  <2> HIDE DEF K
  <2>2. K * K + K \in Nat
    BY <2>1
  <2> DEFINE square == K * K + K
  <2> HIDE DEF square
  <2>3. square * K \in Nat
    BY <2>1, <2>2 DEF square
  <2> QED BY <2>1, <2>3 DEF square
<1>4. \A l \in RankLabels : l < bound
  <2> SUFFICES ASSUME NEW t, ValidateVersionLabel(t)
               PROVE  Rank(t) < bound
    BY DEF RankLabels
  <2>1. /\ t[1] \in Nat /\ t[1] < K /\ t[2] \in Nat /\ t[2] < K /\ t[3] \in Nat /\ t[3] < K
        /\ Rank(t) = (t[1] * K + t[2]) * K + t[3]
    BY Numbers
  <2> HIDE DEF K
  <2> DEFINE p == t[1] * K + t[2]
             q == K * K + K
  <2>2. t[1] * K \in Nat /\ K * K \in Nat
    BY <1>3, <2>1
  <2>3. p < q
    BY <1>3, <2>1, LeadingDecides
  <2>4. p \in Nat /\ q \in Nat
    BY <1>3, <2>1, <2>2
  <2> HIDE DEF p, q
  <2>5. p * K + t[3] < q * K + K
    BY <1>3, <2>1, <2>3, <2>4, LeadingDecides
  <2> QED BY <2>1, <2>5 DEF p, q
<1>5. ASSUME NEW S \in SUBSET RankLabels, S # {}
      PROVE  \E top \in S : \A l \in S : l =< top
  <2> HIDE DEF bound
  <2> DEFINE T == {bound - l : l \in S}
  <2>1. \A l \in S : l \in Nat /\ bound - l \in Nat
    BY <1>1, <1>3, <1>4
  <2>2. T \in SUBSET Nat /\ T # {}
    BY <1>5, <2>1
  <2> HIDE DEF T
  <2>3. PICK m \in T : \A k \in T : m =< k
    BY <2>2, LeastExists
  <2>4. PICK top \in S : m = bound - top
    BY DEF T
  <2>5. \A l \in S : bound - top =< bound - l
    BY <2>3, <2>4 DEF T
  <2>6. \A l \in S : l =< top
    BY <1>3, <2>1, <2>5
  <2> QED BY <2>6
<1> QED BY <1>1, <1>2, <1>5

\* A label has a rank exactly if it parses.
LEMMA RankIsLabel ==
    ASSUME NEW label
    PROVE  /\ Rank(label) \in RankLabels <=> ValidateVersionLabel(label)
           /\ ValidateVersionLabel(label) => Rank(label) # Malformed
           /\ ~ValidateVersionLabel(label) => Rank(label) = Malformed
<1>1. ValidateVersionLabel(label) => Rank(label) \in RankLabels
  BY DEF RankLabels, ValidateVersionLabel
<1>2. ~ValidateVersionLabel(label) => Rank(label) = Malformed
  BY DEF Rank
<1> QED BY <1>1, <1>2, RanksAreLabels

\* A body with its label as a rank has the same other fields.
LEMMA RankedIs ==
    ASSUME NEW v \in VersionBody
    PROVE  /\ Ranked(v) = [label |-> Rank(v.label), image |-> v.image,
                           ports |-> v.ports, deprecated |-> v.deprecated]
           /\ Ranked(v).label = Rank(v.label)
           /\ Ranked(v).image = v.image
           /\ Ranked(v).ports = v.ports
           /\ Ranked(v).deprecated = v.deprecated
  BY DEF Ranked, VersionBody

\* What is stored can be sent, parses, and is known by its rank.
LEMMA Stores ==
    ASSUME IInv
    PROVE  /\ Slice = {Ranked(w) : w \in Elements(versions)}
           /\ \A w \in Elements(versions) : w \in Version /\ w \in VersionBody /\ Valid(w)
           /\ \A w, u \in Elements(versions) : w.label = u.label => w = u
<1>1. Slice = {Ranked(w) : w \in Elements(versions)}
  BY DEF Slice, Elements
<1>2. \A i \in DOMAIN versions : versions[i] \in Version
  BY LenProperties, ElementOfSeq DEF IInv, TypeOK
<1>3. \A w \in Elements(versions) : w \in Version /\ w \in VersionBody /\ Valid(w)
  BY <1>2 DEF Elements, Version, VersionBody, IInv, AllValid
<1>4. versions \in Seq(Version) /\ AllValid(versions) /\ Sorted(versions)
  BY DEF IInv, TypeOK, Ascending, Sorted
<1>5. \A w, u \in Elements(versions) : w.label = u.label => w = u
  BY <1>4, SortedIsUnique DEF Elements
<1> QED BY <1>1, <1>3, <1>5

\* What NewestVersion has at the end is the newest of the set.
LEMMA NewestIs ==
    ASSUME IInv, NEW v \in Elements(versions), \A w \in Elements(versions) : NoBetter(w, v)
    PROVE  Ranked(v) = Catalog!NewestVersion(Slice)
<1> DEFINE E == Catalog!Eligible(Slice)
<1>1. /\ Slice = {Ranked(w) : w \in Elements(versions)}
      /\ \A w \in Elements(versions) : w \in VersionBody /\ Valid(w)
      /\ \A w, u \in Elements(versions) : w.label = u.label => w = u
  BY Stores
<1>2. \A w \in Elements(versions) :
        Ranked(w).deprecated = w.deprecated /\ Ranked(w).label = Rank(w.label)
          /\ w.deprecated \in BOOLEAN /\ Rank(w.label) \in Nat
  BY <1>1, RankedIs, BelowIsRank DEF VersionBody, Ordered
<1>3. \A x : x \in E <=> \E w \in Elements(versions) : x = Ranked(w) /\ w.deprecated = v.deprecated
  <2> DEFINE live == {x \in Slice : ~x.deprecated}
  <2>1. E = IF live = {} THEN Slice ELSE live
    BY DEF Catalog!Eligible
  <2>2. CASE v.deprecated
    <3>1. \A w \in Elements(versions) : w.deprecated = v.deprecated
      BY <1>2, <2>2 DEF NoBetter
    <3>2. live = {}
      <4>1. \A w \in Elements(versions) : Ranked(w).deprecated
        BY <1>2, <2>2 DEF NoBetter
      <4> QED BY <1>1, <4>1
    <3> HIDE DEF E, live
    <3>3. E = Slice
      BY <2>1, <3>2
    <3> QED BY <1>1, <3>1, <3>3
  <2>3. CASE ~v.deprecated
    <3>1. Ranked(v) \in live
      BY <1>1, <1>2, <2>3
    <3> HIDE DEF E
    <3>2. E = live
      BY <2>1, <3>1
    <3>3. \A w \in Elements(versions) : w.deprecated = v.deprecated <=> ~Ranked(w).deprecated
      BY <1>2, <2>3
    <3> QED BY <1>1, <3>2, <3>3
  <2> QED BY <2>2, <2>3
<1> HIDE DEF E
<1>4. Ranked(v) \in E /\ \A y \in E : y.label =< Ranked(v).label
  BY <1>2, <1>3 DEF NoBetter
<1>5. ASSUME NEW x \in E, \A y \in E : y.label =< x.label
      PROVE  x = Ranked(v)
  <2>1. PICK w \in Elements(versions) : x = Ranked(w)
    BY <1>3
  <2>2. Rank(v.label) =< Rank(w.label) /\ Rank(w.label) =< Rank(v.label)
    BY <1>2, <1>4, <1>5, <2>1
  <2>3. Rank(v.label) = Rank(w.label)
    BY <1>2, <2>2
  <2>4. v.label = w.label
    BY <1>1, <2>3, BelowIsRank DEF Ordered
  <2> QED BY <1>1, <2>1, <2>4
<1>6. Catalog!NewestVersion(Slice) = CHOOSE x \in E : \A y \in E : y.label =< x.label
  BY DEF Catalog!NewestVersion, E
<1> QED BY <1>4, <1>5, <1>6

\* NewestVersion, given the versions in any order, answers with the highest live one, or
\* the highest of all when there is none.
THEOREM NewestAlwaysFound == Spec => []NewestFound
<1>1. IInv => NewestFound
  <2> SUFFICES ASSUME IInv, Calling("newest"), next > Len(call.list)
               PROVE  IF versions = <<>> THEN newest = NoVersion
                      ELSE Ranked(newest) = Catalog!NewestVersion(Slice)
    BY DEF NewestFound, Slice
  <2> DEFINE list == call.list
  <2>1. /\ list \in Seq(Version) /\ Len(list) = Len(versions)
        /\ Elements(list) = Elements(versions)
    BY QuestionIs DEF IInv
  <2>2. DOMAIN list = 1..Len(list) /\ Len(list) \in Nat
    BY <2>1, LenProperties
  <2>3. next = Len(list) + 1
    BY <2>2 DEF IInv, Comparing
  <2>4. {list[j] : j \in 1..next - 1} = Elements(versions)
    <3>1. 1..next - 1 = DOMAIN list
      BY <2>2, <2>3
    <3> QED BY <2>1, <3>1 DEF Elements
  <2>5. IF Elements(versions) = {} THEN newest = NoVersion
        ELSE newest \in Elements(versions)
               /\ \A w \in Elements(versions) : NoBetter(w, newest)
    BY <2>4 DEF IInv, Comparing
  <2>6. versions \in Seq(Version)
    BY DEF IInv, TypeOK
  <2>7. versions = <<>> <=> Elements(versions) = {}
    <3>1. DOMAIN versions = 1..Len(versions) /\ Len(versions) \in Nat
      BY <2>6, LenProperties
    <3>2. versions # <<>> => 1 \in DOMAIN versions
      BY <2>6, <3>1, EmptySeq
    <3> QED BY <3>2 DEF Elements
  <2> QED BY <2>5, <2>7, NewestIs
<1> QED BY <1>1, InvariantHolds, PTL

-----------------------------------------------------------------------------
(* The functions on the slice are those on the set *)

\* The loop of PutVersion accepts what the set accepts.
LEMMA AllowsTheSame ==
    ASSUME IInv, NEW v \in VersionBody
    PROVE  Catalog!PutAllowed(Slice, Ranked(v))
             <=> Complete(v) /\ \A w \in Elements(versions) : ~Taken(w, v)
<1>1. Ranked(v).label = Rank(v.label) /\ Ranked(v).image = v.image
  BY RankedIs
<1>2. Catalog!PutAllowed(Slice, Ranked(v))
        <=> /\ Ranked(v).label \in RankLabels
            /\ Ranked(v).image # NoImage
            /\ \A other \in Slice :
                 other.image = Ranked(v).image => other.label = Ranked(v).label
  BY DEF Catalog!PutAllowed, RankLabels
<1>3. \A w \in Elements(versions) :
        Ranked(w).image = w.image /\ Ranked(w).label = Rank(w.label)
  BY Stores, RankedIs
<1>4. (\A other \in Slice : other.image = Ranked(v).image => other.label = Ranked(v).label)
        <=> \A w \in Elements(versions) : w.image = v.image => Rank(w.label) = Rank(v.label)
  BY <1>1, <1>3, Stores
<1>5. Complete(v) <=> Rank(v.label) \in RankLabels /\ v.image # NoImage
  BY RankIsLabel DEF Complete
<1>6. ASSUME Complete(v), NEW w \in Elements(versions)
      PROVE  Rank(w.label) = Rank(v.label) <=> w.label = v.label
  <2>1. Valid(w) /\ Valid(v)
    BY <1>6, Stores DEF Complete, Valid
  <2> QED BY <2>1, BelowIsRank DEF Ordered
<1> QED BY <1>1, <1>2, <1>4, <1>5, <1>6 DEF Taken

\* A label is in the slice exactly if its rank is in the set, and the rank tells it
\* from the others.
LEMMA RankTells ==
    ASSUME IInv, NEW label \in Texts \cup {Malformed}, NEW w \in Elements(versions)
    PROVE  Rank(w.label) = Rank(label) <=> w.label = label
<1>1. ValidateVersionLabel(w.label) /\ Valid(w)
  BY Stores DEF Valid
<1>2. CASE ValidateVersionLabel(label)
  <2> DEFINE u == [w EXCEPT !.label = label]
  <2>1. u.label = label /\ Valid(u)
    BY <1>2, Stores DEF Valid, Version
  <2> HIDE DEF u
  <2>2. Ordered(w, u)
    BY <1>1, <2>1, BelowIsRank
  <2> QED BY <2>1, <2>2 DEF Ordered
<1>3. CASE ~ValidateVersionLabel(label)
  <2>1. Rank(label) = Malformed /\ Rank(w.label) # Malformed
    BY <1>1, <1>3, RankIsLabel
  <2> QED BY <1>1, <1>3, <2>1
<1> QED BY <1>2, <1>3

CallMeans ==
    /\ Calling("put") =>
         RankedCall = [op |-> "put", version |-> Ranked(call.version)]
    /\ Calling("remove") =>
         RankedCall = [op |-> "remove", label |-> Rank(call.label)]
    /\ Calling("newest") \/ call = NoCall => RankedCall = NoCall
    /\ RankedCall \in Catalog!Calls \cup {NoCall}
    /\ Calling("put") \/ Calling("remove") => RankedCall # NoCall

\* The call on the slice is, with ranks for labels, a call on the set.
LEMMA RankedCallIs == TypeOK => CallMeans
<1> SUFFICES ASSUME TypeOK PROVE CallMeans
  OBVIOUS
<1>1. CASE Calling("put")
  <2>1. call \in [op : {"put"}, version : VersionBody]
    BY <1>1, CallIs
  <2>2. RankedCall = [op |-> "put", version |-> Ranked(call.version)]
    BY <1>1, <2>1 DEF RankedCall
  <2>3. Ranked(call.version) \in Catalog!VersionBody
    <3>1. call.version \in VersionBody
      BY <2>1
    <3> DEFINE v == call.version
    <3>2. Rank(v.label) \in RankLabels \cup {Malformed}
      BY RankIsLabel
    <3> HIDE DEF v
    <3>3. Ranked(v) = [label |-> Rank(v.label), image |-> v.image,
                       ports |-> v.ports, deprecated |-> v.deprecated]
      BY <3>1, RankedIs DEF v
    <3> QED BY <3>1, <3>2, <3>3 DEF v, VersionBody, Catalog!VersionBody, RankLabels
  <2>4. RankedCall \in Catalog!Calls
    BY <2>2, <2>3 DEF Catalog!Calls
  <2>5. RankedCall # NoCall
    BY <2>4, NoneAssumption
  <2> QED BY <1>1, <2>2, <2>4, <2>5 DEF Calling, CallMeans
<1>2. CASE Calling("remove")
  <2>1. call \in [op : {"remove"}, label : Texts \cup {Malformed}]
    BY <1>2, CallIs
  <2>2. RankedCall = [op |-> "remove", label |-> Rank(call.label)]
    BY <1>2, <2>1 DEF RankedCall, Calling
  <2>3. Rank(call.label) \in RankLabels \cup {Malformed}
    BY RankIsLabel
  <2>4. RankedCall \in Catalog!Calls
    BY <2>2, <2>3 DEF Catalog!Calls, RankLabels
  <2>5. RankedCall # NoCall
    BY <2>4, NoneAssumption
  <2> QED BY <1>2, <2>2, <2>4, <2>5 DEF Calling, CallMeans
<1>3. CASE ~Calling("put") /\ ~Calling("remove")
  BY <1>3 DEF RankedCall, CallMeans
<1> QED BY <1>1, <1>2, <1>3 DEF Calling, CallMeans

\* Nothing that the set knows of changes.
Unheard == UNCHANGED <<Slice, RankedCall, outcome>>

\* A put or remove that begins on the slice begins on the set.
LEMMA BeginRefines ==
    ASSUME IInv, IInv', NEW c \in Calls, Begin(c)
    PROVE  Catalog!Next
<1>1. call = NoCall /\ call' = c /\ outcome' = "none" /\ versions' = versions
  BY DEF Begin
<1>2. RankedCall = NoCall
  BY <1>1, RankedCallIs DEF IInv, CallMeans
<1>3. RankedCall' \in Catalog!Calls
  <2>1. Calling("put")' \/ Calling("remove")'
    BY <1>1, NoneAssumption DEF Calling, Calls
  <2>2. TypeOK' => CallMeans'
    BY RankedCallIs, PTL
  <2> QED BY <2>1, <2>2 DEF IInv, CallMeans
<1>4. Slice' = Slice
  BY <1>1 DEF Slice, Ranked
<1>5. Catalog!Begin(RankedCall')
  BY <1>1, <1>2, <1>4 DEF Catalog!Begin, Slice
<1> QED BY <1>3, <1>5 DEF Catalog!Next

\* What Return does to the set and its call.
LEMMA ReturnRefines ==
    ASSUME NEW answer, Return(answer)
    PROVE  Catalog!Return(answer)
<1>1. RankedCall' = NoCall
  BY DEF Return, Leave, RankedCall, Calling
<1> QED BY <1>1 DEF Catalog!Return, Return

\* A put that is refused, before or in the loop, is refused for the set.
LEMMA RefusalRefines ==
    ASSUME IInv, Calling("put"), Return("invalid"), UNCHANGED versions,
           ~(Complete(call.version) /\ \A w \in Elements(versions) : ~Taken(w, call.version))
    PROVE  Catalog!Next
<1> DEFINE v == call.version
<1>1. v \in VersionBody
  BY CallIs DEF IInv
<1>2. RankedCall = [op |-> "put", version |-> Ranked(v)] /\ RankedCall # NoCall
  BY RankedCallIs DEF IInv, CallMeans
<1>3. ~Catalog!PutAllowed(Slice, Ranked(v))
  BY <1>1, AllowsTheSame
<1>4. Slice' = Slice
  BY DEF Slice, Ranked
<1>5. Catalog!Return("invalid")
  BY ReturnRefines
<1> HIDE DEF v
<1>6. Catalog!Put
  BY <1>2, <1>3, <1>4, <1>5 DEF Catalog!Put, Slice
<1> QED BY <1>6 DEF Catalog!Next

\* A turn of the loop of PutVersion refuses for the set, or is not seen there.
LEMMA PutNextRefines ==
    ASSUME IInv, PutNext
    PROVE  Catalog!Next \/ Unheard
<1> DEFINE other == versions[next]
<1>1. Calling("put") /\ next \in DOMAIN versions /\ versions' = versions
  BY DEF PutNext
<1>2. other \in Elements(versions)
  BY <1>1 DEF Elements
<1>3. CASE Taken(other, call.version)
  BY <1>1, <1>2, <1>3, RefusalRefines DEF PutNext
<1>4. CASE ~Taken(other, call.version)
  <2>1. call' = call /\ outcome' = outcome
    BY <1>4 DEF PutNext
  <2> QED BY <1>1, <2>1 DEF Unheard, Slice, Ranked, RankedCall, Calling
<1> QED BY <1>3, <1>4

\* The end of PutVersion puts into the set.
LEMMA PutVersionRefines ==
    ASSUME IInv, IInv', PutVersion
    PROVE  Catalog!Next
<1> DEFINE v == call.version
<1>1. Calling("put") /\ Complete(v) /\ Return(IF created THEN "created" ELSE "replaced")
  BY DEF PutVersion, PutEnds
<1>2. v \in VersionBody
  BY <1>1, CallIs DEF IInv
<1>3. RankedCall = [op |-> "put", version |-> Ranked(v)] /\ RankedCall # NoCall
  BY <1>1, RankedCallIs DEF IInv, CallMeans
<1>4. /\ Elements(versions') = {w \in Elements(versions) : w.label # v.label} \cup {Stored(v)}
      /\ \A w \in Elements(versions) : ~Taken(w, v)
      /\ created <=> \A w \in Elements(versions) : w.label # v.label
  BY PutVersionIs
<1>5. Catalog!PutAllowed(Slice, Ranked(v))
  BY <1>1, <1>2, <1>4, AllowsTheSame
<1>6. Slice = {Ranked(w) : w \in Elements(versions)}
  BY Stores
<1>7. Slice' = {Ranked(w) : w \in Elements(versions')}
  BY DEF Slice, Elements, Ranked
<1>8. \A w \in Elements(versions) :
        Ranked(w).label = Rank(w.label) /\ (Rank(w.label) = Rank(v.label) <=> w.label = v.label)
  BY <1>2, Stores, RankedIs, RankTells DEF VersionBody
<1>9. Ranked(Stored(v)) = [Ranked(v) EXCEPT !.ports = NonNil(Ranked(v).ports)]
  <2>1. Stored(v) = [v EXCEPT !.ports = NonNil(v.ports)]
    BY DEF Stored
  <2>2. Stored(v) = [label |-> v.label, image |-> v.image, ports |-> NonNil(v.ports),
                     deprecated |-> v.deprecated]
    BY <1>2, <2>1 DEF VersionBody
  <2>3. Ranked(Stored(v)) = [label |-> Rank(v.label), image |-> v.image,
                             ports |-> NonNil(v.ports), deprecated |-> v.deprecated]
    BY <2>2 DEF Ranked
  <2>4. Ranked(v) = [label |-> Rank(v.label), image |-> v.image,
                     ports |-> v.ports, deprecated |-> v.deprecated]
    BY <1>2, RankedIs
  <2> HIDE DEF v
  <2> QED BY <2>3, <2>4
<1>10. Ranked(v).label = Rank(v.label)
  BY <1>2, RankedIs
<1> HIDE DEF v
<1>11. Slice' = Catalog!PutVersion(Slice, Ranked(v))
  <2>1. Catalog!PutVersion(Slice, Ranked(v))
          = {other \in Slice : other.label # Rank(v.label)} \cup {Ranked(Stored(v))}
    BY <1>9, <1>10 DEF Catalog!PutVersion, Catalog!NonNil, NonNil
  <2>2. {other \in Slice : other.label # Rank(v.label)}
          = {Ranked(w) : w \in {u \in Elements(versions) : u.label # v.label}}
    BY <1>6, <1>8
  <2> QED BY <1>4, <1>7, <2>1, <2>2
<1>12. Catalog!HasLabel(Slice, Rank(v.label)) <=> ~created
  BY <1>4, <1>6, <1>8 DEF Catalog!HasLabel
<1>13. Catalog!Return(IF Catalog!HasLabel(Slice, Rank(v.label)) THEN "replaced" ELSE "created")
  BY <1>1, <1>12, ReturnRefines
<1>14. Catalog!Put
  BY <1>3, <1>5, <1>10, <1>11, <1>13 DEF Catalog!Put, Slice
<1> QED BY <1>14 DEF Catalog!Next

\* RemoveVersion removes from the set.
LEMMA RemoveVersionRefines ==
    ASSUME IInv, IInv', RemoveVersion
    PROVE  Catalog!Next
<1> DEFINE l == call.label
           labelled == {i \in DOMAIN versions : versions[i].label = l}
<1>1. Calling("remove") /\ call' = NoCall
  BY DEF RemoveVersion, Return, Leave
<1>2. l \in Texts \cup {Malformed}
  BY <1>1, CallIs DEF IInv
<1>3. RankedCall = [op |-> "remove", label |-> Rank(l)] /\ RankedCall # NoCall
  BY <1>1, RankedCallIs DEF IInv, CallMeans
<1>4. /\ versions \in Seq(Version) /\ AllValid(versions) /\ Sorted(versions)
      /\ DOMAIN versions = 1..Len(versions) /\ Len(versions) \in Nat
  BY LenProperties DEF IInv, TypeOK, Ascending, Sorted
<1>5. /\ Slice = {Ranked(w) : w \in Elements(versions)}
      /\ Slice' = {Ranked(w) : w \in Elements(versions')}
  BY Stores DEF Slice, Elements, Ranked
<1>6. \A w \in Elements(versions) :
        Ranked(w).label = Rank(w.label) /\ (Rank(w.label) = Rank(l) <=> w.label = l)
  BY <1>2, Stores, RankedIs, RankTells
<1>7. Catalog!HasLabel(Slice, Rank(l)) <=> labelled # {}
  BY <1>5, <1>6 DEF Catalog!HasLabel, Elements
<1>8. Catalog!RemoveAllowed(Slice, Rank(l)) <=> \E w \in Elements(versions) : w.label # l
  BY <1>5, <1>6 DEF Catalog!RemoveAllowed
<1>9. labelled # {} => ((\E w \in Elements(versions) : w.label # l) <=> Len(versions) # 1)
  <2> SUFFICES ASSUME NEW i \in labelled
               PROVE  (\E w \in Elements(versions) : w.label # l) <=> Len(versions) # 1
    OBVIOUS
  <2>1. i \in 1..Len(versions) /\ versions[i].label = l
    BY <1>4
  <2>2. CASE Len(versions) = 1
    <3>1. \A j \in DOMAIN versions : versions[j].label = l
      BY <1>4, <2>1, <2>2
    <3> QED BY <2>2, <3>1 DEF Elements
  <2>3. CASE Len(versions) # 1
    <3>1. PICK j \in DOMAIN versions : j # i
      <4>1. 1 \in DOMAIN versions /\ 2 \in DOMAIN versions
        BY <1>4, <2>1, <2>3
      <4> QED BY <4>1
    <3>2. versions[j].label # l
      BY <1>4, <2>1, <3>1, SortedIsUnique
    <3> QED BY <2>3, <3>2 DEF Elements
  <2> QED BY <2>2, <2>3
<1> HIDE DEF l
<1>10. \/ labelled = {} /\ Return("notFound") /\ versions' = versions
       \/ labelled # {} /\ Len(versions) = 1 /\ Return("invalid") /\ versions' = versions
       \/ /\ labelled # {} /\ Len(versions) # 1 /\ Return("removed")
          /\ \E i \in labelled : versions' = Without(versions, i)
  BY DEF RemoveVersion, Without, l
<1> HIDE DEF labelled
<1>11. CASE labelled = {} /\ Return("notFound") /\ versions' = versions
  <2>1. Catalog!Return("notFound") /\ Slice' = Slice
    BY <1>5, <1>11, ReturnRefines
  <2> QED BY <1>3, <1>7, <1>11, <2>1 DEF Catalog!Next, Catalog!Remove, Slice
<1>12. CASE labelled # {} /\ Len(versions) = 1 /\ Return("invalid") /\ versions' = versions
  <2>1. Catalog!Return("invalid") /\ Slice' = Slice
    BY <1>5, <1>12, ReturnRefines
  <2> QED BY <1>3, <1>7, <1>8, <1>9, <1>12, <2>1 DEF Catalog!Next, Catalog!Remove, Slice
<1>13. CASE /\ labelled # {} /\ Len(versions) # 1 /\ Return("removed")
            /\ \E i \in labelled : versions' = Without(versions, i)
  <2>1. PICK i \in labelled : versions' = Without(versions, i)
    BY <1>13
  <2>2. i \in DOMAIN versions /\ versions[i].label = l
    BY DEF labelled
  <2>3. Elements(versions') = {w \in Elements(versions) : w.label # l}
    BY <1>4, <2>1, <2>2, WithoutIs
  <2>4. Slice' = Catalog!RemoveVersion(Slice, Rank(l))
    BY <1>5, <1>6, <2>3 DEF Catalog!RemoveVersion
  <2>5. Catalog!Return("removed")
    BY <1>13, ReturnRefines
  <2> QED BY <1>3, <1>7, <1>8, <1>9, <1>13, <2>4, <2>5 DEF Catalog!Next, Catalog!Remove, Slice
<1> QED BY <1>10, <1>11, <1>12, <1>13

\* NewestVersion is not seen in the set.
LEMMA NewestRefines ==
    ASSUME IInv, IInv', (\E c \in Questions : Ask(c)) \/ NewestNext \/ NewestVersion
    PROVE  Unheard
<1>1. versions' = versions /\ outcome' = outcome
  BY DEF Ask, NewestNext, NewestVersion
<1>2. call = NoCall \/ Calling("newest")
  BY DEF Ask, NewestNext, NewestVersion
<1>3. (call = NoCall \/ Calling("newest"))'
  BY NoneAssumption DEF Ask, NewestNext, NewestVersion, Calling, Questions, Leave
<1>4. RankedCall = NoCall /\ RankedCall' = NoCall
  BY <1>2, <1>3 DEF RankedCall, Calling
<1> QED BY <1>1, <1>4 DEF Unheard, Slice, Ranked

\* Every step of VersionList is one of VersionCatalog, or not seen there.
LEMMA StepRefines == IInv /\ IInv' /\ [Next]_vars => [Catalog!Next]_Catalog!vars
<1> SUFFICES ASSUME IInv, IInv', [Next]_vars
             PROVE  Catalog!Next \/ Unheard
  BY DEF Unheard, Catalog!vars, Slice
<1>1. CASE UNCHANGED vars
  BY <1>1 DEF vars, Unheard, Slice, Ranked, RankedCall, Calling
<1>2. CASE \E c \in Calls : Begin(c)
  BY <1>2, BeginRefines
<1>3. CASE PutIncomplete
  BY <1>3, RefusalRefines DEF PutIncomplete
<1>4. CASE (\E c \in Questions : Ask(c)) \/ NewestNext \/ NewestVersion
  BY <1>4, NewestRefines
<1> QED BY <1>1, <1>2, <1>3, <1>4, PutNextRefines, PutVersionRefines, RemoveVersionRefines
        DEF Next

\* For any labels, images and ports, every put and remove on the slice, loop by loop, is
\* that operation on the set of its versions at one instant, with the same answer.
THEOREM ListImplementsCatalog == Spec => ImplementsCatalog
<1>1. Init => Catalog!Init
  BY DEF Init, Catalog!Init, RankedCall, Calling
<1>2. IInv /\ IInv' /\ [Next]_vars => [Catalog!Next]_Catalog!vars
  BY StepRefines
<1> QED BY <1>1, <1>2, InvariantHolds, PTL DEF Spec, ImplementsCatalog, Catalog!Spec
=============================================================================
