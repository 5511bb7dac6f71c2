----------------------------- MODULE GatesProofs -----------------------------
(***************************************************************************)
(* What the two gates of the build conclude: the one on coverage for any   *)
(* files, blocks and numbers of lines, hunks and reports, the one on       *)
(* vulnerabilities for any modules, findings and numbers of lines and      *)
(* messages.                                                               *)
(***************************************************************************)
EXTENDS MCGates, SequenceTheorems, TLAPS

-----------------------------------------------------------------------------
(* The gate on coverage: the invariant *)

Other == IF step = "branch" THEN edited.tree ELSE edited.branch

\* The parser counts what git has still to print of a hunk, and knows whose lines they are.
InStep ==
    /\ Printing => /\ parser.remaining = git.old + git.new
                   /\ parser.path = destinationPath(git.target)
                   /\ git.path # NoPath => git.path \in git.files
                   /\ git.target = "/dev/null" => git.path \in gone
                   /\ edited[step] \subseteq git.files
    /\ step = "base" => git = NoGit /\ truth = {} /\ edited.branch = {}
    /\ step \in {"base", "branch"} => changed = {} /\ edited.tree = {}
    /\ step \in {"base", "untracked"} => parser = NoParser

Before == {"base", "branch", "tree", "untracked"}

\* The lines of a file that no diff has touched are not changed; those that
\* the diff at hand wrote of its file are above what it comes to next.
InOrder ==
    /\ step \in Before =>
         \A p \in Paths \ (edited.branch \cup edited.tree), n \in Nat : <<p, n>> \notin truth
    /\ Printing /\ git.path \notin Other =>
         \A n \in Nat : <<git.path, n>> \in truth => n < git.next

\* What has been read of a file that is there is what was written in it, unless both
\* diffs change it.
Recorded ==
    /\ step \in Before =>
         \A p \in Relevant \ gone, n \in Nat :
            p \notin edited.branch \cap edited.tree =>
                (<<p, n>> \in truth <=> <<p, n>> \in changed \cup parser.changed)
    /\ step \in {"suite", "profile"} /\ edited.branch \cap edited.tree = {} =>
         changed = Measurable

\* What was run has a count; the base is not the branch itself if there is another.
Kept ==
    /\ tested = {b \in Blocks : profile[b] > 0}
    /\ ~(base.own /\ base.other)

Concluded ==
    /\ step = "done" <=> exit # "none"
    /\ GreenIsEarned

\* The inductive invariant.
IInv == TypeOK /\ InStep /\ InOrder /\ Recorded /\ Kept /\ Concluded

-----------------------------------------------------------------------------
(* The parser of a diff *)

Parsers == [path : Relevant \cup {NoPath}, remaining : Nat, changed : SUBSET (Relevant \X Nat)]

\* A range is read as it was meant, whether git prints its count or not (parseHunkRange).
LEMMA RangeRead ==
    ASSUME NEW start \in Nat, NEW count \in Nat
    PROVE  parseHunkRange(HunkRange(start, count)) = [start |-> start, count |-> count]
BY DEF parseHunkRange, HunkRange

\* A line of a hunk is counted, whatever it looks like.
LEMMA ReadBody ==
    ASSUME NEW p \in Parsers, p.remaining > 0, NEW line, line.is \in {"+", "+++", "-", "---"}
    PROVE  parseDiff(p, line) = [p EXCEPT !.remaining = p.remaining - 1]
BY DEF parseDiff, Parsers

\* What is said of the end of a file changes nothing.
LEMMA ReadNote ==
    ASSUME NEW p \in Parsers
    PROVE  parseDiff(p, [is |-> "\\"]) = p
<1>1. CASE p.remaining > 0
  BY <1>1 DEF parseDiff, Parsers
<1>2. CASE p.remaining = 0
  BY <1>2 DEF parseDiff, Parsers
<1>3. p.remaining \in Nat
  BY DEF Parsers
<1> QED BY <1>1, <1>2, <1>3

\* Where nothing is left of a hunk, nothing is dropped.
LEMMA NothingDropped ==
    ASSUME NEW p \in Parsers, p.remaining = 0
    PROVE  [p EXCEPT !.remaining = 0] = p /\ ~(p.remaining > 0)
<1> DEFINE q == [p EXCEPT !.remaining = 0]
<1>1. q \in Parsers
  BY DEF Parsers
<1>2. q.path = p.path /\ q.remaining = p.remaining /\ q.changed = p.changed
  BY DEF Parsers
<1> HIDE DEF q
<1>3. q = p
  <2>1. q = [path |-> q.path, remaining |-> q.remaining, changed |-> q.changed]
    BY <1>1 DEF Parsers
  <2>2. p = [path |-> p.path, remaining |-> p.remaining, changed |-> p.changed]
    BY DEF Parsers
  <2> QED BY <1>2, <2>1, <2>2
<1>4. ~(p.remaining > 0)
  OBVIOUS
<1> QED BY <1>3, <1>4 DEF q

\* Between hunks, a header says whose lines come next.
LEMMA ReadHeaders ==
    ASSUME NEW p \in Parsers, p.remaining = 0
    PROVE  /\ parseDiff(p, [is |-> "diff"]) = [p EXCEPT !.path = NoPath]
           /\ parseDiff(p, [is |-> "---"]) = p
           /\ \A target : parseDiff(p, [is |-> "+++", path |-> target])
                            = [p EXCEPT !.path = destinationPath(target)]
<1> DEFINE q == [p EXCEPT !.remaining = 0]
<1>1. q = p /\ ~(p.remaining > 0)
  BY NothingDropped
<1>2. parseDiff(p, [is |-> "diff"]) = [q EXCEPT !.path = NoPath]
  <2> HIDE DEF q
  <2> QED BY <1>1 DEF parseDiff, q
<1>3. parseDiff(p, [is |-> "---"]) = q
  BY <1>1 DEF parseDiff
<1>4. ASSUME NEW target
      PROVE  parseDiff(p, [is |-> "+++", path |-> target])
               = [q EXCEPT !.path = destinationPath(target)]
  BY <1>1 DEF parseDiff
<1> HIDE DEF q
<1> QED BY <1>1, <1>2, <1>3, <1>4

\* A hunk header says how many lines follow, and which lines they are in the new file.
HunkLine(o, old, n, new) ==
    [is |-> "@@", old |-> HunkRange(o, old), new |-> HunkRange(n, new)]

AfterHunk(p, q, old, n, new) ==
    q = [path |-> p.path, remaining |-> old + new,
         changed |-> IF p.path = NoPath THEN p.changed ELSE p.changed \cup Lines(p.path, n, new)]

\* That is how it is read.
LEMMA ReadHunk ==
    ASSUME NEW p \in Parsers, p.remaining = 0,
           NEW o \in Nat, NEW old \in Nat, NEW n \in Nat, NEW new \in Nat
    PROVE  AfterHunk(p, parseDiff(p, HunkLine(o, old, n, new)), old, n, new)
<1> DEFINE line == HunkLine(o, old, n, new)
<1>1. /\ parseHunkRange(line.old) = [start |-> o, count |-> old]
      /\ parseHunkRange(line.new) = [start |-> n, count |-> new]
  BY RangeRead DEF HunkLine
<1>2. [p EXCEPT !.remaining = 0] = p /\ ~(p.remaining > 0)
  BY NothingDropped
<1>3. line.is = "@@"
  BY DEF HunkLine
<1> HIDE DEF line
<1>4. parseDiff(p, line) =
        LET a == parseHunkRange(line.old)
            b == parseHunkRange(line.new)
        IN [p EXCEPT !.remaining = a.count + b.count,
                     !.changed = IF p.path = NoPath THEN p.changed
                                 ELSE p.changed \cup Lines(p.path, b.start, b.count)]
  BY <1>2, <1>3 DEF parseDiff
<1>5. /\ parseHunkRange(line.old).count = old
      /\ parseHunkRange(line.new).count = new
      /\ parseHunkRange(line.new).start = n
  BY <1>1
<1> QED BY <1>4, <1>5 DEF Parsers, AfterHunk, line

\* The lines of a range.
LEMMA LinesAre ==
    ASSUME NEW path \in Paths, NEW start \in Nat, NEW count \in Nat
    PROVE  /\ Lines(path, start, count) \subseteq {path} \X Nat
           /\ \A p, n : <<p, n>> \in Lines(path, start, count) <=>
                          p = path /\ n \in Nat /\ start <= n /\ n < start + count
BY DEF Lines

\* A path that the gate looks at.
LEMMA Destination ==
    ASSUME NEW target
    PROVE  /\ destinationPath(target) \in Relevant \cup {NoPath}
           /\ target \in Relevant => destinationPath(target) = target
           /\ target \notin Relevant => destinationPath(target) = NoPath
           /\ NoPath \notin Relevant /\ "/dev/null" \notin Relevant
BY GateAssumption DEF destinationPath

-----------------------------------------------------------------------------
(* The base *)

\* The base is the branch itself only if every other candidate is (selectBase).
LEMMA BaseIsOther ==
    ASSUME NEW repo \in Repositories, NEW configured
    PROVE  LET Own(r) == isOwnRef(fullName(r), repo.branch, repo.remotes)
           IN ~(Own(selectBase(repo, configured)) /\ \E r \in repo.refs \ {Commit} : ~Own(r))
<1> DEFINE Own(r) == isOwnRef(fullName(r), repo.branch, repo.remotes)
           candidates == <<configured>> \o defaultBaseCandidates
           usable == {k \in DOMAIN candidates : candidates[k] \in repo.refs /\ ~Own(candidates[k])}
           first == CHOOSE k \in usable : \A j \in usable : k <= j
<1>1. /\ DOMAIN candidates = 1..4
      /\ candidates[2] = OriginHead /\ candidates[3] = Main /\ candidates[4] = Develop
  BY DEF defaultBaseCandidates
<1>2. selectBase(repo, configured) = IF usable = {} THEN repo.upstream ELSE candidates[first]
  BY DEF selectBase
<1>3. repo.refs \subseteq {OriginHead, Main, Develop, Commit}
  BY DEF Repositories
<1> HIDE DEF Own, candidates
<1>4. CASE usable = {}
  <2>1. \A r \in repo.refs \ {Commit} : \E k \in DOMAIN candidates : r = candidates[k]
    BY <1>1, <1>3
  <2>2. \A r \in repo.refs \ {Commit} : Own(r)
    BY <1>4, <2>1
  <2> QED BY <2>2 DEF Own
<1>5. CASE usable # {}
  <2>1. \E k \in usable : \A j \in usable : k <= j
    <3>1. \A k \in usable : k \in 1..4
      BY <1>1
    <3> HIDE DEF usable
    <3>2. CASE 1 \in usable
      BY <3>1, <3>2
    <3>3. CASE 1 \notin usable /\ 2 \in usable
      BY <3>1, <3>3
    <3>4. CASE 1 \notin usable /\ 2 \notin usable /\ 3 \in usable
      BY <3>1, <3>4
    <3>5. CASE 1 \notin usable /\ 2 \notin usable /\ 3 \notin usable
      BY <1>5, <3>1, <3>5
    <3> QED BY <3>2, <3>3, <3>4, <3>5
  <2>2. first \in usable
    <3> HIDE DEF usable
    <3> QED BY <2>1
  <2>3. ~Own(candidates[first])
    BY <2>2
  <2>4. ~Own(selectBase(repo, configured))
    BY <1>2, <1>5, <2>3
  <2> QED BY <2>4 DEF Own
<1> QED BY <1>4, <1>5

-----------------------------------------------------------------------------
(* Statements *)

\* Nothing has no statements.
LEMMA NoStatements == Statements({}) = 0
<1> DEFINE F(g) == [s \in SUBSET {} |->
                      IF s = {} THEN 0
                      ELSE LET x == CHOOSE y \in s : TRUE IN x.stmts + g[s \ {x}]]
           g0 == [s \in SUBSET {} |-> 0]
           iter == CHOOSE g : g = F(g)
<1>1. SUBSET {} = {{}}
  OBVIOUS
<1>2. g0 = F(g0)
  <2>1. \A s \in SUBSET {} : g0[s] = F(g0)[s]
    BY <1>1
  <2> QED BY <2>1
<1>3. iter = F(iter)
  <2> HIDE DEF F, g0
  <2> QED BY <1>2
<1>4. iter[{}] = 0
  <2>1. F(iter)[{}] = 0
    BY <1>1
  <2> HIDE DEF F, iter
  <2> QED BY <1>3, <2>1
<1>5. Statements({}) = iter[{}]
  BY Zenon DEF Statements, MapThenSumSet, MapThenFoldSet
<1> QED BY <1>4, <1>5

-----------------------------------------------------------------------------
(* What a line does *)

\* The parser and git agree between hunks.
LEMMA Agree ==
    ASSUME TypeOK, InStep, Printing
    PROVE  /\ parser \in Parsers
           /\ parser.remaining = git.old + git.new
           /\ git.old \in Nat /\ git.new \in Nat
           /\ git.old + git.new = 0 => parser.remaining = 0 /\ git.old = 0 /\ git.new = 0
<1>1. parser \in Parsers /\ git.old \in Nat /\ git.new \in Nat
  BY DEF TypeOK, Parsers
<1>2. parser.remaining = git.old + git.new
  BY DEF InStep
<1> QED BY <1>1, <1>2

\* One line is read, or two.
LEMMA Reads ==
    ASSUME NEW one, NEW two
    PROVE  /\ Output(<<one>>) => parser' = parseDiff(parser, one)
           /\ Output(<<one, two>>) => parser' = parseDiff(parseDiff(parser, one), two)
BY DEF Output

\* A file of the diff begins.
LEMMA DiffHeaderReads ==
    ASSUME TypeOK, InStep, DiffHeader
    PROVE  parser' = [parser EXCEPT !.path = NoPath]
<1>1. Printing /\ git.old + git.new = 0
  BY DEF DiffHeader, Diffing
<1>2. parser \in Parsers /\ parser.remaining = 0
  BY <1>1, Agree
<1>3. parser' = parseDiff(parser, [is |-> "diff"])
  BY Reads DEF DiffHeader
<1> QED BY <1>2, <1>3, ReadHeaders

\* Its target is read.
LEMMA TargetReads ==
    ASSUME TypeOK, InStep, NEW target,
           Diffing, Output(<<[is |-> "---"], [is |-> "+++", path |-> target]>>)
    PROVE  parser' = [parser EXCEPT !.path = destinationPath(target)]
<1>1. parser \in Parsers /\ parser.remaining = 0
  BY Agree DEF Diffing
<1>2. parser' = parseDiff(parseDiff(parser, [is |-> "---"]), [is |-> "+++", path |-> target])
  BY Reads
<1>3. parseDiff(parser, [is |-> "---"]) = parser
  BY <1>1, ReadHeaders
<1> QED BY <1>1, <1>2, <1>3, ReadHeaders

\* A hunk begins.
LEMMA HunkReads ==
    ASSUME TypeOK, InStep, Diffing, NEW o \in Nat, NEW old \in Nat, NEW n \in Nat, NEW new \in Nat,
           Output(<<[is |-> "@@", old |-> HunkRange(o, old), new |-> HunkRange(n, new)]>>)
    PROVE  AfterHunk(parser, parser', old, n, new)
<1>1. parser \in Parsers /\ parser.remaining = 0
  BY Agree DEF Diffing
<1>2. Output(<<HunkLine(o, old, n, new)>>)
  BY DEF HunkLine
<1>3. parser' = parseDiff(parser, HunkLine(o, old, n, new))
  BY <1>2, Reads
<1> QED BY <1>1, <1>3, ReadHunk

\* A line of a hunk is read, and what is said of the end of its file.
LEMMA BodyReads ==
    ASSUME TypeOK, InStep, BodyLine
    PROVE  /\ parser' = [parser EXCEPT !.remaining = parser.remaining - 1]
           /\ parser'.remaining = git'.old + git'.new
           /\ \/ git.old > 0 /\ git' = [git EXCEPT !.old = git.old - 1]
              \/ git.old = 0 /\ git.new > 0 /\ git' = [git EXCEPT !.new = git.new - 1]
<1>1. /\ Printing /\ git.old + git.new > 0
      /\ parser \in Parsers /\ parser.remaining = git.old + git.new
      /\ git.old \in Nat /\ git.new \in Nat
  BY Agree DEF BodyLine
<1>2. ASSUME NEW line, line.is \in {"+", "+++", "-", "---"},
             Output(<<line>>) \/ Output(<<line, [is |-> "\\"]>>)
      PROVE  parser' = [parser EXCEPT !.remaining = parser.remaining - 1]
  <2>1. parser.remaining > 0
    BY <1>1
  <2>2. parseDiff(parser, line) = [parser EXCEPT !.remaining = parser.remaining - 1]
    BY <1>1, <1>2, <2>1, ReadBody
  <2>3. parseDiff(parser, line) \in Parsers
    <3>1. parser.remaining - 1 \in Nat
      BY <1>1, <2>1
    <3> QED BY <1>1, <2>2, <3>1 DEF Parsers
  <2>4. parseDiff(parseDiff(parser, line), [is |-> "\\"]) = parseDiff(parser, line)
    BY <2>3, ReadNote
  <2>5. parser' = parseDiff(parser, line)
    BY <1>2, <2>4, Reads
  <2> QED BY <2>2, <2>5
<1>3. /\ parser' = [parser EXCEPT !.remaining = parser.remaining - 1]
      /\ \/ git.old > 0 /\ git' = [git EXCEPT !.old = git.old - 1]
         \/ git.old = 0 /\ git.new > 0 /\ git' = [git EXCEPT !.new = git.new - 1]
  <2>1. CASE git.old > 0
    <3>1. /\ git' = [git EXCEPT !.old = git.old - 1]
          /\ \E is \in {"-", "---"} : \/ Output(<<[is |-> is]>>)
                                      \/ Output(<<[is |-> is], [is |-> "\\"]>>)
      BY <2>1 DEF BodyLine
    <3>2. PICK is \in {"-", "---"} : \/ Output(<<[is |-> is]>>)
                                     \/ Output(<<[is |-> is], [is |-> "\\"]>>)
      BY <3>1
    <3>3. [is |-> is].is \in {"+", "+++", "-", "---"}
      OBVIOUS
    <3>4. parser' = [parser EXCEPT !.remaining = parser.remaining - 1]
      BY <1>2, <3>2, <3>3
    <3> QED BY <2>1, <3>1, <3>4
  <2>2. CASE ~(git.old > 0)
    <3>1. /\ git' = [git EXCEPT !.new = git.new - 1]
          /\ \/ Output(<<[is |-> "+"]>>) \/ Output(<<[is |-> "+"], [is |-> "\\"]>>)
             \/ \E path \in Paths \cup {"/dev/null"} :
                  \/ Output(<<[is |-> "+++", path |-> path]>>)
                  \/ Output(<<[is |-> "+++", path |-> path], [is |-> "\\"]>>)
      BY <2>2 DEF BodyLine
    <3>2. CASE Output(<<[is |-> "+"]>>) \/ Output(<<[is |-> "+"], [is |-> "\\"]>>)
      <4>1. [is |-> "+"].is \in {"+", "+++", "-", "---"}
        OBVIOUS
      <4>2. parser' = [parser EXCEPT !.remaining = parser.remaining - 1]
        BY <1>2, <3>2, <4>1
      <4> QED BY <1>1, <2>2, <3>1, <4>2
    <3>3. ASSUME NEW path \in Paths \cup {"/dev/null"},
                 \/ Output(<<[is |-> "+++", path |-> path]>>)
                 \/ Output(<<[is |-> "+++", path |-> path], [is |-> "\\"]>>)
          PROVE  parser' = [parser EXCEPT !.remaining = parser.remaining - 1]
      <4>1. [is |-> "+++", path |-> path].is \in {"+", "+++", "-", "---"}
        OBVIOUS
      <4> QED BY <1>2, <3>3, <4>1
    <3>4. git.old = 0 /\ git.new > 0
      BY <1>1, <2>2
    <3> QED BY <3>1, <3>2, <3>3, <3>4
  <2> QED BY <2>1, <2>2
<1>4. parser'.remaining = git'.old + git'.new
  <2>1. parser'.remaining = git.old + git.new - 1
    <3>1. parser'.remaining = parser.remaining - 1
      BY <1>1, <1>3 DEF Parsers
    <3> QED BY <1>1, <3>1
  <2>2. git \in [files : SUBSET Paths, path : Paths \cup {NoPath},
                 target : Paths \cup {NoPath, "/dev/null"}, next : Nat \ {0}, old : Nat, new : Nat, hunks : 0..MaxHunks]
    BY DEF TypeOK
  <2>3. \/ git'.old = git.old - 1 /\ git'.new = git.new
        \/ git'.old = git.old /\ git'.new = git.new - 1
    BY <1>3, <2>2
  <2> QED BY <1>1, <2>1, <2>3
<1> QED BY <1>3, <1>4

\* A hunk moves nothing that its own diff has written, since it is behind all that.
LEMMA HunkWrites ==
    ASSUME TypeOK, InOrder, Diffing, git.path # NoPath,
           NEW start \in Nat, NEW old \in Nat, NEW new \in Nat, Hunk(start, old, new)
    PROVE  /\ truth' \subseteq Paths \X Nat
           /\ git'.next \in Nat \ {0}
           /\ git' = [git EXCEPT !.next = git'.next, !.old = old, !.new = new,
                                 !.hunks = git.hunks + 1]
           /\ \A p \in Paths, n \in Nat :
                p # git.path => (<<p, n>> \in truth' <=> <<p, n>> \in truth)
           /\ git.path \notin Other => \A n \in Nat :
                /\ <<git.path, n>> \in truth' <=>
                     <<git.path, n>> \in truth \/ <<git.path, n>> \in Lines(git.path, start, new)
                /\ <<git.path, n>> \in truth' => n < git'.next
<1> DEFINE first == IF new = 0 THEN start + 1 ELSE start
<1>3. first \in Nat
  OBVIOUS
<1> DEFINE path == git.path
           kept == {l \in truth : l[1] # path \/ l[2] < first}
           below == {m \in truth : m[1] = path /\ m[2] >= first + old}
           moved == {<<l[1], l[2] + new - old>> : l \in below}
           written == Lines(path, first, new)
<1>1. /\ first >= git.next
      /\ git' = [git EXCEPT !.next = first + new + 1, !.old = old, !.new = new,
                            !.hunks = git.hunks + 1]
      /\ truth' = kept \cup moved \cup written
  BY DEF Hunk
<1>2. path \in Paths /\ git.next \in Nat \ {0} /\ truth \subseteq Paths \X Nat
  BY DEF TypeOK
<1>4. git'.next = first + new + 1 /\ git'.next \in Nat \ {0}
  <2>1. git'.next = first + new + 1
    BY <1>1 DEF TypeOK
  <2> QED BY <1>3, <2>1
<1>5. /\ written \subseteq {path} \X Nat
      /\ \A p, n : <<p, n>> \in written <=> p = path /\ n \in Nat /\ first <= n /\ n < first + new
  <2> HIDE DEF first
  <2> QED BY <1>2, <1>3, LinesAre
<1>6. \A n \in Nat : <<path, n>> \in written <=> <<path, n>> \in Lines(path, start, new)
  <2>1. \A p, n : <<p, n>> \in Lines(path, start, new) <=>
                    p = path /\ n \in Nat /\ start <= n /\ n < start + new
    BY <1>2, LinesAre
  <2> HIDE DEF written
  <2> QED BY <1>5, <2>1
<1> HIDE DEF written
<1>7. moved \subseteq {path} \X Nat
  <2>1. ASSUME NEW l \in below PROVE <<l[1], l[2] + new - old>> \in {path} \X Nat
    <3>1. l[1] = path /\ l[2] \in Nat /\ l[2] >= first + old
      BY <1>2
    <3>2. l[2] + new - old \in Nat
      BY <1>3, <3>1
    <3> QED BY <3>1, <3>2
  <2> HIDE DEF below
  <2> QED BY <2>1
<1>8. truth' \subseteq Paths \X Nat
  BY <1>1, <1>2, <1>5, <1>7
<1>9. ASSUME NEW p \in Paths, NEW n \in Nat, p # path
      PROVE  <<p, n>> \in truth' <=> <<p, n>> \in truth
  <2>1. <<p, n>> \in kept <=> <<p, n>> \in truth
    BY <1>9
  <2>2. <<p, n>> \notin moved /\ <<p, n>> \notin written
    <3> HIDE DEF moved
    <3> QED BY <1>5, <1>7, <1>9
  <2> HIDE DEF kept, moved
  <2> QED BY <1>1, <2>1, <2>2
<1>10. ASSUME path \notin Other, NEW n \in Nat
       PROVE  /\ <<path, n>> \in truth' <=>
                   <<path, n>> \in truth \/ <<path, n>> \in Lines(path, start, new)
              /\ <<path, n>> \in truth' => n < git'.next
  <2>1. \A k \in Nat : <<path, k>> \in truth => k < git.next
    BY <1>10 DEF InOrder, Diffing
  <2>2. below = {}
    <3>1. ASSUME NEW l \in below PROVE FALSE
      <4>1. l = <<path, l[2]>> /\ l[2] \in Nat /\ l[2] >= first + old /\ l \in truth
        BY <1>2
      <4>2. l[2] < git.next
        BY <2>1, <4>1
      <4> QED BY <1>1, <1>2, <1>3, <4>1, <4>2
    <3> QED BY <3>1
  <2>3. moved = {}
    <3> HIDE DEF below
    <3> QED BY <2>2
  <2>4. <<path, n>> \in kept <=> <<path, n>> \in truth
    <3>1. <<path, n>> \in truth => n < first
      BY <1>1, <1>2, <1>3, <2>1
    <3> HIDE DEF first
    <3> QED BY <3>1
  <2>5. <<path, n>> \in truth' <=>
          <<path, n>> \in truth \/ <<path, n>> \in Lines(path, start, new)
    <3> HIDE DEF kept, moved
    <3> QED BY <1>1, <1>6, <2>3, <2>4
  <2>6. <<path, n>> \in truth => n < git'.next
    BY <1>1, <1>2, <1>3, <1>4, <2>1
  <2>7. <<path, n>> \in written => n < git'.next
    BY <1>3, <1>4, <1>5
  <2> QED BY <1>6, <2>5, <2>6, <2>7
<1> QED BY <1>1, <1>4, <1>8, <1>9, <1>10

-----------------------------------------------------------------------------
(* Its steps *)

\* The invariant holds before a base is chosen.
LEMMA InitIInv == Init => IInv
<1> SUFFICES ASSUME Init PROVE IInv
  OBVIOUS
<1>1. NoGit \in [files : SUBSET Paths, path : Paths \cup {NoPath},
                 target : Paths \cup {NoPath, "/dev/null"},
                 next : Nat \ {0}, old : Nat, new : Nat, hunks : 0..MaxHunks]
  BY GateAssumption DEF NoGit
<1>2. NoParser \in Parsers
  BY DEF NoParser, Parsers
<1>3. 0 \in 0..MaxReports
  BY GateAssumption
<1>4. TypeOK
  BY <1>1, <1>2, <1>3 DEF Init, TypeOK, Parsers
<1>5. InStep /\ InOrder
  BY DEF Init, InStep, InOrder, Printing
<1>6. Recorded
  BY DEF Init, Recorded, NoParser
<1>7. Kept
  BY DEF Init, Kept
<1>8. Concluded
  BY DEF Init, Concluded, GreenIsEarned
<1> QED BY <1>4, <1>5, <1>6, <1>7, <1>8 DEF IInv

\* The state of git keeps its type.
GitType ==
    [files : SUBSET Paths, path : Paths \cup {NoPath}, target : Paths \cup {NoPath, "/dev/null"},
     next : Nat \ {0}, old : Nat, new : Nat, hunks : 0..MaxHunks]

\* So does everything else.
LEMMA TypeStep == IInv /\ [Next]_vars => TypeOK'
<1> SUFFICES ASSUME IInv, [Next]_vars PROVE TypeOK'
  OBVIOUS
<1>1. TypeOK /\ InStep /\ InOrder
  BY DEF IInv
<1>2. git \in GitType /\ parser \in Parsers /\ MaxHunks \in Nat
  BY <1>1, GateAssumption DEF TypeOK, GitType, Parsers
<1>3. CASE SelectBase
  <2>1. PICK repo \in Repositories, setting, env \in Settings :
          LET configured == configuredBaseRef(setting, env)
              ref == selectBase(repo, configured)
              Own(r) == isOwnRef(fullName(r), repo.branch, repo.remotes)
          IN \/ base' = base
             \/ base' = [own |-> Own(ref), other |-> \E r \in repo.refs \ {Commit} : ~Own(r)]
    BY <1>3 DEF SelectBase
  <2> DEFINE own == isOwnRef(fullName(selectBase(repo, configuredBaseRef(setting, env))),
                             repo.branch, repo.remotes)
             other == \E r \in repo.refs \ {Commit} :
                        ~isOwnRef(fullName(r), repo.branch, repo.remotes)
  <2>2. own \in BOOLEAN /\ other \in BOOLEAN
    BY DEF isOwnRef
  <2>3. base' \in [own : BOOLEAN, other : BOOLEAN]
    <3>1. base' = base \/ base' = [own |-> own, other |-> other]
      BY <2>1
    <3>2. base \in [own : BOOLEAN, other : BOOLEAN]
      BY <1>1 DEF TypeOK
    <3> HIDE DEF own, other
    <3>3. [own |-> own, other |-> other] \in [own : BOOLEAN, other : BOOLEAN]
      BY <2>2
    <3> QED BY <3>1, <3>2, <3>3
  <2>4. /\ step' \in {"done", "tree", "branch"}
        /\ exit' = exit \/ exit' = "broken"
    BY <1>3 DEF SelectBase, Exit
  <2> QED BY <1>1, <1>3, <2>3, <2>4 DEF SelectBase, TypeOK
<1>4. CASE DiffHeader
  <2>1. parser' \in Parsers
    BY <1>1, <1>2, <1>4, DiffHeaderReads DEF Parsers
  <2>2. PICK path \in Paths \ (git.files \cup gone) :
          git' = [NoGit EXCEPT !.files = git.files \cup {path}, !.path = path, !.hunks = git.hunks]
    BY <1>4 DEF DiffHeader
  <2>3. git' = [files |-> git.files \cup {path}, path |-> path, target |-> NoPath, next |-> 1,
               old |-> 0, new |-> 0, hunks |-> git.hunks]
    BY <2>2 DEF NoGit
  <2>4. git.files \cup {path} \subseteq Paths /\ git.hunks \in 0..MaxHunks
    BY <1>2, <2>2 DEF GitType
  <2>5. git' \in GitType
    BY <2>3, <2>4 DEF GitType
  <2> QED BY <1>1, <1>4, <2>1, <2>5 DEF DiffHeader, Output, TypeOK, GitType, Parsers
<1>5. CASE TargetHeader
  <2>1. PICK target \in {git.path, "/dev/null"} :
          /\ git' = [git EXCEPT !.target = target]
          /\ Output(<<[is |-> "---"], [is |-> "+++", path |-> target]>>)
          /\ gone' = IF target = git.path THEN gone ELSE gone \cup {git.path}
    BY <1>5 DEF TargetHeader
  <2>2. git.path \in Paths /\ Diffing
    BY <1>2, <1>5 DEF TargetHeader, GitType
  <2>3. parser' = [parser EXCEPT !.path = destinationPath(target)]
    BY <1>1, <2>1, <2>2, TargetReads
  <2>4. parser' \in Parsers
    BY <1>2, <2>3, Destination DEF Parsers
  <2>5. git' \in GitType /\ gone' \subseteq Paths
    BY <1>1, <1>2, <2>1, <2>2 DEF GitType, TypeOK
  <2> QED BY <1>1, <1>5, <2>1, <2>4, <2>5 DEF TargetHeader, Output, TypeOK, GitType, Parsers
<1>6. CASE HunkHeader
  <2>1. Diffing /\ git.path # NoPath /\ git.path \in Paths
    BY <1>2, <1>6 DEF HunkHeader, GitType
  <2>2. PICK start \in 0..MaxLine, old, new \in 0..MaxCount : Hunk(start, old, new)
    BY <1>6 DEF HunkHeader
  <2>3. start \in Nat /\ old \in Nat /\ new \in Nat
    OBVIOUS
  <2>4. /\ truth' \subseteq Paths \X Nat
        /\ git'.next \in Nat \ {0}
        /\ git' = [git EXCEPT !.next = git'.next, !.old = old, !.new = new,
                              !.hunks = git.hunks + 1]
    BY <1>1, <2>1, <2>2, <2>3, HunkWrites
  <2>5. git.hunks + 1 \in 0..MaxHunks
    BY <1>2, <2>2 DEF Hunk, GitType
  <2>6. git' \in GitType
    <3>1. git' = [files |-> git.files, path |-> git.path, target |-> git.target, next |-> git'.next,
                 old |-> old, new |-> new, hunks |-> git.hunks + 1]
      BY <1>2, <2>4 DEF GitType
    <3>2. git.files \subseteq Paths /\ git.path \in Paths \cup {NoPath}
          /\ git.target \in Paths \cup {NoPath, "/dev/null"}
      BY <1>2 DEF GitType
    <3>3. git'.next \in Nat \ {0}
      BY <2>4
    <3> QED BY <2>3, <2>5, <3>1, <3>2, <3>3 DEF GitType
  <2>7. PICK o \in Nat : Output(<<HunkLine(o, old, start, new)>>)
    <3>1. (IF new = 0 THEN start + 1 ELSE start) \in Nat
      BY <2>3
    <3> QED BY <2>2, <3>1 DEF Hunk, HunkLine
  <2>8. AfterHunk(parser, parser', old, start, new)
    BY <1>1, <2>1, <2>3, <2>7, HunkReads DEF HunkLine
  <2>9. parser.path # NoPath => Lines(parser.path, start, new) \subseteq Relevant \X Nat
    <3>1. parser.path # NoPath => parser.path \in Relevant /\ parser.path \in Paths
      BY <1>2, GateAssumption DEF Parsers
    <3>2. parser.path # NoPath => Lines(parser.path, start, new) \subseteq {parser.path} \X Nat
      BY <2>3, <3>1, LinesAre
    <3> QED BY <3>1, <3>2
  <2>10. parser' \in Parsers
    BY <1>2, <2>3, <2>8, <2>9 DEF AfterHunk, Parsers
  <2>11. edited' \in [branch : SUBSET Paths, tree : SUBSET Paths]
    BY <1>1, <2>1, <2>2 DEF Hunk, TypeOK, Diffing, Printing
  <2> QED BY <1>1, <2>2, <2>4, <2>6, <2>10, <2>11 DEF Hunk, Output, TypeOK, GitType, Parsers
<1>7. CASE DeletionHeader
  <2>1. /\ Diffing /\ git.hunks < MaxHunks
        /\ git' = [git EXCEPT !.next = 2, !.old = MaxCount, !.hunks = git.hunks + 1]
        /\ Output(<<[is |-> "@@", old |-> HunkRange(1, MaxCount), new |-> HunkRange(0, 0)]>>)
    BY <1>7 DEF DeletionHeader, HunkRange
  <2>2. MaxCount \in Nat /\ 0 \in Nat /\ 1 \in Nat
    BY GateAssumption
  <2>3. git.hunks + 1 \in 0..MaxHunks
    BY <1>2, <2>1 DEF GitType
  <2>4. git' \in GitType
    <3>1. git' = [files |-> git.files, path |-> git.path, target |-> git.target, next |-> 2,
                 old |-> MaxCount, new |-> git.new, hunks |-> git.hunks + 1]
      BY <1>2, <2>1 DEF GitType
    <3>2. /\ git.files \subseteq Paths /\ git.path \in Paths \cup {NoPath}
          /\ git.target \in Paths \cup {NoPath, "/dev/null"} /\ git.new \in Nat
      BY <1>2 DEF GitType
    <3> QED BY <2>2, <2>3, <3>1, <3>2 DEF GitType
  <2>5. AfterHunk(parser, parser', MaxCount, 0, 0)
    BY <1>1, <2>1, <2>2, HunkReads
  <2>6. parser.path # NoPath => Lines(parser.path, 0, 0) \subseteq Relevant \X Nat
    BY DEF Lines
  <2>7. parser' \in Parsers
    BY <1>2, <2>2, <2>5, <2>6 DEF AfterHunk, Parsers
  <2> QED BY <1>1, <1>7, <2>4, <2>7 DEF DeletionHeader, Output, TypeOK, GitType, Parsers
<1>8. CASE BodyLine
  <2>1. /\ parser' = [parser EXCEPT !.remaining = parser.remaining - 1]
        /\ parser'.remaining = git'.old + git'.new
        /\ \/ git.old > 0 /\ git' = [git EXCEPT !.old = git.old - 1]
           \/ git.old = 0 /\ git.new > 0 /\ git' = [git EXCEPT !.new = git.new - 1]
    BY <1>1, <1>8, BodyReads
  <2>2. git' \in GitType
    BY <1>2, <2>1 DEF GitType
  <2>3. parser.remaining - 1 \in Nat
    <3>1. git'.old + git'.new \in Nat
      BY <2>2 DEF GitType
    <3> QED BY <1>2, <2>1, <3>1 DEF Parsers
  <2>4. parser' \in Parsers
    BY <1>2, <2>1, <2>3 DEF Parsers
  <2> QED BY <1>1, <1>8, <2>2, <2>4 DEF BodyLine, Output, TypeOK, GitType, Parsers
<1>9. CASE EndDiff
  <2>1. git' \in GitType
    BY <1>2, <1>9 DEF EndDiff, GitType, NoGit
  <2>2. parser' \in Parsers /\ changed' \subseteq Relevant \X Nat
    BY <1>1, <1>2, <1>9 DEF EndDiff, Parsers, NoParser, TypeOK
  <2> QED BY <1>1, <1>9, <2>1, <2>2 DEF EndDiff, Diffing, Printing, TypeOK, GitType, Parsers
<1>10. CASE Untracked
  <2>1. PICK files \in SUBSET (Paths \ (gone \cup edited.branch \cup edited.tree)),
             count \in 0..MaxCount :
          /\ changed' = {l \in changed : l[1] \notin gone}
                          \cup UNION {Lines(f, 1, count) : f \in files \cap Relevant}
          /\ truth' = truth \cup UNION {Lines(f, 1, count) : f \in files}
    BY <1>10 DEF Untracked
  <2>2. count \in Nat /\ 1 \in Nat
    BY GateAssumption
  <2>3. \A f \in files : Lines(f, 1, count) \subseteq {f} \X Nat
    BY <2>2, LinesAre
  <2>4. truth' \subseteq Paths \X Nat /\ changed' \subseteq Relevant \X Nat
    BY <1>1, <2>1, <2>3 DEF TypeOK
  <2> QED BY <1>1, <1>10, <2>4 DEF Untracked, TypeOK, Exit
<1>11. CASE runCoverage
  BY <1>1, <1>11 DEF runCoverage, TypeOK, Exit
<1>12. CASE parseProfile
  <2>1. PICK b \in Blocks, count \in {0, 1} :
          /\ profile' = merge(profile, b, count)
          /\ tested' = IF count > 0 THEN tested \cup {b} ELSE tested
    BY <1>12 DEF parseProfile
  <2>2. profile' \in [Blocks -> {-1, 0, 1}]
    BY <1>1, <2>1 DEF merge, TypeOK
  <2>3. reports' \in 0..MaxReports
    BY <1>1, <1>12, GateAssumption DEF parseProfile, TypeOK
  <2>4. tested' \subseteq Blocks
    BY <1>1, <2>1 DEF TypeOK
  <2> QED BY <1>1, <1>12, <2>2, <2>3, <2>4 DEF parseProfile, TypeOK
<1>13. CASE Conclude
  BY <1>1, <1>13 DEF Conclude, TypeOK, Exit
<1>14. CASE Fails
  BY <1>1, <1>14 DEF Fails, TypeOK, Exit
<1>15. CASE UNCHANGED vars
  BY <1>1, <1>15 DEF vars, TypeOK
<1> QED
  BY <1>3, <1>4, <1>5, <1>6, <1>7, <1>8, <1>9, <1>10, <1>11, <1>12, <1>13, <1>14, <1>15 DEF Next

\* The diff that a step of git belongs to goes on, and the other one is as it was.
LEMMA Goes ==
    ASSUME TypeOK, Printing, git.path \in Paths, step' = step,
           edited' = [edited EXCEPT ![step] = edited[step] \cup {git.path}]
    PROVE  /\ Other' = Other
           /\ edited'[step] = edited[step] \cup {git.path}
           /\ step = "branch" => edited'.tree = edited.tree
           /\ edited'.branch \cup edited'.tree = edited.branch \cup edited.tree \cup {git.path}
           /\ \A p \in Paths : p # git.path =>
                (p \in edited'.branch \cap edited'.tree <=> p \in edited.branch \cap edited.tree)
           /\ git.path \notin edited'.branch \cap edited'.tree => git.path \notin Other
<1>1. edited \in [branch : SUBSET Paths, tree : SUBSET Paths]
  BY DEF TypeOK
<1>2. CASE step = "branch"
  <2>1. edited' = [branch |-> edited.branch \cup {git.path}, tree |-> edited.tree]
    BY <1>1, <1>2
  <2> QED BY <1>2, <2>1 DEF Other
<1>3. CASE step = "tree"
  <2>1. edited' = [branch |-> edited.branch, tree |-> edited.tree \cup {git.path}]
    BY <1>1, <1>3
  <2> QED BY <1>3, <2>1 DEF Other
<1> QED BY <1>2, <1>3 DEF Printing

\* What a hunk does to the parser and the files.
LEMMA HunkDoes ==
    ASSUME IInv, HunkHeader
    PROVE  \E start, old, new \in Nat :
             /\ Hunk(start, old, new)
             /\ AfterHunk(parser, parser', old, start, new)
             /\ Diffing /\ git.path \in Paths /\ git.target = git.path
             /\ edited' = [edited EXCEPT ![step] = edited[step] \cup {git.path}]
             /\ git' = [git EXCEPT !.next = git'.next, !.old = old, !.new = new,
                                   !.hunks = git.hunks + 1]
             /\ UNCHANGED <<step, base, changed, profile, reports, exit, gone, tested>>
<1>1. TypeOK /\ InStep /\ InOrder
  BY DEF IInv
<1>2. Diffing /\ git.path # NoPath /\ git.path \in Paths /\ git.target = git.path
  BY <1>1 DEF HunkHeader, TypeOK
<1>3. PICK start \in 0..MaxLine, old, new \in 0..MaxCount : Hunk(start, old, new)
  BY DEF HunkHeader
<1>4. start \in Nat /\ old \in Nat /\ new \in Nat
  OBVIOUS
<1>5. git' = [git EXCEPT !.next = git'.next, !.old = old, !.new = new, !.hunks = git.hunks + 1]
  BY <1>1, <1>2, <1>3, <1>4, HunkWrites
<1>6. PICK o \in Nat : Output(<<HunkLine(o, old, start, new)>>)
  <2>1. (IF new = 0 THEN start + 1 ELSE start) \in Nat
    BY <1>4
  <2> QED BY <1>3, <2>1 DEF Hunk, HunkLine
<1>7. AfterHunk(parser, parser', old, start, new)
  BY <1>1, <1>2, <1>4, <1>6, HunkReads DEF HunkLine
<1>8. edited' = [edited EXCEPT ![step] = edited[step] \cup {git.path}]
  BY <1>3 DEF Hunk
<1>9. UNCHANGED <<step, base, changed, profile, reports, exit, gone, tested>>
  BY <1>3 DEF Hunk, Output
<1> QED BY <1>2, <1>3, <1>4, <1>5, <1>7, <1>8, <1>9

\* What the hunk of a deleted file does: its lines are nowhere.
LEMMA DeletionDoes ==
    ASSUME IInv, DeletionHeader
    PROVE  /\ Diffing /\ git.path \in gone /\ git.new = 0 /\ MaxCount \in Nat
           /\ parser' = [parser EXCEPT !.remaining = MaxCount]
           /\ git' = [git EXCEPT !.next = 2, !.old = MaxCount, !.hunks = git.hunks + 1]
           /\ truth' = {l \in truth : l[1] # git.path}
           /\ UNCHANGED <<step, base, changed, profile, reports, exit, edited, gone, tested>>
<1>1. TypeOK /\ InStep
  BY DEF IInv
<1>2. /\ Diffing /\ git.target = "/dev/null"
      /\ git' = [git EXCEPT !.next = 2, !.old = MaxCount, !.hunks = git.hunks + 1]
      /\ Output(<<[is |-> "@@", old |-> HunkRange(1, MaxCount), new |-> HunkRange(0, 0)]>>)
      /\ truth' = {l \in truth : l[1] # git.path}
      /\ UNCHANGED <<edited, gone, tested>>
  BY DEF DeletionHeader, HunkRange
<1>3. MaxCount \in Nat /\ 0 \in Nat /\ 1 \in Nat
  BY GateAssumption
<1>4. AfterHunk(parser, parser', MaxCount, 0, 0)
  BY <1>1, <1>2, <1>3, HunkReads
<1>5. parser \in Parsers /\ git.new = 0
  BY <1>1, <1>2, Agree DEF Diffing
<1>6. parser.path = NoPath
  BY <1>1, <1>2, Destination DEF InStep, Diffing
<1>7. parser' = [parser EXCEPT !.remaining = MaxCount]
  <2>1. parser' = [path |-> parser.path, remaining |-> MaxCount, changed |-> parser.changed]
    BY <1>3, <1>4, <1>6 DEF AfterHunk
  <2> QED BY <1>5, <2>1 DEF Parsers
<1>8. git.path \in gone
  BY <1>1, <1>2 DEF InStep, Diffing
<1>9. UNCHANGED <<step, base, changed, profile, reports, exit>>
  BY <1>2 DEF Output
<1> QED BY <1>2, <1>3, <1>5, <1>7, <1>8, <1>9

\* The parser stays in step with git.
LEMMA InStepStep == IInv /\ [Next]_vars => InStep'
<1> SUFFICES ASSUME IInv, [Next]_vars PROVE InStep'
  OBVIOUS
<1>1. TypeOK /\ InStep /\ InOrder
  BY DEF IInv
<1>2. git \in GitType /\ parser \in Parsers
  BY <1>1 DEF TypeOK, GitType, Parsers
<1>3. CASE SelectBase
  <2>1. /\ step = "base" /\ step' \in {"done", "tree", "branch"}
        /\ UNCHANGED <<git, parser, changed, truth, edited, gone>>
    BY <1>3 DEF SelectBase, Exit
  <2>2. /\ git = NoGit /\ parser = NoParser /\ truth = {} /\ changed = {}
        /\ edited.branch = {} /\ edited.tree = {}
    BY <1>1, <2>1 DEF InStep
  <2>3. NoPath = destinationPath(NoPath) /\ NoPath # "/dev/null"
    BY Destination DEF destinationPath, NoPath
  <2>4. /\ git.old + git.new = 0 /\ git.target = NoPath /\ git.path = NoPath
        /\ parser.remaining = 0 /\ parser.path = NoPath
    BY <2>2 DEF NoGit, NoParser
  <2> QED BY <2>1, <2>2, <2>3, <2>4 DEF InStep, Printing
<1>4. CASE DiffHeader
  <2>1. Diffing /\ UNCHANGED <<step, changed, truth, edited, gone>>
    BY <1>4 DEF DiffHeader, Output
  <2>2. parser' = [parser EXCEPT !.path = NoPath]
    BY <1>1, <1>4, DiffHeaderReads
  <2>3. PICK path \in Paths \ (git.files \cup gone) :
          git' = [NoGit EXCEPT !.files = git.files \cup {path}, !.path = path, !.hunks = git.hunks]
    BY <1>4 DEF DiffHeader
  <2>4. git' = [files |-> git.files \cup {path}, path |-> path, target |-> NoPath, next |-> 1,
               old |-> 0, new |-> 0, hunks |-> git.hunks]
    BY <2>3 DEF NoGit
  <2>5. NoPath = destinationPath(NoPath) /\ NoPath # "/dev/null"
    BY Destination DEF destinationPath, NoPath
  <2>6. parser'.remaining = 0 /\ parser'.path = NoPath
    BY <1>1, <1>2, <2>1, <2>2, Agree DEF Parsers, Diffing
  <2>7. edited[step] \subseteq git'.files
    BY <1>1, <2>1, <2>4 DEF InStep, Diffing
  <2>8. git'.old + git'.new = 0 /\ git'.target = NoPath /\ git'.path \in git'.files
    BY <2>4
  <2> QED BY <1>1, <2>1, <2>5, <2>6, <2>7, <2>8 DEF InStep, Diffing, Printing
<1>5. CASE TargetHeader
  <2>1. PICK target \in {git.path, "/dev/null"} :
          /\ git' = [git EXCEPT !.target = target]
          /\ Output(<<[is |-> "---"], [is |-> "+++", path |-> target]>>)
          /\ gone' = IF target = git.path THEN gone ELSE gone \cup {git.path}
    BY <1>5 DEF TargetHeader
  <2>2. git.path \in Paths /\ Diffing /\ UNCHANGED <<truth, edited, tested>>
    BY <1>2, <1>5 DEF TargetHeader, GitType
  <2>3. parser' = [parser EXCEPT !.path = destinationPath(target)]
    BY <1>1, <2>1, <2>2, TargetReads
  <2>4. UNCHANGED <<step, changed>>
    BY <2>1 DEF Output
  <2>5. /\ git'.old = git.old /\ git'.new = git.new /\ git'.path = git.path
        /\ git'.files = git.files /\ git'.target = target
        /\ parser'.remaining = parser.remaining /\ parser'.path = destinationPath(target)
    BY <1>2, <2>1, <2>3 DEF GitType, Parsers
  <2>6. git'.target = "/dev/null" => git'.path \in gone'
    BY <2>1, <2>2, <2>5, GateAssumption
  <2> QED BY <1>1, <2>2, <2>4, <2>5, <2>6 DEF InStep, Diffing, Printing
<1>6. CASE HunkHeader
  <2>1. PICK start, old, new \in Nat :
             /\ Hunk(start, old, new)
             /\ AfterHunk(parser, parser', old, start, new)
             /\ Diffing /\ git.path \in Paths /\ git.target = git.path
             /\ edited' = [edited EXCEPT ![step] = edited[step] \cup {git.path}]
             /\ git' = [git EXCEPT !.next = git'.next, !.old = old, !.new = new,
                                   !.hunks = git.hunks + 1]
             /\ UNCHANGED <<step, base, changed, profile, reports, exit, gone, tested>>
    BY <1>6, HunkDoes
  <2>2. /\ git'.old = old /\ git'.new = new /\ git'.path = git.path
        /\ git'.files = git.files /\ git'.target = git.target
    BY <1>2, <2>1 DEF GitType
  <2>3. parser'.remaining = old + new /\ parser'.path = parser.path
    BY <2>1 DEF AfterHunk
  <2>4. /\ edited'[step] = edited[step] \cup {git.path}
        /\ step = "branch" => edited'.tree = edited.tree
    BY <1>1, <2>1, Goes DEF Diffing
  <2>5. git.path \in git.files
    BY <1>1, <2>1, GateAssumption DEF InStep, Diffing
  <2> QED BY <1>1, <2>1, <2>2, <2>3, <2>4, <2>5 DEF InStep, Diffing, Printing
<1>7. CASE DeletionHeader
  <2>1. /\ Diffing /\ git.path \in gone /\ git.new = 0 /\ MaxCount \in Nat
        /\ parser' = [parser EXCEPT !.remaining = MaxCount]
        /\ git' = [git EXCEPT !.next = 2, !.old = MaxCount, !.hunks = git.hunks + 1]
        /\ UNCHANGED <<step, base, changed, profile, reports, exit, edited, gone, tested>>
    BY <1>7, DeletionDoes
  <2>2. /\ git'.old = MaxCount /\ git'.new = 0 /\ git'.path = git.path
        /\ git'.files = git.files /\ git'.target = git.target
        /\ parser'.remaining = MaxCount /\ parser'.path = parser.path
    BY <1>2, <2>1 DEF GitType, Parsers
  <2> QED BY <1>1, <2>1, <2>2 DEF InStep, Diffing, Printing
<1>8. CASE BodyLine
  <2>1. /\ parser' = [parser EXCEPT !.remaining = parser.remaining - 1]
        /\ parser'.remaining = git'.old + git'.new
        /\ \/ git.old > 0 /\ git' = [git EXCEPT !.old = git.old - 1]
           \/ git.old = 0 /\ git.new > 0 /\ git' = [git EXCEPT !.new = git.new - 1]
    BY <1>1, <1>8, BodyReads
  <2>2. Printing /\ UNCHANGED <<step, changed, truth, edited, gone>>
    BY <1>8 DEF BodyLine, Output
  <2>3. /\ git'.path = git.path /\ git'.files = git.files /\ git'.target = git.target
        /\ parser'.path = parser.path
    BY <1>2, <2>1 DEF GitType, Parsers
  <2> QED BY <1>1, <2>1, <2>2, <2>3 DEF InStep, Printing
<1>9. CASE EndDiff
  <2>1. /\ Printing /\ step' = IF step = "branch" THEN "tree" ELSE "untracked"
        /\ git' = [NoGit EXCEPT !.hunks = git.hunks]
        /\ parser' = NoParser /\ UNCHANGED <<truth, edited, gone>>
    BY <1>9 DEF EndDiff, Diffing
  <2>2. NoPath = destinationPath(NoPath) /\ NoPath # "/dev/null"
    BY Destination DEF destinationPath, NoPath
  <2>3. /\ git'.old + git'.new = 0 /\ git'.target = NoPath /\ git'.path = NoPath
        /\ parser'.remaining = 0 /\ parser'.path = NoPath
    BY <2>1 DEF NoGit, NoParser
  <2>4. step = "branch" => edited.tree = {}
    BY <1>1 DEF InStep
  <2> QED BY <2>1, <2>2, <2>3, <2>4 DEF InStep, Printing
<1>10. CASE Untracked
  BY <1>10 DEF Untracked, Exit, InStep, Printing
<1>11. CASE runCoverage
  BY <1>11 DEF runCoverage, Exit, InStep, Printing
<1>12. CASE parseProfile
  BY <1>12 DEF parseProfile, InStep, Printing
<1>13. CASE Conclude
  BY <1>13 DEF Conclude, Exit, InStep, Printing
<1>14. CASE Fails
  BY <1>14 DEF Fails, Exit, InStep, Printing
<1>15. CASE UNCHANGED vars
  BY <1>1, <1>15 DEF vars, InStep, Printing
<1> QED
  BY <1>3, <1>4, <1>5, <1>6, <1>7, <1>8, <1>9, <1>10, <1>11, <1>12, <1>13, <1>14, <1>15 DEF Next

\* The lines of a diff come in order.
LEMMA InOrderStep == IInv /\ [Next]_vars => InOrder'
<1> SUFFICES ASSUME IInv, [Next]_vars PROVE InOrder'
  OBVIOUS
<1>1. TypeOK /\ InStep /\ InOrder
  BY DEF IInv
<1>2. git \in GitType /\ truth \subseteq Paths \X Nat /\ NoPath \notin Paths
  BY <1>1, GateAssumption DEF TypeOK, GitType
<1>3. CASE SelectBase
  <2>1. truth = {} /\ truth' = truth
    BY <1>1, <1>3 DEF SelectBase, InStep
  <2> QED BY <2>1 DEF InOrder
<1>4. CASE DiffHeader
  <2>1. Diffing /\ UNCHANGED <<step, truth, edited>>
    BY <1>4 DEF DiffHeader, Output
  <2>2. PICK path \in Paths \ (git.files \cup gone) :
          git' = [NoGit EXCEPT !.files = git.files \cup {path}, !.path = path, !.hunks = git.hunks]
    BY <1>4 DEF DiffHeader
  <2>3. git'.path = path
    BY <2>2 DEF NoGit
  <2>4. path \notin edited[step]
    BY <1>1, <2>1, <2>2 DEF InStep, Diffing
  <2>5. path \notin Other => path \notin edited.branch \cup edited.tree
    BY <2>1, <2>4 DEF Other, Diffing, Printing
  <2>6. path \notin Other => \A n \in Nat : <<path, n>> \notin truth
    BY <1>1, <2>1, <2>2, <2>5 DEF InOrder, Before, Diffing, Printing
  <2> QED BY <1>1, <2>1, <2>3, <2>6 DEF InOrder, Other, Printing
<1>5. CASE TargetHeader
  <2>1. UNCHANGED <<step, truth, edited>>
    BY <1>5 DEF TargetHeader, Output
  <2>2. git'.path = git.path /\ git'.next = git.next
    BY <1>2, <1>5 DEF TargetHeader, GitType
  <2> QED BY <1>1, <2>1, <2>2 DEF InOrder, Other, Printing
<1>6. CASE HunkHeader
  <2>1. PICK start, old, new \in Nat :
             /\ Hunk(start, old, new)
             /\ AfterHunk(parser, parser', old, start, new)
             /\ Diffing /\ git.path \in Paths /\ git.target = git.path
             /\ edited' = [edited EXCEPT ![step] = edited[step] \cup {git.path}]
             /\ git' = [git EXCEPT !.next = git'.next, !.old = old, !.new = new,
                                   !.hunks = git.hunks + 1]
             /\ UNCHANGED <<step, base, changed, profile, reports, exit, gone, tested>>
    BY <1>6, HunkDoes
  <2>2. /\ Other' = Other
        /\ edited'.branch \cup edited'.tree = edited.branch \cup edited.tree \cup {git.path}
    BY <1>1, <2>1, Goes DEF Diffing
  <2>3. git'.path = git.path
    BY <1>2, <2>1 DEF GitType
  <2>4. /\ \A p \in Paths, n \in Nat :
             p # git.path => (<<p, n>> \in truth' <=> <<p, n>> \in truth)
        /\ git.path \notin Other => \A n \in Nat : <<git.path, n>> \in truth' => n < git'.next
    BY <1>1, <1>2, <2>1, HunkWrites
  <2>5. \A p \in Paths \ (edited'.branch \cup edited'.tree), n \in Nat : <<p, n>> \notin truth'
    BY <1>1, <2>1, <2>2, <2>4 DEF InOrder, Before, Diffing, Printing
  <2> QED BY <2>1, <2>2, <2>3, <2>4, <2>5 DEF InOrder, Printing
<1>7. CASE DeletionHeader
  <2>1. /\ git' = [git EXCEPT !.next = 2, !.old = MaxCount, !.hunks = git.hunks + 1]
        /\ truth' = {l \in truth : l[1] # git.path}
        /\ UNCHANGED <<step, edited>>
    BY <1>7, DeletionDoes
  <2>2. git'.path = git.path
    BY <1>2, <2>1 DEF GitType
  <2>3. \A n \in Nat : <<git.path, n>> \notin truth'
    BY <2>1
  <2>4. \A p, n : <<p, n>> \in truth' => <<p, n>> \in truth
    BY <2>1
  <2> QED BY <1>1, <2>1, <2>2, <2>3, <2>4 DEF InOrder, Printing
<1>8. CASE BodyLine
  <2>1. \/ git' = [git EXCEPT !.old = git.old - 1]
        \/ git' = [git EXCEPT !.new = git.new - 1]
    BY <1>1, <1>8, BodyReads
  <2>2. UNCHANGED <<step, truth, edited>>
    BY <1>8 DEF BodyLine, Output
  <2>3. git'.path = git.path /\ git'.next = git.next
    BY <1>2, <2>1 DEF GitType
  <2> QED BY <1>1, <2>2, <2>3 DEF InOrder, Other, Printing
<1>9. CASE EndDiff
  <2>1. /\ Printing /\ step' \in {"tree", "untracked"}
        /\ git' = [NoGit EXCEPT !.hunks = git.hunks]
        /\ UNCHANGED <<truth, edited>>
    BY <1>9 DEF EndDiff, Diffing
  <2>2. git'.path = NoPath
    BY <2>1 DEF NoGit
  <2>3. \A n \in Nat : <<NoPath, n>> \notin truth
    BY <1>2
  <2> QED BY <1>1, <2>1, <2>2, <2>3 DEF InOrder, Before, Printing
<1>10. CASE Untracked
  BY <1>10 DEF Untracked, Exit, InOrder, Before, Printing
<1>11. CASE runCoverage
  BY <1>11 DEF runCoverage, Exit, InOrder, Before, Printing
<1>12. CASE parseProfile
  BY <1>12 DEF parseProfile, InOrder, Before, Printing
<1>13. CASE Conclude
  BY <1>13 DEF Conclude, Exit, InOrder, Before, Printing
<1>14. CASE Fails
  BY <1>14 DEF Fails, Exit, InOrder, Before, Printing
<1>15. CASE UNCHANGED vars
  BY <1>1, <1>15 DEF vars, InOrder, Before, Printing, Other
<1> QED
  BY <1>3, <1>4, <1>5, <1>6, <1>7, <1>8, <1>9, <1>10, <1>11, <1>12, <1>13, <1>14, <1>15 DEF Next

\* The files that git does not track are added to both sides.
LEMMA UntrackedMeasures ==
    ASSUME IInv, Untracked, edited.branch \cap edited.tree = {}
    PROVE  changed' = Measurable'
<1>1. TypeOK /\ InStep /\ Recorded /\ step = "untracked"
  BY DEF IInv, Untracked
<1>2. PICK files \in SUBSET (Paths \ (gone \cup edited.branch \cup edited.tree)),
           count \in 0..MaxCount :
        /\ changed' = {l \in changed : l[1] \notin gone}
                        \cup UNION {Lines(f, 1, count) : f \in files \cap Relevant}
        /\ truth' = truth \cup UNION {Lines(f, 1, count) : f \in files}
  BY DEF Untracked
<1>3. gone' = gone
  BY DEF Untracked
<1>4. count \in Nat /\ 1 \in Nat
  BY GateAssumption
<1>5. \A f \in files : Lines(f, 1, count) \subseteq {f} \X Nat
  BY <1>4, LinesAre
<1>6. /\ truth \subseteq Paths \X Nat /\ changed \subseteq Relevant \X Nat
      /\ Relevant \subseteq Paths
  BY <1>1, GateAssumption DEF TypeOK
<1>7. \A p \in Relevant \ gone, n \in Nat : <<p, n>> \in truth <=> <<p, n>> \in changed
  <2>1. changed \cup parser.changed = changed
    BY <1>1 DEF InStep, NoParser
  <2>2. \A p \in Relevant : p \notin edited.branch \cap edited.tree
    OBVIOUS
  <2> QED BY <1>1, <2>1, <2>2 DEF Recorded, Before
<1>8. ASSUME NEW l \in changed' PROVE l \in Measurable'
  <2>1. CASE l \in changed /\ l[1] \notin gone
    <3>1. l = <<l[1], l[2]>> /\ l[1] \in Relevant \ gone /\ l[2] \in Nat
      BY <1>6, <2>1
    <3>2. l \in truth
      BY <1>7, <2>1, <3>1
    <3> QED BY <1>2, <1>3, <3>1, <3>2 DEF Measurable
  <2>2. ASSUME NEW f \in files \cap Relevant, l \in Lines(f, 1, count) PROVE l \in Measurable'
    <3>1. l[1] = f /\ f \notin gone /\ l \in truth'
      BY <1>2, <1>5, <2>2
    <3> QED BY <1>3, <2>2, <3>1 DEF Measurable
  <2> QED BY <1>2, <1>8, <2>1, <2>2
<1>9. ASSUME NEW l \in Measurable' PROVE l \in changed'
  <2>1. l \in truth' /\ l[1] \in Relevant \ gone
    BY <1>3, <1>9 DEF Measurable
  <2>2. CASE l \in truth
    <3>1. l = <<l[1], l[2]>> /\ l[2] \in Nat
      BY <1>6, <2>2
    <3>2. l \in changed
      BY <1>7, <2>1, <2>2, <3>1
    <3> QED BY <1>2, <2>1, <3>2
  <2>3. ASSUME NEW f \in files, l \in Lines(f, 1, count) PROVE l \in changed'
    <3>1. l[1] = f
      BY <1>5, <2>3
    <3> QED BY <1>2, <2>1, <2>3, <3>1
  <2> QED BY <1>2, <2>1, <2>2, <2>3
<1> QED BY <1>8, <1>9

\* What is recorded is what was written.
LEMMA RecordedStep == IInv /\ [Next]_vars => Recorded'
<1> SUFFICES ASSUME IInv, [Next]_vars PROVE Recorded'
  OBVIOUS
<1>1. TypeOK /\ InStep /\ InOrder /\ Recorded
  BY DEF IInv
<1>2. git \in GitType /\ parser \in Parsers /\ Relevant \subseteq Paths
  BY <1>1, GateAssumption DEF TypeOK, GitType, Parsers
<1>3. CASE SelectBase
  BY <1>1, <1>3 DEF SelectBase, Exit, Recorded, Before
<1>4. CASE DiffHeader
  <2>1. Diffing /\ UNCHANGED <<step, changed, truth, edited, gone>>
    BY <1>4 DEF DiffHeader, Output
  <2>2. parser' = [parser EXCEPT !.path = NoPath]
    BY <1>1, <1>4, DiffHeaderReads
  <2>3. parser'.changed = parser.changed
    BY <1>2, <2>2 DEF Parsers
  <2> QED BY <1>1, <2>1, <2>3 DEF Recorded, Diffing, Printing
<1>5. CASE TargetHeader
  <2>1. PICK target \in {git.path, "/dev/null"} :
          /\ Output(<<[is |-> "---"], [is |-> "+++", path |-> target]>>)
          /\ gone' = IF target = git.path THEN gone ELSE gone \cup {git.path}
    BY <1>5 DEF TargetHeader
  <2>2. Diffing /\ UNCHANGED <<truth, edited>>
    BY <1>5 DEF TargetHeader
  <2>3. parser' = [parser EXCEPT !.path = destinationPath(target)]
    BY <1>1, <2>1, <2>2, TargetReads
  <2>4. parser'.changed = parser.changed
    BY <1>2, <2>3 DEF Parsers
  <2>5. UNCHANGED <<step, changed>> /\ gone \subseteq gone'
    BY <2>1 DEF Output
  <2> QED BY <1>1, <2>2, <2>4, <2>5 DEF Recorded, Diffing, Printing
<1>6. CASE HunkHeader
  <2>1. PICK start, old, new \in Nat :
             /\ Hunk(start, old, new)
             /\ AfterHunk(parser, parser', old, start, new)
             /\ Diffing /\ git.path \in Paths /\ git.target = git.path
             /\ edited' = [edited EXCEPT ![step] = edited[step] \cup {git.path}]
             /\ git' = [git EXCEPT !.next = git'.next, !.old = old, !.new = new,
                                   !.hunks = git.hunks + 1]
             /\ UNCHANGED <<step, base, changed, profile, reports, exit, gone, tested>>
    BY <1>6, HunkDoes
  <2>2. /\ \A p \in Paths : p # git.path =>
             (p \in edited'.branch \cap edited'.tree <=> p \in edited.branch \cap edited.tree)
        /\ git.path \notin edited'.branch \cap edited'.tree => git.path \notin Other
    BY <1>1, <2>1, Goes DEF Diffing
  <2>3. git.path \notin Other => git.path \notin edited.branch \cap edited.tree
    BY DEF Other
  <2>4. /\ \A p \in Paths, n \in Nat :
             p # git.path => (<<p, n>> \in truth' <=> <<p, n>> \in truth)
        /\ git.path \notin Other => \A n \in Nat :
             <<git.path, n>> \in truth' <=>
               <<git.path, n>> \in truth \/ <<git.path, n>> \in Lines(git.path, start, new)
    BY <1>1, <1>2, <2>1, GateAssumption, HunkWrites
  <2>5. /\ git.path \in Relevant => parser.path = git.path
        /\ git.path \notin Relevant => parser.path = NoPath
    BY <1>1, <2>1, Destination DEF InStep, Diffing
  <2>6. /\ git.path \in Relevant => parser'.changed = parser.changed \cup Lines(git.path, start, new)
        /\ git.path \notin Relevant => parser'.changed = parser.changed
    BY <2>1, <2>5, Destination DEF AfterHunk
  <2>7. \A p, n : <<p, n>> \in Lines(git.path, start, new) => p = git.path
    BY <2>1, LinesAre
  <2>8. ASSUME NEW p \in Relevant \ gone, NEW n \in Nat, p \notin edited'.branch \cap edited'.tree
        PROVE  <<p, n>> \in truth' <=> <<p, n>> \in changed \cup parser'.changed
    <3>1. p \notin edited.branch \cap edited.tree
      BY <1>2, <2>2, <2>3, <2>8
    <3>2. <<p, n>> \in truth <=> <<p, n>> \in changed \cup parser.changed
      BY <1>1, <2>1, <2>8, <3>1 DEF Recorded, Before, Diffing, Printing
    <3>3. CASE p = git.path
      BY <2>2, <2>4, <2>6, <2>8, <3>2, <3>3
    <3>4. CASE p # git.path
      BY <1>2, <2>4, <2>6, <2>7, <3>2, <3>4
    <3> QED BY <3>3, <3>4
  <2> QED BY <2>1, <2>8 DEF Recorded, Diffing, Printing
<1>7. CASE DeletionHeader
  <2>1. /\ Diffing /\ git.path \in gone
        /\ parser' = [parser EXCEPT !.remaining = MaxCount]
        /\ truth' = {l \in truth : l[1] # git.path}
        /\ UNCHANGED <<step, changed, edited, gone>>
    BY <1>7, DeletionDoes
  <2>2. parser'.changed = parser.changed
    BY <1>2, <2>1 DEF Parsers
  <2>3. \A p \in Relevant \ gone, n \in Nat : <<p, n>> \in truth' <=> <<p, n>> \in truth
    BY <2>1
  <2> QED BY <1>1, <2>1, <2>2, <2>3 DEF Recorded, Diffing, Printing
<1>8. CASE BodyLine
  <2>1. parser' = [parser EXCEPT !.remaining = parser.remaining - 1]
    BY <1>1, <1>8, BodyReads
  <2>2. UNCHANGED <<step, changed, truth, edited, gone>>
    BY <1>8 DEF BodyLine, Output
  <2>3. parser'.changed = parser.changed
    BY <1>2, <2>1 DEF Parsers
  <2>4. step \notin {"suite", "profile"}
    BY <1>8 DEF BodyLine, Printing
  <2> QED BY <1>1, <2>2, <2>3, <2>4 DEF Recorded
<1>9. CASE EndDiff
  <2>1. /\ Printing /\ step' \in {"tree", "untracked"} /\ changed' = changed \cup parser.changed
        /\ parser' = NoParser /\ UNCHANGED <<truth, edited, gone>>
    BY <1>9 DEF EndDiff, Diffing
  <2>2. changed' \cup parser'.changed = changed \cup parser.changed
    BY <2>1 DEF NoParser
  <2> QED BY <1>1, <2>1, <2>2 DEF Recorded, Before, Printing
<1>10. CASE Untracked
  <2>1. step' \in {"suite", "done"} /\ edited' = edited
    BY <1>10 DEF Untracked, Exit
  <2>2. edited.branch \cap edited.tree = {} => changed' = Measurable'
    BY <1>10, UntrackedMeasures
  <2> QED BY <2>1, <2>2 DEF Recorded, Before
<1>11. CASE runCoverage
  BY <1>1, <1>11 DEF runCoverage, Exit, Recorded, Before, Measurable
<1>12. CASE parseProfile
  BY <1>1, <1>12 DEF parseProfile, Recorded, Before, Measurable
<1>13. CASE Conclude
  BY <1>13 DEF Conclude, Exit, Recorded, Before
<1>14. CASE Fails
  BY <1>14 DEF Fails, Exit, Recorded, Before
<1>15. CASE UNCHANGED vars
  BY <1>1, <1>15 DEF vars, Recorded, Measurable
<1> QED
  BY <1>3, <1>4, <1>5, <1>6, <1>7, <1>8, <1>9, <1>10, <1>11, <1>12, <1>13, <1>14, <1>15 DEF Next

\* A block that was run keeps a count, and a base is another branch where there is one.
LEMMA KeptStep == IInv /\ [Next]_vars => Kept'
<1> SUFFICES ASSUME IInv, [Next]_vars PROVE Kept'
  OBVIOUS
<1>1. TypeOK /\ Kept
  BY DEF IInv
<1>2. CASE SelectBase
  <2>1. PICK repo \in Repositories, setting, env \in Settings :
          LET configured == configuredBaseRef(setting, env)
              ref == selectBase(repo, configured)
              Own(r) == isOwnRef(fullName(r), repo.branch, repo.remotes)
          IN \/ base' = base
             \/ base' = [own |-> Own(ref), other |-> \E r \in repo.refs \ {Commit} : ~Own(r)]
    BY <1>2 DEF SelectBase
  <2> DEFINE own == isOwnRef(fullName(selectBase(repo, configuredBaseRef(setting, env))),
                             repo.branch, repo.remotes)
             other == \E r \in repo.refs \ {Commit} :
                        ~isOwnRef(fullName(r), repo.branch, repo.remotes)
  <2>2. ~(own /\ other)
    BY BaseIsOther
  <2>3. base' = base \/ base' = [own |-> own, other |-> other]
    BY <2>1
  <2> HIDE DEF own, other
  <2>4. ~(base'.own /\ base'.other)
    <3>1. CASE base' = base
      BY <1>1, <3>1 DEF Kept
    <3>2. CASE base' = [own |-> own, other |-> other]
      <4>1. base'.own = own /\ base'.other = other
        BY <3>2
      <4> QED BY <2>2, <4>1
    <3> QED BY <2>3, <3>1, <3>2
  <2>5. UNCHANGED <<profile, tested>>
    BY <1>2 DEF SelectBase
  <2> QED BY <1>1, <2>4, <2>5 DEF Kept
<1>3. CASE parseProfile
  <2>1. PICK b \in Blocks, count \in {0, 1} :
          /\ profile' = merge(profile, b, count)
          /\ tested' = IF count > 0 THEN tested \cup {b} ELSE tested
    BY <1>3 DEF parseProfile
  <2>2. profile \in [Blocks -> {-1, 0, 1}] /\ tested = {c \in Blocks : profile[c] > 0}
    BY <1>1 DEF TypeOK, Kept
  <2>3. \A c \in Blocks : profile'[c] = IF c = b /\ count > profile[c] THEN count ELSE profile[c]
    BY <2>1, <2>2 DEF merge
  <2>4. \A c \in Blocks : profile'[c] > 0 <=> c \in tested'
    <3>1. ASSUME NEW c \in Blocks PROVE profile'[c] > 0 <=> c \in tested'
      <4>1. profile[c] \in {-1, 0, 1} /\ (c \in tested <=> profile[c] > 0)
        BY <2>2
      <4>2. profile'[c] = IF c = b /\ count > profile[c] THEN count ELSE profile[c]
        BY <2>3
      <4>3. CASE c = b
        BY <2>1, <4>1, <4>2, <4>3
      <4>4. CASE c # b
        BY <2>1, <4>1, <4>2, <4>4
      <4> QED BY <4>3, <4>4
    <3> QED BY <3>1
  <2>5. tested' \subseteq Blocks
    BY <2>1, <2>2
  <2>6. tested' = {c \in Blocks : profile'[c] > 0}
    BY <2>4, <2>5
  <2>7. base' = base
    BY <1>3 DEF parseProfile
  <2> QED BY <1>1, <2>6, <2>7 DEF Kept
<1>4. CASE UNCHANGED <<base, profile, tested>>
  BY <1>1, <1>4 DEF Kept
<1>5. DiffHeader \/ TargetHeader \/ DeletionHeader \/ BodyLine \/ EndDiff =>
        UNCHANGED <<base, profile, tested>>
  BY DEF DiffHeader, TargetHeader, DeletionHeader, BodyLine, EndDiff, Output
<1>6. HunkHeader => UNCHANGED <<base, profile, tested>>
  BY HunkDoes
<1>7. Untracked \/ runCoverage \/ Conclude \/ Fails \/ UNCHANGED vars =>
        UNCHANGED <<base, profile, tested>>
  BY DEF Untracked, runCoverage, Conclude, Fails, vars
<1> QED BY <1>2, <1>3, <1>4, <1>5, <1>6, <1>7 DEF Next

\* The conclusion compares what GreenIsEarned compares.
LEMMA ConcludesRight ==
    ASSUME IInv, Conclude, edited.branch \cap edited.tree = {}
    PROVE  LET here == {b \in Blocks : \E n \in b.start..b.end : <<b.path, n>> \in Measurable}
           IN measure <=> /\ Statements(here) # 0 /\ Statements(Blocks) # 0
                          /\ Statements(here \cap tested) * Statements(Blocks)
                               < Statements(tested) * Statements(here)
<1> DEFINE here == {b \in Blocks : \E n \in b.start..b.end : <<b.path, n>> \in Measurable}
           hit == {b \in Blocks : profile[b] > 0}
           touched == {b \in Blocks : touches(changed, b)}
<1>1. /\ changed = Measurable /\ tested = hit /\ truth \subseteq Paths \X Nat
      /\ changed \subseteq Relevant \X Nat
  BY DEF IInv, Conclude, Recorded, Kept, TypeOK
<1>2. touched = here
  <2>1. ASSUME NEW b \in Blocks
        PROVE  touches(changed, b) <=> \E n \in b.start..b.end : <<b.path, n>> \in Measurable
    <3>1. b.start \in Nat /\ b.end \in Nat
      BY GateAssumption
    <3>2. ASSUME NEW l \in changed, l[1] = b.path, l[2] >= b.start, l[2] <= b.end
          PROVE  \E n \in b.start..b.end : <<b.path, n>> \in Measurable
      <4>1. l = <<l[1], l[2]>> /\ l[2] \in Nat
        BY <1>1
      <4>2. l[2] \in b.start..b.end
        BY <3>1, <3>2, <4>1
      <4>3. <<b.path, l[2]>> \in Measurable
        BY <1>1, <3>2, <4>1
      <4> QED BY <4>2, <4>3
    <3>3. ASSUME NEW n \in b.start..b.end, <<b.path, n>> \in Measurable
          PROVE  \E l \in changed : l[1] = b.path /\ l[2] >= b.start /\ l[2] <= b.end
      <4>1. n >= b.start /\ n <= b.end
        BY <3>1
      <4> QED BY <1>1, <3>3, <4>1
    <3> QED BY <3>2, <3>3 DEF touches
  <2> QED BY <2>1
<1>3. measure <=> belowRepoAverage(Statements(touched \cap hit), Statements(touched),
                                   Statements(hit), Statements(Blocks))
  BY DEF measure
<1> HIDE DEF here, hit, touched
<1>4. measure <=> belowRepoAverage(Statements(here \cap tested), Statements(here),
                                   Statements(tested), Statements(Blocks))
  BY <1>1, <1>2, <1>3
<1>5. measure <=> /\ Statements(here) # 0 /\ Statements(Blocks) # 0
                  /\ Statements(here \cap tested) * Statements(Blocks)
                       < Statements(tested) * Statements(here)
  BY <1>4 DEF belowRepoAverage
<1> QED BY <1>5 DEF here

\* What the gate says is earned.
LEMMA ConcludedStep == IInv /\ [Next]_vars => Concluded'
<1> SUFFICES ASSUME IInv, [Next]_vars PROVE Concluded'
  OBVIOUS
<1>1. TypeOK /\ Kept /\ Concluded /\ Kept'
  BY KeptStep DEF IInv
<1>2. ASSUME step' = "done" <=> exit' # "none", exit' \notin {"green", "below"} PROVE Concluded'
  BY <1>2 DEF Concluded, GreenIsEarned
<1>3. CASE Untracked
  <2>1. \/ step' = "suite" /\ exit' = exit
        \/ step' = "done" /\ exit' = "green" /\ changed' = {}
    BY <1>3 DEF Untracked, Exit
  <2>2. exit = "none"
    BY <1>1, <1>3 DEF Untracked, Concluded
  <2>3. CASE exit' = "green"
    <3>1. edited' = edited
      BY <1>3 DEF Untracked
    <3>2. ASSUME edited.branch \cap edited.tree = {}
          PROVE  Statements({b \in Blocks : \E n \in b.start..b.end :
                               <<b.path, n>> \in Measurable'}) = 0
      <4>1. Measurable' = {}
        BY <1>3, <2>1, <2>2, <2>3, <3>2, UntrackedMeasures
      <4>2. {b \in Blocks : \E n \in b.start..b.end : <<b.path, n>> \in Measurable'} = {}
        BY <4>1
      <4> QED BY <4>2, NoStatements
    <3>3. GreenIsEarned'
      BY <1>1, <2>3, <3>1, <3>2 DEF GreenIsEarned, Kept
    <3> QED BY <2>1, <2>2, <2>3, <3>3 DEF Concluded
  <2> QED BY <1>2, <2>1, <2>2, <2>3
<1>4. CASE Conclude
  <2>1. /\ step' = "done" /\ exit' = IF measure THEN "below" ELSE "green"
        /\ UNCHANGED <<truth, edited, gone, tested, base>>
    BY <1>4 DEF Conclude, Exit
  <2> DEFINE here == {b \in Blocks : \E n \in b.start..b.end : <<b.path, n>> \in Measurable}
             below == /\ Statements(here) # 0 /\ Statements(Blocks) # 0
                      /\ Statements(here \cap tested) * Statements(Blocks)
                           < Statements(tested) * Statements(here)
  <2>2. edited.branch \cap edited.tree = {} => (measure <=> below)
    BY <1>4, ConcludesRight
  <2>3. Measurable' = Measurable
    BY <2>1 DEF Measurable
  <2>4. GreenIsEarned' <=> (edited.branch \cap edited.tree = {} =>
                              /\ exit' = "green" => ~below /\ ~(base.own /\ base.other)
                              /\ exit' = "below" => below)
    BY <2>1, <2>3 DEF GreenIsEarned
  <2> HIDE DEF below
  <2>5. GreenIsEarned'
    BY <1>1, <2>1, <2>2, <2>4 DEF Kept
  <2> QED BY <2>1, <2>5 DEF Concluded
<1>5. CASE runCoverage \/ Fails
  BY <1>1, <1>2, <1>5 DEF runCoverage, Fails, Exit, Concluded
<1>6. CASE SelectBase
  BY <1>1, <1>2, <1>6 DEF SelectBase, Exit, Concluded
<1>7. CASE DiffHeader \/ TargetHeader \/ DeletionHeader \/ BodyLine
  BY <1>1, <1>2, <1>7
  DEF DiffHeader, TargetHeader, DeletionHeader, BodyLine, Output, Diffing, Printing, Concluded
<1>8. CASE HunkHeader
  <2>1. Diffing /\ UNCHANGED <<step, exit>>
    BY <1>8, HunkDoes
  <2> QED BY <1>1, <1>2, <2>1 DEF Diffing, Printing, Concluded
<1>9. CASE EndDiff
  BY <1>1, <1>2, <1>9 DEF EndDiff, Diffing, Printing, Concluded
<1>10. CASE parseProfile
  BY <1>1, <1>2, <1>10 DEF parseProfile, Concluded
<1>11. CASE UNCHANGED vars
  BY <1>1, <1>11 DEF vars, Concluded, GreenIsEarned, Measurable
<1> QED BY <1>3, <1>4, <1>5, <1>6, <1>7, <1>8, <1>9, <1>10, <1>11 DEF Next

-----------------------------------------------------------------------------
(* Its theorems *)

\* The invariant is one.
LEMMA InvariantHolds == Spec => []IInv
<1>1. Init => IInv
  BY InitIInv
<1>2. IInv /\ [Next]_vars => IInv'
  BY TypeStep, InStepStep, InOrderStep, RecordedStep, KeptStep, ConcludedStep DEF IInv
<1> QED BY <1>1, <1>2, PTL DEF Spec

\* The gate keeps its types.
THEOREM CoverageTypeCorrect == Spec => []TypeOK
<1>1. IInv => TypeOK
  BY DEF IInv
<1> QED BY <1>1, InvariantHolds, PTL

\* The gate (tools/coveragegate, run) is green only if the lines that the change wrote are
\* covered no worse than the repository, is red only if they are not, and compares a branch
\* with itself only if there is nothing else: for any files, blocks and counts.
THEOREM GreenAlwaysEarned == Spec => []GreenIsEarned
<1>1. IInv => GreenIsEarned
  BY DEF IInv, Concluded
<1> QED BY <1>1, InvariantHolds, PTL

\* Unless both diffs change a file, the lines that parseDiff reads are those of the new
\* files, the ones that the suite is run on.
THEOREM CountedIfEditedOnce ==
    Spec => [](edited.branch \cap edited.tree = {} => CountedInTheNewFile)
<1>1. IInv => (edited.branch \cap edited.tree = {} => CountedInTheNewFile)
  BY DEF IInv, Recorded, CountedInTheNewFile
<1> QED BY <1>1, InvariantHolds, PTL

-----------------------------------------------------------------------------
(* The gate on vulnerabilities: the invariant *)

\* The gate knows which block of go.mod it is in, and so what is required.
Understood ==
    /\ block = file
    /\ direct = required

\* The loop only starts on a whole stream.
Whole ==
    /\ findings \in Seq(Findings)
    /\ next \in Nat \ {0}
    /\ phase \in {"gomod", "stream"} => next = 1 /\ vulns = {}
    /\ phase = "collect" => complete /\ config

Key(f) == <<f.osv, vulnerableFrame(f).module>>

\* The calls among the findings that the loop has passed.
Passed == {findings[k] : k \in {n \in DOMAIN findings : n < next /\ called(findings[n])}}

\* One entry for each advisory and module that was called, fixed if some call says so.
Reduced ==
    /\ \A f \in Passed : \E v \in vulns : v.key = Key(f)
    /\ \A v \in vulns : /\ \E f \in Passed : v.key = Key(f)
                        /\ v.fixed <=> \E f \in Passed : v.key = Key(f) /\ f.fixed

\* A call that a gate should be red for.
Counts(f) ==
    /\ f.fixed
    /\ f.trace[1].module \in Std \cup {ThisModule} \cup required
    /\ \E k \in DOMAIN f.trace : f.trace[k].function

Decided ==
    /\ verdict # "none" => phase = "done"
    /\ verdict = "green" => /\ complete /\ config
                         /\ \A k \in DOMAIN findings : ~Counts(findings[k])
    /\ verdict = "blocking" => \E k \in DOMAIN findings : Counts(findings[k])

\* The inductive invariant.
ScanIInv == Understood /\ Whole /\ Reduced /\ Decided

-----------------------------------------------------------------------------
(* Its steps *)

\* The invariant holds at the start.
LEMMA ScanInitIInv == ScanInit => ScanIInv
BY DEF ScanInit, ScanIInv, Understood, Whole, Passed, Reduced, Decided

\* A line of go.mod, whatever it says, is understood.
LEMMA GoModIInv ==
    ScanIInv /\ (ModuleLine \/ OtherLine \/ OpenBlock \/ CloseBlock \/ ModuleEntry) => ScanIInv'
<1> SUFFICES ASSUME ScanIInv, ModuleLine \/ OtherLine \/ OpenBlock \/ CloseBlock \/ ModuleEntry
             PROVE  ScanIInv'
  OBVIOUS
<1>1. phase = "gomod" /\ UNCHANGED <<phase, scan, collected, verdict>>
  BY DEF ModuleLine, OtherLine, OpenBlock, CloseBlock, ModuleEntry, Read
<1>2. Understood'
  BY DEF ScanIInv, Understood, ModuleLine, OtherLine, OpenBlock, CloseBlock, ModuleEntry,
      addRequirement, isIndirect
<1>3. Passed = {} /\ Passed' = {} /\ verdict = "none"
  BY <1>1 DEF ScanIInv, Whole, Decided, Passed, scan, collected
<1> QED
  BY <1>1, <1>2, <1>3 DEF ScanIInv, Whole, Reduced, Decided, scan, collected

\* The end of go.mod and of the stream, and what goes wrong before, leave the findings alone.
LEMMA StagesIInv == ScanIInv /\ (EndOfGoMod \/ EndOfStream \/ ScanFails) => ScanIInv'
<1> SUFFICES ASSUME ScanIInv, EndOfGoMod \/ EndOfStream \/ ScanFails PROVE ScanIInv'
  OBVIOUS
<1>1. /\ phase \in {"gomod", "stream"} /\ UNCHANGED <<goMod, config, findings, collected>>
      /\ phase' \in {"stream", "collect", "done"}
      /\ verdict' = verdict \/ (verdict' = "broken" /\ phase' = "done")
      /\ phase' = "collect" => complete' /\ config
      /\ phase' = "stream" => phase = "gomod"
  BY DEF EndOfGoMod, EndOfStream, ScanFails, Leave, scan, goMod
<1>2. Passed' = Passed /\ verdict = "none"
  BY <1>1 DEF ScanIInv, Decided, Passed, collected
<1> QED
  BY <1>1, <1>2 DEF ScanIInv, Understood, Whole, Reduced, Decided, goMod, collected

\* A message of the stream: the loop has not begun.
LEMMA MessageIInv == ScanIInv /\ (ConfigMessage \/ FindingMessage) => ScanIInv'
<1> SUFFICES ASSUME ScanIInv, ConfigMessage \/ FindingMessage PROVE ScanIInv'
  OBVIOUS
<1>1. /\ phase = "stream" /\ UNCHANGED <<phase, goMod, complete, collected, verdict>>
      /\ findings' \in Seq(Findings)
  BY DEF ConfigMessage, FindingMessage, Message, ScanIInv, Whole
<1>2. Passed = {} /\ Passed' = {} /\ verdict = "none" /\ vulns = {} /\ vulns' = {}
  BY <1>1 DEF ScanIInv, Whole, Decided, Passed, collected
<1> QED
  BY <1>1, <1>2 DEF ScanIInv, Understood, Whole, Reduced, Decided, goMod, collected

\* One round of the loop of collectCalled.
LEMMA CollectIInv == ScanIInv /\ Collect => ScanIInv'
<1> SUFFICES ASSUME ScanIInv, Collect PROVE ScanIInv'
  OBVIOUS
<1> DEFINE f == findings[next]
<1>1. /\ phase = "collect" /\ next \in DOMAIN findings /\ verdict = "none"
      /\ UNCHANGED <<file, required, block, mainModule, direct, lines>>
      /\ UNCHANGED <<config, findings, complete>>
  <2>1. /\ phase = "collect" /\ next <= Len(findings) /\ UNCHANGED <<goMod, scan>>
    BY DEF Collect
  <2>2. findings \in Seq(Findings) /\ next \in Nat \ {0} /\ verdict = "none"
    BY <2>1 DEF ScanIInv, Whole, Decided
  <2> QED BY <2>1, <2>2 DEF goMod, scan
<1>2. CASE called(f) /\ vulnerableFrame(f).module = ""
  <2>1. UNCHANGED <<goMod, scan, collected>> /\ phase' = "done" /\ verdict' = "broken"
    BY <1>2 DEF Collect, Leave
  <2>2. Passed' = Passed
    BY <2>1 DEF Passed, scan, collected
  <2> QED
    BY <2>1, <2>2 DEF ScanIInv, Understood, Whole, Reduced, Decided, goMod, scan, collected
<1>3. CASE ~(called(f) /\ vulnerableFrame(f).module = "")
  <2>1. /\ vulns' = collectCalled(vulns, f) /\ next' = next + 1
        /\ phase' = phase /\ verdict' = verdict
    BY <1>3 DEF Collect
  <2>2. Passed' = Passed \cup (IF called(f) THEN {f} ELSE {})
    <3>1. {n \in DOMAIN findings : n < next + 1 /\ called(findings[n])} =
            {n \in DOMAIN findings : n < next /\ called(findings[n])}
              \cup (IF called(f) THEN {next} ELSE {})
      BY <1>1 DEF ScanIInv, Whole
    <3> QED BY <1>1, <2>1, <3>1 DEF Passed, scan
  <2>3. Reduced'
    <3>1. CASE ~called(f)
      BY <2>1, <2>2, <3>1 DEF ScanIInv, Reduced, collectCalled
    <3>2. CASE called(f)
      <4> DEFINE new == [key |-> Key(f),
                         fixed |-> f.fixed \/ \E v \in vulns : v.key = Key(f) /\ v.fixed]
      <4>1. vulns' = {v \in vulns : v.key # Key(f)} \cup {new}
        BY <2>1, <3>2 DEF collectCalled, Key
      <4>2. Passed' = Passed \cup {f}
        BY <2>2, <3>2
      <4>3. new.fixed <=> \E g \in Passed' : Key(f) = Key(g) /\ g.fixed
        BY <4>2 DEF ScanIInv, Reduced
      <4>4. \A g \in Passed' : \E v \in vulns' : v.key = Key(g)
        <5>1. ASSUME NEW g \in Passed, Key(g) # Key(f)
              PROVE  \E v \in vulns' : v.key = Key(g)
          BY <4>1, <5>1 DEF ScanIInv, Reduced
        <5>2. new \in vulns' /\ new.key = Key(f)
          BY <4>1
        <5> HIDE DEF f, new
        <5> QED BY <4>2, <5>1, <5>2
      <4>5. ASSUME NEW v \in vulns'
            PROVE  /\ \E g \in Passed' : v.key = Key(g)
                   /\ v.fixed <=> \E g \in Passed' : v.key = Key(g) /\ g.fixed
        <5>1. CASE v = new
          <6>1. v.key = Key(f) /\ f \in Passed'
            BY <4>2, <5>1
          <6> QED BY <4>3, <5>1, <6>1
        <5>2. CASE v \in vulns /\ v.key # Key(f)
          BY <4>2, <5>2 DEF ScanIInv, Reduced
        <5> QED BY <4>1, <4>5, <5>1, <5>2
      <4> QED BY <4>4, <4>5 DEF Reduced, Key, vulnerableFrame
    <3> QED BY <3>1, <3>2
  <2> QED
    BY <1>1, <2>1, <2>3 DEF ScanIInv, Understood, Whole, Decided, goMod, scan
<1> QED BY <1>2, <1>3

\* The gate is red exactly if some finding counts: behind the loop every call was passed.
LEMMA ConcludeIInv == ScanIInv /\ Decide => ScanIInv'
<1> SUFFICES ASSUME ScanIInv, Decide PROVE ScanIInv'
  OBVIOUS
<1>1. /\ phase = "collect" /\ next > Len(findings) /\ complete /\ config /\ direct = required
      /\ UNCHANGED <<goMod, scan, collected>> /\ phase' = "done"
      /\ verdict' = IF \E v \in vulns : blocking(v) THEN "blocking" ELSE "green"
  BY DEF Decide, Leave, ScanIInv, Whole, Understood
<1>2. Passed = {findings[k] : k \in {n \in DOMAIN findings : called(findings[n])}}
  BY <1>1 DEF Passed, ScanIInv, Whole
<1>3. \A f : Counts(f) <=> called(f) /\ f.fixed /\ actionable(vulnerableFrame(f).module)
  BY <1>1 DEF Counts, called, actionable, vulnerableFrame
<1>4. (\E v \in vulns : blocking(v)) <=> \E k \in DOMAIN findings : Counts(findings[k])
  <2>1. ASSUME NEW v \in vulns, blocking(v)
        PROVE  \E k \in DOMAIN findings : Counts(findings[k])
    <3>1. PICK f \in Passed : v.key = Key(f) /\ f.fixed
      BY <2>1 DEF ScanIInv, Reduced, blocking
    <3>2. Counts(f)
      BY <1>2, <1>3, <2>1, <3>1 DEF blocking, Key
    <3> QED BY <1>2, <3>2
  <2>2. ASSUME NEW k \in DOMAIN findings, Counts(findings[k])
        PROVE  \E v \in vulns : blocking(v)
    <3>1. findings[k] \in Passed
      BY <1>2, <1>3, <2>2
    <3>2. PICK v \in vulns : v.key = Key(findings[k]) /\ v.fixed
      BY <1>3, <2>2, <3>1 DEF ScanIInv, Reduced
    <3>3. blocking(v)
      BY <1>3, <2>2, <3>2 DEF blocking, Key
    <3> QED BY <3>3
  <2> QED BY <2>1, <2>2
<1>5. Passed' = Passed /\ \A f : Counts(f)' = Counts(f)
  BY <1>1 DEF Passed, Counts, goMod, scan, collected
<1> QED
  BY <1>1, <1>4, <1>5 DEF ScanIInv, Understood, Whole, Reduced, Decided, goMod, scan, collected

-----------------------------------------------------------------------------
(* The theorem *)

\* Every phase, and every stutter, preserves the invariant.
LEMMA ScanNextIInv == ScanIInv /\ [ScanNext]_scanVars => ScanIInv'
<1>1. ScanIInv /\ UNCHANGED scanVars => ScanIInv'
  BY DEF scanVars, goMod, scan, collected, ScanIInv, Understood, Whole, Passed, Reduced, Decided,
      Counts
<1> QED
  BY <1>1, GoModIInv, StagesIInv, MessageIInv, CollectIInv, ConcludeIInv DEF ScanNext

\* The gate is red exactly if a call reaches what is fixable and ours to fix, and green only
\* on a whole stream (collectCalled, actionable, parseStream).
THEOREM FixableAlwaysBlocked == ScanSpec => []FixableIsBlocked
<1>1. ScanIInv => FixableIsBlocked
  BY DEF ScanIInv, Decided, Counts, FixableIsBlocked
<1>2. ScanSpec => []ScanIInv
  BY ScanInitIInv, ScanNextIInv, PTL DEF ScanSpec
<1> QED BY <1>1, <1>2, PTL

-----------------------------------------------------------------------------
(* The gates of the build *)

\* Either gate of GatesSpec runs as it does alone: one of them moves, the other stands still.
LEMMA GatesAre == GatesSpec => Spec /\ ScanSpec
<1>1. GatesInit => Init /\ ScanInit
  BY DEF GatesInit
<1>2. [GatesNext]_<<vars, gate, scanVars>> => [Next]_vars /\ [ScanNext]_scanVars
  BY DEF GatesNext
<1> QED BY <1>1, <1>2, PTL DEF GatesSpec, Spec, ScanSpec

\* What is proved of each gate holds of GatesSpec, the specification that TLC runs, in
\* which one of the two gates runs in a behaviour.
THEOREM GatesAreRight == GatesSpec => [](GreenIsEarned /\ FixableIsBlocked)
BY GatesAre, GreenAlwaysEarned, FixableAlwaysBlocked, PTL
=============================================================================
