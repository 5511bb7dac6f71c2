---------------------------- MODULE CoverageGate ----------------------------
(***************************************************************************)
(* The gate on the coverage of changed lines (tools/coveragegate): which   *)
(* base it compares with, how it reads what git prints of two diffs line   *)
(* by line, how it reads the profile of the tests, and what it concludes.  *)
(***************************************************************************)
EXTENDS Integers, SequencesExt

CONSTANTS
    Paths,
    Relevant,    \* isRelevantGoFile: the Go files among them that are no tests
    MaxLine,     \* the highest line that changes
    MaxCount,    \* lines on one side of a hunk
    MaxHunks,    \* hunks in a behaviour
    Blocks,      \* of the profile: [path, start, end, stmts]
    MaxReports   \* block lines of a profile

NoPath == ""

ASSUME GateAssumption ==
    /\ Relevant \subseteq Paths /\ Paths \cap {NoPath, "/dev/null"} = {}
    /\ MaxLine \in Nat /\ MaxCount \in Nat /\ MaxHunks \in Nat /\ MaxReports \in Nat
    /\ \A b \in Blocks : {b.start, b.end, b.stmts} \subseteq Nat

VARIABLES
    step,      \* of run
    base,      \* what kind of ref selectBase returned (history)
    git,       \* where git is in the diff it prints
    parser,    \* parseDiff: path, remaining and the lines so far
    changed,   \* <<path, line>>
    profile,   \* block -> its count, -1 if there is none yet
    reports,   \* block lines read
    exit,
    truth,     \* the lines of the working tree that the change wrote (history)
    edited,    \* the files each diff has hunks for (history)
    gone,      \* the files that are not in the working tree
    tested     \* the blocks that some report says were run (history)

vars == <<step, base, git, parser, changed, profile, reports, exit, truth, edited, gone,
          tested>>

NoGit == [files |-> {}, path |-> NoPath, target |-> NoPath, next |-> 1, old |-> 0, new |-> 0, hunks |-> 0]
NoParser == [path |-> NoPath, remaining |-> 0, changed |-> {}]

TypeOK ==
    /\ step \in {"base", "branch", "tree", "untracked", "suite", "profile", "done"}
    /\ base \in [own : BOOLEAN, other : BOOLEAN]
    /\ git \in [files : SUBSET Paths, path : Paths \cup {NoPath},
                target : Paths \cup {NoPath, "/dev/null"},
                next : Nat \ {0}, old : Nat, new : Nat, hunks : 0..MaxHunks]
    /\ parser \in [path : Relevant \cup {NoPath}, remaining : Nat, changed : SUBSET (Relevant \X Nat)]
    /\ changed \subseteq Relevant \X Nat
    /\ profile \in [Blocks -> {-1, 0, 1}]
    /\ reports \in 0..MaxReports
    /\ exit \in {"none", "broken", "green", "below"}
    /\ truth \subseteq Paths \X Nat
    /\ edited \in [branch : SUBSET Paths, tree : SUBSET Paths]
    /\ gone \subseteq Paths
    /\ tested \subseteq Blocks

Init ==
    /\ step = "base"
    /\ base = [own |-> FALSE, other |-> FALSE]
    /\ git = NoGit
    /\ parser = NoParser
    /\ changed = {}
    /\ profile = [b \in Blocks |-> -1]
    /\ reports = 0
    /\ exit = "none"
    /\ truth = {}
    /\ edited = [branch |-> {}, tree |-> {}]
    /\ gone = {}
    /\ tested = {}

Exit(code) == step' = "done" /\ exit' = code

-----------------------------------------------------------------------------
(* The base.  A ref is its full name, without refs/. *)

OriginHead == <<"remotes", "origin", "HEAD">>
OriginMain == <<"remotes", "origin", "main">>
OriginTopic == <<"remotes", "origin", "topic">>
Main == <<"heads", "main">>
Develop == <<"heads", "develop">>
Commit == <<"commit">>   \* a base given as a commit has no name

\* Of the five, master and trunk are left out.
defaultBaseCandidates == <<OriginHead, Main, Develop>>

\* origin/HEAD is symbolic.
fullName(ref) == IF ref = OriginHead THEN OriginMain ELSE IF ref = Commit THEN <<>> ELSE ref

isOwnRef(full, branch, remotes) ==
    /\ branch # "" /\ full # <<>>
    /\ \/ full = <<"heads", branch>>
       \/ \E r \in remotes : full = <<"remotes", r, branch>>

\* branch: "" on a detached head; upstream: @{u}, or <<>>; refs: those that resolve.
Repositories ==
    [branch : {"", "main", "topic"}, remotes : {{"origin"}},
     upstream : {<<>>, OriginMain, OriginTopic}, refs : SUBSET {OriginHead, Main, Develop, Commit}]

\* The setting in .claude/gates.env and the variable of the environment.
Settings == {<<>>, <<"-option">>, Main, Commit}

\* The file wins; a value that starts with a dash is no ref.
configuredBaseRef(file, env) == IF file # <<>> THEN file ELSE env

\* Mutant: the branch's own copy is as good as any.
selectFirst(repo, configured) ==
    LET candidates == <<configured>> \o defaultBaseCandidates
        usable == {k \in DOMAIN candidates : candidates[k] \in repo.refs}
    IN IF usable = {} THEN repo.upstream
       ELSE candidates[CHOOSE k \in usable : \A j \in usable : k <= j]

\* The first that resolves and is not the branch's own; at last @{u}.
selectBase(repo, configured) ==
    LET candidates == <<configured>> \o defaultBaseCandidates
        usable == {k \in DOMAIN candidates :
                     /\ candidates[k] \in repo.refs
                     /\ ~isOwnRef(fullName(candidates[k]), repo.branch, repo.remotes)}
    IN IF usable = {} THEN repo.upstream
       ELSE candidates[CHOOSE k \in usable : \A j \in usable : k <= j]

\* own: the base is the branch itself; other: an integration ref of another branch exists.
SelectBase ==
    /\ step = "base"
    /\ \E repo \in Repositories, file, env \in Settings :
         LET configured == configuredBaseRef(file, env)
             ref == selectBase(repo, configured)
             Own(r) == isOwnRef(fullName(r), repo.branch, repo.remotes)
         IN IF configured \notin repo.refs \cup {<<>>}
            THEN Exit("broken") /\ UNCHANGED base
            ELSE /\ base' = [own |-> Own(ref),
                      other |-> \E r \in repo.refs \ {Commit} : ~Own(r)]
                 \* Without a merge base, only the working tree is compared.
                 /\ step' \in (IF ref = <<>> THEN {"tree"} ELSE {"branch", "tree"})
                 /\ UNCHANGED exit
    /\ UNCHANGED <<git, parser, changed, profile, reports, truth, edited, gone, tested>>

-----------------------------------------------------------------------------
(* A line of a diff is its first word, with what follows where that counts.  A body line *)
(* may look like a header: "++ x" in a file is printed as "+++ x".                        *)

\* The target of a deleted file is no path; b/ is cut off.
destinationPath(target) == IF target \in Relevant THEN target ELSE NoPath

\* A range as git prints it is <<start>> if it is one line, else <<start, count>>.
HunkRange(start, count) == IF count = 1 THEN <<start>> ELSE <<start, count>>

\* Mutant: an absent count is zero.
parseAbsentZero(range) == [start |-> range[1], count |-> IF Len(range) = 1 THEN 0 ELSE range[2]]

parseHunkRange(range) == [start |-> range[1], count |-> IF Len(range) = 1 THEN 1 ELSE range[2]]

Lines(path, start, count) == {path} \X (start..(start + count - 1))

\* Mutant: lines are read as structure wherever they are.
parseUncounted(p, line) ==
    CASE line.is = "diff" -> [p EXCEPT !.path = NoPath]
      [] line.is = "+++"  -> [p EXCEPT !.path = destinationPath(line.path)]
      [] line.is = "@@"   ->
           LET new == parseHunkRange(line.new) IN
           IF p.path = NoPath THEN p
           ELSE [p EXCEPT !.changed = @ \cup Lines(p.path, new.start, new.count)]
      [] OTHER -> p

\* The loop of parseDiff: the body of a hunk is counted.
parseDiff(p, line) ==
    IF p.remaining > 0 /\ line.is \in {"+", "+++", "-", "---"}
    THEN [p EXCEPT !.remaining = @ - 1]
    ELSE IF p.remaining > 0 /\ line.is = "\\" THEN p
    ELSE LET q == [p EXCEPT !.remaining = 0] IN
         CASE line.is = "diff" -> [q EXCEPT !.path = NoPath]
           [] line.is = "+++"  -> [q EXCEPT !.path = destinationPath(line.path)]
           [] line.is = "@@"   ->
                LET old == parseHunkRange(line.old)
                    new == parseHunkRange(line.new)
                IN [q EXCEPT !.remaining = old.count + new.count,
                       !.changed = IF q.path = NoPath THEN @
                                   ELSE @ \cup Lines(q.path, new.start, new.count)]
           [] OTHER -> q

-----------------------------------------------------------------------------
(* git diff --unified=0, and what each line does to the parser *)

Printing == step \in {"branch", "tree"}
Diffing == Printing /\ git.old + git.new = 0

\* Headers with a target have a hunk.
SectionDone == git.target # NoPath => git.next > 1

\* One line, or two.
Output(lines) ==
    /\ parser' = LET p == parseDiff(parser, lines[1])
                 IN IF Len(lines) = 1 THEN p ELSE parseDiff(p, lines[2])
    /\ UNCHANGED <<step, base, changed, profile, reports, exit>>

\* A file of the diff; a renamed or binary one may have no more than this.
DiffHeader ==
    /\ Diffing /\ SectionDone
    /\ \E path \in Paths \ (git.files \cup gone) :
         git' = [NoGit EXCEPT !.files = git.files \cup {path}, !.path = path, !.hunks = git.hunks]
    /\ Output(<<[is |-> "diff"]>>)
    /\ UNCHANGED <<truth, edited, gone, tested>>

TargetHeader ==
    /\ Diffing
    /\ git.path # NoPath /\ git.target = NoPath /\ git.hunks < MaxHunks
    /\ \E target \in {git.path, "/dev/null"} :
         /\ git' = [git EXCEPT !.target = target]
         /\ Output(<<[is |-> "---"], [is |-> "+++", path |-> target]>>)
         /\ gone' = IF target = git.path THEN gone ELSE gone \cup {git.path}
    /\ UNCHANGED <<truth, edited, tested>>

\* The hunk makes new lines of old ones: later ones move.  A hunk that only deletes
\* names the line before it.
Hunk(start, old, new) ==
    LET first == IF new = 0 THEN start + 1 ELSE start IN
    /\ git.hunks < MaxHunks
    /\ first >= git.next /\ first + new - 1 <= MaxLine
    /\ git' = [git EXCEPT !.next = first + new + 1, !.old = old, !.new = new, !.hunks = @ + 1]
    /\ Output(<<[is |-> "@@", old |-> HunkRange(first, old), new |-> HunkRange(start, new)]>>)
    /\ truth' = {l \in truth : l[1] # git.path \/ l[2] < first}
                  \cup {<<l[1], l[2] + new - old>> :
                           l \in {m \in truth : m[1] = git.path /\ m[2] >= first + old}}
                  \cup Lines(git.path, first, new)
    /\ edited' = [edited EXCEPT ![step] = @ \cup {git.path}]
    /\ UNCHANGED <<gone, tested>>

HunkHeader ==
    /\ Diffing /\ git.target = git.path /\ git.path # NoPath
    /\ \E start \in 0..MaxLine, old, new \in 0..MaxCount :
         old + new > 0 /\ Hunk(start, old, new)

\* All lines of a deleted file.
DeletionHeader ==
    /\ Diffing /\ git.target = "/dev/null"
    /\ git.next = 1 /\ git.hunks < MaxHunks
    /\ git' = [git EXCEPT !.next = 2, !.old = MaxCount, !.hunks = @ + 1]
    /\ Output(<<[is |-> "@@", old |-> HunkRange(1, MaxCount), new |-> <<0, 0>>]>>)
    /\ truth' = {l \in truth : l[1] # git.path}
    /\ UNCHANGED <<edited, gone, tested>>

\* The removed lines come first.  The last of either side may be the end of its file
\* without a newline, which a line of its own says.
BodyLine ==
    /\ Printing /\ git.old + git.new > 0
    /\ LET last == git.old = 1 \/ (git.old = 0 /\ git.new = 1)
           Printed(line) ==
               \/ Output(<<line>>)
               \/ last /\ Output(<<line, [is |-> "\\"]>>)
       IN IF git.old > 0
          THEN /\ git' = [git EXCEPT !.old = @ - 1]
               /\ \E is \in {"-", "---"} : Printed([is |-> is])
          ELSE /\ git' = [git EXCEPT !.new = @ - 1]
               /\ \/ Printed([is |-> "+"])
                  \/ \E path \in Paths \cup {"/dev/null"} : Printed([is |-> "+++", path |-> path])
    /\ UNCHANGED <<truth, edited, gone, tested>>

\* merge.
EndDiff ==
    /\ Diffing /\ SectionDone
    /\ changed' = changed \cup parser.changed
    /\ step' = IF step = "branch" THEN "tree" ELSE "untracked"
    /\ git' = [NoGit EXCEPT !.hunks = git.hunks]
    /\ parser' = NoParser
    /\ UNCHANGED <<base, profile, reports, exit, truth, edited, gone, tested>>

-----------------------------------------------------------------------------
(* The rest of run *)

\* collectChanged: a file that git does not track is changed in all its lines, one that
\* is not there in none.
Untracked ==
    /\ step = "untracked"
    /\ \E files \in SUBSET (Paths \ (gone \cup edited.branch \cup edited.tree)), count \in 0..MaxCount :
         LET all == {l \in changed : l[1] \notin gone}
                        \cup UNION {Lines(f, 1, count) : f \in files \cap Relevant}
         IN /\ changed' = all
            /\ truth' = truth \cup UNION {Lines(f, 1, count) : f \in files}
            /\ IF all = {} THEN Exit("green") ELSE step' = "suite" /\ UNCHANGED exit
    /\ UNCHANGED <<base, git, parser, profile, reports, edited, gone, tested>>

\* A suite that fails leaves nothing to measure.
runCoverage ==
    /\ step = "suite"
    /\ \/ step' = "profile" /\ UNCHANGED exit
       \/ Exit("broken")
    /\ UNCHANGED <<base, git, parser, changed, profile, reports, truth, edited, gone, tested>>

\* Mutant: the last report of a block counts.
mergeLast(p, b, count) == [p EXCEPT ![b] = count]

\* A block that comes twice is merged.
merge(p, b, count) == [p EXCEPT ![b] = IF count > @ THEN count ELSE @]

parseProfile ==
    /\ step = "profile" /\ reports < MaxReports
    /\ \E b \in Blocks, count \in {0, 1} :
         /\ profile' = merge(profile, b, count)
         /\ tested' = IF count > 0 THEN tested \cup {b} ELSE tested
    /\ reports' = reports + 1
    /\ UNCHANGED <<step, base, git, parser, changed, exit, truth, edited, gone>>

\* Mutant: a block that ends on a changed line is not touched.
touchesInside(lines, b) == \E l \in lines : l[1] = b.path /\ l[2] >= b.start /\ l[2] < b.end

touches(lines, b) == \E l \in lines : l[1] = b.path /\ l[2] >= b.start /\ l[2] <= b.end

Statements(blocks) == MapThenSumSet(LAMBDA b : b.stmts, blocks)

\* Mutant: whole per cents are compared.
belowInPercent(covered, total, repoCovered, repoTotal) ==
    /\ total # 0 /\ repoTotal # 0
    /\ (2 * covered) \div total < (2 * repoCovered) \div repoTotal

belowRepoAverage(covered, total, repoCovered, repoTotal) ==
    /\ total # 0 /\ repoTotal # 0
    /\ covered * repoTotal < repoCovered * total

measure ==
    LET hit == {b \in Blocks : profile[b] > 0}
        here == {b \in Blocks : touches(changed, b)}
    IN belowRepoAverage(Statements(here \cap hit), Statements(here),
                        Statements(hit), Statements(Blocks))

Conclude ==
    /\ step = "profile"
    /\ \A b \in Blocks : profile[b] # -1
    /\ Exit(IF measure THEN "below" ELSE "green")
    /\ UNCHANGED <<base, git, parser, changed, profile, reports, truth, edited, gone, tested>>

\* A git command, or a profile that cannot be read.
Fails ==
    /\ step \in {"branch", "tree", "untracked", "profile"}
    /\ Exit("broken")
    /\ UNCHANGED <<base, git, parser, changed, profile, reports, truth, edited, gone, tested>>

Next ==
    \/ SelectBase
    \/ DiffHeader \/ TargetHeader \/ HunkHeader \/ DeletionHeader \/ BodyLine \/ EndDiff
    \/ Untracked \/ runCoverage \/ parseProfile \/ Conclude \/ Fails

Spec == Init /\ [][Next]_vars

-----------------------------------------------------------------------------

\* The lines of the working tree that the change wrote, as far as they are measured.
Measurable == {l \in truth : l[1] \in Relevant \ gone}

\* The gate is green only if the lines that the change wrote are covered no worse than the
\* repository ("coverage of changed lines not below the repo average"), and red only if
\* they are; and it compares a branch with itself only if there is no other branch to
\* compare it with (defaultBaseCandidates).  From the refs over what git prints to the
\* counts, for files that not both diffs change (see CountedInTheNewFile).
GreenIsEarned ==
    LET lines == Measurable
        here == {b \in Blocks : \E n \in b.start..b.end : <<b.path, n>> \in lines}
        below == /\ Statements(here) # 0 /\ Statements(Blocks) # 0
                 /\ Statements(here \cap tested) * Statements(Blocks)
                      < Statements(tested) * Statements(here)
    IN edited.branch \cap edited.tree = {} =>
         /\ exit = "green" => ~below /\ ~(base.own /\ base.other)
         /\ exit = "below" => below

\* changedLines holds "the line numbers the change adds or rewrites, counted in the *new*
\* file" (diff.go), the one the suite is run on.
CountedInTheNewFile ==
    step \in {"suite", "profile"} => changed = Measurable
=============================================================================
