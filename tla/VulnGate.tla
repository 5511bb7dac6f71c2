------------------------------ MODULE VulnGate ------------------------------
(***************************************************************************)
(* The gate on known vulnerabilities (tools/vulngate): how it reads the    *)
(* direct requirements out of go.mod line by line, how it reads the stream *)
(* of the scanner, and what it concludes.                                  *)
(***************************************************************************)
EXTENDS Integers, Sequences

CONSTANTS
    Modules,     \* of dependencies
    ThisModule,
    Std,         \* stdlib and toolchain
    Findings,    \* what the scanner may report: [osv, fixed, trace]
    MaxLines,    \* lines of go.mod
    MaxMessages  \* of the stream

VARIABLES
    phase,       \* of run
    file,        \* the block that the line of go.mod is in (history)
    required,    \* modules that go.mod requires directly (history)
    block,       \* parseGoMod: the block it takes itself to be in
    mainModule, direct,
    lines,       \* of go.mod, so far
    config,      \* the stream has had a config message
    findings,    \* of the stream, in order
    complete,    \* the stream had an end (history)
    next,        \* collectCalled: the finding it is at
    vulns,       \* those it has seen
    verdict

scanVars == <<phase, file, required, block, mainModule, direct, lines, config, findings,
              complete, next, vulns, verdict>>

goMod == <<file, required, block, mainModule, direct, lines>>
scan == <<config, findings, complete>>
collected == <<next, vulns>>

ScanInit ==
    /\ phase = "gomod"
    /\ file = "" /\ block = ""
    /\ required = {} /\ direct = {}
    /\ mainModule = FALSE
    /\ lines = 0
    /\ config = FALSE
    /\ findings = <<>>
    /\ complete = FALSE
    /\ next = 1 /\ vulns = {}
    /\ verdict = "none"

Leave(code) == phase' = "done" /\ verdict' = code

-----------------------------------------------------------------------------
(* go.mod.  A line is what is left of its code, and its comment. *)

\* Its first word is indirect, alone or before a semicolon.
isIndirect(comment) == comment = "indirect"

Comments == {"", "indirect", "not indirect"}

\* Mutant: the module is taken from every block.
addFromAnyBlock(b, path, comment) ==
    IF isIndirect(comment) THEN {} ELSE {path}

\* In a require block, or at top level after the word.
addRequirement(b, path, comment) ==
    IF b # "require" \/ isIndirect(comment) THEN {} ELSE {path}

Read ==
    /\ phase = "gomod" /\ lines < MaxLines
    /\ lines' = lines + 1
    /\ UNCHANGED <<phase, scan, collected, verdict>>

ModuleLine ==
    /\ Read /\ file = "" /\ ~mainModule
    /\ mainModule' = (mainModule \/ block = "")
    /\ UNCHANGED <<file, required, block, direct>>

\* A comment on a line of its own says nothing about the next one; what another
\* keyword says at top level is not read.
OtherLine ==
    /\ Read
    /\ UNCHANGED <<file, required, block, mainModule, direct>>

OpenBlock ==
    /\ Read /\ file = ""
    /\ file' \in {"require", "replace", "exclude"}
    /\ block' = IF block = "" THEN file' ELSE block
    /\ UNCHANGED <<required, mainModule, direct>>

CloseBlock ==
    /\ Read /\ file # ""
    /\ file' = "" /\ block' = ""
    /\ UNCHANGED <<required, mainModule, direct>>

\* A line in a block, or one that carries the keyword itself.
ModuleEntry ==
    /\ Read
    /\ \E keyword \in {"require", "replace", "exclude"}, path \in Modules, comment \in Comments :
         /\ file # "" => keyword = file
         /\ required' = IF keyword = "require" /\ comment # "indirect"
                        THEN required \cup {path} ELSE required
         /\ direct' = direct \cup
              addRequirement(IF block = "" THEN keyword ELSE block, path, comment)
    /\ UNCHANGED <<file, block, mainModule>>

\* A file that ends where no module was named is not read on from.
EndOfGoMod ==
    /\ phase = "gomod" /\ file = ""
    /\ IF mainModule THEN phase' = "stream" /\ UNCHANGED verdict ELSE Leave("broken")
    /\ UNCHANGED <<goMod, scan, collected>>

-----------------------------------------------------------------------------
(* The stream, and the conclusion *)

Message ==
    /\ phase = "stream"
    /\ UNCHANGED <<phase, goMod, complete, collected, verdict>>

ConfigMessage == Message /\ config' = TRUE /\ UNCHANGED findings

FindingMessage ==
    /\ Message
    /\ Len(findings) < MaxMessages
    /\ \E f \in Findings : findings' = Append(findings, f)
    /\ UNCHANGED config

\* Some frame names a function: a call, not just an import or a requirement.
called(f) == \E k \in DOMAIN f.trace : f.trace[k].function

\* Mutant: the entry point in our own code.
entryFrame(f) == f.trace[Len(f.trace)]

\* The first: traces start at the vulnerable symbol.
vulnerableFrame(f) == f.trace[1]

\* classify, as far as actionable asks.
actionable(module) == module \in Std \/ module = ThisModule \/ module \in direct

\* Mutant: the first finding for a module decides.
collectFirst(seen, f) ==
    LET key == <<f.osv, vulnerableFrame(f).module>>
    IN IF ~called(f) \/ key[2] = "" \/ \E v \in seen : v.key = key THEN seen
       ELSE seen \cup {[key |-> key, fixed |-> f.fixed]}

\* The loop of collectCalled: one for each advisory and module, fixed if some finding says so.
collectCalled(seen, f) ==
    LET key == <<f.osv, vulnerableFrame(f).module>>
        others == {v \in seen : v.key # key}
    IN IF ~called(f) THEN seen
       ELSE others \cup {[key |-> key,
                fixed |-> f.fixed \/ \E v \in seen \ others : v.fixed]}

blocking(v) == v.fixed /\ actionable(v.key[2])

\* The stream ends, or is cut, or goes on with what is no message; without a config
\* message there was no scan.
EndOfStream ==
    /\ phase = "stream"
    /\ complete' \in BOOLEAN
    /\ IF complete' /\ config THEN phase' = "collect" /\ UNCHANGED verdict ELSE Leave("broken")
    /\ UNCHANGED <<goMod, config, findings, collected>>

\* A finding that is called but names no module is an error.
Collect ==
    /\ phase = "collect" /\ next <= Len(findings)
    /\ LET f == findings[next] IN
         IF called(f) /\ vulnerableFrame(f).module = ""
         THEN Leave("broken") /\ UNCHANGED collected
         ELSE /\ vulns' = collectCalled(vulns, f)
              /\ next' = next + 1
              /\ UNCHANGED <<phase, verdict>>
    /\ UNCHANGED <<goMod, scan>>

Decide ==
    /\ phase = "collect" /\ next > Len(findings)
    /\ Leave(IF \E v \in vulns : blocking(v) THEN "blocking" ELSE "green")
    /\ UNCHANGED <<goMod, scan, collected>>

\* go.mod cannot be read; the scanner cannot be run.
ScanFails ==
    /\ phase \in {"gomod", "stream"}
    /\ Leave("broken")
    /\ UNCHANGED <<goMod, scan, collected>>

ScanNext ==
    \/ ModuleLine \/ OtherLine \/ OpenBlock \/ CloseBlock \/ ModuleEntry \/ EndOfGoMod
    \/ ConfigMessage \/ FindingMessage \/ EndOfStream \/ Collect \/ Decide \/ ScanFails

ScanSpec == ScanInit /\ [][ScanNext]_scanVars

-----------------------------------------------------------------------------

\* The gate is red if and only if some call in the stream reaches a vulnerability with a fix in
\* what go.mod requires directly, in this module or in the Go distribution, whatever
\* the order of lines and findings and whatever else is reported; and it is green only
\* on a whole stream: "a scanner that died halfway through has not established that
\* there is nothing to find" (parseStream).
FixableIsBlocked ==
    LET Counts(f) ==
            /\ f.fixed
            /\ f.trace[1].module \in Std \cup {ThisModule} \cup required
            /\ \E k \in DOMAIN f.trace : f.trace[k].function
    IN /\ verdict = "green" => /\ complete /\ config
                            /\ \A k \in DOMAIN findings : ~Counts(findings[k])
       /\ verdict = "blocking" => \E k \in DOMAIN findings : Counts(findings[k])
=============================================================================
