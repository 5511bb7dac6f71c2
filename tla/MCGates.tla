------------------------------- MODULE MCGates -------------------------------
(* The two gates of the build, one of them in a behaviour. *)
EXTENDS CoverageGate, VulnGate

MCBlocks ==
    {[path |-> "a.go", start |-> 1, end |-> 2, stmts |-> 1],
     [path |-> "a.go", start |-> 2, end |-> 3, stmts |-> 2],
     [path |-> "b.go", start |-> 1, end |-> 1, stmts |-> 1]}

\* A requirement, a call into it, and a call into what has no name.
MCFindings ==
    LET Frame(m, f) == [module |-> m, function |-> f]
        Traces(m) == {<<Frame(m, FALSE)>>, <<Frame(m, TRUE), Frame("this", TRUE)>>}
    IN [osv : {"advisory"}, fixed : BOOLEAN,
        trace : UNION {Traces(m) : m \in Modules \cup {"stdlib"}}
                    \cup {<<Frame("", TRUE), Frame("this", TRUE)>>}]

VARIABLE gate

GatesInit == gate \in {"coverage", "vulns"} /\ Init /\ ScanInit

GatesNext ==
    \/ gate = "coverage" /\ Next /\ UNCHANGED <<gate, scanVars>>
    \/ gate = "vulns" /\ ScanNext /\ UNCHANGED <<gate, vars>>

GatesSpec == GatesInit /\ [][GatesNext]_<<vars, gate, scanVars>>
=============================================================================
