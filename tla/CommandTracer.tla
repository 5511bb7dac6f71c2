---------------------------- MODULE CommandTracer ----------------------------
(***************************************************************************)
(* The tracer of MongoDB commands (pkg/db/tracing.go).  The driver reports *)
(* the start and the end of every command from the goroutine that runs it; *)
(* the tracer opens a span for the one and ends it for the other, and      *)
(* remembers the open spans in a map under a lock.  A request id is unique *)
(* on its connection only, and is free again when its command has ended.   *)
(***************************************************************************)
EXTENDS Integers, Functions

CONSTANTS
    Connections,
    Requests,
    MaxSpans     \* spans a behaviour opens

ASSUME SpanAssumption == MaxSpans \in Nat

Commands == Connections \X Requests
Spans == 1..MaxSpans
Outcomes == {"ok", "error"}

VARIABLES
    spans,     \* key -> span, for the commands under way
    stage,     \* command -> where it is
    held,      \* command -> the span its event handler has in hand, or 0
    answer,    \* command -> what the server made of it
    span       \* span -> what has become of it

vars == <<spans, stage, held, answer, span>>

\* status: how it was ended; ends: how often; of: the command it was opened for;
\* due: what that was answered.
NoSpan == [status |-> "none", ends |-> 0, of |-> <<>>, due |-> "none"]

Span ==
    [status : {"none", "open"} \cup Outcomes, ends : Nat, of : Commands \cup {<<>>},
     due : {"none"} \cup Outcomes]

TypeOK ==
    /\ \A k \in DOMAIN spans : spans[k] \in Spans
    /\ stage \in [Commands -> {"idle", "started", "running", "answered", "taken"}]
    /\ held \in [Commands -> {0} \cup Spans]
    /\ answer \in [Commands -> {"none"} \cup Outcomes]
    /\ span \in [Spans -> Span]

\* newCommandMonitor
Init ==
    /\ spans = <<>>
    /\ stage = [c \in Commands |-> "idle"]
    /\ held = [c \in Commands |-> 0]
    /\ answer = [c \in Commands |-> "none"]
    /\ span = [s \in Spans |-> NoSpan]

\* Mutant: the request id alone.
KeyWithoutConnection(c) == c[2]

commandKey(c) == c

\* started, up to the lock: the span is opened.
Started(c) ==
    /\ stage[c] = "idle"
    /\ \E s \in Spans :
         /\ span[s].status = "none"
         /\ \A t \in 1..(s - 1) : span[t].status # "none"
         /\ span' = [span EXCEPT ![s] = [NoSpan EXCEPT !.status = "open", !.of = c]]
         /\ held' = [held EXCEPT ![c] = s]
    /\ stage' = [stage EXCEPT ![c] = "started"]
    /\ UNCHANGED <<spans, answer>>

\* started, under the lock.
Store(c) ==
    /\ stage[c] = "started"
    /\ spans' = [k \in DOMAIN spans \cup {commandKey(c)} |->
                    IF k = commandKey(c) THEN held[c] ELSE spans[k]]
    /\ held' = [held EXCEPT ![c] = 0]
    /\ stage' = [stage EXCEPT ![c] = "running"]
    /\ UNCHANGED <<answer, span>>

\* The server answers, or the connection fails.
Answered(c, outcome) ==
    /\ stage[c] = "running"
    /\ stage' = [stage EXCEPT ![c] = "answered"]
    /\ answer' = [answer EXCEPT ![c] = outcome]
    /\ span' = [s \in Spans |-> IF span[s].of = c /\ span[s].due = "none"
                                THEN [span[s] EXCEPT !.due = outcome] ELSE span[s]]
    /\ UNCHANGED <<spans, held>>

\* Mutant: the span stays in the map.
TakeAndKeep(c) ==
    /\ stage[c] = "answered"
    /\ commandKey(c) \in DOMAIN spans
    /\ held' = [held EXCEPT ![c] = spans[commandKey(c)]]
    /\ stage' = [stage EXCEPT ![c] = "taken"]
    /\ UNCHANGED <<spans, answer, span>>

\* take, under the lock; an unknown command is ignored.
Take(c) ==
    LET key == commandKey(c) IN
    /\ stage[c] = "answered"
    /\ IF key \in DOMAIN spans
       THEN /\ held' = [held EXCEPT ![c] = spans[key]]
            /\ spans' = Restrict(spans, DOMAIN spans \ {key})
            /\ stage' = [stage EXCEPT ![c] = "taken"]
       ELSE /\ stage' = [stage EXCEPT ![c] = "idle"]
            /\ UNCHANGED <<spans, held>>
    /\ UNCHANGED <<answer, span>>

Ended(s, status) == [s EXCEPT !.status = status, !.ends = @ + 1]

\* Mutant: the span of a failed command gets its status and is not ended.
EndSucceeded(c) ==
    /\ stage[c] = "taken"
    /\ span' = IF answer[c] = "ok"
               THEN [span EXCEPT ![held[c]] = Ended(@, "ok")]
               ELSE span
    /\ held' = [held EXCEPT ![c] = 0]
    /\ stage' = [stage EXCEPT ![c] = "idle"]
    /\ UNCHANGED <<spans, answer>>

\* Mutant: the span is ended without a status.
EndUnset(c) ==
    /\ stage[c] = "taken"
    /\ span' = [span EXCEPT ![held[c]] = Ended(@, "unset")]
    /\ held' = [held EXCEPT ![c] = 0]
    /\ stage' = [stage EXCEPT ![c] = "idle"]
    /\ UNCHANGED <<spans, answer>>

\* succeeded and failed, after take: the latter sets the error status first.
End(c) ==
    /\ stage[c] = "taken"
    /\ span' = [span EXCEPT ![held[c]] = Ended(@, answer[c])]
    /\ held' = [held EXCEPT ![c] = 0]
    /\ stage' = [stage EXCEPT ![c] = "idle"]
    /\ UNCHANGED <<spans, answer>>

Handler(c) == Store(c) \/ Take(c) \/ End(c)

Next ==
    \E c \in Commands :
        \/ Started(c)
        \/ \E outcome \in Outcomes : Answered(c, outcome)
        \/ Handler(c)

Spec == Init /\ [][Next]_vars

\* The event handlers run on; nothing makes the server answer.
FairSpec == Spec /\ \A c \in Commands : WF_vars(Handler(c))

-----------------------------------------------------------------------------

\* "A command cannot end twice" (take), and it ends as its own command did, not as
\* one of another connection under the same request id (commandKey).
EndsAsItsCommand ==
    \A s \in Spans :
        /\ span[s].ends <= 1
        /\ span[s].status \in Outcomes => span[s].status = span[s].due

\* "The map cannot grow with finished commands" (take): what it holds is the open
\* span of a command under way, and every command under way has its own in it.
HoldsWhatIsUnderWay ==
    /\ \A k \in DOMAIN spans :
         \E c \in Commands :
             /\ stage[c] \in {"running", "answered"}
             /\ k = commandKey(c)
             /\ span[spans[k]].of = c
             /\ span[spans[k]].status = "open"
    /\ \A c \in Commands : stage[c] \in {"running", "answered"} =>
                               commandKey(c) \in DOMAIN spans

\* The span of a command that was answered is ended (succeeded, failed).
AnsweredIsEnded ==
    \A s \in Spans : span[s].due # "none" ~> span[s].status \in Outcomes
=============================================================================
