------------------------- MODULE CommandTracerProofs -------------------------
(***************************************************************************)
(* Spans end as their commands did, and the map holds no others, for any   *)
(* number of connections, request ids and spans.                           *)
(***************************************************************************)
EXTENDS CommandTracer, TLAPS

\* The span of a command under way: in the map, or in the hand of its handler.
Current(c) == IF c \in DOMAIN spans THEN spans[c] ELSE held[c]

\* The map has exactly the commands the server has, under their own keys.
MapOfRunning ==
    /\ DOMAIN spans \subseteq Commands
    /\ \A c \in Commands : c \in DOMAIN spans <=> stage[c] \in {"running", "answered"}

\* A command under way has one open span, its own, which knows its answer.
OwnSpan ==
    \A c \in Commands : stage[c] # "idle" =>
        /\ Current(c) \in Spans
        /\ span[Current(c)].of = c
        /\ span[Current(c)].status = "open"
        /\ stage[c] \in {"answered", "taken"} =>
             /\ answer[c] \in Outcomes
             /\ span[Current(c)].due = answer[c]
        /\ stage[c] \notin {"answered", "taken"} => span[Current(c)].due = "none"

\* A span that has not been ended has not been counted as ended.
EndedOnce ==
    \A s \in Spans : span[s].status \notin Outcomes => span[s].ends = 0

IInv == TypeOK /\ MapOfRunning /\ OwnSpan /\ EndedOnce /\ EndsAsItsCommand

\* What holds of the map that Take leaves behind.
LEMMA RestrictSpans ==
    ASSUME NEW c, NEW f
    PROVE  LET g == Restrict(f, DOMAIN f \ {c}) IN
             /\ DOMAIN g = DOMAIN f \ {c}
             /\ \A d \in DOMAIN g : g[d] = f[d]
BY DEF Restrict

\* What ending makes of an open span.
LEMMA EndedSpan ==
    ASSUME NEW r \in Span, r.ends = 0, NEW outcome \in Outcomes
    PROVE  Ended(r, outcome) =
             [status |-> outcome, ends |-> 1, of |-> r.of, due |-> r.due]
<1> DEFINE s == [status |-> outcome, ends |-> 0, of |-> r.of, due |-> r.due]
<1>2. [r EXCEPT !.status = outcome] = s
  BY DEF Span
<1>3. [s EXCEPT !.ends = 1] =
        [status |-> outcome, ends |-> 1, of |-> r.of, due |-> r.due]
  OBVIOUS
<1>4. [r EXCEPT !.status = outcome, !.ends = @ + 1] = [s EXCEPT !.ends = 1]
  <2>1. [r EXCEPT !.status = outcome, !.ends = @ + 1] =
          [[r EXCEPT !.status = outcome] EXCEPT !.ends = r.ends + 1]
    OBVIOUS
  <2>2. r.ends + 1 = 1
    OBVIOUS
  <2> QED BY <1>2, <2>1, <2>2, Zenon
<1> QED BY <1>3, <1>4, Zenon DEF Ended

\* The invariant holds before the first command.
LEMMA InitIInv == Init => IInv
<1> SUFFICES ASSUME Init PROVE IInv
  OBVIOUS
<1> USE SpanAssumption DEF Init
<1>1. TypeOK
  BY DEF TypeOK, NoSpan, Span, Outcomes
<1>2. MapOfRunning /\ OwnSpan
  BY DEF MapOfRunning, OwnSpan
<1>3. EndedOnce /\ EndsAsItsCommand
  BY DEF EndedOnce, EndsAsItsCommand, NoSpan, Outcomes
<1> QED BY <1>1, <1>2, <1>3 DEF IInv

\* started, up to the lock, opens a span that is no other command's.
LEMMA StartedIInv ==
    ASSUME IInv, NEW c \in Commands, Started(c)
    PROVE  IInv'
<1> USE DEF IInv
<1>1. PICK s \in Spans :
        /\ span[s].status = "none"
        /\ span' = [span EXCEPT ![s] = [NoSpan EXCEPT !.status = "open", !.of = c]]
        /\ held' = [held EXCEPT ![c] = s]
  BY DEF Started
<1>2. /\ stage[c] = "idle"
      /\ stage' = [stage EXCEPT ![c] = "started"]
      /\ UNCHANGED <<spans, answer>>
  BY DEF Started
<1>3. span'[s] = [status |-> "open", ends |-> 0, of |-> c, due |-> "none"]
  BY <1>1 DEF NoSpan, TypeOK
<1>4. \A t \in Spans : t # s => span'[t] = span[t]
  BY <1>1 DEF TypeOK
<1>5. TypeOK'
  <2>1. span' \in [Spans -> Span]
    <3>1. span'[s] \in Span
      BY <1>3 DEF Span, Outcomes
    <3> QED BY <1>1, <1>3, <3>1 DEF TypeOK
  <2> QED BY <1>1, <1>2, <2>1 DEF TypeOK
<1>6. MapOfRunning'
  BY <1>2 DEF MapOfRunning, TypeOK
<1>7. OwnSpan'
  <2> SUFFICES ASSUME NEW d \in Commands, stage'[d] # "idle"
               PROVE  /\ Current(d)' \in Spans
                      /\ span'[Current(d)'].of = d
                      /\ span'[Current(d)'].status = "open"
                      /\ stage'[d] \in {"answered", "taken"} =>
                           /\ answer'[d] \in Outcomes
                           /\ span'[Current(d)'].due = answer'[d]
                      /\ stage'[d] \notin {"answered", "taken"} =>
                           span'[Current(d)'].due = "none"
    BY DEF OwnSpan
  <2>1. CASE d = c
    <3>1. Current(c)' = s
      BY <1>1, <1>2 DEF Current, MapOfRunning, TypeOK
    <3> QED BY <2>1, <3>1, <1>2, <1>3 DEF TypeOK
  <2>2. CASE d # c
    <3>1. Current(d)' = Current(d) /\ stage'[d] = stage[d]
      BY <2>2, <1>1, <1>2 DEF Current, TypeOK
    <3>2. Current(d) # s
      BY <3>1, <1>1 DEF OwnSpan
    <3> QED BY <3>1, <3>2, <1>2, <1>4 DEF OwnSpan
  <2> QED BY <2>1, <2>2
<1>8. EndedOnce' /\ EndsAsItsCommand'
  BY <1>3, <1>4 DEF EndedOnce, EndsAsItsCommand, Outcomes
<1> QED BY <1>5, <1>6, <1>7, <1>8

\* started, under the lock, puts the span in hand under the command's own key.
LEMMA StoreIInv ==
    ASSUME IInv, NEW c \in Commands, Store(c)
    PROVE  IInv'
<1> USE DEF IInv
<1>1. /\ stage[c] = "started"
      /\ spans' = [k \in DOMAIN spans \cup {c} |-> IF k = c THEN held[c] ELSE spans[k]]
      /\ held' = [held EXCEPT ![c] = 0]
      /\ stage' = [stage EXCEPT ![c] = "running"]
      /\ UNCHANGED <<answer, span>>
  BY DEF Store, commandKey
<1>2. /\ DOMAIN spans' = {c} \cup DOMAIN spans
      /\ spans'[c] = held[c]
      /\ \A d \in DOMAIN spans : d # c => spans'[d] = spans[d]
  BY <1>1
<1>3. c \notin DOMAIN spans
  BY <1>1 DEF MapOfRunning
<1>4. held[c] \in Spans
  BY <1>1, <1>3 DEF OwnSpan, Current
<1>5. TypeOK'
  BY <1>1, <1>2, <1>4 DEF TypeOK
<1>6. MapOfRunning'
  BY <1>1, <1>2 DEF MapOfRunning, TypeOK
<1>7. \A d \in Commands : stage[d] # "idle" => Current(d)' = Current(d)
  BY <1>1, <1>2, <1>3 DEF Current, TypeOK
<1>8. OwnSpan'
  BY <1>1, <1>7 DEF OwnSpan, TypeOK
<1>9. EndedOnce' /\ EndsAsItsCommand'
  BY <1>1 DEF EndedOnce, EndsAsItsCommand
<1> QED BY <1>5, <1>6, <1>8, <1>9

\* The answer of the server is due for the command's own span.
LEMMA AnsweredIInv ==
    ASSUME IInv, NEW c \in Commands, NEW outcome \in Outcomes, Answered(c, outcome)
    PROVE  IInv'
<1> USE DEF IInv
<1>1. /\ stage[c] = "running"
      /\ stage' = [stage EXCEPT ![c] = "answered"]
      /\ answer' = [answer EXCEPT ![c] = outcome]
      /\ UNCHANGED <<spans, held>>
  BY DEF Answered
<1>2. /\ span' \in [Spans -> Span]
      /\ \A s \in Spans :
           IF span[s].of = c /\ span[s].due = "none"
           THEN span'[s] = [span[s] EXCEPT !.due = outcome]
           ELSE span'[s] = span[s]
  BY DEF Answered, TypeOK, Span
<1>3. TypeOK'
  BY <1>1, <1>2 DEF TypeOK
<1>4. MapOfRunning'
  BY <1>1 DEF MapOfRunning, TypeOK
<1>5. \A d \in Commands : Current(d)' = Current(d)
  BY <1>1 DEF Current
<1>6. \A s \in Spans : /\ span'[s].status = span[s].status
                       /\ span'[s].ends = span[s].ends
                       /\ span'[s].of = span[s].of
                       /\ span[s].of # c => span'[s].due = span[s].due
                       /\ span[s].due # "none" => span'[s].due = span[s].due
  BY <1>2 DEF TypeOK, Span
<1>7. OwnSpan'
  <2> SUFFICES ASSUME NEW d \in Commands, stage'[d] # "idle"
               PROVE  /\ Current(d) \in Spans
                      /\ span'[Current(d)].of = d
                      /\ span'[Current(d)].status = "open"
                      /\ stage'[d] \in {"answered", "taken"} =>
                           /\ answer'[d] \in Outcomes
                           /\ span'[Current(d)].due = answer'[d]
                      /\ stage'[d] \notin {"answered", "taken"} =>
                           span'[Current(d)].due = "none"
    BY <1>5 DEF OwnSpan
  <2>1. CASE d = c
    <3>1. span[Current(c)].due = "none" /\ span[Current(c)].of = c /\ Current(c) \in Spans
      BY <1>1 DEF OwnSpan
    <3>2. span'[Current(c)].due = outcome
      BY <3>1, <1>2 DEF TypeOK, Span
    <3>3. answer'[c] = outcome /\ stage'[c] = "answered"
      BY <1>1 DEF TypeOK
    <3> QED BY <2>1, <3>1, <3>2, <3>3, <1>1, <1>6 DEF OwnSpan
  <2>2. CASE d # c
    <3>1. stage'[d] = stage[d] /\ answer'[d] = answer[d]
      BY <2>2, <1>1 DEF TypeOK
    <3> QED BY <2>2, <3>1, <1>6 DEF OwnSpan
  <2> QED BY <2>1, <2>2
<1>8. EndedOnce' /\ EndsAsItsCommand'
  BY <1>6 DEF EndedOnce, EndsAsItsCommand, Outcomes
<1> QED BY <1>3, <1>4, <1>7, <1>8

\* take moves the span from the map into the hand of the handler.
LEMMA TakeIInv ==
    ASSUME IInv, NEW c \in Commands, Take(c)
    PROVE  IInv'
<1> USE DEF IInv
<1>1. stage[c] = "answered" /\ c \in DOMAIN spans
  BY DEF Take, MapOfRunning
<1>2. /\ held' = [held EXCEPT ![c] = spans[c]]
      /\ spans' = Restrict(spans, DOMAIN spans \ {c})
      /\ stage' = [stage EXCEPT ![c] = "taken"]
      /\ UNCHANGED <<answer, span>>
  BY <1>1 DEF Take, commandKey
<1>3. /\ DOMAIN spans' = DOMAIN spans \ {c}
      /\ \A d \in DOMAIN spans' : spans'[d] = spans[d]
  BY <1>2, RestrictSpans
<1>4. TypeOK'
  BY <1>1, <1>2, <1>3 DEF TypeOK
<1>5. MapOfRunning'
  BY <1>2, <1>3 DEF MapOfRunning, TypeOK
<1>6. \A d \in Commands : stage[d] # "idle" => Current(d)' = Current(d)
  BY <1>1, <1>2, <1>3 DEF Current, TypeOK
<1>7. OwnSpan'
  BY <1>1, <1>2, <1>6 DEF OwnSpan, TypeOK
<1>8. EndedOnce' /\ EndsAsItsCommand'
  BY <1>2 DEF EndedOnce, EndsAsItsCommand
<1> QED BY <1>4, <1>5, <1>7, <1>8

\* succeeded and failed end the span they took, which is open and their own.
LEMMA EndIInv ==
    ASSUME IInv, NEW c \in Commands, End(c)
    PROVE  IInv'
<1> USE DEF IInv
<1>1. /\ stage[c] = "taken"
      /\ held' = [held EXCEPT ![c] = 0]
      /\ stage' = [stage EXCEPT ![c] = "idle"]
      /\ UNCHANGED <<spans, answer>>
  BY DEF End
<1>2. c \notin DOMAIN spans /\ Current(c) = held[c]
  BY <1>1 DEF MapOfRunning, Current
<1>3. /\ held[c] \in Spans
      /\ span[held[c]].of = c
      /\ span[held[c]].status = "open"
      /\ answer[c] \in Outcomes
      /\ span[held[c]].due = answer[c]
      /\ span[held[c]].ends = 0
  BY <1>1, <1>2 DEF OwnSpan, EndedOnce, Outcomes
<1>4. /\ \A s \in Spans : s # held[c] => span'[s] = span[s]
      /\ span'[held[c]] = Ended(span[held[c]], answer[c])
      /\ span' = [span EXCEPT ![held[c]] = span'[held[c]]]
  BY <1>3 DEF End, TypeOK
<1>5. /\ span'[held[c]] \in Span
      /\ span'[held[c]].status = answer[c]
      /\ span'[held[c]].ends = 1
      /\ span'[held[c]].due = answer[c]
  <2>1. span[held[c]] \in Span
    BY <1>3 DEF TypeOK
  <2>2. span'[held[c]] = [status |-> answer[c], ends |-> 1,
                          of |-> span[held[c]].of, due |-> span[held[c]].due]
    BY <1>3, <1>4, <2>1, EndedSpan
  <2> QED BY <1>3, <2>2 DEF Span
<1>6. TypeOK'
  BY <1>1, <1>4, <1>5 DEF TypeOK
<1>7. MapOfRunning'
  BY <1>1 DEF MapOfRunning, TypeOK
<1>8. OwnSpan'
  <2>1. \A d \in Commands : stage'[d] # "idle" => d # c /\ stage'[d] = stage[d]
    BY <1>1 DEF TypeOK
  <2>2. \A d \in Commands : d # c => Current(d)' = Current(d)
    BY <1>1 DEF Current, TypeOK
  <2>3. \A d \in Commands : stage'[d] # "idle" => span'[Current(d)] = span[Current(d)]
    BY <2>1, <1>3, <1>4 DEF OwnSpan
  <2> QED BY <2>1, <2>2, <2>3, <1>1 DEF OwnSpan
<1>9. EndedOnce' /\ EndsAsItsCommand'
  <2>1. span'[held[c]].status \in Outcomes
    BY <1>3, <1>5
  <2>2. ASSUME NEW s \in Spans
        PROVE  /\ span'[s].status \notin Outcomes => span'[s].ends = 0
               /\ span'[s].ends <= 1
               /\ span'[s].status \in Outcomes => span'[s].status = span'[s].due
    <3>1. CASE s = held[c]
      BY <1>5, <2>1, <3>1
    <3>2. CASE s # held[c]
      BY <1>4, <3>2 DEF EndedOnce, EndsAsItsCommand
    <3> QED BY <3>1, <3>2
  <2> QED BY <2>2 DEF EndedOnce, EndsAsItsCommand
<1> QED BY <1>6, <1>7, <1>8, <1>9

\* Every step, and every stutter, preserves the invariant.
LEMMA NextIInv == IInv /\ [Next]_vars => IInv'
<1> SUFFICES ASSUME IInv, [Next]_vars PROVE IInv'
  OBVIOUS
<1>1. ASSUME NEW c \in Commands, Started(c) PROVE IInv'
  BY <1>1, StartedIInv
<1>2. ASSUME NEW c \in Commands, NEW o \in Outcomes, Answered(c, o) PROVE IInv'
  BY <1>2, AnsweredIInv
<1>3. ASSUME NEW c \in Commands, Handler(c) PROVE IInv'
  BY <1>3, StoreIInv, TakeIInv, EndIInv DEF Handler
<1>4. CASE UNCHANGED vars
  BY <1>4 DEF vars, IInv, TypeOK, MapOfRunning, OwnSpan, Current, EndedOnce, EndsAsItsCommand
<1> QED BY <1>1, <1>2, <1>3, <1>4 DEF Next

\* The invariant holds in every reachable state.
LEMMA Inductive == Spec => []IInv
BY InitIInv, NextIInv, PTL DEF Spec

\* The tracer's map, and the spans, keep their types (started, take).
THEOREM TracerTypeCorrect == Spec => []TypeOK
<1>1. IInv => TypeOK
  BY DEF IInv
<1> QED BY <1>1, Inductive, PTL

\* No span ends twice, and each ends as the command it was opened for did
\* (commandKey, take).
THEOREM SpansEndAsCommands == Spec => []EndsAsItsCommand
<1>1. IInv => EndsAsItsCommand
  BY DEF IInv
<1> QED BY <1>1, Inductive, PTL

\* The map holds the open spans of the commands under way, and nothing else (take).
THEOREM MapHoldsWhatIsUnderWay == Spec => []HoldsWhatIsUnderWay
<1>1. ASSUME IInv PROVE HoldsWhatIsUnderWay
  <2>1. ASSUME NEW k \in DOMAIN spans
        PROVE  \E c \in Commands :
                 /\ stage[c] \in {"running", "answered"}
                 /\ k = commandKey(c)
                 /\ span[spans[k]].of = c
                 /\ span[spans[k]].status = "open"
    BY <1>1, <2>1 DEF IInv, MapOfRunning, OwnSpan, Current, commandKey
  <2>2. \A c \in Commands : stage[c] \in {"running", "answered"} =>
                                commandKey(c) \in DOMAIN spans
    BY <1>1 DEF IInv, MapOfRunning, commandKey
  <2> QED BY <2>1, <2>2 DEF HoldsWhatIsUnderWay
<1> QED BY <1>1, Inductive, PTL
=============================================================================
