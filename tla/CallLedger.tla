----------------------------- MODULE CallLedger -----------------------------
(***************************************************************************)
(* What a session promises about the tool calls the model asks for, with   *)
(* the transcript, the invocations and the processes left out: a call is   *)
(* issued, executed, answered or cancelled; only a fault lets it run again *)
(* and a cancelled call is never executed.                                 *)
(***************************************************************************)
EXTENDS Naturals

CONSTANT MaxCalls

VARIABLES
  issued,     \* calls 1 .. issued have been asked for
  answered,   \* calls the transcript answers
  cancelled,  \* the answered calls whose answer is a cancellation
  runs,       \* how often each call was executed
  faults      \* crashes and failed writes so far
vars == <<issued, answered, cancelled, runs, faults>>

Init ==
  /\ issued = 0 /\ answered = {} /\ cancelled = {}
  /\ runs = [c \in 1 .. MaxCalls |-> 0] /\ faults = 0

Issue ==
  /\ \E n \in issued + 1 .. MaxCalls : issued' = n
  /\ UNCHANGED <<answered, cancelled, runs, faults>>

\* A first execution, or one more than the faults so far account for.
Run(c) ==
  /\ c <= issued /\ c \notin cancelled /\ runs[c] <= faults
  /\ runs' = [runs EXCEPT ![c] = @ + 1]
  /\ UNCHANGED <<issued, answered, cancelled, faults>>

AnswerCall(c) ==
  /\ c <= issued /\ c \notin answered
  /\ answered' = answered \cup {c}
  /\ UNCHANGED <<issued, cancelled, runs, faults>>

\* Only a fault can hide that the call has run.
Cancel(c) ==
  /\ c <= issued /\ c \notin answered /\ runs[c] <= faults
  /\ answered' = answered \cup {c} /\ cancelled' = cancelled \cup {c}
  /\ UNCHANGED <<issued, runs, faults>>

Fault ==
  /\ faults' = faults + 1
  /\ UNCHANGED <<issued, answered, cancelled, runs>>

Next == Issue \/ Fault \/ \E c \in 1 .. MaxCalls : Run(c) \/ AnswerCall(c) \/ Cancel(c)

Spec == Init /\ [][Next]_vars
=============================================================================
