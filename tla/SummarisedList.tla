--------------------------- MODULE SummarisedList ---------------------------
(***************************************************************************)
(* What a conversation promises to an invocation, with the file, its       *)
(* lines, their stamps and the torn writes left out: a list of records, of *)
(* which a summary stands for a prefix.  An invocation recalls the summary *)
(* and the rest, and what it says is added to both.  The promise ends      *)
(* with the first cut it cannot keep, and does not come back.              *)
(***************************************************************************)
EXTENDS Naturals, Sequences

CONSTANTS
  Record,   \* what is said
  Boundary  \* the records a rest may begin with

VARIABLES
  records,  \* everything ever said
  covered,  \* how many of them the newest summary stands for
  running,  \* is there an invocation?
  told,     \* the numbers of the records its summary stands for
  rest,     \* the records it holds word by word
  exact     \* is the promise kept?
vars == <<records, covered, running, told, rest, exact>>

Init ==
  /\ records = <<>> /\ covered = 0
  /\ running = FALSE /\ told = {} /\ rest = <<>>
  /\ exact = TRUE

\* A summary grows, and only between invocations.
Summarise ==
  /\ ~running
  /\ \E n \in covered + 1 .. Len(records) :
       /\ n < Len(records) => records[n + 1] \in Boundary
       /\ covered' = n
  /\ UNCHANGED <<records, running, told, rest>>

Recall ==
  /\ ~running /\ running' = TRUE
  /\ told' = 1 .. covered /\ rest' = SubSeq(records, covered + 1, Len(records))
  /\ UNCHANGED <<records, covered>>

Say(m) ==
  /\ running
  /\ records' = Append(records, m) /\ rest' = Append(rest, m)
  /\ UNCHANGED <<covered, running, told>>

Leave ==
  /\ running /\ running' = FALSE /\ told' = {} /\ rest' = <<>>
  /\ UNCHANGED <<records, covered>>

Kept == exact /\ exact' = TRUE /\ (Summarise \/ Recall \/ (\E m \in Record : Say(m)) \/ Leave)
Broken == exact' = FALSE
Next == Kept \/ Broken

Spec == Init /\ [][Next]_vars
=============================================================================
