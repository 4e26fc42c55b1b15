--------------------------- MODULE TellLoop_proofs ---------------------------
(***************************************************************************)
(* Proofs about TellLoop, in two layers.                                   *)
(*                                                                         *)
(* IInv bounds the executions and separates what is parked, visited and    *)
(* rejected: from it come the types, AtMostOncePlusFaults,                 *)
(* RejectedNeverRuns, and that every step is a step of CallLedger.         *)
(*                                                                         *)
(* JInv relates the message list in memory to the records in the file,     *)
(* which takes a theory of repair_messages (the second half of the helper  *)
(* lemmas: FlattenSeq, InOrder, Repair one record at a time).  From it     *)
(* come DiskMatchesRequest, RetryIdentical, RequestWellFormed,             *)
(* PendingIsCurrent and AnswersTruthful.                                   *)
(***************************************************************************)
EXTENDS TellLoop, SequenceTheorems, FiniteSetTheorems, WellFoundedInduction, TLAPS

-----------------------------------------------------------------------------
(***************************************************************************)
(* What one more record changes about a message list.                      *)
(***************************************************************************)
\* The three kinds of record are messages.
LEMMA RecordsAreMessages ==
  /\ User \in Message
  /\ \A S \in SUBSET Calls : Assistant(S) \in Message
  /\ \A c \in Calls, a \in Answer : Tool(c, a) \in Message
BY DEF User, Assistant, Tool, Message

\* A tool record answers its call and asks for none.
LEMMA AppendToolRecord ==
  ASSUME NEW m \in Seq(Message), NEW c \in Calls, NEW a \in Answer
  PROVE  /\ Answered(Append(m, Tool(c, a))) = Answered(m) \cup {c}
         /\ Cancelled(Append(m, Tool(c, a))) =
              IF a = "cancel" THEN Cancelled(m) \cup {c} ELSE Cancelled(m)
         /\ Asked(Append(m, Tool(c, a))) = Asked(m)
<1> DEFINE t == Tool(c, a)
           n == Append(m, t)
<1>1. /\ n \in Seq(Message) /\ Len(n) = Len(m) + 1 /\ n[Len(n)] = t
      /\ \A i \in 1 .. Len(m) : n[i] = m[i]
  BY RecordsAreMessages
<1>2. t.role = "tool" /\ t.id = c /\ t.ans = a
  BY DEF Tool
<1>3. \A d \in Calls : ToolAt(n, d) = IF d = c THEN ToolAt(m, d) \cup {Len(n)} ELSE ToolAt(m, d)
  BY <1>1, <1>2 DEF ToolAt
<1>4. Answered(n) = Answered(m) \cup {c}
  BY <1>3 DEF Answered
<1>5. \A d \in Calls : ToolAt(m, d) \subseteq 1 .. Len(m)
  BY DEF ToolAt
<1>6. Cancelled(n) = IF a = "cancel" THEN Cancelled(m) \cup {c} ELSE Cancelled(m)
  BY <1>1, <1>2, <1>3, <1>5 DEF Cancelled
<1>7. {j \in DOMAIN n : n[j].role = "assistant"} = {j \in DOMAIN m : m[j].role = "assistant"}
  BY <1>1, <1>2
<1>8. Asked(n) = Asked(m)
  BY <1>1, <1>7 DEF Asked
<1> QED BY <1>4, <1>6, <1>8

\* An assistant record asks for its calls and answers none.
LEMMA AppendAssistantRecord ==
  ASSUME NEW m \in Seq(Message), NEW S \in SUBSET Calls
  PROVE  /\ Answered(Append(m, Assistant(S))) = Answered(m)
         /\ Cancelled(Append(m, Assistant(S))) = Cancelled(m)
         /\ Asked(Append(m, Assistant(S))) = Asked(m) \cup S
<1> DEFINE t == Assistant(S)
           n == Append(m, t)
           A(l) == {j \in DOMAIN l : l[j].role = "assistant"}
<1>1. /\ n \in Seq(Message) /\ Len(n) = Len(m) + 1 /\ n[Len(n)] = t
      /\ \A i \in 1 .. Len(m) : n[i] = m[i]
  BY RecordsAreMessages
<1>2. t.role = "assistant" /\ t.calls = S
  BY DEF Assistant
<1>3. \A d \in Calls : ToolAt(n, d) = ToolAt(m, d) /\ ToolAt(m, d) \subseteq 1 .. Len(m)
  BY <1>1, <1>2 DEF ToolAt
<1>4. Answered(n) = Answered(m) /\ Cancelled(n) = Cancelled(m)
  BY <1>1, <1>3 DEF Answered, Cancelled
<1>5. A(n) = A(m) \cup {Len(n)} /\ A(m) \subseteq 1 .. Len(m)
  BY <1>1, <1>2
<1>6. Asked(n) = UNION {n[i].calls : i \in A(n)} /\ Asked(m) = UNION {m[i].calls : i \in A(m)}
  BY DEF Asked
<1>7. \A i \in A(m) : n[i].calls = m[i].calls
  BY <1>1, <1>5
<1>8. Asked(n) = Asked(m) \cup S
  <2> HIDE DEF A, n, t
  <2> QED BY <1>1, <1>2, <1>5, <1>6, <1>7
<1> QED BY <1>4, <1>8

\* A user record does neither.
LEMMA AppendUserRecord ==
  ASSUME NEW m \in Seq(Message)
  PROVE  /\ Answered(Append(m, User)) = Answered(m)
         /\ Cancelled(Append(m, User)) = Cancelled(m)
         /\ Asked(Append(m, User)) = Asked(m)
<1> DEFINE n == Append(m, User)
<1>1. /\ n \in Seq(Message) /\ Len(n) = Len(m) + 1 /\ n[Len(n)] = User
      /\ \A i \in 1 .. Len(m) : n[i] = m[i]
  BY RecordsAreMessages
<1>2. \A d \in Calls : ToolAt(n, d) = ToolAt(m, d) /\ ToolAt(m, d) \subseteq 1 .. Len(m)
  BY <1>1 DEF ToolAt, User
<1>3. Answered(n) = Answered(m) /\ Cancelled(n) = Cancelled(m)
  BY <1>1, <1>2 DEF Answered, Cancelled
<1>4. {j \in DOMAIN n : n[j].role = "assistant"} = {j \in DOMAIN m : m[j].role = "assistant"}
  BY <1>1 DEF User
<1>5. Asked(n) = Asked(m)
  BY <1>1, <1>4 DEF Asked
<1> QED BY <1>3, <1>5

-----------------------------------------------------------------------------
(***************************************************************************)
(* No answer stands before the assistant that asks for it.  This is why    *)
(* reading only the records after a summary's cutoff cannot make an        *)
(* answered call look unanswered.                                          *)
(***************************************************************************)
AsksFirst(m) ==
  \A i, j \in DOMAIN m : m[j].role = "assistant" /\ m[i].role = "tool" /\ m[i].id \in m[j].calls
                        => j < i

\* An answer, or a user record, keeps that order.
LEMMA AppendKeepsAsksFirst ==
  ASSUME NEW m \in Seq(Message), NEW x \in Message, AsksFirst(m), x.role # "assistant"
  PROVE  AsksFirst(Append(m, x))
<1>1. /\ Len(Append(m, x)) = Len(m) + 1 /\ Append(m, x)[Len(m) + 1] = x
      /\ \A i \in 1 .. Len(m) : Append(m, x)[i] = m[i]
      /\ DOMAIN Append(m, x) = 1 .. Len(m) + 1 /\ Len(m) \in Nat /\ DOMAIN m = 1 .. Len(m)
  OBVIOUS
<1> QED BY <1>1 DEF AsksFirst

\* So does an assistant that asks only for calls no record answers yet.
LEMMA AskingKeepsAsksFirst ==
  ASSUME NEW m \in Seq(Message), NEW S \in SUBSET Calls, AsksFirst(m), S \cap Answered(m) = {}
  PROVE  AsksFirst(Append(m, Assistant(S)))
<1> DEFINE x == Assistant(S)
<1>1. /\ Len(Append(m, x)) = Len(m) + 1 /\ Append(m, x)[Len(m) + 1] = x
      /\ \A i \in 1 .. Len(m) : Append(m, x)[i] = m[i]
      /\ DOMAIN Append(m, x) = 1 .. Len(m) + 1 /\ Len(m) \in Nat /\ DOMAIN m = 1 .. Len(m)
  BY RecordsAreMessages
<1>2. x.role = "assistant" /\ x.calls = S
  BY DEF Assistant
<1>3. \A i \in DOMAIN m : m[i].role = "tool" => m[i].id \notin S
  BY DEF Answered, ToolAt
<1> QED BY <1>1, <1>2, <1>3 DEF AsksFirst

\* The calls unanswered in the records after the cutoff are unanswered in the
\* whole file, and are calls of the file.
LEMMA OrphansOfTail ==
  ASSUME NEW m \in Seq(Message), NEW b \in 0 .. Len(m), AsksFirst(m)
  PROVE  /\ Orphans(Read(m, b)) \cap Answered(m) = {}
         /\ Orphans(Read(m, b)) \subseteq Asked(m)
<1> DEFINE r == Read(m, b)
<1>1. /\ Len(r) = Len(m) - b
      /\ \A i \in 1 .. Len(r) : r[i] = m[i + b]
      /\ r \in Seq(Message)
  BY DEF Read
<1>2. \A c \in Asked(r) : \E j \in DOMAIN m : j > b /\ m[j].role = "assistant" /\ c \in m[j].calls
  <2> TAKE c \in Asked(r)
  <2>1. PICK k \in 1 .. Len(r) : r[k].role = "assistant" /\ c \in r[k].calls
    BY <1>1 DEF Asked
  <2>2. k + b \in DOMAIN m /\ k + b > b /\ m[k + b] = r[k]
    BY <1>1
  <2> QED BY <2>1, <2>2
<1>3. Asked(r) \subseteq Asked(m)
  BY <1>2 DEF Asked
<1>4. ASSUME NEW c \in Orphans(r), c \in Answered(m) PROVE FALSE
  <2>1. PICK j \in DOMAIN m : j > b /\ m[j].role = "assistant" /\ c \in m[j].calls
    BY <1>2, <1>4 DEF Orphans
  <2>2. PICK i \in DOMAIN m : m[i].role = "tool" /\ m[i].id = c
    BY <1>4 DEF Answered, ToolAt
  <2>3. j < i
    BY <2>1, <2>2 DEF AsksFirst
  <2>4. i - b \in 1 .. Len(r) /\ r[i - b] = m[i]
    BY <1>1, <2>1, <2>3
  <2>5. i - b \in ToolAt(r, c)
    BY <1>1, <2>2, <2>4 DEF ToolAt
  <2>6. c \in Calls /\ c \notin Answered(r)
    BY <1>4 DEF Orphans, Answered
  <2> QED BY <2>5, <2>6 DEF Answered
<1> QED BY <1>3, <1>4 DEF Orphans

\* Appending a record and reading after the cutoff commute.
LEMMA ReadAppend ==
  ASSUME NEW m \in Seq(Message), NEW b \in 0 .. Len(m), NEW x \in Message
  PROVE  Read(Append(m, x), b) = Append(Read(m, b), x)
<1> DEFINE n == Append(m, x)
<1>1. Len(n) = Len(m) + 1 /\ n \in Seq(Message)
  OBVIOUS
<1>2. Read(n, b) \in Seq(Message) /\ Len(Read(n, b)) = Len(m) + 1 - b
  BY <1>1 DEF Read
<1>3. Append(Read(m, b), x) \in Seq(Message) /\ Len(Append(Read(m, b), x)) = Len(m) + 1 - b
  BY DEF Read
<1>4. \A i \in 1 .. Len(m) + 1 - b : Read(n, b)[i] = Append(Read(m, b), x)[i]
  BY <1>1 DEF Read
<1> QED BY <1>2, <1>3, <1>4, SeqEqual

-----------------------------------------------------------------------------
(***************************************************************************)
(* The inductive invariant.                                                *)
(***************************************************************************)
\* Nothing is on record, parked or visited that the model has not asked for,
\* and no call is answered before it is asked for.
Emission ==
  /\ Asked(log) \subseteq 1 .. issued /\ Answered(log) \subseteq 1 .. issued
  /\ pend \subseteq 1 .. issued /\ parked \subseteq 1 .. issued /\ queue \subseteq 1 .. issued
  /\ rejected \subseteq 1 .. issued
  /\ AsksFirst(log)

\* Executing(c): c has just been executed or refused; its answer comes next.
Executing(c) == pc = "answer" /\ First(c, queue)

\* Rejected calls are not parked, and a cancelled call has been rejected.
Rejection == pend \cap rejected = {} /\ Cancelled(log) \subseteq rejected

\* Which part of an invocation a program point belongs to.
Phases ==
  /\ pc \in {"idle", "compact", "load"} => turn = 0 /\ kind = "none"
  /\ pc = "clear" => approving
  /\ pc \in {"dispatch", "save"} => ~approving
  /\ parked # {} => pc \in {"dispatch", "save", "end"}

\* The calls a turn still has to visit, or has parked, are two sets of calls
\* nothing has been decided or recorded about.
InTurn == pc \in {"dispatch", "record", "run", "answer", "save"} /\ ~approving
TurnFresh ==
  InTurn => /\ queue \cap parked = {}
            /\ (queue \cup parked) \cap (Answered(log) \cup pend) = {}
            /\ \A c \in queue \cup parked : c \in rejected => Executing(c)

\* approve's loop visits parked calls, with the file and memory in step.
InApprove == pc \in {"record", "run", "answer", "clear"} /\ approving
ApproveInStep ==
  InApprove => queue \subseteq pend /\ msgs = Read(log, base) /\ kind # "deny"

\* The orphan pass visits unanswered calls; the one being cancelled is rejected.
InRepair == pc \in {"repair", "cancel"}
RepairUnanswered ==
  /\ InRepair => queue \cap Answered(log) = {}
  /\ pc = "cancel" => \A c \in Calls : First(c, queue) => c \in rejected

\* Executions are paid for: by a fault, by a missing answer, or by having been
\* visited in the approval that runs right now.
Visited(c) == InApprove /\ (c \notin queue \/ Executing(c))
RunsPaid ==
  /\ \A c \in Calls : runs[c] <= 1 + faults
  /\ \A c \in Calls \ Answered(log) : runs[c] <= faults \/ Executing(c)
  /\ \A c \in pend : runs[c] <= faults \/ Visited(c)

\* The inductive invariant.
IInv ==
  /\ TypeOK /\ Emission /\ Rejection /\ Phases /\ TurnFresh
  /\ ApproveInStep /\ RepairUnanswered /\ RunsPaid

\* The ranges the steps below compute with.
LEMMA Ranges ==
  IInv => /\ 1 .. issued \subseteq Calls /\ issued \in Nat /\ MaxCalls \in Nat /\ Len(log) \in Nat
          /\ faults \in Nat /\ faults <= MaxFaults /\ MaxFaults \in Nat
          /\ turn \in Nat /\ MaxTurns \in Nat /\ TurnLimit \in Nat /\ SessionMax \in Nat
          /\ turnCalls \in Nat /\ admitted \in Nat
          /\ \A c \in Calls : runs[c] \in Nat
BY BoundsAssumption DEF IInv, TypeOK, DiskOK, CountersOK, Calls

-----------------------------------------------------------------------------
(***************************************************************************)
(* What the steps that append to the transcript do to it.                  *)
(***************************************************************************)
Grown ==
  log' \in Seq(Message) /\ AsksFirst(log') /\ base \in 0 .. Len(log')

\* A tool or user record, whatever it says, leaves the transcript in order.
LEMMA GrownByRecord ==
  ASSUME IInv, NEW x \in Message, x.role # "assistant", log' = Append(log, x)
  PROVE  Grown /\ Read(log', base) = Append(Read(log, base), x)
<1>1. log' \in Seq(Message) /\ base \in 0 .. Len(log')
  BY DEF IInv, TypeOK, DiskOK
<1> QED BY <1>1, AppendKeepsAsksFirst, ReadAppend DEF IInv, TypeOK, DiskOK, Emission, Grown

\* A recorded answer: the call is answered, nothing is cancelled, and a
\* message list in step with the file stays in step.
LEMMA AnswerEffect ==
  ASSUME IInv, NEW c \in Calls, AnswerCall(c) \/ RefuseCall(c)
  PROVE  /\ Grown /\ Asked(log') = Asked(log)
         /\ Answered(log') = Answered(log) \cup {c} /\ Cancelled(log') = Cancelled(log)
         /\ msgs = Read(log, base) => msgs' = Read(log', base)
<1>1. PICK a \in {"refused", "failed", "result"} :
        log' = Append(log, Tool(c, a)) /\ msgs' = Append(msgs, Tool(c, a))
  BY DEF AnswerCall, RefuseCall, AppendTool, AnswerOf
<1>2. a \in Answer /\ a # "cancel" /\ Tool(c, a) \in Message /\ Tool(c, a).role # "assistant"
  BY RecordsAreMessages DEF Answer, Tool
<1>3. log \in Seq(Message)
  BY DEF IInv, TypeOK, DiskOK
<1> QED BY <1>1, <1>2, <1>3, GrownByRecord, AppendToolRecord

\* A synthetic answer: the call is answered and cancelled.
LEMMA CancelEffect ==
  ASSUME IInv, NEW c \in Calls, RepairCancels(c)
  PROVE  /\ Grown /\ Asked(log') = Asked(log)
         /\ Answered(log') = Answered(log) \cup {c} /\ Cancelled(log') = Cancelled(log) \cup {c}
<1>1. /\ "cancel" \in Answer /\ Tool(c, "cancel") \in Message
      /\ Tool(c, "cancel").role # "assistant" /\ log' = Append(log, Tool(c, "cancel"))
  BY RecordsAreMessages DEF Answer, Tool, RepairCancels
<1>2. log \in Seq(Message)
  BY DEF IInv, TypeOK, DiskOK
<1> QED BY <1>1, <1>2, GrownByRecord, AppendToolRecord

\* A user record.
LEMMA UserEffect ==
  ASSUME IInv, AppendUser
  PROVE  /\ Grown /\ Asked(log') = Asked(log)
         /\ Answered(log') = Answered(log) /\ Cancelled(log') = Cancelled(log)
<1>1. User \in Message /\ User.role # "assistant" /\ log' = Append(log, User)
  BY RecordsAreMessages DEF User, AppendUser
<1>2. log \in Seq(Message)
  BY DEF IInv, TypeOK, DiskOK
<1> QED BY <1>1, <1>2, GrownByRecord, AppendUserRecord

\* An assistant record asking for calls nothing has answered.
LEMMA ReplyEffect ==
  ASSUME IInv, NEW S \in SUBSET Calls, S \cap Answered(log) = {}, AppendAssistant(S)
  PROVE  /\ Grown /\ Asked(log') = Asked(log) \cup S
         /\ Answered(log') = Answered(log) /\ Cancelled(log') = Cancelled(log)
<1>1. Assistant(S) \in Message /\ log' = Append(log, Assistant(S))
  BY RecordsAreMessages DEF AppendAssistant
<1>2. log \in Seq(Message) /\ AsksFirst(log)
  BY DEF IInv, TypeOK, DiskOK, Emission
<1>3. log' \in Seq(Message) /\ base \in 0 .. Len(log')
  BY <1>1, <1>2 DEF IInv, TypeOK, DiskOK
<1> QED BY <1>1, <1>2, <1>3, AppendAssistantRecord, AskingKeepsAsksFirst DEF Grown

\* A reply without calls.
LEMMA EmptyReplyEffect ==
  ASSUME IInv, ReplyWithText \/ ReplyEmptyToApprove
  PROVE  /\ Grown /\ Asked(log') = Asked(log)
         /\ Answered(log') = Answered(log) /\ Cancelled(log') = Cancelled(log)
<1>1. AppendAssistant({}) /\ {} \in SUBSET Calls
  BY DEF ReplyWithText, ReplyEmptyToApprove
<1> QED BY <1>1, ReplyEffect

\* A reply with calls: they are new, and the turn will visit exactly them.
LEMMA CallsEffect ==
  ASSUME IInv, ReplyWithCalls
  PROVE  /\ Grown /\ Asked(log') = Asked(log) \cup queue'
         /\ Answered(log') = Answered(log) /\ Cancelled(log') = Cancelled(log)
         /\ issued' \in issued + 1 .. MaxCalls /\ queue' = issued + 1 .. issued'
<1>1. PICK n \in 1 .. MaxBatch : /\ issued + 1 .. issued + n \subseteq Calls
                                /\ AppendAssistant(issued + 1 .. issued + n)
                                /\ issued' = issued + n
                                /\ queue' = issued + 1 .. issued + n
  BY DEF ReplyWithCalls
<1>2. issued \in Nat /\ n \in Nat /\ n >= 1 /\ MaxCalls \in Nat
  BY BoundsAssumption DEF IInv, TypeOK, CountersOK
<1>3. issued + n \in Calls
  BY <1>1, <1>2
<1>4. queue' \cap Answered(log) = {}
  BY <1>1, <1>2 DEF IInv, Emission
<1> QED BY <1>1, <1>2, <1>3, <1>4, ReplyEffect DEF Calls

\* What a prompt, a retry or an approve finds unanswered.
LEMMA LoadEffect ==
  ASSUME IInv, Load \/ ClearPending
  PROVE  queue' \subseteq 1 .. issued /\ queue' \cap Answered(log) = {} /\ UNCHANGED log
<1>1. queue' = Orphans(Read(log, base)) /\ UNCHANGED log
  BY DEF Load, ClearPending, IInv, Phases, ApproveInStep, InApprove, disk
<1> QED BY <1>1, OrphansOfTail DEF IInv, TypeOK, DiskOK, Emission

\* A visited call is parked, left unanswered or handled.
LEMMA DispatchEffect ==
  ASSUME NEW c \in Calls, NEW k \in Kind, Dispatch(c, k)
  PROVE  \/ Park(c) \/ LeaveUnanswered(c)
         \/ Handle(c, k) /\ pc' \in {"run", "record", "answer"}
BY DEF Dispatch, NeedsHuman, Handle, Kind, suspending

\* The decision and the execution of a call touch the record of rejections,
\* the count of executions and the program point, nothing else.
LEMMA PipelineEffect ==
  ASSUME IInv, NEW c \in Calls, RecordDecision(c) \/ RunCall(c) \/ RunFails(c) \/ RunBreaks(c)
  PROVE  /\ pc \in {"record", "run"} /\ pc' \in {"run", "answer"} /\ First(c, queue)
         /\ kind' \in Kind \cup {"failed", "none"} /\ rejected' \in {rejected, rejected \cup {c}}
         /\ runs' \in [Calls -> Nat]
         /\ UNCHANGED <<log, base, lastEnd, pend, torn, cont, byApprove, queue, parked, turn,
                        turnCalls, admitted, nudged, reason, issued, faults, invs>>
<1>1. kind \in Kind \cup {"failed", "none"} /\ runs \in [Calls -> Nat]
  BY DEF IInv, TypeOK, ControlOK, CountersOK
<1>2. CASE RecordDecision(c)
  BY <1>1, <1>2 DEF RecordDecision, proc, hist
<1>3. CASE RunCall(c)
  BY <1>1, <1>3 DEF RunCall, disk, proc
<1>4. CASE RunFails(c)
  BY <1>1, <1>4 DEF RunFails, disk, hist
<1>5. CASE RunBreaks(c)
  BY <1>1, <1>5 DEF RunBreaks, disk
<1> QED BY <1>2, <1>3, <1>4, <1>5

\* The orphan pass prepares a cancellation: pending.json goes, or the rejection
\* is put on record.
LEMMA HealingEffect ==
  ASSUME NEW c \in Calls, RepairClears(c) \/ RepairRejects(c)
  PROVE  /\ pc = "repair" /\ pc' \in {"repair", "cancel"} /\ First(c, queue)
         /\ pend' \in {pend, {}} /\ rejected' \in {rejected, rejected \cup {c}}
         /\ UNCHANGED <<log, base, cont, byApprove, kind, queue, parked, turn, turnCalls,
                        admitted, nudged, reason, issued, runs, faults, invs>>
<1>1. CASE RepairClears(c)
  BY <1>1 DEF RepairClears, proc, hist
<1>2. CASE RepairRejects(c)
  BY <1>2 DEF RepairRejects, proc, hist
<1> QED BY <1>1, <1>2

\* A call about to be executed has been paid for: it is unanswered, or it is
\* the next parked call that the approval visits.
LEMMA RunsBelowFaults ==
  ASSUME IInv, NEW c \in Calls, pc = "run", First(c, queue)
  PROVE  runs[c] <= faults
<1>1. \A d \in Calls : ~Executing(d)
  BY DEF Executing
<1>2. CASE approving
  <2>1. c \in pend /\ ~Visited(c)
    BY <1>1, <1>2 DEF IInv, ApproveInStep, InApprove, First, Visited
  <2> QED BY <2>1 DEF IInv, RunsPaid
<1>3. CASE ~approving
  <2>1. c \notin Answered(log)
    BY <1>3 DEF IInv, TurnFresh, InTurn, First
  <2> QED BY <1>1, <2>1 DEF IInv, RunsPaid
<1> QED BY <1>2, <1>3

\* What the files hold stays within its types: records are messages, the cutoff
\* lies within the file.
LEMMA DiskNext == IInv /\ [Next]_vars => DiskOK'
<1> SUFFICES ASSUME IInv, [Next]_vars PROVE DiskOK'
  OBVIOUS
<1>1. CASE Human
  BY <1>1, Ranges, BoundsAssumption
  DEF Human, Tell, ApprovePending, ApproveResume, ApproveTorn, Begin, disk, proc, hist, IInv,
      Emission, Reason, Grown, TypeOK, DiskOK, ControlOK
<1>2. CASE Compaction
  <2>1. base' \in 0 .. Len(log) /\ UNCHANGED <<log, rejected, lastEnd, pend, torn>>
    <3>1. CASE Compact
      BY <3>1, Ranges DEF Compact, Cutoffs, IInv, TypeOK, DiskOK
    <3>2. CASE SkipCompaction \/ CompactTorn
      BY <3>2 DEF SkipCompaction, CompactTorn, disk, IInv, TypeOK, DiskOK
    <3> QED BY <1>2, <3>1, <3>2 DEF Compaction
  <2> QED BY <2>1 DEF IInv, TypeOK, DiskOK
<1>3. CASE Load \/ ClearPending
  BY <1>3, LoadEffect, Ranges, BoundsAssumption
  DEF Load, ClearPending, disk, proc, hist, IInv, Emission, Reason, Grown, TypeOK, DiskOK,
      ControlOK
<1>4. CASE LoadApprove \/ RefuseGrant
  BY <1>4, Ranges, BoundsAssumption
  DEF LoadApprove, RefuseGrant, Stop, disk, proc, hist, IInv, Emission, Reason, Grown, TypeOK,
      DiskOK, ControlOK
<1>5. CASE AppendUser
  BY <1>5, UserEffect, Ranges, BoundsAssumption
  DEF AppendUser, disk, proc, hist, IInv, Emission, Reason, Grown, TypeOK, DiskOK, ControlOK
<1>6. CASE RepairDone
  BY <1>6, Ranges, BoundsAssumption
  DEF RepairDone, disk, proc, hist, IInv, Emission, Reason, Grown, TypeOK, DiskOK, ControlOK
<1>7. CASE TransportFailed \/ ApiRejected \/ OutOfTurns
  BY <1>7, Ranges, BoundsAssumption
  DEF TransportFailed, ApiRejected, OutOfTurns, Stop, disk, proc, hist, IInv, Emission, Reason,
      Grown, TypeOK, DiskOK, ControlOK
<1>8. CASE ReplyWithText \/ ReplyEmptyToApprove
  BY <1>8, EmptyReplyEffect, Ranges, BoundsAssumption
  DEF ReplyWithText, ReplyEmptyToApprove, AppendAssistant, disk, proc, hist, IInv, Emission,
      Reason, Grown, TypeOK, DiskOK, ControlOK
<1>9. CASE ReplyWithCalls
  BY <1>9, CallsEffect, Ranges, BoundsAssumption
  DEF ReplyWithCalls, AppendAssistant, disk, proc, hist, IInv, Emission, Reason, Grown, TypeOK,
      DiskOK, ControlOK
<1>10. ASSUME NEW c \in Calls, RecordDecision(c) \/ RunCall(c) \/ RunFails(c) \/ RunBreaks(c) PROVE DiskOK'
  BY <1>10, Ranges, BoundsAssumption
  DEF RecordDecision, RunCall, RunFails, RunBreaks, First, disk, proc, hist, IInv, Emission, Reason, Grown,
      TypeOK, DiskOK, ControlOK
<1>11. ASSUME NEW c \in Calls, AnswerCall(c) \/ RefuseCall(c) PROVE DiskOK'
  BY <1>11, AnswerEffect, Ranges, BoundsAssumption
  DEF AnswerCall, RefuseCall, AppendTool, First, disk, proc, hist, IInv, Emission, Reason,
      Grown, TypeOK, DiskOK, ControlOK
<1>12. ASSUME NEW c \in Calls, RepairClears(c) \/ RepairRejects(c) PROVE DiskOK'
  BY <1>12, Ranges, BoundsAssumption
  DEF RepairClears, RepairRejects, First, disk, proc, hist, IInv, Emission, Reason, Grown,
      TypeOK, DiskOK, ControlOK
<1>13. ASSUME NEW c \in Calls, RepairCancels(c) PROVE DiskOK'
  BY <1>13, CancelEffect, Ranges, BoundsAssumption
  DEF RepairCancels, First, disk, proc, hist, IInv, Emission, Reason, Grown, TypeOK, DiskOK,
      ControlOK
<1>14. ASSUME NEW c \in Calls, NEW k \in Kind, Dispatch(c, k) PROVE DiskOK'
  BY <1>14, DispatchEffect, Ranges, BoundsAssumption
  DEF Park, LeaveUnanswered, Handle, Admit, suspending, First, disk, proc, hist, IInv, Emission,
      Reason, Grown, TypeOK, DiskOK, ControlOK
<1>15. CASE SessionExhausted \/ DispatchDone \/ SavePending
  BY <1>15, Ranges, BoundsAssumption
  DEF SessionExhausted, DispatchDone, SavePending, Stop, suspending, disk, proc, hist, IInv,
      Emission, Reason, Grown, TypeOK, DiskOK, ControlOK
<1>16. CASE End
  BY <1>16, Ranges, BoundsAssumption
  DEF End, Exit, disk, proc, hist, IInv, Emission, Reason, Grown, TypeOK, DiskOK, ControlOK
<1>17. CASE Crash
  BY <1>17, Ranges, BoundsAssumption
  DEF Crash, Fault, PendingSurvives, PendingTorn, Exit, disk, proc, hist, IInv, Emission,
      Reason, Grown, TypeOK, DiskOK, ControlOK
<1>18. CASE WriteFails
  BY <1>18, Ranges, BoundsAssumption
  DEF WriteFails, Writing, Fault, PendingSurvives, PendingTorn, Stop, disk, proc, hist, IInv,
      Emission, Reason, Grown, TypeOK, DiskOK, ControlOK
<1>19. CASE UNCHANGED vars
  BY <1>19, Ranges, BoundsAssumption
  DEF vars, disk, proc, hist, IInv, Emission, Reason, Grown, TypeOK, DiskOK, ControlOK
<1> QED
  BY <1>1, <1>2, <1>3, <1>4, <1>5, <1>6, <1>7, <1>8, <1>9, <1>10, <1>11, <1>12, <1>13, <1>14, <1>15, <1>16, <1>17, <1>18, <1>19
  DEF Next, Step, Start, Ending, Model, Pipeline, Healing, Turn

\* The running invocation's variables keep their types.
LEMMA ControlNext == IInv /\ [Next]_vars => ControlOK'
<1> SUFFICES ASSUME IInv, [Next]_vars PROVE ControlOK'
  OBVIOUS
<1>1. CASE Human
  BY <1>1, Ranges, BoundsAssumption
  DEF Human, Tell, ApprovePending, ApproveResume, ApproveTorn, Begin, disk, proc, hist, IInv,
      Emission, Reason, PC, Continuation, Kind, TypeOK, ControlOK, DiskOK
<1>2. CASE Compaction
  <2>1. pc' \in {"load", "end"} /\ reason' \in {reason, "stopped"}
    BY <1>2 DEF Compaction, SkipCompaction, Compact, CompactTorn, Stop, proc
  <2>2. UNCHANGED <<cont, kind, byApprove, nudged, queue, parked>>
    BY <1>2 DEF Compaction, SkipCompaction, Compact, CompactTorn, Stop, proc
  <2> QED BY <2>1, <2>2 DEF IInv, TypeOK, ControlOK, PC, Reason
<1>3. CASE Load \/ ClearPending
  <2>1. queue' \subseteq Calls
    BY <1>3, LoadEffect, Ranges
  <2>2. /\ pc' = "repair"
        /\ UNCHANGED <<cont, byApprove, kind, parked, nudged, reason>>
    BY <1>3 DEF Load, ClearPending
  <2> QED BY <2>1, <2>2 DEF IInv, TypeOK, ControlOK, PC
<1>4. CASE LoadApprove \/ RefuseGrant
  BY <1>4, Ranges, BoundsAssumption
  DEF LoadApprove, RefuseGrant, Stop, disk, proc, hist, IInv, Emission, Reason, PC,
      Continuation, Kind, TypeOK, ControlOK, DiskOK
<1>5. CASE AppendUser
  BY <1>5, UserEffect, Ranges, BoundsAssumption
  DEF AppendUser, disk, proc, hist, IInv, Emission, Reason, PC, Continuation, Kind, TypeOK,
      ControlOK, DiskOK
<1>6. CASE RepairDone
  BY <1>6, Ranges, BoundsAssumption
  DEF RepairDone, disk, proc, hist, IInv, Emission, Reason, PC, Continuation, Kind, TypeOK,
      ControlOK, DiskOK
<1>7. CASE TransportFailed \/ ApiRejected \/ OutOfTurns
  BY <1>7, Ranges, BoundsAssumption
  DEF TransportFailed, ApiRejected, OutOfTurns, Stop, disk, proc, hist, IInv, Emission, Reason,
      PC, Continuation, Kind, TypeOK, ControlOK, DiskOK
<1>8. CASE ReplyWithText \/ ReplyEmptyToApprove
  BY <1>8, EmptyReplyEffect, Ranges, BoundsAssumption
  DEF ReplyWithText, ReplyEmptyToApprove, AppendAssistant, disk, proc, hist, IInv, Emission,
      Reason, PC, Continuation, Kind, TypeOK, ControlOK, DiskOK
<1>9. CASE ReplyWithCalls
  BY <1>9, CallsEffect, Ranges, BoundsAssumption
  DEF ReplyWithCalls, AppendAssistant, disk, proc, hist, IInv, Emission, Reason, PC,
      Continuation, Kind, TypeOK, ControlOK, DiskOK
<1>10. ASSUME NEW c \in Calls, RecordDecision(c) \/ RunCall(c) \/ RunFails(c) \/ RunBreaks(c) PROVE ControlOK'
  <2>1. /\ pc' \in {"run", "answer"} /\ kind' \in Kind \cup {"failed", "none"}
        /\ UNCHANGED <<cont, byApprove, nudged, reason, queue, parked>>
    BY <1>10, PipelineEffect
  <2> QED BY <2>1 DEF IInv, TypeOK, ControlOK, PC
<1>11. ASSUME NEW c \in Calls, AnswerCall(c) \/ RefuseCall(c) PROVE ControlOK'
  <2>1. /\ pc' \in {"dispatch", "clear", "record"} /\ kind' \in {kind, "none"}
        /\ queue' = queue \ {c} /\ UNCHANGED <<cont, byApprove, nudged, reason, parked>>
    BY <1>11 DEF AnswerCall, RefuseCall, AppendTool
  <2> QED BY <2>1 DEF IInv, TypeOK, ControlOK, PC
<1>12. ASSUME NEW c \in Calls, RepairClears(c) \/ RepairRejects(c) PROVE ControlOK'
  <2>1. /\ pc' \in {"repair", "cancel"}
        /\ UNCHANGED <<cont, byApprove, kind, nudged, reason, queue, parked>>
    BY <1>12, HealingEffect
  <2> QED BY <2>1 DEF IInv, TypeOK, ControlOK, PC
<1>13. ASSUME NEW c \in Calls, RepairCancels(c) PROVE ControlOK'
  BY <1>13, CancelEffect, Ranges, BoundsAssumption
  DEF RepairCancels, First, disk, proc, hist, IInv, Emission, Reason, PC, Continuation, Kind,
      TypeOK, ControlOK, DiskOK
<1>14. ASSUME NEW c \in Calls, NEW k \in Kind, Dispatch(c, k) PROVE ControlOK'
  <2>1. /\ pc' \in PC /\ kind' \in Kind \cup {"failed", "none"}
        /\ queue' \subseteq Calls /\ parked' \subseteq Calls
    BY <1>14, DispatchEffect DEF Park, LeaveUnanswered, Handle, PC, IInv, TypeOK, ControlOK
  <2>2. UNCHANGED <<cont, byApprove, nudged, reason>>
    BY <1>14, DispatchEffect DEF Park, LeaveUnanswered, Handle
  <2> QED BY <2>1, <2>2 DEF IInv, TypeOK, ControlOK
<1>15. CASE SessionExhausted \/ DispatchDone \/ SavePending
  BY <1>15, Ranges, BoundsAssumption
  DEF SessionExhausted, DispatchDone, SavePending, Stop, suspending, disk, proc, hist, IInv,
      Emission, Reason, PC, Continuation, Kind, TypeOK, ControlOK, DiskOK
<1>16. CASE End
  BY <1>16, Ranges, BoundsAssumption
  DEF End, Exit, disk, proc, hist, IInv, Emission, Reason, PC, Continuation, Kind, TypeOK,
      ControlOK, DiskOK
<1>17. CASE Crash
  BY <1>17, Ranges, BoundsAssumption
  DEF Crash, Fault, PendingSurvives, PendingTorn, Exit, disk, proc, hist, IInv, Emission,
      Reason, PC, Continuation, Kind, TypeOK, ControlOK, DiskOK
<1>18. CASE WriteFails
  BY <1>18, Ranges, BoundsAssumption
  DEF WriteFails, Writing, Fault, PendingSurvives, PendingTorn, Stop, disk, proc, hist, IInv,
      Emission, Reason, PC, Continuation, Kind, TypeOK, ControlOK, DiskOK
<1>19. CASE UNCHANGED vars
  BY <1>19, Ranges, BoundsAssumption
  DEF vars, disk, proc, hist, IInv, Emission, Reason, PC, Continuation, Kind, TypeOK, ControlOK,
      DiskOK
<1> QED
  BY <1>1, <1>2, <1>3, <1>4, <1>5, <1>6, <1>7, <1>8, <1>9, <1>10, <1>11, <1>12, <1>13, <1>14, <1>15, <1>16, <1>17, <1>18, <1>19
  DEF Next, Step, Start, Ending, Model, Pipeline, Healing, Turn

\* The caps hold: Admit checks a counter before it raises it, a reply needs a
\* turn left, and faults and invocations are only counted up to their bounds.
LEMMA CountersNext == IInv /\ [Next]_vars => CountersOK'
<1> SUFFICES ASSUME IInv, [Next]_vars PROVE CountersOK'
  OBVIOUS
<1>1. CASE Human
  BY <1>1, BoundsAssumption
  DEF Human, Tell, ApprovePending, ApproveResume, ApproveTorn, Begin, disk, proc, hist, IInv,
      TypeOK, CountersOK
<1>2. CASE Compaction
  BY <1>2, Ranges, BoundsAssumption
  DEF Compaction, SkipCompaction, Compact, CompactTorn, Cutoffs, Stop, disk, proc, hist, IInv,
      TypeOK, CountersOK
<1>3. CASE Load \/ ClearPending
  BY <1>3, LoadEffect, Ranges, BoundsAssumption
  DEF Load, ClearPending, disk, proc, hist, IInv, TypeOK, CountersOK
<1>4. CASE LoadApprove \/ RefuseGrant
  BY <1>4, Ranges, BoundsAssumption
  DEF LoadApprove, RefuseGrant, Stop, disk, proc, hist, IInv, TypeOK, CountersOK
<1>5. CASE AppendUser
  BY <1>5, UserEffect, Ranges, BoundsAssumption
  DEF AppendUser, disk, proc, hist, IInv, TypeOK, CountersOK
<1>6. CASE RepairDone
  BY <1>6, Ranges, BoundsAssumption
  DEF RepairDone, disk, proc, hist, IInv, TypeOK, CountersOK
<1>7. CASE TransportFailed \/ ApiRejected \/ OutOfTurns
  BY <1>7, Ranges, BoundsAssumption
  DEF TransportFailed, ApiRejected, OutOfTurns, Stop, disk, proc, hist, IInv, TypeOK, CountersOK
<1>8. CASE ReplyWithText \/ ReplyEmptyToApprove
  <2>1. turn' \in 0 .. MaxTurns
    <3>1. turn' = turn + 1 /\ turn < MaxTurns
      BY <1>8 DEF ReplyWithText, ReplyEmptyToApprove, AppendAssistant
    <3> QED BY <3>1, Ranges
  <2>2. UNCHANGED <<turnCalls, admitted, issued, runs, faults, invs>>
    <3>1. CASE ReplyWithText
      BY <3>1 DEF ReplyWithText, AppendAssistant, hist
    <3>2. CASE ReplyEmptyToApprove
      BY <3>2 DEF ReplyEmptyToApprove, AppendAssistant, hist
    <3> QED BY <1>8, <3>1, <3>2
  <2> QED BY <2>1, <2>2 DEF IInv, TypeOK, CountersOK
<1>9. CASE ReplyWithCalls
  BY <1>9, CallsEffect, Ranges, BoundsAssumption
  DEF ReplyWithCalls, AppendAssistant, disk, proc, hist, IInv, TypeOK, CountersOK
<1>10. ASSUME NEW c \in Calls, RecordDecision(c) \/ RunCall(c) \/ RunFails(c) \/ RunBreaks(c) PROVE CountersOK'
  <2>1. /\ runs' \in [Calls -> Nat]
        /\ UNCHANGED <<turn, turnCalls, admitted, issued, faults, invs>>
    BY <1>10, PipelineEffect
  <2> QED BY <2>1 DEF IInv, TypeOK, CountersOK
<1>11. ASSUME NEW c \in Calls, AnswerCall(c) \/ RefuseCall(c) PROVE CountersOK'
  BY <1>11, AnswerEffect, Ranges, BoundsAssumption
  DEF AnswerCall, RefuseCall, AppendTool, First, disk, proc, hist, IInv, TypeOK, CountersOK
<1>12. ASSUME NEW c \in Calls, RepairClears(c) \/ RepairRejects(c) PROVE CountersOK'
  BY <1>12, Ranges, BoundsAssumption
  DEF RepairClears, RepairRejects, First, disk, proc, hist, IInv, TypeOK, CountersOK
<1>13. ASSUME NEW c \in Calls, RepairCancels(c) PROVE CountersOK'
  BY <1>13, CancelEffect, Ranges, BoundsAssumption
  DEF RepairCancels, First, disk, proc, hist, IInv, TypeOK, CountersOK
<1>14. ASSUME NEW c \in Calls, NEW k \in Kind, Dispatch(c, k) PROVE CountersOK'
  <2>1. Admit /\ UNCHANGED <<hist, turn>>
    BY <1>14, DispatchEffect DEF Park, LeaveUnanswered, Handle
  <2> QED BY <2>1, Ranges DEF Admit, hist, IInv, TypeOK, CountersOK
<1>15. CASE SessionExhausted \/ DispatchDone \/ SavePending
  BY <1>15, Ranges, BoundsAssumption
  DEF SessionExhausted, DispatchDone, SavePending, Stop, suspending, disk, proc, hist, IInv,
      TypeOK, CountersOK
<1>16. CASE End
  BY <1>16, Ranges, BoundsAssumption
  DEF End, Exit, disk, proc, hist, IInv, TypeOK, CountersOK
<1>17. CASE Crash
  BY <1>17, Ranges, BoundsAssumption
  DEF Crash, Fault, PendingSurvives, PendingTorn, Exit, disk, proc, hist, IInv, TypeOK,
      CountersOK
<1>18. CASE WriteFails
  BY <1>18, Ranges, BoundsAssumption
  DEF WriteFails, Writing, Fault, PendingSurvives, PendingTorn, Stop, disk, proc, hist, IInv,
      TypeOK, CountersOK
<1>19. CASE UNCHANGED vars
  BY <1>19, Ranges, BoundsAssumption
  DEF vars, disk, proc, hist, IInv, TypeOK, CountersOK
<1> QED
  BY <1>1, <1>2, <1>3, <1>4, <1>5, <1>6, <1>7, <1>8, <1>9, <1>10, <1>11, <1>12, <1>13, <1>14, <1>15, <1>16, <1>17, <1>18, <1>19
  DEF Next, Step, Start, Ending, Model, Pipeline, Healing, Turn

\* Only emitted calls are recorded, parked or visited, and always after the
\* assistant record that asks for them: ids are never reused.
LEMMA EmissionNext == IInv /\ [Next]_vars => Emission'
<1> SUFFICES ASSUME IInv, [Next]_vars PROVE Emission'
  OBVIOUS
<1>1. CASE Human
  BY <1>1, Ranges, BoundsAssumption
  DEF Human, Tell, ApprovePending, ApproveResume, ApproveTorn, Begin, disk, proc, hist, IInv,
      Emission, Calls, Grown, TypeOK, DiskOK, ControlOK, CountersOK
<1>2. CASE Compaction
  BY <1>2, Ranges, BoundsAssumption
  DEF Compaction, SkipCompaction, Compact, CompactTorn, Cutoffs, Stop, disk, proc, hist, IInv,
      Emission, Calls, Grown, TypeOK, DiskOK, ControlOK, CountersOK
<1>3. CASE Load \/ ClearPending
  BY <1>3, LoadEffect, Ranges, BoundsAssumption
  DEF Load, ClearPending, disk, proc, hist, IInv, Emission, Calls, Grown, TypeOK, DiskOK,
      ControlOK, CountersOK
<1>4. CASE LoadApprove \/ RefuseGrant
  BY <1>4, Ranges, BoundsAssumption
  DEF LoadApprove, RefuseGrant, Stop, disk, proc, hist, IInv, Emission, Calls, Grown, TypeOK,
      DiskOK, ControlOK, CountersOK
<1>5. CASE AppendUser
  BY <1>5, UserEffect, Ranges, BoundsAssumption
  DEF AppendUser, disk, proc, hist, IInv, Emission, Calls, Grown, TypeOK, DiskOK, ControlOK,
      CountersOK
<1>6. CASE RepairDone
  BY <1>6, Ranges, BoundsAssumption
  DEF RepairDone, disk, proc, hist, IInv, Emission, Calls, Grown, TypeOK, DiskOK, ControlOK,
      CountersOK
<1>7. CASE TransportFailed \/ ApiRejected \/ OutOfTurns
  BY <1>7, Ranges, BoundsAssumption
  DEF TransportFailed, ApiRejected, OutOfTurns, Stop, disk, proc, hist, IInv, Emission, Calls,
      Grown, TypeOK, DiskOK, ControlOK, CountersOK
<1>8. CASE ReplyWithText \/ ReplyEmptyToApprove
  BY <1>8, EmptyReplyEffect, Ranges, BoundsAssumption
  DEF ReplyWithText, ReplyEmptyToApprove, AppendAssistant, disk, proc, hist, IInv, Emission,
      Calls, Grown, TypeOK, DiskOK, ControlOK, CountersOK
<1>9. CASE ReplyWithCalls
  <2>1. /\ Grown /\ Asked(log') = Asked(log) \cup queue' /\ Answered(log') = Answered(log)
        /\ issued' \in Nat /\ issued < issued' /\ queue' = issued + 1 .. issued'
    BY <1>9, CallsEffect, Ranges
  <2>2. 1 .. issued \subseteq 1 .. issued' /\ queue' \subseteq 1 .. issued'
    <3>1. issued \in Nat  BY Ranges
    <3> QED  BY <2>1, <3>1
  <2>3. UNCHANGED <<pend, parked, rejected>>
    BY <1>9 DEF ReplyWithCalls, AppendAssistant
  <2> QED BY <2>1, <2>2, <2>3 DEF Grown, IInv, Emission
<1>10. ASSUME NEW c \in Calls, RecordDecision(c) \/ RunCall(c) \/ RunFails(c) \/ RunBreaks(c) PROVE Emission'
  <2>1. /\ rejected' \in {rejected, rejected \cup {c}} /\ First(c, queue)
        /\ UNCHANGED <<log, pend, parked, queue, issued>>
    BY <1>10, PipelineEffect
  <2> QED BY <2>1 DEF First, IInv, Emission
<1>11. ASSUME NEW c \in Calls, AnswerCall(c) \/ RefuseCall(c) PROVE Emission'
  <2>1. Grown /\ Asked(log') = Asked(log) /\ Answered(log') = Answered(log) \cup {c}
    BY <1>11, AnswerEffect
  <2>2. c \in queue /\ queue' \subseteq queue /\ UNCHANGED <<pend, parked, rejected, issued>>
    BY <1>11 DEF AnswerCall, RefuseCall, AppendTool, First, hist
  <2> QED BY <2>1, <2>2 DEF Grown, IInv, Emission
<1>12. ASSUME NEW c \in Calls, RepairClears(c) \/ RepairRejects(c) PROVE Emission'
  <2>1. /\ pend' \in {pend, {}} /\ rejected' \in {rejected, rejected \cup {c}} /\ First(c, queue)
        /\ UNCHANGED <<log, parked, queue, issued>>
    BY <1>12, HealingEffect
  <2> QED BY <2>1 DEF First, IInv, Emission
<1>13. ASSUME NEW c \in Calls, RepairCancels(c) PROVE Emission'
  <2>1. Grown /\ Asked(log') = Asked(log) /\ Answered(log') = Answered(log) \cup {c}
    BY <1>13, CancelEffect
  <2>2. c \in queue /\ queue' \subseteq queue /\ UNCHANGED <<pend, parked, rejected, issued>>
    BY <1>13 DEF RepairCancels, First, hist
  <2> QED BY <2>1, <2>2 DEF Grown, IInv, Emission
<1>14. ASSUME NEW c \in Calls, NEW k \in Kind, Dispatch(c, k) PROVE Emission'
  BY <1>14, DispatchEffect, Ranges, BoundsAssumption
  DEF Park, LeaveUnanswered, Handle, Admit, suspending, First, disk, proc, hist, IInv, Emission,
      Calls, Grown, TypeOK, DiskOK, ControlOK, CountersOK
<1>15. CASE SessionExhausted \/ DispatchDone \/ SavePending
  BY <1>15, Ranges, BoundsAssumption
  DEF SessionExhausted, DispatchDone, SavePending, Stop, suspending, disk, proc, hist, IInv,
      Emission, Calls, Grown, TypeOK, DiskOK, ControlOK, CountersOK
<1>16. CASE End
  BY <1>16, Ranges, BoundsAssumption
  DEF End, Exit, disk, proc, hist, IInv, Emission, Calls, Grown, TypeOK, DiskOK, ControlOK,
      CountersOK
<1>17. CASE Crash
  BY <1>17, Ranges, BoundsAssumption
  DEF Crash, Fault, PendingSurvives, PendingTorn, Exit, disk, proc, hist, IInv, Emission, Calls,
      Grown, TypeOK, DiskOK, ControlOK, CountersOK
<1>18. CASE WriteFails
  BY <1>18, Ranges, BoundsAssumption
  DEF WriteFails, Writing, Fault, PendingSurvives, PendingTorn, Stop, disk, proc, hist, IInv,
      Emission, Calls, Grown, TypeOK, DiskOK, ControlOK, CountersOK
<1>19. CASE UNCHANGED vars
  BY <1>19, Ranges, BoundsAssumption
  DEF vars, disk, proc, hist, IInv, Emission, Calls, Grown, TypeOK, DiskOK, ControlOK,
      CountersOK
<1> QED
  BY <1>1, <1>2, <1>3, <1>4, <1>5, <1>6, <1>7, <1>8, <1>9, <1>10, <1>11, <1>12, <1>13, <1>14, <1>15, <1>16, <1>17, <1>18, <1>19
  DEF Next, Step, Start, Ending, Model, Pipeline, Healing, Turn

\* The orphan pass drops pending.json before it rejects a call parked in it,
\* and a turn parks only calls nothing has rejected.
LEMMA RejectionNext == IInv /\ [Next]_vars => Rejection'
<1> SUFFICES ASSUME IInv, [Next]_vars PROVE Rejection'
  OBVIOUS
<1>1. CASE Human
  BY <1>1, Ranges, BoundsAssumption
  DEF Human, Tell, ApprovePending, ApproveResume, ApproveTorn, Begin, disk, proc, hist, IInv,
      Rejection, Emission, ApproveInStep, InApprove, approving, TurnFresh, InTurn, Phases,
      Executing, RepairUnanswered, First, Calls, TypeOK, DiskOK, ControlOK, CountersOK
<1>2. CASE Compaction
  BY <1>2, Ranges, BoundsAssumption
  DEF Compaction, SkipCompaction, Compact, CompactTorn, Cutoffs, Stop, disk, proc, hist, IInv,
      Rejection, Emission, ApproveInStep, InApprove, approving, TurnFresh, InTurn, Phases,
      Executing, RepairUnanswered, First, Calls, TypeOK, DiskOK, ControlOK, CountersOK
<1>3. CASE Load \/ ClearPending
  BY <1>3, LoadEffect, Ranges, BoundsAssumption
  DEF Load, ClearPending, disk, proc, hist, IInv, Rejection, Emission, ApproveInStep, InApprove,
      approving, TurnFresh, InTurn, Phases, Executing, RepairUnanswered, First, Calls, TypeOK,
      DiskOK, ControlOK, CountersOK
<1>4. CASE LoadApprove \/ RefuseGrant
  BY <1>4, Ranges, BoundsAssumption
  DEF LoadApprove, RefuseGrant, Stop, disk, proc, hist, IInv, Rejection, Emission,
      ApproveInStep, InApprove, approving, TurnFresh, InTurn, Phases, Executing,
      RepairUnanswered, First, Calls, TypeOK, DiskOK, ControlOK, CountersOK
<1>5. CASE AppendUser
  BY <1>5, UserEffect, Ranges, BoundsAssumption
  DEF AppendUser, disk, proc, hist, IInv, Rejection, Emission, ApproveInStep, InApprove,
      approving, TurnFresh, InTurn, Phases, Executing, RepairUnanswered, First, Calls, TypeOK,
      DiskOK, ControlOK, CountersOK
<1>6. CASE RepairDone
  BY <1>6, Ranges, BoundsAssumption
  DEF RepairDone, disk, proc, hist, IInv, Rejection, Emission, ApproveInStep, InApprove,
      approving, TurnFresh, InTurn, Phases, Executing, RepairUnanswered, First, Calls, TypeOK,
      DiskOK, ControlOK, CountersOK
<1>7. CASE TransportFailed \/ ApiRejected \/ OutOfTurns
  BY <1>7, Ranges, BoundsAssumption
  DEF TransportFailed, ApiRejected, OutOfTurns, Stop, disk, proc, hist, IInv, Rejection,
      Emission, ApproveInStep, InApprove, approving, TurnFresh, InTurn, Phases, Executing,
      RepairUnanswered, First, Calls, TypeOK, DiskOK, ControlOK, CountersOK
<1>8. CASE ReplyWithText \/ ReplyEmptyToApprove
  BY <1>8, EmptyReplyEffect, Ranges, BoundsAssumption
  DEF ReplyWithText, ReplyEmptyToApprove, AppendAssistant, disk, proc, hist, IInv, Rejection,
      Emission, ApproveInStep, InApprove, approving, TurnFresh, InTurn, Phases, Executing,
      RepairUnanswered, First, Calls, TypeOK, DiskOK, ControlOK, CountersOK
<1>9. CASE ReplyWithCalls
  BY <1>9, CallsEffect, Ranges, BoundsAssumption
  DEF ReplyWithCalls, AppendAssistant, disk, proc, hist, IInv, Rejection, Emission,
      ApproveInStep, InApprove, approving, TurnFresh, InTurn, Phases, Executing,
      RepairUnanswered, First, Calls, TypeOK, DiskOK, ControlOK, CountersOK
<1>10. ASSUME NEW c \in Calls, RecordDecision(c) \/ RunCall(c) \/ RunFails(c) \/ RunBreaks(c) PROVE Rejection'
  BY <1>10, Ranges, BoundsAssumption
  DEF RecordDecision, RunCall, RunFails, RunBreaks, First, disk, proc, hist, IInv, Rejection, Emission,
      ApproveInStep, InApprove, approving, TurnFresh, InTurn, Phases, Executing,
      RepairUnanswered, Calls, TypeOK, DiskOK, ControlOK, CountersOK
<1>11. ASSUME NEW c \in Calls, AnswerCall(c) \/ RefuseCall(c) PROVE Rejection'
  BY <1>11, AnswerEffect, Ranges, BoundsAssumption
  DEF AnswerCall, RefuseCall, AppendTool, First, disk, proc, hist, IInv, Rejection, Emission,
      ApproveInStep, InApprove, approving, TurnFresh, InTurn, Phases, Executing,
      RepairUnanswered, Calls, TypeOK, DiskOK, ControlOK, CountersOK
<1>12. ASSUME NEW c \in Calls, RepairClears(c) \/ RepairRejects(c) PROVE Rejection'
  BY <1>12, Ranges, BoundsAssumption
  DEF RepairClears, RepairRejects, First, disk, proc, hist, IInv, Rejection, Emission,
      ApproveInStep, InApprove, approving, TurnFresh, InTurn, Phases, Executing,
      RepairUnanswered, Calls, TypeOK, DiskOK, ControlOK, CountersOK
<1>13. ASSUME NEW c \in Calls, RepairCancels(c) PROVE Rejection'
  <2>1. Cancelled(log') = Cancelled(log) \cup {c}
    BY <1>13, CancelEffect
  <2>2. c \in rejected /\ UNCHANGED <<pend, rejected>>
    BY <1>13 DEF RepairCancels, IInv, RepairUnanswered
  <2> QED BY <2>1, <2>2 DEF IInv, Rejection
<1>14. ASSUME NEW c \in Calls, NEW k \in Kind, Dispatch(c, k) PROVE Rejection'
  BY <1>14, DispatchEffect, Ranges, BoundsAssumption
  DEF Park, LeaveUnanswered, Handle, Admit, suspending, First, disk, proc, hist, IInv,
      Rejection, Emission, ApproveInStep, InApprove, approving, TurnFresh, InTurn, Phases,
      Executing, RepairUnanswered, Calls, TypeOK, DiskOK, ControlOK, CountersOK
<1>15. CASE SessionExhausted \/ DispatchDone \/ SavePending
  BY <1>15, Ranges, BoundsAssumption
  DEF SessionExhausted, DispatchDone, SavePending, Stop, suspending, disk, proc, hist, IInv,
      Rejection, Emission, ApproveInStep, InApprove, approving, TurnFresh, InTurn, Phases,
      Executing, RepairUnanswered, First, Calls, TypeOK, DiskOK, ControlOK, CountersOK
<1>16. CASE End
  BY <1>16, Ranges, BoundsAssumption
  DEF End, Exit, disk, proc, hist, IInv, Rejection, Emission, ApproveInStep, InApprove,
      approving, TurnFresh, InTurn, Phases, Executing, RepairUnanswered, First, Calls, TypeOK,
      DiskOK, ControlOK, CountersOK
<1>17. CASE Crash
  BY <1>17, Ranges, BoundsAssumption
  DEF Crash, Fault, PendingSurvives, PendingTorn, Exit, disk, proc, hist, IInv, Rejection,
      Emission, ApproveInStep, InApprove, approving, TurnFresh, InTurn, Phases, Executing,
      RepairUnanswered, First, Calls, TypeOK, DiskOK, ControlOK, CountersOK
<1>18. CASE WriteFails
  BY <1>18, Ranges, BoundsAssumption
  DEF WriteFails, Writing, Fault, PendingSurvives, PendingTorn, Stop, disk, proc, hist, IInv,
      Rejection, Emission, ApproveInStep, InApprove, approving, TurnFresh, InTurn, Phases,
      Executing, RepairUnanswered, First, Calls, TypeOK, DiskOK, ControlOK, CountersOK
<1>19. CASE UNCHANGED vars
  BY <1>19, Ranges, BoundsAssumption
  DEF vars, disk, proc, hist, IInv, Rejection, Emission, ApproveInStep, InApprove, approving,
      TurnFresh, InTurn, Phases, Executing, RepairUnanswered, First, Calls, TypeOK, DiskOK,
      ControlOK, CountersOK
<1> QED
  BY <1>1, <1>2, <1>3, <1>4, <1>5, <1>6, <1>7, <1>8, <1>9, <1>10, <1>11, <1>12, <1>13, <1>14, <1>15, <1>16, <1>17, <1>18, <1>19
  DEF Next, Step, Start, Ending, Model, Pipeline, Healing, Turn

\* Where an invocation is tells which loop the pipeline serves.
LEMMA PhasesNext == IInv /\ [Next]_vars => Phases'
<1> SUFFICES ASSUME IInv, [Next]_vars PROVE Phases'
  OBVIOUS
<1>1. CASE Human
  BY <1>1, Ranges, BoundsAssumption
  DEF Human, Tell, ApprovePending, ApproveResume, ApproveTorn, Begin, disk, proc, hist, IInv,
      Phases, approving, Kind, TypeOK, DiskOK, ControlOK, CountersOK
<1>2. CASE Compaction
  BY <1>2, Ranges, BoundsAssumption
  DEF Compaction, SkipCompaction, Compact, CompactTorn, Cutoffs, Stop, disk, proc, hist, IInv,
      Phases, approving, Kind, TypeOK, DiskOK, ControlOK, CountersOK
<1>3. CASE Load \/ ClearPending
  BY <1>3, LoadEffect, Ranges, BoundsAssumption
  DEF Load, ClearPending, disk, proc, hist, IInv, Phases, approving, Kind, TypeOK, DiskOK,
      ControlOK, CountersOK
<1>4. CASE LoadApprove \/ RefuseGrant
  BY <1>4, Ranges, BoundsAssumption
  DEF LoadApprove, RefuseGrant, Stop, disk, proc, hist, IInv, Phases, approving, Kind, TypeOK,
      DiskOK, ControlOK, CountersOK
<1>5. CASE AppendUser
  BY <1>5, UserEffect, Ranges, BoundsAssumption
  DEF AppendUser, disk, proc, hist, IInv, Phases, approving, Kind, TypeOK, DiskOK, ControlOK,
      CountersOK
<1>6. CASE RepairDone
  BY <1>6, Ranges, BoundsAssumption
  DEF RepairDone, disk, proc, hist, IInv, Phases, approving, Kind, TypeOK, DiskOK, ControlOK,
      CountersOK
<1>7. CASE TransportFailed \/ ApiRejected \/ OutOfTurns
  BY <1>7, Ranges, BoundsAssumption
  DEF TransportFailed, ApiRejected, OutOfTurns, Stop, disk, proc, hist, IInv, Phases, approving,
      Kind, TypeOK, DiskOK, ControlOK, CountersOK
<1>8. CASE ReplyWithText \/ ReplyEmptyToApprove
  BY <1>8, EmptyReplyEffect, Ranges, BoundsAssumption
  DEF ReplyWithText, ReplyEmptyToApprove, AppendAssistant, disk, proc, hist, IInv, Phases,
      approving, Kind, TypeOK, DiskOK, ControlOK, CountersOK
<1>9. CASE ReplyWithCalls
  BY <1>9, CallsEffect, Ranges, BoundsAssumption
  DEF ReplyWithCalls, AppendAssistant, disk, proc, hist, IInv, Phases, approving, Kind, TypeOK,
      DiskOK, ControlOK, CountersOK
<1>10. ASSUME NEW c \in Calls, RecordDecision(c) \/ RunCall(c) \/ RunFails(c) \/ RunBreaks(c) PROVE Phases'
  BY <1>10, Ranges, BoundsAssumption
  DEF RecordDecision, RunCall, RunFails, RunBreaks, First, disk, proc, hist, IInv, Phases, approving, Kind,
      TypeOK, DiskOK, ControlOK, CountersOK
<1>11. ASSUME NEW c \in Calls, AnswerCall(c) \/ RefuseCall(c) PROVE Phases'
  BY <1>11, AnswerEffect, Ranges, BoundsAssumption
  DEF AnswerCall, RefuseCall, AppendTool, First, disk, proc, hist, IInv, Phases, approving,
      Kind, TypeOK, DiskOK, ControlOK, CountersOK
<1>12. ASSUME NEW c \in Calls, RepairClears(c) \/ RepairRejects(c) PROVE Phases'
  BY <1>12, Ranges, BoundsAssumption
  DEF RepairClears, RepairRejects, First, disk, proc, hist, IInv, Phases, approving, Kind,
      TypeOK, DiskOK, ControlOK, CountersOK
<1>13. ASSUME NEW c \in Calls, RepairCancels(c) PROVE Phases'
  BY <1>13, CancelEffect, Ranges, BoundsAssumption
  DEF RepairCancels, First, disk, proc, hist, IInv, Phases, approving, Kind, TypeOK, DiskOK,
      ControlOK, CountersOK
<1>14. ASSUME NEW c \in Calls, NEW k \in Kind, Dispatch(c, k) PROVE Phases'
  BY <1>14, DispatchEffect, Ranges, BoundsAssumption
  DEF Park, LeaveUnanswered, Handle, Admit, suspending, First, disk, proc, hist, IInv, Phases,
      approving, Kind, TypeOK, DiskOK, ControlOK, CountersOK
<1>15. CASE SessionExhausted \/ DispatchDone \/ SavePending
  BY <1>15, Ranges, BoundsAssumption
  DEF SessionExhausted, DispatchDone, SavePending, Stop, suspending, disk, proc, hist, IInv,
      Phases, approving, Kind, TypeOK, DiskOK, ControlOK, CountersOK
<1>16. CASE End
  BY <1>16, Ranges, BoundsAssumption
  DEF End, Exit, disk, proc, hist, IInv, Phases, approving, Kind, TypeOK, DiskOK, ControlOK,
      CountersOK
<1>17. CASE Crash
  BY <1>17, Ranges, BoundsAssumption
  DEF Crash, Fault, PendingSurvives, PendingTorn, Exit, disk, proc, hist, IInv, Phases,
      approving, Kind, TypeOK, DiskOK, ControlOK, CountersOK
<1>18. CASE WriteFails
  BY <1>18, Ranges, BoundsAssumption
  DEF WriteFails, Writing, Fault, PendingSurvives, PendingTorn, Stop, disk, proc, hist, IInv,
      Phases, approving, Kind, TypeOK, DiskOK, ControlOK, CountersOK
<1>19. CASE UNCHANGED vars
  BY <1>19, Ranges, BoundsAssumption
  DEF vars, disk, proc, hist, IInv, Phases, approving, Kind, TypeOK, DiskOK, ControlOK,
      CountersOK
<1> QED
  BY <1>1, <1>2, <1>3, <1>4, <1>5, <1>6, <1>7, <1>8, <1>9, <1>10, <1>11, <1>12, <1>13, <1>14, <1>15, <1>16, <1>17, <1>18, <1>19
  DEF Next, Step, Start, Ending, Model, Pipeline, Healing, Turn

\* A turn's calls are new, and each is decided, answered or parked once.
LEMMA TurnFreshNext == IInv /\ [Next]_vars => TurnFresh'
<1> SUFFICES ASSUME IInv, [Next]_vars PROVE TurnFresh'
  OBVIOUS
<1>1. CASE Human
  BY <1>1, Ranges, BoundsAssumption
  DEF Human, Tell, ApprovePending, ApproveResume, ApproveTorn, Begin, disk, proc, hist, IInv,
      TurnFresh, InTurn, Executing, First, approving, Emission, Calls, Phases, Kind, TypeOK,
      DiskOK, ControlOK, CountersOK
<1>2. CASE Compaction
  BY <1>2, Ranges, BoundsAssumption
  DEF Compaction, SkipCompaction, Compact, CompactTorn, Cutoffs, Stop, disk, proc, hist, IInv,
      TurnFresh, InTurn, Executing, First, approving, Emission, Calls, Phases, Kind, TypeOK,
      DiskOK, ControlOK, CountersOK
<1>3. CASE Load \/ ClearPending
  BY <1>3, LoadEffect, Ranges, BoundsAssumption
  DEF Load, ClearPending, disk, proc, hist, IInv, TurnFresh, InTurn, Executing, First,
      approving, Emission, Calls, Phases, Kind, TypeOK, DiskOK, ControlOK, CountersOK
<1>4. CASE LoadApprove \/ RefuseGrant
  BY <1>4, Ranges, BoundsAssumption
  DEF LoadApprove, RefuseGrant, Stop, disk, proc, hist, IInv, TurnFresh, InTurn, Executing,
      First, approving, Emission, Calls, Phases, Kind, TypeOK, DiskOK, ControlOK, CountersOK
<1>5. CASE AppendUser
  BY <1>5, UserEffect, Ranges, BoundsAssumption
  DEF AppendUser, disk, proc, hist, IInv, TurnFresh, InTurn, Executing, First, approving,
      Emission, Calls, Phases, Kind, TypeOK, DiskOK, ControlOK, CountersOK
<1>6. CASE RepairDone
  BY <1>6, Ranges, BoundsAssumption
  DEF RepairDone, disk, proc, hist, IInv, TurnFresh, InTurn, Executing, First, approving,
      Emission, Calls, Phases, Kind, TypeOK, DiskOK, ControlOK, CountersOK
<1>7. CASE TransportFailed \/ ApiRejected \/ OutOfTurns
  BY <1>7, Ranges, BoundsAssumption
  DEF TransportFailed, ApiRejected, OutOfTurns, Stop, disk, proc, hist, IInv, TurnFresh, InTurn,
      Executing, First, approving, Emission, Calls, Phases, Kind, TypeOK, DiskOK, ControlOK,
      CountersOK
<1>8. CASE ReplyWithText \/ ReplyEmptyToApprove
  BY <1>8, EmptyReplyEffect, Ranges, BoundsAssumption
  DEF ReplyWithText, ReplyEmptyToApprove, AppendAssistant, disk, proc, hist, IInv, TurnFresh,
      InTurn, Executing, First, approving, Emission, Calls, Phases, Kind, TypeOK, DiskOK,
      ControlOK, CountersOK
<1>9. CASE ReplyWithCalls
  <2>1. /\ Answered(log') = Answered(log) /\ queue' = issued + 1 .. issued'
        /\ UNCHANGED <<parked, pend, rejected>>
    BY <1>9, CallsEffect DEF ReplyWithCalls, AppendAssistant
  <2>2. parked = {}
    BY <1>9 DEF ReplyWithCalls, IInv, Phases
  <2>3. queue' \cap 1 .. issued = {}
    BY <2>1, Ranges
  <2> QED BY <2>1, <2>2, <2>3 DEF IInv, Emission, TurnFresh
<1>10. ASSUME NEW c \in Calls, RecordDecision(c) \/ RunCall(c) \/ RunFails(c) \/ RunBreaks(c) PROVE TurnFresh'
  <2>1. CASE RecordDecision(c)
    <3>1. /\ First(c, queue) /\ pc = "record" /\ pc' \in {"run", "answer"}
          /\ rejected' = rejected \/ (rejected' = rejected \cup {c} /\ pc' = "answer")
          /\ UNCHANGED <<log, pend, queue, parked, cont, turn>>
      BY <2>1 DEF RecordDecision, proc
    <3> QED BY <3>1 DEF IInv, TurnFresh, InTurn, Executing, First, approving
  <2>2. CASE RunCall(c) \/ RunFails(c) \/ RunBreaks(c)
    <3>1. /\ pc = "run" /\ pc' = "answer"
          /\ UNCHANGED <<log, pend, queue, parked, cont, turn, rejected>>
      BY <2>2 DEF RunCall, RunFails, RunBreaks, disk, proc
    <3> QED BY <3>1 DEF IInv, TurnFresh, InTurn, Executing, approving
  <2> QED BY <1>10, <2>1, <2>2
<1>11. ASSUME NEW c \in Calls, AnswerCall(c) \/ RefuseCall(c) PROVE TurnFresh'
  <2>1. Answered(log') = Answered(log) \cup {c}
    BY <1>11, AnswerEffect
  <2>2. /\ First(c, queue) /\ queue' = queue \ {c}
        /\ UNCHANGED <<parked, pend, rejected, cont, turn>>
    BY <1>11 DEF AnswerCall, RefuseCall, AppendTool
  <2>3. InTurn' => InTurn
    BY <1>11, <2>2 DEF AnswerCall, RefuseCall, InTurn, approving
  <2>4. ASSUME InTurn, NEW d \in queue' \cup parked, Executing(d) PROVE FALSE
    <3>1. d \in queue /\ c \in queue /\ d # c /\ d <= c /\ c <= d
      BY <2>2, <2>4 DEF Executing, First, IInv, TurnFresh
    <3>2. c \in Nat /\ d \in Nat
      BY <3>1, Ranges DEF IInv, Emission, Calls
    <3> QED BY <3>1, <3>2
  <2>5. ASSUME InTurn PROVE /\ queue' \cap parked' = {} /\ c \notin queue' \cup parked'
                            /\ (queue' \cup parked') \cap (Answered(log) \cup pend) = {}
                            /\ \A d \in queue' \cup parked' : d \notin rejected
    BY <2>2, <2>4, <2>5 DEF IInv, TurnFresh, First
  <2> QED BY <2>1, <2>2, <2>3, <2>5 DEF TurnFresh
<1>12. ASSUME NEW c \in Calls, RepairClears(c) \/ RepairRejects(c) PROVE TurnFresh'
  BY <1>12, Ranges, BoundsAssumption
  DEF RepairClears, RepairRejects, First, disk, proc, hist, IInv, TurnFresh, InTurn, Executing,
      approving, Emission, Calls, Phases, Kind, TypeOK, DiskOK, ControlOK, CountersOK
<1>13. ASSUME NEW c \in Calls, RepairCancels(c) PROVE TurnFresh'
  BY <1>13, CancelEffect, Ranges, BoundsAssumption
  DEF RepairCancels, First, disk, proc, hist, IInv, TurnFresh, InTurn, Executing, approving,
      Emission, Calls, Phases, Kind, TypeOK, DiskOK, ControlOK, CountersOK
<1>14. ASSUME NEW c \in Calls, NEW k \in Kind, Dispatch(c, k) PROVE TurnFresh'
  <2>1. pc = "dispatch" /\ UNCHANGED <<log, pend, rejected, cont, turn>> /\ First(c, queue)
    BY <1>14, DispatchEffect DEF Park, LeaveUnanswered, Handle, disk
  <2>2. InTurn /\ \A d \in Calls : ~Executing(d)
    BY <2>1 DEF InTurn, Executing, IInv, Phases
  <2>3. /\ queue \subseteq Calls /\ parked \subseteq Calls /\ queue \cap parked = {}
        /\ (queue \cup parked) \cap (Answered(log) \cup pend \cup rejected) = {}
    BY <2>2 DEF IInv, TypeOK, ControlOK, TurnFresh
  <2>4. \/ parked' = parked \cup {c} /\ queue' = queue \ {c}
        \/ parked' = parked /\ queue' \in {queue, queue \ {c}}
    BY <1>14, DispatchEffect DEF Park, LeaveUnanswered, Handle
  <2>5. /\ queue' \cap parked' = {} /\ queue' \cup parked' \subseteq queue \cup parked
    BY <2>1, <2>3, <2>4 DEF First
  <2> QED BY <2>1, <2>3, <2>5 DEF TurnFresh
<1>15. CASE SessionExhausted \/ DispatchDone \/ SavePending
  BY <1>15, Ranges, BoundsAssumption
  DEF SessionExhausted, DispatchDone, SavePending, Stop, suspending, disk, proc, hist, IInv,
      TurnFresh, InTurn, Executing, First, approving, Emission, Calls, Phases, Kind, TypeOK,
      DiskOK, ControlOK, CountersOK
<1>16. CASE End
  BY <1>16, Ranges, BoundsAssumption
  DEF End, Exit, disk, proc, hist, IInv, TurnFresh, InTurn, Executing, First, approving,
      Emission, Calls, Phases, Kind, TypeOK, DiskOK, ControlOK, CountersOK
<1>17. CASE Crash
  BY <1>17, Ranges, BoundsAssumption
  DEF Crash, Fault, PendingSurvives, PendingTorn, Exit, disk, proc, hist, IInv, TurnFresh,
      InTurn, Executing, First, approving, Emission, Calls, Phases, Kind, TypeOK, DiskOK,
      ControlOK, CountersOK
<1>18. CASE WriteFails
  BY <1>18, Ranges, BoundsAssumption
  DEF WriteFails, Writing, Fault, PendingSurvives, PendingTorn, Stop, disk, proc, hist, IInv,
      TurnFresh, InTurn, Executing, First, approving, Emission, Calls, Phases, Kind, TypeOK,
      DiskOK, ControlOK, CountersOK
<1>19. CASE UNCHANGED vars
  BY <1>19, Ranges, BoundsAssumption
  DEF vars, disk, proc, hist, IInv, TurnFresh, InTurn, Executing, First, approving, Emission,
      Calls, Phases, Kind, TypeOK, DiskOK, ControlOK, CountersOK
<1> QED
  BY <1>1, <1>2, <1>3, <1>4, <1>5, <1>6, <1>7, <1>8, <1>9, <1>10, <1>11, <1>12, <1>13, <1>14, <1>15, <1>16, <1>17, <1>18, <1>19
  DEF Next, Step, Start, Ending, Model, Pipeline, Healing, Turn

\* approve's loop shrinks the parked set it loaded and answers on disk and in
\* memory alike.
LEMMA ApproveNext == IInv /\ [Next]_vars => ApproveInStep'
<1> SUFFICES ASSUME IInv, [Next]_vars PROVE ApproveInStep'
  OBVIOUS
<1>1. CASE Human
  BY <1>1, Ranges, BoundsAssumption
  DEF Human, Tell, ApprovePending, ApproveResume, ApproveTorn, Begin, disk, proc, hist, IInv,
      Phases, ApproveInStep, InApprove, approving, TypeOK, DiskOK, ControlOK, CountersOK
<1>2. CASE Compaction
  BY <1>2, Ranges, BoundsAssumption
  DEF Compaction, SkipCompaction, Compact, CompactTorn, Cutoffs, Stop, disk, proc, hist, IInv,
      Phases, ApproveInStep, InApprove, approving, TypeOK, DiskOK, ControlOK, CountersOK
<1>3. CASE Load \/ ClearPending
  BY <1>3, LoadEffect, Ranges, BoundsAssumption
  DEF Load, ClearPending, disk, proc, hist, IInv, Phases, ApproveInStep, InApprove, approving,
      TypeOK, DiskOK, ControlOK, CountersOK
<1>4. CASE LoadApprove \/ RefuseGrant
  BY <1>4, Ranges, BoundsAssumption
  DEF LoadApprove, RefuseGrant, Stop, disk, proc, hist, IInv, Phases, ApproveInStep, InApprove,
      approving, TypeOK, DiskOK, ControlOK, CountersOK
<1>5. CASE AppendUser
  BY <1>5, UserEffect, Ranges, BoundsAssumption
  DEF AppendUser, disk, proc, hist, IInv, Phases, ApproveInStep, InApprove, approving, TypeOK,
      DiskOK, ControlOK, CountersOK
<1>6. CASE RepairDone
  BY <1>6, Ranges, BoundsAssumption
  DEF RepairDone, disk, proc, hist, IInv, Phases, ApproveInStep, InApprove, approving, TypeOK,
      DiskOK, ControlOK, CountersOK
<1>7. CASE TransportFailed \/ ApiRejected \/ OutOfTurns
  BY <1>7, Ranges, BoundsAssumption
  DEF TransportFailed, ApiRejected, OutOfTurns, Stop, disk, proc, hist, IInv, Phases,
      ApproveInStep, InApprove, approving, TypeOK, DiskOK, ControlOK, CountersOK
<1>8. CASE ReplyWithText \/ ReplyEmptyToApprove
  BY <1>8, EmptyReplyEffect, Ranges, BoundsAssumption
  DEF ReplyWithText, ReplyEmptyToApprove, AppendAssistant, disk, proc, hist, IInv, Phases,
      ApproveInStep, InApprove, approving, TypeOK, DiskOK, ControlOK, CountersOK
<1>9. CASE ReplyWithCalls
  BY <1>9, CallsEffect, Ranges, BoundsAssumption
  DEF ReplyWithCalls, AppendAssistant, disk, proc, hist, IInv, Phases, ApproveInStep, InApprove,
      approving, TypeOK, DiskOK, ControlOK, CountersOK
<1>10. ASSUME NEW c \in Calls, RecordDecision(c) \/ RunCall(c) \/ RunFails(c) \/ RunBreaks(c) PROVE ApproveInStep'
  BY <1>10, Ranges, BoundsAssumption
  DEF RecordDecision, RunCall, RunFails, RunBreaks, First, disk, proc, hist, IInv, Phases, ApproveInStep,
      InApprove, approving, TypeOK, DiskOK, ControlOK, CountersOK
<1>11. ASSUME NEW c \in Calls, AnswerCall(c) \/ RefuseCall(c) PROVE ApproveInStep'
  BY <1>11, AnswerEffect, Ranges, BoundsAssumption
  DEF AnswerCall, RefuseCall, AppendTool, First, disk, proc, hist, IInv, Phases, ApproveInStep,
      InApprove, approving, TypeOK, DiskOK, ControlOK, CountersOK
<1>12. ASSUME NEW c \in Calls, RepairClears(c) \/ RepairRejects(c) PROVE ApproveInStep'
  BY <1>12, Ranges, BoundsAssumption
  DEF RepairClears, RepairRejects, First, disk, proc, hist, IInv, Phases, ApproveInStep,
      InApprove, approving, TypeOK, DiskOK, ControlOK, CountersOK
<1>13. ASSUME NEW c \in Calls, RepairCancels(c) PROVE ApproveInStep'
  BY <1>13, CancelEffect, Ranges, BoundsAssumption
  DEF RepairCancels, First, disk, proc, hist, IInv, Phases, ApproveInStep, InApprove, approving,
      TypeOK, DiskOK, ControlOK, CountersOK
<1>14. ASSUME NEW c \in Calls, NEW k \in Kind, Dispatch(c, k) PROVE ApproveInStep'
  BY <1>14, DispatchEffect, Ranges, BoundsAssumption
  DEF Park, LeaveUnanswered, Handle, Admit, suspending, First, disk, proc, hist, IInv, Phases,
      ApproveInStep, InApprove, approving, TypeOK, DiskOK, ControlOK, CountersOK
<1>15. CASE SessionExhausted \/ DispatchDone \/ SavePending
  BY <1>15, Ranges, BoundsAssumption
  DEF SessionExhausted, DispatchDone, SavePending, Stop, suspending, disk, proc, hist, IInv,
      Phases, ApproveInStep, InApprove, approving, TypeOK, DiskOK, ControlOK, CountersOK
<1>16. CASE End
  BY <1>16, Ranges, BoundsAssumption
  DEF End, Exit, disk, proc, hist, IInv, Phases, ApproveInStep, InApprove, approving, TypeOK,
      DiskOK, ControlOK, CountersOK
<1>17. CASE Crash
  BY <1>17, Ranges, BoundsAssumption
  DEF Crash, Fault, PendingSurvives, PendingTorn, Exit, disk, proc, hist, IInv, Phases,
      ApproveInStep, InApprove, approving, TypeOK, DiskOK, ControlOK, CountersOK
<1>18. CASE WriteFails
  BY <1>18, Ranges, BoundsAssumption
  DEF WriteFails, Writing, Fault, PendingSurvives, PendingTorn, Stop, disk, proc, hist, IInv,
      Phases, ApproveInStep, InApprove, approving, TypeOK, DiskOK, ControlOK, CountersOK
<1>19. CASE UNCHANGED vars
  BY <1>19, Ranges, BoundsAssumption
  DEF vars, disk, proc, hist, IInv, Phases, ApproveInStep, InApprove, approving, TypeOK, DiskOK,
      ControlOK, CountersOK
<1> QED
  BY <1>1, <1>2, <1>3, <1>4, <1>5, <1>6, <1>7, <1>8, <1>9, <1>10, <1>11, <1>12, <1>13, <1>14, <1>15, <1>16, <1>17, <1>18, <1>19
  DEF Next, Step, Start, Ending, Model, Pipeline, Healing, Turn

\* The orphan pass visits unanswered calls and rejects each before cancelling it.
LEMMA RepairNext == IInv /\ [Next]_vars => RepairUnanswered'
<1> SUFFICES ASSUME IInv, [Next]_vars PROVE RepairUnanswered'
  OBVIOUS
<1>1. CASE Human
  BY <1>1, Ranges, BoundsAssumption
  DEF Human, Tell, ApprovePending, ApproveResume, ApproveTorn, Begin, disk, proc, hist, IInv,
      RepairUnanswered, InRepair, First, Calls, TypeOK, DiskOK, ControlOK, CountersOK
<1>2. CASE Compaction
  BY <1>2, Ranges, BoundsAssumption
  DEF Compaction, SkipCompaction, Compact, CompactTorn, Cutoffs, Stop, disk, proc, hist, IInv,
      RepairUnanswered, InRepair, First, Calls, TypeOK, DiskOK, ControlOK, CountersOK
<1>3. CASE Load \/ ClearPending
  BY <1>3, LoadEffect, Ranges, BoundsAssumption
  DEF Load, ClearPending, disk, proc, hist, IInv, RepairUnanswered, InRepair, First, Calls,
      TypeOK, DiskOK, ControlOK, CountersOK
<1>4. CASE LoadApprove \/ RefuseGrant
  BY <1>4, Ranges, BoundsAssumption
  DEF LoadApprove, RefuseGrant, Stop, disk, proc, hist, IInv, RepairUnanswered, InRepair, First,
      Calls, TypeOK, DiskOK, ControlOK, CountersOK
<1>5. CASE AppendUser
  BY <1>5, UserEffect, Ranges, BoundsAssumption
  DEF AppendUser, disk, proc, hist, IInv, RepairUnanswered, InRepair, First, Calls, TypeOK,
      DiskOK, ControlOK, CountersOK
<1>6. CASE RepairDone
  BY <1>6, Ranges, BoundsAssumption
  DEF RepairDone, disk, proc, hist, IInv, RepairUnanswered, InRepair, First, Calls, TypeOK,
      DiskOK, ControlOK, CountersOK
<1>7. CASE TransportFailed \/ ApiRejected \/ OutOfTurns
  BY <1>7, Ranges, BoundsAssumption
  DEF TransportFailed, ApiRejected, OutOfTurns, Stop, disk, proc, hist, IInv, RepairUnanswered,
      InRepair, First, Calls, TypeOK, DiskOK, ControlOK, CountersOK
<1>8. CASE ReplyWithText \/ ReplyEmptyToApprove
  BY <1>8, EmptyReplyEffect, Ranges, BoundsAssumption
  DEF ReplyWithText, ReplyEmptyToApprove, AppendAssistant, disk, proc, hist, IInv,
      RepairUnanswered, InRepair, First, Calls, TypeOK, DiskOK, ControlOK, CountersOK
<1>9. CASE ReplyWithCalls
  BY <1>9, CallsEffect, Ranges, BoundsAssumption
  DEF ReplyWithCalls, AppendAssistant, disk, proc, hist, IInv, RepairUnanswered, InRepair,
      First, Calls, TypeOK, DiskOK, ControlOK, CountersOK
<1>10. ASSUME NEW c \in Calls, RecordDecision(c) \/ RunCall(c) \/ RunFails(c) \/ RunBreaks(c) PROVE RepairUnanswered'
  BY <1>10, Ranges, BoundsAssumption
  DEF RecordDecision, RunCall, RunFails, RunBreaks, First, disk, proc, hist, IInv, RepairUnanswered,
      InRepair, Calls, TypeOK, DiskOK, ControlOK, CountersOK
<1>11. ASSUME NEW c \in Calls, AnswerCall(c) \/ RefuseCall(c) PROVE RepairUnanswered'
  BY <1>11, AnswerEffect, Ranges, BoundsAssumption
  DEF AnswerCall, RefuseCall, AppendTool, First, disk, proc, hist, IInv, RepairUnanswered,
      InRepair, Calls, TypeOK, DiskOK, ControlOK, CountersOK
<1>12. ASSUME NEW c \in Calls, RepairClears(c) \/ RepairRejects(c) PROVE RepairUnanswered'
  BY <1>12, Ranges, BoundsAssumption
  DEF RepairClears, RepairRejects, First, disk, proc, hist, IInv, RepairUnanswered, InRepair,
      Calls, TypeOK, DiskOK, ControlOK, CountersOK
<1>13. ASSUME NEW c \in Calls, RepairCancels(c) PROVE RepairUnanswered'
  BY <1>13, CancelEffect, Ranges, BoundsAssumption
  DEF RepairCancels, First, disk, proc, hist, IInv, RepairUnanswered, InRepair, Calls, TypeOK,
      DiskOK, ControlOK, CountersOK
<1>14. ASSUME NEW c \in Calls, NEW k \in Kind, Dispatch(c, k) PROVE RepairUnanswered'
  BY <1>14, DispatchEffect, Ranges, BoundsAssumption
  DEF Park, LeaveUnanswered, Handle, Admit, suspending, First, disk, proc, hist, IInv,
      RepairUnanswered, InRepair, Calls, TypeOK, DiskOK, ControlOK, CountersOK
<1>15. CASE SessionExhausted \/ DispatchDone \/ SavePending
  BY <1>15, Ranges, BoundsAssumption
  DEF SessionExhausted, DispatchDone, SavePending, Stop, suspending, disk, proc, hist, IInv,
      RepairUnanswered, InRepair, First, Calls, TypeOK, DiskOK, ControlOK, CountersOK
<1>16. CASE End
  BY <1>16, Ranges, BoundsAssumption
  DEF End, Exit, disk, proc, hist, IInv, RepairUnanswered, InRepair, First, Calls, TypeOK,
      DiskOK, ControlOK, CountersOK
<1>17. CASE Crash
  BY <1>17, Ranges, BoundsAssumption
  DEF Crash, Fault, PendingSurvives, PendingTorn, Exit, disk, proc, hist, IInv,
      RepairUnanswered, InRepair, First, Calls, TypeOK, DiskOK, ControlOK, CountersOK
<1>18. CASE WriteFails
  BY <1>18, Ranges, BoundsAssumption
  DEF WriteFails, Writing, Fault, PendingSurvives, PendingTorn, Stop, disk, proc, hist, IInv,
      RepairUnanswered, InRepair, First, Calls, TypeOK, DiskOK, ControlOK, CountersOK
<1>19. CASE UNCHANGED vars
  BY <1>19, Ranges, BoundsAssumption
  DEF vars, disk, proc, hist, IInv, RepairUnanswered, InRepair, First, Calls, TypeOK, DiskOK,
      ControlOK, CountersOK
<1> QED
  BY <1>1, <1>2, <1>3, <1>4, <1>5, <1>6, <1>7, <1>8, <1>9, <1>10, <1>11, <1>12, <1>13, <1>14, <1>15, <1>16, <1>17, <1>18, <1>19
  DEF Next, Step, Start, Ending, Model, Pipeline, Healing, Turn

\* Each execution is followed by its answer unless a fault comes between; the
\* parked calls were never executed except by an approval a fault cut short.
LEMMA RunsPaidNext == IInv /\ [Next]_vars => RunsPaid'
<1> SUFFICES ASSUME IInv, [Next]_vars PROVE RunsPaid'
  OBVIOUS
<1>1. CASE Human
  BY <1>1, Ranges, BoundsAssumption
  DEF Human, Tell, ApprovePending, ApproveResume, ApproveTorn, Begin, disk, proc, hist, IInv,
      RunsPaid, Visited, InApprove, Executing, First, approving, Calls, ApproveInStep,
      TurnFresh, InTurn, Emission, Phases, RepairUnanswered, TypeOK, DiskOK, ControlOK,
      CountersOK
<1>2. CASE Compaction
  BY <1>2, Ranges, BoundsAssumption
  DEF Compaction, SkipCompaction, Compact, CompactTorn, Cutoffs, Stop, disk, proc, hist, IInv,
      RunsPaid, Visited, InApprove, Executing, First, approving, Calls, ApproveInStep,
      TurnFresh, InTurn, Emission, Phases, RepairUnanswered, TypeOK, DiskOK, ControlOK,
      CountersOK
<1>3. CASE Load \/ ClearPending
  BY <1>3, LoadEffect, Ranges, BoundsAssumption
  DEF Load, ClearPending, disk, proc, hist, IInv, RunsPaid, Visited, InApprove, Executing,
      First, approving, Calls, ApproveInStep, TurnFresh, InTurn, Emission, Phases,
      RepairUnanswered, TypeOK, DiskOK, ControlOK, CountersOK
<1>4. CASE LoadApprove \/ RefuseGrant
  BY <1>4, Ranges, BoundsAssumption
  DEF LoadApprove, RefuseGrant, Stop, disk, proc, hist, IInv, RunsPaid, Visited, InApprove,
      Executing, First, approving, Calls, ApproveInStep, TurnFresh, InTurn, Emission, Phases,
      RepairUnanswered, TypeOK, DiskOK, ControlOK, CountersOK
<1>5. CASE AppendUser
  BY <1>5, UserEffect, Ranges, BoundsAssumption
  DEF AppendUser, disk, proc, hist, IInv, RunsPaid, Visited, InApprove, Executing, First,
      approving, Calls, ApproveInStep, TurnFresh, InTurn, Emission, Phases, RepairUnanswered,
      TypeOK, DiskOK, ControlOK, CountersOK
<1>6. CASE RepairDone
  BY <1>6, Ranges, BoundsAssumption
  DEF RepairDone, disk, proc, hist, IInv, RunsPaid, Visited, InApprove, Executing, First,
      approving, Calls, ApproveInStep, TurnFresh, InTurn, Emission, Phases, RepairUnanswered,
      TypeOK, DiskOK, ControlOK, CountersOK
<1>7. CASE TransportFailed \/ ApiRejected \/ OutOfTurns
  BY <1>7, Ranges, BoundsAssumption
  DEF TransportFailed, ApiRejected, OutOfTurns, Stop, disk, proc, hist, IInv, RunsPaid, Visited,
      InApprove, Executing, First, approving, Calls, ApproveInStep, TurnFresh, InTurn, Emission,
      Phases, RepairUnanswered, TypeOK, DiskOK, ControlOK, CountersOK
<1>8. CASE ReplyWithText \/ ReplyEmptyToApprove
  BY <1>8, EmptyReplyEffect, Ranges, BoundsAssumption
  DEF ReplyWithText, ReplyEmptyToApprove, AppendAssistant, disk, proc, hist, IInv, RunsPaid,
      Visited, InApprove, Executing, First, approving, Calls, ApproveInStep, TurnFresh, InTurn,
      Emission, Phases, RepairUnanswered, TypeOK, DiskOK, ControlOK, CountersOK
<1>9. CASE ReplyWithCalls
  BY <1>9, CallsEffect, Ranges, BoundsAssumption
  DEF ReplyWithCalls, AppendAssistant, disk, proc, hist, IInv, RunsPaid, Visited, InApprove,
      Executing, First, approving, Calls, ApproveInStep, TurnFresh, InTurn, Emission, Phases,
      RepairUnanswered, TypeOK, DiskOK, ControlOK, CountersOK
<1>10. ASSUME NEW c \in Calls, RecordDecision(c) \/ RunCall(c) \/ RunFails(c) \/ RunBreaks(c) PROVE RunsPaid'
  <2>1. CASE RecordDecision(c) \/ RunFails(c)
    <3>1. /\ pc \in {"record", "run"} /\ pc' \in {"run", "answer"}
          /\ UNCHANGED <<log, pend, queue, cont, turn, runs, faults>>
      BY <2>1 DEF RecordDecision, RunFails, disk, proc, hist
    <3> QED BY <3>1 DEF IInv, RunsPaid, Visited, InApprove, Executing, First, approving
  <2>2. CASE RunCall(c) \/ RunBreaks(c)
    <3>1. /\ pc = "run" /\ pc' = "answer" /\ First(c, queue)
          /\ runs' = [runs EXCEPT ![c] = @ + 1]
          /\ UNCHANGED <<log, pend, queue, cont, turn, faults>>
      BY <2>2 DEF RunCall, RunBreaks, disk, proc
    <3>2. runs[c] <= faults
      BY <3>1, RunsBelowFaults
    <3>3. runs'[c] = runs[c] + 1 /\ \A d \in Calls \ {c} : runs'[d] = runs[d]
      BY <3>1 DEF IInv, TypeOK, CountersOK
    <3>4. Executing(c)' /\ (c \in pend => Visited(c)')
      BY <3>1, <1>10 DEF Executing, First, IInv, TurnFresh, InTurn, Visited, InApprove, approving
    <3>5. \A d \in Calls \ {c} : Visited(d) => Visited(d)'
      BY <3>1 DEF Visited, InApprove, Executing, First, approving
    <3>6. \A d \in Calls : ~Executing(d)
      BY <3>1 DEF Executing
    <3>7. ASSUME NEW d \in Calls PROVE runs'[d] <= 1 + faults'
      <4>1. runs[d] <= 1 + faults /\ runs[c] \in Nat /\ faults \in Nat /\ faults' = faults
        BY <3>1, Ranges DEF IInv, RunsPaid
      <4>2. CASE d = c
        BY <3>2, <3>3, <4>1, <4>2
      <4>3. CASE d # c
        BY <3>3, <4>1, <4>3
      <4> QED BY <4>2, <4>3
    <3>8. ASSUME NEW d \in Calls, d \notin Answered(log') PROVE runs'[d] <= faults' \/ Executing(d)'
      <4>1. runs[d] <= faults /\ faults' = faults
        BY <3>1, <3>6, <3>8 DEF IInv, RunsPaid
      <4> QED BY <3>3, <3>4, <4>1
    <3>9. ASSUME NEW d \in pend' PROVE runs'[d] <= faults' \/ Visited(d)'
      BY <3>1, <3>3, <3>4, <3>5 DEF IInv, RunsPaid, TypeOK, DiskOK
    <3> QED BY <3>7, <3>8, <3>9 DEF RunsPaid
  <2> QED BY <1>10, <2>1, <2>2
<1>11. ASSUME NEW c \in Calls, AnswerCall(c) \/ RefuseCall(c) PROVE RunsPaid'
  <2>1. Answered(log') = Answered(log) \cup {c}
    BY <1>11, AnswerEffect
  <2>2. /\ First(c, queue) /\ queue' = queue \ {c} /\ UNCHANGED <<pend, runs, faults, cont, turn>>
    BY <1>11 DEF AnswerCall, RefuseCall, AppendTool, hist
  <2>3. \A d \in Calls : Executing(d) => d = c
    BY <2>2, Ranges DEF Executing, First, IInv, Emission
  <2>4. \A d \in Calls : Visited(d) => Visited(d)'
    BY <1>11, <2>2, <2>3 DEF AnswerCall, RefuseCall, Visited, InApprove, approving, IInv, Phases
  <2> QED BY <2>1, <2>2, <2>3, <2>4 DEF IInv, RunsPaid, TypeOK, DiskOK
<1>12. ASSUME NEW c \in Calls, RepairClears(c) \/ RepairRejects(c) PROVE RunsPaid'
  BY <1>12, Ranges, BoundsAssumption
  DEF RepairClears, RepairRejects, First, disk, proc, hist, IInv, RunsPaid, Visited, InApprove,
      Executing, approving, Calls, ApproveInStep, TurnFresh, InTurn, Emission, Phases,
      RepairUnanswered, TypeOK, DiskOK, ControlOK, CountersOK
<1>13. ASSUME NEW c \in Calls, RepairCancels(c) PROVE RunsPaid'
  BY <1>13, CancelEffect, Ranges, BoundsAssumption
  DEF RepairCancels, First, disk, proc, hist, IInv, RunsPaid, Visited, InApprove, Executing,
      approving, Calls, ApproveInStep, TurnFresh, InTurn, Emission, Phases, RepairUnanswered,
      TypeOK, DiskOK, ControlOK, CountersOK
<1>14. ASSUME NEW c \in Calls, NEW k \in Kind, Dispatch(c, k) PROVE RunsPaid'
  <2>1. /\ pc = "dispatch" /\ UNCHANGED <<log, pend, cont, turn, runs, faults>>
    BY <1>14, DispatchEffect DEF Park, LeaveUnanswered, Handle, disk, hist
  <2>2. \A d \in Calls : ~Executing(d) /\ ~Visited(d)
    BY <2>1 DEF Executing, Visited, InApprove
  <2> QED BY <2>1, <2>2 DEF IInv, RunsPaid, TypeOK, DiskOK
<1>15. CASE SessionExhausted \/ DispatchDone \/ SavePending
  <2>1. UNCHANGED <<log, runs, faults>> /\ pc' # "answer" /\ pc \in {"dispatch", "save"}
    BY <1>15 DEF SessionExhausted, DispatchDone, SavePending, Stop, disk, hist, suspending
  <2>2. pend' = pend \/ (pc = "save" /\ pend' = parked)
    BY <1>15 DEF SessionExhausted, DispatchDone, SavePending, disk
  <2>3. \A c \in Calls : ~Executing(c) /\ ~Visited(c)
    BY <2>1 DEF Executing, Visited, InApprove
  <2>4. \A c \in pend' : runs[c] <= faults
    <3>1. CASE pend' = pend
      BY <3>1, <2>3 DEF IInv, RunsPaid, TypeOK, DiskOK
    <3>2. CASE pc = "save" /\ pend' = parked
      <4>1. parked \cap Answered(log) = {} /\ parked \subseteq Calls
        BY <3>2 DEF IInv, TypeOK, ControlOK, TurnFresh, InTurn, Phases
      <4> QED BY <3>2, <4>1, <2>3 DEF IInv, RunsPaid
    <3> QED BY <2>2, <3>1, <3>2
  <2> QED BY <2>1, <2>3, <2>4 DEF IInv, RunsPaid
<1>16. CASE End
  BY <1>16, Ranges, BoundsAssumption
  DEF End, Exit, disk, proc, hist, IInv, RunsPaid, Visited, InApprove, Executing, First,
      approving, Calls, ApproveInStep, TurnFresh, InTurn, Emission, Phases, RepairUnanswered,
      TypeOK, DiskOK, ControlOK, CountersOK
<1>17. CASE Crash
  <2>1. UNCHANGED <<log, runs>> /\ faults' = faults + 1 /\ pend' \subseteq Calls
    BY <1>17 DEF Crash, Fault, PendingSurvives, PendingTorn, IInv, TypeOK, DiskOK
  <2>2. \A c \in Calls : runs[c] \in Nat /\ faults \in Nat /\ runs[c] <= 1 + faults
    BY Ranges DEF IInv, RunsPaid
  <2>3. \A c \in Calls : runs'[c] <= 1 + faults' /\ runs'[c] <= faults'
    BY <2>1, <2>2
  <2> QED BY <2>1, <2>3 DEF RunsPaid
<1>18. CASE WriteFails
  <2>1. UNCHANGED <<log, runs>> /\ faults' = faults + 1 /\ pend' \subseteq Calls
    BY <1>18 DEF WriteFails, Fault, PendingSurvives, PendingTorn, IInv, TypeOK, DiskOK
  <2>2. \A c \in Calls : runs[c] \in Nat /\ faults \in Nat /\ runs[c] <= 1 + faults
    BY Ranges DEF IInv, RunsPaid
  <2>3. \A c \in Calls : runs'[c] <= 1 + faults' /\ runs'[c] <= faults'
    BY <2>1, <2>2
  <2> QED BY <2>1, <2>3 DEF RunsPaid
<1>19. CASE UNCHANGED vars
  BY <1>19, Ranges, BoundsAssumption
  DEF vars, disk, proc, hist, IInv, RunsPaid, Visited, InApprove, Executing, First, approving,
      Calls, ApproveInStep, TurnFresh, InTurn, Emission, Phases, RepairUnanswered, TypeOK,
      DiskOK, ControlOK, CountersOK
<1> QED
  BY <1>1, <1>2, <1>3, <1>4, <1>5, <1>6, <1>7, <1>8, <1>9, <1>10, <1>11, <1>12, <1>13, <1>14, <1>15, <1>16, <1>17, <1>18, <1>19
  DEF Next, Step, Start, Ending, Model, Pipeline, Healing, Turn

-----------------------------------------------------------------------------
(***************************************************************************)
(* The invariant holds, and with it the types and the execution bound.     *)
(***************************************************************************)
\* A session that has not started satisfies it: nothing is on record.
LEMMA InvInit == Init => IInv
<1> SUFFICES ASSUME Init PROVE IInv
  OBVIOUS
<1>1. /\ Asked(log) = {} /\ Answered(log) = {} /\ Cancelled(log) = {} /\ AsksFirst(log)
      /\ log \in Seq(Message) /\ Len(log) = 0
  BY DEF Init, Asked, Answered, Cancelled, ToolAt, AsksFirst
<1>2. TypeOK
  <2>1. DiskOK
    <3>1. base = 0 /\ rejected = {} /\ lastEnd = "none" /\ pend = {} /\ torn = FALSE
      BY DEF Init
    <3>2. base \in 0 .. Len(log) /\ lastEnd \in Reason
      BY <1>1, <3>1 DEF Reason
    <3>3. rejected \subseteq Calls /\ pend \subseteq Calls /\ torn \in BOOLEAN
      BY <3>1
    <3> QED BY <1>1, <3>2, <3>3 DEF DiskOK
  <2>2. ControlOK
    BY DEF Init, ControlOK, PC, Continuation, Kind, Reason
  <2>3. CountersOK
    BY BoundsAssumption DEF Init, CountersOK
  <2> QED BY <2>1, <2>2, <2>3 DEF TypeOK
<1>3. Emission /\ Rejection /\ Phases /\ TurnFresh /\ ApproveInStep /\ RepairUnanswered
  BY <1>1 DEF Init, Emission, Rejection, Phases, TurnFresh, InTurn, ApproveInStep, InApprove,
              RepairUnanswered, InRepair
<1>4. RunsPaid
  BY DEF Init, RunsPaid
<1> QED BY <1>2, <1>3, <1>4 DEF IInv

\* Every step of the session keeps it, conjunct by conjunct.
LEMMA InvNext == IInv /\ [Next]_vars => IInv'
BY DiskNext, ControlNext, CountersNext, EmissionNext, RejectionNext, PhasesNext, TurnFreshNext,
   ApproveNext, RepairNext, RunsPaidNext
DEF IInv, TypeOK

\* The inductive invariant holds in every reachable state.
THEOREM Invariance == Spec => []IInv
BY InvInit, InvNext, PTL DEF Spec

\* Every variable keeps its type, and the caps of ToolCallGate hold.
THEOREM TypeCorrect == Spec => []TypeOK
<1>1. IInv => TypeOK
  BY DEF IInv
<1> QED BY <1>1, Invariance, PTL

\* However many calls, invocations and faults there are, no tool call is
\* executed more often than once plus once per fault.
THEOREM AtMostOnce == Spec => []AtMostOncePlusFaults
<1>1. IInv => AtMostOncePlusFaults
  BY DEF IInv, RunsPaid, AtMostOncePlusFaults
<1> QED BY <1>1, Invariance, PTL

-----------------------------------------------------------------------------
(***************************************************************************)
(* Rejected calls are never executed, and the session keeps the ledger.    *)
(***************************************************************************)
\* A call about to be executed has not been rejected.
LEMMA RunsUnrejected ==
  ASSUME IInv, NEW c \in Calls, pc = "run", First(c, queue)
  PROVE  c \notin rejected
<1>1. CASE approving
  BY <1>1 DEF IInv, ApproveInStep, InApprove, Rejection, First
<1>2. CASE ~approving
  BY <1>2 DEF IInv, TurnFresh, InTurn, Executing, First
<1> QED BY <1>1, <1>2

\* Only RunCall and RunBreaks execute.
LEMMA OnlyToolsRun ==
  ASSUME [Next]_vars
  PROVE  UNCHANGED runs \/ \E c \in Calls : RunCall(c) \/ RunBreaks(c)
<1>1. CASE Human \/ Compaction \/ Start \/ ClearPending \/ RepairDone
  BY <1>1 DEF Human, Tell, ApprovePending, ApproveResume, ApproveTorn, Begin, Compaction,
              SkipCompaction, Compact, CompactTorn, Start, Load, LoadApprove, RefuseGrant,
              AppendUser, ClearPending, RepairDone, hist
<1>2. CASE Model
  BY <1>2 DEF Model, TransportFailed, ApiRejected, OutOfTurns, ReplyWithCalls, ReplyWithText,
              ReplyEmptyToApprove, hist
<1>3. ASSUME NEW c \in Calls, Pipeline(c) \/ Healing(c) \/ Turn(c)
      PROVE  UNCHANGED runs \/ RunCall(c) \/ RunBreaks(c)
  BY <1>3 DEF Pipeline, RecordDecision, RunFails, AnswerCall, Healing, RepairClears,
              RepairRejects, RepairCancels, Turn, RefuseCall, Dispatch, Park, LeaveUnanswered,
              Handle, hist
<1>4. CASE Ending \/ Crash \/ WriteFails \/ UNCHANGED vars
  BY <1>4 DEF Ending, SessionExhausted, DispatchDone, SavePending, End, Crash, WriteFails, Fault,
              hist, vars
<1> QED BY <1>1, <1>2, <1>3, <1>4 DEF Next, Step

\* No step of any invocation executes a call whose rejection is on record.
THEOREM RejectedStayUnrun == Spec => RejectedNeverRuns
<1>1. ASSUME IInv, [Next]_vars PROVE [\A c \in rejected : runs'[c] = runs[c]]_vars
  <2>1. CASE UNCHANGED runs
    BY <2>1
  <2>2. ASSUME NEW c \in Calls, RunCall(c) \/ RunBreaks(c) PROVE \A d \in rejected : runs'[d] = runs[d]
    <3>1. c \notin rejected /\ runs' = [runs EXCEPT ![c] = @ + 1]
      BY <2>2, <1>1, RunsUnrejected DEF RunCall, RunBreaks
    <3> QED BY <3>1, <1>1 DEF IInv, TypeOK, DiskOK, CountersOK
  <2> QED BY <1>1, <2>1, <2>2, OnlyToolsRun
<1> QED BY <1>1, Invariance, PTL DEF Spec, RejectedNeverRuns

\* The steps that leave the ledger's variables alone, or only extend the answers.
LEMMA LedgerStep ==
  ASSUME IInv, [Next]_vars
  PROVE  [Ledger!Next]_(Ledger!vars)
<1> USE DEF Calls
<1>1. CASE Human \/ Compaction \/ Load \/ LoadApprove \/ RefuseGrant \/ ClearPending \/ RepairDone
  <2>1. UNCHANGED <<log, issued, runs, faults>>
    BY <1>1 DEF Human, Tell, ApprovePending, ApproveResume, ApproveTorn, Begin, Compaction,
                SkipCompaction, Compact, CompactTorn, Load, LoadApprove, RefuseGrant,
                ClearPending, RepairDone, hist, disk
  <2> QED BY <2>1 DEF Ledger!vars
<1>2. CASE AppendUser
  <2>1. UNCHANGED <<issued, runs, faults>>
    BY <1>2 DEF AppendUser, hist
  <2> QED BY <1>2, <2>1, UserEffect DEF Ledger!vars
<1>3. CASE TransportFailed \/ ApiRejected \/ OutOfTurns
  <2>1. UNCHANGED <<log, issued, runs, faults>>
    BY <1>3 DEF TransportFailed, ApiRejected, OutOfTurns, hist, disk
  <2> QED BY <2>1 DEF Ledger!vars
<1>4. CASE ReplyWithText \/ ReplyEmptyToApprove
  <2>1. UNCHANGED <<issued, runs, faults>>
    BY <1>4 DEF ReplyWithText, ReplyEmptyToApprove, hist
  <2> QED BY <1>4, <2>1, EmptyReplyEffect DEF Ledger!vars
<1>5. CASE ReplyWithCalls
  <2>1. UNCHANGED <<runs, faults>>
    BY <1>5 DEF ReplyWithCalls
  <2> QED BY <1>5, <2>1, CallsEffect DEF Ledger!Next, Ledger!Issue
<1>6. ASSUME NEW c \in Calls, RecordDecision(c) \/ RunFails(c) \/ RepairClears(c) \/ RepairRejects(c)
      PROVE  UNCHANGED Ledger!vars
  <2>1. UNCHANGED <<log, issued, runs, faults>>
    BY <1>6 DEF RecordDecision, RunFails, RepairClears, RepairRejects, hist, disk
  <2> QED BY <2>1 DEF Ledger!vars
<1>7. ASSUME NEW c \in Calls, RunCall(c) \/ RunBreaks(c) PROVE Ledger!Run(c)
  <2>1. c \notin rejected /\ runs[c] <= faults
    BY <1>7, RunsUnrejected, RunsBelowFaults DEF RunCall, RunBreaks
  <2>2. c <= issued /\ c \notin Cancelled(log)
    BY <1>7, <2>1, Ranges DEF RunCall, RunBreaks, First, IInv, Emission, Rejection
  <2>3. runs' = [runs EXCEPT ![c] = @ + 1] /\ UNCHANGED <<log, issued, faults>>
    BY <1>7 DEF RunCall, RunBreaks, disk
  <2> QED BY <2>1, <2>2, <2>3 DEF Ledger!Run
<1>8. ASSUME NEW c \in Calls, AnswerCall(c) \/ RefuseCall(c)
      PROVE  Ledger!AnswerCall(c) \/ UNCHANGED Ledger!vars
  <2>1. UNCHANGED <<issued, runs, faults>> /\ c \in queue
    BY <1>8 DEF AnswerCall, RefuseCall, First, hist
  <2>2. c <= issued
    BY <2>1, Ranges DEF IInv, Emission
  <2>3. Answered(log') = Answered(log) \cup {c} /\ Cancelled(log') = Cancelled(log)
    BY <1>8, AnswerEffect
  <2> QED BY <2>1, <2>2, <2>3 DEF Ledger!AnswerCall, Ledger!vars
<1>9. ASSUME NEW c \in Calls, RepairCancels(c) PROVE Ledger!Cancel(c)
  <2>1. UNCHANGED <<issued, runs, faults>> /\ c \in queue /\ pc = "cancel"
    BY <1>9 DEF RepairCancels, First, hist
  <2>2. c <= issued /\ c \notin Answered(log)
    BY <2>1, Ranges DEF IInv, Emission, RepairUnanswered, InRepair
  <2>3. runs[c] <= faults
    BY <2>1, <2>2 DEF IInv, RunsPaid, Executing
  <2>4. Answered(log') = Answered(log) \cup {c} /\ Cancelled(log') = Cancelled(log) \cup {c}
    BY <1>9, CancelEffect
  <2> QED BY <2>1, <2>2, <2>3, <2>4 DEF Ledger!Cancel
<1>10. ASSUME NEW c \in Calls, NEW k \in Kind, Dispatch(c, k) PROVE UNCHANGED Ledger!vars
  <2>1. UNCHANGED <<log, issued, runs, faults>>
    BY <1>10 DEF Dispatch, Park, LeaveUnanswered, Handle, disk, hist
  <2> QED BY <2>1 DEF Ledger!vars
<1>11. CASE Ending \/ UNCHANGED vars
  <2>1. UNCHANGED <<log, issued, runs, faults>>
    BY <1>11 DEF Ending, SessionExhausted, DispatchDone, SavePending, End, vars, disk, hist
  <2> QED BY <2>1 DEF Ledger!vars
<1>12. CASE Crash \/ WriteFails
  BY <1>12 DEF Crash, WriteFails, Fault, Ledger!Next, Ledger!Fault
<1> QED
  BY <1>1, <1>2, <1>3, <1>4, <1>5, <1>6, <1>7, <1>8, <1>9, <1>10, <1>11, <1>12
  DEF Next, Step, Start, Model, Pipeline, Healing, Turn, Ledger!Next

\* A session, crashes included, implements the ledger: calls run only after they
\* are issued and before they are cancelled, and only unanswered calls are
\* cancelled, executed no more often than the faults so far explain.
THEOREM ImplementsLedger == Spec => LedgerSpec
<1>1. Init => Ledger!Init
  <2>1. Init => Answered(log) = {} /\ Cancelled(log) = {}
    BY DEF Init, Answered, Cancelled, ToolAt
  <2> QED BY <2>1 DEF Init, Ledger!Init, Calls
<1>2. IInv /\ [Next]_vars => [Ledger!Next]_(Ledger!vars)
  BY LedgerStep
<1> QED BY <1>1, <1>2, Invariance, PTL DEF Spec, LedgerSpec, Ledger!Spec

-----------------------------------------------------------------------------
(***************************************************************************)
(* Induction, for sets: over the naturals and over sequences.              *)
(***************************************************************************)
\* A non-empty set of naturals has a least element.
LEMMA LeastNatural ==
  ASSUME NEW T, T \subseteq Nat, T # {}
  PROVE  \E x \in T : \A y \in T : x <= y
<1>1. PICK x \in T : \A y \in T : <<y, x>> \notin OpToRel(<, Nat)
  BY NatLessThanWellFounded, WFMin, Zenon
<1>2. ASSUME NEW y \in T PROVE x <= y
  <2>1. CASE y < x
    <3>1. <<y, x>> \in OpToRel(<, Nat)  BY <2>1 DEF OpToRel
    <3> QED  BY <1>1, <3>1
  <2> QED  BY <2>1
<1> QED  BY <1>2

\* Induction over the naturals.
LEMMA NatSetInduction ==
  ASSUME NEW S, 0 \in S, \A n \in Nat : n \in S => n + 1 \in S
  PROVE  \A n \in Nat : n \in S
<1> DEFINE T == Nat \ S
<1>1. SUFFICES ASSUME T # {} PROVE FALSE  BY <1>1
<1>2. PICK x \in T : \A y \in T : x <= y  BY <1>1, LeastNatural
<1>3. x \in Nat /\ x # 0 /\ x - 1 \in Nat /\ x - 1 \notin T  BY <1>2
<1>4. x - 1 + 1 \in S /\ x - 1 + 1 = x  BY <1>3
<1> QED  BY <1>2, <1>4

\* Induction over sequences, by their last element.
LEMMA SeqSetInduction ==
  ASSUME NEW T, NEW P, <<>> \in P, \A l \in Seq(T) : \A x \in T : l \in P => Append(l, x) \in P
  PROVE  \A l \in Seq(T) : l \in P
<1> DEFINE S == {n \in Nat : \A l \in Seq(T) : Len(l) = n => l \in P}
<1>1. 0 \in S
  <2>1. \A l \in Seq(T) : Len(l) = 0 => l = <<>>  BY EmptySeq
  <2> QED  BY <2>1
<1>2. ASSUME NEW n \in Nat, n \in S PROVE n + 1 \in S
  <2>1. ASSUME NEW l \in Seq(T), Len(l) = n + 1 PROVE l \in P
    <3>1. l # <<>>  BY <2>1, EmptySeq
    <3>2. PICK s \in Seq(T), x \in T : l = Append(s, x)  BY <3>1, SequenceEmptyOrAppend
    <3>3. Len(s) = n  BY <2>1, <3>2, AppendProperties
    <3>4. s \in P  BY <1>2, <3>3
    <3> QED  BY <3>2, <3>4
  <2> QED  BY <2>1
<1>3. \A n \in Nat : n \in S
  <2> HIDE DEF S
  <2> QED  BY <1>1, <1>2, NatSetInduction
<1> QED  BY <1>3, LenProperties

-----------------------------------------------------------------------------
(***************************************************************************)
(* FlattenSeq, the concatenation of a sequence of sequences.               *)
(***************************************************************************)
\* f holds the concatenations of the prefixes of s.
Joins(s, f) ==
  f = [i \in 1 .. Len(s) |-> IF i = 1 THEN s[i] ELSE f[i - 1] \o s[i]]

\* f grows by one part at a time, up to position N.
Chain(N, s, f) ==
  /\ N # 0 => f[1] = s[1]
  /\ \A i \in 1 .. N : i # N => f[i + 1] = f[i] \o s[i + 1]

\* Joins, one position at a time.
LEMMA JoinsAt ==
  ASSUME NEW s, NEW f, Joins(s, f)
  PROVE  \A i \in 1 .. Len(s) : f[i] = IF i = 1 THEN s[i] ELSE f[i - 1] \o s[i]
BY Zenon DEF Joins

\* Each is the one before it and one more part.
LEMMA JoinsChain ==
  ASSUME NEW s, NEW f, Joins(s, f), Len(s) \in Nat
  PROVE  Chain(Len(s), s, f)
<1> DEFINE N == Len(s)
<1>1. \A j \in 1 .. N : f[j] = IF j = 1 THEN s[j] ELSE f[j - 1] \o s[j]
  BY JoinsAt, Zenon
<1>2. N \in Nat  OBVIOUS
<1> HIDE DEF N
<1>3. ASSUME N # 0 PROVE f[1] = s[1]
  <2>1. 1 \in 1 .. N  BY <1>2, <1>3
  <2> QED  BY <1>1, <2>1, Zenon
<1>4. ASSUME NEW i \in 1 .. N, i # N PROVE f[i + 1] = f[i] \o s[i + 1]
  <2> DEFINE j == i + 1
  <2>1. j \in 1 .. N /\ j - 1 = i /\ j # 1  BY <1>2, <1>4
  <2> HIDE DEF j
  <2>2. f[j] = f[i] \o s[j]  BY <1>1, <2>1, Zenon
  <2> QED  BY <2>2 DEF j
<1>5. Chain(N, s, f)  BY <1>3, <1>4 DEF Chain
<1> QED  BY <1>5 DEF N

\* They are determined by the parts.
LEMMA ChainsAgree ==
  ASSUME NEW N \in Nat, NEW s, NEW f, NEW g, Chain(N, s, f), Chain(N, s, g)
  PROVE  \A i \in 1 .. N : f[i] = g[i]
<1> DEFINE S == {n \in Nat : n \in 1 .. N => f[n] = g[n]}
<1>1. 0 \in S  OBVIOUS
<1>2. ASSUME NEW n \in Nat, n \in S PROVE n + 1 \in S
  <2>1. SUFFICES ASSUME n + 1 \in 1 .. N PROVE f[n + 1] = g[n + 1]
    OBVIOUS
  <2>2. CASE n = 0
    BY <2>1, <2>2 DEF Chain
  <2>3. CASE n # 0
    <3>1. n \in 1 .. N /\ n # N  BY <2>1, <2>3
    <3>2. f[n + 1] = f[n] \o s[n + 1]  BY <3>1, Zenon DEF Chain
    <3>3. g[n + 1] = g[n] \o s[n + 1]  BY <3>1, Zenon DEF Chain
    <3>4. f[n] = g[n]  BY <1>2, <2>1, <3>1
    <3> QED  BY <3>2, <3>3, <3>4, Zenon
  <2> QED  BY <2>2, <2>3
<1> HIDE DEF S
<1>3. \A n \in Nat : n \in S  BY <1>1, <1>2, NatSetInduction
<1> QED  BY <1>3 DEF S

\* They exist.
LEMMA JoinsExist ==
  ASSUME NEW T, NEW s \in Seq(Seq(T))
  PROVE  \E f \in [1 .. Len(s) -> Seq(T)] : Joins(s, f)
<1> DEFINE P == {r \in Seq(Seq(T)) : \E f \in [1 .. Len(r) -> Seq(T)] : Joins(r, f)}
<1>1. <<>> \in P
  <2> DEFINE f == [i \in 1 .. 0 |-> <<>>]
  <2>1. Len(<<>>) = 0 /\ <<>> \in Seq(Seq(T))  OBVIOUS
  <2>2. f = [i \in 1 .. 0 |-> IF i = 1 THEN <<>>[i] ELSE f[i - 1] \o <<>>[i]]  OBVIOUS
  <2>3. f \in [1 .. 0 -> Seq(T)]  OBVIOUS
  <2> HIDE DEF f
  <2>4. Joins(<<>>, f) /\ f \in [1 .. Len(<<>>) -> Seq(T)]  BY <2>1, <2>2, <2>3 DEF Joins
  <2> QED  BY <2>1, <2>4
<1>2. ASSUME NEW r \in Seq(Seq(T)), NEW x \in Seq(T), r \in P PROVE Append(r, x) \in P
  <2>1. PICK f \in [1 .. Len(r) -> Seq(T)] : Joins(r, f)  BY <1>2
  <2> DEFINE q == Append(r, x)
             g == [i \in 1 .. Len(q) |-> IF i <= Len(r) THEN f[i]
                                         ELSE IF Len(r) = 0 THEN x ELSE f[Len(r)] \o x]
  <2>2. /\ q \in Seq(Seq(T)) /\ Len(q) = Len(r) + 1 /\ Len(r) \in Nat /\ q[Len(r) + 1] = x
        /\ \A i \in 1 .. Len(r) : q[i] = r[i] /\ r[i] \in Seq(T)
    OBVIOUS
  <2>3. ASSUME NEW u \in Seq(T), NEW v \in Seq(T) PROVE u \o v \in Seq(T)
    BY ConcatProperties
  <2>4. g \in [1 .. Len(q) -> Seq(T)]
    <3>1. ASSUME NEW i \in 1 .. Len(q)
          PROVE  (IF i <= Len(r) THEN f[i] ELSE IF Len(r) = 0 THEN x ELSE f[Len(r)] \o x) \in Seq(T)
      <4>1. CASE i <= Len(r)
        <5>1. i \in 1 .. Len(r)  BY <2>2, <4>1
        <5>2. f[i] \in Seq(T)  BY <5>1, <2>1, Zenon
        <5> QED  BY <4>1, <5>2
      <4>2. CASE ~ (i <= Len(r)) /\ Len(r) # 0
        <5>1. f[Len(r)] \in Seq(T)  BY <2>1, <2>2, <4>2
        <5> QED  BY <4>2, <5>1, <2>3
      <4>3. CASE ~ (i <= Len(r)) /\ Len(r) = 0
        BY <4>3
      <4> QED  BY <4>1, <4>2, <4>3
    <3> QED  BY <3>1
  <2>5. ASSUME NEW i \in 1 .. Len(q) PROVE g[i] = IF i = 1 THEN q[i] ELSE g[i - 1] \o q[i]
    <3>1. CASE i <= Len(r)
      <4>1. f[i] = IF i = 1 THEN r[i] ELSE f[i - 1] \o r[i]
        <5>1. i \in 1 .. Len(r)  BY <3>1, <2>2
        <5> QED  BY <2>1, <5>1, JoinsAt
      <4>2. g[i] = f[i] /\ (i # 1 => g[i - 1] = f[i - 1]) /\ q[i] = r[i]
        BY <3>1, <2>2
      <4> QED  BY <4>1, <4>2
    <3>2. CASE i = Len(r) + 1
      BY <3>2, <2>2
    <3> QED  BY <3>1, <3>2, <2>2
  <2>6. Joins(q, g)  BY <2>5 DEF Joins
  <2> QED  BY <2>2, <2>4, <2>6
<1> HIDE DEF P
<1>3. s \in P  BY <1>1, <1>2, SeqSetInduction
<1> QED  BY <1>3 DEF P

\* The concatenation is the last of them.
LEMMA FlattenIsLastPrefix ==
  ASSUME NEW T, NEW s \in Seq(Seq(T)), s # <<>>
  PROVE  \E f \in [1 .. Len(s) -> Seq(T)] : Joins(s, f) /\ FlattenSeq(s) = f[Len(s)]
<1>1. Len(s) # 0  BY EmptySeq
<1>2. PICK f \in [1 .. Len(s) -> Seq(T)] : Joins(s, f)  BY JoinsExist
<1> DEFINE g == CHOOSE g : Joins(s, g)
<1>3. Joins(s, g)  BY <1>2
<1>4. FlattenSeq(s) = g[Len(s)]  BY <1>1 DEF FlattenSeq, Joins
<1> HIDE DEF g
<1>5. \A i \in 1 .. Len(s) : g[i] = f[i]
  <2>1. Len(s) \in Nat  BY LenProperties
  <2>2. Chain(Len(s), s, g) /\ Chain(Len(s), s, f)
    BY <1>2, <1>3, <2>1, JoinsChain, Zenon
  <2> HIDE DEF g
  <2> QED  BY <2>1, <2>2, ChainsAgree
<1>6. Len(s) \in 1 .. Len(s)  BY <1>1
<1> QED  BY <1>2, <1>4, <1>5, <1>6

\* Nothing to concatenate.
LEMMA FlattenEmpty == FlattenSeq(<<>>) = <<>>
BY DEF FlattenSeq

\* One more sequence comes last.
LEMMA FlattenAppend ==
  ASSUME NEW T, NEW s \in Seq(Seq(T)), NEW x \in Seq(T)
  PROVE  FlattenSeq(Append(s, x)) = FlattenSeq(s) \o x
<1> DEFINE n == Append(s, x)
<1>1. /\ n \in Seq(Seq(T)) /\ Len(n) = Len(s) + 1 /\ Len(s) \in Nat /\ n # <<>>
      /\ n[Len(s) + 1] = x /\ \A i \in 1 .. Len(s) : n[i] = s[i]
  BY AppendProperties
<1> HIDE DEF n
<1>2. PICK g \in [1 .. Len(n) -> Seq(T)] : Joins(n, g) /\ FlattenSeq(n) = g[Len(n)]
  BY <1>1, FlattenIsLastPrefix
<1>3. CASE s = <<>>
  <2>1. FlattenSeq(s) \o x = x  BY <1>3, FlattenEmpty, ConcatEmptySeq
  <2>2. FlattenSeq(n) = x  BY <1>1, <1>2, <1>3 DEF Joins
  <2> QED  BY <2>1, <2>2 DEF n
<1>4. CASE s # <<>>
  <2>1. PICK f \in [1 .. Len(s) -> Seq(T)] : Joins(s, f) /\ FlattenSeq(s) = f[Len(s)]
    BY <1>4, FlattenIsLastPrefix
  <2>2. Len(n) \in Nat /\ Chain(Len(n), n, g)
    BY <1>1, <1>2, JoinsChain
  <2>3. Chain(Len(s), s, f)
    BY <1>1, <2>1, JoinsChain, Zenon
  <2>5. Len(s) # 0  BY <1>4, EmptySeq
  <2>4. \A i \in 1 .. Len(s) : g[i] = f[i]
    <3>1. Len(s) \in Nat /\ \A i \in 1 .. Len(s) : n[i] = s[i]
      BY <1>1
    <3>2. \A i \in 1 .. Len(s) : i # Len(s) => i \in 1 .. Len(n) /\ i # Len(n)
      BY <1>1
    <3>3. Len(n) # 0  BY <1>1, <2>5
    <3>4. g[1] = n[1]  BY <2>2, <3>3 DEF Chain
    <3>5. \A i \in 1 .. Len(s) : i # Len(s) => g[i + 1] = g[i] \o n[i + 1]
      BY <2>2, <3>2, Zenon DEF Chain
    <3>6. g[1] = s[1]
      <4>1. 1 \in 1 .. Len(s)  BY <2>5, <3>1
      <4> QED  BY <3>1, <3>4, <4>1
    <3>7. \A i \in 1 .. Len(s) : i # Len(s) => g[i + 1] = g[i] \o s[i + 1]
      <4>1. \A i \in 1 .. Len(s) : i # Len(s) => n[i + 1] = s[i + 1]  BY <3>1
      <4> QED  BY <3>5, <4>1
    <3>8. Chain(Len(s), s, g)  BY <3>6, <3>7, Zenon DEF Chain
    <3> QED  BY <2>3, <3>1, <3>8, ChainsAgree
  <2>6. g[Len(s)] = f[Len(s)]
    <3>1. Len(s) \in 1 .. Len(s)  BY <2>5, <1>1
    <3> QED  BY <2>4, <3>1
  <2>7. g[Len(n)] = g[Len(s)] \o x
    <3>1. Len(s) \in 1 .. Len(n) /\ Len(s) # Len(n) /\ Len(s) + 1 = Len(n)
      BY <1>1, <2>5
    <3>2. g[Len(s) + 1] = g[Len(s)] \o n[Len(s) + 1]
      BY <2>2, <3>1, Zenon DEF Chain
    <3> QED  BY <1>1, <3>1, <3>2
  <2> QED  BY <1>2, <2>1, <2>6, <2>7 DEF n
<1> QED  BY <1>3, <1>4

\* The concatenation is a sequence, of elements of the parts.
LEMMA FlattenParts ==
  ASSUME NEW T, NEW s \in Seq(Seq(T))
  PROVE  /\ FlattenSeq(s) \in Seq(T)
         /\ \A k \in DOMAIN FlattenSeq(s) :
              \E i \in DOMAIN s : \E j \in DOMAIN s[i] : FlattenSeq(s)[k] = s[i][j]
<1> DEFINE Holds(r) ==
             /\ FlattenSeq(r) \in Seq(T)
             /\ \A k \in DOMAIN FlattenSeq(r) :
                  \E i \in DOMAIN r : \E j \in DOMAIN r[i] : FlattenSeq(r)[k] = r[i][j]
           P == {r \in Seq(Seq(T)) : Holds(r)}
<1>1. <<>> \in P
  <2>1. <<>> \in Seq(Seq(T)) /\ <<>> \in Seq(T) /\ DOMAIN <<>> = {}
    BY EmptySeq
  <2>2. FlattenSeq(<<>>) \in Seq(T) /\ DOMAIN FlattenSeq(<<>>) = {}
    BY <2>1, FlattenEmpty, Zenon
  <2> QED  BY <2>1, <2>2
<1>2. ASSUME NEW r \in Seq(Seq(T)), NEW x \in Seq(T), r \in P PROVE Append(r, x) \in P
  <2> DEFINE q == Append(r, x)
             F == FlattenSeq(r)
             G == FlattenSeq(q)
  <2>1. G = F \o x /\ F \in Seq(T)  BY <1>2, FlattenAppend
  <2>2. /\ q \in Seq(Seq(T)) /\ Len(q) = Len(r) + 1 /\ Len(r) \in Nat
        /\ q[Len(r) + 1] = x /\ \A i \in 1 .. Len(r) : q[i] = r[i]
        /\ DOMAIN r = 1 .. Len(r) /\ DOMAIN q = 1 .. Len(r) + 1 /\ DOMAIN x = 1 .. Len(x)
    OBVIOUS
  <2>3. \A k \in DOMAIN F : \E i \in DOMAIN r : \E j \in DOMAIN r[i] : F[k] = r[i][j]
    BY <1>2
  <2> HIDE DEF F, G, q
  <2>4. /\ G \in Seq(T) /\ DOMAIN G = 1 .. Len(F) + Len(x) /\ Len(F) \in Nat /\ Len(x) \in Nat
        /\ DOMAIN F = 1 .. Len(F)
        /\ \A k \in 1 .. Len(F) + Len(x) : G[k] = IF k <= Len(F) THEN F[k] ELSE x[k - Len(F)]
    BY <2>1, ConcatProperties, LenProperties
  <2>5. ASSUME NEW k \in DOMAIN G PROVE \E i \in DOMAIN q : \E j \in DOMAIN q[i] : G[k] = q[i][j]
    <3>1. CASE k <= Len(F)
      <4>1. k \in DOMAIN F /\ G[k] = F[k]  BY <2>4, <3>1
      <4>2. PICK i \in DOMAIN r : \E j \in DOMAIN r[i] : F[k] = r[i][j]  BY <2>3, <4>1
      <4>3. i \in DOMAIN q /\ q[i] = r[i]  BY <2>2
      <4> QED  BY <4>1, <4>2, <4>3
    <3>2. CASE k > Len(F)
      <4>1. k - Len(F) \in DOMAIN x /\ G[k] = x[k - Len(F)]  BY <2>2, <2>4, <3>2
      <4>2. Len(r) + 1 \in DOMAIN q /\ q[Len(r) + 1] = x  BY <2>2
      <4> QED  BY <4>1, <4>2
    <3> QED  BY <3>1, <3>2, <2>4
  <2> QED  BY <2>2, <2>4, <2>5 DEF q, G
<1> HIDE DEF P
<1>3. s \in P  BY <1>1, <1>2, SeqSetInduction
<1> QED  BY <1>3 DEF P

-----------------------------------------------------------------------------
(***************************************************************************)
(* InOrder, the ascending list of a set of calls.                          *)
(***************************************************************************)
\* The calls of S up to c.
UpTo(S, c) == {d \in S : d <= c}

\* Every position up to the size of the set has its call.
LEMMA RankExists ==
  ASSUME NEW S, S \subseteq Nat, IsFiniteSet(S)
  PROVE  /\ Cardinality(S) \in Nat
         /\ \A k \in 1 .. Cardinality(S) : \E c \in S : Cardinality(UpTo(S, c)) = k
<1> DEFINE P == {k \in Nat : k \in 1 .. Cardinality(S) =>
                               \E c \in S : Cardinality(UpTo(S, c)) = k}
<1>1. Cardinality(S) \in Nat  BY FS_CardinalityType
<1>2. 0 \in P  OBVIOUS
<1>3. ASSUME NEW k \in Nat, k \in P PROVE k + 1 \in P
  <2>1. SUFFICES ASSUME k + 1 \in 1 .. Cardinality(S)
                 PROVE  \E c \in S : Cardinality(UpTo(S, c)) = k + 1
    OBVIOUS
  <2>2. \E D \in SUBSET S : Cardinality(D) = k /\ \A d \in D, e \in S \ D : d < e
    <3>1. CASE k = 0
      <4>1. Cardinality({}) = 0  BY FS_EmptySet
      <4> QED  BY <3>1, <4>1
    <3>2. CASE k # 0
      <4>1. k \in 1 .. Cardinality(S)  BY <1>1, <2>1, <3>2
      <4>2. PICK c \in S : Cardinality(UpTo(S, c)) = k  BY <1>3, <4>1
      <4>3. UpTo(S, c) \in SUBSET S /\ \A d \in UpTo(S, c), e \in S \ UpTo(S, c) : d < e
        BY DEF UpTo
      <4> QED  BY <4>2, <4>3
    <3> QED  BY <3>1, <3>2
  <2>3. PICK D \in SUBSET S : Cardinality(D) = k /\ \A d \in D, e \in S \ D : d < e
    BY <2>2
  <2>4. D # S  BY <1>1, <2>1, <2>3
  <2>5. PICK c \in S \ D : \A e \in S \ D : c <= e
    <3>1. S \ D # {} /\ S \ D \subseteq Nat  BY <2>4
    <3> QED  BY <3>1, LeastNatural
  <2>6. UpTo(S, c) = D \cup {c}
    <3>1. \A d \in S : d <= c <=> d \in D \/ d = c
      <4> TAKE d \in S
      <4>1. d \in Nat /\ c \in Nat  BY <2>5
      <4>2. CASE d \in D
        <5>1. d < c  BY <2>3, <2>5, <4>2
        <5> QED  BY <4>1, <4>2, <5>1
      <4>3. CASE d \notin D
        <5>1. c <= d  BY <2>5, <4>3
        <5> QED  BY <4>1, <4>3, <5>1
      <4> QED  BY <4>2, <4>3
    <3> QED  BY <2>5, <3>1 DEF UpTo
  <2>7. IsFiniteSet(D)  BY FS_Subset
  <2>8. Cardinality(D \cup {c}) = k + 1  BY <2>3, <2>5, <2>7, FS_AddElement
  <2> QED  BY <2>6, <2>8
<1> HIDE DEF P
<1>4. \A k \in Nat : k \in P  BY <1>2, <1>3, NatSetInduction
<1> QED  BY <1>1, <1>4 DEF P

\* Sets of calls are finite.
LEMMA CallsFinite ==
  ASSUME NEW S \in SUBSET Calls
  PROVE  IsFiniteSet(S) /\ S \subseteq Nat
<1>1. Calls \subseteq Nat /\ IsFiniteSet(Calls)
  BY BoundsAssumption, FS_Interval DEF Calls
<1> QED  BY <1>1, FS_Subset

\* The list is made of the set's calls, one position for each.
LEMMA InOrderTyped ==
  ASSUME NEW S \in SUBSET Calls
  PROVE  /\ InOrder(S) \in Seq(S) /\ Len(InOrder(S)) = Cardinality(S)
         /\ Cardinality(S) \in Nat /\ \A k \in 1 .. Cardinality(S) : InOrder(S)[k] \in S
<1>1. IsFiniteSet(S) /\ S \subseteq Nat  BY CallsFinite
<1>2. Cardinality(S) \in Nat  BY <1>1, RankExists
<1>3. ASSUME NEW k \in 1 .. Cardinality(S)
      PROVE  (CHOOSE c \in S : Cardinality({d \in S : d <= c}) = k) \in S
  <2>1. \E c \in S : Cardinality({d \in S : d <= c}) = k  BY <1>1, RankExists DEF UpTo
  <2> QED  BY <2>1
<1>4. InOrder(S) \in [1 .. Cardinality(S) -> S]  BY <1>3 DEF InOrder
<1> HIDE DEF InOrder
<1> QED  BY <1>2, <1>4, SeqDef

\* The list of an interval is the interval.
LEMMA InOrderInterval ==
  ASSUME NEW lo \in Nat, NEW hi \in Nat, lo <= hi + 1
  PROVE  /\ Cardinality(lo .. hi) = hi + 1 - lo
         /\ InOrder(lo .. hi) = [k \in 1 .. hi + 1 - lo |-> lo + k - 1]
<1> DEFINE S == lo .. hi
           n == hi + 1 - lo
<1>1. Cardinality(S) = n /\ n \in Nat  BY FS_Interval
<1>2. ASSUME NEW c \in S PROVE Cardinality({d \in S : d <= c}) = c + 1 - lo
  <2>1. {d \in S : d <= c} = lo .. c  OBVIOUS
  <2>2. lo \in Int /\ c \in Int /\ lo <= c  OBVIOUS
  <2>3. Cardinality(lo .. c) = c - lo + 1  BY <2>2, FS_Interval
  <2>4. c - lo + 1 = c + 1 - lo  BY <2>2
  <2> HIDE DEF S
  <2> QED  BY <2>1, <2>3, <2>4
<1>3. ASSUME NEW k \in 1 .. n
      PROVE  (CHOOSE c \in S : Cardinality({d \in S : d <= c}) = k) = lo + k - 1
  <2>1. lo + k - 1 \in S  OBVIOUS
  <2>2. \A c \in S : Cardinality({d \in S : d <= c}) = k <=> c = lo + k - 1
    BY <1>2
  <2> HIDE DEF S
  <2> QED  BY <2>1, <2>2
<1> QED  BY <1>1, <1>3 DEF InOrder

-----------------------------------------------------------------------------
(***************************************************************************)
(* repair_messages, one record at a time.                                  *)
(***************************************************************************)
\* A message list and the same list with one more record.
LEMMA OneMore ==
  ASSUME NEW m \in Seq(Message), NEW x \in Message
  PROVE  /\ Append(m, x) \in Seq(Message) /\ Len(Append(m, x)) = Len(m) + 1 /\ Len(m) \in Nat
         /\ DOMAIN Append(m, x) = 1 .. Len(m) + 1 /\ DOMAIN m = 1 .. Len(m)
         /\ Append(m, x)[Len(m) + 1] = x /\ \A i \in 1 .. Len(m) : Append(m, x)[i] = m[i]
         /\ \A i \in 1 .. Len(m) : m[i] \in Message
OBVIOUS

\* The kinds of message, and their fields.
LEMMA MessageKinds ==
  ASSUME NEW x \in Message
  PROVE  /\ x.role \in {"user", "assistant", "tool"}
         /\ x.role = "user" => x = User
         /\ x.role = "assistant" => x.calls \in SUBSET Calls /\ x = Assistant(x.calls)
         /\ x.role = "tool" => x.id \in Calls /\ x.ans \in Answer /\ x = Tool(x.id, x.ans)
BY DEF Message, User, Assistant, Tool

\* What a record placed before message i stays placed when more records follow.
LEMMA PlacedStable ==
  ASSUME NEW m \in Seq(Message), NEW x \in Message
  PROVE  /\ \A i \in 1 .. Len(m) : Placed(Append(m, x), i) = Placed(m, i)
         /\ Placed(Append(m, x), Len(m) + 1) = Asked(m) \cup Answered(m)
<1> DEFINE n == Append(m, x)
<1>1. n \in Seq(Message) /\ Len(n) = Len(m) + 1 /\ \A i \in 1 .. Len(m) : n[i] = m[i]
  BY OneMore
<1>2. ASSUME NEW i \in 1 .. Len(m) PROVE SubSeq(n, 1, i - 1) = SubSeq(m, 1, i - 1)
  BY <1>1
<1> DEFINE j == Len(m) + 1
<1>3. SubSeq(n, 1, j - 1) = m
  BY <1>1
<1> HIDE DEF j
<1> HIDE DEF n
<1>4. ASSUME NEW i \in 1 .. Len(m) PROVE Placed(n, i) = Placed(m, i)
  BY <1>2, Zenon DEF Placed
<1>5. Placed(n, j) = Asked(m) \cup Answered(m)
  BY <1>3, Zenon DEF Placed
<1> QED  BY <1>4, <1>5 DEF n, j

\* What is asked for or answered are calls.
LEMMA AskedTyped ==
  ASSUME NEW m \in Seq(Message)
  PROVE  Asked(m) \subseteq Calls /\ Answered(m) \subseteq Calls
BY MessageKinds DEF Asked, Answered

\* Only calls are placed.
LEMMA PlacedTyped ==
  ASSUME NEW m \in Seq(Message), NEW i \in 1 .. Len(m)
  PROVE  Placed(m, i) \subseteq Calls
<1>1. SubSeq(m, 1, i - 1) \in Seq(Message)  OBVIOUS
<1> QED  BY <1>1, AskedTyped DEF Placed

\* An answered call has a first answer.
LEMMA FirstAnswer ==
  ASSUME NEW m \in Seq(Message), NEW c \in Calls, c \in Answered(m)
  PROVE  \E i \in ToolAt(m, c) : /\ AnswerTo(m, c) = m[i] /\ i \in 1 .. Len(m)
                                 /\ \A j \in ToolAt(m, c) : i <= j
<1>1. ToolAt(m, c) # {} /\ ToolAt(m, c) \subseteq 1 .. Len(m) /\ 1 .. Len(m) \subseteq Nat
  BY DEF Answered, ToolAt
<1>2. \E i \in ToolAt(m, c) : \A j \in ToolAt(m, c) : i <= j
  BY <1>1, LeastNatural
<1> DEFINE i == CHOOSE i \in ToolAt(m, c) : \A j \in ToolAt(m, c) : i <= j
<1>3. i \in ToolAt(m, c) /\ \A j \in ToolAt(m, c) : i <= j  BY <1>2
<1>4. AnswerTo(m, c) = m[i]  BY DEF AnswerTo
<1> HIDE DEF i
<1> QED  BY <1>1, <1>3, <1>4

\* An answer is a tool message of its call: a record, or a cancellation.
LEMMA AnswerToTyped ==
  ASSUME NEW m \in Seq(Message), NEW c \in Calls
  PROVE  /\ AnswerTo(m, c) \in Message /\ AnswerTo(m, c).role = "tool" /\ AnswerTo(m, c).id = c
         /\ c \notin Answered(m) => AnswerTo(m, c) = Tool(c, "cancel")
<1>1. CASE c \in Answered(m)
  <2>1. PICK i \in ToolAt(m, c) : AnswerTo(m, c) = m[i]  BY <1>1, FirstAnswer
  <2>2. m[i] \in Message /\ m[i].role = "tool" /\ m[i].id = c  BY DEF ToolAt
  <2> QED  BY <1>1, <2>1, <2>2
<1>2. CASE c \notin Answered(m)
  <2>1. AnswerTo(m, c) = Tool(c, "cancel")  BY <1>2 DEF AnswerTo
  <2>2. Tool(c, "cancel") \in Message  BY RecordsAreMessages DEF Answer
  <2>3. Tool(c, "cancel").role = "tool" /\ Tool(c, "cancel").id = c  BY DEF Tool
  <2> QED  BY <2>1, <2>2, <2>3
<1> QED  BY <1>1, <1>2

\* A later record changes the answer of no call but an unanswered one's.
LEMMA AnswerToStable ==
  ASSUME NEW m \in Seq(Message), NEW x \in Message, NEW c \in Calls,
         c \in Answered(m) \/ x.role # "tool" \/ x.id # c
  PROVE  AnswerTo(Append(m, x), c) = AnswerTo(m, c)
<1> DEFINE n == Append(m, x)
<1>1. /\ n \in Seq(Message) /\ Len(n) = Len(m) + 1 /\ Len(m) \in Nat /\ n[Len(m) + 1] = x
      /\ \A i \in 1 .. Len(m) : n[i] = m[i]
      /\ DOMAIN n = 1 .. Len(m) + 1 /\ DOMAIN m = 1 .. Len(m)
  BY OneMore
<1> HIDE DEF n
<1>2. ToolAt(m, c) \subseteq ToolAt(n, c) /\ ToolAt(n, c) \subseteq ToolAt(m, c) \cup {Len(m) + 1}
  BY <1>1 DEF ToolAt
<1>3. CASE c \in Answered(m)
  <2>1. PICK i \in ToolAt(m, c) : /\ AnswerTo(m, c) = m[i] /\ i \in 1 .. Len(m)
                                  /\ \A j \in ToolAt(m, c) : i <= j
    BY <1>3, FirstAnswer
  <2>2. c \in Answered(n)  BY <1>2, <2>1 DEF Answered
  <2>3. PICK k \in ToolAt(n, c) : /\ AnswerTo(n, c) = n[k] /\ k \in 1 .. Len(n)
                                  /\ \A j \in ToolAt(n, c) : k <= j
    BY <1>1, <2>2, FirstAnswer
  <2>4. k <= i  BY <1>2, <2>3
  <2>5. k \in ToolAt(m, c)  BY <1>1, <1>2, <2>1, <2>3, <2>4
  <2>6. k = i  BY <1>1, <2>1, <2>3, <2>4, <2>5
  <2> QED  BY <1>1, <2>1, <2>3, <2>6 DEF n
<1>4. CASE c \notin Answered(m)
  <2>1. ToolAt(m, c) = {}  BY <1>4 DEF Answered
  <2>2. Len(m) + 1 \notin ToolAt(n, c)  BY <1>1, <1>4 DEF ToolAt
  <2>3. c \notin Answered(n)  BY <1>2, <2>1, <2>2 DEF Answered
  <2> QED  BY <1>4, <2>3 DEF AnswerTo, n
<1> QED  BY <1>3, <1>4

\* The first answer a call gets is the one it keeps.
LEMMA AnswerToNew ==
  ASSUME NEW m \in Seq(Message), NEW c \in Calls, NEW a \in Answer, c \notin Answered(m)
  PROVE  AnswerTo(Append(m, Tool(c, a)), c) = Tool(c, a)
<1> DEFINE x == Tool(c, a)
           n == Append(m, x)
<1>1. x \in Message /\ x.role = "tool" /\ x.id = c
  BY RecordsAreMessages DEF Tool
<1> HIDE DEF x
<1>2. /\ n \in Seq(Message) /\ Len(n) = Len(m) + 1 /\ Len(m) \in Nat /\ n[Len(m) + 1] = x
      /\ \A i \in 1 .. Len(m) : n[i] = m[i]
      /\ DOMAIN n = 1 .. Len(m) + 1 /\ DOMAIN m = 1 .. Len(m)
  BY <1>1, OneMore
<1> HIDE DEF n
<1>3. ToolAt(m, c) = {}  BY DEF Answered
<1>4. ToolAt(n, c) = {Len(m) + 1}  BY <1>1, <1>2, <1>3 DEF ToolAt
<1>5. c \in Answered(n)  BY <1>4 DEF Answered
<1>6. PICK i \in ToolAt(n, c) : AnswerTo(n, c) = n[i]
  BY <1>2, <1>5, FirstAnswer
<1> QED  BY <1>2, <1>4, <1>6 DEF n, x

-----------------------------------------------------------------------------
\* The answers of a set of calls, in the order of the calls.
AnswersOf(m, S) == [k \in 1 .. Cardinality(S) |-> AnswerTo(m, InOrder(S)[k])]

\* They are messages, one per call.
LEMMA AnswersOfTyped ==
  ASSUME NEW m \in Seq(Message), NEW S \in SUBSET Calls
  PROVE  /\ AnswersOf(m, S) \in Seq(Message) /\ Len(AnswersOf(m, S)) = Cardinality(S)
         /\ Cardinality(S) \in Nat
         /\ \A k \in 1 .. Cardinality(S) : InOrder(S)[k] \in S /\ AnswersOf(m, S)[k] = AnswerTo(m, InOrder(S)[k])
<1>1. Cardinality(S) \in Nat /\ \A k \in 1 .. Cardinality(S) : InOrder(S)[k] \in S
  BY InOrderTyped
<1>2. \A k \in 1 .. Cardinality(S) : AnswerTo(m, InOrder(S)[k]) \in Message
  <2> TAKE k \in 1 .. Cardinality(S)
  <2>1. InOrder(S)[k] \in Calls  BY <1>1
  <2> QED  BY <2>1, AnswerToTyped
<1> QED  BY <1>1, <1>2 DEF AnswersOf

\* repair_messages' output for one message.
LEMMA EmittedCases ==
  ASSUME NEW m \in Seq(Message), NEW i \in 1 .. Len(m)
  PROVE  /\ m[i] \in Message
         /\ m[i].role = "assistant" =>
              Emitted(m, i) = <<m[i]>> \o AnswersOf(m, m[i].calls \ Placed(m, i))
         /\ m[i].role = "tool" =>
              Emitted(m, i) = IF m[i].id \in Placed(m, i) THEN <<>> ELSE <<m[i]>>
         /\ m[i].role = "user" => Emitted(m, i) = <<m[i]>>
<1>1. m[i] \in Message  OBVIOUS
<1>2. ASSUME m[i].role = "assistant"
      PROVE  Emitted(m, i) = <<m[i]>> \o AnswersOf(m, m[i].calls \ Placed(m, i))
  BY <1>2, Zenon DEF Emitted, AnswersOf
<1>3. ASSUME m[i].role = "tool"
      PROVE  Emitted(m, i) = IF m[i].id \in Placed(m, i) THEN <<>> ELSE <<m[i]>>
  <2>1. m[i].role # "assistant"  BY <1>3
  <2> QED  BY <1>3, <2>1 DEF Emitted
<1>4. ASSUME m[i].role = "user" PROVE Emitted(m, i) = <<m[i]>>
  <2>1. m[i].role # "assistant" /\ m[i].role # "tool"  BY <1>4
  <2> QED  BY <2>1 DEF Emitted
<1> QED  BY <1>1, <1>2, <1>3, <1>4

\* What repair emits for a message is a list of messages.
LEMMA EmittedTyped ==
  ASSUME NEW m \in Seq(Message), NEW i \in 1 .. Len(m)
  PROVE  /\ Emitted(m, i) \in Seq(Message)
         /\ \A k \in DOMAIN Emitted(m, i) :
              Emitted(m, i)[k].role = "tool" => Emitted(m, i)[k].id \in Asked(m) \cup Answered(m)
<1>1. m[i] \in Message  OBVIOUS
<1>2. CASE m[i].role = "assistant"
  <2> DEFINE S == m[i].calls \ Placed(m, i)
             s == AnswersOf(m, S)
  <2>1. S \in SUBSET Calls /\ S \subseteq Asked(m)
    BY <1>1, <1>2, MessageKinds DEF Asked
  <2> HIDE DEF S
  <2>2. /\ s \in Seq(Message) /\ Len(s) = Cardinality(S) /\ Cardinality(S) \in Nat
        /\ \A k \in 1 .. Cardinality(S) : InOrder(S)[k] \in S /\ s[k] = AnswerTo(m, InOrder(S)[k])
    BY <2>1, AnswersOfTyped
  <2>3. \A k \in 1 .. Len(s) : s[k].id \in Asked(m)
    <3> TAKE k \in 1 .. Len(s)
    <3>1. InOrder(S)[k] \in Calls /\ InOrder(S)[k] \in Asked(m)  BY <2>1, <2>2
    <3>2. AnswerTo(m, InOrder(S)[k]).id = InOrder(S)[k]  BY <3>1, AnswerToTyped
    <3> QED  BY <2>2, <3>1, <3>2
  <2>4. Emitted(m, i) = <<m[i]>> \o s  BY <1>2, EmittedCases DEF S
  <2> HIDE DEF s
  <2> DEFINE e == <<m[i]>> \o s
  <2>5. /\ e \in Seq(Message) /\ DOMAIN e = 1 .. 1 + Len(s) /\ Len(s) \in Nat
        /\ e[1] = m[i] /\ \A k \in 2 .. 1 + Len(s) : e[k] = s[k - 1]
    BY <1>1, <2>2, <2>3
  <2> HIDE DEF e
  <2>6. \A k \in DOMAIN e : e[k].role = "tool" => e[k].id \in Asked(m)
    <3> TAKE k \in DOMAIN e
    <3>1. CASE k = 1
      BY <1>2, <2>5, <3>1
    <3>2. CASE k # 1
      <4>1. k \in 2 .. 1 + Len(s) /\ k - 1 \in 1 .. Len(s)  BY <2>5, <3>2
      <4> QED  BY <2>3, <2>5, <4>1
    <3> QED  BY <3>1, <3>2
  <2> QED  BY <2>4, <2>5, <2>6 DEF e
<1>3. CASE m[i].role = "tool"
  <2>1. m[i].id \in Answered(m)
    BY <1>1, <1>3, MessageKinds DEF Answered, ToolAt
  <2> DEFINE e == Emitted(m, i)
  <2>2. e \in {<<>>, <<m[i]>>}  BY <1>3, EmittedCases
  <2> HIDE DEF e
  <2>3. CASE e = <<>>
    <3>1. e \in Seq(Message) /\ DOMAIN e = {}  BY <2>3
    <3> QED  BY <3>1 DEF e
  <2>4. CASE e = <<m[i]>>
    <3>1. e \in Seq(Message) /\ \A k \in DOMAIN e : e[k] = m[i]  BY <1>1, <2>4
    <3> QED  BY <2>1, <3>1 DEF e
  <2> QED  BY <2>2, <2>3, <2>4
<1>4. CASE m[i].role = "user"
  <2> DEFINE e == Emitted(m, i)
  <2>1. e = <<m[i]>>  BY <1>4, EmittedCases
  <2> HIDE DEF e
  <2>2. e \in Seq(Message) /\ \A k \in DOMAIN e : e[k] = m[i]  BY <1>1, <2>1
  <2> QED  BY <1>4, <2>2 DEF e
<1> QED  BY <1>1, <1>2, <1>3, <1>4, MessageKinds

\* The message list repair_messages builds, before it is concatenated.
Chunks(m) == [i \in DOMAIN m |-> Emitted(m, i)]

\* Repair concatenates lists of messages.
LEMMA ChunksTyped ==
  ASSUME NEW m \in Seq(Message)
  PROVE  /\ Chunks(m) \in Seq(Seq(Message)) /\ Len(Chunks(m)) = Len(m) /\ DOMAIN Chunks(m) = 1 .. Len(m)
         /\ \A i \in 1 .. Len(m) : Chunks(m)[i] = Emitted(m, i)
         /\ Repair(m) = FlattenSeq(Chunks(m))
<1>1. \A i \in 1 .. Len(m) : Emitted(m, i) \in Seq(Message)  BY EmittedTyped
<1> QED  BY <1>1 DEF Chunks, Repair

\* Its result is a message list, with answers to recorded calls only.
LEMMA RepairTyped ==
  ASSUME NEW m \in Seq(Message)
  PROVE  Repair(m) \in Seq(Message) /\ Answered(Repair(m)) \subseteq Asked(m) \cup Answered(m)
<1>1. /\ Chunks(m) \in Seq(Seq(Message)) /\ DOMAIN Chunks(m) = 1 .. Len(m)
      /\ \A i \in 1 .. Len(m) : Chunks(m)[i] = Emitted(m, i)
      /\ Repair(m) = FlattenSeq(Chunks(m))
  BY ChunksTyped
<1>2. /\ FlattenSeq(Chunks(m)) \in Seq(Message)
      /\ \A k \in DOMAIN FlattenSeq(Chunks(m)) :
           \E i \in DOMAIN Chunks(m) : \E j \in DOMAIN Chunks(m)[i] : FlattenSeq(Chunks(m))[k] = Chunks(m)[i][j]
  BY <1>1, FlattenParts
<1>3. ASSUME NEW k \in DOMAIN Repair(m), Repair(m)[k].role = "tool"
      PROVE  Repair(m)[k].id \in Asked(m) \cup Answered(m)
  <2>1. PICK i \in 1 .. Len(m) : \E j \in DOMAIN Emitted(m, i) : Repair(m)[k] = Emitted(m, i)[j]
    BY <1>1, <1>2
  <2> QED  BY <1>3, <2>1, EmittedTyped
<1> QED  BY <1>1, <1>2, <1>3 DEF Answered, ToolAt

-----------------------------------------------------------------------------
\* A record other than a call's first answer changes no answer; neither does
\* the cancellation repair would have put there itself.
Quiet(m, x) == x.role = "tool" => x.id \in Answered(m) \/ x.ans = "cancel"

\* A quiet record changes no recorded answer.
LEMMA QuietAnswers ==
  ASSUME NEW m \in Seq(Message), NEW x \in Message, Quiet(m, x), NEW c \in Calls
  PROVE  AnswerTo(Append(m, x), c) = AnswerTo(m, c)
<1>1. CASE c \in Answered(m) \/ x.role # "tool" \/ x.id # c
  BY <1>1, AnswerToStable
<1>2. CASE c \notin Answered(m) /\ x.role = "tool" /\ x.id = c
  <2>1. x = Tool(c, "cancel") /\ "cancel" \in Answer  BY <1>2, MessageKinds DEF Quiet, Answer
  <2>2. AnswerTo(Append(m, x), c) = Tool(c, "cancel")  BY <1>2, <2>1, AnswerToNew
  <2>3. AnswerTo(m, c) = Tool(c, "cancel")  BY <1>2, AnswerToTyped
  <2> QED  BY <2>2, <2>3
<1> QED  BY <1>1, <1>2

\* Such a record leaves what repair makes of the earlier ones alone.
LEMMA EmittedStable ==
  ASSUME NEW m \in Seq(Message), NEW x \in Message, Quiet(m, x), NEW i \in 1 .. Len(m)
  PROVE  Emitted(Append(m, x), i) = Emitted(m, i)
<1> DEFINE n == Append(m, x)
<1>1. n \in Seq(Message) /\ i \in 1 .. Len(n) /\ n[i] = m[i] /\ m[i] \in Message
  BY OneMore
<1>2. Placed(n, i) = Placed(m, i)  BY PlacedStable
<1>3. \A c \in Calls : AnswerTo(n, c) = AnswerTo(m, c)  BY QuietAnswers
<1> HIDE DEF n
<1>4. CASE m[i].role = "assistant"
  <2> DEFINE S == m[i].calls \ Placed(m, i)
  <2>1. S \in SUBSET Calls  BY <1>1, <1>4, MessageKinds
  <2> HIDE DEF S
  <2>2. \A k \in 1 .. Cardinality(S) : AnswerTo(n, InOrder(S)[k]) = AnswerTo(m, InOrder(S)[k])
    <3> TAKE k \in 1 .. Cardinality(S)
    <3>1. InOrder(S)[k] \in Calls  BY <2>1, InOrderTyped
    <3> QED  BY <1>3, <3>1
  <2>3. AnswersOf(n, S) = AnswersOf(m, S)  BY <2>2 DEF AnswersOf
  <2>4. Emitted(m, i) = <<m[i]>> \o AnswersOf(m, S)  BY <1>4, EmittedCases DEF S
  <2>5. Emitted(n, i) = <<n[i]>> \o AnswersOf(n, n[i].calls \ Placed(n, i))
    BY <1>1, <1>4, EmittedCases
  <2> QED  BY <1>1, <1>2, <2>3, <2>4, <2>5 DEF S, n
<1>5. CASE m[i].role = "tool"
  <2>1. Emitted(m, i) = IF m[i].id \in Placed(m, i) THEN <<>> ELSE <<m[i]>>
    BY <1>5, EmittedCases
  <2>2. Emitted(n, i) = IF n[i].id \in Placed(n, i) THEN <<>> ELSE <<n[i]>>
    BY <1>1, <1>5, EmittedCases
  <2> QED  BY <1>1, <1>2, <2>1, <2>2 DEF n
<1>6. CASE m[i].role = "user"
  <2>1. Emitted(m, i) = <<m[i]>> /\ Emitted(n, i) = <<n[i]>>
    BY <1>1, <1>6, EmittedCases
  <2> QED  BY <1>1, <2>1 DEF n
<1> QED  BY <1>1, <1>4, <1>5, <1>6, MessageKinds

\* The parts of the list with one more record.
LEMMA ChunksAppend ==
  ASSUME NEW m \in Seq(Message), NEW x \in Message
  PROVE  LET n == Append(m, x)
             e == [i \in 1 .. Len(m) |-> Emitted(n, i)]
         IN  /\ e \in Seq(Seq(Message)) /\ Emitted(n, Len(m) + 1) \in Seq(Message)
             /\ Repair(n) = FlattenSeq(e) \o Emitted(n, Len(m) + 1)
<1> DEFINE n == Append(m, x)
           e == [i \in 1 .. Len(m) |-> Emitted(n, i)]
           z == Emitted(n, Len(m) + 1)
<1>1. n \in Seq(Message) /\ Len(n) = Len(m) + 1 /\ Len(m) \in Nat
  BY OneMore
<1> HIDE DEF n
<1>2. \A i \in 1 .. Len(m) + 1 : Emitted(n, i) \in Seq(Message)
  BY <1>1, EmittedTyped
<1>3. e \in Seq(Seq(Message)) /\ Len(e) = Len(m) /\ \A i \in 1 .. Len(m) : e[i] = Emitted(n, i)
  BY <1>1, <1>2
<1>4. z \in Seq(Message)  BY <1>1, <1>2
<1>5. /\ Chunks(n) \in Seq(Seq(Message)) /\ Len(Chunks(n)) = Len(m) + 1
      /\ \A i \in 1 .. Len(m) + 1 : Chunks(n)[i] = Emitted(n, i)
      /\ Repair(n) = FlattenSeq(Chunks(n))
  BY <1>1, ChunksTyped
<1> HIDE DEF e
<1>6. Chunks(n) = Append(e, z)
  <2> DEFINE C == Chunks(n)
             D == Append(e, z)
  <2>1. D \in Seq(Seq(Message)) /\ Len(D) = Len(m) + 1  BY <1>3, <1>4
  <2>2. \A i \in 1 .. Len(m) + 1 : C[i] = D[i]  BY <1>1, <1>3, <1>4, <1>5
  <2>3. C \in Seq(Seq(Message)) /\ Len(C) = Len(m) + 1  BY <1>5
  <2> HIDE DEF C, D
  <2>4. C = D  BY <2>1, <2>2, <2>3, SeqEqual
  <2> QED  BY <2>4 DEF C, D
<1> HIDE DEF z
<1>7. FlattenSeq(Append(e, z)) = FlattenSeq(e) \o z  BY <1>3, <1>4, FlattenAppend
<1> QED  BY <1>3, <1>4, <1>5, <1>6, <1>7 DEF n, e, z

\* So repair of a list with a quiet record is repair of the list, and the part
\* of the record.
LEMMA RepairAppend ==
  ASSUME NEW m \in Seq(Message), NEW x \in Message, Quiet(m, x)
  PROVE  Repair(Append(m, x)) = Repair(m) \o Emitted(Append(m, x), Len(m) + 1)
<1> DEFINE n == Append(m, x)
           e == [i \in 1 .. Len(m) |-> Emitted(n, i)]
<1>1. Repair(n) = FlattenSeq(e) \o Emitted(n, Len(m) + 1)  BY ChunksAppend, Zenon
<1>2. \A i \in 1 .. Len(m) : Emitted(n, i) = Emitted(m, i)  BY EmittedStable
<1>3. e = [i \in 1 .. Len(m) |-> Emitted(m, i)]
  <2> HIDE DEF n
  <2> QED  BY <1>2
<1>4. DOMAIN m = 1 .. Len(m)  OBVIOUS
<1>5. Repair(m) = FlattenSeq(e)  BY <1>3, <1>4, Zenon DEF Repair
<1> QED  BY <1>1, <1>5

\* The part of the last record.
LEMMA LastChunk ==
  ASSUME NEW m \in Seq(Message), NEW x \in Message
  PROVE  LET e == Emitted(Append(m, x), Len(m) + 1)
             old == Asked(m) \cup Answered(m)
         IN  /\ x.role = "user" => e = <<x>>
             /\ x.role = "tool" /\ x.id \in old => e = <<>>
             /\ x.role = "assistant" /\ x.calls \cap old = {} =>
                  e = <<x>> \o [k \in 1 .. Cardinality(x.calls) |-> Tool(InOrder(x.calls)[k], "cancel")]
<1> DEFINE n == Append(m, x)
           j == Len(m) + 1
           e == Emitted(n, j)
           old == Asked(m) \cup Answered(m)
<1>1. n \in Seq(Message) /\ j \in 1 .. Len(n) /\ n[j] = x /\ Placed(n, j) = old
  BY OneMore, PlacedStable
<1>2. ASSUME NEW c \in Calls, c \notin old, x.role = "assistant"
      PROVE  AnswerTo(n, c) = Tool(c, "cancel")
  <2>1. AnswerTo(n, c) = AnswerTo(m, c)  BY <1>2, AnswerToStable
  <2>2. AnswerTo(m, c) = Tool(c, "cancel")  BY <1>2, AnswerToTyped
  <2> QED  BY <2>1, <2>2
<1> HIDE DEF n, j, old
<1>3. ASSUME x.role = "user" PROVE e = <<x>>
  BY <1>1, <1>3, EmittedCases
<1>4. ASSUME x.role = "tool", x.id \in old PROVE e = <<>>
  BY <1>1, <1>4, EmittedCases
<1>5. ASSUME x.role = "assistant", x.calls \cap old = {}
      PROVE  e = <<x>> \o [k \in 1 .. Cardinality(x.calls) |-> Tool(InOrder(x.calls)[k], "cancel")]
  <2> DEFINE S == x.calls
  <2>1. S \in SUBSET Calls /\ S \ old = S  BY <1>5, MessageKinds
  <2>2. e = <<x>> \o AnswersOf(n, S \ old)  BY <1>1, <1>5, EmittedCases
  <2>3. \A k \in 1 .. Cardinality(S) : AnswerTo(n, InOrder(S)[k]) = Tool(InOrder(S)[k], "cancel")
    <3> TAKE k \in 1 .. Cardinality(S)
    <3>1. InOrder(S)[k] \in S /\ S \subseteq Calls  BY <2>1, InOrderTyped
    <3>2. InOrder(S)[k] \in Calls /\ InOrder(S)[k] \notin old  BY <1>5, <3>1
    <3> QED  BY <1>2, <1>5, <3>2
  <2> HIDE DEF S
  <2>4. AnswersOf(n, S) = [k \in 1 .. Cardinality(S) |-> Tool(InOrder(S)[k], "cancel")]
    BY <2>3, Zenon DEF AnswersOf
  <2> QED  BY <2>1, <2>2, <2>4 DEF S
<1> QED  BY <1>3, <1>4, <1>5 DEF n, j, old

-----------------------------------------------------------------------------
\* A user record passes through repair.
LEMMA RepairUser ==
  ASSUME NEW m \in Seq(Message)
  PROVE  Repair(Append(m, User)) = Append(Repair(m), User)
<1>1. User \in Message /\ User.role = "user"  BY RecordsAreMessages DEF User
<1>2. Quiet(m, User)  BY <1>1 DEF Quiet
<1>3. Emitted(Append(m, User), Len(m) + 1) = <<User>>  BY <1>1, LastChunk
<1>4. Repair(Append(m, User)) = Repair(m) \o <<User>>  BY <1>1, <1>2, <1>3, RepairAppend
<1>5. Repair(m) \in Seq(Message)  BY RepairTyped
<1> HIDE DEF User
<1> QED  BY <1>1, <1>4, <1>5

\* A late cancellation, of a call that was asked for, changes nothing.
LEMMA RepairCancel ==
  ASSUME NEW m \in Seq(Message), NEW c \in Asked(m)
  PROVE  Repair(Append(m, Tool(c, "cancel"))) = Repair(m)
<1> DEFINE x == Tool(c, "cancel")
<1>1. x \in Message /\ x.role = "tool" /\ x.id = c /\ x.ans = "cancel"
  BY RecordsAreMessages, AskedTyped DEF Tool, Answer
<1> HIDE DEF x
<1>2. Quiet(m, x)  BY <1>1 DEF Quiet
<1>3. Emitted(Append(m, x), Len(m) + 1) = <<>>  BY <1>1, LastChunk
<1>4. Repair(Append(m, x)) = Repair(m) \o <<>>  BY <1>1, <1>2, <1>3, RepairAppend
<1>5. Repair(m) \in Seq(Message)  BY RepairTyped
<1> QED  BY <1>4, <1>5, ConcatEmptySeq DEF x

\* An assistant that asks for new calls: their cancellations follow it.
Cancels(lo, hi) == [k \in 1 .. hi + 1 - lo |-> Tool(lo + k - 1, "cancel")]

\* A new assistant's calls are all cancelled when it is the last record.
LEMMA RepairAssistant ==
  ASSUME NEW m \in Seq(Message), NEW lo \in Nat, NEW hi \in Nat, lo <= hi + 1,
         lo .. hi \subseteq Calls, (lo .. hi) \cap (Asked(m) \cup Answered(m)) = {}
  PROVE  Repair(Append(m, Assistant(lo .. hi))) = Append(Repair(m), Assistant(lo .. hi)) \o Cancels(lo, hi)
<1> DEFINE S == lo .. hi
           x == Assistant(S)
<1>1. x \in Message /\ x.role = "assistant" /\ x.calls = S
  BY RecordsAreMessages DEF Assistant
<1> HIDE DEF x
<1>2. Quiet(m, x)  BY <1>1 DEF Quiet
<1>3. /\ Cardinality(S) = hi + 1 - lo
      /\ \A k \in 1 .. hi + 1 - lo : InOrder(S)[k] = lo + k - 1
  <2> DEFINE N == hi + 1 - lo
  <2>1. Cardinality(S) = N /\ InOrder(S) = [k \in 1 .. N |-> lo + k - 1]
    BY InOrderInterval
  <2> HIDE DEF S, N
  <2>2. \A k \in 1 .. N : InOrder(S)[k] = lo + k - 1  BY <2>1
  <2> QED  BY <2>1, <2>2 DEF N
<1> HIDE DEF S
<1>4. Emitted(Append(m, x), Len(m) + 1) =
        <<x>> \o [k \in 1 .. Cardinality(x.calls) |-> Tool(InOrder(x.calls)[k], "cancel")]
  <2>1. x.calls \cap (Asked(m) \cup Answered(m)) = {}  BY <1>1 DEF S
  <2> QED  BY <1>1, <2>1, LastChunk
<1>5. [k \in 1 .. Cardinality(x.calls) |-> Tool(InOrder(x.calls)[k], "cancel")] = Cancels(lo, hi)
  BY <1>1, <1>3 DEF Cancels
<1>6. Repair(Append(m, x)) = Repair(m) \o (<<x>> \o Cancels(lo, hi))
  BY <1>1, <1>2, <1>4, <1>5, RepairAppend
<1>7. Repair(m) \in Seq(Message)  BY RepairTyped
<1>8. Cancels(lo, hi) \in Seq(Message)
  <2>1. \A k \in 1 .. hi + 1 - lo : lo + k - 1 \in Calls  OBVIOUS
  <2>2. \A k \in 1 .. hi + 1 - lo : Tool(lo + k - 1, "cancel") \in Message
    BY <2>1, RecordsAreMessages DEF Answer
  <2> QED  BY <2>2 DEF Cancels
<1>9. \A u, v \in Seq(Message) : u \o (<<x>> \o v) = Append(u, x) \o v
  BY <1>1
<1> QED  BY <1>6, <1>7, <1>8, <1>9 DEF x, S

-----------------------------------------------------------------------------
\* The elements of two message lists put together.
LEMMA ConcatAt ==
  ASSUME NEW s \in Seq(Message), NEW t \in Seq(Message), NEW u, u = s \o t
  PROVE  /\ u \in Seq(Message) /\ Len(u) = Len(s) + Len(t) /\ Len(s) \in Nat /\ Len(t) \in Nat
         /\ \A k \in 1 .. Len(s) : u[k] = s[k]
         /\ \A k \in 1 .. Len(t) : u[Len(s) + k] = t[k]
         /\ \A k \in 1 .. Len(s) + Len(t) : u[k] = IF k <= Len(s) THEN s[k] ELSE t[k - Len(s)]
<1>1. \A k \in 1 .. Len(s) + Len(t) : u[k] = IF k <= Len(s) THEN s[k] ELSE t[k - Len(s)]
  BY ConcatProperties
<1>2. \A k \in 1 .. Len(t) : u[Len(s) + k] = t[k]
  <2> TAKE k \in 1 .. Len(t)
  <2>1. /\ Len(s) + k \in 1 .. Len(s) + Len(t) /\ ~ (Len(s) + k <= Len(s))
        /\ Len(s) + k - Len(s) = k
    BY LenProperties
  <2> QED  BY <1>1, <2>1
<1> QED  BY <1>1, <1>2, ConcatProperties, LenProperties

(***************************************************************************)
(* The answer of a call that has none: it takes the place of the           *)
(* cancellation repair had put there.                                      *)
(***************************************************************************)
Sub(s, c, a) == [k \in DOMAIN s |-> IF s[k] = Tool(c, "cancel") THEN Tool(c, a) ELSE s[k]]

\* It is a message list of the same length.
LEMMA SubTyped ==
  ASSUME NEW s \in Seq(Message), NEW c \in Calls, NEW a \in Answer
  PROVE  /\ Sub(s, c, a) \in Seq(Message) /\ Len(Sub(s, c, a)) = Len(s)
         /\ DOMAIN Sub(s, c, a) = 1 .. Len(s) /\ DOMAIN s = 1 .. Len(s)
         /\ \A k \in 1 .. Len(s) : Sub(s, c, a)[k] = IF s[k] = Tool(c, "cancel") THEN Tool(c, a) ELSE s[k]
<1> DEFINE x == Tool(c, "cancel")
           y == Tool(c, a)
<1>1. y \in Message  BY RecordsAreMessages
<1> HIDE DEF x, y
<1>2. [k \in DOMAIN s |-> IF s[k] = x THEN y ELSE s[k]] \in Seq(Message)
  BY <1>1
<1> QED  BY <1>2 DEF Sub, x, y

\* It distributes over concatenation.
LEMMA SubConcat ==
  ASSUME NEW s \in Seq(Message), NEW t \in Seq(Message), NEW c \in Calls, NEW a \in Answer
  PROVE  Sub(s \o t, c, a) = Sub(s, c, a) \o Sub(t, c, a)
<1> DEFINE x == Tool(c, "cancel")
           y == Tool(c, a)
           st == s \o t
           us == Sub(s, c, a)
           ut == Sub(t, c, a)
           u == us \o ut
           v == Sub(st, c, a)
<1>1. /\ st \in Seq(Message) /\ Len(st) = Len(s) + Len(t) /\ Len(s) \in Nat /\ Len(t) \in Nat
      /\ \A k \in 1 .. Len(st) : st[k] = IF k <= Len(s) THEN s[k] ELSE t[k - Len(s)]
  BY ConcatAt
<1> HIDE DEF st
<1>2. /\ us \in Seq(Message) /\ Len(us) = Len(s)
      /\ \A k \in 1 .. Len(s) : us[k] = IF s[k] = x THEN y ELSE s[k]
  BY SubTyped
<1>3. /\ ut \in Seq(Message) /\ Len(ut) = Len(t)
      /\ \A k \in 1 .. Len(t) : ut[k] = IF t[k] = x THEN y ELSE t[k]
  BY SubTyped
<1>4. /\ v \in Seq(Message) /\ Len(v) = Len(st)
      /\ \A k \in 1 .. Len(st) : v[k] = IF st[k] = x THEN y ELSE st[k]
  BY <1>1, SubTyped
<1> HIDE DEF x, y, us, ut, v
<1>5. /\ u \in Seq(Message) /\ Len(u) = Len(s) + Len(t)
      /\ \A k \in 1 .. Len(st) : u[k] = IF k <= Len(s) THEN us[k] ELSE ut[k - Len(s)]
  <2>1. us \in Seq(Message) /\ ut \in Seq(Message)  BY <1>2, <1>3
  <2>2. /\ u \in Seq(Message) /\ Len(u) = Len(us) + Len(ut)
        /\ \A k \in 1 .. Len(us) + Len(ut) :
             u[k] = IF k <= Len(us) THEN us[k] ELSE ut[k - Len(us)]
    BY <2>1, ConcatAt
  <2> QED  BY <1>1, <1>2, <1>3, <2>2
<1> HIDE DEF u
<1>6. ASSUME NEW k \in 1 .. Len(st) PROVE u[k] = v[k]
  <2>1. CASE k <= Len(s)
    <3>1. k \in 1 .. Len(s)  BY <1>1, <2>1
    <3> QED  BY <1>1, <1>2, <1>4, <1>5, <2>1, <3>1
  <2>2. CASE ~ (k <= Len(s))
    <3>1. k - Len(s) \in 1 .. Len(t)  BY <1>1, <2>2
    <3> QED  BY <1>1, <1>3, <1>4, <1>5, <2>2, <3>1
  <2> QED  BY <2>1, <2>2
<1>7. u = v  BY <1>1, <1>4, <1>5, <1>6, SeqEqual
<1> QED  BY <1>7 DEF u, v, us, ut, st

\* And so over the concatenation of many parts.
LEMMA SubFlatten ==
  ASSUME NEW c \in Calls, NEW a \in Answer, NEW s \in Seq(Seq(Message))
  PROVE  FlattenSeq([i \in DOMAIN s |-> Sub(s[i], c, a)]) = Sub(FlattenSeq(s), c, a)
<1> DEFINE M(r) == [i \in DOMAIN r |-> Sub(r[i], c, a)]
           P == {r \in Seq(Seq(Message)) : FlattenSeq(M(r)) = Sub(FlattenSeq(r), c, a)}
<1>0. ASSUME NEW r \in Seq(Seq(Message))
      PROVE  /\ M(r) \in Seq(Seq(Message)) /\ Len(M(r)) = Len(r)
             /\ \A i \in 1 .. Len(r) : M(r)[i] = Sub(r[i], c, a)
  <2>1. DOMAIN r = 1 .. Len(r) /\ Len(r) \in Nat /\ \A i \in 1 .. Len(r) : r[i] \in Seq(Message)
    OBVIOUS
  <2>2. \A i \in 1 .. Len(r) : Sub(r[i], c, a) \in Seq(Message)  BY <2>1, SubTyped
  <2> QED  BY <2>1, <2>2
<1>1. <<>> \in P
  <2>1. <<>> \in Seq(Seq(Message)) /\ DOMAIN <<>> = {}  OBVIOUS
  <2>2. M(<<>>) = <<>>
    <3>1. M(<<>>) \in Seq(Seq(Message)) /\ Len(M(<<>>)) = 0  BY <1>0
    <3> QED  BY <3>1, EmptySeq
  <2>3. Sub(<<>>, c, a) = <<>>
    <3>1. <<>> \in Seq(Message) /\ Len(<<>>) = 0  OBVIOUS
    <3>2. Sub(<<>>, c, a) \in Seq(Message) /\ Len(Sub(<<>>, c, a)) = 0  BY <3>1, SubTyped, Zenon
    <3> QED  BY <3>2, EmptySeq
  <2>4. FlattenSeq(M(<<>>)) = Sub(FlattenSeq(<<>>), c, a)  BY <2>2, <2>3, FlattenEmpty, Zenon
  <2> QED  BY <2>1, <2>4
<1>2. ASSUME NEW r \in Seq(Seq(Message)), NEW x \in Seq(Message), r \in P PROVE Append(r, x) \in P
  <2> DEFINE q == Append(r, x)
             y == Sub(x, c, a)
  <2>1. /\ q \in Seq(Seq(Message)) /\ Len(q) = Len(r) + 1 /\ Len(r) \in Nat
        /\ q[Len(r) + 1] = x /\ \A i \in 1 .. Len(r) : q[i] = r[i]
    OBVIOUS
  <2>2. FlattenSeq(q) = FlattenSeq(r) \o x /\ FlattenSeq(r) \in Seq(Message)
    BY FlattenAppend, FlattenParts
  <2>3. y \in Seq(Message)  BY SubTyped
  <2> HIDE DEF q, y
  <2>4. M(q) = Append(M(r), y)
    <3> DEFINE u == M(q)
               w == M(r)
               v == Append(w, y)
    <3>1. w \in Seq(Seq(Message)) /\ Len(w) = Len(r) /\ \A i \in 1 .. Len(r) : w[i] = Sub(r[i], c, a)
      BY <1>0
    <3>2. /\ u \in Seq(Seq(Message)) /\ Len(u) = Len(r) + 1
          /\ \A i \in 1 .. Len(r) + 1 : u[i] = Sub(q[i], c, a)
      BY <1>0, <2>1
    <3> HIDE DEF u, w
    <3>3. v \in Seq(Seq(Message)) /\ Len(v) = Len(r) + 1 /\ \A i \in 1 .. Len(r) : v[i] = w[i]
      <4>1. \A i \in 1 .. Len(w) : v[i] = w[i]  BY <2>3, <3>1, AppendProperties
      <4>2. v \in Seq(Seq(Message)) /\ Len(v) = Len(w) + 1  BY <2>3, <3>1, AppendProperties
      <4> QED  BY <3>1, <4>1, <4>2
    <3>4. v[Len(r) + 1] = y
      <4>1. v[Len(w) + 1] = y  BY <2>3, <3>1, AppendProperties
      <4> QED  BY <3>1, <4>1
    <3> HIDE DEF v
    <3>5. \A i \in 1 .. Len(r) : u[i] = v[i]  BY <2>1, <3>1, <3>2, <3>3
    <3>6. u[Len(r) + 1] = v[Len(r) + 1]  BY <2>1, <3>2, <3>4 DEF y
    <3>7. \A i \in 1 .. Len(r) + 1 : u[i] = v[i]
      <4>1. \A i \in 1 .. Len(r) + 1 : i \in 1 .. Len(r) \/ i = Len(r) + 1  BY <2>1
      <4> QED  BY <3>5, <3>6, <4>1
    <3>8. u = v  BY <3>2, <3>3, <3>7, SeqEqual
    <3> QED  BY <3>8 DEF u, v, w
  <2>5. FlattenSeq(M(q)) = FlattenSeq(M(r)) \o y
    <3>1. M(r) \in Seq(Seq(Message))  BY <1>0
    <3> HIDE DEF M
    <3> QED  BY <2>3, <2>4, <3>1, FlattenAppend
  <2>6. Sub(FlattenSeq(r) \o x, c, a) = Sub(FlattenSeq(r), c, a) \o y
    BY <2>2, SubConcat DEF y
  <2>7. FlattenSeq(M(r)) = Sub(FlattenSeq(r), c, a)  BY <1>2
  <2>8. FlattenSeq(M(q)) = Sub(FlattenSeq(q), c, a)
    <3> HIDE DEF M
    <3> QED  BY <2>2, <2>5, <2>6, <2>7, Zenon
  <2>9. q \in P  BY <2>1, <2>8
  <2> QED  BY <2>9 DEF q
<1> HIDE DEF P
<1>3. s \in P  BY <1>1, <1>2, SeqSetInduction
<1> QED  BY <1>3 DEF P

\* What the first answer of call c changes in the part of an earlier record.
LEMMA EmittedSub ==
  ASSUME NEW m \in Seq(Message), NEW c \in Calls, NEW a \in Answer, c \notin Answered(m),
         NEW i \in 1 .. Len(m)
  PROVE  Emitted(Append(m, Tool(c, a)), i) = Sub(Emitted(m, i), c, a)
<1> DEFINE x == Tool(c, a)
           n == Append(m, x)
<1>0. x \in Message /\ x.role = "tool" /\ x.id = c
  BY RecordsAreMessages DEF Tool
<1>cancelled. Tool(c, "cancel").role = "tool" /\ Tool(c, "cancel").id = c  BY DEF Tool
<1>first. AnswerTo(n, c) = x  BY AnswerToNew
<1> HIDE DEF x
<1>1. n \in Seq(Message) /\ i \in 1 .. Len(n) /\ n[i] = m[i] /\ m[i] \in Message
  BY <1>0, OneMore
<1>2. Placed(n, i) = Placed(m, i)  BY <1>0, PlacedStable
<1>3. ASSUME NEW d \in Calls
      PROVE  AnswerTo(n, d) = IF AnswerTo(m, d) = Tool(c, "cancel") THEN x ELSE AnswerTo(m, d)
  <2>1. CASE d = c
    <3>1. AnswerTo(m, c) = Tool(c, "cancel")  BY AnswerToTyped
    <3> QED  BY <1>first, <2>1, <3>1
  <2>2. CASE d # c
    <3>1. AnswerTo(n, d) = AnswerTo(m, d)  BY <1>0, <2>2, AnswerToStable
    <3>2. AnswerTo(m, d).id = d  BY AnswerToTyped
    <3>3. AnswerTo(m, d) # Tool(c, "cancel")  BY <1>cancelled, <2>2, <3>2
    <3> QED  BY <3>1, <3>3
  <2> QED  BY <2>1, <2>2
<1>4. m[i] # Tool(c, "cancel")
  <2>1. CASE m[i].role = "tool"
    <3>1. m[i].id # c  BY <2>1 DEF Answered, ToolAt
    <3> QED  BY <1>cancelled, <3>1
  <2>2. CASE m[i].role # "tool"
    BY <1>cancelled, <2>2
  <2> QED  BY <2>1, <2>2
<1> HIDE DEF n
<1>5. Sub(<<m[i]>>, c, a) = <<m[i]>>
  <2> DEFINE s == <<m[i]>>
  <2>1. s \in Seq(Message) /\ Len(s) = 1 /\ s[1] = m[i]  BY <1>1
  <2> HIDE DEF s
  <2>2. Sub(s, c, a) \in Seq(Message) /\ Len(Sub(s, c, a)) = 1  BY <2>1, SubTyped
  <2>3. \A k \in 1 .. 1 : Sub(s, c, a)[k] = s[k]
    <3> TAKE k \in 1 .. 1
    <3>1. k = 1  OBVIOUS
    <3>2. Sub(s, c, a)[1] = IF s[1] = Tool(c, "cancel") THEN Tool(c, a) ELSE s[1]  BY <2>1, SubTyped
    <3> QED  BY <1>4, <2>1, <3>1, <3>2
  <2>4. Sub(s, c, a) = s  BY <2>1, <2>2, <2>3, SeqEqual
  <2> QED  BY <2>4 DEF s
<1>6. CASE m[i].role = "assistant"
  <2> DEFINE S == m[i].calls \ Placed(m, i)
  <2>1. S \in SUBSET Calls  BY <1>1, <1>6, MessageKinds
  <2> HIDE DEF S
  <2>2. AnswersOf(n, S) = Sub(AnswersOf(m, S), c, a)
    <3> DEFINE s == AnswersOf(m, S)
               t == AnswersOf(n, S)
    <3>1. /\ s \in Seq(Message) /\ Len(s) = Cardinality(S) /\ Cardinality(S) \in Nat
          /\ \A k \in 1 .. Cardinality(S) : InOrder(S)[k] \in S /\ s[k] = AnswerTo(m, InOrder(S)[k])
      BY <2>1, AnswersOfTyped
    <3>2. /\ t \in Seq(Message) /\ Len(t) = Cardinality(S)
          /\ \A k \in 1 .. Cardinality(S) : t[k] = AnswerTo(n, InOrder(S)[k])
      BY <1>1, <2>1, AnswersOfTyped
    <3> HIDE DEF s, t
    <3>3. /\ Sub(s, c, a) \in Seq(Message) /\ Len(Sub(s, c, a)) = Cardinality(S)
          /\ \A k \in 1 .. Cardinality(S) :
               Sub(s, c, a)[k] = IF s[k] = Tool(c, "cancel") THEN Tool(c, a) ELSE s[k]
      BY <3>1, SubTyped
    <3>4. \A k \in 1 .. Cardinality(S) : t[k] = Sub(s, c, a)[k]
      <4> TAKE k \in 1 .. Cardinality(S)
      <4>1. InOrder(S)[k] \in Calls  BY <2>1, <3>1
      <4> QED  BY <1>3, <3>1, <3>2, <3>3, <4>1 DEF x
    <3>5. t = Sub(s, c, a)  BY <3>1, <3>2, <3>3, <3>4, SeqEqual
    <3> QED  BY <3>5 DEF s, t
  <2>3. Emitted(m, i) = <<m[i]>> \o AnswersOf(m, S)  BY <1>6, EmittedCases DEF S
  <2>4. Emitted(n, i) = <<n[i]>> \o AnswersOf(n, n[i].calls \ Placed(n, i))
    BY <1>1, <1>6, EmittedCases
  <2>5. Emitted(n, i) = <<m[i]>> \o AnswersOf(n, S)  BY <1>1, <1>2, <2>4 DEF S
  <2>6. AnswersOf(m, S) \in Seq(Message) /\ <<m[i]>> \in Seq(Message)  BY <1>1, <2>1, AnswersOfTyped
  <2>7. Sub(<<m[i]>> \o AnswersOf(m, S), c, a) = Sub(<<m[i]>>, c, a) \o Sub(AnswersOf(m, S), c, a)
    <3> DEFINE s == <<m[i]>>
               t == AnswersOf(m, S)
    <3> HIDE DEF s, t
    <3>1. s \in Seq(Message) /\ t \in Seq(Message)  BY <2>6 DEF s, t
    <3>2. Sub(s \o t, c, a) = Sub(s, c, a) \o Sub(t, c, a)  BY <3>1, SubConcat
    <3> QED  BY <3>2 DEF s, t
  <2> QED  BY <1>5, <2>2, <2>3, <2>5, <2>7 DEF n, x
<1>7. CASE m[i].role = "tool"
  <2>1. Emitted(m, i) = IF m[i].id \in Placed(m, i) THEN <<>> ELSE <<m[i]>>
    BY <1>7, EmittedCases
  <2>2. Emitted(n, i) = IF n[i].id \in Placed(n, i) THEN <<>> ELSE <<n[i]>>
    BY <1>1, <1>7, EmittedCases
  <2>3. Sub(<<>>, c, a) = <<>>
    <3>1. <<>> \in Seq(Message) /\ Len(<<>>) = 0  OBVIOUS
    <3>2. Sub(<<>>, c, a) \in Seq(Message) /\ Len(Sub(<<>>, c, a)) = 0  BY <3>1, SubTyped, Zenon
    <3> QED  BY <3>2, EmptySeq
  <2> QED  BY <1>1, <1>2, <1>5, <2>1, <2>2, <2>3 DEF n, x
<1>8. CASE m[i].role = "user"
  <2>1. Emitted(m, i) = <<m[i]>> /\ Emitted(n, i) = <<n[i]>>
    BY <1>1, <1>8, EmittedCases
  <2> QED  BY <1>1, <1>5, <2>1 DEF n, x
<1> QED  BY <1>1, <1>6, <1>7, <1>8, MessageKinds

\* Repair of a list with one more first answer.
LEMMA RepairAnswer ==
  ASSUME NEW m \in Seq(Message), NEW c \in Orphans(m), NEW a \in Answer
  PROVE  Repair(Append(m, Tool(c, a))) = Sub(Repair(m), c, a)
<1> DEFINE x == Tool(c, a)
           n == Append(m, x)
           e == [i \in 1 .. Len(m) |-> Emitted(n, i)]
<1>1. c \in Calls /\ c \in Asked(m) /\ c \notin Answered(m)  BY AskedTyped DEF Orphans
<1>2. x \in Message /\ x.role = "tool" /\ x.id = c
  BY <1>1, RecordsAreMessages DEF Tool
<1>3. \A i \in 1 .. Len(m) : Emitted(n, i) = Sub(Emitted(m, i), c, a)  BY <1>1, EmittedSub
<1> HIDE DEF x
<1>4. e \in Seq(Seq(Message)) /\ Repair(n) = FlattenSeq(e) \o Emitted(n, Len(m) + 1)
  BY <1>2, ChunksAppend, Zenon
<1>5. Emitted(n, Len(m) + 1) = <<>>  BY <1>1, <1>2, LastChunk
<1>6. FlattenSeq(e) \in Seq(Message)  BY <1>4, FlattenParts
<1>7. Repair(n) = FlattenSeq(e)
  <2> HIDE DEF e, n
  <2> QED  BY <1>4, <1>5, <1>6, ConcatEmptySeq
<1>8. /\ Chunks(m) \in Seq(Seq(Message)) /\ DOMAIN Chunks(m) = 1 .. Len(m)
      /\ \A i \in 1 .. Len(m) : Chunks(m)[i] = Emitted(m, i)
      /\ Repair(m) = FlattenSeq(Chunks(m))
  BY ChunksTyped
<1>9. e = [i \in DOMAIN Chunks(m) |-> Sub(Chunks(m)[i], c, a)]
  <2> HIDE DEF n
  <2> QED  BY <1>3, <1>8
<1>10. FlattenSeq([i \in DOMAIN Chunks(m) |-> Sub(Chunks(m)[i], c, a)]) = Sub(FlattenSeq(Chunks(m)), c, a)
  BY <1>1, <1>8, SubFlatten
<1> QED  BY <1>7, <1>8, <1>9, <1>10 DEF n, x

\* In a turn: the calls that repair would cancel come last, and the first of
\* them gets its answer.
LEMMA RepairInTurn ==
  ASSUME NEW m \in Seq(Message), NEW s \in Seq(Message), NEW c \in Orphans(m), NEW a \in Answer,
         NEW hi \in Calls, c <= hi, c \notin Answered(s), Repair(m) = s \o Cancels(c, hi)
  PROVE  Repair(Append(m, Tool(c, a))) = Append(s, Tool(c, a)) \o Cancels(c + 1, hi)
<1> DEFINE x == Tool(c, a)
           r == Repair(m)
           t == Sub(r, c, a)
           w == Append(s, x)
           d == Cancels(c + 1, hi)
           u == w \o d
           L == Len(s)
<1>1. c \in Calls /\ c \in Nat /\ hi \in Nat /\ L \in Nat
  BY AskedTyped, BoundsAssumption DEF Orphans, Calls
<1>2. x \in Message /\ r \in Seq(Message)  BY <1>1, RecordsAreMessages, RepairTyped
<1>3. \A k \in c .. hi : k \in Calls /\ Tool(k, "cancel") \in Message
  <2>1. \A k \in c .. hi : k \in Calls  BY <1>1, BoundsAssumption DEF Calls
  <2>2. "cancel" \in Answer  BY DEF Answer
  <2> QED  BY <2>1, <2>2, RecordsAreMessages
<1>4. /\ Cancels(c, hi) \in Seq(Message) /\ Len(Cancels(c, hi)) = hi + 1 - c
      /\ \A k \in 1 .. hi + 1 - c : Cancels(c, hi)[k] = Tool(c + k - 1, "cancel")
  <2>1. \A k \in 1 .. hi + 1 - c : c + k - 1 \in c .. hi  BY <1>1
  <2>2. \A k \in 1 .. hi + 1 - c : Tool(c + k - 1, "cancel") \in Message  BY <1>3, <2>1
  <2>3. hi + 1 - c \in Nat  BY <1>1
  <2> QED  BY <2>2, <2>3 DEF Cancels
<1>5. /\ d \in Seq(Message) /\ Len(d) = hi - c
      /\ \A k \in 1 .. hi - c : d[k] = Tool(c + k, "cancel")
  <2>1. \A k \in 1 .. hi - c : c + k \in c .. hi  BY <1>1
  <2>2. hi - c \in Nat /\ hi + 1 - (c + 1) = hi - c  BY <1>1
  <2>3. \A k \in 1 .. hi - c : Tool(c + k, "cancel") \in Message  BY <1>3, <2>1
  <2>4. \A k \in 1 .. hi - c : c + 1 + k - 1 = c + k  BY <1>1
  <2>5. Cancels(c + 1, hi) = [k \in 1 .. hi - c |-> Tool(c + k, "cancel")]
    BY <2>2, <2>4 DEF Cancels
  <2> QED  BY <2>2, <2>3, <2>5
<1> HIDE DEF x, d
<1>6. /\ Len(r) = L + (hi + 1 - c) /\ \A k \in 1 .. L : r[k] = s[k]
      /\ \A k \in 1 .. hi + 1 - c : r[L + k] = Cancels(c, hi)[k]
  <2> DEFINE z == Cancels(c, hi)
  <2>1. z \in Seq(Message) /\ Len(z) = hi + 1 - c /\ r = s \o z  BY <1>4
  <2> HIDE DEF z, r
  <2>2. /\ Len(r) = Len(s) + Len(z) /\ \A k \in 1 .. Len(s) : r[k] = s[k]
        /\ \A k \in 1 .. Len(z) : r[Len(s) + k] = z[k]
    <3>1. Len(r) = Len(s) + Len(z)  BY <2>1, ConcatAt
    <3>2. \A k \in 1 .. Len(s) : r[k] = s[k]   BY <2>1, ConcatAt
    <3>3. \A k \in 1 .. Len(z) : r[Len(s) + k] = z[k]  BY <2>1, ConcatAt
    <3> QED  BY <3>1, <3>2, <3>3
  <2> QED  BY <2>1, <2>2 DEF z
<1>7. \A k \in 1 .. hi + 1 - c : r[L + k] = Tool(c + k - 1, "cancel")
  BY <1>4, <1>6
<1>8. /\ w \in Seq(Message) /\ Len(w) = L + 1 /\ w[L + 1] = x /\ \A k \in 1 .. L : w[k] = s[k]
  BY <1>2
<1> HIDE DEF w, L
<1>9. /\ u \in Seq(Message) /\ Len(u) = L + 1 + (hi - c)
      /\ \A k \in 1 .. L + 1 : u[k] = w[k]
      /\ \A k \in 1 .. hi - c : u[L + 1 + k] = d[k]
  <2>1. /\ u \in Seq(Message) /\ Len(u) = Len(w) + Len(d)
        /\ \A k \in 1 .. Len(w) : u[k] = w[k]
        /\ \A k \in 1 .. Len(d) : u[Len(w) + k] = d[k]
    <3>1. u \in Seq(Message)  BY <1>5, <1>8
    <3>4. Len(u) = Len(w) + Len(d)  BY <1>5, <1>8, ConcatProperties
    <3>2. \A k \in 1 .. Len(w) : u[k] = w[k]  BY <1>5, <1>8, ConcatAt
    <3>3. \A k \in 1 .. Len(d) : u[Len(w) + k] = d[k]  BY <1>5, <1>8, ConcatAt
    <3> QED  BY <3>1, <3>2, <3>3, <3>4
  <2> QED  BY <1>5, <1>8, <2>1
<1> HIDE DEF r
<1>10. /\ t \in Seq(Message) /\ Len(t) = Len(r)
       /\ \A k \in 1 .. Len(r) : t[k] = IF r[k] = Tool(c, "cancel") THEN x ELSE r[k]
  BY <1>1, <1>2, SubTyped DEF x
<1> HIDE DEF t, u
<1>11. ASSUME NEW k \in 1 .. L PROVE t[k] = u[k]
  <2>1. s[k] # Tool(c, "cancel")
    <3>1. Tool(c, "cancel").role = "tool" /\ Tool(c, "cancel").id = c  BY DEF Tool
    <3> QED  BY <1>1, <3>1 DEF Answered, ToolAt, L
  <2>2. k \in 1 .. Len(r) /\ k \in 1 .. L + 1  BY <1>1, <1>6
  <2> QED  BY <1>6, <1>8, <1>9, <1>10, <2>1, <2>2
<1>12. t[L + 1] = u[L + 1]
  <2>1. 1 \in 1 .. hi + 1 - c /\ L + 1 \in 1 .. Len(r) /\ L + 1 \in 1 .. L + 1  BY <1>1, <1>6
  <2>2. c + 1 - 1 = c  BY <1>1
  <2>3. r[L + 1] = Tool(c, "cancel")  BY <1>7, <2>1, <2>2
  <2> QED  BY <1>8, <1>9, <1>10, <2>1, <2>3
<1>13. ASSUME NEW k \in 1 .. hi - c PROVE t[L + 1 + k] = u[L + 1 + k]
  <2>1. k + 1 \in 1 .. hi + 1 - c /\ L + (k + 1) \in 1 .. Len(r) /\ L + (k + 1) = L + 1 + k
        /\ c + (k + 1) - 1 = c + k /\ c + k # c
    <3>1. L \in Nat /\ c \in Nat /\ hi \in Nat /\ k \in Nat /\ 1 <= k /\ k <= hi - c
          /\ Len(r) = L + (hi + 1 - c)
      BY <1>1, <1>6
    <3> QED  BY <3>1
  <2>2. r[L + (k + 1)] = Tool(c + (k + 1) - 1, "cancel")  BY <1>7, <2>1, Zenon
  <2>3. r[L + 1 + k] = Tool(c + k, "cancel")  BY <2>1, <2>2
  <2>4. Tool(c + k, "cancel") # Tool(c, "cancel")
    <3>1. Tool(c, "cancel").id = c /\ Tool(c + k, "cancel").id = c + k  BY DEF Tool
    <3> QED  BY <2>1, <3>1
  <2>5. t[L + 1 + k] = r[L + 1 + k]  BY <1>10, <2>1, <2>3, <2>4
  <2> QED  BY <1>5, <1>9, <2>3, <2>5
<1>14. \A k \in 1 .. Len(t) : t[k] = u[k]
  <2> TAKE k \in 1 .. Len(t)
  <2>1. k \in 1 .. L \/ k = L + 1 \/ (k - (L + 1) \in 1 .. hi - c /\ k = L + 1 + (k - (L + 1)))
    BY <1>1, <1>6, <1>10
  <2> QED  BY <1>11, <1>12, <1>13, <2>1
<1>15. Len(t) = Len(u)  BY <1>1, <1>6, <1>9, <1>10
<1>16. t = u  BY <1>9, <1>10, <1>14, <1>15, SeqEqual
<1>17. Repair(Append(m, x)) = t  BY RepairAnswer DEF t, r, x
<1> QED  BY <1>16, <1>17 DEF u, w, d, x

-----------------------------------------------------------------------------
(***************************************************************************)
(* repair_messages' promise: what it returns is well formed.               *)
(***************************************************************************)
\* Two assistants ask for different calls.
AsksOnce(m) ==
  \A i, j \in DOMAIN m : m[i].role = "assistant" /\ m[j].role = "assistant" /\ i # j
                        => m[i].calls \cap m[j].calls = {}

\* Every answer comes after the assistant that asked for it.
NoStrays(m) ==
  \A i \in DOMAIN m : m[i].role = "tool" =>
    \E j \in 1 .. i - 1 : m[j].role = "assistant" /\ m[i].id \in m[j].calls

\* The positions where an answer is due.
Due(m, i) ==
  \E j \in DOMAIN m : m[j].role = "assistant" /\ i \in j + 1 .. j + Cardinality(m[j].calls)

\* Expected, without the union.
LEMMA ExpectedIsDue ==
  ASSUME NEW m, NEW i
  PROVE  i \in Expected(m) <=> Due(m, i)
BY DEF Expected, Due

\* The number of calls of an assistant.
LEMMA CallCount ==
  ASSUME NEW m \in Seq(Message), NEW i \in 1 .. Len(m), m[i].role = "assistant"
  PROVE  /\ m[i].calls \in SUBSET Calls /\ Cardinality(m[i].calls) \in Nat
<1>1. m[i] \in Message  OBVIOUS
<1>2. m[i].calls \in SUBSET Calls  BY <1>1, MessageKinds
<1> QED  BY <1>2, InOrderTyped

\* Well-formed lists can be put together.
LEMMA WellFormedConcat ==
  ASSUME NEW s \in Seq(Message), NEW t \in Seq(Message), WellFormed(s), WellFormed(t)
  PROVE  WellFormed(s \o t)
<1> DEFINE u == s \o t
           L == Len(s)
<1>1. /\ u \in Seq(Message) /\ Len(u) = L + Len(t) /\ L \in Nat /\ Len(t) \in Nat
      /\ DOMAIN u = 1 .. Len(u) /\ DOMAIN s = 1 .. L /\ DOMAIN t = 1 .. Len(t)
  <2>1. DOMAIN s = 1 .. L /\ DOMAIN t = 1 .. Len(t)  OBVIOUS
  <2>2. u \in Seq(Message) /\ Len(u) = L + Len(t) /\ L \in Nat /\ Len(t) \in Nat
    BY ConcatProperties, LenProperties
  <2>3. DOMAIN u = 1 .. Len(u)  BY <2>2
  <2> QED  BY <2>1, <2>2, <2>3
<1>2. \A k \in 1 .. L : u[k] = s[k]  BY ConcatAt
<1>3. \A k \in 1 .. Len(t) : u[L + k] = t[k]  BY ConcatAt
<1> HIDE DEF u, L
<1>4. ASSUME NEW i \in DOMAIN u
      PROVE  i \in 1 .. L \/ \E k \in 1 .. Len(t) : i = L + k
  <2>1. i \in 1 .. L \/ (i - L \in 1 .. Len(t) /\ i = L + (i - L))  BY <1>1
  <2> QED  BY <2>1
<1>5. ASSUME NEW i \in DOMAIN u, u[i].role = "assistant" PROVE AnsweredInPlace(u, i)
  <2>1. CASE i \in 1 .. L
    <3> DEFINE n == Cardinality(s[i].calls)
    <3>1. u[i] = s[i] /\ n \in Nat  BY <1>2, <1>5, <2>1, CallCount DEF L
    <3>2. AnsweredInPlace(s, i)  BY <1>1, <1>2, <1>5, <2>1 DEF WellFormed
    <3>3. /\ i + n <= L
          /\ \A k \in 1 .. n : s[i + k].role = "tool" /\ s[i + k].id = InOrder(s[i].calls)[k]
      BY <3>2 DEF AnsweredInPlace, L
    <3> HIDE DEF n
    <3>4. i + n <= Len(u)  BY <1>1, <2>1, <3>1, <3>3
    <3>5. \A k \in 1 .. n : u[i + k] = s[i + k]
      <4> TAKE k \in 1 .. n
      <4>1. i + k \in 1 .. L  BY <1>1, <2>1, <3>1, <3>3
      <4> QED  BY <1>2, <4>1
    <3>6. \A k \in 1 .. n : u[i + k].role = "tool" /\ u[i + k].id = InOrder(s[i].calls)[k]
      BY <3>3, <3>5
    <3> QED  BY <3>1, <3>4, <3>6 DEF AnsweredInPlace, n
  <2>2. ASSUME NEW j \in 1 .. Len(t), i = L + j PROVE AnsweredInPlace(u, i)
    <3> DEFINE n == Cardinality(t[j].calls)
    <3>1. u[i] = t[j] /\ n \in Nat  BY <1>3, <1>5, <2>2, CallCount
    <3>2. AnsweredInPlace(t, j)  BY <1>1, <1>5, <3>1 DEF WellFormed
    <3>3. /\ j + n <= Len(t)
          /\ \A k \in 1 .. n : t[j + k].role = "tool" /\ t[j + k].id = InOrder(t[j].calls)[k]
      BY <3>2 DEF AnsweredInPlace
    <3> HIDE DEF n
    <3>4. i + n <= Len(u)  BY <1>1, <2>2, <3>1, <3>3
    <3>5. \A k \in 1 .. n : u[i + k] = t[j + k]
      <4> TAKE k \in 1 .. n
      <4>1. j + k \in 1 .. Len(t) /\ i + k = L + (j + k)  BY <1>1, <2>2, <3>1, <3>3
      <4> QED  BY <1>3, <4>1
    <3>6. \A k \in 1 .. n : u[i + k].role = "tool" /\ u[i + k].id = InOrder(t[j].calls)[k]
      BY <3>3, <3>5
    <3> QED  BY <3>1, <3>4, <3>6 DEF AnsweredInPlace, n
  <2> QED  BY <1>4, <1>5, <2>1, <2>2
<1>6. ASSUME NEW i \in DOMAIN u, u[i].role = "tool" PROVE Due(u, i)
  <2>1. CASE i \in 1 .. L
    <3>1. s[i].role = "tool" /\ i \in DOMAIN s  BY <1>1, <1>2, <1>6, <2>1
    <3>2. Due(s, i)  BY <3>1, ExpectedIsDue DEF WellFormed
    <3>3. PICK j \in DOMAIN s : s[j].role = "assistant" /\ i \in j + 1 .. j + Cardinality(s[j].calls)
      BY <3>2 DEF Due
    <3>4. j \in DOMAIN u /\ u[j] = s[j]  BY <1>1, <1>2, <3>3
    <3> QED  BY <3>3, <3>4 DEF Due
  <2>2. ASSUME NEW k \in 1 .. Len(t), i = L + k PROVE Due(u, i)
    <3>1. t[k].role = "tool" /\ k \in DOMAIN t  BY <1>1, <1>3, <1>6, <2>2
    <3>2. Due(t, k)  BY <3>1, ExpectedIsDue DEF WellFormed
    <3>3. PICK j \in DOMAIN t : t[j].role = "assistant" /\ k \in j + 1 .. j + Cardinality(t[j].calls)
      BY <3>2 DEF Due
    <3>4. L + j \in DOMAIN u /\ u[L + j] = t[j]  BY <1>1, <1>3, <3>3
    <3>5. Cardinality(t[j].calls) \in Nat  BY <1>1, <3>3, CallCount
    <3>6. i \in (L + j) + 1 .. (L + j) + Cardinality(u[L + j].calls)
      BY <1>1, <2>2, <3>3, <3>4, <3>5
    <3>7. u[L + j].role = "assistant"  BY <3>3, <3>4
    <3> QED  BY <3>4, <3>6, <3>7 DEF Due
  <2> QED  BY <1>4, <1>6, <2>1, <2>2
<1>7. WellFormed(u)  BY <1>5, <1>6, ExpectedIsDue DEF WellFormed
<1> QED  BY <1>7 DEF u

\* Lists without assistants and tool messages are well formed.
LEMMA WellFormedPlain ==
  ASSUME NEW m \in Seq(Message), \A i \in DOMAIN m : m[i].role = "user"
  PROVE  WellFormed(m)
BY DEF WellFormed

\* So is an assistant with the answers to its calls.
LEMMA WellFormedTurn ==
  ASSUME NEW m \in Seq(Message), NEW x \in Message, x.role = "assistant"
  PROVE  WellFormed(<<x>> \o AnswersOf(m, x.calls))
<1> DEFINE S == x.calls
           n == Cardinality(S)
           a == AnswersOf(m, S)
           h == <<x>>
           u == h \o a
<1>1. S \in SUBSET Calls  BY MessageKinds
<1> HIDE DEF S
<1>2. /\ a \in Seq(Message) /\ Len(a) = n /\ n \in Nat
      /\ \A k \in 1 .. n : InOrder(S)[k] \in S /\ a[k] = AnswerTo(m, InOrder(S)[k])
  BY <1>1, AnswersOfTyped
<1> HIDE DEF a, n
<1>3. \A k \in 1 .. n : a[k].role = "tool" /\ a[k].id = InOrder(S)[k]
  <2> TAKE k \in 1 .. n
  <2>1. InOrder(S)[k] \in Calls  BY <1>1, <1>2
  <2> QED  BY <1>2, <2>1, AnswerToTyped
<1>4. h \in Seq(Message) /\ Len(h) = 1 /\ h[1] = x  OBVIOUS
<1> HIDE DEF h
<1>5. u \in Seq(Message) /\ Len(u) = 1 + n
  <2>1. u \in Seq(Message)  BY <1>2, <1>4
  <2>2. Len(u) = Len(h) + Len(a)  BY <1>2, <1>4, ConcatProperties
  <2> QED  BY <1>2, <1>4, <2>1, <2>2
<1>6. \A k \in 1 .. 1 : u[k] = h[k]
  <2>0. a \in Seq(Message) /\ h \in Seq(Message)  BY <1>2, <1>4
  <2>1. \A k \in 1 .. Len(h) : u[k] = h[k]  BY <2>0, ConcatAt
  <2> QED  BY <1>4, <2>1
<1>7. \A k \in 1 .. n : u[1 + k] = a[k]
  <2>0. a \in Seq(Message) /\ h \in Seq(Message)  BY <1>2, <1>4
  <2>1. \A k \in 1 .. Len(a) : u[Len(h) + k] = a[k]  BY <2>0, ConcatAt
  <2> QED  BY <1>2, <1>4, <2>1
<1> HIDE DEF u
<1>8. DOMAIN u = 1 .. 1 + n /\ u[1] = x  BY <1>2, <1>4, <1>5, <1>6
<1>9. ASSUME NEW i \in DOMAIN u PROVE i = 1 \/ \E k \in 1 .. n : i = 1 + k
  <2>1. i = 1 \/ (i - 1 \in 1 .. n /\ i = 1 + (i - 1))  BY <1>2, <1>8
  <2> QED  BY <2>1
<1>10. \A k \in 1 .. n : u[1 + k].role = "tool" /\ u[1 + k].id = InOrder(S)[k]
  BY <1>3, <1>7
<1>11. AnsweredInPlace(u, 1)  BY <1>2, <1>5, <1>8, <1>10 DEF AnsweredInPlace, n, S
<1>12. ASSUME NEW i \in DOMAIN u, u[i].role = "assistant" PROVE AnsweredInPlace(u, i)
  <2>1. i = 1
    <3>1. \A k \in 1 .. n : i # 1 + k  BY <1>10, <1>12
    <3> QED  BY <1>9, <3>1
  <2> QED  BY <1>11, <2>1
<1>13. ASSUME NEW i \in DOMAIN u, u[i].role = "tool" PROVE Due(u, i)
  <2>1. i # 1  BY <1>8, <1>13
  <2>2. i \in 1 + 1 .. 1 + n  BY <1>2, <1>8, <2>1
  <2>3. 1 \in DOMAIN u /\ u[1].role = "assistant" /\ Cardinality(u[1].calls) = n
    BY <1>2, <1>8 DEF n, S
  <2>4. i \in 1 + 1 .. 1 + Cardinality(u[1].calls)  BY <2>2, <2>3
  <2> QED  BY <2>3, <2>4 DEF Due
<1>14. WellFormed(u)  BY <1>12, <1>13, ExpectedIsDue DEF WellFormed
<1> QED  BY <1>14 DEF u, h, a, S

\* Concatenating well-formed lists.
LEMMA WellFormedFlatten ==
  ASSUME NEW s \in Seq(Seq(Message)), \A i \in DOMAIN s : WellFormed(s[i])
  PROVE  WellFormed(FlattenSeq(s))
<1> DEFINE Holds(r) == (\A i \in DOMAIN r : WellFormed(r[i])) => WellFormed(FlattenSeq(r))
           P == {r \in Seq(Seq(Message)) : Holds(r)}
<1>1. <<>> \in P
  <2>1. <<>> \in Seq(Message) /\ <<>> \in Seq(Seq(Message)) /\ DOMAIN <<>> = {}  OBVIOUS
  <2>2. WellFormed(<<>>)  BY <2>1, WellFormedPlain, Zenon
  <2>3. WellFormed(FlattenSeq(<<>>))  BY <2>2, FlattenEmpty, Zenon
  <2> QED  BY <2>1, <2>3
<1>2. ASSUME NEW r \in Seq(Seq(Message)), NEW x \in Seq(Message), r \in P PROVE Append(r, x) \in P
  <2> DEFINE q == Append(r, x)
  <2>1. /\ q \in Seq(Seq(Message)) /\ Len(r) + 1 \in DOMAIN q /\ q[Len(r) + 1] = x
        /\ \A i \in DOMAIN r : i \in DOMAIN q /\ q[i] = r[i]
    OBVIOUS
  <2>2. FlattenSeq(q) = FlattenSeq(r) \o x /\ FlattenSeq(r) \in Seq(Message)
    BY FlattenAppend, FlattenParts
  <2> HIDE DEF q
  <2>3. ASSUME \A i \in DOMAIN q : WellFormed(q[i]) PROVE WellFormed(FlattenSeq(q))
    <3>1. WellFormed(x)  BY <2>1, <2>3, Zenon
    <3>2. \A i \in DOMAIN r : WellFormed(r[i])
      <4> TAKE i \in DOMAIN r
      <4>1. i \in DOMAIN q /\ q[i] = r[i]  BY <2>1
      <4>2. WellFormed(q[i])  BY <2>3, <4>1
      <4> QED  BY <4>1, <4>2, Zenon
    <3>3. WellFormed(FlattenSeq(r))  BY <1>2, <3>2, Zenon
    <3>4. WellFormed(FlattenSeq(r) \o x)  BY <2>2, <3>1, <3>3, WellFormedConcat, Zenon
    <3> QED  BY <2>2, <3>4, Zenon
  <2>4. q \in P  BY <2>1, <2>3
  <2> QED  BY <2>4 DEF q
<1> HIDE DEF P
<1>3. s \in P  BY <1>1, <1>2, SeqSetInduction
<1>4. Holds(s)  BY <1>3 DEF P
<1> QED  BY <1>4

\* In records where no call is asked for twice and no answer strays, repair
\* restores the order the API requires.
THEOREM RepairWellFormed ==
  ASSUME NEW m \in Seq(Message), AsksFirst(m), AsksOnce(m), NoStrays(m)
  PROVE  WellFormed(Repair(m))
<1>1. ASSUME NEW i \in 1 .. Len(m)
      PROVE  \A j \in DOMAIN SubSeq(m, 1, i - 1) : /\ j \in 1 .. i - 1 /\ j \in DOMAIN m /\ j < i
                                                  /\ SubSeq(m, 1, i - 1)[j] = m[j]
  OBVIOUS
<1>2. ASSUME NEW i \in 1 .. Len(m) PROVE WellFormed(Emitted(m, i))
  <2> DEFINE b == SubSeq(m, 1, i - 1)
  <2>1. m[i] \in Message /\ i \in DOMAIN m  OBVIOUS
  <2>2. /\ \A j \in DOMAIN b : j \in DOMAIN m /\ j < i /\ b[j] = m[j]
        /\ \A j \in 1 .. i - 1 : j \in DOMAIN b /\ b[j] = m[j]
    OBVIOUS
  <2>3. Placed(m, i) = Asked(b) \cup Answered(b)  BY Zenon DEF Placed
  <2> HIDE DEF b
  <2>4. CASE m[i].role = "assistant"
    <3> DEFINE S == m[i].calls
    <3>1. S \cap Asked(b) = {}
      <4>1. ASSUME NEW c \in S, c \in Asked(b) PROVE FALSE
        <5>1. PICK j \in DOMAIN b : b[j].role = "assistant" /\ c \in b[j].calls  BY <4>1 DEF Asked
        <5>2. j \in DOMAIN m /\ j < i /\ m[j].role = "assistant" /\ c \in m[j].calls
          BY <2>2, <5>1
        <5>3. j # i  BY <2>1, <5>2
        <5>4. m[i].calls \cap m[j].calls = {}  BY <2>1, <2>4, <5>2, <5>3 DEF AsksOnce
        <5> QED  BY <4>1, <5>2, <5>4
      <4> QED  BY <4>1
    <3>2. S \cap Answered(b) = {}
      <4>1. ASSUME NEW c \in S, c \in Answered(b) PROVE FALSE
        <5>1. PICK j \in DOMAIN b : b[j].role = "tool" /\ b[j].id = c  BY <4>1 DEF Answered, ToolAt
        <5>2. j \in DOMAIN m /\ j < i /\ m[j].role = "tool" /\ m[j].id = c
          BY <2>2, <5>1
        <5>3. i < j  BY <2>1, <2>4, <4>1, <5>2 DEF AsksFirst
        <5> QED  BY <2>1, <5>2, <5>3
      <4> QED  BY <4>1
    <3>3. S \ Placed(m, i) = S  BY <2>3, <3>1, <3>2
    <3>4. Emitted(m, i) = <<m[i]>> \o AnswersOf(m, S \ Placed(m, i))  BY <2>4, EmittedCases
    <3>5. WellFormed(<<m[i]>> \o AnswersOf(m, S))  BY <2>1, <2>4, WellFormedTurn
    <3> HIDE DEF S
    <3> QED  BY <3>3, <3>4, <3>5, Zenon
  <2>5. CASE m[i].role = "tool"
    <3>1. PICK j \in 1 .. i - 1 : m[j].role = "assistant" /\ m[i].id \in m[j].calls
      BY <2>1, <2>5 DEF NoStrays
    <3>2. j \in DOMAIN b /\ b[j] = m[j]  BY <2>2, <3>1
    <3>3. m[i].id \in Asked(b)  BY <3>1, <3>2 DEF Asked
    <3>4. Emitted(m, i) = <<>>  BY <2>3, <2>5, <3>3, EmittedCases
    <3>5. <<>> \in Seq(Message) /\ DOMAIN <<>> = {}  OBVIOUS
    <3>6. WellFormed(<<>>)  BY <3>5, WellFormedPlain, Zenon
    <3> QED  BY <3>4, <3>6, Zenon
  <2>6. CASE m[i].role = "user"
    <3> DEFINE e == <<m[i]>>
    <3>1. e \in Seq(Message) /\ \A k \in DOMAIN e : e[k].role = "user"  BY <2>1, <2>6
    <3>2. WellFormed(e)  BY <3>1, WellFormedPlain
    <3>3. Emitted(m, i) = e  BY <2>6, EmittedCases
    <3> QED  BY <3>2, <3>3, Zenon
  <2> QED  BY <2>1, <2>4, <2>5, <2>6, MessageKinds
<1>3. /\ Chunks(m) \in Seq(Seq(Message)) /\ DOMAIN Chunks(m) = 1 .. Len(m)
      /\ \A i \in 1 .. Len(m) : Chunks(m)[i] = Emitted(m, i)
      /\ Repair(m) = FlattenSeq(Chunks(m))
  BY ChunksTyped
<1>4. \A i \in DOMAIN Chunks(m) : WellFormed(Chunks(m)[i])
  <2> TAKE i \in DOMAIN Chunks(m)
  <2>1. i \in 1 .. Len(m) /\ Chunks(m)[i] = Emitted(m, i)  BY <1>3
  <2> QED  BY <1>2, <2>1
<1> QED  BY <1>3, <1>4, WellFormedFlatten

-----------------------------------------------------------------------------
(***************************************************************************)
(* The records as the steps leave them.                                    *)
(***************************************************************************)
\* The calls of the last assistant, if only answers followed it.
Open(m) ==
  {c \in Calls : \E j \in DOMAIN m : /\ m[j].role = "assistant" /\ c \in m[j].calls
                                    /\ \A i \in j + 1 .. Len(m) : m[i].role = "tool"}

\* Between an assistant and the answer to one of its calls there are only answers.
InPlace(m) ==
  \A i, j \in DOMAIN m : m[j].role = "assistant" /\ m[i].role = "tool" /\ m[i].id \in m[j].calls
                        => \A k \in j + 1 .. i : m[k].role = "tool"

\* A call is asked for by some record.
LEMMA AskedAt ==
  ASSUME NEW m \in Seq(Message), NEW c
  PROVE  c \in Asked(m) <=> \E j \in 1 .. Len(m) : m[j].role = "assistant" /\ c \in m[j].calls
BY DEF Asked

\* One more answer, of a call that was asked for.
LEMMA ToolKeepsOrder ==
  ASSUME NEW m \in Seq(Message), NEW c \in Calls, NEW a \in Answer
  PROVE  LET n == Append(m, Tool(c, a))
         IN  /\ AsksOnce(m) => AsksOnce(n)
             /\ NoStrays(m) /\ c \in Asked(m) => NoStrays(n)
             /\ AsksOnce(m) /\ InPlace(m) /\ c \in Open(m) => InPlace(n)
             /\ Open(m) \subseteq Open(n)
             /\ Orphans(n) = Orphans(m) \ {c}
<1> DEFINE x == Tool(c, a)
           n == Append(m, x)
           L == Len(m)
<1>1. x \in Message /\ x.role = "tool" /\ x.id = c  BY RecordsAreMessages DEF Tool
<1>2. Orphans(n) = Orphans(m) \ {c}  BY AppendToolRecord DEF Orphans
<1> HIDE DEF x
<1>3. /\ n \in Seq(Message) /\ Len(n) = L + 1 /\ L \in Nat /\ n[L + 1] = x
      /\ \A i \in 1 .. L : n[i] = m[i]
      /\ DOMAIN n = 1 .. L + 1 /\ DOMAIN m = 1 .. L
  BY <1>1, OneMore
<1> HIDE DEF n, L
<1>4. ASSUME AsksOnce(m) PROVE AsksOnce(n)
  <2>1. \A i \in DOMAIN n : n[i].role = "assistant" => i \in DOMAIN m /\ n[i] = m[i]
    BY <1>1, <1>3
  <2> QED  BY <1>4, <2>1 DEF AsksOnce
<1>5. ASSUME NoStrays(m), c \in Asked(m) PROVE NoStrays(n)
  <2>1. SUFFICES ASSUME NEW i \in DOMAIN n, n[i].role = "tool"
                 PROVE  \E j \in 1 .. i - 1 : n[j].role = "assistant" /\ n[i].id \in n[j].calls
    BY DEF NoStrays
  <2>2. CASE i = L + 1
    <3>1. PICK j \in 1 .. L : m[j].role = "assistant" /\ c \in m[j].calls  BY <1>5, AskedAt DEF L
    <3>2. j \in 1 .. i - 1 /\ n[j] = m[j] /\ n[i].id = c  BY <1>1, <1>3, <2>2, <3>1
    <3> QED  BY <3>1, <3>2
  <2>3. CASE i # L + 1
    <3>1. i \in DOMAIN m /\ n[i] = m[i]  BY <1>3, <2>3
    <3>2. PICK j \in 1 .. i - 1 : m[j].role = "assistant" /\ m[i].id \in m[j].calls
      BY <1>5, <2>1, <3>1 DEF NoStrays
    <3>3. n[j] = m[j]  BY <1>3, <3>1, <3>2
    <3> QED  BY <3>1, <3>2, <3>3
  <2> QED  BY <2>2, <2>3
<1>6. ASSUME AsksOnce(m), InPlace(m), c \in Open(m) PROVE InPlace(n)
  <2>1. SUFFICES ASSUME NEW i \in DOMAIN n, NEW j \in DOMAIN n, n[j].role = "assistant",
                        n[i].role = "tool", n[i].id \in n[j].calls, NEW k \in j + 1 .. i
                 PROVE  n[k].role = "tool"
    BY DEF InPlace
  <2>2. j \in 1 .. L /\ n[j] = m[j]  BY <1>1, <1>3, <2>1
  <2>3. CASE i = L + 1
    <3>1. PICK l \in DOMAIN m : /\ m[l].role = "assistant" /\ c \in m[l].calls
                                /\ \A h \in l + 1 .. L : m[h].role = "tool"
      BY <1>6 DEF Open, L
    <3>2. c \in m[j].calls /\ m[j].role = "assistant"  BY <1>1, <1>3, <2>1, <2>2, <2>3
    <3>3. l = j  BY <1>3, <1>6, <2>2, <3>1, <3>2 DEF AsksOnce
    <3>4. k = L + 1 \/ k \in l + 1 .. L  BY <1>3, <2>2, <2>3, <3>3
    <3>5. k \in l + 1 .. L => k \in 1 .. L  BY <1>3, <2>2, <3>3
    <3> QED  BY <1>1, <1>3, <3>1, <3>4, <3>5
  <2>4. CASE i # L + 1
    <3>1. i \in DOMAIN m /\ n[i] = m[i] /\ j \in DOMAIN m /\ k \in DOMAIN m /\ n[k] = m[k]
      BY <1>3, <2>2, <2>4
    <3>2. m[k].role = "tool"  BY <1>6, <2>1, <2>2, <3>1 DEF InPlace
    <3> QED  BY <3>1, <3>2
  <2> QED  BY <2>3, <2>4
<1>7. ASSUME NEW d \in Open(m) PROVE d \in Open(n)
  <2>1. PICK l \in DOMAIN m : /\ m[l].role = "assistant" /\ d \in m[l].calls
                              /\ \A h \in l + 1 .. L : m[h].role = "tool"
    BY <1>7 DEF Open, L
  <2>2. l \in DOMAIN n /\ n[l] = m[l] /\ d \in Calls  BY <1>3, <1>7, <2>1 DEF Open
  <2>3. ASSUME NEW h \in l + 1 .. Len(n) PROVE n[h].role = "tool"
    <3>1. h = L + 1 \/ (h \in l + 1 .. L /\ h \in 1 .. L)  BY <1>3, <2>1
    <3> QED  BY <1>1, <1>3, <2>1, <3>1
  <2> QED  BY <2>1, <2>2, <2>3 DEF Open
<1> QED  BY <1>2, <1>4, <1>5, <1>6, <1>7 DEF n, x

\* One more user record.
LEMMA UserKeepsOrder ==
  ASSUME NEW m \in Seq(Message)
  PROVE  LET n == Append(m, User)
         IN  /\ AsksOnce(m) => AsksOnce(n)
             /\ NoStrays(m) => NoStrays(n)
             /\ InPlace(m) => InPlace(n)
             /\ Orphans(n) = Orphans(m)
<1> DEFINE x == User
           n == Append(m, x)
           L == Len(m)
<1>1. x \in Message /\ x.role = "user"  BY RecordsAreMessages DEF User
<1>2. Orphans(n) = Orphans(m)  BY AppendUserRecord DEF Orphans
<1> HIDE DEF x
<1>3. /\ n \in Seq(Message) /\ Len(n) = L + 1 /\ L \in Nat /\ n[L + 1] = x
      /\ \A i \in 1 .. L : n[i] = m[i]
      /\ DOMAIN n = 1 .. L + 1 /\ DOMAIN m = 1 .. L
  BY <1>1, OneMore
<1> HIDE DEF n, L
<1>4. \A i \in DOMAIN n : n[i].role # "user" => i \in DOMAIN m
  BY <1>1, <1>3
<1>5. ASSUME AsksOnce(m) PROVE AsksOnce(n)
  <2>1. \A i \in DOMAIN n : n[i].role = "assistant" => i \in DOMAIN m /\ n[i] = m[i]
    BY <1>3, <1>4
  <2> QED  BY <1>5, <2>1 DEF AsksOnce
<1>6. ASSUME NoStrays(m) PROVE NoStrays(n)
  <2>1. SUFFICES ASSUME NEW i \in DOMAIN n, n[i].role = "tool"
                 PROVE  \E j \in 1 .. i - 1 : n[j].role = "assistant" /\ n[i].id \in n[j].calls
    BY DEF NoStrays
  <2>2. i \in DOMAIN m /\ n[i] = m[i]  BY <1>3, <1>4, <2>1
  <2>3. PICK j \in 1 .. i - 1 : m[j].role = "assistant" /\ m[i].id \in m[j].calls
    BY <1>6, <2>1, <2>2 DEF NoStrays
  <2>4. n[j] = m[j]  BY <1>3, <2>2, <2>3
  <2> QED  BY <2>2, <2>3, <2>4
<1>7. ASSUME InPlace(m) PROVE InPlace(n)
  <2>1. SUFFICES ASSUME NEW i \in DOMAIN n, NEW j \in DOMAIN n, n[j].role = "assistant",
                        n[i].role = "tool", n[i].id \in n[j].calls, NEW k \in j + 1 .. i
                 PROVE  n[k].role = "tool"
    BY DEF InPlace
  <2>2. i \in DOMAIN m /\ j \in DOMAIN m /\ k \in DOMAIN m  BY <1>3, <1>4, <2>1
  <2> QED  BY <1>3, <1>7, <2>1, <2>2 DEF InPlace
<1> QED  BY <1>2, <1>5, <1>6, <1>7 DEF n, x

\* One more assistant, that asks only for new calls.
LEMMA AssistantKeepsOrder ==
  ASSUME NEW m \in Seq(Message), NEW S \in SUBSET Calls, S \cap (Asked(m) \cup Answered(m)) = {}
  PROVE  LET n == Append(m, Assistant(S))
         IN  /\ AsksOnce(m) => AsksOnce(n)
             /\ NoStrays(m) => NoStrays(n)
             /\ InPlace(m) => InPlace(n)
             /\ Orphans(n) = Orphans(m) \cup S
             /\ S \subseteq Open(n)
<1> DEFINE x == Assistant(S)
           n == Append(m, x)
           L == Len(m)
<1>1. x \in Message /\ x.role = "assistant" /\ x.calls = S  BY RecordsAreMessages DEF Assistant
<1>2. Orphans(n) = Orphans(m) \cup S  BY AppendAssistantRecord DEF Orphans
<1> HIDE DEF x
<1>3. /\ n \in Seq(Message) /\ Len(n) = L + 1 /\ L \in Nat /\ n[L + 1] = x
      /\ \A i \in 1 .. L : n[i] = m[i]
      /\ DOMAIN n = 1 .. L + 1 /\ DOMAIN m = 1 .. L
  BY <1>1, OneMore
<1> HIDE DEF n, L
<1>4. \A i \in DOMAIN n : n[i].role = "tool" => i \in DOMAIN m /\ n[i] = m[i]
  BY <1>1, <1>3
<1>5. ASSUME AsksOnce(m) PROVE AsksOnce(n)
  <2>1. \A i \in DOMAIN m : m[i].role = "assistant" => m[i].calls \cap S = {}
    BY <1>3, AskedAt DEF L
  <2>2. \A i \in DOMAIN n : i = L + 1 \/ (i \in DOMAIN m /\ n[i] = m[i])  BY <1>3
  <2> QED  BY <1>1, <1>3, <1>5, <2>1, <2>2 DEF AsksOnce
<1>6. ASSUME NoStrays(m) PROVE NoStrays(n)
  <2>1. SUFFICES ASSUME NEW i \in DOMAIN n, n[i].role = "tool"
                 PROVE  \E j \in 1 .. i - 1 : n[j].role = "assistant" /\ n[i].id \in n[j].calls
    BY DEF NoStrays
  <2>2. i \in DOMAIN m /\ n[i] = m[i]  BY <1>4, <2>1
  <2>3. PICK j \in 1 .. i - 1 : m[j].role = "assistant" /\ m[i].id \in m[j].calls
    BY <1>6, <2>1, <2>2 DEF NoStrays
  <2>4. n[j] = m[j]  BY <1>3, <2>2, <2>3
  <2> QED  BY <2>2, <2>3, <2>4
<1>7. ASSUME InPlace(m) PROVE InPlace(n)
  <2>1. SUFFICES ASSUME NEW i \in DOMAIN n, NEW j \in DOMAIN n, n[j].role = "assistant",
                        n[i].role = "tool", n[i].id \in n[j].calls, NEW k \in j + 1 .. i
                 PROVE  n[k].role = "tool"
    BY DEF InPlace
  <2>2. i \in DOMAIN m /\ n[i] = m[i]  BY <1>4, <2>1
  <2>3. n[i].id \notin S
    <3>1. m[i] \in Message  BY <1>3, <2>2
    <3>2. m[i].id \in Calls  BY <2>1, <2>2, <3>1, MessageKinds
    <3>3. m[i].id \in Answered(m)  BY <2>1, <2>2, <3>2 DEF Answered, ToolAt
    <3> QED  BY <2>2, <3>3
  <2>4. j # L + 1  BY <1>1, <1>3, <2>1, <2>3
  <2>5. j \in DOMAIN m /\ k \in DOMAIN m /\ n[j] = m[j] /\ n[k] = m[k]  BY <1>3, <2>2, <2>4
  <2>6. m[k].role = "tool"  BY <1>7, <2>1, <2>2, <2>5 DEF InPlace
  <2> QED  BY <2>5, <2>6
<1>8. S \subseteq Open(n)
  <2>1. L + 1 \in DOMAIN n /\ n[L + 1].role = "assistant" /\ n[L + 1].calls = S  BY <1>1, <1>3
  <2>2. L + 1 + 1 .. Len(n) = {}  BY <1>3
  <2> QED  BY <2>1, <2>2 DEF Open
<1> QED  BY <1>2, <1>5, <1>6, <1>7, <1>8 DEF n, x

-----------------------------------------------------------------------------
\* The records after a cutoff.
LEMMA TailAt ==
  ASSUME NEW m \in Seq(Message), NEW b \in 0 .. Len(m)
  PROVE  /\ Read(m, b) \in Seq(Message) /\ Len(Read(m, b)) = Len(m) - b
         /\ Len(m) - b \in Nat /\ DOMAIN Read(m, b) = 1 .. Len(m) - b
         /\ \A i \in 1 .. Len(m) - b : Read(m, b)[i] = m[b + i] /\ b + i \in 1 .. Len(m)
BY DEF Read

\* Reading everything.
LEMMA ReadAll ==
  ASSUME NEW m \in Seq(Message)
  PROVE  Read(m, 0) = m
BY DEF Read

\* Order is kept in them.
LEMMA TailKeepsOrder ==
  ASSUME NEW m \in Seq(Message), NEW b \in 0 .. Len(m)
  PROVE  /\ AsksFirst(m) => AsksFirst(Read(m, b))
         /\ AsksOnce(m) => AsksOnce(Read(m, b))
         /\ Asked(Read(m, b)) \subseteq Asked(m) /\ Answered(Read(m, b)) \subseteq Answered(m)
<1> DEFINE r == Read(m, b)
           N == Len(m) - b
<1>1. /\ r \in Seq(Message) /\ DOMAIN r = 1 .. N /\ N \in Nat /\ Len(r) = N
      /\ \A i \in 1 .. N : r[i] = m[b + i] /\ b + i \in 1 .. Len(m)
      /\ DOMAIN m = 1 .. Len(m) /\ b \in Nat
  BY TailAt
<1> HIDE DEF r, N
<1>2. ASSUME AsksFirst(m) PROVE AsksFirst(r)
  <2>1. SUFFICES ASSUME NEW i \in DOMAIN r, NEW j \in DOMAIN r, r[j].role = "assistant",
                        r[i].role = "tool", r[i].id \in r[j].calls
                 PROVE  j < i
    BY DEF AsksFirst
  <2>2. b + j < b + i  BY <1>1, <1>2, <2>1 DEF AsksFirst
  <2> QED  BY <1>1, <2>1, <2>2
<1>3. ASSUME AsksOnce(m) PROVE AsksOnce(r)
  <2>1. SUFFICES ASSUME NEW i \in DOMAIN r, NEW j \in DOMAIN r, r[i].role = "assistant",
                        r[j].role = "assistant", i # j
                 PROVE  r[i].calls \cap r[j].calls = {}
    BY DEF AsksOnce
  <2>2. b + i # b + j  BY <1>1, <2>1
  <2> QED  BY <1>1, <1>3, <2>1, <2>2 DEF AsksOnce
<1>4. Asked(r) \subseteq Asked(m)
  <2>1. ASSUME NEW c \in Asked(r) PROVE c \in Asked(m)
    <3>1. PICK j \in 1 .. N : r[j].role = "assistant" /\ c \in r[j].calls  BY <1>1, <2>1, AskedAt
    <3> QED  BY <1>1, <3>1, AskedAt
  <2> QED  BY <2>1
<1>5. Answered(r) \subseteq Answered(m)
  <2>1. ASSUME NEW c \in Calls, NEW i \in ToolAt(r, c) PROVE b + i \in ToolAt(m, c)
    BY <1>1 DEF ToolAt
  <2> QED  BY <2>1 DEF Answered
<1> QED  BY <1>2, <1>3, <1>4, <1>5 DEF r

\* A later cutoff leaves fewer unanswered calls, and no call answered before
\* the cutoff becomes one.
LEMMA LaterCutoff ==
  ASSUME NEW m \in Seq(Message), NEW b \in 0 .. Len(m), NEW d \in b .. Len(m), AsksFirst(m)
  PROVE  Orphans(Read(m, d)) \subseteq Orphans(Read(m, b))
<1>1. d \in 0 .. Len(m) /\ b \in Nat /\ d \in Nat /\ b <= d  OBVIOUS
<1>2. ASSUME NEW c \in Orphans(Read(m, d)) PROVE c \in Orphans(Read(m, b))
  <2>1. c \notin Answered(m)  BY <1>1, <1>2, OrphansOfTail
  <2>2. c \notin Answered(Read(m, b))  BY <2>1, TailKeepsOrder
  <2>3. PICK j \in 1 .. Len(m) - d : Read(m, d)[j].role = "assistant" /\ c \in Read(m, d)[j].calls
    BY <1>1, <1>2, TailAt, AskedAt DEF Orphans
  <2>4. Read(m, d)[j] = m[d + j] /\ d + j \in 1 .. Len(m)  BY <1>1, TailAt
  <2>5. d + j - b \in 1 .. Len(m) - b /\ b + (d + j - b) = d + j  BY <1>1, <2>3, <2>4
  <2>6. Read(m, b)[d + j - b] = m[d + j]  BY <2>5, TailAt
  <2>7. c \in Asked(Read(m, b))  BY <2>3, <2>4, <2>5, <2>6, TailAt, AskedAt
  <2> QED  BY <2>2, <2>7 DEF Orphans
<1> QED  BY <1>2

\* A cut at a safe boundary strands no answer.
LEMMA SafeCut ==
  ASSUME NEW m \in Seq(Message), NEW b \in 0 .. Len(m), NEW d \in b + 1 .. Len(m),
         NoStrays(Read(m, b)), InPlace(m), d = Len(m) \/ SafeBoundary(m[d + 1])
  PROVE  NoStrays(Read(m, d))
<1> DEFINE r == Read(m, b)
           s == Read(m, d)
           N == Len(m)
<1>1. d \in 0 .. N /\ b \in Nat /\ d \in Nat /\ b < d /\ d <= N /\ N \in Nat /\ DOMAIN m = 1 .. N
  OBVIOUS
<1>2. /\ DOMAIN r = 1 .. N - b
      /\ \A i \in 1 .. N - b : r[i] = m[b + i] /\ b + i \in 1 .. N
  BY TailAt
<1>3. /\ DOMAIN s = 1 .. N - d
      /\ \A i \in 1 .. N - d : s[i] = m[d + i] /\ d + i \in 1 .. N
  BY <1>1, TailAt
<1> HIDE DEF r, s, N
<1>4. SUFFICES ASSUME NEW i \in DOMAIN s, s[i].role = "tool"
               PROVE  \E j \in 1 .. i - 1 : s[j].role = "assistant" /\ s[i].id \in s[j].calls
  BY DEF NoStrays, s
<1> DEFINE h == d + i
<1>5. /\ h \in DOMAIN m /\ s[i] = m[h] /\ h > d /\ h \in Nat
      /\ h - b \in DOMAIN r /\ b + (h - b) = h /\ h - b \in Nat
  <2>1. i \in 1 .. N - d /\ i \in Nat /\ i >= 1  BY <1>1, <1>3, <1>4
  <2>2. s[i] = m[h] /\ h \in 1 .. N  BY <1>3, <2>1
  <2>3. h > d /\ h \in Nat /\ h <= N  BY <1>1, <2>1, <2>2
  <2>4. h - b \in 1 .. N - b /\ b + (h - b) = h /\ h - b \in Nat  BY <1>1, <2>3
  <2> QED  BY <1>1, <1>2, <2>2, <2>3, <2>4
<1>6. r[h - b] = m[h]  BY <1>2, <1>5
<1> HIDE DEF h
<1>7. PICK k \in 1 .. (h - b) - 1 : r[k].role = "assistant" /\ r[h - b].id \in r[k].calls
  BY <1>4, <1>5, <1>6 DEF NoStrays, r
<1> DEFINE l == b + k
<1>8. l \in DOMAIN m /\ r[k] = m[l] /\ l < h /\ l \in Nat
  <2>1. k \in Nat /\ k >= 1 /\ k < h - b  BY <1>1, <1>5, <1>7
  <2>2. h <= N  BY <1>1, <1>5
  <2>3. k \in 1 .. N - b /\ l < h /\ l \in Nat  BY <1>1, <1>5, <2>1, <2>2
  <2> QED  BY <1>1, <1>2, <2>3
<1> HIDE DEF l
<1>9. m[l].role = "assistant" /\ m[h].id \in m[l].calls /\ m[h].role = "tool"
  BY <1>4, <1>5, <1>6, <1>7, <1>8
<1>10. l > d
  <2>0. l \in Nat /\ d \in Nat  BY <1>1, <1>8
  <2>1. SUFFICES ASSUME l <= d PROVE FALSE  BY <2>0
  <2>2. d + 1 \in l + 1 .. h
    <3>1. h \in Nat /\ h > d  BY <1>5
    <3> QED  BY <2>0, <2>1, <3>1
  <2>3. m[d + 1].role = "tool"  BY <1>5, <1>8, <1>9, <2>2 DEF InPlace
  <2>4. d # N  BY <1>1, <1>5
  <2> QED  BY <2>3, <2>4 DEF SafeBoundary, N
<1>11. l - d \in 1 .. i - 1 /\ l - d \in 1 .. N - d /\ d + (l - d) = l
  <2>1. d \in Nat /\ l \in Nat /\ h \in Nat /\ l > d /\ l < h  BY <1>1, <1>5, <1>8, <1>10
  <2>2. h = d + i /\ i \in Nat  BY <1>3, <1>4 DEF h
  <2>3. h <= N /\ N \in Nat  BY <1>1, <1>5
  <2> QED  BY <2>1, <2>2, <2>3
<1>12. s[l - d] = m[l]  BY <1>3, <1>11
<1> QED  BY <1>5, <1>9, <1>11, <1>12

-----------------------------------------------------------------------------
(***************************************************************************)
(* The second inductive invariant: memory, file and parked calls in step.  *)
(***************************************************************************)
\* The records an invocation that starts now would read.
Kept == Read(log, base)

\* Every call has been asked for once, before its answers; only such calls are
\* visited or parked.
RecordsOrdered ==
  /\ msgs \in Seq(Message) /\ AsksOnce(log) /\ NoStrays(log)
  /\ queue \cup pend \cup parked \subseteq Asked(log)

\* Unanswered calls are calls of the last assistant, and only answers followed it.
OrphansOpen == Orphans(Kept) \subseteq Open(log)

\* The orphan pass visits exactly the unanswered calls, and its records do not
\* change what repair makes of the message list.
OrphanPass == InRepair => queue = Orphans(Kept) /\ Repair(Kept) = Repair(msgs)

\* Where a request is being prepared: nothing is unanswered, and the file holds
\* the request.
Ready == pc \in {"prompt", "nudge", "send"}
RequestOnDisk == Ready => Orphans(Kept) = {} /\ Repair(Kept) = msgs

\* In a turn: what the loop has not visited or has parked is unanswered, and as
\* long as nothing is parked the file holds memory and the rest of the batch.
TurnOnDisk ==
  InTurn => /\ queue \cup parked \subseteq Orphans(Kept)
            /\ parked = {} => /\ Orphans(Kept) = queue /\ queue \cap Answered(msgs) = {}
                              /\ \E lo \in 1 .. issued + 1 :
                                   queue = lo .. issued /\ Repair(Kept) = msgs \o Cancels(lo, issued)

\* Which continuation and which turn a program point belongs to.
Positions ==
  /\ pc \in {"compact", "prompt"} => cont = "prompt"
  /\ pc = "nudge" \/ InTurn => turn # 0

\* Without faults: parked calls are unanswered until approve visits them, and a
\* session that says it awaits approval has one.
Awaiting == (pc = "end" /\ reason = "awaiting_approval") \/ (pc = "idle" /\ lastEnd = "awaiting_approval")
PendOpen ==
  /\ ~torn
  /\ IF InApprove THEN queue \subseteq Orphans(Kept) /\ pend \subseteq Open(log)
                  ELSE pend \subseteq Orphans(Kept)
  /\ pc = "save" => parked # {}
  /\ Awaiting => pend # {}

\* Without faults: answers directly follow their assistant, so no cutoff has
\* separated them.
Unstranded == InPlace(log) /\ NoStrays(Kept)

\* Without faults: an unanswered call has been executed as the answer about to be
\* recorded says, and not at all when none is.
Owed(c) == IF Executing(c) THEN Executions(AnswerOf(kind)) ELSE {0}
TruthSoFar ==
  /\ \A i \in DOMAIN log : log[i].role = "tool" => runs[log[i].id] \in Executions(log[i].ans)
  /\ \A c \in Calls \ Answered(log) : runs[c] \in Owed(c)
  /\ pc \in {"record", "run"} => kind \notin {"bad", "failed"}
  /\ pc = "run" => kind # "deny"

\* Without faults: from a transport failure until its retry the file holds the
\* request that failed.
Retrying ==
  \/ pc = "end" /\ reason = "transport_error"
  \/ pc = "idle" /\ lastEnd = "transport_error"
  \/ cont = "retry" /\ turn = 0 /\ pc \in {"load", "repair", "cancel", "send"}
RetryOnDisk == Retrying => Repair(Kept) = failed

FaultFree == faults = 0 => PendOpen /\ Unstranded /\ TruthSoFar /\ RetryOnDisk

JInv ==
  /\ RecordsOrdered /\ OrphansOpen /\ OrphanPass /\ RequestOnDisk /\ TurnOnDisk /\ Positions
  /\ FaultFree

\* What the two invariants say of the records that are read.
LEMMA KeptFacts ==
  ASSUME IInv
  PROVE  /\ log \in Seq(Message) /\ base \in 0 .. Len(log) /\ Kept \in Seq(Message)
         /\ Asked(Kept) \subseteq Asked(log) /\ Answered(Kept) \subseteq Answered(log)
         /\ Orphans(Kept) \subseteq Asked(log) /\ Orphans(Kept) \cap Answered(log) = {}
         /\ Asked(log) \subseteq Calls /\ Orphans(Kept) \subseteq Calls
         /\ AsksFirst(log) /\ AsksFirst(Kept) /\ (AsksOnce(log) => AsksOnce(Kept))
<1>1. log \in Seq(Message) /\ base \in 0 .. Len(log) /\ AsksFirst(log)
  BY DEF IInv, TypeOK, DiskOK, Emission
<1>2. Kept \in Seq(Message)  BY <1>1, TailAt DEF Kept
<1>3. /\ Asked(Kept) \subseteq Asked(log) /\ Answered(Kept) \subseteq Answered(log)
      /\ AsksFirst(Kept) /\ (AsksOnce(log) => AsksOnce(Kept))
  BY <1>1, TailKeepsOrder DEF Kept
<1>4. Orphans(Kept) \subseteq Asked(log) /\ Orphans(Kept) \cap Answered(log) = {}
  BY <1>1, OrphansOfTail DEF Kept
<1>5. Asked(log) \subseteq Calls  BY <1>1, AskedTyped
<1> QED  BY <1>1, <1>2, <1>3, <1>4, <1>5

-----------------------------------------------------------------------------
(***************************************************************************)
(* What the steps that change the records do to them.                      *)
(***************************************************************************)
\* One more answer, to a call that was asked for.
LEMMA ToolStep ==
  ASSUME IInv, JInv, NEW c \in Calls, NEW a \in Answer, c \in Asked(log),
         log' = Append(log, Tool(c, a)), base' = base
  PROVE  /\ Kept' = Append(Kept, Tool(c, a)) /\ Orphans(Kept') = Orphans(Kept) \ {c}
         /\ AsksOnce(log') /\ NoStrays(log') /\ Asked(log') = Asked(log)
         /\ Answered(log') = Answered(log) \cup {c}
         /\ Open(log) \subseteq Open(log')
         /\ c \in Orphans(Kept) /\ InPlace(log) => InPlace(log')
         /\ c \in Orphans(Kept) /\ NoStrays(Kept) => NoStrays(Kept')
<1>1. Tool(c, a) \in Message  BY RecordsAreMessages
<1>2. Kept' = Append(Kept, Tool(c, a))  BY <1>1, KeptFacts, ReadAppend DEF Kept
<1>3. AsksOnce(log) /\ NoStrays(log) /\ log \in Seq(Message) /\ Kept \in Seq(Message)
  BY KeptFacts DEF JInv, RecordsOrdered
<1>4. /\ AsksOnce(log') /\ NoStrays(log') /\ Open(log) \subseteq Open(log')
      /\ InPlace(log) /\ c \in Open(log) => InPlace(log')
  BY <1>3, ToolKeepsOrder
<1>5. /\ Orphans(Kept') = Orphans(Kept) \ {c}
      /\ NoStrays(Kept) /\ c \in Asked(Kept) => NoStrays(Kept')
  BY <1>2, <1>3, ToolKeepsOrder
<1>6. Answered(log') = Answered(log) \cup {c} /\ Asked(log') = Asked(log)
  BY <1>3, AppendToolRecord
<1>7. c \in Orphans(Kept) => c \in Open(log) /\ c \in Asked(Kept)
  BY DEF JInv, OrphansOpen, Orphans
<1> QED  BY <1>2, <1>4, <1>5, <1>6, <1>7

\* A prompt's or a nudge's user record.
LEMMA UserStep ==
  ASSUME IInv, JInv, AppendUser
  PROVE  /\ Orphans(Kept) = {} /\ Orphans(Kept') = {} /\ Repair(Kept') = msgs' /\ msgs' \in Seq(Message)
         /\ AsksOnce(log') /\ NoStrays(log') /\ Asked(log') = Asked(log)
         /\ InPlace(log) => InPlace(log')
         /\ NoStrays(Kept) => NoStrays(Kept')
<1>1. log' = Append(log, User) /\ base' = base /\ msgs' = Append(msgs, User) /\ Ready
  BY DEF AppendUser, Ready
<1>2. User \in Message  BY RecordsAreMessages
<1>3. Kept' = Append(Kept, User)  BY <1>1, <1>2, KeptFacts, ReadAppend DEF Kept
<1>4. /\ AsksOnce(log) /\ NoStrays(log) /\ log \in Seq(Message) /\ Kept \in Seq(Message)
      /\ msgs \in Seq(Message) /\ Orphans(Kept) = {} /\ Repair(Kept) = msgs
  BY <1>1, KeptFacts DEF JInv, RecordsOrdered, RequestOnDisk
<1>5. AsksOnce(log') /\ NoStrays(log') /\ (InPlace(log) => InPlace(log'))
  BY <1>1, <1>4, UserKeepsOrder
<1>6. Orphans(Kept') = Orphans(Kept) /\ (NoStrays(Kept) => NoStrays(Kept'))
  BY <1>3, <1>4, UserKeepsOrder
<1>7. Repair(Kept') = Append(Repair(Kept), User)  BY <1>3, <1>4, RepairUser
<1>8. Asked(log') = Asked(log)  BY <1>1, <1>4, AppendUserRecord
<1>9. msgs' \in Seq(Message)  BY <1>1, <1>2, <1>4
<1> QED  BY <1>1, <1>4, <1>5, <1>6, <1>7, <1>8, <1>9

\* An assistant record, asking for the next calls.
LEMMA ReplyStep ==
  ASSUME IInv, JInv, pc = "send", NEW hi \in Nat, hi >= issued, issued + 1 .. hi \subseteq Calls,
         AppendAssistant(issued + 1 .. hi)
  PROVE  /\ Orphans(Kept) = {} /\ Orphans(Kept') = issued + 1 .. hi /\ issued + 1 .. hi \subseteq Open(log')
         /\ Asked(log') = Asked(log) \cup (issued + 1 .. hi) /\ Answered(log') = Answered(log)
         /\ Repair(Kept') = msgs' \o Cancels(issued + 1, hi) /\ msgs' \in Seq(Message)
         /\ (issued + 1 .. hi) \cap Answered(msgs') = {}
         /\ AsksOnce(log') /\ NoStrays(log')
         /\ InPlace(log) => InPlace(log')
         /\ NoStrays(Kept) => NoStrays(Kept')
<1> DEFINE lo == issued + 1
           S == lo .. hi
           x == Assistant(S)
<1>0. issued \in Nat /\ lo \in Nat /\ lo <= hi + 1  BY DEF IInv, TypeOK, CountersOK
<1>1. log' = Append(log, x) /\ base' = base /\ msgs' = Append(msgs, x) /\ Ready
  BY DEF AppendAssistant, Ready
<1>2. x \in Message /\ S \in SUBSET Calls  BY RecordsAreMessages
<1>3. Asked(log) \cup Answered(log) \subseteq 1 .. issued  BY DEF IInv, Emission
<1>4. S \cap (1 .. issued) = {}  BY <1>0
<1>5. /\ AsksOnce(log) /\ NoStrays(log) /\ log \in Seq(Message) /\ Kept \in Seq(Message)
      /\ msgs \in Seq(Message) /\ Orphans(Kept) = {} /\ Repair(Kept) = msgs
      /\ Asked(Kept) \cup Answered(Kept) \subseteq Asked(log) \cup Answered(log)
  BY <1>1, KeptFacts DEF JInv, RecordsOrdered, RequestOnDisk
<1> HIDE DEF lo
<1>6. S \cap (Asked(log) \cup Answered(log)) = {} /\ S \cap (Asked(Kept) \cup Answered(Kept)) = {}
  BY <1>3, <1>4, <1>5
<1>7. Repair(Append(Kept, x)) = Append(Repair(Kept), x) \o Cancels(lo, hi)
  BY <1>0, <1>2, <1>5, <1>6, RepairAssistant
<1> HIDE DEF S, x
<1>8. Kept' = Append(Kept, x)  BY <1>1, <1>2, KeptFacts, ReadAppend DEF Kept
<1>9. /\ AsksOnce(log') /\ NoStrays(log') /\ (InPlace(log) => InPlace(log'))
      /\ S \subseteq Open(log')
  BY <1>1, <1>2, <1>5, <1>6, AssistantKeepsOrder DEF x
<1>10. Orphans(Kept') = S /\ (NoStrays(Kept) => NoStrays(Kept'))
  <2>1. Orphans(Kept') = Orphans(Kept) \cup S /\ (NoStrays(Kept) => NoStrays(Kept'))
    BY <1>2, <1>5, <1>6, <1>8, AssistantKeepsOrder DEF x
  <2> QED  BY <1>5, <2>1
<1>11. Asked(log') = Asked(log) \cup S /\ Answered(log') = Answered(log)
  BY <1>1, <1>2, <1>5, AppendAssistantRecord DEF x
<1>12. msgs' \in Seq(Message)  BY <1>1, <1>2, <1>5
<1>13. Answered(msgs') = Answered(msgs)
  BY <1>1, <1>2, <1>5, AppendAssistantRecord DEF x
<1>14. Answered(msgs) \subseteq Asked(Kept) \cup Answered(Kept)  BY <1>5, RepairTyped
<1>15. S \cap Answered(msgs') = {}  BY <1>6, <1>13, <1>14
<1>16. Repair(Kept') = msgs' \o Cancels(lo, hi)  BY <1>1, <1>5, <1>7, <1>8
<1> QED  BY <1>5, <1>9, <1>10, <1>11, <1>12, <1>15, <1>16 DEF S, lo

\* Nothing to cancel.
LEMMA NoCancels ==
  ASSUME NEW lo \in Nat, NEW hi \in Nat, lo = hi + 1, NEW s \in Seq(Message)
  PROVE  s \o Cancels(lo, hi) = s
<1>1. hi + 1 - lo = 0  OBVIOUS
<1>2. Cancels(lo, hi) = <<>>  BY <1>1 DEF Cancels
<1> QED  BY <1>2, ConcatEmptySeq

\* A reply without calls.
LEMMA EmptyReplyStep ==
  ASSUME IInv, JInv, ReplyWithText \/ ReplyEmptyToApprove
  PROVE  /\ Orphans(Kept) = {} /\ Orphans(Kept') = {} /\ Repair(Kept') = msgs' /\ msgs' \in Seq(Message)
         /\ Asked(log') = Asked(log) /\ Answered(log') = Answered(log)
         /\ AsksOnce(log') /\ NoStrays(log')
         /\ InPlace(log) => InPlace(log')
         /\ NoStrays(Kept) => NoStrays(Kept')
<1>1. issued \in Nat  BY DEF IInv, TypeOK, CountersOK
<1>2. issued + 1 .. issued = {} /\ issued >= issued  BY <1>1
<1>3. pc = "send" /\ AppendAssistant(issued + 1 .. issued)
  BY <1>2 DEF ReplyWithText, ReplyEmptyToApprove
<1>4. issued + 1 .. issued \subseteq Calls  BY <1>2
<1> DEFINE lo == issued + 1
<1>5. /\ Orphans(Kept) = {} /\ Orphans(Kept') = lo .. issued
      /\ Asked(log') = Asked(log) \cup (lo .. issued) /\ Answered(log') = Answered(log)
      /\ Repair(Kept') = msgs' \o Cancels(lo, issued) /\ msgs' \in Seq(Message)
      /\ AsksOnce(log') /\ NoStrays(log')
      /\ InPlace(log) => InPlace(log')
      /\ NoStrays(Kept) => NoStrays(Kept')
  BY <1>1, <1>2, <1>3, <1>4, ReplyStep
<1>6. lo \in Nat /\ lo = issued + 1 /\ lo .. issued = {}  BY <1>1
<1> HIDE DEF lo
<1>7. msgs' \o Cancels(lo, issued) = msgs'  BY <1>1, <1>5, <1>6, NoCancels
<1> QED  BY <1>5, <1>6, <1>7

\* A reply with calls.
LEMMA CallsStep ==
  ASSUME IInv, JInv, ReplyWithCalls
  PROVE  /\ Orphans(Kept) = {} /\ Orphans(Kept') = queue' /\ queue' \subseteq Open(log')
         /\ Asked(log') = Asked(log) \cup queue' /\ Answered(log') = Answered(log)
         /\ msgs' \in Seq(Message) /\ queue' \cap Answered(msgs') = {}
         /\ \E lo \in 1 .. issued' + 1 :
              queue' = lo .. issued' /\ Repair(Kept') = msgs' \o Cancels(lo, issued')
         /\ AsksOnce(log') /\ NoStrays(log')
         /\ InPlace(log) => InPlace(log')
         /\ NoStrays(Kept) => NoStrays(Kept')
<1>1. PICK n \in 1 .. MaxBatch : /\ issued + 1 .. issued + n \subseteq Calls
                                /\ AppendAssistant(issued + 1 .. issued + n)
                                /\ issued' = issued + n
                                /\ queue' = issued + 1 .. issued + n
  BY DEF ReplyWithCalls
<1>2. issued \in Nat /\ n \in Nat /\ pc = "send"
  BY BoundsAssumption DEF IInv, TypeOK, CountersOK, ReplyWithCalls
<1>3. /\ issued' \in Nat /\ issued' >= issued /\ issued + 1 \in 1 .. issued' + 1
      /\ issued + 1 .. issued' \subseteq Calls /\ AppendAssistant(issued + 1 .. issued')
      /\ queue' = issued + 1 .. issued'
  BY <1>1, <1>2
<1>4. /\ Orphans(Kept) = {} /\ Orphans(Kept') = issued + 1 .. issued'
      /\ issued + 1 .. issued' \subseteq Open(log')
      /\ Asked(log') = Asked(log) \cup (issued + 1 .. issued') /\ Answered(log') = Answered(log)
      /\ Repair(Kept') = msgs' \o Cancels(issued + 1, issued') /\ msgs' \in Seq(Message)
      /\ (issued + 1 .. issued') \cap Answered(msgs') = {}
      /\ AsksOnce(log') /\ NoStrays(log')
      /\ InPlace(log) => InPlace(log')
      /\ NoStrays(Kept) => NoStrays(Kept')
  BY <1>2, <1>3, ReplyStep
<1> QED  BY <1>3, <1>4

\* A compaction.
LEMMA CompactStep ==
  ASSUME IInv, JInv, Compact
  PROVE  /\ UNCHANGED log /\ Orphans(Kept') \subseteq Orphans(Kept)
         /\ InPlace(log) /\ NoStrays(Kept) => NoStrays(Kept')
<1>1. /\ UNCHANGED log /\ base' \in base + 1 .. Len(log)
      /\ base' = Len(log) \/ SafeBoundary(log[base' + 1])
  BY DEF Compact, Cutoffs
<1>2. log \in Seq(Message) /\ base \in 0 .. Len(log) /\ AsksFirst(log)  BY KeptFacts
<1>3. base' \in base .. Len(log)  BY <1>1, <1>2
<1>4. Orphans(Kept') \subseteq Orphans(Kept)  BY <1>1, <1>2, <1>3, LaterCutoff DEF Kept
<1>5. InPlace(log) /\ NoStrays(Kept) => NoStrays(Kept')  BY <1>1, <1>2, SafeCut DEF Kept
<1> QED  BY <1>1, <1>4, <1>5

-----------------------------------------------------------------------------
\* The answers that join the records, and what each says of its call.
LEMMA AnswerStep ==
  ASSUME IInv, JInv, NEW c \in Calls, AnswerCall(c) \/ RefuseCall(c) \/ RepairCancels(c)
  PROVE  \E a \in Answer :
           /\ log' = Append(log, Tool(c, a)) /\ base' = base
           /\ ~RepairCancels(c) => msgs' = Append(msgs, Tool(c, a))
           /\ RepairCancels(c) => msgs' = msgs /\ a = "cancel"
           /\ queue' = queue \ {c} /\ First(c, queue) /\ c \in Asked(log)
           /\ UNCHANGED <<pend, parked, issued, cont, turn, torn, lastEnd, faults, runs, failed, reason>>
           /\ a = IF pc = "answer" THEN AnswerOf(kind) ELSE IF pc = "dispatch" THEN "refused" ELSE "cancel"
<1>1. First(c, queue) => c \in Asked(log)  BY DEF First, JInv, RecordsOrdered
<1>2. CASE AnswerCall(c)
  <2> DEFINE a == AnswerOf(kind)
  <2>1. a \in Answer  BY DEF Answer, AnswerOf
  <2>2. AppendTool(c, a) /\ base' = base /\ pc = "answer" /\ First(c, queue)
        /\ UNCHANGED <<pend, parked, cont, turn, torn, lastEnd, reason>> /\ UNCHANGED hist
    BY <1>2 DEF AnswerCall
  <2>3. a = IF pc = "answer" THEN AnswerOf(kind) ELSE IF pc = "dispatch" THEN "refused" ELSE "cancel"
    BY <2>2
  <2>4. ~RepairCancels(c)  BY <2>2 DEF RepairCancels
  <2> HIDE DEF a
  <2> QED  BY <1>1, <2>1, <2>2, <2>3, <2>4 DEF AppendTool, hist
<1>3. CASE RefuseCall(c)
  <2>1. AppendTool(c, "refused") /\ base' = base /\ pc = "dispatch" /\ First(c, queue)
        /\ UNCHANGED <<pend, parked, cont, turn, torn, lastEnd, reason>> /\ UNCHANGED hist
    BY <1>3 DEF RefuseCall
  <2>2. ~RepairCancels(c) /\ "refused" \in Answer  BY <2>1 DEF RepairCancels, Answer
  <2> QED  BY <1>1, <2>1, <2>2 DEF AppendTool, hist
<1>4. CASE RepairCancels(c)
  <2>1. "cancel" \in Answer  BY DEF Answer
  <2>2. pc = "cancel" /\ pc \notin {"answer", "dispatch"}  BY <1>4 DEF RepairCancels
  <2> QED  BY <1>1, <1>4, <2>1, <2>2 DEF RepairCancels, hist
<1> QED  BY <1>2, <1>3, <1>4

\* The steps that leave the records alone.
Reading ==
  \/ Human \/ SkipCompaction \/ CompactTorn \/ Load \/ LoadApprove \/ RefuseGrant
  \/ ClearPending \/ RepairDone \/ TransportFailed \/ ApiRejected \/ OutOfTurns
  \/ \E c \in Calls : \/ RecordDecision(c) \/ RunCall(c) \/ RunFails(c) \/ RunBreaks(c)
                      \/ RepairClears(c) \/ RepairRejects(c)
                      \/ \E k \in Kind : Dispatch(c, k)
  \/ Ending \/ Crash \/ WriteFails \/ UNCHANGED vars

\* They do leave them alone.
LEMMA ReadingKeeps ==
  ASSUME Reading
  PROVE  UNCHANGED <<log, base>> /\ Kept' = Kept
<1>1. UNCHANGED <<log, base>>
  BY DEF Reading, Human, Tell, ApprovePending, ApproveResume, ApproveTorn, Begin, SkipCompaction,
         CompactTorn, Stop, Load, LoadApprove, RefuseGrant, ClearPending, RepairDone,
         TransportFailed, ApiRejected, OutOfTurns, RecordDecision, RunCall, RunFails, RunBreaks, RepairClears,
         RepairRejects, Dispatch, Park, LeaveUnanswered, Handle, Ending, SessionExhausted,
         DispatchDone, SavePending, End, Crash, WriteFails, Fault, disk, vars
<1> QED  BY <1>1 DEF Kept

\* Every step reads, compacts, or appends one record.
LEMMA StepKinds ==
  ASSUME [Next]_vars
  PROVE  \/ Reading \/ Compact \/ AppendUser \/ ReplyWithText \/ ReplyEmptyToApprove \/ ReplyWithCalls
         \/ \E c \in Calls : AnswerCall(c) \/ RefuseCall(c) \/ RepairCancels(c)
BY DEF Reading, Next, Step, Compaction, Start, Model, Pipeline, Healing, Turn

\* The records stay in order, and what is visited or parked was asked for.
LEMMA RecordsNext == IInv /\ JInv /\ [Next]_vars => RecordsOrdered'
<1> SUFFICES ASSUME IInv, JInv, [Next]_vars PROVE RecordsOrdered'
  OBVIOUS
<1>0. /\ msgs \in Seq(Message) /\ AsksOnce(log) /\ NoStrays(log)
      /\ queue \subseteq Asked(log) /\ pend \subseteq Asked(log) /\ parked \subseteq Asked(log)
      /\ Kept \in Seq(Message) /\ Orphans(Kept) \subseteq Asked(log)
  BY KeptFacts DEF JInv, RecordsOrdered
<1>1. CASE Reading
  <2>1. UNCHANGED <<log, base>> /\ Kept' = Kept  BY <1>1, ReadingKeeps
  <2>2. msgs' \in Seq(Message)
    <3>1. Repair(msgs) \in Seq(Message) /\ <<>> \in Seq(Message)  BY <1>0, RepairTyped
    <3>2. msgs' \in {msgs, Kept, Repair(msgs), <<>>}
      BY <1>1 DEF Reading, Human, Tell, ApprovePending, ApproveResume, ApproveTorn, Begin,
             SkipCompaction, CompactTorn, Stop, Load, LoadApprove, RefuseGrant, ClearPending,
             RepairDone, TransportFailed, ApiRejected, OutOfTurns, RecordDecision, RunCall,
             RunFails, RunBreaks, RepairClears, RepairRejects, Dispatch, Park, LeaveUnanswered, Handle,
             Ending, SessionExhausted, DispatchDone, SavePending, End, Exit, Crash, WriteFails,
             Fault, proc, vars, Kept
    <3> QED  BY <1>0, <3>1, <3>2
  <2>3. queue' \subseteq Asked(log) /\ pend' \subseteq Asked(log) /\ parked' \subseteq Asked(log)
    <3>1. CASE Human \/ SkipCompaction \/ CompactTorn \/ RefuseGrant \/ RepairDone
               \/ TransportFailed \/ ApiRejected \/ OutOfTurns \/ UNCHANGED vars
      BY <1>0, <3>1 DEF Human, Tell, ApprovePending, ApproveResume, ApproveTorn, Begin,
             SkipCompaction, CompactTorn, Stop, RefuseGrant, RepairDone, TransportFailed,
             ApiRejected, OutOfTurns, disk, proc, vars
    <3>2. CASE Load
      BY <1>0, <3>2 DEF Load, Kept, disk
    <3>3. CASE LoadApprove
      BY <1>0, <3>3 DEF LoadApprove, disk
    <3>4. CASE ClearPending
      <4>1. msgs = Kept  BY <3>4 DEF ClearPending, IInv, Phases, ApproveInStep, InApprove, Kept
      <4> QED  BY <1>0, <3>4, <4>1 DEF ClearPending
    <3>5. ASSUME NEW c \in Calls, \/ RecordDecision(c) \/ RunCall(c) \/ RunFails(c) \/ RunBreaks(c)
                                  \/ RepairClears(c) \/ RepairRejects(c)
          PROVE  queue' \subseteq Asked(log) /\ pend' \subseteq Asked(log) /\ parked' \subseteq Asked(log)
      BY <1>0, <3>5 DEF RecordDecision, RunCall, RunFails, RunBreaks, RepairClears, RepairRejects, disk, proc
    <3>6. ASSUME NEW c \in Calls, NEW k \in Kind, Dispatch(c, k)
          PROVE  queue' \subseteq Asked(log) /\ pend' \subseteq Asked(log) /\ parked' \subseteq Asked(log)
      BY <1>0, <3>6 DEF Dispatch, Park, LeaveUnanswered, Handle, First, disk
    <3>7. CASE Ending
      BY <1>0, <3>7 DEF Ending, SessionExhausted, DispatchDone, SavePending, End, Exit, Stop, disk, proc
    <3>8. CASE Crash \/ WriteFails
      BY <1>0, <3>8 DEF Crash, WriteFails, Fault, PendingSurvives, PendingTorn, Exit, Stop
    <3> QED  BY <1>1, <3>1, <3>2, <3>3, <3>4, <3>5, <3>6, <3>7, <3>8 DEF Reading
  <2> QED  BY <1>0, <2>1, <2>2, <2>3 DEF RecordsOrdered
<1>2. CASE Compact
  BY <1>0, <1>2 DEF Compact, RecordsOrdered, proc
<1>3. CASE AppendUser
  BY <1>0, <1>3, UserStep DEF AppendUser, RecordsOrdered
<1>4. CASE ReplyWithText \/ ReplyEmptyToApprove
  <2>1. UNCHANGED <<queue, pend, parked>>
    BY <1>4 DEF ReplyWithText, ReplyEmptyToApprove, AppendAssistant
  <2> QED  BY <1>0, <1>4, <2>1, EmptyReplyStep DEF RecordsOrdered
<1>5. CASE ReplyWithCalls
  <2>1. UNCHANGED <<pend, parked>>
    BY <1>5 DEF ReplyWithCalls, AppendAssistant
  <2> QED  BY <1>0, <1>5, <2>1, CallsStep DEF RecordsOrdered
<1>6. ASSUME NEW c \in Calls, AnswerCall(c) \/ RefuseCall(c) \/ RepairCancels(c)
      PROVE  RecordsOrdered'
  <2>1. PICK a \in Answer :
           /\ log' = Append(log, Tool(c, a)) /\ base' = base
           /\ ~RepairCancels(c) => msgs' = Append(msgs, Tool(c, a))
           /\ RepairCancels(c) => msgs' = msgs
           /\ queue' = queue \ {c} /\ First(c, queue) /\ c \in Asked(log)
           /\ UNCHANGED <<pend, parked>>
    BY <1>6, AnswerStep
  <2>2. AsksOnce(log') /\ NoStrays(log') /\ Asked(log') = Asked(log)
    BY <2>1, ToolStep
  <2>3. msgs' \in Seq(Message)
    <3>1. Tool(c, a) \in Message  BY RecordsAreMessages
    <3>2. Append(msgs, Tool(c, a)) \in Seq(Message)  BY <1>0, <3>1
    <3>3. msgs' \in {msgs, Append(msgs, Tool(c, a))}  BY <2>1
    <3> QED  BY <1>0, <3>2, <3>3
  <2> QED  BY <1>0, <2>1, <2>2, <2>3 DEF RecordsOrdered
<1> QED  BY <1>1, <1>2, <1>3, <1>4, <1>5, <1>6, StepKinds

\* No step leaves an unanswered call behind a later record.
LEMMA OpenNext == IInv /\ JInv /\ [Next]_vars => OrphansOpen'
<1> SUFFICES ASSUME IInv, JInv, [Next]_vars PROVE OrphansOpen'
  OBVIOUS
<1>0. Orphans(Kept) \subseteq Open(log)  BY DEF JInv, OrphansOpen
<1>1. CASE Reading
  BY <1>0, <1>1, ReadingKeeps DEF OrphansOpen
<1>2. CASE Compact
  BY <1>0, <1>2, CompactStep DEF OrphansOpen
<1>3. CASE AppendUser
  BY <1>3, UserStep DEF OrphansOpen
<1>4. CASE ReplyWithText \/ ReplyEmptyToApprove
  BY <1>4, EmptyReplyStep DEF OrphansOpen
<1>5. CASE ReplyWithCalls
  BY <1>5, CallsStep DEF OrphansOpen
<1>6. ASSUME NEW c \in Calls, AnswerCall(c) \/ RefuseCall(c) \/ RepairCancels(c)
      PROVE  OrphansOpen'
  <2>1. PICK a \in Answer : log' = Append(log, Tool(c, a)) /\ base' = base /\ c \in Asked(log)
    BY <1>6, AnswerStep
  <2>2. Orphans(Kept') = Orphans(Kept) \ {c} /\ Open(log) \subseteq Open(log')
    BY <2>1, ToolStep
  <2> QED  BY <1>0, <2>2 DEF OrphansOpen
<1> QED  BY <1>1, <1>2, <1>3, <1>4, <1>5, <1>6, StepKinds

\* The orphan pass: what it still has to visit is what the file lacks.
LEMMA PassNext == IInv /\ JInv /\ [Next]_vars => OrphanPass'
<1> SUFFICES ASSUME IInv, JInv, [Next]_vars PROVE OrphanPass'
  OBVIOUS
<1>0. OrphanPass  BY DEF JInv
<1>1. CASE Reading
  <2>1. UNCHANGED <<log, base>> /\ Kept' = Kept  BY <1>1, ReadingKeeps
  <2>2. CASE Load
    BY <2>1, <2>2 DEF Load, OrphanPass, Kept
  <2>3. CASE ClearPending
    <3>1. msgs = Kept  BY <2>3 DEF ClearPending, IInv, Phases, ApproveInStep, InApprove, Kept
    <3> QED  BY <2>1, <2>3, <3>1 DEF ClearPending, OrphanPass
  <2>4. CASE \E c \in Calls : RepairClears(c) \/ RepairRejects(c)
    BY <1>0, <2>1, <2>4 DEF RepairClears, RepairRejects, OrphanPass, InRepair, proc
  <2>5. CASE UNCHANGED vars
    BY <1>0, <2>1, <2>5 DEF OrphanPass, InRepair, vars, proc
  <2>6. ASSUME ~Load, ~ClearPending, ~ \E c \in Calls : RepairClears(c) \/ RepairRejects(c),
               ~UNCHANGED vars
        PROVE  ~InRepair'
    <3>1. CASE \/ Human \/ SkipCompaction \/ CompactTorn \/ LoadApprove \/ RefuseGrant \/ RepairDone
               \/ TransportFailed \/ ApiRejected \/ OutOfTurns \/ Ending \/ Crash \/ WriteFails
      BY <3>1 DEF Human, Tell, ApprovePending, ApproveResume, ApproveTorn, SkipCompaction,
             CompactTorn, Stop, LoadApprove, RefuseGrant, RepairDone, TransportFailed, ApiRejected,
             OutOfTurns, Ending, SessionExhausted, DispatchDone, SavePending, End, Exit, Crash,
             WriteFails, InRepair
    <3>2. ASSUME NEW c \in Calls, RecordDecision(c) \/ RunCall(c) \/ RunFails(c) \/ RunBreaks(c) PROVE ~InRepair'
      BY <3>2 DEF RecordDecision, RunCall, RunFails, RunBreaks, InRepair
    <3>3. ASSUME NEW c \in Calls, NEW k \in Kind, Dispatch(c, k) PROVE ~InRepair'
      BY <3>3, DispatchEffect DEF Park, LeaveUnanswered, InRepair
    <3> QED  BY <1>1, <2>6, <3>1, <3>2, <3>3 DEF Reading
  <2> QED  BY <2>2, <2>3, <2>4, <2>5, <2>6 DEF OrphanPass
<1>2. CASE Compact \/ AppendUser \/ ReplyWithText \/ ReplyEmptyToApprove \/ ReplyWithCalls
  BY <1>2 DEF Compact, AppendUser, ReplyWithText, ReplyEmptyToApprove, ReplyWithCalls, OrphanPass,
              InRepair
<1>3. ASSUME NEW c \in Calls, AnswerCall(c) \/ RefuseCall(c) PROVE OrphanPass'
  <2>1. pc' \in {"dispatch", "clear", "record"}
    BY <1>3 DEF AnswerCall, RefuseCall
  <2> QED  BY <2>1 DEF OrphanPass, InRepair
<1>4. ASSUME NEW c \in Calls, RepairCancels(c) PROVE OrphanPass'
  <2>1. /\ log' = Append(log, Tool(c, "cancel")) /\ base' = base /\ c \in Asked(log)
        /\ msgs' = msgs /\ queue' = queue \ {c} /\ First(c, queue) /\ "cancel" \in Answer
    BY <1>4, AnswerStep DEF Answer
  <2>2. Kept' = Append(Kept, Tool(c, "cancel")) /\ Orphans(Kept') = Orphans(Kept) \ {c}
    BY <2>1, ToolStep
  <2>3. queue = Orphans(Kept) /\ Repair(Kept) = Repair(msgs)
    BY <1>0, <1>4 DEF OrphanPass, InRepair, RepairCancels
  <2>4. c \in Asked(Kept)  BY <2>1, <2>3 DEF First, Orphans
  <2>5. Repair(Append(Kept, Tool(c, "cancel"))) = Repair(Kept)  BY <2>4, KeptFacts, RepairCancel
  <2> QED  BY <2>1, <2>2, <2>3, <2>5 DEF OrphanPass
<1> QED  BY <1>1, <1>2, <1>3, <1>4, StepKinds

-----------------------------------------------------------------------------
\* Before a request: the file holds what memory holds.
LEMMA RequestNext == IInv /\ JInv /\ [Next]_vars => RequestOnDisk'
<1> SUFFICES ASSUME IInv, JInv, [Next]_vars PROVE RequestOnDisk'
  OBVIOUS
<1>0. RequestOnDisk /\ OrphanPass /\ TurnOnDisk /\ msgs \in Seq(Message)
  BY DEF JInv, RecordsOrdered
<1>1. CASE Reading
  <2>1. UNCHANGED <<log, base>> /\ Kept' = Kept  BY <1>1, ReadingKeeps
  <2>2. CASE RepairDone
    <3>1. queue = {} /\ InRepair /\ msgs' = Repair(msgs)  BY <2>2 DEF RepairDone, InRepair
    <3>2. Orphans(Kept) = {} /\ Repair(Kept) = msgs'  BY <1>0, <3>1 DEF OrphanPass
    <3> QED  BY <2>1, <3>2 DEF RequestOnDisk
  <2>3. CASE DispatchDone
    <3>1. SUFFICES ASSUME pc' = "send" PROVE Orphans(Kept) = {} /\ Repair(Kept) = msgs
      BY <2>1, <2>3 DEF DispatchDone, RequestOnDisk, Ready, proc, suspending
    <3>2. parked = {} /\ queue = {} /\ InTurn
      BY <2>3, <3>1 DEF DispatchDone, suspending, InTurn, IInv, Phases
    <3>3. PICK lo \in 1 .. issued + 1 : queue = lo .. issued /\ Repair(Kept) = msgs \o Cancels(lo, issued)
      BY <1>0, <3>2 DEF TurnOnDisk
    <3>4. issued \in Nat /\ lo \in Nat  BY DEF IInv, TypeOK, CountersOK
    <3>5. lo = issued + 1
      <4>1. lo \notin lo .. issued  BY <3>2, <3>3
      <4> QED  BY <3>4, <4>1
    <3>6. msgs \o Cancels(lo, issued) = msgs  BY <1>0, <3>4, <3>5, NoCancels
    <3> QED  BY <1>0, <3>2, <3>3, <3>6 DEF TurnOnDisk
  <2>4. CASE UNCHANGED vars
    BY <1>0, <2>1, <2>4 DEF RequestOnDisk, Ready, vars, proc
  <2>5. ASSUME ~RepairDone, ~DispatchDone, ~UNCHANGED vars PROVE ~Ready'
    <3>1. CASE \/ Human \/ SkipCompaction \/ CompactTorn \/ Load \/ LoadApprove \/ RefuseGrant
               \/ ClearPending \/ TransportFailed \/ ApiRejected \/ OutOfTurns
               \/ SessionExhausted \/ SavePending \/ End \/ Crash \/ WriteFails
      BY <3>1 DEF Human, Tell, ApprovePending, ApproveResume, ApproveTorn, SkipCompaction,
             CompactTorn, Stop, Load, LoadApprove, RefuseGrant, ClearPending, TransportFailed,
             ApiRejected, OutOfTurns, SessionExhausted, SavePending, End, Exit, Crash,
             WriteFails, Ready
    <3>2. ASSUME NEW c \in Calls, \/ RecordDecision(c) \/ RunCall(c) \/ RunFails(c) \/ RunBreaks(c)
                                  \/ RepairClears(c) \/ RepairRejects(c)
          PROVE  ~Ready'
      BY <3>2 DEF RecordDecision, RunCall, RunFails, RunBreaks, RepairClears, RepairRejects, Ready
    <3>3. ASSUME NEW c \in Calls, NEW k \in Kind, Dispatch(c, k) PROVE ~Ready'
      BY <3>3, DispatchEffect DEF Park, LeaveUnanswered, Ready
    <3> QED  BY <1>1, <2>5, <3>1, <3>2, <3>3 DEF Reading, Ending
  <2> QED  BY <2>2, <2>3, <2>4, <2>5 DEF RequestOnDisk
<1>2. CASE Compact \/ ReplyWithCalls
  BY <1>2 DEF Compact, ReplyWithCalls, RequestOnDisk, Ready
<1>3. CASE AppendUser
  BY <1>3, UserStep DEF RequestOnDisk
<1>4. CASE ReplyWithText \/ ReplyEmptyToApprove
  BY <1>4, EmptyReplyStep DEF RequestOnDisk
<1>5. ASSUME NEW c \in Calls, AnswerCall(c) \/ RefuseCall(c) \/ RepairCancels(c)
      PROVE  RequestOnDisk'
  <2>1. pc' \in {"dispatch", "clear", "record", "repair"}
    BY <1>5 DEF AnswerCall, RefuseCall, RepairCancels
  <2> QED  BY <2>1 DEF RequestOnDisk, Ready
<1> QED  BY <1>1, <1>2, <1>3, <1>4, <1>5, StepKinds

\* Which continuation and turn a program point belongs to.
LEMMA PositionsNext == IInv /\ JInv /\ [Next]_vars => Positions'
<1> SUFFICES ASSUME IInv, JInv, [Next]_vars PROVE Positions'
  OBVIOUS
<1>0. Positions /\ turn \in Nat  BY Ranges DEF JInv
<1>1. CASE Reading
  <2>1. CASE \/ Human \/ SkipCompaction \/ CompactTorn \/ Load \/ LoadApprove \/ RefuseGrant
             \/ ClearPending \/ RepairDone \/ TransportFailed \/ ApiRejected \/ OutOfTurns
             \/ Ending \/ Crash \/ WriteFails
    BY <1>0, <2>1 DEF Human, Tell, ApprovePending, ApproveResume, ApproveTorn, Begin, SkipCompaction,
           CompactTorn, Stop, Load, LoadApprove, RefuseGrant, ClearPending, RepairDone,
           TransportFailed, ApiRejected, OutOfTurns, Ending, SessionExhausted, DispatchDone,
           SavePending, End, Exit, Crash, WriteFails, Positions, InTurn, approving, proc, IInv,
           TypeOK, ControlOK, Continuation, Phases
  <2>2. ASSUME NEW c \in Calls, \/ RecordDecision(c) \/ RunCall(c) \/ RunFails(c) \/ RunBreaks(c)
                                \/ RepairClears(c) \/ RepairRejects(c)
        PROVE  Positions'
    BY <1>0, <2>2 DEF RecordDecision, RunCall, RunFails, RunBreaks, RepairClears, RepairRejects, Positions,
           InTurn, approving, proc
  <2>3. ASSUME NEW c \in Calls, NEW k \in Kind, Dispatch(c, k) PROVE Positions'
    <3>1. pc = "dispatch" /\ UNCHANGED <<cont, turn>> /\ pc' \in {"dispatch", "run", "record", "answer"}
      BY <2>3, DispatchEffect DEF Park, LeaveUnanswered, Handle
    <3> QED  BY <1>0, <3>1 DEF Positions, InTurn, approving, IInv, Phases
  <2>4. CASE UNCHANGED vars
    BY <1>0, <2>4 DEF Positions, InTurn, approving, vars, proc
  <2> QED  BY <1>1, <2>1, <2>2, <2>3, <2>4 DEF Reading
<1>2. CASE Compact \/ AppendUser
  BY <1>0, <1>2 DEF Compact, AppendUser, Positions, InTurn, proc
<1>3. CASE ReplyWithText \/ ReplyEmptyToApprove \/ ReplyWithCalls
  <2>1. turn' = turn + 1 /\ pc' \in {"end", "nudge", "dispatch"}
    BY <1>3 DEF ReplyWithText, ReplyEmptyToApprove, ReplyWithCalls, AppendAssistant
  <2> QED  BY <1>0, <2>1 DEF Positions
<1>4. ASSUME NEW c \in Calls, AnswerCall(c) \/ RefuseCall(c) \/ RepairCancels(c) PROVE Positions'
  BY <1>0, <1>4 DEF AnswerCall, RefuseCall, RepairCancels, Positions, InTurn, approving, IInv, Phases
<1> QED  BY <1>1, <1>2, <1>3, <1>4, StepKinds

\* In a turn: the first call of the batch that is left gets its answer in file
\* and memory alike.
LEMMA TurnAnswer ==
  ASSUME IInv, JInv, InTurn, parked = {}, NEW c \in Calls, NEW a \in Answer, First(c, queue),
         log' = Append(log, Tool(c, a)), base' = base, msgs' = Append(msgs, Tool(c, a)),
         queue' = queue \ {c}, UNCHANGED issued
  PROVE  /\ Orphans(Kept') = queue' /\ queue' \cap Answered(msgs') = {}
         /\ \E lo \in 1 .. issued' + 1 :
              queue' = lo .. issued' /\ Repair(Kept') = msgs' \o Cancels(lo, issued')
<1>1. /\ Orphans(Kept) = queue /\ queue \cap Answered(msgs) = {} /\ msgs \in Seq(Message)
      /\ c \in Asked(log)
  BY DEF JInv, TurnOnDisk, First, RecordsOrdered
<1>2. PICK lo \in 1 .. issued + 1 : queue = lo .. issued /\ Repair(Kept) = msgs \o Cancels(lo, issued)
  BY DEF JInv, TurnOnDisk
<1>3. issued \in Nat /\ lo \in Nat /\ c \in Nat /\ queue \subseteq Calls
  BY Ranges DEF IInv, TypeOK, ControlOK, Calls
<1>4. c = lo /\ c <= issued /\ issued \in Calls
  <2>1. c \in lo .. issued /\ \A d \in lo .. issued : c <= d  BY <1>2 DEF First
  <2>2. c <= lo /\ lo <= c /\ c <= issued  BY <1>3, <2>1
  <2>3. issued \in lo .. issued  BY <1>3, <2>2
  <2> QED  BY <1>2, <1>3, <2>2, <2>3
<1>5. Kept' = Append(Kept, Tool(c, a)) /\ Orphans(Kept') = Orphans(Kept) \ {c}  BY <1>1, ToolStep
<1>6. c \in Orphans(Kept) /\ c \notin Answered(msgs)  BY <1>1 DEF First
<1>7. Repair(Append(Kept, Tool(c, a))) = Append(msgs, Tool(c, a)) \o Cancels(c + 1, issued)
  <2>1. Kept \in Seq(Message) /\ Repair(Kept) = msgs \o Cancels(c, issued)
    BY <1>2, <1>4, KeptFacts
  <2>2. msgs \in Seq(Message) /\ issued \in Calls /\ c <= issued /\ c \in Orphans(Kept) /\ c \notin Answered(msgs)
    BY <1>1, <1>4, <1>6
  <2>3. \A m, s \in Seq(Message), d \in Calls, h \in Calls :
          d \in Orphans(m) /\ d <= h /\ d \notin Answered(s) /\ Repair(m) = s \o Cancels(d, h)
          => Repair(Append(m, Tool(d, a))) = Append(s, Tool(d, a)) \o Cancels(d + 1, h)
    BY RepairInTurn
  <2> QED  BY <2>1, <2>2, <2>3, Zenon
<1>8. queue \ {c} = c + 1 .. issued /\ c + 1 \in 1 .. issued + 1
  BY <1>2, <1>3, <1>4
<1>9. Answered(msgs') = Answered(msgs) \cup {c}  BY <1>1, AppendToolRecord
<1>10. \E l \in 1 .. issued' + 1 : queue' = l .. issued' /\ Repair(Kept') = msgs' \o Cancels(l, issued')
  <2>1. queue' = c + 1 .. issued' /\ Repair(Kept') = msgs' \o Cancels(c + 1, issued')
    BY <1>5, <1>7, <1>8
  <2> QED  BY <1>8, <2>1
<1> QED  BY <1>1, <1>5, <1>9, <1>10

\* In a turn: what is left of the batch is what the file lacks.
LEMMA TurnNext == IInv /\ JInv /\ [Next]_vars => TurnOnDisk'
<1> SUFFICES ASSUME IInv, JInv, [Next]_vars PROVE TurnOnDisk'
  OBVIOUS
<1>0. TurnOnDisk  BY DEF JInv
<1>1. CASE Reading
  <2>1. UNCHANGED <<log, base>> /\ Kept' = Kept  BY <1>1, ReadingKeeps
  <2>2. ASSUME NEW c \in Calls, RecordDecision(c) \/ RunCall(c) \/ RunFails(c) \/ RunBreaks(c) PROVE TurnOnDisk'
    <3>1. /\ pc \in {"record", "run"} /\ pc' \in {"run", "answer"}
          /\ UNCHANGED <<msgs, queue, parked, issued, cont, turn>>
      BY <2>2 DEF RecordDecision, RunCall, RunFails, RunBreaks, proc, hist
    <3> QED  BY <1>0, <2>1, <3>1 DEF TurnOnDisk, InTurn, approving
  <2>3. ASSUME NEW c \in Calls, NEW k \in Kind, Dispatch(c, k) PROVE TurnOnDisk'
    <3>1. pc = "dispatch" /\ UNCHANGED <<msgs, issued, cont, turn>> /\ First(c, queue)
      BY <2>3, DispatchEffect DEF Park, LeaveUnanswered, Handle, hist
    <3>2. InTurn  BY <3>1 DEF InTurn, IInv, Phases
    <3>3. queue \cup parked \subseteq Orphans(Kept)  BY <1>0, <3>2 DEF TurnOnDisk
    <3>4. CASE Park(c) \/ LeaveUnanswered(c)
      <4>1. parked' # {} /\ queue' \cup parked' \subseteq queue \cup parked
        BY <3>4 DEF Park, LeaveUnanswered, suspending, First
      <4> QED  BY <2>1, <3>3, <4>1 DEF TurnOnDisk
    <3>5. CASE Handle(c, k)
      <4>1. UNCHANGED <<queue, parked>>  BY <3>5 DEF Handle
      <4> QED  BY <1>0, <2>1, <3>1, <3>2, <4>1 DEF TurnOnDisk
    <3> QED  BY <2>3, <3>4, <3>5, DispatchEffect
  <2>4. CASE DispatchDone
    BY <1>0, <2>1, <2>4 DEF DispatchDone, TurnOnDisk, InTurn, proc, hist, approving
  <2>5. CASE UNCHANGED vars
    BY <1>0, <2>1, <2>5 DEF TurnOnDisk, InTurn, approving, vars, proc, hist
  <2>6. CASE \/ Human \/ SkipCompaction \/ CompactTorn \/ Load \/ LoadApprove \/ RefuseGrant
             \/ ClearPending \/ RepairDone \/ TransportFailed \/ ApiRejected \/ OutOfTurns
             \/ SessionExhausted \/ SavePending \/ End \/ Crash \/ WriteFails
    <3>1. ~InTurn'
      BY <2>6 DEF Human, Tell, ApprovePending, ApproveResume, ApproveTorn, SkipCompaction,
             CompactTorn, Stop, Load, LoadApprove, RefuseGrant, ClearPending, RepairDone,
             TransportFailed, ApiRejected, OutOfTurns, SessionExhausted, SavePending, End, Exit,
             Crash, WriteFails, InTurn, approving, IInv, Phases
    <3> QED  BY <3>1 DEF TurnOnDisk
  <2>7. ASSUME NEW c \in Calls, RepairClears(c) \/ RepairRejects(c) PROVE TurnOnDisk'
    BY <2>7 DEF RepairClears, RepairRejects, TurnOnDisk, InTurn
  <2> QED  BY <1>1, <2>2, <2>3, <2>4, <2>5, <2>6, <2>7 DEF Reading, Ending
<1>2. CASE Compact \/ AppendUser \/ ReplyWithText \/ ReplyEmptyToApprove
  BY <1>2 DEF Compact, AppendUser, ReplyWithText, ReplyEmptyToApprove, TurnOnDisk, InTurn
<1>3. CASE ReplyWithCalls
  <2>1. parked' = {}
    BY <1>3 DEF ReplyWithCalls, AppendAssistant, IInv, Phases
  <2> QED  BY <1>3, <2>1, CallsStep DEF TurnOnDisk
<1>4. ASSUME NEW c \in Calls, RepairCancels(c) PROVE TurnOnDisk'
  BY <1>4 DEF RepairCancels, TurnOnDisk, InTurn
<1>5. ASSUME NEW c \in Calls, AnswerCall(c) \/ RefuseCall(c) PROVE TurnOnDisk'
  <2>1. SUFFICES ASSUME InTurn' PROVE TurnOnDisk'
    BY DEF TurnOnDisk
  <2>2. pc \in {"answer", "dispatch"} /\ ~RepairCancels(c)
    BY <1>5 DEF AnswerCall, RefuseCall, RepairCancels
  <2>3. PICK a \in Answer :
           /\ log' = Append(log, Tool(c, a)) /\ base' = base /\ msgs' = Append(msgs, Tool(c, a))
           /\ queue' = queue \ {c} /\ First(c, queue) /\ c \in Asked(log)
           /\ UNCHANGED <<parked, issued, cont, turn>>
    BY <1>5, <2>2, AnswerStep
  <2>4. InTurn  BY <2>1, <2>2, <2>3 DEF InTurn, approving
  <2>5. Orphans(Kept') = Orphans(Kept) \ {c}  BY <2>3, ToolStep
  <2>6. c \notin parked /\ queue \cup parked \subseteq Orphans(Kept)
    BY <1>0, <2>3, <2>4 DEF TurnOnDisk, First, IInv, TurnFresh
  <2>7. queue' \cup parked' \subseteq Orphans(Kept')  BY <2>3, <2>5, <2>6
  <2>8. ASSUME parked = {}
        PROVE  /\ Orphans(Kept') = queue' /\ queue' \cap Answered(msgs') = {}
               /\ \E lo \in 1 .. issued' + 1 :
                    queue' = lo .. issued' /\ Repair(Kept') = msgs' \o Cancels(lo, issued')
    BY <2>3, <2>4, <2>8, TurnAnswer
  <2> QED  BY <2>3, <2>7, <2>8 DEF TurnOnDisk
<1> QED  BY <1>1, <1>2, <1>3, <1>4, <1>5, StepKinds

-----------------------------------------------------------------------------
\* A step that leaves the session fault-free has hit no fault.
LEMMA NoFault ==
  ASSUME IInv, JInv, [Next]_vars, faults' = 0
  PROVE  /\ faults = 0 /\ ~Crash /\ ~WriteFails
         /\ PendOpen /\ Unstranded /\ TruthSoFar /\ RetryOnDisk
<1>1. faults \in Nat  BY Ranges
<1>2. ~Crash /\ ~WriteFails  BY <1>1 DEF Crash, WriteFails, Fault
<1>3. UNCHANGED faults
  <2>1. CASE Reading
    BY <1>2, <2>1 DEF Reading, Human, Tell, ApprovePending, ApproveResume, ApproveTorn, Begin,
           SkipCompaction, CompactTorn, Load, LoadApprove, RefuseGrant, ClearPending, RepairDone,
           TransportFailed, ApiRejected, OutOfTurns, RecordDecision, RunCall, RunFails, RunBreaks,
           RepairClears, RepairRejects, Dispatch, Park, LeaveUnanswered, Handle, Ending,
           SessionExhausted, DispatchDone, SavePending, End, hist, vars
  <2>2. CASE Compact \/ AppendUser \/ ReplyWithText \/ ReplyEmptyToApprove \/ ReplyWithCalls
    BY <2>2 DEF Compact, AppendUser, ReplyWithText, ReplyEmptyToApprove, ReplyWithCalls, hist
  <2>3. CASE \E c \in Calls : AnswerCall(c) \/ RefuseCall(c) \/ RepairCancels(c)
    BY <2>3, AnswerStep
  <2> QED  BY <2>1, <2>2, <2>3, StepKinds
<1> QED  BY <1>2, <1>3 DEF JInv, FaultFree

\* Parked calls stay unanswered until approve visits them.
LEMMA PendNext == IInv /\ JInv /\ [Next]_vars /\ faults' = 0 => PendOpen'
<1> SUFFICES ASSUME IInv, JInv, [Next]_vars, faults' = 0 PROVE PendOpen'
  OBVIOUS
<1>0. /\ ~Crash /\ ~WriteFails /\ PendOpen /\ ~torn
      /\ Orphans(Kept) \subseteq Open(log)
  BY NoFault DEF PendOpen, JInv, OrphansOpen
<1>1. CASE Reading
  <2>1. UNCHANGED <<log, base>> /\ Kept' = Kept  BY <1>1, ReadingKeeps
  <2>2. CASE \/ Human \/ SkipCompaction \/ CompactTorn \/ Load \/ RefuseGrant \/ RepairDone
             \/ TransportFailed \/ ApiRejected \/ OutOfTurns \/ SessionExhausted
    <3>1. ~InApprove /\ ~InApprove' /\ ~Awaiting' /\ pc' # "save" /\ UNCHANGED <<pend, torn>>
      BY <1>0, <2>2 DEF Human, Tell, ApprovePending, ApproveResume, ApproveTorn, Begin,
             SkipCompaction, CompactTorn, Load, RefuseGrant, RepairDone, TransportFailed,
             ApiRejected, OutOfTurns, SessionExhausted, Stop, InApprove, Awaiting, disk
    <3> QED  BY <1>0, <2>1, <3>1 DEF PendOpen
  <2>3. CASE LoadApprove
    <3>1. ~InApprove /\ pc' = "record" /\ UNCHANGED <<pend, torn>> /\ queue' = pend
      BY <2>3 DEF LoadApprove, InApprove, disk
    <3>2. ~Awaiting'  BY <3>1 DEF Awaiting
    <3> QED  BY <1>0, <2>1, <3>1, <3>2 DEF PendOpen
  <2>4. CASE ClearPending
    <3>1. pend' = {} /\ pc' = "repair" /\ UNCHANGED torn  BY <2>4 DEF ClearPending
    <3> QED  BY <1>0, <3>1 DEF PendOpen, InApprove, Awaiting
  <2>5. ASSUME NEW c \in Calls, RecordDecision(c) \/ RunCall(c) \/ RunFails(c) \/ RunBreaks(c) PROVE PendOpen'
    <3>1. /\ pc \in {"record", "run"} /\ pc' \in {"run", "answer"}
          /\ UNCHANGED <<pend, torn, queue, cont, turn, parked, lastEnd>>
      BY <2>5 DEF RecordDecision, RunCall, RunFails, RunBreaks, disk, proc
    <3> QED  BY <1>0, <2>1, <3>1 DEF PendOpen, InApprove, approving, Awaiting
  <2>6. ASSUME NEW c \in Calls, RepairClears(c) \/ RepairRejects(c) PROVE PendOpen'
    <3>1. /\ pc = "repair" /\ pc' \in {"repair", "cancel"} /\ UNCHANGED torn
          /\ pend' \in {pend, {}}
      BY <2>6 DEF RepairClears, RepairRejects
    <3> QED  BY <1>0, <2>1, <3>1 DEF PendOpen, InApprove, Awaiting
  <2>7. ASSUME NEW c \in Calls, NEW k \in Kind, Dispatch(c, k) PROVE PendOpen'
    <3>1. /\ pc = "dispatch" /\ pc' \in {"dispatch", "run", "record", "answer"}
          /\ UNCHANGED <<pend, torn, cont, turn>>
      BY <2>7, DispatchEffect DEF Park, LeaveUnanswered, Handle, disk
    <3>2. ~InApprove /\ ~InApprove'
      BY <3>1 DEF InApprove, approving, IInv, Phases
    <3> QED  BY <1>0, <2>1, <3>1, <3>2 DEF PendOpen, Awaiting
  <2>8. CASE DispatchDone
    <3>1. /\ pc = "dispatch" /\ pc' \in {"save", "send"} /\ UNCHANGED <<pend, torn>>
          /\ pc' = "save" => parked' # {}
      BY <2>8 DEF DispatchDone, disk, proc, suspending
    <3> QED  BY <1>0, <2>1, <3>1 DEF PendOpen, InApprove, Awaiting
  <2>9. CASE SavePending
    <3>1. pend' = parked /\ torn' = FALSE /\ pc' = "end" /\ InTurn
      BY <2>9 DEF SavePending, Stop, InTurn, IInv, Phases
    <3>2. parked # {} /\ parked \subseteq Orphans(Kept)
      BY <1>0, <2>9, <3>1 DEF SavePending, PendOpen, JInv, TurnOnDisk
    <3> QED  BY <2>1, <3>1, <3>2 DEF PendOpen, InApprove
  <2>10. CASE End
    <3>1. /\ pc = "end" /\ pc' = "idle" /\ lastEnd' = reason /\ UNCHANGED <<pend, torn>>
      BY <2>10 DEF End, Exit
    <3> QED  BY <1>0, <2>1, <3>1 DEF PendOpen, InApprove, Awaiting
  <2>11. CASE UNCHANGED vars
    BY <1>0, <2>1, <2>11 DEF PendOpen, InApprove, approving, Awaiting, vars, disk, proc
  <2> QED
    BY <1>0, <1>1, <2>2, <2>3, <2>4, <2>5, <2>6, <2>7, <2>8, <2>9, <2>10, <2>11 DEF Reading, Ending
<1>2. CASE Compact
  <2>1. pend' = {} /\ pc' = "load" /\ ~torn'  BY <1>2 DEF Compact
  <2> QED  BY <2>1 DEF PendOpen, InApprove, Awaiting
<1>3. CASE AppendUser \/ ReplyWithText \/ ReplyEmptyToApprove \/ ReplyWithCalls
  <2>1. Orphans(Kept) = {}  BY <1>3, UserStep, EmptyReplyStep, CallsStep
  <2>2. ~InApprove /\ UNCHANGED <<pend, torn>> /\ pc' \in {"send", "end", "nudge", "dispatch"}
        /\ ~Awaiting'
    BY <1>3 DEF AppendUser, ReplyWithText, ReplyEmptyToApprove, ReplyWithCalls, AppendAssistant,
                InApprove, Awaiting
  <2>3. pend = {}  BY <1>0, <2>1, <2>2 DEF PendOpen
  <2> QED  BY <1>0, <2>2, <2>3 DEF PendOpen, InApprove
<1>4. ASSUME NEW c \in Calls, AnswerCall(c) \/ RefuseCall(c) \/ RepairCancels(c) PROVE PendOpen'
  <2>1. PICK a \in Answer :
           /\ log' = Append(log, Tool(c, a)) /\ base' = base
           /\ queue' = queue \ {c} /\ First(c, queue) /\ c \in Asked(log)
           /\ UNCHANGED <<pend, parked, cont, turn, torn, lastEnd>>
    BY <1>4, AnswerStep
  <2>2. Orphans(Kept') = Orphans(Kept) \ {c} /\ Open(log) \subseteq Open(log')
    BY <2>1, ToolStep
  <2>3. pc' \in {"dispatch", "clear", "record", "repair"}
    BY <1>4 DEF AnswerCall, RefuseCall, RepairCancels
  <2>4. ~Awaiting'  BY <2>3 DEF Awaiting
  <2>5. CASE InApprove
    <3>1. pc = "answer" /\ AnswerCall(c)
      BY <1>4, <2>5 DEF AnswerCall, RefuseCall, RepairCancels, InApprove
    <3>2. pc' \in {"clear", "record"} /\ InApprove'
      BY <2>1, <2>5, <3>1 DEF AnswerCall, InApprove, approving
    <3>3. queue \subseteq Orphans(Kept) /\ pend \subseteq Open(log)  BY <1>0, <2>5 DEF PendOpen
    <3> QED  BY <1>0, <2>1, <2>2, <2>4, <3>2, <3>3 DEF PendOpen
  <2>6. CASE ~InApprove
    <3>1. pend \subseteq Orphans(Kept)  BY <1>0, <2>6 DEF PendOpen
    <3>2. c \notin pend
      <4>1. CASE RepairCancels(c)
        <5>1. c \in rejected  BY <4>1 DEF RepairCancels, IInv, RepairUnanswered
        <5> QED  BY <5>1 DEF IInv, Rejection
      <4>2. CASE ~RepairCancels(c)
        <5>1. InTurn
          BY <1>4, <2>6, <4>2 DEF AnswerCall, RefuseCall, InApprove, InTurn, IInv, Phases
        <5> QED  BY <2>1, <5>1 DEF IInv, TurnFresh, First
      <4> QED  BY <4>1, <4>2
    <3>3. ~InApprove'
      <4>1. CASE RepairCancels(c)
        BY <4>1 DEF RepairCancels, InApprove
      <4>2. CASE ~RepairCancels(c)
        BY <1>4, <2>1, <2>6, <4>2 DEF AnswerCall, RefuseCall, InApprove, approving, IInv, Phases
      <4> QED  BY <4>1, <4>2
    <3>4. pend' \subseteq Orphans(Kept')  BY <2>1, <2>2, <3>1, <3>2
    <3> QED  BY <1>0, <2>1, <2>3, <2>4, <3>3, <3>4 DEF PendOpen
  <2> QED  BY <2>5, <2>6
<1> QED  BY <1>1, <1>2, <1>3, <1>4, StepKinds

\* A recorded answer is one to an unanswered call that is read.
LEMMA AnswersAnOrphan ==
  ASSUME IInv, JInv, PendOpen, NEW c \in Calls, AnswerCall(c) \/ RefuseCall(c) \/ RepairCancels(c)
  PROVE  c \in Orphans(Kept)
<1>1. First(c, queue)  BY AnswerStep
<1>2. CASE RepairCancels(c)
  BY <1>1, <1>2 DEF RepairCancels, First, JInv, OrphanPass, InRepair
<1>3. CASE InApprove
  BY <1>1, <1>3 DEF PendOpen, First
<1>4. CASE ~RepairCancels(c) /\ ~InApprove
  <2>1. InTurn  BY <1>4 DEF AnswerCall, RefuseCall, InApprove, InTurn, IInv, Phases
  <2> QED  BY <1>1, <2>1 DEF JInv, TurnOnDisk, First
<1> QED  BY <1>2, <1>3, <1>4

\* Answers join the records right after their assistant.
LEMMA UnstrandedNext == IInv /\ JInv /\ [Next]_vars /\ faults' = 0 => Unstranded'
<1> SUFFICES ASSUME IInv, JInv, [Next]_vars, faults' = 0 PROVE Unstranded'
  OBVIOUS
<1>0. PendOpen /\ InPlace(log) /\ NoStrays(Kept)  BY NoFault DEF Unstranded
<1>1. CASE Reading
  BY <1>0, <1>1, ReadingKeeps DEF Unstranded
<1>2. CASE Compact
  BY <1>0, <1>2, CompactStep DEF Unstranded
<1>3. CASE AppendUser
  BY <1>0, <1>3, UserStep DEF Unstranded
<1>4. CASE ReplyWithText \/ ReplyEmptyToApprove
  BY <1>0, <1>4, EmptyReplyStep DEF Unstranded
<1>5. CASE ReplyWithCalls
  BY <1>0, <1>5, CallsStep DEF Unstranded
<1>6. ASSUME NEW c \in Calls, AnswerCall(c) \/ RefuseCall(c) \/ RepairCancels(c)
      PROVE  Unstranded'
  <2>1. PICK a \in Answer : log' = Append(log, Tool(c, a)) /\ base' = base /\ c \in Asked(log)
    BY <1>6, AnswerStep
  <2>2. c \in Orphans(Kept)  BY <1>0, <1>6, AnswersAnOrphan
  <2> QED  BY <1>0, <2>1, <2>2, ToolStep DEF Unstranded
<1> QED  BY <1>1, <1>2, <1>3, <1>4, <1>5, <1>6, StepKinds

\* The failed request waits in the file for its retry.
LEMMA RetryNext == IInv /\ JInv /\ [Next]_vars /\ faults' = 0 => RetryOnDisk'
<1> SUFFICES ASSUME IInv, JInv, [Next]_vars, faults' = 0 PROVE RetryOnDisk'
  OBVIOUS
<1>0. ~Crash /\ ~WriteFails /\ (Retrying => Repair(Kept) = failed) /\ Positions /\ turn \in Nat
  BY NoFault, Ranges DEF RetryOnDisk, JInv
<1>1. CASE Reading
  <2>1. Kept' = Kept  BY <1>1, ReadingKeeps
  <2>2. CASE TransportFailed
    <3>1. failed' = msgs /\ Ready  BY <2>2 DEF TransportFailed, Ready
    <3> QED  BY <2>1, <3>1 DEF RetryOnDisk, JInv, RequestOnDisk
  <2>3. CASE Human
    <3>1. Retrying' => Retrying /\ failed' = failed
      BY <2>3 DEF Human, Tell, ApprovePending, ApproveResume, ApproveTorn, Begin, Retrying
    <3> QED  BY <1>0, <2>1, <3>1 DEF RetryOnDisk
  <2>4. CASE \/ SkipCompaction \/ CompactTorn \/ Load \/ LoadApprove \/ RefuseGrant \/ ClearPending
             \/ RepairDone \/ ApiRejected \/ OutOfTurns \/ SessionExhausted \/ SavePending \/ End
             \/ UNCHANGED vars
    <3>1. (Retrying' => Retrying) /\ failed' = failed
      BY <1>0, <2>4 DEF SkipCompaction, CompactTorn, Load, LoadApprove, RefuseGrant, ClearPending,
             RepairDone, ApiRejected, OutOfTurns, SessionExhausted, SavePending, End, Exit, Stop,
             Retrying, Positions, IInv, Phases, approving, disk, proc, hist, vars
    <3> QED  BY <1>0, <2>1, <3>1 DEF RetryOnDisk
  <2>5. CASE DispatchDone
    <3>1. InTurn /\ UNCHANGED <<turn, failed>> /\ pc' \in {"save", "send"}
      BY <2>5 DEF DispatchDone, InTurn, IInv, Phases, proc, hist
    <3> QED  BY <1>0, <3>1 DEF RetryOnDisk, Retrying, Positions
  <2>6. ASSUME NEW c \in Calls, \/ RecordDecision(c) \/ RunCall(c) \/ RunFails(c) \/ RunBreaks(c)
                                \/ RepairClears(c) \/ RepairRejects(c)
        PROVE  RetryOnDisk'
    <3>1. (Retrying' => Retrying) /\ failed' = failed
      BY <2>6 DEF RecordDecision, RunCall, RunFails, RunBreaks, RepairClears, RepairRejects, Retrying, proc, hist
    <3> QED  BY <1>0, <2>1, <3>1 DEF RetryOnDisk
  <2>7. ASSUME NEW c \in Calls, NEW k \in Kind, Dispatch(c, k) PROVE RetryOnDisk'
    <3>1. pc' \in {"dispatch", "run", "record", "answer"}
      BY <2>7, DispatchEffect DEF Park, LeaveUnanswered
    <3> QED  BY <3>1 DEF RetryOnDisk, Retrying
  <2> QED  BY <1>0, <1>1, <2>2, <2>3, <2>4, <2>5, <2>6, <2>7 DEF Reading, Ending
<1>2. CASE Compact
  BY <1>0, <1>2 DEF Compact, RetryOnDisk, Retrying, Positions, proc
<1>3. CASE AppendUser
  BY <1>0, <1>3 DEF AppendUser, RetryOnDisk, Retrying, Positions
<1>4. CASE ReplyWithText \/ ReplyEmptyToApprove \/ ReplyWithCalls
  <2>1. turn' # 0 /\ pc' \in {"end", "nudge", "dispatch"} /\ (pc' = "end" => reason' = "stopped")
    BY <1>0, <1>4 DEF ReplyWithText, ReplyEmptyToApprove, ReplyWithCalls, AppendAssistant
  <2> QED  BY <2>1 DEF RetryOnDisk, Retrying
<1>5. ASSUME NEW c \in Calls, AnswerCall(c) \/ RefuseCall(c) PROVE RetryOnDisk'
  <2>1. pc' \in {"dispatch", "clear", "record"}
    BY <1>5 DEF AnswerCall, RefuseCall
  <2> QED  BY <2>1 DEF RetryOnDisk, Retrying
<1>6. ASSUME NEW c \in Calls, RepairCancels(c) PROVE RetryOnDisk'
  <2>1. InRepair /\ pc' = "repair" /\ UNCHANGED <<cont, turn, failed>> /\ queue' = queue \ {c}
    BY <1>6 DEF RepairCancels, InRepair, hist
  <2>2. log' = Append(log, Tool(c, "cancel")) /\ base' = base /\ c \in Asked(log) /\ First(c, queue)
        /\ "cancel" \in Answer
    BY <1>6, AnswerStep DEF Answer
  <2>3. Kept' = Append(Kept, Tool(c, "cancel"))  BY <2>2, ToolStep
  <2>4. c \in Asked(Kept)  BY <2>1, <2>2 DEF JInv, OrphanPass, First, Orphans
  <2>5. Repair(Kept') = Repair(Kept)  BY <2>3, <2>4, KeptFacts, RepairCancel
  <2>6. Retrying' => Retrying  BY <1>6, <2>1 DEF Retrying, RepairCancels
  <2> QED  BY <1>0, <2>1, <2>5, <2>6 DEF RetryOnDisk
<1> QED  BY <1>1, <1>2, <1>3, <1>4, <1>5, <1>6, StepKinds

-----------------------------------------------------------------------------
\* A tool record answers a call.
LEMMA AnswersACall ==
  ASSUME NEW m \in Seq(Message), NEW i \in DOMAIN m, m[i].role = "tool"
  PROVE  m[i].id \in Calls /\ m[i].id \in Answered(m)
<1>1. m[i] \in Message  OBVIOUS
<1>2. m[i].id \in Calls  BY <1>1 DEF Message
<1> QED  BY <1>2 DEF Answered, ToolAt

\* A record that is no answer leaves the answers as they are.
LEMMA NoNewAnswer ==
  ASSUME NEW m \in Seq(Message), NEW x \in Message, x.role # "tool"
  PROVE  \A i \in DOMAIN Append(m, x) :
           Append(m, x)[i].role = "tool" => i \in DOMAIN m /\ Append(m, x)[i] = m[i]
<1>1. /\ DOMAIN Append(m, x) = 1 .. Len(m) + 1 /\ Append(m, x)[Len(m) + 1] = x
      /\ \A i \in 1 .. Len(m) : Append(m, x)[i] = m[i]
      /\ DOMAIN m = 1 .. Len(m) /\ Len(m) \in Nat
  OBVIOUS
<1> QED  BY <1>1

\* Without faults, a call in the pipeline is unanswered.
LEMMA PipelineOpen ==
  ASSUME IInv, JInv, PendOpen, NEW c \in Calls, First(c, queue), pc \in {"record", "run", "answer"}
  PROVE  c \notin Answered(log)
<1>1. CASE approving
  <2>1. c \in Orphans(Kept)  BY <1>1 DEF PendOpen, InApprove, First
  <2> QED  BY <2>1, KeptFacts
<1>2. CASE ~approving
  BY <1>2 DEF IInv, TurnFresh, InTurn, First
<1> QED  BY <1>1, <1>2

\* A set of calls has one first call.
LEMMA OneFirst ==
  ASSUME NEW S \in SUBSET Calls, NEW c \in Calls, NEW d \in Calls, First(c, S), First(d, S)
  PROVE  c = d
BY BoundsAssumption DEF First, Calls

\* The transcript tells which calls were executed.
LEMMA TruthNext == IInv /\ JInv /\ [Next]_vars /\ faults' = 0 => TruthSoFar'
<1> SUFFICES ASSUME IInv, JInv, [Next]_vars, faults' = 0 PROVE TruthSoFar'
  OBVIOUS
<1> DEFINE Says(r) == \A i \in DOMAIN log : log[i].role = "tool" => r[log[i].id] \in Executions(log[i].ans)
<1>0. /\ ~Crash /\ ~WriteFails /\ PendOpen /\ Says(runs)
      /\ \A d \in Calls \ Answered(log) : runs[d] \in Owed(d)
      /\ pc \in {"record", "run"} => kind \notin {"bad", "failed"}
      /\ pc = "run" => kind # "deny"
      /\ log \in Seq(Message) /\ queue \in SUBSET Calls
      /\ kind \in {"free", "rule", "deny", "bad", "ask", "outside", "failed", "none"}
  BY NoFault, KeptFacts DEF TruthSoFar, IInv, TypeOK, ControlOK, Kind
<1>1. CASE Reading
  <2>1. UNCHANGED log /\ Answered(log)' = Answered(log)  BY <1>1, ReadingKeeps
  <2>2. ASSUME UNCHANGED runs, pc # "answer", pc' # "answer",
               pc' \in {"record", "run"} => kind' \notin {"bad", "failed"}, pc' = "run" => kind' # "deny"
        PROVE  TruthSoFar'
    BY <1>0, <2>1, <2>2 DEF TruthSoFar, Owed, Executing
  <2>3. CASE \/ Human \/ SkipCompaction \/ CompactTorn \/ Load \/ LoadApprove \/ RefuseGrant
             \/ ClearPending \/ RepairDone \/ TransportFailed \/ ApiRejected \/ OutOfTurns
             \/ Ending
    BY <2>2, <2>3 DEF Human, Tell, ApprovePending, ApproveResume, ApproveTorn, Begin,
           SkipCompaction, CompactTorn, Load, LoadApprove, RefuseGrant, ClearPending, RepairDone,
           TransportFailed, ApiRejected, OutOfTurns, Ending, SessionExhausted, DispatchDone,
           SavePending, End, Exit, Stop, IInv, Phases, proc, hist
  <2>4. ASSUME NEW c \in Calls, RepairClears(c) \/ RepairRejects(c) PROVE TruthSoFar'
    BY <2>2, <2>4 DEF RepairClears, RepairRejects, proc, hist
  <2>5. ASSUME NEW c \in Calls, NEW k \in Kind, Dispatch(c, k) PROVE TruthSoFar'
    <3>1. CASE Park(c) \/ LeaveUnanswered(c)
      BY <2>2, <3>1 DEF Park, LeaveUnanswered, hist
    <3>2. CASE Handle(c, k) /\ k \in {"free", "rule", "deny", "bad"}
      <4>1. /\ UNCHANGED runs /\ pc = "dispatch" /\ kind' = k /\ UNCHANGED queue
            /\ pc' = CASE k = "free" -> "run" [] k \in {"rule", "deny"} -> "record" [] k = "bad" -> "answer"
        BY <3>2 DEF Handle, hist
      <4>2. CASE k = "bad"
        <5>1. kind' = "bad" /\ pc' = "answer"  BY <4>1, <4>2
        <5> QED  BY <1>0, <2>1, <4>1, <5>1 DEF TruthSoFar, Owed, Executing, AnswerOf, Executions
      <4>3. CASE k # "bad"
        BY <2>2, <3>2, <4>1, <4>3
      <4> QED  BY <4>2, <4>3
    <3>3. ASSUME Handle(c, k), ~NeedsHuman(k) PROVE k \in {"free", "rule", "deny", "bad"}
      BY <3>3 DEF Handle, NeedsHuman, Kind
    <3> QED  BY <2>5, <3>1, <3>2, <3>3 DEF Dispatch
  <2>6. ASSUME NEW c \in Calls, RecordDecision(c) PROVE TruthSoFar'
    <3>1. /\ UNCHANGED <<runs, kind, queue>> /\ pc = "record"
          /\ pc' = IF kind = "deny" THEN "answer" ELSE "run"
      BY <2>6 DEF RecordDecision, proc, hist
    <3> QED  BY <1>0, <2>1, <3>1 DEF TruthSoFar, Owed, Executing, AnswerOf, Executions
  <2>7. ASSUME NEW c \in Calls, RunFails(c) PROVE TruthSoFar'
    <3>1. UNCHANGED <<runs, queue>> /\ pc = "run" /\ pc' = "answer" /\ kind' = "failed"
      BY <2>7 DEF RunFails, hist
    <3> QED  BY <1>0, <2>1, <3>1 DEF TruthSoFar, Owed, Executing, AnswerOf, Executions
  <2>8. ASSUME NEW c \in Calls, RunCall(c) \/ RunBreaks(c) PROVE TruthSoFar'
    <3>1. /\ runs' = [runs EXCEPT ![c] = @ + 1] /\ UNCHANGED queue /\ kind' \in {kind, "failed"}
          /\ pc = "run" /\ pc' = "answer" /\ First(c, queue)
      BY <2>8 DEF RunCall, RunBreaks, proc
    <3>2. c \notin Answered(log)  BY <1>0, <3>1, PipelineOpen
    <3>3. runs \in [Calls -> Nat]  BY DEF IInv, TypeOK, CountersOK
    <3>4. runs[c] = 0 /\ kind \notin {"deny", "bad"}  BY <1>0, <3>1, <3>2 DEF Executing, Owed
    <3>5. runs'[c] = 1 /\ \A d \in Calls : d # c => runs'[d] = runs[d]  BY <3>1, <3>3, <3>4
    <3>6. Says(runs')
      <4> SUFFICES ASSUME NEW i \in DOMAIN log, log[i].role = "tool"
                   PROVE  runs'[log[i].id] \in Executions(log[i].ans)
        OBVIOUS
      <4>1. log[i].id \in Calls /\ log[i].id # c  BY <1>0, <3>2, AnswersACall
      <4>2. runs[log[i].id] \in Executions(log[i].ans)  BY <1>0
      <4> QED  BY <3>5, <4>1, <4>2
    <3>7. \A d \in Calls \ Answered(log) : runs'[d] \in Owed(d)'
      <4> TAKE d \in Calls \ Answered(log)
      <4>1. CASE d = c
        <5>1. 1 \in Executions(AnswerOf(kind'))
          BY <3>1, <3>4 DEF AnswerOf, Executions
        <5> QED  BY <3>1, <3>5, <4>1, <5>1 DEF Executing, Owed
      <4>2. CASE d # c
        <5>1. ~First(d, queue)  BY <1>0, <3>1, <4>2, OneFirst
        <5>2. runs[d] = 0  BY <1>0, <3>1 DEF Executing, Owed
        <5> QED  BY <3>1, <3>5, <4>2, <5>1, <5>2 DEF Executing, Owed
      <4> QED  BY <4>1, <4>2
    <3> QED  BY <2>1, <3>1, <3>6, <3>7 DEF TruthSoFar
  <2>9. CASE UNCHANGED vars
    BY <1>0, <2>1, <2>9 DEF TruthSoFar, Owed, Executing, First, vars, proc, hist
  <2> QED  BY <1>0, <1>1, <2>3, <2>4, <2>5, <2>6, <2>7, <2>8, <2>9 DEF Reading
<1>2. CASE Compact
  BY <1>0, <1>2 DEF Compact, TruthSoFar, Owed, Executing, proc, hist
<1>3. CASE AppendUser \/ ReplyWithText \/ ReplyEmptyToApprove \/ ReplyWithCalls
  <2>1. /\ pc # "answer" /\ pc' \notin {"record", "run", "answer"} /\ UNCHANGED runs
        /\ Answered(log') = Answered(log)
    <3>1. Answered(log') = Answered(log)
      BY <1>3, UserEffect, EmptyReplyStep, CallsStep
    <3> QED
      BY <1>3, <3>1 DEF AppendUser, ReplyWithText, ReplyEmptyToApprove, ReplyWithCalls,
             AppendAssistant, hist
  <2>2. PICK x \in Message : x.role # "tool" /\ log' = Append(log, x)
    <3>1. CASE AppendUser
      <4>1. User \in Message /\ User.role # "tool"  BY RecordsAreMessages DEF User
      <4> QED  BY <3>1, <4>1 DEF AppendUser
    <3>2. CASE ReplyWithText \/ ReplyEmptyToApprove
      <4>1. Assistant({}) \in Message /\ Assistant({}).role # "tool"
        BY RecordsAreMessages DEF Assistant
      <4> QED  BY <3>2, <4>1 DEF ReplyWithText, ReplyEmptyToApprove, AppendAssistant
    <3>3. CASE ReplyWithCalls
      <4>1. PICK n \in 1 .. MaxBatch : issued + 1 .. issued + n \subseteq Calls
                                      /\ AppendAssistant(issued + 1 .. issued + n)
        BY <3>3 DEF ReplyWithCalls
      <4> DEFINE S == issued + 1 .. issued + n
      <4>2. Assistant(S) \in Message /\ Assistant(S).role # "tool"
        BY <4>1, RecordsAreMessages DEF Assistant
      <4> QED  BY <4>1, <4>2 DEF AppendAssistant
    <3> QED  BY <1>3, <3>1, <3>2, <3>3
  <2>3. \A i \in DOMAIN log' : log'[i].role = "tool" => i \in DOMAIN log /\ log'[i] = log[i]
    BY <1>0, <2>2, NoNewAnswer
  <2> QED  BY <1>0, <2>1, <2>3 DEF TruthSoFar, Owed, Executing
<1>4. ASSUME NEW c \in Calls, AnswerCall(c) \/ RefuseCall(c) \/ RepairCancels(c)
      PROVE  TruthSoFar'
  <2>1. PICK a \in Answer :
           /\ log' = Append(log, Tool(c, a)) /\ queue' = queue \ {c} /\ First(c, queue)
           /\ UNCHANGED runs
           /\ a = IF pc = "answer" THEN AnswerOf(kind) ELSE IF pc = "dispatch" THEN "refused" ELSE "cancel"
    BY <1>4, AnswerStep
  <2>2. c \notin Answered(log)  BY <1>0, <1>4, AnswersAnOrphan, KeptFacts
  <2>3. runs[c] \in Executions(a)
    BY <1>0, <2>1, <2>2 DEF Owed, Executing, Executions
  <2>4. Answered(log') = Answered(log) \cup {c}  BY <1>0, <2>1, AppendToolRecord
  <2>5. /\ pc' \in {"dispatch", "clear", "record", "repair"}
        /\ pc' = "record" => kind' = "none"
    BY <1>4 DEF AnswerCall, RefuseCall, RepairCancels
  <2>6. Says(runs)' 
    <3>1. Tool(c, a) \in Message /\ Tool(c, a).id = c /\ Tool(c, a).ans = a
      BY RecordsAreMessages DEF Tool
    <3>2. /\ DOMAIN log' = 1 .. Len(log) + 1 /\ log'[Len(log) + 1] = Tool(c, a)
          /\ \A i \in 1 .. Len(log) : log'[i] = log[i]
          /\ DOMAIN log = 1 .. Len(log) /\ Len(log) \in Nat
      BY <1>0, <2>1, <3>1
    <3> SUFFICES ASSUME NEW i \in DOMAIN log', log'[i].role = "tool"
                 PROVE  runs[log'[i].id] \in Executions(log'[i].ans)
      BY <2>1
    <3>3. CASE i = Len(log) + 1
      BY <2>3, <3>1, <3>2, <3>3
    <3>4. CASE i # Len(log) + 1
      <4>1. i \in DOMAIN log /\ log'[i] = log[i]  BY <3>2, <3>4
      <4> QED  BY <1>0, <4>1
    <3> QED  BY <3>3, <3>4
  <2>7. \A d \in Calls \ Answered(log') : runs[d] = 0
    <3> TAKE d \in Calls \ Answered(log')
    <3>1. d \in Calls \ Answered(log) /\ d # c  BY <2>4
    <3>2. ~First(d, queue)  BY <1>0, <2>1, <3>1, OneFirst
    <3> QED  BY <1>0, <3>1, <3>2 DEF Executing, Owed
  <2> QED  BY <2>1, <2>5, <2>6, <2>7 DEF TruthSoFar, Owed, Executing
<1> QED  BY <1>1, <1>2, <1>3, <1>4, StepKinds

-----------------------------------------------------------------------------
(***************************************************************************)
(* The second invariant holds, and what follows from it.                   *)
(***************************************************************************)
\* An empty session has it.
LEMMA CoherentInit == Init => JInv
<1> SUFFICES ASSUME Init PROVE JInv
  OBVIOUS
<1>1. /\ log = <<>> /\ base = 0 /\ msgs = <<>> /\ pc = "idle" /\ pend = {} /\ queue = {}
      /\ parked = {} /\ ~torn /\ lastEnd = "none" /\ runs = [c \in Calls |-> 0]
      /\ cont = "prompt"
  BY DEF Init
<1>2. <<>> \in Seq(Message) /\ DOMAIN <<>> = {}  OBVIOUS
<1>3. Kept = <<>>
  <2>1. Read(<<>>, 0) = <<>>  BY <1>2, ReadAll
  <2> QED  BY <1>1, <2>1 DEF Kept
<1>4. Asked(<<>>) = {} /\ Orphans(<<>>) = {}  BY DEF Asked, Orphans
<1>5. AsksOnce(<<>>) /\ NoStrays(<<>>) /\ InPlace(<<>>)
  BY <1>2 DEF AsksOnce, NoStrays, InPlace
<1>6. RecordsOrdered /\ OrphansOpen  BY <1>1, <1>2, <1>3, <1>4, <1>5 DEF RecordsOrdered, OrphansOpen
<1>7. OrphanPass /\ RequestOnDisk /\ TurnOnDisk /\ Positions
  BY <1>1 DEF OrphanPass, InRepair, RequestOnDisk, Ready, TurnOnDisk, InTurn, Positions
<1>8. PendOpen /\ Unstranded /\ RetryOnDisk
  BY <1>1, <1>3, <1>5 DEF PendOpen, InApprove, Awaiting, Unstranded, RetryOnDisk, Retrying
<1>9. TruthSoFar
  BY <1>1, <1>2 DEF TruthSoFar, Owed, Executing
<1> QED  BY <1>6, <1>7, <1>8, <1>9 DEF JInv, FaultFree

\* Every step keeps it.
LEMMA CoherentNext == IInv /\ JInv /\ [Next]_vars => JInv'
<1> SUFFICES ASSUME IInv, JInv, [Next]_vars PROVE JInv'
  OBVIOUS
<1>1. RecordsOrdered' /\ OrphansOpen' /\ OrphanPass'  BY RecordsNext, OpenNext, PassNext
<1>2. RequestOnDisk' /\ TurnOnDisk' /\ Positions'  BY RequestNext, TurnNext, PositionsNext
<1>3. faults' = 0 => PendOpen' /\ Unstranded' /\ TruthSoFar' /\ RetryOnDisk'
  BY PendNext, UnstrandedNext, TruthNext, RetryNext
<1> QED  BY <1>1, <1>2, <1>3 DEF JInv, FaultFree

\* Memory, transcript and parked calls stay in step in every reachable state,
\* through crashes and failed writes too.
THEOREM Coherence == Spec => []JInv
BY Invariance, InvNext, CoherentInit, CoherentNext, PTL DEF Spec

\* When a request goes out the file holds it already: no later invocation finds
\* anything to cancel in it, and it would rebuild this very message list.
THEOREM DiskMatches == Spec => []DiskMatchesRequest
<1>1. JInv => DiskMatchesRequest
  BY DEF JInv, RequestOnDisk, Ready, Kept, DiskMatchesRequest
<1> QED  BY <1>1, Coherence, PTL

\* After a transport failure a pending-free approve sends the identical request.
THEOREM RetriesIdentical == Spec => []RetryIdentical
<1>1. JInv => RetryIdentical
  BY DEF JInv, RequestOnDisk, Ready, FaultFree, RetryOnDisk, Retrying, RetryIdentical
<1> QED  BY <1>1, Coherence, PTL

\* In a session without faults, or without compactions, every request has each
\* assistant followed by the answers to exactly its calls.
THEOREM RequestsWellFormed == Spec => []RequestWellFormed
<1>1. ASSUME IInv, JInv, pc = "send", faults = 0 \/ base = 0 PROVE WellFormed(msgs)
  <2>1. msgs = Repair(Kept)  BY <1>1 DEF JInv, RequestOnDisk, Ready
  <2>2. Kept \in Seq(Message) /\ AsksFirst(Kept) /\ AsksOnce(Kept)
    BY <1>1, KeptFacts DEF JInv, RecordsOrdered
  <2>3. NoStrays(Kept)
    <3>1. CASE faults = 0
      BY <1>1, <3>1 DEF JInv, FaultFree, Unstranded
    <3>2. CASE base = 0
      <4>1. Kept = log  BY <1>1, <3>2, KeptFacts, ReadAll DEF Kept
      <4> QED  BY <1>1, <4>1 DEF JInv, RecordsOrdered
    <3> QED  BY <1>1, <3>1, <3>2
  <2> QED  BY <2>1, <2>2, <2>3, RepairWellFormed
<1>2. IInv /\ JInv => RequestWellFormed
  BY <1>1 DEF RequestWellFormed
<1> QED  BY <1>2, Invariance, Coherence, PTL

\* The open calls are those of one assistant: the last.
LEMMA OneOpenTurn ==
  ASSUME NEW m \in Seq(Message), NEW S \in SUBSET Open(m), S # {}
  PROVE  \E j \in DOMAIN m : /\ m[j].role = "assistant" /\ S \subseteq m[j].calls
                             /\ \A i \in j + 1 .. Len(m) : m[i].role = "tool"
<1>1. DOMAIN m = 1 .. Len(m) /\ Len(m) \in Nat  OBVIOUS
<1>2. PICK c \in S : TRUE  OBVIOUS
<1>3. PICK j \in DOMAIN m : /\ m[j].role = "assistant"
                            /\ \A i \in j + 1 .. Len(m) : m[i].role = "tool"
  BY <1>2 DEF Open
<1>4. ASSUME NEW d \in S PROVE d \in m[j].calls
  <2>1. PICK k \in DOMAIN m : /\ m[k].role = "assistant" /\ d \in m[k].calls
                              /\ \A i \in k + 1 .. Len(m) : m[i].role = "tool"
    BY DEF Open
  <2>2. ~(j < k) /\ ~(k < j)
    <3>1. j < k => k \in j + 1 .. Len(m)  BY <1>1
    <3>2. k < j => j \in k + 1 .. Len(m)  BY <1>1
    <3> QED  BY <1>3, <2>1, <3>1, <3>2
  <2>3. j = k  BY <1>1, <2>2
  <2> QED  BY <2>1, <2>3
<1> QED  BY <1>3, <1>4

\* Between the invocations of a session without faults, what is parked are
\* unanswered calls of the last assistant, and only answers followed it.
THEOREM PendingCurrent == Spec => []PendingIsCurrent
<1>1. ASSUME IInv, JInv, pc = "idle", faults = 0
      PROVE  /\ lastEnd = "awaiting_approval" => pend # {}
             /\ pend # {} =>
                  \E i \in DOMAIN log : /\ log[i].role = "assistant" /\ pend \subseteq log[i].calls
                                       /\ pend \cap Answered(log) = {}
                                       /\ \A j \in i + 1 .. Len(log) : log[j].role = "tool"
  <2>1. PendOpen /\ ~InApprove /\ OrphansOpen
    BY <1>1 DEF JInv, FaultFree, InApprove
  <2>2. pend \subseteq Orphans(Kept) /\ pend \in SUBSET Open(log)
    BY <2>1 DEF PendOpen, OrphansOpen
  <2>3. log \in Seq(Message) /\ pend \cap Answered(log) = {}  BY <1>1, <2>2, KeptFacts
  <2>4. lastEnd = "awaiting_approval" => pend # {}  BY <1>1, <2>1 DEF PendOpen, Awaiting
  <2>5. ASSUME pend # {}
        PROVE  \E i \in DOMAIN log : /\ log[i].role = "assistant" /\ pend \subseteq log[i].calls
                                     /\ \A j \in i + 1 .. Len(log) : log[j].role = "tool"
    BY <2>2, <2>3, <2>5, OneOpenTurn
  <2> QED  BY <2>3, <2>4, <2>5
<1>2. IInv /\ JInv => PendingIsCurrent
  BY <1>1 DEF PendingIsCurrent
<1> QED  BY <1>2, Invariance, Coherence, PTL

\* Without faults the transcript tells which calls were executed.
THEOREM AnswersTrue == Spec => []AnswersTruthful
<1>1. JInv => AnswersTruthful
  BY DEF JInv, FaultFree, TruthSoFar, AnswersTruthful
<1> QED  BY <1>1, Coherence, PTL
=============================================================================
