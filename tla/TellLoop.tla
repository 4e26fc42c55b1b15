------------------------------ MODULE TellLoop ------------------------------
(***************************************************************************)
(* One session of `attini tell` / `attini approve`: the invocations a      *)
(* human starts one after another on the same session directory, the model *)
(* loop of `drive`, the gated tool calls, and what survives on disk when   *)
(* an invocation dies between two writes.                                  *)
(*                                                                         *)
(* conversation.jsonl is one file with many kinds of record, but the code  *)
(* only ever reads it through filters, so each filter is a variable here:  *)
(* `log` is the user/assistant/tool records in file order, `base` how many *)
(* of them the newest summary's cutoff covers, `rejected` the calls with a *)
(* rejecting tool_approval, `lastEnd` the newest invocation_end reason.    *)
(* Records no step below depends on (invocation_start, approving           *)
(* tool_approvals, token_usage, metrics) are left out.  The writes stay    *)
(* separate steps, in the order the code makes them: a crash can fall      *)
(* between any two.                                                        *)
(*                                                                         *)
(* Tool calls are numbered in the order the model emits them (the ids a    *)
(* provider hands out are unique), so a set of calls stands for the        *)
(* ordered list the code walks: First picks the next one.                  *)
(***************************************************************************)
EXTENDS Naturals, Sequences, FiniteSets, SequencesExt

CONSTANTS
  MaxCalls,        \* bound: tool calls the model emits over the whole session
  MaxBatch,        \* bound: tool calls in one assistant turn
  MaxReplies,      \* bound: assistant turns of the whole session
  MaxInvocations,  \* bound: tell / approve invocations of the session
  MaxFaults,       \* bound: crashes and failed writes of the whole session
  MaxTurns,        \* TellConfig::max_turns
  TurnLimit,       \* TellConfig::turn_tool_call_limit
  SessionMax,      \* TellConfig::session_tool_call_max
  RateCapped       \* is TellConfig::tool_call_rate configured?

ASSUME BoundsAssumption ==
  /\ MaxCalls \in Nat /\ MaxBatch \in Nat /\ MaxReplies \in Nat /\ MaxInvocations \in Nat
  /\ MaxFaults \in Nat /\ MaxTurns \in Nat /\ TurnLimit \in Nat
  /\ SessionMax \in Nat /\ RateCapped \in BOOLEAN

Calls == 1 .. MaxCalls

\* What dispatch decides about a call:
\*   free     runs unattended and unrecorded (a read-only tool, a git-tracked edit)
\*   rule     a command an allow rule or the built-in list approves
\*   deny     a command a deny rule refuses
\*   bad      arguments that do not parse, a failing preview, an unknown tool
\*   ask      a command or a patch that needs the human
\*   outside  a read beyond the read roots: needs the human too
Kind == {"free", "rule", "deny", "bad", "ask", "outside"}
\* An answer: of an executed call, of one whose tool returned an error, of one
\* refused before any tool saw it, of a cancelled one.
Answer == {"result", "failed", "refused", "cancel"}
\* How an invocation ended.  "stopped" is completed, error, max_turns or
\* session_tool_call_exhausted: they only word the next resume prompt.
Reason == {"none", "awaiting_approval", "transport_error", "stopped"}
Continuation == {"prompt", "approve", "retry"}
PC == {"idle", "compact", "load", "record", "run", "answer", "clear", "repair", "cancel", "prompt",
       "nudge", "send", "dispatch", "save", "end"}

User == [role |-> "user"]
Assistant(S) == [role |-> "assistant", calls |-> S]
Tool(c, a) == [role |-> "tool", id |-> c, ans |-> a]
Message == [role : {"user"}]
             \cup [role : {"assistant"}, calls : SUBSET Calls]
             \cup [role : {"tool"}, id : Calls, ans : Answer]

VARIABLES
  log, base, rejected, lastEnd,  \* conversation.jsonl, by the filters that read it
  pend,       \* pending.json: the parked calls ({}: no file)
  torn,       \* pending.json exists but holds a torn write
  pc,         \* where the running invocation is ("idle": none runs)
  cont,       \* the continuation after normalisation
  byApprove,  \* started_by_approve
  msgs,       \* the in-memory message list
  kind,       \* what dispatch decided about the call in the pipeline; "failed": its tool
              \* returned an error
  queue,      \* what the current for loop still has to visit
  parked,     \* approvals the current turn will suspend on; suspending == parked # {}
  turn, turnCalls, admitted,  \* turns begun; ToolCallGate's turn and session counters
  nudged,     \* resume_retried
  reason,     \* the outcome drive is returning
  issued,     \* history: calls emitted so far
  runs,       \* history: how often each call was executed
  failed,     \* history: the request a retry has to repeat
  faults,     \* history: crashes and failed writes so far
  invs        \* history: invocations started so far

disk == <<log, base, rejected, lastEnd, pend, torn>>
proc == <<cont, byApprove, kind, msgs, queue, parked, turn, turnCalls, admitted, nudged, reason>>
hist == <<issued, runs, failed, faults, invs>>
vars == <<disk, pc, proc, hist>>

First(c, S) == c \in S /\ \A d \in S : c <= d
Read(l, b) == SubSeq(l, b + 1, Len(l))
suspending == parked # {}
\* The call pipeline (record, run, answer) serves approve's loop before the
\* first turn and dispatch after it.
approving == cont = "approve" /\ turn = 0

-----------------------------------------------------------------------------
(***************************************************************************)
(* repair_messages: every assistant is followed by one answer per call,    *)
(* the first recorded one or a synthetic cancellation; a tool message      *)
(* whose call already has its answer in place is dropped.                  *)
(***************************************************************************)
Asked(m) == UNION {m[i].calls : i \in {j \in DOMAIN m : m[j].role = "assistant"}}
ToolAt(m, c) == {i \in DOMAIN m : m[i].role = "tool" /\ m[i].id = c}
Answered(m) == {c \in Calls : ToolAt(m, c) # {}}
Cancelled(m) == {c \in Calls : \E i \in ToolAt(m, c) : m[i].ans = "cancel"}
\* Mutant: every call of the last assistant counts as unanswered.
OrphansOfLastTurn(m) ==
  UNION {m[i].calls : i \in {j \in DOMAIN m : /\ m[j].role = "assistant"
                                             /\ \A k \in j + 1 .. Len(m) : m[k].role # "assistant"}}
Orphans(m) == Asked(m) \ Answered(m)

AnswerTo(m, c) ==
  IF c \in Answered(m)
  THEN m[CHOOSE i \in ToolAt(m, c) : \A j \in ToolAt(m, c) : i <= j]
  ELSE Tool(c, "cancel")

\* The calls whose answer repair has placed before it reaches message i.
Placed(m, i) ==
  LET before == SubSeq(m, 1, i - 1) IN Asked(before) \cup Answered(before)

\* A set of calls as the list the model emitted.
InOrder(S) == [k \in 1 .. Cardinality(S) |-> CHOOSE c \in S : Cardinality({d \in S : d <= c}) = k]

Emitted(m, i) ==
  CASE m[i].role = "assistant" ->
         <<m[i]>> \o [k \in 1 .. Cardinality(m[i].calls \ Placed(m, i)) |->
                        AnswerTo(m, InOrder(m[i].calls \ Placed(m, i))[k])]
    [] m[i].role = "tool" /\ m[i].id \in Placed(m, i) -> <<>>
    [] OTHER -> <<m[i]>>

\* Mutant: the repaired copy is only adopted when it healed something.
RepairKeepsOrder(m) == IF Orphans(m) = {} THEN m
                       ELSE FlattenSeq([i \in DOMAIN m |-> Emitted(m, i)])
Repair(m) == FlattenSeq([i \in DOMAIN m |-> Emitted(m, i)])

-----------------------------------------------------------------------------
Init ==
  /\ log = <<>> /\ base = 0 /\ rejected = {} /\ lastEnd = "none"
  /\ pend = {} /\ torn = FALSE
  /\ pc = "idle"
  /\ cont = "prompt" /\ byApprove = FALSE /\ kind = "none" /\ msgs = <<>> /\ queue = {} /\ parked = {}
  /\ turn = 0 /\ turnCalls = 0 /\ admitted = 0 /\ nudged = FALSE /\ reason = "none"
  /\ issued = 0 /\ runs = [c \in Calls |-> 0]
  /\ failed = <<>> /\ faults = 0 /\ invs = 0

\* drive returns r; run still has to append the invocation_end record.
Stop(r) ==
  /\ pc' = "end" /\ reason' = r
  /\ UNCHANGED <<cont, byApprove, kind, msgs, queue, parked, turn, turnCalls, admitted, nudged>>

\* The process is gone and its memory with it.
Exit ==
  /\ pc' = "idle"
  /\ cont' = "prompt" /\ byApprove' = FALSE /\ kind' = "none" /\ msgs' = <<>> /\ queue' = {} /\ parked' = {}
  /\ turn' = 0 /\ turnCalls' = 0 /\ admitted' = 0 /\ nudged' = FALSE /\ reason' = "none"

Begin(c, approve) ==
  /\ pc = "idle" /\ invs < MaxInvocations
  /\ invs' = invs + 1
  /\ cont' = c /\ byApprove' = approve
  /\ failed' = IF c = "retry" THEN failed ELSE <<>>
  /\ UNCHANGED <<disk, kind, msgs, queue, parked, turn, turnCalls, admitted, nudged,
                 issued, runs, faults>>

(***************************************************************************)
(* Starting an invocation: Session::open holds the LOCK until it exits, so *)
(* no second one starts in between.                                        *)
(***************************************************************************)
Tell == Begin("prompt", FALSE) /\ pc' = "compact" /\ UNCHANGED reason

ApprovePending ==
  /\ pend # {} /\ ~torn
  /\ Begin("approve", TRUE) /\ pc' = "load" /\ UNCHANGED reason

\* normalise_pending_free_approve
ApproveResume ==
  /\ pend = {} /\ ~torn
  /\ Begin(IF lastEnd = "transport_error" THEN "retry" ELSE "prompt", TRUE)
  /\ pc' = "load" /\ UNCHANGED reason

\* load_pending cannot parse a torn pending.json: drive fails before any write.
ApproveTorn ==
  /\ torn
  /\ Begin("approve", TRUE) /\ pc' = "end" /\ reason' = "stopped"

(***************************************************************************)
(* try_auto_compact, on a fresh prompt only.  Sizes and thresholds decide  *)
(* whether and how far to fold; here any cut compaction_cutoff may choose. *)
(***************************************************************************)
SafeBoundary(m) == m.role = "user" \/ (m.role = "assistant" /\ m.calls = {})
Cutoffs(l) == {b \in base + 1 .. Len(l) : b = Len(l) \/ SafeBoundary(l[b + 1])}

SkipCompaction ==
  /\ pc = "compact" /\ ~torn
  /\ pc' = "load"
  /\ UNCHANGED <<disk, proc, hist>>

Compact ==
  /\ pc = "compact" /\ ~torn /\ pend = {}
  /\ \E b \in Cutoffs(log) : base' = b
  /\ pc' = "load"
  /\ UNCHANGED <<log, rejected, lastEnd, pend, torn, proc, hist>>

CompactTorn ==
  /\ pc = "compact" /\ torn
  /\ Stop("stopped") /\ UNCHANGED <<disk, hist>>

(***************************************************************************)
(* build_initial_messages, and the orphans a prompt or a retry must heal   *)
(* before anything else is written.                                        *)
(***************************************************************************)
\* Mutant: a retry re-sends the records as they are, unrepaired.
LoadSkippingRetry ==
  /\ pc = "load" /\ cont # "approve"
  /\ msgs' = Read(log, base)
  /\ queue' = IF cont = "retry" THEN {} ELSE Orphans(Read(log, base))
  /\ pc' = "repair"
  /\ UNCHANGED <<disk, hist, cont, byApprove, kind, parked, turn, turnCalls, admitted,
                 nudged, reason>>
Load ==
  /\ pc = "load" /\ cont # "approve"
  /\ msgs' = Read(log, base)
  /\ queue' = Orphans(Read(log, base))
  /\ pc' = "repair"
  /\ UNCHANGED <<disk, hist, cont, byApprove, kind, parked, turn, turnCalls, admitted,
                 nudged, reason>>

LoadApprove ==
  /\ pc = "load" /\ cont = "approve"
  /\ msgs' = Read(log, base)
  /\ queue' = pend
  /\ pc' = "record"
  /\ UNCHANGED <<disk, hist, cont, byApprove, kind, parked, turn, turnCalls, admitted,
                 nudged, reason>>

\* plan_grant refuses the requested --grant before anything is recorded.
RefuseGrant ==
  /\ pc = "load" /\ cont = "approve"
  /\ Stop("stopped") /\ UNCHANGED <<disk, hist>>

-----------------------------------------------------------------------------
(***************************************************************************)
(* One call through record, run and answer: approve's loop over the parked *)
(* calls, and dispatch of a call that needs no human.                      *)
(***************************************************************************)
\* Mutant: a rule's denial is recorded and the command runs all the same.
DenyStillRuns(c) ==
  /\ pc = "record" /\ First(c, queue)
  /\ rejected' = IF kind = "deny" THEN rejected \cup {c} ELSE rejected
  /\ pc' = "run"
  /\ UNCHANGED <<log, base, lastEnd, pend, torn, proc, hist>>
RecordDecision(c) ==
  /\ pc = "record" /\ First(c, queue)
  /\ rejected' = IF kind = "deny" THEN rejected \cup {c} ELSE rejected
  /\ pc' = IF kind = "deny" THEN "answer" ELSE "run"
  /\ UNCHANGED <<log, base, lastEnd, pend, torn, proc, hist>>

\* The tool runs: a command's side effects, a patch's renames.
RunCall(c) ==
  /\ pc = "run" /\ First(c, queue)
  /\ runs' = [runs EXCEPT ![c] = @ + 1]
  /\ pc' = "answer"
  /\ UNCHANGED <<disk, proc, issued, failed, faults, invs>>

\* It returns an error and has done nothing: the preview or phase 1 of the patch
\* fails, the program cannot be spawned, the file cannot be read.
RunFails(c) ==
  /\ pc = "run" /\ First(c, queue)
  /\ kind' = "failed"
  /\ pc' = "answer"
  /\ UNCHANGED <<disk, hist, cont, byApprove, msgs, queue, parked, turn, turnCalls, admitted,
                 nudged, reason>>

\* It returns an error and has done its work or a part of it: a later rename of
\* the patch fails; the command ran, but showing its output or waiting for it
\* failed, which is answered as a failure to spawn it.
RunBreaks(c) ==
  /\ pc = "run" /\ First(c, queue)
  /\ runs' = [runs EXCEPT ![c] = @ + 1]
  /\ kind' = "failed"
  /\ pc' = "answer"
  /\ UNCHANGED <<disk, cont, byApprove, msgs, queue, parked, turn, turnCalls, admitted, nudged,
                 reason, issued, failed, faults, invs>>

\* append_tool: the record first, then the in-memory message.
AppendTool(c, a) ==
  /\ log' = Append(log, Tool(c, a))
  /\ msgs' = Append(msgs, Tool(c, a))
  /\ queue' = queue \ {c}

AnswerOf(k) == CASE k \in {"deny", "bad"} -> "refused" [] k = "failed" -> "failed" [] OTHER -> "result"
AnswerCall(c) ==
  /\ pc = "answer" /\ First(c, queue)
  /\ AppendTool(c, AnswerOf(kind))
  /\ pc' = IF ~approving THEN "dispatch" ELSE IF queue' = {} THEN "clear" ELSE "record"
  /\ kind' = "none"
  /\ UNCHANGED <<base, rejected, lastEnd, pend, torn, hist, cont, byApprove, parked,
                 turn, turnCalls, admitted, nudged, reason>>

\* Mutant: approve leaves pending.json behind.
KeepPending ==
  /\ pc = "clear"
  /\ queue' = Orphans(msgs)
  /\ pc' = "repair"
  /\ UNCHANGED <<disk, hist, cont, byApprove, kind, msgs, parked, turn, turnCalls, admitted,
                 nudged, reason>>
\* Every parked call is answered: pending.json goes, then the orphan pass.
ClearPending ==
  /\ pc = "clear"
  /\ pend' = {}
  /\ queue' = Orphans(msgs)
  /\ pc' = "repair"
  /\ UNCHANGED <<log, base, rejected, lastEnd, torn, hist, cont, byApprove, kind, msgs, parked,
                 turn, turnCalls, admitted, nudged, reason>>

-----------------------------------------------------------------------------
(***************************************************************************)
(* repair_orphaned_tool_calls: per orphan, drop pending.json when it holds *)
(* that call, record the rejection, record the synthetic answer; then      *)
(* adopt the repaired message list.                                        *)
(***************************************************************************)
RepairClears(c) ==
  /\ pc = "repair" /\ First(c, queue) /\ c \in pend
  /\ pend' = {}
  /\ UNCHANGED <<log, base, rejected, lastEnd, torn, pc, proc, hist>>

\* Mutant: the cancelled call stays parked.
RejectsStillParked(c) ==
  /\ pc = "repair" /\ First(c, queue)
  /\ rejected' = rejected \cup {c}
  /\ pc' = "cancel"
  /\ UNCHANGED <<log, base, lastEnd, pend, torn, proc, hist>>
RepairRejects(c) ==
  /\ pc = "repair" /\ First(c, queue) /\ c \notin pend
  /\ rejected' = rejected \cup {c}
  /\ pc' = "cancel"
  /\ UNCHANGED <<log, base, lastEnd, pend, torn, proc, hist>>

RepairCancels(c) ==
  /\ pc = "cancel" /\ First(c, queue)
  /\ log' = Append(log, Tool(c, "cancel"))
  /\ queue' = queue \ {c}
  /\ pc' = "repair"
  /\ UNCHANGED <<base, rejected, lastEnd, pend, torn, hist, cont, byApprove, kind, msgs, parked,
                 turn, turnCalls, admitted, nudged, reason>>

\* Mutant: a retry appends a user record like any other pending-free approve.
RetryPrompts ==
  /\ pc = "repair" /\ queue = {}
  /\ msgs' = Repair(msgs)
  /\ pc' = IF cont = "approve" THEN "send" ELSE "prompt"
  /\ UNCHANGED <<disk, hist, cont, byApprove, kind, queue, parked, turn, turnCalls, admitted,
                 nudged, reason>>
RepairDone ==
  /\ pc = "repair" /\ queue = {}
  /\ msgs' = Repair(msgs)
  /\ pc' = IF cont = "prompt" THEN "prompt" ELSE "send"
  /\ UNCHANGED <<disk, hist, cont, byApprove, kind, queue, parked, turn, turnCalls, admitted,
                 nudged, reason>>

\* The prompt's user record, or the empty-resume nudge's.
AppendUser ==
  /\ pc \in {"prompt", "nudge"}
  /\ log' = Append(log, User)
  /\ msgs' = Append(msgs, User)
  /\ pc' = "send"
  /\ UNCHANGED <<base, rejected, lastEnd, pend, torn, hist, cont, byApprove, kind, queue, parked,
                 turn, turnCalls, admitted, nudged, reason>>

-----------------------------------------------------------------------------
(***************************************************************************)
(* The model call at the head of a turn, and what comes back.              *)
(***************************************************************************)
TransportFailed ==
  /\ pc = "send" /\ turn < MaxTurns
  /\ failed' = msgs
  /\ Stop("transport_error")
  /\ UNCHANGED <<disk, issued, runs, faults, invs>>

ApiRejected ==
  /\ pc = "send" /\ turn < MaxTurns
  /\ Stop("stopped") /\ UNCHANGED <<disk, hist>>

\* The assistant record is appended, then joins the message list.
Replies == Cardinality({i \in DOMAIN log : log[i].role = "assistant"})
AppendAssistant(S) ==
  /\ Replies < MaxReplies
  /\ log' = Append(log, Assistant(S))
  /\ msgs' = Append(msgs, Assistant(S))
  /\ turn' = turn + 1
  /\ UNCHANGED <<base, rejected, lastEnd, pend, torn, cont, byApprove, kind, parked, admitted>>

ReplyWithCalls ==
  /\ pc = "send" /\ turn < MaxTurns
  /\ \E n \in 1 .. MaxBatch :
       LET S == issued + 1 .. issued + n IN
       /\ S \subseteq Calls
       /\ AppendAssistant(S)
       /\ issued' = issued + n
       /\ queue' = S
  /\ turnCalls' = 0
  /\ pc' = "dispatch"
  /\ UNCHANGED <<nudged, reason, runs, failed, faults, invs>>

ReplyWithText ==
  /\ pc = "send" /\ turn < MaxTurns
  /\ AppendAssistant({})
  /\ pc' = "end" /\ reason' = "stopped"
  /\ UNCHANGED <<queue, turnCalls, nudged, hist>>

\* Empty-resume guard: neither content nor calls, so approve asks once more.
ReplyEmptyToApprove ==
  /\ pc = "send" /\ turn < MaxTurns /\ byApprove /\ ~nudged
  /\ AppendAssistant({})
  /\ nudged' = TRUE
  /\ pc' = "nudge"
  /\ UNCHANGED <<queue, turnCalls, reason, hist>>

\* Mutant: the loop counts one turn too far and waits for a turn it never takes.
OutOfTurnsLate ==
  /\ pc = "send" /\ turn > MaxTurns
  /\ Stop("stopped") /\ UNCHANGED <<disk, hist>>
OutOfTurns ==
  /\ pc = "send" /\ turn = MaxTurns
  /\ Stop("stopped") /\ UNCHANGED <<disk, hist>>

-----------------------------------------------------------------------------
(***************************************************************************)
(* The for loop over the turn's calls: the gate first, then dispatch.      *)
(* While suspending only commands and patches are looked at (dry_run), and *)
(* of those only the ones that need the human leave a trace.               *)
(***************************************************************************)
\* A cap refuses the call without consuming budget, suspending or not.
RefuseCall(c) ==
  /\ pc = "dispatch" /\ First(c, queue)
  /\ turnCalls >= TurnLimit \/ RateCapped
  /\ AppendTool(c, "refused")
  /\ UNCHANGED <<base, rejected, lastEnd, pend, torn, hist, pc, cont, byApprove, kind, parked,
                 turn, turnCalls, admitted, nudged, reason>>

\* The session cap ends the invocation on the spot; what was parked is forgotten.
SessionExhausted ==
  /\ pc = "dispatch" /\ queue # {}
  /\ turnCalls < TurnLimit /\ admitted >= SessionMax
  /\ Stop("stopped") /\ UNCHANGED <<disk, hist>>

Admit ==
  /\ turnCalls < TurnLimit /\ admitted < SessionMax
  /\ turnCalls' = turnCalls + 1 /\ admitted' = admitted + 1

Park(c) ==
  /\ pc = "dispatch" /\ First(c, queue) /\ Admit
  /\ parked' = parked \cup {c}
  /\ queue' = queue \ {c}
  /\ UNCHANGED <<disk, hist, pc, cont, byApprove, kind, msgs, turn, nudged, reason>>

\* Left for the orphan pass of a later invocation to cancel.
LeaveUnanswered(c) ==
  /\ pc = "dispatch" /\ First(c, queue) /\ suspending /\ Admit
  /\ queue' = queue \ {c}
  /\ UNCHANGED <<disk, hist, pc, cont, byApprove, kind, msgs, parked, turn, nudged, reason>>

Handle(c, k) ==
  /\ pc = "dispatch" /\ First(c, queue) /\ ~suspending /\ Admit
  /\ kind' = k
  /\ pc' = CASE k = "free" -> "run" [] k \in {"rule", "deny"} -> "record" [] k = "bad" -> "answer"
  /\ UNCHANGED <<disk, hist, cont, byApprove, msgs, queue, parked, turn, nudged, reason>>

NeedsHuman(k) == k = "ask" \/ (k = "outside" /\ ~suspending)
Dispatch(c, k) ==
  \/ NeedsHuman(k) /\ Park(c)
  \/ ~NeedsHuman(k) /\ LeaveUnanswered(c)
  \/ ~NeedsHuman(k) /\ Handle(c, k)

DispatchDone ==
  /\ pc = "dispatch" /\ queue = {}
  /\ pc' = IF suspending THEN "save" ELSE "send"
  /\ UNCHANGED <<disk, proc, hist>>

SavePending ==
  /\ pc = "save"
  /\ pend' = parked /\ torn' = FALSE
  /\ UNCHANGED <<log, base, rejected, lastEnd, hist>>
  /\ Stop("awaiting_approval")

\* run's last write: the invocation_end record.
End ==
  /\ pc = "end"
  /\ lastEnd' = reason
  /\ Exit
  /\ UNCHANGED <<log, base, rejected, pend, torn, hist>>

-----------------------------------------------------------------------------
(***************************************************************************)
(* Faults.  save_pending is fs::write, which truncates before it writes,   *)
(* so a fault there can leave a pending.json nobody can parse; the other   *)
(* writes are one line or one unlink and happen or do not.                 *)
(***************************************************************************)
PendingSurvives == UNCHANGED <<pend, torn>>
PendingTorn == pc = "save" /\ pend' = {} /\ torn' = TRUE

Fault ==
  /\ faults < MaxFaults
  /\ faults' = faults + 1
  /\ PendingSurvives \/ PendingTorn
  /\ UNCHANGED <<log, base, rejected, lastEnd, issued, runs, failed, invs>>

\* The process is killed; no invocation_end record is written.
Crash == pc # "idle" /\ Fault /\ Exit

\* A write fails, `?` takes the error out of drive and run records the end.
Writing == {"record", "answer", "clear", "repair", "cancel", "prompt", "nudge", "dispatch", "send",
            "save"}
WriteFails == pc \in Writing /\ Fault /\ Stop("stopped")

-----------------------------------------------------------------------------
\* What the human starts, what the process does by itself, what goes wrong.  The
\* loops over calls take the first one that is left.
Human == Tell \/ ApprovePending \/ ApproveResume \/ ApproveTorn

Compaction == SkipCompaction \/ Compact \/ CompactTorn

Start == Load \/ LoadApprove \/ RefuseGrant \/ AppendUser

Pipeline(c) == RecordDecision(c) \/ RunCall(c) \/ RunFails(c) \/ RunBreaks(c) \/ AnswerCall(c)

Healing(c) == RepairClears(c) \/ RepairRejects(c) \/ RepairCancels(c)

Model == \/ TransportFailed \/ ApiRejected \/ OutOfTurns
         \/ ReplyWithCalls \/ ReplyWithText \/ ReplyEmptyToApprove

Turn(c) == RefuseCall(c) \/ \E k \in Kind : Dispatch(c, k)

Ending == SessionExhausted \/ DispatchDone \/ SavePending \/ End

Step ==
  \/ Compaction \/ Start \/ ClearPending \/ RepairDone \/ Model
  \/ \E c \in Calls : First(c, queue) /\ (Pipeline(c) \/ Healing(c) \/ Turn(c))
  \/ Ending

Next == Human \/ Step \/ Crash \/ WriteFails

\* Where the program waits for others, without a limit of its own: for curl, which
\* it starts without --max-time (a summary asked for while compacting, the model
\* call of a turn), and for a tool, whose command may leave its pipes to a
\* process that never closes them.
Waiting ==
  \/ pc = "run"
  \/ pc = "send" /\ turn < MaxTurns
  \/ pc = "compact" /\ ~torn /\ pend = {}

\* The program is sequential: where it does not wait for others it goes on.
\* That what it waits for ever comes is not assumed.
OwnStep == pc # "idle" /\ ~Waiting /\ Step
Spec == Init /\ [][Next]_vars /\ WF_vars(OwnStep)

-----------------------------------------------------------------------------
(***************************************************************************)
(* Properties.                                                             *)
(***************************************************************************)
\* Types, and the caps: a turn never admits more calls than
\* turn_tool_call_limit, an invocation never more than session_tool_call_max.
DiskOK ==
  /\ log \in Seq(Message) /\ base \in 0 .. Len(log)
  /\ rejected \subseteq Calls /\ pend \subseteq Calls
  /\ lastEnd \in Reason /\ torn \in BOOLEAN
ControlOK ==
  /\ pc \in PC /\ cont \in Continuation /\ kind \in Kind \cup {"failed", "none"} /\ reason \in Reason
  /\ byApprove \in BOOLEAN /\ nudged \in BOOLEAN
  /\ queue \subseteq Calls /\ parked \subseteq Calls
CountersOK ==
  /\ turn \in 0 .. MaxTurns /\ turnCalls \in 0 .. TurnLimit /\ admitted \in 0 .. SessionMax
  /\ issued \in 0 .. MaxCalls /\ runs \in [Calls -> Nat]
  /\ faults \in 0 .. MaxFaults /\ invs \in 0 .. MaxInvocations
TypeOK == DiskOK /\ ControlOK /\ CountersOK

\* The answers that directly follow an assistant, one per call, in call order.
AnsweredInPlace(m, i) ==
  LET n == Cardinality(m[i].calls) IN
  /\ i + n <= Len(m)
  /\ \A k \in 1 .. n : m[i + k].role = "tool"
                       /\ m[i + k].id = InOrder(m[i].calls)[k]
Expected(m) ==
  UNION {i + 1 .. i + Cardinality(m[i].calls) : i \in {j \in DOMAIN m : m[j].role = "assistant"}}
WellFormed(m) ==
  /\ \A i \in DOMAIN m : m[i].role = "assistant" => AnsweredInPlace(m, i)
  /\ \A i \in DOMAIN m : m[i].role = "tool" => i \in Expected(m)

\* What the API requires: in every request each assistant is followed by the
\* answers to exactly its calls, and no tool message stands anywhere else
\* (repair_messages' doc, which claims it without the proviso).
RepairRestoresOrder == pc = "send" => WellFormed(msgs)
\* The same for the requests of a session that never had a fault, or never
\* compacted: the two together can strand an answer (see RepairRestoresOrder).
RequestWellFormed == pc = "send" /\ (faults = 0 \/ base = 0) => WellFormed(msgs)

\* Whenever a request goes out, the disk already holds everything in it: a
\* later invocation would find nothing to cancel and would rebuild this very
\* message list (repair_orphaned_tool_calls: "the on-disk transcript is healed").
DiskMatchesRequest ==
  pc = "send" => /\ Orphans(Read(log, base)) = {}
                 /\ Repair(Read(log, base)) = msgs

\* A tool call is executed at most once, plus once more for every crash or
\* failed write that hit between its execution and the record of its answer.
AtMostOncePlusFaults == \A c \in Calls : runs[c] <= 1 + faults

\* Once a rejection of a call is on record (a deny rule, or the orphan pass
\* cancelling it) no later invocation executes that call.
RejectedNeverRuns == [][\A c \in rejected : runs'[c] = runs[c]]_vars

\* Between invocations of a fault-free session: what is parked are calls of
\* the last assistant turn, all of them unanswered, and nothing followed it;
\* a session that says it awaits approval has something parked.
PendingIsCurrent ==
  pc = "idle" /\ faults = 0 =>
    /\ lastEnd = "awaiting_approval" => pend # {}
    /\ pend # {} =>
         \E i \in DOMAIN log : /\ log[i].role = "assistant" /\ pend \subseteq log[i].calls
                              /\ pend \cap Answered(log) = {}
                              /\ \A j \in i + 1 .. Len(log) : log[j].role = "tool"

\* Without faults the transcript tells the truth: a call answered with a result
\* was executed, once; one that a rule, the gate, its own arguments or the orphan
\* pass kept from its tool was not.  An error of the tool itself leaves it open
\* (half a patch, a command called not spawned): it was executed once or not.
Executions(a) == CASE a = "result" -> {1} [] a = "failed" -> {0, 1} [] OTHER -> {0}
AnswersTruthful ==
  faults = 0 => \A i \in DOMAIN log : log[i].role = "tool" => runs[log[i].id] \in Executions(log[i].ans)

\* After a transport failure a pending-free approve re-issues the identical
\* request (README: "Nothing is appended").
RetryIdentical ==
  pc = "send" /\ cont = "retry" /\ turn = 0 /\ faults = 0 => msgs = failed

\* Every invocation ends, unless one model call or one tool keeps the last one
\* waiting for ever: the turns are bounded, the nudge happens once, the orphan
\* pass and approve's loop only shrink their queues.
InvocationEnds == []<>(pc = "idle") \/ <>[]Waiting

\* What the session promises about each call, whatever the crashes.
Ledger == INSTANCE CallLedger WITH answered <- Answered(log), cancelled <- Cancelled(log)
LedgerSpec == Ledger!Spec
=============================================================================
