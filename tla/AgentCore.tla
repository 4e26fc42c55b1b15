------------------------------ MODULE AgentCore ------------------------------
(***************************************************************************)
(* The Sans I/O agent core (sansio/agent.rs) together with the shell around *)
(* it: a transport per request, one job per action the core hands out, and *)
(* a user who prompts, approves, rejects and cancels.  Each handle_event   *)
(* arm that changes state is an action.  Cancelling and timing out do not  *)
(* recall what is already under way: streams and jobs of earlier requests  *)
(* go on delivering events, which the core has to drop.                    *)
(*                                                                         *)
(* Text is left out: a tool call is its id, the tool it names and whether  *)
(* its arguments outgrew ARGUMENTS_MAX_BYTES; metrics and the display      *)
(* fields (previews' contents, output tails) follow the steps below        *)
(* without deciding any.  The ids of one reply are distinct, as the        *)
(* providers' are; a later reply may use the same ids again.               *)
(***************************************************************************)
EXTENDS Integers, Sequences, FiniteSets, SequencesExt, FiniteSetsExt

CONSTANTS
  Index,        \* the choices[0].delta.tool_calls[].index values of one reply
  Fragments,    \* the tool-call fragments the model streams
  TurnLimit,    \* TURN_TOOL_CALL_LIMIT
  MaxRequests   \* bound: requests minted over the whole behaviour

ASSUME AgentAssumption ==
  /\ Index \subseteq Nat /\ IsFiniteSet(Index) /\ TurnLimit \in Nat /\ MaxRequests \in Nat
  /\ \A f \in Fragments :
       /\ f.fn \in {"none", "read", "patch", "command"} /\ f.over \in BOOLEAN
       /\ f.id = "none" \/ \A i \in Index : f.id # <<"missing", i>>

NoRequest == -1
Nothing == [i \in {} |-> {}]

VARIABLES
  conv,     \* conversation
  req,      \* pending.id (NoRequest: pending is None)
  phase,    \* pending.phase
  slots,    \* pending.tool_call_slots
  results,  \* pending.tool_results, by index
  status,
  nextId,   \* next_id
  used,     \* tool_calls_this_turn
  streams,  \* shell: requests whose transport has not finished
  jobs,     \* shell: actions under way: tool, preview, apply and exec
  sent,     \* history: how many messages each request sent
  cut       \* history: some tool phase was cancelled

core == <<conv, req, phase, slots, results, status, nextId, used>>
shell == <<streams, jobs>>
hist == <<sent, cut>>
vars == <<core, shell, hist>>

User == [role |-> "user"]
Assistant(r, ids) == [role |-> "assistant", by |-> r, calls |-> ids]
Tool(id, ans) == [role |-> "tool", id |-> id, ans |-> ans]

\* A set of indexes in ascending order.
InOrder(S) == [k \in 1 .. Cardinality(S) |-> CHOOSE i \in S : Cardinality({j \in S : j <= i}) = k]
InTools == req # NoRequest /\ phase # "streaming"

Init ==
  /\ conv = <<>> /\ req = NoRequest /\ phase = "streaming" /\ slots = Nothing /\ results = Nothing
  /\ status = "idle" /\ nextId = 0 /\ used = 0
  /\ streams = {} /\ jobs = {}
  /\ sent = <<>> /\ cut = FALSE

-----------------------------------------------------------------------------
\* mint_id, a fresh Pending and Action::StartRequest with the messages c; the
\* transports s are still running.
StartRequest(c, s) ==
  /\ conv' = c /\ sent' = Append(sent, Len(c))
  /\ req' = nextId /\ nextId' = nextId + 1
  /\ phase' = "streaming" /\ slots' = Nothing /\ results' = Nothing
  /\ status' = "awaiting_model"
  /\ streams' = s \cup {nextId}

\* Back to Idle with nothing pending.
GoIdle ==
  /\ req' = NoRequest /\ phase' = "streaming" /\ slots' = Nothing /\ results' = Nothing
  /\ status' = "idle" /\ used' = 0
  /\ UNCHANGED <<nextId, jobs, sent>>

UserMessage ==
  /\ req = NoRequest /\ nextId < MaxRequests
  /\ StartRequest(Append(conv, User), streams) /\ used' = 0
  /\ UNCHANGED <<jobs, cut>>

\* CancelRequest or CancelToolExecution goes to the shell, and nothing waits.
Cancel ==
  /\ req # NoRequest
  /\ cut' = (cut \/ InTools)
  /\ GoIdle
  /\ UNCHANGED <<conv, streams>>

-----------------------------------------------------------------------------
(***************************************************************************)
(* The reply of request r streams in, the active one's or a late one's.    *)
(***************************************************************************)
Streaming(r) == r \in streams /\ r = req /\ phase = "streaming"

ContentDelta(r) ==
  /\ Streaming(r)
  /\ status' = "streaming"
  /\ UNCHANGED <<conv, req, phase, slots, results, nextId, used, shell, hist>>

\* A fragment [id, fn, over] for index i: "none" is an absent field.  The first id and the first name stay, and arguments
\* that outgrow their limit once are over it for good.
EmptySlot == [id |-> "none", fn |-> "none", over |-> FALSE]
Merge(slot, f) ==
  [id |-> IF slot.id = "none" THEN f.id ELSE slot.id,
   fn |-> IF slot.fn = "none" THEN f.fn ELSE slot.fn,
   over |-> slot.over \/ f.over]

ToolCallDelta(r, i, f) ==
  /\ Streaming(r)
  /\ \A j \in DOMAIN slots \ {i} : f.id # "none" => slots[j].id # f.id
  /\ slots' = [j \in DOMAIN slots \cup {i} |->
                 IF j # i THEN slots[j]
                 ELSE Merge(IF i \in DOMAIN slots THEN slots[i] ELSE EmptySlot, f)]
  /\ status' = "streaming"
  /\ UNCHANGED <<conv, req, phase, results, nextId, used, shell, hist>>

\* Not a tool-calls finish, or no call came: the assistant turn is committed.
FinishText(r) ==
  /\ Streaming(r)
  /\ conv' = Append(conv, Assistant(r, <<>>))
  /\ GoIdle
  /\ streams' = streams \ {r}
  /\ UNCHANGED cut

\* finalize_tool_call_slots: a call that never got an id is given one.
CallId(i) == IF slots[i].id = "none" THEN <<"missing", i>> ELSE slots[i].id
CallIds == LET is == InOrder(DOMAIN slots) IN [k \in DOMAIN is |-> CallId(is[k])]

\* Mutant: tool messages in the order of resolution, the refused calls first.
AnswersByArrival(R) ==
  LET is == InOrder({i \in DOMAIN R : R[i].outcome # "reported"})
            \o InOrder({i \in DOMAIN R : R[i].outcome = "reported"})
  IN [k \in DOMAIN is |-> Tool(R[is[k]].id, R[is[k]].outcome)]
\* What advance_to_next_request pushes: one tool message per call, in order.
Answers(R) ==
  LET is == InOrder(DOMAIN R)
  IN  [k \in 1 .. Cardinality(DOMAIN R) |-> Tool(R[is[k]].id, R[is[k]].outcome)]

\* recompute_phase_and_status, on the results R.
AwaitsApproval(R) == \E i \in DOMAIN R : R[i].approval = "pending" /\ R[i].outcome = "none"
Recompute(R) ==
  /\ results' = R /\ slots' = Nothing
  /\ phase' = IF AwaitsApproval(R) THEN "awaiting_approval" ELSE "tool_running"
  /\ status' = phase'
  /\ UNCHANGED <<req, nextId, sent>>

\* maybe_advance_to_next_request, on the conversation c.
Unresolved(R) == {i \in DOMAIN R : R[i].outcome = "none"}
Settle(c, R, s) ==
  \/ Unresolved(R) # {} /\ Recompute(R) /\ conv' = c /\ streams' = s
  \/ Unresolved(R) = {} /\ StartRequest(c \o Answers(R), s)

\* The calls on_finish takes on: arguments within their limit that parse (the
\* calls in parsed), and the turn's limit not reached before them.
Accepted(parsed) ==
  LET fit == {i \in DOMAIN slots : ~slots[i].over /\ i \in parsed}
  IN {i \in fit : used + Cardinality({j \in fit : j < i}) < TurnLimit}

\* A command waits for the user right away, a patch once its preview is there;
\* a call that is not taken on is answered by a synthetic error.
Call(i, taken) ==
  [id |-> CallId(i), fn |-> slots[i].fn,
   approval |-> IF i \in taken /\ slots[i].fn = "command" THEN "pending" ELSE "not_required",
   outcome |-> IF i \in taken THEN "none" ELSE "refused", by |-> <<>>]
Job(i, id, kind) == [req |-> req, at |-> i, id |-> id, kind |-> kind]

FinishToolCalls(r) ==
  /\ Streaming(r) /\ DOMAIN slots # {} /\ nextId < MaxRequests
  /\ \E parsed \in SUBSET {i \in DOMAIN slots : slots[i].fn # "none"} :
       LET taken == Accepted(parsed) IN
       /\ jobs' = jobs \cup {Job(i, CallId(i), "tool") : i \in {j \in taken : slots[j].fn = "read"}}
                       \cup {Job(i, CallId(i), "preview") : i \in {j \in taken : slots[j].fn = "patch"}}
       /\ used' = used + Cardinality(taken)
       /\ Settle(Append(conv, Assistant(r, CallIds)), [i \in DOMAIN slots |-> Call(i, taken)],
                 streams \ {r})
  /\ UNCHANGED cut

TransportError(r) ==
  /\ Streaming(r)
  /\ GoIdle
  /\ streams' = streams \ {r}
  /\ UNCHANGED <<conv, cut>>

\* A timeout ends a request that is streaming; in the tool phase, or of an
\* earlier request, it is dropped: a stutter.
Timeout ==
  /\ req # NoRequest /\ phase = "streaming" /\ GoIdle
  /\ UNCHANGED <<conv, streams, cut>>

\* Deltas, finishes and errors of a request that is no longer pending.
LateStream(r) ==
  /\ r \in streams /\ ~Streaming(r)
  /\ streams' = streams \ {r}
  /\ UNCHANGED <<core, jobs, hist>>

-----------------------------------------------------------------------------
(***************************************************************************)
(* The tool loop: what the shell reports and the user decides.             *)
(***************************************************************************)
\* Mutant: an event is taken by its call id, whatever request it is tagged with.
MatchesById(job, i) == InTools /\ results[i].id = job.id /\ results[i].outcome = "none"
\* on_tool_result's lookup: the request, the call id, and no outcome yet.
Matches(job, i) ==
  InTools /\ job.req = req /\ results[i].id = job.id /\ results[i].outcome = "none"
First(S, i) == i \in S /\ \A j \in S : i <= j

ToolResult(job) ==
  /\ job \in jobs
  /\ jobs' = jobs \ {job}
  /\ \E i \in DOMAIN results :
       /\ First({j \in DOMAIN results : Matches(job, j)}, i)
       /\ Settle(conv, [results EXCEPT ![i].outcome = "reported", ![i].by = <<job.req, job.at>>],
                 streams)
  /\ UNCHANGED <<used, cut>>

PreviewReady(job) ==
  /\ job \in jobs /\ job.kind = "preview"
  /\ jobs' = jobs \ {job}
  /\ \E i \in DOMAIN results :
       /\ First({j \in DOMAIN results : Matches(job, j) /\ results[j].approval = "not_required"}, i)
       /\ Recompute([results EXCEPT ![i].approval = "pending"])
  /\ UNCHANGED <<conv, used, streams, cut>>

\* The result or the preview comes late: nobody waits for it any more.
LateReport(job) ==
  /\ job \in jobs
  /\ \A i \in DOMAIN results : ~Matches(job, i)
  /\ jobs' = jobs \ {job}
  /\ UNCHANGED <<core, streams, hist>>

\* The first call with this id whose approval is Pending.  Its arguments were
\* parsed when it was taken on, so on_approve_tool_call's error arms are dead.
Asking(id) == {i \in DOMAIN results : results[i].id = id /\ results[i].approval = "pending"}

\* Mutant: a second key press approves again.
ApproveAgain(id) ==
  /\ \E i \in DOMAIN results :
       /\ First({j \in DOMAIN results : results[j].id = id /\ results[j].approval \in {"pending", "approved"}}, i)
       /\ Recompute([results EXCEPT ![i].approval = "approved"])
       /\ jobs' = jobs \cup {Job(i, id, IF results[i].fn = "patch" THEN "apply" ELSE "exec")}
  /\ UNCHANGED <<conv, used, streams, cut>>
ApproveToolCall(id) ==
  /\ \E i \in DOMAIN results :
       /\ First(Asking(id), i)
       /\ Recompute([results EXCEPT ![i].approval = "approved"])
       /\ jobs' = jobs \cup {Job(i, id, IF results[i].fn = "patch" THEN "apply" ELSE "exec")}
  /\ UNCHANGED <<conv, used, streams, cut>>

\* Mutant: the rejection is noted, its synthetic outcome forgotten.
RejectWithoutOutcome(id) ==
  /\ \E i \in DOMAIN results :
       /\ First(Asking(id), i)
       /\ Settle(conv, [results EXCEPT ![i].approval = "rejected"], streams)
  /\ UNCHANGED <<used, jobs, cut>>
RejectToolCall(id) ==
  /\ \E i \in DOMAIN results :
       /\ First(Asking(id), i)
       /\ Settle(conv, [results EXCEPT ![i].approval = "rejected", ![i].outcome = "rejected"], streams)
  /\ UNCHANGED <<used, jobs, cut>>

-----------------------------------------------------------------------------
Model(r) ==
  \/ ContentDelta(r) \/ FinishText(r) \/ FinishToolCalls(r) \/ TransportError(r) \/ LateStream(r)
  \/ \E i \in Index, f \in Fragments : ToolCallDelta(r, i, f)

Report(job) == ToolResult(job) \/ PreviewReady(job) \/ LateReport(job)

Decide(id) == ApproveToolCall(id) \/ RejectToolCall(id)
Shown == {results[i].id : i \in DOMAIN results}

Next ==
  \/ UserMessage \/ Cancel \/ Timeout
  \/ \E r \in streams : Model(r)
  \/ \E job \in jobs : Report(job)
  \/ \E id \in Shown : Decide(id)

\* The shell finishes what it was handed, and a user looking at an approval
\* prompt decides; nothing makes a user prompt, or a model answer.
Fairness ==
  /\ WF_vars(\E job \in jobs : Report(job))
  /\ WF_vars(\E id \in Shown : Decide(id))

Spec == Init /\ [][Next]_vars /\ Fairness

-----------------------------------------------------------------------------
(***************************************************************************)
(* Properties.                                                             *)
(***************************************************************************)
\* Types; one user turn takes on at most TURN_TOOL_CALL_LIMIT calls over all
\* its requests; phase and status say the same.
TypeOK ==
  /\ req \in {NoRequest} \cup 0 .. nextId - 1 /\ nextId \in 0 .. MaxRequests
  /\ phase \in {"streaming", "tool_running", "awaiting_approval"}
  /\ status = "idle" <=> req = NoRequest
  /\ InTools <=> status \in {"tool_running", "awaiting_approval"}
  /\ InTools => status = phase
  /\ used \in 0 .. TurnLimit
  /\ streams \subseteq 0 .. nextId - 1
  /\ DOMAIN slots \subseteq Index /\ DOMAIN results \subseteq Index
  /\ cut \in BOOLEAN

\* Every assistant is followed by the answers to its calls, in their order,
\* and tool messages stand nowhere else.
AnsweredInPlace(m, i) ==
  LET n == Len(m[i].calls) IN
  i + n <= Len(m) /\ \A k \in 1 .. n : m[i + k].role = "tool" /\ m[i + k].id = m[i].calls[k]
Expected(m) ==
  UNION {i + 1 .. i + Len(m[i].calls) : i \in {j \in DOMAIN m : m[j].role = "assistant"}}
WellFormed(m) ==
  /\ \A i \in DOMAIN m : m[i].role = "assistant" => AnsweredInPlace(m, i)
  /\ \A i \in DOMAIN m : m[i].role = "tool" => i \in Expected(m)

\* What StartRequest sends is well-formed as long as no tool phase was
\* cancelled: Cancel leaves the assistant's calls without their answers.
RequestWellFormed == req # NoRequest /\ phase = "streaming" /\ ~cut => WellFormed(conv)

\* A reply is committed right behind the messages of its own request: no late
\* finish of a cancelled or timed-out request is taken for the current one's.
RepliesFollowTheirRequest ==
  \A i \in DOMAIN conv : conv[i].role = "assistant" => sent[conv[i].by + 1] = i - 1

\* A result or a preview of an earlier request with the same call id is never
\* taken for the current call's (the module doc's "without corrupting state").
ResultsAreOwn ==
  \A i \in DOMAIN results : results[i].outcome = "reported" => results[i].by = <<req, i>>

\* Late events, of a request that was cancelled, timed out or answered, are never
\* taken for the current one's.
EventsAreOwn == RepliesFollowTheirRequest /\ ResultsAreOwn

\* The tool loop never waits in vain: some call is open, and every open call
\* is with the shell or before the user.
NothingForgotten ==
  InTools => /\ Unresolved(results) # {}
             /\ \A i \in Unresolved(results) :
                  \/ results[i].approval = "pending"
                  \/ \E job \in jobs : job.req = req /\ job.at = i /\ job.id = results[i].id

\* A patch is applied and a command executed only by the step that approves
\* it: once, unresolved, and never after a rejection.
RunsOnlyWhenApproved ==
  [][\A job \in jobs' \ jobs : job.kind \in {"apply", "exec"} =>
       /\ results[job.at].approval = "pending" /\ results[job.at].outcome = "none"
       /\ results'[job.at].approval = "approved"]_vars

\* If the user answers the prompts, the tool loop ends: the model is asked
\* again, or somebody gave up.
ToolLoopEnds == InTools ~> ~InTools
=============================================================================
