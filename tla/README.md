# attini: models, checks and proofs

attini is a coding agent for the command line. A human types `attini tell`, the
program sends the transcript to the model, runs the tool calls the model asks
for, and stops when it needs the human; `attini approve` continues. Nothing
stays running between two commands: everything that must survive is in the
session directory `.attini/<name>/`, and the next command has to make sense of
whatever the last one left there, also when it was killed half-way. That is
where the program is hard to get right, and what these models are mainly about.

## The system's parts

| part | source | state it keeps | operations | what is hard | what makes it correct |
|---|---|---|---|---|---|
| turn loop | `tell_cli.rs` | message list, gate counters, parked batch (in memory); the session files | `run`, `drive`, dispatch of the four kinds of tool, `execute_pending`, `repair_messages`, compaction | dies between any two writes; resumes from files it wrote in steps | requests the API accepts; a call runs once per approval; what the model is told is what happened |
| session directory | `session.rs` | `conversation.jsonl`, `pending.json` | `append`, `save_pending`, `load_pending`, `clear_pending`, the load behind the newest summary | torn writes; two files with no common commit | the two files never disagree about what is still to be approved |
| session LOCK | `session.rs` | the LOCK file and the pid in it | `Session::open`, `Drop` | several processes; crashes; pid reuse | one holder; a dead holder does not wedge the session |
| AgentCore | `sansio/agent.rs` | conversation, pending request, per-call results, status | one handler per `Event` | events come late, twice, out of order | results go to their own call; nothing runs unapproved; the tool loop ends |
| compaction, pruning | `tell_cli.rs` | summary records; the log itself | `try_auto_compact`, `compaction_cutoff`, `maybe_prune_conversation` | cuts history between a call and its answer, or under an open file handle | a cut never splits a pair; pruning loses nothing no summary covers |
| running a command | `child_output.rs` | child, process group, two pump threads | `run_streamed`, `wait_with_timeout`, `pump` | timeout against exit; pipes held open by descendants | it returns; output is complete up to the cap |
| patch tool | `tools.rs` | targets and tmp files; the tracked set | `preview_patch`, `check_patch_write`, `apply_patch` | other writers; failure between two renames | all or nothing; nothing irreversible without the human |
| permission rules | `permissions.rs`, `sansio/permissions.rs` | two `permissions.jsonl` files | `load`, `evaluate`, `grant*` | concurrent rewrites of one file | last match wins; what a grant reports is what the rules then say |
| read-only tools | `tools.rs`, `tell_cli.rs` | the roots of the executor; a parked read | `list_files`, `read_file`, `search_text`, approving a read | the tree changes under a walk; a path is resolved more than once; boundaries of lines and bytes | reaches no further than was granted; an answer not marked truncated is whole |
| safe commands | `sansio/safe_command.rs` | none | `classify` an argument vector | options that retarget or write | what runs unasked writes nothing and stays inside |
| transport | `curl.rs`, `sansio/sse.rs`, `sansio/deepseek.rs` | decoder buffer, partial reply, curl child | `call`, `next_event`, assembly of slots | chunks cut anywhere; curl dying half-way; three pipes | where the stream is cut does not matter; a reply is whole or an error |
| request building | `sansio/deepseek.rs` | none | body formatting | escaping | valid JSON |
| inspection | `session_cmd.rs`, `session.rs` | `ask.json` | `status`, `ask` | reads and rewrites without the LOCK, beside a running tell | cached answers belong to what is looked at; nothing else is lost; the totals add up |
| entry | `main.rs`, `metrics.rs`, `lib.rs` | counters | argument parsing | none | exit codes |

How they interact. `main` parses the arguments and calls `tell_cli::run`, which
opens the session (taking the LOCK), loads the rules, and drives turns: each
turn builds a request from the transcript, calls the transport, appends the
reply, and hands its tool calls to the dispatchers; these ask the gate, the
rules, the classifier and the patch guards, and run the call or park it. The
parked calls go to `pending.json` and the process exits. `approve` is a new
process that starts from that file. All parts share the session directory and
the workspace; processes share nothing else. `status` and `ask` read the same
files without the LOCK. `AgentCore` is the library's own state machine for a
long-running shell; `tell` does not use it, so its environment in the model is
any shell that performs the actions it is handed.

The hazards of this code, each at the line where it bites and with the
properties that watch it, are the `hazards` list of `PROJECT.json`.

## The modules

| module | models | kind |
|---|---|---|
| `TellLoop` | a session of `tell`/`approve` invocations, with faults | detailed specification |
| `CallLedger` | what a session promises of every tool call | abstract specification, refined by `TellLoop` |
| `SummarisedList` | what the log promises an invocation | abstract specification, refined by `ConversationLog` |
| `TellLoop_proofs` | two inductive invariants of `TellLoop`, what repair does to a list, eleven theorems | proofs |
| `SessionLock` | processes opening and closing one session | specification |
| `AgentCore` | the state machine and the shell around it | specification |
| `MCAgentCore` | the fragments a reply is streamed in, for TLC | model |
| `AgentCore_proofs` | its inductive invariant in two layers, five theorems | proofs |
| `ConversationLog` | `conversation.jsonl` as a file: handle, stamps, summaries, pruning | specification |
| `Session_proofs` | the files of a session: the inductive invariants of `SessionLock` and of `ConversationLog`, lemmas about the latter's filter, nine theorems | proofs |
| `Observers` | `ask` and `status` without the LOCK beside a running `tell` | specification |
| `MCObservers` | the sessions to look at and the windows, for TLC | model |
| `Observers_proofs` | its inductive invariant, lemmas about sums over a log, five theorems | proofs |
| `ChildOutput` | one `run_streamed`: processes, pipes, pumps, watchdog | specification |
| `PatchApply` | the patch tool from preview to the last rename, and somebody else at the files | specification |
| `MCPatchApply` | symmetry of the files, for TLC | model |
| `PatchApply_proofs` | its inductive invariant, four theorems | proofs |
| `Permissions` | the rule files of several sessions, evaluation and `--grant` | specification |
| `MCPermissions` | two commands, an update, an add and the lines a human writes, for TLC | model |
| `Permissions_proofs` | lemmas about judgements, its inductive invariant, four theorems | proofs |
| `SafeCommand` | the table of git commands that run unasked | operators |
| `ReadTools` | list, search, read and unasked git over a tree that changes | specification |
| `ReadTools_proofs` | its inductive invariant, lemmas about paths, walks and argument vectors, four theorems | proofs |
| `MCReadTools` | a small tree with a symlink, calls, texts and argument vectors, for TLC | model |
| `SseDecoder` | the incremental decoder, and a reference that reads a stream whole | operators |
| `Transport` | one model call: shell, curl, the server's answer, the assembly of the reply | specification, extends `SseDecoder` |
| `MCTransport` | 69 answers of servers, for TLC | model |
| `Processes_proofs` | the processes of a turn: the inductive invariants of `ChildOutput` and of `Transport`, lemmas about the decoder and the assembly, seven theorems | proofs |

The modules stand beside each other rather than inside one another. `TellLoop`
takes what the others establish as its primitives: that the log reads back as a
list with a summarised prefix (`SummarisedList`, which `ConversationLog` implements), that one
process has the session (`SessionLock`), that a model call ends in a whole reply,
a failure to retry or a rejection (`Transport`), that a call runs and returns
(`ChildOutput`, `PatchApply`, `ReadTools`), and that rules and the classifier give
a verdict (`Permissions`, `SafeCommand`).
Where a primitive fails, `TellLoop` has a fault or a free choice in its place.

### TellLoop

`conversation.jsonl` has many kinds of record but is only read through filters,
so each filter is a variable: `log` (user, assistant and tool records in file
order), `base` (how many of them the newest summary covers), `rejected` (calls
with a rejecting approval record) and `lastEnd` (the newest end record).
`pend` is `pending.json`, `torn` says that it holds half a write. These survive
a crash; the rest (`msgs`, the gate counters, the queue of the current loop,
the parked batch) is the process and does not. `pc` names the place in `drive`.

The actions follow one invocation: a command begins (`Tell`,
`ApprovePending`, `ApproveResume`, `ApproveTorn`: the continuation after
`normalise_pending_free_approve`), compacts (`Compact`, `SkipCompaction`),
loads the transcript (`Load`, `LoadApprove`), works through the approved batch
(`RecordDecision`, `RunCall` or one of the two ways to fail below, `AnswerCall`,
`ClearPending`), repairs calls
nothing answered (`RepairClears`, `RepairRejects`, `RepairCancels`,
`RepairDone`), appends the prompt, and then alternates the model's replies with
dispatch until it suspends (`SavePending`), stops or runs out of turns.
Each append and each write of `pending.json` is a step of its own, in the
code's order, because a fault can fall between any two. `Crash` stops the
process at any step; `WriteFails` makes a write report an error, which the code
propagates; `PendingTorn` is the crash inside `fs::write`.

A call is a number in order of emission, so a set of calls stands for the
ordered list the code walks. What dispatch decides about a call (its `Kind`) is
a free choice per call: rules, classifier and guards are other parts. A call that
reaches its tool has one of three outcomes. `RunCall` gives a result. `RunFails` is
an error of a tool that did nothing: a preview or phase 1 of a patch, a program that
cannot be spawned. `RunBreaks` is an error of a tool that did its work or a part of
it: the second rename of a patch fails, or the output of a command cannot be shown or
its end not be waited for, which `run_command_sync` answers as a failure to spawn
although the command ran. What a call is answered is accordingly one of four
(`Answer`): a result, an error of its tool, a refusal before any tool saw it (a deny
rule, the gate, bad arguments), a cancellation.

`CallLedger` has only what a reader of the session would want to know of a
call: issued, executed how often, answered, cancelled. `TellLoop` implements it
with `answered <- Answered(log)`: an answer is never given twice to the ledger,
an unexecuted call is only answered with an error or a cancellation, a repeated
execution is paid for by a fault.

### SessionLock

Each pid has a state of `Session::open` (`at`), and the LOCK path holds nothing,
an empty file, or a pid. `create_new` and the write of the pid are two steps,
as are reading an existing LOCK, probing its pid, and unlinking it, since other
processes act in between. `Crash` ends a process anywhere (a failed write after
`create_new` ends the same way: the LOCK stays, the process does not).
`OtherStarts` and `OtherEnds` give a free pid to an unrelated program, which is
what makes a dead holder's LOCK look alive; `kill(pid, 0)` answers alive, dead
or not-permitted, and only dead makes the LOCK stale. Two history variables:
`overlap`, some process started while another was still opening, and `alone`,
the processes that have had the session to themselves.

### AgentCore

One action per event of `handle_event`. A request streams text or fragments of
tool calls into `slots`; `FinishToolCalls` turns them into `results` under the
argument-size and turn limits; results, previews, approvals and rejections
resolve the entries; when every entry has an outcome the answers are appended
and the next request starts. The shell is modelled by what it has been handed:
`streams` are the requests whose transport may still report, `jobs` the calls
it is still to run or preview. Late events are ordinary members of these sets
whose request is no longer pending. A call's id is unique within a reply and
recurs between replies, as with real providers.

### ConversationLog

`file` is the sequence of lines at the path, `attached` whether the writer's
handle (`Session.writer`) is still that file. A message record has a kind, the
millisecond it was stamped with and its number; a summary has the stamp of the
last record it folds and the set of records that went into its text. One
invocation is `Tell` (`SkipPrune` or `Prune`, then `SkipFold`, `Fold` or
`FoldTorn`) or `Approve`, then `Load` or `Unreadable`, appends and `Exit`.
`Tick` is the wall clock, which also goes back. `AppendTorn` is a write that
stops half-way: the next line joins the fragment and every reader refuses the
file. `Prune` may cut at any line behind which `line_is_safe_boundary` lets it,
`Fold` at any cut `compaction_cutoff` could choose; sizes are not counted.
That a torn write may lose the newline only is not told apart.

`SummarisedList` has no file: `records` are all that was ever said, `covered` counts those
the newest summary stands for, and a running invocation holds what that covers and the
`rest`. Its steps are `Summarise`, `Recall`, `Say` and `Leave`; `exact` says that the promise
still holds, and `Broken` ends it for good.

### ChildOutput

The three threads of `run_streamed`: `wd` is where the watchdog is in
`wait_with_timeout` and then in the two joins, `pump` what each pump thread has
met. The command is its environment: the leader and one descendant (`Fork`,
inside or outside the process group, with any of the pipes) write, exit, ignore
SIGTERM, or do nothing for ever. Output is counted; a pipe holds `PipeRoom`.
`Deadline` and `GraceEnds` are the two instants the clock matters for.

### PatchApply

A file is whether it exists and the set of edits it shows, so a lost edit is a
missing element. A call goes edit by edit through `PreviewEdit`, then is
applied, parked or left unanswered, and applying is one step per file in each
phase (`StageEdit`, `RenameNext`), since `OtherWrites` can fall between any
two. `Guard` is `check_patch_write`: the write rules, the critical paths, git.
`approved` tells the batch `approve` runs from the calls of a turn. The rules
are a free choice at each start, the git probe any subset of the files in the
repository. `parked` is `pending.json` and, before `save_pending`, the batch in
memory: a crash loses the latter only. The configuration takes the zones
`plain`, `outside` and `critical`; `ignored` and `scratchpad` take the same
branches (refuse, ask) and fit in the module.

### Permissions

`file` holds the lines of the workspace file and of each session's file,
`loaded` what a process goes by. A call that no rule decides is parked
(`Park`), and the process ends. `Approve` is another process, with the rules as they
are by then, which is hours and edits later perhaps; it runs the call without
judging it again (`Executed`, before which a crash leaves the call parked), and the
grant follows `grant` and `append_rule_line` step by step: look for the same matcher (`AlreadyThere`,
`NotThere`), read the file again (`ReadBody`), rename a copy with one more line
over it (`Rename`), reload (`Reload`). The sessions share the workspace file,
without a lock, with each other and with the human's editor (`Edit`). Comments
and malformed lines stay in the sequences and match nothing; a file that is not
text counts as empty, as a warning and no rules are what the code makes of it.

### Observers

`ask` is a process per asker with the steps of `run_ask`: read the log
(`Readable` or give up), load `ask.json` and drop it unless it was computed from
the same records (the fingerprint), call the model, and write a temporary file
and rename it. `status` is one step, `StatusReports`: it scans the log, and what
it prints is the record `report`. The `tell` beside them is reduced to what it
does to the log: `t` is where it is, and it appends, folds, prunes, snapshots its
counters, or dies. A message is its stamp; an answer is who gave it, over which
records (`of`) and how many saves came before it was begun (`after`), which is
what tells an overlap from a loss.

### ReadTools and SafeCommand

A place is a path without links; one symlink can be pointed elsewhere, some
places come and go, and a directory may be replaced by a symlink that leads out of
the workspace, between any two steps of a walk and also while it is queued (`Vanish`,
`Appear`, `Retarget`, `Turn`). What is queued is a name: `walk_list` opens what the
name leads to by then (`Canon`), `walk_search` looks at the entry itself first
(`Lstat`), so that of a symlink it takes nothing, but follows one above it. A file
that cannot be read is a `blob`, as a binary one. `list_files` and `search_text` take a place off `stack` at each
`WalkStep`, in the order of the code's sort, with their caps; `read_file` is one
step over a small text of characters, newlines, NULs and one two-byte character,
with `READ_MAX_BYTES` and the line range. A call outside the roots is parked,
approved with or without a grant, resolved again and run with a root for that
call alone. `SafeCommand` is the table of `safe_command.rs`, with one or two
options standing for each class the table tells apart; `RunCommand` runs what it
lets through and `ParkCommand` parks the rest. How git itself reads an argument
vector is written down next to the property (`Sent`, `Names`, `Writes`), apart from
the table: of a subcommand that reads, every operand may be a path, in front of `--`
as well as behind it, and so may the value of an option; relative paths are relative
to where `-C` sends git. `Unjudged` are the tokens among them that the code does not
look at.

### Transport and SseDecoder

`SseDecoder` has the code's decoder as functions on a record of its fields, byte
by byte, and next to it the reference: the lines and messages of a stream read
as a whole. `Transport` is one `call`: curl is spawned, the request written to
its stdin, chunks of any size read from its stdout and decoded, the deltas
assembled into text and slots, and curl waited for. `CurlFails` can come at any
time, before, between or behind the bytes; the server's answer is chosen at the
start from `Bodies`. A JSON value is a record of the members it has, so that an
absent member and `null` are two things, as they are for the code.

## Runs

| run | question | bounds | states |
|---|---|---|---|
| `tell_loop` | everything `TellLoop` must keep, with liveness and refinement | 3 calls, 2 replies, 3 invocations, 1 fault, 2 turns, gate limits of 2 | 1,034,880 |
| `tell_stray_answer` | does repair restore the order? | 1 call, 5 invocations, 1 fault | violated |
| `session_lock` | exclusion, recovery and Drop | 3 pids, 4 process starts | 189,598 |
| `agent_core` | everything `AgentCore` must keep, with liveness | 3 requests of up to 2 calls, turn limit 2 | 327,720 |
| `conversation_log` | is the log the list with a summarised prefix `TellLoop` works with? | 3 records, 3 invocations, 2 summaries, 1 pruning, 1 torn write, a clock of 3 values | 2,058,072 |
| `log_pruned_writer` | does an append reach the file? | the same without torn writes | violated |
| `observers` | what can readers without the LOCK be wrong about? | 2 askers, 3 windows, 3 asks, a cache of 2, 2 invocations of 2 turns, 1 fold, 1 prune, 1 fault | 1,394,063 |
| `child_output` | is the result right, and does it come? | cap, pipe and chunk of 2, 4 units written per stream, 1 display error | 197,236 |
| `patch_apply` | everything `PatchApply` must keep | 2 files, 2 calls of up to 2 edits, 1 write by somebody else, 1 fault | 2,047,720 |
| `permissions` | everything `Permissions` must keep | 2 sessions, 4 calls, 2 grants, 1 edit by hand, 1 fault | 1,915,871 |
| `read_tools` | how far do the read tools reach, and are their answers whole? | 12 places, 17 calls, 1 directory that may become a symlink, 2 changes of the tree, 1 crash, texts of up to 4 characters, a window of 3 bytes | 838,644 |
| `transport` | is a reply what the server sent, and does the call return? | 69 bodies of up to 3 messages, a pipe of 8 bytes, lines of up to 4 | 48,159 |

Why the bounds are enough to be interesting. In `tell_loop` a reply can carry a
call that runs at once, one that is parked and one the gate rejects, both gate
limits can be reached, and three invocations are a prompt that suspends, an
approve that a fault interrupts, and the command after it. One fault suffices
for every window between two writes; faults that follow each other are covered
by the proofs of the properties that count them. In `session_lock` three pids
are two contenders and a holder, and four starts let a pid come back. In
`agent_core` three requests are an old one whose events are late, the current
one, and the one its answers start.
In `conversation_log` three records are an assistant, its answer and a record
on the other side of a cut, two summaries make the second cumulative, and a
clock of three values has equal, later and earlier stamps. In `child_output` a
stream can exceed the cap by a whole pipe. In `patch_apply` two edits are the
first and last of a patch, the second call finds what the first left, and one
fault can fall before, between and after the renames. In `permissions` the two
commands share the two-token prefix a grant writes, one of the deny rules is
longer than that prefix and one equal to it, as is an allow rule, the second grant
meets the first, and the human's line can be a rule, a comment or bytes that are not
text. All three reports of a grant are reached, each with the rules that bear it out
and with those that overrule it: one grant and one line by hand are a file with two
rules of the same matcher that say the opposite.
In `observers` three asks are two that overlap and one that finds what they
left, a cache of two has an entry pushed out, and the three starts leave the
bounds to the question: asks among themselves with a crash, asks beside a tell
that prunes and folds, two tells with only `status` looking. In `read_tools` the
link leads inside or out, a directory vanishes, or turns into a symlink, before, in
or after the walk, and the texts end a byte short of the window, at it and behind it, also in the middle
of a character. In `transport` bodies have each terminator, comments, two data
fields, interleaved calls, an error body with either status, and lines of one
byte below, at and above the limit, and every way to cut them into chunks.

`CHECK_DEADLOCK FALSE` everywhere but in `read_tools`: a human who types no
further command stops the system legitimately, a `run_streamed` or a `call` that
returned is over, and the bounds do the same.

### Properties

Of `TellLoop`: what is sent is well-formed, each call answered once right after
its assistant, as long as no fault met a compaction (`RequestWellFormed`); once
repair is done the disk holds the same answers as the request
(`DiskMatchesRequest`); executions per call are bounded by one plus the faults
(`AtMostOncePlusFaults`); the parked batch on disk belongs to the newest
assistant record, so an approval never runs something the conversation has moved
past, while no fault occurred (`PendingIsCurrent`; of a torn `pending.json` other
properties speak: such a session goes on with well-formed requests); a call answered
with a result was executed once, one that was refused or cancelled was not, one
answered with an error of its tool at most once, while no fault occurred
(`AnswersTruthful`: more cannot be said of an error, see `RunBreaks`); a retry sends exactly the request
that failed (`RetryIdentical`); a rejected call never runs (`RejectedNeverRuns`);
every invocation ends, or waits for ever for one model call or one tool
(`InvocationEnds`); the ledger is implemented
(`LedgerSpec`).

Of `SessionLock`: two holders only if opens overlapped
(`ExclusiveUnlessOverlap`); a process alone with the session is refused only if
the pid in the LOCK is alive (`StaleNeverRefuses`); Drop unlinks its own LOCK
unless opens overlapped (`DropRemovesOwn`).

Of `AgentCore`: a request is well-formed unless a tool loop was cut short
(`RequestWellFormed`); a reply is appended to the request it answers, and an
outcome belongs to the entry's own call (`EventsAreOwn`, of the two named parts
`RepliesFollowTheirRequest` and `ResultsAreOwn`); every unresolved entry has
somebody who will resolve it
(`NothingForgotten`); only an approved command or patch is handed to the shell
(`RunsOnlyWhenApproved`); the tool loop ends (`ToolLoopEnds`).

Of `ConversationLog`: it implements `SummarisedList` (`ListSpec`). Every record appended
is recalled in order or is in the summary, a summary ends where a rest may begin
and covers more than the one before, and torn writes are not seen, while the file was
not pruned and stamps can tell a cut apart (`exact`). What is sent never has a tool
record away from its calls, whatever was pruned and folded (`PairsUnsplit`); a summary
never covers less than the one before, after a pruning and with any stamps
(`SummariesGrow`).

Of `ChildOutput`: what is returned is all that was written up to the cap,
`truncated` says when it is not, and `timed_out` is set exactly when the watchdog
signalled behind the deadline (`ReportIsTrue`; a child that exits by itself just before the
signal counts as timed out, as in the code); no signal goes to a group whose
leader was reaped (`OwnGroupOnly`); with a timeout the call returns, unless a
descendant that survived keeps a pipe open (`ReturnsUnlessHeld`).

Of `PatchApply`: a patch that is reported applied is on disk with all its
edits, one that failed without a fault with none, a failed rename or a crash
leaves the edits before it, and no tmp file stays behind without a fault
(`PatchIsAtomic`); a change somebody else made before phase 1 read
the file is kept or makes the patch fail (`OthersKept`); no write goes against
a deny rule, and none happens unattended that no rule allows and git could not
revert (`WritesAreCovered`).

Of `Permissions`: what `apply_grant` reports of a call is what the rest of the
invocation goes by, however the files were edited while the call waited and ran:
allowed behind "granted" and "already granted", denied behind a conflict, never asked
again. Excepted are rules the grant does not look at (`Overruled`: a rule of the session
over a grant to the workspace, a rule behind the first with the matcher), a path not
spelled as rules are, and a change by others within the few instructions of the grant
itself (`GrantTakesEffect`); a grant takes no line away, unless the file was
written between its reading and its renaming (`LinesSurvive`); a grant changes
judgements only to allow, only below its prefix, in another session only
through the workspace file and never against that session's own rules
(`GrantReach`).

Of `Observers`: the answers in `ask.json`, and those a model is given as prior
context, were all given over the records the asker sees (`EntriesOfOneView`); an
answer once saved stays until one over other records, enough newer ones, or an
ask that overlapped replaces it, in order (`LostOnlyToOverlap`); nobody sees half
a file (`NeverPartial`); what `status` adds up is what replies recorded, and it
warns of diverging sums only with a reason (`TotalsAreRecorded`).

Of `ReadTools`: outside the workspace a tool is let into what a rule names or what the
human approved this very call for, however the links move, and opens nothing that is
not below that, unless a directory was replaced by a symlink while it, or something
below it, was queued; a symlink that is there when its directory is read is never
followed (`ReachIsGranted`); an
answer that is not marked truncated has everything that stood throughout the
walk, nothing that never stood, and each thing once (`AnswersAreWhole`); a
git command nobody was asked about changes nothing itself, and neither the directory
it is sent to nor any token it may take for a file is outside, but for those that are
`Unjudged` (`UnattendedGitReads`).

Of `Transport`: what has been decoded does not depend on where the stream was
cut (`ChunksDoNotMatter`, with one exception below); the reply is the one that
was streamed, call by call (`ReplyEchoesStream`); `Ok` means a transfer that
ended well and was read, and a rejection is given up for good exactly if the
server gave a reason (`OutcomeIsTrue`); the call returns (`CallReturns`).

Each module also has its `TypeOK` (`LockTypeOK`, `ChildTypeOK`), which is one of the
theorems about it.

### Fairness

`TellLoop` has weak fairness of `OwnStep`, the process's own steps where it does not
wait for anybody: a sequential program keeps going. Of the three places where it waits
nothing is assumed, for nothing in the code bounds them (`Waiting`): a model call of a
turn or of a compaction, as curl is started without a time limit (curl.rs:141-158), and
a tool, as a descendant of a command can hold its pipes for ever (child_output.rs:134;
`--command-timeout` ends the command, not the wait for the pipes). So `InvocationEnds` says
that an invocation ends or is waiting there for good, and what it excludes is a program that
goes round: through turns, nudges, repairs or the batch. The human, crashes and failing
writes are not fair either. `AgentCore` has weak fairness of
the shell reporting the jobs it was handed and of the human deciding what is
shown as awaiting approval; a model's stream need not progress, and no event
is required to come late. `ChildOutput` has weak fairness of the watchdog, of
each pump thread and of the two instants of the clock: threads are scheduled and
time passes; of the command nothing is assumed. `Transport` has weak fairness of
the shell's own steps and of the server delivering its answer, whole or broken
off: curl is started without a time limit, so against a server that is silent for
ever nothing in the code helps. The other modules have no liveness property.

### Disagreements found

Two runs state what a comment or document of the repository says and are
violated by the code; `findings` in `PROJECT.json` quotes both sides.

* `repair_messages` does not drop every stray tool message: one whose assistant
  was folded into a summary is kept.
* After a pruning the invocation appends to the file that was renamed away:
  everything it records is lost.

Met while reading and not a run of its own:

* `pending.json` is not "present iff suspended": a crash between the last
  answer of an approved batch and `clear_pending` leaves it, the next prompt
  finds no orphan and so does not drop it, and a later approve runs the batch
  again (the faults in `AtMostOncePlusFaults`).
* The LOCK is not exclusive: it is empty between creation and the write of the
  pid, which a concurrent open takes for corruption and removes (`overlap`).
* Turn loop. The note to the model that any call after a gated one is cancelled
  (`render_tool_batching_note`), while later gated calls are parked and only the
  rest is left unanswered. A session limit reached after calls were parked
  leaves nothing saved to approve.
* `AgentCore` drops a timeout reported in the tool phase (agent.rs:1982), while
  the doc of `CancelToolExecution` (agent.rs:1066) has it cancel the tools. A
  provider that gave two calls of one reply the same id would have the second
  taken for the first (agent.rs:1734); that the ids differ is assumed.
* Log. A retained record with the millisecond of the cutoff is neither folded
  nor sent (session.rs:351); `steady` is the exception in `ListSpec`.
  pruning.md:52 says that pruning never touches the newest summary; the
  midpoint cut does not look.
* `run_streamed`. "A hung command cannot block a turn forever"
  (child_output.rs:20-24) does not hold for a descendant that outlives the
  leader with a pipe: `join_pump` waits for it; the exception in
  `ReturnsUnlessHeld`. A display error, or one of waiting, is reported as a failure to
  spawn though the command ran (tell_cli.rs:2900-2904, child_output.rs:278); a patch whose
  second rename failed is answered with an error though half of it is on disk
  (tools.rs:341-357). The model is told that nothing ran, or not what did: `RunBreaks`.
* Transport. Of a line of exactly `max_line_bytes` that ends in CR the decoder
  counts the CR if a chunk ends behind it, so that here the cut does matter
  (sse.rs:4-5; `EdgeLine`). A stream that ends without `[DONE]` while curl
  reports success is a reply, however much of it came. An error object inside a
  stream has no choices and is passed over. After an error of the decoder curl is
  not waited for. `tool_calls: null` makes a chunk malformed, `content: null` does
  not.
* Unasked git. docs/design/safe-command-auto-approve.md:64-69 and 96-99 want every
  argument that git may take for a path checked, 129-131 anything not recognised as
  read-only refused. `safe_git_read` looks at paths behind `--` only, as "git only reads
  inside its work tree" (safe_command.rs:138-143), which does not hold of `git diff a b`
  with a path outside the repository (an implied `--no-index`) nor of `--contents`; `--ext-diff` and `--textconv` start programs the
  repository's configuration names; a relative path is looked up in the workspace also
  when `-C` sends git elsewhere (tell_cli.rs:2057-2061). These are the exceptions `Unjudged`.
* Walks. A directory that is replaced by a symlink between the listing of its parent and
  its own turn is followed, out of the roots as well, by `read_dir` (tools.rs:1017-1018); a
  search does so if it is replaced above what is queued (`swapped` in `ReachIsGranted`).
* Read tools. The content of a UTF-8 file above the limit is said to be
  truncated; if the cut falls inside a character the answer is `not_utf8`. A path
  is resolved when a grant is planned and again when the read runs, between which
  a link can move (tell_cli.rs:2179 says that they match). A listing that reaches
  its cap exactly is called truncated, a cap of 0 still lists one entry, and one
  unreadable directory fails the whole listing.
* `status` counts invocations by the reason they ended, but the reasons
  transport_error, max_turns and session_tool_call_exhausted in no category. It
  scans the log three times, so a running tell can come between two sums.
* Patches. Two spellings of one path in a call pass the distinct-path check; the
  first edit is lost and reported applied (`Aliased`). `mark_added` says that for updates the insert is a no-op; after the
  human approved an update of an untracked file it is not, and the next update
  of it is applied without asking (`wrote` in `WritesAreCovered`). An add is not
  auto-applied even where an allow rule covers it, because
  `patch_write_verdict` canonicalises a file that does not exist. A deny rule
  makes the preview fail, so it never "forces approval" as the dispatch comment
  says. A failing `write_atomically` leaves its own tmp file. `execute_pending`
  previews again, so Conflict does not compare with what the human saw.
* Grants. The grant of an add stores the path as spelled; `./x` then matches
  nothing (`spelled` in `Permissions`). A two-token prefix appended behind a
  longer deny of the same file overrides it. `grant` goes by the first rule with the
  matcher while `evaluate` goes by the last that matches: with a contradicting rule
  behind it, "already granted" is said of a call that is denied and a conflict of one that is
  allowed; and a rule of the session overrules what was just granted to the workspace
  (`Overruled`). Of two concurrent grants to the
  workspace file one can be lost (`stale` in `LinesSurvive`).

## Proofs

The proof modules hold for every value of the constants, under assumptions the
modules name: that bounds are numbers (`BoundsAssumption`, `StartsAssumption` of
`SessionLock`, `SizesAssumption`, `PatchAssumption`, `AgentAssumption`,
`LogAssumption`), that a cache has room for an entry and sessions start within the
bounds (`ObserversAssumption`), from logs closed invocations left, whose sums agree
and which count no more turns than replies (`StartsAssumption` of `Observers`), that
calls name a kind and a path, rules say whether they allow, and no session has a reserved
name (`PermissionsAssumption`), that a tree is a list of paths, the calls are lists and searches
with a cap or reads with a range, a file that exists lies in a directory that does, and
one place is a symlink from the start (`ReadToolsAssumption`), that directories which become
symlinks all lead to one place, which is neither above nor below them and whose names can
stand below theirs (`LinkAssumption`), that the list of places is in
the order a sorted walk has, those of a directory right behind it, and the matches of a
file are counted upwards (`TreeAssumption`), that a stream may hold the bytes the decoder
looks for (`SseAssumption`), and that a JSON value which decodes gives a chunk of typed
members, a `[DONE]` is no JSON value and an error object not a field name
(`TransportAssumption`).
In each, `Invariance` is the inductive invariant, `IInv`, and the others follow. Where one
module has the proofs of two components, the names of the smaller one carry its own
prefix (`LockInv`, `ChildInv`).

`TellLoop_proofs`. `IInv` is the type invariant with
* `Emission`: calls on record were issued, each asked by one assistant, and the
  assistant's record comes before any answer to it;
* `Rejection`: no rejected call is parked, and cancelled calls are rejected;
* `Phases`: which control states the continuation and the approver allow;
* `TurnFresh`, `ApproveInStep`, `RepairUnanswered`: in each of the three
  pipelines, what is still queued has not been answered, and has not run beyond
  what faults paid for;
* `RunsPaid`: each execution beyond the recorded answer is covered by a fault.

The type invariant and the bound on executions are not inductive alone: that a
call is not run twice depends on what the queue of the interrupted batch may
still hold, which is what the three pipeline invariants say. Each conjunct is
preserved by a lemma of its own with a step per action; `AnswerEffect`,
`CancelEffect` and the other effect lemmas state once what appending a record
does to the sets the invariant is written with. Theorems: `TypeCorrect`,
`AtMostOnce`, `RejectedStayUnrun` (the action property, from `Rejection`),
`ImplementsLedger` (every step is a ledger step or leaves the ledger alone).

The second half of the module is about what is sent and what stands in the file.
It begins with `repair_messages` as a function of lists: `RepairWellFormed` says
that a list in which no call is asked twice, answered before it is asked or
answered without having been asked is well formed once repaired, whatever is
missing in it, and further lemmas say what one more prompt, reply or
answer does to a repaired list. Then `JInv`, on top of `IInv`:
* `RecordsOrdered`: no call of the file is asked twice or answered before it is asked;
* `OrphansOpen`: whatever is unanswered behind the cutoff belongs to the last
  assistant of the file, so it can still be answered in place;
* `OrphanPass`, `RequestOnDisk`, `TurnOnDisk`: the orphan pass changes nothing that
  repair would not have done; where a request is prepared, the file replays as memory;
  inside a batch, as memory followed by the cancellations of the rest of the batch;
* while no fault has happened, `PendOpen` (parked calls are unanswered, and a session
  that says it waits for approval has one), `Unstranded` (answers directly follow their
  call, and no cutoff parts them), `TruthSoFar` (what was answered with a result has
  run once, what was refused or cancelled has not, and an unanswered call has run only if it is
the one in hand), `RetryOnDisk` (the file holds the
  request that failed until it is sent again).

None of the five properties is inductive alone. That the file holds what is sent is
known at `send` only because each step before kept the repaired file in a fixed
relation to memory, at every point where the process may die; and that relation
survives an orphan pass only because repair puts a cancellation where the pass's
record will stand, which is what `OrphansOpen` is for. Theorems: `Coherence` (`JInv`
itself), `DiskMatches`, `RetriesIdentical`, `RequestsWellFormed`, `PendingCurrent`,
`AnswersTrue`.

`Session_proofs`, of the LOCK. `LockInv` is the type invariant with
* `Counting`: how many times each process has found a LOCK in its way;
* `Undisturbed`, while no opens overlapped: what a process in each state of
  `Session::open` may rely on about the file and the others;
* `Lone(p)` for each process that had the session to itself: nobody else runs,
  the pid in the LOCK is nobody's, and what the process read is what is there.

Exclusion alone is not inductive: that a process may create the LOCK depends on
what those before it left. Theorems: `LockTypeCorrect`, `Exclusion`, `Recovery`,
`DropIsOwn`.

`AgentCore_proofs`. `IInv` adds to the types: the pending request is the last
one minted and only its phase has slots or entries (`Current`); the ids of a
reply differ, and none is made up for a call that has one (`SlotsOwn`, `Entries`);
a job of the current request belongs to exactly one entry that is unresolved and
does not wait for the user (`JobsOwn`); a streaming request was sent with the
whole conversation (`Sent`). `ResultsAreOwn` is not inductive alone, since a late
result is matched by id: that a job of another request never matches rests on
`JobsOwn` and `Current`. The limit on calls per turn needs that cutting a reply
off at the limit takes on no more (`TakenBound`, by the greatest index). Theorems:
`TypeCorrect` (with that limit), `OwnEvents`, `NoneForgotten`, `ApprovedFirst`.
The second layer, `WInv`, is about what is sent: unless a tool phase was cancelled, the conversation
is complete outside the tool loop, and inside it all that lacks are the answers to its
last message, whose calls are the entries in their order. Results arrive in
any order; that they are settled in the order of the calls is a fact about sorted
indexes (`RankExists`, `InOrderTyped`), and `CompleteTurn` that such a batch of answers completes the
conversation again. Theorem: `RequestsComplete`.

`Observers_proofs`. `AskInv` says of `ask.json` that its entries are answers over
one view, in the order of the history `saved` (`Ordered`), and that each saved
answer is among them (`Held`) or has an excuse (`Excused`); `Asking` and `Answered`
say the same of the copy an asker carries, relative to what was saved when it
loaded the file. A rename turns the second into the first. That no reader meets
half a file holds because a temporary file has one writer. Theorems:
`TypeCorrect`, `Atomic`, `OneView`, `NothingElseLost`.
The second part is about the sums `status` prints. `Counts` says of a log nobody
pruned that its usage records add up to what was billed (`Billed`), that its snapshots
fall short of that by exactly what the invocation under way has yet to record, and
count no more turns than there are replies (`Snapped`), and of a report that it is what
the log says (`Printed`). That the sums agree between two invocations is not
inductive: it needs to be known of every point inside one, that a `tell` gets to a
reply only if the log is whole, and which endings leave no snapshot. The
lemmas before it say that a sum over a log exists, is unique, and grows by what is
appended (`SumsExist`, `SumBy`, `SumAppend`). Theorem: `RecordedTotals`. In the code the
sums saturate at the greatest `u64`; here they are numbers without a limit.

`Processes_proofs`, of a command. `Counts` ties what was kept to what left the pipe,
`Drained` says that a pump at its end left an empty pipe nobody writes to,
`JoinedInOrder` and `Signalled` where the watchdog is by then. Theorems:
`ChildTypeCorrect`, `TrueReport`, `OwnGroup`.
`Processes_proofs`, of a model call. `Framed` says that what the decoder holds was
received, and that a message needs a field name in what was received, which the
body that makes a rejection definitive does not have; `Curl` which process and which bytes go
with each place of the shell, and what an exit status says of the body; `Told` what
each result was told on. That a rejection is final exactly if the server gave a
reason is not inductive: one that came in pieces must not have met `[DONE]` or a
message before curl's exit is looked at, and that is where `Framed` comes in. The types need that the
decoder returns lines of what it was fed (`LineTaken`, `RoundSound`) and that
absorbing deltas keeps an assembly (`DeltasTyped`, `ChunkTyped`), whatever the
limits are. Theorems: `TypeCorrect`, `TrueOutcome`.

The second part of the model call compares what is computed chunk by chunk with what
the reference computes of the whole stream. `AtLine(s, d, h, k)` is where the decoder
stands: it has gone through the first `k` lines of `s`, holds the bytes behind
them, the data fields since the last message, and has emitted the messages among those
lines. `Decoded` says that it is always at some line of what was received, as long as it
has not given up. A chunk more leaves it at the same line of a longer stream, since the lines of
a stream are not taken back by what follows (`LinesGrow`, `AtLineFed`); a round takes it one
line on (`RoundTakes`); asking for more means that there are no further lines
(`AskingForMore`). For that the reference must be known one line at a time
(`MessagesMore`, `JoinedMore`). `Replied` says of a call that may still succeed
that all messages before a `[DONE]` were chunks and that the assembly is what their deltas
make (`Collected`), and that the shell waits for curl only when it has met `[DONE]` or heard
all there is. `SlotsMore` is the step of that: one delta more, absorbed by the slot of its index, is
the reference's call of that index with a fragment more, and leaves the others alone.
Neither is inductive alone: a `[DONE]` ends the reply for a reader of the whole body as well only
because messages once emitted stay the first ones (`HeardBegins`), and a body
without one is read to its end only because curl's exit says that all was
written (`Curl`, `Told`). Theorems: `ChunksAreOne`, `ReplyIsStream`.

`ReadTools_proofs`. `Rooted` says that every extra root of the executor is a place
some rule has named, wherever the links led; `Based` that a call that found its
base was granted it, that a walk has only places below the base before it, and that
all it has found lie below. The property alone is not inductive: that what is
still on the stack stays below the base is what makes the next visit safe, and
that a grant outlives a change of a link is why what the links have denoted is
remembered. Since a walk finds what is listed under what it visits, the lemmas are
about prefixes (`UnderOrder`), the filter (`PickedTyped`) and the two visits
(`VisitBelow`, `WalkBelow`). That a call opens nothing beyond its base is `Fresh`: no name
on the stack has a symlink in it between the base and the name, but for those that turned
while it was queued, so it is its own place (`ResolvedPlainly`, `OpensBelow`); a visit keeps that
because it queues directories only (`AboveChild`, `FreshStep`). Of argument vectors: the paths `safe_git_read` returns
are what stands behind the first `--` (`ReadPaths`, `ReadCovers`), which of the tokens
git may take for files is all that is not `Unjudged` (`JudgedNames`), a safe subcommand
writes nothing (`SubcommandSafe`), and a leading `-C` or `--git-dir=` shifts all of
it by what it takes and adds its directory (`VectorSafe`); these hold for vectors of
any length, of which the run has only short ones. Theorems: `TypeCorrect`,
`ReachGranted`, `GitUnattended`.
The second part is about what an answer leaves out. `Standing` says that the tree
is a tree and that what stood throughout stands. `Listing` and `Searching` say of a walk
that no place on its stack is below another (`Apart`), that nothing is named twice, and that
whatever is wanted and not named yet lies below a place on the stack; a search, besides,
goes through the tree in the order of the places, which its order of answers and the
place of its cut rest on. A visit keeps that because a directory is replaced by its children
and nothing lies between (`ApartStep`, `OnTheWay`). Of a read, `ReadWhole` says that the text
cut at its line ends, counted off and put together again is what stands between two line ends of
the text (`SplitCuts`, `LinesWanted`). Theorem: `WholeAnswers`.

`Permissions_proofs`. What a judgement is after stacking two files or appending
a rule (`JudgeStacked`, `JudgeAppended`), and that rules which match decide, contradicted only by
the last of them (`LastMatch`, `LastDecides`). Then what a session may rely on: only a grant about
to be renamed can be overtaken (`Overtaken`), its body is the file unless it was (`Current`), an
outcome is that of a grant to a file (`Quiet`), and what is reported holds of the files as
long as nobody else writes them (`InForce`). The last is where the property is won:
it is established by the step that looks at the file or renames it, and has to outlast
whatever the others do until the reload. Theorems: `TypeCorrect`, `TakesEffect`,
`LinesStay`, `ReachesNoFurther`.

`PatchApply_proofs`. `Where` ties the place of a call to its snapshots and tmp
files, `Litter` counts the tmp files, `Marks` says that no mark is older than its
call, `Progress` which edits are on disk at each place, `Kept` whose changes the
tmp files hold, `Covered` what speaks for the writes still to come. That a patch
is all or nothing is not inductive: a failing step keeps it only because every
edit not yet renamed is nowhere, which in turn needs that a tmp file has no mark
of another edit. Theorems: `TypeCorrect` (with the number of tmp files), `Atomic`,
`ChangesSurvive`, `OnlyWhereAllowed`.

`Session_proofs`, of the log. The first half is about `Picked`, the filter all readers
are made of: what it does to a line more, to the two halves of a file, to a filter
of a filter, and that a filter by stamp is a cut by place where the stamps are in
order. These are inductions over the length of a sequence; the library's rules
take the claim as an operator, so `SetInduction` and `SeqInduction` state them for a
set. `IInv` says of the file which lines stand in it (`Recorded`: a message line was
appended, a cutoff is the stamp of a record), in which order (`Ordered`: stamps do
not fall, a record behind a summary is newer than its cutoff, a record a cut may
stop before is newer than all before it, tool records follow their calls) and, while
nothing was pruned, that what it replays is what was appended behind the records
the newest summary covers (`Whole`); `Writer` ties the memory of an invocation to
the file its handle leads to. `ReplayIsTail` alone is not inductive: that the next
summary cuts where it says needs the order of the stamps. `PairsUnsplit` survives
a pruning because a record before a safe line is behind every cutoff that line is
behind (`PruneTail`). Theorems: `TypeCorrect`, `NothingLost`, `CutsKeepPairs`,
`SummariesAreCumulative`, and `ImplementsList`: the log refines `SummarisedList`. The list is what was
appended, `covered` the size of the newest summary's set, what an invocation holds its memory
while it runs. Steps that append no record and write no summary stutter, among
them torn writes and end records (`QuietPut`). A fold covers `1 .. c` for a `c` behind the `n`
so far, because it folds the first records of what is replayed (`FoldCovers`), and `Whole` before and
after the step says what a load recalls. `exact` never comes back (`ExactStays`).

Inductions over data, as over the lists repair is applied to or the logs that are
summed up, are done the same way in the other modules: the claim is put as a
set of numbers, or of sequences, that has the first and with each the next
(`NatSetInduction`, `SeqSetInduction`, from the library's well-founded induction), so
nothing recursive is left to the provers but one unfolding at a time.

Every safety property the passing runs check is proved. Only model-checked: liveness
(`InvocationEnds`, `ToolLoopEnds`, `ReturnsUnlessHeld`, `CallReturns`): the
provers handle neither fairness nor ENABLED.

## Not modelled, and why

* `main.rs`, `metrics.rs`: parsing of the command line, help, counters for display.
  `lib.rs`, `sansio.rs`: declarations. No state, nothing to interleave.
* Wording, formatting and escaping, and the body of a request
  (`sansio/deepseek.rs`): pure functions, better served by the repository's tests.
* Contents of messages and results; token and character counts (a compaction
  may choose any safe cut, which includes the one the code computes).
* The rules and guards behind a call's kind in `TellLoop`, and the rules in
  `PatchApply`: a free choice there, modelled in `Permissions`. The physical pruning
  of the log is in `ConversationLog` and `Observers`, not in `TellLoop`.
* Read grants in the runs of `Permissions`: they take the same steps as the
  others and are never denied; `ReadTools` has them. The executor and the
  permission layers of an invocation are loaded at different moments; the model
  has one snapshot.
* Directories created ahead for a scratchpad target; the copy of a command's
  output for the human, its rate limit and its truncation.
* In `Transport` the request is written before anything is read, and curl reads it whole
  before it sends; its diagnostics are read behind the reply. A request or diagnostics that
  overfill their pipe are not modelled, the pipe of the reply is.
* In `ReadTools` resolving a path and opening it are one step, several parked
  reads are run one after the other by the same steps as one, and snippets, sizes
  and the count of skipped binaries are left out.
* The late second answer of a batch that is approved again is in `TellLoop`, not
  in `ConversationLog`. How `ask` and `status` print is left out.

## Plan

1. Done: `TellLoop` with `CallLedger`, `SessionLock`, `AgentCore`,
   `ConversationLog`, `Observers`, `ChildOutput`, `PatchApply`, `Permissions`,
   `ReadTools` with `SafeCommand`, `Transport` with `SseDecoder`, and their runs.
2. Done: the proofs: every safety property the passing runs check is a theorem.
3. Done: the abstract specifications `CallLedger` and `SummarisedList`, refined by
   `TellLoop` and `ConversationLog`.
