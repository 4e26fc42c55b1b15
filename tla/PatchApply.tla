----------------------------- MODULE PatchApply -----------------------------
(***************************************************************************)
(* The patch tool: a call of the model names edits of files; it is         *)
(* previewed, applied at once or parked for the human, and applied in two  *)
(* phases, every new content to a tmp file first and then one rename after *)
(* the other.  Between any two of these steps somebody else (the human's   *)
(* editor, another session) may write the same files.                      *)
(*                                                                         *)
(* A file is whether it exists and the set of changes it shows: <<n, k>>   *)
(* is edit k of the n-th call that was begun, <<0, n>> the n-th change of  *)
(* somebody else.  Whether the text to replace occurs exactly once is a    *)
(* free choice at the preview; applying reads the same bytes or refuses.   *)
(* What the write rules say of a path (evaluate_write) is a choice for     *)
(* each invocation.                                                        *)
(***************************************************************************)
EXTENDS Naturals, Sequences, FiniteSets, SequencesExt

CONSTANTS
  Paths,      \* the files
  Zones,      \* the kinds of place they may be in, see Places
  MaxCalls,   \* bound: calls begun
  MaxOthers,  \* bound: writes by somebody else
  MaxFaults   \* bound: failing writes and renames, and crashes

Places == {"plain", "ignored", "scratchpad", "outside", "critical"}
ASSUME PatchAssumption ==
  /\ Zones \subseteq Places
  /\ MaxCalls \in Nat /\ MaxOthers \in Nat /\ MaxFaults \in Nat

Edit == [op : {"add", "update"}, path : Paths]
\* parse refuses two edits whose paths are spelled alike; two spellings of one
\* path pass.
Call == BoundedSeq(Edit, 2) \ {<<>>}
Mark == (0 .. MaxCalls) \X (1 .. MaxOthers + 2)
File == [exists : BOOLEAN, has : SUBSET Mark]
Absent == [exists |-> FALSE, has |-> {}]

VARIABLES
  disk,     \* the files
  tmps,     \* how many .attini-tmp files there are
  zone,     \* where each path is
  repo,     \* is the workspace in a git working tree?
  rule,     \* what the write rules of this invocation say of each path
  tracked,  \* GitState::Repo.tracked
  parked,   \* the patches that wait for the human: pending.json, and in a process
            \* what it will save there
  queue,    \* those an approve still has to run
  pc,       \* "off", "idle", "preview", "prepare" or "rename"
  approved, \* is the call one the human approved?
  call, at, \* the call and the edit it is at
  snap,     \* the preview's snapshots
  staged,   \* the contents of the tmp files prepared so far
  auto,     \* PatchPreview::auto_approve
  result,   \* how the call ended: "none", "ok" or "error"
  start,    \* history: tracked when the invocation began
  wrote,    \* history: paths this invocation has written
  raced,    \* history: paths others wrote since the call staged or renamed them
  calls, others, faults  \* history: counted for the bounds

place == <<zone, repo>>
gates == <<rule, tracked, start, wrote>>
waiting == <<parked, queue>>
current == <<approved, call, snap, staged, auto>>
vars == <<disk, tmps, place, gates, waiting, pc, current, at, result, raced, calls, others, faults>>

Begun(k) == <<calls, k>>
OnDisk(k) == Begun(k) \in disk[call[k].path].has
StagedPaths == {call[k].path : k \in 1 .. Len(staged)}
Aliased == Len(call) = 2 /\ call[1].path = call[2].path

\* An earlier invocation may have left a patch waiting.
Init ==
  /\ disk \in [Paths -> {Absent, [exists |-> TRUE, has |-> {}]}]
  /\ zone \in [Paths -> Zones] /\ repo \in BOOLEAN
  /\ rule = [p \in Paths |-> "pending"] /\ tracked = {} /\ start = {} /\ wrote = {}
  /\ parked \in {<<>>} \cup {<<<<e>>>> : e \in Edit} /\ queue = <<>> /\ pc = "off" /\ approved = FALSE
  /\ call = <<>> /\ at = 1 /\ snap = <<>> /\ staged = <<>> /\ auto = FALSE
  /\ result = "none" /\ raced = {} /\ tmps = 0
  /\ calls = 0 /\ others = 0 /\ faults = 0

-----------------------------------------------------------------------------
(***************************************************************************)
(* Invocations: tell drops what is parked, approve runs it.  The executor  *)
(* asks git once, when the process starts.                                 *)
(***************************************************************************)
Unprobed == rule' = [p \in Paths |-> "pending"] /\ tracked' = {} /\ start' = {} /\ wrote' = {}
Probe ==
  /\ rule' \in [Paths -> {"allow", "deny", "pending"}]
  /\ \E T \in SUBSET {p \in Paths : disk[p].exists /\ zone[p] # "outside"} :
       tracked' = IF repo THEN T ELSE {}
  /\ start' = tracked' /\ wrote' = {}

Invoke(q) ==
  /\ pc = "off" /\ Probe
  /\ pc' = "idle" /\ queue' = q /\ parked' = q
  /\ result' = "none" /\ raced' = {}
  /\ call' = <<>> /\ at' = 1 /\ snap' = <<>> /\ staged' = <<>> /\ auto' = FALSE
  /\ approved' = (q # <<>>)
  /\ UNCHANGED <<disk, tmps, place, calls, others, faults>>
Tell == Invoke(<<>>)
Approve == parked # <<>> /\ Invoke(parked)

ClearPending ==
  /\ pc = "idle" /\ approved /\ queue = <<>>
  /\ approved' = FALSE /\ parked' = <<>>
  /\ UNCHANGED <<disk, tmps, place, gates, queue, pc, call, at, snap, staged, auto, result,
                 raced, calls, others, faults>>

Exit ==
  /\ pc = "idle" /\ ~approved /\ pc' = "off"
  /\ call' = <<>> /\ result' = "none" /\ raced' = {} /\ Unprobed
  /\ UNCHANGED <<disk, tmps, place, waiting, approved, at, snap, staged, auto,
                 calls, others, faults>>

\* A call begins with its preview.
Begin(c) ==
  /\ pc = "idle" /\ calls < MaxCalls
  /\ calls' = calls + 1
  /\ pc' = "preview" /\ call' = c /\ at' = 1 /\ snap' = <<>> /\ staged' = <<>>
  /\ auto' = TRUE /\ result' = "none" /\ raced' = {}
  /\ UNCHANGED <<disk, tmps, place, gates, parked, approved, others, faults>>

Dispatch(c) == ~approved /\ Begin(c) /\ UNCHANGED queue
RunParked == approved /\ queue # <<>> /\ Begin(Head(queue)) /\ queue' = Tail(queue)

Ends(r) ==
  /\ pc' = "idle" /\ result' = r
  /\ at' = 1 /\ snap' = <<>> /\ staged' = <<>> /\ auto' = FALSE
  /\ UNCHANGED <<approved, call>>

-----------------------------------------------------------------------------
(***************************************************************************)
(* check_patch_write: allow, ask the human, or refuse.                     *)
(***************************************************************************)
\* Where no rule decides, git does.
Ignored(e) == repo /\ e.op = "add" /\ zone[e.path] = "ignored"
Revertible(e) ==
  /\ repo /\ zone[e.path] # "outside"
  /\ IF e.op = "update" THEN e.path \in tracked ELSE zone[e.path] # "scratchpad"
Guard(e) ==
  LET says == rule[e.path] IN
    IF zone[e.path] = "critical" \/ says = "deny" \/ (says = "pending" /\ Ignored(e)) THEN "refuse"
    ELSE IF says = "allow" \/ Revertible(e) THEN "allow" ELSE "ask"
Resolves(e) == disk[e.path].exists = (e.op = "update") /\ Guard(e) # "refuse"

(***************************************************************************)
(* preview_patch, edit by edit.                                            *)
(***************************************************************************)
\* Mutant: the last edit decides whether the patch is applied at once.
PreviewLastDecides ==
  /\ pc = "preview" /\ at <= Len(call) /\ Resolves(call[at])
  /\ snap' = Append(snap, disk[call[at].path])
  /\ auto' = (call[at].op = "update" /\ Guard(call[at]) = "allow")
  /\ at' = at + 1
  /\ UNCHANGED <<disk, tmps, place, gates, waiting, pc, approved, call, staged, result,
                 raced, calls, others, faults>>
PreviewEdit ==
  /\ pc = "preview" /\ at <= Len(call) /\ Resolves(call[at])
  /\ snap' = Append(snap, disk[call[at].path])
  /\ auto' = (auto /\ call[at].op = "update" /\ Guard(call[at]) = "allow")
  /\ at' = at + 1
  /\ UNCHANGED <<disk, tmps, place, gates, waiting, pc, approved, call, staged, result,
                 raced, calls, others, faults>>

\* The edit is refused, its file is missing or in the way, or the text to
\* replace does not occur exactly once.
PreviewFails ==
  /\ pc = "preview" /\ at <= Len(call)
  /\ Resolves(call[at]) => call[at].op = "update"
  /\ Ends("error")
  /\ UNCHANGED <<disk, tmps, place, gates, waiting, raced, calls, others, faults>>

\* patch_write_verdict looks the paths up afresh: a file that does not exist has
\* no canonical path and so no rule.
AllAllowed == \A k \in DOMAIN call : disk[call[k].path].exists /\ rule[call[k].path] = "allow"
Unattended == ~approved /\ (AllAllowed \/ auto)

Previewed == pc = "preview" /\ at > Len(call)
Apply ==
  /\ pc' = "prepare" /\ at' = 1
  /\ UNCHANGED <<disk, tmps, place, gates, waiting, current, result, raced, calls, others, faults>>

ApplyPreviewed == Previewed /\ (approved \/ (Unattended /\ parked = <<>>)) /\ Apply
\* dry_run: behind a parked call nothing is written and nothing answered.
LeaveUnanswered ==
  /\ Previewed /\ Unattended /\ parked # <<>> /\ Ends("none")
  /\ UNCHANGED <<disk, tmps, place, gates, waiting, raced, calls, others, faults>>
Park ==
  /\ Previewed /\ ~approved /\ ~Unattended
  /\ parked' = Append(parked, call) /\ Ends("none")
  /\ UNCHANGED <<disk, tmps, place, gates, queue, raced, calls, others, faults>>

-----------------------------------------------------------------------------
(***************************************************************************)
(* apply_patch, phase 1: check each target again, write its tmp file.      *)
(***************************************************************************)
Patched(k) ==
  [exists |-> TRUE,
   has |-> {Begun(k)} \cup IF call[k].op = "add" THEN {} ELSE disk[call[k].path].has]
Stage ==
  /\ staged' = Append(staged, Patched(at)) /\ tmps' = tmps + 1
  /\ IF at = Len(call) THEN pc' = "rename" /\ at' = 1 ELSE pc' = pc /\ at' = at + 1
  /\ UNCHANGED <<disk, place, gates, waiting, approved, call, snap, auto, result,
                 raced, calls, others, faults>>
Unchanged(k) == disk[call[k].path] = snap[k]

\* Mutant: the first phase writes the target itself.
StageInPlace ==
  /\ pc = "prepare" /\ Resolves(call[at]) /\ Unchanged(at)
  /\ disk' = [disk EXCEPT ![call[at].path] = Patched(at)]
  /\ staged' = Append(staged, Patched(at)) /\ tmps' = tmps + 1
  /\ IF at = Len(call) THEN pc' = "rename" /\ at' = 1 ELSE pc' = pc /\ at' = at + 1
  /\ UNCHANGED <<place, gates, waiting, approved, call, snap, auto, result,
                 raced, calls, others, faults>>
\* Mutant: a file that appeared since the preview is not noticed.
StageUnchecked == pc = "prepare" /\ Guard(call[at]) # "refuse" /\ Stage
StageEdit == pc = "prepare" /\ Resolves(call[at]) /\ Unchanged(at) /\ Stage

\* The tmp files of the edits before are deleted.
Abort == Ends("error") /\ tmps' = tmps - Len(staged)

\* A target that is no longer as the preview saw it, or a result too large.
StageFails ==
  /\ pc = "prepare"
  /\ Resolves(call[at]) /\ Unchanged(at) => call[at].op = "update"
  /\ Abort
  /\ UNCHANGED <<disk, place, gates, waiting, raced, calls, others, faults>>
\* Writing a tmp file fails: one that was created is not among those deleted.
TmpFails ==
  /\ pc = "prepare" /\ faults < MaxFaults
  /\ Resolves(call[at]) /\ Unchanged(at)
  /\ Ends("error")
  /\ \E created \in 0 .. 1 : tmps' = tmps - Len(staged) + created
  /\ faults' = faults + 1
  /\ UNCHANGED <<disk, place, gates, waiting, raced, calls, others>>

(***************************************************************************)
(* Phase 2: rename them into place; what was renamed counts as tracked.    *)
(***************************************************************************)
MarkAdded(p) == IF repo /\ zone[p] # "outside" THEN tracked \cup {p} ELSE tracked

RenameNext ==
  /\ pc = "rename"
  /\ disk' = [disk EXCEPT ![call[at].path] = staged[at]]
  /\ tmps' = tmps - 1
  /\ tracked' = MarkAdded(call[at].path)
  /\ wrote' = wrote \cup {call[at].path}
  /\ IF at = Len(call) THEN Ends("ok")
     ELSE at' = at + 1 /\ UNCHANGED <<pc, result, current>>
  /\ UNCHANGED <<place, rule, start, waiting, raced, calls, others, faults>>
\* The targets already renamed stay; the remaining tmp files are deleted.
RenameFails ==
  /\ pc = "rename" /\ faults < MaxFaults
  /\ Ends("error")
  /\ tmps' = tmps - (Len(call) - at + 1)
  /\ faults' = faults + 1
  /\ UNCHANGED <<disk, place, gates, waiting, raced, calls, others>>

\* pending.json outlives the process, a batch not yet saved does not.
Crash ==
  /\ pc # "off" /\ faults < MaxFaults
  /\ pc' = "off" /\ faults' = faults + 1 /\ Unprobed
  /\ parked' = IF approved THEN parked ELSE <<>>
  /\ UNCHANGED <<disk, tmps, place, queue, current, at, result, raced, calls, others>>

-----------------------------------------------------------------------------
\* Somebody else changes a file, creates or deletes it.
OtherWrites(p) ==
  /\ others < MaxOthers /\ others' = others + 1
  /\ disk' \in {[disk EXCEPT ![p] = f] :
                  f \in {Absent, [exists |-> TRUE, has |-> disk[p].has \cup {<<0, others + 1>>}]}}
  /\ raced' = IF p \in StagedPaths \/ result = "ok" THEN raced \cup {p} ELSE raced
  /\ UNCHANGED <<tmps, place, gates, waiting, pc, current, at, result, calls, faults>>

Preview == PreviewEdit \/ PreviewFails \/ ApplyPreviewed \/ LeaveUnanswered \/ Park
Applying == StageEdit \/ StageFails \/ TmpFails \/ RenameNext \/ RenameFails
Next ==
  \/ Tell \/ Approve \/ ClearPending \/ Exit \/ Crash
  \/ (\E c \in Call : Dispatch(c)) \/ RunParked
  \/ Preview \/ Applying
  \/ \E p \in Paths : OtherWrites(p)

Spec == Init /\ [][Next]_vars

-----------------------------------------------------------------------------
TypeOK ==
  /\ disk \in [Paths -> File] /\ tmps \in 0 .. 2 * MaxFaults + 2
  /\ zone \in [Paths -> Zones] /\ repo \in BOOLEAN
  /\ rule \in [Paths -> {"allow", "deny", "pending"}]
  /\ tracked \subseteq Paths /\ start \subseteq Paths /\ wrote \subseteq Paths /\ raced \subseteq Paths
  /\ parked \in Seq(Call) /\ queue \in Seq(Call)
  /\ pc \in {"off", "idle", "preview", "prepare", "rename"} /\ approved \in BOOLEAN
  /\ call \in Call \cup {<<>>} /\ at \in 1 .. 3 /\ auto \in BOOLEAN
  /\ snap \in Seq(File) /\ Len(snap) <= 2 /\ staged \in Seq(File) /\ Len(staged) <= 2
  /\ result \in {"none", "ok", "error"}
  /\ calls \in 0 .. MaxCalls /\ others \in 0 .. MaxOthers /\ faults \in 0 .. MaxFaults

\* Apart from what others wrote since: a patch that is reported applied is on
\* disk with all its edits; one that failed, or is not yet ready to be renamed,
\* with none; and a failed rename or a crash leaves the edits before it.
AllOrNothing ==
  ~Aliased =>
    LET There(k) == OnDisk(k) \/ call[k].path \in raced IN
      /\ result = "ok" => \A k \in DOMAIN call : There(k)
      /\ (result = "error" /\ faults = 0) \/ pc \in {"preview", "prepare"} =>
           \A k \in DOMAIN call : ~OnDisk(k)
      /\ \A k \in DOMAIN call : OnDisk(k) => \A j \in 1 .. k - 1 : There(j)

\* No tmp file stays behind in the workspace while no write failed and no
\* process died, whatever made a patch fail between its edits.
NoLitter == faults = 0 /\ pc \in {"off", "idle"} => tmps = 0

\* A patch that fails half-way leaves nothing it should not, neither edits nor
\* tmp files.
PatchIsAtomic == AllOrNothing /\ NoLitter

\* A rename takes away a change of somebody else only if that was made after
\* phase 1 had read the target: whatever was there before, since the preview or
\* earlier, is kept or makes the patch fail.
OthersKept ==
  [][disk' # disk /\ others' = others =>
       LET p == call[at].path IN
         p \in raced \/ Aliased \/ {m \in disk[p].has : m[1] = 0} \subseteq disk'[p].has]_vars

\* A patch writes only where it may, whoever approved it and whatever was edited
\* beside it: never against a rule that denies; and without the human only if no
\* call before it waits for one and each edit has a rule that allows it, or
\* updates a file git tracked at the start or that this invocation wrote.
WritesAreCovered ==
  [][disk' # disk /\ others' = others =>
       LET e == call[at] IN
         /\ rule[e.path] # "deny" /\ zone[e.path] # "critical"
         /\ ~approved =>
              /\ parked = <<>>
              /\ \/ rule[e.path] = "allow"
                 \/ e.op = "update" /\ e.path \in start \cup wrote]_vars

=============================================================================
