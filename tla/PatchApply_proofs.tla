------------------------ MODULE PatchApply_proofs ------------------------
(***************************************************************************)
(* Proofs about PatchApply.  The inductive invariant says, at each place a *)
(* call can be at, which of its edits are on disk, whose changes the tmp   *)
(* files hold, how many of them there are, and what speaks for the writes  *)
(* that are still to come.                                                 *)
(***************************************************************************)
EXTENDS PatchApply, SequenceTheorems, TLAPS

Running == {"preview", "prepare", "rename"}

\* A running call is one of the calls counted, and has as many snapshots and tmp
\* files as edits behind it.
Where ==
  /\ pc \in Running => call # <<>> /\ result = "none"
  /\ call # <<>> => calls > 0
  /\ result = "ok" => call # <<>>
  /\ pc = "preview" => at \in 1 .. Len(call) + 1 /\ Len(snap) = at - 1 /\ staged = <<>>
  /\ pc = "prepare" => at \in 1 .. Len(call) /\ Len(snap) = Len(call) /\ Len(staged) = at - 1
  /\ pc = "rename" => at \in 1 .. Len(call) /\ Len(staged) = Len(call)
  /\ pc = "idle" => staged = <<>>

\* The tmp files of the running call; those beside them were left by faults.
InFlight ==
  IF pc = "prepare" THEN Len(staged) ELSE IF pc = "rename" THEN Len(call) - at + 1 ELSE 0
Litter == tmps \in Nat /\ InFlight <= tmps /\ tmps <= InFlight + 2 * faults

\* Nothing bears the mark of a call that was not begun, and a file that does not
\* exist bears none.
Known(f) == (\A m \in f.has : m[1] <= calls) /\ (~f.exists => f.has = {})
Marks == (\A p \in Paths : Known(disk[p])) /\ \A k \in 1 .. Len(staged) : Known(staged[k])

\* Which edits are on disk.
Nowhere(k) == \A p \in Paths : Begun(k) \notin disk[p].has
There(k) == OnDisk(k) \/ call[k].path \in raced
Own(k) ==
  /\ staged[k].exists /\ Begun(k) \in staged[k].has
  /\ \A j \in DOMAIN call : j # k => Begun(j) \notin staged[k].has
Progress ==
  /\ pc \in {"preview", "prepare"} => \A k \in DOMAIN call : Nowhere(k)
  /\ pc \in {"prepare", "rename"} => \A k \in 1 .. Len(staged) : Own(k)
  /\ pc = "rename" /\ ~Aliased => \A k \in DOMAIN call : IF k < at THEN There(k) ELSE Nowhere(k)
  /\ pc \in {"idle", "off"} /\ ~Aliased =>
       /\ result = "ok" => \A k \in DOMAIN call : There(k)
       /\ result # "ok" /\ call # <<>> => Nowhere(Len(call))
       /\ result = "error" /\ faults = 0 => \A k \in DOMAIN call : Nowhere(k)

\* What others wrote before a target was read is in its tmp file.
Held(k) == {m \in disk[call[k].path].has : m[1] = 0} \subseteq staged[k].has
Kept ==
  /\ pc = "prepare" => \A k \in 1 .. Len(staged) : call[k].path \in raced \/ Held(k)
  /\ pc = "rename" /\ ~Aliased =>
       \A k \in DOMAIN call : k >= at => call[k].path \in raced \/ Held(k)

\* What speaks for a write: no rule against it; and without the human an allow
\* rule, or that the file is tracked.
Permitted(k) == rule[call[k].path] # "deny" /\ zone[call[k].path] # "critical"
Backed(k) ==
  rule[call[k].path] = "allow" \/ (call[k].op = "update" /\ call[k].path \in start \cup wrote)
Covered ==
  /\ tracked \subseteq start \cup wrote
  /\ pc = "preview" /\ auto => \A k \in DOMAIN call : k < at => Backed(k)
  /\ pc = "prepare" => \A k \in DOMAIN call : k < at => Permitted(k)
  /\ pc = "rename" => \A k \in DOMAIN call : Permitted(k)
  /\ pc \in {"prepare", "rename"} /\ ~approved => parked = <<>> /\ \A k \in DOMAIN call : Backed(k)

IInv == TypeOK /\ Where /\ Litter /\ Marks /\ Progress /\ Kept /\ Covered

-----------------------------------------------------------------------------
(***************************************************************************)
(* Calls are sequences of one or two edits.                                *)
(***************************************************************************)
LEMMA CallShape ==
  ASSUME NEW c \in Call
  PROVE  c \in Seq(Edit) /\ Len(c) \in {1, 2} /\ DOMAIN c = 1 .. Len(c) /\ c # <<>>
<1>1. PICK m \in 0 .. 2 : c \in [1 .. m -> Edit]  BY DEF Call, BoundedSeq, SeqOf
<1>2. c # <<>>  BY DEF Call
<1>3. m # 0
  <2>1. m = 0 => c = <<>>  BY <1>1
  <2> QED  BY <1>2, <2>1
<1> QED  BY <1>1, <1>2, <1>3

LEMMA EditShape ==
  ASSUME NEW c \in Call, NEW k \in DOMAIN c
  PROVE  c[k] \in Edit /\ c[k].path \in Paths /\ c[k].op \in {"add", "update"}
<1>1. c[k] \in Edit  BY CallShape
<1> QED  BY <1>1 DEF Edit

LEMMA SingleCall == ASSUME NEW e \in Edit PROVE <<e>> \in Call
<1>1. <<e>> \in [1 .. 1 -> Edit] /\ <<e>> # <<>>  OBVIOUS
<1> QED  BY <1>1 DEF Call, BoundedSeq, SeqOf

\* What applying an edit writes is a file.
LEMMA PatchedTyped ==
  ASSUME TypeOK, call \in Call, calls > 0, NEW k \in DOMAIN call
  PROVE  Patched(k) \in File
<1>1. call[k].path \in Paths /\ k \in {1, 2}  BY EditShape, CallShape
<1>2. disk[call[k].path].has \subseteq Mark  BY <1>1 DEF TypeOK, File
<1>3. Begun(k) \in Mark  BY <1>1, PatchAssumption DEF Begun, Mark, TypeOK
<1>4. Patched(k).has \subseteq Mark  BY <1>2, <1>3 DEF Patched
<1> QED  BY <1>4 DEF Patched, File

-----------------------------------------------------------------------------
(***************************************************************************)
(* Types, and where a call is.                                             *)
(***************************************************************************)
LEMMA InitHolds == Init => IInv
<1> SUFFICES ASSUME Init PROVE IInv  OBVIOUS
<1> USE PatchAssumption
<1>1. parked \in Seq(Call)
  <2>1. CASE parked = <<>>  BY <2>1
  <2>2. ASSUME NEW e \in Edit, parked = <<<<e>>>> PROVE parked \in Seq(Call)
    <3>1. <<e>> \in Call  BY SingleCall
    <3> QED  BY <2>2, <3>1
  <2> QED  BY <2>1, <2>2 DEF Init
<1>2. disk \in [Paths -> {Absent, [exists |-> TRUE, has |-> {}]}]  BY DEF Init
<1>3. disk \in [Paths -> File]
  <2>1. {Absent, [exists |-> TRUE, has |-> {}]} \subseteq File  BY DEF Absent, File
  <2> QED  BY <1>2, <2>1
<1>4. TypeOK
  <2>1. tmps = 0 /\ 0 \in 0 .. 2 * MaxFaults + 2  BY DEF Init
  <2>2. snap = <<>> /\ staged = <<>> /\ queue = <<>> /\ call = <<>> /\ <<>> \in Seq(File) /\ <<>> \in Seq(Call)
        /\ Len(<<>>) = 0
    BY DEF Init
  <2>3. /\ zone \in [Paths -> Zones] /\ repo \in BOOLEAN /\ rule \in [Paths -> {"allow", "deny", "pending"}]
        /\ tracked = {} /\ start = {} /\ wrote = {} /\ raced = {}
    BY DEF Init
  <2>4. /\ pc = "off" /\ approved = FALSE /\ at = 1 /\ auto = FALSE /\ result = "none"
        /\ calls = 0 /\ others = 0 /\ faults = 0
    BY DEF Init
  <2>5. 0 \in 0 .. MaxCalls /\ 0 \in 0 .. MaxOthers /\ 0 \in 0 .. MaxFaults  OBVIOUS
  <2>6. tmps \in 0 .. 2 * MaxFaults + 2 /\ Len(snap) <= 2 /\ Len(staged) <= 2
        /\ snap \in Seq(File) /\ staged \in Seq(File) /\ queue \in Seq(Call) /\ call \in Call \cup {<<>>}
    BY <2>1, <2>2
  <2>7. /\ zone \in [Paths -> Zones] /\ repo \in BOOLEAN /\ rule \in [Paths -> {"allow", "deny", "pending"}]
        /\ tracked \subseteq Paths /\ start \subseteq Paths /\ wrote \subseteq Paths /\ raced \subseteq Paths
    BY <2>3
  <2>9. at \in 1 .. 3  BY <2>4
  <2>8. /\ pc \in {"off", "idle", "preview", "prepare", "rename"} /\ approved \in BOOLEAN
        /\ at \in 1 .. 3 /\ auto \in BOOLEAN /\ result \in {"none", "ok", "error"}
        /\ calls \in 0 .. MaxCalls /\ others \in 0 .. MaxOthers /\ faults \in 0 .. MaxFaults
    BY <2>4, <2>5, <2>9
  <2> HIDE DEF Init
  <2> QED  BY <1>1, <1>3, <2>6, <2>7, <2>8 DEF TypeOK
<1>5. \A p \in Paths : disk[p].has = {}  BY <1>2 DEF Absent
<1>6. pc = "off" /\ staged = <<>> /\ call = <<>> /\ tmps = 0 /\ faults = 0 /\ calls = 0 /\ tracked = {}
      /\ result = "none"
  BY DEF Init
<1>7. Where  BY <1>6 DEF Where, Running
<1>8. Litter  BY <1>6 DEF Litter, InFlight
<1>9. Marks  BY <1>5, <1>6 DEF Marks, Known
<1>10. Progress /\ Kept /\ Covered  BY <1>6 DEF Progress, Kept, Covered
<1> QED  BY <1>4, <1>7, <1>8, <1>9, <1>10 DEF IInv

LEMMA BeginEffect ==
  ASSUME IInv, NEW c \in Call, Begin(c)
  PROVE  /\ call' = c /\ calls' = calls + 1 /\ calls' \in 0 .. MaxCalls /\ pc' = "preview" /\ at' = 1
         /\ snap' = <<>> /\ staged' = <<>> /\ result' = "none" /\ raced' = {} /\ auto' = TRUE
         /\ UNCHANGED <<disk, tmps, place, gates, parked, approved, others, faults>>
         /\ Len(c) \in {1, 2} /\ c # <<>>
<1>1. Len(c) \in {1, 2} /\ c # <<>>  BY CallShape
<1> QED  BY <1>1, PatchAssumption DEF Begin, IInv, TypeOK

\* What the parts of the invariant say of a call that is there.
LEMMA CallFacts ==
  ASSUME TypeOK, Where, call # <<>>
  PROVE  /\ call \in Call /\ call \in Seq(Edit) /\ Len(call) \in {1, 2} /\ DOMAIN call = 1 .. Len(call)
         /\ calls > 0 /\ calls \in Nat
<1>1. call \in Call  BY DEF TypeOK
<1>2. calls > 0 /\ calls \in Nat  BY PatchAssumption DEF Where, TypeOK
<1> QED  BY <1>1, <1>2, CallShape

LEMMA WhereKept == IInv /\ [Next]_vars => Where'
<1> SUFFICES ASSUME IInv, [Next]_vars PROVE Where'  OBVIOUS
<1>0. TypeOK /\ Where /\ Litter  BY DEF IInv
<1>1. call # <<>> => Len(call) \in {1, 2}  BY <1>0, CallFacts
<1> USE DEF Where, Running
<1>2. ASSUME NEW q, Invoke(q) PROVE Where'  BY <1>0, <1>2 DEF Invoke
<1>3. CASE ClearPending  BY <1>0, <1>3 DEF ClearPending
<1>4. CASE Exit  BY <1>0, <1>4 DEF Exit
<1>5. CASE Crash  BY <1>0, <1>5 DEF Crash, current
<1>6. ASSUME NEW c \in Call, Begin(c) PROVE Where'
  <2>1. /\ call' = c /\ calls' = calls + 1 /\ pc' = "preview" /\ at' = 1 /\ snap' = <<>> /\ staged' = <<>>
        /\ result' = "none" /\ Len(c) \in {1, 2} /\ c # <<>>
    BY <1>6, BeginEffect
  <2>2. calls \in Nat  BY <1>0, PatchAssumption DEF TypeOK
  <2>3. Len(<<>>) = 0  OBVIOUS
  <2> QED  BY <2>1, <2>2, <2>3
<1>7. CASE PreviewEdit
  <2>1. Len(snap') = Len(snap) + 1  BY <1>0, <1>7 DEF PreviewEdit, TypeOK
  <2> QED  BY <1>0, <1>1, <1>7, <2>1 DEF PreviewEdit
<1>8. CASE PreviewFails \/ LeaveUnanswered \/ Park
  BY <1>0, <1>8 DEF PreviewFails, LeaveUnanswered, Park, Ends, Previewed
<1>9. CASE ApplyPreviewed
  <2>1. pc = "preview" /\ at > Len(call) /\ pc' = "prepare" /\ at' = 1
        /\ UNCHANGED <<call, snap, staged, result, calls>>
    BY <1>9 DEF ApplyPreviewed, Apply, Previewed, current
  <2>2. Len(<<>>) = 0  OBVIOUS
  <2> QED  BY <1>0, <1>1, <2>1, <2>2
<1>10. CASE StageEdit
  <2>1. Len(staged') = Len(staged) + 1  BY <1>0, <1>10 DEF StageEdit, Stage, TypeOK
  <2> QED  BY <1>0, <1>1, <1>10, <2>1 DEF StageEdit, Stage
<1>11. CASE StageFails \/ TmpFails \/ RenameFails
  BY <1>0, <1>11 DEF StageFails, TmpFails, RenameFails, Abort, Ends
<1>12. CASE RenameNext
  <2>1. CASE at = Len(call)  BY <1>0, <1>12, <2>1 DEF RenameNext, Ends
  <2>2. CASE at # Len(call)  BY <1>0, <1>1, <1>12, <2>2 DEF RenameNext, current
  <2> QED  BY <2>1, <2>2
<1>13. ASSUME NEW p \in Paths, OtherWrites(p) PROVE Where'
  BY <1>0, <1>13 DEF OtherWrites, current
<1>14. CASE UNCHANGED vars  BY <1>0, <1>14 DEF vars, current
<1>15. ASSUME NEW c \in Call, Dispatch(c) PROVE Where'  BY <1>6, <1>15 DEF Dispatch
<1>16. CASE RunParked
  <2>1. Head(queue) \in Call  BY <1>0, <1>16 DEF RunParked, TypeOK
  <2> QED  BY <1>6, <1>16, <2>1 DEF RunParked
<1> QED
  BY <1>2, <1>3, <1>4, <1>5, <1>7, <1>8, <1>9, <1>10, <1>11, <1>12, <1>13, <1>14, <1>15, <1>16
  DEF Next, Preview, Applying, Tell, Approve

LEMMA LitterKept == IInv /\ [Next]_vars => Litter'
<1> SUFFICES ASSUME IInv, [Next]_vars PROVE Litter'  OBVIOUS
<1>0. TypeOK /\ Where /\ Litter  BY DEF IInv
<1>1. call # <<>> => Len(call) \in {1, 2}  BY <1>0, CallFacts
<1>2. /\ tmps \in Nat /\ faults \in Nat /\ InFlight <= tmps /\ tmps <= InFlight + 2 * faults
      /\ Len(staged) \in Nat /\ at \in Nat
  BY <1>0, PatchAssumption DEF TypeOK, Litter
<1>3. InFlight \in 0 .. 2
  <2>1. CASE pc = "prepare"
    <3>1. Len(staged) \in Nat /\ Len(staged) <= 2
      BY <1>0 DEF TypeOK
    <3>2. InFlight = Len(staged)  BY <2>1 DEF InFlight
    <3> QED  BY <3>1, <3>2
  <2>2. CASE pc = "rename"
    <3>1. at >= 1 /\ at <= Len(call) /\ Len(call) \in Nat /\ Len(call) <= 2
      BY <1>0, <1>1, <1>2, <2>2 DEF Where, Running
    <3>2. InFlight = Len(call) - at + 1  BY <2>2 DEF InFlight
    <3>3. Len(call) - at + 1 \in 0 .. 2  BY <1>2, <3>1
    <3> QED  BY <3>2, <3>3
  <2> QED  BY <2>1, <2>2 DEF InFlight
<1>4. ASSUME NEW q, Invoke(q) PROVE Litter'  BY <1>2, <1>4 DEF Invoke, Litter, InFlight
<1>5. CASE ClearPending \/ Exit  BY <1>2, <1>5 DEF ClearPending, Exit, Litter, InFlight
<1>6. CASE Crash
  <2>1. tmps' = tmps /\ faults' = faults + 1 /\ pc' = "off"  BY <1>6 DEF Crash
  <2>2. tmps <= 2 * (faults + 1)  BY <1>2, <1>3
  <2>3. InFlight' = 0  BY <2>1 DEF InFlight
  <2> QED  BY <1>2, <2>1, <2>2, <2>3 DEF Litter
<1>7. ASSUME NEW c, Begin(c) PROVE Litter'  BY <1>2, <1>7 DEF Begin, Litter, InFlight
<1>8. CASE PreviewEdit \/ PreviewFails \/ LeaveUnanswered \/ Park
  BY <1>2, <1>8 DEF PreviewEdit, PreviewFails, LeaveUnanswered, Park, Ends, Previewed, Litter, InFlight
<1>9. CASE ApplyPreviewed
  <2>1. pc = "preview" /\ pc' = "prepare" /\ staged = <<>> /\ Len(<<>>) = 0
        /\ UNCHANGED <<call, staged, tmps, faults>>
    BY <1>0, <1>9 DEF ApplyPreviewed, Apply, Previewed, current, Where
  <2> QED  BY <1>2, <2>1 DEF Litter, InFlight
<1>10. CASE StageEdit
  <2>1. /\ pc = "prepare" /\ tmps' = tmps + 1 /\ faults' = faults /\ call' = call
        /\ Len(staged') = Len(staged) + 1 /\ Len(staged) = at - 1 /\ at \in 1 .. Len(call)
        /\ IF at = Len(call) THEN pc' = "rename" /\ at' = 1 ELSE pc' = pc /\ at' = at + 1
    BY <1>0, <1>10 DEF StageEdit, Stage, TypeOK, Where
  <2>2. InFlight' = InFlight + 1  BY <1>2, <2>1 DEF InFlight
  <2>3. InFlight' <= tmps' /\ tmps' <= InFlight' + 2 * faults'  BY <1>2, <1>3, <2>1, <2>2
  <2> QED  BY <1>2, <2>1, <2>3 DEF Litter
<1>11. CASE StageFails
  <2>1. pc = "prepare" /\ pc' = "idle" /\ tmps' = tmps - InFlight /\ faults' = faults
    BY <1>11 DEF StageFails, Abort, Ends, InFlight
  <2>2. InFlight' = 0  BY <2>1 DEF InFlight
  <2>3. tmps' \in Nat /\ 0 <= tmps' /\ tmps' <= 0 + 2 * faults'  BY <1>2, <1>3, <2>1
  <2> QED  BY <2>2, <2>3 DEF Litter
<1>12. CASE TmpFails
  <2>1. PICK created \in 0 .. 1 : tmps' = tmps - InFlight + created
    BY <1>12 DEF TmpFails, InFlight
  <2>2. pc' = "idle" /\ faults' = faults + 1  BY <1>12 DEF TmpFails, Ends
  <2>3. InFlight' = 0  BY <2>2 DEF InFlight
  <2>4. tmps' \in Nat /\ 0 <= tmps' /\ tmps' <= 0 + 2 * faults'  BY <1>2, <1>3, <2>1, <2>2
  <2> QED  BY <2>3, <2>4 DEF Litter
<1>13. CASE RenameFails
  <2>1. pc' = "idle" /\ tmps' = tmps - InFlight /\ faults' = faults + 1
    BY <1>13 DEF RenameFails, Ends, InFlight
  <2>2. InFlight' = 0  BY <2>1 DEF InFlight
  <2>3. tmps' \in Nat /\ 0 <= tmps' /\ tmps' <= 0 + 2 * faults'  BY <1>2, <1>3, <2>1
  <2> QED  BY <2>2, <2>3 DEF Litter
<1>14. CASE RenameNext
  <2>1. pc = "rename" /\ tmps' = tmps - 1 /\ faults' = faults /\ call' = call /\ at \in 1 .. Len(call)
    BY <1>0, <1>14 DEF RenameNext, Ends, current, Where
  <2>2. InFlight' = InFlight - 1
    <3>1. CASE at = Len(call)
      <4>1. pc' = "idle"  BY <1>14, <3>1 DEF RenameNext, Ends
      <4> QED  BY <2>1, <3>1, <4>1 DEF InFlight
    <3>2. CASE at # Len(call)
      <4>1. pc' = "rename" /\ at' = at + 1  BY <1>14, <3>2 DEF RenameNext
      <4> QED  BY <1>2, <2>1, <4>1 DEF InFlight
    <3> QED  BY <3>1, <3>2
  <2>3. InFlight >= 1  BY <1>2, <2>1 DEF InFlight
  <2>4. tmps' \in Nat /\ InFlight' <= tmps' /\ tmps' <= InFlight' + 2 * faults'  BY <1>2, <1>3, <2>1, <2>2, <2>3
  <2> QED  BY <2>4 DEF Litter
<1>15. ASSUME NEW p \in Paths, OtherWrites(p) PROVE Litter'
  BY <1>2, <1>15 DEF OtherWrites, current, Litter, InFlight
<1>16. CASE UNCHANGED vars  BY <1>2, <1>16 DEF vars, current, Litter, InFlight
<1> QED
  BY <1>4, <1>5, <1>6, <1>7, <1>8, <1>9, <1>10, <1>11, <1>12, <1>13, <1>14, <1>15, <1>16
  DEF Next, Preview, Applying, Tell, Approve, Dispatch, RunParked

LEMMA TypesKept == IInv /\ [Next]_vars => TypeOK'
<1> SUFFICES ASSUME IInv, [Next]_vars PROVE TypeOK'  OBVIOUS
<1> USE PatchAssumption
<1>0. TypeOK /\ Where /\ Where' /\ Litter'  BY WhereKept, LitterKept DEF IInv
<1> DEFINE Files ==
             /\ disk' \in [Paths -> File] /\ zone' = zone /\ repo' = repo
             /\ rule' \in [Paths -> {"allow", "deny", "pending"}]
             /\ tracked' \subseteq Paths /\ start' \subseteq Paths /\ wrote' \subseteq Paths /\ raced' \subseteq Paths
           Patches == parked' \in Seq(Call) /\ queue' \in Seq(Call) /\ call' \in Call \cup {<<>>}
           Contents == snap' \in Seq(File) /\ staged' \in Seq(File)
           Flags ==
             /\ pc' \in {"off", "idle", "preview", "prepare", "rename"} /\ approved' \in BOOLEAN
             /\ auto' \in BOOLEAN /\ result' \in {"none", "ok", "error"}
           Counts == calls' \in 0 .. MaxCalls /\ others' \in 0 .. MaxOthers /\ faults' \in 0 .. MaxFaults
           Sorts == Files /\ Patches /\ Contents /\ Flags /\ Counts
           Sizes ==
             /\ at' \in 1 .. 3 /\ Len(snap') <= 2 /\ Len(staged') <= 2
<1>1. call # <<>> => /\ call \in Call /\ call \in Seq(Edit) /\ Len(call) \in {1, 2} /\ DOMAIN call = 1 .. Len(call)
                     /\ calls > 0
  BY <1>0, CallFacts
<1>2. ASSUME Sorts, Sizes PROVE TypeOK'
  <2>1. call' # <<>> => Len(call') \in {1, 2}  BY <1>2, CallShape
  <2>2. InFlight' \in 0 .. 2
    <3>1. CASE pc' = "prepare"
      <4>1. Len(staged') \in Nat /\ Len(staged') <= 2  BY <1>2
      <4>2. InFlight' = Len(staged')  BY <3>1 DEF InFlight
      <4> QED  BY <4>1, <4>2
    <3>2. CASE pc' = "rename"
      <4>1. at' >= 1 /\ at' <= Len(call') /\ Len(call') \in Nat /\ Len(call') <= 2 /\ at' \in Nat
        BY <1>0, <1>2, <2>1, <3>2 DEF Where, Running
      <4>2. InFlight' = Len(call') - at' + 1  BY <3>2 DEF InFlight
      <4>3. Len(call') - at' + 1 \in 0 .. 2  BY <4>1
      <4> QED  BY <4>2, <4>3
    <3> QED  BY <3>1, <3>2 DEF InFlight
  <2>3. tmps' \in 0 .. 2 * MaxFaults + 2
    <3>1. tmps' \in Nat /\ tmps' <= InFlight' + 2 * faults' /\ faults' <= MaxFaults /\ faults' \in Nat
      BY <1>0, <1>2 DEF Litter
    <3>2. InFlight' <= 2 /\ InFlight' \in Nat  BY <2>2
    <3> DEFINE n == InFlight'
               f == faults'
    <3> HIDE DEF n, f
    <3>3. tmps' \in Nat /\ n \in Nat /\ f \in Nat /\ tmps' <= n + 2 * f /\ f <= MaxFaults /\ n <= 2
      BY <3>1, <3>2 DEF n, f
    <3> QED  BY <3>3
  <2> QED  BY <1>0, <1>2, <2>3 DEF TypeOK
<1>3. ASSUME NEW q \in Seq(Call), Invoke(q) PROVE TypeOK'
  <2>3. /\ rule' \in [Paths -> {"allow", "deny", "pending"}] /\ tracked' \subseteq Paths
        /\ start' = tracked' /\ wrote' = {}
    BY <1>3 DEF Invoke, Probe
  <2>4. /\ parked' = q /\ queue' = q /\ pc' = "idle" /\ approved' \in BOOLEAN /\ call' = <<>> /\ auto' = FALSE
        /\ snap' = <<>> /\ staged' = <<>> /\ result' = "none" /\ raced' = {}
        /\ UNCHANGED <<disk, zone, repo, calls, others, faults>>
    BY <1>3 DEF Invoke, place
  <2>1. Sorts
    <3>1. Files  BY <1>0, <1>3, <2>3, <2>4 DEF TypeOK
    <3>2. Patches  BY <1>0, <1>3, <2>3, <2>4 DEF TypeOK
    <3>3. Contents  BY <1>0, <1>3, <2>3, <2>4
    <3>4. Flags  BY <1>0, <1>3, <2>3, <2>4 DEF TypeOK
    <3>5. Counts  BY <1>0, <1>3, <2>3, <2>4 DEF TypeOK
    <3> QED  BY <3>1, <3>2, <3>3, <3>4, <3>5
  <2>2. Sizes  BY <1>3 DEF Invoke
  <2> QED  BY <1>2, <2>1, <2>2
<1>4. CASE ClearPending \/ Exit
  <2>1. Sorts /\ Sizes
    BY <1>0, <1>4 DEF ClearPending, Exit, Unprobed, place, gates, waiting, TypeOK
  <2> QED  BY <1>2, <2>1
<1>5. CASE Crash
  <2>1. Sorts /\ Sizes  BY <1>0, <1>5 DEF Crash, Unprobed, place, current, TypeOK
  <2> QED  BY <1>2, <2>1
<1>6. ASSUME NEW c \in Call, Begin(c), queue' \in Seq(Call) PROVE TypeOK'
  <2>1. /\ call' = c /\ calls' \in 0 .. MaxCalls /\ pc' = "preview" /\ at' = 1
        /\ snap' = <<>> /\ staged' = <<>> /\ result' = "none" /\ raced' = {} /\ auto' = TRUE
        /\ UNCHANGED <<disk, zone, repo, rule, tracked, start, wrote, parked, approved, others, faults>>
    BY <1>6, BeginEffect DEF place, gates
  <2>2. Sorts
    <3>1. Files  BY <1>0, <1>6, <2>1 DEF TypeOK
    <3>2. Patches  BY <1>0, <1>6, <2>1 DEF TypeOK
    <3>3. Contents  BY <1>0, <1>6, <2>1
    <3>4. Flags  BY <1>0, <1>6, <2>1 DEF TypeOK
    <3>5. Counts  BY <1>0, <1>6, <2>1 DEF TypeOK
    <3> QED  BY <3>1, <3>2, <3>3, <3>4, <3>5
  <2>3. Sizes  BY <2>1
  <2> QED  BY <1>2, <2>2, <2>3
<1>7. CASE PreviewEdit
  <2>1. pc = "preview" /\ at \in 1 .. 2 /\ call # <<>> /\ at <= Len(call)
    BY <1>0, <1>1, <1>7 DEF PreviewEdit, Where, Running
  <2>2. call[at].path \in Paths  BY <1>1, <2>1, EditShape
  <2>3. snap' \in Seq(File) /\ Len(snap') = at
    BY <1>0, <1>7, <2>1, <2>2 DEF PreviewEdit, TypeOK, Where
  <2>4. auto' \in BOOLEAN  BY <1>7 DEF PreviewEdit
  <2>5. Sorts  BY <1>0, <1>7, <2>3, <2>4 DEF PreviewEdit, place, gates, waiting, TypeOK
  <2>6. Sizes  BY <1>0, <1>7, <2>1, <2>3 DEF PreviewEdit, TypeOK
  <2> QED  BY <1>2, <2>5, <2>6
<1>8. CASE PreviewFails \/ LeaveUnanswered
  <2>1. /\ pc' = "idle" /\ at' = 1 /\ snap' = <<>> /\ staged' = <<>> /\ auto' = FALSE
        /\ result' \in {"none", "error"}
        /\ UNCHANGED <<approved, call, disk, zone, repo, rule, tracked, start, wrote, parked, queue, raced,
                       calls, others, faults>>
    BY <1>8 DEF PreviewFails, LeaveUnanswered, Ends, place, gates, waiting
  <2>2. Sorts
    <3>1. Files  BY <1>0, <2>1 DEF TypeOK
    <3>2. Patches  BY <1>0, <2>1 DEF TypeOK
    <3>3. Contents  BY <1>0, <2>1
    <3>4. Flags  BY <1>0, <2>1 DEF TypeOK
    <3>5. Counts  BY <1>0, <2>1 DEF TypeOK
    <3> QED  BY <3>1, <3>2, <3>3, <3>4, <3>5
  <2>3. Sizes  BY <2>1
  <2> QED  BY <1>2, <2>2, <2>3
<1>9. CASE Park
  <2>1. call \in Call  BY <1>0, <1>1, <1>9 DEF Park, Previewed, Where, Running
  <2>2. parked' \in Seq(Call)  BY <1>0, <1>9, <2>1 DEF Park, TypeOK
  <2>3. /\ pc' = "idle" /\ at' = 1 /\ snap' = <<>> /\ staged' = <<>> /\ auto' = FALSE /\ result' = "none"
        /\ UNCHANGED <<approved, call, disk, zone, repo, rule, tracked, start, wrote, queue, raced,
                       calls, others, faults>>
    BY <1>9 DEF Park, Ends, place, gates
  <2>4. Sorts
    <3>1. Files  BY <1>0, <2>2, <2>3 DEF TypeOK
    <3>2. Patches  BY <1>0, <2>2, <2>3 DEF TypeOK
    <3>3. Contents  BY <1>0, <2>2, <2>3
    <3>4. Flags  BY <1>0, <2>2, <2>3 DEF TypeOK
    <3>5. Counts  BY <1>0, <2>2, <2>3 DEF TypeOK
    <3> QED  BY <3>1, <3>2, <3>3, <3>4, <3>5
  <2>5. Sizes  BY <2>3
  <2> QED  BY <1>2, <2>4, <2>5
<1>10. CASE ApplyPreviewed
  <2>1. Sorts /\ Sizes
    BY <1>0, <1>10 DEF ApplyPreviewed, Apply, place, gates, waiting, current, TypeOK
  <2> QED  BY <1>2, <2>1
<1>11. CASE StageEdit
  <2>1. pc = "prepare" /\ call # <<>> /\ at \in 1 .. Len(call) /\ Len(staged) = at - 1
    BY <1>0, <1>11 DEF StageEdit, Where, Running
  <2>2. Patched(at) \in File  BY <1>0, <1>1, <2>1, PatchedTyped
  <2>3. staged' \in Seq(File) /\ Len(staged') = at
    BY <1>0, <1>11, <2>1, <2>2 DEF StageEdit, Stage, TypeOK
  <2>4. at \in 1 .. 2  BY <1>1, <2>1
  <2>5. at' \in 1 .. 3  BY <1>11, <2>4 DEF StageEdit, Stage
  <2>6. Sorts
    BY <1>0, <1>11, <2>3 DEF StageEdit, Stage, place, gates, waiting, TypeOK
  <2>7. Sizes
    BY <1>0, <1>11, <2>3, <2>4, <2>5 DEF StageEdit, Stage, TypeOK
  <2> QED  BY <1>2, <2>6, <2>7
<1>12. CASE StageFails \/ TmpFails \/ RenameFails
  <2>1. /\ pc' = "idle" /\ at' = 1 /\ snap' = <<>> /\ staged' = <<>> /\ auto' = FALSE /\ result' = "error"
        /\ UNCHANGED <<approved, call, disk, zone, repo, rule, tracked, start, wrote, parked, queue, raced,
                       calls, others>>
    BY <1>12 DEF StageFails, TmpFails, RenameFails, Abort, Ends, place, gates, waiting
  <2>2. faults' = faults \/ (faults < MaxFaults /\ faults' = faults + 1)
    BY <1>12 DEF StageFails, TmpFails, RenameFails
  <2>3. faults' \in 0 .. MaxFaults  BY <1>0, <2>2 DEF TypeOK
  <2>4. Sorts
    <3>1. Files  BY <1>0, <2>1, <2>3 DEF TypeOK
    <3>2. Patches  BY <1>0, <2>1, <2>3 DEF TypeOK
    <3>3. Contents  BY <1>0, <2>1, <2>3
    <3>4. Flags  BY <1>0, <2>1, <2>3 DEF TypeOK
    <3>5. Counts  BY <1>0, <2>1, <2>3 DEF TypeOK
    <3> QED  BY <3>1, <3>2, <3>3, <3>4, <3>5
  <2>5. Sizes  BY <2>1
  <2> QED  BY <1>2, <2>4, <2>5
<1>13. CASE RenameNext
  <2>1. pc = "rename" /\ call # <<>> /\ at \in 1 .. Len(call) /\ Len(staged) = Len(call)
    BY <1>0, <1>13 DEF RenameNext, Where, Running
  <2>2. call[at].path \in Paths  BY <1>1, <2>1, EditShape
  <2>3. staged[at] \in File  BY <1>0, <2>1 DEF TypeOK
  <2>4. disk' \in [Paths -> File]  BY <1>0, <1>13, <2>3 DEF RenameNext, TypeOK
  <2>5. tracked' \subseteq Paths /\ wrote' \subseteq Paths
    BY <1>0, <1>13, <2>2 DEF RenameNext, MarkAdded, TypeOK
  <2>6. UNCHANGED <<place, rule, start, waiting, raced, calls, others, faults>>
    BY <1>13 DEF RenameNext
  <2>7. CASE at = Len(call)
    <3>1. /\ pc' = "idle" /\ at' = 1 /\ snap' = <<>> /\ staged' = <<>> /\ auto' = FALSE /\ result' = "ok"
          /\ UNCHANGED <<approved, call>>
      BY <1>13, <2>7 DEF RenameNext, Ends
    <3>2. UNCHANGED <<zone, repo, parked, queue>>  BY <2>6 DEF place, waiting
    <3>3. Sorts
      <4>1. Files  BY <1>0, <2>4, <2>5, <2>6, <3>1, <3>2 DEF TypeOK
      <4>2. Patches  BY <1>0, <2>4, <2>5, <2>6, <3>1, <3>2 DEF TypeOK
      <4>3. Contents  BY <1>0, <2>4, <2>5, <2>6, <3>1, <3>2
      <4>4. Flags  BY <1>0, <2>4, <2>5, <2>6, <3>1, <3>2 DEF TypeOK
      <4>5. Counts  BY <1>0, <2>4, <2>5, <2>6, <3>1, <3>2 DEF TypeOK
      <4> QED  BY <4>1, <4>2, <4>3, <4>4, <4>5
    <3>4. Sizes  BY <3>1
    <3> QED  BY <1>2, <3>3, <3>4
  <2>8. CASE at # Len(call)
    <3>1. at' = at + 1 /\ UNCHANGED <<pc, result, approved, call, snap, staged, auto>>
      BY <1>13, <2>8 DEF RenameNext, current
    <3>2. at' \in 1 .. 3  BY <1>1, <2>1, <3>1
    <3>3. UNCHANGED <<zone, repo, parked, queue>>  BY <2>6 DEF place, waiting
    <3>4. Sorts  BY <1>0, <2>4, <2>5, <2>6, <3>1, <3>3 DEF TypeOK
    <3>5. Sizes  BY <1>0, <3>1, <3>2 DEF TypeOK
    <3> QED  BY <1>2, <3>4, <3>5
  <2> QED  BY <2>7, <2>8
<1>14. ASSUME NEW p \in Paths, OtherWrites(p) PROVE TypeOK'
  <2>1. <<0, others + 1>> \in Mark  BY <1>0, <1>14 DEF OtherWrites, Mark, TypeOK
  <2>2. disk[p].has \cup {<<0, others + 1>>} \subseteq Mark
    <3>1. disk[p] \in File  BY <1>0 DEF TypeOK
    <3> QED  BY <2>1, <3>1 DEF File
  <2>3. Absent \in File /\ [exists |-> TRUE, has |-> disk[p].has \cup {<<0, others + 1>>}] \in File
    BY <2>2 DEF Absent, File
  <2>4. disk' \in [Paths -> File]  BY <1>0, <1>14, <2>3 DEF OtherWrites, TypeOK
  <2>5. raced' \subseteq Paths  BY <1>0, <1>14 DEF OtherWrites, TypeOK
  <2>6. others' \in 0 .. MaxOthers  BY <1>0, <1>14 DEF OtherWrites, TypeOK
  <2>7. UNCHANGED <<tmps, place, gates, waiting, pc, current, at, result, calls, faults>>
    BY <1>14 DEF OtherWrites
  <2>8. UNCHANGED <<zone, repo, rule, tracked, start, wrote, parked, queue, approved, call, snap, staged, auto>>
    BY <2>7 DEF place, gates, waiting, current
  <2>9. Sorts  BY <1>0, <2>4, <2>5, <2>6, <2>7, <2>8 DEF TypeOK
  <2>10. Sizes  BY <1>0, <2>7, <2>8 DEF TypeOK
  <2> QED  BY <1>2, <2>9, <2>10
<1>15. CASE UNCHANGED vars
  BY <1>0, <1>15 DEF vars, place, gates, waiting, current, TypeOK
<1>16. ASSUME NEW c \in Call, Dispatch(c) PROVE TypeOK'
  BY <1>0, <1>6, <1>16 DEF Dispatch, TypeOK
<1>17. CASE RunParked
  <2>1. Head(queue) \in Call /\ Tail(queue) \in Seq(Call)  BY <1>0, <1>17 DEF RunParked, TypeOK
  <2> QED  BY <1>6, <1>17, <2>1 DEF RunParked
<1>18. CASE Tell \/ Approve
  <2>1. parked \in Seq(Call) /\ <<>> \in Seq(Call)  BY <1>0 DEF TypeOK
  <2> QED  BY <1>3, <1>18, <2>1 DEF Tell, Approve
<1> QED
  BY <1>4, <1>5, <1>7, <1>8, <1>9, <1>10, <1>11, <1>12, <1>13, <1>14, <1>15, <1>16, <1>17, <1>18
  DEF Next, Preview, Applying

-----------------------------------------------------------------------------
(***************************************************************************)
(* The other parts.  A quiet step leaves the files, the running call's     *)
(* edits and who raced it as they are.                                     *)
(***************************************************************************)
LEMMA MarksKept == IInv /\ [Next]_vars => Marks'
<1> SUFFICES ASSUME IInv, [Next]_vars PROVE Marks'  OBVIOUS
<1>0. TypeOK /\ Where /\ Marks  BY DEF IInv
<1>1. calls \in Nat  BY <1>0, PatchAssumption DEF TypeOK
<1>2. ASSUME disk' = disk, staged' = staged \/ staged' = <<>>, calls' = calls \/ calls' = calls + 1
      PROVE  Marks'
  <2>1. ASSUME NEW f \in File, Known(f) PROVE Known(f)'
    <3>1. \A m \in f.has : m[1] \in Nat  BY PatchAssumption DEF File, Mark
    <3> QED  BY <1>1, <1>2, <2>1, <3>1 DEF Known
  <2>2. \A p \in Paths : disk[p] \in File  BY <1>0 DEF TypeOK
  <2>3. \A p \in Paths : Known(disk[p])'  BY <1>0, <1>2, <2>1, <2>2 DEF Marks, Known
  <2>4. \A k \in 1 .. Len(staged) : staged[k] \in File  BY <1>0 DEF TypeOK
  <2>5. CASE staged' = staged
    <3>1. \A k \in 1 .. Len(staged) : Known(staged[k])'  BY <1>0, <2>1, <2>4, <2>5 DEF Marks, Known
    <3> QED  BY <2>3, <2>5, <3>1 DEF Marks
  <2>6. CASE staged' = <<>>  BY <2>3, <2>6 DEF Marks
  <2> QED  BY <1>2, <2>5, <2>6
<1>3. ASSUME NEW q, Invoke(q) PROVE Marks'  BY <1>2, <1>3 DEF Invoke
<1>4. CASE ClearPending \/ Exit \/ Crash  BY <1>2, <1>4 DEF ClearPending, Exit, Crash, current
<1>5. ASSUME NEW c, Begin(c) PROVE Marks'  BY <1>2, <1>5 DEF Begin
<1>6. CASE Preview
  BY <1>2, <1>6
  DEF Preview, PreviewEdit, PreviewFails, ApplyPreviewed, Apply, LeaveUnanswered, Park, Ends, current
<1>7. CASE StageFails \/ TmpFails \/ RenameFails
  BY <1>2, <1>7 DEF StageFails, TmpFails, RenameFails, Abort, Ends
<1>8. CASE StageEdit
  <2>1. /\ pc = "prepare" /\ call # <<>> /\ at \in DOMAIN call /\ disk' = disk /\ calls' = calls
        /\ staged' = Append(staged, Patched(at))
    BY <1>0, <1>8, CallFacts DEF StageEdit, Stage, Where, Running
  <2>2. call[at].path \in Paths  BY <1>0, <2>1, CallFacts, EditShape
  <2>3. Known(Patched(at))
    <3>1. Known(disk[call[at].path])  BY <1>0, <2>2 DEF Marks
    <3> QED  BY <1>1, <3>1 DEF Known, Patched, Begun
  <2>4. staged \in Seq(File)  BY <1>0 DEF TypeOK
  <2>5. \A k \in 1 .. Len(staged') : Known(staged'[k])
    BY <1>0, <2>1, <2>3, <2>4 DEF Marks
  <2>6. \A p \in Paths : Known(disk[p])  BY <1>0 DEF Marks
  <2> QED  BY <2>1, <2>5, <2>6 DEF Marks, Known
<1>9. CASE RenameNext
  <2>1. /\ call # <<>> /\ at \in 1 .. Len(staged) /\ calls' = calls
        /\ disk' = [disk EXCEPT ![call[at].path] = staged[at]]
        /\ staged' = staged \/ staged' = <<>>
    BY <1>0, <1>9 DEF RenameNext, Where, Running, Ends, current
  <2>2. Known(staged[at])  BY <1>0, <2>1 DEF Marks
  <2>3. \A p \in Paths : Known(disk'[p])  BY <1>0, <2>1, <2>2 DEF Marks, TypeOK
  <2>4. \A k \in 1 .. Len(staged') : Known(staged'[k])
    <3>1. CASE staged' = staged  BY <1>0, <3>1 DEF Marks
    <3>2. CASE staged' = <<>>  BY <3>2
    <3> QED  BY <2>1, <3>1, <3>2
  <2> QED  BY <2>1, <2>3, <2>4 DEF Marks, Known
<1>10. ASSUME NEW q \in Paths, OtherWrites(q) PROVE Marks'
  <2>1. calls' = calls /\ staged' = staged  BY <1>10 DEF OtherWrites, current
  <2>2. PICK f \in {Absent, [exists |-> TRUE, has |-> disk[q].has \cup {<<0, others + 1>>}]} :
           disk' = [disk EXCEPT ![q] = f]
    BY <1>10 DEF OtherWrites
  <2>3. Known(disk[q])  BY <1>0 DEF Marks
  <2>4. Known(f)  BY <1>1, <2>2, <2>3 DEF Known, Absent
  <2>5. \A p \in Paths : Known(disk'[p])  BY <1>0, <2>2, <2>4 DEF Marks, TypeOK
  <2>6. \A k \in 1 .. Len(staged) : Known(staged[k])  BY <1>0 DEF Marks
  <2> QED  BY <2>1, <2>5, <2>6 DEF Marks, Known
<1>11. CASE UNCHANGED vars  BY <1>2, <1>11 DEF vars, current
<1> QED
  BY <1>3, <1>4, <1>5, <1>6, <1>7, <1>8, <1>9, <1>10, <1>11
  DEF Next, Applying, Tell, Approve, Dispatch, RunParked

LEMMA CoveredKept == IInv /\ [Next]_vars => Covered'
<1> SUFFICES ASSUME IInv, [Next]_vars PROVE Covered'  OBVIOUS
<1>0. TypeOK /\ Where /\ Covered  BY DEF IInv
<1>1. call # <<>> => /\ call \in Call /\ Len(call) \in {1, 2} /\ DOMAIN call = 1 .. Len(call)
  BY <1>0, CallFacts
<1>2. tracked \subseteq start \cup wrote  BY <1>0 DEF Covered
<1>3. ASSUME NEW k \in DOMAIN call, Guard(call[k]) # "refuse" PROVE Permitted(k)
  BY <1>3 DEF Guard, Permitted
<1>4. ASSUME NEW k \in DOMAIN call, Guard(call[k]) = "allow", call[k].op = "update" PROVE Backed(k)
  BY <1>2, <1>4 DEF Guard, Backed, Revertible
<1>5. ASSUME NEW q, Invoke(q) PROVE Covered'
  BY <1>5 DEF Invoke, Probe, Covered
<1>6. CASE ClearPending  BY <1>0, <1>6 DEF ClearPending, gates, Covered, Where
<1>7. CASE Exit \/ Crash  BY <1>7 DEF Exit, Crash, Unprobed, Covered
<1>8. ASSUME NEW c \in Call, Begin(c) PROVE Covered'
  <2>1. /\ pc' = "preview" /\ at' = 1 /\ call' = c /\ UNCHANGED <<tracked, start, wrote>>
    BY <1>8 DEF Begin, gates
  <2>2. \A k \in DOMAIN c : ~(k < 1)  BY CallShape
  <2> QED  BY <1>2, <2>1, <2>2 DEF Covered
<1>9. CASE PreviewEdit
  <2>1. /\ pc = "preview" /\ pc' = "preview" /\ call' = call /\ at' = at + 1 /\ call # <<>> /\ at \in DOMAIN call
        /\ auto' = (auto /\ call[at].op = "update" /\ Guard(call[at]) = "allow")
        /\ UNCHANGED <<rule, tracked, start, wrote>>
    BY <1>0, <1>1, <1>9 DEF PreviewEdit, Where, Running, gates
  <2>2. ASSUME auto', NEW k \in DOMAIN call, k < at + 1 PROVE Backed(k)
    <3>1. CASE k = at  BY <1>4, <2>1, <2>2, <3>1
    <3>2. CASE k < at  BY <1>0, <2>1, <2>2, <3>2 DEF Covered
    <3> QED  BY <1>1, <2>1, <2>2, <3>1, <3>2
  <2> QED  BY <1>2, <2>1, <2>2 DEF Covered, Backed
<1>10. CASE PreviewFails \/ LeaveUnanswered \/ Park \/ StageFails \/ TmpFails \/ RenameFails
  <2>1. pc' = "idle" /\ UNCHANGED <<tracked, start, wrote>>
    BY <1>10 DEF PreviewFails, LeaveUnanswered, Park, StageFails, TmpFails, RenameFails, Abort, Ends, gates
  <2> QED  BY <1>2, <2>1 DEF Covered
<1>11. CASE ApplyPreviewed
  <2>1. /\ pc = "preview" /\ at > Len(call) /\ pc' = "prepare" /\ at' = 1 /\ call # <<>>
        /\ approved \/ ((AllAllowed \/ auto) /\ parked = <<>>)
        /\ UNCHANGED <<rule, zone, tracked, start, wrote, parked, approved, call, auto>>
    BY <1>0, <1>11
    DEF ApplyPreviewed, Apply, Previewed, Unattended, Where, Running, gates, place, waiting, current
  <2>2. \A k \in DOMAIN call : k < at /\ ~(k < 1)  BY <1>0, <1>1, <2>1 DEF TypeOK
  <2>3. ~approved => parked = <<>> /\ \A k \in DOMAIN call : Backed(k)
    <3>1. CASE AllAllowed  BY <2>1, <3>1 DEF AllAllowed, Backed
    <3>2. CASE auto  BY <1>0, <2>1, <2>2, <3>2 DEF Covered
    <3> QED  BY <2>1, <3>1, <3>2
  <2> QED  BY <1>2, <2>1, <2>2, <2>3 DEF Covered, Backed
<1>12. CASE StageEdit
  <2>1. /\ pc = "prepare" /\ call # <<>> /\ at \in DOMAIN call /\ Guard(call[at]) # "refuse"
        /\ IF at = Len(call) THEN pc' = "rename" /\ at' = 1 ELSE pc' = pc /\ at' = at + 1
        /\ UNCHANGED <<rule, zone, tracked, start, wrote, parked, approved, call>>
    BY <1>0, <1>1, <1>12 DEF StageEdit, Stage, Resolves, Where, Running, gates, place, waiting
  <2>2. \A k \in DOMAIN call : k <= at => Permitted(k)
    <3>1. SUFFICES ASSUME NEW k \in DOMAIN call, k <= at PROVE Permitted(k)  OBVIOUS
    <3>2. CASE k = at  BY <1>3, <2>1, <3>2
    <3>3. CASE k < at  BY <1>0, <2>1, <3>3 DEF Covered
    <3> QED  BY <1>1, <2>1, <3>1, <3>2, <3>3
  <2>3. ~approved => parked = <<>> /\ \A k \in DOMAIN call : Backed(k)  BY <1>0, <2>1 DEF Covered
  <2>4. CASE at = Len(call)
    <3>1. \A k \in DOMAIN call : Permitted(k)  BY <1>1, <2>1, <2>2, <2>4
    <3> QED  BY <1>2, <2>1, <2>3, <2>4, <3>1 DEF Covered, Backed, Permitted
  <2>5. CASE at # Len(call)
    <3>1. \A k \in DOMAIN call : k < at + 1 => Permitted(k)  BY <1>1, <2>1, <2>2
    <3> QED  BY <1>2, <2>1, <2>3, <2>5, <3>1 DEF Covered, Backed, Permitted
  <2> QED  BY <2>4, <2>5
<1>13. CASE RenameNext
  <2>1. /\ pc = "rename" /\ tracked' \subseteq tracked \cup {call[at].path} /\ wrote' = wrote \cup {call[at].path}
        /\ start' = start /\ pc' \in {"idle", "rename"}
        /\ pc' = "rename" => UNCHANGED <<rule, zone, parked, approved, call>>
    BY <1>13 DEF RenameNext, MarkAdded, Ends, place, waiting, current
  <2>2. \A k \in DOMAIN call : Permitted(k)  BY <1>0, <2>1 DEF Covered
  <2>3. ~approved => parked = <<>> /\ \A k \in DOMAIN call : Backed(k)  BY <1>0, <2>1 DEF Covered
  <2> QED  BY <1>2, <2>1, <2>2, <2>3 DEF Covered, Backed, Permitted
<1>14. ASSUME NEW p \in Paths, OtherWrites(p) PROVE Covered'
  BY <1>0, <1>14 DEF OtherWrites, place, gates, waiting, current, Covered, Backed, Permitted
<1>15. CASE UNCHANGED vars
  BY <1>0, <1>15 DEF vars, place, gates, waiting, current, Covered, Backed, Permitted
<1>16. ASSUME NEW c \in Call, Dispatch(c) PROVE Covered'  BY <1>8, <1>16 DEF Dispatch
<1>17. CASE RunParked
  <2>1. Head(queue) \in Call  BY <1>0, <1>17 DEF RunParked, TypeOK
  <2> QED  BY <1>8, <1>17, <2>1 DEF RunParked
<1> QED
  BY <1>5, <1>6, <1>7, <1>9, <1>10, <1>11, <1>12, <1>13, <1>14, <1>15, <1>16, <1>17
  DEF Next, Preview, Applying, Tell, Approve

\* A file as somebody else leaves it: gone, or with one more change of theirs.
LEMMA OthersEffect ==
  ASSUME TypeOK, NEW p \in Paths, OtherWrites(p)
  PROVE  /\ \A q \in Paths \ {p} : disk'[q] = disk[q]
         /\ disk'[p].has = {} \/ disk'[p].has = disk[p].has \cup {<<0, others + 1>>}
         /\ raced \subseteq raced'
         /\ p \in StagedPaths \/ result = "ok" => p \in raced'
         /\ UNCHANGED <<pc, call, at, staged, result, calls, faults>>
<1>1. PICK f \in {Absent, [exists |-> TRUE, has |-> disk[p].has \cup {<<0, others + 1>>}]} :
         disk' = [disk EXCEPT ![p] = f]
  BY DEF OtherWrites
<1>2. disk'[p] = f /\ \A q \in Paths \ {p} : disk'[q] = disk[q]  BY <1>1 DEF TypeOK
<1>3. f.has = {} \/ f.has = disk[p].has \cup {<<0, others + 1>>}  BY <1>1 DEF Absent
<1>4. UNCHANGED <<pc, call, at, staged, result, calls, faults>>  BY DEF OtherWrites, current
<1>5. raced \subseteq raced' /\ (p \in StagedPaths \/ result = "ok" => p \in raced')  BY DEF OtherWrites
<1> QED  BY <1>2, <1>3, <1>4, <1>5

LEMMA ProgressKept == IInv /\ [Next]_vars => Progress'
<1> SUFFICES ASSUME IInv, [Next]_vars PROVE Progress'  OBVIOUS
<1>0. TypeOK /\ Where /\ Marks /\ Progress  BY DEF IInv
<1>1. call # <<>> => /\ call \in Call /\ Len(call) \in {1, 2} /\ DOMAIN call = 1 .. Len(call)
                     /\ calls > 0 /\ calls \in Nat
  BY <1>0, CallFacts
<1>2. pc \in Running => call # <<>> /\ Len(call) \in DOMAIN call /\ result = "none"
  BY <1>0, <1>1 DEF Where
\* While a call runs, its last edit is nowhere.
<1>3. pc \in Running /\ ~Aliased => Nowhere(Len(call))
  <2>1. CASE pc = "rename"
    <3>1. ~(Len(call) < at)  BY <1>0, <1>1, <2>1 DEF Where, Running
    <3> QED  BY <1>0, <1>2, <2>1, <3>1 DEF Progress, Running
  <2>2. CASE pc \in {"preview", "prepare"}  BY <1>0, <1>2, <2>2 DEF Progress, Running
  <2> QED  BY <2>1, <2>2 DEF Running
<1>4. ASSUME NEW q, Invoke(q) PROVE Progress'  BY <1>4 DEF Invoke, Progress
<1>5. CASE Exit  BY <1>5 DEF Exit, Progress
<1>6. CASE ClearPending \/ UNCHANGED vars
  BY <1>0, <1>6 DEF ClearPending, vars, current, Progress, Nowhere, There, OnDisk, Own, Begun, Aliased
<1>7. CASE Crash
  <2>1. pc' = "off" /\ faults' > 0 /\ UNCHANGED <<disk, call, staged, at, result, raced, calls>>
    BY <1>0, <1>7, PatchAssumption DEF Crash, current, TypeOK
  <2>2. ~Aliased /\ result = "ok" => \A k \in DOMAIN call : There(k)
    BY <1>0, <1>2, <1>7 DEF Crash, Progress, Where, TypeOK, Running
  <2>3. ~Aliased /\ result # "ok" /\ call # <<>> => Nowhere(Len(call))
    <3>1. CASE pc \in Running  BY <1>3, <3>1
    <3>2. CASE pc \notin Running  BY <1>0, <3>2 DEF Progress, TypeOK, Running
    <3> QED  BY <3>1, <3>2
  <2>4. faults' # 0  BY <2>1
  <2> QED  BY <2>1, <2>2, <2>3, <2>4 DEF Progress, Nowhere, There, OnDisk, Begun, Aliased
<1>8. ASSUME NEW c \in Call, Begin(c) PROVE Progress'
  <2>1. disk' = disk /\ call' = c /\ calls' = calls + 1 /\ pc' = "preview"  BY <1>8, BeginEffect DEF IInv
  <2>2. calls \in Nat  BY <1>0, PatchAssumption DEF TypeOK
  <2>3. ASSUME NEW k, NEW p \in Paths PROVE <<calls + 1, k>> \notin disk[p].has
    BY <1>0, <2>2 DEF Marks, Known
  <2> QED  BY <2>1, <2>3 DEF Progress, Nowhere, Begun
<1>9. CASE PreviewEdit
  BY <1>0, <1>9 DEF PreviewEdit, Progress, Nowhere, Begun
<1>10. CASE PreviewFails \/ LeaveUnanswered \/ Park \/ StageFails \/ TmpFails
  <2>1. /\ pc \in {"preview", "prepare"} /\ pc' = "idle" /\ result' \in {"none", "error"}
        /\ UNCHANGED <<disk, call, calls>>
    BY <1>10 DEF PreviewFails, LeaveUnanswered, Park, Previewed, StageFails, TmpFails, Abort, Ends
  <2>2. \A k \in DOMAIN call : Nowhere(k)'  BY <1>0, <2>1 DEF Progress, Nowhere, Begun
  <2>3. Len(call) \in DOMAIN call  BY <1>2, <2>1 DEF Running
  <2> QED  BY <2>1, <2>2, <2>3 DEF Progress
<1>11. CASE ApplyPreviewed
  <2>1. pc = "preview" /\ pc' = "prepare" /\ staged' = <<>> /\ UNCHANGED <<disk, call, calls>>
    BY <1>0, <1>11 DEF ApplyPreviewed, Apply, Previewed, current, Where
  <2> QED  BY <1>0, <2>1 DEF Progress, Nowhere, Begun
<1>12. CASE StageEdit
  <2>1. /\ pc = "prepare" /\ at \in DOMAIN call /\ staged' = Append(staged, Patched(at))
        /\ Len(staged) = at - 1 /\ staged \in Seq(File) /\ UNCHANGED <<disk, call, calls>>
        /\ pc' = "prepare" \/ (pc' = "rename" /\ at' = 1)
    BY <1>0, <1>1, <1>12 DEF StageEdit, Stage, Where, Running, TypeOK
  <2>2. \A k \in DOMAIN call : Nowhere(k)  BY <1>0, <2>1 DEF Progress
  <2>3. call[at].path \in Paths  BY <1>1, <1>2, <2>1, EditShape DEF Running
  <2>4. /\ Patched(at).exists /\ Begun(at) \in Patched(at).has
        /\ \A j \in DOMAIN call : j # at => Begun(j) \notin Patched(at).has
    BY <2>2, <2>3 DEF Patched, Nowhere, Begun
  <2>5. ASSUME NEW k \in 1 .. Len(staged') PROVE Own(k)'
    <3>1. CASE k = at
      <4>1. staged'[k] = Patched(at)  BY <2>1, <3>1
      <4> QED  BY <2>1, <2>4, <3>1, <4>1 DEF Own, Begun
    <3>2. CASE k # at
      <4>1. Len(staged') = Len(staged) + 1 /\ Len(staged) \in Nat /\ at = Len(staged) + 1  BY <1>0, <2>1 DEF TypeOK
      <4>2. k \in 1 .. Len(staged)  BY <2>5, <3>2, <4>1
      <4>3. k \in 1 .. Len(staged) /\ staged'[k] = staged[k]  BY <2>1, <4>2
      <4>4. Own(k)  BY <1>0, <2>1, <4>3 DEF Progress
      <4> QED  BY <2>1, <4>3, <4>4 DEF Own, Begun
    <3> QED  BY <3>1, <3>2
  <2>6. \A k \in DOMAIN call : Nowhere(k)' /\ ~(k < 1)  BY <1>1, <1>2, <2>1, <2>2 DEF Nowhere, Begun, Running
  <2> QED  BY <2>1, <2>5, <2>6 DEF Progress
<1>13. CASE RenameFails
  <2>1. /\ pc = "rename" /\ pc' = "idle" /\ result' = "error" /\ faults' # 0
        /\ UNCHANGED <<disk, call, calls>>
    BY <1>0, <1>13, PatchAssumption DEF RenameFails, Ends, TypeOK
  <2> QED  BY <1>3, <2>1 DEF Progress, Nowhere, Begun, Aliased, Running
<1>14. CASE RenameNext
  <2>1. /\ pc = "rename" /\ at \in DOMAIN call /\ at \in 1 .. Len(staged)
        /\ disk' = [disk EXCEPT ![call[at].path] = staged[at]]
        /\ UNCHANGED <<call, calls, raced>>
        /\ \/ pc' = "idle" /\ at = Len(call) /\ result' = "ok"
           \/ pc' = "rename" /\ at' = at + 1 /\ staged' = staged
    BY <1>0, <1>1, <1>14 DEF RenameNext, Where, Running, Ends, current
  <2>2. call \in Call /\ DOMAIN call = 1 .. Len(call) /\ Len(call) \in {1, 2}  BY <1>1, <1>2, <2>1 DEF Running
  <2>3. \A k \in DOMAIN call : call[k].path \in Paths  BY <2>2, EditShape
  <2>4. Own(at)  BY <1>0, <2>1 DEF Progress
  <2>5. disk \in [Paths -> File]  BY <1>0 DEF TypeOK
  <2>6. ASSUME ~Aliased, NEW k \in DOMAIN call PROVE IF k <= at THEN There(k)' ELSE Nowhere(k)'
    <3>1. CASE k = at  BY <2>1, <2>3, <2>4, <2>5, <3>1 DEF There, OnDisk, Own, Begun
    <3>2. CASE k < at
      <4>1. There(k)  BY <1>0, <2>1, <2>6, <3>2 DEF Progress
      <4>2. call[k].path # call[at].path  BY <2>1, <2>2, <2>6, <3>2 DEF Aliased
      <4>3. There(k)'  BY <2>1, <2>3, <2>5, <4>1, <4>2 DEF There, OnDisk, Begun
      <4> QED  BY <2>1, <2>2, <3>2, <4>3
    <3>3. CASE k > at
      <4>1. Nowhere(k)  BY <1>0, <2>1, <2>2, <2>6, <3>3 DEF Progress
      <4>2. Begun(k) \notin staged[at].has  BY <2>2, <2>4, <3>3 DEF Own
      <4>3. Nowhere(k)'  BY <2>1, <2>3, <2>5, <4>1, <4>2 DEF Nowhere, Begun
      <4> QED  BY <2>1, <2>2, <3>3, <4>3
    <3> QED  BY <2>1, <2>2, <3>1, <3>2, <3>3
  <2>7. CASE pc' = "idle" /\ at = Len(call) /\ result' = "ok"
    <3>1. ~Aliased => \A k \in DOMAIN call : There(k)'  BY <2>2, <2>6, <2>7
    <3> QED  BY <2>1, <2>7, <3>1 DEF Progress, Aliased
  <2>8. CASE pc' = "rename" /\ at' = at + 1 /\ staged' = staged
    <3>1. ~Aliased => \A k \in DOMAIN call : IF k < at' THEN There(k)' ELSE Nowhere(k)'
      BY <2>1, <2>2, <2>6, <2>8
    <3>2. \A k \in 1 .. Len(staged) : Own(k)'  BY <1>0, <2>1, <2>8 DEF Progress, Own, Begun
    <3> QED  BY <2>1, <2>8, <3>1, <3>2 DEF Progress, Aliased
  <2> QED  BY <2>1, <2>7, <2>8
<1>15. ASSUME NEW p \in Paths, OtherWrites(p) PROVE Progress'
  <2>1. /\ \A q \in Paths \ {p} : disk'[q] = disk[q]
        /\ disk'[p].has = {} \/ disk'[p].has = disk[p].has \cup {<<0, others + 1>>}
        /\ raced \subseteq raced' /\ (p \in StagedPaths \/ result = "ok" => p \in raced')
        /\ UNCHANGED <<pc, call, at, staged, result, calls, faults>>
    BY <1>0, <1>15, OthersEffect
  <2>2. ASSUME NEW k \in DOMAIN call, Nowhere(k) PROVE Nowhere(k)'
    <3>1. call # <<>>  BY <2>2
    <3>2. Begun(k) # <<0, others + 1>>  BY <1>1, <3>1 DEF Begun
    <3> QED  BY <2>1, <2>2, <3>2 DEF Nowhere, Begun
  <2>3. ASSUME NEW k \in DOMAIN call, There(k), call[k].path \in StagedPaths \/ result = "ok"
        PROVE  There(k)'
    <3>1. call[k].path \in Paths
      <4>1. call # <<>>  BY <2>3
      <4> QED  BY <1>1, <4>1, EditShape
    <3>2. CASE call[k].path = p  BY <2>1, <2>3, <3>2 DEF There
    <3>3. CASE call[k].path # p  BY <2>1, <2>3, <3>1, <3>3 DEF There, OnDisk, Begun
    <3> QED  BY <3>2, <3>3
  <2>4. pc = "rename" => \A k \in DOMAIN call : call[k].path \in StagedPaths
    BY <1>0, <1>1, <1>2 DEF Where, StagedPaths, Running
  <2>5. pc \in {"preview", "prepare"} => \A k \in DOMAIN call : Nowhere(k)'  BY <1>0, <2>2 DEF Progress
  <2>6. pc \in {"prepare", "rename"} => \A k \in 1 .. Len(staged) : Own(k)'
    BY <1>0, <2>1 DEF Progress, Own, Begun
  <2>7. pc = "rename" /\ ~Aliased =>
          \A k \in DOMAIN call : IF k < at THEN There(k)' ELSE Nowhere(k)'
    BY <1>0, <2>2, <2>3, <2>4 DEF Progress
  <2>8. pc \in {"idle", "off"} /\ ~Aliased =>
          /\ result = "ok" => \A k \in DOMAIN call : There(k)'
          /\ result # "ok" /\ call # <<>> => Nowhere(Len(call))'
          /\ result = "error" /\ faults = 0 => \A k \in DOMAIN call : Nowhere(k)'
    <3>1. call # <<>> => Len(call) \in DOMAIN call  BY <1>1
    <3> QED  BY <1>0, <2>1, <2>2, <2>3, <3>1 DEF Progress
  <2> QED  BY <2>1, <2>5, <2>6, <2>7, <2>8 DEF Progress, Aliased
<1>16. ASSUME NEW c \in Call, Dispatch(c) PROVE Progress'  BY <1>8, <1>16 DEF Dispatch
<1>17. CASE RunParked
  <2>1. Head(queue) \in Call  BY <1>0, <1>17 DEF RunParked, TypeOK
  <2> QED  BY <1>8, <1>17, <2>1 DEF RunParked
<1> QED
  BY <1>4, <1>5, <1>6, <1>7, <1>9, <1>10, <1>11, <1>12, <1>13, <1>14, <1>15, <1>16, <1>17
  DEF Next, Preview, Applying, Tell, Approve

LEMMA KeptKept == IInv /\ [Next]_vars => Kept'
<1> SUFFICES ASSUME IInv, [Next]_vars PROVE Kept'  OBVIOUS
<1>0. TypeOK /\ Where /\ Marks /\ Kept  BY DEF IInv
<1>1. call # <<>> => /\ call \in Call /\ Len(call) \in {1, 2} /\ DOMAIN call = 1 .. Len(call)
  BY <1>0, CallFacts
<1>2. ASSUME pc' \notin {"prepare", "rename"} PROVE Kept'  BY <1>2 DEF Kept
<1>3. ASSUME NEW q, Invoke(q) PROVE Kept'  BY <1>2, <1>3 DEF Invoke
<1>4. CASE Exit \/ Crash  BY <1>2, <1>4 DEF Exit, Crash
<1>5. ASSUME NEW c, Begin(c) PROVE Kept'  BY <1>2, <1>5 DEF Begin
<1>6. CASE ClearPending \/ UNCHANGED vars
  BY <1>0, <1>6 DEF ClearPending, vars, current, Kept, Held, Aliased
<1>7. CASE PreviewEdit \/ PreviewFails \/ LeaveUnanswered \/ Park \/ StageFails \/ TmpFails \/ RenameFails
  BY <1>2, <1>7
  DEF PreviewEdit, PreviewFails, LeaveUnanswered, Park, StageFails, TmpFails, RenameFails, Abort, Ends
<1>8. CASE ApplyPreviewed
  <2>1. pc' = "prepare" /\ staged' = <<>>
    BY <1>0, <1>8 DEF ApplyPreviewed, Apply, Previewed, current, Where
  <2> QED  BY <2>1 DEF Kept
<1>9. CASE StageEdit
  <2>1. /\ pc = "prepare" /\ call # <<>> /\ at \in DOMAIN call /\ staged' = Append(staged, Patched(at))
        /\ Len(staged) = at - 1 /\ staged \in Seq(File) /\ UNCHANGED <<disk, call, raced>>
        /\ Resolves(call[at])
        /\ \/ pc' = "prepare"
           \/ pc' = "rename" /\ at' = 1 /\ at = Len(call)
    BY <1>0, <1>1, <1>9 DEF StageEdit, Stage, Where, Running, TypeOK
  <2>2. call[at].path \in Paths /\ call[at].op \in {"add", "update"}  BY <1>1, <2>1, EditShape
  <2>3. disk[call[at].path].has \subseteq Patched(at).has
    <3>1. CASE call[at].op = "add"
      <4>1. ~disk[call[at].path].exists
        <5>1. disk[call[at].path] \in File  BY <1>0, <2>2 DEF TypeOK
        <5> QED  BY <2>1, <3>1, <5>1 DEF Resolves, File
      <4>2. disk[call[at].path].has = {}  BY <1>0, <2>2, <4>1 DEF Marks, Known
      <4> QED  BY <4>2
    <3>2. CASE call[at].op = "update"  BY <3>2 DEF Patched
    <3> QED  BY <2>2, <3>1, <3>2
  <2>4. Len(staged') = Len(staged) + 1 /\ Len(staged) \in Nat /\ at = Len(staged) + 1
    BY <1>0, <1>1, <2>1
  <2>5. ASSUME NEW k \in 1 .. Len(staged') PROVE call[k].path \in raced \/ Held(k)'
    <3>1. CASE k = at
      <4>1. staged'[k] = Patched(at)  BY <2>1, <2>4, <3>1
      <4> QED  BY <2>1, <2>3, <3>1, <4>1 DEF Held
    <3>2. CASE k # at
      <4>1. k \in 1 .. Len(staged)  BY <2>4, <2>5, <3>2
      <4>2. staged'[k] = staged[k]  BY <2>1, <4>1
      <4> QED  BY <1>0, <2>1, <4>1, <4>2 DEF Kept, Held
    <3> QED  BY <3>1, <3>2
  <2>6. CASE pc' = "prepare"  BY <2>1, <2>5, <2>6 DEF Kept
  <2>7. CASE pc' = "rename" /\ at' = 1 /\ at = Len(call)
    <3>1. \A k \in DOMAIN call : k \in 1 .. Len(staged')  BY <1>1, <2>1, <2>4, <2>7
    <3> QED  BY <2>1, <2>5, <2>7, <3>1 DEF Kept
  <2> QED  BY <2>1, <2>6, <2>7
<1>10. CASE RenameNext
  <2>1. CASE at = Len(call)  BY <1>2, <1>10, <2>1 DEF RenameNext, Ends
  <2>2. CASE at # Len(call)
    <3>1. /\ pc = "rename" /\ pc' = "rename" /\ at \in DOMAIN call /\ call # <<>> /\ at' = at + 1
          /\ disk' = [disk EXCEPT ![call[at].path] = staged[at]]
          /\ UNCHANGED <<call, staged, raced>>
      BY <1>0, <1>1, <1>10, <2>2 DEF RenameNext, Where, Running, current
    <3>2. ASSUME ~Aliased, NEW k \in DOMAIN call, k >= at + 1 PROVE call[k].path \in raced \/ Held(k)'
      <4>1. call[k].path # call[at].path /\ k >= at  BY <1>1, <3>1, <3>2 DEF Aliased
      <4>2. call[k].path \in raced \/ Held(k)  BY <1>0, <3>1, <3>2, <4>1 DEF Kept
      <4>3. call[k].path \in Paths  BY <1>1, <3>1, EditShape
      <4>4. disk'[call[k].path] = disk[call[k].path]  BY <1>0, <3>1, <4>1, <4>3 DEF TypeOK
      <4> QED  BY <3>1, <4>2, <4>4 DEF Held
    <3> QED  BY <3>1, <3>2 DEF Kept, Aliased
  <2> QED  BY <2>1, <2>2
<1>11. ASSUME NEW p \in Paths, OtherWrites(p) PROVE Kept'
  <2>1. /\ \A q \in Paths \ {p} : disk'[q] = disk[q]
        /\ raced \subseteq raced' /\ (p \in StagedPaths \/ result = "ok" => p \in raced')
        /\ UNCHANGED <<pc, call, at, staged, result, calls, faults>>
    BY <1>0, <1>11, OthersEffect
  <2>2. ASSUME NEW k \in 1 .. Len(staged), k \in DOMAIN call, call[k].path \in raced \/ Held(k)
        PROVE  call[k].path \in raced' \/ Held(k)'
    <3>1. call[k].path \in StagedPaths  BY <2>2 DEF StagedPaths
    <3>2. call[k].path \in Paths
      <4>1. call # <<>>  BY <2>2
      <4> QED  BY <1>1, <2>2, <4>1, EditShape
    <3>3. CASE call[k].path = p  BY <2>1, <3>1, <3>3
    <3>4. CASE call[k].path # p  BY <2>1, <2>2, <3>2, <3>4 DEF Held
    <3> QED  BY <3>3, <3>4
  <2>3. pc = "prepare" => \A k \in 1 .. Len(staged) : k \in DOMAIN call
    BY <1>0, <1>1 DEF Where, Running
  <2>4. pc = "rename" => \A k \in DOMAIN call : k \in 1 .. Len(staged)
    BY <1>0, <1>1 DEF Where, Running
  <2>5. pc = "prepare" => \A k \in 1 .. Len(staged) : call[k].path \in raced' \/ Held(k)'
    BY <1>0, <2>2, <2>3 DEF Kept
  <2>6. pc = "rename" /\ ~Aliased =>
          \A k \in DOMAIN call : k >= at => call[k].path \in raced' \/ Held(k)'
    BY <1>0, <2>2, <2>4 DEF Kept
  <2> QED  BY <2>1, <2>5, <2>6 DEF Kept, Aliased
<1> QED
  BY <1>3, <1>4, <1>5, <1>6, <1>7, <1>8, <1>9, <1>10, <1>11
  DEF Next, Preview, Applying, Tell, Approve, Dispatch, RunParked

-----------------------------------------------------------------------------
\* The invariant is inductive.
THEOREM Invariance == Spec => []IInv
<1>1. Init => IInv  BY InitHolds
<1>2. IInv /\ [Next]_vars => IInv'
  BY TypesKept, WhereKept, LitterKept, MarksKept, ProgressKept, KeptKept, CoveredKept DEF IInv
<1> QED  BY <1>1, <1>2, PTL DEF Spec

\* The variables keep their types: whatever fails, the tmp files do not outnumber
\* the edits of one call and what each fault can leave.
THEOREM TypeCorrect == Spec => []TypeOK
<1>1. IInv => TypeOK  BY DEF IInv
<1> QED  BY <1>1, Invariance, PTL

\* A patch that is reported applied is on disk with all its edits, one that failed
\* with none and without tmp files, unless a write or the process failed, and then
\* with the edits before the failure (apply_patch).
THEOREM Atomic == Spec => []PatchIsAtomic
<1>1. IInv => AllOrNothing
  <2> SUFFICES ASSUME IInv, ~Aliased
               PROVE  /\ result = "ok" => \A k \in DOMAIN call : There(k)
                      /\ (result = "error" /\ faults = 0) \/ pc \in {"preview", "prepare"} =>
                           \A k \in DOMAIN call : ~OnDisk(k)
                      /\ \A k \in DOMAIN call : OnDisk(k) => \A j \in 1 .. k - 1 : There(j)
    BY DEF AllOrNothing, There
  <2>0. TypeOK /\ Where /\ Progress  BY DEF IInv
  <2>1. call # <<>> => call \in Call /\ Len(call) \in {1, 2} /\ DOMAIN call = 1 .. Len(call)
    BY <2>0, CallFacts
  <2>2. ASSUME NEW k \in DOMAIN call, Nowhere(k) PROVE ~OnDisk(k)
    <3>1. call # <<>>  BY <2>2
    <3>2. call[k].path \in Paths  BY <2>1, <3>1, EditShape
    <3> QED  BY <2>2, <3>2 DEF Nowhere, OnDisk
  <2>3. pc \in Running => result = "none"  BY <2>0 DEF Where
  <2>4. pc \notin Running => pc \in {"idle", "off"}  BY <2>0 DEF TypeOK, Running
  <2>5. result = "ok" => \A k \in DOMAIN call : There(k)  BY <2>0, <2>3, <2>4 DEF Progress
  <2>6. (result = "error" /\ faults = 0) \/ pc \in {"preview", "prepare"} =>
          \A k \in DOMAIN call : ~OnDisk(k)
    BY <2>0, <2>2, <2>3, <2>4 DEF Progress
  <2>7. ASSUME NEW k \in DOMAIN call, OnDisk(k), NEW j \in 1 .. k - 1 PROVE There(j)
    <3>1. call # <<>>  BY <2>7
    <3>2. j \in DOMAIN call /\ k = 2 /\ Len(call) = 2 /\ j = 1  BY <2>1, <2>7, <3>1
    <3>3. CASE pc \in {"preview", "prepare"}  BY <2>6, <2>7, <3>3
    <3>4. CASE pc = "rename"
      <4>1. k < at  BY <2>0, <2>2, <2>7, <3>4 DEF Progress
      <4>2. j < at  BY <2>0, <3>2, <4>1 DEF TypeOK
      <4> QED  BY <2>0, <3>2, <3>4, <4>2 DEF Progress
    <3>5. CASE pc \in {"idle", "off"}  BY <2>0, <2>2, <2>5, <2>7, <3>1, <3>2, <3>5 DEF Progress
    <3> QED  BY <2>4, <3>3, <3>4, <3>5 DEF Running
  <2> QED  BY <2>5, <2>6, <2>7
<1>2. IInv => NoLitter
  <2> SUFFICES ASSUME IInv, faults = 0, pc \in {"off", "idle"} PROVE tmps = 0  BY DEF NoLitter
  <2>1. InFlight = 0  BY DEF InFlight
  <2> QED  BY <2>1 DEF IInv, Litter
<1> QED  BY <1>1, <1>2, Invariance, PTL DEF PatchIsAtomic

\* Only a rename of the running call changes a file.
LEMMA OnlyRenames ==
  ASSUME IInv, [Next]_vars, disk' # disk, others' = others
  PROVE  /\ pc = "rename" /\ call # <<>> /\ at \in DOMAIN call /\ call[at].path \in Paths
         /\ disk' = [disk EXCEPT ![call[at].path] = staged[at]]
<1>1. ASSUME NEW q, Invoke(q) PROVE FALSE  BY <1>1 DEF Invoke
<1>2. ASSUME NEW c, Begin(c) PROVE FALSE  BY <1>2 DEF Begin
<1>3. CASE ClearPending \/ Exit \/ Crash  BY <1>3 DEF ClearPending, Exit, Crash
<1>4. CASE Preview
  BY <1>4 DEF Preview, PreviewEdit, PreviewFails, ApplyPreviewed, Apply, LeaveUnanswered, Park
<1>5. CASE StageEdit \/ StageFails \/ TmpFails \/ RenameFails
  BY <1>5 DEF StageEdit, Stage, StageFails, TmpFails, RenameFails
<1>6. CASE RenameNext
  <2>1. TypeOK /\ Where  BY DEF IInv
  <2>2. pc = "rename" /\ call # <<>> /\ at \in 1 .. Len(call)
    BY <1>6, <2>1 DEF RenameNext, Where, Running
  <2>3. call \in Call /\ at \in DOMAIN call  BY <2>1, <2>2, CallFacts
  <2>4. call[at].path \in Paths  BY <2>3, EditShape
  <2> QED  BY <1>6, <2>2, <2>3, <2>4 DEF RenameNext
<1>7. ASSUME NEW p \in Paths, OtherWrites(p) PROVE FALSE
  BY <1>7, PatchAssumption DEF OtherWrites, IInv, TypeOK
<1>8. CASE UNCHANGED vars  BY <1>8 DEF vars
<1> QED
  BY <1>1, <1>2, <1>3, <1>4, <1>5, <1>6, <1>7, <1>8
  DEF Next, Applying, Tell, Approve, Dispatch, RunParked

\* What somebody else wrote before phase 1 read the target survives the patch
\* (recheck_unchanged).
THEOREM ChangesSurvive == Spec => OthersKept
<1>1. ASSUME IInv, [Next]_vars, disk' # disk, others' = others
      PROVE  \/ call[at].path \in raced \/ Aliased
             \/ {m \in disk[call[at].path].has : m[1] = 0} \subseteq disk'[call[at].path].has
  <2>1. /\ pc = "rename" /\ at \in DOMAIN call /\ call[at].path \in Paths
        /\ disk' = [disk EXCEPT ![call[at].path] = staged[at]]
    BY <1>1, OnlyRenames
  <2>2. disk'[call[at].path] = staged[at]  BY <1>1, <2>1 DEF IInv, TypeOK
  <2>3. at >= at  BY <1>1 DEF IInv, TypeOK
  <2> QED  BY <1>1, <2>1, <2>2, <2>3 DEF IInv, Kept, Held
<1> QED  BY <1>1, Invariance, PTL DEF Spec, OthersKept

\* Nothing is written against a rule, and nothing without the human that no rule
\* allows and git cannot restore (check_patch_write, patch_write_verdict).
THEOREM OnlyWhereAllowed == Spec => WritesAreCovered
<1>1. ASSUME IInv, [Next]_vars, disk' # disk, others' = others
      PROVE  /\ rule[call[at].path] # "deny" /\ zone[call[at].path] # "critical"
             /\ ~approved =>
                  /\ parked = <<>>
                  /\ \/ rule[call[at].path] = "allow"
                     \/ call[at].op = "update" /\ call[at].path \in start \cup wrote
  <2>1. pc = "rename" /\ at \in DOMAIN call  BY <1>1, OnlyRenames
  <2> QED  BY <1>1, <2>1 DEF IInv, Covered, Permitted, Backed
<1> QED  BY <1>1, Invariance, PTL DEF Spec, WritesAreCovered

=============================================================================
