--------------------------- MODULE ConversationLog ---------------------------
(***************************************************************************)
(* conversation.jsonl as a file: lines appended through the handle         *)
(* Session::open took, read back through the path, summarised by a cutoff  *)
(* time stamp, and halved by a rename once it is too large.  TellLoop      *)
(* takes this file for a list of records of which the newest summary       *)
(* covers a prefix, which is SummarisedList; ListSpec below says when that *)
(* is what the code reads back.                                            *)
(*                                                                         *)
(* A message record is a line with a kind, the stamp it was written with   *)
(* and a number in order of appending.  A summary line has the stamp of    *)
(* the last record it folds and, for its text, the set of records that     *)
(* went into it.  "other" stands for the records no reader here looks at   *)
(* (invocations, approvals, metrics), "torn" for a fragment without its    *)
(* newline, "bad" for a line that does not parse.                          *)
(***************************************************************************)
EXTENDS Naturals, Sequences, FiniteSets, SequencesExt, FiniteSetsExt

CONSTANTS
  MaxRecords,  \* bound: message records appended over the whole session
  MaxTime,     \* bound: the clock, in milliseconds
  MaxOpens,    \* bound: invocations
  MaxFolds,    \* bound: summaries written
  MaxPrunes,   \* bound: prunes of the file
  MaxTorn      \* bound: writes that stop half-way

ASSUME LogAssumption ==
  /\ MaxRecords \in Nat /\ MaxTime \in Nat /\ MaxOpens \in Nat
  /\ MaxFolds \in Nat /\ MaxPrunes \in Nat /\ MaxTorn \in Nat

\* A message: of the user, of the assistant (an answer, calls, calls with a
\* text), of a tool.
Kind == {"user", "answer", "calls", "talk", "tool"}
Message == [kind : Kind, ts : 0 .. MaxTime, id : 1 .. MaxRecords]
Summary == [kind : {"summary"}, cutoff : 0 .. MaxTime, covers : SUBSET (1 .. MaxRecords)]
Line == Message \cup Summary \cup [kind : {"other", "torn", "bad"}]

VARIABLES
  file,      \* the lines of the file at the path
  attached,  \* is the writer's handle still that file?
  now,       \* the clock
  pc,        \* "closed", "prune", "fold", "load" or "run"
  mem,       \* the messages of the running invocation, the newest summary aside
  told,      \* the records its summary covers
  appended,  \* history: message records whose append returned Ok
  steady,    \* history: stamps never fell and rose before every possible cut
  opens, folds, prunes, torn  \* history: counted for the bounds

vars == <<file, attached, now, pc, mem, told, appended, steady, opens, folds, prunes, torn>>

-----------------------------------------------------------------------------
(***************************************************************************)
(* Reading: every reader walks the whole file and gives up at a line that  *)
(* does not parse.                                                         *)
(***************************************************************************)
Readable == \A i \in DOMAIN file : file[i].kind \notin {"torn", "bad"}
IsSummary(l) == l.kind = "summary"

\* The lines of l that are in ok (a filter by a set, which can be proved about).
Picked(l, ok) ==
  LET f[n \in 0 .. Len(l)] ==
        IF n = 0 THEN <<>> ELSE IF l[n] \in ok THEN Append(f[n - 1], l[n]) ELSE f[n - 1]
  IN  f[Len(l)]

\* latest_summary: the last in the file, whatever its cutoff.
Latest(l) == {i \in DOMAIN l : IsSummary(l[i]) /\ \A j \in DOMAIN l : j > i => ~IsSummary(l[j])}
Covered(l) == UNION {l[i].covers : i \in Latest(l)}

\* read_chat_message_with_ts: behind the largest cutoff of all summaries.
Newer(l, m) == \A i \in DOMAIN l : IsSummary(l[i]) => m.ts > l[i].cutoff
\* Mutant: the record at the cutoff is sent again.
ReplayFromCutoff(l) ==
  Picked(l, {m \in Message : \A i \in DOMAIN l : IsSummary(l[i]) => m.ts >= l[i].cutoff})
Replay(l) == Picked(l, {m \in Message : Newer(l, m)})

-----------------------------------------------------------------------------
(***************************************************************************)
(* Writing: a line goes to the handle, and joins a fragment that stands at *)
(* the end of it.                                                          *)
(***************************************************************************)
Bad == [kind |-> "bad"]
Torn == [kind |-> "torn"]
Other == [kind |-> "other"]

Put(l, x) ==
  IF l # <<>> /\ Last(l).kind = "torn" THEN Append(Front(l), Bad) ELSE Append(l, x)
Write(x) == file' = IF attached THEN Put(file, x) ELSE file

Init ==
  /\ file = <<>> /\ attached = FALSE /\ now = 0 /\ pc = "closed"
  /\ mem = <<>> /\ told = {} /\ appended = <<>> /\ steady = TRUE
  /\ opens = 0 /\ folds = 0 /\ prunes = 0 /\ torn = 0

\* The wall clock (now_unix_millis) moves on, or is set back.  It is read where
\* records are appended, so only there does it matter when it moves.
Tick == /\ pc = "run" /\ now' \in {t \in 0 .. MaxTime : t = now + 1 \/ t + 1 = now}
        /\ UNCHANGED <<file, attached, pc, mem, told, appended, steady, opens, folds, prunes, torn>>

\* Session::open and the invocation_start record; tell prunes and compacts.
Open(next) ==
  /\ pc = "closed" /\ opens < MaxOpens
  /\ attached' = TRUE
  /\ file' = Put(file, Other)
  /\ pc' = next
  /\ opens' = opens + 1
  /\ UNCHANGED <<now, mem, told, appended, steady, folds, prunes, torn>>
Tell == Open("prune")
Approve == Open("load")

Close ==
  /\ pc # "closed"
  /\ pc' = "closed" /\ attached' = FALSE /\ mem' = <<>> /\ told' = {}

-----------------------------------------------------------------------------
(***************************************************************************)
(* maybe_prune_conversation: past the size limit, cut at the first safe    *)
(* line at or behind the middle, and rename the rest over the path.  Where *)
(* the middle falls depends on the lengths of the lines: anywhere behind   *)
(* the first.                                                              *)
(***************************************************************************)
PruneSafe(l) == l.kind \in {"user", "answer", "talk"}
PruneCuts ==
  {i \in 2 .. Len(file) : PruneSafe(file[i])}

SkipPrune ==
  /\ pc = "prune" /\ pc' = "fold"
  /\ UNCHANGED <<file, attached, now, mem, told, appended, steady, opens, folds, prunes, torn>>
Prune ==
  /\ pc = "prune" /\ prunes < MaxPrunes
  /\ \E i \in PruneCuts : file' = SubSeq(file, i, Len(file))
  /\ attached' = FALSE
  /\ prunes' = prunes + 1
  /\ pc' = "fold"
  /\ UNCHANGED <<now, mem, told, appended, steady, opens, folds, torn>>

-----------------------------------------------------------------------------
(***************************************************************************)
(* try_auto_compact: fold the records before a safe one, or all of them,   *)
(* together with the summary so far.  The summariser is a model call, which *)
(* takes longer than the millisecond a stamp tells.                        *)
(***************************************************************************)
\* Mutant: only an assistant that waits for its tools must not be cut at.
SafeUnlessCalls(m) == m.kind \notin {"calls", "talk"}
SafeBoundary(m) == m.kind \in {"user", "answer"}
Cutoffs(r) == {i \in 2 .. Len(r) : SafeBoundary(r[i])}
              \cup (IF r = <<>> THEN {} ELSE {Len(r) + 1})

\* Mutant: the summariser is not given the summary so far.
SummaryOfTail(l, r, keep) ==
  [kind |-> "summary", cutoff |-> r[keep - 1].ts, covers |-> {r[i].id : i \in 1 .. keep - 1}]
SummaryOf(l, r, keep) ==
  [kind |-> "summary", cutoff |-> r[keep - 1].ts,
   covers |-> Covered(l) \cup {r[i].id : i \in 1 .. keep - 1}]

SkipFold ==
  /\ pc = "fold" /\ Readable /\ pc' = "load"
  /\ UNCHANGED <<file, attached, now, mem, told, appended, steady, opens, folds, prunes, torn>>
Fold ==
  /\ pc = "fold" /\ Readable /\ folds < MaxFolds /\ now < MaxTime
  /\ \E keep \in Cutoffs(Replay(file)) : Write(SummaryOf(file, Replay(file), keep))
  /\ folds' = folds + 1 /\ now' = now + 1
  /\ pc' = "load"
  /\ UNCHANGED <<attached, mem, told, appended, steady, opens, prunes, torn>>
\* The write fails half-way; compaction is given up and the prompt goes on.
FoldTorn ==
  /\ pc = "fold" /\ Readable /\ torn < MaxTorn /\ Cutoffs(Replay(file)) # {}
  /\ Write(Torn)
  /\ torn' = torn + 1
  /\ pc' = "load"
  /\ UNCHANGED <<attached, now, mem, told, appended, steady, opens, folds, prunes>>

-----------------------------------------------------------------------------
\* build_initial_messages: the newest summary, then the records behind it.
Load ==
  /\ pc = "load" /\ Readable
  /\ told' = Covered(file) /\ mem' = Replay(file)
  /\ pc' = "run"
  /\ UNCHANGED <<file, attached, now, appended, steady, opens, folds, prunes, torn>>
\* A malformed line ends the invocation, with an invocation_end record.
Unreadable ==
  /\ pc \in {"fold", "load"} /\ ~Readable
  /\ Write(Other) /\ Close
  /\ UNCHANGED <<now, appended, steady, opens, folds, prunes, torn>>

\* What drive appends next: tool records answer the calls before them; between
\* two records of the user there is at least one model call that failed.
Follows(k) ==
  /\ k = "tool" => mem # <<>> /\ Last(mem).kind \in {"calls", "talk", "tool"}
  /\ k = "user" /\ mem # <<>> => Last(mem).kind # "user" \/ Last(mem).ts # now

\* An assistant record waits for a model call, so it is a millisecond later at
\* least; a tool's or a user's record may share the stamp of the one before.
Stamped(k) == now' = IF k \in {"answer", "calls", "talk"} THEN now + 1 ELSE now
\* Can the stamps tell this record from what a cut before it folds?
SteadyAt(k, t) ==
  \A i \in DOMAIN appended :
    IF SafeBoundary([kind |-> k]) \/ mem = <<>> THEN appended[i].ts < t ELSE appended[i].ts <= t

AppendRecord(k) ==
  /\ pc = "run" /\ Len(appended) < MaxRecords /\ Follows(k)
  /\ Stamped(k) /\ now' <= MaxTime
  /\ LET m == [kind |-> k, ts |-> now', id |-> Len(appended) + 1] IN
     /\ Write(m)
     /\ appended' = Append(appended, m)
     /\ mem' = Append(mem, m)
  /\ steady' = (steady /\ SteadyAt(k, now'))
  /\ UNCHANGED <<attached, pc, told, opens, folds, prunes, torn>>

\* A write that stops half-way (the disk is full, the process is killed) ends
\* the invocation.
AppendTorn ==
  /\ pc = "run" /\ torn < MaxTorn
  /\ Write(Torn) /\ Close
  /\ torn' = torn + 1
  /\ UNCHANGED <<now, appended, steady, opens, folds, prunes>>

\* The invocation ends or is killed; an end record says nothing to a reader here.
Exit ==
  /\ Close
  /\ UNCHANGED <<file, now, appended, steady, opens, folds, prunes, torn>>

Compaction == SkipPrune \/ Prune \/ SkipFold \/ Fold \/ FoldTorn
Next ==
  \/ Tick \/ Tell \/ Approve \/ Compaction \/ Load \/ Unreadable
  \/ (\E k \in Kind : AppendRecord(k)) \/ AppendTorn \/ Exit

Spec == Init /\ [][Next]_vars

-----------------------------------------------------------------------------
\* Types; what a running invocation holds in memory are message records.
TypeOK ==
  /\ file \in Seq(Line) /\ mem \in Seq(Message) /\ appended \in Seq(Message)
  /\ attached \in BOOLEAN /\ steady \in BOOLEAN
  /\ now \in 0 .. MaxTime /\ pc \in {"closed", "prune", "fold", "load", "run"}
  /\ told \subseteq 1 .. MaxRecords
  /\ opens \in 0 .. MaxOpens /\ folds \in 0 .. MaxFolds
  /\ prunes \in 0 .. MaxPrunes /\ torn \in 0 .. MaxTorn

\* The list TellLoop works with: of all records ever appended a summary covers a
\* prefix, which only grows and ends where a rest may begin, and an invocation holds
\* what it covers and the rest, however many summaries, crashes and torn writes there
\* were.  This ends with a pruning, and with a stamp that cannot tell a cut apart.
List == INSTANCE SummarisedList WITH
  Record <- Message, Boundary <- {m \in Message : SafeBoundary(m)},
  records <- appended, covered <- Cardinality(Covered(file)),
  running <- pc = "run", told <- IF pc = "run" THEN told ELSE {},
  rest <- IF pc = "run" THEN mem ELSE <<>>, exact <- steady /\ prunes = 0
ListSpec == List!Spec

\* Neither the compaction's cut nor the pruning's separates a tool record from
\* the assistant it answers: in what is sent a tool record never comes first
\* nor behind anything but the calls and their other answers.
PairsUnsplit ==
  pc = "run" /\ steady =>
    \A i \in DOMAIN mem : mem[i].kind = "tool" =>
      i > 1 /\ mem[i - 1].kind \in {"calls", "talk", "tool"}

\* Summaries are cumulative (compaction.md: "the newest one already stands for
\* everything"): except by pruning, the newest never covers less than before.
SummariesGrow == [][prunes' = prunes => Covered(file) \subseteq Covered(file')]_vars

\* Session::append: "Append a record to `conversation.jsonl` and flush."  The
\* record an invocation appended last is in the file at that path.
AppendReachesFile ==
  (pc = "run" /\ torn = 0 /\ mem # <<>> /\ Last(mem) = Last(appended)) =>
    \E i \in DOMAIN file : file[i] = Last(mem)
=============================================================================
