----------------------------- MODULE ReadTools -----------------------------
(***************************************************************************)
(* The read-only tools list, search and read, the git commands that run    *)
(* unasked, and the approval of a read outside the workspace: what they    *)
(* answer while other programs change the tree, and how far they reach.    *)
(*                                                                         *)
(* A place is a path without symlinks, the first component telling inside  *)
(* from outside.  One symlink, LinkAt, may be in a path; it is pointed to  *)
(* another place at any time.  A directory may turn into a symlink at any  *)
(* time too, also one that a walk has queued; names below it then lead     *)
(* elsewhere.  A step of a walk is one directory or file.                  *)
(***************************************************************************)
EXTENDS Naturals, FiniteSets, SafeCommand

CONSTANTS
  Sorted,     \* all places, in the order of PathBuf
  Kind,       \* per place: "dir", "shut" (an unreadable directory), "text", "link" or
              \* "blob" (binary, not UTF-8 or unreadable)
  Hits,       \* per file: the lines of it that contain the pattern
  Hidden,     \* places whose own name begins with a dot
  Root,       \* the workspace
  LinkAt,     \* the symlink
  Targets,    \* where it may point
  Turning,    \* directories that may be replaced by a symlink
  LeadsTo,    \* where such a symlink leads
  Loose,      \* places that come and go
  Absent,     \* sets of them that may not exist at first
  RuleSets,   \* the paths of the read rules a session may start with
  Calls,      \* list, search and read calls of the model
  Commands,   \* argument vectors of the model
  Texts,      \* contents of files: "a", "n" (newline), "0" (NUL), "h" and "t" (one character)
  Ranges,     \* line_range arguments; <<>> is none
  ReadMax,    \* READ_MAX_BYTES
  MaxEdits,   \* bound: changes of the tree
  MaxFaults   \* bound: crashes

Places == ToSet(Sorted)
\* What the argument vectors of the model are made of.
Tokens == UNION {ToSet(argv) : argv \in Commands}
ASSUME ReadToolsAssumption ==
  /\ Sorted \in Seq(Places) /\ \A p \in Places : p \in Seq(ToSet(p)) /\ Hits[p] \in Seq(Nat)
  /\ \A c \in Calls : /\ c.op \in {"list", "search", "read"} /\ c.path \in Seq(ToSet(c.path))
                      /\ IF c.op = "read" THEN c.range \in Ranges ELSE c.cap \in Nat
  /\ Ranges \subseteq {<<>>} \cup (Nat \X Nat) /\ \A s \in Texts : s \in Seq(ToSet(s))
  /\ \A argv \in Commands : argv \in Seq(Tokens)
  /\ Root \in Places /\ LinkAt \in Places /\ Loose \subseteq Places
  /\ \A gone \in Absent : \A p \in Places \ gone : Len(p) > 1 => Front(p) \notin gone
  /\ \A p \in Places : Kind[p] = "link" <=> p = LinkAt
  /\ ReadMax \in Nat \ {0} /\ MaxEdits \in Nat /\ MaxFaults \in Nat

\* The places are a tree: a place in a place is in a directory.  In their order
\* those below a place come right behind it; matches are counted off by lines.
ASSUME TreeAssumption ==
  /\ <<>> \notin Places
  /\ \A p \in Places : Len(p) > 1 => Front(p) \in Places /\ Kind[Front(p)] \in {"dir", "shut"}
  /\ \A i, j, k \in DOMAIN Sorted : IsPrefix(Sorted[i], Sorted[k]) =>
       i <= k /\ (i <= j /\ j <= k => IsPrefix(Sorted[i], Sorted[j]))
  /\ \A p \in Places : \A i, j \in DOMAIN Hits[p] : i < j => Hits[p][i] < Hits[p][j]

Under(dir, p) == IsPrefix(dir, p)
\* A path below one place, read as the same path below another.
Moved(from, to, p) == to \o SubSeq(p, Len(from) + 1, Len(p))

\* Nothing is below a symlink.  Where a symlink leads there is no other on the
\* way, save that LinkAt may lead to or below a directory that has turned; a name
\* that leads through a directory that has turned is the name of a place.
ASSUME LinkAssumption ==
  /\ \A p \in Places : Under(LinkAt, p) => p = LinkAt
  /\ Turning \subseteq {p \in Places : Kind[p] = "dir"} /\ LeadsTo \in Places
  /\ \A p \in Turning \cup {LinkAt} : ~Under(p, LeadsTo) /\ ~Under(LeadsTo, p)
  /\ \A p \in Targets : p \in Seq(ToSet(p)) /\ ~Under(LinkAt, p) /\ ~Under(p, LinkAt)
  /\ \A d \in Turning : \A p \in Places : Under(LeadsTo, p) => Moved(LeadsTo, d, p) \in Places

VARIABLES
  present,   \* the places that exist
  turned,    \* those of them that have turned into a symlink to LeadsTo
  target,    \* where the symlink points
  rules,     \* paths of the allowing read rules on file
  parked,    \* the read call in pending.json: {} or {call}
  pc,        \* "off", "idle", "approved", "walk", "answered" or "granting"
  roots,     \* extra_read_roots of the executor
  intent,    \* the path an approve will grant: {} or {place}
  cur,       \* the call that is carried out
  approved,  \* whether the human approved it
  base,      \* the place it resolved to
  stack,     \* directories and files yet to visit
  out,       \* entries or matches so far
  answer,    \* what the call answered
  steady,    \* history: places that stood all through the walk
  seen,      \* history: places that stood at some time of the walk
  denoted,   \* history: the symlinks there were, each with where it pointed
  swapped,   \* history: the directories that turned while the call had something to open there
  edits, faults  \* history: counted for the bounds

tree == <<present, turned, target>>
files == <<tree, rules, parked>>
call == <<cur, approved, base, stack, out, answer>>
history == <<steady, seen, denoted, swapped, edits, faults>>
vars == <<files, pc, roots, intent, call, history>>

-----------------------------------------------------------------------------
(***************************************************************************)
(* Paths.                                                                  *)
(***************************************************************************)
\* LinkAt is followed first: it may lead into a directory that has turned.
Canon(p) ==
  LET q == IF Under(LinkAt, p) /\ LinkAt \in present THEN Moved(LinkAt, target, p) ELSE p
      crossed == {d \in turned : Under(d, q)}
  IN  IF crossed = {} THEN q ELSE Moved(CHOOSE d \in crossed : TRUE, LeadsTo, q)
Exists(p) == Canon(p) \in present
\* symlink_metadata: a symlink at the end of the path is not followed.
Lstat(p) == Append(Canon(Front(p)), Last(p))
There(p) == Lstat(p) \in present
Within(granted, p) == \E r \in granted \cup {Root} : Under(r, p)
\* A rule whose path does not exist is skipped.
RootsOf(paths) == {Canon(p) : p \in {q \in paths : Exists(q)}}
\* Mutant: an approved read widens the roots of the executor itself.
RootsKeepExtra(extra) == roots \cup extra
RootsAfter(extra) == roots

\* An entry that read_dir of dir finds, by the name it gives it.
IsChild(dir, p) == Len(p) = Len(dir) + 1 /\ Under(dir, p) /\ There(p)
\* The members of s that are in ok, in their order.
Picked(s, ok) ==
  LET f[n \in 0 .. Len(s)] ==
        IF n = 0 THEN <<>> ELSE IF s[n] \in ok THEN Append(f[n - 1], s[n]) ELSE f[n - 1]
  IN  f[Len(s)]
Children(dir, hidden) == Picked(Sorted, {p \in Places : IsChild(dir, p) /\ (hidden \/ p \notin Hidden)})
\* Mutant: an entry is taken for what it leads to.
LeadsToDir(p) == There(p) /\ Kind[Lstat(p)] \in {"dir", "shut"}
\* The type of an entry, which follows no symlink.
IsDir(p) == There(p) /\ Lstat(p) \notin turned /\ Kind[Lstat(p)] \in {"dir", "shut"}

(***************************************************************************)
(* One visit of walk_list and of walk_search: the entries it adds and the  *)
(* places it pushes, or that it fails.                                     *)
(***************************************************************************)
Visit(adds, pushes) == [ok |-> TRUE, adds |-> adds, pushes |-> pushes]
Failed == [ok |-> FALSE, adds |-> <<>>, pushes |-> <<>>]

\* read_dir follows a symlink, also one that was a directory when it was queued.
ListVisit(p) ==
  IF Canon(p) \notin present \/ Kind[Canon(p)] # "dir" THEN Failed
  ELSE Visit(Children(p, cur.hidden),
             IF cur.recursive THEN Picked(Children(p, cur.hidden), {q \in Places : IsDir(q)}) ELSE <<>>)
\* A file is looked into where it lies, and named as it was found.
MatchesIn(p) ==
  LET q == Lstat(p) IN IF Kind[q] = "text" THEN [i \in DOMAIN Hits[q] |-> <<p, Hits[q][i]>>] ELSE <<>>
SearchVisit(p) ==
  IF ~There(p) \/ Lstat(p) \in turned THEN Visit(<<>>, <<>>)
  ELSE IF Kind[Lstat(p)] = "dir" THEN Visit(<<>>, Reverse(Children(p, FALSE)))
  ELSE Visit(MatchesIn(p), <<>>)
VisitOf(p) == IF cur.op = "list" THEN ListVisit(p) ELSE SearchVisit(p)

\* Mutant: of the directories found only the last is descended into.
StackOfLast(pushes) == IF pushes = <<>> THEN Front(stack) ELSE <<Last(pushes)>>
StackAfter(pushes) == Front(stack) \o pushes

(***************************************************************************)
(* execute_read: the first ReadMax bytes of a file, and lines of them.     *)
(***************************************************************************)
AtMost(m, n) == IF m < n THEN m ELSE n
Utf8(s) == \A i \in DOMAIN s : /\ s[i] = "h" => i < Len(s) /\ s[i + 1] = "t"
                               /\ s[i] = "t" => i > 1 /\ s[i - 1] = "h"
IsText(s) == Utf8(s) /\ "0" \notin ToSet(s)
\* split_inclusive('\n')
Split(s) ==
  LET lines[n \in 0 .. Len(s)] ==
        IF n = 0 THEN <<>>
        ELSE IF n = 1 \/ s[n - 1] = "n" THEN Append(lines[n - 1], <<s[n]>>)
        ELSE [lines[n - 1] EXCEPT ![Len(lines[n - 1])] = Append(@, s[n])]
  IN  lines[Len(s)]
Window(s) == SubSeq(s, 1, AtMost(Len(s), ReadMax))
Cut(s, range) == Len(s) > ReadMax \/ (range # <<>> /\ Len(s) = ReadMax)
Slice(s, range) ==
  LET lines == Split(Window(s))
  IN  IF range = <<>> THEN FlattenSeq(lines)
      ELSE FlattenSeq(SubSeq(lines, range[1], AtMost(range[2], Len(lines))))
LastLine(s, range) ==
  LET n == Len(Split(Window(s)))
  IN  IF range = <<>> THEN IF n = 0 THEN 1 ELSE n
      ELSE IF n < range[1] THEN range[1] - 1 ELSE AtMost(range[2], n)
RangeOk(range) == range # <<>> => range[1] # 0 /\ range[1] <= range[2]

NoCall == [op |-> "none"]
NoAnswer == [result |-> "none"]
Walked(truncated) == [result |-> "ok", truncated |-> truncated]
Error(e) == [result |-> e]
ReadAnswer(s, range) ==
  IF "0" \in ToSet(Window(s)) THEN Error("binary")
  ELSE IF ~Utf8(Window(s)) THEN Error("not_utf8")
  ELSE IF ~RangeOk(range) THEN Error("arguments")
  ELSE [result |-> "ok", truncated |-> Cut(s, range), of |-> s, range |-> range,
        content |-> Slice(s, range), last |-> LastLine(s, range)]

Init ==
  /\ present \in {Places \ gone : gone \in Absent} /\ turned = {} /\ target \in Targets /\ rules \in RuleSets
  /\ parked = {} /\ pc = "off" /\ roots = {} /\ intent = {}
  /\ cur = NoCall /\ approved = FALSE /\ base = <<>> /\ stack = <<>> /\ out = <<>> /\ answer = NoAnswer
  /\ steady = {} /\ seen = {} /\ denoted = {<<LinkAt, target>>} /\ swapped = {} /\ edits = 0 /\ faults = 0

-----------------------------------------------------------------------------
(***************************************************************************)
(* tell and approve.                                                       *)
(***************************************************************************)
\* A prompt cancels what is parked.
Tell ==
  /\ pc = "off" /\ pc' = "idle"
  /\ roots' = RootsOf(rules) /\ parked' = {}
  /\ UNCHANGED <<tree, rules, intent, call, history>>
Exit ==
  /\ pc = "idle" /\ pc' = "off" /\ roots' = {}
  /\ UNCHANGED <<files, intent, call, history>>

\* plan_grant resolves the path before the call runs, and refuses one that does
\* not exist.
Approve(persist) ==
  /\ pc = "off" /\ parked # {} /\ pc' = "approved"
  /\ roots' = RootsOf(rules)
  /\ \E c \in parked : /\ persist => Exists(c.path)
                       /\ intent' = IF persist THEN {Canon(c.path)} ELSE {}
  /\ UNCHANGED <<files, call, history>>

\* resolve_within_any has accepted the place.
Begin(c, byHuman) ==
  /\ pc' = "walk" /\ cur' = c /\ approved' = byHuman
  /\ base' = Canon(c.path) /\ stack' = <<Canon(c.path)>> /\ out' = <<>> /\ answer' = NoAnswer
  /\ steady' = present /\ seen' = {q \in Places : There(q)} /\ swapped' = {}
Missing(c, byHuman) ==
  /\ ~Exists(c.path) /\ pc' = "answered" /\ cur' = c /\ approved' = byHuman /\ answer' = Error("io")
  /\ UNCHANGED <<base, stack, out, steady, seen, swapped>>

Call(c) ==
  /\ pc = "idle"
  /\ \/ Exists(c.path) /\ Within(roots, Canon(c.path)) /\ Begin(c, FALSE)
     \/ Missing(c, FALSE)
  /\ UNCHANGED <<files, roots, intent, denoted, edits, faults>>
\* Outside every root: the invocation ends and the call waits for the human.
Park(c) ==
  /\ pc = "idle" /\ Exists(c.path) /\ ~Within(roots, Canon(c.path))
  /\ pc' = "off" /\ parked' = {c} /\ roots' = {}
  /\ UNCHANGED <<tree, rules, intent, call, history>>

\* execute_pending: the path is resolved anew and is a root for this call.
ExecutePending ==
  /\ pc = "approved"
  /\ \E c \in parked : \/ /\ Exists(c.path) /\ Begin(c, TRUE)
                          /\ roots' = RootsAfter({Canon(c.path)})
                       \/ Missing(c, TRUE) /\ UNCHANGED roots
  /\ UNCHANGED <<files, intent, denoted, edits, faults>>

\* apply_grant, which may fail, and the reload behind it.
Grant ==
  /\ pc = "granting" /\ pc' = "idle" /\ intent' = {}
  /\ rules' \in {rules, rules \cup intent}
  /\ roots' = RootsOf(rules')
  /\ UNCHANGED <<tree, parked, call, history>>

-----------------------------------------------------------------------------
(***************************************************************************)
(* Carrying out a call.                                                    *)
(***************************************************************************)
Answers(a) ==
  /\ pc' = "answered" /\ answer' = a
  /\ UNCHANGED <<files, roots, intent, cur, approved, base, history>>
\* The cap is looked at behind each entry, so there is always room for one.
Room == IF cur.cap > Len(out) THEN cur.cap - Len(out) ELSE 1

WalkFails ==
  /\ pc = "walk" /\ cur.op # "read" /\ stack # <<>> /\ ~VisitOf(Last(stack)).ok
  /\ Answers(Error("io")) /\ UNCHANGED <<stack, out>>
WalkStep ==
  /\ pc = "walk" /\ cur.op # "read" /\ stack # <<>>
  /\ LET v == VisitOf(Last(stack)) IN
       /\ v.ok
       /\ out' = out \o SubSeq(v.adds, 1, AtMost(Room, Len(v.adds)))
       /\ \/ /\ Len(v.adds) >= Room /\ Answers(Walked(TRUE)) /\ UNCHANGED stack
          \/ /\ Len(v.adds) < Room /\ stack' = StackAfter(v.pushes)
             /\ UNCHANGED <<files, pc, roots, intent, cur, approved, base, answer, history>>
WalkEnds ==
  /\ pc = "walk" /\ cur.op # "read" /\ stack = <<>>
  /\ Answers(Walked(FALSE)) /\ UNCHANGED <<stack, out>>

\* The path is opened as it was resolved; a symlink that has come since is followed.
Read ==
  /\ pc = "walk" /\ cur.op = "read"
  /\ LET p == Canon(base) IN
       \/ ~(p \in present /\ Kind[p] = "text") /\ Answers(Error("io"))
       \/ /\ p \in present /\ Kind[p] \in {"text", "blob"}
          /\ \E s \in Texts : (Kind[p] = "text" <=> IsText(s)) /\ Answers(ReadAnswer(s, cur.range))
  /\ UNCHANGED <<stack, out>>

\* append_tool; when it is the approved call, pending.json is cleared.
Reply ==
  /\ pc = "answered" /\ pc' = IF intent # {} THEN "granting" ELSE "idle"
  /\ parked' = IF approved THEN {} ELSE parked
  /\ cur' = NoCall /\ approved' = FALSE /\ base' = <<>> /\ stack' = <<>> /\ out' = <<>> /\ answer' = NoAnswer
  /\ steady' = {} /\ seen' = {} /\ swapped' = {}
  /\ UNCHANGED <<tree, rules, roots, intent, denoted, edits, faults>>

\* builtin_read_only_decision, for a command no rule decides: it runs unasked or
\* the invocation ends.  What the human then says is in TellLoop.  A relative path
\* is looked up in the workspace, wherever git is sent.
Named(t) == IF t.word = "" THEN t.path ELSE Append(Root, t.word)
Accepted(argv) ==
  LET s == SafeReadOnly(argv)
  IN  s.safe /\ \A i \in DOMAIN s.paths : LET p == Named(s.paths[i]) IN Exists(p) /\ Within(roots, Canon(p))
RunCommand(argv) ==
  /\ pc = "idle" /\ Accepted(argv) /\ pc' = "answered"
  /\ cur' = [op |-> "git", argv |-> argv] /\ answer' = Walked(FALSE)
  /\ UNCHANGED <<files, roots, intent, approved, base, stack, out, history>>
ParkCommand(argv) ==
  /\ pc = "idle" /\ ~Accepted(argv) /\ pc' = "off" /\ roots' = {}
  /\ UNCHANGED <<files, intent, call, history>>

-----------------------------------------------------------------------------
(***************************************************************************)
(* Other programs, and crashes.                                            *)
(***************************************************************************)
\* Between an answer and its appending nothing looks at the tree.
Edit ==
  /\ pc # "answered" /\ edits < MaxEdits /\ edits' = edits + 1
  /\ steady' = steady \cap present'
  /\ seen' = IF pc = "walk" THEN seen \cup {q \in Places : There(q)'} ELSE seen
  /\ denoted' = denoted \cup {<<LinkAt, target'>>} \cup (turned' \X {LeadsTo})
  /\ swapped' = swapped \cup {d \in turned' \ turned : \E p \in ToSet(stack) : Under(d, p)}
  /\ UNCHANGED <<rules, parked, pc, roots, intent, call, faults>>
Vanish(p) ==
  /\ p \in present /\ present' = {q \in present : ~Under(p, q)}
  /\ turned' = {d \in turned : ~Under(p, d)} /\ UNCHANGED target /\ Edit
Appear(p) ==
  /\ p \notin present /\ Front(p) \in present \ turned /\ present' = present \cup {p}
  /\ UNCHANGED <<turned, target>> /\ Edit
Turn(p) ==
  /\ p \in present \ turned /\ present' = {q \in present : q = p \/ ~Under(p, q)}
  /\ turned' = {d \in turned : ~Under(p, d)} \cup {p} /\ UNCHANGED target /\ Edit
Retarget(p) ==
  /\ LinkAt \in present /\ p # target /\ target' = p /\ UNCHANGED <<present, turned>> /\ Edit

Crash ==
  /\ pc # "off" /\ pc' = "off" /\ faults < MaxFaults /\ faults' = faults + 1
  /\ roots' = {} /\ intent' = {}
  /\ cur' = NoCall /\ approved' = FALSE /\ base' = <<>> /\ stack' = <<>> /\ out' = <<>> /\ answer' = NoAnswer
  /\ steady' = {} /\ seen' = {} /\ swapped' = {}
  /\ UNCHANGED <<files, denoted, edits>>

Next ==
  \/ Tell \/ Exit \/ \E persist \in BOOLEAN : Approve(persist)
  \/ ExecutePending \/ Grant \/ WalkFails \/ WalkStep \/ WalkEnds \/ Read \/ Reply
  \/ \E c \in Calls : Call(c) \/ Park(c)
  \/ \E argv \in Commands : RunCommand(argv) \/ ParkCommand(argv)
  \/ \E p \in Loose : Vanish(p) \/ Appear(p)
  \/ (\E p \in Targets : Retarget(p)) \/ (\E p \in Turning : Turn(p))
  \/ Crash

Spec == Init /\ [][Next]_vars

-----------------------------------------------------------------------------
(***************************************************************************)
(* Properties.                                                             *)
(***************************************************************************)
TypeOK ==
  /\ present \subseteq Places /\ turned \subseteq Turning \cap present
  /\ target \in Targets /\ parked \subseteq Calls
  /\ pc \in {"off", "idle", "approved", "walk", "answered", "granting"}
  /\ roots \subseteq Places /\ intent \subseteq Places /\ approved \in BOOLEAN
  /\ ToSet(stack) \subseteq Places /\ edits \in 0 .. MaxEdits /\ faults \in 0 .. MaxFaults

\* The places a path has named, whatever the symlinks were when it was resolved.
Via(paths) == paths \cup UNION {{Moved(l[1], l[2], p) : p \in {q \in paths : Under(l[1], q)}} : l \in denoted}
HasNamed(p) == Via(Via({p}))
\* What the next step of a call opens.
Opens ==
  IF pc # "walk" \/ (cur.op # "read" /\ stack = <<>>) THEN {}
  ELSE CASE cur.op = "list" -> {Canon(Last(stack))}
         [] cur.op = "search" -> IF Lstat(Last(stack)) \in turned THEN {} ELSE {Lstat(Last(stack))}
         [] cur.op = "read" -> {Canon(base)}

\* Outside the workspace a tool reads what a rule on file names, or what the human
\* has approved this very call for: an approval serves one call, however often
\* processes die, the symlinks move and the same path is asked for again.  What a
\* call opens is below the place it was let into.  The one way out is a directory
\* that another program replaces by a symlink while it, or something below it, is
\* queued; a symlink that is there when its directory is read is not followed.
ReachIsGranted ==
  pc \in {"walk", "answered"} /\ cur.op \in {"list", "search", "read"} /\ base # <<>> =>
    /\ \/ Under(Root, base)
       \/ approved /\ base \in HasNamed(cur.path)
       \/ ~approved /\ \E r \in rules : \E p \in HasNamed(r) : Under(p, base)
    /\ \A p \in Opens : Under(base, p) \/ \E d \in swapped : Under(d, Last(stack))
    /\ cur.op = "list" => \A i \in DOMAIN out : Under(base, out[i])
    /\ cur.op = "search" => \A i \in DOMAIN out : Under(base, out[i][1])

Index(p) == CHOOSE i \in DOMAIN Sorted : Sorted[i] = p
\* No component of p below dir is hidden; no directory on the way is unreadable.
Visible(dir, p) == \A n \in Len(dir) + 1 .. Len(p) : SubSeq(p, 1, n) \notin Hidden
Reachable(dir, p) == \A n \in Len(dir) .. Len(p) - 1 : Kind[SubSeq(p, 1, n)] = "dir"

ListIsWhole ==
  /\ ToSet(out) \subseteq seen
  /\ \A p \in steady :
       (/\ Under(base, p) /\ p # base /\ (cur.hidden \/ Visible(base, p))
        /\ (cur.recursive \/ IsChild(base, p)))
         => Cardinality({i \in DOMAIN out : out[i] = p}) = 1
\* Up to the last match when the cap was reached.
SearchIsWhole ==
  LET Covered(p) == answer.truncated => Index(p) < Index(Last(out)[1]) IN
  /\ \A i \in 1 .. Len(out) - 1 : \/ Index(out[i][1]) < Index(out[i + 1][1])
                                  \/ out[i][1] = out[i + 1][1] /\ out[i][2] < out[i + 1][2]
  /\ \A p \in steady :
       (Under(base, p) /\ Kind[p] = "text" /\ Visible(base, p) /\ Reachable(base, p) /\ Covered(p))
         => ToSet(Hits[p]) \subseteq {out[i][2] : i \in {j \in DOMAIN out : out[j][1] = p}}
\* The line a character is in, counting the newlines before it.
LineOf(s, i) == 1 + Cardinality({j \in 1 .. i - 1 : s[j] = "n"})
ReadIsWhole ==
  LET s == answer.of  range == answer.range
      wanted == {i \in DOMAIN s : range = <<>> \/ LineOf(s, i) \in range[1] .. range[2]}
  IN  /\ Len(answer.content) = Cardinality(wanted)
      /\ \A i \in wanted :
           s[i] = answer.content[Cardinality({j \in wanted : j <= i})]
      /\ wanted # {} => answer.last = LineOf(s, CHOOSE i \in wanted : \A j \in wanted : j <= i)

\* An answer that does not say it is truncated is whole: list names everything
\* that stood while it walked and nothing that never did, once; search has all the
\* matches, in the order of their paths; read has all the lines asked for.
AnswersAreWhole ==
  pc = "answered" /\ answer.result = "ok" =>
    /\ cur.op = "list" /\ ~answer.truncated => ListIsWhole
    /\ cur.op = "search" => SearchIsWhole
    /\ cur.op = "read" /\ ~answer.truncated => ReadIsWhole

\* How git reads an argument vector: the directory it is sent to, its subcommand,
\* and the tokens that may name a file, as operands or as the values of options.
Sent(argv) == IF Is(argv[2], "-C") THEN {argv[3]} ELSE IF argv[2].joined THEN {Operand(argv[2].path)} ELSE {}
Subcommand(argv) == IF Is(argv[2], "-C") THEN 4 ELSE IF argv[2].joined THEN 3 ELSE 2
AfterDashes(argv, j) == \E d \in Subcommand(argv) + 1 .. j - 1 : Is(argv[d], "--")
Names(argv) ==
  {j \in Subcommand(argv) + 1 .. Len(argv) :
     /\ argv[Subcommand(argv)].word \in Readers
     /\ AfterDashes(argv, j) \/ ~IsOption(argv[j]) \/ argv[j].path # <<>>}
\* Those that nobody looks at: what is in front of "--", where a path is taken for a
\* revision (safe_command.rs:138-143) and an option's value for harmless; and a
\* relative path when -C sends git elsewhere, as it is looked up in the workspace
\* (tell_cli.rs:2057-2061).
Unjudged(argv) ==
  {j \in Names(argv) : ~AfterDashes(argv, j) \/ (Is(argv[2], "-C") /\ argv[j].word # "")}
Writes(argv) ==
  LET w == argv[Subcommand(argv)].word
      rest == SubSeq(argv, Subcommand(argv) + 1, Len(argv))
  IN  \/ w \notin Readers \cup {"branch", "remote"}
      \/ w = "branch" /\ \E i \in DOMAIN rest : ~IsOption(rest[i]) \/ Is(rest[i], "-D") \/ Is(rest[i], "-m")
      \/ w = "remote" /\ rest # <<>> /\ Is(Head(rest), "add")

\* A git command that runs although nobody was asked writes nothing itself, and the
\* directory it is sent to and the paths it names are in the workspace or in what a
\* rule names when it is let run: all but those that are Unjudged, which may name
\* any file at all.  The programs that --ext-diff and --textconv start are not git.
UnattendedGitReads ==
  [][pc = "idle" /\ pc' = "answered" /\ cur'.op = "git" =>
       LET argv == cur'.argv
           judged == {argv[j] : j \in Names(argv) \ Unjudged(argv)}
       IN  /\ ~Writes(argv)
           /\ \A t \in Sent(argv) \cup judged :
                LET p == Canon(Named(t)) IN
                  Under(Root, p) \/ \E r \in rules : \E q \in HasNamed(r) : Under(q, p)]_vars
=============================================================================
