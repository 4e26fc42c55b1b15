---------------------------- MODULE Permissions ----------------------------
(***************************************************************************)
(* The rules of permissions.jsonl: one file of the workspace, which all    *)
(* sessions share, and one of each session; evaluated in that order, the   *)
(* last match deciding; edited by hand at any time; and appended to by     *)
(* approve --grant, which reads the file twice and renames a copy over it  *)
(* without a lock.                                                         *)
(*                                                                         *)
(* An argument vector and a path are both a sequence of which a rule names *)
(* a prefix.  A call that waits for the human carries the sequence its     *)
(* rules are matched against and the one a grant would write for it.       *)
(***************************************************************************)
EXTENDS Naturals, Sequences, FiniteSets, SequencesExt

CONSTANTS
  Sessions,   \* a session has at most one process, which holds its LOCK
  Calls,      \* what the model may ask for
  HandWritten,\* the lines a human may add
  MaxEdits,   \* bound: edits by hand
  MaxGrants,  \* bound: grants begun
  MaxFaults   \* bound: crashes and failing writes

Kinds == {"command", "read", "write"}
\* spelled: the path as the model wrote it, which is what a grant gets hold of
\* while the file does not exist yet (an add); for all others it equals of.
Words(w) == w # <<>> /\ w \in Seq(ToSet(w))
Asked(c) == c.kind \in Kinds /\ Words(c.of) /\ Words(c.spelled)
\* A rule says whether it allows; a read rule can only allow.
WellFormed(l) == l.kind \in Kinds => l.allow \in BOOLEAN /\ (l.kind = "read" => l.allow)
ASSUME PermissionsAssumption ==
  /\ {"workspace", "oneshot", "nobody"} \cap Sessions = {}
  /\ Calls # {} /\ \A c \in Calls : Asked(c)
  /\ \A l \in HandWritten : WellFormed(l)
  /\ MaxEdits \in Nat /\ MaxGrants \in Nat /\ MaxFaults \in Nat

Scopes == {"workspace"} \cup Sessions

VARIABLES
  file,     \* per scope: its lines; rules, comments or malformed lines, bytes that are not text
  pc,       \* per session: "off", "live", "parked", "run", "check", "body", "rename" or "reload"
  loaded,   \* per session: the rules its process goes by, if it has one
  call,     \* per session: the call that waits for the human or was approved
  scope,    \* per session: where its grant goes, or "oneshot"
  body,     \* per session: the lines append_rule_line has read
  outcome,  \* per session: "none", "appended", "already", "conflict" or "failed"
  raced,    \* history: sessions whose files others changed since their grant looked there
  stale,    \* history: sessions whose file others changed since its body was read
  edits, grants, faults  \* history: counted for the bounds

process == <<pc, loaded, call, scope, body, outcome>>
vars == <<file, process, raced, stale, edits, grants, faults>>

-----------------------------------------------------------------------------
(***************************************************************************)
(* Loading and evaluation.                                                 *)
(***************************************************************************)
IsRule(l) == l.kind \in Kinds
Note == [kind |-> "note"]
Bytes == [kind |-> "bytes"]
Readable(lines) == Bytes \notin ToSet(lines)

\* A file that cannot be read counts as empty; a line that is no rule matches
\* nothing, which is what skipping it comes to.
Rules(lines) == IF Readable(lines) THEN lines ELSE <<>>
\* Mutant: the workspace has the last word.
LayersSwapped(s) == Rules(file[s]) \o Rules(file["workspace"])
Layers(s) == Rules(file["workspace"]) \o Rules(file[s])

Matches(r, c) == r.kind = c.kind /\ IsPrefix(r.of, c.of)
\* finish_decision: the last match decides.
NoneAfter(rules, c, i) == \A j \in DOMAIN rules : j > i => ~Matches(rules[j], c)
LastAllows(rules, c) ==
  \E i \in DOMAIN rules : Matches(rules[i], c) /\ rules[i].allow /\ NoneAfter(rules, c, i)
Judge(rules, c) ==
  IF NoneAfter(rules, c, 0) THEN "pending" ELSE IF LastAllows(rules, c) THEN "allow" ELSE "deny"

\* plan_grant: the first two arguments of a command, the path of a read or patch.
Granted(c) ==
  [kind |-> c.kind, allow |-> TRUE,
   of |-> IF c.kind = "command" /\ Len(c.of) > 2 THEN SubSeq(c.of, 1, 2) ELSE c.spelled]
SameMatcher(r, g) == r.kind = g.kind /\ r.of = g.of

Line == [kind : Kinds, allow : BOOLEAN, of : UNION {{c.of, Granted(c).of} : c \in Calls}]
        \cup HandWritten

Init ==
  /\ file = [x \in Scopes |-> <<>>]
  /\ pc = [s \in Sessions |-> "off"] /\ loaded = [s \in Sessions |-> <<>>]
  /\ call = [s \in Sessions |-> CHOOSE c \in Calls : TRUE] /\ scope = [s \in Sessions |-> "oneshot"]
  /\ body = [s \in Sessions |-> <<>>] /\ outcome = [s \in Sessions |-> "none"]
  /\ raced = {} /\ stale = {} /\ edits = 0 /\ grants = 0 /\ faults = 0

Goes(s, from, to) == pc[s] = from /\ pc' = [pc EXCEPT ![s] = to]

\* A file is changed by session s, or by hand (s is nobody).
Readers(x) == IF x = "workspace" THEN Sessions ELSE {x}
Appending(x) == {t \in Sessions : pc[t] = "rename" /\ scope[t] = x}
Change(x, lines, s) ==
  /\ file' = [file EXCEPT ![x] = lines]
  /\ raced' = raced \cup (Readers(x) \ {s})
  /\ stale' = (stale \cup Appending(x)) \ {s}

-----------------------------------------------------------------------------
(***************************************************************************)
(* tell and approve.                                                       *)
(***************************************************************************)
\* A process loads the rules when it starts; tell drops a call that waits.
Load(s) == loaded' = [loaded EXCEPT ![s] = Layers(s)]
Gone(s) == loaded' = [loaded EXCEPT ![s] = <<>>]
Tell(s) ==
  /\ pc[s] \in {"off", "parked"} /\ pc' = [pc EXCEPT ![s] = "live"] /\ Load(s)
  /\ UNCHANGED <<file, call, scope, body, outcome, raced, stale, edits, grants, faults>>
Exit(s) ==
  /\ Goes(s, "live", "off") /\ Gone(s)
  /\ UNCHANGED <<file, call, scope, body, outcome, raced, stale, edits, grants, faults>>

\* A call no rule decides waits for the human, and the process ends.
Park(s, c) ==
  /\ Goes(s, "live", "parked") /\ Judge(loaded[s], c) = "pending"
  /\ call' = [call EXCEPT ![s] = c] /\ Gone(s)
  /\ UNCHANGED <<file, scope, body, outcome, raced, stale, edits, grants, faults>>

\* Another process, which loads the rules again, hours later perhaps; it does not
\* judge the call by them, the human has.
Approve(s, x) ==
  /\ grants < MaxGrants /\ grants' = grants + 1
  /\ Goes(s, "parked", "run") /\ scope' = [scope EXCEPT ![s] = x] /\ Load(s)
  /\ UNCHANGED <<file, call, body, outcome, raced, stale, edits, faults>>
\* The call has run, for as long as it liked, and pending.json is cleared; then
\* comes the grant.
Executed(s) ==
  /\ Goes(s, "run", IF scope[s] = "oneshot" THEN "reload" ELSE "check")
  /\ UNCHANGED <<file, loaded, call, scope, body, outcome, raced, stale, edits, grants, faults>>

(***************************************************************************)
(* grant, grant_read, grant_write: the first rule with the same matcher    *)
(* settles it; otherwise append_rule_line reads the file again.            *)
(***************************************************************************)
Target(s) == Rules(file[scope[s]])
Existing(s) == {i \in DOMAIN Target(s) : SameMatcher(Target(s)[i], Granted(call[s]))}
FirstAllows(s) == \E i \in Existing(s) : Target(s)[i].allow /\ \A j \in Existing(s) : i <= j
Settled(s, o) ==
  /\ outcome' = [outcome EXCEPT ![s] = o]
  /\ stale' = stale \ {s} /\ body' = [body EXCEPT ![s] = <<>>]

AlreadyThere(s) ==
  /\ Goes(s, "check", "reload") /\ Existing(s) # {} /\ raced' = raced \ {s}
  /\ Settled(s, IF FirstAllows(s) THEN "already" ELSE "conflict")
  /\ UNCHANGED <<file, loaded, call, scope, edits, grants, faults>>
NotThere(s) ==
  /\ Goes(s, "check", "body") /\ Existing(s) = {} /\ raced' = raced \ {s}
  /\ UNCHANGED <<file, loaded, call, scope, body, outcome, stale, edits, grants, faults>>

ReadBody(s) ==
  /\ Goes(s, "body", "rename") /\ Readable(file[scope[s]])
  /\ body' = [body EXCEPT ![s] = file[scope[s]]]
  /\ UNCHANGED <<file, loaded, call, scope, outcome, raced, stale, edits, grants, faults>>
ReadFails(s) ==
  /\ Goes(s, "body", "reload") /\ ~Readable(file[scope[s]])
  /\ Settled(s, "failed")
  /\ UNCHANGED <<file, loaded, call, scope, raced, edits, grants, faults>>

\* Mutant: the file is written from its rules.
RenameRules(s) ==
  /\ Goes(s, "rename", "reload")
  /\ Change(scope[s], Append(SelectSeq(body[s], IsRule), Granted(call[s])), s)
  /\ outcome' = [outcome EXCEPT ![s] = "appended"] /\ body' = [body EXCEPT ![s] = <<>>]
  /\ UNCHANGED <<loaded, call, scope, edits, grants, faults>>
Rename(s) ==
  /\ Goes(s, "rename", "reload")
  /\ Change(scope[s], Append(body[s], Granted(call[s])), s)
  /\ outcome' = [outcome EXCEPT ![s] = "appended"] /\ body' = [body EXCEPT ![s] = <<>>]
  /\ UNCHANGED <<loaded, call, scope, edits, grants, faults>>

\* Creating the tmp file, writing it or renaming it fails: a warning.
WriteFails(s) ==
  /\ Goes(s, "rename", "reload") /\ faults < MaxFaults /\ faults' = faults + 1
  /\ Settled(s, "failed")
  /\ UNCHANGED <<file, loaded, call, scope, raced, edits, grants>>

Forget(s) ==
  /\ scope' = [scope EXCEPT ![s] = "oneshot"] /\ outcome' = [outcome EXCEPT ![s] = "none"]
\* Mutant: the invocation goes on with the rules it started with.
ReloadNothing(s) ==
  /\ Goes(s, "reload", "live") /\ Forget(s)
  /\ UNCHANGED <<file, loaded, call, body, raced, stale, edits, grants, faults>>
\* refresh_executor_permissions, and the load before the first turn.
Reload(s) ==
  /\ Goes(s, "reload", "live") /\ Forget(s) /\ Load(s)
  /\ UNCHANGED <<file, call, body, raced, stale, edits, grants, faults>>

\* A process that is killed before pending.json is cleared leaves the call waiting.
Crash(s) ==
  /\ pc[s] \in {"run", "check", "body", "rename", "reload"} /\ faults < MaxFaults
  /\ faults' = faults + 1
  /\ pc' = [pc EXCEPT ![s] = IF pc[s] = "run" THEN "parked" ELSE "off"]
  /\ Forget(s) /\ Gone(s) /\ body' = [body EXCEPT ![s] = <<>>] /\ stale' = stale \ {s}
  /\ UNCHANGED <<file, call, raced, edits, grants>>

-----------------------------------------------------------------------------
\* By hand a line is added at the end, or taken out.
Edit(x) ==
  /\ edits < MaxEdits /\ edits' = edits + 1
  /\ \E lines \in {Append(file[x], l) : l \in HandWritten}
                  \cup {RemoveAt(file[x], i) : i \in DOMAIN file[x]} : Change(x, lines, "nobody")
  /\ UNCHANGED <<process, grants, faults>>

Grant(s) ==
  \/ Executed(s) \/ AlreadyThere(s) \/ NotThere(s) \/ ReadBody(s) \/ ReadFails(s) \/ Rename(s)
  \/ WriteFails(s) \/ Reload(s)
Next ==
  \/ \E s \in Sessions :
       \/ Tell(s) \/ Exit(s) \/ Grant(s) \/ Crash(s)
       \/ (\E c \in Calls : Park(s, c))
       \/ \E x \in {"oneshot", "workspace", s} : Approve(s, x)
  \/ \E x \in Scopes : Edit(x)

Spec == Init /\ [][Next]_vars

-----------------------------------------------------------------------------
\* Types; a call waits for a grant with a file to go to, and only a grant about to
\* be renamed holds lines.
TypeOK ==
  /\ file \in [Scopes -> Seq(Line)] /\ loaded \in [Sessions -> Seq(Line)]
  /\ pc \in [Sessions -> {"off", "live", "parked", "run", "check", "body", "rename", "reload"}]
  /\ call \in [Sessions -> Calls] /\ scope \in [Sessions -> Scopes \cup {"oneshot"}]
  /\ \A s \in Sessions : pc[s] = "run" => scope[s] \in {"oneshot", "workspace", s}
  /\ \A s \in Sessions : pc[s] \in {"check", "body", "rename"} => scope[s] \in {"workspace", s}
  /\ body \in [Sessions -> Seq(Line)]
  /\ \A s \in Sessions : pc[s] # "rename" => body[s] = <<>>
  /\ outcome \in [Sessions -> {"none", "appended", "already", "conflict", "failed"}]
  /\ raced \subseteq Sessions /\ stale \subseteq Sessions
  /\ edits \in 0 .. MaxEdits /\ grants \in 0 .. MaxGrants /\ faults \in 0 .. MaxFaults

\* What a grant reports of the call, and the rules it leaves standing over that:
\* those of the session's file over a grant to the workspace, and those behind the
\* first rule with its matcher, the only one it looks at.
Reported(s) == IF outcome[s] = "conflict" THEN "deny" ELSE "allow"
Contradicts(r, s) == Matches(r, call[s]) /\ (r.allow = (outcome[s] = "conflict"))
Overruled(s) ==
  \/ scope[s] = "workspace" /\ \E r \in ToSet(Rules(file[s])) : Contradicts(r, s)
  \/ /\ outcome[s] # "appended"
     /\ \E i \in Existing(s), j \in DOMAIN Target(s) : i < j /\ Contradicts(Target(s)[j], s)

\* Whatever was edited while the call waited and ran, what apply_grant reports is
\* what the rest of the invocation goes by: behind "granted" and "already granted"
\* the very call runs unasked, behind a conflict it is refused, and never is the
\* human asked again.  Unless a rule written by hand overrules it, the path was not
\* written the way rules are, or somebody changed the files within the grant.
GrantTakesEffect ==
  [][\A s \in Sessions :
       (pc[s] = "reload" /\ pc'[s] = "live" /\ s \notin raced
        /\ outcome[s] \notin {"none", "failed"} /\ call[s].spelled = call[s].of)
         => \/ Judge(loaded'[s], call[s]) = Reported(s)
            \/ Judge(loaded'[s], call[s]) # "pending" /\ Overruled(s)]_vars

\* Only a hand takes a line out of a file or moves it (the order decides): a grant
\* leaves comments, malformed lines and all rules where they are, unless somebody
\* wrote the file between its reading and its renaming.
LinesSurvive ==
  [][edits' = edits =>
       \A x \in Scopes : IsPrefix(file[x], file'[x]) \/ stale \cap Appending(x) # {}]_vars

\* How far a grant reaches: it changes judgements only to allow, only for calls of
\* its kind with its prefix, in another session only through the workspace file,
\* and there never against a rule of that session.
GrantReach ==
  [][\A s \in Sessions : (pc[s] = "rename" /\ file' # file /\ pc'[s] = "reload" /\ s \notin stale) =>
       \A t \in Sessions, c \in Calls :
         Judge(Layers(t), c) # Judge(Layers(t)', c) =>
           /\ Judge(Layers(t)', c) = "allow" /\ Matches(Granted(call[s]), c)
           /\ IF scope[s] = "workspace" THEN Judge(Rules(file[t]), c) = "pending" ELSE t = s]_vars
=============================================================================
