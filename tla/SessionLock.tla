----------------------------- MODULE SessionLock -----------------------------
(***************************************************************************)
(* The LOCK file of one session directory: processes that open the session *)
(* (Session::open), recover a LOCK they take for stale, hold it and remove *)
(* it on Drop, while others crash and pids are handed out again.           *)
(*                                                                         *)
(* The file is two sets of at most one pid: `lock` holds the process that  *)
(* created the file now linked at LOCK ({}: no file), `body` the pid its   *)
(* text names ({}: none can be parsed, because it is empty or torn).       *)
(***************************************************************************)
EXTENDS Naturals, FiniteSets

CONSTANTS
  Procs,      \* the pids the operating system hands out
  MaxStarts   \* bound: attini processes started over the whole behaviour

ASSUME StartsAssumption == MaxStarts \in Nat

VARIABLES
  lock, body,  \* the LOCK file
  at,          \* where the attini process with this pid is ("idle": there is none)
  tries,       \* acquire_lock calls it has made that found a LOCK
  seen,        \* what inspect_lock read
  foreign,     \* pids in use by other programs
  starts,      \* history: processes started
  overlap,     \* history: some process started while another was still opening
  alone        \* history: the processes that had the session to themselves since
               \* they started, and whose pid (or another program's) is not in LOCK

lockFile == <<lock, body>>
hist == <<starts, overlap, alone>>
lockVars == <<lockFile, at, tries, seen, foreign, hist>>

Opening == {"create", "read", "probe", "remove", "write"}
PC == Opening \cup {"idle", "held", "refused"}
Running == {p \in Procs : at[p] # "idle"}
Alive == Running \cup foreign

LockInit ==
  /\ lock = {} /\ body = {}
  /\ at = [p \in Procs |-> "idle"] /\ tries = [p \in Procs |-> 0] /\ seen = [p \in Procs |-> {}]
  /\ foreign = {}
  /\ starts = 0 /\ overlap = FALSE /\ alone = {}

Goto(p, l) == at' = [at EXCEPT ![p] = l]

-----------------------------------------------------------------------------
Start(p) ==
  /\ p \notin Alive /\ starts < MaxStarts
  /\ Goto(p, "create")
  /\ tries' = [tries EXCEPT ![p] = 0] /\ seen' = [seen EXCEPT ![p] = {}]
  /\ starts' = starts + 1
  /\ overlap' = (overlap \/ \E q \in Procs : at[q] \in Opening)
  /\ alone' = IF Running = {} /\ body \cap (foreign \cup {p}) = {} THEN {p} ELSE {}
  /\ UNCHANGED <<lockFile, foreign>>

\* acquire_lock: O_CREAT | O_EXCL leaves an empty file; its text comes later.
CreateLock(p) ==
  /\ at[p] = "create" /\ lock = {}
  /\ lock' = {p} /\ body' = {}
  /\ Goto(p, "write")
  /\ UNCHANGED <<tries, seen, foreign, hist>>

\* AlreadyExists: inspect the LOCK once; the second conflict is the last.
LockTaken(p) ==
  /\ at[p] = "create" /\ lock # {}
  /\ tries' = [tries EXCEPT ![p] = @ + 1]
  /\ Goto(p, IF tries[p] = 0 THEN "read" ELSE "refused")
  /\ UNCHANGED <<lockFile, seen, foreign, hist>>

\* inspect_lock reads whatever is at the path now, a LOCK that has just
\* vanished like one that does not parse.
ReadLock(p) ==
  /\ at[p] = "read"
  /\ seen' = [seen EXCEPT ![p] = body]
  /\ Goto(p, "probe")
  /\ UNCHANGED <<lockFile, tries, foreign, hist>>

\* Mutant: a LOCK without a readable pid is taken for held.
UnreadableIsHeld(p) ==
  /\ at[p] = "probe"
  /\ Goto(p, IF seen[p] # {} /\ seen[p] \cap Alive = {} THEN "remove" ELSE "refused")
  /\ UNCHANGED <<lockFile, tries, seen, foreign, hist>>
\* Mutant: EPERM, which a live process of another user answers, means dead.
EpermIsDead(p) ==
  /\ at[p] = "probe"
  /\ \/ Goto(p, "remove")
     \/ seen[p] \cap Alive # {} /\ Goto(p, "refused")
  /\ UNCHANGED <<lockFile, tries, seen, foreign, hist>>
\* probe_pid: kill(pid, 0) on the pid that was read.
Probe(p) ==
  /\ at[p] = "probe"
  /\ Goto(p, IF seen[p] \cap Alive = {} THEN "remove" ELSE "refused")
  /\ UNCHANGED <<lockFile, tries, seen, foreign, hist>>

\* remove_file, on the path and not on the file that was inspected; an error
\* (somebody else removed it) is ignored.
RemoveStale(p) ==
  /\ at[p] = "remove"
  /\ lock' = {} /\ body' = {}
  /\ Goto(p, "create")
  /\ UNCHANGED <<tries, seen, foreign, hist>>

\* The text goes to the file p created, linked at LOCK or not.
WriteBody(p) ==
  /\ at[p] = "write"
  /\ body' = IF lock = {p} THEN {p} ELSE body
  /\ Goto(p, "held")
  /\ UNCHANGED <<lock, tries, seen, foreign, hist>>

\* Drop: remove_file on the path, whoever's file is linked there.
DropLock(p) ==
  /\ at[p] = "held"
  /\ lock' = {} /\ body' = {}
  /\ Goto(p, "idle")
  /\ UNCHANGED <<tries, seen, foreign, hist>>

\* Mutant: the refused process runs Drop as well.
RefusedDrops(p) ==
  /\ at[p] = "refused"
  /\ lock' = {} /\ body' = {}
  /\ Goto(p, "idle")
  /\ UNCHANGED <<tries, seen, foreign, hist>>
\* lock_conflict_error: no Session was built, so the LOCK stays.
Refused(p) ==
  /\ at[p] = "refused"
  /\ Goto(p, "idle")
  /\ UNCHANGED <<lockFile, tries, seen, foreign, hist>>

-----------------------------------------------------------------------------
\* The process is killed, or fails after create_new (writing the text, opening
\* conversation.jsonl): no Session exists yet, so nothing removes the LOCK.
Crash(p) ==
  /\ at[p] \in Opening \cup {"held"}
  /\ Goto(p, "idle")
  /\ UNCHANGED <<lockFile, tries, seen, foreign, hist>>

\* Pids come and go with other programs too.
OtherStarts(p) ==
  /\ p \notin Alive
  /\ foreign' = foreign \cup {p} /\ alone' = {}
  /\ UNCHANGED <<lockFile, at, tries, seen, starts, overlap>>

OtherEnds(p) ==
  /\ p \in foreign
  /\ foreign' = foreign \ {p}
  /\ UNCHANGED <<lockFile, at, tries, seen, hist>>

Acquire(p) ==
  \/ Start(p) \/ CreateLock(p) \/ LockTaken(p) \/ ReadLock(p) \/ Probe(p) \/ RemoveStale(p)
  \/ WriteBody(p)

Environment(p) == Crash(p) \/ OtherStarts(p) \/ OtherEnds(p)

LockNext == \E p \in Procs : Acquire(p) \/ DropLock(p) \/ Refused(p) \/ Environment(p)

LockSpec == LockInit /\ [][LockNext]_lockVars

-----------------------------------------------------------------------------
(***************************************************************************)
(* Properties.                                                             *)
(***************************************************************************)
\* Types; an open inspects a LOCK it cannot have at most twice (one retry).
LockTypeOK ==
  /\ lock \in SUBSET Procs /\ body \in SUBSET lock
  /\ at \in [Procs -> PC] /\ tries \in [Procs -> 0 .. 2] /\ seen \in [Procs -> SUBSET Procs]
  /\ foreign \in SUBSET Procs /\ foreign \cap Running = {}
  /\ starts \in 0 .. MaxStarts /\ overlap \in BOOLEAN /\ alone \in SUBSET Procs

Holders == {p \in Procs : at[p] = "held"}

\* "exclusive lock file" (session.rs): at most one process holds the session.
Exclusive == \A p, q \in Holders : p = q

\* Exclusion survives crashes, stale LOCKs and reused pids as long as no
\* process starts to open the session while another one is opening it.
ExclusiveUnlessOverlap == ~overlap => Exclusive

\* A process that has the session to itself is never refused, whatever crash
\* left the LOCK behind ("Stale LOCKs are auto-recovered by one retry").
StaleNeverRefuses == \A p \in alone : at[p] # "refused"

\* A holder that no opening overlapped finds its own LOCK when it drops the
\* session: Drop's unconditional unlink removes nobody else's.
DropRemovesOwn ==
  [][\A p \in Procs : DropLock(p) /\ ~overlap => lock = {p}]_lockVars
=============================================================================
