----------------------------- MODULE ChildOutput -----------------------------
(***************************************************************************)
(* run_streamed: one command, the processes it may leave behind, the two   *)
(* pipes its output goes through, a pump thread per pipe, and the watchdog *)
(* that waits for the command, kills its process group when the time is    *)
(* up, and then joins the pumps.                                           *)
(*                                                                         *)
(* The leader is the process run_streamed spawned and whose pid names the  *)
(* group; the helper stands for what it forks: it has inherited some of    *)
(* the pipes, and is in the group or has left it (setsid).  Output is      *)
(* counted, not spelled; time is whether the deadline has passed.          *)
(***************************************************************************)
EXTENDS Naturals, FiniteSets

CONSTANTS
  Kept,       \* COMMAND_MAX_STREAM_BYTES
  PipeRoom,   \* what the kernel buffers of one pipe
  ChunkSize,  \* CHUNK_SIZE
  MaxWritten, \* bound: output per stream
  MaxFaults   \* bound: failing writes to the terminal

ASSUME SizesAssumption ==
  /\ Kept \in Nat /\ MaxWritten \in Nat /\ MaxFaults \in Nat
  /\ PipeRoom \in Nat \ {0} /\ ChunkSize \in Nat \ {0}

Streams == {"out", "err"}
Procs == {"leader", "helper"}
Watching == {"poll", "check", "grace", "grace_check", "wait"}
Joining == {"join_out", "join_err"}
Over == {"returned", "failed"}

VARIABLES
  capped,    \* is there a timeout?
  wd,        \* where run_streamed's own thread is
  timedOut,  \* ChildOutput::timed_out
  pump,      \* per stream: the pump thread reads, has met EOF, or has failed
  kept,      \* per stream: what it has accumulated
  truncated, \* per stream: its truncated flag
  pipe,      \* per stream: what is in the pipe
  proc,      \* per process: absent, running or dead
  holds,     \* per process: the pipes it can write to
  inGroup,   \* is the helper in the leader's process group?
  reaped,    \* has the leader been waited for?
  termed,    \* has the group been sent SIGTERM?
  late,      \* has the deadline passed?
  graceOver, \* has the grace period passed?
  emitted,   \* history, per stream: what was ever written
  signals,   \* history: signals sent to the group
  faults     \* history: failed writes to the terminal

parent == <<capped, wd, timedOut, reaped, termed, signals>>
reading == <<pump, kept, truncated>>
output == <<pipe, emitted>>
kids == <<proc, holds, inGroup>>
clock == <<late, graceOver>>
childVars == <<parent, reading, output, kids, clock, faults>>

Alive(p) == proc[p] = "running"
Group == {"leader"} \cup (IF inGroup THEN {"helper"} ELSE {})
Writers(s) == {p \in Procs : Alive(p) /\ s \in holds[p]}
AtMost(a, b) == IF a < b THEN a ELSE b

\* spawn with two pipes, and two pump threads.
ChildInit ==
  /\ capped \in BOOLEAN /\ wd = IF capped THEN "poll" ELSE "wait"
  /\ timedOut = FALSE /\ reaped = FALSE /\ termed = FALSE /\ signals = 0
  /\ pump = [s \in Streams |-> "reads"]
  /\ kept = [s \in Streams |-> 0] /\ truncated = [s \in Streams |-> FALSE]
  /\ pipe = [s \in Streams |-> 0] /\ emitted = [s \in Streams |-> 0]
  /\ proc = [leader |-> "running", helper |-> "absent"]
  /\ holds = [leader |-> Streams, helper |-> {}] /\ inGroup = FALSE
  /\ late = FALSE /\ graceOver = FALSE /\ faults = 0

-----------------------------------------------------------------------------
(***************************************************************************)
(* The command.  Nothing obliges it to go on, to exit, or to die of        *)
(* SIGTERM.                                                                *)
(***************************************************************************)
Write(p, s) ==
  /\ p \in Writers(s) /\ pump[s] # "failed"
  /\ pipe[s] < PipeRoom /\ emitted[s] < MaxWritten
  /\ pipe' = [pipe EXCEPT ![s] = @ + 1]
  /\ emitted' = [emitted EXCEPT ![s] = @ + 1]
  /\ UNCHANGED <<parent, reading, kids, clock, faults>>

Fork ==
  /\ Alive("leader") /\ proc["helper"] = "absent"
  /\ proc' = [proc EXCEPT !["helper"] = "running"]
  /\ \E S \in SUBSET Streams : holds' = [holds EXCEPT !["helper"] = S]
  /\ inGroup' \in BOOLEAN
  /\ UNCHANGED <<parent, reading, output, clock, faults>>

\* It exits, dies of the group's SIGTERM, or of a pipe nobody reads any more.
Exits(p) ==
  /\ Alive(p)
  /\ proc' = [proc EXCEPT ![p] = "dead"]
  /\ UNCHANGED <<parent, reading, output, holds, inGroup, clock, faults>>

Command ==
  \/ \E p \in Procs, s \in Streams : Write(p, s)
  \/ \E p \in Procs : Exits(p)
  \/ Fork

-----------------------------------------------------------------------------
(***************************************************************************)
(* pump: read to EOF, keep what fits, note what does not.                  *)
(***************************************************************************)
PumpChunk(s) ==
  /\ pump[s] = "reads" /\ pipe[s] > 0
  /\ LET n == AtMost(ChunkSize, pipe[s]) IN
     /\ pipe' = [pipe EXCEPT ![s] = @ - n]
     /\ kept' = [kept EXCEPT ![s] = AtMost(@ + n, Kept)]
     /\ truncated' = [truncated EXCEPT ![s] = @ \/ kept[s] + n > Kept]
  /\ UNCHANGED <<parent, pump, emitted, kids, clock, faults>>

Eof(s) ==
  /\ pump[s] = "reads" /\ pipe[s] = 0 /\ Writers(s) = {}
  /\ pump' = [pump EXCEPT ![s] = "eof"]
  /\ UNCHANGED <<parent, kept, truncated, output, kids, clock, faults>>

\* The copy for the human cannot be written (the terminal is gone): the pump
\* returns the error, and the pipe has no reader any more.
DisplayFails(s) ==
  /\ pump[s] = "reads" /\ pipe[s] > 0 /\ faults < MaxFaults
  /\ pump' = [pump EXCEPT ![s] = "failed"]
  /\ faults' = faults + 1
  /\ UNCHANGED <<parent, kept, truncated, output, kids, clock>>

Pump(s) == PumpChunk(s) \/ Eof(s)

-----------------------------------------------------------------------------
(***************************************************************************)
(* wait_with_timeout, then join_pump of stdout and of stderr.              *)
(***************************************************************************)
Deadline == /\ capped /\ ~late /\ late' = TRUE
            /\ UNCHANGED <<parent, reading, output, kids, graceOver, faults>>
GraceEnds == /\ termed /\ ~graceOver /\ graceOver' = TRUE
             /\ UNCHANGED <<parent, reading, output, kids, late, faults>>

\* Mutant: a child that exits within the grace period counts as not timed out.
ReapUnflagged ==
  /\ wd \in {"poll", "grace", "wait"} /\ proc["leader"] = "dead"
  /\ reaped' = TRUE
  /\ wd' = "join_out"
  /\ timedOut' = (capped /\ wd = "wait")
  /\ UNCHANGED <<capped, termed, signals, reading, output, kids, clock, faults>>
\* Mutant: the watchdog drops the status and goes on to look at the clock.
ReapAndGoOn ==
  /\ wd \in {"poll", "grace", "wait"} /\ proc["leader"] = "dead"
  /\ reaped' = TRUE
  /\ wd' = CASE wd = "poll" -> "check" [] OTHER -> "join_out"
  /\ timedOut' = (wd = "grace" \/ (capped /\ wd = "wait"))
  /\ UNCHANGED <<capped, termed, signals, reading, output, kids, clock, faults>>
\* try_wait, or the wait behind SIGKILL, finds the leader dead.
ReapLeader ==
  /\ wd \in {"poll", "grace", "wait"} /\ proc["leader"] = "dead"
  /\ reaped' = TRUE
  /\ wd' = "join_out"
  /\ timedOut' = (wd = "grace" \/ (capped /\ wd = "wait"))
  /\ UNCHANGED <<capped, termed, signals, reading, output, kids, clock, faults>>

StillRuns ==
  /\ wd \in {"poll", "grace"} /\ Alive("leader")
  /\ wd' = IF wd = "poll" THEN "check" ELSE "grace_check"
  /\ UNCHANGED <<capped, timedOut, reaped, termed, signals, reading, output, kids, clock, faults>>

Sleep ==
  /\ (wd = "check" /\ ~late) \/ (wd = "grace_check" /\ ~graceOver)
  /\ wd' = IF wd = "check" THEN "poll" ELSE "grace"
  /\ UNCHANGED <<capped, timedOut, reaped, termed, signals, reading, output, kids, clock, faults>>

Terminate ==
  /\ wd = "check" /\ late
  /\ wd' = "grace"
  /\ termed' = TRUE /\ signals' = signals + 1
  /\ UNCHANGED <<capped, timedOut, reaped, reading, output, kids, clock, faults>>

\* Mutant: SIGKILL goes to the leader's pid and not to its group.
KillLeader ==
  /\ wd = "grace_check" /\ graceOver
  /\ wd' = "wait"
  /\ signals' = signals + 1
  /\ proc' = [proc EXCEPT !["leader"] = "dead"]
  /\ UNCHANGED <<capped, timedOut, reaped, termed, reading, output, holds, inGroup, clock, faults>>
\* SIGKILL: nobody in the group survives it.
Kill ==
  /\ wd = "grace_check" /\ graceOver
  /\ wd' = "wait"
  /\ signals' = signals + 1
  /\ proc' = [p \in Procs |-> IF p \in Group /\ Alive(p) THEN "dead" ELSE proc[p]]
  /\ UNCHANGED <<capped, timedOut, reaped, termed, reading, output, holds, inGroup, clock, faults>>

JoinPump(s, here, next) ==
  /\ wd = here /\ pump[s] # "reads"
  /\ wd' = IF pump[s] = "eof" THEN next ELSE "failed"
  /\ UNCHANGED <<capped, timedOut, reaped, termed, signals, reading, output, kids, clock, faults>>

Watchdog ==
  \/ ReapLeader \/ StillRuns \/ Sleep \/ Terminate \/ Kill
  \/ JoinPump("out", "join_out", "join_err") \/ JoinPump("err", "join_err", "returned")

ChildNext ==
  \/ Command \/ Watchdog \/ Deadline \/ GraceEnds
  \/ \E s \in Streams : Pump(s) \/ DisplayFails(s)

\* The three threads are scheduled and time passes.  Of the command nothing is
\* assumed: not that it writes, exits, or heeds SIGTERM.
Fairness ==
  /\ WF_childVars(Watchdog) /\ WF_childVars(Deadline) /\ WF_childVars(GraceEnds)
  /\ \A s \in Streams : WF_childVars(Pump(s))
ChildSpec == ChildInit /\ [][ChildNext]_childVars /\ Fairness

-----------------------------------------------------------------------------
\* Types, and the bound on what is retained of a stream.
ChildTypeOK ==
  /\ capped \in BOOLEAN /\ wd \in Watching \cup Joining \cup Over
  /\ timedOut \in BOOLEAN /\ reaped \in BOOLEAN /\ termed \in BOOLEAN /\ signals \in 0 .. 2
  /\ pump \in [Streams -> {"reads", "eof", "failed"}]
  /\ kept \in [Streams -> 0 .. Kept] /\ truncated \in [Streams -> BOOLEAN]
  /\ pipe \in [Streams -> 0 .. PipeRoom] /\ emitted \in [Streams -> 0 .. MaxWritten]
  /\ proc \in [Procs -> {"absent", "running", "dead"}]
  /\ holds \in [Procs -> SUBSET Streams] /\ inGroup \in BOOLEAN
  /\ late \in BOOLEAN /\ graceOver \in BOOLEAN /\ faults \in 0 .. MaxFaults

\* What is returned is everything that was written, up to the cap, whoever
\* wrote it and however the command ended; truncated is set exactly when
\* something was left out.
OutputWhole ==
  wd = "returned" => \A s \in Streams : /\ kept[s] = AtMost(emitted[s], Kept)
                                       /\ truncated[s] <=> emitted[s] > Kept

\* timed_out tells whether the watchdog interfered, which it only does behind the
\* deadline, however the exit, the deadline and the two polls fall together.
TimedOutIsReal == reaped => (timedOut <=> signals > 0) /\ (timedOut => late)

\* What the caller is told of the command is what happened.
ReportIsTrue == OutputWhole /\ TimedOutIsReal

\* A signal is only sent while the leader's pid is its own: once it is reaped the
\* pid, and the group of that number, may be another program's.
OwnGroupOnly == [][signals' # signals => ~reaped]_childVars

\* A descendant that survived the leader and keeps a pipe open; it has left the
\* group if SIGKILL was sent to that.
Outlives ==
  /\ reaped /\ Alive("helper") /\ holds["helper"] # {}
  /\ signals = 2 => ~inGroup

\* With a timeout run_streamed returns, hung command or not; the one thing that
\* can keep it is such a descendant that never ends.
ReturnsUnlessHeld == capped => <>(wd \in Over) \/ <>[]Outlives
=============================================================================
