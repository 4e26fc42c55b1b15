-------------------------- MODULE Processes_proofs --------------------------
(***************************************************************************)
(* Proofs about the processes a turn starts.  First ChildOutput, for any   *)
(* pipes, chunks and caps: what run_streamed reports is what happened,     *)
(* and no signal goes to a pid that has been reaped.  Then Transport, for  *)
(* any bodies, payloads and sizes: what the turn loop is told is true, how *)
(* the stream was cut does not matter, and a reply is what was streamed.   *)
(***************************************************************************)
EXTENDS ChildOutput, Transport, SequenceTheorems, FiniteSetTheorems, WellFoundedInduction, TLAPS

(***************************************************************************)
(* ChildOutput: the command, its pipes and its watchdog.                   *)
(***************************************************************************)
Taken(s) == emitted[s] - pipe[s]

\* What a pump has kept is what has left its pipe, up to the cap.
Counts ==
  \A s \in Streams : /\ pipe[s] <= emitted[s]
                     /\ kept[s] = AtMost(Taken(s), Kept)
                     /\ truncated[s] <=> Taken(s) > Kept

\* A pump that met EOF has emptied its pipe, and nobody can write to it again:
\* the leader is among the dead, so there will be no other helper.
Drained ==
  /\ holds["leader"] = Streams
  /\ \A s \in Streams : pump[s] = "eof" => pipe[s] = 0 /\ Writers(s) = {}

\* The pumps are joined in order, and behind the reaping.
JoinedInOrder ==
  /\ reaped <=> wd \notin Watching
  /\ wd \in {"join_err", "returned"} => pump["out"] = "eof"
  /\ wd = "returned" => pump["err"] = "eof"

\* How often the group was signalled, by where the watchdog is.
Signalled ==
  /\ wd \in {"poll", "check"} => capped /\ signals = 0
  /\ wd \in {"grace", "grace_check"} => capped /\ signals = 1 /\ late
  /\ wd = "wait" /\ capped => signals = 2 /\ late
  /\ ~capped => signals = 0
  /\ termed => signals > 0

ChildInv == ChildTypeOK /\ Counts /\ Drained /\ JoinedInOrder /\ Signalled /\ TimedOutIsReal

-----------------------------------------------------------------------------
\* Two empty pipes and a running leader.
LEMMA ChildInvInit == ChildInit => ChildInv
<1> SUFFICES ASSUME ChildInit PROVE ChildInv
  OBVIOUS
<1> USE SizesAssumption DEF ChildInit, Streams, Procs, Watching, Joining, Over
<1>1. ChildTypeOK
  <2>1. proc \in [Procs -> {"absent", "running", "dead"}]
    BY DEF Procs
  <2>2. holds \in [Procs -> SUBSET Streams]
    BY DEF Procs
  <2>3. wd \in Watching \cup Joining \cup Over /\ signals \in 0 .. 2 /\ faults \in 0 .. MaxFaults
    OBVIOUS
  <2>4. /\ pump \in [Streams -> {"reads", "eof", "failed"}] /\ truncated \in [Streams -> BOOLEAN]
        /\ kept \in [Streams -> 0 .. Kept] /\ pipe \in [Streams -> 0 .. PipeRoom]
        /\ emitted \in [Streams -> 0 .. MaxWritten]
    OBVIOUS
  <2> QED BY <2>1, <2>2, <2>3, <2>4 DEF ChildTypeOK
<1>2. Counts
  BY DEF Counts, Taken, AtMost
<1>3. Drained /\ JoinedInOrder /\ Signalled /\ TimedOutIsReal
  BY DEF Drained, JoinedInOrder, Signalled, TimedOutIsReal
<1> QED BY <1>1, <1>2, <1>3 DEF ChildInv

\* Every step keeps the types.
LEMMA ChildTypeNext ==
  ASSUME ChildTypeOK, Signalled, [ChildNext]_childVars
  PROVE  ChildTypeOK'
<1> USE SizesAssumption DEF ChildTypeOK, parent, reading, output, kids, clock
<1>1. ASSUME NEW p \in Procs, NEW s \in Streams, Write(p, s) PROVE ChildTypeOK'
  BY <1>1 DEF Write
<1>2. ASSUME NEW p \in Procs, Exits(p) PROVE ChildTypeOK'
  BY <1>2 DEF Exits
<1>3. CASE Fork
  BY <1>3 DEF Fork, Procs
<1>4. ASSUME NEW s \in Streams, PumpChunk(s) PROVE ChildTypeOK'
  BY <1>4 DEF PumpChunk, AtMost
<1>5. ASSUME NEW s \in Streams, Eof(s) \/ DisplayFails(s) PROVE ChildTypeOK'
  BY <1>5 DEF Eof, DisplayFails
<1>6. CASE Deadline \/ GraceEnds
  BY <1>6 DEF Deadline, GraceEnds
<1>7. CASE ReapLeader \/ StillRuns \/ Sleep
  BY <1>7 DEF ReapLeader, StillRuns, Sleep, Watching, Joining
<1>8. CASE Terminate
  BY <1>8 DEF Terminate, Signalled, Watching
<1>9. CASE Kill
  BY <1>9 DEF Kill, Signalled, Watching
<1>10. CASE JoinPump("out", "join_out", "join_err") \/ JoinPump("err", "join_err", "returned")
  BY <1>10 DEF JoinPump, Joining, Over
<1>11. CASE UNCHANGED childVars
  BY <1>11 DEF childVars
<1> QED BY <1>1, <1>2, <1>3, <1>4, <1>5, <1>6, <1>7, <1>8, <1>9, <1>10, <1>11
        DEF ChildNext, Command, Watchdog, Pump

\* The pipes and what was taken from them.
LEMMA CountsNext ==
  ASSUME ChildTypeOK, Counts, [ChildNext]_childVars
  PROVE  Counts'
<1> USE SizesAssumption DEF ChildTypeOK, Counts, Taken, AtMost, parent, reading, output, kids, clock
<1>1. ASSUME NEW p \in Procs, NEW s \in Streams, Write(p, s) PROVE Counts'
  BY <1>1 DEF Write
<1>2. ASSUME NEW s \in Streams, PumpChunk(s) PROVE Counts'
  <2> DEFINE n == AtMost(ChunkSize, pipe[s])
  <2>1. n \in 0 .. pipe[s]
    OBVIOUS
  <2>2. /\ pipe' = [pipe EXCEPT ![s] = @ - n] /\ emitted' = emitted
        /\ kept' = [kept EXCEPT ![s] = AtMost(@ + n, Kept)]
        /\ truncated' = [truncated EXCEPT ![s] = @ \/ kept[s] + n > Kept]
    BY <1>2 DEF PumpChunk
  <2> HIDE DEF n
  <2>3. ASSUME NEW r \in Streams \ {s} PROVE UNCHANGED <<pipe[r], emitted[r], kept[r], truncated[r]>>
    BY <2>2
  <2>4. /\ pipe'[s] = pipe[s] - n /\ Taken(s)' = Taken(s) + n
        /\ kept'[s] = AtMost(kept[s] + n, Kept)
    BY <2>1, <2>2
  <2>5. truncated'[s] <=> truncated[s] \/ kept[s] + n > Kept
    BY <2>2
  <2>6. /\ pipe'[s] <= emitted'[s] /\ kept'[s] = AtMost(Taken(s)', Kept)
        /\ truncated'[s] <=> Taken(s)' > Kept
    BY <2>1, <2>2, <2>4, <2>5
  <2> QED BY <2>3, <2>6
<1>3. CASE UNCHANGED <<kept, truncated, output>>
  BY <1>3
<1>4. ASSUME NEW s \in Streams, Eof(s) \/ DisplayFails(s) PROVE UNCHANGED <<kept, truncated, output>>
  BY <1>4 DEF Eof, DisplayFails
<1>5. ASSUME Fork \/ Deadline \/ GraceEnds \/ Watchdog \/ \E p \in Procs : Exits(p)
      PROVE  UNCHANGED <<kept, truncated, output>>
  BY <1>5 DEF Exits, Fork, Deadline, GraceEnds, Watchdog, ReapLeader, StillRuns, Sleep, Terminate, Kill, JoinPump
<1>6. CASE UNCHANGED childVars
  BY <1>6, <1>3 DEF childVars
<1> QED BY <1>1, <1>2, <1>3, <1>4, <1>5, <1>6 DEF ChildNext, Command, Pump

\* A stream at EOF stays dry: writing takes a writer, and having one takes a
\* helper that was there before, or a leader that still lives.
LEMMA DrainedNext ==
  ASSUME ChildTypeOK, Counts, Drained, [ChildNext]_childVars
  PROVE  Drained'
<1> USE SizesAssumption DEF ChildTypeOK, Drained, Writers, Alive, parent, reading, output, kids, clock
<1>1. ASSUME NEW p \in Procs, NEW s \in Streams, Write(p, s) PROVE Drained'
  BY <1>1 DEF Write
<1>2. ASSUME NEW p \in Procs, Exits(p) PROVE Drained'
  BY <1>2 DEF Exits
<1>3. CASE Fork
  <2>1. \A s \in Streams : "leader" \in Writers(s)
    BY <1>3 DEF Fork, Procs
  <2>2. \A s \in Streams : pump[s] # "eof"
    BY <2>1
  <2> QED BY <1>3, <2>2 DEF Fork, Procs
<1>4. ASSUME NEW s \in Streams, PumpChunk(s) PROVE Drained'
  BY <1>4 DEF PumpChunk
<1>5. ASSUME NEW s \in Streams, Eof(s) \/ DisplayFails(s) PROVE Drained'
  BY <1>5 DEF Eof, DisplayFails
<1>6. CASE Kill
  BY <1>6 DEF Kill
<1>7. CASE Deadline \/ GraceEnds \/ ReapLeader \/ StillRuns \/ Sleep \/ Terminate
  BY <1>7 DEF Deadline, GraceEnds, ReapLeader, StillRuns, Sleep, Terminate
<1>8. CASE JoinPump("out", "join_out", "join_err") \/ JoinPump("err", "join_err", "returned")
  BY <1>8 DEF JoinPump
<1>9. CASE UNCHANGED childVars
  BY <1>9 DEF childVars
<1> QED BY <1>1, <1>2, <1>3, <1>4, <1>5, <1>6, <1>7, <1>8, <1>9 DEF ChildNext, Command, Watchdog, Pump

\* The watchdog: where it stands, what it has sent, what it reports.
LEMMA WatchdogNext ==
  ASSUME ChildTypeOK, JoinedInOrder, Signalled, TimedOutIsReal, [ChildNext]_childVars
  PROVE  JoinedInOrder' /\ Signalled' /\ TimedOutIsReal'
<1> USE SizesAssumption DEF ChildTypeOK, JoinedInOrder, Signalled, TimedOutIsReal, Watching, Joining, Over,
        parent, reading, output, kids, clock
<1> DEFINE Kept3 == JoinedInOrder' /\ Signalled' /\ TimedOutIsReal'
<1>1. CASE Command
  BY <1>1 DEF Command, Write, Exits, Fork
<1>2. ASSUME NEW s \in Streams, Pump(s) \/ DisplayFails(s) PROVE Kept3
  BY <1>2 DEF Pump, PumpChunk, Eof, DisplayFails, Streams
<1>3. CASE Deadline \/ GraceEnds
  BY <1>3 DEF Deadline, GraceEnds
<1>4. CASE ReapLeader
  BY <1>4 DEF ReapLeader
<1>5. CASE StillRuns \/ Sleep
  BY <1>5 DEF StillRuns, Sleep
<1>6. CASE Terminate
  BY <1>6 DEF Terminate
<1>7. CASE Kill
  BY <1>7 DEF Kill
<1>8. CASE JoinPump("out", "join_out", "join_err")
  BY <1>8 DEF JoinPump, Streams
<1>9. CASE JoinPump("err", "join_err", "returned")
  BY <1>9 DEF JoinPump, Streams
<1>10. CASE UNCHANGED childVars
  BY <1>10 DEF childVars
<1> QED BY <1>1, <1>2, <1>3, <1>4, <1>5, <1>6, <1>7, <1>8, <1>9, <1>10 DEF ChildNext, Watchdog

\* The inductive invariant holds in every reachable state.
THEOREM ChildInvariance == ChildSpec => []ChildInv
<1>1. ChildInv /\ [ChildNext]_childVars => ChildInv'
  BY ChildTypeNext, CountsNext, DrainedNext, WatchdogNext DEF ChildInv
<1> QED BY <1>1, ChildInvInit, PTL DEF ChildSpec

\* Types hold, and no stream is ever kept beyond the cap.
THEOREM ChildTypeCorrect == ChildSpec => []ChildTypeOK
<1>1. ChildInv => ChildTypeOK
  BY DEF ChildInv
<1> QED BY <1>1, ChildInvariance, PTL

\* run_streamed returns everything that was written up to the cap, flags exactly
\* what it left out, and reports a timeout exactly when it interfered.
THEOREM TrueReport == ChildSpec => []ReportIsTrue
<1>1. ChildInv => OutputWhole
  <2> SUFFICES ASSUME ChildInv, wd = "returned", NEW s \in Streams
               PROVE  /\ kept[s] = AtMost(emitted[s], Kept)
                      /\ truncated[s] <=> emitted[s] > Kept
    BY DEF OutputWhole
  <2>1. pump[s] = "eof"
    BY DEF ChildInv, JoinedInOrder, Streams
  <2>2. pipe[s] = 0
    BY <2>1 DEF ChildInv, Drained
  <2>3. Taken(s) = emitted[s]
    BY <2>2 DEF ChildInv, ChildTypeOK, Taken
  <2> QED BY <2>3 DEF ChildInv, Counts
<1>2. ChildInv => ReportIsTrue
  BY <1>1 DEF ChildInv, ReportIsTrue
<1> QED BY <1>2, ChildInvariance, PTL

\* SIGTERM and SIGKILL are sent only while the leader is not reaped, so its pid
\* and group cannot have become another program's.
THEOREM OwnGroup == ChildSpec => OwnGroupOnly
<1>1. ChildInv /\ [ChildNext]_childVars => [signals' # signals => ~reaped]_childVars
  <2> SUFFICES ASSUME ChildInv, ChildNext, signals' # signals PROVE ~reaped
    OBVIOUS
  <2>1. Terminate \/ Kill
    BY DEF ChildNext, Command, Write, Exits, Fork, Watchdog, ReapLeader, StillRuns, Sleep, JoinPump, Deadline, GraceEnds,
           Pump, PumpChunk, Eof, DisplayFails, parent
  <2> QED BY <2>1 DEF Terminate, Kill, ChildInv, JoinedInOrder, Watching
<1> QED BY <1>1, ChildInvariance, PTL DEF ChildSpec, OwnGroupOnly

-----------------------------------------------------------------------------
(***************************************************************************)
(* Transport: curl, and what is decoded of its output.                     *)
(***************************************************************************)
Whole == written = Len(body.bytes)
AtDone == heard # <<>> /\ IsDone(Last(heard))

\* What has been decoded was received, and a message takes a field name.
Framed ==
  /\ ToSet(dec.buf) \subseteq ToSet(Received)
  /\ dec.has \/ heard # <<>> => "D" \in ToSet(Received)

\* Which process and which bytes a place of the shell goes with, and what curl's
\* exit says.
Curl ==
  /\ fed <= written
  /\ pc = "start" => child = "none"
  /\ pc \in {"send", "read", "decode", "reap"} => child # "none"
  /\ child = "exited" /\ exit = 0 => Whole /\ body.status = "ok"
  /\ child = "exited" /\ exit = 1 /\ ~broken => (Whole => body.status = "error")
  /\ child = "exited" /\ pc = "send" => broken

\* Where the shell waits for curl, stdout has ended or [DONE] was met.
Read == (child = "exited" /\ fed = written) \/ AtDone

\* What a result goes back to.
Told ==
  /\ result # "none" <=> pc = "returned"
  /\ pc = "reap" => Read
  /\ result = "ok" => child = "exited" /\ exit = 0 /\ Read
  /\ result = "http" => child = "exited" /\ exit = 1 /\ Read /\ ApiError(Received)
  /\ result = "unavailable" => child = "none"
  /\ result = "transport" =>
       \/ broken \/ dec.error # "none" \/ heard # <<>>
       \/ child = "exited" /\ exit = 1 /\ fed = written /\ ~ApiError(Received)

IInv == TypeOK /\ Framed /\ Curl /\ Told

-----------------------------------------------------------------------------
(***************************************************************************)
(* Sequences and the decoder.                                              *)
(***************************************************************************)
\* A part of a sequence is made of its elements.
LEMMA PartOf ==
  ASSUME NEW S, NEW s \in Seq(S), NEW m \in Nat \ {0}, NEW n \in Int, n <= Len(s)
  PROVE  SubSeq(s, m, n) \in Seq(S) /\ ToSet(SubSeq(s, m, n)) \subseteq ToSet(s)
<1>1. Len(s) \in Nat /\ DOMAIN s = 1 .. Len(s) /\ \A i \in 1 .. Len(s) : s[i] \in S
  BY LenProperties, ElementOfSeq
<1>2. \A i \in m .. n : s[i] \in S /\ i \in DOMAIN s
  BY <1>1
<1>3. /\ SubSeq(s, m, n) \in Seq(S)
      /\ Len(SubSeq(s, m, n)) = IF m <= n THEN n - m + 1 ELSE 0
      /\ \A i \in 1 .. n - m + 1 : SubSeq(s, m, n)[i] = s[m + i - 1]
  BY <1>2, SubSeqProperties
<1> DEFINE t == SubSeq(s, m, n)
<1>4. DOMAIN t = 1 .. Len(t)
  BY <1>3, LenProperties
<1> HIDE DEF t
<1>5. ASSUME NEW i \in DOMAIN t PROVE t[i] \in ToSet(s)
  <2>1. i \in 1 .. n - m + 1
    BY <1>3, <1>4 DEF t
  <2>2. t[i] = s[m + i - 1] /\ m + i - 1 \in m .. n
    BY <1>3, <2>1 DEF t
  <2> QED BY <1>2, <2>2 DEF ToSet
<1> QED BY <1>3, <1>5 DEF ToSet, t

\* Two sequences in a row are made of the elements of both.
LEMMA RowOf ==
  ASSUME NEW S, NEW s \in Seq(S), NEW t \in Seq(S)
  PROVE  s \o t \in Seq(S) /\ ToSet(s \o t) = ToSet(s) \cup ToSet(t)
<1>1. Range(s \o t) = Range(s) \cup Range(t)
  BY RangeConcatenation
<1>2. \A q : Range(q) = ToSet(q)
  BY DEF Range, ToSet
<1> QED BY <1>1, <1>2, ConcatProperties

\* Of some numbers one is the least.
LEMMA LeastNatural ==
  ASSUME NEW T, T \subseteq Nat, T # {}
  PROVE  \E x \in T : \A y \in T : x <= y
<1>1. PICK x \in T : \A y \in T : <<y, x>> \notin OpToRel(<, Nat)
  BY NatLessThanWellFounded, WFMin, Zenon
<1>2. ASSUME NEW y \in T PROVE x <= y
  <2>1. CASE y < x
    <3>1. <<y, x>> \in OpToRel(<, Nat)  BY <2>1 DEF OpToRel
    <3> QED  BY <1>1, <3>1
  <2> QED  BY <2>1
<1> QED  BY <1>2

\* The line the decoder takes, and what it leaves.
LEMMA LineTaken ==
  ASSUME NEW b \in Seq(Byte), Taking(b) = "line"
  PROVE  /\ TakenLine(b) \in Seq(Byte) /\ ToSet(TakenLine(b)) \subseteq ToSet(b)
         /\ Rest(b) \in Seq(Byte) /\ ToSet(Rest(b)) \subseteq ToSet(b)
<1> DEFINE T == {i \in DOMAIN b : Ends(b[i])}
<1>1. Len(b) \in Nat /\ DOMAIN b = 1 .. Len(b)
  BY LenProperties
<1>2. T \subseteq Nat /\ T # {}
  BY <1>1 DEF Taking, HasTerminator
<1>3. \E i \in DOMAIN b : Ends(b[i]) /\ \A j \in 1 .. i - 1 : ~Ends(b[j])
  <2>1. PICK i \in T : \A j \in T : i <= j
    <3> HIDE DEF T
    <3> QED BY <1>2, LeastNatural
  <2>2. \A j \in 1 .. i - 1 : j \in DOMAIN b /\ j \notin T
    BY <1>1, <2>1
  <2> QED BY <2>1, <2>2
<1>4. Terminator(b) \in DOMAIN b
  BY <1>3 DEF Terminator
<1>5. /\ LineBytes(b) \in Int /\ LineBytes(b) <= Len(b)
      /\ Consumed(b) + 1 \in Nat \ {0}
  BY <1>1, <1>4 DEF LineBytes, Consumed
<1> QED BY <1>1, <1>5, PartOf DEF TakenLine, Rest

\* A line whose field is `data` names it.
LEMMA FieldNamed ==
  ASSUME NEW l \in Seq(Byte), Field(l) = <<"D">>
  PROVE  "D" \in ToSet(l) /\ Value(l) \in Seq(Byte)
<1>1. Len(l) \in Nat /\ DOMAIN l = 1 .. Len(l)
  BY LenProperties
<1>2. ToSet(<<"D">>) = {"D"}
  BY DEF ToSet
<1>3. CASE Colons(l) = {}
  <2>1. Field(l) = l /\ Value(l) = <<>>
    BY <1>3 DEF Field, Value
  <2> QED BY <1>2, <2>1, EmptySeq
<1>4. CASE Colons(l) # {}
  <2>1. Colons(l) \subseteq Nat
    BY <1>1 DEF Colons
  <2>2. Min(Colons(l)) \in Colons(l)
    BY <1>4, <2>1, LeastNatural DEF Min
  <2>3. Min(Colons(l)) \in 1 .. Len(l)
    BY <1>1, <2>2 DEF Colons
  <2>4. ToSet(SubSeq(l, 1, Min(Colons(l)) - 1)) \subseteq ToSet(l)
    BY <1>1, <2>3, PartOf
  <2>5. "D" \in ToSet(l)
    BY <1>2, <1>4, <2>4 DEF Field
  <2> DEFINE c == Min(Colons(l))
             skip == IF c < Len(l) /\ l[c + 1] = " " THEN 2 ELSE 1
  <2>6. c \in 1 .. Len(l) /\ skip \in {1, 2}
    BY <2>3
  <2>7. Value(l) = SubSeq(l, c + skip, Len(l))
    BY <1>4 DEF Value
  <2> HIDE DEF c, skip
  <2>8. c + skip \in Nat \ {0}
    BY <1>1, <2>6
  <2>9. Value(l) \in Seq(Byte)
    BY <1>1, <2>7, <2>8, PartOf
  <2> QED BY <2>5, <2>9
<1> QED BY <1>3, <1>4

\* A round keeps to what was fed, and a message has had its field name.
LEMMA RoundSound ==
  ASSUME NEW d \in Decoder, NEW R, ToSet(d.buf) \subseteq R, d.has => "D" \in R
  PROVE  /\ Round(d) \in Decoder /\ ToSet(Round(d).buf) \subseteq R
         /\ Round(d).has => "D" \in R
         /\ Emits(d) => d.has /\ Message(d) \in Seq(Byte) /\ Round(d).error = "none"
<1>1. /\ d.buf \in Seq(Byte) /\ d.data \in Seq(Byte) /\ d.has \in BOOLEAN
      /\ d.error \in {"none", "long", "utf8"}
  BY DEF Decoder
<1>2. Message(d) \in Seq(Byte)
  BY <1>1, PartOf, LenProperties DEF Message, Front
<1>3. CASE d.error # "none" \/ Taking(d.buf) = "more"
  <2>1. Round(d) = d /\ ~Emits(d)
    BY <1>3 DEF Round, Emits
  <2> QED BY <2>1
<1>4. CASE d.error = "none" /\ Taking(d.buf) = "long"
  <2>1. Round(d) = [d EXCEPT !.error = "long"] /\ ~Emits(d)
    BY <1>4 DEF Round, Emits
  <2> QED BY <1>1, <2>1 DEF Decoder
<1>5. CASE d.error = "none" /\ Taking(d.buf) # "more" /\ Taking(d.buf) # "long"
  <2> DEFINE e == [d EXCEPT !.buf = Rest(@)]
             line == TakenLine(d.buf)
  <2>1. Taking(d.buf) = "line"
    BY <1>5 DEF Taking
  <2>2. /\ line \in Seq(Byte) /\ ToSet(line) \subseteq R
        /\ Rest(d.buf) \in Seq(Byte) /\ ToSet(Rest(d.buf)) \subseteq R
    BY <1>1, <2>1, LineTaken
  <2>3. Round(d) = Absorbed(e, line) /\ (Emits(d) <=> Dispatches(d, line))
    BY <1>5, <2>1 DEF Round, Emits
  <2>4. /\ e \in Decoder /\ e.buf = Rest(d.buf) /\ e.has = d.has /\ e.error = "none"
        /\ e.data = d.data
    BY <1>1, <1>5, <2>2 DEF Decoder
  <2>5. Dispatches(e, line) <=> Dispatches(d, line)
    BY <2>4 DEF Dispatches
  <2> HIDE DEF e, line
  <2>6. CASE Dispatches(e, line)
    <3>1. Absorbed(e, line) = [e EXCEPT !.has = FALSE, !.data = <<>>]
      BY <2>6 DEF Absorbed, Dispatched, Dispatches
    <3>2. Absorbed(e, line) \in Decoder
      BY <2>4, <3>1, EmptySeq DEF Decoder
    <3>3. /\ Absorbed(e, line).buf = e.buf /\ Absorbed(e, line).error = "none"
          /\ Absorbed(e, line).has = FALSE
      BY <2>4, <3>1 DEF Decoder
    <3> QED BY <1>2, <2>2, <2>3, <2>4, <2>5, <2>6, <3>2, <3>3 DEF Dispatches
  <2>7. CASE ~Dispatches(e, line)
    <3>1. \/ Absorbed(e, line) = e
          \/ Absorbed(e, line) = [e EXCEPT !.error = "utf8"]
          \/ /\ Field(line) = <<"D">>
             /\ Absorbed(e, line) = [e EXCEPT !.data = @ \o Value(line) \o <<Lf>>, !.has = TRUE]
      BY <2>7 DEF Absorbed, Dispatches
    <3>2. CASE Absorbed(e, line) = e \/ Absorbed(e, line) = [e EXCEPT !.error = "utf8"]
      <4>1. Absorbed(e, line) \in Decoder /\ Absorbed(e, line).buf = e.buf
            /\ Absorbed(e, line).has = e.has
        BY <2>4, <3>2 DEF Decoder
      <4> QED BY <2>2, <2>3, <2>4, <2>5, <2>7, <4>1
    <3>3. CASE /\ Field(line) = <<"D">>
               /\ Absorbed(e, line) = [e EXCEPT !.data = @ \o Value(line) \o <<Lf>>, !.has = TRUE]
      <4>1. "D" \in R /\ Value(line) \in Seq(Byte)
        BY <2>2, <3>3, FieldNamed
      <4>2. <<Lf>> \in Seq(Byte)
        <5>1. Lf \in Byte
          BY SseAssumption DEF Lf
        <5> QED BY <5>1
      <4>3. e.data \o Value(line) \o <<Lf>> \in Seq(Byte)
        BY <1>1, <2>4, <4>1, <4>2, ConcatProperties
      <4>4. Absorbed(e, line) \in Decoder /\ Absorbed(e, line).buf = e.buf
        BY <2>4, <3>3, <4>3 DEF Decoder
      <4> QED BY <2>2, <2>3, <2>4, <2>5, <2>7, <4>1, <4>4
    <3> QED BY <3>1, <3>2, <3>3
  <2> QED BY <2>6, <2>7
<1> QED BY <1>3, <1>4, <1>5

-----------------------------------------------------------------------------
(***************************************************************************)
(* The assembly.                                                           *)
(***************************************************************************)
\* Induction over the naturals, for a set of them.
LEMMA NatSetInduction ==
  ASSUME NEW S, 0 \in S, \A n \in Nat : n \in S => n + 1 \in S
  PROVE  \A n \in Nat : n \in S
<1> DEFINE T == Nat \ S
<1>1. SUFFICES ASSUME T # {} PROVE FALSE  BY <1>1
<1>2. PICK x \in T : \A y \in T : x <= y  BY <1>1, LeastNatural
<1>3. x \in Nat /\ x # 0 /\ x - 1 \in Nat /\ x - 1 \notin T  BY <1>2
<1>4. x - 1 + 1 \in S /\ x - 1 + 1 = x  BY <1>3
<1> QED  BY <1>2, <1>4

\* A delta makes slots of slots.
LEMMA DeltaTyped ==
  ASSUME NEW slots \in Seq(Slot), NEW d \in Delta
  PROVE  AbsorbToolCall(slots, d) \in Seq(Slot)
<1>1. ASSUME NEW s \in Slot PROVE Extended(s, d) \in Slot
  <2>1. s.args \o d.frag \in Seq(Words)
    BY ConcatProperties DEF Slot, Delta
  <2> QED BY <2>1 DEF Extended, OrElse, Slot, Delta
<1>2. CASE SlotOf(slots, d) = {}
  <2>1. NewSlot(d) \in Slot
    <3>1. <<>> \in Seq(Words) /\ d.index \in Nat /\ "" \in Words
      <4>1. <<>> \in Seq(Words)
        BY EmptySeq
      <4>2. d.index \in Nat
        BY DEF Delta
      <4>3. "" \in Words
        BY TransportAssumption
      <4> QED BY <4>1, <4>2, <4>3
    <3> QED BY <3>1 DEF NewSlot, Slot, NoText
  <2> QED BY <1>1, <1>2, <2>1, AppendProperties DEF AbsorbToolCall
<1>3. CASE SlotOf(slots, d) # {}
  <2>1. Len(slots) \in Nat /\ DOMAIN slots = 1 .. Len(slots)
    BY LenProperties
  <2>2. SlotOf(slots, d) \subseteq 1 .. Len(slots)
    BY <2>1 DEF SlotOf
  <2>3. Min(SlotOf(slots, d)) \in SlotOf(slots, d)
    BY <1>3, <2>1, <2>2, LeastNatural DEF Min
  <2> DEFINE m == Min(SlotOf(slots, d))
  <2>4. m \in 1 .. Len(slots) /\ slots[m] \in Slot
    BY <2>2, <2>3, ElementOfSeq
  <2>5. AbsorbToolCall(slots, d) = [slots EXCEPT ![m] = Extended(slots[m], d)]
    BY <1>3 DEF AbsorbToolCall
  <2> HIDE DEF m
  <2> QED BY <1>1, <2>4, <2>5, ExceptSeq
<1> QED BY <1>2, <1>3

\* Deltas are taken one behind the other.
LEMMA DeltasSteps ==
  ASSUME NEW slots \in Seq(Slot), NEW ds \in Seq(Delta)
  PROVE  \E f : /\ f[0] = slots /\ AbsorbToolCalls(slots, ds) = f[Len(ds)]
                /\ \A n \in 0 .. Len(ds) : f[n] \in Seq(Slot)
                /\ \A n \in 1 .. Len(ds) : f[n] = AbsorbToolCall(f[n - 1], ds[n])
<1> DEFINE Step(f, k) ==
      f = [n \in 0 .. k |-> IF n = 0 THEN slots ELSE AbsorbToolCall(f[n - 1], ds[n])]
           S == {k \in Nat : k <= Len(ds) => \E f : Step(f, k) /\ \A n \in 0 .. k : f[n] \in Seq(Slot)}
<1>1. Len(ds) \in Nat /\ \A n \in 1 .. Len(ds) : ds[n] \in Delta
  BY LenProperties, ElementOfSeq
<1>2. 0 \in S
  <2> DEFINE f == [n \in 0 .. 0 |-> slots]
  <2>1. Step(f, 0) /\ \A n \in 0 .. 0 : f[n] \in Seq(Slot)
    OBVIOUS
  <2> QED BY <2>1
<1>3. ASSUME NEW k \in Nat, k \in S PROVE k + 1 \in S
  <2>1. SUFFICES ASSUME k + 1 <= Len(ds)
                 PROVE  \E f : Step(f, k + 1) /\ \A n \in 0 .. k + 1 : f[n] \in Seq(Slot)
    OBVIOUS
  <2>2. PICK f : Step(f, k) /\ \A n \in 0 .. k : f[n] \in Seq(Slot)
    <3>1. k <= Len(ds)
      BY <1>1, <2>1
    <3> HIDE DEF Step
    <3> QED BY <1>3, <3>1
  <2> DEFINE g == [n \in 0 .. k + 1 |-> IF n <= k THEN f[n] ELSE AbsorbToolCall(f[k], ds[k + 1])]
  <2>3. ASSUME NEW n \in 0 .. k + 1
        PROVE  g[n] = (IF n = 0 THEN slots ELSE AbsorbToolCall(g[n - 1], ds[n])) /\ g[n] \in Seq(Slot)
    <3>1. CASE n = 0
      BY <2>2, <3>1
    <3>2. CASE n # 0 /\ n <= k
      <4>1. n \in 0 .. k /\ n - 1 \in 0 .. k + 1 /\ n - 1 <= k
        BY <3>2
      <4>2. f[n] = AbsorbToolCall(f[n - 1], ds[n])
        BY <2>2, <3>2, <4>1
      <4> QED BY <2>2, <3>2, <4>1, <4>2
    <3>3. CASE n = k + 1
      <4>1. n # 0 /\ ~(n <= k) /\ n - 1 = k /\ k \in 0 .. k + 1 /\ k \in 0 .. k
        BY <3>3
      <4>2. g[n] = AbsorbToolCall(f[k], ds[n]) /\ g[n - 1] = f[k]
        BY <3>3, <4>1
      <4>3. AbsorbToolCall(f[k], ds[n]) \in Seq(Slot)
        <5>1. f[k] \in Seq(Slot) /\ ds[n] \in Delta
          BY <1>1, <2>1, <2>2, <3>3, <4>1
        <5> QED BY <5>1, DeltaTyped
      <4> QED BY <4>1, <4>2, <4>3
    <3> QED BY <3>1, <3>2, <3>3
  <2>4. g = [n \in 0 .. k + 1 |-> g[n]]
    OBVIOUS
  <2> HIDE DEF g
  <2>5. Step(g, k + 1) /\ \A n \in 0 .. k + 1 : g[n] \in Seq(Slot)
    BY <2>3, <2>4
  <2> QED BY <2>5
<1>4. \A n \in Nat : n \in S
  <2> HIDE DEF S
  <2> QED BY <1>2, <1>3, NatSetInduction
<1>5. PICK f : Step(f, Len(ds)) /\ \A n \in 0 .. Len(ds) : f[n] \in Seq(Slot)
  <2>1. Len(ds) \in S
    <3> HIDE DEF S
    <3> QED BY <1>1, <1>4
  <2>2. Len(ds) <= Len(ds)
    BY <1>1
  <2> HIDE DEF Step
  <2> QED BY <2>1, <2>2
<1> DEFINE after == CHOOSE h : Step(h, Len(ds))
<1>6. Step(after, Len(ds))
  BY <1>5
<1>7. AbsorbToolCalls(slots, ds) = after[Len(ds)]
  BY DEF AbsorbToolCalls
<1> HIDE DEF after
<1>8. \A n \in 0 .. Len(ds) :
        after[n] = IF n = 0 THEN slots ELSE AbsorbToolCall(after[n - 1], ds[n])
  BY <1>6
<1> DEFINE Q == {n \in Nat : n <= Len(ds) => after[n] \in Seq(Slot)}
<1>9. 0 \in Q
  BY <1>1, <1>8
<1>10. ASSUME NEW n \in Nat, n \in Q PROVE n + 1 \in Q
  <2>1. SUFFICES ASSUME n + 1 <= Len(ds) PROVE after[n + 1] \in Seq(Slot)
    OBVIOUS
  <2>2. n + 1 \in 0 .. Len(ds) /\ n + 1 # 0 /\ (n + 1) - 1 = n /\ n <= Len(ds) /\ n + 1 \in 1 .. Len(ds)
    BY <1>1, <2>1
  <2>3. after[n + 1] = AbsorbToolCall(after[n], ds[n + 1])
    BY <1>8, <2>2
  <2>4. after[n] \in Seq(Slot) /\ ds[n + 1] \in Delta
    BY <1>1, <1>10, <2>2
  <2> QED BY <2>3, <2>4, DeltaTyped
<1>11. \A n \in Nat : n \in Q
  <2> HIDE DEF Q
  <2> QED BY <1>9, <1>10, NatSetInduction
<1>12. after[0] = slots
  BY <1>1, <1>8
<1>13. \A n \in 1 .. Len(ds) : after[n] = AbsorbToolCall(after[n - 1], ds[n])
  BY <1>1, <1>8
<1>14. \A n \in 0 .. Len(ds) : after[n] \in Seq(Slot)
  BY <1>1, <1>11
<1> QED BY <1>7, <1>12, <1>13, <1>14

\* So slots stay slots.
LEMMA DeltasTyped ==
  ASSUME NEW slots \in Seq(Slot), NEW ds \in Seq(Delta)
  PROVE  AbsorbToolCalls(slots, ds) \in Seq(Slot)
<1>1. Len(ds) \in 0 .. Len(ds)
  BY LenProperties
<1> QED BY <1>1, DeltasSteps

\* A payload that is a chunk is one, and one more makes an assembly of an assembly.
LEMMA ChunkTyped ==
  ASSUME NEW data, IsChunk(data), NEW a \in Assembly
  PROVE  AbsorbChunk(a, PayloadOf(data)) \in Assembly
<1>1. PICK p \in DOMAIN Json : Holds(data, p) /\ Decodable(Json[p])
  BY DEF IsChunk
<1>2. ASSUME NEW q, Holds(data, q) PROVE q = p
  BY <1>1, <1>2 DEF Holds
<1> DEFINE c == PayloadOf(data)
<1>3. c = ChunkOf(Json[p])
  <2>1. (CHOOSE q \in DOMAIN Json : Holds(data, q)) = p
    BY <1>1, <1>2
  <2> QED BY <2>1 DEF PayloadOf
<1>4. c \in Chunk
  BY <1>1, <1>3, TransportAssumption
<1> HIDE DEF c
<1>5. AbsorbToolCalls(a.slots, c.tools) \in Seq(Slot)
  BY <1>4, DeltasTyped DEF Chunk, Assembly
<1>6. a.content \o c.content \in Seq(Words)
  BY <1>4, ConcatProperties DEF Chunk, Assembly
<1>7. OrElse(c.finish, a.finish) \in Words /\ OrElse(c.usage, a.usage) \in Words
  BY <1>4 DEF OrElse, Chunk, Assembly
<1> QED BY <1>5, <1>6, <1>7 DEF AbsorbChunk, Assembly, c

-----------------------------------------------------------------------------
(***************************************************************************)
(* The invariant.                                                          *)
(***************************************************************************)
LEMMA InvInit == Init => IInv
<1> SUFFICES ASSUME Init PROVE IInv
  OBVIOUS
<1>1. body.bytes \in Seq(Byte) /\ Len(body.bytes) \in Nat
  BY TransportAssumption, LenProperties DEF Init
<1>2. NewDecoder \in Decoder /\ ToSet(NewDecoder.buf) = {} /\ NewDecoder.has = FALSE
  BY EmptySeq DEF NewDecoder, Decoder, ToSet
<1>3. NewAssembly \in Assembly
  <2>1. "" \in Words /\ <<>> \in Seq(Words) /\ <<>> \in Seq(Slot)
    BY TransportAssumption, EmptySeq
  <2> QED BY <2>1 DEF NewAssembly, Assembly, NoText
<1>4. TypeOK
  <2>1. 0 \in 0 .. Len(body.bytes) /\ <<>> \in Seq(Seq(Byte))
    BY <1>1, EmptySeq
  <2> QED BY <1>2, <1>3, <2>1 DEF Init, TypeOK
<1>5. Framed
  BY <1>2 DEF Init, Framed
<1>6. Curl
  BY <1>1 DEF Init, Curl
<1>7. Told
  BY DEF Init, Told
<1> QED BY <1>4, <1>5, <1>6, <1>7 DEF IInv

\* The bytes there are, and those received.
LEMMA BytesTyped ==
  ASSUME TypeOK
  PROVE  /\ body.bytes \in Seq(Byte) /\ Len(body.bytes) \in Nat
         /\ body.status \in {"ok", "error"}
         /\ written \in Nat /\ fed \in Nat /\ written <= Len(body.bytes) /\ fed <= Len(body.bytes)
         /\ Received \in Seq(Byte) /\ ToSet(Received) \subseteq ToSet(body.bytes)
<1>1. body.bytes \in Seq(Byte) /\ Len(body.bytes) \in Nat /\ body.status \in {"ok", "error"}
  BY TransportAssumption, LenProperties DEF TypeOK
<1>2. written \in Nat /\ fed \in Nat /\ written <= Len(body.bytes) /\ fed <= Len(body.bytes)
  BY <1>1 DEF TypeOK
<1>3. Received \in Seq(Byte) /\ ToSet(Received) \subseteq ToSet(body.bytes)
  BY <1>1, <1>2, PartOf DEF Received
<1> QED BY <1>1, <1>2, <1>3

\* Reading goes on with the bytes that follow.
LEMMA ChunkRead ==
  ASSUME TypeOK, ReadChunk
  PROVE  LET chunk == SubSeq(body.bytes, fed + 1, written) IN
           /\ chunk \in Seq(Byte)
           /\ ToSet(Received') = ToSet(Received) \cup ToSet(chunk)
<1> DEFINE chunk == SubSeq(body.bytes, fed + 1, written)
<1>1. fed < written /\ fed' = written /\ body' = body
  BY DEF ReadChunk
<1>2. /\ body.bytes \in Seq(Byte) /\ Len(body.bytes) \in Nat
      /\ written \in Nat /\ fed \in Nat /\ written <= Len(body.bytes)
  BY BytesTyped
<1>3. chunk \in Seq(Byte)
  BY <1>2, PartOf
<1>4. Received \in Seq(Byte)
  BY BytesTyped
<1>5. SubSeq(body.bytes, 1, fed) \o SubSeq(body.bytes, fed + 1, written) = SubSeq(body.bytes, 1, written)
  BY <1>1, <1>2, ConcatAdjacentSubSeq
<1>6. Received' = Received \o chunk
  BY <1>1, <1>5 DEF Received
<1> QED BY <1>3, <1>4, <1>6, RowOf

\* Every step keeps the types.
LEMMA TypeNext == TypeOK /\ [Next]_vars => TypeOK'
<1> SUFFICES ASSUME TypeOK, [Next]_vars PROVE TypeOK'
  OBVIOUS
<1>1. /\ body.bytes \in Seq(Byte) /\ Len(body.bytes) \in Nat
      /\ written \in Nat /\ fed \in Nat /\ written <= Len(body.bytes) /\ fed <= Len(body.bytes)
  BY BytesTyped
<1>2. CASE Unavailable \/ Spawn \/ Send \/ EndOfBody \/ ReadFails \/ Starve \/ Reap \/ WaitFails
  <2>1. /\ body' = body /\ written' = written /\ fed' = fed /\ dec' = dec /\ asm' = asm /\ heard' = heard
        /\ exit' = exit
    BY <1>2 DEF Unavailable, Spawn, Send, EndOfBody, ReadFails, Starve, Reap, WaitFails
  <2>2. child' \in {"none", "alive", "exited"} /\ open' \in BOOLEAN /\ broken' \in BOOLEAN
    BY <1>2 DEF Unavailable, Spawn, Send, EndOfBody, ReadFails, Starve, Reap, WaitFails, Return, TypeOK
  <2>3. /\ pc' \in {"start", "send", "read", "decode", "reap", "returned"}
        /\ result' \in {"none", "ok", "http", "transport", "unavailable"}
    BY <1>2 DEF Unavailable, Spawn, Send, EndOfBody, ReadFails, Starve, Reap, WaitFails, Return, Classify, TypeOK
  <2> QED BY <2>1, <2>2, <2>3 DEF TypeOK
<1>3. CASE ReadChunk
  <2>1. dec' \in Decoder
    <3>1. SubSeq(body.bytes, fed + 1, written) \in Seq(Byte)
      BY <1>3, ChunkRead
    <3>2. dec.buf \o SubSeq(body.bytes, fed + 1, written) \in Seq(Byte)
      BY <3>1, ConcatProperties DEF TypeOK, Decoder
    <3> QED BY <1>3, <3>2 DEF ReadChunk, Feed, TypeOK, Decoder
  <2> QED BY <1>1, <1>3, <2>1 DEF ReadChunk, TypeOK
<1>4. CASE SkipLine
  <2>1. dec' \in Decoder
    <3>1. ToSet(dec.buf) \subseteq ToSet(dec.buf) \cup {"D"} /\ "D" \in ToSet(dec.buf) \cup {"D"}
      OBVIOUS
    <3> QED BY <1>4, <3>1, RoundSound DEF SkipLine, TypeOK
  <2> QED BY <1>4, <2>1 DEF SkipLine, Return, TypeOK
<1>5. CASE Deliver
  <2> DEFINE data == Message(dec)
  <2>1. dec' \in Decoder /\ data \in Seq(Byte)
    <3>1. ToSet(dec.buf) \subseteq ToSet(dec.buf) \cup {"D"} /\ "D" \in ToSet(dec.buf) \cup {"D"}
      OBVIOUS
    <3> QED BY <1>5, <3>1, RoundSound DEF Deliver, TypeOK
  <2>2. heard' \in Seq(Seq(Byte))
    BY <1>5, <2>1, AppendProperties DEF Deliver, TypeOK
  <2>3. asm' \in Assembly
    <3>1. asm' = asm \/ (IsChunk(data) /\ asm' = AbsorbChunk(asm, PayloadOf(data)))
      BY <1>5 DEF Deliver
    <3> QED BY <3>1, ChunkTyped DEF TypeOK
  <2>4. /\ pc' \in {"start", "send", "read", "decode", "reap", "returned"}
        /\ result' \in {"none", "ok", "http", "transport", "unavailable"} /\ open' \in BOOLEAN
    BY <1>5 DEF Deliver, Return, TypeOK
  <2>5. UNCHANGED <<body, child, exit, written, fed, broken>>
    BY <1>5 DEF Deliver
  <2> QED BY <2>1, <2>2, <2>3, <2>4, <2>5 DEF TypeOK
<1>6. CASE CurlWrite
  BY <1>1, <1>6 DEF CurlWrite, shell, TypeOK
<1>7. CASE CurlEnd \/ CurlEpipe \/ CurlFails
  BY <1>7 DEF CurlEnd, CurlEpipe, CurlFails, shell, TypeOK
<1>8. CASE UNCHANGED vars
  BY <1>8 DEF vars, TypeOK
<1> QED BY <1>2, <1>3, <1>4, <1>5, <1>6, <1>7, <1>8 DEF Next, Shell, Answer

\* Decoding takes from what was received, and a message from a data line of it.
LEMMA FramedNext == TypeOK /\ Framed /\ [Next]_vars => Framed'
<1> SUFFICES ASSUME TypeOK, Framed, [Next]_vars PROVE Framed'
  OBVIOUS
<1>1. CASE UNCHANGED <<body, fed, dec, heard>>
  BY <1>1 DEF Framed, Received
<1>2. CASE ReadChunk
  <2> DEFINE chunk == SubSeq(body.bytes, fed + 1, written)
  <2>1. chunk \in Seq(Byte) /\ ToSet(Received') = ToSet(Received) \cup ToSet(chunk)
    BY <1>2, ChunkRead
  <2>2. dec.buf \in Seq(Byte) /\ dec \in Decoder
    BY DEF TypeOK, Decoder
  <2>3. dec' = [dec EXCEPT !.buf = dec.buf \o chunk] /\ heard' = heard
    BY <1>2 DEF ReadChunk, Feed
  <2> HIDE DEF chunk
  <2>4. dec'.buf = dec.buf \o chunk /\ dec'.has = dec.has
    BY <2>2, <2>3 DEF Decoder
  <2>5. ToSet(dec.buf \o chunk) = ToSet(dec.buf) \cup ToSet(chunk)
    BY <2>1, <2>2, RowOf
  <2> QED BY <2>1, <2>3, <2>4, <2>5 DEF Framed
<1>3. CASE SkipLine \/ Deliver
  <2>1. Received' = Received /\ dec' = Round(dec)
    BY <1>3 DEF SkipLine, Deliver, Received
  <2>2. dec \in Decoder
    BY DEF TypeOK
  <2>3. ToSet(dec'.buf) \subseteq ToSet(Received) /\ (dec'.has => "D" \in ToSet(Received))
    BY <2>1, <2>2, RoundSound DEF Framed
  <2>4. heard' # heard => dec.has
    <3>1. heard' # heard => Emits(dec)
      BY <1>3 DEF SkipLine, Deliver
    <3> QED BY <2>2, <3>1, RoundSound DEF Framed
  <2> QED BY <2>1, <2>3, <2>4 DEF Framed
<1>4. Next => ReadChunk \/ SkipLine \/ Deliver \/ UNCHANGED <<body, fed, dec, heard>>
  BY DEF Next, Shell, Answer, Unavailable, Spawn, Send, EndOfBody, ReadFails, Starve, Reap, WaitFails,
         CurlWrite, CurlEnd, CurlEpipe, CurlFails, shell
<1>5. UNCHANGED vars => UNCHANGED <<body, fed, dec, heard>>
  BY DEF vars
<1> QED BY <1>1, <1>2, <1>3, <1>4, <1>5

\* Where curl is follows the shell, and its exit the body.
LEMMA CurlNext == TypeOK /\ Curl /\ [Next]_vars => Curl'
<1> SUFFICES ASSUME TypeOK, Curl, [Next]_vars PROVE Curl'
  OBVIOUS
<1>1. /\ Len(body.bytes) \in Nat /\ written \in Nat /\ fed \in Nat
      /\ body.status \in {"ok", "error"}
  BY BytesTyped
<1>2. CASE Shell
  <2>1. body' = body /\ written' = written /\ exit' = exit /\ fed' <= written
    BY <1>1, <1>2 DEF Shell, Unavailable, Spawn, Send, ReadChunk, EndOfBody, ReadFails, Starve,
           SkipLine, Deliver, Reap, WaitFails, Curl
  <2>2. /\ pc' # "start" /\ (broken => broken')
        /\ \/ child' = child /\ pc' = "returned"
           \/ child' = child /\ pc \in {"send", "read", "decode", "reap"} /\ pc' # "send"
           \/ child' = "alive"
    BY <1>2 DEF Shell, Unavailable, Spawn, Send, ReadChunk, EndOfBody, ReadFails, Starve,
           SkipLine, Deliver, Reap, WaitFails, Return, TypeOK
  <2> QED BY <1>1, <2>1, <2>2 DEF Curl, Whole, TypeOK
<1>3. CASE CurlWrite
  BY <1>1, <1>3 DEF CurlWrite, Transferring, shell, Curl, Whole
<1>4. CASE CurlEnd \/ CurlEpipe \/ CurlFails
  BY <1>1, <1>4 DEF CurlEnd, CurlEpipe, CurlFails, Transferring, shell, Curl, Whole
<1>5. CASE UNCHANGED vars
  BY <1>5 DEF vars, Curl, Whole
<1> QED BY <1>2, <1>3, <1>4, <1>5 DEF Next, Answer

\* A result is told behind the reaping, from the exit and from what was received.
LEMMA ToldNext == IInv /\ [Next]_vars => Told'
<1> SUFFICES ASSUME IInv, [Next]_vars PROVE Told'
  OBVIOUS
<1>1. TypeOK /\ Framed /\ Curl /\ Told
  BY DEF IInv
<1>2. /\ body.bytes \in Seq(Byte) /\ Len(body.bytes) \in Nat
      /\ written \in Nat /\ fed \in Nat /\ written <= Len(body.bytes) /\ fed <= Len(body.bytes)
  BY <1>1, BytesTyped
<1>3. CASE Unavailable \/ Spawn
  <2>1. pc = "start" /\ child = "none" /\ result = "none"
    BY <1>1, <1>3 DEF Unavailable, Spawn, Curl, Told
  <2> QED BY <1>3, <2>1 DEF Unavailable, Spawn, Return, Told
<1>4. CASE Send
  <2>1. pc = "send" /\ result = "none" /\ (child = "exited" => broken)
    BY <1>1, <1>4 DEF Send, Curl, Told
  <2> QED BY <1>4, <2>1 DEF Send, Return, Told
<1>5. CASE ReadChunk \/ Starve
  <2>1. result = "none" /\ result' = result /\ pc' \in {"read", "decode"}
    BY <1>1, <1>5 DEF ReadChunk, Starve, Told
  <2> QED BY <2>1 DEF Told
<1>6. CASE EndOfBody
  <2>1. result = "none" /\ result' = result /\ pc' = "reap" /\ child' = "exited" /\ fed' = written'
    BY <1>1, <1>6 DEF EndOfBody, Told
  <2> QED BY <2>1 DEF Told, Read
<1>7. CASE ReadFails \/ WaitFails
  <2>1. pc' = "returned" /\ result' = "transport" /\ broken' = TRUE
    BY <1>7 DEF ReadFails, WaitFails, Return
  <2> QED BY <2>1 DEF Told
<1>8. CASE SkipLine
  <2>1. pc = "decode" /\ result = "none"
    BY <1>1, <1>8 DEF SkipLine, Told
  <2>2. \/ pc' = "returned" /\ result' = "transport" /\ dec'.error # "none"
        \/ pc' = "decode" /\ result' = "none"
    BY <1>8, <2>1 DEF SkipLine, Return
  <2> QED BY <2>2 DEF Told
<1>9. CASE Deliver
  <2> DEFINE data == Message(dec)
  <2>1. pc = "decode" /\ result = "none" /\ heard' = Append(heard, data)
    BY <1>1, <1>9 DEF Deliver, Told
  <2>2. data \in Seq(Byte) /\ heard \in Seq(Seq(Byte))
    <3>1. ToSet(dec.buf) \subseteq ToSet(dec.buf) \cup {"D"} /\ "D" \in ToSet(dec.buf) \cup {"D"}
      OBVIOUS
    <3> QED BY <1>1, <1>9, <3>1, RoundSound DEF Deliver, TypeOK
  <2> HIDE DEF data
  <2>3. heard' # <<>> /\ Last(heard') = data
    BY <2>1, <2>2, AppendProperties DEF Last
  <2>4. \/ pc' = "reap" /\ result' = "none" /\ IsDone(data)
        \/ pc' = "decode" /\ result' = "none"
        \/ pc' = "returned" /\ result' = "transport"
    BY <1>9, <2>1 DEF Deliver, Return, data
  <2>5. IsDone(data) => AtDone'
    BY <2>3 DEF AtDone, IsDone, Holds, Solid
  <2> QED BY <2>3, <2>4, <2>5 DEF Told, Read
<1>10. CASE Reap
  <2>1. /\ pc = "reap" /\ child = "exited" /\ result = "none" /\ Read /\ exit \in {0, 1}
        /\ (heard = <<>> => fed = written)
    BY <1>1, <1>10 DEF Reap, Told, Read, AtDone, TypeOK
  <2>2. /\ child' = "exited" /\ exit' = exit /\ heard' = heard /\ fed' = fed /\ written' = written
        /\ Received' = Received /\ pc' = "returned" /\ broken' = broken /\ dec' = dec
        /\ result' = IF exit = 0 THEN "ok" ELSE Classify(Received)
    BY <1>10, <2>1 DEF Reap, Return, Received
  <2>3. Read' /\ (ApiError(Received) <=> ApiError(Received'))
    BY <2>1, <2>2 DEF Read, AtDone
  <2>4. CASE exit = 0
    BY <2>1, <2>2, <2>3, <2>4 DEF Told
  <2>5. CASE exit = 1 /\ ApiError(Received)
    <3>1. result' = "http"
      BY <2>2, <2>5 DEF Classify
    <3> QED BY <2>2, <2>3, <2>5, <3>1 DEF Told
  <2>6. CASE exit = 1 /\ ~ApiError(Received)
    <3>1. result' = "transport"
      BY <2>2, <2>6 DEF Classify
    <3> QED BY <2>1, <2>2, <2>3, <2>6, <3>1 DEF Told
  <2> QED BY <2>1, <2>4, <2>5, <2>6
<1>11. CASE CurlWrite \/ CurlEnd \/ CurlEpipe \/ CurlFails
  <2>1. /\ pc' = pc /\ result' = result /\ dec' = dec /\ heard' = heard /\ fed' = fed
        /\ body' = body
    BY <1>11 DEF CurlWrite, CurlEnd, CurlEpipe, CurlFails, shell
  <2>2. child = "alive"
    BY <1>11 DEF CurlWrite, CurlEnd, CurlEpipe, CurlFails, Transferring
  <2>3. broken => broken'
    BY <1>11 DEF CurlWrite, CurlEnd, CurlEpipe, CurlFails
  <2>4. Received' = Received
    BY <2>1 DEF Received
  <2>5. AtDone => AtDone'
    BY <2>1 DEF AtDone
  <2> QED BY <1>1, <2>1, <2>2, <2>3, <2>4, <2>5 DEF Told, Read
<1>12. CASE UNCHANGED vars
  <2>1. Received' = Received /\ AtDone' = AtDone /\ Read' = Read
    BY <1>12 DEF vars, Received, AtDone, Read
  <2>2. UNCHANGED <<pc, child, exit, result, broken, dec, heard, fed, written>>
    BY <1>12 DEF vars
  <2> QED BY <1>1, <2>1, <2>2 DEF Told
<1> QED BY <1>3, <1>4, <1>5, <1>6, <1>7, <1>8, <1>9, <1>10, <1>11, <1>12 DEF Next, Shell, Answer

\* What TypeOK, Framed, Curl and Told say together is inductive.
THEOREM Invariance == Spec => []IInv
<1>1. IInv /\ [Next]_vars => IInv'
  BY TypeNext, FramedNext, CurlNext, ToldNext DEF IInv
<1> QED BY <1>1, InvInit, PTL DEF Spec

-----------------------------------------------------------------------------
\* The variables have their types; of what a server sends, every chunk makes an
\* assembly of an assembly.
THEOREM TypeCorrect == Spec => []TypeOK
<1>1. IInv => TypeOK
  BY DEF IInv
<1> QED BY <1>1, Invariance, PTL

\* A body that is an error object names no field, so nothing was decoded from it.
LEMMA RejectionUnframed ==
  ASSUME NEW s \in Seq(Byte), ApiError(s)
  PROVE  "D" \notin ToSet(s)
<1>1. PICK i \in DOMAIN s : Solid(s) = {i} /\ s[i] = ErrorBody
  BY DEF ApiError, Holds
<1>2. ASSUME NEW j \in DOMAIN s, s[j] = "D" PROVE FALSE
  <2>1. j \in Solid(s)
    BY <1>2 DEF Solid, Cr, Lf
  <2>2. ErrorBody = "D"
    BY <1>1, <1>2, <2>1
  <2> QED BY <2>2, TransportAssumption
<1> QED BY <1>2 DEF ToSet

\* What call returns is true: Ok is a whole reply of a curl that ended well, and a
\* rejection is final exactly if the server gave a reason for it.
THEOREM TrueOutcome == Spec => []OutcomeIsTrue
<1>1. ASSUME IInv PROVE OutcomeIsTrue
  <2>1. TypeOK /\ Framed /\ Curl /\ Told
    BY <1>1 DEF IInv
  <2>2. /\ body.bytes \in Seq(Byte) /\ Received \in Seq(Byte)
        /\ ToSet(Received) \subseteq ToSet(body.bytes) /\ body.status \in {"ok", "error"}
    BY <2>1, BytesTyped
  <2>3. OkIsWhole
    BY <2>1 DEF OkIsWhole, Told, Curl, Read, AtDone, Whole
  <2>4. ASSUME pc = "returned", child = "exited", ~broken, Whole, dec.error = "none"
        PROVE  result = "http" <=> body.status = "error" /\ ApiError(body.bytes)
    <3>1. heard = <<>> /\ fed = written => Received = body.bytes
      BY <2>2, <2>4, SubSeqFull DEF Received, Whole
    <3>2. CASE result = "http"
      <4>1. exit = 1 /\ Read /\ ApiError(Received)
        BY <2>1, <3>2 DEF Told
      <4>2. heard = <<>>
        BY <2>1, <2>2, <4>1, RejectionUnframed DEF Framed
      <4>3. Received = body.bytes
        BY <3>1, <4>1, <4>2 DEF Read, AtDone
      <4>4. body.status = "error"
        BY <2>1, <2>4, <4>1 DEF Curl
      <4> QED BY <3>2, <4>1, <4>3, <4>4
    <3>3. ASSUME body.status = "error", ApiError(body.bytes) PROVE result = "http"
      <4>1. heard = <<>>
        BY <2>1, <2>2, <3>3, RejectionUnframed DEF Framed
      <4>2. result # "ok"
        BY <2>1, <3>3 DEF Told, Curl
      <4>3. result # "transport"
        BY <2>1, <2>4, <3>1, <3>3, <4>1 DEF Told
      <4>4. result # "unavailable" /\ result # "none"
        BY <2>1, <2>4 DEF Told
      <4> QED BY <2>1, <4>2, <4>3, <4>4 DEF TypeOK
    <3> QED BY <3>2, <3>3
  <2>5. FinalIffRejected
    BY <2>4 DEF FinalIffRejected, Whole
  <2> QED BY <2>3, <2>5 DEF OutcomeIsTrue
<1> QED BY <1>1, Invariance, PTL

-----------------------------------------------------------------------------
(***************************************************************************)
(* The members of a set of numbers in their order, and sequences joined.   *)
(***************************************************************************)
\* A sequence that has the members of a set in their order.
IsOrder(f, S) ==
  /\ f \in Seq(S) /\ \A i, j \in 1 .. Len(f) : i < j => f[i] < f[j]
  /\ \A x \in S : \E i \in 1 .. Len(f) : f[i] = x

\* There is one such sequence.
LEMMA InOrderIs ==
  ASSUME NEW S, S \subseteq Nat, NEW f, IsOrder(f, S)
  PROVE  InOrder(S) = f /\ Cardinality(S) = Len(f) /\ IsFiniteSet(S)
<1> DEFINE m == Len(f)
           T(k) == {f[i] : i \in 1 .. k}
<1>1. /\ m \in Nat /\ DOMAIN f = 1 .. m /\ f \in [1 .. m -> S] /\ \A i \in 1 .. m : f[i] \in S /\ f[i] \in Nat
      /\ \A i, j \in 1 .. m : i < j => f[i] < f[j]
      /\ \A x \in S : \E i \in 1 .. m : f[i] = x
  BY LenProperties, ElementOfSeq DEF IsOrder
<1> HIDE DEF m
<1>2. \A k \in Nat : k \in {j \in Nat : j <= m => IsFiniteSet(T(j)) /\ Cardinality(T(j)) = j}
  <2> DEFINE A == {j \in Nat : j <= m => IsFiniteSet(T(j)) /\ Cardinality(T(j)) = j}
  <2>1. 0 \in A
    <3>1. T(0) = {}
      OBVIOUS
    <3> HIDE DEF T
    <3> QED BY <3>1, FS_EmptySet
  <2>2. ASSUME NEW k \in Nat, k \in A PROVE k + 1 \in A
    <3>1. SUFFICES ASSUME k + 1 <= m PROVE IsFiniteSet(T(k + 1)) /\ Cardinality(T(k + 1)) = k + 1
      OBVIOUS
    <3>2. IsFiniteSet(T(k)) /\ Cardinality(T(k)) = k
      BY <1>1, <2>2, <3>1
    <3>3. T(k + 1) = T(k) \cup {f[k + 1]}
      <4>1. 1 .. k + 1 = (1 .. k) \cup {k + 1}
        OBVIOUS
      <4> QED BY <4>1
    <3>4. f[k + 1] \notin T(k)
      <4> SUFFICES ASSUME NEW i \in 1 .. k, f[i] = f[k + 1] PROVE FALSE
        OBVIOUS
      <4>1. i \in 1 .. m /\ k + 1 \in 1 .. m /\ i < k + 1
        BY <1>1, <3>1
      <4>2. f[i] < f[k + 1] /\ f[i] \in Nat
        BY <1>1, <4>1
      <4> QED BY <4>2
    <3> DEFINE X == T(k)
               x == f[k + 1]
    <3> HIDE DEF T, X, x
    <3>5. IsFiniteSet(X \cup {x}) /\ Cardinality(X \cup {x}) = Cardinality(X) + 1
      BY <3>2, <3>4, FS_AddElement DEF X, x
    <3> QED BY <3>2, <3>3, <3>5 DEF X, x
  <2> HIDE DEF A
  <2>3. \A k \in Nat : k \in A
    BY <2>1, <2>2, NatSetInduction
  <2> QED BY <2>3 DEF A
<1>3. \A k \in 0 .. m : IsFiniteSet(T(k)) /\ Cardinality(T(k)) = k
  <2> HIDE DEF T
  <2> QED BY <1>1, <1>2
<1>4. T(m) = S
  BY <1>1
<1>5. Cardinality(S) = m /\ IsFiniteSet(S)
  <2>1. m \in 0 .. m
    BY <1>1
  <2> HIDE DEF T
  <2> QED BY <1>3, <1>4, <2>1
<1>6. ASSUME NEW k \in 1 .. m PROVE {y \in S : y <= f[k]} = T(k)
  <2>1. ASSUME NEW y \in S, y <= f[k] PROVE y \in T(k)
    <3>1. PICK i \in 1 .. m : f[i] = y
      BY <1>1
    <3>2. ~(k < i)
      <4>1. ASSUME k < i PROVE FALSE
        <5>1. f[k] < f[i] /\ f[k] \in Nat /\ f[i] \in Nat
          BY <1>1, <4>1
        <5> QED BY <2>1, <3>1, <5>1
      <4> QED BY <4>1
    <3>3. i \in 1 .. k
      BY <1>1, <3>2
    <3> QED BY <3>1, <3>3
  <2>2. ASSUME NEW i \in 1 .. k PROVE f[i] \in S /\ f[i] <= f[k]
    <3>1. i \in 1 .. m /\ (i = k \/ i < k)
      BY <1>1
    <3>2. f[i] \in Nat /\ f[k] \in Nat /\ (i < k => f[i] < f[k])
      BY <1>1, <3>1
    <3> QED BY <1>1, <3>1, <3>2
  <2> QED BY <2>1, <2>2
<1>7. ASSUME NEW k \in 1 .. m PROVE (CHOOSE x \in S : Cardinality({y \in S : y <= x}) = k) = f[k]
  <2>1. f[k] \in S /\ Cardinality({y \in S : y <= f[k]}) = k
    <3>1. k \in 0 .. m
      BY <1>1
    <3> HIDE DEF T
    <3> QED BY <1>1, <1>3, <1>6, <3>1
  <2>2. ASSUME NEW x \in S, Cardinality({y \in S : y <= x}) = k PROVE x = f[k]
    <3>1. PICK i \in 1 .. m : f[i] = x
      BY <1>1
    <3>2. i \in 0 .. m
      BY <1>1
    <3>3. Cardinality({y \in S : y <= x}) = i
      <4> HIDE DEF T
      <4> QED BY <1>3, <1>6, <3>1, <3>2
    <3> QED BY <2>2, <3>1, <3>3
  <2> QED BY <2>1, <2>2
<1>8. InOrder(S) = [k \in 1 .. m |-> f[k]]
  BY <1>5, <1>7 DEF InOrder
<1> QED BY <1>1, <1>5, <1>8 DEF m

\* Two rows, the second of greater numbers, are one.
LEMMA OrderRow ==
  ASSUME NEW S, S \subseteq Nat, NEW f, IsOrder(f, S), NEW T, T \subseteq Nat, NEW g, IsOrder(g, T),
         \A x \in S, y \in T : x < y
  PROVE  IsOrder(f \o g, S \cup T)
<1> DEFINE U == S \cup T
           h == f \o g
           m == Len(f)
           n == Len(g)
<1>1. m \in Nat /\ f \in Seq(U) /\ n \in Nat /\ g \in Seq(U)
  BY LenProperties, SeqMonotonic DEF IsOrder
<1>2. /\ h \in Seq(U) /\ Len(h) = m + n
      /\ \A i \in 1 .. m + n : h[i] = IF i <= m THEN f[i] ELSE g[i - m]
  <2> HIDE DEF U
  <2> QED BY <1>1, ConcatProperties
<1>3. /\ \A i \in 1 .. m : f[i] \in S
      /\ \A i, j \in 1 .. m : i < j => f[i] < f[j]
      /\ \A y \in S : \E i \in 1 .. m : f[i] = y
      /\ \A i \in 1 .. n : g[i] \in T
      /\ \A i, j \in 1 .. n : i < j => g[i] < g[j]
      /\ \A y \in T : \E i \in 1 .. n : g[i] = y
  BY ElementOfSeq DEF IsOrder
<1> HIDE DEF h, m, n
<1>4. ASSUME NEW i \in 1 .. m + n, NEW j \in 1 .. m + n, i < j PROVE h[i] < h[j]
  <2>1. CASE i <= m /\ j <= m
    <3>1. i \in 1 .. m /\ j \in 1 .. m
      BY <1>1, <2>1
    <3> QED BY <1>2, <1>3, <1>4, <2>1, <3>1
  <2>2. CASE i <= m /\ ~(j <= m)
    <3>1. i \in 1 .. m /\ j - m \in 1 .. n
      BY <1>1, <2>2
    <3> QED BY <1>2, <1>3, <2>2, <3>1
  <2>3. CASE ~(i <= m)
    <3>1. i - m \in 1 .. n /\ j - m \in 1 .. n /\ i - m < j - m /\ ~(j <= m)
      BY <1>1, <1>4, <2>3
    <3> QED BY <1>2, <1>3, <2>3, <3>1
  <2> QED BY <2>1, <2>2, <2>3
<1>5. ASSUME NEW y \in U PROVE \E i \in 1 .. m + n : h[i] = y
  <2>1. CASE y \in S
    <3>1. PICK i \in 1 .. m : f[i] = y
      BY <1>3, <2>1
    <3>2. i \in 1 .. m + n /\ i <= m
      BY <1>1
    <3> QED BY <1>2, <3>1, <3>2
  <2>2. CASE y \in T
    <3>1. PICK i \in 1 .. n : g[i] = y
      BY <1>3, <2>2
    <3>2. m + i \in 1 .. m + n /\ ~(m + i <= m) /\ m + i - m = i
      BY <1>1
    <3>3. ASSUME NEW j, j = m + i PROVE h[j] = y
      <4>1. j \in 1 .. m + n /\ ~(j <= m) /\ j - m = i
        BY <1>1, <3>2, <3>3
      <4>2. h[j] = g[j - m]
        BY <1>2, <4>1
      <4> QED BY <3>1, <4>1, <4>2
    <3>4. h[m + i] = y
      BY <3>3
    <3> QED BY <3>2, <3>4
  <2> QED BY <2>1, <2>2
<1> QED BY <1>2, <1>4, <1>5 DEF IsOrder, h

LEMMA OrderNone == IsOrder(<<>>, {})
BY EmptySeq DEF IsOrder

LEMMA OrderOne ==
  ASSUME NEW x \in Nat
  PROVE  IsOrder(<<x>>, {x})
<1>1. <<x>> \in Seq({x}) /\ Len(<<x>>) = 1 /\ <<x>>[1] = x
  OBVIOUS
<1> QED BY <1>1 DEF IsOrder

\* Each set of positions has one.
LEMMA OrderExists ==
  ASSUME NEW n \in Nat, NEW S, S \subseteq 1 .. n
  PROVE  IsOrder(InOrder(S), S) /\ Len(InOrder(S)) = Cardinality(S) /\ IsFiniteSet(S)
<1> DEFINE Upto(k) == S \cap (1 .. k)
           A == {k \in Nat : \E f : IsOrder(f, Upto(k))}
<1>1. 0 \in A
  <2>1. Upto(0) = {}
    OBVIOUS
  <2> HIDE DEF Upto
  <2> QED BY <2>1, OrderNone
<1>2. ASSUME NEW k \in Nat, k \in A PROVE k + 1 \in A
  <2>1. PICK f : IsOrder(f, Upto(k))
    BY <1>2
  <2>2. CASE k + 1 \in S
    <3>1. /\ Upto(k + 1) = Upto(k) \cup {k + 1} /\ Upto(k) \subseteq Nat
          /\ \A y \in Upto(k) : y < k + 1
      BY <2>2
    <3> DEFINE T == {k + 1}
               g == <<k + 1>>
    <3>2. IsOrder(g, T) /\ T \subseteq Nat /\ \A y \in Upto(k), z \in T : y < z
      BY <3>1, OrderOne
    <3> HIDE DEF Upto, T, g
    <3>3. IsOrder(f \o g, Upto(k) \cup T)
      BY <2>1, <3>1, <3>2, OrderRow
    <3> QED BY <3>1, <3>3 DEF T
  <2>3. CASE k + 1 \notin S
    <3>1. Upto(k + 1) = Upto(k)
      BY <2>3
    <3> HIDE DEF Upto
    <3> QED BY <2>1, <3>1
  <2> QED BY <2>2, <2>3
<1>3. \A k \in Nat : k \in A
  <2> HIDE DEF A
  <2> QED BY <1>1, <1>2, NatSetInduction
<1>4. S \subseteq Nat
  <2>1. \A x \in 1 .. n : x \in Nat
    OBVIOUS
  <2> QED BY <2>1
<1>5. PICK f : IsOrder(f, S)
  <2>1. Upto(n) = S
    OBVIOUS
  <2> HIDE DEF Upto
  <2> QED BY <1>3, <2>1
<1> QED BY <1>4, <1>5, InOrderIs

\* The order of a set that another, greater one follows.
LEMMA InOrderRow ==
  ASSUME NEW n \in Nat, NEW S, S \subseteq 1 .. n, NEW T, T \subseteq 1 .. n, \A x \in S, y \in T : x < y
  PROVE  InOrder(S \cup T) = InOrder(S) \o InOrder(T)
<1>1. S \subseteq Nat /\ T \subseteq Nat
  <2>1. \A x \in 1 .. n : x \in Nat
    OBVIOUS
  <2> QED BY <2>1
<1>2. IsOrder(InOrder(S), S) /\ IsOrder(InOrder(T), T)
  BY OrderExists
<1> DEFINE f == InOrder(S)
           g == InOrder(T)
<1> HIDE DEF f, g
<1>3. IsOrder(f \o g, S \cup T)
  BY <1>1, <1>2, OrderRow DEF f, g
<1>4. S \cup T \subseteq Nat
  BY <1>1
<1> QED BY <1>3, <1>4, InOrderIs DEF f, g

LEMMA InOrderOne ==
  ASSUME NEW x \in Nat
  PROVE  InOrder({x}) = <<x>> /\ Cardinality({x}) = 1
<1> DEFINE T == {x}
           f == <<x>>
<1>1. IsOrder(f, T) /\ T \subseteq Nat /\ Len(f) = 1
  BY OrderOne
<1> HIDE DEF T, f
<1>2. InOrder(T) = f /\ Cardinality(T) = Len(f)
  BY <1>1, InOrderIs
<1> QED BY <1>1, <1>2 DEF T, f

\* What a set of positions in order is.
LEMMA InOrderFacts ==
  ASSUME NEW n \in Nat, NEW S, S \subseteq 1 .. n
  PROVE  /\ Cardinality(S) \in Nat /\ InOrder(S) \in Seq(S) /\ Len(InOrder(S)) = Cardinality(S)
         /\ \A i \in 1 .. Cardinality(S) : InOrder(S)[i] \in S
         /\ \A i, j \in 1 .. Cardinality(S) : i < j => InOrder(S)[i] < InOrder(S)[j]
         /\ \A x \in S : \E i \in 1 .. Cardinality(S) : InOrder(S)[i] = x
         /\ DOMAIN InOrder(S) = 1 .. Cardinality(S)
         /\ Cardinality(S) = 0 <=> S = {}
<1> DEFINE f == InOrder(S)
           c == Cardinality(S)
<1>1. IsOrder(f, S) /\ Len(f) = c
  BY OrderExists
<1>2. /\ f \in Seq(S) /\ \A i, j \in 1 .. c : i < j => f[i] < f[j]
      /\ \A x \in S : \E i \in 1 .. c : f[i] = x
  BY <1>1 DEF IsOrder
<1> HIDE DEF f, c
<1>3. c \in Nat /\ DOMAIN f = 1 .. c
  BY <1>1, <1>2, LenProperties
<1>4. \A i \in 1 .. c : f[i] \in S
  BY <1>1, <1>2, ElementOfSeq
<1>5. c = 0 <=> S = {}
  <2>1. CASE c = 0
    BY <1>2, <2>1
  <2>2. CASE c # 0
    <3>1. 1 \in 1 .. c
      BY <1>3, <2>2
    <3> QED BY <1>4, <2>2, <3>1
  <2> QED BY <2>1, <2>2
<1> QED BY <1>1, <1>2, <1>3, <1>4, <1>5 DEF f, c

\* The first elements of a sequence.
LEMMA FirstOf ==
  ASSUME NEW S, NEW s \in Seq(S), NEW n \in 0 .. Len(s)
  PROVE  /\ SubSeq(s, 1, n) \in Seq(S) /\ Len(SubSeq(s, 1, n)) = n
         /\ \A i \in 1 .. n : SubSeq(s, 1, n)[i] = s[i]
<1>1. Len(s) \in Nat /\ n \in Nat /\ \A i \in 1 .. n : s[i] \in S
  BY LenProperties, ElementOfSeq
<1>2. \A i \in 1 .. n : 1 + i - 1 = i /\ (n - 1) + 1 = n
  BY <1>1
<1> QED BY <1>1, <1>2, SubSeqProperties

\* Parts of a sequence behind each other are a part of it.
LEMMA PartsJoin ==
  ASSUME NEW S, NEW s \in Seq(S), NEW a \in Nat, NEW b \in Nat, NEW c \in Nat, a <= b, b <= c, c <= Len(s)
  PROVE  SubSeq(s, a + 1, b) \o SubSeq(s, b + 1, c) = SubSeq(s, a + 1, c)
<1> DEFINE x == SubSeq(s, a + 1, b)
           y == SubSeq(s, b + 1, c)
           z == SubSeq(s, a + 1, c)
<1>1. Len(s) \in Nat /\ \A i \in 1 .. Len(s) : s[i] \in S
  BY LenProperties, ElementOfSeq
<1>2. x \in Seq(S) /\ Len(x) = b - a /\ \A i \in 1 .. b - a : x[i] = s[a + i]
  <2>1. \A i \in a + 1 .. b : s[i] \in S
    BY <1>1
  <2> QED BY <2>1, SubSeqProperties
<1>3. y \in Seq(S) /\ Len(y) = c - b /\ \A i \in 1 .. c - b : y[i] = s[b + i]
  <2>1. \A i \in b + 1 .. c : s[i] \in S
    BY <1>1
  <2> QED BY <2>1, SubSeqProperties
<1>4. z \in Seq(S) /\ Len(z) = c - a /\ \A i \in 1 .. c - a : z[i] = s[a + i]
  <2>1. \A i \in a + 1 .. c : s[i] \in S
    BY <1>1
  <2> QED BY <2>1, SubSeqProperties
<1> HIDE DEF x, y, z
<1>5. /\ x \o y \in Seq(S) /\ Len(x \o y) = c - a
      /\ \A i \in 1 .. c - a : (x \o y)[i] = IF i <= b - a THEN x[i] ELSE y[i - (b - a)]
  <2>1. /\ x \o y \in Seq(S) /\ Len(x \o y) = Len(x) + Len(y)
        /\ \A i \in 1 .. Len(x) + Len(y) : (x \o y)[i] = IF i <= Len(x) THEN x[i] ELSE y[i - Len(x)]
    BY <1>2, <1>3, ConcatProperties
  <2> QED BY <1>2, <1>3, <2>1
<1>6. \A i \in 1 .. c - a : (x \o y)[i] = z[i]
  <2> SUFFICES ASSUME NEW i \in 1 .. c - a PROVE (x \o y)[i] = z[i]
    OBVIOUS
  <2>1. CASE i <= b - a
    BY <1>2, <1>4, <1>5, <2>1
  <2>2. CASE ~(i <= b - a)
    <3>1. i - (b - a) \in 1 .. c - b /\ b + (i - (b - a)) = a + i
      BY <2>2
    <3>2. y[i - (b - a)] = s[a + i]
      BY <1>3, <3>1
    <3> QED BY <1>4, <1>5, <2>2, <3>2
  <2> QED BY <2>1, <2>2
<1>7. x \o y = z
  BY <1>4, <1>5, <1>6, SeqEqual
<1> QED BY <1>7 DEF x, y, z

\* A sequence of values, each made from the one before, exists.
LEMMA ChainExists ==
  ASSUME NEW A, NEW a \in A, NEW N \in Nat, NEW D \in [1 .. N -> [A -> A]]
  PROVE  \E f \in [0 .. N -> A] : f[0] = a /\ \A k \in 1 .. N : f[k] = D[k][f[k - 1]]
<1> DEFINE Step(f, m) == f[0] = a /\ \A k \in 1 .. m : f[k] = D[k][f[k - 1]]
           S == {m \in Nat : m <= N => \E f \in [0 .. m -> A] : Step(f, m)}
<1>1. 0 \in S
  <2>1. [k \in 0 .. 0 |-> a] \in [0 .. 0 -> A] /\ Step([k \in 0 .. 0 |-> a], 0)
    OBVIOUS
  <2> HIDE DEF Step
  <2> QED BY <2>1
<1>2. ASSUME NEW m \in Nat, m \in S PROVE m + 1 \in S
  <2>1. SUFFICES ASSUME m + 1 <= N PROVE \E f \in [0 .. m + 1 -> A] : Step(f, m + 1)
    OBVIOUS
  <2>2. PICK f \in [0 .. m -> A] : Step(f, m)
    <3>1. m <= N
      BY <2>1
    <3> HIDE DEF Step
    <3> QED BY <1>2, <3>1
  <2> DEFINE g == [k \in 0 .. m + 1 |-> IF k <= m THEN f[k] ELSE D[m + 1][f[m]]]
  <2>3. m + 1 \in 1 .. N /\ f[m] \in A
    BY <2>1
  <2>4. D[m + 1][f[m]] \in A
    BY <2>3
  <2>5. g \in [0 .. m + 1 -> A]
    BY <2>4
  <2>6. ASSUME NEW k \in 1 .. m + 1 PROVE g[k] = D[k][g[k - 1]]
    <3>1. CASE k <= m
      <4>1. k \in 1 .. m /\ k \in 0 .. m + 1 /\ k - 1 \in 0 .. m + 1 /\ k - 1 <= m
        BY <3>1
      <4>2. f[k] = D[k][f[k - 1]] /\ g[k] = f[k] /\ g[k - 1] = f[k - 1]
        BY <2>2, <3>1, <4>1
      <4> QED BY <4>2
    <3>2. CASE ~(k <= m)
      <4>1. k = m + 1 /\ k \in 0 .. m + 1 /\ k - 1 = m /\ m \in 0 .. m + 1
        BY <3>2
      <4>2. g[k] = D[m + 1][f[m]] /\ g[m] = f[m]
        BY <3>2, <4>1
      <4> QED BY <4>1, <4>2
    <3> QED BY <3>1, <3>2
  <2>7. g[0] = a
    BY <2>2
  <2> HIDE DEF g
  <2>8. Step(g, m + 1)
    BY <2>6, <2>7
  <2> HIDE DEF Step
  <2> QED BY <2>5, <2>8
<1>3. \A m \in Nat : m \in S
  <2> HIDE DEF S
  <2> QED BY <1>1, <1>2, NatSetInduction
<1> HIDE DEF Step
<1>4. \E f \in [0 .. N -> A] : Step(f, N)
  BY <1>3
<1> QED BY <1>4 DEF Step

\* Flattening goes through the parts once.
LEMMA FlattenSteps ==
  ASSUME NEW T, NEW s \in Seq(Seq(T))
  PROVE  \E f : /\ f[0] = <<>> /\ FlattenSeq(s) = f[Len(s)]
                /\ \A k \in 0 .. Len(s) : f[k] \in Seq(T)
                /\ \A k \in 1 .. Len(s) : f[k] = f[k - 1] \o s[k]
<1> DEFINE A == Seq(T)
           N == Len(s)
           e == <<>>
           D == [k \in 1 .. N |-> [x \in A |-> x \o s[k]]]
           Made(h) == h = [i \in 1 .. Len(s) |-> IF i = 1 THEN s[i] ELSE h[i - 1] \o s[i]]
<1>1. N \in Nat /\ \A n \in 1 .. N : s[n] \in A
  BY LenProperties, ElementOfSeq
<1>2. e \in A /\ \A x \in A : e \o x = x
  BY EmptySeq, ConcatEmptySeq
<1>3. \A n \in 1 .. N : \A x \in A : x \o s[n] \in A
  BY <1>1, ConcatProperties
<1>4. D \in [1 .. N -> [A -> A]]
  <2> HIDE DEF A, N
  <2> QED BY <1>3
<1>5. PICK f \in [0 .. N -> A] : f[0] = e /\ \A k \in 1 .. N : f[k] = D[k][f[k - 1]]
  <2>1. N \in Nat /\ D \in [1 .. N -> [A -> A]] /\ e \in A
    <3> HIDE DEF A, D, N, e
    <3> QED BY <1>1, <1>2, <1>4
  <2> HIDE DEF A, D, N, e
  <2>2. \E f \in [0 .. N -> A] : f[0] = e /\ \A k \in 1 .. N : f[k] = D[k][f[k - 1]]
    BY <2>1, ChainExists, SMTT(60)
  <2> QED BY <2>2
<1>6. ASSUME NEW k \in 1 .. N PROVE f[k] = f[k - 1] \o s[k] /\ f[k] \in A
  <2>1. k - 1 \in 0 .. N /\ k \in 0 .. N
    BY <1>1
  <2>2. f[k - 1] \in A /\ f[k] \in A
    <3> HIDE DEF A, N
    <3> QED BY <2>1
  <2> HIDE DEF A, N
  <2> QED BY <1>5, <2>2
<1>7. CASE N = 0
  <2>1. FlattenSeq(s) = s /\ s = <<>>
    BY <1>7, EmptySeq DEF FlattenSeq
  <2> QED BY <1>5, <1>6, <1>7, <2>1
<1>8. CASE N # 0
  <2> DEFINE g == [k \in 1 .. N |-> f[k]]
             h == CHOOSE x : Made(x)
  <2>1. Made(g)
    <3>1. ASSUME NEW k \in 1 .. N PROVE f[k] = IF k = 1 THEN s[k] ELSE g[k - 1] \o s[k]
      <4>1. CASE k = 1
        <5>1. f[1] = e \o s[1] /\ s[1] \in A
          <6>1. k \in 1 .. N /\ k - 1 = 0
            BY <4>1
          <6>2. f[k] = f[0] \o s[k] /\ s[k] \in A
            <7> HIDE DEF A, N
            <7> QED BY <1>1, <1>6, <6>1
          <6> HIDE DEF A, e
          <6> QED BY <1>5, <4>1, <6>2
        <5>2. f[1] = s[1]
          BY <1>2, <5>1
        <5> QED BY <4>1, <5>2
      <4>2. CASE k # 1
        <5>1. k - 1 \in 1 .. N
          BY <1>1, <4>2
        <5>2. g[k - 1] = f[k - 1]
          BY <5>1
        <5> QED BY <1>6, <4>2, <5>2
      <4> QED BY <4>1, <4>2
    <3> QED BY <3>1
  <2>2. Made(h) /\ FlattenSeq(s) = h[N]
    <3>1. Made(h)
      <4> HIDE DEF g
      <4> QED BY <2>1
    <3> QED BY <1>8, <3>1 DEF FlattenSeq
  <2> HIDE DEF h, g
  <2>3. \A k \in 1 .. N : h[k] = IF k = 1 THEN s[k] ELSE h[k - 1] \o s[k]
    BY <2>2
  <2> DEFINE S == {k \in Nat : k \in 1 .. N => h[k] = f[k]}
  <2>4. 0 \in S
    OBVIOUS
  <2>5. ASSUME NEW k \in Nat, k \in S PROVE k + 1 \in S
    <3>1. SUFFICES ASSUME k + 1 \in 1 .. N PROVE h[k + 1] = f[k + 1]
      OBVIOUS
    <3>2. CASE k = 0
      <4>1. f[1] = e \o s[1] /\ s[1] \in A /\ h[1] = s[1]
        <5>1. 1 \in 1 .. N /\ 1 - 1 = 0
          BY <3>1, <3>2
        <5>2. f[1] = f[1 - 1] \o s[1] /\ s[1] \in A /\ h[1] = s[1]
          <6> HIDE DEF A, N
          <6> QED BY <1>1, <1>6, <2>3, <5>1
        <5> HIDE DEF A, e
        <5> QED BY <1>5, <5>1, <5>2
      <4> QED BY <1>2, <3>2, <4>1
    <3>3. CASE k # 0
      <4>1. k \in 1 .. N /\ k + 1 # 1 /\ (k + 1) - 1 = k
        BY <1>1, <3>1, <3>3
      <4>2. h[k] = f[k]
        BY <2>5, <4>1
      <4>3. f[k + 1] = f[(k + 1) - 1] \o s[k + 1]
        BY <1>6, <3>1
      <4>4. h[k + 1] = h[(k + 1) - 1] \o s[k + 1]
        <5> HIDE DEF N
        <5> QED BY <2>3, <3>1, <4>1
      <4> QED BY <4>1, <4>2, <4>3, <4>4
    <3> QED BY <3>2, <3>3
  <2>6. \A k \in Nat : k \in S
    <3> HIDE DEF S
    <3> QED BY <2>4, <2>5, NatSetInduction
  <2>7. h[N] = f[N]
    <3> HIDE DEF N
    <3> QED BY <1>1, <1>8, <2>6
  <2>8. \A k \in 0 .. N : f[k] \in A
    <3> HIDE DEF A, N
    <3> QED OBVIOUS
  <2> QED BY <1>5, <1>6, <2>2, <2>7, <2>8
<1> QED BY <1>7, <1>8

\* One part more is flattened behind the others.
LEMMA FlattenMore ==
  ASSUME NEW T, NEW s \in Seq(Seq(T)), NEW x \in Seq(T)
  PROVE  FlattenSeq(s) \in Seq(T) /\ FlattenSeq(Append(s, x)) = FlattenSeq(s) \o x
<1> DEFINE N == Len(s)
           t == Append(s, x)
           A == Seq(T)
<1>1. N \in Nat /\ t \in Seq(A) /\ Len(t) = N + 1 /\ t[N + 1] = x /\ \A i \in 1 .. N : t[i] = s[i]
  BY LenProperties, AppendProperties
<1>2. PICK f : /\ f[0] = <<>> /\ FlattenSeq(s) = f[N]
               /\ \A k \in 0 .. N : f[k] \in A
               /\ \A k \in 1 .. N : f[k] = f[k - 1] \o s[k]
  BY FlattenSteps
<1> HIDE DEF t
<1>3. PICK g : /\ g[0] = <<>> /\ FlattenSeq(t) = g[Len(t)]
               /\ \A k \in 0 .. Len(t) : g[k] \in Seq(T)
               /\ \A k \in 1 .. Len(t) : g[k] = g[k - 1] \o t[k]
  <2>1. t \in Seq(Seq(T))
    BY <1>1
  <2> QED BY <2>1, FlattenSteps
<1> HIDE DEF N, A
<1> DEFINE S == {k \in Nat : k <= N => g[k] = f[k]}
<1>4. 0 \in S
  BY <1>2, <1>3
<1>5. ASSUME NEW k \in Nat, k \in S PROVE k + 1 \in S
  <2>1. SUFFICES ASSUME k + 1 <= N PROVE g[k + 1] = f[k + 1]
    OBVIOUS
  <2>2. k + 1 \in 1 .. N /\ k + 1 \in 1 .. Len(t) /\ (k + 1) - 1 = k /\ k <= N
    BY <1>1, <2>1
  <2>3. g[k] = f[k]
    BY <1>5, <2>2
  <2>4. g[k + 1] = g[(k + 1) - 1] \o t[k + 1] /\ f[k + 1] = f[(k + 1) - 1] \o s[k + 1] /\ t[k + 1] = s[k + 1]
    BY <1>1, <1>2, <1>3, <2>2
  <2> QED BY <2>2, <2>3, <2>4
<1>6. \A k \in Nat : k \in S
  <2> HIDE DEF S
  <2> QED BY <1>4, <1>5, NatSetInduction
<1>7. g[N] = f[N] /\ N \in 0 .. N /\ N + 1 \in 1 .. Len(t) /\ (N + 1) - 1 = N
  BY <1>1, <1>6
<1>8. FlattenSeq(t) = g[(N + 1) - 1] \o t[N + 1]
  BY <1>1, <1>3, <1>7
<1> QED BY <1>1, <1>2, <1>7, <1>8 DEF t, A

LEMMA FlattenNone == FlattenSeq(<<>>) = <<>>
BY DEF FlattenSeq

-----------------------------------------------------------------------------
(***************************************************************************)
(* The lines of a stream.                                                  *)
(***************************************************************************)
LineCount(s) == Cardinality(LineEnds(s))

\* Where the lines of a stream end, one behind the other.
LEMMA EndsFacts ==
  ASSUME NEW s \in Seq(Byte)
  PROVE  /\ Len(s) \in Nat /\ DOMAIN s = 1 .. Len(s) /\ LineEnds(s) \subseteq 1 .. Len(s)
         /\ LineCount(s) \in Nat /\ EndOf(s, 0) = 0
         /\ \A k \in 1 .. LineCount(s) : EndOf(s, k) \in LineEnds(s)
         /\ \A k \in 0 .. LineCount(s) : EndOf(s, k) \in 0 .. Len(s)
         /\ \A i, j \in 0 .. LineCount(s) : i < j => EndOf(s, i) < EndOf(s, j)
         /\ \A e \in LineEnds(s) : \E k \in 1 .. LineCount(s) : EndOf(s, k) = e
<1> DEFINE E == LineEnds(s)
           c == LineCount(s)
           n == Len(s)
<1>1. n \in Nat /\ DOMAIN s = 1 .. n
  BY LenProperties
<1>2. E \subseteq 1 .. n
  BY <1>1 DEF LineEnds
<1> DEFINE f == InOrder(E)
<1>3. /\ c \in Nat
      /\ \A i \in 1 .. c : f[i] \in E
      /\ \A i, j \in 1 .. c : i < j => f[i] < f[j]
      /\ \A x \in E : \E i \in 1 .. c : f[i] = x
  <2> HIDE DEF E, n
  <2> QED BY <1>1, <1>2, InOrderFacts DEF LineCount, E
<1> HIDE DEF E, c, n, f
<1>4. EndOf(s, 0) = 0 /\ \A k \in 1 .. c : EndOf(s, k) = f[k]
  BY <1>3 DEF EndOf, f, E
<1>5. \A k \in 0 .. c : EndOf(s, k) \in 0 .. n /\ (k # 0 => EndOf(s, k) \in 1 .. n)
  <2> SUFFICES ASSUME NEW k \in 0 .. c PROVE EndOf(s, k) \in 0 .. n /\ (k # 0 => EndOf(s, k) \in 1 .. n)
    OBVIOUS
  <2>1. CASE k = 0
    BY <1>1, <1>4, <2>1
  <2>2. CASE k # 0
    <3>1. k \in 1 .. c
      BY <1>3, <2>2
    <3>2. EndOf(s, k) \in 1 .. n
      BY <1>2, <1>3, <1>4, <3>1
    <3> QED BY <1>1, <3>2
  <2> QED BY <2>1, <2>2
<1>6. ASSUME NEW i \in 0 .. c, NEW j \in 0 .. c, i < j PROVE EndOf(s, i) < EndOf(s, j)
  <2>1. j \in 1 .. c
    BY <1>3, <1>6
  <2>2. CASE i = 0
    BY <1>1, <1>4, <1>5, <2>1, <2>2
  <2>3. CASE i # 0
    <3>1. i \in 1 .. c
      BY <1>3, <2>3
    <3> QED BY <1>3, <1>4, <1>6, <2>1, <3>1
  <2> QED BY <2>2, <2>3
<1> QED BY <1>1, <1>2, <1>3, <1>4, <1>5, <1>6 DEF E, c, n

\* The lines themselves.
LEMMA LinesFacts ==
  ASSUME NEW s \in Seq(Byte)
  PROVE  /\ Lines(s) \in Seq(Seq(Byte)) /\ Len(Lines(s)) = LineCount(s)
         /\ \A k \in 1 .. LineCount(s) : Lines(s)[k] = LineBetween(s, EndOf(s, k - 1), EndOf(s, k))
<1> DEFINE c == LineCount(s)
<1>1. c \in Nat /\ Len(s) \in Nat /\ \A k \in 0 .. c : EndOf(s, k) \in 0 .. Len(s)
  BY EndsFacts
<1> HIDE DEF c
<1>2. ASSUME NEW k \in 1 .. c PROVE LineBetween(s, EndOf(s, k - 1), EndOf(s, k)) \in Seq(Byte)
  <2>1. k \in 0 .. c /\ k - 1 \in 0 .. c
    BY <1>1
  <2> DEFINE a == EndOf(s, k - 1)
             e == EndOf(s, k)
             n == IF s[e] = Lf /\ e > a + 1 /\ s[e - 1] = Cr THEN e - 2 ELSE e - 1
  <2>2. a + 1 \in Nat \ {0} /\ e \in Int /\ e <= Len(s)
    BY <1>1, <2>1
  <2> HIDE DEF a, e
  <2>3. n \in Int /\ n <= Len(s)
    BY <1>1, <2>2
  <2> HIDE DEF n
  <2>4. SubSeq(s, a + 1, n) \in Seq(Byte)
    BY <2>2, <2>3, PartOf
  <2>5. LineBetween(s, a, e) = SubSeq(s, a + 1, n)
    BY DEF LineBetween, n
  <2> QED BY <2>4, <2>5 DEF a, e
<1>3. Lines(s) = [k \in 1 .. c |-> LineBetween(s, EndOf(s, k - 1), EndOf(s, k))]
  BY DEF Lines, c, LineCount
<1>4. Lines(s) \in [1 .. c -> Seq(Byte)]
  BY <1>2, <1>3
<1>5. Lines(s) \in Seq(Seq(Byte)) /\ Len(Lines(s)) = c
  <2> DEFINE t == Lines(s)
             A == Seq(Byte)
  <2>1. t \in [1 .. c -> A]
    BY <1>4
  <2> HIDE DEF t, A
  <2>2. t \in Seq(A) /\ DOMAIN t = 1 .. c
    BY <1>1, <2>1
  <2>3. Len(t) = c
    BY <1>1, <2>2, LenProperties
  <2> QED BY <2>2, <2>3 DEF t, A
<1> QED BY <1>3, <1>5 DEF c

\* The next end is the next line's.
LEMMA NextEnd ==
  ASSUME NEW s \in Seq(Byte), NEW k \in 0 .. LineCount(s), NEW e \in LineEnds(s), EndOf(s, k) < e,
         \A x \in LineEnds(s) : ~(EndOf(s, k) < x /\ x < e)
  PROVE  k + 1 \in 1 .. LineCount(s) /\ EndOf(s, k + 1) = e
<1> DEFINE c == LineCount(s)
           P(i) == EndOf(s, i)
<1>1. /\ c \in Nat /\ \A i \in 0 .. c : P(i) \in Nat
      /\ \A i, j \in 0 .. c : i < j => P(i) < P(j)
      /\ \A i \in 1 .. c : P(i) \in LineEnds(s)
  <2>1. \A i \in 0 .. c : P(i) \in 0 .. Len(s)
    BY EndsFacts
  <2> QED BY <2>1, EndsFacts
<1>2. PICK j \in 1 .. c : P(j) = e
  BY EndsFacts
<1> HIDE DEF c, P
<1>3. k \in 0 .. c /\ j \in 0 .. c /\ P(k) < e /\ \A x \in LineEnds(s) : ~(P(k) < x /\ x < e)
  BY <1>1 DEF c, P
<1>4. k < j
  <2>1. ~(j < k) /\ j # k
    <3>1. j # k
      BY <1>1, <1>2, <1>3
    <3>2. ASSUME j < k PROVE FALSE
      <4>1. P(j) < P(k) /\ P(j) \in Nat /\ P(k) \in Nat
        BY <1>1, <1>3, <3>2
      <4> QED BY <1>2, <1>3, <4>1
    <3> QED BY <3>1, <3>2
  <2> QED BY <1>1, <1>3, <2>1
<1>5. k + 1 \in 1 .. c /\ k + 1 \in 0 .. c
  BY <1>1, <1>3, <1>4
<1>6. P(k + 1) \in LineEnds(s) /\ P(k) < P(k + 1)
  <2>1. k < k + 1
    BY <1>3
  <2> QED BY <1>1, <1>3, <1>5, <2>1
<1>7. ~(k + 1 < j)
  <2>1. ASSUME k + 1 < j PROVE FALSE
    <3>1. P(k + 1) < P(j)
      BY <1>1, <1>3, <1>5, <2>1
    <3> QED BY <1>2, <1>3, <1>6, <3>1
  <2> QED BY <2>1
<1>8. k + 1 = j
  BY <1>3, <1>4, <1>7
<1> QED BY <1>2, <1>5, <1>8 DEF c, P

\* What stands in a part of a sequence.
LEMMA PartFacts ==
  ASSUME NEW S, NEW s \in Seq(S), NEW a \in Nat, NEW b \in Nat, a <= b, b <= Len(s)
  PROVE  /\ SubSeq(s, a + 1, b) \in Seq(S) /\ Len(SubSeq(s, a + 1, b)) = b - a
         /\ DOMAIN SubSeq(s, a + 1, b) = 1 .. b - a
         /\ \A i \in 1 .. b - a : SubSeq(s, a + 1, b)[i] = s[a + i]
<1>1. Len(s) \in Nat /\ \A i \in 1 .. Len(s) : s[i] \in S
  BY LenProperties, ElementOfSeq
<1> DEFINE t == SubSeq(s, a + 1, b)
<1>2. t \in Seq(S) /\ Len(t) = b - a /\ \A i \in 1 .. b - a : t[i] = s[a + i]
  <2>1. \A i \in a + 1 .. b : s[i] \in S
    BY <1>1
  <2>2. /\ t \in Seq(S) /\ Len(t) = IF a + 1 <= b THEN b - (a + 1) + 1 ELSE 0
        /\ \A i \in 1 .. b - (a + 1) + 1 : t[i] = s[a + 1 + i - 1]
    BY <2>1, SubSeqProperties
  <2>3. Len(t) = b - a
    BY <2>2
  <2>4. \A i \in 1 .. b - a : i \in 1 .. b - (a + 1) + 1 /\ a + 1 + i - 1 = a + i
    OBVIOUS
  <2> QED BY <2>2, <2>3, <2>4
<1> HIDE DEF t
<1>3. DOMAIN t = 1 .. b - a
  BY <1>2, LenProperties
<1> QED BY <1>2, <1>3 DEF t

\* A part of a part.
LEMMA PartOfPart ==
  ASSUME NEW S, NEW s \in Seq(S), NEW a \in Nat, NEW b \in Nat, a <= b, b <= Len(s),
         NEW i \in Nat, NEW j \in Nat, i <= j, j <= b - a
  PROVE  SubSeq(SubSeq(s, a + 1, b), i + 1, j) = SubSeq(s, a + i + 1, a + j)
<1> DEFINE t == SubSeq(s, a + 1, b)
           u == SubSeq(t, i + 1, j)
           v == SubSeq(s, a + i + 1, a + j)
<1>1. t \in Seq(S) /\ Len(t) = b - a /\ \A x \in 1 .. b - a : t[x] = s[a + x]
  BY PartFacts
<1>2. Len(s) \in Nat
  BY LenProperties
<1> HIDE DEF t
<1>3. u \in Seq(S) /\ Len(u) = j - i /\ \A x \in 1 .. j - i : u[x] = t[i + x]
  BY <1>1, PartFacts
<1> DEFINE c == a + i
           d == a + j
<1>4. c \in Nat /\ d \in Nat /\ c <= d /\ d <= Len(s) /\ d - c = j - i
  BY <1>2
<1> HIDE DEF c, d
<1>5. SubSeq(s, c + 1, d) \in Seq(S) /\ Len(SubSeq(s, c + 1, d)) = d - c
      /\ \A x \in 1 .. d - c : SubSeq(s, c + 1, d)[x] = s[c + x]
  BY <1>4, PartFacts
<1>6. v = SubSeq(s, c + 1, d)
  BY DEF c, d
<1> HIDE DEF u, v
<1>7. \A x \in 1 .. j - i : u[x] = v[x]
  <2> SUFFICES ASSUME NEW x \in 1 .. j - i PROVE u[x] = v[x]
    OBVIOUS
  <2>1. i + x \in 1 .. b - a /\ a + (i + x) = c + x
    BY DEF c
  <2>2. u[x] = t[i + x] /\ t[i + x] = s[a + (i + x)] /\ v[x] = s[c + x]
    BY <1>1, <1>3, <1>4, <1>5, <1>6, <2>1
  <2> QED BY <2>1, <2>2
<1>8. u = v
  BY <1>3, <1>4, <1>5, <1>6, <1>7, SeqEqual
<1> QED BY <1>8 DEF t, u, v

\* The first terminator.
LEMMA TerminatorFacts ==
  ASSUME NEW b \in Seq(Byte), HasTerminator(b)
  PROVE  /\ Terminator(b) \in 1 .. Len(b) /\ Ends(b[Terminator(b)])
         /\ \A j \in 1 .. Terminator(b) - 1 : ~Ends(b[j])
<1> DEFINE T == {i \in DOMAIN b : Ends(b[i])}
<1>1. Len(b) \in Nat /\ DOMAIN b = 1 .. Len(b)
  BY LenProperties
<1>2. T \subseteq Nat /\ T # {}
  BY <1>1 DEF HasTerminator
<1>3. \E i \in DOMAIN b : Ends(b[i]) /\ \A j \in 1 .. i - 1 : ~Ends(b[j])
  <2>1. PICK i \in T : \A j \in T : i <= j
    <3> HIDE DEF T
    <3> QED BY <1>2, LeastNatural
  <2>2. \A j \in 1 .. i - 1 : j \in DOMAIN b /\ j \notin T
    BY <1>1, <2>1
  <2> QED BY <2>1, <2>2
<1> QED BY <1>1, <1>3 DEF Terminator

\* The bytes that are no line yet.
Behind(s, k) == SubSeq(s, EndOf(s, k) + 1, Len(s))
Half(b) == b[Terminator(b)] = Cr /\ Terminator(b) = Len(b)

\* A line the decoder takes is the next one.
LEMMA LineCut ==
  ASSUME NEW s \in Seq(Byte), NEW k \in 0 .. LineCount(s),
         NEW b, b = Behind(s, k), HasTerminator(b), ~Half(b)
  PROVE  /\ k + 1 \in 1 .. LineCount(s) /\ EndOf(s, k + 1) = EndOf(s, k) + Consumed(b)
         /\ Lines(s)[k + 1] = TakenLine(b) /\ Len(TakenLine(b)) = LineBytes(b)
         /\ Rest(b) = Behind(s, k + 1)
<1> DEFINE p == EndOf(s, k)
           N == Len(s)
           t == Terminator(b)
           q == Consumed(b)
           e == p + q
<1>1. p \in Nat /\ N \in Nat /\ p <= N /\ DOMAIN s = 1 .. N
  <2>1. p \in 0 .. N /\ N \in Nat /\ DOMAIN s = 1 .. N
    BY EndsFacts
  <2> QED BY <2>1
<1>2. b \in Seq(Byte) /\ Len(b) = N - p /\ \A i \in 1 .. N - p : b[i] = s[p + i]
  <2>1. b = SubSeq(s, p + 1, N)
    BY DEF Behind
  <2>2. p \in Nat /\ N \in Nat /\ p <= N /\ N <= Len(s) /\ s \in Seq(Byte)
    BY <1>1 DEF N
  <2> HIDE DEF p, N
  <2>3. b \in Seq(Byte) /\ Len(b) = N - p
    BY <2>1, <2>2, PartFacts
  <2>4. \A i \in 1 .. N - p : b[i] = s[p + i]
    BY <2>1, <2>2, PartFacts
  <2> QED BY <2>3, <2>4
<1>3. t \in 1 .. N - p /\ Ends(b[t]) /\ \A j \in 1 .. t - 1 : ~Ends(b[j])
  BY <1>2, TerminatorFacts
<1>4. ~(b[t] = Cr /\ t = N - p)
  BY <1>2 DEF Half
<1>5. q = IF b[t] = Cr /\ t < N - p /\ b[t + 1] = Lf THEN t + 1 ELSE t
  BY <1>2 DEF Consumed
<1>6. TakenLine(b) = SubSeq(b, 1, t - 1) /\ LineBytes(b) = t - 1 /\ Rest(b) = SubSeq(b, q + 1, N - p)
  BY <1>2 DEF TakenLine, LineBytes, Rest
<1>7. Lf # Cr
  BY DEF Lf, Cr
<1> HIDE DEF p, N, t, q
<1>8. q \in 1 .. N - p /\ e \in 1 .. N /\ p < e
  BY <1>1, <1>3, <1>5
<1>9. s[p + t] = b[t] /\ (t < N - p => s[p + t + 1] = b[t + 1])
  <2>1. t + 1 \in 1 .. N - p => b[t + 1] = s[p + (t + 1)]
    BY <1>2
  <2>2. b[t] = s[p + t] /\ p + (t + 1) = p + t + 1
    BY <1>1, <1>2, <1>3
  <2>3. t < N - p => t + 1 \in 1 .. N - p
    BY <1>1, <1>3
  <2> QED BY <2>1, <2>2, <2>3
<1>10. e \in LineEnds(s)
  <2>1. CASE q = t + 1
    <3>1. s[e] = Lf
      <4>1. b[t + 1] = Lf /\ t < N - p /\ e = p + t + 1
        BY <1>1, <1>3, <1>5, <2>1
      <4> QED BY <1>9, <4>1
    <3> QED BY <1>1, <1>8, <3>1 DEF LineEnds
  <2>2. CASE q # t + 1
    <3>1. q = t /\ e = p + t /\ e + 1 = p + t + 1 /\ (e < N <=> t < N - p)
      BY <1>1, <1>3, <1>5, <2>2
    <3>2. ~(b[t] = Cr /\ t < N - p /\ b[t + 1] = Lf)
      BY <1>5, <2>2
    <3>3. b[t] = Lf \/ (b[t] = Cr /\ t < N - p /\ b[t + 1] # Lf)
      BY <1>1, <1>3, <1>4, <3>2 DEF Ends
    <3>4. s[e] = Lf \/ (s[e] = Cr /\ e < N /\ s[e + 1] # Lf)
      BY <1>9, <3>1, <3>3
    <3> QED BY <1>1, <1>8, <3>4 DEF LineEnds, N
  <2> QED BY <2>1, <2>2
<1>11. ASSUME NEW x \in LineEnds(s), p < x, x < e PROVE FALSE
  <2>1. x \in 1 .. N /\ (s[x] = Lf \/ (s[x] = Cr /\ s[x + 1] # Lf))
    BY <1>1 DEF LineEnds
  <2> DEFINE i == x - p
  <2>2. i \in 1 .. N - p /\ p + i = x /\ i < q
    BY <1>1, <1>8, <1>11, <2>1
  <2> HIDE DEF i
  <2>3. b[i] = s[x] /\ Ends(b[i])
    BY <1>2, <2>1, <2>2 DEF Ends
  <2>4. ~(i \in 1 .. t - 1)
    BY <1>3, <2>3
  <2>5. i = t /\ q = t + 1
    BY <1>3, <1>5, <2>2, <2>4
  <2>6. b[t] = Cr /\ t < N - p /\ b[t + 1] = Lf
    BY <1>3, <1>5, <2>5
  <2>7. x = p + t /\ x + 1 = p + t + 1
    BY <2>2, <2>5
  <2> QED BY <1>7, <1>9, <2>1, <2>6, <2>7
<1>12. k + 1 \in 1 .. LineCount(s) /\ EndOf(s, k + 1) = e
  <2>1. e \in LineEnds(s) /\ EndOf(s, k) < e /\ \A x \in LineEnds(s) : ~(EndOf(s, k) < x /\ x < e)
    BY <1>8, <1>10, <1>11 DEF p
  <2> HIDE DEF e
  <2> QED BY <2>1, NextEnd
<1>13. TakenLine(b) = SubSeq(s, p + 1, p + t - 1) /\ Len(TakenLine(b)) = t - 1
  <2> DEFINE j == t - 1
             O == 0
  <2>1. j \in Nat /\ j <= N - p /\ O \in Nat /\ O <= j
    BY <1>1, <1>3
  <2>2. b = SubSeq(s, p + 1, N)
    BY DEF Behind, p, N
  <2> HIDE DEF j, O
  <2>3. SubSeq(b, O + 1, j) = SubSeq(s, p + O + 1, p + j)
    BY <1>1, <2>1, <2>2, PartOfPart DEF N
  <2>4. Len(SubSeq(b, O + 1, j)) = j - O
    BY <1>2, <2>1, PartFacts
  <2>5. O + 1 = 1 /\ p + O + 1 = p + 1 /\ p + j = p + t - 1 /\ j - O = t - 1 /\ j = t - 1
    BY <1>1, <1>3 DEF O, j
  <2> QED BY <1>6, <2>3, <2>4, <2>5
<1>14. LineBetween(s, p, e) = SubSeq(s, p + 1, p + t - 1)
  <2>1. CASE q = t + 1
    <3>1. b[t + 1] = Lf /\ t < N - p /\ e = p + t + 1 /\ b[t] = Cr
      BY <1>1, <1>3, <1>5, <2>1
    <3>2. s[e] = Lf /\ e > p + 1 /\ s[e - 1] = Cr /\ e - 2 = p + t - 1
      <4>1. e - 1 = p + t
        BY <1>1, <1>3, <3>1
      <4>2. e > p + 1 /\ e - 2 = p + t - 1
        BY <1>1, <1>3, <3>1
      <4> QED BY <1>9, <3>1, <4>1, <4>2
    <3> HIDE DEF e
    <3> QED BY <3>2 DEF LineBetween
  <2>2. CASE q # t + 1
    <3>1. q = t /\ e = p + t /\ e - 1 = p + t - 1
      BY <1>1, <1>3, <1>5, <2>2
    <3>2. ~(e > p + 1 /\ s[e - 1] = Cr)
      <4> SUFFICES ASSUME e > p + 1, s[e - 1] = Cr PROVE FALSE
        OBVIOUS
      <4> DEFINE i == t - 1
      <4>1. i \in 1 .. t - 1 /\ i \in 1 .. N - p /\ p + i = e - 1
        BY <1>1, <1>3, <3>1
      <4> HIDE DEF i
      <4>2. b[i] = s[p + i] /\ ~Ends(b[i])
        BY <1>2, <1>3, <4>1
      <4> QED BY <4>1, <4>2 DEF Ends
    <3> HIDE DEF e
    <3> QED BY <3>1, <3>2 DEF LineBetween
  <2> QED BY <2>1, <2>2
<1>15. Lines(s)[k + 1] = TakenLine(b)
  <2>1. Lines(s)[k + 1] = LineBetween(s, EndOf(s, (k + 1) - 1), EndOf(s, k + 1))
    BY <1>12, LinesFacts
  <2>2. (k + 1) - 1 = k
    OBVIOUS
  <2> QED BY <1>12, <1>13, <1>14, <2>1, <2>2 DEF p
<1>16. Rest(b) = Behind(s, k + 1)
  <2> DEFINE j == N - p
  <2>1. q \in Nat /\ q <= j /\ j \in Nat /\ j <= N - p
    BY <1>1, <1>8
  <2>2. b = SubSeq(s, p + 1, N)
    BY DEF Behind, p, N
  <2> HIDE DEF j
  <2>3. SubSeq(b, q + 1, j) = SubSeq(s, p + q + 1, p + j)
    BY <1>1, <2>1, <2>2, PartOfPart DEF N
  <2>4. p + j = N
    BY <1>1 DEF j
  <2> QED BY <1>6, <1>12, <2>3, <2>4 DEF Behind, N, j
<1> QED BY <1>6, <1>12, <1>13, <1>15, <1>16 DEF p, q

\* Where there is none to be taken, there is none.
LEMMA NoLineLeft ==
  ASSUME NEW s \in Seq(Byte), NEW k \in 0 .. LineCount(s),
         NEW b, b = Behind(s, k), ~HasTerminator(b) \/ Half(b)
  PROVE  k = LineCount(s)
<1> DEFINE p == EndOf(s, k)
           N == Len(s)
           c == LineCount(s)
<1>1. p \in Nat /\ N \in Nat /\ p <= N /\ DOMAIN s = 1 .. N /\ c \in Nat
  <2>1. p \in 0 .. N /\ N \in Nat /\ DOMAIN s = 1 .. N /\ c \in Nat
    BY EndsFacts
  <2> QED BY <2>1
<1>2. b \in Seq(Byte) /\ Len(b) = N - p /\ DOMAIN b = 1 .. N - p /\ \A i \in 1 .. N - p : b[i] = s[p + i]
  <2>1. b = SubSeq(s, p + 1, N)
    BY DEF Behind
  <2> HIDE DEF p, N
  <2>2. b \in Seq(Byte) /\ Len(b) = N - p /\ \A i \in 1 .. N - p : b[i] = s[p + i]
    <3>1. p \in Nat /\ N \in Nat /\ p <= N /\ N <= Len(s)
      BY <1>1 DEF N
    <3> QED BY <2>1, <3>1, PartFacts
  <2>3. DOMAIN b = 1 .. N - p
    BY <2>2, LenProperties
  <2> QED BY <2>2, <2>3
<1>3. SUFFICES ASSUME k # c PROVE FALSE
  BY <1>3
<1>4. k \in 0 .. c /\ k + 1 \in 0 .. c /\ k + 1 \in 1 .. c /\ k < k + 1
  BY <1>1, <1>3
<1>5. EndOf(s, k + 1) \in LineEnds(s) /\ p < EndOf(s, k + 1)
  <2> HIDE DEF c
  <2> QED BY <1>4, EndsFacts DEF c
<1> DEFINE e == EndOf(s, k + 1)
           i == e - p
<1> HIDE DEF e, p, N
<1>6. e \in 1 .. N /\ (s[e] = Lf \/ (s[e] = Cr /\ e < N)) /\ p < e
  BY <1>1, <1>5 DEF LineEnds, e, N
<1>7. i \in 1 .. N - p /\ p + i = e
  BY <1>1, <1>6
<1> HIDE DEF i
<1>8. b[i] = s[e] /\ Ends(b[i]) /\ HasTerminator(b)
  BY <1>2, <1>6, <1>7 DEF Ends, HasTerminator
<1>9. /\ Terminator(b) = N - p /\ b[N - p] = Cr
      /\ \A j \in 1 .. (N - p) - 1 : ~Ends(b[j])
  BY <1>2, <1>8, TerminatorFacts DEF Half
<1>10. i = N - p
  <2>1. ~(i \in 1 .. (N - p) - 1)
    BY <1>8, <1>9
  <2> QED BY <1>1, <1>7, <2>1
<1>11. e = N /\ s[e] = Cr
  BY <1>1, <1>7, <1>8, <1>9, <1>10
<1> QED BY <1>1, <1>6, <1>11 DEF Lf, Cr

\* A part of the first of two sequences in a row; the second is the rest.
LEMMA RowParts ==
  ASSUME NEW S, NEW s \in Seq(S), NEW t \in Seq(S), NEW a \in Nat, NEW n \in Int, n <= Len(s), a <= Len(s)
  PROVE  /\ s \o t \in Seq(S) /\ Len(s) \in Nat /\ Len(s \o t) \in Nat /\ Len(s) <= Len(s \o t)
         /\ \A i \in 1 .. Len(s) : (s \o t)[i] = s[i]
         /\ SubSeq(s \o t, a + 1, n) = SubSeq(s, a + 1, n)
         /\ SubSeq(s \o t, a + 1, Len(s \o t)) = SubSeq(s, a + 1, Len(s)) \o t
<1> DEFINE u == s \o t
           N == Len(s)
           M == Len(t)
<1>1. /\ N \in Nat /\ M \in Nat /\ u \in Seq(S) /\ Len(u) = N + M
      /\ \A i \in 1 .. N + M : u[i] = IF i <= N THEN s[i] ELSE t[i - N]
  BY LenProperties, ConcatProperties
<1> HIDE DEF u, N, M
<1>2. \A i \in 1 .. N : u[i] = s[i]
  BY <1>1
<1>3. ASSUME NEW b \in Int, b <= N PROVE SubSeq(u, a + 1, b) = SubSeq(s, a + 1, b)
  <2>1. CASE b < a + 1
    BY <2>1, SubSeqEmpty
  <2>2. CASE ~(b < a + 1)
    <3>1. a <= b /\ b \in Nat /\ b <= Len(s) /\ b <= Len(u)
      BY <1>1, <1>3, <2>2 DEF N
    <3> DEFINE x == SubSeq(u, a + 1, b)
               y == SubSeq(s, a + 1, b)
    <3>2. x \in Seq(S) /\ Len(x) = b - a /\ \A i \in 1 .. b - a : x[i] = u[a + i]
      BY <1>1, <3>1, PartFacts
    <3>3. y \in Seq(S) /\ Len(y) = b - a /\ \A i \in 1 .. b - a : y[i] = s[a + i]
      BY <3>1, PartFacts
    <3> HIDE DEF x, y
    <3>4. \A i \in 1 .. b - a : x[i] = y[i]
      <4> SUFFICES ASSUME NEW i \in 1 .. b - a PROVE x[i] = y[i]
        OBVIOUS
      <4>1. a + i \in 1 .. N
        BY <1>1, <1>3, <3>1
      <4>2. u[a + i] = s[a + i]
        BY <1>2, <4>1
      <4> QED BY <3>2, <3>3, <4>2
    <3>5. x = y
      BY <3>2, <3>3, <3>4, SeqEqual
    <3> QED BY <3>5 DEF x, y
  <2> QED BY <2>1, <2>2
<1>4. SubSeq(u, N + 1, N + M) = t
  <2> DEFINE x == SubSeq(u, N + 1, N + M)
             K == N + M
  <2>1. K \in Nat /\ N <= K /\ K <= Len(u) /\ K - N = M
    BY <1>1
  <2> HIDE DEF K
  <2>2. SubSeq(u, N + 1, K) \in Seq(S) /\ Len(SubSeq(u, N + 1, K)) = K - N
        /\ \A i \in 1 .. K - N : SubSeq(u, N + 1, K)[i] = u[N + i]
    BY <1>1, <2>1, PartFacts
  <2>3. x \in Seq(S) /\ Len(x) = M /\ \A i \in 1 .. M : x[i] = u[N + i]
    BY <2>1, <2>2 DEF K
  <2> HIDE DEF x
  <2>4. \A i \in 1 .. M : x[i] = t[i]
    <3> SUFFICES ASSUME NEW i \in 1 .. M PROVE x[i] = t[i]
      OBVIOUS
    <3>1. N + i \in 1 .. N + M /\ ~(N + i <= N) /\ N + i - N = i
      BY <1>1
    <3> DEFINE j == N + i
    <3> HIDE DEF j
    <3>2. j \in 1 .. N + M /\ ~(j <= N) /\ j - N = i
      BY <1>1, <3>1 DEF j
    <3>3. u[j] = t[j - N]
      BY <1>1, <3>2
    <3> QED BY <2>3, <3>2, <3>3 DEF j
  <2>5. x = t
    BY <2>3, <2>4, SeqEqual DEF M
  <2> QED BY <2>5 DEF x
<1>5. SubSeq(u, a + 1, N + M) = SubSeq(s, a + 1, N) \o t
  <2> DEFINE K == N + M
  <2>1. K \in Nat /\ N <= K /\ K <= Len(u) /\ a <= N
    BY <1>1 DEF N
  <2> HIDE DEF K
  <2>2. SubSeq(u, a + 1, N) \o SubSeq(u, N + 1, K) = SubSeq(u, a + 1, K)
    BY <1>1, <2>1, PartsJoin
  <2>3. SubSeq(u, a + 1, N) = SubSeq(s, a + 1, N)
    BY <1>1, <1>3
  <2> QED BY <1>4, <2>2, <2>3 DEF K
<1>6. SubSeq(u, a + 1, n) = SubSeq(s, a + 1, n)
  BY <1>3 DEF N
<1>7. Len(u) \in Nat /\ N <= Len(u)
  BY <1>1
<1>8. SubSeq(u, a + 1, Len(u)) = SubSeq(s, a + 1, N) \o t
  BY <1>1, <1>5
<1> QED BY <1>1, <1>2, <1>6, <1>7, <1>8 DEF u, N

\* More bytes leave the lines there are as they are.
LEMMA LinesGrow ==
  ASSUME NEW s \in Seq(Byte), NEW t \in Seq(Byte)
  PROVE  /\ s \o t \in Seq(Byte) /\ LineCount(s) <= LineCount(s \o t)
         /\ \A k \in 0 .. LineCount(s) :
              EndOf(s \o t, k) = EndOf(s, k) /\ Behind(s \o t, k) = Behind(s, k) \o t
         /\ \A k \in 1 .. LineCount(s) : Lines(s \o t)[k] = Lines(s)[k]
<1> DEFINE u == s \o t
           N == Len(s)
           E == LineEnds(s)
           F == LineEnds(u) \ E
           c == LineCount(s)
<1>1. /\ u \in Seq(Byte) /\ N \in Nat /\ Len(u) \in Nat /\ N <= Len(u)
      /\ \A i \in 1 .. N : u[i] = s[i]
  <2>1. 0 \in Nat /\ 0 \in Int /\ 0 <= Len(s)
    BY LenProperties
  <2> QED BY <2>1, RowParts
<1>2. \A a \in 0 .. N : SubSeq(u, a + 1, Len(u)) = SubSeq(s, a + 1, N) \o t
  <2> SUFFICES ASSUME NEW a \in 0 .. N PROVE SubSeq(u, a + 1, Len(u)) = SubSeq(s, a + 1, N) \o t
    OBVIOUS
  <2>1. a \in Nat /\ a \in Int /\ a <= Len(s)
    BY <1>1
  <2> QED BY <2>1, RowParts
<1>3. \A a \in 0 .. N, n \in Int : n <= N => SubSeq(u, a + 1, n) = SubSeq(s, a + 1, n)
  <2> SUFFICES ASSUME NEW a \in 0 .. N, NEW n \in Int, n <= N
               PROVE  SubSeq(u, a + 1, n) = SubSeq(s, a + 1, n)
    OBVIOUS
  <2>1. a \in Nat /\ a <= Len(s) /\ n <= Len(s)
    BY <1>1
  <2> QED BY <2>1, RowParts
<1> HIDE DEF u
<1>4. /\ DOMAIN s = 1 .. N /\ E \subseteq 1 .. N /\ c \in Nat
      /\ \A k \in 0 .. c : EndOf(s, k) \in 0 .. N
      /\ \A k \in 1 .. c : EndOf(s, k) \in E
  BY EndsFacts
<1>5. DOMAIN u = 1 .. Len(u) /\ LineEnds(u) \subseteq 1 .. Len(u) /\ LineCount(u) \in Nat
  BY <1>1, EndsFacts
<1>6. E \subseteq LineEnds(u)
  <2> SUFFICES ASSUME NEW e \in E PROVE e \in LineEnds(u)
    OBVIOUS
  <2>1. e \in 1 .. N /\ (s[e] = Lf \/ (s[e] = Cr /\ e < N /\ s[e + 1] # Lf))
    BY <1>4 DEF LineEnds
  <2>2. u[e] = s[e] /\ (e < N => u[e + 1] = s[e + 1])
    <3>1. e < N => e + 1 \in 1 .. N
      BY <1>1, <2>1
    <3> QED BY <1>1, <2>1, <3>1
  <2>3. e \in 1 .. Len(u) /\ (e < N => e < Len(u))
    BY <1>1, <2>1
  <2> QED BY <1>5, <2>1, <2>2, <2>3 DEF LineEnds
<1>7. ASSUME NEW x \in E, NEW y \in F PROVE x < y
  <2>1. y \in 1 .. Len(u) /\ (u[y] = Lf \/ (u[y] = Cr /\ y < Len(u) /\ u[y + 1] # Lf))
    BY <1>5 DEF LineEnds
  <2>2. x \in 1 .. N /\ x # y
    BY <1>4
  <2>3. CASE y < N
    <3>1. y \in 1 .. N /\ y + 1 \in 1 .. N
      BY <1>1, <2>1, <2>3
    <3>2. u[y] = s[y] /\ u[y + 1] = s[y + 1]
      BY <1>1, <3>1
    <3>3. y \in LineEnds(s)
      BY <1>4, <2>1, <2>3, <3>1, <3>2 DEF LineEnds
    <3> QED BY <3>3
  <2>4. CASE ~(y < N)
    BY <1>1, <2>1, <2>2, <2>4
  <2> QED BY <2>3, <2>4
<1> DEFINE f == InOrder(E)
           g == InOrder(F)
<1>8. InOrder(LineEnds(u)) = f \o g
  <2>1. LineEnds(u) = E \cup F
    BY <1>6
  <2>2. Len(u) \in Nat /\ E \subseteq 1 .. Len(u) /\ F \subseteq 1 .. Len(u) /\ \A x \in E, y \in F : x < y
    BY <1>1, <1>5, <1>6, <1>7
  <2> HIDE DEF E, F, f, g
  <2>3. InOrder(E \cup F) = InOrder(E) \o InOrder(F)
    BY <2>2, InOrderRow
  <2> QED BY <2>1, <2>3 DEF f, g
<1>9. /\ f \in Seq(Nat) /\ g \in Seq(Nat) /\ Len(f) = c /\ Len(f \o g) = LineCount(u)
  <2>1. Len(u) \in Nat /\ E \subseteq 1 .. Len(u) /\ F \subseteq 1 .. Len(u) /\ LineEnds(u) \subseteq 1 .. Len(u)
    BY <1>1, <1>5, <1>6
  <2> DEFINE G == LineEnds(u)
  <2> HIDE DEF E, F, G
  <2>2. f \in Seq(E) /\ Len(f) = c /\ g \in Seq(F) /\ Len(InOrder(G)) = LineCount(u)
    BY <2>1, InOrderFacts DEF LineCount, E, G
  <2>3. E \subseteq Nat /\ F \subseteq Nat
    <3>1. \A x \in 1 .. Len(u) : x \in Nat
      BY <2>1
    <3> QED BY <2>1, <3>1
  <2> HIDE DEF f, g
  <2>4. f \in Seq(Nat) /\ g \in Seq(Nat)
    BY <2>2, <2>3, SeqMonotonic
  <2> QED BY <1>8, <2>2, <2>4 DEF G
<1> HIDE DEF E, F, f, g, c, N
<1>10. c <= LineCount(u) /\ \A i \in 1 .. c : (f \o g)[i] = f[i]
  <2>1. /\ Len(f \o g) = Len(f) + Len(g) /\ Len(g) \in Nat
        /\ \A i \in 1 .. Len(f) + Len(g) : (f \o g)[i] = IF i <= Len(f) THEN f[i] ELSE g[i - Len(f)]
    BY <1>9, ConcatProperties, LenProperties
  <2> QED BY <1>4, <1>9, <2>1
<1>11. \A k \in 0 .. c : EndOf(u, k) = EndOf(s, k)
  <2> SUFFICES ASSUME NEW k \in 0 .. c PROVE EndOf(u, k) = EndOf(s, k)
    OBVIOUS
  <2>1. CASE k = 0
    BY <2>1 DEF EndOf
  <2>2. CASE k # 0
    <3>1. k \in 1 .. c
      BY <1>4, <2>2
    <3>2. (f \o g)[k] = f[k]
      BY <1>10, <3>1
    <3> QED BY <1>8, <2>2, <3>2 DEF EndOf, f, E
  <2> QED BY <2>1, <2>2
<1>12. \A k \in 0 .. c : Behind(u, k) = Behind(s, k) \o t
  BY <1>2, <1>4, <1>11 DEF Behind, N
<1>13. ASSUME NEW k \in 1 .. c PROVE Lines(u)[k] = Lines(s)[k]
  <2>1. k \in 0 .. c /\ k - 1 \in 0 .. c /\ k \in 1 .. LineCount(u)
    BY <1>4, <1>5, <1>10
  <2>2. Lines(s)[k] = LineBetween(s, EndOf(s, k - 1), EndOf(s, k))
    BY LinesFacts DEF c
  <2>3. Lines(u)[k] = LineBetween(u, EndOf(u, k - 1), EndOf(u, k))
    BY <1>1, <2>1, LinesFacts
  <2> DEFINE a == EndOf(s, k - 1)
             e == EndOf(s, k)
             n == IF s[e] = Lf /\ e > a + 1 /\ s[e - 1] = Cr THEN e - 2 ELSE e - 1
  <2>4. a \in 0 .. N /\ e \in 1 .. N
    BY <1>4, <2>1
  <2> HIDE DEF a, e
  <2>5. u[e] = s[e] /\ (e > a + 1 => u[e - 1] = s[e - 1])
    <3>1. e > a + 1 => e - 1 \in 1 .. N
      BY <1>1, <2>4
    <3> QED BY <1>1, <2>4, <3>1
  <2>6. n \in Int /\ n <= N
    BY <1>1, <2>4
  <2>7. SubSeq(u, a + 1, n) = SubSeq(s, a + 1, n)
    <3> HIDE DEF n
    <3> QED BY <1>3, <2>4, <2>6
  <2>8. LineBetween(s, a, e) = SubSeq(s, a + 1, n) /\ LineBetween(u, a, e) = SubSeq(u, a + 1, n)
    BY <2>5 DEF LineBetween
  <2>9. EndOf(u, k - 1) = a /\ EndOf(u, k) = e
    BY <1>11, <2>1 DEF a, e
  <2> HIDE DEF n
  <2> QED BY <2>2, <2>3, <2>7, <2>8, <2>9 DEF a, e
<1> QED BY <1>1, <1>10, <1>11, <1>12, <1>13 DEF u, c

-----------------------------------------------------------------------------
(***************************************************************************)
(* The messages of a list of lines.                                        *)
(***************************************************************************)
\* A function on the first numbers is a sequence.
LEMMA FunctionIsSeq ==
  ASSUME NEW S, NEW n \in Nat, NEW f \in [1 .. n -> S]
  PROVE  f \in Seq(S) /\ Len(f) = n
<1>1. f \in Seq(S) /\ DOMAIN f = 1 .. n
  OBVIOUS
<1> QED BY <1>1, LenProperties

\* What one element more makes of a sequence.
LEMMA IsAppended ==
  ASSUME NEW S, NEW f \in Seq(S), NEW x \in S, NEW g \in Seq(S), Len(g) = Len(f) + 1,
         \A i \in 1 .. Len(f) : g[i] = f[i], g[Len(f) + 1] = x
  PROVE  g = Append(f, x)
<1>1. /\ Append(f, x) \in Seq(S) /\ Len(Append(f, x)) = Len(f) + 1
      /\ \A i \in 1 .. Len(f) : Append(f, x)[i] = f[i]
      /\ Append(f, x)[Len(f) + 1] = x
  BY AppendProperties
<1>2. Len(f) \in Nat
  BY LenProperties
<1>3. \A i \in 1 .. Len(g) : g[i] = Append(f, x)[i]
  BY <1>1, <1>2
<1> QED BY <1>1, <1>3, SeqEqual

\* A greater number comes last.
LEMMA InOrderMore ==
  ASSUME NEW n \in Nat, NEW S, S \subseteq 1 .. n
  PROVE  /\ InOrder(S \cup {n + 1}) = Append(InOrder(S), n + 1)
         /\ Cardinality(S \cup {n + 1}) = Cardinality(S) + 1
<1> DEFINE T == {n + 1}
           f == InOrder(S)
           m == n + 1
           U == S \cup T
<1>1. m \in Nat /\ S \subseteq 1 .. m /\ T \subseteq 1 .. m /\ U \subseteq 1 .. m /\ \A x \in S, y \in T : x < y
  <2>1. S \subseteq 1 .. m
    <3>1. \A x \in 1 .. n : x \in 1 .. n + 1
      OBVIOUS
    <3> QED BY <3>1
  <2> QED BY <2>1
<1>3. f \in Seq(Nat) /\ Len(f) = Cardinality(S)
  <2>1. f \in Seq(S) /\ Len(f) = Cardinality(S)
    BY InOrderFacts
  <2>2. S \subseteq Nat
    <3>1. \A x \in 1 .. n : x \in Nat
      OBVIOUS
    <3> QED BY <3>1
  <2> HIDE DEF f
  <2> QED BY <2>1, <2>2, SeqMonotonic
<1>4. InOrder(U) = f \o <<n + 1>>
  <2> DEFINE g == <<n + 1>>
  <2>1. IsOrder(g, T) /\ IsOrder(f, S)
    <3>1. IsOrder(f, S)
      BY OrderExists
    <3>2. n + 1 \in Nat
      OBVIOUS
    <3>3. IsOrder(g, T)
      BY <3>2, OrderOne
    <3> QED BY <3>1, <3>3
  <2>2. S \subseteq Nat /\ T \subseteq Nat /\ \A x \in S, y \in T : x < y
    <3>1. \A x \in 1 .. m : x \in Nat
      OBVIOUS
    <3> QED BY <1>1, <3>1
  <2> HIDE DEF T, f, g
  <2>3. IsOrder(f \o g, U) /\ U \subseteq Nat
    BY <2>1, <2>2, OrderRow
  <2> HIDE DEF U
  <2> QED BY <2>3, InOrderIs DEF g
<1> HIDE DEF f
<1>5. f \o <<n + 1>> = Append(f, n + 1) /\ Len(Append(f, n + 1)) = Len(f) + 1
  <2>1. n + 1 \in Nat
    OBVIOUS
  <2> QED BY <1>3, <2>1, AppendIsConcat, AppendProperties
<1>6. Len(InOrder(U)) = Cardinality(U)
  <2> HIDE DEF U, m
  <2> QED BY <1>1, InOrderFacts
<1> QED BY <1>3, <1>4, <1>5, <1>6 DEF f

\* One number more.
LEMMA UptoMore ==
  ASSUME NEW n \in Nat
  PROVE  /\ 1 .. n + 1 = (1 .. n) \cup {n + 1} /\ n + 1 \notin 1 .. n
         /\ \A x \in 1 .. n : \A b \in x .. n + 1 : b = n + 1 \/ b \in x .. n
OBVIOUS

\* The data lines that stand at a place, and one line more.
LEMMA DataKinds ==
  ASSUME NEW G \in Seq(Seq(Byte)), NEW k \in Nat, Len(G) = k, NEW j \in 1 .. k + 1
  PROVE  DataBefore(G, j) \subseteq 1 .. k /\ \A x \in DataBefore(G, j) : IsData(G[x])
BY DEF DataBefore

LEMMA DataSame ==
  ASSUME NEW G \in Seq(Seq(Byte)), NEW H \in Seq(Seq(Byte)), NEW k \in Nat, Len(G) = k, Len(H) = k + 1,
         \A i \in 1 .. k : H[i] = G[i], NEW j \in 1 .. k + 1
  PROVE  DataBefore(H, j) = DataBefore(G, j)
<1>1. \A b \in 1 .. j - 1 : H[b] = G[b]
  OBVIOUS
<1>2. \A x \in 1 .. j - 1 : \A b \in x .. j - 1 : H[b] = G[b]
  BY <1>1
<1> QED BY <1>1, <1>2 DEF DataBefore

LEMMA DataMore ==
  ASSUME NEW G \in Seq(Seq(Byte)), NEW H \in Seq(Seq(Byte)), NEW k \in Nat, Len(G) = k, Len(H) = k + 1,
         \A i \in 1 .. k : H[i] = G[i], NEW l, l = H[k + 1]
  PROVE  DataBefore(H, k + 2) =
           IF l = <<>> THEN {}
           ELSE IF IsData(l) THEN DataBefore(G, k + 1) \cup {k + 1} ELSE DataBefore(G, k + 1)
<1>1. k \in Nat /\ \A i \in 1 .. k : H[i] = G[i]
  OBVIOUS
<1>2. H[k + 1] = l
  OBVIOUS
<1>5. DataBefore(H, k + 2) = {x \in 1 .. k + 1 : IsData(H[x]) /\ \A b \in x .. k + 1 : H[b] # <<>>}
  <2>1. (k + 2) - 1 = k + 1
    BY <1>1
  <2> QED BY <2>1 DEF DataBefore
<1>6. DataBefore(G, k + 1) = {x \in 1 .. k : IsData(G[x]) /\ \A b \in x .. k : G[b] # <<>>}
  <2>1. (k + 1) - 1 = k
    BY <1>1
  <2> QED BY <2>1 DEF DataBefore
<1>7. CASE l = <<>>
  <2>1. \A x \in 1 .. k + 1 : k + 1 \in x .. k + 1
    BY <1>1
  <2> QED BY <1>2, <1>5, <1>7, <2>1 DEF IsData
<1>8. CASE l # <<>>
  <2>1. ASSUME NEW x \in 1 .. k
        PROVE  x \in DataBefore(H, k + 2) <=> x \in DataBefore(G, k + 1)
    <3>1. x \in 1 .. k + 1 /\ H[x] = G[x]
      BY <1>1
    <3>2. (\A b \in x .. k + 1 : H[b] # <<>>) <=> (\A b \in x .. k : G[b] # <<>>)
      <4>1. \A b \in x .. k : b \in 1 .. k /\ b \in x .. k + 1
        BY <1>1
      <4>2. ASSUME NEW b \in x .. k + 1 PROVE b = k + 1 \/ b \in x .. k
        <5>1. k \in Nat
          BY <1>1
        <5> QED BY <5>1, UptoMore
      <4> QED BY <1>1, <1>2, <1>8, <4>1, <4>2
    <3> QED BY <1>5, <1>6, <3>1, <3>2
  <2>2. k + 1 \in DataBefore(H, k + 2) <=> IsData(l)
    <3>1. k + 1 \in 1 .. k + 1 /\ \A b \in k + 1 .. k + 1 : b = k + 1
      BY <1>1
    <3> QED BY <1>2, <1>5, <1>8, <3>1
  <2>3. DataBefore(H, k + 2) \subseteq 1 .. k + 1 /\ DataBefore(G, k + 1) \subseteq 1 .. k
    BY <1>5, <1>6
  <2>4. (1 .. k + 1) = (1 .. k) \cup {k + 1} /\ k + 1 \notin 1 .. k
    <3>1. k \in Nat
      BY <1>1
    <3> QED BY <3>1, UptoMore
  <2>5. DataBefore(H, k + 2) = IF IsData(l) THEN DataBefore(G, k + 1) \cup {k + 1} ELSE DataBefore(G, k + 1)
    <3> DEFINE X == DataBefore(H, k + 2)
               Y == DataBefore(G, k + 1)
    <3> HIDE DEF X, Y
    <3>1. X \subseteq (1 .. k) \cup {k + 1} /\ Y \subseteq 1 .. k /\ k + 1 \notin 1 .. k
      BY <2>3, <2>4 DEF X, Y
    <3>2. \A x \in 1 .. k : x \in X <=> x \in Y
      BY <2>1 DEF X, Y
    <3>3. k + 1 \in X <=> IsData(l)
      BY <2>2 DEF X
    <3>4. X = IF IsData(l) THEN Y \cup {k + 1} ELSE Y
      <4> DEFINE I == 1 .. k
                 z == k + 1
      <4> HIDE DEF I, z
      <4>1. X \subseteq I \cup {z} /\ Y \subseteq I /\ z \notin I /\ (\A x \in I : x \in X <=> x \in Y)
            /\ (z \in X <=> IsData(l))
        BY <3>1, <3>2, <3>3 DEF I, z
      <4>2. X = IF IsData(l) THEN Y \cup {z} ELSE Y
        <5>1. CASE IsData(l)
          BY <4>1, <5>1
        <5>2. CASE ~IsData(l)
          <6>1. z \notin X /\ \A x : x \in X <=> x \in Y
            BY <4>1, <5>2
          <6> QED BY <5>2, <6>1
        <5> QED BY <5>1, <5>2
      <4> QED BY <4>2 DEF z
    <3> QED BY <3>4 DEF X, Y
  <2> QED BY <1>8, <2>5
<1> QED BY <1>7, <1>8

\* What the lines at some positions carry.
ValuesAt(ls, S) == [i \in DOMAIN InOrder(S) |-> Value(ls[InOrder(S)[i]]) \o <<Lf>>]

LEMMA ValuesTyped ==
  ASSUME NEW n \in Nat, NEW S, S \subseteq 1 .. n, NEW ls, \A x \in S : ls[x] \in Seq(Byte) /\ IsData(ls[x])
  PROVE  /\ ValuesAt(ls, S) \in Seq(Seq(Byte)) /\ Len(ValuesAt(ls, S)) = Cardinality(S)
         /\ Joined(ls, S) = FlattenSeq(ValuesAt(ls, S)) /\ Joined(ls, S) \in Seq(Byte)
<1> DEFINE c == Cardinality(S)
           f == InOrder(S)
           v == ValuesAt(ls, S)
           A == Seq(Byte)
<1>1. c \in Nat /\ DOMAIN f = 1 .. c /\ \A i \in 1 .. c : f[i] \in S
  BY InOrderFacts
<1>2. v = [i \in 1 .. c |-> Value(ls[f[i]]) \o <<Lf>>]
  BY <1>1 DEF ValuesAt
<1>3. \A i \in 1 .. c : Value(ls[f[i]]) \o <<Lf>> \in A
  <2> SUFFICES ASSUME NEW i \in 1 .. c PROVE Value(ls[f[i]]) \o <<Lf>> \in A
    OBVIOUS
  <2> DEFINE l == ls[f[i]]
             e == <<Lf>>
  <2>1. l \in Seq(Byte) /\ Field(l) = <<"D">>
    BY <1>1 DEF IsData
  <2> HIDE DEF l
  <2>2. Value(l) \in Seq(Byte)
    BY <2>1, FieldNamed
  <2>3. e \in Seq(Byte)
    <3>1. Lf \in Byte
      BY SseAssumption DEF Lf
    <3> QED BY <3>1
  <2> HIDE DEF e
  <2>4. Value(l) \o e \in Seq(Byte)
    BY <2>2, <2>3, ConcatProperties
  <2> QED BY <2>4 DEF l, e
<1> HIDE DEF A, v, c, f
<1>4. v \in [1 .. c -> A]
  BY <1>2, <1>3
<1>5. v \in Seq(A) /\ Len(v) = c
  BY <1>1, <1>4, FunctionIsSeq
<1>6. Joined(ls, S) = FlattenSeq(v)
  BY DEF Joined, v, ValuesAt
<1>7. FlattenSeq(v) \in Seq(Byte)
  <2>1. v \in Seq(Seq(Byte)) /\ <<>> \in Seq(Byte)
    BY <1>5, EmptySeq DEF A
  <2> QED BY <2>1, FlattenMore
<1> QED BY <1>5, <1>6, <1>7 DEF v, c, A

\* Only the lines at these positions count.
LEMMA JoinedSame ==
  ASSUME NEW n \in Nat, NEW S, S \subseteq 1 .. n, NEW ls, NEW ms, \A x \in S : ms[x] = ls[x]
  PROVE  ValuesAt(ms, S) = ValuesAt(ls, S) /\ Joined(ms, S) = Joined(ls, S)
<1> DEFINE f == InOrder(S)
<1>1. \A i \in DOMAIN f : f[i] \in S
  <2>1. DOMAIN f = 1 .. Cardinality(S) /\ \A i \in 1 .. Cardinality(S) : f[i] \in S
    BY InOrderFacts
  <2> QED BY <2>1
<1> HIDE DEF f
<1>2. \A i \in DOMAIN f : Value(ms[f[i]]) \o <<Lf>> = Value(ls[f[i]]) \o <<Lf>>
  BY <1>1
<1>3. [i \in DOMAIN f |-> Value(ms[f[i]]) \o <<Lf>>] = [i \in DOMAIN f |-> Value(ls[f[i]]) \o <<Lf>>]
  BY <1>2
<1>4. ValuesAt(ms, S) = ValuesAt(ls, S)
  BY <1>3 DEF ValuesAt, f
<1> QED BY <1>4 DEF Joined, ValuesAt

\* A data line more behind the others.
LEMMA JoinedMore ==
  ASSUME NEW n \in Nat, NEW S, S \subseteq 1 .. n, NEW ls,
         \A x \in S \cup {n + 1} : ls[x] \in Seq(Byte) /\ IsData(ls[x])
  PROVE  Joined(ls, S \cup {n + 1}) = Joined(ls, S) \o (Value(ls[n + 1]) \o <<Lf>>)
<1> DEFINE T == S \cup {n + 1}
           c == Cardinality(S)
           f == InOrder(S)
           g == InOrder(T)
           v == ValuesAt(ls, S)
           w == ValuesAt(ls, T)
           x == Value(ls[n + 1]) \o <<Lf>>
           A == Seq(Byte)
<1>1. T \subseteq 1 .. n + 1 /\ n + 1 \in Nat
  <2>1. 1 .. n + 1 = (1 .. n) \cup {n + 1}
    BY UptoMore
  <2> QED BY <2>1
<1>2. v \in Seq(A) /\ Len(v) = c /\ Joined(ls, S) = FlattenSeq(v)
  <2>1. \A y \in S : ls[y] \in Seq(Byte) /\ IsData(ls[y])
    OBVIOUS
  <2> QED BY <2>1, ValuesTyped
<1>3. w \in Seq(A) /\ Len(w) = Cardinality(T) /\ Joined(ls, T) = FlattenSeq(w)
  <2> DEFINE m == n + 1
  <2>1. \A y \in T : ls[y] \in Seq(Byte) /\ IsData(ls[y])
    OBVIOUS
  <2>2. T \subseteq 1 .. m /\ m \in Nat
    BY <1>1
  <2> HIDE DEF T, m
  <2> QED BY <2>1, <2>2, ValuesTyped
<1>4. g = Append(f, n + 1) /\ Cardinality(T) = c + 1
  BY InOrderMore
<1>5. /\ c \in Nat /\ f \in Seq(S) /\ Len(f) = c /\ DOMAIN f = 1 .. c
  <2>1. c \in Nat /\ f \in Seq(S)
    BY InOrderFacts
  <2>2. Len(f) = c /\ DOMAIN f = 1 .. c
    BY InOrderFacts
  <2> QED BY <2>1, <2>2
<1>6. Len(g) = c + 1 /\ DOMAIN g = 1 .. c + 1 /\ g[c + 1] = n + 1 /\ \A i \in 1 .. c : g[i] = f[i]
  <2>1. f \in Seq(T) /\ n + 1 \in T
    <3>1. S \subseteq T
      OBVIOUS
    <3> HIDE DEF f
    <3> QED BY <1>5, <3>1, SeqMonotonic
  <2> DEFINE m == n + 1
  <2> HIDE DEF f, T, m, c
  <2>2. /\ Append(f, m) \in Seq(T) /\ Len(Append(f, m)) = c + 1 /\ Append(f, m)[c + 1] = m
        /\ \A i \in 1 .. c : Append(f, m)[i] = f[i]
    BY <1>5, <2>1, AppendProperties DEF m
  <2>3. DOMAIN Append(f, m) = 1 .. c + 1
    BY <2>2, LenProperties
  <2> QED BY <1>4, <2>2, <2>3 DEF m
<1> HIDE DEF f, g, c, x, A
<1>7. v = [i \in 1 .. c |-> Value(ls[f[i]]) \o <<Lf>>]
  BY <1>5 DEF ValuesAt, f
<1>8. w = [i \in 1 .. c + 1 |-> Value(ls[g[i]]) \o <<Lf>>]
  BY <1>6 DEF ValuesAt, g
<1> HIDE DEF v, w
<1>9. w[c + 1] = x /\ \A i \in 1 .. c : w[i] = v[i]
  <2>1. c + 1 \in 1 .. c + 1 /\ \A i \in 1 .. c : i \in 1 .. c + 1
    BY <1>5
  <2> QED BY <1>6, <1>7, <1>8, <2>1 DEF x
<1>10. x \in A
  <2>1. c + 1 \in 1 .. Len(w)
    BY <1>3, <1>4, <1>5
  <2>2. w[c + 1] \in A
    BY <1>3, <2>1, ElementOfSeq
  <2> QED BY <1>9, <2>2
<1>11. w = Append(v, x)
  BY <1>2, <1>3, <1>4, <1>9, <1>10, IsAppended
<1>12. FlattenSeq(Append(v, x)) = FlattenSeq(v) \o x
  BY <1>2, <1>10, FlattenMore DEF A
<1> QED BY <1>2, <1>3, <1>11, <1>12 DEF x

\* The empty lines that end a message.
EndsMessage(ls) == {k \in DOMAIN ls : ls[k] = <<>> /\ DataBefore(ls, k) # {}}
MessageAt(ls, k) == Front(Joined(ls, DataBefore(ls, k)))

\* The messages, and what they are with a line more.
LEMMA MessagesTyped ==
  ASSUME NEW G \in Seq(Seq(Byte))
  PROVE  /\ EndsMessage(G) \subseteq 1 .. Len(G)
         /\ MessagesIn(G) \in Seq(Seq(Byte)) /\ Len(MessagesIn(G)) = Cardinality(EndsMessage(G))
         /\ \A i \in 1 .. Cardinality(EndsMessage(G)) :
              MessagesIn(G)[i] = MessageAt(G, InOrder(EndsMessage(G))[i])
         /\ \A j \in 1 .. Len(G) + 1 : MessageAt(G, j) \in Seq(Byte)
<1> DEFINE S == EndsMessage(G)
           c == Cardinality(S)
           f == InOrder(S)
           n == Len(G)
           A == Seq(Byte)
           m == MessagesIn(G)
<1>1. n \in Nat /\ DOMAIN G = 1 .. n /\ \A i \in 1 .. n : G[i] \in Seq(Byte)
  BY LenProperties, ElementOfSeq
<1>2. S \subseteq 1 .. n
  BY <1>1 DEF EndsMessage
<1>3. c \in Nat /\ DOMAIN f = 1 .. c /\ \A i \in 1 .. c : f[i] \in S
  <2> HIDE DEF S, n
  <2> QED BY <1>1, <1>2, InOrderFacts
<1>4. ASSUME NEW j \in 1 .. n + 1 PROVE MessageAt(G, j) \in A
  <2> DEFINE T == DataBefore(G, j)
             v == Joined(G, T)
  <2>1. T \subseteq 1 .. n /\ \A x \in T : G[x] \in Seq(Byte) /\ IsData(G[x])
    <3>1. \A x \in 1 .. j - 1 : x \in 1 .. n
      BY <1>1, <1>4
    <3> QED BY <1>1, <3>1 DEF DataBefore
  <2> HIDE DEF T, n
  <2>2. v \in Seq(Byte)
    BY <1>1, <2>1, ValuesTyped
  <2> HIDE DEF v
  <2>3. Len(v) - 1 \in Int /\ Len(v) - 1 <= Len(v) /\ 1 \in Nat \ {0}
    BY <2>2, LenProperties
  <2>4. SubSeq(v, 1, Len(v) - 1) \in Seq(Byte)
    BY <2>2, <2>3, PartOf
  <2> QED BY <2>4 DEF MessageAt, Front, v, T
<1>5. m = [i \in 1 .. c |-> MessageAt(G, f[i])]
  BY <1>3 DEF MessagesIn, MessageAt, EndsMessage
<1> HIDE DEF S, c, f, A, m, n
<1>6. \A i \in 1 .. c : MessageAt(G, f[i]) \in A
  <2> SUFFICES ASSUME NEW i \in 1 .. c PROVE MessageAt(G, f[i]) \in A
    OBVIOUS
  <2>1. f[i] \in 1 .. n
    BY <1>2, <1>3
  <2>2. f[i] \in 1 .. n + 1
    BY <1>1, <2>1
  <2> QED BY <1>4, <2>2
<1>7. m \in [1 .. c -> A]
  BY <1>5, <1>6
<1>8. m \in Seq(A) /\ Len(m) = c
  BY <1>3, <1>7, FunctionIsSeq
<1> QED BY <1>2, <1>4, <1>5, <1>8 DEF S, c, f, A, m, n

\* The messages of some lines and of one line more.
OneLine(G, H, l) ==
  /\ G \in Seq(Seq(Byte)) /\ H \in Seq(Seq(Byte)) /\ Len(H) = Len(G) + 1
  /\ H[Len(G) + 1] = l /\ \A i \in 1 .. Len(G) : H[i] = G[i]
MessagesThen(G, l) ==
  IF l = <<>> /\ DataBefore(G, Len(G) + 1) # {}
  THEN Append(MessagesIn(G), MessageAt(G, Len(G) + 1)) ELSE MessagesIn(G)

LEMMA OneLineFacts ==
  ASSUME NEW G, NEW H, NEW l, OneLine(G, H, l)
  PROVE  \E k \in Nat : /\ G \in Seq(Seq(Byte)) /\ H \in Seq(Seq(Byte)) /\ Len(G) = k /\ Len(H) = k + 1
                        /\ H[k + 1] = l /\ \A i \in 1 .. k : H[i] = G[i]
BY LenProperties DEF OneLine

LEMMA MessagesMore ==
  ASSUME NEW G, NEW H, NEW l, OneLine(G, H, l)
  PROVE  MessagesIn(H) = MessagesThen(G, l)
<1>20. PICK k \in Nat : /\ G \in Seq(Seq(Byte)) /\ H \in Seq(Seq(Byte)) /\ Len(G) = k /\ Len(H) = k + 1
                        /\ H[k + 1] = l /\ \A i \in 1 .. k : H[i] = G[i]
  BY OneLineFacts
<1> USE <1>20
<1> DEFINE S == EndsMessage(G)
           T == EndsMessage(H)
           more == l = <<>> /\ DataBefore(G, k + 1) # {}
<1>1. k \in Nat /\ H \in Seq(Seq(Byte)) /\ Len(H) = k + 1 /\ \A i \in 1 .. k : H[i] = G[i]
  OBVIOUS
<1>2. H[k + 1] = l
  OBVIOUS
<1>3. /\ \A j \in 1 .. k + 1 : DataBefore(H, j) = DataBefore(G, j)
      /\ \A j \in 1 .. k + 1 : DataBefore(G, j) \subseteq 1 .. k
  <2>1. \A j \in 1 .. k + 1 : DataBefore(H, j) = DataBefore(G, j)
    BY DataSame
  <2>2. \A j \in 1 .. k + 1 : DataBefore(G, j) \subseteq 1 .. k
    BY DataKinds
  <2> QED BY <2>1, <2>2
<1>4. DOMAIN G = 1 .. k /\ DOMAIN H = 1 .. k + 1
  BY <1>1, LenProperties
<1>5. \A j \in 1 .. k + 1 : MessageAt(H, j) = MessageAt(G, j)
  <2> SUFFICES ASSUME NEW j \in 1 .. k + 1 PROVE MessageAt(H, j) = MessageAt(G, j)
    OBVIOUS
  <2> DEFINE D == DataBefore(G, j)
  <2>1. D \subseteq 1 .. k /\ DataBefore(H, j) = D
    BY <1>3
  <2> HIDE DEF D
  <2>2. \A x \in D : H[x] = G[x]
    BY <1>1, <2>1
  <2>3. Joined(H, D) = Joined(G, D)
    BY <1>1, <2>1, <2>2, JoinedSame
  <2> QED BY <2>1, <2>3 DEF MessageAt, D
<1>6. S \subseteq 1 .. k
  BY <1>4 DEF EndsMessage
<1>7. T = IF more THEN S \cup {k + 1} ELSE S
  <2>1. \A x \in 1 .. k : x \in T <=> x \in S
    <3>1. \A x \in 1 .. k : x \in 1 .. k + 1
      BY <1>1
    <3> QED BY <1>1, <1>3, <1>4, <3>1 DEF EndsMessage
  <2>2. k + 1 \in T <=> more
    <3>1. k + 1 \in 1 .. k + 1
      BY <1>1
    <3> QED BY <1>2, <1>3, <1>4, <3>1 DEF EndsMessage
  <2>3. T \subseteq 1 .. k + 1
    BY <1>4 DEF EndsMessage
  <2>4. 1 .. k + 1 = (1 .. k) \cup {k + 1} /\ k + 1 \notin 1 .. k
    BY <1>1, UptoMore
  <2> DEFINE I == 1 .. k
             z == k + 1
  <2>5. T \subseteq I \cup {z} /\ S \subseteq I /\ z \notin I /\ \A x \in I : x \in T <=> x \in S
    BY <1>6, <2>1, <2>3, <2>4
  <2>6. z \in T <=> more
    BY <2>2
  <2> HIDE DEF T, S, I, z, more
  <2>7. CASE more
    <3>1. T = S \cup {z}
      BY <2>5, <2>6, <2>7
    <3> QED BY <2>7, <3>1 DEF z
  <2>8. CASE ~more
    <3>1. T = S
      BY <2>5, <2>6, <2>8
    <3> QED BY <2>8, <3>1
  <2> QED BY <2>7, <2>8
<1> DEFINE f == InOrder(S)
           g == InOrder(T)
           c == Cardinality(S)
           p == MessagesIn(G)
           q == MessagesIn(H)
           A == Seq(Byte)
<1>8. /\ p \in Seq(A) /\ Len(p) = c /\ \A i \in 1 .. c : p[i] = MessageAt(G, f[i])
      /\ \A j \in 1 .. k + 1 : MessageAt(G, j) \in A
  BY MessagesTyped
<1>9. q \in Seq(A) /\ Len(q) = Cardinality(T) /\ \A i \in 1 .. Cardinality(T) : q[i] = MessageAt(H, g[i])
  BY <1>1, MessagesTyped
<1>10. c \in Nat /\ f \in Seq(S) /\ Len(f) = c /\ \A i \in 1 .. c : f[i] \in S
  <2> HIDE DEF S
  <2> QED BY <1>1, <1>6, InOrderFacts
<1>11. S \subseteq 1 .. k + 1
  <2>1. \A x \in 1 .. k : x \in 1 .. k + 1
    BY <1>1
  <2> QED BY <1>6, <2>1
<1> HIDE DEF S, T, c, p, q, A
<1>12. \A i \in 1 .. c : MessageAt(H, f[i]) = p[i]
  <2> SUFFICES ASSUME NEW i \in 1 .. c PROVE MessageAt(H, f[i]) = p[i]
    OBVIOUS
  <2>1. f[i] \in 1 .. k + 1
    BY <1>10, <1>11
  <2> QED BY <1>5, <1>8, <2>1
<1> HIDE DEF f, g, more
<1>13. CASE ~more
  <2>1. T = S /\ Cardinality(T) = c /\ g = f
    BY <1>7, <1>13 DEF c, f, g
  <2>2. Len(q) = Len(p) /\ \A i \in 1 .. Len(q) : q[i] = p[i]
    BY <1>8, <1>9, <1>12, <2>1
  <2>3. q = p
    BY <1>8, <1>9, <2>2, SeqEqual
  <2> QED BY <1>13, <2>3 DEF p, q, more, MessagesThen
<1>14. CASE more
  <2>1. T = S \cup {k + 1}
    BY <1>7, <1>14
  <2>2. g = Append(f, k + 1) /\ Cardinality(T) = c + 1
    BY <1>1, <1>6, <2>1, InOrderMore DEF c, f, g
  <2>3. /\ Append(f, k + 1)[c + 1] = k + 1 /\ \A i \in 1 .. c : Append(f, k + 1)[i] = f[i]
    <3>1. f \in Seq(T) /\ k + 1 \in T
      <4>1. S \subseteq T
        BY <2>1
      <4> QED BY <1>10, <2>1, <4>1, SeqMonotonic
    <3> DEFINE m == k + 1
    <3> HIDE DEF m
    <3> QED BY <1>10, <3>1, AppendProperties DEF m
  <2> DEFINE x == MessageAt(G, k + 1)
  <2>4. x \in A /\ MessageAt(H, k + 1) = x
    <3>1. k + 1 \in 1 .. k + 1
      BY <1>1
    <3> QED BY <1>5, <1>8, <3>1
  <2>5. \A i \in 1 .. c : q[i] = p[i]
    <3>1. \A i \in 1 .. c : i \in 1 .. c + 1
      BY <1>10
    <3> QED BY <1>9, <1>12, <2>2, <2>3, <3>1
  <2>6. q[c + 1] = x
    <3>1. c + 1 \in 1 .. c + 1
      BY <1>10
    <3> QED BY <1>9, <2>2, <2>3, <2>4, <3>1
  <2> HIDE DEF x
  <2>7. q = Append(p, x)
    BY <1>8, <1>9, <2>2, <2>4, <2>5, <2>6, IsAppended
  <2> QED BY <1>14, <2>7 DEF p, q, x, more, MessagesThen
<1> QED BY <1>13, <1>14

-----------------------------------------------------------------------------
(***************************************************************************)
(* The decoder, line by line.                                              *)
(***************************************************************************)
\* The decoder d has taken the first k lines of s, and said h.
AtLine(s, d, h, k) ==
  /\ k \in 0 .. LineCount(s) /\ d.buf = Behind(s, k)
  /\ \A i \in 1 .. k : ~BadLine(Lines(s)[i])
  /\ \E G \in {SubSeq(Lines(s), 1, k)} :
     /\ d.data = Joined(G, DataBefore(G, k + 1)) /\ (d.has <=> DataBefore(G, k + 1) # {})
     /\ h = MessagesIn(G)

\* The first lines.
LEMMA FirstLines ==
  ASSUME NEW s \in Seq(Byte), NEW k \in 0 .. LineCount(s), NEW G, G = SubSeq(Lines(s), 1, k)
  PROVE  G \in Seq(Seq(Byte)) /\ Len(G) = k /\ \A i \in 1 .. k : G[i] = Lines(s)[i]
<1>1. Lines(s) \in Seq(Seq(Byte)) /\ Len(Lines(s)) = LineCount(s)
  BY LinesFacts
<1>2. k \in 0 .. Len(Lines(s))
  BY <1>1
<1> DEFINE A == Seq(Byte)
           L == Lines(s)
<1> HIDE DEF A, L
<1>3. L \in Seq(A) /\ k \in 0 .. Len(L)
  BY <1>1, <1>2 DEF A, L
<1>4. SubSeq(L, 1, k) \in Seq(A) /\ Len(SubSeq(L, 1, k)) = k /\ \A i \in 1 .. k : SubSeq(L, 1, k)[i] = L[i]
  BY <1>3, FirstOf
<1> QED BY <1>4 DEF A, L

\* A comment has no field name.
LEMMA CommentIsNone ==
  ASSUME NEW l \in Seq(Byte), l # <<>>, IsComment(l)
  PROVE  ~IsData(l)
<1>1. Len(l) \in Nat \ {0} /\ DOMAIN l = 1 .. Len(l)
  BY EmptySeq, LenProperties
<1>2. 1 \in Colons(l) /\ Colons(l) \subseteq Nat /\ \A i \in Colons(l) : 1 <= i
  BY <1>1 DEF IsComment, Colons
<1> DEFINE m == Min(Colons(l))
<1>3. m \in Colons(l) /\ \A i \in Colons(l) : m <= i
  BY <1>2, LeastNatural DEF Min
<1> HIDE DEF m
<1>4. m = 1
  BY <1>2, <1>3
<1>5. Field(l) = SubSeq(l, 1, m - 1)
  BY <1>2 DEF Field, m
<1>6. Field(l) = <<>>
  BY <1>4, <1>5, SubSeqEmpty
<1> QED BY <1>6 DEF IsData

\* What a round does with the next line.
LEMMA RoundTakes ==
  ASSUME NEW s \in Seq(Byte), NEW d \in Decoder, NEW h, NEW k, AtLine(s, d, h, k),
         d.error = "none", Taking(d.buf) = "line"
  PROVE  \/ Round(d).error = "utf8" /\ ~Emits(d)
         \/ /\ Round(d).error = "none"
            /\ AtLine(s, Round(d), IF Emits(d) THEN Append(h, Message(d)) ELSE h, k + 1)
<1> DEFINE b == d.buf
           l == TakenLine(b)
           e == [d EXCEPT !.buf = Rest(@)]
           G == SubSeq(Lines(s), 1, k)
           H == SubSeq(Lines(s), 1, k + 1)
           S == DataBefore(G, k + 1)
           T == DataBefore(H, k + 2)
           r == Round(d)
           g == IF Emits(d) THEN Append(h, Message(d)) ELSE h
<1>1. /\ k \in 0 .. LineCount(s) /\ b = Behind(s, k) /\ \A i \in 1 .. k : ~BadLine(Lines(s)[i])
      /\ d.data = Joined(G, S) /\ (d.has <=> S # {}) /\ h = MessagesIn(G)
  BY DEF AtLine
<1>2. /\ d.data \in Seq(Byte) /\ d.has \in BOOLEAN /\ b \in Seq(Byte)
      /\ e \in [buf : {Rest(b)}, data : Seq(Byte), has : BOOLEAN, error : {"none"}]
      /\ e.buf = Rest(b) /\ e.data = d.data /\ e.has = d.has /\ e.error = "none"
  BY DEF Decoder
<1>3. HasTerminator(b) /\ ~Half(b) /\ ~(LineBytes(b) > MaxLine)
  BY DEF Taking, Half
<1>4. r = Absorbed(e, l) /\ (Emits(d) <=> Dispatches(d, l)) /\ (Dispatches(e, l) <=> Dispatches(d, l))
  BY <1>2 DEF Round, Emits, Dispatches
<1> HIDE DEF b, l, e, r
<1>5. /\ k + 1 \in 1 .. LineCount(s) /\ Lines(s)[k + 1] = l /\ ~(Len(l) > MaxLine)
      /\ Rest(b) = Behind(s, k + 1) /\ k \in Nat
  <2>1. /\ k + 1 \in 1 .. LineCount(s) /\ Lines(s)[k + 1] = l /\ Len(l) = LineBytes(b)
        /\ Rest(b) = Behind(s, k + 1)
    BY <1>1, <1>3, LineCut DEF l
  <2>2. LineCount(s) \in Nat
    BY EndsFacts
  <2> QED BY <1>1, <1>3, <2>1, <2>2
<1>6. k + 1 \in 0 .. LineCount(s)
  BY <1>5
<1>7. G \in Seq(Seq(Byte)) /\ Len(G) = k /\ \A i \in 1 .. k : G[i] = Lines(s)[i]
  BY <1>1, FirstLines
<1>8. H \in Seq(Seq(Byte)) /\ Len(H) = k + 1 /\ \A i \in 1 .. k + 1 : H[i] = Lines(s)[i]
  <2> DEFINE m == k + 1
  <2> HIDE DEF m
  <2>1. SubSeq(Lines(s), 1, m) \in Seq(Seq(Byte)) /\ Len(SubSeq(Lines(s), 1, m)) = m
        /\ \A i \in 1 .. m : SubSeq(Lines(s), 1, m)[i] = Lines(s)[i]
    BY <1>6, FirstLines DEF m
  <2> QED BY <2>1 DEF m
<1> HIDE DEF G, H
<1>9. H[k + 1] = l /\ (\A i \in 1 .. k : H[i] = G[i]) /\ l \in Seq(Byte)
  <2>1. k + 1 \in 1 .. k + 1 /\ \A i \in 1 .. k : i \in 1 .. k + 1
    BY <1>5
  <2>2. H[k + 1] = l /\ \A i \in 1 .. k : H[i] = G[i]
    BY <1>5, <1>7, <1>8, <2>1
  <2>3. H[k + 1] \in Seq(Byte)
    BY <1>8, <2>1, ElementOfSeq
  <2> QED BY <2>2, <2>3
<1>10. /\ S \subseteq 1 .. k /\ \A x \in S : IsData(G[x])
       /\ T = IF l = <<>> THEN {} ELSE IF IsData(l) THEN S \cup {k + 1} ELSE S
       /\ MessagesIn(H) = IF l = <<>> /\ S # {} THEN Append(MessagesIn(G), MessageAt(G, k + 1))
                          ELSE MessagesIn(G)
  <2>1. k + 1 \in 1 .. k + 1
    BY <1>5
  <2>2. S \subseteq 1 .. k /\ \A x \in S : IsData(G[x])
    BY <1>5, <1>7, <2>1, DataKinds
  <2>3. T = IF l = <<>> THEN {} ELSE IF IsData(l) THEN S \cup {k + 1} ELSE S
    <3>1. /\ k \in Nat /\ G \in Seq(Seq(Byte)) /\ H \in Seq(Seq(Byte)) /\ Len(G) = k /\ Len(H) = k + 1
          /\ l = H[k + 1]
      BY <1>5, <1>7, <1>8, <1>9
    <3>2. \A i \in 1 .. k : H[i] = G[i]
      BY <1>9
    <3> HIDE DEF S, T
    <3>3. DataBefore(H, k + 2) = IF l = <<>> THEN {}
                                 ELSE IF IsData(l) THEN DataBefore(G, k + 1) \cup {k + 1}
                                 ELSE DataBefore(G, k + 1)
      BY <3>1, <3>2, DataMore
    <3> QED BY <3>3 DEF S, T
  <2>4. MessagesIn(H) = IF l = <<>> /\ S # {} THEN Append(MessagesIn(G), MessageAt(G, k + 1))
                        ELSE MessagesIn(G)
    <3>1. OneLine(G, H, l)
      BY <1>5, <1>7, <1>8, <1>9 DEF OneLine
    <3>2. MessagesIn(H) = MessagesThen(G, l)
      BY <3>1, MessagesMore
    <3>3. Len(G) = k
      BY <1>7
    <3> QED BY <3>2, <3>3 DEF MessagesThen
  <2> QED BY <2>2, <2>3, <2>4
<1>11. MessageAt(G, k + 1) = Message(d)
  BY <1>1 DEF MessageAt, Message
<1> HIDE DEF S, T
<1>12. Joined(H, S) = Joined(G, S)
  <2>1. \A x \in S : H[x] = G[x]
    BY <1>9, <1>10
  <2> QED BY <1>5, <1>10, <2>1, JoinedSame
<1>13. Joined(H, {}) = <<>> /\ Joined(G, {}) = <<>>
  <2>1. \A ls : Joined(ls, {}) = FlattenSeq(ValuesAt(ls, {}))
    BY DEF Joined, ValuesAt
  <2>2. InOrder({}) = <<>>
    BY OrderNone, InOrderIs
  <2>3. \A ls : ValuesAt(ls, {}) = <<>>
    BY <2>2 DEF ValuesAt
  <2> QED BY <2>1, <2>3, FlattenNone
<1>14. SUFFICES \/ r.error = "utf8" /\ ~Emits(d)
                \/ /\ r.error = "none" /\ r.buf = Rest(b) /\ ~BadLine(l)
                   /\ r.data = Joined(H, T) /\ (r.has <=> T # {}) /\ g = MessagesIn(H)
  <2> SUFFICES ASSUME r.error = "none" /\ r.buf = Rest(b) /\ ~BadLine(l),
                      r.data = Joined(H, T) /\ (r.has <=> T # {}) /\ g = MessagesIn(H)
               PROVE  AtLine(s, r, g, k + 1)
    BY DEF r
  <2>1. \A i \in 1 .. k + 1 : ~BadLine(Lines(s)[i])
    <3>1. 1 .. k + 1 = (1 .. k) \cup {k + 1}
      BY <1>5, UptoMore
    <3> QED BY <1>1, <1>5, <3>1
  <2>2. T = DataBefore(H, (k + 1) + 1)
    <3>1. (k + 1) + 1 = k + 2
      BY <1>5
    <3> QED BY <3>1 DEF T
  <2> HIDE DEF g
  <2> QED BY <1>5, <1>6, <2>1, <2>2 DEF AtLine, H
<1>15. l = <<>> => ~BadLine(l)
  <2>1. l = <<>> => IsUtf8(l)
    BY DEF IsUtf8
  <2> QED BY <1>5, <2>1 DEF BadLine
<1>16. CASE Dispatches(e, l)
  <2>1. l = <<>> /\ d.has /\ Emits(d)
    BY <1>4, <1>16 DEF Dispatches
  <2>2. r = [e EXCEPT !.has = FALSE, !.data = <<>>]
    BY <1>4, <1>16 DEF Absorbed, Dispatched, Dispatches
  <2>3. r.error = "none" /\ r.buf = Rest(b) /\ r.data = <<>> /\ r.has = FALSE
    BY <1>2, <2>2
  <2>4. T = {} /\ g = MessagesIn(H)
    BY <1>1, <1>10, <1>11, <2>1
  <2> QED BY <1>13, <1>15, <2>1, <2>3, <2>4
<1>17. CASE l = <<>> /\ ~Dispatches(e, l)
  <2>1. ~d.has /\ ~Emits(d) /\ S = {} /\ T = {}
    BY <1>1, <1>4, <1>10, <1>17 DEF Dispatches, S
  <2>2. r = e
    BY <1>2, <1>4, <1>17, <2>1 DEF Absorbed, Dispatches
  <2>3. g = MessagesIn(H)
    BY <1>1, <1>10, <2>1
  <2> QED BY <1>1, <1>2, <1>13, <1>15, <1>17, <2>1, <2>2, <2>3 DEF S
<1>18. CASE l # <<>> /\ ~IsUtf8(l)
  <2>1. ~Emits(d)
    BY <1>4, <1>18 DEF Dispatches
  <2>2. r = [e EXCEPT !.error = "utf8"]
    BY <1>4, <1>18 DEF Absorbed, Dispatches
  <2> QED BY <1>2, <2>1, <2>2
<1>19. CASE l # <<>> /\ IsUtf8(l)
  <2>1. ~Emits(d) /\ ~BadLine(l) /\ ~Dispatches(e, l)
    <3> QED BY <1>4, <1>5, <1>19 DEF Dispatches, BadLine
  <2>2. g = MessagesIn(H)
    BY <1>1, <1>10, <1>19, <2>1
  <2>3. CASE IsData(l)
    <3>1. ~IsComment(l) /\ Field(l) = <<"D">>
      BY <1>9, <1>19, <2>3, CommentIsNone DEF IsData
    <3>2. r = [e EXCEPT !.data = @ \o Value(l) \o <<Lf>>, !.has = TRUE]
      BY <1>4, <1>19, <2>1, <3>1 DEF Absorbed
    <3>3. r.error = "none" /\ r.buf = Rest(b) /\ r.has = TRUE /\ r.data = d.data \o Value(l) \o <<Lf>>
      BY <1>2, <3>2
    <3>4. T = S \cup {k + 1} /\ T # {}
      BY <1>10, <1>19, <2>3
    <3>5. \A x \in S \cup {k + 1} : H[x] \in Seq(Byte) /\ IsData(H[x])
      <4>1. \A x \in S : H[x] = G[x] /\ x \in 1 .. k + 1
        BY <1>5, <1>9, <1>10
      <4>2. \A x \in S : H[x] \in Seq(Byte)
        BY <1>8, <4>1, ElementOfSeq
      <4> QED BY <1>9, <1>10, <2>3, <4>1, <4>2
    <3>6. Joined(H, T) = Joined(H, S) \o (Value(l) \o <<Lf>>)
      <4>1. Joined(H, S \cup {k + 1}) = Joined(H, S) \o (Value(H[k + 1]) \o <<Lf>>)
        BY <1>5, <1>10, <3>5, JoinedMore
      <4> QED BY <1>9, <3>4, <4>1
    <3>7. (d.data \o Value(l)) \o <<Lf>> = d.data \o (Value(l) \o <<Lf>>)
      <4> DEFINE n == <<Lf>>
      <4>1. n \in Seq(Byte)
        <5>1. Lf \in Byte
          BY SseAssumption DEF Lf
        <5> QED BY <5>1
      <4>2. Value(l) \in Seq(Byte)
        BY <1>9, <3>1, FieldNamed
      <4> DEFINE x == d.data
                 y == Value(l)
      <4>3. x \in Seq(Byte)
        BY <1>2
      <4> HIDE DEF n, x, y
      <4>4. (x \o y) \o n = x \o (y \o n)
        BY <4>1, <4>2, <4>3, ConcatAssociative DEF y
      <4> QED BY <4>4 DEF n, x, y
    <3>8. r.data = Joined(H, T)
      BY <1>1, <1>12, <3>3, <3>6, <3>7 DEF S
    <3> QED BY <2>1, <2>2, <3>3, <3>4, <3>8
  <2>4. CASE ~IsData(l)
    <3>1. IsComment(l) \/ Field(l) # <<"D">>
      BY <1>19, <2>4 DEF IsData
    <3>2. r = e
      BY <1>2, <1>4, <1>19, <2>1, <3>1 DEF Absorbed
    <3>3. T = S
      BY <1>10, <1>19, <2>4
    <3>4. d.data = Joined(H, T) /\ (d.has <=> T # {})
      BY <1>1, <1>12, <3>3 DEF S
    <3> QED BY <1>2, <2>1, <2>2, <3>2, <3>4
  <2> QED BY <2>3, <2>4
<1> QED BY <1>16, <1>17, <1>18, <1>19

\* More bytes do not move the decoder.
LEMMA AtLineFed ==
  ASSUME NEW s \in Seq(Byte), NEW t \in Seq(Byte), NEW d \in Decoder, NEW h, NEW k, AtLine(s, d, h, k)
  PROVE  AtLine(s \o t, Feed(d, t), h, k)
<1> DEFINE u == s \o t
           e == Feed(d, t)
           G == SubSeq(Lines(s), 1, k)
           F == SubSeq(Lines(u), 1, k)
<1>1. /\ k \in 0 .. LineCount(s) /\ d.buf = Behind(s, k) /\ \A i \in 1 .. k : ~BadLine(Lines(s)[i])
      /\ d.data = Joined(G, DataBefore(G, k + 1)) /\ (d.has <=> DataBefore(G, k + 1) # {}) /\ h = MessagesIn(G)
  BY DEF AtLine
<1>2. /\ u \in Seq(Byte) /\ LineCount(s) <= LineCount(u)
      /\ Behind(u, k) = Behind(s, k) \o t
      /\ \A i \in 1 .. LineCount(s) : Lines(u)[i] = Lines(s)[i]
  BY <1>1, LinesGrow
<1> HIDE DEF u
<1>3. LineCount(s) \in Nat /\ LineCount(u) \in Nat
  BY <1>2, EndsFacts
<1>4. k \in 0 .. LineCount(u) /\ \A i \in 1 .. k : i \in 1 .. LineCount(s)
  BY <1>1, <1>2, <1>3
<1>5. e.buf = d.buf \o t /\ e.data = d.data /\ e.has = d.has
  BY DEF Feed, Decoder
<1>6. F = G
  <2>1. G \in Seq(Seq(Byte)) /\ Len(G) = k /\ \A i \in 1 .. k : G[i] = Lines(s)[i]
    BY <1>1, FirstLines
  <2>2. F \in Seq(Seq(Byte)) /\ Len(F) = k /\ \A i \in 1 .. k : F[i] = Lines(u)[i]
    BY <1>2, <1>4, FirstLines
  <2> HIDE DEF F, G
  <2>3. \A i \in 1 .. k : F[i] = G[i]
    BY <1>2, <1>4, <2>1, <2>2
  <2> QED BY <2>1, <2>2, <2>3, SeqEqual
<1> HIDE DEF e
<1>7. \A i \in 1 .. k : ~BadLine(Lines(u)[i])
  BY <1>1, <1>2, <1>4
<1>8. AtLine(u, e, h, k)
  <2>1. e.buf = Behind(u, k)
    BY <1>1, <1>2, <1>5
  <2> HIDE DEF G
  <2>2. e.data = Joined(F, DataBefore(F, k + 1)) /\ (e.has <=> DataBefore(F, k + 1) # {}) /\ h = MessagesIn(F)
    BY <1>1, <1>5, <1>6
  <2> QED BY <1>4, <1>7, <2>1, <2>2 DEF AtLine
<1> QED BY <1>8 DEF u, e

\* The lines up to the first that cannot be read.
LEMMA GoodFacts ==
  ASSUME NEW s \in Seq(Byte), NEW k \in 0 .. LineCount(s), \A i \in 1 .. k : ~BadLine(Lines(s)[i]),
         k = LineCount(s) \/ BadLine(Lines(s)[k + 1])
  PROVE  GoodLines(s) = SubSeq(Lines(s), 1, k) /\ Len(GoodLines(s)) = k /\ Len(Lines(s)) = LineCount(s)
<1> DEFINE L == Lines(s)
           c == LineCount(s)
           bad == {i \in DOMAIN L : BadLine(L[i])}
<1>1. L \in Seq(Seq(Byte)) /\ Len(L) = c /\ c \in Nat /\ DOMAIN L = 1 .. c
  <2>1. L \in Seq(Seq(Byte)) /\ Len(L) = c
    BY LinesFacts
  <2>2. c \in Nat
    BY EndsFacts
  <2> QED BY <2>1, <2>2, LenProperties
<1>2. GoodLines(s) = SubSeq(L, 1, (IF bad = {} THEN Len(L) + 1 ELSE Min(bad)) - 1)
  BY DEF GoodLines
<1>3. Len(SubSeq(L, 1, k)) = k
  BY FirstLines
<1> HIDE DEF L, c
<1>4. k \in 0 .. c /\ (k = c \/ BadLine(L[k + 1])) /\ \A i \in 1 .. k : ~BadLine(L[i])
  BY DEF L, c
<1>5. (IF bad = {} THEN Len(L) + 1 ELSE Min(bad)) - 1 = k
  <2>1. CASE k = c
    <3>1. bad = {}
      BY <1>1, <1>4, <2>1
    <3> QED BY <1>1, <2>1, <3>1
  <2>2. CASE k # c
    <3>1. k + 1 \in bad
      BY <1>1, <1>4, <2>2
    <3>2. bad \subseteq Nat /\ \A i \in bad : k + 1 <= i
      BY <1>1, <1>4
    <3> HIDE DEF bad
    <3> DEFINE m == Min(bad)
    <3>3. m \in bad /\ \A i \in bad : m <= i
      BY <3>1, <3>2, LeastNatural DEF Min
    <3> HIDE DEF m
    <3>4. m = k + 1
      BY <1>4, <3>1, <3>2, <3>3
    <3> QED BY <1>4, <3>1, <3>4 DEF m
  <2> QED BY <2>1, <2>2
<1> HIDE DEF bad
<1> QED BY <1>1, <1>2, <1>3, <1>5 DEF L, c

\* The bytes behind the last line.
LEMMA UnendedFacts ==
  ASSUME NEW s \in Seq(Byte), NEW b, b = Behind(s, LineCount(s))
  PROVE  /\ Unended(s) = b /\ b \in Seq(Byte) /\ Len(b) \in Nat
         /\ Len(Unterminated(s)) = IF b # <<>> /\ Last(b) = Cr THEN Len(b) - 1 ELSE Len(b)
         /\ b # <<>> => Last(b) = s[Len(s)] /\ s # <<>> /\ Len(b) # 0
<1> DEFINE p == EndOf(s, LineCount(s))
           N == Len(s)
<1>1. p \in Nat /\ N \in Nat /\ p <= N
  <2>1. LineCount(s) \in 0 .. LineCount(s)
    BY EndsFacts
  <2>2. p \in 0 .. N /\ N \in Nat
    BY <2>1, EndsFacts
  <2> QED BY <2>2
<1>2. b = SubSeq(s, p + 1, N) /\ Unended(s) = b
  BY DEF Behind, Unended, LineCount
<1> HIDE DEF p, N
<1>3. b \in Seq(Byte) /\ Len(b) = N - p /\ \A i \in 1 .. N - p : b[i] = s[p + i]
  <2>1. N <= Len(s)
    BY <1>1 DEF N
  <2> QED BY <1>1, <1>2, <2>1, PartFacts
<1>4. Len(b) \in Nat /\ (b # <<>> => Len(b) # 0)
  BY <1>3, LenProperties, EmptySeq
<1>5. ASSUME b # <<>> PROVE Last(b) = s[N] /\ s # <<>> /\ Len(Front(b)) = Len(b) - 1
  <2>1. N - p \in 1 .. N - p /\ p + (N - p) = N /\ N \in 1 .. N
    BY <1>1, <1>3, <1>4, <1>5
  <2>2. Last(b) = s[N]
    BY <1>3, <2>1 DEF Last
  <2>3. s # <<>>
    BY <2>1, EmptySeq DEF N
  <2> DEFINE n == Len(b) - 1
  <2>4. n \in 0 .. Len(b)
    BY <1>4, <1>5
  <2> HIDE DEF n
  <2>5. Len(SubSeq(b, 1, n)) = n
    BY <1>3, <2>4, FirstOf
  <2> QED BY <2>2, <2>3, <2>5 DEF Front, n
<1> QED BY <1>2, <1>3, <1>4, <1>5 DEF Unterminated, N

\* Where the decoder asks for more, it has said all there is.
LEMMA AskingForMore ==
  ASSUME NEW s \in Seq(Byte), NEW d \in Decoder, NEW h, NEW k, AtLine(s, d, h, k), Taking(d.buf) = "more"
  PROVE  h = Messages(s) /\ ~Overlong(s) /\ k = LineCount(s)
<1> DEFINE b == d.buf
           G == SubSeq(Lines(s), 1, k)
<1>1. /\ k \in 0 .. LineCount(s) /\ b = Behind(s, k) /\ \A i \in 1 .. k : ~BadLine(Lines(s)[i])
      /\ h = MessagesIn(G)
  BY DEF AtLine
<1>2. (~HasTerminator(b) \/ Half(b)) /\ ~(Len(b) > MaxLine)
  BY DEF Taking, Half
<1> HIDE DEF b
<1>3. k = LineCount(s)
  BY <1>1, <1>2, NoLineLeft
<1>4. GoodLines(s) = G /\ Len(GoodLines(s)) = Len(Lines(s))
  BY <1>1, <1>3, GoodFacts
<1>5. ~(Len(Unterminated(s)) > MaxLine)
  <2>1. /\ Len(b) \in Nat
        /\ Len(Unterminated(s)) = IF b # <<>> /\ Last(b) = Cr THEN Len(b) - 1 ELSE Len(b)
    BY <1>1, <1>3, UnendedFacts
  <2>2. MaxLine \in Nat
    BY SseAssumption
  <2> QED BY <1>2, <2>1, <2>2
<1>6. ~Overlong(s)
  <2>1. ~(Len(Lines(s)) < Len(Lines(s)))
    <3>1. Len(Lines(s)) \in Nat
      BY LinesFacts, LenProperties
    <3> QED BY <3>1
  <2> QED BY <1>4, <1>5, <2>1 DEF Overlong
<1> QED BY <1>1, <1>3, <1>4, <1>6 DEF Messages

\* Where it gives up at a length, the stream has such a line, or it may have.
LEMMA GivingUpAtLength ==
  ASSUME NEW s \in Seq(Byte), NEW d \in Decoder, NEW h, NEW k, AtLine(s, d, h, k), Taking(d.buf) = "long"
  PROVE  Overlong(s) \/ (s # <<>> /\ s[Len(s)] = Cr /\ Len(Unterminated(s)) = MaxLine)
<1> DEFINE b == d.buf
           G == SubSeq(Lines(s), 1, k)
<1>1. /\ k \in 0 .. LineCount(s) /\ b = Behind(s, k) /\ \A i \in 1 .. k : ~BadLine(Lines(s)[i])
  BY DEF AtLine
<1>2. \/ (~HasTerminator(b) \/ Half(b)) /\ Len(b) > MaxLine
      \/ HasTerminator(b) /\ ~Half(b) /\ LineBytes(b) > MaxLine
  BY DEF Taking, Half
<1> HIDE DEF b
<1>3. CASE (~HasTerminator(b) \/ Half(b)) /\ Len(b) > MaxLine
  <2>1. k = LineCount(s)
    BY <1>1, <1>3, NoLineLeft
  <2>2. Len(GoodLines(s)) = Len(Lines(s))
    BY <1>1, <2>1, GoodFacts
  <2>3. /\ Len(b) \in Nat
        /\ Len(Unterminated(s)) = IF b # <<>> /\ Last(b) = Cr THEN Len(b) - 1 ELSE Len(b)
        /\ b # <<>> => Last(b) = s[Len(s)] /\ s # <<>>
    BY <1>1, <2>1, UnendedFacts
  <2>4. MaxLine \in Nat
    BY SseAssumption
  <2>5. CASE b # <<>> /\ Last(b) = Cr
    <3>1. Len(Unterminated(s)) = Len(b) - 1
      BY <2>3, <2>5
    <3>2. Len(Unterminated(s)) > MaxLine \/ Len(Unterminated(s)) = MaxLine
      BY <1>3, <2>3, <2>4, <3>1
    <3> QED BY <2>2, <2>3, <2>5, <3>2 DEF Overlong
  <2>6. CASE ~(b # <<>> /\ Last(b) = Cr)
    BY <1>3, <2>2, <2>3, <2>6 DEF Overlong
  <2> QED BY <2>5, <2>6
<1>4. CASE HasTerminator(b) /\ ~Half(b) /\ LineBytes(b) > MaxLine
  <2>1. k + 1 \in 1 .. LineCount(s) /\ Len(Lines(s)[k + 1]) > MaxLine
    BY <1>1, <1>4, LineCut
  <2>2. Len(GoodLines(s)) = k /\ Len(Lines(s)) = LineCount(s)
    BY <1>1, <2>1, GoodFacts DEF BadLine
  <2>3. k < LineCount(s)
    BY <1>1, <2>1, EndsFacts
  <2> QED BY <2>1, <2>2, <2>3 DEF Overlong
<1> QED BY <1>2, <1>3, <1>4

-----------------------------------------------------------------------------
(***************************************************************************)
(* Transport: where the decoder is in what was received.                   *)
(***************************************************************************)
Decoded ==
  /\ dec.error # "none" => pc = "returned" /\ result = "transport"
  /\ pc \in {"start", "send", "read"} => Taking(dec.buf) = "more"
  /\ dec.error = "none" => \E k \in 0 .. LineCount(Received) : AtLine(Received, dec, heard, k)
  /\ dec.error = "long" => Overlong(Received) \/ EdgeLine

\* Nothing has been read, and nothing said.
LEMMA NothingYet ==
  /\ LineCount(<<>>) \in Nat /\ AtLine(<<>>, NewDecoder, <<>>, 0)
  /\ MessagesIn(<<>>) = <<>> /\ Joined(<<>>, {}) = <<>>
<1> DEFINE e == <<>>
<1>1. e \in Seq(Byte) /\ Len(e) = 0 /\ DOMAIN e = {} /\ \A n \in Int : n < 1 => SubSeq(Lines(e), 1, n) = e
  BY EmptySeq, SubSeqEmpty
<1>2. LineCount(e) \in Nat /\ EndOf(e, 0) = 0
  BY <1>1, EndsFacts
<1>3. Behind(e, 0) = e
  BY <1>1, <1>2, SubSeqEmpty DEF Behind
<1>4. InOrder({}) = e
  BY OrderNone, InOrderIs
<1>5. DataBefore(e, 1) = {}
  BY DEF DataBefore
<1>6. Joined(e, {}) = e
  <2>1. ValuesAt(e, {}) = e
    BY <1>4 DEF ValuesAt
  <2> QED BY <2>1, FlattenNone DEF Joined, ValuesAt
<1>7. MessagesIn(e) = e
  <2>1. {k \in DOMAIN e : e[k] = <<>> /\ DataBefore(e, k) # {}} = {}
    BY <1>1
  <2> QED BY <1>4, <2>1 DEF MessagesIn
<1>8. AtLine(e, NewDecoder, e, 0)
  <2>1. NewDecoder.buf = e /\ NewDecoder.data = e /\ NewDecoder.has = FALSE
    BY DEF NewDecoder
  <2>2. SubSeq(Lines(e), 1, 0) = e
    BY SubSeqEmpty
  <2>3. 0 \in 0 .. LineCount(e) /\ 0 + 1 = 1 /\ 1 .. 0 = {}
    BY <1>2
  <2> HIDE DEF e
  <2> QED BY <1>3, <1>5, <1>6, <1>7, <2>1, <2>2, <2>3 DEF AtLine
<1> QED BY <1>2, <1>6, <1>7, <1>8

LEMMA DecodedInit == Init => Decoded
<1> SUFFICES ASSUME Init PROVE Decoded
  OBVIOUS
<1>1. Received = <<>>
  BY SubSeqEmpty DEF Init, Received
<1>2. dec = NewDecoder /\ heard = <<>> /\ dec.error = "none" /\ dec.buf = <<>>
  BY DEF Init, NewDecoder
<1>3. Taking(<<>>) = "more"
  <2>1. ~HasTerminator(<<>>)
    BY DEF HasTerminator
  <2>2. ~(Len(<<>>) > MaxLine)
    <3>1. MaxLine \in Nat /\ Len(<<>>) = 0
      BY SseAssumption, EmptySeq
    <3> QED BY <3>1
  <2> QED BY <2>1, <2>2 DEF Taking
<1>4. \E k \in 0 .. LineCount(Received) : AtLine(Received, dec, heard, k)
  <2>1. 0 \in 0 .. LineCount(<<>>)
    BY NothingYet
  <2> QED BY <1>1, <1>2, <2>1, NothingYet
<1> QED BY <1>2, <1>3, <1>4 DEF Decoded

LEMMA DecodedNext == TypeOK /\ Decoded /\ Told /\ [Next]_vars => Decoded'
<1> SUFFICES ASSUME TypeOK, Decoded, Told, [Next]_vars PROVE Decoded'
  OBVIOUS
<1>1. /\ body.bytes \in Seq(Byte) /\ Len(body.bytes) \in Nat /\ written \in Nat /\ fed \in Nat
      /\ written <= Len(body.bytes) /\ fed <= Len(body.bytes) /\ Received \in Seq(Byte)
  BY BytesTyped
<1>2. dec \in Decoder /\ Taking(dec.buf) \in {"more", "long", "line"}
  BY DEF TypeOK, Taking
<1>3. CASE UNCHANGED <<body, fed, dec, heard>> /\ (pc = "returned" => pc' = "returned" /\ result' = result)
           /\ (pc' \in {"start", "send", "read"} => pc \in {"start", "send", "read"} \/ Starved(dec))
  <2>1. Received' = Received /\ (EdgeLine <=> EdgeLine')
    BY <1>3 DEF Received, EdgeLine
  <2>2. Starved(dec) => Taking(dec.buf) = "more"
    BY DEF Starved
  <2> QED BY <1>3, <2>1, <2>2 DEF Decoded
<1>4. CASE ReadChunk
  <2> DEFINE chunk == SubSeq(body.bytes, fed + 1, written)
  <2>1. pc = "read" /\ pc' = "decode" /\ dec' = Feed(dec, chunk) /\ heard' = heard
    BY <1>4 DEF ReadChunk
  <2>2. dec.error = "none"
    BY <2>1 DEF Decoded
  <2>3. chunk \in Seq(Byte)
    BY <1>1, PartOf
  <2>4. Received' = Received \o chunk
    <3>1. fed < written /\ fed' = written /\ body' = body
      BY <1>4 DEF ReadChunk
    <3>2. SubSeq(body.bytes, 1, fed) \o SubSeq(body.bytes, fed + 1, written) = SubSeq(body.bytes, 1, written)
      BY <1>1, <3>1, ConcatAdjacentSubSeq
    <3> QED BY <3>1, <3>2 DEF Received
  <2> HIDE DEF chunk
  <2>5. PICK k \in 0 .. LineCount(Received) : AtLine(Received, dec, heard, k)
    BY <2>2 DEF Decoded
  <2>6. AtLine(Received', dec', heard', k)
    <3>1. AtLine(Received \o chunk, Feed(dec, chunk), heard, k)
      BY <1>1, <1>2, <2>3, <2>5, AtLineFed
    <3> QED BY <2>1, <2>4, <3>1
  <2>7. dec'.error = "none"
    BY <1>2, <2>1, <2>2 DEF Feed, Decoder
  <2>8. \E j \in 0 .. LineCount(Received') : AtLine(Received', dec', heard', j)
    BY <2>6 DEF AtLine
  <2> QED BY <2>1, <2>7, <2>8 DEF Decoded
<1>5. CASE SkipLine
  <2>1. /\ pc = "decode" /\ ~Starved(dec) /\ ~Emits(dec) /\ dec' = Round(dec) /\ heard' = heard
        /\ IF dec'.error # "none" THEN pc' = "returned" /\ result' = "transport" ELSE pc' = pc
    BY <1>5 DEF SkipLine, Return
  <2>2. Received' = Received /\ (EdgeLine <=> EdgeLine')
    BY <1>5 DEF SkipLine, Received, EdgeLine
  <2>3. dec.error = "none" /\ Taking(dec.buf) # "more"
    BY <2>1 DEF Decoded, Starved
  <2>4. PICK k \in 0 .. LineCount(Received) : AtLine(Received, dec, heard, k)
    BY <2>3 DEF Decoded
  <2>5. CASE Taking(dec.buf) = "line"
    <3>1. \/ dec'.error = "utf8"
          \/ dec'.error = "none" /\ AtLine(Received, dec', heard, k + 1)
      BY <1>1, <1>2, <2>1, <2>3, <2>4, <2>5, RoundTakes
    <3>2. dec'.error = "none" => \E j \in 0 .. LineCount(Received') : AtLine(Received', dec', heard', j)
      BY <2>1, <2>2, <3>1 DEF AtLine
    <3> QED BY <2>1, <3>1, <3>2 DEF Decoded
  <2>6. CASE Taking(dec.buf) = "long"
    <3>1. dec'.error = "long"
      BY <1>2, <2>1, <2>3, <2>6 DEF Round, Decoder
    <3>2. Overlong(Received) \/ (Received # <<>> /\ Received[Len(Received)] = Cr /\ Len(Unterminated(Received)) = MaxLine)
      BY <1>1, <1>2, <2>4, <2>6, GivingUpAtLength
    <3>3. ASSUME Received # <<>>, Received[Len(Received)] = Cr, Len(Unterminated(Received)) = MaxLine
          PROVE  EdgeLine
      <4>1. fed \in 0 .. Len(body.bytes)
        BY <1>1
      <4>2. Len(Received) = fed /\ \A i \in 1 .. fed : Received[i] = body.bytes[i]
        BY <1>1, <4>1, FirstOf DEF Received
      <4>3. fed \in 1 .. fed
        BY <1>1, <3>3, <4>2, EmptySeq
      <4>4. body.bytes[fed] = Cr /\ Len(Unterminated(SubSeq(body.bytes, 1, fed))) = MaxLine
        BY <3>3, <4>2, <4>3 DEF Received
      <4> QED BY <4>3, <4>4 DEF EdgeLine
    <3>4. Overlong(Received') \/ EdgeLine'
      BY <2>2, <3>2, <3>3
    <3> QED BY <2>1, <3>1, <3>4 DEF Decoded
  <2> QED BY <1>2, <2>3, <2>5, <2>6
<1>6. CASE Deliver
  <2>1. /\ pc = "decode" /\ Emits(dec) /\ dec' = Round(dec) /\ heard' = Append(heard, Message(dec))
        /\ pc' \in {"reap", "decode", "returned"}
    BY <1>6 DEF Deliver, Return
  <2>2. Received' = Received
    BY <1>6 DEF Deliver, Received
  <2>3. dec.error = "none" /\ Taking(dec.buf) = "line"
    BY <2>1 DEF Emits
  <2>4. PICK k \in 0 .. LineCount(Received) : AtLine(Received, dec, heard, k)
    BY <2>3 DEF Decoded
  <2>5. dec'.error = "none" /\ AtLine(Received, dec', heard', k + 1)
    BY <1>1, <1>2, <2>1, <2>3, <2>4, RoundTakes
  <2>6. \E j \in 0 .. LineCount(Received') : AtLine(Received', dec', heard', j)
    BY <2>2, <2>5 DEF AtLine
  <2> QED BY <2>1, <2>5, <2>6 DEF Decoded
<1>7. Next => ReadChunk \/ SkipLine \/ Deliver
              \/ Unavailable \/ Spawn \/ Send \/ EndOfBody \/ ReadFails \/ Starve \/ Reap \/ WaitFails
              \/ CurlWrite \/ CurlEnd \/ CurlEpipe \/ CurlFails
  BY DEF Next, Shell, Answer
<1>8. CASE Unavailable \/ Spawn \/ Send \/ EndOfBody \/ ReadFails \/ Starve \/ Reap \/ WaitFails
  <2>1. UNCHANGED <<body, fed, dec, heard>> /\ pc # "returned"
    BY <1>8 DEF Unavailable, Spawn, Send, EndOfBody, ReadFails, Starve, Reap, WaitFails
  <2>2. pc' \in {"start", "send", "read"} => pc \in {"start", "send", "read"} \/ Starved(dec)
    BY <1>8 DEF Unavailable, Spawn, Send, EndOfBody, ReadFails, Starve, Reap, WaitFails, Return
  <2> QED BY <1>3, <2>1, <2>2
<1>9. CASE CurlWrite \/ CurlEnd \/ CurlEpipe \/ CurlFails \/ UNCHANGED vars
  <2>1. UNCHANGED <<body, fed, dec, heard, pc, result>>
    BY <1>9 DEF CurlWrite, CurlEnd, CurlEpipe, CurlFails, shell, vars
  <2> QED BY <1>3, <2>1
<1> QED BY <1>4, <1>5, <1>6, <1>7, <1>8, <1>9

\* However the bytes were cut into chunks, the decoder finds the messages of the
\* stream, and gives up only where a reader of the whole stream would.
THEOREM ChunksAreOne == Spec => []ChunksDoNotMatter
<1>1. Init => IInv /\ Decoded
  BY InvInit, DecodedInit
<1>2. IInv /\ Decoded /\ [Next]_vars => Decoded'
  BY DecodedNext DEF IInv
<1>3. IInv /\ Decoded => ChunksDoNotMatter
  <2> SUFFICES ASSUME IInv, Decoded PROVE ChunksDoNotMatter
    OBVIOUS
  <2>1. Received \in Seq(Byte) /\ dec \in Decoder
    BY BytesTyped DEF IInv, TypeOK
  <2>2. ASSUME pc = "read" PROVE heard = Messages(Received) /\ ~Overlong(Received)
    <3>1. Taking(dec.buf) = "more" /\ dec.error = "none"
      BY <2>2 DEF Decoded
    <3>2. PICK k \in 0 .. LineCount(Received) : AtLine(Received, dec, heard, k)
      BY <3>1 DEF Decoded
    <3> QED BY <2>1, <3>1, <3>2, AskingForMore
  <2>3. dec.error = "long" => Overlong(Received) \/ EdgeLine
    BY DEF Decoded
  <2> QED BY <2>2, <2>3 DEF ChunksDoNotMatter
<1> QED BY <1>1, <1>2, <1>3, Invariance, PTL DEF Spec

-----------------------------------------------------------------------------
(***************************************************************************)
(* What a delta does to the calls of a reply.                              *)
(***************************************************************************)
\* Text that comes first stays first.
LEMMA FirstSame ==
  ASSUME NEW at, at \subseteq Nat, NEW f, NEW g, \A i \in at : g[i] = f[i]
  PROVE  First(at, g) = First(at, f)
<1> DEFINE t == {i \in at : f[i] # ""}
<1>1. {i \in at : g[i] # ""} = t
  OBVIOUS
<1>2. CASE t = {}
  BY <1>1, <1>2 DEF First
<1>3. CASE t # {}
  <2>1. Min(t) \in t
    <3>1. t \subseteq Nat
      OBVIOUS
    <3> HIDE DEF t
    <3> QED BY <1>3, <3>1, LeastNatural DEF Min
  <2>2. g[Min(t)] = f[Min(t)]
    BY <2>1
  <2> QED BY <1>1, <1>3, <2>2 DEF First
<1> QED BY <1>2, <1>3

\* A place behind others, where a function goes on.
GoesOn(at, x, more, f, g) ==
  /\ at \subseteq Nat /\ x \in Nat /\ more = at \cup {x}
  /\ \A i \in at : i < x /\ g[i] = f[i]

LEMMA FirstMore ==
  ASSUME NEW at, NEW x, NEW more, NEW f, NEW g, GoesOn(at, x, more, f, g)
  PROVE  First(more, g) = OrElse(First(at, f), g[x])
<1> DEFINE t == {i \in at : f[i] # ""}
           u == {i \in more : g[i] # ""}
<1>0. /\ at \subseteq Nat /\ x \in Nat /\ more = at \cup {x}
      /\ \A i \in at : i < x /\ g[i] = f[i]
  BY DEF GoesOn
<1>1. u = t \cup (IF g[x] # "" THEN {x} ELSE {})
  BY <1>0
<1>2. t \subseteq Nat /\ \A y \in t : y \in Nat /\ y < x
  BY <1>0
<1>3. CASE t = {}
  <2>1. First(at, f) = ""
    BY <1>3 DEF First
  <2>2. CASE g[x] = ""
    <3>1. u = {}
      BY <1>1, <1>3, <2>2
    <3>2. First(more, g) = ""
      BY <3>1 DEF First
    <3> QED BY <2>1, <2>2, <3>2 DEF OrElse
  <2>3. CASE g[x] # ""
    <3>1. u = {x}
      BY <1>1, <1>3, <2>3
    <3>2. Min({x}) = x
      BY DEF Min
    <3>3. First(more, g) = g[x]
      BY <3>1, <3>2 DEF First
    <3> QED BY <2>1, <3>3 DEF OrElse
  <2> QED BY <2>2, <2>3
<1>4. CASE t # {}
  <2>1. PICK z \in t : \A y \in t : z <= y
    <3> HIDE DEF t
    <3> QED BY <1>2, <1>4, LeastNatural
  <2>2. z \in u /\ \A y \in u : y \in Nat /\ z <= y
    <3> HIDE DEF u, t
    <3>1. z \in u /\ \A y \in u : y \in t \/ y = x
      BY <1>1, <2>1
    <3>2. z \in Nat /\ z < x
      BY <1>2, <2>1
    <3> QED BY <1>0, <1>2, <2>1, <3>1, <3>2
  <2>3. Min(t) = z
    <3> HIDE DEF t
    <3>1. \A y \in t : (\A w \in t : y <= w) => y = z
      BY <1>2, <2>1
    <3> QED BY <2>1, <3>1 DEF Min
  <2>4. Min(u) = z
    <3> HIDE DEF u, t
    <3>1. ASSUME NEW y \in u, \A w \in u : y <= w PROVE y = z
      <4>1. y <= z /\ z <= y /\ y \in Nat /\ z \in Nat
        BY <2>2, <3>1
      <4> QED BY <4>1
    <3> QED BY <2>2, <3>1 DEF Min
  <2>5. First(at, f) = f[z] /\ f[z] # "" /\ g[z] = f[z]
    BY <1>0, <1>4, <2>1, <2>3 DEF First
  <2>6. First(more, g) = g[z]
    BY <2>2, <2>4 DEF First
  <2> QED BY <2>5, <2>6 DEF OrElse
<1> QED BY <1>3, <1>4

\* Deltas, and one delta more.
OneMore(ds, es, d) ==
  /\ ds \in Seq(Delta) /\ es \in Seq(Delta) /\ d \in Delta /\ Len(es) = Len(ds) + 1
  /\ es[Len(ds) + 1] = d /\ \A i \in 1 .. Len(ds) : es[i] = ds[i]

LEMMA OneMoreFacts ==
  ASSUME NEW ds, NEW es, NEW d, OneMore(ds, es, d)
  PROVE  \E n \in Nat : /\ ds \in Seq(Delta) /\ Len(ds) = n /\ es \in Seq(Delta) /\ Len(es) = n + 1
                        /\ \A i \in 1 .. n : es[i] = ds[i]
                        /\ es[n + 1] = d /\ d \in Delta
BY LenProperties DEF OneMore

\* What the deltas of an index add to its arguments.
Fragments(ds, at) == [k \in DOMAIN InOrder(at) |-> ds[InOrder(at)[k]].frag]

LEMMA FragmentsTyped ==
  ASSUME NEW n \in Nat, NEW ds \in Seq(Delta), Len(ds) = n, NEW at, at \subseteq 1 .. n
  PROVE  Fragments(ds, at) \in Seq(Seq(Words)) /\ Len(Fragments(ds, at)) = Cardinality(at)
<1> DEFINE o == InOrder(at)
           m == Cardinality(at)
           F == Fragments(ds, at)
<1>1. m \in Nat /\ DOMAIN o = 1 .. m /\ \A k \in 1 .. m : o[k] \in at
  BY InOrderFacts
<1>2. \A i \in 1 .. n : ds[i] \in Delta
  BY ElementOfSeq
<1>3. \A k \in 1 .. m : ds[o[k]].frag \in Seq(Words)
  <2>1. \A k \in 1 .. m : o[k] \in 1 .. n
    BY <1>1
  <2>2. \A k \in 1 .. m : ds[o[k]] \in Delta
    BY <1>2, <2>1
  <2> QED BY <2>2 DEF Delta
<1>4. F \in [1 .. m -> Seq(Words)]
  BY <1>1, <1>3 DEF Fragments
<1> HIDE DEF F, m
<1>5. F \in Seq(Seq(Words)) /\ Len(F) = m
  BY <1>1, <1>4, FunctionIsSeq
<1> QED BY <1>5 DEF F, m

\* Places of a sequence and the place behind it.
LastToo(ds, at, more) == at \subseteq DOMAIN ds /\ more = at \cup {Len(ds) + 1}

LEMMA FragmentsMore ==
  ASSUME NEW ds, NEW es, NEW d, OneMore(ds, es, d), NEW at, NEW more, LastToo(ds, at, more)
  PROVE  Fragments(es, more) = Append(Fragments(ds, at), d.frag)
<1>20. PICK n \in Nat : /\ ds \in Seq(Delta) /\ Len(ds) = n /\ es \in Seq(Delta) /\ Len(es) = n + 1
                        /\ \A i \in 1 .. n : es[i] = ds[i]
                        /\ es[n + 1] = d /\ d \in Delta
  BY OneMoreFacts
<1> USE <1>20
<1>21. at \subseteq DOMAIN ds /\ more = at \cup {n + 1}
  BY DEF LastToo
<1> USE <1>21
<1> DEFINE o == InOrder(at)
           p == InOrder(at \cup {n + 1})
           m == Cardinality(at)
<1>1. /\ m \in Nat /\ DOMAIN o = 1 .. m /\ \A k \in 1 .. m : o[k] \in at
      /\ o \in Seq(at) /\ Len(o) = m
  BY InOrderFacts
<1>2. \A i \in 1 .. n : ds[i] \in Delta
  BY ElementOfSeq
<1>3. es[n + 1] \in Delta /\ n + 1 \in 1 .. n + 1
  BY ElementOfSeq
<1>4. \A k \in 1 .. m : o[k] \in 1 .. n /\ es[o[k]] = ds[o[k]] /\ ds[o[k]] \in Delta
  BY <1>1, <1>2
<1>5. Fragments(es, at) = Fragments(ds, at)
  BY <1>1, <1>4 DEF Fragments
<1>6. p = Append(o, n + 1)
  <2>1. at \subseteq 1 .. n
    BY LenProperties
  <2> QED BY <2>1, InOrderMore
<1>7. /\ Len(p) = m + 1 /\ DOMAIN p = 1 .. m + 1 /\ p[m + 1] = n + 1
      /\ \A k \in 1 .. m : p[k] = o[k]
  <2>1. o \in Seq(Nat)
    <3>1. \A k \in 1 .. m : o[k] \in Nat
      <4> HIDE DEF o
      <4> QED BY <1>4
    <3>2. o \in [1 .. m -> Nat]
      <4>1. o \in Seq(at) /\ Len(o) = m
        BY InOrderFacts
      <4> HIDE DEF o, m
      <4>2. o \in [1 .. Len(o) -> at]
        BY <4>1, LenProperties
      <4> QED BY <3>1, <4>1, <4>2
    <3> HIDE DEF o, m
    <3> QED BY <1>1, <3>2, FunctionIsSeq
  <2>2. p \in Seq(Nat) /\ Len(p) = m + 1 /\ p[m + 1] = n + 1 /\ \A k \in 1 .. m : p[k] = o[k]
    <3> HIDE DEF o, p, m
    <3> QED BY <1>1, <1>6, <2>1, AppendProperties
  <2> QED BY <2>2, LenProperties
<1> DEFINE F == Fragments(ds, at)
           G == Fragments(es, at \cup {n + 1})
<1>8. /\ F \in [1 .. m -> Seq(Words)] /\ \A k \in 1 .. m : F[k] = ds[o[k]].frag
  BY <1>1, <1>4 DEF Fragments, Delta
<1>9. /\ DOMAIN G = 1 .. m + 1 /\ \A k \in 1 .. m + 1 : G[k] = es[p[k]].frag
      /\ G = [k \in 1 .. m + 1 |-> G[k]]
  BY <1>7 DEF Fragments
<1>10. G[m + 1] = es[n + 1].frag /\ \A k \in 1 .. m : G[k] = F[k]
  <2>1. m + 1 \in 1 .. m + 1 /\ \A k \in 1 .. m : k \in 1 .. m + 1
    BY <1>1
  <2>2. G[m + 1] = es[n + 1].frag
    <3> HIDE DEF G, F, o, p
    <3> QED BY <1>7, <1>9, <2>1
  <2>3. ASSUME NEW k \in 1 .. m PROVE G[k] = F[k]
    <3>1. p[k] = o[k] /\ G[k] = es[p[k]].frag
      <4> HIDE DEF G, F, o, p
      <4> QED BY <1>7, <1>9, <2>1
    <3>2. es[o[k]] = ds[o[k]] /\ F[k] = ds[o[k]].frag
      BY <1>4, <1>8
    <3> QED BY <3>1, <3>2
  <2> QED BY <2>2, <2>3
<1>11. G \in [1 .. m + 1 -> Seq(Words)]
  <2>1. \A k \in 1 .. m + 1 : k \in 1 .. m \/ k = m + 1
    BY <1>1
  <2>2. es[n + 1].frag \in Seq(Words)
    BY <1>3 DEF Delta
  <2>3. \A k \in 1 .. m + 1 : G[k] \in Seq(Words)
    <3> HIDE DEF G, F
    <3> QED BY <1>8, <1>10, <2>1, <2>2
  <2> HIDE DEF G
  <2> QED BY <1>9, <2>3
<1> HIDE DEF F, G, m
<1>12. F \in Seq(Seq(Words)) /\ Len(F) = m
  BY <1>1, <1>8, FunctionIsSeq
<1>13. G \in Seq(Seq(Words)) /\ Len(G) = m + 1
  <2>1. m + 1 \in Nat
    BY <1>1
  <2> QED BY <1>11, <2>1, FunctionIsSeq
<1>14. es[n + 1].frag \in Seq(Words)
  BY <1>3 DEF Delta
<1>15. G = Append(F, es[n + 1].frag)
  BY <1>10, <1>12, <1>13, <1>14, IsAppended
<1> QED BY <1>5, <1>12, <1>15 DEF F, G

\* The deltas of an index, and one delta more.
LEMMA IndexMore ==
  ASSUME NEW ds, NEW es, NEW d, OneMore(ds, es, d), NEW m
  PROVE  /\ OfIndex(ds, m) \subseteq DOMAIN ds
         /\ OfIndex(es, m) = IF d.index = m THEN OfIndex(ds, m) \cup {Len(ds) + 1} ELSE OfIndex(ds, m)
<1>20. PICK n \in Nat : /\ ds \in Seq(Delta) /\ Len(ds) = n /\ es \in Seq(Delta) /\ Len(es) = n + 1
                        /\ \A i \in 1 .. n : es[i] = ds[i]
                        /\ es[n + 1] = d /\ d \in Delta
  BY OneMoreFacts
<1> USE <1>20
<1>1. DOMAIN ds = 1 .. n /\ DOMAIN es = 1 .. n + 1
  BY LenProperties
<1>2. 1 .. n + 1 = (1 .. n) \cup {n + 1}
  BY UptoMore
<1> QED BY <1>1, <1>2 DEF OfIndex

LongerCall(call, d, m) ==
  IF d.index = m
  THEN [id |-> OrElse(call.id, d.id), name |-> OrElse(call.name, d.name), args |-> call.args \o d.frag]
  ELSE call

LEMMA CallMore ==
  ASSUME NEW ds, NEW es, NEW d, OneMore(ds, es, d), NEW m
  PROVE  CallOf(es, m) = LongerCall(CallOf(ds, m), d, m)
<1>20. PICK n \in Nat : /\ ds \in Seq(Delta) /\ Len(ds) = n /\ es \in Seq(Delta) /\ Len(es) = n + 1
                        /\ \A i \in 1 .. n : es[i] = ds[i]
                        /\ es[n + 1] = d /\ d \in Delta
  BY OneMoreFacts
<1> USE <1>20
<1> DEFINE at == OfIndex(ds, m)
           ids(q) == [i \in DOMAIN q |-> q[i].id]
           names(q) == [i \in DOMAIN q |-> q[i].name]
<1>1. DOMAIN ds = 1 .. n /\ DOMAIN es = 1 .. n + 1 /\ n + 1 \in 1 .. n + 1 /\ es[n + 1] \in Delta
      /\ \A i \in 1 .. n : i \in 1 .. n + 1
  BY LenProperties, ElementOfSeq
<1>2. /\ \A i \in 1 .. n : ids(es)[i] = ids(ds)[i] /\ names(es)[i] = names(ds)[i]
      /\ ids(es)[n + 1] = es[n + 1].id /\ names(es)[n + 1] = es[n + 1].name
  BY <1>1
<1>3. at \subseteq 1 .. n
  BY IndexMore
<1>4. \A q : CallOf(q, m) = [id |-> First(OfIndex(q, m), ids(q)), name |-> First(OfIndex(q, m), names(q)),
                             args |-> FlattenSeq(Fragments(q, OfIndex(q, m)))]
  BY DEF CallOf, Fragments
<1>5. es[n + 1].frag \in Seq(Words)
  BY <1>1 DEF Delta
<1> HIDE DEF at, ids, names
<1>12. at \subseteq Nat /\ \A i \in at : i \in 1 .. n /\ i < n + 1
  BY <1>3
<1>6. First(at, ids(es)) = First(at, ids(ds)) /\ First(at \cup {n + 1}, ids(es)) = OrElse(First(at, ids(ds)), es[n + 1].id)
  <2> DEFINE f == ids(ds)
             g == ids(es)
  <2>1. \A i \in at : g[i] = f[i]
    BY <1>2, <1>12
  <2>2. g[n + 1] = es[n + 1].id
    BY <1>2
  <2> HIDE DEF f, g
  <2>3. First(at, g) = First(at, f)
    BY <1>12, <2>1, FirstSame
  <2>4. First(at \cup {n + 1}, g) = OrElse(First(at, f), g[n + 1])
    <3> DEFINE x == n + 1
    <3>1. x \in Nat /\ \A i \in at : i < x
      BY <1>12
    <3> DEFINE more == at \cup {x}
    <3>2. GoesOn(at, x, more, f, g)
      BY <1>12, <2>1, <3>1 DEF GoesOn
    <3> HIDE DEF x, more
    <3>3. First(more, g) = OrElse(First(at, f), g[x])
      BY <3>2, FirstMore
    <3> QED BY <3>3 DEF x, more
  <2> QED BY <2>2, <2>3, <2>4 DEF f, g
<1>7. First(at, names(es)) = First(at, names(ds)) /\ First(at \cup {n + 1}, names(es)) = OrElse(First(at, names(ds)), es[n + 1].name)
  <2> DEFINE f == names(ds)
             g == names(es)
  <2>1. \A i \in at : g[i] = f[i]
    BY <1>2, <1>12
  <2>2. g[n + 1] = es[n + 1].name
    BY <1>2
  <2> HIDE DEF f, g
  <2>3. First(at, g) = First(at, f)
    BY <1>12, <2>1, FirstSame
  <2>4. First(at \cup {n + 1}, g) = OrElse(First(at, f), g[n + 1])
    <3> DEFINE x == n + 1
    <3>1. x \in Nat /\ \A i \in at : i < x
      BY <1>12
    <3> DEFINE more == at \cup {x}
    <3>2. GoesOn(at, x, more, f, g)
      BY <1>12, <2>1, <3>1 DEF GoesOn
    <3> HIDE DEF x, more
    <3>3. First(more, g) = OrElse(First(at, f), g[x])
      BY <3>2, FirstMore
    <3> QED BY <3>3 DEF x, more
  <2> QED BY <2>2, <2>3, <2>4 DEF f, g
<1>8. /\ Fragments(ds, at) \in Seq(Seq(Words)) /\ Fragments(es, at) = Fragments(ds, at)
      /\ Fragments(es, at \cup {n + 1}) = Append(Fragments(ds, at), es[n + 1].frag)
  <2>1. Fragments(ds, at) \in Seq(Seq(Words))
    BY <1>3, FragmentsTyped
  <2>3. Fragments(es, at) = Fragments(ds, at)
    <3>1. DOMAIN InOrder(at) = 1 .. Cardinality(at) /\ \A k \in 1 .. Cardinality(at) : InOrder(at)[k] \in at
      BY <1>3, InOrderFacts
    <3>2. \A k \in DOMAIN InOrder(at) : InOrder(at)[k] \in 1 .. n
      BY <1>3, <3>1
    <3> QED BY <3>2 DEF Fragments
  <2>2. Fragments(es, at \cup {n + 1}) = Append(Fragments(ds, at), es[n + 1].frag)
    <3> DEFINE more == at \cup {n + 1}
    <3>1. LastToo(ds, at, more)
      BY <1>1, <1>3 DEF LastToo
    <3> HIDE DEF more
    <3>2. Fragments(es, more) = Append(Fragments(ds, at), d.frag)
      BY <3>1, FragmentsMore
    <3> QED BY <3>2 DEF more
  <2> QED BY <2>1, <2>2, <2>3
<1>9. FlattenSeq(Append(Fragments(ds, at), es[n + 1].frag)) = FlattenSeq(Fragments(ds, at)) \o es[n + 1].frag
  <2> DEFINE F == Fragments(ds, at)
             x == es[n + 1].frag
  <2> HIDE DEF F, x
  <2> USE DEF F, x
  <2>1. F \in Seq(Seq(Words)) /\ x \in Seq(Words)
    BY <1>5, <1>8
  <2> HIDE DEF F, x
  <2>2. FlattenSeq(Append(F, x)) = FlattenSeq(F) \o x
    BY <2>1, FlattenMore
  <2> QED BY <2>2 DEF F, x
<1>10. CASE es[n + 1].index = m
  <2>1. OfIndex(es, m) = at \cup {n + 1}
    BY <1>10, IndexMore DEF at
  <2>2. CallOf(ds, m).id = First(at, ids(ds)) /\ CallOf(ds, m).name = First(at, names(ds))
        /\ CallOf(ds, m).args = FlattenSeq(Fragments(ds, at))
    BY <1>4 DEF at
  <2>3. CallOf(es, m) = [id |-> First(at \cup {n + 1}, ids(es)), name |-> First(at \cup {n + 1}, names(es)),
                         args |-> FlattenSeq(Fragments(es, at \cup {n + 1}))]
    BY <1>4, <2>1
  <2> QED BY <1>6, <1>7, <1>8, <1>9, <1>10, <2>2, <2>3 DEF LongerCall
<1>11. CASE es[n + 1].index # m
  <2>1. OfIndex(es, m) = at
    BY <1>11, IndexMore DEF at
  <2> QED BY <1>4, <1>6, <1>7, <1>8, <1>11, <2>1 DEF at, LongerCall
<1> QED BY <1>10, <1>11

\* An index no delta has yet.
LEMMA CallNone ==
  ASSUME NEW ds \in Seq(Delta), NEW m, OfIndex(ds, m) = {}
  PROVE  CallOf(ds, m) = [id |-> "", name |-> "", args |-> <<>>]
<1>1. DOMAIN InOrder({}) = {}
  <2>1. {} \subseteq 1 .. 0
    OBVIOUS
  <2>2. Cardinality({}) = 0 /\ DOMAIN InOrder({}) = 1 .. Cardinality({})
    <3> DEFINE S == {}
               n == 0
    <3>1. S \subseteq 1 .. n /\ n \in Nat /\ S = {}
      OBVIOUS
    <3> HIDE DEF S, n
    <3>2. Cardinality(S) = 0 /\ DOMAIN InOrder(S) = 1 .. Cardinality(S)
      BY <3>1, InOrderFacts
    <3> QED BY <3>1, <3>2
  <2> QED BY <2>2
<1>2. [k \in DOMAIN InOrder({}) |-> ds[InOrder({})[k]].frag] = <<>>
  BY <1>1
<1>3. \A f : First({}, f) = ""
  BY DEF First
<1> QED BY <1>2, <1>3, FlattenNone DEF CallOf

\* The deltas that open a call.
LEMMA OpeningFacts ==
  ASSUME NEW n \in Nat, NEW ds \in Seq(Delta), Len(ds) = n
  PROVE  /\ Opening(ds) \subseteq 1 .. n
         /\ \A i, j \in Opening(ds) : ds[i].index = ds[j].index => i = j
         /\ \A i \in 1 .. n : \E j \in Opening(ds) : ds[j].index = ds[i].index
<1>1. DOMAIN ds = 1 .. n
  BY LenProperties
<1>2. Opening(ds) \subseteq 1 .. n
  BY <1>1 DEF Opening
<1>3. ASSUME NEW i \in Opening(ds), NEW j \in Opening(ds), ds[i].index = ds[j].index PROVE i = j
  <2>1. i \in 1 .. n /\ j \in 1 .. n
    BY <1>2
  <2>2. ~(i < j) /\ ~(j < i)
    <3>1. i < j => i \in 1 .. j - 1
      BY <2>1
    <3>2. j < i => j \in 1 .. i - 1
      BY <2>1
    <3> QED BY <1>3, <3>1, <3>2 DEF Opening
  <2> QED BY <2>1, <2>2
<1>4. ASSUME NEW i \in 1 .. n PROVE \E j \in Opening(ds) : ds[j].index = ds[i].index
  <2> DEFINE T == {j \in 1 .. n : ds[j].index = ds[i].index}
  <2>1. PICK j \in T : \A x \in T : j <= x
    <3>1. T \subseteq Nat /\ i \in T
      OBVIOUS
    <3> HIDE DEF T
    <3> QED BY <3>1, LeastNatural
  <2>2. \A x \in 1 .. j - 1 : x \in 1 .. n /\ x \notin T
    BY <2>1
  <2>3. j \in Opening(ds)
    BY <1>1, <2>1, <2>2 DEF Opening
  <2> QED BY <2>1, <2>3
<1> QED BY <1>2, <1>3, <1>4

LEMMA OpeningMore ==
  ASSUME NEW ds, NEW es, NEW d, OneMore(ds, es, d)
  PROVE  Opening(es) = IF OfIndex(ds, d.index) = {} THEN Opening(ds) \cup {Len(ds) + 1} ELSE Opening(ds)
<1>20. PICK n \in Nat : /\ ds \in Seq(Delta) /\ Len(ds) = n /\ es \in Seq(Delta) /\ Len(es) = n + 1
                        /\ \A i \in 1 .. n : es[i] = ds[i]
                        /\ es[n + 1] = d /\ d \in Delta
  BY OneMoreFacts
<1> USE <1>20
<1>1. DOMAIN ds = 1 .. n /\ DOMAIN es = 1 .. n + 1
  BY LenProperties
<1>2. 1 .. n + 1 = (1 .. n) \cup {n + 1} /\ n + 1 \notin 1 .. n
  BY UptoMore
<1>3. \A i \in 1 .. n : \A j \in 1 .. i - 1 : j \in 1 .. n
  OBVIOUS
<1>4. \A i \in 1 .. n : i \in Opening(es) <=> i \in Opening(ds)
  BY <1>1, <1>2, <1>3 DEF Opening
<1>5. n + 1 \in Opening(es) <=> OfIndex(ds, es[n + 1].index) = {}
  <2>1. n + 1 - 1 = n
    OBVIOUS
  <2>2. n + 1 \in Opening(es) <=> \A j \in 1 .. n : es[j].index # es[n + 1].index
    BY <1>1, <1>2, <2>1 DEF Opening
  <2> QED BY <1>1, <2>2 DEF OfIndex
<1>6. Opening(es) \subseteq 1 .. n + 1 /\ Opening(ds) \subseteq 1 .. n
  BY <1>1 DEF Opening
<1> DEFINE A == Opening(ds)
           B == Opening(es)
           U == 1 .. n
           x == n + 1
<1>7. \A i \in U : i \in B <=> i \in A
  BY <1>4
<1>8. B \subseteq U \cup {x} /\ A \subseteq U /\ x \notin U
  BY <1>2, <1>6
<1> HIDE DEF A, B, U, x
<1>9. /\ x \in B => B = A \cup {x}
      /\ x \notin B => B = A
  BY <1>7, <1>8
<1> QED BY <1>5, <1>9 DEF A, B, x

\* Slots hold the calls of some deltas, in the order the calls were opened.
InSlots(slots, ds) ==
  /\ slots \in Seq(Slot) /\ Len(slots) = Cardinality(Opening(ds))
  /\ \A k \in 1 .. Len(slots) :
       /\ slots[k].index = ds[InOrder(Opening(ds))[k]].index
       /\ ToolCallOf(slots[k]) = CallOf(ds, slots[k].index)

\* What a delta does to its slot.
LEMMA ExtendedFacts ==
  ASSUME NEW s \in Slot, NEW d \in Delta
  PROVE  /\ Extended(s, d).index = s.index
         /\ ToolCallOf(Extended(s, d)) =
              [id |-> OrElse(s.id, d.id), name |-> OrElse(s.name, d.name), args |-> s.args \o d.frag]
BY DEF Extended, ToolCallOf, Slot

\* One delta more.
LEMMA SlotMore ==
  ASSUME NEW ds, NEW es, NEW d, OneMore(ds, es, d), NEW slots, InSlots(slots, ds)
  PROVE  InSlots(AbsorbToolCall(slots, d), es)
<1>20. PICK n \in Nat : /\ ds \in Seq(Delta) /\ Len(ds) = n /\ es \in Seq(Delta) /\ Len(es) = n + 1
                        /\ \A i \in 1 .. n : es[i] = ds[i]
                        /\ es[n + 1] = d /\ d \in Delta
  BY OneMoreFacts
<1> USE <1>20
<1> DEFINE S == Opening(ds)
           o == InOrder(S)
           m == Len(slots)
           after == AbsorbToolCall(slots, d)
<1>1. /\ slots \in Seq(Slot) /\ m = Cardinality(S) /\ m \in Nat /\ DOMAIN slots = 1 .. m
      /\ \A k \in 1 .. m : /\ slots[k] \in Slot /\ slots[k].index = ds[o[k]].index
                           /\ ToolCallOf(slots[k]) = CallOf(ds, slots[k].index)
  BY LenProperties, ElementOfSeq DEF InSlots
<1>2. /\ S \subseteq 1 .. n /\ \A i, j \in S : ds[i].index = ds[j].index => i = j
      /\ \A i \in 1 .. n : \E j \in S : ds[j].index = ds[i].index
  BY OpeningFacts
<1>3. /\ o \in Seq(S) /\ Len(o) = m /\ \A k \in 1 .. m : o[k] \in S
      /\ \A i, j \in 1 .. m : i < j => o[i] < o[j]
      /\ \A x \in S : \E i \in 1 .. m : o[i] = x
  <2>1. /\ o \in Seq(S) /\ Len(o) = Cardinality(S) /\ \A k \in 1 .. Cardinality(S) : o[k] \in S
    BY <1>2, InOrderFacts
  <2>2. /\ \A i, j \in 1 .. Cardinality(S) : i < j => o[i] < o[j]
        /\ \A x \in S : \E i \in 1 .. Cardinality(S) : o[i] = x
    BY <1>2, InOrderFacts
  <2> QED BY <1>1, <2>1, <2>2
<1>4. d \in Delta /\ d \in Delta /\ DOMAIN ds = 1 .. n
  <2>1. n + 1 \in 1 .. Len(es)
    OBVIOUS
  <2> QED BY <2>1, ElementOfSeq, LenProperties
<1>5. \A k \in 1 .. m : o[k] \in 1 .. n /\ es[o[k]] = ds[o[k]]
  BY <1>2, <1>3
<1>6. after \in Seq(Slot)
  BY <1>1, <1>4, DeltaTyped
<1> HIDE DEF S, o, m, after
<1>13. \A k : CallOf(es, k) = LongerCall(CallOf(ds, k), d, k)
  BY CallMore
<1>7. \A k : d.index # k => CallOf(es, k) = CallOf(ds, k)
  BY <1>13 DEF LongerCall
<1>12. CallOf(es, d.index) = [id |-> OrElse(CallOf(ds, d.index).id, d.id),
                              name |-> OrElse(CallOf(ds, d.index).name, d.name),
                              args |-> CallOf(ds, d.index).args \o d.frag]
  BY <1>13 DEF LongerCall
<1>11. m \in Nat /\ \A k \in 1 .. m + 1 : k \in 1 .. m \/ k = m + 1
  <2>1. m \in Nat
    BY <1>1
  <2> QED BY <2>1
<1>10. Opening(es) = IF OfIndex(ds, d.index) = {} THEN S \cup {n + 1} ELSE S
  BY OpeningMore DEF S
<1>8. CASE OfIndex(ds, d.index) = {}
  <2> DEFINE new == Extended(NewSlot(d), d)
  <2>1. \A k \in 1 .. m : slots[k].index # d.index
    BY <1>1, <1>4, <1>5, <1>8 DEF OfIndex
  <2>2. after = Append(slots, new)
    <3>1. SlotOf(slots, d) = {}
      BY <1>1, <2>1 DEF SlotOf
    <3> QED BY <3>1 DEF AbsorbToolCall, after
  <2>3. NewSlot(d) \in Slot
    <3>1. d.index \in Nat
      BY <1>4 DEF Delta
    <3>2. "" \in Words /\ <<>> \in Seq(Words)
      BY TransportAssumption, EmptySeq
    <3> QED BY <3>1, <3>2 DEF NewSlot, Slot, NoText
  <2>4. /\ new.index = d.index
        /\ ToolCallOf(new) = [id |-> OrElse("", d.id), name |-> OrElse("", d.name), args |-> <<>> \o d.frag]
    <3>1. /\ NewSlot(d).index = d.index /\ NewSlot(d).id = "" /\ NewSlot(d).name = ""
          /\ NewSlot(d).args = <<>>
      BY DEF NewSlot, NoText
    <3>2. /\ new.index = NewSlot(d).index
          /\ ToolCallOf(new) = [id |-> OrElse(NewSlot(d).id, d.id), name |-> OrElse(NewSlot(d).name, d.name),
                                args |-> NewSlot(d).args \o d.frag]
      BY <1>4, <2>3, ExtendedFacts
    <3> QED BY <3>1, <3>2
  <2>5. CallOf(ds, d.index) = [id |-> "", name |-> "", args |-> <<>>]
    BY <1>8, CallNone
  <2>6. ToolCallOf(new) = CallOf(es, d.index)
    <3>2. CallOf(ds, d.index).id = "" /\ CallOf(ds, d.index).name = "" /\ CallOf(ds, d.index).args = <<>>
      <4> DEFINE c == CallOf(ds, d.index)
                 e == ""
                 x == <<>>
      <4>1. c = [id |-> e, name |-> e, args |-> x]
        BY <2>5
      <4> HIDE DEF c, e, x
      <4>2. c.id = e /\ c.name = e /\ c.args = x
        BY <4>1
      <4> QED BY <4>2 DEF c, e, x
    <3> QED BY <1>12, <2>4, <3>2
  <2> HIDE DEF new
  <2>7. /\ Len(after) = m + 1 /\ after[m + 1] = new /\ \A k \in 1 .. m : after[k] = slots[k]
    <3>1. new \in Slot
      <4>1. Extended(NewSlot(d), d) \in Slot
        <5>1. NewSlot(d).args \o d.frag \in Seq(Words)
          BY <1>4, <2>3, ConcatProperties DEF Slot, Delta
        <5> QED BY <1>4, <2>3, <5>1 DEF Extended, OrElse, Slot, Delta
      <4> QED BY <4>1 DEF new
    <3> QED BY <1>1, <2>2, <3>1, AppendProperties DEF m
  <2>8. Opening(es) = S \cup {n + 1}
    BY <1>8, <1>10
  <2>9. InOrder(Opening(es)) = Append(o, n + 1) /\ Cardinality(Opening(es)) = m + 1
    <3>1. InOrder(S \cup {n + 1}) = Append(InOrder(S), n + 1)
      BY <1>2, InOrderMore
    <3>2. Cardinality(S \cup {n + 1}) = Cardinality(S) + 1
      BY <1>2, InOrderMore
    <3> QED BY <1>1, <2>8, <3>1, <3>2 DEF o
  <2>10. InOrder(Opening(es))[m + 1] = n + 1 /\ \A k \in 1 .. m : InOrder(Opening(es))[k] = o[k]
    <3>1. o \in Seq(Nat) /\ Len(o) = m
      <4>1. \A k \in 1 .. m : o[k] \in Nat
        BY <1>5
      <4>2. o \in Seq(S) /\ Len(o) = m
        BY <1>3
      <4>3. o \in [1 .. m -> S]
        BY <4>2, LenProperties
      <4>4. o \in [1 .. m -> Nat]
        BY <4>1, <4>3
      <4> QED BY <1>11, <4>4, FunctionIsSeq
    <3>2. n + 1 \in Nat
      OBVIOUS
    <3> DEFINE x == n + 1
    <3> HIDE DEF x
    <3>3. Append(o, x)[m + 1] = x /\ \A k \in 1 .. m : Append(o, x)[k] = o[k]
      BY <3>1, <3>2, AppendProperties DEF x
    <3> QED BY <2>9, <3>3 DEF x
  <2>12. ASSUME NEW k \in 1 .. m + 1
         PROVE  /\ after[k].index = es[InOrder(Opening(es))[k]].index
                /\ ToolCallOf(after[k]) = CallOf(es, after[k].index)
    <3>1. k \in 1 .. m \/ k = m + 1
      BY <1>11
    <3>2. CASE k \in 1 .. m
      <4>1. after[k] = slots[k] /\ slots[k].index # d.index
        BY <2>1, <2>7, <3>2
      <4>2. slots[k].index = es[InOrder(Opening(es))[k]].index
        BY <1>1, <1>5, <2>10, <3>2
      <4> QED BY <1>1, <1>7, <3>2, <4>1, <4>2
    <3>3. CASE k = m + 1
      BY <2>4, <2>6, <2>7, <2>10, <3>3
    <3> QED BY <3>1, <3>2, <3>3
  <2> QED BY <1>6, <2>7, <2>9, <2>12 DEF InSlots, after
<1>9. CASE OfIndex(ds, d.index) # {}
  <2>1. PICK q \in 1 .. m : slots[q].index = d.index /\ after = [slots EXCEPT ![q] = Extended(slots[q], d)]
    <3>1. PICK i \in 1 .. n : ds[i].index = d.index
      BY <1>4, <1>9 DEF OfIndex
    <3>2. PICK k \in 1 .. m : ds[o[k]].index = d.index
      <4>1. PICK j \in S : ds[j].index = ds[i].index
        BY <1>2
      <4>2. PICK k \in 1 .. m : o[k] = j
        BY <1>3
      <4> QED BY <3>1, <4>1, <4>2
    <3>3. SlotOf(slots, d) # {} /\ SlotOf(slots, d) \subseteq 1 .. m
      BY <1>1, <3>2 DEF SlotOf
    <3>4. Min(SlotOf(slots, d)) \in SlotOf(slots, d)
      <4>1. SlotOf(slots, d) \subseteq Nat
        BY <3>3
      <4> QED BY <3>3, <4>1, LeastNatural DEF Min
    <3>5. after = [slots EXCEPT ![Min(SlotOf(slots, d))] = Extended(slots[Min(SlotOf(slots, d))], d)]
      BY <3>3 DEF AbsorbToolCall, after
    <3>6. Min(SlotOf(slots, d)) \in 1 .. m /\ slots[Min(SlotOf(slots, d))].index = d.index
      BY <3>3, <3>4 DEF SlotOf
    <3> QED BY <3>5, <3>6
  <2>2. /\ DOMAIN after = 1 .. m /\ after[q] = Extended(slots[q], d)
        /\ \A k \in 1 .. m : k # q => after[k] = slots[k]
    BY <1>1, <2>1
  <2>3. Len(after) = m
    BY <1>1, <1>6, <2>2, LenProperties DEF m
  <2>4. Opening(es) = S
    BY <1>9, <1>10
  <2>5. ASSUME NEW k \in 1 .. m, k # q PROVE slots[k].index # d.index
    <3>1. o[k] # o[q] /\ o[k] \in S /\ o[q] \in S
      <4>1. k < q \/ q < k
        BY <2>5
      <4>2. o[k] \in 1 .. n /\ o[q] \in 1 .. n
        BY <1>5
      <4>3. o[k] < o[q] \/ o[q] < o[k]
        BY <1>3, <4>1
      <4>4. o[k] \in Nat /\ o[q] \in Nat
        BY <4>2
      <4>5. o[k] # o[q]
        BY <4>3, <4>4
      <4> QED BY <1>3, <4>5
    <3>2. ds[o[k]].index # ds[o[q]].index
      BY <1>2, <3>1
    <3> QED BY <1>1, <2>1, <3>2
  <2>6. ASSUME NEW k \in 1 .. m
        PROVE  /\ after[k].index = es[o[k]].index
               /\ ToolCallOf(after[k]) = CallOf(es, after[k].index)
    <3>1. slots[k].index = es[o[k]].index /\ ToolCallOf(slots[k]) = CallOf(ds, slots[k].index) /\ slots[k] \in Slot
      BY <1>1, <1>5
    <3>2. CASE k = q
      <4>1. /\ after[k].index = slots[k].index
            /\ ToolCallOf(after[k]) = [id |-> OrElse(slots[k].id, d.id), name |-> OrElse(slots[k].name, d.name),
                                       args |-> slots[k].args \o d.frag]
        BY <1>4, <2>2, <3>1, <3>2, ExtendedFacts
      <4>2. slots[k].id = CallOf(ds, d.index).id /\ slots[k].name = CallOf(ds, d.index).name
            /\ slots[k].args = CallOf(ds, d.index).args
        <5>1. ToolCallOf(slots[k]) = CallOf(ds, d.index)
          BY <2>1, <3>1, <3>2
        <5>2. /\ ToolCallOf(slots[k]).id = slots[k].id /\ ToolCallOf(slots[k]).name = slots[k].name
              /\ ToolCallOf(slots[k]).args = slots[k].args
          BY DEF ToolCallOf
        <5> QED BY <5>1, <5>2
      <4> QED BY <1>12, <2>1, <3>1, <3>2, <4>1, <4>2
    <3>3. CASE k # q
      <4>1. after[k] = slots[k] /\ slots[k].index # d.index
        BY <2>2, <2>5, <3>3
      <4> QED BY <1>7, <3>1, <4>1
    <3> QED BY <3>2, <3>3
  <2> QED BY <1>1, <1>6, <2>3, <2>4, <2>6 DEF InSlots, after, o
<1> QED BY <1>8, <1>9

\* All deltas of a chunk.
LEMMA SlotsMore ==
  ASSUME NEW slots, NEW ds \in Seq(Delta), InSlots(slots, ds), NEW ts \in Seq(Delta)
  PROVE  InSlots(AbsorbToolCalls(slots, ts), ds \o ts)
<1> DEFINE m == Len(ts)
           u(j) == ds \o SubSeq(ts, 1, j)
<1>1. slots \in Seq(Slot) /\ m \in Nat /\ \A i \in 1 .. m : ts[i] \in Delta
  BY LenProperties, ElementOfSeq DEF InSlots
<1>2. PICK f : /\ f[0] = slots /\ AbsorbToolCalls(slots, ts) = f[m]
               /\ \A n \in 0 .. m : f[n] \in Seq(Slot)
               /\ \A n \in 1 .. m : f[n] = AbsorbToolCall(f[n - 1], ts[n])
  BY <1>1, DeltasSteps
<1>3. ASSUME NEW j \in 0 .. m
      PROVE  /\ u(j) \in Seq(Delta) /\ Len(u(j)) = Len(ds) + j
             /\ \A i \in 1 .. Len(ds) + j : u(j)[i] = IF i <= Len(ds) THEN ds[i] ELSE ts[i - Len(ds)]
  <2> DEFINE p == SubSeq(ts, 1, j)
  <2>1. p \in Seq(Delta) /\ Len(p) = j /\ \A i \in 1 .. j : p[i] = ts[i]
    BY <1>3, FirstOf
  <2> HIDE DEF p
  <2>2. /\ ds \o p \in Seq(Delta) /\ Len(ds \o p) = Len(ds) + j
        /\ \A i \in 1 .. Len(ds) + j : (ds \o p)[i] = IF i <= Len(ds) THEN ds[i] ELSE p[i - Len(ds)]
    BY <2>1, ConcatProperties
  <2>3. \A i \in 1 .. Len(ds) + j : i <= Len(ds) \/ i - Len(ds) \in 1 .. j
    BY LenProperties
  <2> QED BY <2>1, <2>2, <2>3 DEF p
<1>4. u(0) = ds
  <2>1. SubSeq(ts, 1, 0) = <<>>
    BY SubSeqEmpty
  <2>2. ds \o <<>> = ds
    BY ConcatEmptySeq
  <2> QED BY <2>1, <2>2
<1>5. u(m) = ds \o ts
  BY SubSeqFull
<1> DEFINE Q == {j \in Nat : j <= m => InSlots(f[j], u(j))}
<1> HIDE DEF u, m
<1>6. 0 \in Q
  BY <1>2, <1>4
<1>7. ASSUME NEW j \in Nat, j \in Q PROVE j + 1 \in Q
  <2>1. SUFFICES ASSUME j + 1 <= m PROVE InSlots(f[j + 1], u(j + 1))
    OBVIOUS
  <2>2. j \in 0 .. m /\ j + 1 \in 0 .. m /\ j + 1 \in 1 .. m /\ j + 1 - 1 = j /\ j <= m
    BY <1>1, <2>1
  <2>3. InSlots(f[j], u(j)) /\ f[j + 1] = AbsorbToolCall(f[j], ts[j + 1])
    BY <1>2, <1>7, <2>2
  <2> DEFINE v == u(j)
             w == u(j + 1)
             n == Len(ds)
             d == ts[j + 1]
  <2>4. n \in Nat /\ d \in Delta
    BY <1>1, <2>2, LenProperties
  <2>5. /\ v \in Seq(Delta) /\ Len(v) = n + j
        /\ \A i \in 1 .. n + j : v[i] = IF i <= n THEN ds[i] ELSE ts[i - n]
    BY <1>3, <2>2
  <2>6. /\ w \in Seq(Delta) /\ Len(w) = n + (j + 1)
        /\ \A i \in 1 .. n + (j + 1) : w[i] = IF i <= n THEN ds[i] ELSE ts[i - n]
    BY <1>3, <2>2
  <2> HIDE DEF v, w, n
  <2>7. /\ \A i \in 1 .. n + j : i \in 1 .. n + (j + 1)
        /\ n + j + 1 \in 1 .. n + (j + 1) /\ ~(n + j + 1 <= n) /\ (n + j + 1) - n = j + 1
        /\ n + (j + 1) = n + j + 1
    BY <2>4
  <2>8. w[n + j + 1] = d /\ \A i \in 1 .. n + j : w[i] = v[i]
    BY <2>5, <2>6, <2>7
  <2> HIDE DEF d
  <2>9. OneMore(v, w, d)
    BY <2>4, <2>5, <2>6, <2>7, <2>8 DEF OneMore
  <2>10. InSlots(AbsorbToolCall(f[j], d), w)
    BY <2>3, <2>9, SlotMore DEF v
  <2> QED BY <2>3, <2>10 DEF w, d
<1>8. \A j \in Nat : j \in Q
  <2> HIDE DEF Q
  <2> QED BY <1>6, <1>7, NatSetInduction
<1>9. InSlots(f[m], u(m))
  <2>1. m \in Nat /\ m <= m
    BY <1>1
  <2> QED BY <1>8, <2>1
<1> QED BY <1>2, <1>5, <1>9

\* An assembly of some chunks.
Contents(cs) == [i \in DOMAIN cs |-> cs[i].content]
Tools(cs) == [i \in DOMAIN cs |-> cs[i].tools]
Collected(a, cs) ==
  /\ cs \in Seq(Chunk) /\ a \in Assembly
  /\ a.content = FlattenSeq(Contents(cs)) /\ InSlots(a.slots, FlattenSeq(Tools(cs)))

\* One chunk more.
LEMMA PartsMore ==
  ASSUME NEW cs \in Seq(Chunk), NEW c \in Chunk
  PROVE  /\ Contents(cs) \in Seq(Seq(Words)) /\ Tools(cs) \in Seq(Seq(Delta))
         /\ Contents(Append(cs, c)) = Append(Contents(cs), c.content)
         /\ Tools(Append(cs, c)) = Append(Tools(cs), c.tools)
<1> DEFINE m == Len(cs)
           es == Append(cs, c)
<1>1. m \in Nat /\ DOMAIN cs = 1 .. m /\ \A i \in 1 .. m : cs[i] \in Chunk
  BY LenProperties, ElementOfSeq
<1>2. es \in Seq(Chunk) /\ Len(es) = m + 1 /\ es[m + 1] = c /\ \A i \in 1 .. m : es[i] = cs[i]
  BY AppendProperties
<1>3. DOMAIN es = 1 .. m + 1
  BY <1>2, LenProperties
<1> HIDE DEF es, m
<1>4. \A i \in 1 .. m + 1 : es[i] \in Chunk
  BY <1>2, <1>3, ElementOfSeq
<1>5. (\A i \in 1 .. m : i \in 1 .. m + 1) /\ m + 1 \in 1 .. m + 1 /\ m + 1 \in Nat
  BY <1>1
<1>6. /\ c.content \in Seq(Words) /\ c.tools \in Seq(Delta)
      /\ \A i \in 1 .. m : cs[i].content \in Seq(Words) /\ cs[i].tools \in Seq(Delta)
      /\ \A i \in 1 .. m + 1 : es[i].content \in Seq(Words) /\ es[i].tools \in Seq(Delta)
  BY <1>1, <1>4 DEF Chunk
<1>7. /\ Contents(cs) \in [1 .. m -> Seq(Words)] /\ Tools(cs) \in [1 .. m -> Seq(Delta)]
      /\ Contents(es) \in [1 .. m + 1 -> Seq(Words)] /\ Tools(es) \in [1 .. m + 1 -> Seq(Delta)]
  BY <1>1, <1>3, <1>6 DEF Contents, Tools
<1>8. /\ Contents(cs) \in Seq(Seq(Words)) /\ Len(Contents(cs)) = m
      /\ Tools(cs) \in Seq(Seq(Delta)) /\ Len(Tools(cs)) = m
  BY <1>1, <1>7, FunctionIsSeq
<1>9. /\ Contents(es) \in Seq(Seq(Words)) /\ Len(Contents(es)) = m + 1
      /\ Tools(es) \in Seq(Seq(Delta)) /\ Len(Tools(es)) = m + 1
  BY <1>5, <1>7, FunctionIsSeq
<1>10. /\ Contents(es)[m + 1] = c.content /\ \A i \in 1 .. m : Contents(es)[i] = Contents(cs)[i]
       /\ Tools(es)[m + 1] = c.tools /\ \A i \in 1 .. m : Tools(es)[i] = Tools(cs)[i]
  BY <1>1, <1>2, <1>3, <1>5 DEF Contents, Tools
<1>11. Contents(es) = Append(Contents(cs), c.content)
  BY <1>6, <1>8, <1>9, <1>10, IsAppended
<1>12. Tools(es) = Append(Tools(cs), c.tools)
  BY <1>6, <1>8, <1>9, <1>10, IsAppended
<1> QED BY <1>8, <1>11, <1>12 DEF es

LEMMA CollectedMore ==
  ASSUME NEW a, NEW cs, Collected(a, cs), NEW c \in Chunk, AbsorbChunk(a, c) \in Assembly
  PROVE  Collected(AbsorbChunk(a, c), Append(cs, c))
<1>1. /\ cs \in Seq(Chunk) /\ a \in Assembly
      /\ a.content = FlattenSeq(Contents(cs)) /\ InSlots(a.slots, FlattenSeq(Tools(cs)))
  BY DEF Collected
<1>2. /\ Contents(cs) \in Seq(Seq(Words)) /\ Tools(cs) \in Seq(Seq(Delta))
      /\ Contents(Append(cs, c)) = Append(Contents(cs), c.content)
      /\ Tools(Append(cs, c)) = Append(Tools(cs), c.tools)
  BY <1>1, PartsMore
<1>3. c.content \in Seq(Words) /\ c.tools \in Seq(Delta)
  BY DEF Chunk
<1>4. FlattenSeq(Append(Contents(cs), c.content)) = FlattenSeq(Contents(cs)) \o c.content
  BY <1>2, <1>3, FlattenMore
<1>5. /\ FlattenSeq(Append(Tools(cs), c.tools)) = FlattenSeq(Tools(cs)) \o c.tools
      /\ FlattenSeq(Tools(cs)) \in Seq(Delta)
  BY <1>2, <1>3, FlattenMore
<1>6. InSlots(AbsorbToolCalls(a.slots, c.tools), FlattenSeq(Tools(cs)) \o c.tools)
  BY <1>1, <1>3, <1>5, SlotsMore
<1>7. AbsorbChunk(a, c).content = a.content \o c.content /\ AbsorbChunk(a, c).slots = AbsorbToolCalls(a.slots, c.tools)
  BY DEF AbsorbChunk
<1>8. Append(cs, c) \in Seq(Chunk)
  BY <1>1, AppendProperties
<1> QED BY <1>1, <1>2, <1>4, <1>5, <1>6, <1>7, <1>8 DEF Collected

LEMMA CollectedNone == Collected(NewAssembly, <<>>)
<1>1. NewAssembly \in Assembly
  <2>1. "" \in Words /\ <<>> \in Seq(Words) /\ <<>> \in Seq(Slot)
    BY TransportAssumption, EmptySeq
  <2> QED BY <2>1 DEF NewAssembly, Assembly, NoText
<1>2. Contents(<<>>) = <<>> /\ Tools(<<>>) = <<>>
  BY DEF Contents, Tools
<1>3. NewAssembly.content = <<>> /\ NewAssembly.slots = <<>>
  BY DEF NewAssembly, NoText
<1>4. InSlots(<<>>, <<>>)
  <2> DEFINE ds == <<>>
             none == <<>>
             n == 0
  <2>1. ds \in Seq(Delta) /\ Len(ds) = n /\ n \in Nat /\ none \in Seq(Slot) /\ Len(none) = 0 /\ 1 .. n = {}
    BY EmptySeq
  <2> HIDE DEF ds, none, n
  <2>2. Opening(ds) \subseteq 1 .. n
    BY <2>1, OpeningFacts
  <2>3. Opening(ds) = {}
    BY <2>1, <2>2
  <2>4. Cardinality(Opening(ds)) = 0
    BY <2>3, FS_EmptySet
  <2>5. \A k \in 1 .. Len(none) : FALSE
    BY <2>1
  <2>6. InSlots(none, ds)
    BY <2>1, <2>4, <2>5 DEF InSlots
  <2> QED BY <2>6 DEF ds, none
<1>5. <<>> \in Seq(Chunk)
  BY EmptySeq
<1> QED BY <1>1, <1>2, <1>3, <1>4, <1>5, FlattenNone DEF Collected

-----------------------------------------------------------------------------
(***************************************************************************)
(* A reply from its messages.                                              *)
(***************************************************************************)
\* What the next request carries of an assembly.
LEMMA AssistantIs ==
  ASSUME NEW a, NEW cs, Collected(a, cs)
  PROVE  /\ Assistant(a).calls = CallsIn(DeltasOf(cs))
         /\ Assistant(a).content =
              IF CallsIn(DeltasOf(cs)) # <<>> /\ FlattenSeq(Contents(cs)) = <<>> THEN Null ELSE FlattenSeq(Contents(cs))
<1> DEFINE ds == FlattenSeq(Tools(cs))
           o == InOrder(Opening(ds))
           m == Len(a.slots)
<1>1. DeltasOf(cs) = ds
  BY DEF DeltasOf, Tools
<1>2. /\ a.content = FlattenSeq(Contents(cs)) /\ a.slots \in Seq(Slot)
      /\ m = Cardinality(Opening(ds)) /\ DOMAIN o = 1 .. Cardinality(Opening(ds))
      /\ \A k \in 1 .. m : a.slots[k].index = ds[o[k]].index /\ ToolCallOf(a.slots[k]) = CallOf(ds, a.slots[k].index)
  BY DEF Collected, InSlots, InOrder
<1>3. DOMAIN a.slots = 1 .. m /\ m \in Nat
  BY <1>2, LenProperties
<1>4. CallsIn(ds) = [k \in DOMAIN o |-> CallOf(ds, ds[o[k]].index)]
  BY DEF CallsIn
<1>5. Assistant(a).calls = [k \in DOMAIN a.slots |-> ToolCallOf(a.slots[k])]
  BY DEF Assistant
<1> HIDE DEF ds, o, m
<1>6. Assistant(a).calls = CallsIn(ds)
  BY <1>2, <1>3, <1>4, <1>5
<1>7. a.slots # <<>> <=> CallsIn(ds) # <<>>
  <2>1. a.slots = <<>> <=> m = 0
    BY <1>2, EmptySeq DEF m
  <2>2. CASE m = 0
    <3>1. DOMAIN o = {}
      BY <1>2, <2>2
    <3>2. CallsIn(ds) = <<>>
      BY <1>4, <3>1
    <3> QED BY <2>1, <2>2, <3>2
  <2>3. CASE m # 0
    <3>1. DOMAIN CallsIn(ds) = 1 .. m /\ 1 \in 1 .. m
      BY <1>2, <1>3, <1>4, <2>3
    <3>2. CallsIn(ds) # <<>>
      <4>1. DOMAIN <<>> = {}
        OBVIOUS
      <4> QED BY <3>1, <4>1
    <3> QED BY <2>1, <2>3, <3>2
  <2> QED BY <2>2, <2>3
<1>8. Assistant(a).content = IF a.slots # <<>> /\ a.content = <<>> THEN Null ELSE a.content
  BY DEF Assistant, NoText
<1> QED BY <1>1, <1>2, <1>6, <1>7, <1>8

\* A payload is a chunk or [DONE], and not both.
LEMMA PayloadFacts ==
  ASSUME NEW data, IsChunk(data)
  PROVE  ~IsDone(data) /\ PayloadOf(data) \in Chunk
<1>1. PICK p \in DOMAIN Json : Holds(data, p) /\ Decodable(Json[p])
  BY DEF IsChunk
<1>2. ASSUME NEW q, Holds(data, q) PROVE q = p
  BY <1>1, <1>2 DEF Holds
<1>3. PayloadOf(data) = ChunkOf(Json[p])
  <2>1. (CHOOSE q \in DOMAIN Json : Holds(data, q)) = p
    BY <1>1, <1>2
  <2> QED BY <2>1 DEF PayloadOf
<1>4. PayloadOf(data) \in Chunk
  BY <1>1, <1>3, TransportAssumption
<1>5. ~IsDone(data)
  <2>1. Done \notin DOMAIN Json
    BY TransportAssumption
  <2> QED BY <1>1, <1>2, <2>1 DEF IsDone
<1> QED BY <1>4, <1>5

\* The messages before the first [DONE].
LEMMA UpToDoneIs ==
  ASSUME NEW S, NEW ms \in Seq(S), NEW n \in 0 .. Len(ms), \A i \in 1 .. n : ~IsDone(ms[i]),
         n = Len(ms) \/ IsDone(ms[n + 1])
  PROVE  UpToDone(ms) = SubSeq(ms, 1, n)
<1> DEFINE d == {i \in DOMAIN ms : IsDone(ms[i])}
           m == Len(ms)
<1>1. m \in Nat /\ DOMAIN ms = 1 .. m /\ n \in Nat /\ n <= m
  BY LenProperties
<1>2. UpToDone(ms) = SubSeq(ms, 1, (IF d = {} THEN m + 1 ELSE Min(d)) - 1)
  BY DEF UpToDone
<1>3. \A i : i \in d <=> i \in 1 .. m /\ IsDone(ms[i])
  BY <1>1
<1> HIDE DEF d, m
<1>4. CASE n = m
  <2>1. d = {}
    BY <1>1, <1>3, <1>4
  <2>2. (IF d = {} THEN m + 1 ELSE Min(d)) - 1 = n
    BY <1>1, <1>4, <2>1
  <2> QED BY <1>2, <2>2
<1>5. CASE n # m
  <2> DEFINE x == n + 1
  <2>1. x \in 1 .. m /\ x \in Nat /\ x - 1 = n
    BY <1>1, <1>5
  <2>2. x \in d
    BY <1>3, <1>5, <2>1 DEF m
  <2>3. \A i \in d : i \in Nat /\ x <= i
    <3>1. \A i \in 1 .. m : i \in Nat /\ (i \in 1 .. n \/ x <= i)
      BY <1>1
    <3> QED BY <1>3, <3>1
  <2> HIDE DEF x
  <2>4. \A i \in d : (\A j \in d : i <= j) => i = x
    BY <2>1, <2>2, <2>3
  <2>5. Min(d) = x
    BY <2>2, <2>3, <2>4 DEF Min
  <2> QED BY <1>2, <2>1, <2>2, <2>5
<1> QED BY <1>4, <1>5

\* Messages go on as lines do.
Begins(s, t) == Len(s) <= Len(t) /\ \A i \in 1 .. Len(s) : t[i] = s[i]

LEMMA MessagesGrow ==
  ASSUME NEW L \in Seq(Seq(Byte)), NEW k \in 0 .. Len(L)
  PROVE  Begins(MessagesIn(SubSeq(L, 1, k)), MessagesIn(L))
<1> DEFINE p(j) == SubSeq(L, 1, j)
           first == MessagesIn(p(k))
           m == Len(L)
           Q == {n \in Nat : k + n <= m => Begins(first, MessagesIn(p(k + n)))}
<1>1. m \in Nat /\ k \in Nat /\ k <= m
  BY LenProperties
<1>2. \A j \in 0 .. m : p(j) \in Seq(Seq(Byte)) /\ Len(p(j)) = j /\ \A i \in 1 .. j : p(j)[i] = L[i]
  BY FirstOf
<1>3. p(m) = L
  BY SubSeqFull
<1>4. first \in Seq(Seq(Byte)) /\ Len(first) \in Nat
  <2>1. p(k) \in Seq(Seq(Byte))
    BY <1>2
  <2> HIDE DEF p
  <2>2. MessagesIn(p(k)) \in Seq(Seq(Byte))
    BY <2>1, MessagesTyped
  <2> QED BY <2>2, LenProperties
<1> HIDE DEF p, first, m
<1>5. 0 \in Q
  <2>1. k + 0 = k
    BY <1>1
  <2>2. Begins(first, first)
    BY <1>4 DEF Begins
  <2> QED BY <2>1, <2>2 DEF first
<1>6. ASSUME NEW n \in Nat, n \in Q PROVE n + 1 \in Q
  <2>1. SUFFICES ASSUME k + (n + 1) <= m PROVE Begins(first, MessagesIn(p(k + (n + 1))))
    OBVIOUS
  <2> DEFINE j == k + n
             G == p(j)
             H == p(j + 1)
             x == MessageAt(G, j + 1)
             M == MessagesIn(G)
  <2>2. j \in Nat /\ j \in 0 .. m /\ j + 1 \in 0 .. m /\ k + (n + 1) = j + 1 /\ j <= m
    BY <1>1, <2>1
  <2>3. Begins(first, M)
    BY <1>6, <2>2
  <2> HIDE DEF j
  <2>4. /\ G \in Seq(Seq(Byte)) /\ Len(G) = j /\ \A i \in 1 .. j : G[i] = L[i]
        /\ H \in Seq(Seq(Byte)) /\ Len(H) = j + 1 /\ \A i \in 1 .. j + 1 : H[i] = L[i]
    BY <1>2, <2>2
  <2> HIDE DEF G, H
  <2>5. \A i \in 1 .. j : H[i] = G[i]
    <3>1. \A i \in 1 .. j : i \in 1 .. j + 1
      BY <2>2
    <3> QED BY <2>4, <3>1
  <2>6. M \in Seq(Seq(Byte)) /\ \A i \in 1 .. Len(G) + 1 : MessageAt(G, i) \in Seq(Byte)
    BY <2>4, MessagesTyped
  <2>7. x \in Seq(Byte)
    <3>1. j + 1 \in 1 .. Len(G) + 1
      BY <2>2, <2>4
    <3> QED BY <2>6, <3>1
  <2>8. MessagesIn(H) = M \/ MessagesIn(H) = Append(M, x)
    <3> DEFINE l == H[j + 1]
    <3>1. OneLine(G, H, l)
      BY <2>2, <2>4, <2>5 DEF OneLine
    <3> HIDE DEF l
    <3>2. MessagesIn(H) = MessagesThen(G, l)
      BY <3>1, MessagesMore
    <3>3. Len(G) = j
      BY <2>4
    <3> QED BY <3>2, <3>3 DEF MessagesThen
  <2> HIDE DEF x, M
  <2>9. Len(Append(M, x)) = Len(M) + 1 /\ \A i \in 1 .. Len(M) : Append(M, x)[i] = M[i]
    BY <2>6, <2>7, AppendProperties
  <2>10. Len(M) \in Nat /\ Len(first) <= Len(M) /\ \A i \in 1 .. Len(first) : i \in 1 .. Len(M)
    <3>1. Len(M) \in Nat /\ Len(first) <= Len(M) /\ Len(first) \in Nat
      BY <1>4, <2>3, <2>6, LenProperties DEF Begins
    <3> QED BY <3>1
  <2>11. Begins(first, Append(M, x))
    BY <1>4, <2>3, <2>9, <2>10 DEF Begins
  <2>12. Begins(first, MessagesIn(H))
    BY <2>3, <2>8, <2>11
  <2> QED BY <2>2, <2>12 DEF H
<1>7. \A n \in Nat : n \in Q
  <2> HIDE DEF Q
  <2> QED BY <1>5, <1>6, NatSetInduction
<1>8. m - k \in Nat /\ k + (m - k) = m
  BY <1>1
<1>9. Begins(first, MessagesIn(p(m)))
  <2>1. m - k \in Q
    <3> HIDE DEF Q
    <3> QED BY <1>7, <1>8
  <2>2. k + (m - k) <= m
    BY <1>1, <1>8
  <2> QED BY <1>8, <2>1, <2>2
<1> QED BY <1>3, <1>9 DEF first, p

\* A stream's messages are not taken back by what follows.
LEMMA HeardBegins ==
  ASSUME NEW s \in Seq(Byte), NEW t \in Seq(Byte), NEW d, NEW h, NEW k, AtLine(s, d, h, k)
  PROVE  Begins(h, Messages(s \o t)) /\ Messages(s \o t) \in Seq(Seq(Byte)) /\ h \in Seq(Seq(Byte))
<1> DEFINE u == s \o t
           L == Lines(u)
           n == LineCount(u)
           G == SubSeq(Lines(s), 1, k)
<1>1. /\ k \in 0 .. LineCount(s) /\ \A i \in 1 .. k : ~BadLine(Lines(s)[i])
      /\ h = MessagesIn(G)
  BY DEF AtLine
<1>2. /\ u \in Seq(Byte) /\ LineCount(s) <= n /\ \A i \in 1 .. LineCount(s) : L[i] = Lines(s)[i]
  BY LinesGrow
<1> HIDE DEF u
<1>3. L \in Seq(Seq(Byte)) /\ Len(L) = n /\ n \in Nat
  BY <1>2, LinesFacts, EndsFacts
<1>4. LineCount(s) \in Nat
  BY EndsFacts
<1> HIDE DEF n, L
<1>5. /\ k \in Nat /\ k <= n /\ k \in 0 .. n
      /\ \A i \in 1 .. k : i \in 1 .. LineCount(s)
  BY <1>1, <1>2, <1>3, <1>4
<1>6. \A i \in 1 .. k : L[i] = Lines(s)[i] /\ ~BadLine(L[i])
  BY <1>1, <1>2, <1>5
<1>7. PICK q \in k .. n : (\A i \in 1 .. q : ~BadLine(L[i])) /\ (q = n \/ BadLine(L[q + 1]))
  <2> DEFINE T == {i \in 1 .. n : BadLine(L[i])}
  <2>1. CASE T = {}
    <3>1. n \in k .. n
      BY <1>3, <1>5
    <3>2. \A i \in 1 .. n : ~BadLine(L[i])
      BY <2>1
    <3> QED BY <3>1, <3>2
  <2>2. CASE T # {}
    <3>1. PICK x \in T : \A y \in T : x <= y
      <4>1. T \subseteq Nat
        OBVIOUS
      <4> HIDE DEF T
      <4> QED BY <2>2, <4>1, LeastNatural
    <3>2. x \in 1 .. n /\ BadLine(L[x])
      BY <3>1
    <3>3. ~(x <= k)
      <4>1. x <= k => x \in 1 .. k
        BY <1>5, <3>2
      <4> QED BY <1>6, <3>2, <4>1
    <3>4. x - 1 \in k .. n /\ x - 1 + 1 = x
      BY <1>3, <1>5, <3>2, <3>3
    <3>5. ASSUME NEW i \in 1 .. x - 1 PROVE ~BadLine(L[i])
      <4>1. i \in 1 .. n /\ ~(x <= i)
        BY <1>3, <3>2
      <4> QED BY <3>1, <4>1
    <3> QED BY <3>2, <3>4, <3>5
  <2> QED BY <2>1, <2>2
<1>8. q \in Nat /\ q \in 0 .. n /\ k <= q
  BY <1>3, <1>5, <1>7
<1>9. GoodLines(u) = SubSeq(L, 1, q)
  <2>1. q \in 0 .. LineCount(u) /\ (\A i \in 1 .. q : ~BadLine(Lines(u)[i])) /\ (q = LineCount(u) \/ BadLine(Lines(u)[q + 1]))
    BY <1>7, <1>8 DEF L, n
  <2>2. GoodLines(u) = SubSeq(Lines(u), 1, q)
    BY <1>2, <2>1, GoodFacts
  <2> QED BY <2>2 DEF L
<1> DEFINE K == SubSeq(L, 1, q)
           J == SubSeq(K, 1, k)
<1>10. K \in Seq(Seq(Byte)) /\ Len(K) = q /\ \A i \in 1 .. q : K[i] = L[i]
  BY <1>3, <1>8, FirstOf
<1> HIDE DEF K
<1>11. k \in 0 .. Len(K)
  BY <1>5, <1>8, <1>10
<1>12. J \in Seq(Seq(Byte)) /\ Len(J) = k /\ \A i \in 1 .. k : J[i] = K[i]
  BY <1>10, <1>11, FirstOf
<1>13. G \in Seq(Seq(Byte)) /\ Len(G) = k /\ \A i \in 1 .. k : G[i] = Lines(s)[i]
  BY <1>1, FirstLines
<1> HIDE DEF J, G
<1>14. J = G
  <2>1. \A i \in 1 .. k : J[i] = G[i]
    <3>1. \A i \in 1 .. k : i \in 1 .. q
      BY <1>5, <1>8
    <3> QED BY <1>6, <1>10, <1>12, <1>13, <3>1
  <2> QED BY <1>12, <1>13, <2>1, SeqEqual
<1>15. Begins(MessagesIn(J), MessagesIn(K))
  BY <1>10, <1>11, MessagesGrow DEF J
<1>16. Messages(u) = MessagesIn(K)
  BY <1>9 DEF Messages, K
<1>17. MessagesIn(K) \in Seq(Seq(Byte)) /\ MessagesIn(G) \in Seq(Seq(Byte))
  BY <1>10, <1>13, MessagesTyped
<1> QED BY <1>1, <1>14, <1>15, <1>16, <1>17 DEF u

\* The messages of the reply: those before a [DONE].
Spoken == IF AtDone THEN Front(heard) ELSE heard
Payloads(ms) == [i \in DOMAIN ms |-> PayloadOf(ms[i])]

\* As long as the call may still succeed, all messages were chunks and make up
\* the reply, up to a [DONE], behind which nothing is decoded; and the shell waits
\* for curl when it has met it or has heard all there is.
Replied ==
  pc # "returned" \/ result = "ok" =>
    /\ AtDone => pc \in {"reap", "returned"}
    /\ \A i \in DOMAIN Spoken : IsChunk(Spoken[i])
    /\ Collected(asm, Payloads(Spoken))
    /\ pc \in {"reap", "returned"} => AtDone \/ heard = Messages(Received)

LEMMA RepliedInit == Init => Replied
<1> SUFFICES ASSUME Init PROVE Replied
  OBVIOUS
<1>1. heard = <<>> /\ ~AtDone /\ asm = NewAssembly /\ pc = "start"
  BY DEF Init, AtDone
<1>2. Spoken = <<>> /\ DOMAIN <<>> = {}
  BY <1>1 DEF Spoken
<1>3. Payloads(<<>>) = <<>>
  BY DEF Payloads
<1> QED BY <1>1, <1>2, <1>3, CollectedNone DEF Replied

\* One message more.
LEMMA SpokenMore ==
  ASSUME NEW h \in Seq(Seq(Byte)), NEW data \in Seq(Byte)
  PROVE  /\ Append(h, data) # <<>> /\ Last(Append(h, data)) = data /\ Front(Append(h, data)) = h
         /\ Payloads(Append(h, data)) = Append(Payloads(h), PayloadOf(data))
<1> DEFINE m == Len(h)
           g == Append(h, data)
<1>1. m \in Nat /\ DOMAIN h = 1 .. m
  BY LenProperties
<1>2. g \in Seq(Seq(Byte)) /\ Len(g) = m + 1 /\ g[m + 1] = data /\ \A i \in 1 .. m : g[i] = h[i]
  BY AppendProperties
<1>3. DOMAIN g = 1 .. m + 1
  BY <1>2, LenProperties
<1> HIDE DEF g
<1>4. g # <<>> /\ Last(g) = data
  <2>1. m + 1 # 0
    BY <1>1
  <2> QED BY <1>2, <2>1, EmptySeq DEF Last
<1>5. Front(g) = h
  <2>1. Front(g) = SubSeq(g, 1, m)
    <3>1. m + 1 - 1 = m
      BY <1>1
    <3> QED BY <1>2, <3>1 DEF Front
  <2>2. m \in 0 .. Len(g)
    BY <1>1, <1>2
  <2>3. SubSeq(g, 1, m) \in Seq(Seq(Byte)) /\ Len(SubSeq(g, 1, m)) = m /\ \A i \in 1 .. m : SubSeq(g, 1, m)[i] = g[i]
    BY <1>2, <2>2, FirstOf
  <2> DEFINE f == SubSeq(g, 1, m)
  <2> HIDE DEF f
  <2>4. Len(f) = Len(h) /\ (\A i \in 1 .. Len(f) : f[i] = h[i]) /\ f \in Seq(Seq(Byte))
    BY <1>2, <2>3 DEF f
  <2>5. f = h
    BY <2>4, SeqEqual
  <2> QED BY <2>1, <2>5 DEF f
<1>6. Payloads(g) = Append(Payloads(h), PayloadOf(data))
  <2> DEFINE A == {PayloadOf(g[i]) : i \in 1 .. m + 1}
             x == PayloadOf(data)
             p == Payloads(h)
             q == Payloads(g)
  <2>1. (\A i \in 1 .. m : i \in 1 .. m + 1) /\ m + 1 \in 1 .. m + 1 /\ m + 1 \in Nat
    BY <1>1
  <2>2. q \in [1 .. m + 1 -> A] /\ x \in A
    BY <1>2, <1>3, <2>1 DEF Payloads
  <2>3. p \in [1 .. m -> A]
    BY <1>1, <1>2, <2>1 DEF Payloads
  <2>4. q[m + 1] = x /\ \A i \in 1 .. m : q[i] = p[i]
    BY <1>1, <1>2, <1>3, <2>1 DEF Payloads
  <2> HIDE DEF A, x, p, q, m
  <2>5. p \in Seq(A) /\ Len(p) = m
    BY <1>1, <2>3, FunctionIsSeq
  <2>6. q \in Seq(A) /\ Len(q) = m + 1
    BY <2>1, <2>2, FunctionIsSeq
  <2>7. q = Append(p, x)
    BY <2>2, <2>4, <2>5, <2>6, IsAppended
  <2> QED BY <2>7 DEF p, q, x
<1> QED BY <1>4, <1>5, <1>6 DEF g

\* A step that hears nothing.
Going == pc # "returned" \/ result = "ok"
Placed(where, n) ==
  /\ AtDone => where \in {"reap", "returned"}
  /\ where \in {"reap", "returned"} => AtDone \/ heard = Messages(n)

LEMMA RepliedHolds ==
  ASSUME Replied, heard' = heard, asm' = asm, Going' => Going /\ Placed(pc', Received')
  PROVE  Replied'
<1>1. AtDone' = AtDone /\ Spoken' = Spoken
  BY DEF AtDone, Spoken
<1>2. Payloads(Spoken)' = Payloads(Spoken) /\ \A i : IsChunk(Spoken[i])' = IsChunk(Spoken[i])
  BY <1>1 DEF Payloads
<1>3. Collected(asm, Payloads(Spoken))' = Collected(asm, Payloads(Spoken))
  BY <1>1 DEF Payloads
<1>4. ASSUME Going' PROVE Going /\ Placed(pc', Received')
  BY <1>4
<1> QED BY <1>1, <1>3, <1>4 DEF Replied, Going, Placed

LEMMA RepliedNext == TypeOK /\ Told /\ Replied /\ ChunksDoNotMatter /\ [Next]_vars => Replied'
<1> SUFFICES ASSUME TypeOK, Told, Replied, ChunksDoNotMatter, [Next]_vars PROVE Replied'
  OBVIOUS
<1>1. result # "none" <=> pc = "returned"
  BY DEF Told
<1>2. CASE UNCHANGED <<pc, body, fed, asm, heard, result>>
  <2>1. Received' = Received /\ Going' = Going
    BY <1>2 DEF Received, Going
  <2>2. Going => Placed(pc, Received)
    BY DEF Replied, Going, Placed
  <2>3. Going' => Going /\ Placed(pc', Received')
    BY <1>2, <2>1, <2>2
  <2> QED BY <1>2, <2>3, RepliedHolds
<1>3. CASE Unavailable \/ ReadFails \/ WaitFails
  <2>1. heard' = heard /\ asm' = asm /\ ~Going'
    BY <1>3 DEF Unavailable, ReadFails, WaitFails, Return, Going
  <2> QED BY <2>1, RepliedHolds
<1>4. CASE Spawn \/ Send \/ ReadChunk \/ Starve \/ SkipLine
  <2>2. /\ pc \in {"start", "send", "read", "decode"} /\ heard' = heard /\ asm' = asm
        /\ ~Going' \/ pc' \in {"send", "read", "decode"}
    BY <1>4 DEF Spawn, Send, ReadChunk, Starve, SkipLine, Return, Going
  <2>3. ~AtDone /\ Going
    BY <2>2 DEF Replied, Going
  <2>4. Going' => Placed(pc', Received')
    BY <2>2, <2>3 DEF Placed
  <2> QED BY <2>2, <2>3, <2>4, RepliedHolds
<1>5. CASE EndOfBody
  <2>1. pc = "read" /\ heard' = heard /\ asm' = asm /\ pc' = "reap" /\ Received' = Received
    BY <1>5 DEF EndOfBody, Received
  <2>2. heard = Messages(Received) /\ Going
    BY <2>1 DEF ChunksDoNotMatter, Going
  <2>3. Placed(pc', Received')
    BY <2>1, <2>2 DEF Placed
  <2> QED BY <2>1, <2>2, <2>3, RepliedHolds
<1>8. CASE Reap
  <2>1. pc = "reap" /\ heard' = heard /\ asm' = asm /\ pc' = "returned" /\ Received' = Received
    BY <1>8 DEF Reap, Return, Received
  <2>2. AtDone \/ heard = Messages(Received)
    BY <2>1 DEF Replied
  <2>3. Placed(pc', Received') /\ Going
    BY <2>1, <2>2 DEF Placed, Going
  <2> QED BY <2>1, <2>3, RepliedHolds
<1>9. CASE Deliver
  <2> DEFINE data == Message(dec)
  <2>1. /\ pc = "decode" /\ heard' = Append(heard, data)
        /\ \/ IsDone(data) /\ pc' = "reap" /\ asm' = asm
           \/ IsChunk(data) /\ asm' = AbsorbChunk(asm, PayloadOf(data)) /\ pc' = pc
           \/ pc' = "returned" /\ result' = "transport"
    BY <1>9 DEF Deliver, Return
  <2>2. data \in Seq(Byte)
    <3>1. ToSet(dec.buf) \subseteq ToSet(dec.buf) \cup {"D"} /\ "D" \in ToSet(dec.buf) \cup {"D"}
      OBVIOUS
    <3> QED BY <1>9, <3>1, RoundSound DEF Deliver, TypeOK
  <2>3. /\ heard \in Seq(Seq(Byte)) /\ ~AtDone /\ Spoken = heard
        /\ (\A i \in DOMAIN heard : IsChunk(heard[i])) /\ Collected(asm, Payloads(heard))
    BY <2>1 DEF Replied, Spoken, TypeOK
  <2> DEFINE g == Append(heard, data)
  <2> HIDE DEF data
  <2>4. /\ g # <<>> /\ Last(g) = data /\ Front(g) = heard
        /\ Payloads(g) = Append(Payloads(heard), PayloadOf(data))
    BY <2>2, <2>3, SpokenMore
  <2>5. heard' = g
    BY <2>1
  <2> HIDE DEF g
  <2>6. (AtDone)' <=> IsDone(data)
    BY <2>4, <2>5 DEF AtDone
  <2>7. Spoken' = IF IsDone(data) THEN heard ELSE g
    BY <2>4, <2>5, <2>6 DEF Spoken
  <2>8. CASE IsDone(data) /\ pc' = "reap" /\ asm' = asm
    <3>1. Spoken' = heard /\ (AtDone)'
      BY <2>6, <2>7, <2>8
    <3>2. Collected(asm, Payloads(Spoken))'
      <4>1. (asm' = asm) /\ Payloads(Spoken)' = Payloads(heard)
        BY <2>8, <3>1 DEF Payloads
      <4> QED BY <2>3, <4>1
    <3> QED BY <2>3, <2>8, <3>1, <3>2 DEF Replied
  <2>9. CASE IsChunk(data) /\ asm' = AbsorbChunk(asm, PayloadOf(data)) /\ pc' = pc
    <3>1. ~IsDone(data) /\ PayloadOf(data) \in Chunk
      BY <2>9, PayloadFacts
    <3>2. Spoken' = g /\ ~(AtDone)'
      BY <2>6, <2>7, <3>1
    <3>3. asm' \in Assembly
      BY <2>9, ChunkTyped DEF TypeOK
    <3>4. Collected(asm', Append(Payloads(heard), PayloadOf(data)))
      BY <2>3, <2>9, <3>1, <3>3, CollectedMore
    <3>5. Collected(asm, Payloads(Spoken))'
      <4>1. Payloads(Spoken)' = Payloads(g)
        BY <3>2 DEF Payloads
      <4> QED BY <2>4, <3>4, <4>1
    <3>6. \A i \in DOMAIN g : IsChunk(g[i])
      <4>1. /\ DOMAIN g = 1 .. Len(heard) + 1 /\ g[Len(heard) + 1] = data
            /\ \A i \in 1 .. Len(heard) : g[i] = heard[i]
        <5>1. g \in Seq(Seq(Byte)) /\ Len(g) = Len(heard) + 1 /\ g[Len(heard) + 1] = data
              /\ \A i \in 1 .. Len(heard) : g[i] = heard[i]
          BY <2>2, <2>3, AppendProperties DEF g
        <5> QED BY <5>1, LenProperties
      <4>2. Len(heard) \in Nat /\ DOMAIN heard = 1 .. Len(heard)
        BY <2>3, LenProperties
      <4>3. \A i \in 1 .. Len(heard) + 1 : i \in 1 .. Len(heard) \/ i = Len(heard) + 1
        BY <4>2
      <4> QED BY <2>3, <2>9, <4>1, <4>2, <4>3
    <3>7. pc' = "decode"
      BY <2>1, <2>9
    <3> QED BY <3>2, <3>5, <3>6, <3>7 DEF Replied
  <2>10. CASE pc' = "returned" /\ result' = "transport"
    BY <2>10 DEF Replied
  <2> QED BY <2>1, <2>8, <2>9, <2>10
<1>10. CASE CurlWrite \/ CurlEnd \/ CurlEpipe \/ CurlFails \/ UNCHANGED vars
  <2>1. UNCHANGED <<pc, body, fed, asm, heard, result>>
    BY <1>10 DEF CurlWrite, CurlEnd, CurlEpipe, CurlFails, shell, vars
  <2> QED BY <1>2, <2>1
<1> QED BY <1>3, <1>4, <1>5, <1>8, <1>9, <1>10 DEF Next, Shell, Answer

\* When call succeeds, what was heard is a beginning of the messages of the whole
\* body, which ends at its first [DONE], or all of them when there is none.
LEMMA SpokenIs ==
  ASSUME TypeOK, Curl, Told, Decoded, Replied, result = "ok"
  PROVE  UpToDone(Messages(body.bytes)) = Spoken
<1> DEFINE ms == Messages(body.bytes)
           m == Len(heard)
<1>1. /\ body.bytes \in Seq(Byte) /\ Len(body.bytes) \in Nat /\ fed \in Nat /\ fed <= Len(body.bytes)
      /\ Received \in Seq(Byte) /\ heard \in Seq(Seq(Byte)) /\ m \in Nat /\ DOMAIN heard = 1 .. m
  BY BytesTyped, LenProperties DEF TypeOK
<1>2. /\ pc = "returned" /\ child = "exited" /\ exit = 0 /\ Read /\ dec.error = "none"
      /\ Len(body.bytes) = written
  BY DEF Told, Curl, Whole, Decoded
<1>3. /\ \A i \in DOMAIN Spoken : IsChunk(Spoken[i])
      /\ AtDone \/ heard = Messages(Received)
  BY <1>2 DEF Replied
<1>4. ASSUME NEW i \in DOMAIN Spoken PROVE ~IsDone(Spoken[i])
  BY <1>3, PayloadFacts
<1>5. CASE ~AtDone
  <2>1. fed = Len(body.bytes) /\ Spoken = heard /\ heard = Messages(Received)
    BY <1>2, <1>3, <1>5 DEF Read, Spoken
  <2>2. Received = body.bytes
    BY <1>1, <2>1, SubSeqFull DEF Received
  <2>3. m \in 0 .. m /\ \A i \in 1 .. m : ~IsDone(heard[i])
    <3>1. \A i \in DOMAIN heard : ~IsDone(heard[i])
      BY <1>4, <2>1
    <3> HIDE DEF m
    <3>2. m \in Nat /\ DOMAIN heard = 1 .. m
      BY <1>1
    <3>3. \A i \in 1 .. m : ~IsDone(heard[i])
      BY <3>1, <3>2, Zenon
    <3>4. m \in 0 .. m
      BY <3>2
    <3> QED BY <3>3, <3>4
  <2>4. UpToDone(heard) = SubSeq(heard, 1, m)
    BY <1>1, <2>3, UpToDoneIs
  <2>5. SubSeq(heard, 1, m) = heard
    BY <1>1, SubSeqFull
  <2> QED BY <2>1, <2>2, <2>4, <2>5
<1>6. CASE AtDone
  <2> DEFINE rest == SubSeq(body.bytes, fed + 1, Len(body.bytes))
             n == m - 1
  <2>1. Spoken = SubSeq(heard, 1, n) /\ heard # <<>> /\ IsDone(heard[m])
    BY <1>6 DEF AtDone, Spoken, Front, Last
  <2>2. m >= 1
    BY <1>1, <2>1, EmptySeq
  <2>3. n \in 0 .. m /\ n + 1 = m /\ n \in Nat
    BY <1>1, <2>2
  <2>4. SubSeq(heard, 1, n) \in Seq(Seq(Byte)) /\ Len(SubSeq(heard, 1, n)) = n
        /\ \A i \in 1 .. n : SubSeq(heard, 1, n)[i] = heard[i]
    BY <1>1, <2>3, FirstOf
  <2>5. DOMAIN Spoken = 1 .. n /\ Spoken \in Seq(Seq(Byte)) /\ Len(Spoken) = n
        /\ \A i \in 1 .. n : Spoken[i] = heard[i]
    BY <2>1, <2>4, LenProperties
  <2>6. Received \o rest = body.bytes
    <3> DEFINE z == 0
               N == Len(body.bytes)
    <3>3. z \in Nat /\ z <= fed /\ N \in Nat /\ fed <= N /\ N <= Len(body.bytes) /\ z + 1 = 1
      BY <1>1
    <3> HIDE DEF z, N
    <3>4. SubSeq(body.bytes, z + 1, fed) \o SubSeq(body.bytes, fed + 1, N) = SubSeq(body.bytes, z + 1, N)
      BY <1>1, <3>3, PartsJoin
    <3>1. SubSeq(body.bytes, 1, fed) \o rest = SubSeq(body.bytes, 1, Len(body.bytes))
      BY <3>3, <3>4 DEF N
    <3>2. SubSeq(body.bytes, 1, Len(body.bytes)) = body.bytes
      BY <1>1, SubSeqFull
    <3> QED BY <3>1, <3>2 DEF Received
  <2>7. rest \in Seq(Byte)
    <3>1. fed + 1 \in Nat \ {0} /\ Len(body.bytes) \in Int /\ Len(body.bytes) <= Len(body.bytes)
      BY <1>1
    <3> QED BY <1>1, <3>1, PartOf
  <2> HIDE DEF rest
  <2>8. PICK k : AtLine(Received, dec, heard, k)
    BY <1>2 DEF Decoded
  <2>9. Begins(heard, Messages(Received \o rest)) /\ Messages(Received \o rest) \in Seq(Seq(Byte))
    BY <1>1, <2>7, <2>8, HeardBegins
  <2>10. Begins(heard, ms) /\ ms \in Seq(Seq(Byte))
    BY <2>6, <2>9
  <2> HIDE DEF ms
  <2>11. Len(ms) \in Nat /\ m <= Len(ms) /\ \A i \in 1 .. m : ms[i] = heard[i]
    BY <2>10, LenProperties DEF Begins
  <2>12. n \in 0 .. Len(ms) /\ \A i \in 1 .. n : i \in 1 .. m
    BY <1>1, <2>3, <2>11
  <2>13. \A i \in 1 .. n : ~IsDone(ms[i])
    BY <1>4, <2>5, <2>11, <2>12
  <2>14. IsDone(ms[n + 1])
    <3>1. m \in 1 .. m
      BY <1>1, <2>2
    <3> QED BY <2>1, <2>3, <2>11, <3>1
  <2> HIDE DEF n
  <2>15. UpToDone(ms) = SubSeq(ms, 1, n)
    BY <2>10, <2>12, <2>13, <2>14, UpToDoneIs
  <2>16. SubSeq(ms, 1, n) \in Seq(Seq(Byte)) /\ Len(SubSeq(ms, 1, n)) = n
         /\ \A i \in 1 .. n : SubSeq(ms, 1, n)[i] = ms[i]
    BY <2>10, <2>12, FirstOf
  <2>17. \A i \in 1 .. n : SubSeq(ms, 1, n)[i] = Spoken[i]
    BY <2>5, <2>11, <2>12, <2>16
  <2> DEFINE first == SubSeq(ms, 1, n)
             said == Spoken
  <2>18. /\ first \in Seq(Seq(Byte)) /\ said \in Seq(Seq(Byte)) /\ Len(first) = n /\ Len(said) = n
         /\ \A i \in 1 .. n : first[i] = said[i]
    BY <2>5, <2>16, <2>17
  <2> HIDE DEF first, said
  <2>19. first = said
    BY <2>18, SeqEqual
  <2> QED BY <2>15, <2>19 DEF first, said, ms
<1> QED BY <1>5, <1>6

\* A reply that was heard in full and collected is the one the server streamed.
LEMMA RepliedEchoes == TypeOK /\ Curl /\ Told /\ Decoded /\ Replied => ReplyEchoesStream
<1> SUFFICES ASSUME TypeOK, Curl, Told, Decoded, Replied, result = "ok"
             PROVE  ReplyEchoesStream
  BY DEF ReplyEchoesStream
<1> DEFINE ms == UpToDone(Messages(body.bytes))
           cs == Payloads(ms)
           text == FlattenSeq(Contents(cs))
           calls == CallsIn(DeltasOf(cs))
<1>1. ms = Spoken
  BY SpokenIs
<1>2. /\ \A i \in DOMAIN ms : IsChunk(ms[i])
      /\ Collected(asm, cs)
  BY <1>1 DEF Replied
<1> HIDE DEF cs
<1>3. /\ Assistant(asm).calls = calls
      /\ Assistant(asm).content = IF calls # <<>> /\ text = <<>> THEN Null ELSE text
  BY <1>2, AssistantIs
<1>4. cs = [i \in DOMAIN ms |-> PayloadOf(ms[i])] /\ text = FlattenSeq([i \in DOMAIN cs |-> cs[i].content])
  BY DEF cs, Payloads, Contents
<1> QED BY <1>2, <1>3, <1>4 DEF ReplyEchoesStream

\* What call returns is what the server streamed, call by call and up to its
\* [DONE], however the bytes came in.
THEOREM ReplyIsStream == Spec => []ReplyEchoesStream
<1>1. Init => Decoded /\ Replied
  BY DecodedInit, RepliedInit
<1>2. IInv /\ Decoded /\ [Next]_vars => Decoded'
  BY DecodedNext DEF IInv
<1>3. IInv /\ ChunksDoNotMatter /\ Replied /\ [Next]_vars => Replied'
  BY RepliedNext DEF IInv
<1>4. IInv /\ Decoded /\ Replied => ReplyEchoesStream
  BY RepliedEchoes DEF IInv
<1> QED BY <1>1, <1>2, <1>3, <1>4, Invariance, ChunksAreOne, PTL DEF Spec
=============================================================================
