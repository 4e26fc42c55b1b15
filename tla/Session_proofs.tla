--------------------------- MODULE Session_proofs ---------------------------
(***************************************************************************)
(* Proofs about the files of a session directory.  First SessionLock, for  *)
(* any pids: exclusion without overlapping opens, what Drop removes, and   *)
(* that a process alone with the session is not refused.  Then             *)
(* ConversationLog: what appending a line, cutting the front off and       *)
(* asking for less do to Picked, the filter every reader is made of,       *)
(* which stamps stand where in the file, and that each step is a step of   *)
(* SummarisedList.                                                         *)
(***************************************************************************)
EXTENDS SessionLock, ConversationLog, SequenceTheorems, FiniteSetTheorems, WellFoundedInduction, TLAPS

(***************************************************************************)
(* SessionLock: what holds of the LOCK.                                    *)
(***************************************************************************)
\* The retry is counted where it is due.
Counting ==
  \A p \in Procs : /\ at[p] = "create" => tries[p] <= 1
                   /\ at[p] \in {"read", "probe", "remove"} => tries[p] = 1

\* One process opens at a time; a holder's LOCK is its own and readable; who
\* inspects it read the holder's pid, and nobody is about to remove it.
Undisturbed ==
  /\ \A p, q \in Procs : at[p] \in Opening /\ at[q] \in Opening => p = q
  /\ \A h \in Holders : lock = {h} /\ body = {h}
  /\ \A p \in Procs : at[p] = "write" => lock = {p} /\ Holders = {}
  /\ \A p \in Procs, h \in Holders : /\ at[p] = "probe" => seen[p] = {h}
                                     /\ at[p] # "remove"

\* A process alone with the session finds no LOCK a live process is named in,
\* and none at all once it has removed one.
Lone(p) ==
  /\ Running \subseteq {p} /\ body \cap foreign = {} /\ at[p] # "refused"
  /\ at[p] \in {"create", "read", "probe", "remove"} => p \notin body
  /\ at[p] = "probe" => seen[p] \subseteq body
  /\ at[p] = "create" /\ tries[p] = 1 => lock = {}

LockInv ==
  /\ LockTypeOK /\ Counting
  /\ ~overlap => Undisturbed
  /\ \A p \in alone : Lone(p)

-----------------------------------------------------------------------------
\* No process, no file.
LEMMA LockInvInit == LockInit => LockInv
<1> SUFFICES ASSUME LockInit PROVE LockInv
  OBVIOUS
<1>1. \A p \in Procs : at[p] = "idle" /\ tries[p] = 0 /\ seen[p] = {}
  BY DEF LockInit
<1>2. LockTypeOK
  <2>1. /\ at \in [Procs -> PC] /\ tries \in [Procs -> 0 .. 2] /\ seen \in [Procs -> SUBSET Procs]
        /\ starts \in 0 .. MaxStarts
    BY StartsAssumption DEF LockInit, PC
  <2>2. lock = {} /\ body = {} /\ foreign = {} /\ overlap = FALSE /\ alone = {}
    BY DEF LockInit
  <2> QED BY <2>1, <2>2 DEF LockTypeOK
<1>3. Counting /\ Undisturbed
  BY <1>1 DEF Counting, Undisturbed, Opening, Holders
<1>4. alone = {}
  BY DEF LockInit
<1> QED BY <1>2, <1>3, <1>4 DEF LockInv

\* The type invariant and the retry count are inductive together.
LEMMA LockTypeNext ==
  ASSUME LockTypeOK, Counting, [LockNext]_lockVars
  PROVE  LockTypeOK' /\ Counting'
<1> USE StartsAssumption DEF LockTypeOK, Counting, PC, Opening, Goto, lockFile, hist
<1>1. ASSUME NEW p \in Procs, Start(p) PROVE LockTypeOK' /\ Counting'
  BY <1>1 DEF Start, Alive, Running
<1>2. ASSUME NEW p \in Procs, CreateLock(p) \/ WriteBody(p) \/ RemoveStale(p)
      PROVE  LockTypeOK' /\ Counting'
  BY <1>2 DEF CreateLock, WriteBody, RemoveStale, Running
<1>3. ASSUME NEW p \in Procs, LockTaken(p) PROVE LockTypeOK' /\ Counting'
  BY <1>3 DEF LockTaken, Running
<1>4. ASSUME NEW p \in Procs, ReadLock(p) \/ Probe(p) PROVE LockTypeOK' /\ Counting'
  BY <1>4 DEF ReadLock, Probe, Running
<1>5. ASSUME NEW p \in Procs, DropLock(p) \/ Refused(p) \/ Crash(p) PROVE LockTypeOK' /\ Counting'
  BY <1>5 DEF DropLock, Refused, Crash, Running
<1>6. ASSUME NEW p \in Procs, OtherStarts(p) \/ OtherEnds(p) PROVE LockTypeOK' /\ Counting'
  BY <1>6 DEF OtherStarts, OtherEnds, Alive, Running
<1>7. CASE UNCHANGED lockVars
  BY <1>7 DEF lockVars, Running
<1> QED BY <1>1, <1>2, <1>3, <1>4, <1>5, <1>6, <1>7 DEF LockNext, Acquire, Environment

\* Exclusion: the O_EXCL of the one process that is opening meets either no
\* LOCK or the holder's, whose pid it reads and finds alive.
LEMMA UndisturbedNext ==
  ASSUME LockTypeOK, ~overlap => Undisturbed, [LockNext]_lockVars, ~overlap'
  PROVE  Undisturbed'
<1> USE DEF LockTypeOK, Undisturbed, Opening, Holders, Goto, lockFile, hist
<1>1. ASSUME NEW p \in Procs, Start(p) PROVE Undisturbed'
  <2>1. /\ Undisturbed /\ \A q \in Procs : at[q] \notin Opening
        /\ p \notin Running /\ UNCHANGED lockFile
    BY <1>1 DEF Start, Alive
  <2>2. at[p] = "idle" /\ at' = [at EXCEPT ![p] = "create"]
    BY <1>1, <2>1 DEF Start, Running
  <2>3. /\ Holders' = Holders
        /\ \A q \in Procs : at'[q] \in Opening => q = p /\ at'[q] = "create"
    BY <2>1, <2>2
  <2> HIDE DEF Holders
  <2> QED BY <2>1, <2>3
<1>2. ASSUME NEW p \in Procs, CreateLock(p) PROVE Undisturbed'
  BY <1>2 DEF CreateLock
<1>3. ASSUME NEW p \in Procs, LockTaken(p) \/ ReadLock(p) PROVE Undisturbed'
  BY <1>3 DEF LockTaken, ReadLock
<1>4. ASSUME NEW p \in Procs, Probe(p) PROVE Undisturbed'
  BY <1>4 DEF Probe, Alive, Running
<1>5. ASSUME NEW p \in Procs, RemoveStale(p) PROVE Undisturbed'
  BY <1>5 DEF RemoveStale
<1>6. ASSUME NEW p \in Procs, WriteBody(p) PROVE Undisturbed'
  BY <1>6 DEF WriteBody
<1>7. ASSUME NEW p \in Procs, DropLock(p) PROVE Undisturbed'
  BY <1>7 DEF DropLock
<1>8. ASSUME NEW p \in Procs, Refused(p) \/ Environment(p) PROVE Undisturbed'
  BY <1>8 DEF Refused, Environment, Crash, OtherStarts, OtherEnds
<1>9. CASE UNCHANGED lockVars
  BY <1>9 DEF lockVars
<1> QED BY <1>1, <1>2, <1>3, <1>4, <1>5, <1>6, <1>7, <1>8, <1>9 DEF LockNext, Acquire

\* Recovery: what a process alone with the session reads is stale, and once it
\* has removed the LOCK nobody creates another.
LEMMA LoneNext ==
  ASSUME LockTypeOK, Counting, \A p \in alone : Lone(p), [LockNext]_lockVars, NEW a \in alone'
  PROVE  Lone(a)'
<1> USE DEF LockTypeOK, Counting, Lone, Running, Goto, lockFile, hist
<1>1. ASSUME NEW p \in Procs, Start(p) PROVE Lone(a)'
  BY <1>1 DEF Start, Alive
<1>2. ASSUME NEW p \in Procs, CreateLock(p) \/ RemoveStale(p) PROVE Lone(a)'
  BY <1>2 DEF CreateLock, RemoveStale
<1>3. ASSUME NEW p \in Procs, LockTaken(p) PROVE Lone(a)'
  BY <1>3 DEF LockTaken
<1>4. ASSUME NEW p \in Procs, ReadLock(p) PROVE Lone(a)'
  BY <1>4 DEF ReadLock
<1>5. ASSUME NEW p \in Procs, Probe(p) PROVE Lone(a)'
  BY <1>5 DEF Probe, Alive
<1>6. ASSUME NEW p \in Procs, WriteBody(p) PROVE Lone(a)'
  BY <1>6 DEF WriteBody
<1>7. ASSUME NEW p \in Procs, DropLock(p) \/ Refused(p) \/ Crash(p) PROVE Lone(a)'
  BY <1>7 DEF DropLock, Refused, Crash
<1>8. ASSUME NEW p \in Procs, OtherStarts(p) \/ OtherEnds(p) PROVE Lone(a)'
  BY <1>8 DEF OtherStarts, OtherEnds
<1>9. CASE UNCHANGED lockVars
  BY <1>9 DEF lockVars
<1> QED BY <1>1, <1>2, <1>3, <1>4, <1>5, <1>6, <1>7, <1>8, <1>9 DEF LockNext, Acquire, Environment

\* The inductive invariant holds in every reachable state.
THEOREM LockInvariance == LockSpec => []LockInv
<1>1. LockInv /\ [LockNext]_lockVars => LockInv'
  BY LockTypeNext, UndisturbedNext, LoneNext DEF LockInv
<1> QED BY <1>1, LockInvInit, PTL DEF LockSpec

\* Types hold, and no open inspects the LOCK more than twice.
THEOREM LockTypeCorrect == LockSpec => []LockTypeOK
<1>1. LockInv => LockTypeOK
  BY DEF LockInv
<1> QED BY <1>1, LockInvariance, PTL

\* Crashes, stale LOCKs and reused pids never break exclusion by themselves:
\* it takes two processes opening at the same time.
THEOREM Exclusion == LockSpec => []ExclusiveUnlessOverlap
<1>1. LockInv => ExclusiveUnlessOverlap
  BY DEF LockInv, ExclusiveUnlessOverlap, Exclusive, Undisturbed
<1> QED BY <1>1, LockInvariance, PTL

\* Whatever a crash left at LOCK, a process alone with the session gets it.
THEOREM Recovery == LockSpec => []StaleNeverRefuses
<1>1. LockInv => StaleNeverRefuses
  BY DEF LockInv, StaleNeverRefuses, Lone
<1> QED BY <1>1, LockInvariance, PTL

\* Without overlapping opens, Drop unlinks the LOCK its own process created.
THEOREM DropIsOwn == LockSpec => DropRemovesOwn
<1>1. LockInv => [\A p \in Procs : DropLock(p) /\ ~overlap => lock = {p}]_lockVars
  BY DEF LockInv, Undisturbed, Holders, DropLock
<1> QED BY <1>1, LockInvariance, PTL DEF DropRemovesOwn

-----------------------------------------------------------------------------
(***************************************************************************)
(* ConversationLog: the filter.                                            *)
(***************************************************************************)
\* Induction over the naturals, for a set of them.
LEMMA SetInduction ==
  ASSUME NEW S, 0 \in S, \A n \in Nat : n \in S => n + 1 \in S
  PROVE  \A n \in Nat : n \in S
<1> DEFINE T == Nat \ S
<1>1. SUFFICES ASSUME T # {} PROVE FALSE  BY <1>1
<1>2. PICK x \in T : \A y \in T : <<y, x>> \notin OpToRel(<, Nat)
  <2> HIDE DEF T
  <2>1. T \subseteq Nat  BY DEF T
  <2> QED  BY <1>1, <2>1, NatLessThanWellFounded, WFMin, Zenon
<1>3. x \in Nat /\ x # 0 /\ x - 1 \in Nat  OBVIOUS
<1>4. x - 1 \notin T
  <2>1. <<x - 1, x>> \in OpToRel(<, Nat)  BY <1>3 DEF OpToRel
  <2> QED  BY <1>2, <2>1
<1>5. x \in S
  <2>1. x - 1 \in S  BY <1>3, <1>4
  <2>2. (x - 1) + 1 \in S  BY <1>3, <2>1
  <2> QED  BY <1>3, <2>2
<1> QED  BY <1>5

\* The function the filter is defined by exists.
Picking(l, ok, f) ==
  /\ f = [n \in 0 .. Len(l) |->
            IF n = 0 THEN <<>> ELSE IF l[n] \in ok THEN Append(f[n - 1], l[n]) ELSE f[n - 1]]

LEMMA PickingExists ==
  ASSUME NEW T, NEW l \in Seq(T), NEW ok
  PROVE  \E f : Picking(l, ok, f)
<1> DEFINE Step(f, k) ==
      f = [n \in 0 .. k |->
             IF n = 0 THEN <<>> ELSE IF l[n] \in ok THEN Append(f[n - 1], l[n]) ELSE f[n - 1]]
           S == {k \in Nat : \E f : Step(f, k)}
<1>1. 0 \in S
  <2>1. Step([n \in 0 .. 0 |-> <<>>], 0)  OBVIOUS
  <2> QED  BY <2>1
<1>2. ASSUME NEW k \in Nat, k \in S PROVE k + 1 \in S
  <2>1. PICK f : Step(f, k)  BY <1>2
  <2> DEFINE g == [n \in 0 .. k + 1 |->
        IF n <= k THEN f[n] ELSE IF l[n] \in ok THEN Append(f[k], l[n]) ELSE f[k]]
  <2>2. Step(g, k + 1)
    <3>1. ASSUME NEW n \in 0 .. k + 1
          PROVE  g[n] = IF n = 0 THEN <<>>
                        ELSE IF l[n] \in ok THEN Append(g[n - 1], l[n]) ELSE g[n - 1]
      <4>1. CASE n = 0  BY <2>1, <4>1
      <4>2. CASE n # 0 /\ n <= k
        <5>1. n - 1 \in 0 .. k + 1 /\ n - 1 <= k /\ n \in 0 .. k  BY <4>2
        <5>2. f[n] = IF l[n] \in ok THEN Append(f[n - 1], l[n]) ELSE f[n - 1]
          BY <2>1, <4>2, <5>1
        <5> QED  BY <4>2, <5>1, <5>2
      <4>3. CASE n = k + 1  BY <4>3
      <4> QED  BY <4>1, <4>2, <4>3
    <3> HIDE DEF g
    <3>2. g = [n \in 0 .. k + 1 |-> g[n]]  BY DEF g
    <3> QED  BY <3>1, <3>2
  <2> HIDE DEF g, Step
  <2> QED  BY <2>2
<1>3. Len(l) \in S
  <2> HIDE DEF S
  <2>1. \A n \in Nat : n \in S  BY <1>1, <1>2, SetInduction
  <2> QED  BY <2>1
<1> QED  BY <1>3 DEF Picking

\* The filter as a chain of results, one for each line read.
LEMMA PickedSteps ==
  ASSUME NEW T, NEW l \in Seq(T), NEW ok
  PROVE  \E f : /\ f[0] = <<>>
                /\ \A n \in 1 .. Len(l) :
                     f[n] = IF l[n] \in ok THEN Append(f[n - 1], l[n]) ELSE f[n - 1]
                /\ Picked(l, ok) = f[Len(l)]
<1> DEFINE f == CHOOSE f : Picking(l, ok, f)
<1>1. Picking(l, ok, f)  BY PickingExists
<1>2. Picked(l, ok) = f[Len(l)]  BY DEF Picked, Picking
<1> HIDE DEF f
<1>3. \A n \in 0 .. Len(l) : 
        f[n] = IF n = 0 THEN <<>> ELSE IF l[n] \in ok THEN Append(f[n - 1], l[n]) ELSE f[n - 1]
  BY <1>1 DEF Picking
<1> QED  BY <1>2, <1>3

\* Induction over sequences, for a set of them.
LEMMA SeqInduction ==
  ASSUME NEW T, NEW P, <<>> \in P, \A l \in Seq(T) : \A x \in T : l \in P => Append(l, x) \in P
  PROVE  \A l \in Seq(T) : l \in P
<1> DEFINE S == {n \in Nat : \A l \in Seq(T) : Len(l) = n => l \in P}
<1>1. 0 \in S
  <2>1. \A l \in Seq(T) : Len(l) = 0 => l = <<>>  BY EmptySeq
  <2> QED  BY <2>1
<1>2. ASSUME NEW n \in Nat, n \in S PROVE n + 1 \in S
  <2>1. ASSUME NEW l \in Seq(T), Len(l) = n + 1 PROVE l \in P
    <3>1. l # <<>>  BY <2>1, EmptySeq
    <3>2. PICK s \in Seq(T), x \in T : l = Append(s, x)  BY <3>1, SequenceEmptyOrAppend
    <3>3. Len(s) = n  BY <2>1, <3>2, AppendProperties
    <3>4. s \in P  BY <1>2, <3>3
    <3> QED  BY <3>2, <3>4
  <2> QED  BY <2>1
<1>3. \A n \in Nat : n \in S
  <2> HIDE DEF S
  <2> QED  BY <1>1, <1>2, SetInduction
<1> QED  BY <1>3, LenProperties

\* An empty file.
LEMMA PickedEmpty ==
  ASSUME NEW ok
  PROVE  Picked(<<>>, ok) = <<>>
<1>1. <<>> \in Seq({}) /\ Len(<<>>) = 0  BY EmptySeq
<1>2. PICK f : f[0] = <<>> /\ Picked(<<>>, ok) = f[Len(<<>>)]
  <2> DEFINE l == <<>>
  <2>1. l \in Seq({})  BY <1>1
  <2> HIDE DEF l
  <2>2. \E f : f[0] = <<>> /\ Picked(l, ok) = f[Len(l)]  BY <2>1, PickedSteps
  <2> QED  BY <2>2 DEF l
<1> QED  BY <1>1, <1>2

\* One line more.
LEMMA PickedAppend ==
  ASSUME NEW T, NEW l \in Seq(T), NEW x \in T, NEW ok
  PROVE  Picked(Append(l, x), ok) = IF x \in ok THEN Append(Picked(l, ok), x) ELSE Picked(l, ok)
<1> DEFINE m == Append(l, x)
<1>1. /\ m \in Seq(T) /\ Len(m) = Len(l) + 1 /\ m[Len(l) + 1] = x
      /\ Len(l) \in Nat
      /\ \A i \in 1 .. Len(l) : m[i] = l[i]
  BY AppendProperties, LenProperties
<1> HIDE DEF m
<1>2. PICK f : /\ f[0] = <<>>
               /\ \A n \in 1 .. Len(l) :
                    f[n] = IF l[n] \in ok THEN Append(f[n - 1], l[n]) ELSE f[n - 1]
               /\ Picked(l, ok) = f[Len(l)]
  BY PickedSteps
<1>3. PICK g : /\ g[0] = <<>>
               /\ \A n \in 1 .. Len(m) :
                    g[n] = IF m[n] \in ok THEN Append(g[n - 1], m[n]) ELSE g[n - 1]
               /\ Picked(m, ok) = g[Len(m)]
  BY <1>1, PickedSteps
<1> DEFINE S == {n \in Nat : n <= Len(l) => g[n] = f[n]}
<1>4. 0 \in S  BY <1>2, <1>3
<1>5. ASSUME NEW n \in Nat, n \in S PROVE n + 1 \in S
  <2>1. SUFFICES ASSUME n + 1 <= Len(l) PROVE g[n + 1] = f[n + 1]  OBVIOUS
  <2>2. n + 1 \in 1 .. Len(l) /\ n + 1 \in 1 .. Len(m) /\ (n + 1) - 1 = n /\ n <= Len(l)
    BY <1>1, <2>1
  <2>3. g[n] = f[n] /\ m[n + 1] = l[n + 1]  BY <1>1, <1>5, <2>2
  <2> QED  BY <1>2, <1>3, <2>2, <2>3
<1>6. Len(l) \in S
  <2> HIDE DEF S
  <2> QED  BY <1>1, <1>4, <1>5, SetInduction
<1>7. g[Len(m)] = IF x \in ok THEN Append(g[Len(l)], x) ELSE g[Len(l)]  BY <1>1, <1>3
<1> QED  BY <1>2, <1>3, <1>6, <1>7 DEF m

\* The result is made of lines that are in ok.
LEMMA PickedTyped ==
  ASSUME NEW T, NEW ok, NEW l \in Seq(T)
  PROVE  Picked(l, ok) \in Seq(T \cap ok)
<1> DEFINE P == {k \in Seq(T) : Picked(k, ok) \in Seq(T \cap ok)}
<1>1. <<>> \in P  BY PickedEmpty, EmptySeq
<1>2. ASSUME NEW k \in Seq(T), NEW x \in T, k \in P PROVE Append(k, x) \in P
  <2>1. Append(k, x) \in Seq(T) /\ Picked(k, ok) \in Seq(T \cap ok)  BY <1>2, AppendProperties
  <2>2. x \in ok => Append(Picked(k, ok), x) \in Seq(T \cap ok)  BY <2>1, AppendProperties
  <2> QED  BY <2>1, <2>2, PickedAppend
<1> HIDE DEF P
<1>3. l \in P  BY <1>1, <1>2, SeqInduction
<1> QED  BY <1>3 DEF P

\* Every line of the result is a line of l that is in ok.
LEMMA PickedFrom ==
  ASSUME NEW T, NEW ok, NEW l \in Seq(T)
  PROVE  \A i \in DOMAIN Picked(l, ok) : \E j \in DOMAIN l : l[j] = Picked(l, ok)[i] /\ l[j] \in ok
<1> DEFINE R(k) == {k[j] : j \in DOMAIN k}
           P == {k \in Seq(T) : R(Picked(k, ok)) \subseteq R(k) \cap ok}
<1>1. <<>> \in P  BY PickedEmpty, EmptySeq
<1>2. ASSUME NEW k \in Seq(T), NEW x \in T, k \in P PROVE Append(k, x) \in P
  <2>1. \A A : \A s \in Seq(A) : \A y \in A : R(Append(s, y)) = R(s) \cup {y}
    <3> TAKE A
    <3> TAKE s \in Seq(A)
    <3> TAKE y \in A
    <3>1. Append(s, y) \in Seq(A) /\ Len(Append(s, y)) = Len(s) + 1 /\ Len(s) \in Nat
      BY AppendProperties, LenProperties
    <3>2. DOMAIN s = 1 .. Len(s) /\ DOMAIN Append(s, y) = 1 .. Len(s) + 1
      BY <3>1, LenProperties
    <3>3. (\A i \in 1 .. Len(s) : Append(s, y)[i] = s[i]) /\ Append(s, y)[Len(s) + 1] = y
      BY AppendProperties
    <3> QED  BY <3>1, <3>2, <3>3
  <2>2. Append(k, x) \in Seq(T) /\ Picked(k, ok) \in Seq(T)
    <3>1. Picked(k, ok) \in Seq(T \cap ok) /\ T \cap ok \subseteq T  BY PickedTyped
    <3>2. Picked(k, ok) \in Seq(T)  BY <3>1, SeqMonotonic
    <3> QED  BY <3>2, AppendProperties
  <2>3. R(Append(k, x)) = R(k) \cup {x} /\ R(Append(Picked(k, ok), x)) = R(Picked(k, ok)) \cup {x}
    <3> HIDE DEF R
    <3> QED  BY <2>1, <2>2
  <2>4. R(Picked(k, ok)) \subseteq R(k) \cap ok  BY <1>2
  <2> HIDE DEF R
  <2>5. R(Picked(Append(k, x), ok)) \subseteq R(Append(k, x)) \cap ok
    <3>1. CASE x \in ok
      <4>1. Picked(Append(k, x), ok) = Append(Picked(k, ok), x)  BY <3>1, PickedAppend
      <4> QED  BY <2>3, <2>4, <3>1, <4>1
    <3>2. CASE x \notin ok
      <4>1. Picked(Append(k, x), ok) = Picked(k, ok)  BY <3>2, PickedAppend
      <4> QED  BY <2>3, <2>4, <4>1
    <3> QED  BY <3>1, <3>2
  <2> QED  BY <2>2, <2>5
<1>3. l \in P
  <2> HIDE DEF P
  <2> QED  BY <1>1, <1>2, SeqInduction
<1> QED  BY <1>3

\* A suffix of a sequence that has one element more.
LEMMA AppendSubSeq ==
  ASSUME NEW T, NEW l \in Seq(T), NEW x \in T, NEW k \in 1 .. Len(l) + 1
  PROVE  SubSeq(Append(l, x), k, Len(l) + 1) = Append(SubSeq(l, k, Len(l)), x)
<1> DEFINE a == SubSeq(Append(l, x), k, Len(l) + 1)
           b == SubSeq(l, k, Len(l))
<1>1. /\ Len(l) \in Nat /\ Append(l, x) \in Seq(T) /\ Len(Append(l, x)) = Len(l) + 1
      /\ \A i \in 1 .. Len(l) : Append(l, x)[i] = l[i]
      /\ Append(l, x)[Len(l) + 1] = x
  BY AppendProperties, LenProperties
<1>2. \A i \in 1 .. Len(l) + 1 : Append(l, x)[i] \in T  BY <1>1, ElementOfSeq
<1>3. /\ a \in Seq(T) /\ Len(a) = Len(l) + 2 - k
      /\ \A i \in 1 .. Len(l) + 2 - k : a[i] = Append(l, x)[k + i - 1]
  <2>1. \A i \in k .. Len(l) + 1 : Append(l, x)[i] \in T  BY <1>2
  <2>2. k \in Int /\ Len(l) + 1 \in Int /\ k <= Len(l) + 1  BY <1>1
  <2>3. /\ a \in Seq(T) /\ Len(a) = (Len(l) + 1) - k + 1
        /\ \A i \in 1 .. (Len(l) + 1) - k + 1 : a[i] = Append(l, x)[k + i - 1]
    BY <2>1, <2>2, SubSeqProperties
  <2>4. (Len(l) + 1) - k + 1 = Len(l) + 2 - k  BY <2>2
  <2> QED  BY <2>3, <2>4
<1>4. b \in Seq(T) /\ Len(b) = Len(l) + 1 - k /\ \A i \in 1 .. Len(l) + 1 - k : b[i] = l[k + i - 1]
  BY <1>1, SubSeqProperties, ElementOfSeq
<1> HIDE DEF a, b
<1>5. /\ Append(b, x) \in Seq(T) /\ Len(Append(b, x)) = Len(b) + 1
      /\ (\A i \in 1 .. Len(b) : Append(b, x)[i] = b[i]) /\ Append(b, x)[Len(b) + 1] = x
  BY <1>4, AppendProperties
<1>6. \A i \in 1 .. Len(a) : a[i] = Append(b, x)[i]
  <2> TAKE i \in 1 .. Len(a)
  <2>1. CASE i <= Len(l) + 1 - k
    <3>1. k + i - 1 \in 1 .. Len(l) /\ i \in 1 .. Len(b) /\ i \in 1 .. Len(l) + 2 - k
      BY <1>1, <1>3, <1>4, <2>1
    <3>2. a[i] = l[k + i - 1]  BY <1>1, <1>3, <3>1
    <3>3. b[i] = l[k + i - 1]  BY <1>4, <2>1, <3>1
    <3> QED  BY <1>5, <3>1, <3>2, <3>3
  <2>2. CASE i = Len(l) + 2 - k
    <3>1. i = Len(b) + 1 /\ k + i - 1 = Len(l) + 1 /\ i \in 1 .. Len(l) + 2 - k
      BY <1>1, <1>3, <1>4, <2>2
    <3>2. a[i] = Append(l, x)[Len(l) + 1]  BY <1>3, <3>1
    <3>3. a[i] = x  BY <1>1, <3>2
    <3>4. Append(b, x)[i] = x  BY <1>5, <3>1
    <3> QED  BY <3>3, <3>4
  <2>3. i <= Len(l) + 1 - k \/ i = Len(l) + 2 - k
    <3>1. i \in Int /\ k \in Int /\ Len(l) \in Int /\ i <= Len(l) + 2 - k  BY <1>1, <1>3
    <3> QED  BY <3>1
  <2> QED  BY <2>1, <2>2, <2>3
<1>7. a = Append(b, x)
  <2>1. Len(a) = Len(Append(b, x))
    <3>1. Len(l) \in Nat /\ k \in Nat  BY <1>1
    <3>2. Len(a) = Len(l) + 2 - k /\ Len(b) = Len(l) + 1 - k  BY <1>3, <1>4
    <3> QED  BY <1>5, <3>1, <3>2
  <2>2. a \in Seq(T) /\ Append(b, x) \in Seq(T)  BY <1>3, <1>5
  <2> QED  BY <1>6, <2>1, <2>2, SeqEqual
<1> QED  BY <1>7 DEF a, b

\* A filter of a filter.
LEMMA PickedTwice ==
  ASSUME NEW T, NEW A, NEW B, NEW l \in Seq(T)
  PROVE  Picked(Picked(l, A), B) = Picked(l, A \cap B)
<1> DEFINE P == {k \in Seq(T) : Picked(Picked(k, A), B) = Picked(k, A \cap B)}
<1>1. <<>> \in P  BY PickedEmpty, EmptySeq
<1>2. ASSUME NEW k \in Seq(T), NEW x \in T, k \in P PROVE Append(k, x) \in P
  <2>1. Append(k, x) \in Seq(T) /\ Picked(k, A) \in Seq(T \cap A)
    BY AppendProperties, PickedTyped
  <2>2. CASE x \in A
    <3>1. Picked(Append(Picked(k, A), x), B)
            = IF x \in B THEN Append(Picked(Picked(k, A), B), x) ELSE Picked(Picked(k, A), B)
      <4> DEFINE h == Picked(k, A)
                 U == T \cap A
      <4>1. x \in U /\ h \in Seq(U)  BY <2>1, <2>2
      <4> HIDE DEF h, U
      <4>2. Picked(Append(h, x), B) = IF x \in B THEN Append(Picked(h, B), x) ELSE Picked(h, B)
        BY <4>1, PickedAppend
      <4> QED  BY <4>2 DEF h
    <3>2. Picked(Append(k, x), A) = Append(Picked(k, A), x)  BY <2>2, PickedAppend
    <3>3. Picked(Append(k, x), A \cap B)
            = IF x \in A \cap B THEN Append(Picked(k, A \cap B), x) ELSE Picked(k, A \cap B)
      BY PickedAppend
    <3>4. Picked(Picked(k, A), B) = Picked(k, A \cap B)  BY <1>2
    <3> QED  BY <2>1, <2>2, <3>1, <3>2, <3>3, <3>4
  <2>3. CASE x \notin A
    <3>1. Picked(Append(k, x), A) = Picked(k, A) /\ Picked(Append(k, x), A \cap B) = Picked(k, A \cap B)
      BY <2>3, PickedAppend
    <3> QED  BY <1>2, <2>1, <3>1
  <2> QED  BY <2>2, <2>3
<1> HIDE DEF P
<1>3. l \in P  BY <1>1, <1>2, SeqInduction
<1> QED  BY <1>3 DEF P

\* Only what ok says of the lines of l matters.
LEMMA PickedAgree ==
  ASSUME NEW T, NEW A, NEW B, NEW l \in Seq(T),
         \A i \in 1 .. Len(l) : l[i] \in A <=> l[i] \in B
  PROVE  Picked(l, A) = Picked(l, B)
<1> DEFINE P == {k \in Seq(T) : (\A i \in 1 .. Len(k) : k[i] \in A <=> k[i] \in B)
                                => Picked(k, A) = Picked(k, B)}
<1>1. <<>> \in P  BY PickedEmpty, EmptySeq
<1>2. ASSUME NEW k \in Seq(T), NEW x \in T, k \in P PROVE Append(k, x) \in P
  <2>1. /\ Append(k, x) \in Seq(T) /\ Len(Append(k, x)) = Len(k) + 1 /\ Len(k) \in Nat
        /\ \A i \in 1 .. Len(k) : Append(k, x)[i] = k[i]
        /\ Append(k, x)[Len(k) + 1] = x
    BY AppendProperties, LenProperties
  <2>2. SUFFICES ASSUME \A i \in 1 .. Len(k) + 1 : Append(k, x)[i] \in A <=> Append(k, x)[i] \in B
                 PROVE  Picked(Append(k, x), A) = Picked(Append(k, x), B)
    BY <2>1
  <2>3. Picked(k, A) = Picked(k, B)
    <3>1. \A i \in 1 .. Len(k) : i \in 1 .. Len(k) + 1 /\ (k[i] \in A <=> k[i] \in B)
      BY <2>1, <2>2
    <3> QED  BY <1>2, <3>1
  <2>4. x \in A <=> x \in B  BY <2>1, <2>2
  <2>5. Picked(Append(k, x), A) = IF x \in A THEN Append(Picked(k, A), x) ELSE Picked(k, A)
    BY PickedAppend
  <2>6. Picked(Append(k, x), B) = IF x \in B THEN Append(Picked(k, B), x) ELSE Picked(k, B)
    BY PickedAppend
  <2> QED  BY <2>3, <2>4, <2>5, <2>6
<1>3. l \in P
  <2> HIDE DEF P
  <2> QED  BY <1>1, <1>2, SeqInduction
<1> QED  BY <1>3

\* Nothing passes where no line is in ok.
LEMMA PickedNone ==
  ASSUME NEW T, NEW ok, NEW l \in Seq(T), \A i \in 1 .. Len(l) : l[i] \notin ok
  PROVE  Picked(l, ok) = <<>>
<1>1. Picked(l, ok) \in Seq(T \cap ok) /\ DOMAIN l = 1 .. Len(l)  BY PickedTyped, LenProperties
<1>2. DOMAIN Picked(l, ok) = {}  BY <1>1, PickedFrom
<1>3. DOMAIN Picked(l, ok) = 1 .. Len(Picked(l, ok)) /\ Len(Picked(l, ok)) \in Nat
  BY <1>1, LenProperties
<1>4. Len(Picked(l, ok)) = 0  BY <1>2, <1>3
<1> QED  BY <1>1, <1>4, EmptySeq

\* What keeps a suffix of l, and nothing before it.
LEMMA PickedTail ==
  ASSUME NEW T, NEW ok, NEW l \in Seq(T), NEW k \in 1 .. Len(l) + 1,
         \A i \in 1 .. Len(l) : l[i] \in ok <=> i >= k
  PROVE  Picked(l, ok) = SubSeq(l, k, Len(l))
<1> DEFINE Cut(s, c) == c \in 1 .. Len(s) + 1 /\ \A i \in 1 .. Len(s) : s[i] \in ok <=> i >= c
           P == {s \in Seq(T) : \A c \in Nat : Cut(s, c) => Picked(s, ok) = SubSeq(s, c, Len(s))}
<1>1. <<>> \in P
  <2>1. ASSUME NEW c \in Nat, Cut(<<>>, c) PROVE SubSeq(<<>>, c, Len(<<>>)) = <<>>
    <3>1. Len(<<>>) = 0 /\ c = 1  BY <2>1, EmptySeq
    <3> QED  BY <3>1, SubSeqEmpty
  <2> QED  BY <2>1, PickedEmpty, EmptySeq
<1>2. ASSUME NEW s \in Seq(T), NEW x \in T, s \in P PROVE Append(s, x) \in P
  <2> DEFINE t == Append(s, x)
  <2>1. /\ t \in Seq(T) /\ Len(t) = Len(s) + 1 /\ Len(s) \in Nat
        /\ (\A i \in 1 .. Len(s) : t[i] = s[i]) /\ t[Len(s) + 1] = x
    BY AppendProperties, LenProperties
  <2>2. Picked(t, ok) = IF x \in ok THEN Append(Picked(s, ok), x) ELSE Picked(s, ok)
    BY PickedAppend
  <2>3. \A c \in 1 .. Len(s) + 1 : SubSeq(t, c, Len(s) + 1) = Append(SubSeq(s, c, Len(s)), x)
    BY AppendSubSeq
  <2> HIDE DEF t
  <2>4. ASSUME NEW c \in Nat, Cut(t, c) PROVE Picked(t, ok) = SubSeq(t, c, Len(t))
    <3>1. CASE c <= Len(s) + 1
      <4>1. c \in 1 .. Len(s) + 1 /\ x \in ok  BY <2>1, <2>4, <3>1
      <4>2. \A i \in 1 .. Len(s) : i \in 1 .. Len(t) /\ t[i] = s[i]  BY <2>1
      <4>3. Cut(s, c)  BY <2>1, <2>4, <4>1, <4>2
      <4>4. Picked(s, ok) = SubSeq(s, c, Len(s))  BY <1>2, <4>3
      <4> QED  BY <2>1, <2>2, <2>3, <4>1, <4>4
    <3>2. CASE c = Len(s) + 2
      <4>1. \A i \in 1 .. Len(t) : t[i] \notin ok  BY <2>1, <2>4, <3>2
      <4>2. Picked(t, ok) = <<>>  BY <2>1, <4>1, PickedNone
      <4>3. SubSeq(t, c, Len(t)) = <<>>  BY <2>1, <3>2, SubSeqEmpty
      <4> QED  BY <4>2, <4>3
    <3> QED  BY <2>1, <2>4, <3>1, <3>2
  <2> QED  BY <2>1, <2>4 DEF t
<1>3. l \in P
  <2> HIDE DEF P
  <2> QED  BY <1>1, <1>2, SeqInduction
<1> QED  BY <1>3, LenProperties

\* The last element of the second half is the last of the whole.
LEMMA ConcatAppend ==
  ASSUME NEW T, NEW a \in Seq(T), NEW b \in Seq(T), NEW x \in T
  PROVE  a \o Append(b, x) = Append(a \o b, x)
<1> DEFINE c == Append(b, x)
           d == a \o b
<1>1. /\ c \in Seq(T) /\ Len(c) = Len(b) + 1 /\ c[Len(b) + 1] = x
      /\ \A i \in 1 .. Len(b) : c[i] = b[i]
  BY AppendProperties
<1>2. /\ d \in Seq(T) /\ Len(d) = Len(a) + Len(b) /\ Len(a) \in Nat /\ Len(b) \in Nat
      /\ \A i \in 1 .. Len(a) + Len(b) : d[i] = IF i <= Len(a) THEN a[i] ELSE b[i - Len(a)]
  BY ConcatProperties, LenProperties
<1> HIDE DEF c, d
<1> DEFINE p == a \o c
           q == Append(d, x)
<1>3. /\ p \in Seq(T) /\ Len(p) = Len(a) + Len(c)
      /\ \A i \in 1 .. Len(a) + Len(c) : p[i] = IF i <= Len(a) THEN a[i] ELSE c[i - Len(a)]
  BY <1>1, ConcatProperties
<1>4. /\ q \in Seq(T) /\ Len(q) = Len(d) + 1 /\ q[Len(d) + 1] = x
      /\ \A i \in 1 .. Len(d) : q[i] = d[i]
  BY <1>2, AppendProperties
<1> HIDE DEF p, q
<1>5. ASSUME NEW i \in 1 .. Len(p) PROVE p[i] = q[i]
  <2>1. i \in 1 .. Len(a) + Len(b) + 1 /\ i \in 1 .. Len(a) + Len(c)  BY <1>1, <1>2, <1>3
  <2>2. CASE i <= Len(a)
    <3>1. i \in 1 .. Len(d) /\ i \in 1 .. Len(a) + Len(b)  BY <1>2, <2>1, <2>2
    <3> QED  BY <1>2, <1>3, <1>4, <2>1, <2>2, <3>1
  <2>3. CASE Len(a) < i /\ i <= Len(a) + Len(b)
    <3>1. /\ i \in 1 .. Len(d) /\ i \in 1 .. Len(a) + Len(b) /\ ~(i <= Len(a))
          /\ i - Len(a) \in 1 .. Len(b)
      BY <1>2, <2>1, <2>3
    <3>2. p[i] = b[i - Len(a)]  BY <1>1, <1>3, <2>1, <3>1
    <3>3. q[i] = b[i - Len(a)]  BY <1>2, <1>4, <3>1
    <3> QED  BY <3>2, <3>3
  <2>4. CASE i = Len(a) + Len(b) + 1
    <3>1. ~(i <= Len(a)) /\ i - Len(a) = Len(b) + 1 /\ i = Len(d) + 1  BY <1>2, <2>4
    <3>2. p[i] = x  BY <1>1, <1>3, <2>1, <3>1
    <3>3. q[i] = x  BY <1>4, <3>1
    <3> QED  BY <3>2, <3>3
  <2>5. i <= Len(a) \/ (Len(a) < i /\ i <= Len(a) + Len(b)) \/ i = Len(a) + Len(b) + 1
    <3>1. Len(a) \in Nat /\ Len(b) \in Nat  BY <1>2
    <3> QED  BY <2>1, <3>1
  <2> QED  BY <2>2, <2>3, <2>4, <2>5
<1>6. Len(p) = Len(q)  BY <1>1, <1>2, <1>3, <1>4
<1>7. p = q  BY <1>3, <1>4, <1>5, <1>6, SeqEqual
<1> QED  BY <1>7 DEF p, q, c, d

\* The halves of a file are filtered one by one.
LEMMA PickedConcat ==
  ASSUME NEW T, NEW ok, NEW l \in Seq(T), NEW s \in Seq(T)
  PROVE  Picked(l \o s, ok) = Picked(l, ok) \o Picked(s, ok)
<1> DEFINE P == {r \in Seq(T) : Picked(l \o r, ok) = Picked(l, ok) \o Picked(r, ok)}
<1>t. ASSUME NEW r \in Seq(T) PROVE Picked(r, ok) \in Seq(T)
  <2>1. Picked(r, ok) \in Seq(T \cap ok) /\ T \cap ok \subseteq T  BY PickedTyped
  <2> QED  BY <2>1, SeqMonotonic
<1>1. <<>> \in P  BY <1>t, PickedEmpty, EmptySeq, ConcatEmptySeq
<1>2. ASSUME NEW r \in Seq(T), NEW x \in T, r \in P PROVE Append(r, x) \in P
  <2>1. \A a, b \in Seq(T) : a \o Append(b, x) = Append(a \o b, x)  BY ConcatAppend
  <2>2. l \o Append(r, x) = Append(l \o r, x) /\ l \o r \in Seq(T) /\ Append(r, x) \in Seq(T)
    BY <2>1, ConcatProperties, AppendProperties
  <2>3. /\ Picked(Append(l \o r, x), ok)
             = IF x \in ok THEN Append(Picked(l \o r, ok), x) ELSE Picked(l \o r, ok)
        /\ Picked(Append(r, x), ok) = IF x \in ok THEN Append(Picked(r, ok), x) ELSE Picked(r, ok)
    BY <2>2, PickedAppend
  <2>4. Picked(l, ok) \o Append(Picked(r, ok), x) = Append(Picked(l, ok) \o Picked(r, ok), x)
    BY <1>t, <2>1
  <2> QED  BY <1>2, <2>2, <2>3, <2>4
<1> HIDE DEF P
<1>3. s \in P  BY <1>1, <1>2, SeqInduction
<1> QED  BY <1>3 DEF P

-----------------------------------------------------------------------------
(***************************************************************************)
(* What a line that is appended does to what a reader makes of the file.   *)
(***************************************************************************)

\* Every message line is a record that was appended, and every cutoff the stamp
\* of one.
Recorded(l, a) ==
  \A i \in DOMAIN l :
    /\ l[i] \in Message => \E k \in DOMAIN a : a[k] = l[i]
    /\ IsSummary(l[i]) => \E k \in DOMAIN a : a[k].ts = l[i].cutoff

\* Stamps never fall, and a record behind a summary is newer than its cutoff.
Sorted(l) ==
  \A i, j \in DOMAIN l : i < j /\ l[j] \in Message =>
    /\ l[i] \in Message => l[i].ts <= l[j].ts
    /\ IsSummary(l[i]) => l[i].cutoff < l[j].ts

\* The stamps tell every record a summary may stop before from the ones before it.
Rising(r) ==
  \A i, j \in DOMAIN r : i < j =>
    r[i].ts <= r[j].ts /\ (SafeBoundary(r[j]) => r[i].ts < r[j].ts)

\* A tool record stands behind the calls it answers.
Paired(r) ==
  \A i \in DOMAIN r : r[i].kind = "tool" => i > 1 /\ r[i - 1].kind \in {"calls", "talk", "tool"}

\* The kinds of lines do not meet.
LEMMA LineKinds ==
  /\ \A x \in Line : x \in Message => ~IsSummary(x)
  /\ \A x \in Line : IsSummary(x) <=> x \in Summary
  /\ \A x \in Message : x.ts \in Nat /\ x.id \in 1 .. MaxRecords /\ x.kind \in Kind
  /\ \A x \in Summary : x.cutoff \in Nat /\ x.covers \subseteq 1 .. MaxRecords
  /\ Message \subseteq Line
  /\ \A x \in {Bad, Torn, Other} : x \in Line /\ x \notin Message /\ ~IsSummary(x)
BY LogAssumption DEF Line, Message, Summary, IsSummary, Kind, Bad, Torn, Other

\* One line more in a file.
LEMMA AppendLine ==
  ASSUME NEW l \in Seq(Line), NEW x \in Line
  PROVE  /\ Append(l, x) \in Seq(Line) /\ Len(l) \in Nat
         /\ DOMAIN l = 1 .. Len(l) /\ DOMAIN Append(l, x) = 1 .. Len(l) + 1
         /\ \A i \in DOMAIN l : Append(l, x)[i] = l[i] /\ l[i] \in Line
         /\ Append(l, x)[Len(l) + 1] = x
BY AppendProperties, LenProperties, ElementOfSeq

\* What a line more asks of a record.
LEMMA NewerAppend ==
  ASSUME NEW l \in Seq(Line), NEW x \in Line, NEW m
  PROVE  Newer(Append(l, x), m) <=> Newer(l, m) /\ (IsSummary(x) => m.ts > x.cutoff)
<1>1. \A i \in DOMAIN Append(l, x) : i \in DOMAIN l \/ i = Len(l) + 1  BY AppendLine
<1>2. DOMAIN l \subseteq DOMAIN Append(l, x) /\ Len(l) + 1 \in DOMAIN Append(l, x)
  BY AppendLine
<1>3. (\A i \in DOMAIN l : Append(l, x)[i] = l[i]) /\ Append(l, x)[Len(l) + 1] = x
  BY AppendLine
<1> QED  BY <1>1, <1>2, <1>3 DEF Newer

\* The newest summary is the last line, or the one it was.
LEMMA CoveredAppend ==
  ASSUME NEW l \in Seq(Line), NEW x \in Line
  PROVE  Covered(Append(l, x)) = IF IsSummary(x) THEN x.covers ELSE Covered(l)
<1> DEFINE m == Append(l, x)
<1>1. /\ \A i \in DOMAIN m : i \in DOMAIN l \/ i = Len(l) + 1
      /\ DOMAIN l \subseteq DOMAIN m /\ Len(l) + 1 \in DOMAIN m
      /\ (\A i \in DOMAIN l : m[i] = l[i] /\ i \in 1 .. Len(l)) /\ m[Len(l) + 1] = x
      /\ DOMAIN m \subseteq Nat /\ Len(l) \in Nat
  BY AppendLine
<1> HIDE DEF m
<1>2. CASE IsSummary(x)
  <2>1. Latest(m) = {Len(l) + 1}
    <3>1. ASSUME NEW i \in Latest(m) PROVE i = Len(l) + 1
      <4>1. i \in DOMAIN m /\ \A j \in DOMAIN m : j > i => ~IsSummary(m[j])  BY <3>1 DEF Latest
      <4>2. ~(Len(l) + 1 > i)  BY <1>1, <1>2, <4>1
      <4> QED  BY <1>1, <4>1, <4>2
    <3>2. \A j \in DOMAIN m : ~(j > Len(l) + 1)  BY <1>1
    <3>3. Len(l) + 1 \in Latest(m)  BY <1>1, <1>2, <3>2 DEF Latest
    <3> QED  BY <3>1, <3>3
  <2>2. {m[i].covers : i \in Latest(m)} = {x.covers}  BY <1>1, <2>1
  <2>3. UNION {x.covers} = x.covers  OBVIOUS
  <2> QED  BY <1>2, <2>2, <2>3 DEF Covered, m
<1>3. CASE ~IsSummary(x)
  <2>1. Latest(m) = Latest(l)
    <3>1. ASSUME NEW i \in Latest(m) PROVE i \in Latest(l)
      <4>1. i \in DOMAIN m /\ IsSummary(m[i]) /\ \A j \in DOMAIN m : j > i => ~IsSummary(m[j])
        BY <3>1 DEF Latest
      <4>2. i \in DOMAIN l /\ IsSummary(l[i])  BY <1>1, <1>3, <4>1
      <4>3. \A j \in DOMAIN l : j > i => ~IsSummary(l[j])  BY <1>1, <4>1
      <4> QED  BY <4>2, <4>3 DEF Latest
    <3>2. ASSUME NEW i \in Latest(l) PROVE i \in Latest(m)
      <4>1. i \in DOMAIN l /\ IsSummary(l[i]) /\ \A j \in DOMAIN l : j > i => ~IsSummary(l[j])
        BY <3>2 DEF Latest
      <4>2. i \in DOMAIN m /\ IsSummary(m[i])  BY <1>1, <4>1
      <4>3. \A j \in DOMAIN m : j > i => ~IsSummary(m[j])  BY <1>1, <1>3, <4>1
      <4> QED  BY <4>2, <4>3 DEF Latest
    <3> QED  BY <3>1, <3>2
  <2>2. \A i \in Latest(l) : m[i].covers = l[i].covers  BY <1>1 DEF Latest
  <2>3. {m[i].covers : i \in Latest(m)} = {l[i].covers : i \in Latest(l)}  BY <2>1, <2>2
  <2> QED  BY <1>3, <2>3 DEF Covered, m
<1> QED  BY <1>2, <1>3

\* A summary covers numbers of records.
LEMMA CoveredTyped ==
  ASSUME NEW l \in Seq(Line)
  PROVE  Covered(l) \subseteq 1 .. MaxRecords
<1>1. \A i \in Latest(l) : l[i] \in Summary
  <2>1. \A i \in Latest(l) : i \in DOMAIN l /\ IsSummary(l[i])  BY DEF Latest
  <2>2. \A i \in DOMAIN l : l[i] \in Line  BY LenProperties, ElementOfSeq
  <2> QED  BY <2>1, <2>2, LineKinds
<1>2. \A i \in Latest(l) : l[i].covers \subseteq 1 .. MaxRecords  BY <1>1, LineKinds
<1> QED  BY <1>2 DEF Covered

\* What is replayed are messages of the file behind every cutoff.
LEMMA ReplayTyped ==
  ASSUME NEW l \in Seq(Line)
  PROVE  /\ Replay(l) \in Seq(Message)
         /\ \A i \in DOMAIN Replay(l) : /\ Replay(l)[i] \in Message /\ Newer(l, Replay(l)[i])
                                        /\ \E j \in DOMAIN l : l[j] = Replay(l)[i]
<1> DEFINE N == {m \in Message : Newer(l, m)}
<1>1. Picked(l, N) \in Seq(Line \cap N) /\ Line \cap N \subseteq Message  BY PickedTyped
<1>2. Replay(l) \in Seq(Message)  BY <1>1, SeqMonotonic DEF Replay
<1>3. \A i \in DOMAIN Replay(l) : \E j \in DOMAIN l : l[j] = Replay(l)[i] /\ l[j] \in N
  <2> HIDE DEF N
  <2>1. \A i \in DOMAIN Picked(l, N) : \E j \in DOMAIN l : l[j] = Picked(l, N)[i] /\ l[j] \in N
    BY PickedFrom
  <2> QED  BY <2>1 DEF Replay, N
<1> QED  BY <1>2, <1>3

\* A line that is neither a message nor a summary says nothing.
LEMMA QuietAppend ==
  ASSUME NEW l \in Seq(Line), NEW x \in Line, x \notin Message, ~IsSummary(x), NEW a
  PROVE  /\ Append(l, x) \in Seq(Line)
         /\ Replay(Append(l, x)) = Replay(l) /\ Covered(Append(l, x)) = Covered(l)
         /\ Recorded(Append(l, x), a) <=> Recorded(l, a)
         /\ Sorted(Append(l, x)) <=> Sorted(l)
<1> DEFINE m == Append(l, x)
<1>1. /\ \A i \in DOMAIN m : i \in DOMAIN l \/ i = Len(l) + 1
      /\ DOMAIN l \subseteq DOMAIN m
      /\ (\A i \in DOMAIN l : m[i] = l[i]) /\ m[Len(l) + 1] = x
  BY AppendLine
<1>2. {y \in Message : Newer(m, y)} = {y \in Message : Newer(l, y)}  BY NewerAppend
<1>3. Replay(m) = Replay(l)
  <2> DEFINE N == {y \in Message : Newer(l, y)}
  <2>1. x \notin N  OBVIOUS
  <2> HIDE DEF N
  <2>2. Picked(m, N) = Picked(l, N)  BY <2>1, PickedAppend
  <2> QED  BY <1>2, <2>2 DEF Replay, N
<1>4. m \in Seq(Line) /\ Covered(m) = Covered(l)  BY AppendLine, CoveredAppend
<1> HIDE DEF m
<1>5. Recorded(m, a) <=> Recorded(l, a)  BY <1>1 DEF Recorded
<1>6. Sorted(m) <=> Sorted(l)  BY <1>1 DEF Sorted
<1> QED  BY <1>3, <1>4, <1>5, <1>6 DEF m

\* Nor does one that joins a fragment, and the line that becomes of the two.
LEMMA QuietPut ==
  ASSUME NEW l \in Seq(Line), NEW x \in {Torn, Other}, NEW a
  PROVE  /\ Put(l, x) \in Seq(Line)
         /\ Replay(Put(l, x)) = Replay(l) /\ Covered(Put(l, x)) = Covered(l)
         /\ Recorded(Put(l, x), a) <=> Recorded(l, a)
         /\ Sorted(Put(l, x)) <=> Sorted(l)
<1>1. CASE l # <<>> /\ Last(l).kind = "torn"
  <2>1. PICK s \in Seq(Line), y \in Line : l = Append(s, y)  BY <1>1, SequenceEmptyOrAppend
  <2>2. Last(l) = y  BY <2>1, AppendLine, LenProperties DEF Last
  <2>3. Front(l) = s
    <3>1. Len(l) = Len(s) + 1 /\ Len(s) \in Nat /\ \A i \in 1 .. Len(s) : l[i] = s[i]
      BY <2>1, AppendProperties, LenProperties
    <3>2. Front(l) = SubSeq(l, 1, Len(s))  BY <3>1 DEF Front
    <3>3. /\ SubSeq(l, 1, Len(s)) \in Seq(Line) /\ Len(SubSeq(l, 1, Len(s))) = Len(s)
          /\ \A i \in 1 .. Len(s) : SubSeq(l, 1, Len(s))[i] = l[i]
      BY <3>1, ElementOfSeq, SubSeqProperties
    <3> QED  BY <3>1, <3>2, <3>3, SeqEqual
  <2>4. y \notin Message /\ ~IsSummary(y)  BY <1>1, <2>2 DEF IsSummary, Message, Kind
  <2>5. Put(l, x) = Append(s, Bad)  BY <1>1, <2>3 DEF Put
  <2>6. Bad \in Line /\ Bad \notin Message /\ ~IsSummary(Bad)  BY LineKinds
  <2>7. /\ Replay(l) = Replay(s) /\ Covered(l) = Covered(s)
        /\ Recorded(l, a) <=> Recorded(s, a)
        /\ Sorted(l) <=> Sorted(s)
    BY <2>1, <2>4, QuietAppend
  <2>8. /\ Append(s, Bad) \in Seq(Line)
        /\ Replay(Append(s, Bad)) = Replay(s) /\ Covered(Append(s, Bad)) = Covered(s)
        /\ Recorded(Append(s, Bad), a) <=> Recorded(s, a)
        /\ Sorted(Append(s, Bad)) <=> Sorted(s)
    BY <2>1, <2>6, QuietAppend
  <2> QED  BY <2>5, <2>7, <2>8
<1>2. CASE ~(l # <<>> /\ Last(l).kind = "torn")
  <2>1. Put(l, x) = Append(l, x)  BY <1>2 DEF Put
  <2>2. x \in Line /\ x \notin Message /\ ~IsSummary(x)  BY LineKinds
  <2> QED  BY <2>1, <2>2, QuietAppend
<1> QED  BY <1>1, <1>2

\* A file that can be read ends with a whole line.
LEMMA ReadablePut ==
  ASSUME file \in Seq(Line), Readable, NEW x
  PROVE  Put(file, x) = Append(file, x)
<1>1. file # <<>> => Len(file) \in DOMAIN file  BY EmptySeq, LenProperties
<1> QED  BY <1>1 DEF Put, Last, Readable

\* A message newer than every cutoff is replayed last.
LEMMA MessageAppend ==
  ASSUME NEW l \in Seq(Line), NEW m \in Message
  PROVE  /\ Append(l, m) \in Seq(Line) /\ Covered(Append(l, m)) = Covered(l)
         /\ Newer(l, m) => Replay(Append(l, m)) = Append(Replay(l), m)
<1>1. m \in Line /\ ~IsSummary(m)  BY LineKinds
<1>2. Append(l, m) \in Seq(Line) /\ Covered(Append(l, m)) = Covered(l)
  BY <1>1, AppendLine, CoveredAppend
<1>3. {y \in Message : Newer(Append(l, m), y)} = {y \in Message : Newer(l, y)}
  BY <1>1, NewerAppend
<1>4. ASSUME Newer(l, m) PROVE Replay(Append(l, m)) = Append(Replay(l), m)
  <2> DEFINE N == {y \in Message : Newer(l, y)}
  <2>1. m \in N  BY <1>4
  <2> HIDE DEF N
  <2>2. Picked(Append(l, m), N) = Append(Picked(l, N), m)  BY <1>1, <2>1, PickedAppend
  <2> QED  BY <1>3, <2>2 DEF Replay, N
<1> QED  BY <1>2, <1>4

\* A summary takes from what is replayed what is not behind its cutoff.
LEMMA SummaryAppend ==
  ASSUME NEW l \in Seq(Line), NEW s \in Summary, NEW k \in 1 .. Len(Replay(l)) + 1,
         \A i \in 1 .. Len(Replay(l)) : Replay(l)[i].ts > s.cutoff <=> i >= k
  PROVE  /\ Append(l, s) \in Seq(Line) /\ Covered(Append(l, s)) = s.covers
         /\ Replay(Append(l, s)) = SubSeq(Replay(l), k, Len(Replay(l)))
<1> DEFINE N == {m \in Message : Newer(l, m)}
           B == {m \in Message : m.ts > s.cutoff}
           r == Replay(l)
<1>1. s \in Line /\ IsSummary(s) /\ s \notin Message  BY LineKinds DEF Line
<1>2. Append(l, s) \in Seq(Line) /\ Covered(Append(l, s)) = s.covers
  BY <1>1, AppendLine, CoveredAppend
<1>3. {m \in Message : Newer(Append(l, s), m)} = N \cap B  BY <1>1, NewerAppend
<1>4. r \in Seq(Message) /\ \A i \in 1 .. Len(r) : r[i] \in Message
  BY ReplayTyped, LenProperties
<1>5. \A i \in 1 .. Len(r) : r[i] \in B <=> i >= k  BY <1>4
<1>6. s \notin N \cap B  BY <1>1
<1>7. Replay(Append(l, s)) = Picked(Append(l, s), N \cap B) /\ r = Picked(l, N)
  BY <1>3 DEF Replay
<1>8. k \in 1 .. Len(r) + 1  OBVIOUS
<1> HIDE DEF N, B, r
<1>9. Picked(Append(l, s), N \cap B) = Picked(l, N \cap B)  BY <1>1, <1>6, PickedAppend
<1>10. Picked(l, N \cap B) = Picked(r, B)  BY <1>7, PickedTwice
<1>11. Picked(r, B) = SubSeq(r, k, Len(r))  BY <1>4, <1>5, <1>8, PickedTail
<1> QED  BY <1>2, <1>7, <1>9, <1>10, <1>11 DEF r

\* Behind the first half stands the second.
LEMMA ConcatTail ==
  ASSUME NEW T, NEW a \in Seq(T), NEW b \in Seq(T)
  PROVE  SubSeq(a \o b, Len(a) + 1, Len(a \o b)) = b
<1> DEFINE c == SubSeq(a \o b, Len(a) + 1, Len(a) + Len(b))
<1>1. /\ a \o b \in Seq(T) /\ Len(a \o b) = Len(a) + Len(b)
      /\ Len(a) \in Nat /\ Len(b) \in Nat
      /\ \A i \in 1 .. Len(a) + Len(b) : (a \o b)[i] = IF i <= Len(a) THEN a[i] ELSE b[i - Len(a)]
  BY ConcatProperties, LenProperties
<1>2. \A i \in Len(a) + 1 .. Len(a) + Len(b) : (a \o b)[i] \in T
  <2>1. \A i \in 1 .. Len(a \o b) : (a \o b)[i] \in T  BY <1>1, ElementOfSeq
  <2> QED  BY <1>1, <2>1
<1>3. /\ c \in Seq(T) /\ Len(c) = Len(b)
      /\ \A i \in 1 .. Len(b) : c[i] = (a \o b)[Len(a) + i]
  <2>1. /\ c \in Seq(T)
        /\ Len(c) = IF Len(a) + 1 <= Len(a) + Len(b) THEN (Len(a) + Len(b)) - (Len(a) + 1) + 1 ELSE 0
        /\ \A i \in 1 .. (Len(a) + Len(b)) - (Len(a) + 1) + 1 : c[i] = (a \o b)[Len(a) + 1 + i - 1]
    BY <1>1, <1>2, SubSeqProperties
  <2>2. (Len(a) + Len(b)) - (Len(a) + 1) + 1 = Len(b) /\ \A i \in Nat : Len(a) + 1 + i - 1 = Len(a) + i
    BY <1>1
  <2> QED  BY <1>1, <2>1, <2>2
<1> HIDE DEF c
<1>4. \A i \in 1 .. Len(b) : c[i] = b[i]
  <2> TAKE i \in 1 .. Len(b)
  <2>1. Len(a) + i \in 1 .. Len(a) + Len(b) /\ ~(Len(a) + i <= Len(a)) /\ (Len(a) + i) - Len(a) = i
    BY <1>1
  <2>2. (a \o b)[Len(a) + i] = b[i]  BY <1>1, <2>1
  <2> QED  BY <1>3, <2>2
<1>5. c = b  BY <1>3, <1>4, SeqEqual
<1> QED  BY <1>1, <1>5 DEF c

\* The tail of what is replayed, from a record a cut may stop before.
LEMMA TailKeeps ==
  ASSUME NEW r \in Seq(Message), NEW k \in 1 .. Len(r) + 1, k \in 2 .. Len(r) => r[k].kind # "tool"
  PROVE  LET s == SubSeq(r, k, Len(r)) IN
           /\ s \in Seq(Message) /\ Len(s) = Len(r) + 1 - k
           /\ \A i \in 1 .. Len(s) : s[i] = r[k + i - 1]
           /\ Rising(r) => Rising(s)
           /\ Paired(r) => Paired(s)
<1> DEFINE s == SubSeq(r, k, Len(r))
<1>1. /\ s \in Seq(Message) /\ Len(s) = Len(r) + 1 - k
      /\ \A i \in 1 .. Len(s) : s[i] = r[k + i - 1]
  <2>1. Len(r) \in Nat /\ k \in Int /\ \A i \in k .. Len(r) : r[i] \in Message
    BY LenProperties, ElementOfSeq
  <2>2. /\ s \in Seq(Message) /\ Len(s) = IF k <= Len(r) THEN Len(r) - k + 1 ELSE 0
        /\ \A i \in 1 .. Len(r) - k + 1 : s[i] = r[k + i - 1]
    BY <2>1, SubSeqProperties
  <2> QED  BY <2>1, <2>2
<1> HIDE DEF s
<1>2. /\ Len(r) \in Nat /\ Len(s) \in Nat /\ DOMAIN r = 1 .. Len(r) /\ DOMAIN s = 1 .. Len(s)
  BY <1>1, LenProperties
<1>3. \A i \in DOMAIN s : k + i - 1 \in DOMAIN r /\ s[i] = r[k + i - 1]
  <2> TAKE i \in DOMAIN s
  <2>1. i \in 1 .. Len(s) /\ i \in Nat /\ k \in Nat /\ k >= 1 /\ i >= 1 /\ i <= (Len(r) + 1) - k
    BY <1>1, <1>2
  <2>2. k + i - 1 \in 1 .. Len(r)  BY <1>2, <2>1
  <2> QED  BY <1>1, <1>2, <2>1, <2>2
<1>4. ASSUME Rising(r) PROVE Rising(s)
  <2>1. SUFFICES ASSUME NEW i \in DOMAIN s, NEW j \in DOMAIN s, i < j
                 PROVE  s[i].ts <= s[j].ts /\ (SafeBoundary(s[j]) => s[i].ts < s[j].ts)
    BY DEF Rising
  <2>2. k + i - 1 < k + j - 1  BY <1>2, <2>1
  <2>3. /\ r[k + i - 1].ts <= r[k + j - 1].ts
        /\ SafeBoundary(r[k + j - 1]) => r[k + i - 1].ts < r[k + j - 1].ts
    BY <1>3, <1>4, <2>2 DEF Rising
  <2> QED  BY <1>3, <2>3
<1>5. ASSUME Paired(r) PROVE Paired(s)
  <2>1. SUFFICES ASSUME NEW i \in DOMAIN s, s[i].kind = "tool"
                 PROVE  i > 1 /\ s[i - 1].kind \in {"calls", "talk", "tool"}
    BY DEF Paired
  <2>2. k + i - 1 > 1 /\ r[(k + i - 1) - 1].kind \in {"calls", "talk", "tool"}
    BY <1>3, <1>5, <2>1 DEF Paired
  <2>3. i > 1
    <3>1. CASE i = 1
      <4>1. k \in 2 .. Len(r) /\ s[i] = r[k]  BY <1>2, <1>3, <2>2, <3>1
      <4> QED  BY <2>1, <4>1
    <3> QED  BY <1>2, <3>1
  <2>4. i - 1 \in DOMAIN s /\ k + (i - 1) - 1 = (k + i - 1) - 1  BY <1>2, <2>3
  <2> QED  BY <1>3, <2>2, <2>3, <2>4
<1> QED  BY <1>1, <1>4, <1>5 DEF s

\* A record more.
LEMMA GrowKeeps ==
  ASSUME NEW r \in Seq(Message), NEW m \in Message
  PROVE  /\ Rising(r) /\ (\A i \in DOMAIN r : r[i].ts <= m.ts /\ (SafeBoundary(m) => r[i].ts < m.ts))
              => Rising(Append(r, m))
         /\ Paired(r) /\ (m.kind = "tool" => r # <<>> /\ Last(r).kind \in {"calls", "talk", "tool"})
              => Paired(Append(r, m))
<1> DEFINE s == Append(r, m)
<1>1. /\ Len(r) \in Nat /\ DOMAIN r = 1 .. Len(r) /\ DOMAIN s = 1 .. Len(r) + 1
      /\ (\A i \in 1 .. Len(r) : s[i] = r[i]) /\ s[Len(r) + 1] = m
  <2>1. s \in Seq(Message) /\ Len(s) = Len(r) + 1  BY AppendProperties
  <2> QED  BY <2>1, AppendProperties, LenProperties
<1> HIDE DEF s
<1>2. ASSUME Rising(r), \A i \in DOMAIN r : r[i].ts <= m.ts /\ (SafeBoundary(m) => r[i].ts < m.ts)
      PROVE  Rising(s)
  <2>1. SUFFICES ASSUME NEW i \in DOMAIN s, NEW j \in DOMAIN s, i < j
                 PROVE  s[i].ts <= s[j].ts /\ (SafeBoundary(s[j]) => s[i].ts < s[j].ts)
    BY DEF Rising
  <2>2. i \in DOMAIN r /\ s[i] = r[i]  BY <1>1, <2>1
  <2>3. CASE j \in DOMAIN r  BY <1>1, <1>2, <2>1, <2>2, <2>3 DEF Rising
  <2>4. CASE j = Len(r) + 1  BY <1>1, <1>2, <2>2, <2>4
  <2> QED  BY <1>1, <2>3, <2>4
<1>3. ASSUME Paired(r), m.kind = "tool" => r # <<>> /\ Last(r).kind \in {"calls", "talk", "tool"}
      PROVE  Paired(s)
  <2>1. SUFFICES ASSUME NEW i \in DOMAIN s, s[i].kind = "tool"
                 PROVE  i > 1 /\ s[i - 1].kind \in {"calls", "talk", "tool"}
    BY DEF Paired
  <2>2. CASE i \in DOMAIN r
    <3>1. i > 1 /\ r[i - 1].kind \in {"calls", "talk", "tool"}
      BY <1>1, <1>3, <2>1, <2>2 DEF Paired
    <3>2. i - 1 \in 1 .. Len(r)  BY <1>1, <2>2, <3>1
    <3> QED  BY <1>1, <3>1, <3>2
  <2>3. CASE i = Len(r) + 1
    <3>1. r # <<>> /\ r[Len(r)].kind \in {"calls", "talk", "tool"}
      BY <1>1, <1>3, <2>1, <2>3 DEF Last
    <3>2. Len(r) \in 1 .. Len(r) /\ i - 1 = Len(r) /\ i > 1  BY <1>1, <2>3, <3>1, EmptySeq
    <3> QED  BY <1>1, <3>1, <3>2
  <2> QED  BY <1>1, <2>2, <2>3
<1> QED  BY <1>2, <1>3 DEF s

\* Cut in front of a safe line, the file replays what it did, or the tail of it
\* from that line on.
LEMMA PruneTail ==
  ASSUME NEW l \in Seq(Line), NEW i \in 2 .. Len(l), PruneSafe(l[i]), Sorted(l)
  PROVE  LET s == SubSeq(l, i, Len(l)) IN
           \E k \in 1 .. Len(Replay(l)) + 1 :
             /\ Replay(s) = SubSeq(Replay(l), k, Len(Replay(l)))
             /\ k \in 2 .. Len(Replay(l)) => Replay(l)[k].kind # "tool"
<1> DEFINE s == SubSeq(l, i, Len(l))
           p == SubSeq(l, 1, i - 1)
           N == {m \in Message : Newer(l, m)}
           M == {m \in Message : Newer(s, m)}
<1>1. /\ Len(l) \in Nat /\ DOMAIN l = 1 .. Len(l) /\ i \in DOMAIN l
      /\ \A j \in DOMAIN l : l[j] \in Line
  BY LenProperties, ElementOfSeq
<1>2. /\ s \in Seq(Line) /\ Len(s) = Len(l) + 1 - i
      /\ \A j \in 1 .. Len(s) : i + j - 1 \in DOMAIN l /\ s[j] = l[i + j - 1]
  <2>1. /\ s \in Seq(Line) /\ Len(s) = IF i <= Len(l) THEN Len(l) - i + 1 ELSE 0
        /\ \A j \in 1 .. Len(l) - i + 1 : s[j] = l[i + j - 1]
    BY <1>1, SubSeqProperties
  <2>2. Len(s) = Len(l) + 1 - i /\ Len(l) - i + 1 = Len(s)  BY <1>1, <2>1
  <2>3. ASSUME NEW j \in 1 .. Len(s) PROVE i + j - 1 \in DOMAIN l  BY <1>1, <2>2
  <2> QED  BY <2>1, <2>2, <2>3
<1>3. /\ p \in Seq(Line) /\ Len(p) = i - 1
      /\ \A j \in 1 .. Len(p) : j \in DOMAIN l /\ p[j] = l[j] /\ j < i
  <2>1. /\ p \in Seq(Line) /\ Len(p) = IF 1 <= i - 1 THEN (i - 1) - 1 + 1 ELSE 0
        /\ \A j \in 1 .. (i - 1) - 1 + 1 : p[j] = l[1 + j - 1]
    BY <1>1, SubSeqProperties
  <2>2. (i - 1) - 1 + 1 = i - 1 /\ \A j \in 1 .. i - 1 : 1 + j - 1 = j /\ j \in DOMAIN l /\ j < i
    BY <1>1
  <2> QED  BY <2>1, <2>2
<1>4. l = p \o s
  <2>1. i - 1 \in 0 .. Len(l) /\ (i - 1) + 1 = i /\ Len(l) \in i - 1 .. Len(l) /\ 1 \in 1 .. Len(l) + 1
    BY <1>1
  <2>2. SubSeq(l, 1, i - 1) \o SubSeq(l, (i - 1) + 1, Len(l)) = SubSeq(l, 1, Len(l))
    BY <2>1, ConcatAdjacentSubSeq
  <2> QED  BY <2>1, <2>2, SubSeqFull
<1>5. l[i] \in Message /\ l[i].kind # "tool" /\ s # <<>> /\ s[1] = l[i]
  <2>1. l[i] \in Message /\ l[i].kind # "tool"
    BY <1>1 DEF PruneSafe, Line, Message, Summary, Kind
  <2>2. 1 \in 1 .. Len(s) /\ i + 1 - 1 = i  BY <1>1, <1>2
  <2> QED  BY <1>2, <2>1, <2>2, EmptySeq
<1>6. Len(s) \in Nat /\ DOMAIN s = 1 .. Len(s)  BY <1>2, LenProperties
<1> HIDE DEF s, p
\* A summary that is cut off is behind no record that is kept.
<1>7. ASSUME NEW j \in 1 .. Len(s), s[j] \in Message
      PROVE  Newer(s, s[j]) <=> Newer(l, s[j])
  <2>1. ASSUME Newer(l, s[j]) PROVE Newer(s, s[j])  BY <1>2, <1>6, <2>1 DEF Newer
  <2>2. ASSUME Newer(s, s[j]), NEW a \in DOMAIN l, IsSummary(l[a]) PROVE s[j].ts > l[a].cutoff
    <3>1. CASE a < i
      <4>1. a < i + j - 1 /\ i + j - 1 \in DOMAIN l /\ l[i + j - 1] = s[j]
        BY <1>1, <1>2, <1>6, <3>1
      <4>2. l[a].cutoff < s[j].ts  BY <1>7, <2>2, <4>1 DEF Sorted
      <4>3. l[a].cutoff \in Nat /\ s[j].ts \in Nat  BY <1>1, <1>7, <2>2, LineKinds
      <4> QED  BY <4>2, <4>3
    <3>2. CASE a >= i
      <4> DEFINE b == a + 1 - i
      <4>1. b \in 1 .. Len(s) /\ i + b - 1 = a
        <5>1. a \in Nat /\ i \in Nat /\ a <= Len(l) /\ Len(s) = Len(l) + 1 - i  BY <1>1, <1>2
        <5>2. b \in 1 .. Len(s)  BY <1>1, <3>2, <5>1
        <5>3. i + b - 1 = a  BY <5>1
        <5> QED  BY <5>2, <5>3
      <4>2. s[b] = l[a] /\ b \in DOMAIN s  BY <1>2, <1>6, <4>1
      <4> QED  BY <2>2, <4>2 DEF Newer
    <3> QED  BY <1>1, <3>1, <3>2
  <2> QED  BY <2>1, <2>2 DEF Newer
<1>8. Replay(s) = Picked(s, N) /\ Replay(l) = Picked(l, N)
  <2>1. \A j \in 1 .. Len(s) : s[j] \in M <=> s[j] \in N  BY <1>7
  <2>2. Replay(s) = Picked(s, M) /\ Replay(l) = Picked(l, N)  BY DEF Replay
  <2> HIDE DEF M, N
  <2> QED  BY <1>2, <2>1, <2>2, PickedAgree
<1>9. Picked(l, N) = Picked(p, N) \o Picked(s, N)
  <2> HIDE DEF N
  <2> QED  BY <1>2, <1>3, <1>4, PickedConcat
<1>10. ASSUME NEW q \in Seq(Line) PROVE Picked(q, N) \in Seq(Message)
  <2>1. Picked(q, N) \in Seq(Line \cap N)  BY PickedTyped
  <2>2. Line \cap N \subseteq Message  OBVIOUS
  <2> QED  BY <2>1, <2>2, SeqMonotonic
<1> DEFINE r == Replay(l)
<1>11. r \in Seq(Message) /\ Len(r) \in Nat  BY ReplayTyped, LenProperties
<1>12. CASE l[i] \notin N
  <2>1. ASSUME NEW j \in 1 .. Len(p), p[j] \in N PROVE FALSE
    <3>1. j \in DOMAIN l /\ j < i /\ l[j] \in Message /\ Newer(l, l[j])  BY <1>3, <2>1
    <3>2. l[j].ts <= l[i].ts  BY <1>1, <1>5, <3>1 DEF Sorted
    <3>3. ASSUME NEW a \in DOMAIN l, IsSummary(l[a]) PROVE l[i].ts > l[a].cutoff
      <4>1. l[j].ts > l[a].cutoff  BY <3>1, <3>3 DEF Newer
      <4>2. l[a].cutoff \in Nat /\ l[j].ts \in Nat /\ l[i].ts \in Nat
        BY <1>1, <1>5, <3>1, <3>3, LineKinds
      <4> QED  BY <3>2, <4>1, <4>2
    <3> QED  BY <1>5, <1>12, <3>3 DEF Newer
  <2>2. Picked(p, N) = <<>>
    <3> HIDE DEF N
    <3> QED  BY <1>3, <2>1, PickedNone
  <2>3. r = Replay(s)  BY <1>2, <1>8, <1>9, <1>10, <2>2, ConcatEmptySeq
  <2>4. Replay(s) = SubSeq(r, 1, Len(r)) /\ 1 \in 1 .. Len(r) + 1 /\ 1 \notin 2 .. Len(r)
    BY <1>11, <2>3, SubSeqFull
  <2> QED  BY <2>4 DEF s
<1>13. CASE l[i] \in N
  <2> DEFINE u == Picked(p, N)
             v == Picked(s, N)
             k == Len(u) + 1
  <2>1. u \in Seq(Message) /\ v \in Seq(Message) /\ Len(u) \in Nat /\ Len(v) \in Nat
    BY <1>2, <1>3, <1>10, LenProperties
  <2>2. v # <<>> /\ v[1] = l[i]
    <3>1. PICK t \in Seq(Line) : s = <<l[i]>> \o t
      <4>1. s = <<l[i]>> \o SubSeq(l, i + 1, Len(l))
        <5>1. i \in 1 .. Len(l) /\ Len(l) \in i .. Len(l)  BY <1>1
        <5>2. SubSeq(l, i, Len(l)) = <<l[i]>> \o SubSeq(l, i + 1, Len(l))
          BY <5>1, SubSeqRecursiveFirst
        <5> QED  BY <5>2 DEF s
      <4>2. SubSeq(l, i + 1, Len(l)) \in Seq(Line)  BY <1>1, SubSeqProperties
      <4> QED  BY <4>1, <4>2
    <3>2. Picked(<<l[i]>>, N) = <<l[i]>> /\ <<l[i]>> \in Seq(Line)
      <4> DEFINE e == <<>>
                 x == l[i]
      <4>1. e \in Seq(Line) /\ x \in Line /\ x \in N  BY <1>1, <1>13, EmptySeq
      <4>2. Append(e, x) = <<x>>  OBVIOUS
      <4>3. Picked(e, N) = e  BY PickedEmpty
      <4>4. <<x>> \in Seq(Line)  BY <4>1
      <4> HIDE DEF N, e, x
      <4>5. Picked(Append(e, x), N) = Append(Picked(e, N), x)  BY <4>1, PickedAppend
      <4> QED  BY <4>1, <4>2, <4>3, <4>4, <4>5 DEF x
    <3>3. v = <<l[i]>> \o Picked(t, N)
      <4> DEFINE y == <<l[i]>>
      <4>1. y \in Seq(Line) /\ Picked(y, N) = y /\ s = y \o t  BY <3>1, <3>2
      <4> HIDE DEF N, y
      <4>2. \A q, w \in Seq(Line) : Picked(q \o w, N) = Picked(q, N) \o Picked(w, N)
        BY PickedConcat
      <4>3. v = y \o Picked(t, N)  BY <4>1, <4>2
      <4> QED  BY <4>3 DEF y
    <3>4. <<l[i]>> \in Seq(Message) /\ Len(<<l[i]>>) = 1 /\ <<l[i]>>[1] = l[i]  BY <1>5
    <3>5. Picked(t, N) \in Seq(Message) /\ Len(Picked(t, N)) \in Nat  BY <1>10, LenProperties
    <3> HIDE DEF N
    <3>6. /\ Len(v) = 1 + Len(Picked(t, N))
          /\ \A j \in 1 .. 1 + Len(Picked(t, N)) :
               v[j] = IF j <= 1 THEN <<l[i]>>[j] ELSE Picked(t, N)[j - 1]
      BY <3>3, <3>4, <3>5, ConcatProperties
    <3>7. 1 \in 1 .. 1 + Len(Picked(t, N)) /\ Len(v) > 0  BY <3>5, <3>6
    <3> QED  BY <2>1, <3>4, <3>6, <3>7, EmptySeq
  <2> HIDE DEF N, u, v
  <2>3. r = u \o v /\ Replay(s) = v  BY <1>8, <1>9 DEF u, v
  <2>4. SubSeq(r, k, Len(r)) = v /\ Len(r) = Len(u) + Len(v)
    BY <2>1, <2>3, ConcatTail, ConcatProperties
  <2>5. Len(v) >= 1  BY <2>1, <2>2, EmptySeq
  <2>6. k \in 1 .. Len(r) + 1 /\ k \in 1 .. Len(u) + Len(v) /\ ~(k <= Len(u)) /\ k - Len(u) = 1
    BY <2>1, <2>4, <2>5
  <2>7. r[k] = v[1]  BY <2>1, <2>3, <2>6, ConcatProperties
  <2> QED  BY <1>5, <2>2, <2>3, <2>4, <2>6, <2>7 DEF s
<1> QED  BY <1>12, <1>13

\* What is left of a file is as sorted and as recorded as it was.
LEMMA PruneKeeps ==
  ASSUME NEW l \in Seq(Line), NEW i \in 2 .. Len(l), NEW a
  PROVE  LET s == SubSeq(l, i, Len(l)) IN
           s \in Seq(Line) /\ (Recorded(l, a) => Recorded(s, a)) /\ (Sorted(l) => Sorted(s))
<1> DEFINE s == SubSeq(l, i, Len(l))
<1>1. Len(l) \in Nat /\ DOMAIN l = 1 .. Len(l) /\ \A j \in i .. Len(l) : l[j] \in Line
  BY LenProperties, ElementOfSeq
<1>2. /\ s \in Seq(Line) /\ Len(s) = Len(l) - i + 1
      /\ \A j \in 1 .. Len(l) - i + 1 : s[j] = l[i + j - 1]
  BY <1>1, SubSeqProperties
<1>3. \A j \in DOMAIN s : j \in Nat /\ i + j - 1 \in DOMAIN l /\ s[j] = l[i + j - 1]
  <2> TAKE j \in DOMAIN s
  <2>1. j \in 1 .. Len(l) - i + 1 /\ j \in Nat  BY <1>2, LenProperties
  <2>2. i + j - 1 \in DOMAIN l  BY <1>1, <2>1
  <2> QED  BY <1>2, <2>1, <2>2
<1> HIDE DEF s
<1>4. ASSUME Recorded(l, a) PROVE Recorded(s, a)  BY <1>3, <1>4 DEF Recorded
<1>5. ASSUME Sorted(l) PROVE Sorted(s)
  <2>1. SUFFICES ASSUME NEW b \in DOMAIN s, NEW c \in DOMAIN s, b < c, s[c] \in Message
                 PROVE  /\ s[b] \in Message => s[b].ts <= s[c].ts
                        /\ IsSummary(s[b]) => s[b].cutoff < s[c].ts
    BY DEF Sorted
  <2>2. i + b - 1 < i + c - 1  BY <1>3, <2>1
  <2> QED  BY <1>3, <1>5, <2>1, <2>2 DEF Sorted
<1> QED  BY <1>2, <1>4, <1>5 DEF s

-----------------------------------------------------------------------------
(***************************************************************************)
(* The inductive invariant.  While the stamps can tell a cut apart, the    *)
(* file is in their order, so that a filter by stamp is a cut by place;    *)
(* and while nothing was pruned, what it replays is what was appended      *)
(* behind the records the newest summary covers.                           *)
(***************************************************************************)

\* An invocation runs on a file it could read; attached, it holds what the file
\* replays.
Writer ==
  /\ pc = "run" => Readable
  /\ prunes = 0 /\ pc # "closed" => attached
  /\ attached /\ pc = "run" => told = Covered(file) /\ (steady => mem = Replay(file))

Numbered == \A i \in DOMAIN appended : appended[i].id = i

Ordered ==
  /\ Sorted(file) /\ Rising(Replay(file)) /\ Paired(Replay(file))
  /\ pc = "run" => Paired(mem)

Whole ==
  \E n \in 0 .. Len(appended) :
    Covered(file) = 1 .. n /\ Replay(file) = SubSeq(appended, n + 1, Len(appended))

IInv ==
  /\ TypeOK /\ Recorded(file, appended) /\ Writer /\ Numbered
  /\ steady => Ordered
  /\ steady /\ prunes = 0 => Whole
\* The readers see no difference.
Same ==
  /\ file' \in Seq(Line)
  /\ Replay(file') = Replay(file) /\ Covered(file') = Covered(file)
  /\ Sorted(file') <=> Sorted(file)
  /\ Recorded(file', appended) <=> Recorded(file, appended)

\* Lines that say nothing.
LEMMA QuietWrite ==
  ASSUME TypeOK, NEW x \in {Torn, Other}, file' \in {file, Put(file, x)}
  PROVE  Same
<1>1. file \in Seq(Line)  BY DEF TypeOK
<1> QED  BY <1>1, QuietPut DEF Same

\* What a step keeps that the readers do not see.
LEMMA Kept ==
  ASSUME IInv, Same, UNCHANGED <<appended, steady, prunes>>,
         steady /\ pc' = "run" => Paired(mem')
  PROVE  /\ Recorded(file', appended') /\ Numbered'
         /\ steady' => Ordered'
         /\ steady' /\ prunes' = 0 => Whole'
<1>1. Recorded(file', appended')  BY DEF IInv, Same
<1>2. Numbered'  BY DEF IInv, Numbered
<1>3. steady' => Ordered'  BY DEF IInv, Same, Ordered
<1>4. steady' /\ prunes' = 0 => Whole'  BY DEF IInv, Same, Whole
<1> QED  BY <1>1, <1>2, <1>3, <1>4

\* Open: a start record, and a handle to the file at the path.
LEMMA TellKeeps == IInv /\ (Tell \/ Approve) => IInv'
<1> SUFFICES ASSUME IInv, Tell \/ Approve PROVE IInv'  OBVIOUS
<1>1. /\ pc = "closed" /\ pc' \in {"prune", "load"} /\ attached' = TRUE
      /\ file' = Put(file, Other) /\ opens < MaxOpens /\ opens' = opens + 1
      /\ UNCHANGED <<now, mem, told, appended, steady, folds, prunes, torn>>
  BY DEF Tell, Approve, Open
<1>2. Same  BY <1>1, QuietWrite DEF IInv
<1>3. TypeOK'
  <2>1. opens' \in 0 .. MaxOpens  BY <1>1, LogAssumption DEF IInv, TypeOK
  <2> QED  BY <1>1, <1>2, <2>1 DEF IInv, TypeOK, Same
<1>4. Writer'  BY <1>1 DEF Writer
<1> QED  BY <1>1, <1>2, <1>3, <1>4, Kept DEF IInv

\* Close, with or without a last line that says nothing.
LEMMA ClosedKeeps ==
  ASSUME IInv, Close, Same, UNCHANGED <<now, appended, steady, opens, folds, prunes>>,
         torn' \in 0 .. MaxTorn
  PROVE  IInv'
<1>1. pc' = "closed" /\ attached' = FALSE /\ mem' = <<>> /\ told' = {}  BY DEF Close
<1>2. TypeOK'  BY <1>1, EmptySeq DEF IInv, TypeOK, Same
<1>3. Writer'  BY <1>1 DEF Writer
<1> QED  BY <1>1, <1>2, <1>3, Kept DEF IInv

\* The steps that end an invocation.
LEMMA ClosingKeeps == IInv /\ (Unreadable \/ AppendTorn \/ Exit) => IInv'
<1>1. ASSUME IInv, Unreadable PROVE IInv'
  <2>1. /\ Close /\ file' \in {file, Put(file, Other)}
        /\ UNCHANGED <<now, appended, steady, opens, folds, prunes, torn>>
    BY <1>1 DEF Unreadable, Write
  <2>2. Same  BY <1>1, <2>1, QuietWrite DEF IInv
  <2> QED  BY <1>1, <2>1, <2>2, ClosedKeeps DEF IInv, TypeOK
<1>2. ASSUME IInv, AppendTorn PROVE IInv'
  <2>1. /\ Close /\ file' \in {file, Put(file, Torn)} /\ torn < MaxTorn /\ torn' = torn + 1
        /\ UNCHANGED <<now, appended, steady, opens, folds, prunes>>
    BY <1>2 DEF AppendTorn, Write
  <2>2. Same  BY <1>2, <2>1, QuietWrite DEF IInv
  <2>3. torn' \in 0 .. MaxTorn  BY <1>2, <2>1, LogAssumption DEF IInv, TypeOK
  <2> QED  BY <1>2, <2>1, <2>2, <2>3, ClosedKeeps
<1>3. ASSUME IInv, Exit PROVE IInv'
  <2>1. Close /\ UNCHANGED <<file, now, appended, steady, opens, folds, prunes, torn>>
    BY <1>3 DEF Exit
  <2>2. Same  BY <1>3, <2>1, QuietWrite DEF IInv
  <2> QED  BY <1>3, <2>1, <2>2, ClosedKeeps DEF IInv, TypeOK
<1> QED  BY <1>1, <1>2, <1>3

\* Nothing is written before an invocation runs, or while it only waits.
LEMMA StillKeeps == IInv /\ (Tick \/ SkipPrune \/ SkipFold \/ Load) => IInv'
<1> SUFFICES ASSUME IInv, Tick \/ SkipPrune \/ SkipFold \/ Load PROVE IInv'  OBVIOUS
<1>1. UNCHANGED <<file, attached, appended, steady, opens, folds, prunes, torn>>
  BY DEF Tick, SkipPrune, SkipFold, Load
<1>2. Same  BY <1>1, QuietWrite DEF IInv
<1>3. TypeOK'
  <2>1. now' \in 0 .. MaxTime /\ pc' \in {"prune", "fold", "load", "run"}
    BY DEF IInv, TypeOK, Tick, SkipPrune, SkipFold, Load
  <2>2. mem' \in Seq(Message) /\ told' \subseteq 1 .. MaxRecords
    <3>1. Replay(file) \in Seq(Message) /\ Covered(file) \subseteq 1 .. MaxRecords
      BY ReplayTyped, CoveredTyped DEF IInv, TypeOK
    <3> QED  BY <3>1 DEF IInv, TypeOK, Tick, SkipPrune, SkipFold, Load
  <2> QED  BY <1>1, <2>1, <2>2 DEF IInv, TypeOK
<1>4. Writer'
  <2>1. CASE Tick  BY <2>1 DEF IInv, Writer, Tick, Readable
  <2>2. CASE SkipPrune \/ SkipFold  BY <2>2 DEF IInv, Writer, SkipPrune, SkipFold
  <2>3. CASE Load  BY <2>3 DEF IInv, Writer, Load, Readable
  <2> QED  BY <2>1, <2>2, <2>3
<1>5. steady /\ pc' = "run" => Paired(mem')
  BY DEF IInv, Ordered, Tick, SkipPrune, SkipFold, Load
<1> QED  BY <1>1, <1>2, <1>3, <1>4, <1>5, Kept DEF IInv

\* A fragment of a summary.
LEMMA FoldTornKeeps == IInv /\ FoldTorn => IInv'
<1> SUFFICES ASSUME IInv, FoldTorn PROVE IInv'  OBVIOUS
<1>1. /\ pc = "fold" /\ pc' = "load" /\ file' \in {file, Put(file, Torn)}
      /\ torn < MaxTorn /\ torn' = torn + 1
      /\ UNCHANGED <<attached, now, mem, told, appended, steady, opens, folds, prunes>>
  BY DEF FoldTorn, Write
<1>2. Same  BY <1>1, QuietWrite DEF IInv
<1>3. TypeOK'
  <2>1. torn' \in 0 .. MaxTorn  BY <1>1, LogAssumption DEF IInv, TypeOK
  <2> QED  BY <1>1, <1>2, <2>1 DEF IInv, TypeOK, Same
<1>4. Writer'  BY <1>1 DEF IInv, Writer
<1> QED  BY <1>1, <1>2, <1>3, <1>4, Kept DEF IInv

\* Prune: a suffix of the file, and a handle that leads nowhere.
LEMMA PruneKeepsAll == IInv /\ Prune => IInv'
<1> SUFFICES ASSUME IInv, Prune PROVE IInv'  OBVIOUS
<1>1. PICK i \in PruneCuts : file' = SubSeq(file, i, Len(file))  BY DEF Prune
<1>2. /\ pc' = "fold" /\ attached' = FALSE /\ prunes < MaxPrunes /\ prunes' = prunes + 1
      /\ UNCHANGED <<now, mem, told, appended, steady, opens, folds, torn>>
  BY DEF Prune
<1>3. /\ file \in Seq(Line) /\ i \in 2 .. Len(file) /\ PruneSafe(file[i])
      /\ Recorded(file, appended)
  BY <1>1 DEF IInv, TypeOK, PruneCuts
<1>4. /\ file' \in Seq(Line) /\ Recorded(file', appended)
      /\ Sorted(file) => Sorted(file')
  BY <1>1, <1>3, PruneKeeps
<1>5. prunes' \in 1 .. MaxPrunes  BY <1>2, LogAssumption DEF IInv, TypeOK
<1>6. TypeOK'
  <2>1. prunes' \in 0 .. MaxPrunes  BY <1>5
  <2>2. pc' \in {"closed", "prune", "fold", "load", "run"} /\ attached' \in BOOLEAN  BY <1>2
  <2> QED  BY <1>2, <1>4, <2>1, <2>2 DEF IInv, TypeOK
<1>7. Writer' /\ Numbered' /\ Recorded(file', appended')
  BY <1>2, <1>4, <1>5 DEF IInv, Writer, Numbered
<1>8. ASSUME steady PROVE Ordered'
  <2>1. Sorted(file) /\ Rising(Replay(file)) /\ Paired(Replay(file))  BY <1>8 DEF IInv, Ordered
  <2>2. PICK k \in 1 .. Len(Replay(file)) + 1 :
          /\ Replay(file') = SubSeq(Replay(file), k, Len(Replay(file)))
          /\ k \in 2 .. Len(Replay(file)) => Replay(file)[k].kind # "tool"
    BY <1>1, <1>3, <2>1, PruneTail
  <2>3. Replay(file) \in Seq(Message)  BY <1>3, ReplayTyped
  <2>4. Rising(Replay(file')) /\ Paired(Replay(file'))  BY <2>1, <2>2, <2>3, TailKeeps
  <2> QED  BY <1>2, <1>4, <2>1, <2>4 DEF Ordered
<1> QED  BY <1>2, <1>5, <1>6, <1>7, <1>8 DEF IInv

\* A summary that is written is a line.
LEMMA SummaryTyped ==
  ASSUME NEW l \in Seq(Line), NEW keep \in Cutoffs(Replay(l))
  PROVE  SummaryOf(l, Replay(l), keep) \in Summary
<1> DEFINE r == Replay(l)
<1>1. /\ r \in Seq(Message) /\ Len(r) \in Nat /\ Covered(l) \subseteq 1 .. MaxRecords
      /\ \A i \in 1 .. Len(r) : r[i] \in Message
  BY ReplayTyped, CoveredTyped, LenProperties, ElementOfSeq
<1> HIDE DEF r
<1>2. keep \in 2 .. Len(r) + 1
  <2>1. keep \in Cutoffs(r)  BY DEF r
  <2> QED  BY <1>1, <2>1, EmptySeq DEF Cutoffs
<1>3. keep - 1 \in 1 .. Len(r) /\ \A i \in 1 .. keep - 1 : i \in 1 .. Len(r)  BY <1>1, <1>2
<1>4. r[keep - 1].ts \in 0 .. MaxTime /\ \A i \in 1 .. keep - 1 : r[i].id \in 1 .. MaxRecords
  BY <1>1, <1>3 DEF Message
<1>5. Covered(l) \cup {r[i].id : i \in 1 .. keep - 1} \in SUBSET (1 .. MaxRecords)
  BY <1>1, <1>4
<1> QED  BY <1>4, <1>5 DEF SummaryOf, Summary, r

\* So is a record.
LEMMA RecordTyped ==
  ASSUME TypeOK, NEW k \in Kind, AppendRecord(k)
  PROVE  [kind |-> k, ts |-> now', id |-> Len(appended) + 1] \in Message
<1>1. Len(appended) < MaxRecords /\ Stamped(k) /\ now' <= MaxTime  BY DEF AppendRecord
<1>2. Len(appended) \in Nat  BY LenProperties DEF TypeOK
<1>3. now' \in 0 .. MaxTime  BY <1>1, LogAssumption DEF TypeOK, Stamped
<1>4. Len(appended) + 1 \in 1 .. MaxRecords  BY <1>1, <1>2, LogAssumption
<1> QED  BY <1>3, <1>4 DEF Message

\* Fold: the stamps cut what is replayed where the summary stops.
LEMMA FoldKeeps == IInv /\ Fold => IInv'
<1> SUFFICES ASSUME IInv, Fold PROVE IInv'  OBVIOUS
<1> DEFINE r == Replay(file)
<1>1. PICK keep \in Cutoffs(r) : Write(SummaryOf(file, r, keep))  BY DEF Fold
<1>2. /\ pc = "fold" /\ pc' = "load" /\ Readable /\ now' = now + 1 /\ now < MaxTime
      /\ folds < MaxFolds /\ folds' = folds + 1
      /\ UNCHANGED <<attached, mem, told, appended, steady, opens, prunes, torn>>
  BY DEF Fold
<1> DEFINE s == SummaryOf(file, r, keep)
<1>3. /\ file \in Seq(Line) /\ appended \in Seq(Message) /\ Recorded(file, appended)
      /\ r \in Seq(Message) /\ Len(r) \in Nat /\ DOMAIN r = 1 .. Len(r)
      /\ \A i \in 1 .. Len(r) : r[i] \in Message
  BY ReplayTyped, LenProperties, ElementOfSeq DEF IInv, TypeOK
<1> HIDE DEF r
<1>4. /\ keep \in 2 .. Len(r) + 1 /\ keep - 1 \in DOMAIN r
      /\ keep \in 2 .. Len(r) => SafeBoundary(r[keep])
  BY <1>3, EmptySeq DEF Cutoffs
<1>5. /\ s \in Summary /\ s.cutoff = r[keep - 1].ts
      /\ s.covers = Covered(file) \cup {r[i].id : i \in 1 .. keep - 1}
  <2>1. s \in Summary  BY <1>3, SummaryTyped DEF r
  <2> QED  BY <2>1 DEF SummaryOf
<1>6. s \in Line /\ IsSummary(s) /\ s \notin Message  BY <1>5, LineKinds DEF Line
<1>7. file' = IF attached THEN Append(file, s) ELSE file
  BY <1>1, <1>2, <1>3, ReadablePut DEF Write
<1> HIDE DEF s
<1>8. TypeOK'
  <2>1. file' \in Seq(Line)  BY <1>3, <1>6, <1>7, AppendLine
  <2>2. folds' \in 0 .. MaxFolds /\ now' \in 0 .. MaxTime
    BY <1>2, LogAssumption DEF IInv, TypeOK
  <2> QED  BY <1>2, <2>1, <2>2 DEF IInv, TypeOK
<1>9. Writer' /\ Numbered'  BY <1>2 DEF IInv, Writer, Numbered
<1>10. CASE ~attached
  <2>1. file' \in {file, Put(file, Other)} /\ Other \in {Torn, Other}  BY <1>7, <1>10
  <2>2. Same  BY <2>1, QuietWrite DEF IInv
  <2> QED  BY <1>2, <1>8, <1>9, <2>2, Kept DEF IInv
<1>11. CASE attached
  <2>1. file' = Append(file, s)  BY <1>7, <1>11
  <2>2. /\ \A i \in DOMAIN file' : i \in DOMAIN file \/ file'[i] = s
        /\ \A i \in DOMAIN file : file'[i] = file[i]
        /\ \A j \in DOMAIN file' :
             file'[j] \in Message => j \in DOMAIN file /\ \A i \in DOMAIN file' : i < j => i \in DOMAIN file
    <3>1. /\ DOMAIN file = 1 .. Len(file) /\ DOMAIN file' = 1 .. Len(file) + 1 /\ Len(file) \in Nat
          /\ (\A i \in DOMAIN file : file'[i] = file[i]) /\ file'[Len(file) + 1] = s
      BY <1>3, <1>6, <2>1, AppendLine
    <3>2. \A i \in DOMAIN file' : i \in DOMAIN file \/ i = Len(file) + 1  BY <3>1
    <3>3. \A j \in DOMAIN file : \A i \in DOMAIN file' : i < j => i \in DOMAIN file  BY <3>1
    <3> QED  BY <1>6, <3>1, <3>2, <3>3
  <2>3. Recorded(file', appended')
    <3>1. PICK j \in DOMAIN file : file[j] = r[keep - 1]  BY <1>3, <1>4, ReplayTyped DEF r
    <3>2. PICK k \in DOMAIN appended : appended[k] = r[keep - 1]
      BY <1>3, <1>4, <3>1 DEF Recorded
    <3>3. appended[k].ts = s.cutoff  BY <1>5, <3>2
    <3> QED  BY <1>2, <1>3, <1>6, <2>2, <3>3 DEF Recorded
  <2>4. ASSUME steady
        PROVE  /\ Covered(file') = s.covers /\ Replay(file') = SubSeq(r, keep, Len(r))
               /\ Ordered'
    <3>1. Sorted(file) /\ Rising(r) /\ Paired(r)  BY <2>4 DEF IInv, Ordered, r
    <3>2. ASSUME NEW i \in 1 .. Len(r) PROVE r[i].ts > s.cutoff <=> i >= keep
      <4>1. r[i].ts \in Nat /\ s.cutoff \in Nat /\ r[keep - 1].ts \in Nat
        BY <1>3, <1>4, <1>5, <3>2, LineKinds
      <4>2. CASE i < keep
        <5>1. i = keep - 1 \/ i < keep - 1  BY <4>2, <1>4
        <5>2. r[i].ts <= r[keep - 1].ts  BY <1>3, <1>4, <3>1, <4>1, <5>1 DEF Rising
        <5> QED  BY <1>4, <1>5, <4>1, <4>2, <5>2
      <4>3. CASE i >= keep
        <5>1. keep \in 2 .. Len(r) /\ keep \in DOMAIN r /\ keep - 1 < keep  BY <1>3, <1>4, <4>3
        <5>2. r[keep - 1].ts < r[keep].ts  BY <1>4, <3>1, <5>1 DEF Rising
        <5>3. r[keep].ts \in Nat  BY <1>3, <5>1, LineKinds
        <5>4. r[keep].ts <= r[i].ts
          <6>1. i = keep \/ keep < i  BY <1>4, <4>3
          <6> QED  BY <1>3, <3>1, <5>1, <5>3, <6>1 DEF Rising
        <5> QED  BY <1>5, <4>1, <4>3, <5>2, <5>3, <5>4
      <4> QED  BY <1>4, <4>2, <4>3
    <3>3. keep \in 1 .. Len(r) + 1  BY <1>3, <1>4
    <3>4. Covered(file') = s.covers /\ Replay(file') = SubSeq(r, keep, Len(r))
      BY <1>3, <1>5, <2>1, <3>2, <3>3, SummaryAppend DEF r
    <3>5. keep \in 2 .. Len(r) => r[keep].kind # "tool"  BY <1>4 DEF SafeBoundary
    <3>6. Rising(Replay(file')) /\ Paired(Replay(file'))
      BY <1>3, <3>1, <3>3, <3>4, <3>5, TailKeeps
    <3>7. Sorted(file')  BY <2>2, <3>1 DEF Sorted
    <3> QED  BY <1>2, <3>4, <3>6, <3>7 DEF Ordered
  <2>5. ASSUME steady, prunes = 0 PROVE Whole'
    <3>1. PICK n \in 0 .. Len(appended) :
            Covered(file) = 1 .. n /\ r = SubSeq(appended, n + 1, Len(appended))
      BY <2>5 DEF IInv, Whole, r
    <3> DEFINE L == Len(appended)
    <3>2. /\ L \in Nat /\ Len(r) = L - n /\ \A i \in 1 .. L - n : r[i] = appended[n + i]
      <4>1. /\ Len(appended) \in Nat /\ \A i \in n + 1 .. Len(appended) : appended[i] \in Message
        BY <1>3, LenProperties, ElementOfSeq
      <4>2. /\ Len(r) = IF n + 1 <= L THEN L - (n + 1) + 1 ELSE 0
            /\ \A i \in 1 .. L - (n + 1) + 1 : r[i] = appended[n + 1 + i - 1]
        BY <3>1, <4>1, SubSeqProperties
      <4>3. L \in Nat /\ n \in Nat /\ n <= L  BY <4>1
      <4> HIDE DEF L
      <4>4. L - (n + 1) + 1 = L - n /\ \A i \in Nat : n + 1 + i - 1 = n + i  BY <4>3
      <4>5. Len(r) = L - n
        <5>1. CASE n + 1 <= L
          <6>1. Len(r) = L - (n + 1) + 1  BY <4>2, <5>1
          <6> QED  BY <4>4, <6>1
        <5>2. CASE n = L
          <6>1. ~(n + 1 <= L) /\ L - n = 0  BY <4>3, <5>2
          <6>2. Len(r) = 0  BY <4>2, <6>1
          <6> QED  BY <6>1, <6>2
        <5> QED  BY <4>3, <5>1, <5>2
      <4> QED  BY <4>2, <4>3, <4>4, <4>5
    <3> DEFINE c == n + (keep - 1)
    <3>3. c \in 0 .. L /\ keep \in Nat /\ c + 1 = n + keep
      <4>1. L \in Nat /\ n \in Nat /\ keep \in Nat /\ keep >= 2 /\ keep <= (L - n) + 1
        BY <1>3, <1>4, <3>2
      <4> HIDE DEF L
      <4> QED  BY <4>1
    <3>4. {r[i].id : i \in 1 .. keep - 1} = n + 1 .. c
      <4>1. \A i \in 1 .. keep - 1 : i \in 1 .. L - n /\ n + i \in DOMAIN appended
        BY <1>3, <1>4, <3>2, <3>3, LenProperties
      <4>2. \A i \in 1 .. keep - 1 : r[i].id = n + i  BY <3>2, <4>1 DEF IInv, Numbered
      <4>3. \A i \in n + 1 .. c : i - n \in 1 .. keep - 1 /\ n + (i - n) = i  BY <3>3
      <4>4. \A i \in 1 .. keep - 1 : n + i \in n + 1 .. c  BY <3>3
      <4> QED  BY <4>2, <4>3, <4>4
    <3>5. s.covers = 1 .. c
      <4>1. (1 .. n) \cup (n + 1 .. c) = 1 .. c  BY <1>4, <3>3
      <4> QED  BY <1>5, <3>1, <3>4, <4>1
    <3>6. SubSeq(r, keep, Len(r)) = SubSeq(appended, c + 1, L)
      <4> DEFINE x == SubSeq(r, keep, Len(r))
                 y == SubSeq(appended, c + 1, L)
      <4>1. /\ x \in Seq(Message) /\ Len(x) = IF keep <= Len(r) THEN Len(r) - keep + 1 ELSE 0
            /\ \A i \in 1 .. Len(r) - keep + 1 : x[i] = r[keep + i - 1]
        <5>1. \A i \in keep .. Len(r) : r[i] \in Message
          <6>1. keep \in Nat /\ keep >= 1  BY <1>3, <1>4
          <6> QED  BY <1>3, <6>1
        <5> QED  BY <1>3, <3>3, <5>1, SubSeqProperties
      <4>2. /\ y \in Seq(Message) /\ Len(y) = IF c + 1 <= L THEN L - (c + 1) + 1 ELSE 0
            /\ \A i \in 1 .. L - (c + 1) + 1 : y[i] = appended[c + 1 + i - 1]
        <5>1. \A i \in c + 1 .. L : appended[i] \in Message  BY <1>3, <3>2, <3>3, ElementOfSeq
        <5>2. c + 1 \in Int /\ L \in Int  BY <3>2, <3>3
        <5> QED  BY <5>1, <5>2, SubSeqProperties
      <4> DEFINE d == Len(r) + 1 - keep
      <4>3. Len(x) = d /\ Len(y) = d /\ d \in Nat  BY <1>4, <3>2, <3>3, <4>1, <4>2
      <4>4. ASSUME NEW i \in 1 .. d PROVE x[i] = y[i]
        <5>1. /\ i \in 1 .. Len(r) - keep + 1 /\ i \in 1 .. L - (c + 1) + 1
              /\ keep + i - 1 \in 1 .. L - n /\ n + (keep + i - 1) = c + 1 + i - 1
          BY <1>4, <3>2, <3>3, <4>3
        <5>2. x[i] = r[keep + i - 1] /\ y[i] = appended[c + 1 + i - 1]  BY <4>1, <4>2, <5>1
        <5>3. r[keep + i - 1] = appended[n + (keep + i - 1)]  BY <3>2, <5>1
        <5> QED  BY <5>1, <5>2, <5>3
      <4> HIDE DEF x, y, d
      <4> QED  BY <4>1, <4>2, <4>3, <4>4, SeqEqual DEF x, y
    <3>7. Covered(file') = 1 .. c /\ Replay(file') = SubSeq(appended, c + 1, Len(appended))
      BY <2>4, <2>5, <3>5, <3>6
    <3> HIDE DEF c
    <3> QED  BY <1>2, <3>3, <3>7 DEF Whole
  <2> QED  BY <1>2, <1>8, <1>9, <2>3, <2>4, <2>5 DEF IInv
<1> QED  BY <1>10, <1>11

\* AppendRecord: the record is newer than every cutoff, and goes where it belongs.
LEMMA AppendKeeps ==
  ASSUME IInv, NEW kind \in Kind, AppendRecord(kind)
  PROVE  IInv'
<1> DEFINE m == [kind |-> kind, ts |-> now', id |-> Len(appended) + 1]
           r == Replay(file)
<1>1. /\ pc = "run" /\ Len(appended) < MaxRecords /\ Follows(kind)
      /\ Stamped(kind) /\ now' <= MaxTime
      /\ Write(m) /\ appended' = Append(appended, m) /\ mem' = Append(mem, m)
      /\ steady' = (steady /\ SteadyAt(kind, now'))
      /\ UNCHANGED <<attached, pc, told, opens, folds, prunes, torn>>
  BY DEF AppendRecord
<1>2. /\ file \in Seq(Line) /\ mem \in Seq(Message) /\ appended \in Seq(Message)
      /\ Recorded(file, appended) /\ r \in Seq(Message) /\ Readable
  BY <1>1, ReplayTyped DEF IInv, TypeOK, Writer
<1>3. /\ Len(appended) \in Nat /\ DOMAIN appended = 1 .. Len(appended)
      /\ DOMAIN mem = 1 .. Len(mem) /\ Len(mem) \in Nat /\ DOMAIN file = 1 .. Len(file)
      /\ \A i \in DOMAIN appended : appended[i] \in Message
  BY <1>2, LenProperties, ElementOfSeq
<1>4. m \in Message /\ m.ts = now' /\ m.kind = kind /\ m.id = Len(appended) + 1
  BY RecordTyped DEF IInv
<1>5. m \in Message /\ m.ts = now' /\ m.kind = kind /\ m.id = Len(appended) + 1 /\ now' \in 0 .. MaxTime
  BY <1>4 DEF Message
<1>6. m \in Line /\ ~IsSummary(m)  BY <1>5, LineKinds
<1>7. file' = IF attached THEN Append(file, m) ELSE file  BY <1>1, <1>2, ReadablePut DEF Write
<1> HIDE DEF m, r
<1>8. /\ DOMAIN appended' = 1 .. Len(appended) + 1 /\ Len(appended') = Len(appended) + 1
      /\ appended' \in Seq(Message) /\ mem' \in Seq(Message)
      /\ (\A i \in DOMAIN appended : appended'[i] = appended[i] /\ i \in DOMAIN appended')
      /\ appended'[Len(appended) + 1] = m /\ Len(appended) + 1 \in DOMAIN appended'
  <2>1. /\ Append(appended, m) \in Seq(Message) /\ Append(mem, m) \in Seq(Message)
        /\ Len(Append(appended, m)) = Len(appended) + 1
        /\ (\A i \in 1 .. Len(appended) : Append(appended, m)[i] = appended[i])
        /\ Append(appended, m)[Len(appended) + 1] = m
    BY <1>2, <1>5, AppendProperties
  <2>2. DOMAIN Append(appended, m) = 1 .. Len(appended) + 1  BY <2>1, LenProperties
  <2>3. DOMAIN appended \subseteq 1 .. Len(appended) + 1 /\ Len(appended) + 1 \in 1 .. Len(appended) + 1
    BY <1>3
  <2> QED  BY <1>1, <1>3, <2>1, <2>2, <2>3
<1>9. TypeOK'
  <2>1. file' \in Seq(Line) /\ steady' \in BOOLEAN
    BY <1>1, <1>2, <1>6, <1>7, AppendLine DEF IInv, TypeOK
  <2> QED  BY <1>1, <1>5, <1>8, <2>1 DEF IInv, TypeOK
<1>10. Numbered'  BY <1>3, <1>5, <1>8 DEF IInv, Numbered
\* Lines of the file, before and after.
<1>11. /\ \A i \in DOMAIN file' : i \in DOMAIN file \/ file'[i] = m
       /\ \A i \in DOMAIN file : file'[i] = file[i] /\ i \in DOMAIN file'
       /\ \A i, j \in DOMAIN file' : i < j => i \in DOMAIN file
  <2>1. CASE attached
    <3>1. /\ Len(file) \in Nat /\ DOMAIN file = 1 .. Len(file) /\ DOMAIN file' = 1 .. Len(file) + 1
          /\ (\A i \in DOMAIN file : file'[i] = file[i]) /\ file'[Len(file) + 1] = m
      BY <1>2, <1>6, <1>7, <2>1, AppendLine
    <3> QED  BY <3>1
  <2>2. CASE ~attached  BY <1>3, <1>7, <2>2
  <2> QED  BY <2>1, <2>2
<1>12. Recorded(file', appended')
  <2>1. ASSUME NEW i \in DOMAIN file', file'[i] \in Message
        PROVE  \E k \in DOMAIN appended' : appended'[k] = file'[i]
    BY <1>2, <1>8, <1>11, <2>1 DEF Recorded
  <2>2. ASSUME NEW i \in DOMAIN file', IsSummary(file'[i])
        PROVE  \E k \in DOMAIN appended' : appended'[k].ts = file'[i].cutoff
    <3>1. i \in DOMAIN file /\ file'[i] = file[i]  BY <1>6, <1>11, <2>2
    <3>2. PICK k \in DOMAIN appended : appended[k].ts = file[i].cutoff
      BY <1>2, <2>2, <3>1 DEF Recorded
    <3> QED  BY <1>8, <3>1, <3>2
  <2> QED  BY <2>1, <2>2 DEF Recorded
<1>13. Covered(file') = Covered(file)  BY <1>2, <1>5, <1>7, MessageAppend
\* The stamp is newer than every cutoff, and than what came before.
<1>14. ASSUME steady'
       PROVE  /\ \A i \in DOMAIN appended :
                   appended[i].ts <= m.ts /\ (SafeBoundary(m) => appended[i].ts < m.ts)
              /\ attached => Newer(file, m) /\ mem = r
  <2>1. steady /\ SteadyAt(kind, m.ts) /\ (SafeBoundary(m) <=> SafeBoundary([kind |-> kind]))
    BY <1>1, <1>5, <1>14 DEF SafeBoundary
  <2>2. m.ts \in Nat /\ \A i \in DOMAIN appended : appended[i].ts \in Nat
    BY <1>3, <1>5, LineKinds
  <2>3. \A i \in DOMAIN appended :
          appended[i].ts <= m.ts /\ (SafeBoundary(m) \/ mem = <<>> => appended[i].ts < m.ts)
    BY <2>1, <2>2 DEF SteadyAt
  <2>4. ASSUME attached PROVE Newer(file, m) /\ mem = r
    <3>1. mem = r  BY <1>1, <2>1, <2>4 DEF IInv, Writer, r
    <3>2. ASSUME NEW i \in DOMAIN file, IsSummary(file[i]) PROVE m.ts > file[i].cutoff
      <4>1. PICK k \in DOMAIN appended : appended[k].ts = file[i].cutoff
        BY <1>2, <3>2 DEF Recorded
      <4>2. CASE mem = <<>>  BY <2>2, <2>3, <4>1, <4>2
      <4>3. CASE mem # <<>>
        <5>1. 1 \in DOMAIN r  BY <1>2, <1>3, <3>1, <4>3, EmptySeq
        <5>2. r[1] \in Message /\ Newer(file, r[1]) /\ \E j \in DOMAIN file : file[j] = r[1]
          BY <1>2, <5>1, ReplayTyped DEF r
        <5>3. PICK n \in DOMAIN appended : appended[n] = r[1]  BY <1>2, <5>2 DEF Recorded
        <5>4. r[1].ts > file[i].cutoff /\ r[1].ts <= m.ts  BY <2>3, <3>2, <5>2, <5>3 DEF Newer
        <5> QED  BY <2>2, <4>1, <5>3, <5>4
      <4> QED  BY <4>2, <4>3
    <3> QED  BY <3>1, <3>2 DEF Newer
  <2> QED  BY <2>3, <2>4
<1>15. ASSUME steady', attached PROVE Replay(file') = Append(r, m)
  BY <1>2, <1>5, <1>7, <1>14, <1>15, MessageAppend DEF r
<1>16. Writer'
  <2>1. Readable'
    <3>1. m.kind \notin {"torn", "bad"}  BY <1>5 DEF Kind
    <3> QED  BY <1>2, <1>11, <3>1 DEF Readable
  <2>2. attached => told' = Covered(file') /\ (steady' => mem' = Replay(file'))
    BY <1>1, <1>13, <1>14, <1>15 DEF IInv, Writer
  <2> QED  BY <1>1, <2>1, <2>2 DEF IInv, Writer
<1>17. ASSUME steady' PROVE Ordered'
  <2>1. steady /\ Sorted(file) /\ Rising(r) /\ Paired(r) /\ Paired(mem)
    BY <1>1, <1>17 DEF IInv, Ordered, r
  <2>2. m.kind = "tool" => mem # <<>> /\ Last(mem).kind \in {"calls", "talk", "tool"}
    BY <1>1, <1>5 DEF Follows
  <2>3. Paired(mem')  BY <1>1, <1>2, <1>5, <2>1, <2>2, GrowKeeps
  <2>4. CASE ~attached  BY <1>7, <2>1, <2>3, <2>4 DEF Ordered, r
  <2>5. CASE attached
    <3>1. mem = r /\ Newer(file, m) /\ Replay(file') = Append(r, m)
      BY <1>14, <1>15, <1>17, <2>5
    <3>2. \A i \in DOMAIN r : r[i].ts <= m.ts /\ (SafeBoundary(m) => r[i].ts < m.ts)
      <4> TAKE i \in DOMAIN r
      <4>1. PICK j \in DOMAIN file : file[j] = r[i] /\ r[i] \in Message
        BY <1>2, ReplayTyped DEF r
      <4>2. PICK k \in DOMAIN appended : appended[k] = r[i]  BY <1>2, <4>1 DEF Recorded
      <4> QED  BY <1>14, <1>17, <4>2
    <3>3. Rising(Replay(file')) /\ Paired(Replay(file'))
      BY <1>2, <1>5, <2>1, <2>2, <3>1, <3>2, GrowKeeps
    <3>4. Sorted(file')
      <4>1. SUFFICES ASSUME NEW i \in DOMAIN file', NEW j \in DOMAIN file', i < j, file'[j] \in Message
                     PROVE  /\ file'[i] \in Message => file'[i].ts <= file'[j].ts
                            /\ IsSummary(file'[i]) => file'[i].cutoff < file'[j].ts
        BY DEF Sorted
      <4>2. i \in DOMAIN file /\ file'[i] = file[i]  BY <1>11, <4>1
      <4>3. CASE j \in DOMAIN file  BY <1>11, <2>1, <4>1, <4>2, <4>3 DEF Sorted
      <4>4. CASE j \notin DOMAIN file
        <5>1. file'[j] = m  BY <1>11, <4>4
        <5>2. file[i] \in Message => file[i].ts <= m.ts
          BY <1>2, <1>14, <1>17, <4>2 DEF Recorded
        <5>3. IsSummary(file[i]) => file[i].cutoff < m.ts
          <6>1. IsSummary(file[i]) => m.ts > file[i].cutoff  BY <3>1, <4>2 DEF Newer
          <6>2. IsSummary(file[i]) => file[i].cutoff \in Nat
            BY <1>2, <4>2, AppendLine, <1>6, LineKinds
          <6>3. m.ts \in Nat  BY <1>5, LineKinds
          <6> QED  BY <6>1, <6>2, <6>3
        <5> QED  BY <4>2, <5>1, <5>2, <5>3
      <4> QED  BY <4>3, <4>4
    <3> QED  BY <2>3, <3>3, <3>4 DEF Ordered
  <2> QED  BY <2>4, <2>5
<1>18. ASSUME steady', prunes' = 0 PROVE Whole'
  <2>1. steady /\ prunes = 0 /\ attached  BY <1>1, <1>18 DEF IInv, Writer
  <2>2. PICK n \in 0 .. Len(appended) :
          Covered(file) = 1 .. n /\ r = SubSeq(appended, n + 1, Len(appended))
    BY <2>1 DEF IInv, Whole, r
  <2>3. n + 1 \in 1 .. Len(appended) + 1 /\ n \in 0 .. Len(appended) + 1  BY <1>3
  <2>4. SubSeq(Append(appended, m), n + 1, Len(appended) + 1)
          = Append(SubSeq(appended, n + 1, Len(appended)), m)
    BY <1>2, <1>5, <2>3, AppendSubSeq
  <2>5. Replay(file') = SubSeq(appended', n + 1, Len(appended')) /\ Covered(file') = 1 .. n
    BY <1>1, <1>8, <1>13, <1>15, <1>18, <2>1, <2>2, <2>4
  <2>6. n \in 0 .. Len(appended')  BY <1>8, <2>3
  <2> QED  BY <2>5, <2>6 DEF Whole
<1> QED  BY <1>9, <1>10, <1>12, <1>16, <1>17, <1>18 DEF IInv

\* An empty file.
LEMMA InitHolds == Init => IInv
<1> SUFFICES ASSUME Init PROVE IInv  OBVIOUS
<1>1. /\ file = <<>> /\ attached = FALSE /\ now = 0 /\ pc = "closed" /\ mem = <<>> /\ told = {}
      /\ appended = <<>> /\ steady = TRUE /\ opens = 0 /\ folds = 0 /\ prunes = 0 /\ torn = 0
  BY DEF Init
<1> DEFINE e == <<>>
<1>2. DOMAIN e = {} /\ Len(e) = 0 /\ e \in Seq(Line) /\ e \in Seq(Message)  BY EmptySeq
<1>3. file = e /\ mem = e /\ appended = e  BY <1>1
<1> HIDE DEF e
<1>4. Replay(e) = e  BY PickedEmpty DEF Replay, e
<1>5. Covered(e) = {}  BY <1>2 DEF Covered, Latest
<1>6. TypeOK
  <2>1. file \in Seq(Line) /\ mem \in Seq(Message) /\ appended \in Seq(Message)  BY <1>2, <1>3
  <2>2. /\ attached \in BOOLEAN /\ steady \in BOOLEAN
        /\ pc \in {"closed", "prune", "fold", "load", "run"} /\ told \subseteq 1 .. MaxRecords
    BY <1>1
  <2>3. /\ now \in 0 .. MaxTime /\ opens \in 0 .. MaxOpens /\ folds \in 0 .. MaxFolds
        /\ prunes \in 0 .. MaxPrunes /\ torn \in 0 .. MaxTorn
    <3>1. \A n \in Nat : 0 \in 0 .. n  OBVIOUS
    <3> QED  BY <1>1, <3>1, LogAssumption
  <2> QED  BY <2>1, <2>2, <2>3 DEF TypeOK
<1>7. Recorded(file, appended) /\ Numbered /\ Writer
  BY <1>1, <1>2, <1>3 DEF Recorded, Numbered, Writer
<1>8. Ordered  BY <1>1, <1>2, <1>3, <1>4 DEF Ordered, Sorted, Rising, Paired
<1>9. Whole
  <2>1. SubSeq(e, 1, 0) = e  BY SubSeqEmpty DEF e
  <2>2. 0 \in 0 .. Len(e) /\ 0 + 1 = 1 /\ 1 .. 0 = {}  BY <1>2
  <2> QED  BY <1>2, <1>3, <1>4, <1>5, <2>1, <2>2 DEF Whole
<1> QED  BY <1>6, <1>7, <1>8, <1>9 DEF IInv

\* The invariant holds of every behaviour.
THEOREM Invariance == Spec => []IInv
<1>1. Init => IInv  BY InitHolds
<1>2. IInv /\ [Next]_vars => IInv'
  <2> SUFFICES ASSUME IInv, [Next]_vars PROVE IInv'  OBVIOUS
  <2>1. CASE UNCHANGED vars
    <3>1. Same  BY <2>1, QuietWrite DEF vars, IInv
    <3>2. TypeOK' /\ Writer' /\ (steady /\ pc' = "run" => Paired(mem'))
      BY <2>1 DEF vars, IInv, TypeOK, Writer, Readable, Ordered
    <3> QED  BY <2>1, <3>1, <3>2, Kept DEF IInv, vars
  <2>2. CASE Next
    BY <2>2, TellKeeps, ClosingKeeps, StillKeeps, FoldTornKeeps, PruneKeepsAll, FoldKeeps, AppendKeeps
       DEF Next, Compaction
  <2> QED  BY <2>1, <2>2
<1> QED  BY <1>1, <1>2, PTL DEF Spec

\* The variables keep their types: what a reader returns are message records, and

\* what a summary covers are numbers of records.
THEOREM TypeCorrect == Spec => []TypeOK
<1>1. IInv => TypeOK  BY DEF IInv
<1> QED  BY <1>1, Invariance, PTL

\* An invocation holds a summary of a prefix of everything ever appended and the
\* rest of it, as long as the promise is kept.
ReplayIsTail ==
  pc = "run" /\ steady /\ prunes = 0 =>
    LET n == Len(appended) - Len(mem) IN
      n >= 0 /\ told = 1 .. n /\ mem = SubSeq(appended, n + 1, Len(appended))

\* Every record that was appended is sent, in order, or is in the summary that is
\* sent (build_initial_messages, compact_conversation), however many invocations,
\* summaries and torn writes there were.
THEOREM NothingLost == Spec => []ReplayIsTail
<1>1. IInv => ReplayIsTail
  <2> SUFFICES ASSUME IInv, pc = "run", steady, prunes = 0
               PROVE  LET n == Len(appended) - Len(mem) IN
                        n >= 0 /\ told = 1 .. n /\ mem = SubSeq(appended, n + 1, Len(appended))
    BY DEF ReplayIsTail
  <2>1. told = Covered(file) /\ mem = Replay(file)  BY DEF IInv, Writer
  <2>2. PICK n \in 0 .. Len(appended) : told = 1 .. n /\ mem = SubSeq(appended, n + 1, Len(appended))
    BY <2>1 DEF IInv, Whole
  <2>3. Len(appended) \in Nat /\ \A i \in n + 1 .. Len(appended) : appended[i] \in Message
    BY LenProperties, ElementOfSeq DEF IInv, TypeOK
  <2>4. Len(mem) = IF n + 1 <= Len(appended) THEN Len(appended) - (n + 1) + 1 ELSE 0
    BY <2>2, <2>3, SubSeqProperties
  <2>5. Len(appended) - Len(mem) = n
    <3> DEFINE L == Len(appended)
               M == Len(mem)
    <3>1. L \in Nat /\ n \in Nat /\ n <= L /\ M = IF n + 1 <= L THEN L - (n + 1) + 1 ELSE 0
      BY <2>3, <2>4
    <3> HIDE DEF L, M
    <3>2. CASE n + 1 <= L
      <4>1. M = L - (n + 1) + 1  BY <3>1, <3>2
      <4> QED  BY <3>1, <4>1 DEF L, M
    <3>3. CASE n = L
      <4>1. ~(n + 1 <= L)  BY <3>1, <3>3
      <4>2. M = 0  BY <3>1, <4>1
      <4> QED  BY <3>1, <3>3, <4>2 DEF L, M
    <3> QED  BY <3>1, <3>2, <3>3
  <2> DEFINE d == Len(appended) - Len(mem)
  <2>6. d >= 0 /\ told = 1 .. d /\ mem = SubSeq(appended, d + 1, Len(appended))
    <3>1. d = n /\ n >= 0  BY <2>5
    <3> HIDE DEF d
    <3> QED  BY <2>2, <3>1
  <2> QED  BY <2>6
<1> QED  BY <1>1, Invariance, PTL

\* No cut, of compaction (compaction_cutoff) or of pruning

\* (prune_offset_past_midpoint), leaves a tool record without the calls it answers.
THEOREM CutsKeepPairs == Spec => []PairsUnsplit
<1>1. IInv => PairsUnsplit  BY DEF IInv, Ordered, Paired, PairsUnsplit
<1> QED  BY <1>1, Invariance, PTL

\* Except by pruning, no step takes a record from what the newest summary covers

\* (latest_summary, compact_conversation).
THEOREM SummariesAreCumulative == Spec => SummariesGrow
<1>1. IInv /\ [Next]_vars => [prunes' = prunes => Covered(file) \subseteq Covered(file')]_vars
  <2> SUFFICES ASSUME IInv, Next, prunes' = prunes PROVE Covered(file) \subseteq Covered(file')
    OBVIOUS
  <2>1. file \in Seq(Line) /\ TypeOK  BY DEF IInv, TypeOK
  <2>2. ASSUME file' \in {file, Put(file, Torn), Put(file, Other)}
        PROVE  Covered(file) \subseteq Covered(file')
    BY <2>1, <2>2, QuietPut
  <2>3. CASE Tick \/ SkipPrune \/ SkipFold \/ Load \/ Exit
    BY <2>2, <2>3 DEF Tick, SkipPrune, SkipFold, Load, Exit
  <2>4. CASE Tell \/ Approve \/ Unreadable \/ AppendTorn \/ FoldTorn
    BY <2>2, <2>4 DEF Tell, Approve, Open, Unreadable, AppendTorn, FoldTorn, Write
  <2>5. CASE Prune  BY <2>5, LogAssumption DEF IInv, TypeOK, Prune
  <2>6. CASE Fold
    <3>1. PICK keep \in Cutoffs(Replay(file)) : Write(SummaryOf(file, Replay(file), keep))
      BY <2>6 DEF Fold
    <3> DEFINE s == SummaryOf(file, Replay(file), keep)
    <3>2. IsSummary(s) /\ Covered(file) \subseteq s.covers  BY DEF SummaryOf, IsSummary
    <3>3. s \in Line  BY <2>1, SummaryTyped DEF Line
    <3>4. file' \in {file, Append(file, s)}  BY <2>1, <2>6, <3>1, ReadablePut DEF Fold, Write
    <3> HIDE DEF s
    <3>5. Covered(Append(file, s)) = s.covers  BY <2>1, <3>2, <3>3, CoveredAppend
    <3> QED  BY <3>2, <3>4, <3>5
  <2>7. ASSUME NEW k \in Kind, AppendRecord(k) PROVE Covered(file) \subseteq Covered(file')
    <3> DEFINE m == [kind |-> k, ts |-> now', id |-> Len(appended) + 1]
    <3>1. m \in Message  BY <2>1, <2>7, RecordTyped
    <3>2. pc = "run" /\ Write(m)  BY <2>7 DEF AppendRecord
    <3> HIDE DEF m
    <3>3. file' \in {file, Append(file, m)}  BY <2>1, <3>2, ReadablePut DEF IInv, Writer, Write
    <3> QED  BY <2>1, <3>1, <3>3, MessageAppend
  <2> QED  BY <2>3, <2>4, <2>5, <2>6, <2>7 DEF Next, Compaction
<1> QED  BY <1>1, Invariance, PTL DEF Spec, SummariesGrow

-----------------------------------------------------------------------------
(***************************************************************************)
(* ConversationLog implements SummarisedList.                              *)
(***************************************************************************)
Exact == steady /\ prunes = 0

\* What the file is, for the list: n records covered, the others replayed.
Stands(n) ==
  /\ n \in 0 .. Len(appended) /\ Covered(file) = 1 .. n
  /\ Replay(file) = SubSeq(appended, n + 1, Len(appended))

LEMMA StandsAt ==
  ASSUME NEW n, Stands(n), appended \in Seq(Message)
  PROVE  Cardinality(Covered(file)) = n /\ n \in Nat /\ n <= Len(appended)
<1>1. Len(appended) \in Nat
  BY LenProperties
<1>2. n \in Nat /\ n <= Len(appended) /\ Covered(file) = 1 .. n
  BY <1>1 DEF Stands
<1>3. Cardinality(1 .. n) = IF 1 > n THEN 0 ELSE n - 1 + 1
  BY <1>2, FS_Interval
<1>4. Cardinality(1 .. n) = n
  BY <1>2, <1>3
<1> QED BY <1>2, <1>4

\* A step that appends no record and cuts nothing leaves the promise as it was; no
\* step restores it.
LEMMA ExactStays == IInv /\ [Next]_vars /\ Exact' => Exact
<1> SUFFICES ASSUME IInv, [Next]_vars, Exact' PROVE Exact
  OBVIOUS
<1>1. prunes \in Nat /\ steady \in BOOLEAN
  BY LogAssumption DEF IInv, TypeOK
<1>2. ~Prune
  <2>1. Prune => prunes' = prunes + 1
    BY DEF Prune
  <2>2. prunes + 1 # 0
    BY <1>1
  <2> QED BY <2>1, <2>2 DEF Exact
<1>3. CASE UNCHANGED <<steady, prunes>>
  BY <1>3 DEF Exact
<1>4. ASSUME NEW k \in Kind, AppendRecord(k) PROVE Exact
  BY <1>4 DEF AppendRecord, Exact
<1>5. Tick \/ Tell \/ Approve \/ SkipPrune \/ SkipFold \/ Fold \/ FoldTorn \/ Load \/ Unreadable
        \/ AppendTorn \/ Exit \/ UNCHANGED vars => UNCHANGED <<steady, prunes>>
  BY DEF Tick, Tell, Approve, Open, SkipPrune, SkipFold, Fold, FoldTorn, Load, Unreadable, AppendTorn, Exit, vars
<1> QED BY <1>2, <1>3, <1>4, <1>5 DEF Next, Compaction

\* A summary stands for what the one before stood for and for more of what was
\* replayed, up to a record a rest may begin with.
LEMMA FoldCovers ==
  ASSUME IInv, Fold, Exact, NEW n, Stands(n)
  PROVE  \E c \in n + 1 .. Len(appended) :
           /\ c < Len(appended) => appended[c + 1] \in {m \in Message : SafeBoundary(m)}
           /\ Covered(file') = 1 .. c
<1> DEFINE r == Replay(file)
           L == Len(appended)
<1>1. PICK keep \in Cutoffs(r) : Write(SummaryOf(file, r, keep))
  BY DEF Fold
<1>2. pc = "fold" /\ Readable /\ attached
  BY DEF Fold, Exact, IInv, Writer
<1> DEFINE s == SummaryOf(file, r, keep)
<1>3. /\ file \in Seq(Line) /\ appended \in Seq(Message) /\ L \in Nat /\ n \in Nat /\ n <= L
      /\ DOMAIN appended = 1 .. L /\ \A i \in 1 .. L : appended[i] \in Message /\ appended[i].id = i
      /\ r = SubSeq(appended, n + 1, L) /\ Covered(file) = 1 .. n
  <2>1. appended \in Seq(Message) /\ file \in Seq(Line)
    BY DEF IInv, TypeOK
  <2>2. L \in Nat /\ DOMAIN appended = 1 .. L
    BY <2>1, LenProperties
  <2> QED BY <2>1, <2>2, StandsAt, ElementOfSeq DEF Stands, IInv, Numbered
<1>4. s \in Summary
  BY <1>1, <1>3, SummaryTyped
<1>5. s \in Line /\ IsSummary(s) /\ s.covers = Covered(file) \cup {r[i].id : i \in 1 .. keep - 1}
  BY <1>4, LineKinds DEF Line, SummaryOf
<1>6. file' = Append(file, s)
  BY <1>1, <1>2, <1>3, ReadablePut DEF Write
<1> HIDE DEF s
<1>7. Covered(file') = (1 .. n) \cup {r[i].id : i \in 1 .. keep - 1}
  BY <1>3, <1>5, <1>6, CoveredAppend
<1> HIDE DEF r, L
<1>8. Len(r) = L - n /\ \A i \in 1 .. L - n : r[i] = appended[n + i]
  <2> DEFINE a == n + 1
  <2>1. a \in Nat /\ a >= 1 /\ \A i \in a .. L : appended[i] \in Message
    BY <1>3
  <2>2. /\ Len(SubSeq(appended, a, L)) = IF a <= L THEN L - a + 1 ELSE 0
        /\ \A i \in 1 .. L - a + 1 : SubSeq(appended, a, L)[i] = appended[a + i - 1]
    BY <1>3, <2>1, SubSeqProperties
  <2>3. L - a + 1 = L - n /\ (~(a <= L) => L - n = 0) /\ \A i \in Nat : a + i - 1 = n + i
    BY <1>3
  <2>4. r = SubSeq(appended, a, L)
    BY <1>3
  <2> HIDE DEF a
  <2>5. Len(r) = L - n
    BY <2>2, <2>3, <2>4
  <2>6. \A i \in 1 .. L - n : i \in Nat /\ i \in 1 .. L - a + 1
    BY <1>3, <2>3
  <2> QED BY <2>2, <2>3, <2>4, <2>5, <2>6
<1>9. /\ keep \in 2 .. (L - n) + 1
      /\ keep <= L - n => SafeBoundary(r[keep])
  <2>1. L - n \in Nat
    BY <1>3
  <2>2. DOMAIN r = 1 .. L - n
    <3>1. r \in Seq(Message)
      BY <1>3, ReplayTyped DEF r
    <3> QED BY <1>8, <3>1, LenProperties
  <2>3. r = <<>> => L - n = 0
    BY <1>8, EmptySeq
  <2>4. (keep \in 2 .. L - n /\ SafeBoundary(r[keep])) \/ (L - n # 0 /\ keep = (L - n) + 1)
    BY <1>1, <1>8, <2>2, EmptySeq DEF Cutoffs
  <2> QED BY <2>1, <2>4
<1> DEFINE c == n + (keep - 1)
<1>10. /\ c \in n + 1 .. L /\ c + 1 = n + keep
       /\ \A i \in 1 .. keep - 1 : i \in 1 .. L - n /\ n + i \in 1 .. L /\ n + i \in n + 1 .. c
       /\ \A i \in n + 1 .. c : i - n \in 1 .. keep - 1 /\ n + (i - n) = i
       /\ (1 .. n) \cup (n + 1 .. c) = 1 .. c
       /\ c < L => keep \in 1 .. L - n /\ keep <= L - n /\ c + 1 \in 1 .. L
  BY <1>3, <1>9
<1>11. \A i \in 1 .. keep - 1 : r[i].id = n + i
  BY <1>3, <1>8, <1>10
<1>12. {r[i].id : i \in 1 .. keep - 1} = n + 1 .. c
  BY <1>10, <1>11
<1>13. Covered(file') = 1 .. c
  BY <1>7, <1>10, <1>12
<1>14. c < L => appended[c + 1] \in Message /\ SafeBoundary(appended[c + 1])
  BY <1>3, <1>8, <1>9, <1>10
<1> HIDE DEF c
<1> QED BY <1>10, <1>13, <1>14 DEF L

\* While the promise is kept, each step is one of the list's or changes nothing it
\* has: torn writes, end records and attempts that come to nothing are not seen.
LEMMA ListStep == IInv /\ IInv' /\ [Next]_vars => [List!Next]_(List!vars)
<1> SUFFICES ASSUME IInv, IInv', [Next]_vars PROVE [List!Next]_(List!vars)
  OBVIOUS
<1>1. CASE ~Exact'
  BY <1>1 DEF Exact, List!Next, List!Broken
<1>2. CASE Exact'
  <2>1. Exact
    BY <1>2, ExactStays
  <2>2. /\ file \in Seq(Line) /\ appended \in Seq(Message) /\ appended' \in Seq(Message)
        /\ TypeOK /\ prunes \in Nat
    BY LogAssumption DEF IInv, TypeOK
  <2>3. PICK n : Stands(n)
    BY <2>1 DEF Exact, IInv, Whole, Stands
  <2>4. Cardinality(Covered(file)) = n /\ n \in Nat /\ n <= Len(appended)
    BY <2>2, <2>3, StandsAt
  <2>5. attached \/ pc = "closed"
    BY <2>1 DEF Exact, IInv, Writer
  \* Steps between invocations that the list does not see.
  <2>6. ASSUME pc # "run", pc' # "run", appended' = appended, Covered(file') = Covered(file)
        PROVE  List!vars' = List!vars
    BY <1>2, <2>1, <2>6 DEF List!vars, Exact
  <2>7. CASE UNCHANGED vars
    BY <2>7 DEF vars, List!vars
  <2>8. CASE Tick
    BY <1>2, <2>1, <2>8 DEF Tick, List!vars, Exact
  <2>9. CASE SkipPrune \/ SkipFold
    BY <2>6, <2>9 DEF SkipPrune, SkipFold
  <2>10. CASE Tell \/ Approve \/ FoldTorn
    <3>1. Covered(file') = Covered(file)
      <4>1. file' \in {file, Put(file, Torn), Put(file, Other)}
        BY <2>10 DEF Tell, Approve, Open, FoldTorn, Write
      <4> QED BY <2>2, <4>1, QuietPut
    <3> QED BY <2>6, <2>10, <3>1 DEF Tell, Approve, Open, FoldTorn
  <2>11. CASE Prune
    BY <1>2, <2>2, <2>11 DEF Prune, Exact
  <2>12. CASE Fold
    <3>1. PICK c \in n + 1 .. Len(appended) :
            /\ c < Len(appended) => appended[c + 1] \in {m \in Message : SafeBoundary(m)}
            /\ Covered(file') = 1 .. c
      BY <2>1, <2>3, <2>12, FoldCovers
    <3>2. Cardinality(Covered(file')) = c
      <4>1. c \in Nat
        BY <2>2, <2>4, <3>1, LenProperties
      <4>2. Cardinality(1 .. c) = IF 1 > c THEN 0 ELSE c - 1 + 1
        BY <4>1, FS_Interval
      <4>3. Cardinality(1 .. c) = c
        BY <4>1, <4>2
      <4> QED BY <3>1, <4>3
    <3>3. pc = "fold" /\ pc' = "load" /\ appended' = appended
      BY <2>12 DEF Fold
    <3>4. List!Summarise
      BY <2>4, <3>1, <3>2, <3>3 DEF List!Summarise
    <3> QED BY <1>2, <2>1, <3>4 DEF List!Next, List!Kept, Exact
  <2>13. CASE Load
    <3>1. /\ pc = "load" /\ pc' = "run" /\ told' = Covered(file) /\ mem' = Replay(file)
          /\ file' = file /\ appended' = appended
      BY <2>13 DEF Load
    <3>2. told' = 1 .. n /\ mem' = SubSeq(appended, n + 1, Len(appended))
      BY <2>3, <3>1 DEF Stands
    <3>3. List!Recall
      BY <2>4, <3>1, <3>2 DEF List!Recall
    <3> QED BY <1>2, <2>1, <3>3 DEF List!Next, List!Kept, Exact
  <2>14. CASE Unreadable \/ AppendTorn \/ Exit
    <3>1. pc # "closed" /\ pc' = "closed" /\ appended' = appended
      BY <2>14 DEF Unreadable, AppendTorn, Exit, Close
    <3>2. Covered(file') = Covered(file)
      <4>1. file' \in {file, Put(file, Torn), Put(file, Other)}
        BY <2>14 DEF Unreadable, AppendTorn, Exit, Write
      <4> QED BY <2>2, <4>1, QuietPut
    <3>3. CASE pc # "run"
      BY <2>6, <3>1, <3>2, <3>3
    <3>4. CASE pc = "run"
      <4>1. List!Leave
        BY <3>1, <3>2, <3>4 DEF List!Leave
      <4> QED BY <1>2, <2>1, <4>1 DEF List!Next, List!Kept, Exact
    <3> QED BY <3>3, <3>4
  <2>15. ASSUME NEW k \in Kind, AppendRecord(k) PROVE List!Next
    <3> DEFINE m == [kind |-> k, ts |-> now', id |-> Len(appended) + 1]
    <3>1. /\ pc = "run" /\ pc' = "run" /\ told' = told /\ Write(m)
          /\ appended' = Append(appended, m) /\ mem' = Append(mem, m)
      BY <2>15 DEF AppendRecord
    <3>2. m \in Message
      BY <2>2, <2>15, RecordTyped
    <3> HIDE DEF m
    <3>3. Covered(file') = Covered(file)
      <4>1. Readable
        BY <3>1 DEF IInv, Writer
      <4>2. file' \in {file, Append(file, m)}
        BY <2>2, <3>1, <4>1, ReadablePut DEF Write
      <4> QED BY <2>2, <3>2, <4>2, MessageAppend
    <3>4. List!Say(m)
      BY <3>1, <3>3 DEF List!Say
    <3> QED BY <1>2, <2>1, <3>2, <3>4 DEF List!Next, List!Kept, Exact
  <2> QED BY <2>7, <2>8, <2>9, <2>10, <2>11, <2>12, <2>13, <2>14, <2>15 DEF Next, Compaction
<1> QED BY <1>1, <1>2

\* The file at the path (append, latest_summary, read_chat_message_with_ts,
\* compact_conversation) is, for an invocation, a list of which a summary covers a
\* prefix, until a pruning or a stamp that does not tell a cut.
THEOREM ImplementsList == Spec => ListSpec
<1>1. Init => List!Init
  <2> SUFFICES ASSUME Init PROVE List!Init
    OBVIOUS
  <2>1. file = <<>> /\ appended = <<>> /\ pc = "closed" /\ steady /\ prunes = 0
    BY DEF Init
  <2>2. Covered(<<>>) = {}
    <3>1. DOMAIN <<>> = {}
      OBVIOUS
    <3> QED BY <3>1 DEF Covered, Latest
  <2>3. Cardinality({}) = 0
    BY FS_EmptySet
  <2> QED BY <2>1, <2>2, <2>3 DEF List!Init
<1>2. IInv /\ IInv' /\ [Next]_vars => [List!Next]_(List!vars)
  BY ListStep
<1> QED BY <1>1, <1>2, Invariance, PTL DEF Spec, ListSpec, List!Spec
=============================================================================
