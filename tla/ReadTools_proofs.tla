--------------------------- MODULE ReadTools_proofs ---------------------------
(***************************************************************************)
(* Proofs about ReadTools and SafeCommand, for any tree, rules, calls and  *)
(* argument vectors: how far a tool reaches that nobody was asked about,   *)
(* and that an answer which does not say it was cut is a whole one.        *)
(***************************************************************************)
EXTENDS ReadTools, SequenceTheorems, FiniteSetTheorems, WellFoundedInduction, TLAPS

\* The symlinks there are are remembered; every extra root is what some rule has
\* named.
Recorded == <<LinkAt, target>> \in denoted /\ turned \X {LeadsTo} \subseteq denoted
Rooted == Recorded /\ \A x \in roots : \E r \in rules : x \in HasNamed(r)

\* Where a call may reach that resolved to base.
Granted ==
  \/ Under(Root, base)
  \/ approved /\ base \in HasNamed(cur.path)
  \/ ~approved /\ \E r \in rules : \E p \in HasNamed(r) : Under(p, base)

Tool == cur.op \in {"list", "search", "read"}
Below == {p \in Places : Under(base, p)}

\* Between calls there is no place; a call that has one stays below it.
Based ==
  /\ pc \notin {"walk", "answered"} => base = <<>> /\ stack = <<>> /\ out = <<>>
  /\ pc = "walk" => cur \in Calls
  /\ pc \in {"walk", "answered"} /\ Tool /\ base # <<>> => base \in Places /\ Granted
  /\ pc \in {"walk", "answered"} /\ Tool =>
       /\ pc = "walk" => stack \in Seq(Below) /\ base \in Places
       /\ cur.op = "list" => out \in Seq(Below)
       /\ cur.op = "search" => out \in Seq(Below \X Nat)

IInv == TypeOK /\ Rooted /\ Based

-----------------------------------------------------------------------------
(***************************************************************************)
(* Sequences and paths.                                                    *)
(***************************************************************************)
\* A part of a sequence is made of its elements.
LEMMA PartOf ==
  ASSUME NEW S, NEW s \in Seq(S), NEW m \in Nat \ {0}, NEW n \in Int, n <= Len(s)
  PROVE  SubSeq(s, m, n) \in Seq(S) /\ ToSet(SubSeq(s, m, n)) \subseteq ToSet(s)
<1>1. Len(s) \in Nat /\ DOMAIN s = 1 .. Len(s) /\ \A i \in 1 .. Len(s) : s[i] \in S
  BY LenProperties, ElementOfSeq
<1>2. \A i \in m .. n : s[i] \in S /\ i \in DOMAIN s
  BY <1>1
<1>3. /\ SubSeq(s, m, n) \in Seq(S)
      /\ Len(SubSeq(s, m, n)) = IF m <= n THEN n - m + 1 ELSE 0
      /\ \A i \in 1 .. n - m + 1 : SubSeq(s, m, n)[i] = s[m + i - 1]
  BY <1>2, SubSeqProperties
<1> DEFINE t == SubSeq(s, m, n)
<1>4. DOMAIN t = 1 .. Len(t)
  BY <1>3, LenProperties
<1> HIDE DEF t
<1>5. ASSUME NEW i \in DOMAIN t PROVE t[i] \in ToSet(s)
  <2>1. i \in 1 .. n - m + 1
    BY <1>3, <1>4 DEF t
  <2>2. t[i] = s[m + i - 1] /\ m + i - 1 \in m .. n
    BY <1>3, <2>1 DEF t
  <2> QED BY <1>2, <2>2 DEF ToSet
<1> QED BY <1>3, <1>5 DEF ToSet, t

\* Of some numbers one is the least.
LEMMA LeastNatural ==
  ASSUME NEW T, T \subseteq Nat, T # {}
  PROVE  \E x \in T : \A y \in T : x <= y
<1>1. PICK x \in T : \A y \in T : <<y, x>> \notin OpToRel(<, Nat)
  BY NatLessThanWellFounded, WFMin, Zenon
<1>2. ASSUME NEW y \in T PROVE x <= y
  <2>1. CASE y < x
    <3>1. <<y, x>> \in OpToRel(<, Nat)  BY <2>1 DEF OpToRel
    <3> QED  BY <1>1, <3>1
  <2> QED  BY <2>1
<1> QED  BY <1>2

\* Induction over the naturals, for a set of them.
LEMMA NatSetInduction ==
  ASSUME NEW S, 0 \in S, \A n \in Nat : n \in S => n + 1 \in S
  PROVE  \A n \in Nat : n \in S
<1> DEFINE T == Nat \ S
<1>1. SUFFICES ASSUME T # {} PROVE FALSE  BY <1>1
<1>2. PICK x \in T : \A y \in T : x <= y  BY <1>1, LeastNatural
<1>3. x \in Nat /\ x # 0 /\ x - 1 \in Nat /\ x - 1 \notin T  BY <1>2
<1>4. x - 1 + 1 \in S /\ x - 1 + 1 = x  BY <1>3
<1> QED  BY <1>2, <1>4

\* One path is below another if it begins with it.
LEMMA UnderAt ==
  ASSUME NEW A, NEW a \in Seq(A), NEW B, NEW b \in Seq(B)
  PROVE  Under(a, b) <=> Len(a) <= Len(b) /\ \A i \in 1 .. Len(a) : a[i] = b[i]
<1>1. /\ Len(a) \in Nat /\ Len(b) \in Nat
      /\ \A i \in 1 .. Len(a) : a[i] \in A
      /\ \A i \in 1 .. Len(b) : b[i] \in B
  BY LenProperties, ElementOfSeq
<1>2. CASE ~(Len(a) <= Len(b))
  BY <1>2 DEF Under, IsPrefix
<1>3. CASE Len(a) <= Len(b)
  <2> DEFINE x == SubSeq(a, 1, Len(a))
             y == SubSeq(b, 1, Len(a))
  <2>1. \A i \in 1 .. Len(a) : b[i] \in A \cup B /\ a[i] \in A \cup B
    BY <1>1, <1>3
  <2>2. /\ x \in Seq(A \cup B) /\ y \in Seq(A \cup B) /\ Len(x) = Len(a) /\ Len(y) = Len(a)
        /\ \A i \in 1 .. Len(a) : x[i] = a[i] /\ y[i] = b[i]
    BY <1>1, <2>1, SubSeqProperties, EmptySeq
  <2>3. Under(a, b) <=> x = y
    BY <1>3 DEF Under, IsPrefix
  <2> HIDE DEF x, y
  <2>4. x = y <=> \A i \in 1 .. Len(a) : x[i] = y[i]
    BY <2>2, SeqEqual
  <2> QED BY <1>3, <2>2, <2>3, <2>4
<1> QED BY <1>2, <1>3

\* A place is below itself, and what is below it is below what it is below.
LEMMA UnderOrder ==
  /\ \A p \in Places : Under(p, p)
  /\ \A p, q, r \in Places : Under(p, q) /\ Under(q, r) => Under(p, r)
<1>1. \A p \in Places : p \in Seq(ToSet(p)) /\ Len(p) \in Nat
  BY ReadToolsAssumption, LenProperties
<1>2. \A p, q \in Places : Under(p, q) <=> Len(p) <= Len(q) /\ \A i \in 1 .. Len(p) : p[i] = q[i]
  BY <1>1, UnderAt
<1>3. \A p \in Places : Under(p, p)
  BY <1>1, <1>2
<1>4. ASSUME NEW p \in Places, NEW q \in Places, NEW r \in Places, Under(p, q), Under(q, r)
      PROVE  Under(p, r)
  <2>1. Len(p) <= Len(q) /\ Len(q) <= Len(r) /\ Len(p) \in Nat /\ Len(q) \in Nat /\ Len(r) \in Nat
    BY <1>1, <1>2, <1>4
  <2>2. \A i \in 1 .. Len(p) : i \in 1 .. Len(q) /\ p[i] = q[i]
    BY <1>2, <1>4, <2>1
  <2>3. \A i \in 1 .. Len(q) : q[i] = r[i]
    BY <1>2, <1>4
  <2> QED BY <1>2, <2>1, <2>2, <2>3
<1> QED BY <1>3, <1>4

\* A sequence of values, each made from the one before, exists.
LEMMA ChainExists ==
  ASSUME NEW A, NEW a \in A, NEW N \in Nat, NEW D \in [1 .. N -> [A -> A]]
  PROVE  \E f \in [0 .. N -> A] : f[0] = a /\ \A k \in 1 .. N : f[k] = D[k][f[k - 1]]
<1> DEFINE Step(f, m) == f[0] = a /\ \A k \in 1 .. m : f[k] = D[k][f[k - 1]]
           S == {m \in Nat : m <= N => \E f \in [0 .. m -> A] : Step(f, m)}
<1>1. 0 \in S
  <2>1. [k \in 0 .. 0 |-> a] \in [0 .. 0 -> A] /\ Step([k \in 0 .. 0 |-> a], 0)
    OBVIOUS
  <2> HIDE DEF Step
  <2> QED BY <2>1
<1>2. ASSUME NEW m \in Nat, m \in S PROVE m + 1 \in S
  <2>1. SUFFICES ASSUME m + 1 <= N PROVE \E f \in [0 .. m + 1 -> A] : Step(f, m + 1)
    OBVIOUS
  <2>2. PICK f \in [0 .. m -> A] : Step(f, m)
    <3>1. m <= N
      BY <2>1
    <3> HIDE DEF Step
    <3> QED BY <1>2, <3>1
  <2> DEFINE g == [k \in 0 .. m + 1 |-> IF k <= m THEN f[k] ELSE D[m + 1][f[m]]]
  <2>3. m + 1 \in 1 .. N /\ f[m] \in A
    BY <2>1
  <2>4. D[m + 1][f[m]] \in A
    BY <2>3
  <2>5. g \in [0 .. m + 1 -> A]
    BY <2>4
  <2>6. ASSUME NEW k \in 1 .. m + 1 PROVE g[k] = D[k][g[k - 1]]
    <3>1. CASE k <= m
      <4>1. k \in 1 .. m /\ k \in 0 .. m + 1 /\ k - 1 \in 0 .. m + 1 /\ k - 1 <= m
        BY <3>1
      <4>2. f[k] = D[k][f[k - 1]] /\ g[k] = f[k] /\ g[k - 1] = f[k - 1]
        BY <2>2, <3>1, <4>1
      <4> QED BY <4>2
    <3>2. CASE ~(k <= m)
      <4>1. k = m + 1 /\ k \in 0 .. m + 1 /\ k - 1 = m /\ m \in 0 .. m + 1
        BY <3>2
      <4>2. g[k] = D[m + 1][f[m]] /\ g[m] = f[m]
        BY <3>2, <4>1
      <4> QED BY <4>1, <4>2
    <3> QED BY <3>1, <3>2
  <2>7. g[0] = a
    BY <2>2
  <2> HIDE DEF g
  <2>8. Step(g, m + 1)
    BY <2>6, <2>7
  <2> HIDE DEF Step
  <2> QED BY <2>5, <2>8
<1>3. \A m \in Nat : m \in S
  <2> HIDE DEF S
  <2> QED BY <1>1, <1>2, NatSetInduction
<1> HIDE DEF Step
<1>4. \E f \in [0 .. N -> A] : Step(f, N)
  BY <1>3
<1> QED BY <1>4 DEF Step

\* What is made so, and from there on, stays what it is made of.
LEMMA ChainStays ==
  ASSUME NEW A, NEW N \in Nat, NEW f, f[0] \in A,
         \A k \in 1 .. N : f[k - 1] \in A => f[k] \in A
  PROVE  \A k \in 0 .. N : f[k] \in A
<1> DEFINE S == {m \in Nat : m <= N => f[m] \in A}
<1>1. 0 \in S
  OBVIOUS
<1>2. ASSUME NEW m \in Nat, m \in S PROVE m + 1 \in S
  <2>1. SUFFICES ASSUME m + 1 <= N PROVE f[m + 1] \in A
    OBVIOUS
  <2>2. m + 1 \in 1 .. N /\ (m + 1) - 1 = m /\ f[m] \in A
    BY <1>2, <2>1
  <2> QED BY <2>2
<1>3. \A m \in Nat : m \in S
  <2> HIDE DEF S
  <2> QED BY <1>1, <1>2, NatSetInduction
<1> QED BY <1>3

\* Picking goes through the sequence once.
LEMMA PickedSteps ==
  ASSUME NEW T, NEW s \in Seq(T), NEW ok
  PROVE  \E f : /\ f[0] = <<>> /\ Picked(s, ok) = f[Len(s)]
                /\ \A k \in 0 .. Len(s) : f[k] \in Seq(T \cap ok)
                /\ \A k \in 1 .. Len(s) : f[k] = IF s[k] \in ok THEN Append(f[k - 1], s[k]) ELSE f[k - 1]
<1> DEFINE A == Seq(T \cap ok)
           D == [k \in 1 .. Len(s) |-> [x \in A |-> IF s[k] \in ok THEN Append(x, s[k]) ELSE x]]
           Made(f) == f = [n \in 0 .. Len(s) |->
             IF n = 0 THEN <<>> ELSE IF s[n] \in ok THEN Append(f[n - 1], s[n]) ELSE f[n - 1]]
<1>1. Len(s) \in Nat /\ \A n \in 1 .. Len(s) : s[n] \in T
  BY LenProperties, ElementOfSeq
<1>2. \A n \in 1 .. Len(s) : \A x \in A : (IF s[n] \in ok THEN Append(x, s[n]) ELSE x) \in A
  BY <1>1, AppendProperties
<1>3. <<>> \in A
  BY EmptySeq
<1>4. D \in [1 .. Len(s) -> [A -> A]]
  <2> HIDE DEF A
  <2> QED BY <1>2
<1>5. PICK f \in [0 .. Len(s) -> A] : f[0] = <<>> /\ \A k \in 1 .. Len(s) : f[k] = D[k][f[k - 1]]
  <2> HIDE DEF A, D
  <2> DEFINE N == Len(s)
             e == <<>>
  <2>1. N \in Nat /\ D \in [1 .. N -> [A -> A]] /\ e \in A
    BY <1>1, <1>3, <1>4
  <2> HIDE DEF N, e
  <2>2. \E f \in [0 .. N -> A] : f[0] = e /\ \A k \in 1 .. N : f[k] = D[k][f[k - 1]]
    BY <2>1, ChainExists
  <2> QED BY <2>2 DEF N, e
<1>6. Made(f)
  <2>1. ASSUME NEW k \in 1 .. Len(s)
        PROVE  f[k] = IF s[k] \in ok THEN Append(f[k - 1], s[k]) ELSE f[k - 1]
    <3>1. k - 1 \in 0 .. Len(s) /\ f[k - 1] \in A
      BY <1>1
    <3> HIDE DEF A
    <3> QED BY <1>5, <3>1
  <2>2. \A k \in 0 .. Len(s) : k # 0 => k \in 1 .. Len(s)
    BY <1>1
  <2> HIDE DEF A, D
  <2> QED BY <1>5, <2>1, <2>2
<1> DEFINE g == CHOOSE h : Made(h)
<1>7. Made(g) /\ Picked(s, ok) = g[Len(s)]
  BY <1>6 DEF Picked
<1> HIDE DEF g
<1>8. /\ g[0] = <<>>
      /\ \A k \in 1 .. Len(s) : g[k] = IF s[k] \in ok THEN Append(g[k - 1], s[k]) ELSE g[k - 1]
  <2>1. 0 \in 0 .. Len(s) /\ \A k \in 1 .. Len(s) : k \in 0 .. Len(s) /\ k # 0
    BY <1>1
  <2> QED BY <1>7, <2>1
<1>9. \A k \in 1 .. Len(s) : g[k - 1] \in A => g[k] \in A
  <2> HIDE DEF A
  <2> QED BY <1>2, <1>8
<1>10. \A k \in 0 .. Len(s) : g[k] \in A
  <2> HIDE DEF A, D, Made
  <2> DEFINE N == Len(s)
  <2>1. /\ N \in Nat /\ g[0] \in A
        /\ \A k \in 1 .. N : g[k - 1] \in A => g[k] \in A
    BY <1>1, <1>3, <1>8, <1>9
  <2> HIDE DEF N
  <2>2. \A k \in 0 .. N : g[k] \in A
    BY <2>1, ChainStays
  <2> QED BY <2>2 DEF N
<1> QED BY <1>7, <1>8, <1>10

\* What is picked from a sequence is from it, and in the set.
LEMMA PickedTyped ==
  ASSUME NEW T, NEW s \in Seq(T), NEW ok
  PROVE  Picked(s, ok) \in Seq(T \cap ok)
<1>1. Len(s) \in 0 .. Len(s)
  BY LenProperties
<1> QED BY <1>1, PickedSteps

-----------------------------------------------------------------------------
(***************************************************************************)
(* Where paths lead, and what a visit finds.                               *)
(***************************************************************************)
\* A path leads to a place it has named.
LEMMA CanonNamed ==
  ASSUME Recorded, NEW p
  PROVE  Canon(p) \in HasNamed(p)
<1> DEFINE q == IF Under(LinkAt, p) /\ LinkAt \in present THEN Moved(LinkAt, target, p) ELSE p
           crossed == {d \in turned : Under(d, q)}
           d == CHOOSE d \in crossed : TRUE
<1>1. Canon(p) = IF crossed = {} THEN q ELSE Moved(d, LeadsTo, q)
  BY DEF Canon
<1>2. q \in Via({p})
  <2>1. CASE Under(LinkAt, p) /\ LinkAt \in present
    <3> DEFINE l == <<LinkAt, target>>
    <3>1. l \in denoted /\ l[1] = LinkAt /\ l[2] = target /\ q = Moved(LinkAt, target, p)
      BY <2>1 DEF Recorded
    <3> HIDE DEF l, q
    <3>2. q = Moved(l[1], l[2], p) /\ Under(l[1], p)
      BY <2>1, <3>1
    <3> QED BY <3>1, <3>2 DEF Via
  <2>2. CASE ~(Under(LinkAt, p) /\ LinkAt \in present)
    BY <2>2 DEF Via
  <2> QED BY <2>1, <2>2
<1> HIDE DEF q
<1>3. CASE crossed = {}
  BY <1>1, <1>2, <1>3 DEF HasNamed, Via
<1>4. CASE crossed # {}
  <2>1. d \in turned /\ Under(d, q)
    BY <1>4
  <2> HIDE DEF d
  <2> DEFINE l == <<d, LeadsTo>>
             V == Via({p})
  <2>2. l \in denoted /\ l[1] = d /\ l[2] = LeadsTo
    BY <2>1 DEF Recorded
  <2> HIDE DEF l, V
  <2>3. Moved(l[1], l[2], q) \in Via(V) /\ Canon(p) = Moved(l[1], l[2], q)
    <3>1. q \in V /\ Under(l[1], q)
      BY <1>2, <2>1, <2>2 DEF V
    <3>2. Canon(p) = Moved(l[1], l[2], q)
      BY <1>1, <1>4, <2>2 DEF d
    <3>3. Moved(l[1], l[2], q) \in {Moved(l[1], l[2], x) : x \in {y \in V : Under(l[1], y)}}
      BY <3>1
    <3> QED BY <2>2, <3>2, <3>3 DEF Via
  <2> QED BY <2>3 DEF HasNamed, V
<1> QED BY <1>3, <1>4

\* Where a rule may lead is never forgotten.
LEMMA NamedGrows ==
  ASSUME denoted \subseteq denoted', NEW p
  PROVE  HasNamed(p) \subseteq HasNamed(p)'
<1>1. \A S, T : S \subseteq T => Via(S) \subseteq Via(T)'
  BY DEF Via
<1>2. Via({p}) \subseteq Via({p})'
  BY DEF Via
<1> QED BY <1>1, <1>2 DEF HasNamed

\* The roots a set of rules gives.
LEMMA RootsNamed ==
  ASSUME TypeOK, Recorded, NEW P
  PROVE  /\ RootsOf(P) \subseteq Places
         /\ \A x \in RootsOf(P) : \E r \in P : x \in HasNamed(r)
<1>1. ASSUME NEW x \in RootsOf(P) PROVE x \in Places /\ \E r \in P : x \in HasNamed(r)
  <2>1. PICK q \in P : Exists(q) /\ x = Canon(q)
    BY DEF RootsOf
  <2>2. x \in present
    BY <2>1 DEF Exists
  <2> QED BY <2>1, <2>2, CanonNamed DEF TypeOK
<1> QED BY <1>1

\* The children of a place below base are below base.
LEMMA ChildrenBelow ==
  ASSUME base \in Places, NEW p \in Below, NEW hidden, NEW ok
  PROVE  Children(p, hidden) \in Seq(Below) /\ Picked(Children(p, hidden), ok) \in Seq(Below)
<1> DEFINE C == {q \in Places : IsChild(p, q) /\ (hidden \/ q \notin Hidden)}
<1>1. Places \cap C \subseteq Below
  <2>1. ASSUME NEW q \in C PROVE Under(base, q)
    BY UnderOrder DEF IsChild, Below
  <2> QED BY <2>1 DEF Below
<1>2. Children(p, hidden) = Picked(Sorted, C)
  BY DEF Children
<1> HIDE DEF C
<1>3. Picked(Sorted, C) \in Seq(Places \cap C)
  BY PickedTyped, ReadToolsAssumption
<1>4. Children(p, hidden) \in Seq(Below)
  BY <1>1, <1>2, <1>3, SeqMonotonic
<1>5. Picked(Children(p, hidden), ok) \in Seq(Below \cap ok)
  BY <1>4, PickedTyped
<1> QED BY <1>4, <1>5, SeqMonotonic

\* A sequence backwards.
LEMMA ReverseTyped ==
  ASSUME NEW S, NEW s \in Seq(S)
  PROVE  Reverse(s) \in Seq(S)
<1>1. Len(s) \in Nat /\ \A i \in 1 .. Len(s) : s[i] \in S
  BY LenProperties, ElementOfSeq
<1>2. \A i \in 1 .. Len(s) : (Len(s) - i) + 1 \in 1 .. Len(s)
  BY <1>1
<1>3. Reverse(s) \in [1 .. Len(s) -> S]
  BY <1>1, <1>2 DEF Reverse
<1> QED BY <1>1, <1>3

\* A visit finds what is below the place it visits.
LEMMA VisitBelow ==
  ASSUME TypeOK, base \in Places, NEW p \in Below
  PROVE  /\ ListVisit(p).ok => ListVisit(p).adds \in Seq(Below) /\ ListVisit(p).pushes \in Seq(Below)
         /\ SearchVisit(p).adds \in Seq(Below \X Nat) /\ SearchVisit(p).pushes \in Seq(Below)
<1>1. p \in Places /\ Below \subseteq Places
  BY DEF Below
<1>2. \A A : <<>> \in Seq(A)
  BY EmptySeq
<1>3. ASSUME ListVisit(p).ok
      PROVE  ListVisit(p).adds \in Seq(Below) /\ ListVisit(p).pushes \in Seq(Below)
  <2>1. ~(Canon(p) \notin present \/ Kind[Canon(p)] # "dir")
    BY <1>3 DEF ListVisit, Failed
  <2>2. /\ ListVisit(p).adds = Children(p, cur.hidden)
        /\ ListVisit(p).pushes = IF cur.recursive
             THEN Picked(Children(p, cur.hidden), {q \in Places : IsDir(q)}) ELSE <<>>
    BY <2>1 DEF ListVisit, Visit
  <2> QED BY <1>2, <2>2, ChildrenBelow
<1>4. SearchVisit(p).adds \in Seq(Below \X Nat) /\ SearchVisit(p).pushes \in Seq(Below)
  <2>1. There(p) => MatchesIn(p) \in Seq(Below \X Nat)
    <3> SUFFICES ASSUME There(p) PROVE MatchesIn(p) \in Seq(Below \X Nat)
      OBVIOUS
    <3> DEFINE h == Hits[Lstat(p)]
    <3>1. h \in Seq(Nat)
      BY ReadToolsAssumption DEF There, TypeOK
    <3>2. Len(h) \in Nat /\ DOMAIN h = 1 .. Len(h)
          /\ \A i \in DOMAIN h : h[i] \in Nat
      BY <3>1, LenProperties, ElementOfSeq
    <3>3. [i \in DOMAIN h |-> <<p, h[i]>>] \in [1 .. Len(h) -> Below \X Nat]
      BY <3>2
    <3>4. [i \in DOMAIN h |-> <<p, h[i]>>] \in Seq(Below \X Nat)
      BY <3>2, <3>3
    <3> QED BY <1>2, <3>4 DEF MatchesIn
  <2>2. Reverse(Children(p, FALSE)) \in Seq(Below)
    BY ChildrenBelow, ReverseTyped
  <2> QED BY <1>2, <2>1, <2>2 DEF SearchVisit, Visit
<1> QED BY <1>3, <1>4

\* So does a walk.
LEMMA WalkBelow ==
  ASSUME IInv, WalkStep
  PROVE  /\ stack' \in Seq(Below)
         /\ cur.op = "list" => out' \in Seq(Below)
         /\ cur.op = "search" => out' \in Seq(Below \X Nat)
<1>1. /\ pc = "walk" /\ cur.op # "read" /\ stack # <<>> /\ cur \in Calls
      /\ stack \in Seq(Below) /\ base \in Places
      /\ cur.op = "list" => out \in Seq(Below)
      /\ cur.op = "search" => out \in Seq(Below \X Nat)
      /\ cur.op \in {"list", "search"} /\ cur.cap \in Nat
  <2>1. pc = "walk" /\ cur.op # "read" /\ stack # <<>>
    BY DEF WalkStep
  <2>2. cur \in Calls
    BY <2>1 DEF IInv, Based
  <2>3. cur.op \in {"list", "search"} /\ cur.cap \in Nat
    BY <2>1, <2>2, ReadToolsAssumption
  <2> QED BY <2>1, <2>2, <2>3 DEF IInv, Based, Tool
<1> DEFINE v == VisitOf(Last(stack))
           n == AtMost(Room, Len(v.adds))
<1>2. /\ v.ok /\ out' = out \o SubSeq(v.adds, 1, n)
      /\ stack' = stack \/ stack' = StackAfter(v.pushes)
  BY DEF WalkStep
<1>3. Len(stack) \in Nat \ {0} /\ Last(stack) \in Below
  BY <1>1, EmptySeq, ElementOfSeq DEF Last
<1>4. /\ v.pushes \in Seq(Below)
      /\ cur.op = "list" => v.adds \in Seq(Below)
      /\ cur.op = "search" => v.adds \in Seq(Below \X Nat)
  <2>1. cur.op = "list" => v = ListVisit(Last(stack))
    BY DEF VisitOf
  <2>2. cur.op = "search" => v = SearchVisit(Last(stack))
    BY DEF VisitOf
  <2> HIDE DEF v
  <2>3. cur.op = "list" => ListVisit(Last(stack)).ok
    BY <1>2, <2>1
  <2> QED BY <1>1, <1>3, <2>1, <2>2, <2>3, VisitBelow DEF IInv
<1> HIDE DEF v
<1>5. ASSUME NEW T, v.adds \in Seq(T), out \in Seq(T) PROVE out' \in Seq(T)
  <2>1. Len(v.adds) \in Nat /\ Len(out) \in Nat
    BY <1>5, LenProperties
  <2>2. Room \in Int
    BY <1>1, <2>1 DEF Room
  <2>3. n \in Int /\ n <= Len(v.adds)
    BY <2>1, <2>2 DEF AtMost
  <2> HIDE DEF n
  <2>4. SubSeq(v.adds, 1, n) \in Seq(T)
    BY <1>5, <2>3, PartOf
  <2> QED BY <1>2, <1>5, <2>4, ConcatProperties
<1>6. stack' \in Seq(Below)
  <2>1. Front(stack) \in Seq(Below)
    BY <1>1, <1>3, PartOf DEF Front
  <2>2. Front(stack) \o v.pushes \in Seq(Below)
    BY <1>4, <2>1, ConcatProperties
  <2> QED BY <1>1, <1>2, <2>2 DEF StackAfter
<1> QED BY <1>1, <1>4, <1>5, <1>6

-----------------------------------------------------------------------------
(***************************************************************************)
(* The invariant.                                                          *)
(***************************************************************************)
\* Nothing is carried out, and nothing extra may be read.
LEMMA InvInit == Init => IInv
<1> SUFFICES ASSUME Init PROVE IInv
  OBVIOUS
<1>1. ToSet(stack) = {} /\ 0 \in 0 .. MaxEdits /\ 0 \in 0 .. MaxFaults
  BY ReadToolsAssumption DEF Init, ToSet
<1>2. TypeOK
  BY <1>1 DEF Init, TypeOK
<1>3. Rooted /\ Based
  <2>1. Recorded
    BY DEF Init, Recorded
  <2> QED BY <2>1 DEF Init, Rooted, Based, NoCall
<1> QED BY <1>2, <1>3 DEF IInv

\* A path that exists leads to a place.
LEMMA CanonIsPlace ==
  ASSUME TypeOK, NEW p, Exists(p)
  PROVE  Canon(p) \in Places
BY DEF Exists, TypeOK

\* The steps that carry out a call, and nothing else.
Calling == WalkFails \/ WalkStep \/ WalkEnds \/ Read
LEMMA CallingKeeps ==
  ASSUME Calling
  PROVE  /\ UNCHANGED <<files, roots, intent, cur, approved, base, history>>
         /\ pc = "walk" /\ pc' \in {"walk", "answered"}
         /\ (stack' = stack /\ out' = out) \/ WalkStep
BY DEF Calling, WalkFails, WalkStep, WalkEnds, Read, Answers

\* Every step keeps the types.
LEMMA TypeNext == IInv /\ [Next]_vars => TypeOK'
<1> SUFFICES ASSUME IInv, [Next]_vars PROVE TypeOK'
  OBVIOUS
<1>1. TypeOK /\ Rooted /\ Based
  BY DEF IInv
<1>2. /\ RootsOf(rules) \subseteq Places
      /\ \A P : RootsOf(P) \subseteq Places
      /\ \A p : Exists(p) => Canon(p) \in Places
  BY <1>1, RootsNamed, CanonIsPlace DEF Rooted
<1>3. ASSUME NEW p, Exists(p) PROVE ToSet(<<Canon(p)>>) \subseteq Places
  <2>1. ToSet(<<Canon(p)>>) = {Canon(p)}
    BY DEF ToSet
  <2> QED BY <1>2, <1>3, <2>1
<1>4. ToSet(<<>>) = {}
  BY DEF ToSet
<1>5. CASE Tell
  BY <1>1, <1>2, <1>5 DEF Tell, TypeOK, tree, call, history
<1>6. CASE Exit
  BY <1>1, <1>6 DEF Exit, TypeOK, files, tree, call, history
<1>7. ASSUME NEW persist \in BOOLEAN, Approve(persist) PROVE TypeOK'
  <2>1. intent' \subseteq Places
    BY <1>2, <1>7 DEF Approve
  <2> QED BY <1>1, <1>2, <1>7, <2>1 DEF Approve, TypeOK, files, tree, call, history
<1>8. ASSUME NEW c \in Calls, NEW b \in BOOLEAN,
             UNCHANGED <<files, intent, denoted, edits, faults>>, roots' = roots,
             (Exists(c.path) /\ Begin(c, b)) \/ Missing(c, b)
      PROVE  TypeOK'
  <2>1. ToSet(stack') \subseteq Places /\ pc' \in {"walk", "answered"} /\ approved' = b
    BY <1>1, <1>3, <1>8 DEF Begin, Missing, TypeOK
  <2> QED BY <1>1, <1>8, <2>1 DEF TypeOK, files, tree
<1>9. CASE ExecutePending
  <2>1. PICK c \in parked : \/ /\ Exists(c.path) /\ Begin(c, TRUE)
                               /\ roots' = RootsAfter({Canon(c.path)})
                            \/ Missing(c, TRUE) /\ UNCHANGED roots
    BY <1>9 DEF ExecutePending
  <2>2. c \in Calls /\ UNCHANGED <<files, intent, denoted, edits, faults>>
    BY <1>1, <1>9 DEF ExecutePending, TypeOK
  <2> QED BY <1>8, <2>1, <2>2 DEF RootsAfter
<1>10. CASE Grant
  BY <1>1, <1>2, <1>10 DEF Grant, TypeOK, tree, call, history
<1>11. CASE Calling
  <2>1. ToSet(stack') \subseteq Places
    <3>1. CASE stack' = stack
      BY <1>1, <3>1 DEF TypeOK
    <3>2. CASE WalkStep
      <4>1. stack' \in Seq(Below) /\ Below \subseteq Places
        BY <3>2, WalkBelow DEF Below
      <4>2. DOMAIN stack' = 1 .. Len(stack') /\ \A i \in DOMAIN stack' : stack'[i] \in Below
        BY <4>1, LenProperties, ElementOfSeq
      <4> QED BY <4>1, <4>2 DEF ToSet
    <3> QED BY <1>11, <3>1, <3>2, CallingKeeps
  <2> QED BY <1>1, <1>11, <2>1, CallingKeeps DEF TypeOK, files, tree, history
<1>12. CASE Reply
  BY <1>1, <1>4, <1>12 DEF Reply, TypeOK, tree
<1>13. ASSUME NEW c \in Calls, Call(c) PROVE TypeOK'
  BY <1>8, <1>13 DEF Call
<1>14. ASSUME NEW c \in Calls, Park(c) PROVE TypeOK'
  BY <1>1, <1>14 DEF Park, TypeOK, tree, call, history
<1>15. ASSUME NEW argv \in Commands, RunCommand(argv) PROVE TypeOK'
  BY <1>1, <1>15 DEF RunCommand, TypeOK, files, tree, history
<1>16. ASSUME NEW argv \in Commands, ParkCommand(argv) PROVE TypeOK'
  BY <1>1, <1>16 DEF ParkCommand, TypeOK, files, tree, call, history
<1>17. ASSUME Edit, present' \subseteq Places, turned' \subseteq Turning \cap present', target' \in Targets
       PROVE  TypeOK'
  <2>1. edits' \in 0 .. MaxEdits
    BY <1>1, <1>17, ReadToolsAssumption DEF Edit, TypeOK
  <2> QED BY <1>1, <1>17, <2>1 DEF Edit, TypeOK, call
<1>18. ASSUME NEW p \in Loose, Vanish(p) \/ Appear(p) PROVE TypeOK'
  <2>1. Edit /\ target' \in Targets /\ present' \subseteq Places /\ turned' \subseteq Turning \cap present'
    BY <1>1, <1>18, ReadToolsAssumption DEF Vanish, Appear, TypeOK
  <2> QED BY <1>17, <2>1
<1>19. ASSUME NEW p \in Targets, Retarget(p) PROVE TypeOK'
  <2>1. Edit /\ target' \in Targets /\ present' \subseteq Places /\ turned' \subseteq Turning \cap present'
    BY <1>1, <1>19 DEF Retarget, TypeOK
  <2> QED BY <1>17, <2>1
<1>22. ASSUME NEW p \in Turning, Turn(p) PROVE TypeOK'
  <2>1. p \in Places /\ Under(p, p)
    BY LinkAssumption, UnderOrder
  <2>2. Edit /\ target' \in Targets /\ present' \subseteq Places /\ turned' \subseteq Turning \cap present'
    BY <1>1, <1>22, <2>1 DEF Turn, TypeOK
  <2> QED BY <1>17, <2>2
<1>20. CASE Crash
  <2>1. faults' \in 0 .. MaxFaults
    BY <1>1, <1>20, ReadToolsAssumption DEF Crash, TypeOK
  <2> QED BY <1>1, <1>4, <1>20, <2>1 DEF Crash, TypeOK, files, tree
<1>21. CASE UNCHANGED vars
  BY <1>1, <1>21 DEF vars, TypeOK, files, tree, call, history
<1> QED BY <1>5, <1>6, <1>7, <1>9, <1>10, <1>11, <1>12, <1>13, <1>14, <1>15, <1>16, <1>18, <1>19,
           <1>20, <1>21, <1>22 DEF Next, Calling

\* Roots stay what a rule has named: rules are only added, and where the link has
\* pointed is remembered.
LEMMA RootedNext == IInv /\ [Next]_vars => Rooted' /\ denoted \subseteq denoted' /\ rules \subseteq rules'
<1> SUFFICES ASSUME IInv, [Next]_vars
             PROVE  Rooted' /\ denoted \subseteq denoted' /\ rules \subseteq rules'
  OBVIOUS
<1>1. TypeOK /\ Rooted /\ Based
  BY DEF IInv
<1>2. /\ denoted \subseteq denoted' /\ rules \subseteq rules' /\ Recorded'
      /\ roots' \subseteq roots \/ (roots' = RootsOf(rules') /\ denoted' = denoted)
  <2>1. CASE \/ Exit \/ WalkFails \/ WalkStep \/ WalkEnds \/ Read \/ Reply \/ Crash
             \/ \E c \in Calls : Call(c) \/ Park(c)
             \/ \E argv \in Commands : RunCommand(argv) \/ ParkCommand(argv)
             \/ UNCHANGED vars
    <3>1. UNCHANGED <<tree, rules, denoted>> /\ (roots' = roots \/ roots' = {})
      BY <2>1 DEF Exit, WalkFails, WalkStep, WalkEnds, Read, Reply, Crash, Call, Park, RunCommand,
             ParkCommand, Answers, vars, files, tree, history, call
    <3> QED BY <1>1, <3>1 DEF Rooted, Recorded, tree
  <2>2. CASE Tell \/ (\E persist \in BOOLEAN : Approve(persist)) \/ Grant
    <3>1. UNCHANGED <<tree, denoted>> /\ rules \subseteq rules' /\ roots' = RootsOf(rules')
      BY <2>2 DEF Tell, Approve, Grant, files, tree, history
    <3> QED BY <1>1, <3>1 DEF Rooted, Recorded, tree
  <2>3. CASE ExecutePending
    <3>1. UNCHANGED <<tree, rules, denoted, roots>>
      BY <2>3 DEF ExecutePending, RootsAfter, files, tree
    <3> QED BY <1>1, <3>1 DEF Rooted, Recorded, tree
  <2>4. CASE \/ \E p \in Loose : Vanish(p) \/ Appear(p)
             \/ (\E p \in Targets : Retarget(p)) \/ (\E p \in Turning : Turn(p))
    <3>1. UNCHANGED <<rules, roots>> /\ denoted' = denoted \cup {<<LinkAt, target'>>} \cup (turned' \X {LeadsTo})
      BY <2>4 DEF Vanish, Appear, Retarget, Turn, Edit
    <3> QED BY <3>1 DEF Recorded
  <2> QED BY <2>1, <2>2, <2>3, <2>4 DEF Next
<1>3. ASSUME NEW x \in roots' PROVE \E r \in rules' : x \in HasNamed(r)'
  <2>1. CASE roots' \subseteq roots
    <3>1. PICK r \in rules : x \in HasNamed(r)
      BY <1>1, <1>3, <2>1 DEF Rooted
    <3> QED BY <1>2, <3>1, NamedGrows
  <2>2. CASE roots' = RootsOf(rules') /\ denoted' = denoted
    <3>1. PICK r \in rules' : x \in HasNamed(r)
      BY <1>1, <1>3, <2>2, RootsNamed DEF Rooted
    <3> QED BY <1>2, <3>1, NamedGrows
  <2> QED BY <1>2, <2>1, <2>2
<1> QED BY <1>2, <1>3 DEF Rooted

\* What was granted stays granted.
LEMMA GrantedKept ==
  ASSUME Granted, denoted \subseteq denoted', rules \subseteq rules', UNCHANGED <<base, approved, cur>>
  PROVE  Granted'
<1>1. CASE Under(Root, base)
  BY <1>1 DEF Granted
<1>2. CASE approved /\ base \in HasNamed(cur.path)
  <2>1. base \in HasNamed(cur.path)'
    BY <1>2, NamedGrows
  <2> QED BY <1>2, <2>1 DEF Granted
<1>3. CASE ~approved /\ \E r \in rules : \E p \in HasNamed(r) : Under(p, base)
  <2>1. PICK r \in rules : \E p \in HasNamed(r) : Under(p, base)
    BY <1>3
  <2>2. \E p \in HasNamed(r)' : Under(p, base)
    BY <2>1, NamedGrows
  <2>3. r \in rules'
    BY <2>1
  <2>4. \E q \in rules' : \E p \in HasNamed(q)' : Under(p, base')
    BY <2>2, <2>3
  <2> QED BY <1>3, <2>4 DEF Granted
<1> QED BY <1>1, <1>2, <1>3 DEF Granted

\* A call begins where a root is, or where the human said.
LEMMA BeginGranted ==
  ASSUME IInv, NEW c, Exists(c.path), NEW b \in BOOLEAN, b \/ Within(roots, Canon(c.path)),
         Begin(c, b), UNCHANGED <<rules, denoted>>
  PROVE  base' \in Places /\ Granted'
<1>1. TypeOK /\ Rooted /\ Based
  BY DEF IInv
<1>2. base' = Canon(c.path) /\ cur' = c /\ approved' = b /\ base' \in Places
  BY <1>1, CanonIsPlace DEF Begin
<1>3. CASE b
  <2>1. Canon(c.path) \in HasNamed(c.path)
    BY <1>1, CanonNamed DEF Rooted
  <2>2. base' \in HasNamed(cur.path)'
    BY <1>2, <2>1 DEF HasNamed, Via
  <2> QED BY <1>2, <1>3, <2>2 DEF Granted
<1>4. CASE ~b
  <2>1. PICK x \in roots \cup {Root} : Under(x, Canon(c.path))
    BY <1>4 DEF Within
  <2>2. CASE x = Root
    BY <1>2, <2>1, <2>2 DEF Granted
  <2>3. CASE x \in roots
    <3>1. PICK r \in rules : x \in HasNamed(r)
      BY <1>1, <2>3 DEF Rooted
    <3>2. x \in HasNamed(r)' /\ r \in rules'
      BY <3>1, NamedGrows
    <3>3. \E q \in rules' : \E p \in HasNamed(q)' : Under(p, base')
      BY <1>2, <2>1, <3>2
    <3> QED BY <1>2, <1>4, <3>3 DEF Granted
  <2> QED BY <2>1, <2>2, <2>3
<1> QED BY <1>2, <1>3, <1>4

\* A call begins where it was granted and finds what is below.
LEMMA BasedNext == IInv /\ [Next]_vars => Based'
<1> SUFFICES ASSUME IInv, [Next]_vars PROVE Based'
  OBVIOUS
<1>1. TypeOK /\ Rooted /\ Based
  BY DEF IInv
<1>2. denoted \subseteq denoted' /\ rules \subseteq rules'
  BY RootedNext
<1>3. \A A : <<>> \in Seq(A)
  BY EmptySeq
<1>4. ASSUME UNCHANGED call,
             pc' = pc \/ (pc \notin {"walk", "answered"} /\ pc' \notin {"walk", "answered"})
      PROVE  Based'
  <2>1. UNCHANGED <<cur, approved, base, stack, out, Tool, Below>>
    BY <1>4 DEF call, Tool, Below
  <2>2. Granted => Granted'
    BY <1>2, <2>1, GrantedKept
  <2>3. CASE pc \notin {"walk", "answered"} /\ pc' \notin {"walk", "answered"}
    BY <1>1, <2>1, <2>3 DEF Based
  <2>4. CASE pc \in {"walk", "answered"} /\ pc' = pc
    <3>1. pc' \in {"walk", "answered"} /\ Tool' /\ base' # <<>> => base' \in Places /\ Granted'
      BY <1>1, <2>1, <2>2, <2>4 DEF Based
    <3>2. pc' \in {"walk", "answered"} /\ Tool' =>
            /\ pc' = "walk" => stack' \in Seq(Below') /\ base' \in Places
            /\ cur'.op = "list" => out' \in Seq(Below')
            /\ cur'.op = "search" => out' \in Seq(Below' \X Nat)
      BY <1>1, <2>1, <2>4 DEF Based
    <3> QED BY <1>1, <2>1, <2>4, <3>1, <3>2 DEF Based
  <2> QED BY <1>4, <2>3, <2>4
<1>5. ASSUME NEW c \in Calls, NEW b \in BOOLEAN, pc \in {"idle", "approved"}, UNCHANGED <<rules, denoted>>,
             \/ Exists(c.path) /\ Begin(c, b) /\ (b \/ Within(roots, Canon(c.path)))
             \/ Missing(c, b)
      PROVE  Based'
  <2>1. base = <<>> /\ stack = <<>> /\ out = <<>>
    BY <1>1, <1>5 DEF Based
  <2>2. CASE Exists(c.path) /\ Begin(c, b) /\ (b \/ Within(roots, Canon(c.path)))
    <3>1. base' \in Places /\ Granted'
      BY <1>5, <2>2, BeginGranted
    <3>2. pc' = "walk" /\ cur' = c /\ stack' = <<base'>> /\ out' = <<>>
      BY <2>2 DEF Begin
    <3>3. base' \in Below'
      BY <3>1, UnderOrder DEF Below
    <3>4. stack' \in Seq(Below')
      BY <3>2, <3>3
    <3> QED BY <1>3, <3>1, <3>2, <3>4 DEF Based
  <2>3. CASE Missing(c, b)
    BY <1>3, <2>1, <2>3 DEF Missing, Based
  <2> QED BY <1>5, <2>2, <2>3
<1>6. CASE Calling
  <2>1. /\ UNCHANGED <<cur, approved, base, Tool, Below>>
        /\ pc = "walk" /\ pc' \in {"walk", "answered"}
        /\ (stack' = stack /\ out' = out) \/ WalkStep
    BY <1>6, CallingKeeps DEF Tool, Below
  <2>2. Granted => Granted'
    BY <1>2, <2>1, GrantedKept
  <2>3. /\ cur \in Calls /\ Tool /\ stack \in Seq(Below) /\ base \in Places
        /\ cur.op = "list" => out \in Seq(Below)
        /\ cur.op = "search" => out \in Seq(Below \X Nat)
    <3>1. cur \in Calls
      BY <1>1, <2>1 DEF Based
    <3>2. Tool
      BY <3>1, ReadToolsAssumption DEF Tool
    <3> QED BY <1>1, <2>1, <3>1, <3>2 DEF Based
  <2>4. /\ stack' \in Seq(Below)
        /\ cur.op = "list" => out' \in Seq(Below)
        /\ cur.op = "search" => out' \in Seq(Below \X Nat)
    BY <2>1, <2>3, WalkBelow
  <2>5. base # <<>> => Granted'
    BY <1>1, <2>1, <2>2, <2>3 DEF Based
  <2> QED BY <2>1, <2>3, <2>4, <2>5 DEF Based
<1>7. CASE Reply \/ Crash
  BY <1>7 DEF Reply, Crash, Based
<1>8. ASSUME NEW argv \in Commands, RunCommand(argv) PROVE Based'
  <2>1. pc = "idle" /\ pc' = "answered" /\ cur'.op = "git"
    BY <1>8 DEF RunCommand
  <2> QED BY <2>1 DEF Based, Tool
<1>9. CASE \/ Tell \/ Exit \/ (\E persist \in BOOLEAN : Approve(persist)) \/ Grant
           \/ (\E c \in Calls : Park(c)) \/ (\E argv \in Commands : ParkCommand(argv))
           \/ (\E p \in Loose : Vanish(p) \/ Appear(p)) \/ (\E p \in Targets : Retarget(p))
           \/ (\E p \in Turning : Turn(p)) \/ UNCHANGED vars
  <2>1. UNCHANGED call
    BY <1>9 DEF Tell, Exit, Approve, Grant, Park, ParkCommand, Vanish, Appear, Retarget, Turn, Edit, vars
  <2>2. pc' = pc \/ (pc \notin {"walk", "answered"} /\ pc' \notin {"walk", "answered"})
    BY <1>9 DEF Tell, Exit, Approve, Grant, Park, ParkCommand, Vanish, Appear, Retarget, Turn, Edit, vars
  <2> QED BY <1>4, <2>1, <2>2
<1>10. ASSUME NEW c \in Calls, Call(c) PROVE Based'
  BY <1>5, <1>10 DEF Call, files, tree
<1>11. CASE ExecutePending
  <2>1. PICK c \in parked : (Exists(c.path) /\ Begin(c, TRUE)) \/ Missing(c, TRUE)
    BY <1>11 DEF ExecutePending
  <2>2. c \in Calls /\ UNCHANGED <<rules, denoted>> /\ pc = "approved"
    BY <1>1, <1>11 DEF ExecutePending, TypeOK, files, tree
  <2> QED BY <1>5, <2>1, <2>2
<1> QED BY <1>6, <1>7, <1>8, <1>9, <1>10, <1>11 DEF Next, Calling

\* IInv holds in every state: the extra roots come from rules, and a call stays
\* below a place it was granted.
THEOREM Invariance == Spec => []IInv
<1>1. IInv /\ [Next]_vars => IInv'
  BY TypeNext, RootedNext, BasedNext DEF IInv
<1> QED BY InvInit, <1>1, PTL DEF Spec

\* Types hold; in particular no root, base or visited directory is elsewhere than
\* at a place of the tree.
THEOREM TypeCorrect == Spec => []TypeOK
<1>1. IInv => TypeOK
  BY DEF IInv
<1> QED BY Invariance, <1>1, PTL

-----------------------------------------------------------------------------
(***************************************************************************)
(* Commands that run unasked.                                              *)
(***************************************************************************)
\* What is left of a sequence from its k-th element on.
LEMMA Behind ==
  ASSUME NEW T, NEW s \in Seq(T), NEW k \in 1 .. Len(s)
  PROVE  LET t == SubSeq(s, k, Len(s)) IN
         /\ t \in Seq(T) /\ t # <<>> /\ Head(t) = s[k]
         /\ Tail(t) \in Seq(T) /\ Tail(t) = SubSeq(s, k + 1, Len(s)) /\ Len(Tail(t)) = Len(s) - k
         /\ \A i \in 1 .. Len(s) - k : Tail(t)[i] = s[k + i]
<1> DEFINE t == SubSeq(s, k, Len(s))
<1>1. Len(s) \in Nat /\ k \in Nat /\ \A i \in 1 .. Len(s) : s[i] \in T
  BY LenProperties, ElementOfSeq
<1>2. t \in Seq(T) /\ Len(t) = Len(s) - k + 1
  BY <1>1, SubSeqProperties
<1>3. Head(t) = s[k] /\ Tail(t) = SubSeq(s, k + 1, Len(s))
  BY <1>1, HeadTailOfSubSeq
<1>4. /\ SubSeq(s, k + 1, Len(s)) \in Seq(T)
      /\ Len(SubSeq(s, k + 1, Len(s))) = Len(s) - k
      /\ \A i \in 1 .. Len(s) - (k + 1) + 1 : SubSeq(s, k + 1, Len(s))[i] = s[(k + 1) + i - 1]
  <2>1. \A i \in k + 1 .. Len(s) : s[i] \in T
    BY <1>1
  <2> QED BY <1>1, <2>1, SubSeqProperties
<1>5. \A i \in 1 .. Len(s) - k : i \in 1 .. Len(s) - (k + 1) + 1 /\ (k + 1) + i - 1 = k + i
  BY <1>1
<1>6. t # <<>>
  <2>1. Len(t) # 0
    BY <1>1, <1>2
  <2> HIDE DEF t
  <2> QED BY <2>1
<1> QED BY <1>2, <1>3, <1>4, <1>5, <1>6

\* The paths to look at are what stands behind the first "--".
LEMMA ReadPaths ==
  ASSUME NEW T, NEW args \in Seq(T), SafeGitRead(args).safe
  PROVE  \E e \in 1 .. Len(args) + 1 :
           /\ SafeGitRead(args).paths = SubSeq(args, e + 1, Len(args))
           /\ \A d \in 1 .. Len(args) : Is(args[d], "--") => e <= d
<1> DEFINE dashes == {i \in DOMAIN args : Is(args[i], "--")}
           First(i) == i \in dashes \cup {Len(args) + 1} /\ \A e \in dashes : i <= e
           end == CHOOSE i \in 1 .. Len(args) + 1 : First(i)
           Known == \A e \in 1 .. end - 1 : IsOption(args[e]) => args[e].word \in ReadOptions
<1>1. Len(args) \in Nat /\ DOMAIN args = 1 .. Len(args)
  BY LenProperties
<1>2. dashes \subseteq 1 .. Len(args)
  BY <1>1
<1>3. \E i \in 1 .. Len(args) + 1 : First(i)
  <2>1. CASE dashes = {}
    <3>1. First(Len(args) + 1) /\ Len(args) + 1 \in 1 .. Len(args) + 1
      BY <1>1, <2>1
    <3> QED BY <3>1
  <2>2. CASE dashes # {}
    <3>1. PICK i \in dashes : \A e \in dashes : i <= e
      <4>1. dashes \subseteq Nat
        BY <1>1
      <4> HIDE DEF dashes
      <4> QED BY <2>2, <4>1, LeastNatural
    <3>2. i \in 1 .. Len(args) + 1 /\ First(i)
      BY <1>1, <1>2, <3>1
    <3> QED BY <3>2
  <2> QED BY <2>1, <2>2
<1>4. end \in 1 .. Len(args) + 1 /\ First(end)
  <2> HIDE DEF First
  <2> QED BY <1>3
<1>5. SafeGitRead(args) = IF Known THEN Safe(SubSeq(args, end + 1, Len(args))) ELSE NotSafe
  BY DEF SafeGitRead
<1> HIDE DEF end, Known
<1>6. Known
  BY <1>5 DEF NotSafe
<1>7. SafeGitRead(args).paths = SubSeq(args, end + 1, Len(args))
  <2>1. SafeGitRead(args) = Safe(SubSeq(args, end + 1, Len(args)))
    BY <1>5, <1>6, Zenon
  <2>2. \A p : Safe(p).paths = p
    BY DEF Safe
  <2> QED BY <2>1, <2>2, Zenon
<1>8. \A d \in 1 .. Len(args) : Is(args[d], "--") => end <= d
  BY <1>1, <1>4
<1> QED BY <1>4, <1>7, <1>8

\* They are among the arguments, and all that follow a "--" are among them.
LEMMA ReadCovers ==
  ASSUME NEW T, NEW args \in Seq(T), SafeGitRead(args).safe
  PROVE  /\ SafeGitRead(args).paths \in Seq(T)
         /\ \A d \in 1 .. Len(args) : \A j \in d + 1 .. Len(args) :
              Is(args[d], "--") => args[j] \in ToSet(SafeGitRead(args).paths)
<1>1. Len(args) \in Nat /\ \A i \in 1 .. Len(args) : args[i] \in T
  BY LenProperties, ElementOfSeq
<1>2. PICK end \in 1 .. Len(args) + 1 :
        /\ SafeGitRead(args).paths = SubSeq(args, end + 1, Len(args))
        /\ \A d \in 1 .. Len(args) : Is(args[d], "--") => end <= d
  BY ReadPaths
<1> DEFINE p == SubSeq(args, end + 1, Len(args))
<1>3. /\ p \in Seq(T) /\ Len(p) = IF end + 1 <= Len(args) THEN Len(args) - (end + 1) + 1 ELSE 0
      /\ \A e \in 1 .. Len(args) - (end + 1) + 1 : p[e] = args[(end + 1) + e - 1]
  <2>1. \A e \in end + 1 .. Len(args) : args[e] \in T
    BY <1>1
  <2> QED BY <1>1, <2>1, SubSeqProperties
<1> HIDE DEF p
<1>4. ASSUME NEW d \in 1 .. Len(args), NEW j \in d + 1 .. Len(args), Is(args[d], "--")
      PROVE  args[j] \in ToSet(p)
  <2>1. end <= d
    BY <1>2, <1>4
  <2>2. /\ j - end \in 1 .. Len(args) - (end + 1) + 1 /\ (end + 1) + (j - end) - 1 = j
        /\ j - end \in 1 .. Len(p)
    BY <1>1, <1>3, <2>1
  <2>3. j - end \in DOMAIN p /\ p[j - end] = args[j]
    BY <1>3, <2>2, LenProperties
  <2> QED BY <2>3 DEF ToSet
<1> QED BY <1>2, <1>3, <1>4 DEF p

\* What stands behind a "--" of a subcommand that reads.
BehindDashes(argv) ==
  {argv[j] : j \in {i \in 3 .. Len(argv) :
     argv[Subcommand(argv)].word \in Readers /\ \E d \in 2 .. i - 1 : Is(argv[d], "--")}}

\* The names that are judged are among them.
LEMMA JudgedNames ==
  ASSUME NEW T, NEW argv \in Seq(T)
  PROVE  {argv[j] : j \in Names(argv) \ Unjudged(argv)} \subseteq BehindDashes(argv)
<1> SUFFICES ASSUME NEW j \in Names(argv), j \notin Unjudged(argv) PROVE argv[j] \in BehindDashes(argv)
  OBVIOUS
<1>1. Subcommand(argv) \in {2, 3, 4}
  BY DEF Subcommand
<1>2. j \in Subcommand(argv) + 1 .. Len(argv) /\ argv[Subcommand(argv)].word \in Readers
  BY DEF Names
<1>3. AfterDashes(argv, j)
  BY DEF Unjudged
<1>4. PICK d \in Subcommand(argv) + 1 .. j - 1 : Is(argv[d], "--")
  BY <1>3 DEF AfterDashes
<1>5. Len(argv) \in Nat
  BY LenProperties
<1>6. j \in 3 .. Len(argv) /\ d \in 2 .. j - 1
  BY <1>1, <1>2, <1>4, <1>5
<1> QED BY <1>2, <1>4, <1>6 DEF BehindDashes

\* A subcommand that is safe changes nothing, and the paths git takes behind a
\* "--" are the ones to look at.
LEMMA SubcommandSafe ==
  ASSUME NEW T, NEW argv \in Seq(T), Len(argv) > 0, NEW k \in {2, 3, 4}, Subcommand(argv) = k,
         SafeSubcommand(SubSeq(argv, k, Len(argv))).safe,
         \A d \in 2 .. k - 1 : ~Is(argv[d], "--")
  PROVE  /\ ~Writes(argv)
         /\ BehindDashes(argv) \subseteq ToSet(SafeSubcommand(SubSeq(argv, k, Len(argv))).paths)
         /\ SafeSubcommand(SubSeq(argv, k, Len(argv))).paths \in Seq(T)
<1> DEFINE t == SubSeq(argv, k, Len(argv))
           args == Tail(t)
<1>1. Len(argv) \in Nat /\ DOMAIN argv = 1 .. Len(argv)
  BY LenProperties
<1>2. k \in 1 .. Len(argv)
  <2>1. SUFFICES ASSUME Len(argv) < k PROVE FALSE
    BY <1>1
  <2>2. t = <<>>
    BY <1>1, <2>1, SubSeqEmpty
  <2> HIDE DEF t
  <2>3. ~SafeSubcommand(t).safe
    BY <2>2 DEF SafeSubcommand, NotSafe
  <2> QED BY <2>3 DEF t
<1>3. /\ t # <<>> /\ Head(t) = argv[k] /\ args \in Seq(T) /\ Len(args) = Len(argv) - k
      /\ args = SubSeq(argv, k + 1, Len(argv))
      /\ \A i \in 1 .. Len(argv) - k : args[i] = argv[k + i]
  BY <1>2, Behind
<1>4. SafeSubcommand(t).safe
  OBVIOUS
<1> HIDE DEF t
<1> DEFINE w == argv[k].word
<1>5. DOMAIN args = 1 .. Len(argv) - k
  BY <1>3, LenProperties
<1> HIDE DEF args
<1>6. ~argv[k].joined /\ w \in Readers \cup {"branch", "remote"}
  BY <1>3, <1>4 DEF SafeSubcommand, NotSafe
<1>7. /\ w \in Readers => SafeSubcommand(t) = SafeGitRead(args)
      /\ w = "branch" => SafeSubcommand(t) = SafeGitBranch(args)
      /\ w = "remote" => SafeSubcommand(t) = SafeGitRemote(args)
  BY <1>3, <1>6 DEF SafeSubcommand, Readers, args
<1>8. ~Writes(argv)
  <2>1. Writes(argv) = \/ w \notin Readers \cup {"branch", "remote"}
                       \/ w = "branch" /\ \E i \in DOMAIN args : ~IsOption(args[i]) \/ Is(args[i], "-D") \/ Is(args[i], "-m")
                       \/ w = "remote" /\ args # <<>> /\ Is(Head(args), "add")
    BY <1>3 DEF Writes
  <2>2. w = "branch" => \A i \in DOMAIN args : IsOption(args[i]) /\ ~Is(args[i], "-D") /\ ~Is(args[i], "-m")
    <3>1. SUFFICES ASSUME w = "branch" PROVE \A i \in DOMAIN args : args[i].word \in BranchOptions
      BY DEF IsOption, BranchOptions, Is
    <3> QED BY <1>4, <1>7, <3>1 DEF SafeGitBranch, NotSafe
  <2>3. w = "remote" => args = <<>> \/ ~Is(Head(args), "add")
    <3>1. SUFFICES ASSUME w = "remote", args # <<>> PROVE ~Is(Head(args), "add")
      OBVIOUS
    <3>2. \/ args = <<Word("-v")>> \/ Is(Head(args), "show") \/ Is(Head(args), "get-url")
      BY <1>4, <1>7, <3>1 DEF SafeGitRemote, NotSafe
    <3>3. CASE args = <<Word("-v")>>
      <4>1. Head(args) = Word("-v")
        BY <3>3
      <4> QED BY <4>1 DEF Word, Is
    <3> QED BY <3>2, <3>3 DEF Is
  <2> QED BY <1>6, <2>1, <2>2, <2>3
<1>9. ASSUME NEW p \in BehindDashes(argv) PROVE p \in ToSet(SafeSubcommand(t).paths)
  <2>1. PICK j \in 3 .. Len(argv) : /\ p = argv[j] /\ argv[Subcommand(argv)].word \in Readers
                                    /\ \E d \in 2 .. j - 1 : Is(argv[d], "--")
    BY <1>9 DEF BehindDashes
  <2>2. w \in Readers
    BY <2>1
  <2>3. PICK d \in 2 .. j - 1 : Is(argv[d], "--")
    BY <2>1
  <2>4. d # k
    BY <2>2, <2>3 DEF Readers, Is
  <2>5. d > k
    BY <2>3, <2>4
  <2>6. /\ d - k \in 1 .. Len(argv) - k /\ k + (d - k) = d
        /\ j - k \in 1 .. Len(argv) - k /\ k + (j - k) = j
        /\ j - k \in (d - k) + 1 .. Len(argv) - k
    BY <1>1, <1>2, <2>5
  <2>7. args[d - k] = argv[d] /\ args[j - k] = argv[j]
    BY <1>3, <2>6
  <2>8. args[j - k] \in ToSet(SafeGitRead(args).paths)
    <3>1. SafeGitRead(args).safe
      BY <1>4, <1>7, <2>2
    <3>2. Is(args[d - k], "--")
      BY <2>3, <2>7
    <3> QED BY <1>3, <2>6, <3>1, <3>2, ReadCovers
  <2> QED BY <1>7, <2>1, <2>2, <2>7, <2>8
<1>10. SafeSubcommand(t).paths \in Seq(T)
  <2>1. CASE w \in Readers
    BY <1>3, <1>4, <1>7, <2>1, ReadCovers
  <2>2. CASE w \in {"branch", "remote"}
    <3>1. SafeSubcommand(t).paths = <<>>
      BY <1>7, <2>2 DEF SafeGitBranch, SafeGitRemote, Safe, NotSafe
    <3> QED BY <3>1, EmptySeq
  <2> QED BY <1>6, <2>1, <2>2
<1> QED BY <1>8, <1>9, <1>10 DEF t

\* An argument vector that is safe changes nothing, and the directory git is sent
\* to and the paths it takes are the ones to look at.
LEMMA VectorSafe ==
  ASSUME NEW T, NEW argv \in Seq(T), SafeReadOnly(argv).safe
  PROVE  ~Writes(argv) /\ Sent(argv) \cup BehindDashes(argv) \subseteq ToSet(SafeReadOnly(argv).paths)
<1> DEFINE args == Tail(argv)
           n == Len(argv)
<1>1. argv # <<>> /\ SafeReadOnly(argv) = SafeGit(args)
  BY DEF SafeReadOnly, NotSafe
<1>2. n \in Nat \ {0} /\ DOMAIN argv = 1 .. n
  BY <1>1, LenProperties, EmptySeq
<1>3. args = SubSeq(argv, 2, n) /\ args \in Seq(T) /\ Len(args) = n - 1
      /\ \A i \in 1 .. n - 1 : args[i] = argv[i + 1]
  BY <1>1, HeadTailProperties, TailIsSubSeq
<1>4. SafeGit(args).safe
  BY <1>1
<1>5. args # <<>> => n > 1 /\ args[1] = argv[2] /\ Head(args) = argv[2]
  BY <1>2, <1>3, EmptySeq
<1> HIDE DEF args
<1>6. CASE ~Retargets(args)
  <2>1. SafeGit(args) = SafeSubcommand(args) /\ SafeSubcommand(args).safe
    BY <1>4, <1>6 DEF SafeGit
  <2>2. args # <<>> /\ ~Head(args).joined /\ Head(args).word \in Readers \cup {"branch", "remote"}
    BY <2>1 DEF SafeSubcommand, NotSafe
  <2>3. Subcommand(argv) = 2 /\ Sent(argv) = {}
    BY <1>5, <2>2 DEF Subcommand, Sent, Is, Readers
  <2>4. ~Writes(argv) /\ BehindDashes(argv) \subseteq ToSet(SafeSubcommand(args).paths)
    BY <1>2, <1>3, <2>1, <2>3, SubcommandSafe
  <2> QED BY <1>1, <2>1, <2>3, <2>4
<1>7. CASE Retargets(args)
  <2> DEFINE taken == IF args[1].joined THEN 1 ELSE 2
             dir == IF args[1].joined THEN Operand(args[1].path) ELSE args[2]
             rest == SubSeq(args, taken + 1, Len(args))
             tail == SafeSubcommand(rest)
  <2>1. SafeGit(args) = IF tail.safe THEN Safe(<<dir>> \o tail.paths) ELSE NotSafe
    BY <1>7 DEF SafeGit
  <2>2. args # <<>> /\ args[1] = argv[2] /\ n > 1
    BY <1>5, <1>7 DEF Retargets
  <2>3. rest = SubSeq(argv, taken + 2, n)
    <3>1. \A i \in 2 .. n : argv[i] \in T
      BY <1>2, ElementOfSeq
    <3>2. \A i \in taken + 2 .. n : argv[i] \in T
      BY <3>1
    <3>3. \A i \in taken + 1 .. Len(args) : args[i] \in T
      BY <1>2, <1>3, ElementOfSeq
    <3>4. taken \in {1, 2} /\ n \in Nat /\ Len(args) = n - 1 /\ \A i \in 1 .. n - 1 : args[i] = argv[i + 1]
      BY <1>2, <1>3
    <3> DEFINE r == SubSeq(argv, taken + 2, n)
    <3> HIDE DEF taken
    <3>5. /\ rest \in Seq(T)
          /\ Len(rest) = IF taken + 1 <= Len(args) THEN Len(args) - (taken + 1) + 1 ELSE 0
          /\ \A i \in 1 .. Len(args) - (taken + 1) + 1 : rest[i] = args[(taken + 1) + i - 1]
      BY <3>3, <3>4, SubSeqProperties
    <3>6. /\ r \in Seq(T)
          /\ Len(r) = IF taken + 2 <= n THEN n - (taken + 2) + 1 ELSE 0
          /\ \A i \in 1 .. n - (taken + 2) + 1 : r[i] = argv[(taken + 2) + i - 1]
      BY <3>2, <3>4, SubSeqProperties
    <3> HIDE DEF rest, r
    <3>7. Len(rest) = Len(r)
      BY <3>4, <3>5, <3>6
    <3>8. ASSUME NEW i \in 1 .. Len(rest) PROVE rest[i] = r[i]
      <4>1. i \in 1 .. Len(args) - (taken + 1) + 1 /\ i \in 1 .. n - (taken + 2) + 1
        BY <3>4, <3>5
      <4>2. (taken + 1) + i - 1 \in 1 .. n - 1 /\ ((taken + 1) + i - 1) + 1 = (taken + 2) + i - 1
        BY <3>4, <4>1
      <4> QED BY <3>4, <3>5, <3>6, <4>1, <4>2
    <3>9. rest = r
      BY <3>5, <3>6, <3>7, <3>8, SeqEqual
    <3> QED BY <3>9 DEF r
  <2>4. tail.safe /\ SafeGit(args).paths = <<dir>> \o tail.paths
    BY <1>4, <2>1 DEF Safe, NotSafe
  <2>5. /\ Subcommand(argv) = taken + 2 /\ taken + 2 \in {2, 3, 4}
        /\ Sent(argv) = {dir}
        /\ \A d \in 2 .. (taken + 2) - 1 : ~Is(argv[d], "--")
    <3>1. CASE args[1].joined
      <4>1. args[1].word = "--git-dir"
        BY <1>7, <3>1 DEF Retargets, Is
      <4>2. \A d \in 2 .. 2 : ~Is(argv[d], "--")
        BY <2>2, <3>1 DEF Is
      <4> QED BY <2>2, <3>1, <4>2 DEF Subcommand, Sent, Is
    <3>2. CASE ~args[1].joined
      <4>1. Is(args[1], "-C") /\ Len(args) > 1 /\ ~IsOption(args[2])
        BY <1>7, <3>2 DEF Retargets
      <4>2. args[2] = argv[3]
        BY <1>2, <1>3, <4>1
      <4>3. ~Is(argv[2], "--") /\ ~Is(argv[3], "--")
        BY <2>2, <4>1, <4>2 DEF Is, IsOption, OtherOptions
      <4>4. \A d \in 2 .. 3 : ~Is(argv[d], "--")
        <5>1. \A d \in 2 .. 3 : d = 2 \/ d = 3
          OBVIOUS
        <5> QED BY <4>3, <5>1
      <4> QED BY <2>2, <3>2, <4>1, <4>2, <4>4 DEF Subcommand, Sent
    <3> QED BY <3>1, <3>2
  <2>6. ~Writes(argv) /\ BehindDashes(argv) \subseteq ToSet(tail.paths) /\ tail.paths \in Seq(T)
    <3>1. tail = SafeSubcommand(SubSeq(argv, taken + 2, Len(argv)))
      BY <2>3
    <3> HIDE DEF taken, tail, dir
    <3>2. SafeSubcommand(SubSeq(argv, taken + 2, Len(argv))).safe /\ Len(argv) > 0
      BY <1>2, <2>4, <3>1
    <3> QED BY <2>5, <3>1, <3>2, SubcommandSafe
  <2>7. {dir} \cup ToSet(tail.paths) \subseteq ToSet(<<dir>> \o tail.paths)
    <3> HIDE DEF dir, tail
    <3> DEFINE U == T \cup {dir}
               l == <<dir>> \o tail.paths
    <3>1. <<dir>> \in Seq(U) /\ tail.paths \in Seq(U) /\ Len(<<dir>>) = 1 /\ <<dir>>[1] = dir
      BY <2>6, SeqMonotonic
    <3>2. DOMAIN l = 1 .. 1 + Len(tail.paths) /\ Len(tail.paths) \in Nat
          /\ \A i \in 1 .. 1 + Len(tail.paths) : l[i] = IF i <= 1 THEN <<dir>>[i] ELSE tail.paths[i - 1]
      BY <3>1, ConcatProperties, LenProperties
    <3>3. DOMAIN tail.paths = 1 .. Len(tail.paths)
      BY <3>1, LenProperties
    <3> HIDE DEF l
    <3>4. dir = l[1] /\ 1 \in DOMAIN l
      BY <3>1, <3>2
    <3>5. ASSUME NEW i \in DOMAIN tail.paths PROVE i + 1 \in DOMAIN l /\ l[i + 1] = tail.paths[i]
      BY <3>2, <3>3
    <3>6. {dir} \cup ToSet(tail.paths) \subseteq ToSet(l)
      BY <3>4, <3>5 DEF ToSet
    <3> QED BY <3>6 DEF l
  <2> QED BY <1>1, <2>4, <2>5, <2>6, <2>7
<1> QED BY <1>6, <1>7

\* A command nobody was asked about changes nothing, and stays in the workspace
\* and in what the rules name, whatever its arguments are.
THEOREM GitUnattended == Spec => UnattendedGitReads
<1>1. ASSUME IInv, [Next]_vars
      PROVE  [pc = "idle" /\ pc' = "answered" /\ cur'.op = "git" =>
                LET argv == cur'.argv
                    judged == {argv[j] : j \in Names(argv) \ Unjudged(argv)} IN
                  /\ ~Writes(argv)
                  /\ \A t \in Sent(argv) \cup judged :
                       LET p == Canon(Named(t)) IN
                         Under(Root, p) \/ \E r \in rules : \E q \in HasNamed(r) : Under(q, p)]_vars
  <2>1. SUFFICES ASSUME pc = "idle", pc' = "answered", cur'.op = "git"
                 PROVE  /\ ~Writes(cur'.argv)
                        /\ \A t \in Sent(cur'.argv) \cup
                                {cur'.argv[j] : j \in Names(cur'.argv) \ Unjudged(cur'.argv)} :
                             \/ Under(Root, Canon(Named(t)))
                             \/ \E r \in rules : \E q \in HasNamed(r) : Under(q, Canon(Named(t)))
    OBVIOUS
  <2>2. Rooted
    BY <1>1 DEF IInv
  <2>3. \A c \in Calls : ~Call(c)
    <3>1. ASSUME NEW c \in Calls, Call(c) PROVE FALSE
      <4>1. cur' = c
        BY <2>1, <3>1 DEF Call, Begin, Missing
      <4> QED BY <2>1, <4>1, ReadToolsAssumption
    <3> QED BY <3>1
  <2>4. PICK argv \in Commands : RunCommand(argv)
    BY <1>1, <2>1, <2>3 DEF Next, Tell, Exit, Approve, ExecutePending, Grant, WalkFails, WalkStep, WalkEnds,
       Read, Reply, Park, ParkCommand, Vanish, Appear, Retarget, Turn, Edit, Crash, vars
  <2>5. cur'.argv = argv /\ Accepted(argv)
    BY <2>4 DEF RunCommand
  <2> DEFINE s == SafeReadOnly(argv)
  <2>6. s.safe /\ \A i \in DOMAIN s.paths : Within(roots, Canon(Named(s.paths[i])))
    BY <2>5 DEF Accepted
  <2>7. argv \in Seq(Tokens)
    BY <2>4, ReadToolsAssumption
  <2>8. ~Writes(argv) /\ Sent(argv) \cup {argv[j] : j \in Names(argv) \ Unjudged(argv)} \subseteq ToSet(s.paths)
    BY <2>6, <2>7, VectorSafe, JudgedNames
  <2>9. ASSUME NEW t \in ToSet(s.paths)
        PROVE  \/ Under(Root, Canon(Named(t)))
               \/ \E r \in rules : \E q \in HasNamed(r) : Under(q, Canon(Named(t)))
    <3>1. Within(roots, Canon(Named(t)))
      BY <2>6, <2>9 DEF ToSet
    <3>2. PICK x \in roots \cup {Root} : Under(x, Canon(Named(t)))
      BY <3>1 DEF Within
    <3>3. x \in roots => \E r \in rules : x \in HasNamed(r)
      BY <2>2 DEF Rooted
    <3> QED BY <3>2, <3>3
  <2> QED BY <2>5, <2>8, <2>9
<1> QED BY Invariance, <1>1, PTL DEF Spec, UnattendedGitReads

-----------------------------------------------------------------------------
(***************************************************************************)
(* Answers that are whole: what a walk passes and in which order.          *)
(***************************************************************************)
\* What is picked keeps its order, and nothing in the set is left out.
LEMMA PickedOrder ==
  ASSUME NEW T, NEW s \in Seq(T), NEW ok
  PROVE  LET r == Picked(s, ok) IN
           \E g \in [1 .. Len(r) -> 1 .. Len(s)] :
             /\ \A i, j \in 1 .. Len(r) : i < j => g[i] < g[j]
             /\ \A i \in 1 .. Len(r) : r[i] = s[g[i]] /\ r[i] \in ok
             /\ \A k \in 1 .. Len(s) : s[k] \in ok => \E i \in 1 .. Len(r) : g[i] = k
<1> DEFINE N == Len(s)
           Good(r, m, g) ==
             /\ \A i, j \in 1 .. Len(r) : i < j => g[i] < g[j]
             /\ \A i \in 1 .. Len(r) : r[i] = s[g[i]] /\ r[i] \in ok
             /\ \A k \in 1 .. m : s[k] \in ok => \E i \in 1 .. Len(r) : g[i] = k
<1>1. N \in Nat
  BY LenProperties
<1>2. PICK f : /\ f[0] = <<>> /\ Picked(s, ok) = f[N]
               /\ \A k \in 0 .. N : f[k] \in Seq(T \cap ok)
               /\ \A k \in 1 .. N : f[k] = IF s[k] \in ok THEN Append(f[k - 1], s[k]) ELSE f[k - 1]
  <2> HIDE DEF Good
  <2>1. \E f : /\ f[0] = <<>> /\ Picked(s, ok) = f[Len(s)]
               /\ \A k \in 0 .. Len(s) : f[k] \in Seq(T \cap ok)
               /\ \A k \in 1 .. Len(s) : f[k] = IF s[k] \in ok THEN Append(f[k - 1], s[k]) ELSE f[k - 1]
    BY PickedSteps, SMTT(60)
  <2> QED BY <2>1
<1> DEFINE S == {m \in Nat : m <= N => \E g \in [1 .. Len(f[m]) -> 1 .. m] : Good(f[m], m, g)}
<1>3. 0 \in S
  <2>1. Len(f[0]) = 0
    BY <1>2, EmptySeq
  <2>2. [i \in 1 .. 0 |-> 0] \in [1 .. Len(f[0]) -> 1 .. 0] /\ Good(f[0], 0, [i \in 1 .. 0 |-> 0])
    BY <2>1
  <2> HIDE DEF Good
  <2> QED BY <2>2
<1>4. ASSUME NEW m \in Nat, m \in S PROVE m + 1 \in S
  <2>1. SUFFICES ASSUME m + 1 <= N PROVE \E g \in [1 .. Len(f[m + 1]) -> 1 .. m + 1] : Good(f[m + 1], m + 1, g)
    <3> HIDE DEF Good
    <3>1. m + 1 \in Nat
      OBVIOUS
    <3> QED BY <3>1
  <2>2. PICK g \in [1 .. Len(f[m]) -> 1 .. m] : Good(f[m], m, g)
    <3>1. m <= N
      BY <1>1, <2>1
    <3> HIDE DEF Good
    <3> QED BY <1>4, <3>1
  <2>3. m + 1 \in 1 .. N /\ m \in 0 .. N /\ (m + 1) - 1 = m
    BY <1>1, <2>1
  <2>4. f[m + 1] = IF s[m + 1] \in ok THEN Append(f[m], s[m + 1]) ELSE f[m]
    BY <1>2, <2>3
  <2>5. f[m] \in Seq(T \cap ok) /\ Len(f[m]) \in Nat
    BY <1>2, <2>3, LenProperties
  <2>6. CASE s[m + 1] \notin ok
    <3>1. f[m + 1] = f[m]
      BY <2>4, <2>6
    <3>2. g \in [1 .. Len(f[m]) -> 1 .. m + 1]
      BY <2>2
    <3>3. Good(f[m], m + 1, g)
      <4>1. \A k \in 1 .. m + 1 : k \in 1 .. m \/ k = m + 1
        OBVIOUS
      <4> QED BY <2>2, <2>6, <4>1
    <3> HIDE DEF Good
    <3> QED BY <3>1, <3>2, <3>3
  <2>7. CASE s[m + 1] \in ok
    <3> DEFINE r == f[m + 1]
               h == [i \in 1 .. Len(f[m]) + 1 |-> IF i <= Len(f[m]) THEN g[i] ELSE m + 1]
    <3>1. s[m + 1] \in T
      BY <2>3, ElementOfSeq
    <3>2. /\ Len(r) = Len(f[m]) + 1 /\ r[Len(f[m]) + 1] = s[m + 1]
          /\ \A i \in 1 .. Len(f[m]) : r[i] = f[m][i]
      <4>1. s[m + 1] \in T \cap ok /\ r = Append(f[m], s[m + 1])
        BY <2>4, <2>7, <3>1
      <4> HIDE DEF r
      <4> QED BY <2>5, <4>1, AppendProperties
    <3>3. \A i \in 1 .. Len(f[m]) + 1 : i \in 1 .. Len(f[m]) \/ (i = Len(f[m]) + 1 /\ ~(i <= Len(f[m])))
      BY <2>5
    <3>4. /\ \A i \in 1 .. Len(f[m]) : h[i] = g[i] /\ h[i] \in 1 .. m
          /\ h[Len(f[m]) + 1] = m + 1
      <4>1. Len(f[m]) + 1 \in 1 .. Len(f[m]) + 1 /\ ~(Len(f[m]) + 1 <= Len(f[m]))
        BY <2>5
      <4>2. \A i \in 1 .. Len(f[m]) : i \in 1 .. Len(f[m]) + 1 /\ i <= Len(f[m]) /\ g[i] \in 1 .. m
        BY <2>2, <2>5
      <4> QED BY <4>1, <4>2
    <3>5. h \in [1 .. Len(r) -> 1 .. m + 1]
      BY <2>2, <2>5, <3>2
    <3> HIDE DEF r, h
    <3>6. \A i, j \in 1 .. Len(r) : i < j => h[i] < h[j]
      <4> SUFFICES ASSUME NEW i \in 1 .. Len(r), NEW j \in 1 .. Len(r), i < j PROVE h[i] < h[j]
        OBVIOUS
      <4>1. i \in 1 .. Len(f[m])
        BY <2>5, <3>2
      <4>2. CASE j \in 1 .. Len(f[m])
        BY <2>2, <3>4, <4>1, <4>2
      <4>3. CASE j = Len(f[m]) + 1
        BY <3>4, <4>1, <4>3
      <4> QED BY <3>2, <3>3, <4>2, <4>3
    <3>7. \A i \in 1 .. Len(r) : r[i] = s[h[i]] /\ r[i] \in ok
      BY <2>2, <2>7, <3>2, <3>3, <3>4
    <3>8. ASSUME NEW k \in 1 .. m + 1, s[k] \in ok PROVE \E i \in 1 .. Len(r) : h[i] = k
      <4>1. CASE k \in 1 .. m
        <5>1. PICK i \in 1 .. Len(f[m]) : g[i] = k
          BY <2>2, <3>8, <4>1
        <5>2. i \in 1 .. Len(r) /\ h[i] = k
          BY <2>5, <3>2, <3>4, <5>1
        <5> QED BY <5>2
      <4>2. CASE k = m + 1
        <5>1. Len(r) \in 1 .. Len(r) /\ h[Len(r)] = k
          BY <2>5, <3>2, <3>4, <4>2
        <5> QED BY <5>1
      <4> QED BY <4>1, <4>2
    <3>9. Good(r, m + 1, h)
      BY <3>6, <3>7, <3>8
    <3> HIDE DEF Good
    <3>10. \E x \in [1 .. Len(r) -> 1 .. m + 1] : Good(r, m + 1, x)
      BY <3>5, <3>9
    <3> QED BY <3>10 DEF r
  <2> HIDE DEF Good
  <2> QED BY <2>6, <2>7
<1>5. N \in S
  <2> HIDE DEF S
  <2>1. \A m \in Nat : m \in S
    BY <1>3, <1>4, NatSetInduction
  <2> QED BY <1>1, <2>1
<1>6. \E g \in [1 .. Len(f[N]) -> 1 .. N] : Good(f[N], N, g)
  <2> HIDE DEF Good
  <2> QED BY <1>1, <1>5
<1>7. \A r : r = f[N] => \E g \in [1 .. Len(r) -> 1 .. N] : Good(r, N, g)
  <2> HIDE DEF Good
  <2> QED BY <1>6
<1>8. \E g \in [1 .. Len(Picked(s, ok)) -> 1 .. N] : Good(Picked(s, ok), N, g)
  <2> HIDE DEF Good
  <2> QED BY <1>2, <1>7
<1> QED BY <1>8

-----------------------------------------------------------------------------
\* Places are paths of at least one component, and each has its index.
LEMMA PlacesHave ==
  ASSUME NEW p \in Places
  PROVE  /\ p \in Seq(ToSet(p)) /\ Len(p) \in Nat \ {0}
         /\ Index(p) \in 1 .. Len(Sorted) /\ Sorted[Index(p)] = p
         /\ DOMAIN Sorted = 1 .. Len(Sorted) /\ Len(Sorted) \in Nat
<1>1. p \in Seq(ToSet(p)) /\ p # <<>>
  BY ReadToolsAssumption, TreeAssumption
<1>2. Len(p) \in Nat /\ Len(p) # 0
  BY <1>1, LenProperties, EmptySeq
<1>3. DOMAIN Sorted = 1 .. Len(Sorted) /\ Len(Sorted) \in Nat
  BY ReadToolsAssumption, LenProperties
<1>4. \E i \in DOMAIN Sorted : Sorted[i] = p
  BY DEF Places, ToSet
<1> QED BY <1>1, <1>2, <1>3, <1>4 DEF Index

\* Under, component by component.
LEMMA UnderPlaces ==
  ASSUME NEW p \in Places, NEW q \in Places
  PROVE  Under(p, q) <=> Len(p) <= Len(q) /\ \A i \in 1 .. Len(p) : p[i] = q[i]
BY PlacesHave, UnderAt

\* A place comes before what is below it, and no two have one index.
LEMMA IndexOrder ==
  ASSUME NEW p \in Places, NEW q \in Places
  PROVE  /\ Index(p) = Index(q) => p = q
         /\ Under(p, q) => Index(p) <= Index(q)
         /\ Under(p, q) /\ p # q => Index(p) < Index(q)
         /\ \A i \in DOMAIN Sorted : Sorted[i] = p => i = Index(p)
<1>1. /\ Index(p) \in DOMAIN Sorted /\ Sorted[Index(p)] = p /\ Index(p) \in Nat
      /\ Index(q) \in DOMAIN Sorted /\ Sorted[Index(q)] = q /\ Index(q) \in Nat
  BY PlacesHave
<1>2. Under(p, q) => Index(p) <= Index(q)
  BY <1>1, TreeAssumption DEF Under
<1>3. Index(p) = Index(q) => p = q
  BY <1>1
<1>4. ASSUME NEW i \in DOMAIN Sorted, Sorted[i] = p PROVE i = Index(p)
  <2>1. IsPrefix(Sorted[i], Sorted[Index(p)]) /\ IsPrefix(Sorted[Index(p)], Sorted[i])
    BY <1>1, <1>4, UnderOrder DEF Under
  <2>2. i <= Index(p) /\ Index(p) <= i
    BY <1>1, <2>1, TreeAssumption
  <2>3. i \in Nat
    BY PlacesHave
  <2> QED BY <1>1, <2>2, <2>3
<1> QED BY <1>1, <1>2, <1>3, <1>4

\* All that is below a place comes before a later place that is not.
LEMMA SubtreeBefore ==
  ASSUME NEW p \in Places, NEW q \in Places, ~Under(p, q), Index(p) < Index(q),
         NEW x \in Places, Under(p, x)
  PROVE  Index(x) < Index(q)
<1>1. /\ Index(p) \in DOMAIN Sorted /\ Sorted[Index(p)] = p /\ Index(p) \in Nat
      /\ Index(q) \in DOMAIN Sorted /\ Sorted[Index(q)] = q /\ Index(q) \in Nat
      /\ Index(x) \in DOMAIN Sorted /\ Sorted[Index(x)] = x /\ Index(x) \in Nat
  BY PlacesHave
<1>2. SUFFICES ASSUME Index(q) <= Index(x) PROVE FALSE
  BY <1>1, <1>2
<1>3. IsPrefix(Sorted[Index(p)], Sorted[Index(q)])
  BY <1>1, <1>2, TreeAssumption DEF Under
<1> QED BY <1>1, <1>3 DEF Under

\* The first components of a path.
LEMMA FirstOf ==
  ASSUME NEW S, NEW s \in Seq(S), NEW n \in 0 .. Len(s)
  PROVE  /\ SubSeq(s, 1, n) \in Seq(S) /\ Len(SubSeq(s, 1, n)) = n
         /\ \A i \in 1 .. n : SubSeq(s, 1, n)[i] = s[i]
<1>1. Len(s) \in Nat /\ n \in Nat /\ \A i \in 1 .. n : s[i] \in S
  BY LenProperties, ElementOfSeq
<1>2. \A i \in 1 .. n : 1 + i - 1 = i /\ (n - 1) + 1 = n
  BY <1>1
<1> QED BY <1>1, <1>2, SubSeqProperties

\* Two places above a third one are above each other.
LEMMA BothAbove ==
  ASSUME NEW p \in Places, NEW q \in Places, NEW x \in Places, Under(p, x), Under(q, x), Len(p) <= Len(q)
  PROVE  Under(p, q) /\ (Len(p) = Len(q) => p = q)
<1>1. /\ Len(p) \in Nat /\ Len(q) \in Nat /\ Len(x) \in Nat /\ Len(p) <= Len(x) /\ Len(q) <= Len(x)
      /\ \A i \in 1 .. Len(p) : p[i] = x[i]
      /\ \A i \in 1 .. Len(q) : q[i] = x[i]
  BY PlacesHave, UnderPlaces
<1>2. \A i \in 1 .. Len(p) : i \in 1 .. Len(q) /\ p[i] = q[i]
  BY <1>1
<1>3. Under(p, q)
  BY <1>2, UnderPlaces
<1>4. ASSUME Len(p) = Len(q) PROVE p = q
  <2>1. p \in Seq(ToSet(p) \cup ToSet(q)) /\ q \in Seq(ToSet(p) \cup ToSet(q))
    BY PlacesHave, SeqMonotonic
  <2> QED BY <1>2, <1>4, <2>1, SeqEqual
<1> QED BY <1>3, <1>4

Folder(p) == Kind[p] \in {"dir", "shut"}

\* In a tree whatever is above a place is there too, as a directory.
LEMMA PrefixesStand ==
  ASSUME NEW P, P \subseteq Places, \A x \in P : Len(x) > 1 => Front(x) \in P, NEW p \in P
  PROVE  \A n \in 1 .. Len(p) : SubSeq(p, 1, n) \in P /\ (n < Len(p) => Folder(SubSeq(p, 1, n)))
<1> DEFINE Up(n) == SubSeq(p, 1, n)
           S == {k \in Nat : k < Len(p) => Up(Len(p) - k) \in P /\ (k > 0 => Folder(Up(Len(p) - k)))}
<1>1. p \in Seq(ToSet(p)) /\ Len(p) \in Nat \ {0}
  BY PlacesHave
<1>2. 0 \in S
  <2>1. Len(p) \in 0 .. Len(p) /\ Len(p) - 0 = Len(p)
    BY <1>1
  <2>2. Up(Len(p)) = p
    BY <1>1, <2>1, FirstOf, SeqEqual
  <2> HIDE DEF Up
  <2> QED BY <2>1, <2>2
<1>3. ASSUME NEW k \in Nat, k \in S PROVE k + 1 \in S
  <2>1. SUFFICES ASSUME k + 1 < Len(p) PROVE Up(Len(p) - (k + 1)) \in P /\ Folder(Up(Len(p) - (k + 1)))
    OBVIOUS
  <2> DEFINE n == Len(p) - k
  <2>2. n \in 0 .. Len(p) /\ n - 1 \in 0 .. Len(p) /\ n > 1 /\ Len(p) - (k + 1) = n - 1 /\ k < Len(p) /\ n \in Nat
    BY <1>1, <2>1
  <2>3. Up(n) \in P
    <3> HIDE DEF Up
    <3> QED BY <1>3, <2>2
  <2> HIDE DEF n
  <2>4. /\ Up(n) \in Seq(ToSet(p)) /\ Len(Up(n)) = n /\ \A i \in 1 .. n : Up(n)[i] = p[i]
        /\ Up(n - 1) \in Seq(ToSet(p)) /\ Len(Up(n - 1)) = n - 1 /\ \A i \in 1 .. n - 1 : Up(n - 1)[i] = p[i]
    BY <1>1, <2>2, FirstOf
  <2>5. Front(Up(n)) = Up(n - 1)
    <3> DEFINE u == Up(n)
    <3> HIDE DEF u
    <3>1. u \in Seq(ToSet(p)) /\ Len(u) = n /\ \A i \in 1 .. n : u[i] = p[i]
      BY <2>4 DEF u
    <3>2. Front(u) = SubSeq(u, 1, n - 1)
      BY <3>1 DEF Front
    <3>3. n - 1 \in 0 .. Len(u)
      BY <2>2, <3>1
    <3>4. /\ Front(u) \in Seq(ToSet(p)) /\ Len(Front(u)) = n - 1
          /\ \A i \in 1 .. n - 1 : Front(u)[i] = u[i]
      BY <3>1, <3>2, <3>3, FirstOf
    <3>5. \A i \in 1 .. n - 1 : i \in 1 .. n
      BY <2>2
    <3>6. \A i \in 1 .. Len(Front(u)) : Front(u)[i] = Up(n - 1)[i]
      BY <2>4, <3>1, <3>4, <3>5
    <3> HIDE DEF Up
    <3>7. Front(u) = Up(n - 1)
      BY <2>4, <3>4, <3>6, SeqEqual
    <3> QED BY <3>7 DEF u
  <2> HIDE DEF Up
  <2>6. Up(n - 1) \in P
    BY <2>2, <2>3, <2>4, <2>5
  <2>7. Kind[Up(n - 1)] \in {"dir", "shut"}
    BY <2>2, <2>3, <2>4, <2>5, TreeAssumption
  <2> QED BY <2>2, <2>6, <2>7 DEF Folder
<1>4. \A k \in Nat : k \in S
  <2> HIDE DEF S
  <2> QED BY <1>2, <1>3, NatSetInduction
<1>5. ASSUME NEW n \in 1 .. Len(p) PROVE Up(n) \in P /\ (n < Len(p) => Folder(Up(n)))
  <2>1. Len(p) - n \in Nat /\ Len(p) - n < Len(p) /\ Len(p) - (Len(p) - n) = n /\ (n < Len(p) => Len(p) - n > 0)
    BY <1>1
  <2> HIDE DEF Up
  <2> QED BY <1>4, <2>1
<1> QED BY <1>5

\* From a place to one below it the way leads through a child.
LEMMA OnTheWay ==
  ASSUME NEW P, P \subseteq Places, \A x \in P : Len(x) > 1 => Front(x) \in P, NEW p \in P,
         NEW q \in Places, Under(q, p), q # p
  PROVE  LET c == SubSeq(p, 1, Len(q) + 1) IN
           /\ c \in P /\ Under(q, c) /\ Len(c) = Len(q) + 1 /\ Under(c, p)
           /\ c # p => Folder(c)
           /\ q = SubSeq(p, 1, Len(q)) /\ q \in P /\ Folder(q) /\ Len(q) < Len(p)
<1> DEFINE c == SubSeq(p, 1, Len(q) + 1)
           d == SubSeq(p, 1, Len(q))
<1>1. /\ p \in Places /\ p \in Seq(ToSet(p)) /\ q \in Seq(ToSet(q)) /\ Len(p) \in Nat \ {0} /\ Len(q) \in Nat \ {0}
      /\ Len(q) <= Len(p) /\ \A i \in 1 .. Len(q) : q[i] = p[i]
  BY PlacesHave, UnderPlaces
<1>2. Len(q) # Len(p)
  BY <1>1, BothAbove, UnderOrder
<1>3. Len(q) + 1 \in 1 .. Len(p) /\ Len(q) \in 1 .. Len(p) /\ Len(q) < Len(p) /\ Len(q) \in 0 .. Len(p) /\ Len(q) + 1 \in 0 .. Len(p)
  BY <1>1, <1>2
<1>4. /\ c \in Seq(ToSet(p)) /\ Len(c) = Len(q) + 1 /\ \A i \in 1 .. Len(q) + 1 : c[i] = p[i]
      /\ d \in Seq(ToSet(p)) /\ Len(d) = Len(q) /\ \A i \in 1 .. Len(q) : d[i] = p[i]
  BY <1>1, <1>3, FirstOf
<1>5. c \in P /\ (Len(q) + 1 < Len(p) => Folder(c)) /\ d \in P /\ Folder(d)
  BY <1>3, PrefixesStand
<1> HIDE DEF c, d
<1>6. d = q
  <2>1. \A i \in 1 .. Len(d) : d[i] = q[i]
    BY <1>1, <1>4
  <2>2. Under(d, q) /\ Under(q, q) /\ d \in Places
    BY <1>4, <1>5, <2>1, UnderPlaces, UnderOrder
  <2> QED BY <1>1, <1>4, <2>2, BothAbove
<1>7. Under(c, p) /\ c \in Places
  <2>1. c \in Places /\ Len(c) <= Len(p)
    BY <1>1, <1>3, <1>4, <1>5
  <2> QED BY <1>1, <1>4, <2>1, UnderPlaces
<1>8. Under(q, c)
  BY <1>1, <1>4, <1>7, BothAbove
<1>9. Len(c) = Len(p) => c = p
  BY <1>1, <1>7, BothAbove, UnderOrder
<1>10. c # p => Folder(c)
  BY <1>1, <1>3, <1>4, <1>5, <1>9
<1> QED BY <1>3, <1>4, <1>5, <1>6, <1>7, <1>8, <1>10 DEF c, d

\* The children of a place, in their order.
LEMMA ChildrenAre ==
  ASSUME NEW p \in Places, NEW hidden
  PROVE  LET cs == Children(p, hidden) IN
           /\ cs \in Seq(Places)
           /\ ToSet(cs) = {q \in Places : IsChild(p, q) /\ (hidden \/ q \notin Hidden)}
           /\ \A i, j \in 1 .. Len(cs) : i < j => Index(cs[i]) < Index(cs[j])
<1> DEFINE C == {q \in Places : IsChild(p, q) /\ (hidden \/ q \notin Hidden)}
           cs == Children(p, hidden)
<1>1. cs = Picked(Sorted, C)
  BY DEF Children
<1>2. Sorted \in Seq(Places)
  BY ReadToolsAssumption
<1> HIDE DEF C, cs
<1>3. cs \in Seq(Places \cap C) /\ Len(cs) \in Nat /\ DOMAIN cs = 1 .. Len(cs)
  BY <1>1, <1>2, PickedTyped, LenProperties
<1>4. PICK g \in [1 .. Len(cs) -> 1 .. Len(Sorted)] :
             /\ \A i, j \in 1 .. Len(cs) : i < j => g[i] < g[j]
             /\ \A i \in 1 .. Len(cs) : cs[i] = Sorted[g[i]] /\ cs[i] \in C
             /\ \A k \in 1 .. Len(Sorted) : Sorted[k] \in C => \E i \in 1 .. Len(cs) : g[i] = k
  BY <1>1, <1>2, PickedOrder
<1>5. cs \in Seq(Places)
  BY <1>3, SeqMonotonic
<1>6. \A i \in 1 .. Len(cs) : cs[i] \in Places
  BY <1>5, ElementOfSeq
<1>7. \A i \in 1 .. Len(cs) : Index(cs[i]) = g[i]
  <2> SUFFICES ASSUME NEW i \in 1 .. Len(cs) PROVE Index(cs[i]) = g[i]
    OBVIOUS
  <2>1. g[i] \in DOMAIN Sorted /\ Sorted[g[i]] = cs[i] /\ cs[i] \in Places
    BY <1>4, <1>6, PlacesHave
  <2> QED BY <2>1, IndexOrder
<1>8. \A i, j \in 1 .. Len(cs) : i < j => Index(cs[i]) < Index(cs[j])
  BY <1>4, <1>7
<1>9. ASSUME NEW q \in C PROVE q \in ToSet(cs)
  <2>1. q \in Places
    BY <1>9 DEF C
  <2>2. Index(q) \in 1 .. Len(Sorted) /\ Sorted[Index(q)] = q
    BY <2>1, PlacesHave
  <2>3. PICK i \in 1 .. Len(cs) : g[i] = Index(q)
    BY <1>4, <1>9, <2>2
  <2>4. cs[i] = q
    BY <1>4, <2>2, <2>3
  <2> QED BY <1>3, <2>4 DEF ToSet
<1>10. ToSet(cs) = C
  BY <1>3, <1>4, <1>9 DEF ToSet
<1> QED BY <1>5, <1>8, <1>10 DEF cs, C

-----------------------------------------------------------------------------
\* Two sequences behind each other.
Distinct(s) == \A i, j \in DOMAIN s : s[i] = s[j] => i = j

LEMMA Joining ==
  ASSUME NEW S, NEW s \in Seq(S), NEW t \in Seq(S)
  PROVE  /\ s \o t \in Seq(S) /\ Len(s \o t) = Len(s) + Len(t)
         /\ \A i \in 1 .. Len(s) : (s \o t)[i] = s[i]
         /\ \A i \in 1 .. Len(t) : (s \o t)[Len(s) + i] = t[i]
         /\ ToSet(s \o t) = ToSet(s) \cup ToSet(t)
         /\ Distinct(s) /\ Distinct(t) /\ ToSet(s) \cap ToSet(t) = {} => Distinct(s \o t)
<1> DEFINE r == s \o t
<1>1. Len(s) \in Nat /\ Len(t) \in Nat /\ DOMAIN s = 1 .. Len(s) /\ DOMAIN t = 1 .. Len(t)
  BY LenProperties
<1>2. /\ r \in Seq(S) /\ Len(r) = Len(s) + Len(t) /\ DOMAIN r = 1 .. Len(s) + Len(t)
      /\ \A i \in 1 .. Len(s) + Len(t) : r[i] = IF i <= Len(s) THEN s[i] ELSE t[i - Len(s)]
  BY ConcatProperties, LenProperties
<1> HIDE DEF r
<1>3. /\ \A i \in 1 .. Len(s) : r[i] = s[i] /\ i \in DOMAIN r
      /\ \A i \in 1 .. Len(t) : r[Len(s) + i] = t[i] /\ Len(s) + i \in DOMAIN r
  <2>1. \A i \in 1 .. Len(s) : i \in 1 .. Len(s) + Len(t) /\ i <= Len(s)
    BY <1>1
  <2>2. \A i \in 1 .. Len(t) : Len(s) + i \in 1 .. Len(s) + Len(t) /\ ~(Len(s) + i <= Len(s)) /\ (Len(s) + i) - Len(s) = i
    BY <1>1
  <2> QED BY <1>2, <2>1, <2>2
<1>4. \A i \in DOMAIN r : i \in 1 .. Len(s) \/ \E k \in 1 .. Len(t) : i = Len(s) + k
  <2>1. \A i \in DOMAIN r : i \in 1 .. Len(s) \/ (i - Len(s) \in 1 .. Len(t) /\ i = Len(s) + (i - Len(s)))
    BY <1>1, <1>2
  <2> QED BY <2>1
<1>5. ToSet(r) = ToSet(s) \cup ToSet(t)
  <2>1. ASSUME NEW x \in ToSet(r) PROVE x \in ToSet(s) \cup ToSet(t)
    <3>1. PICK i \in DOMAIN r : r[i] = x
      BY <2>1 DEF ToSet
    <3> QED BY <1>1, <1>3, <1>4, <3>1 DEF ToSet
  <2>2. ASSUME NEW x \in ToSet(s) \cup ToSet(t) PROVE x \in ToSet(r)
    BY <1>1, <1>3, <2>2 DEF ToSet
  <2> QED BY <2>1, <2>2
<1>6. ASSUME Distinct(s), Distinct(t), ToSet(s) \cap ToSet(t) = {} PROVE Distinct(r)
  <2>1. \A i \in 1 .. Len(s), k \in 1 .. Len(t) : s[i] # t[k]
    BY <1>1, <1>6 DEF ToSet
  <2> SUFFICES ASSUME NEW i \in DOMAIN r, NEW j \in DOMAIN r, r[i] = r[j] PROVE i = j
    BY DEF Distinct
  <2>2. CASE i \in 1 .. Len(s) /\ j \in 1 .. Len(s)
    BY <1>1, <1>3, <1>6, <2>2 DEF Distinct
  <2>3. CASE i \in 1 .. Len(s) /\ \E k \in 1 .. Len(t) : j = Len(s) + k
    BY <1>3, <2>1, <2>3
  <2>4. CASE j \in 1 .. Len(s) /\ \E k \in 1 .. Len(t) : i = Len(s) + k
    BY <1>3, <2>1, <2>4
  <2>5. CASE (\E k \in 1 .. Len(t) : i = Len(s) + k) /\ (\E k \in 1 .. Len(t) : j = Len(s) + k)
    <3>1. PICK a \in 1 .. Len(t), b \in 1 .. Len(t) : i = Len(s) + a /\ j = Len(s) + b
      BY <2>5
    <3>2. t[a] = t[b]
      BY <1>3, <3>1
    <3>3. a = b
      BY <1>1, <1>6, <3>2 DEF Distinct
    <3> QED BY <3>1, <3>3
  <2> QED BY <1>4, <2>2, <2>3, <2>4, <2>5
<1> QED BY <1>2, <1>3, <1>5, <1>6 DEF r

\* A stack without its top.
LEMMA Popped ==
  ASSUME NEW S, NEW s \in Seq(S), s # <<>>
  PROVE  /\ Front(s) \in Seq(S) /\ Len(Front(s)) = Len(s) - 1 /\ Len(s) \in Nat \ {0}
         /\ \A i \in 1 .. Len(s) - 1 : Front(s)[i] = s[i]
         /\ Last(s) = s[Len(s)] /\ Last(s) \in S
         /\ ToSet(s) = ToSet(Front(s)) \cup {Last(s)}
         /\ Distinct(s) => Distinct(Front(s)) /\ Last(s) \notin ToSet(Front(s))
<1> DEFINE n == Len(s) - 1
           f == Front(s)
<1>1. Len(s) \in Nat \ {0} /\ DOMAIN s = 1 .. Len(s) /\ n \in 0 .. Len(s) /\ \A i \in 1 .. Len(s) : s[i] \in S
  BY LenProperties, EmptySeq, ElementOfSeq
<1>2. f = SubSeq(s, 1, n)
  BY DEF Front
<1> HIDE DEF f
<1>3. f \in Seq(S) /\ Len(f) = n /\ \A i \in 1 .. n : f[i] = s[i]
  <2> HIDE DEF n
  <2> QED BY <1>1, <1>2, FirstOf
<1>4. DOMAIN f = 1 .. n
  BY <1>3, LenProperties
<1>5. /\ \A i \in 1 .. n : i \in 1 .. Len(s) /\ i # Len(s)
      /\ \A i \in 1 .. Len(s) : i \in 1 .. n \/ i = Len(s)
      /\ Len(s) \in 1 .. Len(s)
  <2> DEFINE m == Len(s)
  <2>1. m \in Nat \ {0} /\ n = m - 1
    BY <1>1
  <2> HIDE DEF m, n
  <2>2. (\A i \in 1 .. n : i \in 1 .. m /\ i # m) /\ (\A i \in 1 .. m : i \in 1 .. n \/ i = m) /\ m \in 1 .. m
    BY <2>1
  <2> QED BY <2>2 DEF m
<1>6. Last(s) = s[Len(s)]
  BY DEF Last
<1> HIDE DEF n
<1>7. ToSet(s) = ToSet(f) \cup {Last(s)}
  BY <1>1, <1>3, <1>4, <1>5, <1>6 DEF ToSet
<1>8. ASSUME Distinct(s) PROVE Distinct(f) /\ Last(s) \notin ToSet(f)
  BY <1>1, <1>3, <1>4, <1>5, <1>6, <1>8 DEF Distinct, ToSet
<1> QED BY <1>1, <1>3, <1>5, <1>6, <1>7, <1>8 DEF f, n

\* Two places above each other are one.
LEMMA Antisymmetric ==
  ASSUME NEW p \in Places, NEW q \in Places, Under(p, q), Under(q, p)
  PROVE  p = q
<1>1. Len(p) <= Len(q) /\ Len(q) <= Len(p) /\ Len(p) \in Nat /\ Len(q) \in Nat /\ Under(q, q)
  BY PlacesHave, UnderPlaces, UnderOrder
<1> QED BY <1>1, BothAbove

\* The directory a place is in.
LEMMA ParentAbove ==
  ASSUME NEW p \in Places
  PROVE  /\ Append(Front(p), Last(p)) = p /\ Len(Front(p)) = Len(p) - 1
         /\ Len(p) > 1 => Under(Front(p), p) /\ Front(p) # p
         /\ ~(Len(p) > 1) => Front(p) = <<>>
<1> DEFINE T == ToSet(p)
           f == Front(p)
<1>1. p \in Seq(T) /\ Len(p) \in Nat \ {0} /\ p # <<>>
  BY PlacesHave, TreeAssumption
<1> HIDE DEF T
<1>2. f \in Seq(T) /\ Len(f) = Len(p) - 1 /\ (\A i \in 1 .. Len(p) - 1 : f[i] = p[i]) /\ Last(p) \in T
  BY <1>1, Popped, ElementOfSeq DEF Last
<1> HIDE DEF f
<1>3. Append(f, Last(p)) = p
  <2> DEFINE a == Append(f, Last(p))
  <2>1. /\ a \in Seq(T) /\ Len(a) = Len(f) + 1 /\ a[Len(f) + 1] = Last(p)
        /\ \A i \in 1 .. Len(f) : a[i] = f[i]
    BY <1>2, AppendProperties
  <2> HIDE DEF a
  <2>2. Len(a) = Len(p)
    BY <1>1, <1>2, <2>1
  <2>3. ASSUME NEW i \in 1 .. Len(a) PROVE a[i] = p[i]
    <3>1. CASE i = Len(p)
      BY <1>1, <1>2, <2>1, <3>1 DEF Last
    <3>2. CASE i # Len(p)
      <4>1. i \in 1 .. Len(f) /\ i \in 1 .. Len(p) - 1
        BY <1>1, <1>2, <2>2, <3>2
      <4> QED BY <1>2, <2>1, <4>1
    <3> QED BY <3>1, <3>2
  <2>4. a = p
    BY <1>1, <2>1, <2>2, <2>3, SeqEqual
  <2> QED BY <2>4 DEF a
<1>4. ASSUME Len(p) > 1 PROVE Under(f, p) /\ f # p
  <2>1. f \in Places
    BY <1>4, TreeAssumption DEF f
  <2>2. Len(f) <= Len(p) /\ \A i \in 1 .. Len(f) : f[i] = p[i]
    BY <1>1, <1>2
  <2>3. f # p
    BY <1>1, <1>2
  <2> QED BY <2>1, <2>2, <2>3, UnderPlaces
<1>5. ~(Len(p) > 1) => f = <<>>
  BY <1>1, <1>2, EmptySeq
<1> QED BY <1>2, <1>3, <1>4, <1>5 DEF f

\* No place is above the empty path.
LEMMA NothingAbove == \A q \in Places : ~Under(q, <<>>)
<1> SUFFICES ASSUME NEW q \in Places, Under(q, <<>>) PROVE FALSE
  OBVIOUS
<1> DEFINE T == ToSet(q)
           e == <<>>
<1>1. q \in Seq(T) /\ e \in Seq(T) /\ Len(q) \in Nat \ {0} /\ Len(e) = 0
  BY PlacesHave, EmptySeq
<1>2. Under(q, e)
  OBVIOUS
<1> HIDE DEF T, e
<1>3. Len(q) <= Len(e)
  BY <1>2 DEF Under, IsPrefix
<1> QED BY <1>1, <1>2, <1>3

\* A sequence backwards.
LEMMA Reversed ==
  ASSUME NEW S, NEW s \in Seq(S)
  PROVE  /\ Reverse(s) \in Seq(S) /\ Len(Reverse(s)) = Len(s) /\ ToSet(Reverse(s)) = ToSet(s)
         /\ \A i \in 1 .. Len(s) : Reverse(s)[i] = s[(Len(s) - i) + 1] /\ (Len(s) - i) + 1 \in 1 .. Len(s)
<1> DEFINE r == Reverse(s)
<1>1. Len(s) \in Nat /\ DOMAIN s = 1 .. Len(s) /\ r \in Seq(S)
  BY LenProperties, ReverseTyped
<1>2. r = [i \in 1 .. Len(s) |-> s[(Len(s) - i) + 1]]
  BY DEF Reverse
<1>3. DOMAIN r = 1 .. Len(s) /\ \A i \in 1 .. Len(s) : r[i] = s[(Len(s) - i) + 1]
  BY <1>2
<1> HIDE DEF r
<1>4. Len(r) = Len(s)
  BY <1>1, <1>3, LenProperties
<1>5. \A i \in 1 .. Len(s) : (Len(s) - i) + 1 \in 1 .. Len(s) /\ (Len(s) - ((Len(s) - i) + 1)) + 1 = i
  <2> DEFINE n == Len(s)
  <2>1. n \in Nat
    BY <1>1
  <2> HIDE DEF n
  <2>2. \A i \in 1 .. n : (n - i) + 1 \in 1 .. n /\ (n - ((n - i) + 1)) + 1 = i
    BY <2>1
  <2> QED BY <2>2 DEF n
<1>6. ToSet(r) = ToSet(s)
  <2>1. \A i \in 1 .. Len(s) : r[(Len(s) - i) + 1] = s[i]
    BY <1>3, <1>5
  <2>2. \A x \in ToSet(s) : x \in ToSet(r)
    BY <1>1, <1>3, <1>5, <2>1 DEF ToSet
  <2>3. \A x \in ToSet(r) : x \in ToSet(s)
    BY <1>1, <1>3, <1>5 DEF ToSet
  <2> QED BY <2>2, <2>3
<1> QED BY <1>1, <1>3, <1>4, <1>5, <1>6 DEF r

-----------------------------------------------------------------------------
(***************************************************************************)
(* Walks.                                                                  *)
(***************************************************************************)
\* None of the places on a stack is below another.
Apart(B) == \A x, y \in B : Under(x, y) => x = y

\* A place on a stack may be replaced by children of it.
LEMMA ApartStep ==
  ASSUME NEW B, B \subseteq Places, Apart(B), NEW q \in B,
         NEW D, \A c \in D : c \in Places /\ Under(q, c) /\ Len(c) = Len(q) + 1
  PROVE  Apart((B \ {q}) \cup D) /\ (B \ {q}) \cap D = {} /\ q \notin D
<1>1. \A c \in D : ~Under(c, q)
  <2> SUFFICES ASSUME NEW c \in D, Under(c, q) PROVE FALSE
    OBVIOUS
  <2> QED BY PlacesHave, UnderPlaces
<1>2. ASSUME NEW x \in B \ {q}, NEW c \in D PROVE ~Under(x, c) /\ ~Under(c, x)
  <2>1. ~Under(q, x) /\ ~Under(x, q)
    BY DEF Apart
  <2>2. ~Under(c, x)
    BY <2>1, UnderOrder
  <2>3. ASSUME Under(x, c) PROVE FALSE
    <3>1. CASE Len(x) <= Len(q)
      BY <2>1, <2>3, <3>1, BothAbove
    <3>2. CASE ~(Len(x) <= Len(q))
      <4>1. Len(x) = Len(c)
        BY <2>3, <3>2, PlacesHave, UnderPlaces
      <4>2. x = c
        BY <2>3, <4>1, BothAbove, UnderOrder, PlacesHave
      <4> QED BY <2>1, <4>2
    <3> QED BY <3>1, <3>2
  <2> QED BY <2>2, <2>3
<1>3. ASSUME NEW c \in D, NEW d \in D, Under(c, d) PROVE c = d
  BY <1>3, BothAbove, UnderOrder, PlacesHave
<1>4. Apart((B \ {q}) \cup D)
  BY <1>2, <1>3 DEF Apart
<1>5. (B \ {q}) \cap D = {} /\ q \notin D
  BY <1>1, <1>2, UnderOrder
<1> QED BY <1>4, <1>5

\* The tree is a tree and has nothing below a symlink; what stood throughout
\* stands, and what stands has been seen.
Treelike ==
  /\ \A p \in present : Len(p) > 1 => Front(p) \in present
  /\ \A p \in present, d \in turned : Under(d, p) => d = p
Standing ==
  /\ Treelike
  /\ pc = "walk" => steady \subseteq present /\ {q \in Places : There(q)} \subseteq seen

\* The name of a place that exists is read as it stands.
LEMMA PlainNames ==
  ASSUME TypeOK, Treelike, NEW p \in present
  PROVE  /\ Lstat(p) = p /\ There(p)
         /\ p \notin turned /\ p # LinkAt => Canon(p) = p
         /\ \A q \in Places : Under(q, p) /\ q # p => q \notin turned /\ Canon(q) = q
<1>1. /\ present \subseteq Places /\ turned \subseteq Places /\ LinkAt \in Places /\ p \in Places
      /\ \A x \in present, d \in turned : Under(d, x) => d = x
      /\ \A x \in Places : Under(LinkAt, x) => x = LinkAt
  BY ReadToolsAssumption, LinkAssumption DEF TypeOK, Treelike
<1>2. ASSUME NEW x, ~Under(LinkAt, x), \A d \in turned : ~Under(d, x) PROVE Canon(x) = x
  BY <1>2 DEF Canon
<1>3. p \notin turned /\ p # LinkAt => Canon(p) = p
  BY <1>1, <1>2
<1>4. ASSUME NEW q \in Places, Under(q, p), q # p PROVE q \notin turned /\ Canon(q) = q
  <2>1. q \notin turned
    BY <1>1, <1>4
  <2>2. \A d \in turned : ~Under(d, q)
    <3> SUFFICES ASSUME NEW d \in turned, Under(d, q) PROVE FALSE
      OBVIOUS
    <3>1. d \in Places /\ Under(d, p)
      BY <1>1, <1>4, UnderOrder
    <3>2. d = p /\ d \in present
      BY <1>1, <3>1
    <3>3. q = p
      BY <1>1, <1>4, <3>2, Antisymmetric
    <3> QED BY <1>4, <3>3
  <2>3. ~Under(LinkAt, q)
    <3> SUFFICES ASSUME Under(LinkAt, q) PROVE FALSE
      OBVIOUS
    <3>1. q = LinkAt /\ p = LinkAt
      BY <1>1, <1>4
    <3> QED BY <1>4, <3>1
  <2> QED BY <1>2, <2>1, <2>2, <2>3
<1>5. Canon(Front(p)) = Front(p)
  <2>1. CASE Len(p) > 1
    <3>1. Front(p) \in Places
      BY <1>1, <2>1, TreeAssumption
    <3>2. Under(Front(p), p) /\ Front(p) # p
      BY <1>1, <2>1, ParentAbove
    <3> QED BY <1>4, <3>1, <3>2
  <2>2. CASE ~(Len(p) > 1)
    <3>1. Front(p) = <<>>
      BY <1>1, <2>2, ParentAbove
    <3>2. \A q \in Places : ~Under(q, <<>>)
      BY NothingAbove
    <3> QED BY <1>1, <1>2, <3>1, <3>2
  <2> QED BY <2>1, <2>2
<1>6. Append(Front(p), Last(p)) = p
  BY <1>1, ParentAbove
<1>7. Lstat(p) = p
  BY <1>5, <1>6 DEF Lstat
<1> QED BY <1>3, <1>4, <1>7 DEF There

\* A list has named what it has passed, each place once, and will pass the rest
\* once: what is wanted and not named is below a place on the stack.
ListWanted(p) ==
  /\ Under(base, p) /\ p # base
  /\ cur.hidden \/ Visible(base, p)
  /\ cur.recursive \/ Len(p) = Len(base) + 1
Listing ==
  pc = "walk" /\ cur.op = "list" =>
    /\ ToSet(out) \subseteq seen /\ Distinct(out)
    /\ Distinct(stack) /\ Apart(ToSet(stack))
    /\ \A x \in ToSet(stack), y \in ToSet(out) : Under(x, y) => x = y
    /\ ~cur.recursive => ToSet(stack) \subseteq {base}
    /\ \A p \in steady : ListWanted(p) => p \in ToSet(out) \/ \E x \in ToSet(stack) : Under(x, p) /\ x # p

\* A search goes through the tree in the order of the places.
SearchWanted(p) == Under(base, p) /\ Kind[p] = "text" /\ Visible(base, p) /\ Reachable(base, p)
Found(p) == \A n \in ToSet(Hits[p]) : <<p, n>> \in ToSet(out)
OutInOrder ==
  \A i, j \in DOMAIN out : i < j =>
    Index(out[i][1]) < Index(out[j][1]) \/ (out[i][1] = out[j][1] /\ out[i][2] < out[j][2])
StackInOrder == \A i, j \in DOMAIN stack : i < j => Index(stack[j]) < Index(stack[i])
Searching ==
  pc = "walk" /\ cur.op = "search" =>
    /\ Apart(ToSet(stack)) /\ StackInOrder /\ OutInOrder
    /\ \A x \in ToSet(stack), y \in ToSet(out) : Index(y[1]) < Index(x)
    /\ \A p \in steady : SearchWanted(p) => Found(p) \/ \E x \in ToSet(stack) : Under(x, p)

WInv == IInv /\ Standing /\ Listing /\ Searching /\ AnswersAreWhole

-----------------------------------------------------------------------------
\* A walk in progress.
LEMMA WalkTypes ==
  ASSUME IInv, pc = "walk", cur.op # "read"
  PROVE  /\ cur \in Calls /\ cur.op \in {"list", "search"} /\ cur.cap \in Nat
         /\ stack \in Seq(Below) /\ stack \in Seq(Places) /\ base \in Places /\ Below \subseteq Places
         /\ ToSet(stack) \subseteq Below /\ present \subseteq Places
         /\ cur.op = "list" => out \in Seq(Below) /\ out \in Seq(Places) /\ ToSet(out) \subseteq Below
         /\ cur.op = "search" => out \in Seq(Below \X Nat) /\ ToSet(out) \subseteq Below \X Nat
         /\ Len(out) \in Nat /\ DOMAIN out = 1 .. Len(out) /\ DOMAIN stack = 1 .. Len(stack)
<1>1. cur \in Calls /\ cur.op \in {"list", "search"} /\ cur.cap \in Nat
  BY ReadToolsAssumption DEF IInv, Based
<1>2. /\ stack \in Seq(Below) /\ base \in Places /\ Below \subseteq Places /\ present \subseteq Places
      /\ cur.op = "list" => out \in Seq(Below)
      /\ cur.op = "search" => out \in Seq(Below \X Nat)
  BY <1>1 DEF IInv, Based, Tool, Below, TypeOK
<1>3. stack \in Seq(Places) /\ (cur.op = "list" => out \in Seq(Places))
  BY <1>2, SeqMonotonic
<1>4. \A S : \A s \in Seq(S) : ToSet(s) \subseteq S /\ Len(s) \in Nat /\ DOMAIN s = 1 .. Len(s)
  BY LenProperties, ElementOfSeq DEF ToSet
<1> QED BY <1>1, <1>2, <1>3, <1>4

\* A step of a walk visits the top of the stack: it goes on below it, or the
\* call is full.
LEMMA WalkStepIs ==
  ASSUME IInv, WalkStep
  PROVE  LET v == VisitOf(Last(stack)) IN
           /\ pc = "walk" /\ cur.op # "read" /\ stack # <<>> /\ v.ok
           /\ UNCHANGED <<files, cur, base, steady, seen>>
           /\ Room \in Nat \ {0}
           /\ \/ /\ Len(v.adds) >= Room /\ pc' = "answered" /\ answer' = Walked(TRUE)
                 /\ out' = out \o SubSeq(v.adds, 1, Room)
              \/ /\ ~(Len(v.adds) >= Room) /\ pc' = "walk" /\ stack' = Front(stack) \o v.pushes
                 /\ out' = out \o SubSeq(v.adds, 1, Len(v.adds))
<1> DEFINE v == VisitOf(Last(stack))
           n == AtMost(Room, Len(v.adds))
<1>1. /\ pc = "walk" /\ cur.op # "read" /\ stack # <<>> /\ v.ok
      /\ out' = out \o SubSeq(v.adds, 1, n)
      /\ \/ Len(v.adds) >= Room /\ pc' = "answered" /\ answer' = Walked(TRUE)
         \/ Len(v.adds) < Room /\ pc' = pc /\ stack' = StackAfter(v.pushes)
      /\ UNCHANGED <<files, cur, base, history>>
  BY DEF WalkStep, Answers
<1>2. cur.cap \in Nat /\ Len(out) \in Nat
  BY <1>1, WalkTypes
<1>3. Room \in Nat \ {0}
  BY <1>2 DEF Room
<1>4. Len(v.adds) \in Nat
  <2>1. \A S : \A s \in Seq(S) : Len(s) \in Nat
    BY LenProperties
  <2>2. Last(stack) \in Below /\ base \in Places
    <3>1. stack \in Seq(Below) /\ base \in Places
      BY <1>1, WalkTypes
    <3> QED BY <1>1, <3>1, Popped
  <2>3. cur.op \in {"list", "search"}
    BY <1>1, WalkTypes
  <2>4. v = ListVisit(Last(stack)) \/ v = SearchVisit(Last(stack))
    BY DEF VisitOf
  <2> HIDE DEF v
  <2>5. v.adds \in Seq(Below) \/ v.adds \in Seq(Below \X Nat)
    BY <1>1, <2>2, <2>4, VisitBelow DEF IInv
  <2> QED BY <2>1, <2>5
<1> HIDE DEF v
<1>5. Len(v.adds) >= Room => n = Room
  BY <1>3, <1>4 DEF AtMost
<1>6. Len(v.adds) < Room => n = Len(v.adds) /\ ~(Len(v.adds) >= Room)
  BY <1>3, <1>4 DEF AtMost
<1> HIDE DEF n
<1> QED BY <1>1, <1>3, <1>5, <1>6 DEF v, history, StackAfter

\* The whole of a sequence.
LEMMA WholeOf ==
  ASSUME NEW S, NEW s \in Seq(S)
  PROVE  SubSeq(s, 1, Len(s)) = s
<1>1. Len(s) \in 0 .. Len(s)
  BY LenProperties
<1>2. /\ SubSeq(s, 1, Len(s)) \in Seq(S) /\ Len(SubSeq(s, 1, Len(s))) = Len(s)
      /\ \A i \in 1 .. Len(s) : SubSeq(s, 1, Len(s))[i] = s[i]
  BY <1>1, FirstOf
<1> QED BY <1>2, SeqEqual

\* What is on a list after a visit, and on the stack.
LEMMA ListVisitIs ==
  ASSUME NEW q \in Places, ListVisit(q).ok
  PROVE  LET adds == ListVisit(q).adds  pushes == ListVisit(q).pushes IN
           /\ adds \in Seq(Places) /\ Distinct(adds)
           /\ ToSet(adds) = {c \in Places : IsChild(q, c) /\ (cur.hidden \/ c \notin Hidden)}
           /\ pushes \in Seq(Places) /\ Distinct(pushes)
           /\ ToSet(pushes) \subseteq ToSet(adds)
           /\ cur.recursive => \A c \in ToSet(adds) : IsDir(c) => c \in ToSet(pushes)
           /\ ~cur.recursive => ToSet(pushes) = {}
<1> DEFINE cs == Children(q, cur.hidden)
           dirs == {x \in Places : IsDir(x)}
           ds == Picked(cs, dirs)
<1>1. Canon(q) \in present /\ Kind[Canon(q)] = "dir"
  BY DEF ListVisit, Failed
<1>2. ListVisit(q).adds = cs /\ ListVisit(q).pushes = IF cur.recursive THEN ds ELSE <<>>
  BY <1>1 DEF ListVisit, Visit
<1>3. /\ cs \in Seq(Places)
      /\ ToSet(cs) = {c \in Places : IsChild(q, c) /\ (cur.hidden \/ c \notin Hidden)}
      /\ \A i, j \in 1 .. Len(cs) : i < j => Index(cs[i]) < Index(cs[j])
  BY ChildrenAre
<1> HIDE DEF cs
<1>4. Len(cs) \in Nat /\ DOMAIN cs = 1 .. Len(cs) /\ \A i \in 1 .. Len(cs) : cs[i] \in Places /\ Index(cs[i]) \in Nat
  BY <1>3, LenProperties, ElementOfSeq, PlacesHave
<1>5. Distinct(cs)
  <2> SUFFICES ASSUME NEW i \in 1 .. Len(cs), NEW j \in 1 .. Len(cs), cs[i] = cs[j] PROVE i = j
    BY <1>4 DEF Distinct
  <2>1. ~(i < j) /\ ~(j < i)
    BY <1>3, <1>4
  <2> QED BY <1>4, <2>1
<1>6. PICK g \in [1 .. Len(ds) -> 1 .. Len(cs)] :
             /\ \A i, j \in 1 .. Len(ds) : i < j => g[i] < g[j]
             /\ \A i \in 1 .. Len(ds) : ds[i] = cs[g[i]] /\ ds[i] \in dirs
             /\ \A k \in 1 .. Len(cs) : cs[k] \in dirs => \E i \in 1 .. Len(ds) : g[i] = k
  <2> HIDE DEF dirs
  <2> QED BY <1>3, PickedOrder
<1>7. ds \in Seq(Places)
  <2>1. ds \in Seq(Places \cap {x \in Places : IsDir(x)})
    BY <1>3, PickedTyped
  <2> QED BY <2>1, SeqMonotonic
<1> HIDE DEF ds
<1>8. Len(ds) \in Nat /\ DOMAIN ds = 1 .. Len(ds)
  BY <1>7, LenProperties
<1>9. Distinct(ds)
  <2> SUFFICES ASSUME NEW i \in 1 .. Len(ds), NEW j \in 1 .. Len(ds), ds[i] = ds[j] PROVE i = j
    BY <1>8 DEF Distinct
  <2>1. g[i] = g[j]
    <3>1. g[i] \in DOMAIN cs /\ g[j] \in DOMAIN cs /\ cs[g[i]] = cs[g[j]]
      BY <1>4, <1>6
    <3> QED BY <1>5, <3>1 DEF Distinct
  <2>2. ~(i < j) /\ ~(j < i)
    BY <1>6, <2>1
  <2> QED BY <1>8, <2>2
<1>10. ToSet(ds) \subseteq ToSet(cs)
  BY <1>4, <1>6, <1>8 DEF ToSet
<1>11. \A c \in ToSet(cs) : IsDir(c) => c \in ToSet(ds)
  <2> SUFFICES ASSUME NEW k \in 1 .. Len(cs), IsDir(cs[k]) PROVE cs[k] \in ToSet(ds)
    BY <1>4 DEF ToSet
  <2>1. PICK i \in 1 .. Len(ds) : g[i] = k
    BY <1>4, <1>6
  <2> QED BY <1>6, <1>8, <2>1 DEF ToSet
<1>12. ToSet(<<>>) = {} /\ <<>> \in Seq(Places) /\ Distinct(<<>>)
  BY EmptySeq DEF ToSet, Distinct
<1>13. CASE cur.recursive
  BY <1>2, <1>3, <1>5, <1>7, <1>9, <1>10, <1>11, <1>13
<1>14. CASE ~cur.recursive
  BY <1>2, <1>3, <1>5, <1>12, <1>14
<1> QED BY <1>13, <1>14

\* A visit of a list keeps what a list has and has still to find.
LEMMA ListStep ==
  ASSUME IInv, Standing, Listing, WalkStep, cur.op = "list", pc' = "walk"
  PROVE  Listing'
<1> DEFINE q == Last(stack)
           v == ListVisit(q)
           A == ToSet(out)
           B == ToSet(stack)
           F == ToSet(Front(stack))
           C == ToSet(v.adds)
           D == ToSet(v.pushes)
<1>1. /\ pc = "walk" /\ cur.op # "read" /\ stack # <<>>
      /\ UNCHANGED <<files, cur, base, steady, seen>>
      /\ v.ok /\ stack' = Front(stack) \o v.pushes /\ out' = out \o SubSeq(v.adds, 1, Len(v.adds))
  <2>1. VisitOf(Last(stack)) = v
    BY DEF VisitOf
  <2> HIDE DEF v
  <2> QED BY <2>1, WalkStepIs
<1>2. /\ stack \in Seq(Below) /\ stack \in Seq(Places) /\ base \in Places /\ B \subseteq Below /\ Below \subseteq Places
      /\ out \in Seq(Places) /\ A \subseteq Below /\ present \subseteq Places
  BY <1>1, WalkTypes
<1>3. /\ A \subseteq seen /\ Distinct(out) /\ Distinct(stack) /\ Apart(B)
      /\ \A x \in B, y \in A : Under(x, y) => x = y
      /\ ~cur.recursive => B \subseteq {base}
      /\ \A p \in steady : ListWanted(p) => p \in A \/ \E x \in B : Under(x, p) /\ x # p
  BY <1>1 DEF Listing
<1>4. /\ \A p \in present : Len(p) > 1 => Front(p) \in present
      /\ \A p \in present, d \in turned : Under(d, p) => d = p
      /\ steady \subseteq present /\ {x \in Places : There(x)} \subseteq seen
  BY <1>1 DEF Standing, Treelike
<1>5. /\ Front(stack) \in Seq(Places) /\ Distinct(Front(stack)) /\ q \in Below /\ q \in Places
      /\ B = F \cup {q} /\ q \notin F /\ F = B \ {q}
  <2>1. Front(stack) \in Seq(Places) /\ Distinct(Front(stack)) /\ B = F \cup {q} /\ q \notin F
    BY <1>1, <1>2, <1>3, Popped
  <2> HIDE DEF q, B, F
  <2> QED BY <1>2, <2>1
<1>6. /\ v.adds \in Seq(Places) /\ Distinct(v.adds)
      /\ C = {c \in Places : IsChild(q, c) /\ (cur.hidden \/ c \notin Hidden)}
      /\ v.pushes \in Seq(Places) /\ Distinct(v.pushes) /\ D \subseteq C
      /\ cur.recursive => \A c \in C : IsDir(c) => c \in D
      /\ ~cur.recursive => D = {}
  BY <1>1, <1>5, ListVisitIs
<1>7. out' = out \o v.adds
  BY <1>1, <1>6, WholeOf
<1> HIDE DEF q, v
<1>8. \A c \in C : c \in Places /\ Under(q, c) /\ Len(c) = Len(q) + 1 /\ There(c)
  BY <1>6 DEF IsChild
<1>9. Apart(F \cup C) /\ F \cap C = {} /\ q \notin C
  <2>1. B \subseteq Places /\ q \in B
    BY <1>2, <1>5
  <2> HIDE DEF B, C, F
  <2> QED BY <1>3, <1>5, <1>8, <2>1, ApartStep
<1>10. Distinct(stack') /\ ToSet(stack') = F \cup D
  <2> DEFINE f == Front(stack)
             ps == v.pushes
  <2>1. f \in Seq(Places) /\ Distinct(f) /\ ps \in Seq(Places) /\ Distinct(ps) /\ ToSet(f) \cap ToSet(ps) = {}
    BY <1>5, <1>6, <1>9
  <2>2. stack' = f \o ps /\ F = ToSet(f) /\ D = ToSet(ps)
    BY <1>1
  <2> HIDE DEF f, ps, F, D
  <2> QED BY <2>1, <2>2, Joining
<1>11. A \cap C = {}
  <2> SUFFICES ASSUME NEW c \in C, c \in A PROVE FALSE
    OBVIOUS
  <2>1. q = c
    BY <1>3, <1>5, <1>8
  <2> QED BY <1>9, <2>1
<1>12. Distinct(out') /\ ToSet(out') = A \cup C
  BY <1>2, <1>3, <1>6, <1>7, <1>11, Joining
<1> HIDE DEF A, B, C, D, F
<1>13. Apart(F \cup D)
  BY <1>6, <1>9 DEF Apart
<1>14. ASSUME NEW x \in F \cup D, NEW y \in A \cup C, Under(x, y) PROVE x = y
  <2>1. CASE x \in F /\ y \in A
    BY <1>3, <1>5, <1>14, <2>1
  <2>2. CASE y \in C
    BY <1>6, <1>9, <1>14, <2>2 DEF Apart
  <2>3. CASE x \in D /\ y \in A
    <3>1. x \in C /\ x \in Places /\ y \in Places /\ q \in B
      BY <1>2, <1>5, <1>6, <1>8, <2>3
    <3>2. Under(q, x) /\ Len(x) = Len(q) + 1 /\ Under(q, y)
      BY <1>5, <1>8, <1>14, <3>1, UnderOrder
    <3>3. q = y
      BY <1>3, <2>3, <3>1, <3>2
    <3>4. Len(x) <= Len(q)
      BY <1>5, <1>14, <3>1, <3>3, UnderPlaces
    <3> QED BY <1>5, <3>2, <3>4, PlacesHave
  <2> QED BY <2>1, <2>2, <2>3
<1>15. ASSUME NEW p \in steady, ListWanted(p)
       PROVE  p \in A \cup C \/ \E x \in F \cup D : Under(x, p) /\ x # p
  <2>1. CASE p \in A
    BY <2>1
  <2>2. CASE \E x \in F : Under(x, p) /\ x # p
    BY <2>2
  <2>3. CASE Under(q, p) /\ q # p
    <3> DEFINE c == SubSeq(p, 1, Len(q) + 1)
    <3>1. p \in present /\ p \in Places
      BY <1>2, <1>4
    <3>2. /\ c \in present /\ Under(q, c) /\ Len(c) = Len(q) + 1 /\ Under(c, p)
          /\ c # p => Folder(c)
          /\ Len(q) < Len(p)
      <4>1. present \subseteq Places /\ q \in Places /\ \A x \in present : Len(x) > 1 => Front(x) \in present
        BY <1>2, <1>4, <1>5
      <4> QED BY <2>3, <3>1, <4>1, OnTheWay, SMTT(60)
    <3>3. cur.hidden \/ c \notin Hidden
      <4>1. Len(base) <= Len(q) /\ Len(base) \in Nat /\ Len(q) \in Nat /\ Len(p) \in Nat
        BY <1>2, <1>5, <3>1, UnderPlaces, PlacesHave DEF Below
      <4>2. Len(q) + 1 \in Len(base) + 1 .. Len(p)
        BY <3>2, <4>1
      <4> HIDE DEF c
      <4>3. Visible(base, p) => c \notin Hidden
        BY <4>2 DEF Visible, c
      <4> QED BY <1>15, <4>3 DEF ListWanted
    <3> HIDE DEF c
    <3>a. Lstat(c) = c /\ There(c)
      BY <3>2, PlainNames DEF IInv, Standing
    <3>4. c \in C /\ c \in Places
      BY <1>2, <1>6, <3>2, <3>3, <3>a DEF IsChild
    <3>b. c # p => IsDir(c)
      <4>1. c # p => c \notin turned
        BY <1>4, <3>1, <3>2
      <4> QED BY <3>2, <3>a, <4>1 DEF IsDir, Folder
    <3>5. CASE c = p
      BY <3>4, <3>5
    <3>6. CASE c # p /\ cur.recursive
      <4>1. c \in D
        BY <1>6, <3>4, <3>6, <3>b
      <4> QED BY <3>2, <3>6, <4>1
    <3>7. CASE c # p /\ ~cur.recursive
      <4>1. q = base
        BY <1>3, <1>5, <3>7
      <4>2. Len(p) = Len(c)
        BY <1>15, <3>2, <3>7, <4>1 DEF ListWanted
      <4>3. Under(p, p) /\ Len(c) <= Len(p)
        BY <3>1, <3>4, <4>2, UnderOrder, PlacesHave
      <4>4. c = p
        BY <3>1, <3>2, <3>4, <4>2, <4>3, BothAbove
      <4> QED BY <3>7, <4>4
    <3> QED BY <3>5, <3>6, <3>7
  <2> QED BY <1>3, <1>5, <1>15, <2>1, <2>2, <2>3
<1>16. A \cup C \subseteq seen
  BY <1>3, <1>4, <1>8
<1>17. ~cur.recursive => F \cup D \subseteq {base}
  BY <1>3, <1>5, <1>6
<1>18. \A p : ListWanted(p)' = ListWanted(p)
  BY <1>1 DEF ListWanted, Visible, Under
<1> QED BY <1>1, <1>10, <1>12, <1>13, <1>14, <1>15, <1>16, <1>17, <1>18 DEF Listing

\* A list that has nothing left to visit has named all that was wanted, once.
LEMMA ListEnds ==
  ASSUME IInv, Standing, Listing, WalkEnds, cur.op = "list"
  PROVE  ListIsWhole'
<1>1. /\ pc = "walk" /\ cur.op # "read" /\ stack = <<>>
      /\ UNCHANGED <<files, cur, base, steady, seen, out>>
  BY DEF WalkEnds, Answers, history
<1>2. /\ ToSet(out) \subseteq seen /\ Distinct(out)
      /\ \A p \in steady : ListWanted(p) => p \in ToSet(out) \/ \E x \in ToSet(stack) : Under(x, p) /\ x # p
  BY <1>1 DEF Listing
<1>3. ToSet(stack) = {}
  BY <1>1 DEF ToSet
<1>4. \A p : IsChild(base, p) => Len(p) = Len(base) + 1
  BY DEF IsChild
<1>5. ASSUME NEW p \in steady, Under(base, p), p # base,
             cur.hidden \/ Visible(base, p), cur.recursive \/ IsChild(base, p)
      PROVE  Cardinality({i \in DOMAIN out : out[i] = p}) = 1
  <2>1. ListWanted(p)
    BY <1>4, <1>5 DEF ListWanted
  <2>2. PICK k \in DOMAIN out : out[k] = p
    BY <1>2, <1>3, <2>1 DEF ToSet
  <2>3. {i \in DOMAIN out : out[i] = p} = {k}
    BY <1>2, <2>2 DEF Distinct
  <2> QED BY <2>3, FS_Singleton
<1>6. ListIsWhole
  BY <1>2, <1>5 DEF ListIsWhole
<1>7. \A p : IsChild(base, p)' = IsChild(base, p)
  BY <1>1 DEF IsChild, There, Lstat, Canon, Under, files, tree
<1> QED BY <1>1, <1>6, <1>7 DEF ListIsWhole, Visible, Under

-----------------------------------------------------------------------------
\* What a visit of a search finds.
LEMMA SearchVisitIs ==
  ASSUME TypeOK, NEW q \in Places
  PROVE  LET adds == SearchVisit(q).adds  pushes == SearchVisit(q).pushes  h == Hits[Lstat(q)] IN
           /\ adds = <<>> \/ (Lstat(q) \in Places /\ adds = [i \in DOMAIN h |-> <<q, h[i]>>])
           /\ There(q) /\ Lstat(q) \notin turned /\ Kind[Lstat(q)] = "text" =>
                adds = [i \in DOMAIN h |-> <<q, h[i]>>]
           /\ pushes \in Seq(Places)
           /\ \A i, j \in 1 .. Len(pushes) : i < j => Index(pushes[j]) < Index(pushes[i])
           /\ \A c \in ToSet(pushes) : c \in Places /\ IsChild(q, c) /\ adds = <<>>
           /\ ToSet(pushes) # {} => Lstat(q) \notin turned
           /\ There(q) /\ Lstat(q) \notin turned /\ Kind[Lstat(q)] = "dir" =>
                \A c \in Places : IsChild(q, c) /\ c \notin Hidden => c \in ToSet(pushes)
<1> DEFINE cs == Children(q, FALSE)
           h == Hits[Lstat(q)]
           hs == [i \in DOMAIN h |-> <<q, h[i]>>]
           adds == SearchVisit(q).adds
           pushes == SearchVisit(q).pushes
<1>1. /\ cs \in Seq(Places)
      /\ ToSet(cs) = {c \in Places : IsChild(q, c) /\ (FALSE \/ c \notin Hidden)}
      /\ \A i, j \in 1 .. Len(cs) : i < j => Index(cs[i]) < Index(cs[j])
  BY ChildrenAre
<1>2. /\ Reverse(cs) \in Seq(Places) /\ Len(Reverse(cs)) = Len(cs) /\ ToSet(Reverse(cs)) = ToSet(cs)
      /\ \A i \in 1 .. Len(cs) : Reverse(cs)[i] = cs[(Len(cs) - i) + 1] /\ (Len(cs) - i) + 1 \in 1 .. Len(cs)
      /\ Len(cs) \in Nat
  <2> HIDE DEF cs
  <2> QED BY <1>1, Reversed, LenProperties
<1>3. \A i, j \in 1 .. Len(cs) : i < j => Index(Reverse(cs)[j]) < Index(Reverse(cs)[i])
  <2> HIDE DEF cs
  <2> DEFINE n == Len(cs)
  <2> SUFFICES ASSUME NEW i \in 1 .. n, NEW j \in 1 .. n, i < j
               PROVE  Index(Reverse(cs)[j]) < Index(Reverse(cs)[i])
    OBVIOUS
  <2>1. (n - j) + 1 < (n - i) + 1
    BY <1>2
  <2>2. (n - j) + 1 \in 1 .. n /\ (n - i) + 1 \in 1 .. n
    BY <1>2
  <2>3. Index(cs[(n - j) + 1]) < Index(cs[(n - i) + 1])
    BY <1>1, <2>1, <2>2
  <2> QED BY <1>2, <2>3
<1>4. ToSet(<<>>) = {} /\ <<>> \in Seq(Places) /\ Len(<<>>) = 0
  BY EmptySeq DEF ToSet
<1>5. CASE ~There(q) \/ Lstat(q) \in turned
  <2>1. adds = <<>> /\ pushes = <<>>
    BY <1>5 DEF SearchVisit, Visit
  <2> HIDE DEF adds, pushes
  <2>2. \A i \in 1 .. Len(pushes) : FALSE
    BY <1>4, <2>1
  <2> QED BY <1>4, <1>5, <2>1, <2>2 DEF adds, pushes
<1>6. CASE There(q) /\ Lstat(q) \notin turned /\ Kind[Lstat(q)] = "dir"
  <2>1. adds = <<>> /\ pushes = Reverse(cs)
    BY <1>6 DEF SearchVisit, Visit
  <2> HIDE DEF adds, pushes, cs
  <2>2. \A c : c \in ToSet(pushes) <=> c \in Places /\ IsChild(q, c) /\ c \notin Hidden
    BY <1>1, <1>2, <2>1
  <2>3. \A i, j \in 1 .. Len(pushes) : i < j => Index(pushes[j]) < Index(pushes[i])
    BY <1>2, <1>3, <2>1
  <2> QED BY <1>2, <1>6, <2>1, <2>2, <2>3 DEF adds, pushes
<1>7. CASE There(q) /\ Lstat(q) \notin turned /\ Kind[Lstat(q)] # "dir"
  <2>1. adds = MatchesIn(q) /\ pushes = <<>>
    BY <1>7 DEF SearchVisit, Visit
  <2>2. adds = IF Kind[Lstat(q)] = "text" THEN hs ELSE <<>>
    BY <2>1 DEF MatchesIn
  <2>3. Lstat(q) \in Places
    BY <1>7 DEF There, TypeOK
  <2> HIDE DEF adds, pushes, h, hs
  <2>4. \A i \in 1 .. Len(pushes) : FALSE
    BY <1>4, <2>1
  <2> QED BY <1>4, <1>7, <2>1, <2>2, <2>3, <2>4 DEF adds, pushes, h, hs
<1> QED BY <1>5, <1>6, <1>7

\* What a visit adds to the matches keeps them in order.
LEMMA MoreFound ==
  ASSUME IInv, Searching, WalkStep, cur.op = "search"
  PROVE  LET q == Last(stack)
             adds == SearchVisit(q).adds
             n == IF pc' = "walk" THEN Len(adds) ELSE Room
         IN  /\ n \in 0 .. Len(adds) /\ (pc' # "walk" => n # 0)
             /\ OutInOrder'
             /\ ToSet(out) \subseteq ToSet(out')
             /\ \A y \in ToSet(out') : y \in ToSet(out) \/ (y[1] = q /\ adds # <<>>)
             /\ \A i \in 1 .. n : adds[i] \in ToSet(out')
             /\ n # 0 => Last(out')[1] = q
<1> DEFINE q == Last(stack)
           adds == SearchVisit(q).adds
           n == IF pc' = "walk" THEN Len(adds) ELSE Room
           xs == SubSeq(adds, 1, n)
           m == Len(out)
           h == IF There(q) THEN Hits[Lstat(q)] ELSE <<>>
<1>1. /\ pc = "walk" /\ cur.op # "read" /\ stack # <<>>
      /\ VisitOf(q) = SearchVisit(q)
  BY DEF WalkStep, VisitOf
<1>2. /\ stack \in Seq(Places) /\ stack \in Seq(Below) /\ base \in Places /\ Below \subseteq Places
      /\ out \in Seq(Below \X Nat) /\ m \in Nat /\ DOMAIN out = 1 .. m
      /\ ToSet(stack) \subseteq Below /\ ToSet(out) \subseteq Below \X Nat
  BY <1>1, WalkTypes
<1>3. q \in ToSet(stack) /\ q \in Below /\ q \in Places
  <2> HIDE DEF adds, n, m, xs, h
  <2>1. ToSet(stack) = ToSet(Front(stack)) \cup {Last(stack)}
    BY <1>1, <1>2, Popped
  <2>2. q \in ToSet(stack)
    BY <2>1
  <2> QED BY <1>2, <2>2
<1>4. h \in Seq(Nat) /\ \A i, j \in DOMAIN h : i < j => h[i] < h[j]
  <2>1. CASE There(q)
    <3>1. Lstat(q) \in Places
      BY <2>1 DEF IInv, TypeOK, There
    <3> QED BY <2>1, <3>1, ReadToolsAssumption, TreeAssumption
  <2>2. CASE ~There(q)
    BY <2>2, EmptySeq
  <2> QED BY <2>1, <2>2
<1>5. Len(h) \in Nat /\ DOMAIN h = 1 .. Len(h) /\ \A i \in 1 .. Len(h) : h[i] \in Nat
  BY <1>4, LenProperties, ElementOfSeq
<1>6. adds = <<>> \/ adds = [i \in DOMAIN h |-> <<q, h[i]>>]
  <2>1. CASE There(q)
    BY <1>3, <2>1, SearchVisitIs DEF IInv
  <2>2. CASE ~There(q)
    BY <2>2 DEF SearchVisit, Visit
  <2> QED BY <2>1, <2>2
<1>7. adds \in Seq(Below \X Nat) /\ Len(adds) \in Nat
  BY <1>2, <1>3, VisitBelow, LenProperties DEF IInv
<1>8. \A i \in 1 .. Len(adds) : i \in DOMAIN h /\ adds[i] = <<q, h[i]>> /\ i \in Nat
  <2>1. CASE adds = <<>>
    <3>1. Len(adds) = 0
      BY <2>1, EmptySeq
    <3> QED BY <3>1
  <2>2. CASE adds = [i \in DOMAIN h |-> <<q, h[i]>>]
    <3> DEFINE hs == [i \in DOMAIN h |-> <<q, h[i]>>]
    <3>1. DOMAIN hs = 1 .. Len(h) /\ \A i \in 1 .. Len(h) : hs[i] = <<q, h[i]>>
      BY <1>5
    <3>2. adds = hs /\ DOMAIN adds = 1 .. Len(adds)
      BY <1>7, <2>2, LenProperties
    <3> HIDE DEF adds, hs, h
    <3>3. 1 .. Len(adds) = 1 .. Len(h)
      BY <3>1, <3>2
    <3> QED BY <1>5, <3>1, <3>2, <3>3
  <2> QED BY <1>6, <2>1, <2>2
<1>9. /\ Room \in Nat \ {0}
      /\ n \in 0 .. Len(adds) /\ (pc' # "walk" => n # 0)
      /\ out' = out \o xs
  <2> HIDE DEF adds
  <2>1. /\ Room \in Nat \ {0}
        /\ \/ /\ Len(VisitOf(q).adds) >= Room /\ pc' = "answered" /\ out' = out \o SubSeq(VisitOf(q).adds, 1, Room)
           \/ /\ ~(Len(VisitOf(q).adds) >= Room) /\ pc' = "walk" /\ out' = out \o SubSeq(VisitOf(q).adds, 1, Len(VisitOf(q).adds))
    BY WalkStepIs
  <2>2. VisitOf(q).adds = adds
    BY <1>1 DEF adds
  <2>3. CASE Len(adds) >= Room /\ pc' = "answered" /\ out' = out \o SubSeq(adds, 1, Room)
    BY <1>7, <2>1, <2>3
  <2>4. CASE ~(Len(adds) >= Room) /\ pc' = "walk" /\ out' = out \o SubSeq(adds, 1, Len(adds))
    BY <1>7, <2>1, <2>4
  <2> QED BY <2>1, <2>2, <2>3, <2>4
<1> HIDE DEF q, adds, n, h
<1>10. xs \in Seq(Below \X Nat) /\ Len(xs) = n /\ \A i \in 1 .. n : xs[i] = adds[i]
  BY <1>7, <1>9, FirstOf
<1> HIDE DEF xs
<1>11. n \in Nat /\ \A i \in 1 .. n : i \in 1 .. Len(adds) /\ i \in DOMAIN h /\ xs[i] = <<q, h[i]>>
  <2>1. n \in Nat /\ \A i \in 1 .. n : i \in 1 .. Len(adds)
    BY <1>7, <1>9
  <2> QED BY <1>8, <1>10, <2>1
<1>12. /\ Len(out') = m + n /\ ToSet(out') = ToSet(out) \cup ToSet(xs)
       /\ \A i \in 1 .. m : out'[i] = out[i]
       /\ \A i \in 1 .. n : out'[m + i] = <<q, h[i]>>
       /\ DOMAIN out' = 1 .. m + n
  <2> HIDE DEF m
  <2>1. /\ out \o xs \in Seq(Below \X Nat) /\ Len(out \o xs) = Len(out) + Len(xs)
        /\ \A i \in 1 .. Len(out) : (out \o xs)[i] = out[i]
        /\ \A i \in 1 .. Len(xs) : (out \o xs)[Len(out) + i] = xs[i]
        /\ ToSet(out \o xs) = ToSet(out) \cup ToSet(xs)
    <3> DEFINE S == Below \X Nat
    <3>1. out \in Seq(S) /\ xs \in Seq(S)
      BY <1>2, <1>10
    <3> HIDE DEF S
    <3>2. out \o xs \in Seq(S)
      BY <3>1, Joining
    <3> QED BY <3>1, <3>2, Joining DEF S
  <2>2. DOMAIN (out \o xs) = 1 .. Len(out \o xs)
    BY <2>1, LenProperties
  <2> QED BY <1>9, <1>10, <1>11, <2>1, <2>2 DEF m
<1>13. DOMAIN xs = 1 .. n
  BY <1>10, LenProperties
<1>14. \A i \in 1 .. m : Index(out[i][1]) < Index(q)
  <2>1. \A x \in ToSet(stack), y \in ToSet(out) : Index(y[1]) < Index(x)
    BY <1>1 DEF Searching
  <2>2. \A i \in 1 .. m : out[i] \in ToSet(out)
    BY <1>2 DEF ToSet
  <2> QED BY <1>3, <2>1, <2>2
<1>15. ASSUME NEW i \in 1 .. m + n, NEW j \in 1 .. m + n, i < j
       PROVE  \/ Index(out'[i][1]) < Index(out'[j][1])
              \/ out'[i][1] = out'[j][1] /\ out'[i][2] < out'[j][2]
  <2>1. CASE j <= m
    <3>1. i \in 1 .. m /\ j \in 1 .. m /\ i \in DOMAIN out /\ j \in DOMAIN out
      BY <1>2, <1>15, <2>1
    <3>2. OutInOrder
      BY <1>1 DEF Searching
    <3>3. Index(out[i][1]) < Index(out[j][1]) \/ (out[i][1] = out[j][1] /\ out[i][2] < out[j][2])
      BY <1>15, <3>1, <3>2 DEF OutInOrder
    <3> QED BY <1>12, <3>1, <3>3
  <2>2. CASE i <= m /\ ~(j <= m)
    <3>1. i \in 1 .. m /\ j - m \in 1 .. n /\ j = m + (j - m)
      BY <1>2, <1>11, <2>2
    <3>2. out'[j] = <<q, h[j - m]>> /\ out'[i] = out[i]
      BY <1>12, <3>1
    <3>3. out'[j][1] = q
      BY <3>2
    <3> QED BY <1>14, <3>1, <3>2, <3>3
  <2>3. CASE ~(i <= m)
    <3>1. i - m \in 1 .. n /\ i = m + (i - m) /\ j - m \in 1 .. n /\ j = m + (j - m) /\ i - m < j - m
      BY <1>2, <1>11, <1>15, <2>3
    <3>2. out'[j] = <<q, h[j - m]>> /\ out'[i] = <<q, h[i - m]>>
      BY <1>12, <3>1
    <3>3. i - m \in DOMAIN h /\ j - m \in DOMAIN h
      BY <1>11, <3>1
    <3>4. h[i - m] < h[j - m]
      BY <1>4, <3>1, <3>3
    <3> QED BY <3>2, <3>4
  <2> QED BY <2>1, <2>2, <2>3
<1>16. OutInOrder'
  BY <1>12, <1>15 DEF OutInOrder, Index
<1>17. \A y \in ToSet(xs) : y[1] = q /\ adds # <<>>
  <2> SUFFICES ASSUME NEW i \in 1 .. n PROVE xs[i][1] = q /\ adds # <<>>
    BY <1>13 DEF ToSet
  <2>1. xs[i] = <<q, h[i]>> /\ i \in 1 .. Len(adds)
    BY <1>11
  <2>2. adds # <<>>
    BY <2>1, EmptySeq
  <2> QED BY <2>1, <2>2
<1>18. \A i \in 1 .. n : adds[i] \in ToSet(xs)
  BY <1>10, <1>13 DEF ToSet
<1>19. n # 0 => Last(out')[1] = q
  <2> SUFFICES ASSUME n # 0 PROVE Last(out')[1] = q
    OBVIOUS
  <2>1. n \in 1 .. n /\ Last(out') = out'[m + n]
    BY <1>11, <1>12 DEF Last
  <2> QED BY <1>12, <2>1
<1>20. ToSet(out) \subseteq ToSet(out')
  BY <1>12
<1>21. \A y \in ToSet(out') : y \in ToSet(out) \/ (y[1] = q /\ adds # <<>>)
  BY <1>12, <1>17
<1>22. \A i \in 1 .. n : adds[i] \in ToSet(out')
  BY <1>12, <1>18
<1> QED BY <1>9, <1>16, <1>19, <1>20, <1>21, <1>22 DEF q, adds, n

\* The top of the stack of a search comes first.
LEMMA TopFirst ==
  ASSUME IInv, Searching, pc = "walk", cur.op = "search", stack # <<>>
  PROVE  /\ Last(stack) \in Places /\ Last(stack) \in Below /\ Last(stack) \in ToSet(stack)
         /\ Front(stack) \in Seq(Places) /\ Len(Front(stack)) = Len(stack) - 1 /\ Len(stack) \in Nat \ {0}
         /\ \A i \in 1 .. Len(stack) - 1 : Front(stack)[i] = stack[i] /\ i \in DOMAIN stack
         /\ ToSet(stack) = ToSet(Front(stack)) \cup {Last(stack)}
         /\ \A x \in ToSet(Front(stack)) : x \in Places /\ Index(Last(stack)) < Index(x) /\ ~Under(Last(stack), x)
<1>1. stack \in Seq(Places) /\ stack \in Seq(Below) /\ DOMAIN stack = 1 .. Len(stack)
  BY WalkTypes
<1>2. StackInOrder /\ Apart(ToSet(stack))
  BY DEF Searching
<1>3. /\ Front(stack) \in Seq(Places) /\ Len(Front(stack)) = Len(stack) - 1 /\ Len(stack) \in Nat \ {0}
      /\ \A i \in 1 .. Len(stack) - 1 : Front(stack)[i] = stack[i]
      /\ Last(stack) = stack[Len(stack)] /\ Last(stack) \in Places
      /\ ToSet(stack) = ToSet(Front(stack)) \cup {Last(stack)}
  BY <1>1, Popped
<1>4. Last(stack) \in Below
  BY <1>1, Popped
<1>5. \A i \in 1 .. Len(stack) - 1 : i \in DOMAIN stack /\ Len(stack) \in DOMAIN stack /\ i < Len(stack)
  BY <1>1, <1>3
<1>6. ASSUME NEW x \in ToSet(Front(stack))
      PROVE  x \in Places /\ Index(Last(stack)) < Index(x) /\ ~Under(Last(stack), x)
  <2>1. DOMAIN Front(stack) = 1 .. Len(stack) - 1
    BY <1>3, LenProperties
  <2>2. PICK i \in 1 .. Len(stack) - 1 : x = stack[i]
    BY <1>3, <2>1 DEF ToSet
  <2>3. x \in ToSet(stack) /\ Last(stack) \in ToSet(stack)
    BY <1>3
  <2>4. x \in Places
    BY <1>1, <1>5, <2>2, ElementOfSeq
  <2>5. Index(Last(stack)) < Index(x)
    BY <1>2, <1>3, <1>5, <2>2 DEF StackInOrder
  <2>6. Index(x) \in Nat
    BY <2>4, PlacesHave
  <2>7. ~Under(Last(stack), x)
    BY <1>2, <2>3, <2>5, <2>6 DEF Apart
  <2> QED BY <2>4, <2>5, <2>7
<1> QED BY <1>3, <1>4, <1>5, <1>6

\* The places pushed come before all that was on the stack already.
LEMMA StackStep ==
  ASSUME IInv, Searching, pc = "walk", cur.op = "search", stack # <<>>,
         stack' = Front(stack) \o SearchVisit(Last(stack)).pushes
  PROVE  /\ StackInOrder' /\ Apart(ToSet(stack'))
         /\ ToSet(stack') = ToSet(Front(stack)) \cup ToSet(SearchVisit(Last(stack)).pushes)
<1> DEFINE q == Last(stack)
           f == Front(stack)
           ps == SearchVisit(q).pushes
           m == Len(f)
           n == Len(ps)
<1>1. /\ q \in Places /\ q \in ToSet(stack) /\ f \in Seq(Places) /\ m = Len(stack) - 1 /\ Len(stack) \in Nat \ {0}
      /\ \A i \in 1 .. Len(stack) - 1 : f[i] = stack[i] /\ i \in DOMAIN stack
      /\ ToSet(stack) = ToSet(f) \cup {q}
      /\ \A x \in ToSet(f) : x \in Places /\ Index(q) < Index(x) /\ ~Under(q, x)
  BY TopFirst
<1>2. /\ ps \in Seq(Places)
      /\ \A i, j \in 1 .. n : i < j => Index(ps[j]) < Index(ps[i])
      /\ \A c \in ToSet(ps) : c \in Places /\ IsChild(q, c)
  BY <1>1, SearchVisitIs DEF IInv
<1>3. StackInOrder /\ Apart(ToSet(stack)) /\ stack \in Seq(Places) /\ stack' = f \o ps
  BY WalkTypes DEF Searching
<1> HIDE DEF q, f, ps
<1>4. m \in Nat /\ n \in Nat /\ DOMAIN f = 1 .. m /\ DOMAIN ps = 1 .. n
  BY <1>1, <1>2, LenProperties
<1>5. /\ Len(stack') = m + n /\ DOMAIN stack' = 1 .. m + n /\ ToSet(stack') = ToSet(f) \cup ToSet(ps)
      /\ \A i \in 1 .. m : stack'[i] = f[i]
      /\ \A i \in 1 .. n : stack'[m + i] = ps[i]
  <2>1. /\ f \o ps \in Seq(Places) /\ Len(f \o ps) = Len(f) + Len(ps) /\ ToSet(f \o ps) = ToSet(f) \cup ToSet(ps)
        /\ \A i \in 1 .. Len(f) : (f \o ps)[i] = f[i]
        /\ \A i \in 1 .. Len(ps) : (f \o ps)[Len(f) + i] = ps[i]
    <3> HIDE DEF m, n
    <3>1. f \in Seq(Places) /\ ps \in Seq(Places)
      BY <1>1, <1>2
    <3> QED BY <3>1, Joining
  <2>2. DOMAIN (f \o ps) = 1 .. Len(f \o ps)
    BY <2>1, LenProperties
  <2> QED BY <1>3, <2>1, <2>2
<1>6. ASSUME NEW i \in 1 .. m + n, NEW j \in 1 .. m + n, i < j
      PROVE  Index(stack'[j]) < Index(stack'[i])
  <2>1. CASE j <= m
    <3>1. i \in 1 .. m /\ j \in 1 .. m
      BY <1>4, <1>6, <2>1
    <3>2. stack'[i] = stack[i] /\ stack'[j] = stack[j] /\ i \in DOMAIN stack /\ j \in DOMAIN stack
      BY <1>1, <1>5, <3>1
    <3> QED BY <1>3, <1>6, <3>2 DEF StackInOrder
  <2>2. CASE i <= m /\ ~(j <= m)
    <3>1. i \in 1 .. m /\ j - m \in 1 .. n /\ j = m + (j - m)
      BY <1>4, <2>2
    <3>2. stack'[i] = f[i] /\ stack'[j] = ps[j - m]
      BY <1>5, <3>1
    <3>3. stack'[i] \in ToSet(f) /\ stack'[j] \in ToSet(ps)
      BY <1>4, <3>1, <3>2 DEF ToSet
    <3>4. Under(q, stack'[j])
      BY <1>2, <3>3 DEF IsChild
    <3> QED BY <1>1, <1>2, <3>3, <3>4, SubtreeBefore
  <2>3. CASE ~(i <= m)
    <3>1. i - m \in 1 .. n /\ i = m + (i - m) /\ j - m \in 1 .. n /\ j = m + (j - m) /\ i - m < j - m
      BY <1>4, <1>6, <2>3
    <3>2. stack'[i] = ps[i - m] /\ stack'[j] = ps[j - m]
      BY <1>5, <3>1
    <3> QED BY <1>2, <3>1, <3>2
  <2> QED BY <2>1, <2>2, <2>3
<1>7. StackInOrder'
  BY <1>5, <1>6 DEF StackInOrder, Index
<1>8. Apart(ToSet(stack'))
  <2> DEFINE B == ToSet(stack)
             D == ToSet(ps)
  <2>1. B \subseteq Places /\ Apart(B) /\ q \in B
    BY <1>1, <1>3
  <2>2. \A c \in D : c \in Places /\ Under(q, c) /\ Len(c) = Len(q) + 1
    BY <1>2 DEF IsChild
  <2> HIDE DEF B, D
  <2>3. Apart((B \ {q}) \cup D)
    BY <2>1, <2>2, ApartStep
  <2>4. q \notin ToSet(f)
    <3>1. Under(q, q)
      BY <1>1, UnderOrder
    <3> QED BY <1>1, <3>1
  <2>5. ToSet(stack') \subseteq (B \ {q}) \cup D
    BY <1>1, <1>5, <2>4 DEF B, D
  <2> QED BY <2>3, <2>5 DEF Apart
<1> QED BY <1>5, <1>7, <1>8 DEF q, f, ps

\* A search whose matches are in order, and all found that it has to answer for,
\* is whole.
LEMMA SearchDone ==
  ASSUME OutInOrder', (Len(out) \in Nat /\ DOMAIN out = 1 .. Len(out))',
         \A p \in steady' :
           SearchWanted(p)' /\ (answer'.truncated => Index(p) < Index(Last(out')[1])) => Found(p)'
  PROVE  SearchIsWhole'
<1>1. \A i \in 1 .. Len(out') - 1 :
        \/ Index(out'[i][1]) < Index(out'[i + 1][1])
        \/ out'[i][1] = out'[i + 1][1] /\ out'[i][2] < out'[i + 1][2]
  <2> SUFFICES ASSUME NEW i \in 1 .. Len(out') - 1
               PROVE  \/ Index(out'[i][1]) < Index(out'[i + 1][1])
                      \/ out'[i][1] = out'[i + 1][1] /\ out'[i][2] < out'[i + 1][2]
    OBVIOUS
  <2>1. i \in DOMAIN out' /\ i + 1 \in DOMAIN out' /\ i < i + 1
    OBVIOUS
  <2> QED BY <2>1 DEF OutInOrder, Index
<1>2. ASSUME NEW p \in steady', Found(p)'
      PROVE  ToSet(Hits[p]) \subseteq {out'[i][2] : i \in {j \in DOMAIN out' : out'[j][1] = p}}
  <2> SUFFICES ASSUME NEW n \in ToSet(Hits[p])
               PROVE  \E i \in DOMAIN out' : out'[i][1] = p /\ n = out'[i][2]
    OBVIOUS
  <2>1. PICK i \in DOMAIN out' : out'[i] = <<p, n>>
    BY <1>2 DEF Found, ToSet
  <2> QED BY <2>1
<1>3. ASSUME NEW p \in steady',
             Under(base, p)', Kind[p] = "text", Visible(base, p)', Reachable(base, p)',
             answer'.truncated => Index(p) < Index(Last(out')[1])
      PROVE  Found(p)'
  BY <1>3 DEF SearchWanted
<1> QED BY <1>1, <1>2, <1>3 DEF SearchIsWhole, Index, Under, Visible, Reachable

\* Between the base of a search and what is wanted there are directories in sight.
LEMMA WantedWay ==
  ASSUME IInv, Standing, pc = "walk", cur.op = "search", NEW q \in Below, NEW p \in steady,
         SearchWanted(p), Under(q, p), q # p
  PROVE  /\ There(q) /\ Lstat(q) = q /\ q \notin turned /\ Kind[q] = "dir"
         /\ \E c \in Places : IsChild(q, c) /\ c \notin Hidden /\ Under(c, p)
<1>1. q \in Places /\ base \in Places /\ present \subseteq Places /\ Under(base, q)
  BY WalkTypes DEF Below
<1>2. p \in present /\ p \in Places /\ \A x \in present : Len(x) > 1 => Front(x) \in present
  BY <1>1 DEF Standing, Treelike
<1> DEFINE c == SubSeq(p, 1, Len(q) + 1)
<1>3. /\ c \in present /\ Under(q, c) /\ Len(c) = Len(q) + 1 /\ Under(c, p)
      /\ q = SubSeq(p, 1, Len(q)) /\ q \in present /\ Len(q) < Len(p)
  BY <1>1, <1>2, OnTheWay, SMTT(60)
<1>4. Len(base) <= Len(q) /\ Len(base) \in Nat /\ Len(q) \in Nat /\ Len(p) \in Nat
  BY <1>1, <1>2, UnderPlaces, PlacesHave
<1>5. Len(q) + 1 \in Len(base) + 1 .. Len(p) /\ Len(q) \in Len(base) .. Len(p) - 1
  BY <1>3, <1>4
<1>6. c \notin Hidden
  BY <1>5 DEF SearchWanted, Visible
<1>7. Kind[q] = "dir"
  BY <1>3, <1>5 DEF SearchWanted, Reachable
<1> HIDE DEF c
<1>8. IsChild(q, c) /\ c \in Places
  <2>1. There(c)
    BY <1>3, PlainNames DEF IInv, Standing
  <2> QED BY <1>1, <1>3, <2>1 DEF IsChild
<1>9. There(q) /\ Lstat(q) = q /\ q \notin turned
  BY <1>1, <1>2, <1>3, PlainNames DEF IInv, Standing
<1> QED BY <1>3, <1>6, <1>7, <1>8, <1>9

\* A visit of a search keeps what a search has and has still to find.
LEMMA SearchStep ==
  ASSUME IInv, Standing, Searching, WalkStep, cur.op = "search", pc' = "walk"
  PROVE  Searching'
<1> DEFINE q == Last(stack)
           v == SearchVisit(q)
           F == ToSet(Front(stack))
           D == ToSet(v.pushes)
<1>1. /\ pc = "walk" /\ cur.op # "read" /\ stack # <<>>
      /\ UNCHANGED <<files, cur, base, steady, seen>>
      /\ stack' = Front(stack) \o v.pushes
  <2>1. VisitOf(Last(stack)) = v
    BY DEF VisitOf
  <2> HIDE DEF v
  <2>2. WalkStep
    OBVIOUS
  <2> QED BY <2>1, <2>2, WalkStepIs
<1>2. /\ q \in Places /\ q \in Below /\ q \in ToSet(stack)
      /\ ToSet(stack) = F \cup {q}
      /\ \A x \in F : x \in Places /\ Index(q) < Index(x)
  BY <1>1, TopFirst
<1>3. StackInOrder' /\ Apart(ToSet(stack')) /\ ToSet(stack') = F \cup D
  BY <1>1, StackStep
<1>4. /\ OutInOrder' /\ ToSet(out) \subseteq ToSet(out')
      /\ \A y \in ToSet(out') : y \in ToSet(out) \/ (y[1] = q /\ v.adds # <<>>)
      /\ \A i \in 1 .. Len(v.adds) : v.adds[i] \in ToSet(out')
  BY <1>1, MoreFound
<1>5. /\ There(q) /\ Lstat(q) = q /\ q \notin turned =>
           /\ Kind[q] = "text" => v.adds = [i \in DOMAIN Hits[q] |-> <<q, Hits[q][i]>>]
           /\ Kind[q] = "dir" => \A c \in Places : IsChild(q, c) /\ c \notin Hidden => c \in D
      /\ \A c \in D : c \in Places /\ IsChild(q, c) /\ v.adds = <<>>
  BY <1>2, SearchVisitIs DEF IInv
<1>6. /\ \A x \in ToSet(stack), y \in ToSet(out) : Index(y[1]) < Index(x)
      /\ \A p \in steady : SearchWanted(p) => Found(p) \/ \E x \in ToSet(stack) : Under(x, p)
  BY <1>1 DEF Searching
<1>7. ToSet(out) \subseteq Below \X Nat /\ Below \subseteq Places /\ present \subseteq Places
  BY <1>1, WalkTypes
<1> HIDE DEF q, v, F, D
<1>8. ASSUME NEW x \in F \cup D, NEW y \in ToSet(out') PROVE Index(y[1]) < Index(x)
  <2>1. CASE x \in F /\ y \in ToSet(out)
    BY <1>2, <1>6, <2>1
  <2>2. CASE x \in F /\ y[1] = q
    BY <1>2, <2>2
  <2>3. CASE x \in D
    <3>1. y \in ToSet(out) /\ x \in Places /\ IsChild(q, x)
      BY <1>4, <1>5, <2>3
    <3>2. Index(y[1]) < Index(q)
      BY <1>2, <1>6, <3>1
    <3>3. Index(q) <= Index(x)
      BY <1>2, <3>1, IndexOrder DEF IsChild
    <3>4. y[1] \in Places
      BY <1>7, <3>1
    <3>5. Index(q) \in Nat /\ Index(x) \in Nat /\ Index(y[1]) \in Nat
      BY <1>2, <3>1, <3>4, PlacesHave
    <3> QED BY <3>2, <3>3, <3>5
  <2> QED BY <1>4, <1>8, <2>1, <2>2, <2>3
<1>9. \A p : Found(p) => Found(p)'
  BY <1>4 DEF Found
<1>10. ASSUME NEW p \in steady, SearchWanted(p)
       PROVE  Found(p)' \/ \E x \in F \cup D : Under(x, p)
  <2>1. p \in present /\ p \in Places
    BY <1>1, <1>7 DEF Standing
  <2>2. CASE Found(p)
    BY <1>9, <2>2
  <2>3. CASE \E x \in F : Under(x, p)
    BY <2>3
  <2>4. CASE q = p
    <3>1. There(q) /\ Lstat(q) = q /\ q \notin turned /\ Kind[q] = "text"
      <4>1. Kind[q] = "text"
        BY <1>10, <2>4 DEF SearchWanted
      <4>2. q \notin turned
        BY <4>1, LinkAssumption DEF IInv, TypeOK
      <4>3. There(q) /\ Lstat(q) = q
        BY <2>1, <2>4, PlainNames DEF IInv, Standing
      <4> QED BY <4>1, <4>2, <4>3
    <3>2. v.adds = [i \in DOMAIN Hits[p] |-> <<p, Hits[p][i]>>]
      BY <1>5, <2>4, <3>1
    <3>3. Hits[p] \in Seq(Nat)
      BY <2>1, ReadToolsAssumption
    <3>4. DOMAIN Hits[p] = 1 .. Len(Hits[p]) /\ Len(Hits[p]) \in Nat /\ \A i \in 1 .. Len(Hits[p]) : Hits[p][i] \in Nat
      BY <3>3, LenProperties, ElementOfSeq
    <3> DEFINE hs == [i \in DOMAIN Hits[p] |-> <<p, Hits[p][i]>>]
    <3>5. hs \in [1 .. Len(Hits[p]) -> Places \X Nat]
      BY <2>1, <3>4
    <3>6. /\ hs \in Seq(Places \X Nat) /\ DOMAIN hs = 1 .. Len(Hits[p])
          /\ \A i \in 1 .. Len(Hits[p]) : hs[i] = <<p, Hits[p][i]>>
      BY <3>4, <3>5
    <3>a. v.adds = hs
      BY <3>2
    <3> HIDE DEF hs
    <3>7. Len(hs) = Len(Hits[p])
      BY <3>4, <3>6, LenProperties
    <3>8. \A i \in 1 .. Len(Hits[p]) : <<p, Hits[p][i]>> \in ToSet(out')
      <4>1. \A i \in DOMAIN hs : hs[i] \in ToSet(out')
        BY <1>4, <3>a
      <4> QED BY <3>6, <4>1
    <3>9. Found(p)'
      BY <3>4, <3>8 DEF Found, ToSet
    <3> QED BY <3>9
  <2>5. CASE Under(q, p) /\ q # p
    <3>1. /\ There(q) /\ Lstat(q) = q /\ q \notin turned /\ Kind[q] = "dir"
          /\ \E c \in Places : IsChild(q, c) /\ c \notin Hidden /\ Under(c, p)
      BY <1>1, <1>2, <1>10, <2>5, WantedWay
    <3> QED BY <1>5, <3>1
  <2> QED BY <1>2, <1>6, <1>10, <2>2, <2>3, <2>4, <2>5
<1>11. \A p : SearchWanted(p)' = SearchWanted(p)
  BY <1>1 DEF SearchWanted, Visible, Reachable, Under
<1> QED BY <1>1, <1>3, <1>4, <1>8, <1>10, <1>11 DEF Searching, Apart, Under, Index

\* A search that is full has found all that comes before its last match.
LEMMA SearchFull ==
  ASSUME IInv, Standing, Searching, WalkStep, cur.op = "search", pc' = "answered"
  PROVE  SearchIsWhole'
<1> DEFINE q == Last(stack)
<1>1. /\ pc = "walk" /\ cur.op # "read" /\ stack # <<>>
      /\ UNCHANGED <<files, cur, base, steady, seen>>
      /\ answer' = Walked(TRUE)
  BY WalkStepIs
<1>2. q \in Places /\ ToSet(stack) = ToSet(Front(stack)) \cup {q} /\ \A x \in ToSet(Front(stack)) : Index(q) < Index(x) /\ x \in Places
  BY <1>1, TopFirst
<1>3. OutInOrder' /\ ToSet(out) \subseteq ToSet(out') /\ Last(out')[1] = q
  BY <1>1, MoreFound
<1>4. \A p \in steady : SearchWanted(p) => Found(p) \/ \E x \in ToSet(stack) : Under(x, p)
  BY <1>1 DEF Searching
<1> HIDE DEF q
<1>5. (Len(out) \in Nat /\ DOMAIN out = 1 .. Len(out))'
  <2>1. out' \in Seq(Below \X Nat)
    BY WalkBelow
  <2> QED BY <2>1, LenProperties
<1>6. ASSUME NEW p \in steady', SearchWanted(p)', answer'.truncated => Index(p) < Index(Last(out')[1])
      PROVE  Found(p)'
  <2>1. p \in steady /\ SearchWanted(p) /\ Index(p) < Index(q)
    BY <1>1, <1>3, <1>6 DEF SearchWanted, Visible, Reachable, Under, Walked, Index
  <2>2. p \in Places
    BY <1>1, <2>1, WalkTypes DEF Standing
  <2>3. ASSUME NEW x \in ToSet(stack), Under(x, p) PROVE FALSE
    <3>1. x \in Places /\ Index(q) <= Index(x)
      BY <1>2, PlacesHave
    <3>2. Index(x) <= Index(p)
      BY <2>2, <2>3, <3>1, IndexOrder
    <3>3. Index(q) \in Nat /\ Index(x) \in Nat /\ Index(p) \in Nat
      BY <1>2, <2>2, <3>1, PlacesHave
    <3> QED BY <2>1, <3>1, <3>2, <3>3
  <2>4. Found(p)
    BY <1>4, <2>1, <2>3
  <2> QED BY <1>3, <2>4 DEF Found
<1> QED BY <1>3, <1>5, <1>6, SearchDone

\* So is one that has nothing left to visit.
LEMMA SearchEnds ==
  ASSUME IInv, Standing, Searching, WalkEnds, cur.op = "search"
  PROVE  SearchIsWhole'
<1>1. /\ pc = "walk" /\ cur.op # "read" /\ stack = <<>>
      /\ UNCHANGED <<files, cur, base, steady, seen, out>>
  BY DEF WalkEnds, Answers, history
<1>2. ToSet(stack) = {}
  BY <1>1 DEF ToSet
<1>3. OutInOrder /\ \A p \in steady : SearchWanted(p) => Found(p)
  BY <1>1, <1>2 DEF Searching
<1>4. Len(out) \in Nat /\ DOMAIN out = 1 .. Len(out)
  BY <1>1, WalkTypes
<1>5. OutInOrder' /\ (Len(out) \in Nat /\ DOMAIN out = 1 .. Len(out))'
  BY <1>1, <1>3, <1>4 DEF OutInOrder, Index
<1>6. \A p \in steady' : SearchWanted(p)' => Found(p)'
  BY <1>1, <1>3 DEF SearchWanted, Visible, Reachable, Under, Found
<1> QED BY <1>5, <1>6, SearchDone

-----------------------------------------------------------------------------
(***************************************************************************)
(* Answers that are whole: the lines of a file.                            *)
(***************************************************************************)
\* Parts of a sequence behind each other are a part of it.
LEMMA PartsJoin ==
  ASSUME NEW S, NEW s \in Seq(S), NEW a \in Nat, NEW b \in Nat, NEW c \in Nat, a <= b, b <= c, c <= Len(s)
  PROVE  SubSeq(s, a + 1, b) \o SubSeq(s, b + 1, c) = SubSeq(s, a + 1, c)
<1> DEFINE x == SubSeq(s, a + 1, b)
           y == SubSeq(s, b + 1, c)
           z == SubSeq(s, a + 1, c)
<1>1. Len(s) \in Nat /\ \A i \in 1 .. Len(s) : s[i] \in S
  BY LenProperties, ElementOfSeq
<1>2. x \in Seq(S) /\ Len(x) = b - a /\ \A i \in 1 .. b - a : x[i] = s[a + i]
  <2>1. \A i \in a + 1 .. b : s[i] \in S
    BY <1>1
  <2> QED BY <2>1, SubSeqProperties
<1>3. y \in Seq(S) /\ Len(y) = c - b /\ \A i \in 1 .. c - b : y[i] = s[b + i]
  <2>1. \A i \in b + 1 .. c : s[i] \in S
    BY <1>1
  <2> QED BY <2>1, SubSeqProperties
<1>4. z \in Seq(S) /\ Len(z) = c - a /\ \A i \in 1 .. c - a : z[i] = s[a + i]
  <2>1. \A i \in a + 1 .. c : s[i] \in S
    BY <1>1
  <2> QED BY <2>1, SubSeqProperties
<1> HIDE DEF x, y, z
<1>5. /\ x \o y \in Seq(S) /\ Len(x \o y) = c - a
      /\ \A i \in 1 .. c - a : (x \o y)[i] = IF i <= b - a THEN x[i] ELSE y[i - (b - a)]
  <2>1. /\ x \o y \in Seq(S) /\ Len(x \o y) = Len(x) + Len(y)
        /\ \A i \in 1 .. Len(x) + Len(y) : (x \o y)[i] = IF i <= Len(x) THEN x[i] ELSE y[i - Len(x)]
    BY <1>2, <1>3, ConcatProperties
  <2> QED BY <1>2, <1>3, <2>1
<1>6. \A i \in 1 .. c - a : (x \o y)[i] = z[i]
  <2> SUFFICES ASSUME NEW i \in 1 .. c - a PROVE (x \o y)[i] = z[i]
    OBVIOUS
  <2>1. CASE i <= b - a
    BY <1>2, <1>4, <1>5, <2>1
  <2>2. CASE ~(i <= b - a)
    <3>1. i - (b - a) \in 1 .. c - b /\ b + (i - (b - a)) = a + i
      BY <2>2
    <3>2. y[i - (b - a)] = s[a + i]
      BY <1>3, <3>1
    <3> QED BY <1>4, <1>5, <2>2, <3>2
  <2> QED BY <2>1, <2>2
<1>7. x \o y = z
  BY <1>4, <1>5, <1>6, SeqEqual
<1> QED BY <1>7 DEF x, y, z

\* Flattening goes through the parts once.
LEMMA FlattenSteps ==
  ASSUME NEW T, NEW s \in Seq(Seq(T))
  PROVE  \E f : /\ f[0] = <<>> /\ FlattenSeq(s) = f[Len(s)]
                /\ \A k \in 0 .. Len(s) : f[k] \in Seq(T)
                /\ \A k \in 1 .. Len(s) : f[k] = f[k - 1] \o s[k]
<1> DEFINE A == Seq(T)
           N == Len(s)
           e == <<>>
           D == [k \in 1 .. N |-> [x \in A |-> x \o s[k]]]
           Made(h) == h = [i \in 1 .. Len(s) |-> IF i = 1 THEN s[i] ELSE h[i - 1] \o s[i]]
<1>1. N \in Nat /\ \A n \in 1 .. N : s[n] \in A
  BY LenProperties, ElementOfSeq
<1>2. e \in A /\ \A x \in A : e \o x = x
  BY EmptySeq, ConcatEmptySeq
<1>3. \A n \in 1 .. N : \A x \in A : x \o s[n] \in A
  BY <1>1, ConcatProperties
<1>4. D \in [1 .. N -> [A -> A]]
  <2> HIDE DEF A, N
  <2> QED BY <1>3
<1>5. PICK f \in [0 .. N -> A] : f[0] = e /\ \A k \in 1 .. N : f[k] = D[k][f[k - 1]]
  <2>1. N \in Nat /\ D \in [1 .. N -> [A -> A]] /\ e \in A
    <3> HIDE DEF A, D, N, e
    <3> QED BY <1>1, <1>2, <1>4
  <2> HIDE DEF A, D, N, e
  <2>2. \E f \in [0 .. N -> A] : f[0] = e /\ \A k \in 1 .. N : f[k] = D[k][f[k - 1]]
    BY <2>1, ChainExists, SMTT(60)
  <2> QED BY <2>2
<1>6. ASSUME NEW k \in 1 .. N PROVE f[k] = f[k - 1] \o s[k] /\ f[k] \in A
  <2>1. k - 1 \in 0 .. N /\ k \in 0 .. N
    BY <1>1
  <2>2. f[k - 1] \in A /\ f[k] \in A
    <3> HIDE DEF A, N
    <3> QED BY <2>1
  <2> HIDE DEF A, N
  <2> QED BY <1>5, <2>2
<1>7. CASE N = 0
  <2>1. FlattenSeq(s) = s /\ s = <<>>
    BY <1>7, EmptySeq DEF FlattenSeq
  <2> QED BY <1>5, <1>6, <1>7, <2>1
<1>8. CASE N # 0
  <2> DEFINE g == [k \in 1 .. N |-> f[k]]
             h == CHOOSE x : Made(x)
  <2>1. Made(g)
    <3>1. ASSUME NEW k \in 1 .. N PROVE f[k] = IF k = 1 THEN s[k] ELSE g[k - 1] \o s[k]
      <4>1. CASE k = 1
        <5>1. f[1] = e \o s[1] /\ s[1] \in A
          <6>1. k \in 1 .. N /\ k - 1 = 0
            BY <4>1
          <6>2. f[k] = f[0] \o s[k] /\ s[k] \in A
            <7> HIDE DEF A, N
            <7> QED BY <1>1, <1>6, <6>1
          <6> HIDE DEF A, e
          <6> QED BY <1>5, <4>1, <6>2
        <5>2. f[1] = s[1]
          BY <1>2, <5>1
        <5> QED BY <4>1, <5>2
      <4>2. CASE k # 1
        <5>1. k - 1 \in 1 .. N
          BY <1>1, <4>2
        <5>2. g[k - 1] = f[k - 1]
          BY <5>1
        <5> QED BY <1>6, <4>2, <5>2
      <4> QED BY <4>1, <4>2
    <3> QED BY <3>1
  <2>2. Made(h) /\ FlattenSeq(s) = h[N]
    <3>1. Made(h)
      <4> HIDE DEF g
      <4> QED BY <2>1
    <3> QED BY <1>8, <3>1 DEF FlattenSeq
  <2> HIDE DEF h, g
  <2>3. \A k \in 1 .. N : h[k] = IF k = 1 THEN s[k] ELSE h[k - 1] \o s[k]
    BY <2>2
  <2> DEFINE S == {k \in Nat : k \in 1 .. N => h[k] = f[k]}
  <2>4. 0 \in S
    OBVIOUS
  <2>5. ASSUME NEW k \in Nat, k \in S PROVE k + 1 \in S
    <3>1. SUFFICES ASSUME k + 1 \in 1 .. N PROVE h[k + 1] = f[k + 1]
      OBVIOUS
    <3>2. CASE k = 0
      <4>1. f[1] = e \o s[1] /\ s[1] \in A /\ h[1] = s[1]
        <5>1. 1 \in 1 .. N /\ 1 - 1 = 0
          BY <3>1, <3>2
        <5>2. f[1] = f[1 - 1] \o s[1] /\ s[1] \in A /\ h[1] = s[1]
          <6> HIDE DEF A, N
          <6> QED BY <1>1, <1>6, <2>3, <5>1
        <5> HIDE DEF A, e
        <5> QED BY <1>5, <5>1, <5>2
      <4> QED BY <1>2, <3>2, <4>1
    <3>3. CASE k # 0
      <4>1. k \in 1 .. N /\ k + 1 # 1 /\ (k + 1) - 1 = k
        BY <1>1, <3>1, <3>3
      <4>2. h[k] = f[k]
        BY <2>5, <4>1
      <4>3. f[k + 1] = f[(k + 1) - 1] \o s[k + 1]
        BY <1>6, <3>1
      <4>4. h[k + 1] = h[(k + 1) - 1] \o s[k + 1]
        <5> HIDE DEF N
        <5> QED BY <2>3, <3>1, <4>1
      <4> QED BY <4>1, <4>2, <4>3, <4>4
    <3> QED BY <3>2, <3>3
  <2>6. \A k \in Nat : k \in S
    <3> HIDE DEF S
    <3> QED BY <2>4, <2>5, NatSetInduction
  <2>7. h[N] = f[N]
    <3> HIDE DEF N
    <3> QED BY <1>1, <1>8, <2>6
  <2>8. \A k \in 0 .. N : f[k] \in A
    <3> HIDE DEF A, N
    <3> QED OBVIOUS
  <2> QED BY <1>5, <1>6, <2>2, <2>7, <2>8
<1> QED BY <1>7, <1>8

\* Flattening what a sequence was cut into gives it back.
LEMMA FlattenParts ==
  ASSUME NEW T, NEW s \in Seq(T), NEW parts \in Seq(Seq(T)),
         NEW d, \A i \in 0 .. Len(parts) : d[i] \in 0 .. Len(s),
         \A i \in 1 .. Len(parts) : d[i - 1] <= d[i] /\ parts[i] = SubSeq(s, d[i - 1] + 1, d[i])
  PROVE  d[0] <= d[Len(parts)] /\ FlattenSeq(parts) = SubSeq(s, d[0] + 1, d[Len(parts)])
<1> DEFINE N == Len(parts)
<1>1. N \in Nat /\ Len(s) \in Nat
  BY LenProperties
<1>2. PICK f : /\ f[0] = <<>> /\ FlattenSeq(parts) = f[N]
               /\ \A k \in 0 .. N : f[k] \in Seq(T)
               /\ \A k \in 1 .. N : f[k] = f[k - 1] \o parts[k]
  BY FlattenSteps
<1> DEFINE S == {k \in Nat : k <= N => d[0] <= d[k] /\ f[k] = SubSeq(s, d[0] + 1, d[k])}
<1>3. 0 \in S
  <2>1. d[0] \in Nat
    BY <1>1
  <2> QED BY <1>2, <2>1, SubSeqEmpty
<1> HIDE DEF N
<1>4. ASSUME NEW k \in Nat, k \in S PROVE k + 1 \in S
  <2>1. SUFFICES ASSUME k + 1 <= N PROVE d[0] <= d[k + 1] /\ f[k + 1] = SubSeq(s, d[0] + 1, d[k + 1])
    OBVIOUS
  <2>2. k + 1 \in 1 .. N /\ (k + 1) - 1 = k /\ k <= N /\ 0 \in 0 .. N /\ k \in 0 .. N /\ k + 1 \in 0 .. N
    BY <1>1, <2>1
  <2>3. d[0] <= d[k] /\ f[k] = SubSeq(s, d[0] + 1, d[k])
    BY <1>4, <2>2
  <2>4. d[k] <= d[k + 1] /\ parts[k + 1] = SubSeq(s, d[k] + 1, d[k + 1])
    BY <2>2 DEF N
  <2>5. d[0] \in Nat /\ d[k] \in Nat /\ d[k + 1] \in Nat /\ d[k + 1] <= Len(s)
    BY <1>1, <2>2 DEF N
  <2>6. f[k + 1] = SubSeq(s, d[0] + 1, d[k]) \o SubSeq(s, d[k] + 1, d[k + 1])
    BY <1>2, <2>2, <2>3, <2>4
  <2> DEFINE a == d[0]
             b == d[k]
             c == d[k + 1]
  <2>7. a \in Nat /\ b \in Nat /\ c \in Nat /\ a <= b /\ b <= c /\ c <= Len(s)
    BY <2>3, <2>4, <2>5
  <2> HIDE DEF a, b, c
  <2>8. SubSeq(s, a + 1, b) \o SubSeq(s, b + 1, c) = SubSeq(s, a + 1, c) /\ a <= c
    BY <2>7, PartsJoin
  <2> QED BY <2>6, <2>8 DEF a, b, c
<1>5. \A k \in Nat : k \in S
  <2> HIDE DEF S
  <2> QED BY <1>3, <1>4, NatSetInduction
<1>6. d[0] <= d[N] /\ f[N] = SubSeq(s, d[0] + 1, d[N])
  BY <1>1, <1>5
<1> QED BY <1>2, <1>6 DEF N

\* Splitting into lines goes through the sequence once.
LEMMA SplitSteps ==
  ASSUME NEW T, NEW s \in Seq(T)
  PROVE  \E f : /\ f[0] = <<>> /\ Split(s) = f[Len(s)]
                /\ \A k \in 0 .. Len(s) : f[k] \in Seq(Seq(T))
                /\ \A k \in 1 .. Len(s) :
                     f[k] = IF k = 1 \/ s[k - 1] = "n" THEN Append(f[k - 1], <<s[k]>>)
                            ELSE [f[k - 1] EXCEPT ![Len(f[k - 1])] = Append(@, s[k])]
<1> DEFINE A == Seq(Seq(T))
           N == Len(s)
           e == <<>>
           Grown(x, k) == IF k = 1 \/ s[k - 1] = "n" THEN Append(x, <<s[k]>>)
                          ELSE [x EXCEPT ![Len(x)] = Append(@, s[k])]
           D == [k \in 1 .. N |-> [x \in A |-> Grown(x, k)]]
           Made(h) == h = [n \in 0 .. Len(s) |->
             IF n = 0 THEN <<>>
             ELSE IF n = 1 \/ s[n - 1] = "n" THEN Append(h[n - 1], <<s[n]>>)
             ELSE [h[n - 1] EXCEPT ![Len(h[n - 1])] = Append(@, s[n])]]
<1>1. N \in Nat /\ \A n \in 1 .. N : s[n] \in T
  BY LenProperties, ElementOfSeq
<1>2. e \in A
  BY EmptySeq
<1>3. ASSUME NEW k \in 1 .. N, NEW x \in A PROVE Grown(x, k) \in A
  <2>1. <<s[k]>> \in Seq(T) /\ s[k] \in T
    BY <1>1
  <2>2. Append(x, <<s[k]>>) \in A
    BY <2>1, AppendProperties
  <2>3. [x EXCEPT ![Len(x)] = Append(@, s[k])] \in A
    <3>1. CASE x = <<>>
      <4> DEFINE y == [x EXCEPT ![Len(x)] = Append(@, s[k])]
                 B == Seq(T)
      <4>1. x \in [1 .. 0 -> B] /\ Len(x) \notin 1 .. 0
        BY <3>1, LenProperties, EmptySeq
      <4> HIDE DEF B
      <4>2. y \in [1 .. 0 -> B]
        BY <4>1
      <4> HIDE DEF y
      <4>3. y \in Seq(B)
        BY <4>2
      <4> QED BY <4>3 DEF B, y
    <3>2. CASE x # <<>>
      <4>1. Len(x) \in 1 .. Len(x) /\ x[Len(x)] \in Seq(T)
        BY <3>2, EmptySeq, ElementOfSeq
      <4>2. Append(x[Len(x)], s[k]) \in Seq(T)
        BY <2>1, <4>1, AppendProperties
      <4> QED BY <4>1, <4>2, ExceptSeq
    <3> QED BY <3>1, <3>2
  <2> QED BY <2>2, <2>3
<1>4. N \in Nat /\ D \in [1 .. N -> [A -> A]] /\ e \in A
  <2> HIDE DEF A, N, e, Grown
  <2> QED BY <1>1, <1>2, <1>3
<1>5. PICK f \in [0 .. N -> A] : f[0] = e /\ \A k \in 1 .. N : f[k] = D[k][f[k - 1]]
  <2> HIDE DEF A, D, N, e, Grown, Made
  <2> QED BY <1>4, ChainExists, SMTT(60)
<1>6. \A k \in 1 .. N : f[k] = Grown(f[k - 1], k)
  <2> SUFFICES ASSUME NEW k \in 1 .. N PROVE f[k] = Grown(f[k - 1], k)
    OBVIOUS
  <2>1. k - 1 \in 0 .. N
    BY <1>1
  <2>2. f[k - 1] \in A
    <3> HIDE DEF A, N
    <3> QED BY <2>1
  <2> HIDE DEF A, N, Grown
  <2> QED BY <1>5, <2>2
<1>7. Made(f)
  <2>1. \A k \in 0 .. N : k # 0 => k \in 1 .. N
    BY <1>1
  <2>2. f = [n \in 0 .. N |-> IF n = 0 THEN e ELSE Grown(f[n - 1], n)]
    <3> HIDE DEF A, D, N, e, Grown
    <3> QED BY <1>5, <1>6, <2>1
  <2> QED BY <2>2
<1> DEFINE g == CHOOSE h : Made(h)
<1>8. Made(g) /\ Split(s) = g[N]
  <2>1. Made(g)
    BY <1>7
  <2> QED BY <2>1 DEF Split
<1> HIDE DEF g
<1>9. g[0] = e /\ \A k \in 1 .. N : g[k] = Grown(g[k - 1], k)
  <2>1. 0 \in 0 .. N /\ \A k \in 1 .. N : k \in 0 .. N /\ k # 0
    BY <1>1
  <2>2. g = [n \in 0 .. N |-> IF n = 0 THEN e ELSE Grown(g[n - 1], n)]
    BY <1>8
  <2> HIDE DEF N, e, Grown
  <2> QED BY <2>1, <2>2
<1>10. \A k \in 0 .. N : g[k] \in A
  <2>1. \A k \in 1 .. N : g[k - 1] \in A => g[k] \in A
    <3> HIDE DEF A, N, Grown
    <3> QED BY <1>3, <1>9
  <2> HIDE DEF A, N, e
  <2> QED BY <1>1, <1>2, <1>9, <2>1, ChainStays
<1> QED BY <1>8, <1>9, <1>10

\* The line of the next character.
LEMMA NextLine ==
  ASSUME NEW s, NEW k \in Nat
  PROVE  /\ LineOf(s, 1) = 1
         /\ k # 0 => LineOf(s, k + 1) = LineOf(s, k) + IF s[k] = "n" THEN 1 ELSE 0
<1> DEFINE Newlines(i) == {j \in 1 .. i - 1 : s[j] = "n"}
<1>1. Newlines(1) = {}
  OBVIOUS
<1>2. LineOf(s, 1) = 1
  BY <1>1, FS_EmptySet DEF LineOf
<1>3. ASSUME k # 0 PROVE LineOf(s, k + 1) = LineOf(s, k) + IF s[k] = "n" THEN 1 ELSE 0
  <2>1. IsFiniteSet(1 .. k - 1) /\ Newlines(k) \in SUBSET (1 .. k - 1)
    BY FS_Interval
  <2>2. IsFiniteSet(Newlines(k))
    BY <2>1, FS_Subset
  <2>3. Cardinality(Newlines(k)) \in Nat
    BY <2>2, FS_CardinalityType
  <2>4. k \notin Newlines(k)
    OBVIOUS
  <2>5. Newlines(k + 1) = IF s[k] = "n" THEN Newlines(k) \cup {k} ELSE Newlines(k)
    BY <1>3
  <2>6. LineOf(s, k) = 1 + Cardinality(Newlines(k)) /\ LineOf(s, k + 1) = 1 + Cardinality(Newlines(k + 1))
    BY DEF LineOf
  <2> HIDE DEF Newlines
  <2>7. Cardinality(Newlines(k) \cup {k}) = Cardinality(Newlines(k)) + 1
    BY <2>2, <2>4, FS_AddElement
  <2> QED BY <2>3, <2>5, <2>6, <2>7
<1> QED BY <1>2, <1>3

\* How far up to its k-th character a text is cut into lines: e[i] is where the
\* i-th line ends.
Cuts(s, k, lines, e) ==
  /\ e \in [0 .. Len(lines) -> 0 .. k] /\ e[0] = 0 /\ e[Len(lines)] = k
  /\ \A i \in 1 .. Len(lines) : /\ e[i - 1] < e[i] /\ lines[i] = SubSeq(s, e[i - 1] + 1, e[i])
                                /\ \A j \in e[i - 1] + 1 .. e[i] : LineOf(s, j) = i

\* The next character begins a line or goes on with the last one.
LEMMA CutNext ==
  ASSUME NEW T, NEW s \in Seq(T), NEW k \in Nat, k + 1 <= Len(s), NEW x \in Seq(Seq(T)), NEW e, Cuts(s, k, x, e),
         NEW y, y = IF k + 1 = 1 \/ s[k] = "n" THEN Append(x, <<s[k + 1]>>)
                    ELSE [x EXCEPT ![Len(x)] = Append(@, s[k + 1])]
  PROVE  \E d : Cuts(s, k + 1, y, d)
<1> DEFINE m == Len(x)
           c == s[k + 1]
           fresh == k + 1 = 1 \/ s[k] = "n"
<1>1. m \in Nat /\ Len(s) \in Nat /\ c \in T
  BY LenProperties, ElementOfSeq
<1>2. /\ e \in [0 .. m -> 0 .. k] /\ e[0] = 0 /\ e[m] = k
      /\ \A i \in 1 .. m : /\ e[i - 1] < e[i] /\ x[i] = SubSeq(s, e[i - 1] + 1, e[i])
                           /\ \A j \in e[i - 1] + 1 .. e[i] : LineOf(s, j) = i
  BY DEF Cuts
<1> HIDE DEF m
<1>3. \A i \in 0 .. m : e[i] \in 0 .. k
  BY <1>1, <1>2
<1>4. k # 0 => m # 0 /\ LineOf(s, k) = m
  <2>1. ASSUME k # 0 PROVE m # 0 /\ LineOf(s, k) = m
    <3>1. m # 0
      BY <1>2, <2>1
    <3>2. m \in 1 .. m /\ m - 1 \in 0 .. m
      BY <1>1, <3>1
    <3>3. e[m - 1] < e[m] /\ e[m] = k /\ e[m - 1] \in Nat
      BY <1>2, <1>3, <3>2
    <3>4. k \in e[m - 1] + 1 .. e[m]
      BY <3>3
    <3> QED BY <1>2, <3>1, <3>2, <3>4
  <2> QED BY <2>1
<1>5. LineOf(s, k + 1) = IF fresh THEN m + 1 ELSE m
  <2>1. CASE k = 0
    <3>1. m = 0
      <4>1. ASSUME m # 0 PROVE FALSE
        <5>1. 1 \in 1 .. m /\ 1 - 1 = 0 /\ 1 \in 0 .. m
          BY <1>1, <4>1
        <5>2. e[1 - 1] < e[1] /\ e[1] \in 0 .. 0
          BY <1>2, <1>3, <2>1, <5>1
        <5> QED BY <1>2, <5>1, <5>2
      <4> QED BY <4>1
    <3> QED BY <2>1, <3>1, NextLine
  <2>2. CASE k # 0
    <3>1. LineOf(s, k + 1) = m + IF s[k] = "n" THEN 1 ELSE 0
      BY <1>4, <2>2, NextLine
    <3> QED BY <1>1, <2>2, <3>1
  <2> QED BY <2>1, <2>2
<1>6. CASE fresh
  <2> DEFINE d == [i \in 0 .. m + 1 |-> IF i <= m THEN e[i] ELSE k + 1]
             w == <<c>>
  <2>1. /\ y = Append(x, w) /\ w \in Seq(T)
    BY <1>1, <1>6
  <2>2. Len(y) = m + 1 /\ y[m + 1] = w /\ \A i \in 1 .. m : y[i] = x[i]
    <3> DEFINE B == Seq(T)
    <3>1. w \in B /\ x \in Seq(B)
      BY <2>1
    <3> HIDE DEF w, B
    <3>2. /\ Len(Append(x, w)) = Len(x) + 1 /\ Append(x, w)[Len(x) + 1] = w
          /\ \A i \in 1 .. Len(x) : Append(x, w)[i] = x[i]
      BY <3>1, AppendProperties
    <3> QED BY <2>1, <3>2 DEF m
  <2>3. d \in [0 .. m + 1 -> 0 .. k + 1] /\ d[0] = 0 /\ d[m + 1] = k + 1 /\ d[m] = k /\ \A i \in 0 .. m : d[i] = e[i]
    <3>1. \A i \in 0 .. m + 1 : d[i] = IF i <= m THEN e[i] ELSE k + 1
      OBVIOUS
    <3>2. \A i \in 0 .. m + 1 : d[i] \in 0 .. k + 1
      BY <1>1, <1>3
    <3>3. 0 \in 0 .. m /\ m \in 0 .. m /\ m + 1 \in 0 .. m + 1 /\ ~(m + 1 <= m) /\ \A i \in 0 .. m : i \in 0 .. m + 1 /\ i <= m
      BY <1>1
    <3>4. d \in [0 .. m + 1 -> 0 .. k + 1]
      BY <3>2
    <3> HIDE DEF d
    <3> QED BY <1>2, <3>1, <3>3, <3>4
  <2>4. w = SubSeq(s, k + 1, k + 1)
    BY <1>1
  <2> HIDE DEF d, w
  <2>5. ASSUME NEW i \in 1 .. m + 1
        PROVE  /\ d[i - 1] < d[i] /\ y[i] = SubSeq(s, d[i - 1] + 1, d[i])
               /\ \A j \in d[i - 1] + 1 .. d[i] : LineOf(s, j) = i
    <3>1. CASE i = m + 1
      <4>1. d[i - 1] = k /\ d[i] = k + 1 /\ y[i] = w
        <5>1. i - 1 = m
          BY <1>1, <3>1
        <5> QED BY <2>2, <2>3, <3>1, <5>1
      <4>2. \A j \in k + 1 .. k + 1 : j = k + 1
        OBVIOUS
      <4>3. k < k + 1
        OBVIOUS
      <4> QED BY <1>5, <1>6, <2>4, <3>1, <4>1, <4>2, <4>3
    <3>2. CASE i # m + 1
      <4>1. i \in 1 .. m /\ i - 1 \in 0 .. m /\ i \in 0 .. m
        BY <1>1, <3>2
      <4>2. d[i - 1] = e[i - 1] /\ d[i] = e[i] /\ y[i] = x[i]
        BY <2>2, <2>3, <4>1
      <4> QED BY <1>2, <4>1, <4>2
    <3> QED BY <3>1, <3>2
  <2>6. Cuts(s, k + 1, y, d)
    BY <2>2, <2>3, <2>5 DEF Cuts
  <2> QED BY <2>6
<1>7. CASE ~fresh
  <2>1. k # 0 /\ m # 0 /\ m \in 1 .. m /\ m - 1 \in 0 .. m
    BY <1>1, <1>4, <1>7
  <2> DEFINE d == [e EXCEPT ![m] = k + 1]
             w == Append(x[m], c)
             b == e[m - 1]
  <2>2. y = [x EXCEPT ![m] = w]
    BY <1>7 DEF m
  <2>3. x[m] \in Seq(T)
    BY <2>1, ElementOfSeq DEF m
  <2>4. w \in Seq(T)
    BY <1>1, <2>3, AppendProperties
  <2>5. Len(y) = m /\ y[m] = w /\ \A i \in 1 .. m : i # m => y[i] = x[i]
    <3> HIDE DEF w
    <3> QED BY <2>1, <2>2, <2>4, ExceptSeq DEF m
  <2>6. d \in [0 .. m -> 0 .. k + 1] /\ d[0] = 0 /\ d[m] = k + 1 /\ \A i \in 0 .. m : i # m => d[i] = e[i]
    <3>1. \A i \in 0 .. m : e[i] \in 0 .. k + 1
      BY <1>3
    <3>2. k + 1 \in 0 .. k + 1 /\ m \in 0 .. m /\ 0 \in 0 .. m
      BY <1>1
    <3> QED BY <1>2, <2>1, <3>1, <3>2
  <2>7. b \in Nat /\ b < k /\ x[m] = SubSeq(s, b + 1, k)
    <3>1. e[m - 1] < e[m] /\ x[m] = SubSeq(s, e[m - 1] + 1, e[m])
      BY <1>2, <2>1
    <3>2. e[m - 1] \in Nat /\ e[m] = k
      BY <1>2, <1>3, <2>1
    <3> QED BY <3>1, <3>2
  <2>8. w = SubSeq(s, b + 1, k + 1)
    <3> HIDE DEF b
    <3>1. SubSeq(s, b + 1, k) \o SubSeq(s, k + 1, k + 1) = SubSeq(s, b + 1, k + 1)
      BY <1>1, <2>7, PartsJoin
    <3>2. SubSeq(s, k + 1, k + 1) = <<c>>
      <4> DEFINE v == <<c>>
      <4>1. v = SubSeq(s, k + 1, k + 1)
        BY <1>1
      <4> HIDE DEF v
      <4>2. SubSeq(s, k + 1, k + 1) = v
        BY <4>1
      <4> QED BY <4>2 DEF v
    <3>3. w = x[m] \o <<c>>
      BY <1>1, <2>3, AppendIsConcat
    <3> QED BY <2>7, <3>1, <3>2, <3>3
  <2> HIDE DEF d, w
  <2>9. ASSUME NEW i \in 1 .. m
        PROVE  /\ d[i - 1] < d[i] /\ y[i] = SubSeq(s, d[i - 1] + 1, d[i])
               /\ \A j \in d[i - 1] + 1 .. d[i] : LineOf(s, j) = i
    <3>1. i - 1 \in 0 .. m /\ i - 1 # m
      BY <1>1
    <3>2. d[i - 1] = e[i - 1]
      BY <2>6, <3>1
    <3>3. CASE i = m
      <4>1. d[i - 1] = b /\ d[i] = k + 1 /\ y[i] = w
        BY <2>5, <2>6, <3>2, <3>3
      <4>2. ASSUME NEW j \in b + 1 .. k + 1 PROVE LineOf(s, j) = i
        <5>1. CASE j = k + 1
          BY <1>5, <1>7, <3>3, <5>1
        <5>2. CASE j # k + 1
          <6>1. j \in e[i - 1] + 1 .. e[i]
            BY <1>2, <2>7, <3>3, <5>2
          <6> QED BY <1>2, <6>1
        <5> QED BY <5>1, <5>2
      <4> HIDE DEF b
      <4>3. b < k + 1
        BY <2>7
      <4> QED BY <2>8, <4>1, <4>2, <4>3
    <3>4. CASE i # m
      <4>1. d[i] = e[i] /\ y[i] = x[i]
        BY <2>5, <2>6, <3>4
      <4> QED BY <1>2, <3>2, <4>1
    <3> QED BY <3>3, <3>4
  <2>10. Cuts(s, k + 1, y, d)
    BY <2>5, <2>6, <2>9 DEF Cuts
  <2> QED BY <2>10
<1> QED BY <1>6, <1>7

\* A text is cut into its lines.
LEMMA SplitCuts ==
  ASSUME NEW T, NEW s \in Seq(T)
  PROVE  Split(s) \in Seq(Seq(T)) /\ \E e : Cuts(s, Len(s), Split(s), e)
<1>1. Len(s) \in Nat
  BY LenProperties
<1>2. PICK f : /\ f[0] = <<>> /\ Split(s) = f[Len(s)]
               /\ \A k \in 0 .. Len(s) : f[k] \in Seq(Seq(T))
               /\ \A k \in 1 .. Len(s) :
                    f[k] = IF k = 1 \/ s[k - 1] = "n" THEN Append(f[k - 1], <<s[k]>>)
                           ELSE [f[k - 1] EXCEPT ![Len(f[k - 1])] = Append(@, s[k])]
  BY SplitSteps
<1> DEFINE S == {k \in Nat : k <= Len(s) => \E e : Cuts(s, k, f[k], e)}
<1>3. 0 \in S
  <2> DEFINE d == [i \in 0 .. 0 |-> 0]
             x == <<>>
  <2>1. Len(x) = 0
    OBVIOUS
  <2>2. d \in [0 .. 0 -> 0 .. 0] /\ d[0] = 0
    OBVIOUS
  <2> HIDE DEF x, d
  <2>3. Cuts(s, 0, x, d)
    BY <2>1, <2>2 DEF Cuts
  <2>4. f[0] = x
    BY <1>2 DEF x
  <2> QED BY <2>3, <2>4
<1>4. ASSUME NEW k \in Nat, k \in S PROVE k + 1 \in S
  <2>1. SUFFICES ASSUME k + 1 <= Len(s) PROVE \E e : Cuts(s, k + 1, f[k + 1], e)
    OBVIOUS
  <2>2. k + 1 \in 1 .. Len(s) /\ k \in 0 .. Len(s) /\ (k + 1) - 1 = k /\ k <= Len(s)
    BY <1>1, <2>1
  <2>3. PICK e : Cuts(s, k, f[k], e)
    BY <1>4, <2>2
  <2>4. f[k + 1] = IF k + 1 = 1 \/ s[k] = "n" THEN Append(f[k], <<s[k + 1]>>)
                   ELSE [f[k] EXCEPT ![Len(f[k])] = Append(@, s[k + 1])]
    BY <1>2, <2>2
  <2>5. f[k] \in Seq(Seq(T))
    BY <1>2, <2>2
  <2> DEFINE y == f[k + 1]
             x == f[k]
  <2>6. /\ y = IF k + 1 = 1 \/ s[k] = "n" THEN Append(x, <<s[k + 1]>>)
               ELSE [x EXCEPT ![Len(x)] = Append(@, s[k + 1])]
        /\ x \in Seq(Seq(T)) /\ Cuts(s, k, x, e)
    BY <2>3, <2>4, <2>5
  <2> HIDE DEF x, y
  <2>7. \E d : Cuts(s, k + 1, y, d)
    BY <2>1, <2>6, CutNext
  <2> QED BY <2>7 DEF y
<1>5. \A k \in Nat : k \in S
  <2> HIDE DEF S
  <2> QED BY <1>3, <1>4, NatSetInduction
<1>6. Len(s) \in S /\ Len(s) <= Len(s) /\ Len(s) \in 0 .. Len(s)
  BY <1>1, <1>5
<1>7. \E e : Cuts(s, Len(s), f[Len(s)], e)
  BY <1>6
<1> HIDE DEF S
<1> QED BY <1>2, <1>6, <1>7

\* The lines are in order, and each character is in one.
LEMMA CutsOrder ==
  ASSUME NEW s, NEW n \in Nat, NEW lines, Len(lines) \in Nat, NEW e, Cuts(s, n, lines, e)
  PROVE  /\ \A i, j \in 0 .. Len(lines) : i <= j => e[i] <= e[j]
         /\ \A i \in 1 .. n : LineOf(s, i) \in 1 .. Len(lines) /\ i \in e[LineOf(s, i) - 1] + 1 .. e[LineOf(s, i)]
<1> DEFINE m == Len(lines)
<1>1. /\ m \in Nat /\ e[0] = 0 /\ e[m] = n /\ \A i \in 0 .. m : e[i] \in 0 .. n
      /\ \A i \in 1 .. m : e[i - 1] < e[i] /\ \A j \in e[i - 1] + 1 .. e[i] : LineOf(s, j) = i
  BY DEF Cuts
<1> HIDE DEF m
<1>2. ASSUME NEW i \in 0 .. m PROVE \A j \in 0 .. m : i <= j => e[i] <= e[j]
  <2> DEFINE S == {j \in Nat : j \in 0 .. m /\ i <= j => e[i] <= e[j]}
  <2>1. 0 \in S
    <3>1. e[0] \in 0 .. n /\ 0 \in 0 .. m
      BY <1>1
    <3>2. e[0] <= e[0]
      BY <3>1
    <3>3. i <= 0 => i = 0
      OBVIOUS
    <3> QED BY <3>2, <3>3
  <2>2. ASSUME NEW j \in Nat, j \in S PROVE j + 1 \in S
    <3>1. SUFFICES ASSUME j + 1 \in 0 .. m, i <= j + 1 PROVE e[i] <= e[j + 1]
      OBVIOUS
    <3>2. CASE i = j + 1
      BY <1>1, <3>2
    <3>3. CASE i # j + 1
      <4>1. j \in 0 .. m /\ i <= j /\ j + 1 \in 1 .. m /\ (j + 1) - 1 = j
        BY <1>1, <3>1, <3>3
      <4>2. e[i] <= e[j] /\ e[j] < e[j + 1]
        BY <1>1, <2>2, <4>1
      <4>3. e[i] \in Nat /\ e[j] \in Nat /\ e[j + 1] \in Nat
        BY <1>1, <3>1, <4>1
      <4> QED BY <4>2, <4>3
    <3> QED BY <3>2, <3>3
  <2>3. \A j \in Nat : j \in S
    <3> HIDE DEF S
    <3> QED BY <2>1, <2>2, NatSetInduction
  <2> QED BY <1>1, <2>3
<1>3. ASSUME NEW i \in 1 .. n PROVE LineOf(s, i) \in 1 .. m /\ i \in e[LineOf(s, i) - 1] + 1 .. e[LineOf(s, i)]
  <2> DEFINE S == {k \in 0 .. m : i <= e[k]}
  <2>1. m \in S /\ S \subseteq Nat /\ S # {}
    <3>1. m \in 0 .. m /\ i <= e[m]
      BY <1>1
    <3>2. S \subseteq Nat
      OBVIOUS
    <3> QED BY <3>1, <3>2
  <2>2. PICK k \in S : \A j \in S : k <= j
    <3> HIDE DEF S
    <3> QED BY <2>1, LeastNatural
  <2>3. k \in 0 .. m /\ i <= e[k] /\ k # 0
    BY <1>1, <2>2
  <2>4. k \in 1 .. m /\ k - 1 \in 0 .. m /\ ~(k <= k - 1)
    BY <1>1, <2>3
  <2>5. k - 1 \notin S
    <3> HIDE DEF S
    <3> QED BY <2>2, <2>4
  <2>6. e[k - 1] < i /\ e[k - 1] \in Nat /\ e[k] \in Nat
    BY <1>1, <2>3, <2>4, <2>5
  <2>7. i \in e[k - 1] + 1 .. e[k]
    BY <2>3, <2>6
  <2>8. LineOf(s, i) = k
    BY <1>1, <2>4, <2>7
  <2> QED BY <2>4, <2>7, <2>8
<1> QED BY <1>2, <1>3 DEF m

\* A file that is read whole: the lines asked for are what comes back.
LEMMA LinesWanted ==
  ASSUME NEW T, NEW s \in Seq(T), Len(s) <= ReadMax, ReadMax \in Nat,
         NEW range \in {<<>>} \cup (Nat \X Nat), RangeOk(range)
  PROVE  \E lo, hi \in Nat :
           /\ lo <= hi /\ hi <= Len(s) /\ Slice(s, range) = SubSeq(s, lo + 1, hi)
           /\ {i \in DOMAIN s : range = <<>> \/ LineOf(s, i) \in range[1] .. range[2]} = lo + 1 .. hi
           /\ lo < hi => LastLine(s, range) = LineOf(s, hi)
<1> DEFINE n == Len(s)
           lines == Split(s)
           m == Len(lines)
           wanted == {i \in DOMAIN s : range = <<>> \/ LineOf(s, i) \in range[1] .. range[2]}
<1>1. n \in Nat /\ DOMAIN s = 1 .. n
  BY LenProperties
<1>2. Window(s) = s
  <2>1. AtMost(n, ReadMax) = n
    <3> HIDE DEF n
    <3>1. n \in Nat /\ n <= ReadMax /\ ReadMax \in Nat
      BY <1>1 DEF n
    <3> QED BY <3>1 DEF AtMost
  <2>2. SubSeq(s, 1, n) = s
    <3>1. \A i \in 1 .. n : s[i] \in T
      BY ElementOfSeq
    <3>2. SubSeq(s, 1, n) \in Seq(T) /\ Len(SubSeq(s, 1, n)) = n /\ \A i \in 1 .. n : SubSeq(s, 1, n)[i] = s[i]
      BY <1>1, <3>1, SubSeqProperties
    <3> QED BY <3>2, SeqEqual
  <2> QED BY <2>1, <2>2 DEF Window
<1>3. lines \in Seq(Seq(T)) /\ \E e : Cuts(s, n, lines, e)
  BY SplitCuts
<1>4. Slice(s, range) = IF range = <<>> THEN FlattenSeq(lines)
                        ELSE FlattenSeq(SubSeq(lines, range[1], AtMost(range[2], m)))
  BY <1>2 DEF Slice
<1>5. LastLine(s, range) = IF range = <<>> THEN IF m = 0 THEN 1 ELSE m
                           ELSE IF m < range[1] THEN range[1] - 1 ELSE AtMost(range[2], m)
  BY <1>2 DEF LastLine
<1> HIDE DEF n, lines
<1>6. m \in Nat /\ \A i \in 1 .. m : lines[i] \in Seq(T)
  BY <1>3, LenProperties, ElementOfSeq
<1> HIDE DEF m
<1>7. PICK e : Cuts(s, n, lines, e)
  BY <1>3
<1>8. /\ e[0] = 0 /\ e[m] = n /\ \A i \in 0 .. m : e[i] \in 0 .. n
      /\ \A i \in 1 .. m : e[i - 1] < e[i] /\ lines[i] = SubSeq(s, e[i - 1] + 1, e[i])
  BY <1>7 DEF Cuts, m
<1>9. /\ \A i, j \in 0 .. m : i <= j => e[i] <= e[j]
      /\ \A i \in 1 .. n : LineOf(s, i) \in 1 .. m /\ i \in e[LineOf(s, i) - 1] + 1 .. e[LineOf(s, i)]
  BY <1>1, <1>6, <1>7, CutsOrder DEF m
<1>10. ASSUME NEW a \in 1 .. m, NEW b \in 1 .. m, a <= b
       PROVE  /\ e[a - 1] <= e[b] /\ e[a - 1] \in Nat /\ e[b] \in Nat /\ e[b] <= n
              /\ FlattenSeq(SubSeq(lines, a, b)) = SubSeq(s, e[a - 1] + 1, e[b])
              /\ {i \in 1 .. n : LineOf(s, i) \in a .. b} = e[a - 1] + 1 .. e[b]
              /\ e[a - 1] < e[b] => LineOf(s, e[b]) = b
  <2> DEFINE parts == SubSeq(lines, a, b)
             d == [i \in 0 .. b - a + 1 |-> e[a - 1 + i]]
             p == b - a + 1
  <2>1. a - 1 \in 0 .. m /\ b \in 0 .. m /\ a - 1 <= b /\ p \in Nat
    BY <1>6, <1>10
  <2>2. e[a - 1] <= e[b] /\ e[a - 1] \in 0 .. n /\ e[b] \in 0 .. n
    BY <1>8, <1>9, <2>1
  <2>3. \A i \in a .. b : lines[i] \in Seq(T)
    BY <1>6
  <2>4. parts \in Seq(Seq(T)) /\ Len(parts) = p /\ \A i \in 1 .. p : parts[i] = lines[a + i - 1]
    BY <1>10, <2>3, SubSeqProperties
  <2>5. \A i \in 0 .. p : d[i] = e[a - 1 + i] /\ a - 1 + i \in 0 .. m
    BY <1>6
  <2> HIDE DEF parts, d
  <2>6. \A i \in 0 .. p : d[i] \in 0 .. n
    BY <1>8, <2>5
  <2>7. ASSUME NEW i \in 1 .. p
        PROVE  d[i - 1] <= d[i] /\ parts[i] = SubSeq(s, d[i - 1] + 1, d[i])
    <3> DEFINE k == a + i - 1
    <3>1. k \in 1 .. m /\ k - 1 \in 0 .. m /\ k \in 0 .. m /\ i - 1 \in 0 .. p /\ i \in 0 .. p
      BY <1>6, <1>10, <2>1
    <3>2. a - 1 + (i - 1) = k - 1 /\ a - 1 + i = k
      BY <3>1
    <3>3. d[i - 1] = e[k - 1] /\ d[i] = e[k]
      BY <2>5, <3>1, <3>2
    <3>4. parts[i] = lines[k]
      BY <2>4
    <3> HIDE DEF k
    <3>5. e[k - 1] < e[k] /\ lines[k] = SubSeq(s, e[k - 1] + 1, e[k]) /\ e[k - 1] \in Nat /\ e[k] \in Nat
      BY <1>8, <3>1
    <3> QED BY <3>3, <3>4, <3>5
  <2> HIDE DEF p
  <2>8. FlattenSeq(parts) = SubSeq(s, d[0] + 1, d[p])
    <3>1. /\ parts \in Seq(Seq(T)) /\ \A i \in 0 .. Len(parts) : d[i] \in 0 .. Len(s)
          /\ \A i \in 1 .. Len(parts) : d[i - 1] <= d[i] /\ parts[i] = SubSeq(s, d[i - 1] + 1, d[i])
      BY <2>4, <2>6, <2>7 DEF n
    <3>2. FlattenSeq(parts) = SubSeq(s, d[0] + 1, d[Len(parts)])
      BY <3>1, FlattenParts
    <3> QED BY <2>4, <3>2
  <2>9. d[0] = e[a - 1] /\ d[p] = e[b]
    <3>1. 0 \in 0 .. p /\ p \in 0 .. p
      BY <2>1
    <3>2. a - 1 + 0 = a - 1 /\ a - 1 + p = b
      BY DEF p
    <3> QED BY <2>5, <3>1, <3>2
  <2>10. ASSUME NEW i \in 1 .. n
         PROVE  LineOf(s, i) \in a .. b <=> i \in e[a - 1] + 1 .. e[b]
    <3> DEFINE k == LineOf(s, i)
    <3>1. k \in 1 .. m /\ i \in e[k - 1] + 1 .. e[k]
      BY <1>9
    <3> HIDE DEF k
    <3>2. k - 1 \in 0 .. m /\ k \in 0 .. m /\ k \in Nat
      BY <1>6, <3>1
    <3>3. e[k - 1] \in Nat /\ e[k] \in Nat
      BY <1>8, <3>2
    <3>4. CASE k < a
      <4>1. e[k] <= e[a - 1]
        BY <1>9, <2>1, <3>2, <3>4
      <4> QED BY <2>2, <3>1, <3>3, <3>4, <4>1 DEF k
    <3>5. CASE b < k
      <4>1. e[b] <= e[k - 1]
        BY <1>9, <2>1, <3>2, <3>5
      <4> QED BY <2>2, <3>1, <3>3, <3>5, <4>1 DEF k
    <3>6. CASE a <= k /\ k <= b
      <4>1. e[a - 1] <= e[k - 1] /\ e[k] <= e[b]
        BY <1>9, <2>1, <3>2, <3>6
      <4>2. i \in e[a - 1] + 1 .. e[b]
        BY <2>2, <3>1, <3>3, <4>1
      <4>3. k \in a .. b
        BY <3>2, <3>6
      <4> QED BY <4>2, <4>3 DEF k
    <3> QED BY <3>2, <3>4, <3>5, <3>6
  <2>11. {i \in 1 .. n : LineOf(s, i) \in a .. b} = e[a - 1] + 1 .. e[b]
    BY <1>1, <2>2, <2>10
  <2>12. ASSUME e[a - 1] < e[b] PROVE LineOf(s, e[b]) = b
    <3> DEFINE h == e[b]
               k == LineOf(s, h)
    <3>1. h \in 1 .. n /\ h \in e[a - 1] + 1 .. e[b]
      BY <2>2, <2>12
    <3>2. k \in a .. b /\ k \in 1 .. m /\ h \in e[k - 1] + 1 .. e[k]
      BY <1>9, <2>10, <3>1
    <3> HIDE DEF h, k
    <3>3. ASSUME k # b PROVE FALSE
      <4>1. k <= b - 1 /\ b - 1 \in 0 .. m /\ k \in 0 .. m
        BY <1>6, <3>2, <3>3
      <4>2. e[k] <= e[b - 1] /\ e[b - 1] < e[b]
        BY <1>8, <1>9, <4>1
      <4>3. e[k] \in Nat /\ e[b - 1] \in Nat
        BY <1>8, <4>1
      <4>4. h \in Nat /\ h <= e[k] /\ h = e[b]
        BY <3>1, <3>2, <4>3 DEF h
      <4> QED BY <4>2, <4>3, <4>4
    <3> QED BY <3>3 DEF h, k
  <2> QED BY <2>2, <2>8, <2>9, <2>11, <2>12 DEF parts
<1>11. CASE range = <<>>
  <2>1. wanted = 0 + 1 .. n
    BY <1>1, <1>11
  <2>2. FlattenSeq(lines) = SubSeq(s, 0 + 1, n)
    <3>1. /\ lines \in Seq(Seq(T)) /\ \A i \in 0 .. Len(lines) : e[i] \in 0 .. Len(s)
          /\ \A i \in 1 .. Len(lines) : e[i - 1] <= e[i] /\ lines[i] = SubSeq(s, e[i - 1] + 1, e[i])
      <4>1. \A i \in 1 .. m : e[i - 1] \in Nat /\ e[i] \in Nat
        BY <1>6, <1>8
      <4> QED BY <1>3, <1>8, <4>1 DEF n, m
    <3>2. FlattenSeq(lines) = SubSeq(s, e[0] + 1, e[Len(lines)])
      BY <3>1, FlattenParts
    <3> QED BY <1>8, <3>2 DEF m
  <2>3. ASSUME 0 < n PROVE LastLine(s, range) = LineOf(s, n)
    <3>1. m # 0 /\ 1 \in 1 .. m /\ m \in 1 .. m /\ 1 <= m /\ 1 - 1 = 0
      BY <1>6, <1>8, <2>3
    <3>2. e[1 - 1] < e[m] => LineOf(s, e[m]) = m
      BY <1>10, <3>1
    <3> QED BY <1>5, <1>8, <1>11, <2>3, <3>1, <3>2
  <2>4. Slice(s, range) = SubSeq(s, 0 + 1, n)
    BY <1>4, <1>11, <2>2
  <2> HIDE DEF wanted
  <2>5. \E hi \in Nat :
          /\ 0 <= hi /\ hi <= n /\ Slice(s, range) = SubSeq(s, 0 + 1, hi)
          /\ wanted = 0 + 1 .. hi
          /\ 0 < hi => LastLine(s, range) = LineOf(s, hi)
    BY <1>1, <2>1, <2>3, <2>4
  <2>6. \E lo, hi \in Nat :
          /\ lo <= hi /\ hi <= n /\ Slice(s, range) = SubSeq(s, lo + 1, hi)
          /\ wanted = lo + 1 .. hi
          /\ lo < hi => LastLine(s, range) = LineOf(s, hi)
    BY <2>5
  <2> QED BY <2>6 DEF n, wanted
<1>12. CASE range # <<>>
  <2>1. range[1] \in Nat /\ range[2] \in Nat /\ range[1] # 0 /\ range[1] <= range[2]
    BY <1>12 DEF RangeOk
  <2> DEFINE a == range[1]
             b == AtMost(range[2], m)
  <2>2. wanted = {i \in 1 .. n : LineOf(s, i) \in range[1] .. range[2]}
    BY <1>1, <1>12
  <2>3. CASE m < a
    <3>1. wanted = 0 + 1 .. 0
      BY <1>6, <1>9, <2>1, <2>2, <2>3
    <3>2. b < a /\ b \in Nat
      BY <1>6, <2>1, <2>3 DEF AtMost
    <3>3. SubSeq(lines, a, b) = <<>>
      <4> HIDE DEF a, b
      <4>1. a \in Int
        BY <2>1 DEF a
      <4> QED BY <3>2, <4>1, SubSeqEmpty
    <3>4. FlattenSeq(<<>>) = <<>> /\ SubSeq(s, 0 + 1, 0) = <<>>
      BY EmptySeq, SubSeqEmpty DEF FlattenSeq
    <3>5. Slice(s, range) = SubSeq(s, 0 + 1, 0)
      BY <1>4, <1>12, <3>3, <3>4
    <3> QED BY <1>1, <3>1, <3>5 DEF n
  <2>4. CASE ~(m < a)
    <3>1. a \in 1 .. m /\ b \in 1 .. m /\ a <= b /\ b <= range[2] /\ (b = m \/ b = range[2])
      BY <1>6, <2>1, <2>4 DEF AtMost
    <3>2. wanted = {i \in 1 .. n : LineOf(s, i) \in a .. b}
      <4>1. \A i \in 1 .. n : LineOf(s, i) \in 1 .. m
        BY <1>9
      <4> QED BY <1>6, <2>1, <2>2, <3>1, <4>1
    <3>3. LastLine(s, range) = b /\ Slice(s, range) = FlattenSeq(SubSeq(lines, a, b))
      BY <1>4, <1>5, <1>12, <2>4
    <3> HIDE DEF a, b, wanted
    <3>4. /\ e[a - 1] <= e[b] /\ e[a - 1] \in Nat /\ e[b] \in Nat /\ e[b] <= n
          /\ FlattenSeq(SubSeq(lines, a, b)) = SubSeq(s, e[a - 1] + 1, e[b])
          /\ {i \in 1 .. n : LineOf(s, i) \in a .. b} = e[a - 1] + 1 .. e[b]
          /\ e[a - 1] < e[b] => LineOf(s, e[b]) = b
      BY <1>10, <3>1
    <3> QED BY <3>2, <3>3, <3>4 DEF n, wanted
  <2> QED BY <2>3, <2>4
<1> QED BY <1>11, <1>12

\* What is read is whole if it does not say it is cut.
LEMMA ReadWhole ==
  ASSUME IInv, Read, pc' = "answered", answer'.result = "ok", ~answer'.truncated
  PROVE  ReadIsWhole'
<1>1. pc = "walk" /\ cur.op = "read" /\ cur \in Calls
  BY DEF Read, IInv, Based
<1>2. PICK s \in Texts : answer' = ReadAnswer(s, cur.range)
  BY DEF Read, Answers, Error
<1>3. cur.range \in {<<>>} \cup (Nat \X Nat) /\ s \in Seq(ToSet(s)) /\ ReadMax \in Nat
  BY <1>1, ReadToolsAssumption
<1> DEFINE range == cur.range
<1>4. /\ RangeOk(range) /\ ~Cut(s, range)
      /\ answer'.of = s /\ answer'.range = range
      /\ answer'.content = Slice(s, range) /\ answer'.last = LastLine(s, range)
  BY <1>2 DEF ReadAnswer, Error
<1>5. range \in {<<>>} \cup (Nat \X Nat)
  BY <1>3
<1>6. Len(s) \in Nat /\ DOMAIN s = 1 .. Len(s) /\ \A i \in 1 .. Len(s) : s[i] \in ToSet(s)
  BY <1>3, LenProperties, ElementOfSeq
<1>7. Len(s) <= ReadMax
  <2>1. ~(Len(s) > ReadMax)
    <3> HIDE DEF range
    <3> QED BY <1>4 DEF Cut
  <2> QED BY <1>3, <1>6, <2>1
<1> DEFINE wanted == {i \in DOMAIN s : range = <<>> \/ LineOf(s, i) \in range[1] .. range[2]}
           content == answer'.content
<1> HIDE DEF range
<1>8. PICK lo \in Nat, hi \in Nat :
        /\ lo <= hi /\ hi <= Len(s) /\ Slice(s, range) = SubSeq(s, lo + 1, hi)
        /\ wanted = lo + 1 .. hi
        /\ lo < hi => LastLine(s, range) = LineOf(s, hi)
  <2> DEFINE T == ToSet(s)
  <2>1. s \in Seq(T)
    BY <1>3
  <2>2. /\ s \in Seq(T) /\ Len(s) <= ReadMax /\ ReadMax \in Nat
        /\ range \in {<<>>} \cup (Nat \X Nat) /\ RangeOk(range)
    BY <1>3, <1>4, <1>5, <1>7, <2>1
  <2> HIDE DEF T
  <2> QED BY <2>2, LinesWanted
<1>9. Len(content) = hi - lo /\ \A i \in 1 .. hi - lo : content[i] = s[lo + i]
  <2> DEFINE T == ToSet(s)
  <2>1. \A i \in lo + 1 .. hi : s[i] \in T
    BY <1>6, <1>8
  <2> HIDE DEF T
  <2>2. /\ Len(SubSeq(s, lo + 1, hi)) = hi - lo
        /\ \A i \in 1 .. hi - lo : SubSeq(s, lo + 1, hi)[i] = s[lo + i]
    BY <1>8, <2>1, SubSeqProperties
  <2> QED BY <1>4, <1>8, <2>2
<1> HIDE DEF wanted, content
<1>10. Len(content) = Cardinality(wanted)
  <2>1. Cardinality(lo + 1 .. hi) = hi - lo
    <3> DEFINE a == lo + 1
    <3>1. a \in Int /\ hi \in Int /\ (IF a > hi THEN 0 ELSE hi - a + 1) = hi - lo
      BY <1>8
    <3> HIDE DEF a
    <3>2. Cardinality(a .. hi) = IF a > hi THEN 0 ELSE hi - a + 1
      BY <3>1, FS_Interval
    <3> QED BY <3>1, <3>2 DEF a
  <2> QED BY <1>8, <1>9, <2>1
<1>11. ASSUME NEW i \in wanted PROVE s[i] = content[Cardinality({j \in wanted : j <= i})]
  <2>1. i \in lo + 1 .. hi /\ {j \in wanted : j <= i} = lo + 1 .. i
    BY <1>8
  <2>2. Cardinality(lo + 1 .. i) = i - lo
    BY <2>1, FS_Interval
  <2>3. i - lo \in 1 .. hi - lo /\ lo + (i - lo) = i
    BY <2>1
  <2> QED BY <1>9, <2>1, <2>2, <2>3
<1>12. ASSUME wanted # {} PROVE answer'.last = LineOf(s, CHOOSE i \in wanted : \A j \in wanted : j <= i)
  <2>1. lo < hi
    BY <1>8, <1>12
  <2>2. (CHOOSE i \in wanted : \A j \in wanted : j <= i) = hi
    <3>1. hi \in wanted /\ \A j \in wanted : j <= hi
      BY <1>8, <2>1
    <3>2. \A i \in wanted : (\A j \in wanted : j <= i) => i = hi
      <4>1. \A i \in wanted : i \in Nat /\ i <= hi
        BY <1>8
      <4> QED BY <3>1, <4>1
    <3> QED BY <3>1, <3>2
  <2> QED BY <1>4, <1>8, <2>1, <2>2
<1> QED BY <1>4, <1>10, <1>11, <1>12 DEF ReadIsWhole, wanted, content

-----------------------------------------------------------------------------
(***************************************************************************)
(* Answers that are whole: every step.                                     *)
(***************************************************************************)
\* Nothing is carried out at first, and the tree is one.
LEMMA WholeInit == Init => WInv
<1> SUFFICES ASSUME Init PROVE WInv
  OBVIOUS
<1>1. PICK gone \in Absent : present = Places \ gone
  BY DEF Init
<1>2. \A p \in present : Len(p) > 1 => Front(p) \in present
  BY <1>1, ReadToolsAssumption, TreeAssumption
<1>3. pc = "off" /\ turned = {}
  BY DEF Init
<1>4. Treelike
  BY <1>2, <1>3 DEF Treelike
<1> QED BY <1>3, <1>4, InvInit DEF WInv, Standing, Listing, Searching, AnswersAreWhole

\* The tree stays one, and what stood all through a walk stands.
LEMMA StandingNext == IInv /\ Standing /\ [Next]_vars => Standing'
<1> SUFFICES ASSUME IInv, Standing, [Next]_vars PROVE Standing'
  OBVIOUS
<1>1. /\ present \subseteq Places /\ \A p \in present : Len(p) > 1 => Front(p) \in present
      /\ turned \subseteq present /\ \A p \in present, d \in turned : Under(d, p) => d = p
  BY DEF IInv, TypeOK, Standing, Treelike
<1>2. ASSUME UNCHANGED <<tree, steady, seen>>, pc' = "walk" => pc = "walk" PROVE Standing'
  <2>1. Treelike' /\ {q \in Places : There(q)}' = {q \in Places : There(q)} /\ present' = present
    BY <1>2 DEF Standing, Treelike, There, Lstat, Canon, Under, tree
  <2> QED BY <1>2, <2>1 DEF Standing
<1>3. ASSUME NEW c, NEW b, Begin(c, b), UNCHANGED files PROVE Standing'
  <2>1. Treelike' /\ {q \in Places : There(q)}' = {q \in Places : There(q)} /\ present' = present
    BY <1>3 DEF Standing, Treelike, There, Lstat, Canon, Under, files, tree
  <2> QED BY <1>3, <2>1 DEF Begin, Standing
<1>4. ASSUME UNCHANGED tree, pc' # "walk" PROVE Standing'
  BY <1>4 DEF Standing, Treelike, Under, tree
<1>5. ASSUME Edit, \A p \in present' : Len(p) > 1 => Front(p) \in present',
             \A p \in present', d \in turned' : Under(d, p) => d = p
      PROVE  Standing'
  <2>1. Treelike'
    BY <1>5 DEF Treelike, Under
  <2>2. pc' = pc /\ steady' \subseteq present' /\ (pc = "walk" => {q \in Places : There(q)}' \subseteq seen')
    BY <1>5 DEF Edit
  <2> QED BY <2>1, <2>2 DEF Standing
<1>6. ASSUME NEW p \in Loose, Vanish(p) PROVE Standing'
  <2>1. /\ present' = {q \in present : ~Under(p, q)} /\ turned' \subseteq turned /\ Edit
    BY <1>6 DEF Vanish
  <2>2. ASSUME NEW q \in present', Len(q) > 1 PROVE Front(q) \in present'
    <3>1. q \in present /\ ~Under(p, q) /\ Front(q) \in present
      BY <1>1, <2>1, <2>2
    <3>2. p \in Places /\ q \in Places /\ Front(q) \in Places
      BY <1>1, <3>1, ReadToolsAssumption
    <3>3. ~Under(p, Front(q))
      BY <2>2, <3>1, <3>2, ParentAbove, UnderOrder
    <3> QED BY <2>1, <3>1, <3>3
  <2> QED BY <1>1, <1>5, <2>1, <2>2
<1>7. ASSUME NEW p \in Loose, Appear(p) PROVE Standing'
  <2>1. Front(p) \in present \ turned /\ p \notin present /\ present' = present \cup {p} /\ turned' = turned /\ Edit
    BY <1>7 DEF Appear
  <2>2. ASSUME NEW d \in turned, Under(d, p) PROVE d = p
    <3>1. p \in Places /\ d \in Places /\ Front(p) \in Places /\ d # p
      BY <1>1, <2>1, ReadToolsAssumption
    <3>2. Len(p) > 1
      <4>1. Front(p) # <<>>
        BY <3>1, TreeAssumption
      <4> QED BY <3>1, <4>1, ParentAbove
    <3>3. /\ Under(Front(p), p) /\ Len(Front(p)) = Len(p) - 1
          /\ Len(d) \in Nat /\ Len(p) \in Nat /\ Len(d) <= Len(p)
      BY <2>2, <3>1, <3>2, ParentAbove, UnderPlaces, PlacesHave
    <3>4. Len(d) # Len(p)
      BY <2>2, <3>1, BothAbove, UnderOrder, PlacesHave
    <3>5. Under(d, Front(p))
      BY <2>2, <3>1, <3>3, <3>4, BothAbove
    <3> QED BY <1>1, <2>1, <3>5
  <2> QED BY <1>1, <1>5, <2>1, <2>2
<1>8. ASSUME NEW p \in Targets, Retarget(p) PROVE Standing'
  BY <1>1, <1>5, <1>8 DEF Retarget
<1>16. ASSUME NEW p \in Turning, Turn(p) PROVE Standing'
  <2>1. /\ p \in present /\ p \notin turned /\ present' = {q \in present : q = p \/ ~Under(p, q)}
        /\ turned' = {d \in turned : ~Under(p, d)} \cup {p} /\ Edit
    BY <1>16 DEF Turn
  <2>2. ASSUME NEW q \in present', Len(q) > 1 PROVE Front(q) \in present'
    <3>1. q \in present /\ (q = p \/ ~Under(p, q)) /\ Front(q) \in present
      BY <1>1, <2>1, <2>2
    <3>2. p \in Places /\ q \in Places /\ Front(q) \in Places
      BY <1>1, <2>1, <3>1
    <3>3. Under(Front(q), q) /\ Front(q) # q
      BY <2>2, <3>2, ParentAbove
    <3>4. ~Under(p, Front(q))
      BY <3>1, <3>2, <3>3, UnderOrder, Antisymmetric
    <3> QED BY <2>1, <3>1, <3>4
  <2>3. ASSUME NEW q \in present', NEW d \in turned', Under(d, q) PROVE d = q
    BY <1>1, <2>1, <2>3
  <2> QED BY <1>5, <2>1, <2>2, <2>3
<1>9. CASE Calling
  <2>1. UNCHANGED <<tree, steady, seen>> /\ pc = "walk"
    BY <1>9, CallingKeeps DEF files, history
  <2> QED BY <1>2, <2>1
<1>10. CASE Tell \/ Exit \/ (\E persist \in BOOLEAN : Approve(persist)) \/ Grant \/ UNCHANGED vars
  <2>1. UNCHANGED <<tree, steady, seen>> /\ (pc' = "walk" => pc = "walk")
    BY <1>10 DEF Tell, Exit, Approve, Grant, files, history, vars
  <2> QED BY <1>2, <2>1
<1>11. CASE Reply \/ Crash
  BY <1>4, <1>11 DEF Reply, Crash, files
<1>12. ASSUME NEW c \in Calls, Call(c) PROVE Standing'
  <2>1. CASE Begin(c, FALSE)
    BY <1>3, <1>12, <2>1 DEF Call
  <2>2. CASE Missing(c, FALSE)
    BY <1>4, <1>12, <2>2 DEF Call, Missing, files
  <2> QED BY <1>12, <2>1, <2>2 DEF Call
<1>13. ASSUME NEW c \in Calls, Park(c) PROVE Standing'
  BY <1>4, <1>13 DEF Park
<1>14. ASSUME NEW argv \in Commands, RunCommand(argv) \/ ParkCommand(argv) PROVE Standing'
  BY <1>4, <1>14 DEF RunCommand, ParkCommand, files
<1>15. CASE ExecutePending
  <2>1. UNCHANGED files /\ \E c \in parked : Begin(c, TRUE) \/ Missing(c, TRUE)
    BY <1>15 DEF ExecutePending
  <2>2. ASSUME NEW c, Missing(c, TRUE) PROVE Standing'
    BY <1>4, <2>1, <2>2 DEF Missing, files
  <2> QED BY <1>3, <2>1, <2>2
<1> QED BY <1>6, <1>7, <1>8, <1>9, <1>10, <1>11, <1>12, <1>13, <1>14, <1>15, <1>16 DEF Next, Calling

\* What a walk has found and has still to find, for every step but its own.
LEMMA WalkBegins ==
  ASSUME IInv, NEW c, NEW b, Exists(c.path), Begin(c, b), UNCHANGED files
  PROVE  Listing' /\ Searching'
<1>1. /\ base' \in Places /\ stack' = <<base'>> /\ out' = <<>> /\ steady' = present
  BY CanonIsPlace DEF IInv, Begin
<1>2. /\ ToSet(stack') = {base'} /\ ToSet(out') = {} /\ DOMAIN stack' = {1} /\ DOMAIN out' = {}
  BY <1>1 DEF ToSet
<1>3. Distinct(out)' /\ Distinct(stack)' /\ StackInOrder' /\ OutInOrder'
  BY <1>2 DEF Distinct, StackInOrder, OutInOrder
<1>4. Apart(ToSet(stack'))
  BY <1>2 DEF Apart
<1> QED BY <1>2, <1>3, <1>4 DEF Listing, Searching, ListWanted, SearchWanted

LEMMA OthersKeep ==
  ASSUME Listing, Searching, UNCHANGED call, seen \subseteq seen', steady' \subseteq steady,
         pc' = "walk" => pc = "walk"
  PROVE  Listing' /\ Searching'
<1>1. UNCHANGED <<cur, base, stack, out>>
  BY DEF call
<1>2. /\ \A p : ListWanted(p)' = ListWanted(p)
      /\ \A p : SearchWanted(p)' = SearchWanted(p)
      /\ \A p : Found(p)' = Found(p)
      /\ Distinct(out)' = Distinct(out) /\ Distinct(stack)' = Distinct(stack)
      /\ StackInOrder' = StackInOrder /\ OutInOrder' = OutInOrder
  BY <1>1 DEF ListWanted, SearchWanted, Found, Distinct, StackInOrder, OutInOrder, Visible, Reachable, Under, Index
<1> QED BY <1>1, <1>2 DEF Listing, Searching

\* What a call that is answered has found: for each way of answering.
LEMMA AnswersNext == WInv /\ [Next]_vars => AnswersAreWhole'
<1> SUFFICES ASSUME WInv, [Next]_vars PROVE AnswersAreWhole'
  OBVIOUS
<1>1. IInv /\ Standing /\ Listing /\ Searching /\ AnswersAreWhole
  BY DEF WInv
<1>2. ASSUME pc' # "answered" PROVE AnswersAreWhole'
  BY <1>2 DEF AnswersAreWhole
<1>3. ASSUME answer'.result = "io" PROVE AnswersAreWhole'
  BY <1>3 DEF AnswersAreWhole
<1>4. CASE WalkFails
  BY <1>3, <1>4 DEF WalkFails, Answers, Error
<1>5. CASE WalkStep
  <2>1. pc = "walk" /\ cur.op # "read" /\ cur' = cur
    BY <1>1, <1>5, WalkStepIs
  <2>2. cur.op \in {"list", "search"}
    BY <1>1, <2>1, WalkTypes
  <2>3. CASE pc' = "walk"
    BY <1>2, <2>3
  <2>4. CASE pc' # "walk"
    <3>1. pc' = "answered" /\ answer'.truncated
      BY <1>1, <1>5, <2>4, WalkStepIs DEF Walked
    <3>2. CASE cur.op = "list"
      BY <2>1, <3>1, <3>2 DEF AnswersAreWhole
    <3>3. CASE cur.op = "search"
      <4>1. SearchIsWhole'
        BY <1>1, <1>5, <3>1, <3>3, SearchFull
      <4> QED BY <2>1, <3>3, <4>1 DEF AnswersAreWhole
    <3> QED BY <2>2, <3>2, <3>3
  <2> QED BY <2>3, <2>4
<1>6. CASE WalkEnds
  <2>1. pc = "walk" /\ cur.op # "read" /\ cur' = cur
    BY <1>6 DEF WalkEnds, Answers
  <2>2. cur.op = "list" => ListIsWhole'
    BY <1>1, <1>6, ListEnds
  <2>3. cur.op = "search" => SearchIsWhole'
    BY <1>1, <1>6, SearchEnds
  <2> QED BY <2>1, <2>2, <2>3 DEF AnswersAreWhole
<1>7. CASE Read
  <2>1. cur.op = "read" /\ cur' = cur /\ pc' = "answered"
    BY <1>7 DEF Read, Answers
  <2>2. answer'.result = "ok" /\ ~answer'.truncated => ReadIsWhole'
    BY <1>1, <1>7, <2>1, ReadWhole
  <2> QED BY <2>1, <2>2 DEF AnswersAreWhole
<1>8. ASSUME NEW c \in Calls, Call(c) \/ Park(c) PROVE AnswersAreWhole'
  <2>1. pc' # "answered" \/ Missing(c, FALSE)
    BY <1>8 DEF Call, Park, Begin
  <2>2. Missing(c, FALSE) => answer'.result = "io"
    BY DEF Missing, Error
  <2> QED BY <1>2, <1>3, <2>1, <2>2
<1>9. CASE ExecutePending
  <2>1. PICK c \in parked : Begin(c, TRUE) \/ Missing(c, TRUE)
    BY <1>9 DEF ExecutePending
  <2>2. pc' # "answered" \/ answer'.result = "io"
    BY <2>1 DEF Begin, Missing, Error
  <2> QED BY <1>2, <1>3, <2>2
<1>10. ASSUME NEW argv \in Commands, RunCommand(argv) PROVE AnswersAreWhole'
  BY <1>10 DEF RunCommand, AnswersAreWhole
<1>11. CASE \/ Tell \/ Exit \/ (\E persist \in BOOLEAN : Approve(persist)) \/ Grant \/ Reply \/ Crash
            \/ (\E argv \in Commands : ParkCommand(argv))
            \/ (\E p \in Loose : Vanish(p) \/ Appear(p)) \/ (\E p \in Targets : Retarget(p))
            \/ (\E p \in Turning : Turn(p))
  <2>1. pc' # "answered"
    BY <1>11 DEF Tell, Exit, Approve, Grant, Reply, Crash, ParkCommand, Vanish, Appear, Retarget, Turn, Edit
  <2> QED BY <1>2, <2>1
<1>12. CASE UNCHANGED vars
  <2>1. UNCHANGED <<tree, pc, cur, base, out, answer, steady, seen>>
    BY <1>12 DEF vars, files, call, history
  <2>2. ListIsWhole' = ListIsWhole
    <3>1. \A p : IsChild(base, p)' = IsChild(base, p)
      BY <2>1 DEF IsChild, There, Lstat, Canon, Under, tree
    <3> QED BY <2>1, <3>1 DEF ListIsWhole, Under, Visible
  <2>3. SearchIsWhole' = SearchIsWhole
    BY <2>1 DEF SearchIsWhole, Under, Visible, Reachable, Index
  <2>4. ReadIsWhole' = ReadIsWhole
    BY <2>1 DEF ReadIsWhole, LineOf
  <2> QED BY <1>1, <2>1, <2>2, <2>3, <2>4 DEF AnswersAreWhole
<1> QED BY <1>4, <1>5, <1>6, <1>7, <1>8, <1>9, <1>10, <1>11, <1>12 DEF Next

\* Every step keeps what a walk has found and has still to find.
LEMMA WalksNext == WInv /\ [Next]_vars => Listing' /\ Searching'
<1> SUFFICES ASSUME WInv, [Next]_vars PROVE Listing' /\ Searching'
  OBVIOUS
<1>1. IInv /\ Standing /\ Listing /\ Searching
  BY DEF WInv
<1>2. ASSUME pc' # "walk" PROVE Listing' /\ Searching'
  BY <1>2 DEF Listing, Searching
<1>3. ASSUME Edit PROVE Listing' /\ Searching'
  <2>1. UNCHANGED call /\ seen \subseteq seen' /\ steady' \subseteq steady /\ pc' = pc
    BY <1>3 DEF Edit
  <2> QED BY <1>1, <2>1, OthersKeep
<1>4. CASE WalkStep
  <2>1. pc = "walk" /\ cur.op # "read" /\ cur' = cur
    BY <1>1, <1>4, WalkStepIs
  <2>2. cur.op \in {"list", "search"}
    BY <1>1, <2>1, WalkTypes
  <2>3. CASE pc' = "walk" /\ cur.op = "list"
    <3>1. Listing'
      BY <1>1, <1>4, <2>3, ListStep
    <3> QED BY <2>1, <2>3, <3>1 DEF Searching
  <2>4. CASE pc' = "walk" /\ cur.op = "search"
    <3>1. Searching'
      BY <1>1, <1>4, <2>4, SearchStep
    <3> QED BY <2>1, <2>4, <3>1 DEF Listing
  <2> QED BY <1>2, <2>2, <2>3, <2>4
<1>5. CASE WalkFails \/ WalkEnds \/ Read
  BY <1>2, <1>5 DEF WalkFails, WalkEnds, Read, Answers
<1>6. ASSUME NEW c \in Calls, Call(c) \/ Park(c) PROVE Listing' /\ Searching'
  <2>1. pc' # "walk" \/ (Exists(c.path) /\ Begin(c, FALSE) /\ UNCHANGED files)
    BY <1>6 DEF Call, Park, Missing
  <2> QED BY <1>1, <1>2, <2>1, WalkBegins
<1>7. CASE ExecutePending
  <2>1. PICK c \in parked : (Exists(c.path) /\ Begin(c, TRUE)) \/ Missing(c, TRUE)
    BY <1>7 DEF ExecutePending
  <2>2. pc' # "walk" \/ (Exists(c.path) /\ Begin(c, TRUE) /\ UNCHANGED files)
    BY <1>7, <2>1 DEF ExecutePending, Missing
  <2> QED BY <1>1, <1>2, <2>2, WalkBegins
<1>8. CASE \/ Tell \/ Exit \/ (\E persist \in BOOLEAN : Approve(persist)) \/ Grant \/ Reply \/ Crash
           \/ (\E argv \in Commands : RunCommand(argv) \/ ParkCommand(argv))
  <2>1. pc' # "walk"
    BY <1>8 DEF Tell, Exit, Approve, Grant, Reply, Crash, RunCommand, ParkCommand
  <2> QED BY <1>2, <2>1
<1>9. CASE (\E p \in Loose : Vanish(p) \/ Appear(p)) \/ (\E p \in Targets : Retarget(p))
           \/ (\E p \in Turning : Turn(p))
  BY <1>3, <1>9 DEF Vanish, Appear, Retarget, Turn
<1>10. CASE UNCHANGED vars
  <2>1. UNCHANGED call /\ seen \subseteq seen' /\ steady' \subseteq steady /\ pc' = pc
    BY <1>10 DEF vars, history
  <2> QED BY <1>1, <2>1, OthersKeep
<1> QED BY <1>4, <1>5, <1>6, <1>7, <1>8, <1>9, <1>10 DEF Next

\* Whatever the tree, the calls and the changes of the tree while they walk: an
\* answer of list, search or read that does not say it is truncated is whole, and
\* the matches of a search are in order and whole up to the last.
THEOREM WholeAnswers == Spec => []AnswersAreWhole
<1>1. WInv /\ [Next]_vars => WInv'
  <2>1. WInv /\ [Next]_vars => IInv' /\ Standing'
    BY TypeNext, RootedNext, BasedNext, StandingNext DEF IInv, WInv
  <2> QED BY <2>1, WalksNext, AnswersNext DEF WInv
<1>2. WInv => AnswersAreWhole
  BY DEF WInv
<1> QED BY WholeInit, <1>1, <1>2, PTL DEF Spec

-----------------------------------------------------------------------------
(***************************************************************************)
(* How far a call reaches.                                                 *)
(***************************************************************************)
\* A directory that has turned and is above a place yet to visit has turned while
\* it was queued; save that a search finds one at its very place and leaves it.
Fresh ==
  pc = "walk" =>
    /\ \A p \in ToSet(stack), d \in turned :
         Under(d, p) => d \in swapped \/ (cur.op = "search" /\ p = d)
    /\ cur.op # "search" /\ LinkAt \in ToSet(stack) => \E d \in swapped : Under(d, LinkAt)
    /\ cur.op = "read" => stack = <<base>>

\* A name stands for itself, or leads through a directory above it that has turned.
LEMMA LstatIs ==
  ASSUME TypeOK, NEW q \in Places
  PROVE  Lstat(q) = q \/ \E d \in turned : Under(d, q) /\ d # q
<1> DEFINE f == Front(q)
<1>1. Append(f, Last(q)) = q
  BY ParentAbove
<1>2. CASE ~(Len(q) > 1)
  <2>1. f = <<>>
    BY <1>2, ParentAbove
  <2>2. ~Under(LinkAt, f) /\ \A d \in turned : ~Under(d, f)
    BY <2>1, NothingAbove, ReadToolsAssumption, LinkAssumption DEF TypeOK
  <2>3. Canon(f) = f
    BY <2>2 DEF Canon
  <2> QED BY <1>1, <2>3 DEF Lstat
<1>3. CASE Len(q) > 1
  <2>1. f \in Places /\ Under(f, q) /\ f # q
    BY <1>3, TreeAssumption, ParentAbove
  <2> HIDE DEF f
  <2>2. LinkAt \in Places /\ turned \subseteq Places
    BY ReadToolsAssumption, LinkAssumption DEF TypeOK
  <2>3. ~Under(LinkAt, f)
    <3> SUFFICES ASSUME Under(LinkAt, f) PROVE FALSE
      OBVIOUS
    <3>1. f = LinkAt
      BY <2>1, LinkAssumption
    <3>2. q = LinkAt
      BY <2>1, <3>1, LinkAssumption
    <3> QED BY <2>1, <3>1, <3>2
  <2>4. CASE \E d \in turned : Under(d, f)
    <3>1. PICK d \in turned : Under(d, f)
      BY <2>4
    <3>2. Under(d, q)
      BY <2>1, <2>2, <3>1, UnderOrder
    <3>3. d # q
      BY <2>1, <2>2, <3>1, Antisymmetric
    <3> QED BY <3>2, <3>3
  <2>5. CASE ~\E d \in turned : Under(d, f)
    <3>1. Canon(f) = f
      BY <2>3, <2>5 DEF Canon
    <3> QED BY <1>1, <3>1 DEF Lstat, f
  <2> QED BY <2>4, <2>5
<1> QED BY <1>2, <1>3

\* Above a child there is what is above its directory, and the child itself.
LEMMA AboveChild ==
  ASSUME NEW p \in Places, NEW c \in Places, IsChild(p, c), NEW d \in Places, Under(d, c), d # c
  PROVE  Under(d, p)
<1>1. Under(p, c) /\ Len(c) = Len(p) + 1 /\ Len(d) <= Len(c)
      /\ Len(p) \in Nat /\ Len(c) \in Nat /\ Len(d) \in Nat /\ Under(c, c)
  BY UnderPlaces, PlacesHave, UnderOrder DEF IsChild
<1>2. Len(d) # Len(c)
  BY <1>1, BothAbove
<1> QED BY <1>1, <1>2, BothAbove

\* A path that is moved begins with where it is moved to.
LEMMA MovedUnder ==
  ASSUME NEW T, NEW to \in Seq(T), NEW B, NEW from \in Seq(B), NEW A, NEW p \in Seq(A)
  PROVE  Moved(from, to, p) \in Seq(T \cup A) /\ Under(to, Moved(from, to, p))
<1> DEFINE x == SubSeq(p, Len(from) + 1, Len(p))
           r == to \o x
<1>1. Len(from) \in Nat /\ Len(p) \in Nat /\ Len(to) \in Nat
  BY LenProperties
<1>2. x \in Seq(A)
  <2>1. Len(from) + 1 \in Nat \ {0} /\ Len(p) \in Int /\ Len(p) <= Len(p)
    BY <1>1
  <2> QED BY <2>1, PartOf
<1>3. Moved(from, to, p) = r
  BY DEF Moved
<1> HIDE DEF x
<1>4. to \in Seq(T \cup A) /\ x \in Seq(T \cup A)
  BY <1>2, SeqMonotonic
<1>5. r \in Seq(T \cup A) /\ Len(r) = Len(to) + Len(x) /\ \A i \in 1 .. Len(to) : r[i] = to[i]
  BY <1>4, Joining
<1>6. Len(x) \in Nat
  BY <1>4, LenProperties
<1> HIDE DEF r
<1>7. Len(to) <= Len(r) /\ \A i \in 1 .. Len(to) : to[i] = r[i]
  BY <1>1, <1>5, <1>6
<1>8. Under(to, r)
  BY <1>4, <1>5, <1>7, UnderAt
<1> QED BY <1>3, <1>5, <1>8

\* Where a path leads to when it is resolved there is no symlink on the way.
LEMMA ResolvedPlainly ==
  ASSUME TypeOK, NEW c \in Calls, Exists(c.path)
  PROVE  Canon(c.path) # LinkAt /\ \A d \in turned : ~Under(d, Canon(c.path))
<1> DEFINE p == c.path
           q == IF Under(LinkAt, p) /\ LinkAt \in present THEN Moved(LinkAt, target, p) ELSE p
           crossed == {d \in turned : Under(d, q)}
           d == CHOOSE d \in crossed : TRUE
           T == ToSet(p) \cup ToSet(target)
<1>1. Canon(p) = IF crossed = {} THEN q ELSE Moved(d, LeadsTo, q)
  BY DEF Canon
<1>2. /\ p \in Seq(ToSet(p)) /\ target \in Seq(ToSet(target)) /\ ~Under(target, LinkAt)
      /\ LinkAt \in Places /\ LinkAt \in Seq(ToSet(LinkAt))
      /\ LeadsTo \in Places /\ LeadsTo \in Seq(ToSet(LeadsTo))
      /\ \A x \in Turning \cup {LinkAt} : ~Under(x, LeadsTo) /\ ~Under(LeadsTo, x)
      /\ turned \subseteq Turning /\ turned \subseteq Places /\ present \subseteq Places
  BY ReadToolsAssumption, LinkAssumption DEF TypeOK
<1>3. Canon(p) \in present
  BY DEF Exists
<1>4. /\ Moved(LinkAt, target, p) \in Seq(ToSet(target) \cup ToSet(p))
      /\ Under(target, Moved(LinkAt, target, p))
  <2> HIDE DEF p
  <2> QED BY <1>2, MovedUnder
<1>5. q \in Seq(T)
  <2>1. p \in Seq(T)
    BY <1>2, SeqMonotonic
  <2> QED BY <1>4, <2>1
<1>6. q = LinkAt => LinkAt \notin present
  <2>1. Under(LinkAt, LinkAt)
    BY <1>2, UnderOrder
  <2> QED BY <1>2, <1>4, <2>1
<1>7. CASE crossed = {}
  <2>1. \A x \in turned : ~Under(x, q)
    BY <1>7
  <2> QED BY <1>1, <1>3, <1>6, <1>7, <2>1
<1>8. CASE crossed # {}
  <2>1. d \in turned /\ Canon(p) = Moved(d, LeadsTo, q)
    BY <1>1, <1>8
  <2> HIDE DEF d, q, T
  <2>2. d \in Seq(ToSet(d))
    BY <1>2, <2>1, PlacesHave
  <2>3. Under(LeadsTo, Canon(p)) /\ Canon(p) \in Places
    <3>1. Under(LeadsTo, Moved(d, LeadsTo, q))
      BY <1>2, <1>5, <2>2, MovedUnder
    <3> QED BY <1>2, <1>3, <2>1, <3>1
  <2> HIDE DEF p
  <2>4. ASSUME NEW x \in turned, Under(x, Canon(p)) PROVE FALSE
    <3>1. Len(x) <= Len(LeadsTo) \/ Len(LeadsTo) <= Len(x)
      BY <1>2, PlacesHave
    <3>2. Under(x, LeadsTo) \/ Under(LeadsTo, x)
      BY <1>2, <2>3, <2>4, <3>1, BothAbove
    <3> QED BY <1>2, <3>2
  <2> QED BY <1>2, <2>3, <2>4 DEF p
<1> QED BY <1>7, <1>8

\* What a step of a walk queues is a directory there, or is reached through one
\* that has turned while it was queued.
LEMMA FreshStep ==
  ASSUME IInv, Treelike, Fresh, WalkStep, pc' = "walk"
  PROVE  Fresh'
<1> DEFINE p == Last(stack)
           v == VisitOf(p)
           Through(x) == \E d \in swapped : Under(d, x)
<1>1. /\ pc = "walk" /\ cur.op # "read" /\ stack # <<>> /\ v.ok
      /\ UNCHANGED <<tree, cur, base>>
      /\ stack' = Front(stack) \o v.pushes
  BY WalkStepIs DEF files
<1>2. swapped' = swapped
  BY DEF WalkStep, Answers, history
<1>3. /\ cur.op \in {"list", "search"} /\ stack \in Seq(Places) /\ TypeOK
      /\ turned \subseteq Places /\ turned \subseteq present /\ LinkAt \in Places /\ present \subseteq Places
  BY <1>1, WalkTypes, ReadToolsAssumption, LinkAssumption DEF IInv, TypeOK
<1>4. p \in Places /\ Front(stack) \in Seq(Places) /\ ToSet(stack) = ToSet(Front(stack)) \cup {p}
  BY <1>1, <1>3, Popped
<1>5. /\ v.pushes \in Seq(Places)
      /\ \A c \in ToSet(v.pushes) : c \in Places /\ IsChild(p, c)
      /\ cur.op = "list" => \A c \in ToSet(v.pushes) : IsDir(c)
      /\ cur.op = "search" /\ ToSet(v.pushes) # {} => Lstat(p) \notin turned
  <2>1. CASE cur.op = "list"
    <3>1. v = ListVisit(p)
      BY <2>1 DEF VisitOf
    <3> DEFINE dirs == {x \in Places : IsDir(x)}
               cs == Children(p, cur.hidden)
    <3>2. v.pushes = IF cur.recursive THEN Picked(cs, dirs) ELSE <<>>
      BY <1>1, <3>1 DEF ListVisit, Visit, Failed
    <3>3. cs \in Seq(Places) /\ ToSet(cs) = {q \in Places : IsChild(p, q) /\ (cur.hidden \/ q \notin Hidden)}
      BY <1>4, ChildrenAre
    <3>4. /\ ListVisit(p).pushes \in Seq(Places)
          /\ ToSet(ListVisit(p).pushes) \subseteq ToSet(ListVisit(p).adds)
          /\ ToSet(ListVisit(p).adds) = {c \in Places : IsChild(p, c) /\ (cur.hidden \/ c \notin Hidden)}
      BY <1>1, <1>4, <3>1, ListVisitIs
    <3>5. Picked(cs, dirs) \in Seq(Places \cap dirs) /\ <<>> \in Seq(dirs)
      BY <3>3, PickedTyped, EmptySeq
    <3>6. v.pushes \in Seq(dirs)
      BY <3>2, <3>5, SeqMonotonic
    <3> HIDE DEF dirs, cs, v
    <3>7. \A c \in ToSet(v.pushes) : c \in dirs
      BY <3>6, LenProperties, ElementOfSeq DEF ToSet
    <3> QED BY <2>1, <3>1, <3>4, <3>7 DEF dirs
  <2>2. CASE cur.op = "search"
    <3>1. v = SearchVisit(p)
      BY <2>2 DEF VisitOf
    <3> HIDE DEF v, p
    <3> QED BY <1>3, <1>4, <2>2, <3>1, SearchVisitIs
  <2> QED BY <1>3, <2>1, <2>2
<1>6. ToSet(stack') = ToSet(Front(stack)) \cup ToSet(v.pushes)
  <2> DEFINE f == Front(stack)
             ps == v.pushes
  <2> HIDE DEF f, ps
  <2> QED BY <1>1, <1>4, <1>5, Joining DEF f, ps
<1> HIDE DEF p, v
<1>7. /\ \A x \in ToSet(stack), d \in turned : Under(d, x) => d \in swapped \/ (cur.op = "search" /\ x = d)
      /\ cur.op # "search" /\ LinkAt \in ToSet(stack) => Through(LinkAt)
  BY <1>1 DEF Fresh
<1>8. \A x \in turned : Lstat(x) = x
  BY <1>3, PlainNames
<1>9. ASSUME NEW c \in ToSet(v.pushes), NEW d \in turned, Under(d, c)
      PROVE  d \in swapped \/ (cur.op = "search" /\ c = d)
  <2>1. c \in Places /\ IsChild(p, c) /\ d \in Places
    BY <1>3, <1>5
  <2>2. CASE d = c
    <3>1. CASE cur.op = "search"
      BY <2>2, <3>1
    <3>2. CASE cur.op = "list"
      <4>1. Lstat(c) \notin turned
        BY <1>5, <3>2 DEF IsDir
      <4> QED BY <1>8, <2>2, <4>1
    <3> QED BY <1>3, <3>1, <3>2
  <2>3. CASE d # c
    <3>1. Under(d, p)
      BY <1>4, <1>9, <2>1, <2>3, AboveChild
    <3>2. p \in ToSet(stack)
      BY <1>4
    <3>3. ~(cur.op = "search" /\ p = d)
      BY <1>5, <1>8
    <3> QED BY <1>7, <3>1, <3>2, <3>3
  <2> QED BY <2>2, <2>3
<1>10. ASSUME cur.op # "search", LinkAt \in ToSet(v.pushes) PROVE Through(LinkAt)
  <2>1. IsDir(LinkAt)
    BY <1>3, <1>5, <1>10
  <2>2. Lstat(LinkAt) # LinkAt
    <3>1. Kind[LinkAt] = "link"
      BY <1>3, ReadToolsAssumption
    <3> QED BY <2>1, <3>1 DEF IsDir
  <2>3. PICK d \in turned : Under(d, LinkAt) /\ d # LinkAt
    BY <1>3, <2>2, LstatIs
  <2>4. d \in swapped
    BY <1>9, <1>10, <2>3
  <2> QED BY <2>3, <2>4
<1>11. ASSUME NEW x \in ToSet(stack'), NEW d \in turned, Under(d, x)
       PROVE  d \in swapped \/ (cur.op = "search" /\ x = d)
  BY <1>4, <1>6, <1>7, <1>9, <1>11
<1>12. cur.op # "search" /\ LinkAt \in ToSet(stack') => Through(LinkAt)
  BY <1>4, <1>6, <1>7, <1>10
<1> QED BY <1>1, <1>2, <1>11, <1>12 DEF Fresh, Under, tree

\* Every step keeps that.
LEMMA FreshNext == IInv /\ Standing /\ Fresh /\ [Next]_vars => Fresh'
<1> SUFFICES ASSUME IInv, Standing, Fresh, [Next]_vars PROVE Fresh'
  OBVIOUS
<1>1. ASSUME pc' # "walk" PROVE Fresh'
  BY <1>1 DEF Fresh
<1>2. ASSUME NEW c \in Calls, NEW b, Exists(c.path), Begin(c, b), UNCHANGED files PROVE Fresh'
  <2>1. base' # LinkAt /\ \A d \in turned : ~Under(d, base')
    BY <1>2, ResolvedPlainly DEF IInv, Begin
  <2>2. stack' = <<base'>> /\ ToSet(stack') = {base'} /\ turned' = turned
    BY <1>2 DEF Begin, ToSet, files, tree
  <2> QED BY <2>1, <2>2 DEF Fresh, Under
<1>3. ASSUME Edit PROVE Fresh'
  <2>1. /\ UNCHANGED <<cur, base, stack, pc>>
        /\ swapped' = swapped \cup {d \in turned' \ turned : \E p \in ToSet(stack) : Under(d, p)}
    BY <1>3 DEF Edit, call
  <2>2. ASSUME pc = "walk", NEW p \in ToSet(stack), NEW d \in turned', Under(d, p)
        PROVE  d \in swapped' \/ (cur.op = "search" /\ p = d)
    <3>1. CASE d \in turned
      BY <2>1, <2>2, <3>1 DEF Fresh
    <3>2. CASE d \notin turned
      BY <2>1, <2>2, <3>2
    <3> QED BY <3>1, <3>2
  <2>3. pc = "walk" /\ cur.op # "search" /\ LinkAt \in ToSet(stack) => \E d \in swapped' : Under(d, LinkAt)
    BY <2>1 DEF Fresh
  <2>4. pc = "walk" /\ cur.op = "read" => stack = <<base>>
    BY DEF Fresh
  <2> QED BY <2>1, <2>2, <2>3, <2>4 DEF Fresh, Under
<1>4. CASE WalkStep
  <2>1. CASE pc' = "walk"
    BY <1>4, <2>1, FreshStep DEF Standing
  <2> QED BY <1>1, <2>1
<1>5. CASE WalkFails \/ WalkEnds \/ Read
  BY <1>1, <1>5 DEF WalkFails, WalkEnds, Read, Answers
<1>6. ASSUME NEW c \in Calls, Call(c) \/ Park(c) PROVE Fresh'
  <2>1. pc' # "walk" \/ (Exists(c.path) /\ Begin(c, FALSE) /\ UNCHANGED files)
    BY <1>6 DEF Call, Park, Missing
  <2> QED BY <1>1, <1>2, <2>1
<1>7. CASE ExecutePending
  <2>1. PICK c \in parked : (Exists(c.path) /\ Begin(c, TRUE)) \/ Missing(c, TRUE)
    BY <1>7 DEF ExecutePending
  <2>2. pc' # "walk" \/ (Exists(c.path) /\ Begin(c, TRUE) /\ UNCHANGED files)
    BY <1>7, <2>1 DEF ExecutePending, Missing
  <2>3. c \in Calls
    BY <2>1 DEF IInv, TypeOK
  <2> QED BY <1>1, <1>2, <2>2, <2>3
<1>8. CASE \/ Tell \/ Exit \/ (\E persist \in BOOLEAN : Approve(persist)) \/ Grant \/ Reply \/ Crash
           \/ (\E argv \in Commands : RunCommand(argv) \/ ParkCommand(argv))
  <2>1. pc' # "walk"
    BY <1>8 DEF Tell, Exit, Approve, Grant, Reply, Crash, RunCommand, ParkCommand
  <2> QED BY <1>1, <2>1
<1>9. CASE (\E p \in Loose : Vanish(p) \/ Appear(p)) \/ (\E p \in Targets : Retarget(p))
           \/ (\E p \in Turning : Turn(p))
  BY <1>3, <1>9 DEF Vanish, Appear, Retarget, Turn
<1>10. CASE UNCHANGED vars
  <2>1. UNCHANGED <<pc, turned, swapped, stack, cur, base>>
    BY <1>10 DEF vars, files, tree, call, history
  <2> QED BY <2>1 DEF Fresh, Under
<1> QED BY <1>4, <1>5, <1>6, <1>7, <1>8, <1>9, <1>10 DEF Next

\* What a call opens is below its base, or lies behind a directory that has turned
\* while there was something to open in it.
LEMMA OpensBelow ==
  ASSUME IInv, Fresh, NEW p \in Opens
  PROVE  Under(base, p) \/ \E d \in swapped : Under(d, Last(stack))
<1>1. pc = "walk" /\ cur \in Calls /\ (cur.op = "read" \/ stack # <<>>)
  BY DEF Opens, IInv, Based
<1>2. cur.op \in {"list", "search", "read"}
  BY <1>1, ReadToolsAssumption
<1>3. stack \in Seq(Below) /\ base \in Places /\ Below \subseteq Places
  BY <1>1, <1>2 DEF IInv, Based, Tool, Below
<1>4. cur.op = "read" => stack = <<base>> /\ stack # <<>> /\ Last(stack) = base
  <2>1. cur.op = "read" => stack = <<base>>
    BY <1>1 DEF Fresh
  <2>2. <<base>> # <<>> /\ Last(<<base>>) = base
    BY DEF Last
  <2> QED BY <2>1, <2>2
<1> DEFINE q == Last(stack)
<1>5. stack # <<>>
  BY <1>1, <1>4
<1>6. q \in Below /\ q \in ToSet(stack)
  <2>1. ToSet(stack) = ToSet(Front(stack)) \cup {Last(stack)} /\ Last(stack) \in Below
    BY <1>3, <1>5, Popped
  <2> QED BY <2>1
<1>7. p = IF cur.op = "search" THEN Lstat(q) ELSE Canon(q)
  <2>1. CASE cur.op = "list"
    <3>1. Opens = {Canon(q)}
      BY <1>1, <1>5, <2>1 DEF Opens
    <3> QED BY <2>1, <3>1
  <2>2. CASE cur.op = "search"
    <3>1. Opens = IF Lstat(q) \in turned THEN {} ELSE {Lstat(q)}
      BY <1>1, <1>5, <2>2 DEF Opens
    <3> QED BY <2>2, <3>1
  <2>3. CASE cur.op = "read"
    <3>1. Opens = {Canon(base)} /\ q = base
      BY <1>1, <1>4, <1>5, <2>3 DEF Opens
    <3> QED BY <2>3, <3>1
  <2> QED BY <1>2, <2>1, <2>2, <2>3
<1> HIDE DEF q
<1>8. q \in Places /\ Under(base, q) /\ TypeOK
  BY <1>3, <1>6 DEF Below, IInv
<1>9. \A d \in turned : Under(d, q) => d \in swapped \/ (cur.op = "search" /\ q = d)
  BY <1>1, <1>6 DEF Fresh
<1>10. CASE cur.op = "search"
  <2>1. p = Lstat(q)
    BY <1>7, <1>10
  <2>2. Lstat(q) = q \/ \E d \in turned : Under(d, q) /\ d # q
    BY <1>8, LstatIs
  <2>3. Lstat(q) = q \/ \E d \in swapped : Under(d, q)
    BY <1>9, <2>2
  <2> QED BY <1>8, <2>1, <2>3 DEF q
<1>11. CASE cur.op # "search"
  <2>1. p = Canon(q)
    BY <1>2, <1>7, <1>11
  <2>2. CASE \E d \in turned : Under(d, q)
    <3>1. \E d \in swapped : Under(d, q)
      BY <1>9, <1>11, <2>2
    <3> QED BY <3>1 DEF q
  <2>3. CASE Under(LinkAt, q)
    <3>1. q = LinkAt
      BY <1>8, <2>3, LinkAssumption
    <3>2. \E d \in swapped : Under(d, q)
      BY <1>1, <1>6, <1>11, <3>1 DEF Fresh
    <3> QED BY <3>2 DEF q
  <2>4. CASE ~Under(LinkAt, q) /\ ~\E d \in turned : Under(d, q)
    <3>1. Canon(q) = q
      BY <2>4 DEF Canon
    <3> QED BY <1>8, <2>1, <3>1
  <2> QED BY <2>2, <2>3, <2>4
<1> QED BY <1>10, <1>11

\* Whatever the tree, the rules, the calls and the changes between their steps:
\* what a tool reads outside the workspace, a rule on file named or the human has
\* approved for this very call, and only a directory that is replaced by a symlink
\* while it is queued leads a call elsewhere.
THEOREM ReachGranted == Spec => []ReachIsGranted
<1> DEFINE FInv == IInv /\ Standing /\ Fresh
<1>1. ASSUME IInv, Fresh PROVE ReachIsGranted
  <2>1. SUFFICES ASSUME pc \in {"walk", "answered"}, Tool, base # <<>>
                 PROVE  /\ Granted
                        /\ \A p \in Opens : Under(base, p) \/ \E d \in swapped : Under(d, Last(stack))
                        /\ cur.op = "list" => \A i \in DOMAIN out : Under(base, out[i])
                        /\ cur.op = "search" => \A i \in DOMAIN out : Under(base, out[i][1])
    BY DEF ReachIsGranted, Granted, Tool
  <2>2. /\ Granted
        /\ cur.op = "list" => out \in Seq(Below)
        /\ cur.op = "search" => out \in Seq(Below \X Nat)
    BY <1>1, <2>1 DEF IInv, Based
  <2>3. ASSUME out \in Seq(Below), NEW i \in DOMAIN out PROVE Under(base, out[i])
    <3>1. out[i] \in Below
      BY <2>3, LenProperties, ElementOfSeq
    <3> QED BY <3>1 DEF Below
  <2>4. ASSUME out \in Seq(Below \X Nat), NEW i \in DOMAIN out PROVE Under(base, out[i][1])
    <3>1. out[i] \in Below \X Nat
      BY <2>4, LenProperties, ElementOfSeq
    <3>2. out[i][1] \in Below
      BY <3>1
    <3> QED BY <3>2 DEF Below
  <2>5. \A p \in Opens : Under(base, p) \/ \E d \in swapped : Under(d, Last(stack))
    BY <1>1, OpensBelow
  <2> QED BY <2>2, <2>3, <2>4, <2>5
<1>2. Init => FInv
  <2>1. Init => Fresh
    BY DEF Init, Fresh
  <2> QED BY <2>1, WholeInit DEF WInv
<1>3. FInv /\ [Next]_vars => FInv'
  BY TypeNext, RootedNext, BasedNext, StandingNext, FreshNext DEF IInv
<1>4. FInv => ReachIsGranted
  BY <1>1
<1> HIDE DEF FInv
<1> QED BY <1>2, <1>3, <1>4, PTL DEF Spec

=============================================================================
