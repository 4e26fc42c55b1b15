--------------------------- MODULE AgentCore_proofs ---------------------------
(***************************************************************************)
(* The inductive invariant of AgentCore and what follows from it: no late  *)
(* event is taken for the current request, nothing runs unapproved, no     *)
(* call is forgotten, and a user turn keeps its limit of tool calls; then, *)
(* on top of it, what a request sends is well formed.                      *)
(***************************************************************************)
EXTENDS AgentCore, FiniteSetTheorems, WellFoundedInduction, SequenceTheorems, TLAPS

Items(s) == {s[i] : i \in DOMAIN s}

Ids == {f.id : f \in Fragments} \cup {<<"missing", i>> : i \in Index}
Fns == {"none", "read", "patch", "command"}
Kinds == {"tool", "preview", "apply", "exec"}
Slot == [id : Ids \cup {"none"}, fn : Fns, over : BOOLEAN]
Entry ==
  [id : Ids, fn : Fns, approval : {"not_required", "pending", "approved", "rejected"},
   outcome : {"none", "reported", "refused", "rejected"}, by : {<<>>} \cup (Nat \X Index)]
Jobs == [req : Nat, at : Index, id : Ids, kind : Kinds]

Shapes ==
  /\ slots \in [DOMAIN slots -> Slot] /\ results \in [DOMAIN results -> Entry]
  /\ jobs \subseteq Jobs /\ \A job \in jobs : job.req < nextId

\* The pending request is the last one minted; only a streaming one has slots,
\* only a tool phase has entries, and a tool phase may mint the next.
Current ==
  /\ req # NoRequest => req = nextId - 1
  /\ req = NoRequest \/ InTools => slots = Nothing
  /\ ~InTools => results = Nothing
  /\ InTools => nextId < MaxRequests

\* The ids of a reply are distinct, and none is made up for a call that has one.
SlotsOwn ==
  /\ \A i \in DOMAIN slots : slots[i].id = "none" \/ \A j \in Index : slots[i].id # <<"missing", j>>
  /\ \A i, j \in DOMAIN slots : slots[i].id = slots[j].id => i = j \/ slots[i].id = "none"

\* An entry that waits for the user has no outcome, and the ids are distinct.
Entries ==
  /\ \A i, j \in DOMAIN results : results[i].id = results[j].id => i = j
  /\ \A i \in DOMAIN results : results[i].approval = "pending" => results[i].outcome = "none"

\* A job of the current request is the only one of an entry that has no
\* outcome, and does not wait for the user.
JobsOwn ==
  /\ \A job \in jobs : job.req = req =>
       /\ job.at \in DOMAIN results /\ results[job.at].id = job.id
       /\ results[job.at].outcome = "none" /\ results[job.at].approval # "pending"
  /\ \A j, k \in jobs : j.req = req /\ k.req = req /\ j.at = k.at => j = k

\* A request that streams was sent with the whole conversation.
Sent ==
  /\ conv \in Seq(Items(conv)) /\ sent \in Seq(Nat) /\ Len(sent) = nextId
  /\ \A i \in DOMAIN conv : conv[i].role = "assistant" =>
       conv[i].by \in 0 .. nextId - 1 /\ sent[conv[i].by + 1] = i - 1
  /\ req # NoRequest /\ phase = "streaming" => sent[req + 1] = Len(conv)

\* A conversation that can be sent, and the entries R and jobs J of a tool phase
\* of the pending request.
Sendable(c) ==
  /\ c \in Seq(Items(c))
  /\ \A i \in DOMAIN c : c[i].role = "assistant" =>
       c[i].by \in 0 .. nextId - 1 /\ sent[c[i].by + 1] = i - 1
EntriesIn(R) ==
  /\ R \in [DOMAIN R -> Entry] /\ DOMAIN R \subseteq Index
  /\ \A i, j \in DOMAIN R : R[i].id = R[j].id => i = j
  /\ \A i \in DOMAIN R : R[i].approval = "pending" => R[i].outcome = "none"
  /\ \A i \in DOMAIN R : R[i].outcome = "reported" => R[i].by = <<req, i>>
JobsIn(R, J) ==
  /\ J \subseteq Jobs
  /\ \A job \in J : job.req < nextId
  /\ \A job \in J : job.req = req =>
       /\ job.at \in DOMAIN R /\ R[job.at].id = job.id
       /\ R[job.at].outcome = "none" /\ R[job.at].approval # "pending"
  /\ \A j, k \in J : j.req = req /\ k.req = req /\ j.at = k.at => j = k
CaredFor(R, J) ==
  \A i \in Unresolved(R) :
    \/ R[i].approval = "pending"
    \/ \E job \in J : job.req = req /\ job.at = i /\ job.id = R[i].id
ToolPhase(R, J) == EntriesIn(R) /\ JobsIn(R, J) /\ CaredFor(R, J)

IInv ==
  /\ TypeOK /\ Shapes /\ Current /\ SlotsOwn /\ Entries /\ JobsOwn /\ Sent
  /\ ResultsAreOwn /\ NothingForgotten

-----------------------------------------------------------------------------
\* A finite set of numbers has a greatest element.
LEMMA Greatest ==
  ASSUME NEW S, S \subseteq Int, IsFiniteSet(S), S # {}
  PROVE  \E m \in S : \A k \in S : k <= m
<1> DEFINE Above(i) == {k \in S : k > i}
           T == {Above(i) : i \in S}
<1>1. T \subseteq FiniteSubsetsOf(S) /\ T # {}
  <2>1. FiniteSubsetsOf(S) = SUBSET S
    BY FS_FiniteSubsetsOfFinite
  <2>2. PICK i \in S : TRUE
    OBVIOUS
  <2>3. Above(i) \in T
    BY <2>2
  <2>4. T \subseteq SUBSET S
    OBVIOUS
  <2> HIDE DEF T
  <2> QED BY <2>1, <2>3, <2>4
<1>2. PICK x \in T : \A y \in T : <<y, x>> \notin StrictSubsetOrdering(S)
  <2> HIDE DEF T
  <2>1. IsWellFoundedOn(StrictSubsetOrdering(S), FiniteSubsetsOf(S))
    BY FS_StrictSubsetOrderingWellFounded
  <2> QED BY <1>1, <2>1, WFMin, Zenon
<1>3. PICK m \in S : x = Above(m)
  BY <1>2
<1>4. ASSUME NEW k \in S, k > m PROVE FALSE
  <2> HIDE DEF T
  <2>1. Above(k) \subseteq Above(m) /\ k \in Above(m) /\ k \notin Above(k)
    <3>1. k \in Int /\ m \in Int /\ k > m
      BY <1>4
    <3>2. \A i \in Int : i > k => i > m
      BY <3>1
    <3>3. Above(k) \subseteq Above(m)
      BY <3>1, <3>2
    <3>4. k \in Above(m) /\ k \notin Above(k)
      BY <3>1
    <3> QED BY <3>3, <3>4
  <2>2. <<Above(k), x>> \in StrictSubsetOrdering(S)
    <3> HIDE DEF T
    <3>1. Above(k) \in SUBSET S /\ x \in SUBSET S /\ Above(k) # x
      BY <1>3, <2>1
    <3>2. Above(k) \subseteq x
      BY <1>3, <2>1
    <3> HIDE DEF Above
    <3> QED BY <3>1, <3>2 DEF StrictSubsetOrdering
  <2>3. Above(k) \in T
    BY DEF T
  <2> HIDE DEF Above
  <2> QED BY <1>2, <2>2, <2>3
<1>5. \A k \in S : k \in Int
  OBVIOUS
<1> QED BY <1>4, <1>5

\* If of the calls each is taken before which fewer than the rest of the limit
\* stand, the limit is kept.
LEMMA TakenBound ==
  ASSUME NEW fit, fit \subseteq Int, IsFiniteSet(fit), NEW spent \in Nat, NEW limit \in Nat, spent <= limit
  PROVE  spent + Cardinality({i \in fit : spent + Cardinality({j \in fit : j < i}) < limit}) \in 0 .. limit
<1> DEFINE Below(i) == {j \in fit : j < i}
           taken == {i \in fit : spent + Cardinality(Below(i)) < limit}
<1>1. IsFiniteSet(taken) /\ Cardinality(taken) \in Nat /\ taken \subseteq fit
  <2>1. taken \in SUBSET fit
    OBVIOUS
  <2> HIDE DEF taken
  <2> QED BY <2>1, FS_Subset, FS_CardinalityType
<1>2. CASE taken = {}
  <2> HIDE DEF taken
  <2>1. Cardinality(taken) = 0
    BY <1>2, FS_EmptySet
  <2>2. spent + Cardinality(taken) \in 0 .. limit
    BY <2>1
  <2> QED BY <2>2 DEF taken
<1>3. CASE taken # {}
  <2>1. PICK m \in taken : \A k \in taken : k <= m
    <3> HIDE DEF taken
    <3> QED BY <1>1, <1>3, Greatest
  <2>2. m \in fit /\ spent + Cardinality(Below(m)) < limit
    <3> HIDE DEF Below
    <3> QED BY <2>1
  <2>3. taken \subseteq Below(m) \cup {m} /\ m \notin Below(m)
    <3> HIDE DEF taken
    <3> QED BY <1>1, <2>1, <2>2
  <2>4. Below(m) \in SUBSET fit
    OBVIOUS
  <2> HIDE DEF taken, Below
  <2>5. IsFiniteSet(Below(m)) /\ Cardinality(Below(m)) \in Nat
    BY <2>4, FS_Subset, FS_CardinalityType
  <2>6. IsFiniteSet(Below(m) \cup {m}) /\ Cardinality(Below(m) \cup {m}) = Cardinality(Below(m)) + 1
    BY <2>3, <2>5, FS_AddElement
  <2>7. Cardinality(taken) <= Cardinality(Below(m)) + 1
    BY <2>3, <2>6, FS_Subset
  <2>8. spent + Cardinality(taken) \in 0 .. limit
    BY <1>1, <2>2, <2>5, <2>7
  <2> QED BY <2>8 DEF taken, Below
<1> QED BY <1>2, <1>3

-----------------------------------------------------------------------------
\* The conversation grows by a message, or by the answers to the calls.
LEMMA SendableAppend ==
  ASSUME NEW c, Sendable(c), NEW m,
         m.role = "assistant" => m.by \in 0 .. nextId - 1 /\ sent[m.by + 1] = Len(c)
  PROVE  Sendable(Append(c, m)) /\ Len(Append(c, m)) = Len(c) + 1 /\ Len(c) \in Nat
<1> DEFINE A == Items(c) \cup {m}
           d == Append(c, m)
<1>1. c \in Seq(A) /\ m \in A
  BY SeqMonotonic DEF Sendable
<1>2. /\ d \in Seq(A) /\ Len(d) = Len(c) + 1 /\ Len(c) \in Nat /\ DOMAIN c = 1 .. Len(c)
      /\ DOMAIN d = 1 .. Len(c) + 1 /\ d[Len(c) + 1] = m /\ \A i \in DOMAIN c : d[i] = c[i]
  <2> HIDE DEF A
  <2> QED BY <1>1
<1>3. A = Items(d)
  <2> HIDE DEF d
  <2> QED BY <1>2 DEF Items
<1> HIDE DEF A, d
<1>4. \A i \in DOMAIN d : d[i].role = "assistant" =>
        d[i].by \in 0 .. nextId - 1 /\ sent[d[i].by + 1] = i - 1
  BY <1>2 DEF Sendable
<1>5. Sendable(d)
  BY <1>2, <1>3, <1>4 DEF Sendable
<1> QED BY <1>2, <1>5 DEF d

LEMMA SendableAnswers ==
  ASSUME NEW c, Sendable(c), NEW R, IsFiniteSet(DOMAIN R)
  PROVE  Sendable(c \o Answers(R)) /\ Len(c \o Answers(R)) \in Nat
<1> DEFINE n == Cardinality(DOMAIN R)
           e == Answers(R)
           A == Items(c) \cup Items(e)
           d == c \o e
<1>1. n \in Nat
  BY FS_CardinalityType
<1>2. DOMAIN e = 1 .. n /\ \A k \in 1 .. n : e[k].role = "tool"
  BY DEF Answers, Tool
<1>3. e \in Seq(Items(e)) /\ Len(e) = n
  <2>1. e = [k \in 1 .. n |-> e[k]]
    BY DEF Answers
  <2> HIDE DEF e, n
  <2> QED BY <1>1, <1>2, <2>1 DEF Items
<1> HIDE DEF e, n
<1>4. c \in Seq(A) /\ e \in Seq(A)
  BY <1>3, SeqMonotonic DEF Sendable
<1>5. /\ d \in Seq(A) /\ Len(d) = Len(c) + n /\ Len(c) \in Nat /\ DOMAIN c = 1 .. Len(c)
      /\ DOMAIN d = 1 .. Len(c) + n /\ \A i \in DOMAIN c : d[i] = c[i]
      /\ \A k \in 1 .. n : d[Len(c) + k] = e[k]
  <2> HIDE DEF A
  <2> QED BY <1>1, <1>2, <1>3, <1>4
<1> HIDE DEF d
<1>6. \A i \in DOMAIN d : i \in DOMAIN c \/ \E k \in 1 .. n : i = Len(c) + k
  <2> SUFFICES ASSUME NEW i \in DOMAIN d, i \notin DOMAIN c PROVE i - Len(c) \in 1 .. n /\ i = Len(c) + (i - Len(c))
    OBVIOUS
  <2> QED BY <1>1, <1>5
<1>7. Items(d) = A
  <2>1. A \subseteq Items(d)
    <3>1. \A i \in DOMAIN c : i \in DOMAIN d
      BY <1>1, <1>5
    <3>2. \A k \in 1 .. n : Len(c) + k \in DOMAIN d
      BY <1>1, <1>5
    <3> QED BY <1>2, <1>5, <3>1, <3>2 DEF Items
  <2>2. Items(d) \subseteq A
    BY <1>2, <1>5, <1>6 DEF Items
  <2> QED BY <2>1, <2>2
<1> HIDE DEF A
<1>8. ASSUME NEW i \in DOMAIN d, d[i].role = "assistant"
      PROVE  d[i].by \in 0 .. nextId - 1 /\ sent[d[i].by + 1] = i - 1
  <2>1. i \in DOMAIN c
    <3> SUFFICES ASSUME i \notin DOMAIN c PROVE FALSE
      OBVIOUS
    <3>1. PICK k \in 1 .. n : i = Len(c) + k
      BY <1>6
    <3>2. d[i].role = "tool"
      BY <1>2, <1>5, <3>1
    <3> QED BY <1>8, <3>2
  <2> QED BY <1>5, <1>8, <2>1 DEF Sendable
<1>9. Sendable(d) /\ Len(d) \in Nat
  BY <1>1, <1>5, <1>7, <1>8 DEF Sendable
<1> QED BY <1>9 DEF d, e

-----------------------------------------------------------------------------
\* What the ways to go on after an event keep: minting a request, going idle,
\* and staying in the tool phase.
LEMMA StartOwn ==
  ASSUME IInv, NEW c, Sendable(c), Len(c) \in Nat, NEW s, s \subseteq 0 .. nextId - 1, nextId < MaxRequests,
         StartRequest(c, s), used' \in 0 .. TurnLimit, cut' \in BOOLEAN,
         jobs' \subseteq Jobs, \A job \in jobs' : job.req < nextId
  PROVE  IInv'
<1> USE DEF IInv, StartRequest
<1>1. nextId \in Nat /\ nextId' = nextId + 1 /\ req' = nextId /\ phase' = "streaming"
  BY AgentAssumption DEF TypeOK
<1>2. slots' = Nothing /\ results' = Nothing /\ DOMAIN slots' = {} /\ DOMAIN results' = {}
  BY DEF Nothing
<1>3. ~InTools'
  BY <1>1 DEF InTools
<1>4. TypeOK'
  BY <1>1, <1>2, <1>3, AgentAssumption DEF TypeOK, NoRequest
<1>5. Shapes'
  <2>1. slots' \in [DOMAIN slots' -> Slot] /\ results' \in [DOMAIN results' -> Entry]
    BY <1>2 DEF Nothing
  <2> QED BY <1>1, <2>1 DEF Shapes, Jobs
<1>6. Current'
  BY <1>1, <1>2, <1>3 DEF Current, NoRequest
<1>7. SlotsOwn' /\ Entries' /\ ResultsAreOwn' /\ NothingForgotten'
  BY <1>2, <1>3 DEF SlotsOwn, Entries, ResultsAreOwn, NothingForgotten
<1>8. JobsOwn'
  BY <1>1, <1>2 DEF JobsOwn, Jobs
<1>9. Sent'
  <2>1. conv' = c /\ sent' = Append(sent, Len(c)) /\ sent \in Seq(Nat) /\ Len(sent) = nextId
    BY DEF Sent
  <2>2. sent' \in Seq(Nat) /\ Len(sent') = nextId + 1 /\ sent'[nextId + 1] = Len(c)
        /\ \A k \in 1 .. nextId : sent'[k] = sent[k]
    BY <1>1, <2>1
  <2>3. ASSUME NEW i \in DOMAIN c, c[i].role = "assistant"
        PROVE  c[i].by \in 0 .. nextId' - 1 /\ sent'[c[i].by + 1] = i - 1
    <3>1. c[i].by \in 0 .. nextId - 1 /\ sent[c[i].by + 1] = i - 1
      BY <2>3 DEF Sendable
    <3>2. c[i].by + 1 \in 1 .. nextId
      BY <1>1, <3>1
    <3> QED BY <1>1, <2>2, <3>1, <3>2
  <2>4. conv' \in Seq(Items(conv'))
    BY <2>1 DEF Sendable
  <2> QED BY <1>1, <2>1, <2>2, <2>3, <2>4 DEF Sent
<1> QED BY <1>4, <1>5, <1>6, <1>7, <1>8, <1>9

LEMMA IdleOwn ==
  ASSUME IInv, GoIdle, Sendable(conv'), streams' \subseteq streams, cut' \in BOOLEAN
  PROVE  IInv'
<1> USE DEF IInv, GoIdle
<1>1. slots' = Nothing /\ results' = Nothing /\ DOMAIN slots' = {} /\ DOMAIN results' = {}
  BY DEF Nothing
<1>2. ~InTools' /\ req' = NoRequest /\ nextId' = nextId /\ nextId \in Nat /\ jobs' = jobs /\ sent' = sent
  BY AgentAssumption DEF InTools, TypeOK
<1>3. TypeOK'
  BY <1>1, <1>2, AgentAssumption DEF TypeOK
<1>4. Shapes'
  <2>1. slots' \in [DOMAIN slots' -> Slot] /\ results' \in [DOMAIN results' -> Entry]
    BY <1>1 DEF Nothing
  <2> QED BY <1>2, <2>1 DEF Shapes
<1>5. Current'
  BY <1>1, <1>2 DEF Current
<1>6. SlotsOwn' /\ Entries' /\ ResultsAreOwn' /\ NothingForgotten'
  BY <1>1, <1>2 DEF SlotsOwn, Entries, ResultsAreOwn, NothingForgotten
<1>7. JobsOwn'
  <2>1. \A job \in jobs : job.req \in Nat
    BY DEF Shapes, Jobs
  <2> QED BY <1>1, <1>2, <2>1 DEF JobsOwn, NoRequest
<1>8. Sent'
  BY <1>2 DEF Sent, Sendable
<1> QED BY <1>3, <1>4, <1>5, <1>6, <1>7, <1>8

LEMMA RecomputeOwn ==
  ASSUME IInv, req # NoRequest, nextId < MaxRequests, NEW R, ToolPhase(R, jobs'), Recompute(R),
         Unresolved(R) # {}, Sendable(conv'), streams' \subseteq streams,
         used' \in 0 .. TurnLimit, cut' \in BOOLEAN
  PROVE  IInv'
<1> USE DEF IInv, Recompute
<1>1. /\ slots' = Nothing /\ DOMAIN slots' = {} /\ results' = R /\ nextId' = nextId /\ nextId \in Nat
      /\ req' = req /\ sent' = sent /\ req \in 0 .. nextId - 1
  BY AgentAssumption DEF Nothing, TypeOK
<1>2. phase' \in {"tool_running", "awaiting_approval"} /\ status' = phase' /\ InTools'
  BY <1>1 DEF InTools
<1>3. TypeOK'
  BY <1>1, <1>2, AgentAssumption DEF TypeOK, ToolPhase, EntriesIn
<1>4. Shapes'
  <2>1. slots' \in [DOMAIN slots' -> Slot]
    BY <1>1 DEF Nothing
  <2> QED BY <1>1, <2>1 DEF Shapes, ToolPhase, EntriesIn, JobsIn
<1>5. Current'
  BY <1>1, <1>2 DEF Current
<1>6. SlotsOwn' /\ Entries' /\ ResultsAreOwn' /\ NothingForgotten'
  <2>1. SlotsOwn'
    BY <1>1 DEF SlotsOwn
  <2>2. Entries' /\ ResultsAreOwn'
    BY <1>1 DEF Entries, ResultsAreOwn, ToolPhase, EntriesIn
  <2>3. NothingForgotten'
    BY <1>1 DEF NothingForgotten, ToolPhase, CaredFor, Unresolved
  <2> QED BY <2>1, <2>2, <2>3
<1>7. JobsOwn'
  BY <1>1 DEF JobsOwn, ToolPhase, JobsIn
<1>8. Sent'
  BY <1>1, <1>2 DEF Sent, Sendable
<1> QED BY <1>3, <1>4, <1>5, <1>6, <1>7, <1>8

LEMMA SettleOwn ==
  ASSUME IInv, req # NoRequest, nextId < MaxRequests, NEW c, Sendable(c),
         NEW s, s \subseteq streams, NEW R, ToolPhase(R, jobs'), Settle(c, R, s),
         used' \in 0 .. TurnLimit, cut' \in BOOLEAN
  PROVE  IInv'
<1>1. CASE Unresolved(R) # {} /\ Recompute(R) /\ conv' = c /\ streams' = s
  <2>1. Sendable(conv')
    BY <1>1
  <2> QED BY <1>1, <2>1, RecomputeOwn
<1>2. CASE StartRequest(c \o Answers(R), s)
  <2>1. IsFiniteSet(DOMAIN R)
    BY AgentAssumption, FS_Subset DEF ToolPhase, EntriesIn
  <2>2. Sendable(c \o Answers(R)) /\ Len(c \o Answers(R)) \in Nat
    BY <2>1, SendableAnswers
  <2>3. s \subseteq 0 .. nextId - 1
    BY DEF IInv, TypeOK
  <2>4. jobs' \subseteq Jobs /\ \A job \in jobs' : job.req < nextId
    BY DEF ToolPhase, JobsIn
  <2> QED BY <1>2, <2>2, <2>3, <2>4, StartOwn
<1> QED BY <1>1, <1>2 DEF Settle

-----------------------------------------------------------------------------
\* The parts of the invariant the steps begin from.
LEMMA Before ==
  ASSUME IInv
  PROVE  /\ Sendable(conv) /\ nextId \in Nat /\ used \in 0 .. TurnLimit /\ cut \in BOOLEAN
         /\ InTools => req # NoRequest /\ nextId < MaxRequests /\ ToolPhase(results, jobs)
         /\ req # NoRequest /\ phase = "streaming" => \A job \in jobs : job.req # req
         /\ jobs \subseteq Jobs /\ \A job \in jobs : job.req < nextId
<1> USE DEF IInv
<1>1. nextId \in Nat /\ used \in 0 .. TurnLimit /\ cut \in BOOLEAN
  BY AgentAssumption DEF TypeOK
<1>2. Sendable(conv)
  BY DEF Sent, Sendable
<1>3. jobs \subseteq Jobs /\ \A job \in jobs : job.req < nextId
  BY DEF Shapes
<1>4. ASSUME InTools PROVE req # NoRequest /\ nextId < MaxRequests /\ ToolPhase(results, jobs)
  <2>1. req # NoRequest /\ nextId < MaxRequests
    BY <1>4 DEF InTools, Current
  <2>2. EntriesIn(results)
    BY DEF EntriesIn, Shapes, TypeOK, Entries, ResultsAreOwn
  <2>3. JobsIn(results, jobs)
    BY <1>3 DEF JobsIn, JobsOwn
  <2>4. CaredFor(results, jobs)
    BY <1>4 DEF CaredFor, NothingForgotten
  <2> QED BY <2>1, <2>2, <2>3, <2>4 DEF ToolPhase
<1>5. ASSUME req # NoRequest, phase = "streaming", NEW job \in jobs PROVE job.req # req
  <2>1. DOMAIN results = {}
    BY <1>5 DEF InTools, Current, Nothing
  <2> QED BY <2>1 DEF JobsOwn
<1> QED BY <1>1, <1>2, <1>3, <1>4, <1>5

LEMMA InvInit == Init => IInv
<1> SUFFICES ASSUME Init PROVE IInv
  OBVIOUS
<1> USE DEF Init
<1>1. DOMAIN slots = {} /\ DOMAIN results = {}
  BY DEF Nothing
<1>2. ~InTools
  BY DEF InTools
<1>3. TypeOK
  <2>1. TurnLimit \in Nat /\ MaxRequests \in Nat
    BY AgentAssumption
  <2>2. used \in 0 .. TurnLimit /\ nextId \in 0 .. MaxRequests /\ streams \subseteq 0 .. nextId - 1
    BY <2>1
  <2> QED BY <1>1, <1>2, <2>2 DEF TypeOK
<1>4. Shapes
  BY <1>1 DEF Shapes, Nothing
<1>5. Current /\ SlotsOwn /\ Entries /\ ResultsAreOwn /\ NothingForgotten
  BY <1>1, <1>2 DEF Current, SlotsOwn, Entries, ResultsAreOwn, NothingForgotten
<1>6. JobsOwn /\ Sent
  <2>1. <<>> \in Seq(Items(<<>>)) /\ <<>> \in Seq(Nat) /\ Len(<<>>) = 0 /\ DOMAIN <<>> = {}
    OBVIOUS
  <2> QED BY <2>1 DEF JobsOwn, Sent
<1> QED BY <1>3, <1>4, <1>5, <1>6 DEF IInv

-----------------------------------------------------------------------------
\* Prompts, cancels and timeouts.
LEMMA PromptOwn == IInv /\ UserMessage => IInv'
<1> SUFFICES ASSUME IInv, UserMessage PROVE IInv'
  OBVIOUS
<1>1. User.role # "assistant"
  BY DEF User
<1>2. Sendable(Append(conv, User)) /\ Len(Append(conv, User)) \in Nat
  BY <1>1, Before, SendableAppend
<1>3. /\ StartRequest(Append(conv, User), streams) /\ nextId < MaxRequests
      /\ used' \in 0 .. TurnLimit /\ cut' \in BOOLEAN /\ jobs' = jobs
  BY Before, AgentAssumption DEF UserMessage
<1>4. streams \subseteq 0 .. nextId - 1
  BY DEF IInv, TypeOK
<1> QED BY <1>2, <1>3, <1>4, Before, StartOwn

LEMMA GivenUpOwn ==
  ASSUME IInv, Cancel \/ Timeout \/ \E r \in streams : TransportError(r)
  PROVE  IInv'
<1>1. GoIdle /\ conv' = conv /\ streams' \subseteq streams /\ cut' \in BOOLEAN
  <2>1. CASE Cancel
    BY <2>1, Before DEF Cancel, InTools
  <2>2. CASE Timeout
    BY <2>2, Before DEF Timeout
  <2>3. CASE \E r \in streams : TransportError(r)
    BY <2>3, Before DEF TransportError
  <2> QED BY <2>1, <2>2, <2>3
<1>2. Sendable(conv')
  BY <1>1, Before
<1> QED BY <1>1, <1>2, IdleOwn

-----------------------------------------------------------------------------
\* The reply streams in.
LEMMA DeltaOwn ==
  ASSUME IInv, NEW r \in streams, ContentDelta(r) \/ \E i \in Index, f \in Fragments : ToolCallDelta(r, i, f)
  PROVE  IInv'
<1>1. /\ req # NoRequest /\ phase = "streaming" /\ status' = "streaming" /\ ~InTools
      /\ UNCHANGED <<conv, req, phase, results, nextId, used, streams, jobs, sent, cut>>
  <2>1. Streaming(r) /\ status' = "streaming" /\ UNCHANGED <<conv, req, phase, results, nextId, used, streams, jobs, sent, cut>>
    BY DEF ContentDelta, ToolCallDelta, shell, hist
  <2>2. r \in 0 .. nextId - 1
    BY DEF IInv, TypeOK
  <2>3. r # NoRequest
    BY <2>2, Before DEF NoRequest
  <2> QED BY <2>1, <2>3 DEF Streaming, InTools
<1>2. DOMAIN slots' \subseteq Index /\ slots' \in [DOMAIN slots' -> Slot] /\ SlotsOwn'
  <2>1. CASE ContentDelta(r)
    BY <2>1 DEF ContentDelta, IInv, TypeOK, Shapes, SlotsOwn
  <2>2. CASE \E i \in Index, f \in Fragments : ToolCallDelta(r, i, f)
    <3>1. PICK i \in Index, f \in Fragments : ToolCallDelta(r, i, f)
      BY <2>2
    <3> DEFINE old == IF i \in DOMAIN slots THEN slots[i] ELSE EmptySlot
               m == Merge(old, f)
    <3>2. old \in Slot /\ f.fn \in Fns /\ f.over \in BOOLEAN /\ f.id \in Ids
      BY AgentAssumption DEF IInv, Shapes, EmptySlot, Slot, Fns, Ids
    <3>3. m \in Slot /\ m.id = IF old.id = "none" THEN f.id ELSE old.id
      BY <3>2 DEF Merge, Slot
    <3>4. slots' = [j \in DOMAIN slots \cup {i} |-> IF j # i THEN slots[j] ELSE m]
      BY <3>1 DEF ToolCallDelta
    <3>5. old.id = "none" \/ (i \in DOMAIN slots /\ old = slots[i])
      BY DEF EmptySlot
    <3>6. f.id = "none" \/ \A j \in Index : f.id # <<"missing", j>>
      BY AgentAssumption
    <3>7. \A j \in DOMAIN slots \ {i} : f.id # "none" => slots[j].id # f.id
      BY <3>1 DEF ToolCallDelta
    <3> HIDE DEF m, old
    <3>8. DOMAIN slots' = DOMAIN slots \cup {i} /\ slots'[i] = m /\ \A j \in DOMAIN slots \ {i} : slots'[j] = slots[j]
      BY <3>4
    <3>9. DOMAIN slots' \subseteq Index /\ slots' \in [DOMAIN slots' -> Slot]
      BY <3>3, <3>4 DEF IInv, TypeOK, Shapes
    <3>10. ASSUME NEW j \in DOMAIN slots' PROVE slots'[j].id = "none" \/ \A k \in Index : slots'[j].id # <<"missing", k>>
      <4>1. CASE j = i
        BY <3>3, <3>5, <3>6, <3>8, <4>1 DEF IInv, SlotsOwn
      <4>2. CASE j # i
        BY <3>8, <4>2 DEF IInv, SlotsOwn
      <4> QED BY <4>1, <4>2
    <3>11. ASSUME NEW j \in DOMAIN slots', NEW k \in DOMAIN slots', slots'[j].id = slots'[k].id
           PROVE  j = k \/ slots'[j].id = "none"
      <4>1. ASSUME NEW l \in DOMAIN slots \ {i}, slots[l].id = m.id PROVE m.id = "none"
        BY <3>3, <3>5, <3>7, <4>1 DEF IInv, SlotsOwn
      <4>2. \A l, n \in DOMAIN slots : slots[l].id = slots[n].id => l = n \/ slots[l].id = "none"
        BY DEF IInv, SlotsOwn
      <4> QED BY <3>8, <3>11, <4>1, <4>2
    <3> QED BY <3>9, <3>10, <3>11 DEF SlotsOwn
  <2> QED BY <2>1, <2>2
<1>3. ~InTools'
  BY <1>1 DEF InTools
<1>4. TypeOK'
  BY <1>1, <1>2, <1>3 DEF IInv, TypeOK, NoRequest
<1>5. Shapes' /\ Current' /\ Entries' /\ ResultsAreOwn' /\ NothingForgotten' /\ JobsOwn' /\ Sent'
  <2>1. Shapes' /\ Current'
    BY <1>1, <1>2, <1>3 DEF IInv, Shapes, Current, NoRequest
  <2>2. Entries' /\ ResultsAreOwn' /\ NothingForgotten' /\ JobsOwn' /\ Sent'
    BY <1>1, <1>3 DEF IInv, Entries, ResultsAreOwn, NothingForgotten, JobsOwn, Sent
  <2> QED BY <2>1, <2>2
<1> QED BY <1>2, <1>4, <1>5 DEF IInv

\* The reply is committed right behind the messages of its request.
LEMMA CommitSendable ==
  ASSUME IInv, NEW r \in streams, Streaming(r), NEW ids
  PROVE  /\ Sendable(Append(conv, Assistant(r, ids)))
         /\ req # NoRequest /\ r = req /\ ~InTools /\ nextId \in Nat
<1>1. r \in 0 .. nextId - 1 /\ r = req /\ phase = "streaming"
  BY DEF IInv, TypeOK, Streaming
<1>2. nextId \in Nat /\ Sendable(conv)
  BY Before
<1>3. r # NoRequest /\ ~InTools
  BY <1>1, <1>2 DEF NoRequest, InTools
<1>4. sent[r + 1] = Len(conv)
  BY <1>1, <1>3 DEF IInv, Sent
<1>5. Assistant(r, ids).by = r
  BY DEF Assistant
<1> QED BY <1>1, <1>2, <1>3, <1>4, <1>5, SendableAppend

LEMMA FinishTextOwn ==
  ASSUME IInv, NEW r \in streams, FinishText(r)
  PROVE  IInv'
<1>1. Sendable(Append(conv, Assistant(r, <<>>)))
  BY CommitSendable DEF FinishText
<1>2. Sendable(conv') /\ GoIdle /\ streams' \subseteq streams /\ cut' \in BOOLEAN
  <2>1. /\ conv' = Append(conv, Assistant(r, <<>>)) /\ GoIdle /\ streams' = streams \ {r}
        /\ cut' = cut
    BY DEF FinishText
  <2> QED BY <1>1, <2>1, Before
<1> QED BY <1>2, IdleOwn

\* The calls taken on: each has a job or waits for the user, the rest have
\* their outcome.
LEMMA AcceptedBound ==
  ASSUME IInv, NEW parsed
  PROVE  /\ Accepted(parsed) \subseteq {i \in DOMAIN slots : i \in parsed}
         /\ used + Cardinality(Accepted(parsed)) \in 0 .. TurnLimit
<1> DEFINE fit == {i \in DOMAIN slots : ~slots[i].over /\ i \in parsed}
<1>1. fit \in SUBSET Index /\ IsFiniteSet(Index) /\ Index \subseteq Nat
  BY AgentAssumption DEF IInv, TypeOK
<1>2. IsFiniteSet(fit) /\ fit \subseteq Int
  <2> HIDE DEF fit
  <2>1. IsFiniteSet(fit)
    BY <1>1, FS_Subset
  <2>2. fit \subseteq Int
    BY <1>1
  <2> QED BY <2>1, <2>2
<1>3. used \in Nat /\ TurnLimit \in Nat /\ used <= TurnLimit
  BY Before, AgentAssumption
<1>4. Accepted(parsed) = {i \in fit : used + Cardinality({j \in fit : j < i}) < TurnLimit}
  BY DEF Accepted
<1>5. Accepted(parsed) \subseteq {i \in DOMAIN slots : i \in parsed}
  BY <1>4
<1> HIDE DEF fit
<1>6. used + Cardinality({i \in fit : used + Cardinality({j \in fit : j < i}) < TurnLimit}) \in 0 .. TurnLimit
  BY <1>2, <1>3, TakenBound
<1> QED BY <1>4, <1>5, <1>6

LEMMA FinishToolCallsOwn ==
  ASSUME IInv, NEW r \in streams, FinishToolCalls(r)
  PROVE  IInv'
<1>1. PICK parsed \in SUBSET {i \in DOMAIN slots : slots[i].fn # "none"} :
        LET taken == Accepted(parsed) IN
        /\ jobs' = jobs \cup {Job(i, CallId(i), "tool") : i \in {j \in taken : slots[j].fn = "read"}}
                        \cup {Job(i, CallId(i), "preview") : i \in {j \in taken : slots[j].fn = "patch"}}
        /\ used' = used + Cardinality(taken)
        /\ Settle(Append(conv, Assistant(r, CallIds)), [i \in DOMAIN slots |-> Call(i, taken)], streams \ {r})
  BY DEF FinishToolCalls
<1> DEFINE taken == Accepted(parsed)
           R == [i \in DOMAIN slots |-> Call(i, taken)]
<1>2. nextId < MaxRequests /\ cut' = cut /\ Streaming(r)
  BY DEF FinishToolCalls
<1>3. /\ Sendable(Append(conv, Assistant(r, CallIds))) /\ req # NoRequest /\ r = req /\ nextId \in Nat
  BY <1>2, CommitSendable
<1>4. /\ taken \subseteq DOMAIN slots /\ used' \in 0 .. TurnLimit
      /\ \A i \in taken : slots[i].fn \in {"read", "patch", "command"}
  <2>1. taken \subseteq {i \in DOMAIN slots : i \in parsed} /\ used + Cardinality(taken) \in 0 .. TurnLimit
    BY AcceptedBound
  <2>2. \A i \in taken : slots[i].fn \in Fns /\ slots[i].fn # "none"
    BY <1>1, <2>1 DEF IInv, Shapes, Slot
  <2> HIDE DEF taken
  <2>3. used' \in 0 .. TurnLimit
    BY <1>1, <2>1 DEF taken
  <2> QED BY <2>1, <2>2, <2>3 DEF Fns
<1>5. ASSUME NEW i \in DOMAIN slots
      PROVE  CallId(i) \in Ids /\ i \in Index /\ \A j \in DOMAIN slots : CallId(i) = CallId(j) => i = j
  <2>1. DOMAIN slots \subseteq Index /\ slots[i].id \in Ids \cup {"none"}
    BY DEF IInv, TypeOK, Shapes, Slot
  <2>2. CallId(i) \in Ids
    BY <2>1 DEF CallId, Ids
  <2>3. ASSUME NEW j \in DOMAIN slots, CallId(i) = CallId(j) PROVE i = j
    <3>1. \A k \in DOMAIN slots : slots[k].id = "none" \/ \A l \in Index : slots[k].id # <<"missing", l>>
      BY DEF IInv, SlotsOwn
    <3>2. slots[i].id = slots[j].id => i = j \/ slots[i].id = "none"
      BY DEF IInv, SlotsOwn
    <3>3. CASE slots[i].id = "none" /\ slots[j].id = "none"
      <4>1. <<"missing", i>> = <<"missing", j>>
        BY <2>3, <3>3 DEF CallId
      <4> QED BY <4>1
    <3>4. CASE slots[i].id = "none" /\ slots[j].id # "none"
      BY <2>1, <2>3, <3>1, <3>4 DEF CallId
    <3>5. CASE slots[i].id # "none" /\ slots[j].id = "none"
      BY <2>1, <2>3, <3>1, <3>5 DEF CallId
    <3>6. CASE slots[i].id # "none" /\ slots[j].id # "none"
      BY <2>3, <3>2, <3>6 DEF CallId
    <3> QED BY <3>3, <3>4, <3>5, <3>6
  <2> QED BY <2>1, <2>2, <2>3
<1> HIDE DEF taken
<1>6. /\ DOMAIN R = DOMAIN slots
      /\ \A i \in DOMAIN slots :
           /\ R[i] \in Entry /\ R[i].id = CallId(i)
           /\ R[i].approval = IF i \in taken /\ slots[i].fn = "command" THEN "pending" ELSE "not_required"
           /\ R[i].outcome = IF i \in taken THEN "none" ELSE "refused"
  <2>1. \A i \in DOMAIN slots : slots[i].fn \in Fns
    BY DEF IInv, Shapes, Slot
  <2> QED BY <1>5, <2>1 DEF Call, Entry
<1> HIDE DEF R
<1>7. EntriesIn(R)
  <2>1. R \in [DOMAIN R -> Entry]
    <3>1. R = [i \in DOMAIN R |-> R[i]]
      BY <1>6 DEF R
    <3> QED BY <1>6, <3>1
  <2>2. DOMAIN R \subseteq Index /\ \A i, j \in DOMAIN R : R[i].id = R[j].id => i = j
    BY <1>5, <1>6
  <2>3. \A i \in DOMAIN R : (R[i].approval = "pending" => R[i].outcome = "none") /\ R[i].outcome # "reported"
    BY <1>6
  <2> QED BY <2>1, <2>2, <2>3 DEF EntriesIn
<1>8. /\ \A job \in jobs : job \in Jobs /\ job.req < nextId /\ job.req # req
      /\ \A job \in jobs' \ jobs : \E i \in taken, kind \in {"tool", "preview"} :
           /\ job = [req |-> req, at |-> i, id |-> CallId(i), kind |-> kind]
           /\ kind = IF slots[i].fn = "read" THEN "tool" ELSE "preview"
           /\ slots[i].fn # "command"
      /\ \A i \in taken : slots[i].fn = "command" \/ \E job \in jobs' : job.req = req /\ job.at = i /\ job.id = CallId(i)
  <2>1. \A job \in jobs : job \in Jobs /\ job.req < nextId /\ job.req # req
    BY <1>2, <1>3, Before DEF Streaming
  <2>2. jobs' = jobs \cup {Job(i, CallId(i), "tool") : i \in {j \in taken : slots[j].fn = "read"}}
                     \cup {Job(i, CallId(i), "preview") : i \in {j \in taken : slots[j].fn = "patch"}}
    BY <1>1 DEF taken
  <2>3. ASSUME NEW job \in jobs' \ jobs
        PROVE  \E i \in taken, kind \in {"tool", "preview"} :
                 /\ job = [req |-> req, at |-> i, id |-> CallId(i), kind |-> kind]
                 /\ kind = IF slots[i].fn = "read" THEN "tool" ELSE "preview"
                 /\ slots[i].fn # "command"
    BY <2>2 DEF Job
  <2>4. ASSUME NEW i \in taken, slots[i].fn # "command"
        PROVE  \E job \in jobs' : job.req = req /\ job.at = i /\ job.id = CallId(i)
    <3>1. CASE slots[i].fn = "read"
      <4>1. Job(i, CallId(i), "tool") \in jobs'
        BY <2>2, <3>1
      <4> QED BY <4>1 DEF Job
    <3>2. CASE slots[i].fn = "patch"
      <4>1. Job(i, CallId(i), "preview") \in jobs'
        BY <2>2, <3>2
      <4> QED BY <4>1 DEF Job
    <3> QED BY <1>4, <2>4, <3>1, <3>2
  <2> QED BY <2>1, <2>3, <2>4
<1>9. req \in Nat /\ req < nextId
  BY <1>2, <1>3 DEF IInv, TypeOK, NoRequest
<1>10. JobsIn(R, jobs')
  <2>1. ASSUME NEW job \in jobs' PROVE job \in Jobs /\ job.req < nextId
    BY <1>4, <1>5, <1>8, <1>9 DEF Jobs, Kinds
  <2>2. ASSUME NEW job \in jobs', job.req = req
        PROVE  /\ job.at \in DOMAIN R /\ R[job.at].id = job.id
               /\ R[job.at].outcome = "none" /\ R[job.at].approval # "pending"
    BY <1>4, <1>6, <1>8, <2>2
  <2>3. ASSUME NEW j \in jobs', NEW k \in jobs', j.req = req, k.req = req, j.at = k.at PROVE j = k
    BY <1>8, <2>3
  <2> QED BY <2>1, <2>2, <2>3 DEF JobsIn
<1>11. CaredFor(R, jobs')
  BY <1>6, <1>8 DEF CaredFor, Unresolved
<1>12. Settle(Append(conv, Assistant(r, CallIds)), R, streams \ {r}) /\ cut' \in BOOLEAN
  BY <1>1, <1>2, Before DEF R, taken
<1>13. ToolPhase(R, jobs')
  BY <1>7, <1>10, <1>11 DEF ToolPhase
<1> QED BY <1>2, <1>3, <1>4, <1>12, <1>13, SettleOwn

-----------------------------------------------------------------------------
\* The tool loop.  One entry i becomes e, and its job, if it had one, may go.
LEMMA EntryChanges ==
  ASSUME IInv, InTools, NEW i \in DOMAIN results, NEW e \in Entry, e.id = results[i].id,
         e.approval = "pending" => e.outcome = "none", e.outcome = "reported" => e.by = <<req, i>>,
         NEW J, JobsIn([results EXCEPT ![i] = e], J),
         \A job \in jobs : job.at # i => job \in J,
         \/ e.outcome # "none" \/ e.approval = "pending"
         \/ \E job \in J : job.req = req /\ job.at = i /\ job.id = e.id
  PROVE  ToolPhase([results EXCEPT ![i] = e], J)
<1> DEFINE R == [results EXCEPT ![i] = e]
<1>1. EntriesIn(results) /\ CaredFor(results, jobs)
  BY Before DEF ToolPhase
<1>2. /\ R \in [DOMAIN R -> Entry] /\ DOMAIN R = DOMAIN results /\ R[i] = e
      /\ \A j \in DOMAIN results : j # i => R[j] = results[j]
  BY <1>1 DEF EntriesIn
<1> HIDE DEF R
<1>3. EntriesIn(R)
  <2>1. \A j, k \in DOMAIN R : R[j].id = R[k].id => j = k
    <3>1. \A j \in DOMAIN R : R[j].id = results[j].id
      BY <1>2
    <3> QED BY <1>1, <1>2, <3>1 DEF EntriesIn
  <2> QED BY <1>1, <1>2, <2>1 DEF EntriesIn
<1>4. CaredFor(R, J)
  <2> SUFFICES ASSUME NEW j \in DOMAIN R, R[j].outcome = "none"
               PROVE  \/ R[j].approval = "pending"
                      \/ \E job \in J : job.req = req /\ job.at = j /\ job.id = R[j].id
    BY DEF CaredFor, Unresolved
  <2>1. CASE j = i
    BY <1>2, <2>1
  <2>2. CASE j # i
    <3>1. \/ R[j].approval = "pending"
          \/ \E job \in jobs : job.req = req /\ job.at = j /\ job.id = R[j].id
      BY <1>1, <1>2, <2>2 DEF CaredFor, Unresolved
    <3> QED BY <2>2, <3>1
  <2> QED BY <2>1, <2>2
<1> QED BY <1>3, <1>4 DEF ToolPhase, R

\* Jobs of other entries do not mind a change of entry i.
LEMMA JobsStay ==
  ASSUME IInv, InTools, NEW i \in DOMAIN results, NEW e,
         NEW J, J \subseteq jobs, \A job \in J : job.req = req => job.at # i
  PROVE  JobsIn([results EXCEPT ![i] = e], J)
<1> DEFINE R == [results EXCEPT ![i] = e]
<1>1. JobsIn(results, jobs)
  BY Before DEF ToolPhase
<1>2. DOMAIN R = DOMAIN results /\ \A j \in DOMAIN results : j # i => R[j] = results[j]
  BY DEF IInv, Shapes
<1> HIDE DEF R
<1>3. JobsIn(R, J)
  BY <1>1, <1>2 DEF JobsIn
<1> QED BY <1>3 DEF R

\* A report is taken for the entry its job was handed out for.
LEMMA OwnEntry ==
  ASSUME IInv, NEW job \in jobs, NEW i \in DOMAIN results, Matches(job, i)
  PROVE  /\ InTools /\ job.req = req /\ job.at = i /\ results[i] \in Entry
         /\ results[i].outcome = "none" /\ results[i].approval # "pending"
         /\ i \in Index /\ req \in Nat
         /\ \A other \in jobs \ {job} : other.req = req => other.at # i
         /\ \A other \in jobs : other.at # i => other \in jobs \ {job}
<1>1. InTools /\ job.req = req /\ results[i].id = job.id /\ results[i].outcome = "none"
  BY DEF Matches
<1>2. EntriesIn(results) /\ JobsIn(results, jobs)
  BY <1>1, Before DEF ToolPhase
<1>3. job.at \in DOMAIN results /\ results[job.at].id = job.id /\ results[job.at].approval # "pending"
  BY <1>1, <1>2 DEF JobsIn
<1>4. job.at = i
  BY <1>1, <1>2, <1>3 DEF EntriesIn
<1>5. \A other \in jobs \ {job} : other.req = req => other.at # i
  BY <1>1, <1>2, <1>4 DEF JobsIn
<1>6. results[i] \in Entry /\ i \in Index
  BY <1>2 DEF EntriesIn
<1>7. req \in Nat
  BY <1>1, <1>2 DEF JobsIn, Jobs
<1> QED BY <1>1, <1>3, <1>4, <1>5, <1>6, <1>7

LEMMA ToolResultOwn ==
  ASSUME IInv, NEW job \in jobs, ToolResult(job)
  PROVE  IInv'
<1>1. PICK i \in DOMAIN results :
        /\ Matches(job, i)
        /\ Settle(conv, [results EXCEPT ![i].outcome = "reported", ![i].by = <<job.req, job.at>>], streams)
  BY DEF ToolResult, First
<1>2. jobs' = jobs \ {job} /\ used' = used /\ cut' = cut
  BY DEF ToolResult
<1> DEFINE e == [results[i] EXCEPT !.outcome = "reported", !.by = <<req, i>>]
           R == [results EXCEPT ![i] = e]
<1>3. e \in Entry /\ e.id = results[i].id /\ e.outcome = "reported" /\ e.by = <<req, i>> /\ e.approval # "pending"
  <2>1. results[i] \in Entry /\ results[i].approval # "pending" /\ i \in Index /\ req \in Nat
    BY <1>1, OwnEntry
  <2>2. <<req, i>> \in {<<>>} \cup (Nat \X Index)
    BY <2>1
  <2> QED BY <2>1, <2>2 DEF Entry
<1>4. [results EXCEPT ![i].outcome = "reported", ![i].by = <<job.req, job.at>>] = R
  BY <1>1, OwnEntry DEF IInv, Shapes, Entry
<1> HIDE DEF e
<1>5. JobsIn(R, jobs')
  BY <1>1, <1>2, OwnEntry, JobsStay
<1>6. ToolPhase(R, jobs')
  BY <1>1, <1>2, <1>3, <1>5, OwnEntry, EntryChanges
<1>7. Settle(conv, R, streams)
  BY <1>1, <1>4
<1> HIDE DEF R
<1> QED BY <1>1, <1>2, <1>6, <1>7, Before, OwnEntry, SettleOwn

LEMMA PreviewReadyOwn ==
  ASSUME IInv, NEW job \in jobs, PreviewReady(job)
  PROVE  IInv'
<1>1. PICK i \in DOMAIN results : Matches(job, i) /\ Recompute([results EXCEPT ![i].approval = "pending"])
  BY DEF PreviewReady, First
<1>2. jobs' = jobs \ {job} /\ used' = used /\ cut' = cut /\ conv' = conv /\ streams' = streams
  BY DEF PreviewReady
<1> DEFINE e == [results[i] EXCEPT !.approval = "pending"]
           R == [results EXCEPT ![i] = e]
<1>3. e \in Entry /\ e.id = results[i].id /\ e.outcome = "none" /\ e.approval = "pending"
  BY <1>1, OwnEntry DEF Entry
<1>4. [results EXCEPT ![i].approval = "pending"] = R
  OBVIOUS
<1> HIDE DEF e
<1>5. JobsIn(R, jobs')
  BY <1>1, <1>2, OwnEntry, JobsStay
<1>6. ToolPhase(R, jobs')
  BY <1>1, <1>2, <1>3, <1>5, OwnEntry, EntryChanges
<1>7. Unresolved(R) # {}
  <2>1. i \in DOMAIN R /\ R[i].outcome = "none"
    BY <1>3
  <2> HIDE DEF R
  <2> QED BY <2>1 DEF Unresolved
<1>8. Recompute(R)
  BY <1>1, <1>4
<1> HIDE DEF R
<1> QED BY <1>1, <1>2, <1>6, <1>7, <1>8, Before, OwnEntry, RecomputeOwn

\* A job nobody waits for is not one of the current request.
LEMMA LateOwn ==
  ASSUME IInv, (\E r \in streams : LateStream(r)) \/ (\E job \in jobs : LateReport(job))
  PROVE  IInv'
<1>1. UNCHANGED <<core, hist>> /\ streams' \subseteq streams /\ jobs' \subseteq jobs
  BY DEF LateStream, LateReport
<1>2. \A job \in jobs : job.req = req => job \in jobs'
  <2>1. CASE \E r \in streams : LateStream(r)
    BY <2>1 DEF LateStream
  <2>2. CASE \E job \in jobs : LateReport(job)
    <3>1. PICK job \in jobs : LateReport(job)
      BY <2>2
    <3>2. jobs' = jobs \ {job} /\ \A i \in DOMAIN results : ~Matches(job, i)
      BY <3>1 DEF LateReport
    <3>3. CASE job.req = req
      <4>1. /\ job.at \in DOMAIN results /\ results[job.at].id = job.id /\ results[job.at].outcome = "none"
        BY <3>3 DEF IInv, JobsOwn
      <4>2. InTools
        <5>1. results # Nothing
          BY <4>1 DEF Nothing
        <5> QED BY <5>1 DEF IInv, Current
      <4>3. Matches(job, job.at)
        BY <3>3, <4>1, <4>2 DEF Matches
      <4> QED BY <3>2, <4>1, <4>3
    <3> QED BY <3>2, <3>3
  <2> QED BY <2>1, <2>2
<1>3. TypeOK' /\ Shapes' /\ Current' /\ SlotsOwn' /\ Entries' /\ ResultsAreOwn' /\ Sent'
  <2>1. InTools' = InTools
    BY <1>1 DEF core, InTools
  <2>2. TypeOK' /\ Shapes' /\ Current'
    BY <1>1, <2>1 DEF core, hist, IInv, TypeOK, Shapes, Current
  <2>3. SlotsOwn' /\ Entries' /\ ResultsAreOwn' /\ Sent'
    BY <1>1 DEF core, hist, IInv, SlotsOwn, Entries, ResultsAreOwn, Sent
  <2> QED BY <2>2, <2>3
<1>4. JobsOwn'
  BY <1>1 DEF core, IInv, JobsOwn
<1>5. NothingForgotten'
  BY <1>1, <1>2 DEF core, IInv, NothingForgotten, InTools, Unresolved
<1> QED BY <1>3, <1>4, <1>5 DEF IInv

-----------------------------------------------------------------------------
\* The user decides on an entry that waits, which has no job.
LEMMA AskingEntry ==
  ASSUME IInv, NEW id, NEW i \in DOMAIN results, First(Asking(id), i)
  PROVE  /\ InTools /\ results[i] \in Entry /\ results[i].id = id /\ i \in Index
         /\ results[i].approval = "pending" /\ results[i].outcome = "none"
         /\ \A job \in jobs : job.req = req => job.at # i
<1>1. results[i].id = id /\ results[i].approval = "pending"
  BY DEF First, Asking
<1>2. InTools
  <2>1. results # Nothing
    BY DEF Nothing
  <2> QED BY <2>1 DEF IInv, Current
<1>3. EntriesIn(results) /\ JobsIn(results, jobs)
  BY <1>2, Before DEF ToolPhase
<1>4. results[i] \in Entry /\ i \in Index /\ results[i].outcome = "none"
  BY <1>1, <1>3 DEF EntriesIn
<1>5. \A job \in jobs : job.req = req => job.at # i
  BY <1>1, <1>3 DEF JobsIn
<1> QED BY <1>1, <1>2, <1>4, <1>5

LEMMA ApproveOwn ==
  ASSUME IInv, NEW id, ApproveToolCall(id)
  PROVE  IInv'
<1>1. PICK i \in DOMAIN results :
        /\ First(Asking(id), i)
        /\ Recompute([results EXCEPT ![i].approval = "approved"])
        /\ jobs' = jobs \cup {Job(i, id, IF results[i].fn = "patch" THEN "apply" ELSE "exec")}
  BY DEF ApproveToolCall
<1>2. used' = used /\ cut' = cut /\ conv' = conv /\ streams' = streams
  BY DEF ApproveToolCall
<1> DEFINE e == [results[i] EXCEPT !.approval = "approved"]
           R == [results EXCEPT ![i] = e]
           new == Job(i, id, IF results[i].fn = "patch" THEN "apply" ELSE "exec")
<1>3. e \in Entry /\ e.id = results[i].id /\ e.outcome = "none" /\ e.approval = "approved"
  BY <1>1, AskingEntry DEF Entry
<1>4. [results EXCEPT ![i].approval = "approved"] = R
  OBVIOUS
<1>5. /\ new \in Jobs /\ new.req = req /\ new.at = i /\ new.id = results[i].id /\ req < nextId
  <2>1. /\ results[i] \in Entry /\ results[i].id = id /\ i \in Index /\ InTools
    BY <1>1, AskingEntry
  <2>2. req \in Nat /\ req < nextId
    BY <2>1, Before DEF IInv, TypeOK, NoRequest
  <2> QED BY <2>1, <2>2 DEF Job, Jobs, Kinds, Entry
<1> HIDE DEF e, new
<1>6. JobsIn(R, jobs')
  <2>1. JobsIn(R, jobs)
    <3>1. InTools /\ jobs \subseteq jobs /\ \A job \in jobs : job.req = req => job.at # i
      BY <1>1, AskingEntry
    <3> QED BY <3>1, JobsStay
  <2>2. R[i] = e /\ i \in DOMAIN R
    BY DEF IInv, Shapes
  <2>3. jobs' = jobs \cup {new} /\ \A job \in jobs : job.req = req => job.at # i
    BY <1>1, AskingEntry DEF new
  <2> HIDE DEF R
  <2>4. /\ jobs' \subseteq Jobs /\ \A job \in jobs' : job.req < nextId
    BY <1>5, <2>1, <2>3 DEF JobsIn
  <2>5. ASSUME NEW job \in jobs', job.req = req
        PROVE  /\ job.at \in DOMAIN R /\ R[job.at].id = job.id
               /\ R[job.at].outcome = "none" /\ R[job.at].approval # "pending"
    <3>1. CASE job = new
      BY <1>3, <1>5, <2>2, <3>1
    <3>2. CASE job \in jobs
      BY <2>1, <2>5, <3>2 DEF JobsIn
    <3> QED BY <2>3, <3>1, <3>2
  <2>6. \A j, k \in jobs' : j.req = req /\ k.req = req /\ j.at = k.at => j = k
    BY <1>5, <2>1, <2>3 DEF JobsIn
  <2> QED BY <2>4, <2>5, <2>6 DEF JobsIn
<1>7. ToolPhase(R, jobs')
  <2>1. InTools /\ new \in jobs' /\ new.id = e.id /\ \A job \in jobs : job.at # i => job \in jobs'
    BY <1>1, <1>3, <1>5, AskingEntry DEF new
  <2> QED BY <1>3, <1>5, <1>6, <2>1, EntryChanges
<1>8. Unresolved(R) # {}
  <2>1. i \in DOMAIN R /\ R[i].outcome = "none"
    BY <1>3
  <2> HIDE DEF R
  <2> QED BY <2>1 DEF Unresolved
<1>9. Recompute(R)
  BY <1>1, <1>4
<1> HIDE DEF R
<1> QED BY <1>1, <1>2, <1>7, <1>8, <1>9, Before, AskingEntry, RecomputeOwn

LEMMA RejectOwn ==
  ASSUME IInv, NEW id, RejectToolCall(id)
  PROVE  IInv'
<1>1. PICK i \in DOMAIN results :
        /\ First(Asking(id), i)
        /\ Settle(conv, [results EXCEPT ![i].approval = "rejected", ![i].outcome = "rejected"], streams)
  BY DEF RejectToolCall
<1>2. jobs' = jobs /\ used' = used /\ cut' = cut
  BY DEF RejectToolCall
<1> DEFINE e == [results[i] EXCEPT !.approval = "rejected", !.outcome = "rejected"]
           R == [results EXCEPT ![i] = e]
<1>3. e \in Entry /\ e.id = results[i].id /\ e.outcome = "rejected" /\ e.approval = "rejected"
  BY <1>1, AskingEntry DEF Entry
<1>4. [results EXCEPT ![i].approval = "rejected", ![i].outcome = "rejected"] = R
  BY DEF IInv, Shapes
<1> HIDE DEF e
<1>5. JobsIn(R, jobs')
  <2>1. InTools /\ jobs' \subseteq jobs /\ \A job \in jobs' : job.req = req => job.at # i
    BY <1>1, <1>2, AskingEntry
  <2> QED BY <2>1, JobsStay
<1>6. ToolPhase(R, jobs')
  BY <1>1, <1>2, <1>3, <1>5, AskingEntry, EntryChanges
<1>7. Settle(conv, R, streams)
  BY <1>1, <1>4
<1> HIDE DEF R
<1> QED BY <1>1, <1>2, <1>6, <1>7, Before, AskingEntry, SettleOwn

-----------------------------------------------------------------------------
LEMMA InvNext == IInv /\ [Next]_vars => IInv'
<1> SUFFICES ASSUME IInv, [Next]_vars PROVE IInv'
  OBVIOUS
<1>1. CASE UserMessage
  BY <1>1, PromptOwn
<1>2. CASE Cancel \/ Timeout
  BY <1>2, GivenUpOwn
<1>3. ASSUME NEW r \in streams, Model(r) PROVE IInv'
  BY <1>3, DeltaOwn, FinishTextOwn, FinishToolCallsOwn, GivenUpOwn, LateOwn DEF Model
<1>4. ASSUME NEW job \in jobs, Report(job) PROVE IInv'
  BY <1>4, ToolResultOwn, PreviewReadyOwn, LateOwn DEF Report
<1>5. ASSUME NEW id, Decide(id) PROVE IInv'
  BY <1>5, ApproveOwn, RejectOwn DEF Decide
<1>6. CASE UNCHANGED vars
  <2>1. UNCHANGED <<core, shell, hist>>
    BY <1>6 DEF vars
  <2>2. InTools' = InTools
    BY <2>1 DEF core, InTools
  <2>3. TypeOK' /\ Shapes' /\ Current' /\ NothingForgotten'
    BY <2>1, <2>2 DEF core, shell, hist, IInv, TypeOK, Shapes, Current, NothingForgotten, Unresolved
  <2>4. SlotsOwn' /\ Entries' /\ JobsOwn' /\ Sent' /\ ResultsAreOwn'
    BY <2>1 DEF core, shell, hist, IInv, SlotsOwn, Entries, JobsOwn, Sent, ResultsAreOwn
  <2> QED BY <2>3, <2>4 DEF IInv
<1> QED BY <1>1, <1>2, <1>3, <1>4, <1>5, <1>6 DEF Next

\* The invariant of AgentCore, for any number of requests and calls.
THEOREM Invariance == Spec => []IInv
<1> QED BY InvInit, InvNext, PTL DEF Spec

\* Types; and, in `used \in 0 .. TurnLimit`, that one user turn takes on no more
\* than TURN_TOOL_CALL_LIMIT calls over all its requests.
THEOREM TypeCorrect == Spec => []TypeOK
<1>1. IInv => TypeOK
  BY DEF IInv
<1> QED BY <1>1, Invariance, PTL

\* Late events, of a request that was cancelled, timed out or answered, are never
\* taken for the current one's.
THEOREM OwnEvents == Spec => []EventsAreOwn
<1>1. IInv => EventsAreOwn
  BY DEF IInv, Sent, EventsAreOwn, RepliesFollowTheirRequest
<1> QED BY <1>1, Invariance, PTL

\* Every call the tool loop waits for is with the shell or before the user.
THEOREM NoneForgotten == Spec => []NothingForgotten
<1>1. IInv => NothingForgotten
  BY DEF IInv
<1> QED BY <1>1, Invariance, PTL

\* A patch is applied and a command executed only by the step that approves it:
\* an entry that waits for the user has no outcome, so it is not approved again.
THEOREM ApprovedFirst == Spec => RunsOnlyWhenApproved
<1> DEFINE New == \A job \in jobs' \ jobs : job.kind \in {"apply", "exec"} =>
                    /\ results[job.at].approval = "pending" /\ results[job.at].outcome = "none"
                    /\ results'[job.at].approval = "approved"
<1>1. ASSUME IInv, [Next]_vars PROVE [New]_vars
  <2>1. ASSUME NEW r \in streams, FinishToolCalls(r), NEW job \in jobs' \ jobs
        PROVE  job.kind \notin {"apply", "exec"}
    BY <2>1 DEF FinishToolCalls, Job
  <2>2. ASSUME NEW id, ApproveToolCall(id) PROVE New
    <3>1. PICK i \in DOMAIN results :
            /\ First(Asking(id), i)
            /\ Recompute([results EXCEPT ![i].approval = "approved"])
            /\ jobs' = jobs \cup {Job(i, id, IF results[i].fn = "patch" THEN "apply" ELSE "exec")}
      BY <2>2 DEF ApproveToolCall
    <3>2. results[i].approval = "pending" /\ results[i].outcome = "none" /\ results[i] \in Entry
      BY <1>1, <3>1, AskingEntry
    <3>3. results' = [results EXCEPT ![i].approval = "approved"]
      BY <3>1 DEF Recompute
    <3>4. results'[i].approval = "approved"
      BY <3>2, <3>3 DEF Entry
    <3> QED BY <3>1, <3>2, <3>4 DEF Job
  <2>3. CASE jobs' \subseteq jobs
    BY <2>3
  <2>4. CASE UserMessage \/ Cancel \/ Timeout \/ UNCHANGED vars
    BY <2>3, <2>4 DEF UserMessage, Cancel, Timeout, GoIdle, vars, shell
  <2>5. ASSUME NEW r \in streams, Model(r) PROVE New
    <3>1. CASE FinishToolCalls(r)
      BY <2>1, <3>1
    <3>2. CASE FinishText(r) \/ TransportError(r)
      BY <2>3, <3>2 DEF FinishText, TransportError, GoIdle
    <3>3. CASE ContentDelta(r) \/ LateStream(r) \/ \E i \in Index, f \in Fragments : ToolCallDelta(r, i, f)
      BY <2>3, <3>3 DEF ContentDelta, LateStream, ToolCallDelta, shell
    <3> QED BY <2>5, <3>1, <3>2, <3>3 DEF Model
  <2>6. ASSUME NEW job \in jobs, Report(job) PROVE New
    BY <2>3, <2>6 DEF Report, ToolResult, PreviewReady, LateReport
  <2>7. ASSUME NEW id, Decide(id) PROVE New
    <3>1. CASE RejectToolCall(id)
      BY <2>3, <3>1 DEF RejectToolCall
    <3> QED BY <2>2, <2>7, <3>1 DEF Decide
  <2> QED BY <1>1, <2>4, <2>5, <2>6, <2>7 DEF Next
<1> QED BY <1>1, Invariance, PTL DEF Spec, RunsOnlyWhenApproved

-----------------------------------------------------------------------------
(***************************************************************************)
(* What a request sends.  As long as no tool phase is cancelled, what was  *)
(* asked is answered: outside the tool loop the conversation is well       *)
(* formed, and in it all that lacks are the answers to its last message.   *)
(***************************************************************************)
CallsListed(m) == \A i \in DOMAIN m : m[i].role = "assistant" => Len(m[i].calls) \in Nat
Complete(m) == WellFormed(m) /\ CallsListed(m)

\* The ids of the entries R, in their order.
IdsOf(R) == [k \in 1 .. Cardinality(DOMAIN R) |-> R[InOrder(DOMAIN R)[k]].id]

\* c ends in the assistant whose calls the entries R are.
Asked(c, R) ==
  /\ c # <<>> /\ Complete(Front(c))
  /\ Last(c).role = "assistant" /\ Last(c).calls = IdsOf(R)

WInv == ~cut => IF InTools THEN Asked(conv, results) ELSE Complete(conv)

\* A non-empty set of naturals has a least element.
LEMMA LeastNatural ==
  ASSUME NEW T, T \subseteq Nat, T # {}
  PROVE  \E x \in T : \A y \in T : x <= y
<1>1. PICK x \in T : \A y \in T : <<y, x>> \notin OpToRel(<, Nat)
  BY NatLessThanWellFounded, WFMin, Zenon
<1>2. ASSUME NEW y \in T PROVE x <= y
  <2>1. CASE y < x
    <3>1. <<y, x>> \in OpToRel(<, Nat)  BY <2>1 DEF OpToRel
    <3> QED  BY <1>1, <3>1
  <2> QED  BY <2>1
<1> QED  BY <1>2

\* Induction over the naturals.
LEMMA NatSetInduction ==
  ASSUME NEW S, 0 \in S, \A n \in Nat : n \in S => n + 1 \in S
  PROVE  \A n \in Nat : n \in S
<1> DEFINE T == Nat \ S
<1>1. SUFFICES ASSUME T # {} PROVE FALSE  BY <1>1
<1>2. PICK x \in T : \A y \in T : x <= y  BY <1>1, LeastNatural
<1>3. x \in Nat /\ x # 0 /\ x - 1 \in Nat /\ x - 1 \notin T  BY <1>2
<1>4. x - 1 + 1 \in S /\ x - 1 + 1 = x  BY <1>3
<1> QED  BY <1>2, <1>4

\* The indexes of S up to c.
UpTo(S, c) == {d \in S : d <= c}

\* Every position up to the size of the set has its call.
LEMMA RankExists ==
  ASSUME NEW S, S \subseteq Nat, IsFiniteSet(S)
  PROVE  /\ Cardinality(S) \in Nat
         /\ \A k \in 1 .. Cardinality(S) : \E c \in S : Cardinality(UpTo(S, c)) = k
<1> DEFINE P == {k \in Nat : k \in 1 .. Cardinality(S) =>
                               \E c \in S : Cardinality(UpTo(S, c)) = k}
<1>1. Cardinality(S) \in Nat  BY FS_CardinalityType
<1>2. 0 \in P  OBVIOUS
<1>3. ASSUME NEW k \in Nat, k \in P PROVE k + 1 \in P
  <2>1. SUFFICES ASSUME k + 1 \in 1 .. Cardinality(S)
                 PROVE  \E c \in S : Cardinality(UpTo(S, c)) = k + 1
    OBVIOUS
  <2>2. \E D \in SUBSET S : Cardinality(D) = k /\ \A d \in D, e \in S \ D : d < e
    <3>1. CASE k = 0
      <4>1. Cardinality({}) = 0  BY FS_EmptySet
      <4> QED  BY <3>1, <4>1
    <3>2. CASE k # 0
      <4>1. k \in 1 .. Cardinality(S)  BY <1>1, <2>1, <3>2
      <4>2. PICK c \in S : Cardinality(UpTo(S, c)) = k  BY <1>3, <4>1
      <4>3. UpTo(S, c) \in SUBSET S /\ \A d \in UpTo(S, c), e \in S \ UpTo(S, c) : d < e
        BY DEF UpTo
      <4> QED  BY <4>2, <4>3
    <3> QED  BY <3>1, <3>2
  <2>3. PICK D \in SUBSET S : Cardinality(D) = k /\ \A d \in D, e \in S \ D : d < e
    BY <2>2
  <2>4. D # S  BY <1>1, <2>1, <2>3
  <2>5. PICK c \in S \ D : \A e \in S \ D : c <= e
    <3>1. S \ D # {} /\ S \ D \subseteq Nat  BY <2>4
    <3> QED  BY <3>1, LeastNatural
  <2>6. UpTo(S, c) = D \cup {c}
    <3>1. \A d \in S : d <= c <=> d \in D \/ d = c
      <4> TAKE d \in S
      <4>1. d \in Nat /\ c \in Nat  BY <2>5
      <4>2. CASE d \in D
        <5>1. d < c  BY <2>3, <2>5, <4>2
        <5> QED  BY <4>1, <4>2, <5>1
      <4>3. CASE d \notin D
        <5>1. c <= d  BY <2>5, <4>3
        <5> QED  BY <4>1, <4>3, <5>1
      <4> QED  BY <4>2, <4>3
    <3> QED  BY <2>5, <3>1 DEF UpTo
  <2>7. IsFiniteSet(D)  BY FS_Subset
  <2>8. Cardinality(D \cup {c}) = k + 1  BY <2>3, <2>5, <2>7, FS_AddElement
  <2> QED  BY <2>6, <2>8
<1> HIDE DEF P
<1>4. \A k \in Nat : k \in P  BY <1>2, <1>3, NatSetInduction
<1> QED  BY <1>1, <1>4 DEF P

\* The list is made of the set's indexes, one position for each.
LEMMA InOrderTyped ==
  ASSUME NEW S \in SUBSET Index
  PROVE  Cardinality(S) \in Nat /\ \A k \in 1 .. Cardinality(S) : InOrder(S)[k] \in S
<1>1. IsFiniteSet(S) /\ S \subseteq Nat
  BY AgentAssumption, FS_Subset
<1>2. Cardinality(S) \in Nat
  BY <1>1, RankExists
<1>3. ASSUME NEW k \in 1 .. Cardinality(S)
      PROVE  (CHOOSE c \in S : Cardinality({d \in S : d <= c}) = k) \in S
  <2>1. \E c \in S : Cardinality({d \in S : d <= c}) = k
    BY <1>1, RankExists DEF UpTo
  <2> QED BY <2>1
<1>4. \A k \in 1 .. Cardinality(S) : InOrder(S)[k] \in S
  BY <1>3 DEF InOrder
<1> QED BY <1>2, <1>4

-----------------------------------------------------------------------------
\* A message that is no tool's and asks for nothing keeps a conversation well
\* formed.
LEMMA CompleteAppend ==
  ASSUME NEW T, NEW p \in Seq(T), Complete(p), NEW m \in T,
         m.role # "tool", m.role = "assistant" => m.calls = <<>>
  PROVE  Complete(Append(p, m))
<1> DEFINE q == Append(p, m)
           L == Len(p)
<1>1. L \in Nat /\ DOMAIN p = 1 .. L
  OBVIOUS
<1>2. Len(q) = L + 1 /\ DOMAIN q = 1 .. L + 1 /\ q[L + 1] = m /\ \A i \in 1 .. L : q[i] = p[i]
  OBVIOUS
<1> HIDE DEF q, L
<1>3. Len(<<>>) = 0
  OBVIOUS
<1>4. CallsListed(q)
  BY <1>1, <1>2, <1>3 DEF Complete, CallsListed
<1>5. ASSUME NEW i \in DOMAIN q, q[i].role = "assistant" PROVE AnsweredInPlace(q, i)
  <2>1. CASE i \in 1 .. L
    <3> DEFINE n == Len(p[i].calls)
    <3>1. AnsweredInPlace(p, i) /\ n \in Nat /\ q[i] = p[i]
      BY <1>1, <1>2, <1>5, <2>1 DEF Complete, WellFormed, CallsListed
    <3>2. i + n <= L /\ \A k \in 1 .. n : p[i + k].role = "tool" /\ p[i + k].id = p[i].calls[k]
      BY <3>1 DEF AnsweredInPlace, L
    <3> HIDE DEF n
    <3>3. i + n <= L + 1 /\ \A k \in 1 .. n : i + k \in 1 .. L
      BY <1>1, <2>1, <3>1, <3>2
    <3>4. \A k \in 1 .. n : q[i + k].role = "tool" /\ q[i + k].id = q[i].calls[k]
      BY <1>2, <3>1, <3>2, <3>3
    <3> QED BY <1>2, <3>1, <3>3, <3>4 DEF AnsweredInPlace, n
  <2>2. CASE i = L + 1
    <3>1. Len(q[i].calls) = 0
      BY <1>2, <1>3, <1>5, <2>2
    <3>2. i + 0 <= Len(q) /\ 1 .. 0 = {}
      BY <1>1, <1>2, <2>2
    <3> QED BY <3>1, <3>2 DEF AnsweredInPlace
  <2> QED BY <1>1, <1>2, <2>1, <2>2
<1>6. ASSUME NEW i \in DOMAIN q, q[i].role = "tool" PROVE i \in Expected(q)
  <2>1. i \in 1 .. L /\ p[i].role = "tool"
    BY <1>1, <1>2, <1>6
  <2>2. i \in Expected(p)
    BY <1>1, <2>1 DEF Complete, WellFormed
  <2>3. PICK j \in DOMAIN p : p[j].role = "assistant" /\ i \in j + 1 .. j + Len(p[j].calls)
    BY <2>2 DEF Expected
  <2>4. j \in DOMAIN q /\ q[j] = p[j]
    BY <1>1, <1>2
  <2> QED BY <2>3, <2>4 DEF Expected
<1>7. Complete(q)
  BY <1>4, <1>5, <1>6 DEF Complete, WellFormed
<1> QED BY <1>7 DEF q

\* An assistant and the answers to its calls, in their order, keep it too.
LEMMA CompleteTurn ==
  ASSUME NEW T, NEW p \in Seq(T), Complete(p), NEW a \in T, a.role = "assistant",
         NEW n \in Nat, Len(a.calls) = n, NEW e \in Seq(T), Len(e) = n,
         \A k \in 1 .. n : e[k].role = "tool" /\ e[k].id = a.calls[k]
  PROVE  Complete(Append(p, a) \o e)
<1> DEFINE q == Append(p, a) \o e
           L == Len(p)
<1>1. L \in Nat /\ DOMAIN p = 1 .. L
  OBVIOUS
<1>2. /\ Len(q) = L + 1 + n /\ DOMAIN q = 1 .. L + 1 + n
      /\ q[L + 1] = a
      /\ \A i \in 1 .. L : q[i] = p[i]
      /\ \A k \in 1 .. n : q[L + 1 + k] = e[k]
  <2> DEFINE b == Append(p, a)
  <2>1. b \in Seq(T) /\ Len(b) = L + 1 /\ b[L + 1] = a /\ \A i \in 1 .. L : b[i] = p[i]
    OBVIOUS
  <2> HIDE DEF b, L
  <2>2. Len(b \o e) = L + 1 + n /\ DOMAIN (b \o e) = 1 .. L + 1 + n
    BY <1>1, <2>1
  <2>3. \A i \in 1 .. L + 1 : (b \o e)[i] = b[i]
    BY <1>1, <2>1
  <2>4. \A k \in 1 .. n : (b \o e)[L + 1 + k] = e[k]
    BY <1>1, <2>1
  <2>5. \A i \in 1 .. L : i \in 1 .. L + 1
    BY <1>1
  <2>6. L + 1 \in 1 .. L + 1
    BY <1>1
  <2> QED BY <2>1, <2>2, <2>3, <2>4, <2>5, <2>6 DEF b
<1> HIDE DEF q, L
<1>3. \A i \in 1 .. L + 1 + n : i \in 1 .. L \/ i = L + 1 \/ \E k \in 1 .. n : i = L + 1 + k
  <2> SUFFICES ASSUME NEW i \in 1 .. L + 1 + n, i \notin 1 .. L + 1
               PROVE  i - (L + 1) \in 1 .. n /\ i = L + 1 + (i - (L + 1))
    BY <1>1
  <2> QED BY <1>1
<1>4. CallsListed(q)
  <2> SUFFICES ASSUME NEW i \in DOMAIN q, q[i].role = "assistant" PROVE Len(q[i].calls) \in Nat
    BY DEF CallsListed
  <2>1. i \in 1 .. L \/ i = L + 1
    BY <1>2, <1>3
  <2> QED BY <1>1, <1>2, <2>1 DEF Complete, CallsListed
<1>5. ASSUME NEW i \in DOMAIN q, q[i].role = "assistant" PROVE AnsweredInPlace(q, i)
  <2>1. CASE i \in 1 .. L
    <3> DEFINE l == Len(p[i].calls)
    <3>1. AnsweredInPlace(p, i) /\ l \in Nat /\ q[i] = p[i]
      BY <1>1, <1>2, <1>5, <2>1 DEF Complete, WellFormed, CallsListed
    <3>2. i + l <= L /\ \A k \in 1 .. l : p[i + k].role = "tool" /\ p[i + k].id = p[i].calls[k]
      BY <3>1 DEF AnsweredInPlace, L
    <3> HIDE DEF l
    <3>3. i + l <= L + 1 + n /\ \A k \in 1 .. l : i + k \in 1 .. L
      BY <1>1, <2>1, <3>1, <3>2
    <3>4. \A k \in 1 .. l : q[i + k].role = "tool" /\ q[i + k].id = q[i].calls[k]
      BY <1>2, <3>1, <3>2, <3>3
    <3> QED BY <1>2, <3>1, <3>3, <3>4 DEF AnsweredInPlace, l
  <2>2. CASE i = L + 1
    <3>1. Len(q[i].calls) = n /\ i + n <= Len(q)
      BY <1>1, <1>2, <2>2
    <3>2. \A k \in 1 .. n : q[i + k].role = "tool" /\ q[i + k].id = q[i].calls[k]
      BY <1>2, <2>2
    <3> QED BY <3>1, <3>2 DEF AnsweredInPlace
  <2> QED BY <1>2, <1>3, <1>5, <2>1, <2>2
<1>6. ASSUME NEW i \in DOMAIN q, q[i].role = "tool" PROVE i \in Expected(q)
  <2>1. CASE i \in 1 .. L
    <3>1. p[i].role = "tool"
      BY <1>2, <1>6, <2>1
    <3>2. i \in Expected(p)
      BY <1>1, <2>1, <3>1 DEF Complete, WellFormed
    <3>3. PICK j \in DOMAIN p : p[j].role = "assistant" /\ i \in j + 1 .. j + Len(p[j].calls)
      BY <3>2 DEF Expected
    <3>4. j \in DOMAIN q /\ q[j] = p[j]
      BY <1>1, <1>2
    <3> QED BY <3>3, <3>4 DEF Expected
  <2>2. ASSUME NEW k \in 1 .. n, i = L + 1 + k PROVE i \in Expected(q)
    <3>1. L + 1 \in DOMAIN q /\ q[L + 1].role = "assistant" /\ Len(q[L + 1].calls) = n
      BY <1>1, <1>2
    <3>2. i \in L + 1 + 1 .. L + 1 + n
      BY <1>1, <2>2
    <3> QED BY <3>1, <3>2 DEF Expected
  <2>3. i # L + 1
    BY <1>2, <1>6
  <2> QED BY <1>2, <1>3, <2>1, <2>2, <2>3
<1>7. Complete(q)
  BY <1>4, <1>5, <1>6 DEF Complete, WellFormed
<1> QED BY <1>7 DEF q

-----------------------------------------------------------------------------
\* The ids of entries depend on their ids alone.
LEMMA IdsKeep ==
  ASSUME NEW R, NEW Q, DOMAIN R \subseteq Index, DOMAIN Q = DOMAIN R, \A i \in DOMAIN R : Q[i].id = R[i].id
  PROVE  IdsOf(Q) = IdsOf(R)
<1> DEFINE S == DOMAIN R
<1>1. \A k \in 1 .. Cardinality(S) : InOrder(S)[k] \in S
  BY InOrderTyped
<1> HIDE DEF S
<1>2. \A k \in 1 .. Cardinality(S) : Q[InOrder(S)[k]].id = R[InOrder(S)[k]].id
  BY <1>1 DEF S
<1>3. DOMAIN Q = S /\ DOMAIN R = S
  BY DEF S
<1> QED BY <1>2, <1>3 DEF IdsOf

\* The reply that asks for the calls R.
LEMMA AskedNow ==
  ASSUME NEW T, NEW p \in Seq(T), Complete(p), NEW r, NEW R, Assistant(r, IdsOf(R)) \in T
  PROVE  Asked(Append(p, Assistant(r, IdsOf(R))), R)
<1> DEFINE a == Assistant(r, IdsOf(R))
           q == Append(p, a)
<1>1. a.role = "assistant" /\ a.calls = IdsOf(R) /\ a \in T
  BY DEF Assistant
<1> HIDE DEF a
<1>2. q # <<>> /\ Last(q) = a /\ Front(q) = p
  <2>1. q \in Seq(T) /\ Len(q) = Len(p) + 1 /\ q[Len(p) + 1] = a /\ Len(p) \in Nat
        /\ \A i \in 1 .. Len(p) : q[i] = p[i]
    BY <1>1
  <2> HIDE DEF q
  <2>2. q # <<>> /\ Last(q) = a
    BY <2>1 DEF Last
  <2>3. Front(q) = SubSeq(q, 1, Len(p))
    BY <2>1 DEF Front
  <2>4. SubSeq(q, 1, Len(p)) = p
    BY <2>1
  <2> QED BY <2>2, <2>3, <2>4
<1>3. Asked(q, R)
  BY <1>1, <1>2 DEF Asked
<1> QED BY <1>3 DEF q, a

\* The answers to all of them make it complete.
LEMMA AnswersComplete ==
  ASSUME NEW T, NEW c \in Seq(T), NEW R, Asked(c, R), DOMAIN R \subseteq Index
  PROVE  Complete(c \o Answers(R))
<1> DEFINE p == Front(c)
           a == Last(c)
           e == Answers(R)
           n == Cardinality(DOMAIN R)
           U == T \cup Items(e)
<1>1. n \in Nat
  BY InOrderTyped
<1>2. c # <<>> /\ Complete(p) /\ a.role = "assistant" /\ a.calls = IdsOf(R)
  BY DEF Asked
<1>3. Len(a.calls) = n /\ \A k \in 1 .. n : a.calls[k] = R[InOrder(DOMAIN R)[k]].id
  <2>1. Len(IdsOf(R)) = n
    BY <1>1 DEF IdsOf
  <2> QED BY <1>2, <2>1 DEF IdsOf
<1>4. e = [k \in 1 .. n |-> e[k]] /\ \A k \in 1 .. n : e[k].role = "tool" /\ e[k].id = R[InOrder(DOMAIN R)[k]].id
  BY DEF Answers, Tool
<1>5. e \in Seq(Items(e)) /\ Len(e) = n
  <2> HIDE DEF e, n
  <2>1. DOMAIN e = 1 .. n
    BY <1>4
  <2> QED BY <1>1, <1>4, <2>1 DEF Items
<1>6. p \in Seq(T) /\ a \in T /\ c = Append(p, a)
  <2>1. Len(c) \in Nat /\ Len(c) # 0
    BY <1>2
  <2>2. p = SubSeq(c, 1, Len(c) - 1) /\ a = c[Len(c)]
    BY DEF Front, Last
  <2> HIDE DEF p, a
  <2>3. p \in Seq(T) /\ Len(p) = Len(c) - 1 /\ a \in T /\ \A i \in 1 .. Len(c) - 1 : p[i] = c[i]
    <3> DEFINE N == Len(c) - 1
    <3>1. N \in 0 .. Len(c) /\ N + 1 = Len(c)
      BY <2>1
    <3>2. a \in T
      BY <2>1, <2>2
    <3> HIDE DEF N
    <3>3. SubSeq(c, 1, N) \in Seq(T) /\ Len(SubSeq(c, 1, N)) = N /\ \A i \in 1 .. N : SubSeq(c, 1, N)[i] = c[i]
      BY <3>1
    <3> QED BY <2>2, <3>2, <3>3 DEF N
  <2>4. Append(p, a) = c
    BY <2>1, <2>2, <2>3
  <2> QED BY <2>3, <2>4
<1> HIDE DEF p, a, e, n
<1>7. p \in Seq(U) /\ a \in U /\ e \in Seq(U)
  BY <1>5, <1>6, SeqMonotonic
<1> HIDE DEF U
<1>8. \A k \in 1 .. n : e[k].role = "tool" /\ e[k].id = a.calls[k]
  BY <1>3, <1>4
<1>9. Complete(Append(p, a) \o e)
  BY <1>1, <1>2, <1>3, <1>5, <1>7, <1>8, CompleteTurn
<1> QED BY <1>6, <1>9 DEF e

-----------------------------------------------------------------------------
\* Going on after an event of the tool phase.
LEMMA SettleAsked ==
  ASSUME req # NoRequest, nextId \in Nat, NEW c, Sendable(c), NEW R, DOMAIN R \subseteq Index,
         Asked(c, R), NEW s, Settle(c, R, s)
  PROVE  WInv'
<1>1. CASE Recompute(R) /\ conv' = c
  <2>1. InTools' /\ results' = R
    BY <1>1 DEF Recompute, InTools
  <2> QED BY <1>1, <2>1 DEF WInv
<1>2. CASE StartRequest(c \o Answers(R), s)
  <2>1. ~InTools' /\ conv' = c \o Answers(R)
    BY <1>2 DEF StartRequest, InTools
  <2>2. Complete(c \o Answers(R))
    BY AnswersComplete DEF Sendable
  <2> QED BY <2>1, <2>2 DEF WInv
<1> QED BY <1>1, <1>2 DEF Settle

\* An entry changes, its id does not.
LEMMA EntryAsked ==
  ASSUME IInv, WInv, ~cut, InTools, NEW i \in DOMAIN results, NEW e, e.id = results[i].id
  PROVE  /\ Asked(conv, [results EXCEPT ![i] = e]) /\ DOMAIN [results EXCEPT ![i] = e] \subseteq Index
         /\ Sendable(conv) /\ req # NoRequest /\ nextId \in Nat
<1> DEFINE R == [results EXCEPT ![i] = e]
<1>1. Sendable(conv) /\ req # NoRequest /\ nextId \in Nat
  BY Before DEF InTools
<1>2. DOMAIN results \subseteq Index
  BY DEF IInv, TypeOK
<1>3. DOMAIN R = DOMAIN results /\ \A j \in DOMAIN results : R[j].id = results[j].id
  OBVIOUS
<1> HIDE DEF R
<1>4. IdsOf(R) = IdsOf(results)
  BY <1>2, <1>3, IdsKeep
<1>5. Asked(conv, R)
  BY <1>4 DEF WInv, Asked
<1> QED BY <1>1, <1>2, <1>3, <1>5 DEF R

\* The reply is committed with the ids of its entries.
LEMMA FinishAsked ==
  ASSUME IInv, WInv, NEW r \in streams, FinishToolCalls(r)
  PROVE  WInv'
<1>1. PICK parsed \in SUBSET {i \in DOMAIN slots : slots[i].fn # "none"} :
        Settle(Append(conv, Assistant(r, CallIds)), [i \in DOMAIN slots |-> Call(i, Accepted(parsed))], streams \ {r})
  BY DEF FinishToolCalls
<1> DEFINE R == [i \in DOMAIN slots |-> Call(i, Accepted(parsed))]
           S == DOMAIN slots
<1>2. cut' = cut /\ Streaming(r)
  BY DEF FinishToolCalls
<1>3. SUFFICES ASSUME ~cut PROVE WInv'
  BY <1>2 DEF WInv
<1>4. Sendable(Append(conv, Assistant(r, CallIds))) /\ req # NoRequest /\ ~InTools /\ nextId \in Nat
  BY <1>2, CommitSendable
<1>5. Complete(conv) /\ Sendable(conv)
  BY <1>3, <1>4, Before DEF WInv
<1>6. S \subseteq Index
  BY DEF IInv, TypeOK
<1>7. CallIds = IdsOf(R)
  <2>1. Cardinality(S) \in Nat /\ \A k \in 1 .. Cardinality(S) : InOrder(S)[k] \in S
    BY <1>6, InOrderTyped
  <2>2. DOMAIN R = S /\ \A i \in S : R[i].id = CallId(i)
    BY DEF Call
  <2>3. DOMAIN InOrder(S) = 1 .. Cardinality(S)
    BY DEF InOrder
  <2>4. CallIds = [k \in DOMAIN InOrder(S) |-> CallId(InOrder(S)[k])]
    BY DEF CallIds
  <2> HIDE DEF R, S
  <2>5. IdsOf(R) = [k \in 1 .. Cardinality(S) |-> R[InOrder(S)[k]].id]
    BY <2>2 DEF IdsOf
  <2>6. \A k \in 1 .. Cardinality(S) : R[InOrder(S)[k]].id = CallId(InOrder(S)[k])
    BY <2>1, <2>2
  <2> QED BY <2>3, <2>4, <2>5, <2>6
<1>8. DOMAIN R = S
  OBVIOUS
<1> HIDE DEF R, S
<1>9. Asked(Append(conv, Assistant(r, CallIds)), R)
  <2> DEFINE a == Assistant(r, IdsOf(R))
             T == Items(conv) \cup {a}
  <2>1. a \in T /\ conv \in Seq(T)
    BY <1>5, SeqMonotonic DEF Sendable
  <2> HIDE DEF T
  <2>2. Asked(Append(conv, a), R)
    BY <1>5, <2>1, AskedNow
  <2> QED BY <1>7, <2>2
<1>10. Settle(Append(conv, Assistant(r, CallIds)), R, streams \ {r})
  BY <1>1 DEF R
<1> QED BY <1>4, <1>6, <1>8, <1>9, <1>10, SettleAsked

\* Every step keeps it: a tool phase that is cancelled sets cut.
LEMMA WInvNext == IInv /\ WInv /\ [Next]_vars => WInv'
<1> SUFFICES ASSUME IInv, WInv, [Next]_vars PROVE WInv'
  OBVIOUS
<1>1. CASE UserMessage
  <2>1. conv' = Append(conv, User) /\ ~InTools /\ ~InTools' /\ cut' = cut
    BY <1>1 DEF UserMessage, StartRequest, InTools
  <2>2. ASSUME ~cut PROVE Complete(Append(conv, User))
    <3> DEFINE T == Items(conv) \cup {User}
    <3>1. Complete(conv) /\ conv \in Seq(T) /\ User \in T
      BY <2>1, <2>2, Before, SeqMonotonic DEF WInv, Sendable
    <3>2. User.role = "user"
      BY DEF User
    <3> HIDE DEF T
    <3> QED BY <3>1, <3>2, CompleteAppend
  <2> QED BY <2>1, <2>2 DEF WInv
<1>2. ASSUME GoIdle, conv' = conv, ~cut' => ~cut /\ ~InTools PROVE WInv'
  <2>1. ~InTools'
    BY <1>2 DEF GoIdle, InTools
  <2> QED BY <1>2, <2>1 DEF WInv
<1>3. CASE Cancel \/ Timeout \/ \E r \in streams : TransportError(r)
  BY <1>2, <1>3 DEF Cancel, Timeout, TransportError, Streaming, InTools
<1>4. ASSUME UNCHANGED <<conv, req, phase, cut>>, results' = results PROVE WInv'
  <2>1. InTools' = InTools
    BY <1>4 DEF InTools
  <2> QED BY <1>4, <2>1 DEF WInv
<1>5. ASSUME NEW r \in streams, Model(r) PROVE WInv'
  <2>1. CASE ContentDelta(r) \/ LateStream(r) \/ \E i \in Index, f \in Fragments : ToolCallDelta(r, i, f)
    BY <1>4, <2>1 DEF ContentDelta, LateStream, ToolCallDelta, core, shell, hist
  <2>2. CASE FinishText(r)
    <3> DEFINE a == Assistant(r, <<>>)
               T == Items(conv) \cup {a}
    <3>1. GoIdle /\ conv' = Append(conv, a) /\ cut' = cut /\ ~InTools /\ ~InTools'
      BY <2>2 DEF FinishText, GoIdle, Streaming, InTools
    <3>2. a.role = "assistant" /\ a.calls = <<>>
      BY DEF Assistant
    <3> HIDE DEF a
    <3>3. conv \in Seq(T) /\ a \in T
      BY Before, SeqMonotonic DEF Sendable
    <3> HIDE DEF T
    <3>4. ASSUME ~cut PROVE Complete(Append(conv, a))
      <4>1. Complete(conv)
        BY <3>1, <3>4 DEF WInv
      <4> QED BY <3>2, <3>3, <4>1, CompleteAppend
    <3> QED BY <3>1, <3>4 DEF WInv
  <2>3. CASE FinishToolCalls(r)
    BY <2>3, FinishAsked
  <2> QED BY <1>3, <1>5, <2>1, <2>2, <2>3 DEF Model
<1>6. ASSUME NEW i \in DOMAIN results, NEW e, e.id = results[i].id, InTools, cut' = cut,
             \/ \E s : Settle(conv, [results EXCEPT ![i] = e], s)
             \/ Recompute([results EXCEPT ![i] = e]) /\ conv' = conv
      PROVE  WInv'
  <2> DEFINE R == [results EXCEPT ![i] = e]
  <2>1. SUFFICES ASSUME ~cut PROVE WInv'
    BY <1>6 DEF WInv
  <2>2. Asked(conv, R) /\ DOMAIN R \subseteq Index /\ Sendable(conv) /\ req # NoRequest /\ nextId \in Nat
    BY <1>6, <2>1, EntryAsked
  <2> HIDE DEF R
  <2>3. CASE \E s : Settle(conv, R, s)
    BY <2>2, <2>3, SettleAsked
  <2>4. CASE Recompute(R) /\ conv' = conv
    <3>1. InTools' /\ results' = R
      BY <2>2, <2>4 DEF Recompute, InTools
    <3> QED BY <2>2, <2>4, <3>1 DEF WInv
  <2> QED BY <1>6, <2>3, <2>4 DEF R
<1>7. ASSUME NEW job \in jobs, Report(job) PROVE WInv'
  <2>1. CASE ToolResult(job)
    <3>1. PICK i \in DOMAIN results :
            /\ Matches(job, i)
            /\ Settle(conv, [results EXCEPT ![i].outcome = "reported", ![i].by = <<job.req, job.at>>], streams)
      BY <2>1 DEF ToolResult, First
    <3> DEFINE e == [[results[i] EXCEPT !.outcome = "reported"] EXCEPT !.by = <<job.req, job.at>>]
    <3>2. e.id = results[i].id /\ InTools /\ cut' = cut
      BY <2>1, <3>1 DEF ToolResult, Matches, IInv, Shapes, Entry
    <3>3. [results EXCEPT ![i].outcome = "reported", ![i].by = <<job.req, job.at>>] = [results EXCEPT ![i] = e]
      BY DEF IInv, Shapes
    <3> HIDE DEF e
    <3> QED BY <1>6, <3>1, <3>2, <3>3
  <2>2. CASE PreviewReady(job)
    <3>1. PICK i \in DOMAIN results : Matches(job, i) /\ Recompute([results EXCEPT ![i].approval = "pending"])
      BY <2>2 DEF PreviewReady, First
    <3> DEFINE e == [results[i] EXCEPT !.approval = "pending"]
    <3>2. e.id = results[i].id /\ InTools /\ cut' = cut /\ conv' = conv
      BY <2>2, <3>1 DEF PreviewReady, Matches, IInv, Shapes, Entry
    <3>3. [results EXCEPT ![i].approval = "pending"] = [results EXCEPT ![i] = e]
      OBVIOUS
    <3> HIDE DEF e
    <3> QED BY <1>6, <3>1, <3>2, <3>3
  <2>3. CASE LateReport(job)
    BY <1>4, <2>3 DEF LateReport, core, hist
  <2> QED BY <1>7, <2>1, <2>2, <2>3 DEF Report
<1>8. ASSUME NEW id, Decide(id) PROVE WInv'
  <2>1. CASE ApproveToolCall(id)
    <3>1. PICK i \in DOMAIN results : First(Asking(id), i) /\ Recompute([results EXCEPT ![i].approval = "approved"])
      BY <2>1 DEF ApproveToolCall
    <3> DEFINE e == [results[i] EXCEPT !.approval = "approved"]
    <3>2. e.id = results[i].id /\ InTools /\ cut' = cut /\ conv' = conv
      BY <2>1, <3>1, AskingEntry DEF ApproveToolCall, Entry
    <3>3. [results EXCEPT ![i].approval = "approved"] = [results EXCEPT ![i] = e]
      OBVIOUS
    <3> HIDE DEF e
    <3> QED BY <1>6, <3>1, <3>2, <3>3
  <2>2. CASE RejectToolCall(id)
    <3>1. PICK i \in DOMAIN results :
            /\ First(Asking(id), i)
            /\ Settle(conv, [results EXCEPT ![i].approval = "rejected", ![i].outcome = "rejected"], streams)
      BY <2>2 DEF RejectToolCall
    <3> DEFINE e == [[results[i] EXCEPT !.approval = "rejected"] EXCEPT !.outcome = "rejected"]
    <3>2. e.id = results[i].id /\ InTools /\ cut' = cut
      BY <2>2, <3>1, AskingEntry DEF RejectToolCall, Entry
    <3>3. [results EXCEPT ![i].approval = "rejected", ![i].outcome = "rejected"] = [results EXCEPT ![i] = e]
      BY DEF IInv, Shapes
    <3> HIDE DEF e
    <3> QED BY <1>6, <3>1, <3>2, <3>3
  <2> QED BY <1>8, <2>1, <2>2 DEF Decide
<1>9. CASE UNCHANGED vars
  BY <1>4, <1>9 DEF vars, core, hist
<1> QED BY <1>1, <1>3, <1>5, <1>7, <1>8, <1>9 DEF Next

\* What StartRequest sends is well formed as long as no tool phase was
\* cancelled: every call is followed by its answer, in the order of the calls
\* whatever order the results came in, and no answer stands elsewhere.
THEOREM RequestsComplete == Spec => []RequestWellFormed
<1>1. Init => WInv
  <2> SUFFICES ASSUME Init PROVE Complete(conv) /\ ~InTools
    BY DEF WInv
  <2>1. conv = <<>> /\ DOMAIN conv = {} /\ ~InTools
    BY DEF Init, InTools
  <2> QED BY <2>1 DEF Complete, WellFormed, CallsListed
<1>2. WInv => RequestWellFormed
  BY DEF WInv, Complete, RequestWellFormed, InTools
<1> QED BY <1>1, <1>2, Invariance, WInvNext, PTL DEF Spec
=============================================================================
