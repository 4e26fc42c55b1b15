--------------------------- MODULE Observers_proofs ---------------------------
(***************************************************************************)
(* Proofs about Observers, for any number of askers, windows and cache     *)
(* sizes: ask.json is never seen in part, holds answers over one view of   *)
(* the conversation only, and loses one only to an ask that overlapped;    *)
(* and what status adds up is what the replies recorded, for any number of *)
(* invocations, folds, prunes and crashes.                                 *)
(***************************************************************************)
EXTENDS Observers, SequenceTheorems, FiniteSetTheorems, WellFoundedInduction, TLAPS

Waiting == {"write", "writing", "rename"}
InFlight == {"answer"} \cup Waiting

\* What is counted has been replied, and what is billed has been counted.
Costs ==
  /\ counters.cost <= counters.turns
  /\ t = "usage" => counters.cost < counters.turns

\* The variables of the askers are functions on them.
Shape ==
  /\ tmp = [a \in Asker |-> tmp[a]] /\ seen = [a \in Asker |-> seen[a]]
  /\ state = [a \in Asker |-> state[a]]

\* The answers saved: each made by an asker that had loaded the cache before,
\* and whose answers so far were all saved by then.
Saved ==
  /\ saved \in Seq({saved[i] : i \in DOMAIN saved})
  /\ \A i \in DOMAIN saved : saved[i].by \in Asker /\ saved[i].after \in 0 .. i - 1
  /\ \A i, j \in DOMAIN saved : i < j /\ saved[i].by = saved[j].by => i <= saved[j].after

\* Answers over the records v.
Over(v) == [by : Asker, after : Nat, of : {v}]

\* The entries es are among the first b of s, in their order, with no two
\* closer than their places in es.
Ordered(s, es, b) ==
  /\ \A k \in DOMAIN es : \E i \in 1 .. b : s[i] = es[k]
  /\ \A k, n \in DOMAIN es : k < n =>
       \A i, j \in 1 .. b : s[i] = es[k] /\ s[j] = es[n] => i + (n - k) <= j

\* The i-th of s is among es; or why, of the first b, it need not be.
Held(s, es, i) == \E k \in DOMAIN es : es[k] = s[i]
Excused(s, i, b, m) ==
  \/ \E j \in i + 1 .. b : s[j].of # s[i].of \/ s[j].after < i
  \/ m - i >= MaxEntries

\* ask.json.
AskInv ==
  IF ask = None THEN saved = <<>>
  ELSE /\ ask.whole
       /\ ask.entries \in Seq(Over(ask.fingerprint)) /\ Len(ask.entries) <= MaxEntries
       /\ saved # <<>> /\ saved[Len(saved)].of = ask.fingerprint
       /\ Ordered(saved, ask.entries, Len(saved))
       /\ \A i \in DOMAIN saved : Held(saved, ask.entries, i) \/ Excused(saved, i, Len(saved), Len(saved))

\* An ask that has loaded the cache.
Loaded(a) ==
  /\ base[a] <= Len(saved)
  /\ \A i \in DOMAIN saved : saved[i].by = a => i <= base[a]

\* An ask whose model call is under way.
Asking(a) ==
  /\ Ordered(saved, state[a], base[a])
  /\ \A i \in 1 .. base[a] : saved[i].of = seen[a] =>
       Held(saved, state[a], i) \/ Excused(saved, i, base[a], base[a])

\* One that has its answer: the last entry is the answer, the others were there.
Before(a) == SubSeq(state[a], 1, Len(state[a]) - 1)
Answered(a) ==
  /\ Len(state[a]) > 0 /\ state[a][Len(state[a])] = Answer(a)
  /\ Ordered(saved, Before(a), base[a])
  /\ \A k \in DOMAIN Before(a), i \in 1 .. base[a] :
       saved[i] = state[a][k] => i + (Len(state[a]) - k) <= base[a] + 1
  /\ \A i \in 1 .. base[a] : saved[i].of = seen[a] =>
       Held(saved, Before(a), i) \/ Excused(saved, i, base[a], base[a] + 1)

AskerInv(a) ==
  /\ state[a] \in Seq(Over(seen[a])) /\ Len(state[a]) <= MaxEntries
  /\ apc[a] \in {"idle", "read"} => state[a] = <<>>
  /\ apc[a] \in InFlight => Loaded(a)
  /\ apc[a] = "answer" => Asking(a)
  /\ apc[a] \in Waiting => Answered(a)
  /\ apc[a] = "rename" /\ tmp[a] # None => tmp[a] = Cache(seen[a], state[a])

IInv ==
  /\ TypeOK /\ Costs /\ Shape /\ Saved /\ AskInv /\ ~refused
  /\ \A a \in Asker : AskerInv(a)

-----------------------------------------------------------------------------
\* The last n elements of a sequence.
LEMMA LastOfFacts ==
  ASSUME NEW T, NEW s \in Seq(T), NEW n \in Nat
  PROVE  /\ LastOf(s, n) \in Seq(T)
         /\ Len(LastOf(s, n)) = IF Len(s) > n THEN n ELSE Len(s)
         /\ \A i \in DOMAIN LastOf(s, n) :
              LastOf(s, n)[i] = s[i + (Len(s) - Len(LastOf(s, n)))]
<1> DEFINE m == IF Len(s) > n THEN Len(s) - n + 1 ELSE 1
<1>1. Len(s) \in Nat /\ m \in Int /\ \A i \in 1 .. Len(s) : s[i] \in T
  OBVIOUS
<1>2. \A i \in m .. Len(s) : s[i] \in T
  BY <1>1
<1>3. LastOf(s, n) = SubSeq(s, m, Len(s))
  BY DEF LastOf
<1> HIDE DEF m
<1>4. /\ LastOf(s, n) \in Seq(T)
      /\ Len(LastOf(s, n)) = IF m <= Len(s) THEN Len(s) - m + 1 ELSE 0
      /\ \A i \in 1 .. Len(s) - m + 1 : LastOf(s, n)[i] = s[m + i - 1]
  BY <1>1, <1>2, <1>3, SubSeqProperties
<1>5. DOMAIN LastOf(s, n) = 1 .. Len(LastOf(s, n))
  BY <1>4, LenProperties
<1>6. CASE Len(s) > n
  <2>1. m = Len(s) - n + 1
    BY <1>6 DEF m
  <2>2. Len(LastOf(s, n)) = n
    BY <1>1, <1>4, <2>1
  <2>3. ASSUME NEW i \in 1 .. n PROVE m + i - 1 = i + (Len(s) - n) /\ i \in 1 .. Len(s) - m + 1
    BY <1>1, <2>1
  <2> QED BY <1>4, <1>5, <1>6, <2>2, <2>3
<1>7. CASE ~(Len(s) > n)
  <2>1. m = 1
    BY <1>7 DEF m
  <2>2. Len(LastOf(s, n)) = Len(s)
    BY <1>1, <1>4, <2>1
  <2> QED BY <1>1, <1>4, <1>5, <1>7, <2>1, <2>2
<1> QED BY <1>6, <1>7

\* A sequence is one over its own elements.
LEMMA AppendOwn ==
  ASSUME NEW s, s \in Seq({s[i] : i \in DOMAIN s}), NEW e
  PROVE  /\ Append(s, e) \in Seq({Append(s, e)[i] : i \in DOMAIN Append(s, e)})
         /\ Len(Append(s, e)) = Len(s) + 1 /\ DOMAIN Append(s, e) = 1 .. Len(s) + 1
         /\ DOMAIN s = 1 .. Len(s) /\ Len(s) \in Nat
         /\ \A i \in DOMAIN s : Append(s, e)[i] = s[i]
         /\ Append(s, e)[Len(s) + 1] = e
<1> DEFINE S == {s[i] : i \in DOMAIN s}
           more == Append(s, e)
<1>1. s \in Seq(S \cup {e})
  BY SeqMonotonic
<1> HIDE DEF S
<1>2. /\ more \in Seq(S \cup {e})
      /\ Len(more) = Len(s) + 1 /\ DOMAIN more = 1 .. Len(s) + 1
      /\ DOMAIN s = 1 .. Len(s) /\ Len(s) \in Nat
      /\ \A i \in DOMAIN s : more[i] = s[i]
      /\ more[Len(s) + 1] = e
  BY <1>1
<1>3. S \cup {e} = {more[i] : i \in DOMAIN more}
  BY <1>2 DEF S
<1> QED BY <1>2, <1>3

\* Nothing saved, nobody asking.
LEMMA InvInit == Init => IInv
<1> SUFFICES ASSUME Init PROVE IInv
  OBVIOUS
<1> USE ObserversAssumption DEF Init
<1>1. TypeOK
  <2>1. PICK s \in Starts : now = s.now /\ asks = s.asks /\ faults = s.faults
    OBVIOUS
  <2>2. now \in Nat /\ asks \in 0 .. MaxAsks /\ faults \in 0 .. MaxFaults
    BY <2>1
  <2>3. counters \in [turns : 0 .. MaxTurns, cost : 0 .. MaxTurns]
    BY DEF NoCounters
  <2>4. /\ apc \in [Asker -> {"idle", "read", "answer", "write", "writing", "rename"}]
        /\ base \in [Asker -> Nat] /\ \A a \in Asker : Len(state[a]) <= MaxEntries
    OBVIOUS
  <2> QED BY <2>2, <2>3, <2>4 DEF TypeOK
<1>2. Costs
  BY DEF Costs, NoCounters
<1>3. Shape /\ Saved /\ AskInv /\ ~refused
  BY DEF Shape, Saved, AskInv
<1>4. ASSUME NEW a \in Asker PROVE AskerInv(a)
  BY DEF AskerInv, InFlight, Waiting
<1> QED BY <1>1, <1>2, <1>3, <1>4 DEF IInv
\* The tell and status leave the askers and ask.json alone.
LEMMA Apart ==
  ASSUME Shape, Saved, AskInv, ~refused, \A a \in Asker : AskerInv(a), UNCHANGED <<cache, askers>>
  PROVE  Shape' /\ Saved' /\ AskInv' /\ ~refused' /\ \A a \in Asker : AskerInv(a)'
<1>1. UNCHANGED <<ask, tmp, apc, seen, state, base, saved, asks, refused>>
  BY DEF cache, askers
<1>2. Shape' /\ Saved' /\ ~refused'
  BY <1>1 DEF Shape, Saved
<1>3. AskInv'
  BY <1>1 DEF AskInv
<1>4. ASSUME NEW a \in Asker PROVE AskerInv(a)'
  <2>1. Loaded(a)' <=> Loaded(a)
    BY <1>1 DEF Loaded
  <2>2. Asking(a)' <=> Asking(a)
    BY <1>1 DEF Asking
  <2>3. Answered(a)' <=> Answered(a)
    BY <1>1 DEF Answered, Before, Answer
  <2> QED BY <1>1, <2>1, <2>2, <2>3 DEF AskerInv, Over, Cache, Fingerprint
<1> QED BY <1>2, <1>3, <1>4

\* The tell's counters.
LEMMA TellTypes ==
  ASSUME TypeOK, Costs, Tell
  PROVE  TypeOK' /\ Costs'
<1> USE ObserversAssumption DEF TypeOK, Costs
<1>1. UNCHANGED <<apc, state, base, asks>>
  BY DEF Tell, cache, askers
<1>2. faults' \in 0 .. MaxFaults
  BY DEF Tell, Stops
<1>9. ASSUME t' \in {"closed", "prune", "fold", "user", "turn", "usage", "snapshot", "end"},
             attached' \in BOOLEAN, now' \in Nat,
             counters' \in [turns : 0 .. MaxTurns, cost : 0 .. MaxTurns]
      PROVE  TypeOK'
  BY <1>1, <1>2, <1>9
<1>3. CASE Open
  BY <1>1, <1>2, <1>3 DEF Open, NoCounters
<1>4. CASE Prune \/ Fold \/ Unreadable \/ Leave \/ Stops
  BY <1>1, <1>2, <1>4 DEF Prune, Fold, Unreadable, Leave, Stops
<1>5. CASE Prompt
  <2>1. counters' = counters /\ t' = "turn" /\ now' = now + 1 /\ attached' = attached
    BY <1>5 DEF Prompt, Appends, Counted
  <2> QED BY <1>1, <1>2, <2>1
<1>6. CASE Reply
  <2>1. /\ counters' = [counters EXCEPT !.turns = @ + 1] /\ counters.turns < MaxTurns
        /\ t' \in {"usage", "turn"} /\ now' = now + 1 /\ attached' = attached
    BY <1>6 DEF Reply, Appends, Counted
  <2>2. counters'.turns = counters.turns + 1 /\ counters'.cost = counters.cost
    BY <2>1
  <2>5. counters.turns \in 0 .. MaxTurns /\ counters.cost \in 0 .. MaxTurns /\ MaxTurns \in Nat
    OBVIOUS
  <2>6. counters.turns + 1 \in 0 .. MaxTurns
    BY <2>1, <2>5
  <2>3. counters' \in [turns : 0 .. MaxTurns, cost : 0 .. MaxTurns]
    BY <2>1, <2>6
  <2>4. Costs'
    BY <2>2
  <2>7. TypeOK'
    <3>1. now' \in Nat /\ attached' \in BOOLEAN
      BY <2>1
    <3> QED BY <1>9, <2>1, <2>3, <3>1
  <2> QED BY <2>4, <2>7
<1>7. CASE Usage
  <2>1. /\ counters' = [counters EXCEPT !.cost = @ + 1] /\ t = "usage" /\ t' = "turn"
        /\ now' = now /\ attached' = attached
    BY <1>7 DEF Usage, Appends, Counted
  <2>2. counters.turns \in 0 .. MaxTurns /\ counters.cost \in 0 .. MaxTurns /\ MaxTurns \in Nat
    OBVIOUS
  <2>3. counters'.turns = counters.turns /\ counters'.cost = counters.cost + 1
    BY <2>1
  <2>4. counters.cost + 1 \in 0 .. MaxTurns
    BY <2>1, <2>2
  <2>5. counters' \in [turns : 0 .. MaxTurns, cost : 0 .. MaxTurns]
    <3>1. counters' = [turns |-> counters.turns, cost |-> counters.cost + 1]
      BY <2>1
    <3> QED BY <2>2, <2>4, <3>1
  <2>6. TypeOK'
    <3>1. now' \in Nat /\ attached' \in BOOLEAN
      BY <2>1
    <3> QED BY <1>9, <2>1, <2>5, <3>1
  <2>7. Costs'
    BY <2>1, <2>2, <2>3
  <2> QED BY <2>6, <2>7
<1>8. CASE Snapshot \/ End
  <2>1. counters' = counters /\ t' \in {"end", "closed"} /\ now' = now /\ attached' = attached
    BY <1>8 DEF Snapshot, End, Appends, Counted
  <2> QED BY <1>1, <1>2, <2>1
<1> QED BY <1>3, <1>4, <1>5, <1>6, <1>7, <1>8 DEF Tell

\* What holds of the first b answers depends on no other.
LEMMA Agreeing ==
  ASSUME NEW s, NEW u, NEW b \in Nat, \A i \in 1 .. b : u[i] = s[i], NEW T, NEW es \in Seq(T)
  PROVE  /\ Ordered(s, es, b) => Ordered(u, es, b)
         /\ \A i \in 1 .. b : Held(s, es, i) => Held(u, es, i)
         /\ \A i \in 1 .. b, m \in Nat : Excused(s, i, b, m) => Excused(u, i, b, m)
<1>1. ASSUME Ordered(s, es, b) PROVE Ordered(u, es, b)
  <2>1. \A k \in DOMAIN es : \E i \in 1 .. b : u[i] = es[k]
    BY <1>1 DEF Ordered
  <2>2. ASSUME NEW k \in DOMAIN es, NEW n \in DOMAIN es, k < n, NEW i \in 1 .. b, NEW j \in 1 .. b,
               u[i] = es[k], u[j] = es[n]
        PROVE  i + (n - k) <= j
    <3>1. s[i] = es[k] /\ s[j] = es[n]
      BY <2>2
    <3> QED BY <1>1, <2>2, <3>1 DEF Ordered
  <2> QED BY <2>1, <2>2 DEF Ordered
<1>2. ASSUME NEW i \in 1 .. b, Held(s, es, i) PROVE Held(u, es, i)
  BY <1>2 DEF Held
<1>3. ASSUME NEW i \in 1 .. b, NEW m \in Nat, Excused(s, i, b, m) PROVE Excused(u, i, b, m)
  <2>1. \A j \in i + 1 .. b : j \in 1 .. b
    OBVIOUS
  <2> QED BY <1>3, <2>1 DEF Excused
<1> QED BY <1>1, <1>2, <1>3

\* Only an asker's own steps, and answers it has not given itself, leave it be.
LEMMA OthersStable ==
  ASSUME NEW b \in Asker, AskerInv(b), UNCHANGED <<apc[b], seen[b], state[b], base[b], tmp[b]>>,
         saved \in Seq({saved[i] : i \in DOMAIN saved}), base[b] \in Nat,
         Len(saved') \in Nat, DOMAIN saved' = 1 .. Len(saved'), Len(saved) <= Len(saved'),
         \A i \in DOMAIN saved : saved'[i] = saved[i],
         \A i \in DOMAIN saved' \ DOMAIN saved : saved'[i].by # b
  PROVE  AskerInv(b)'
<1>1. DOMAIN saved = 1 .. Len(saved) /\ Len(saved) \in Nat
  OBVIOUS
<1>2. ASSUME Loaded(b) PROVE Loaded(b)'
  BY <1>1, <1>2 DEF Loaded
<1>3. ASSUME Loaded(b) PROVE \A i \in 1 .. base[b] : saved'[i] = saved[i]
  BY <1>1, <1>3 DEF Loaded
<1>4. /\ state'[b] = state[b] /\ seen'[b] = seen[b] /\ base'[b] = base[b]
      /\ Before(b)' = Before(b) /\ Answer(b)' = Answer(b)
  BY DEF Before, Answer
<1>5. state[b] \in Seq(Over(seen[b])) /\ Before(b) \in Seq(Over(seen[b]))
  <2>1. state[b] \in Seq(Over(seen[b]))
    BY DEF AskerInv
  <2> QED BY <2>1, SubSeqProperties DEF Before
<1>7. ASSUME Loaded(b), Asking(b) PROVE Asking(b)'
  <2>1. Ordered(saved', state[b], base[b])
    BY <1>3, <1>5, <1>7, Agreeing DEF Asking
  <2>2. ASSUME NEW i \in 1 .. base[b], saved'[i].of = seen[b]
        PROVE  Held(saved', state[b], i) \/ Excused(saved', i, base[b], base[b])
    BY <1>3, <1>5, <1>7, <2>2, Agreeing DEF Asking
  <2> QED BY <1>4, <2>1, <2>2 DEF Asking
<1>8. ASSUME Loaded(b), Answered(b) PROVE Answered(b)'
  <2>1. Ordered(saved', Before(b), base[b])
    BY <1>3, <1>5, <1>8, Agreeing DEF Answered
  <2>2. ASSUME NEW i \in 1 .. base[b], saved'[i].of = seen[b]
        PROVE  Held(saved', Before(b), i) \/ Excused(saved', i, base[b], base[b] + 1)
    <3> DEFINE m == base[b] + 1
    <3>1. m \in Nat /\ saved[i].of = seen[b]
      BY <1>3, <1>8, <2>2
    <3>2. Held(saved, Before(b), i) \/ Excused(saved, i, base[b], m)
      BY <1>8, <3>1 DEF Answered
    <3> HIDE DEF m
    <3>3. Held(saved', Before(b), i) \/ Excused(saved', i, base[b], m)
      BY <1>3, <1>5, <1>8, <3>1, <3>2, Agreeing
    <3> QED BY <3>3 DEF m
  <2>3. ASSUME NEW k \in DOMAIN Before(b), NEW i \in 1 .. base[b], saved'[i] = state[b][k]
        PROVE  i + (Len(state[b]) - k) <= base[b] + 1
    BY <1>3, <1>8, <2>3 DEF Answered
  <2> QED BY <1>4, <1>8, <2>1, <2>2, <2>3 DEF Answered
<1>6. apc[b] \in {"idle", "read"} => state'[b] = <<>>
  BY DEF AskerInv
<1> QED BY <1>2, <1>6, <1>7, <1>8 DEF AskerInv, InFlight, Waiting, Over, Cache, Fingerprint
\* An answer joins the entries, and the oldest makes room for it: of the n
\* entries es all, or all but the first, are before it.
LEMMA Joining ==
  ASSUME NEW u, NEW b \in Nat, NEW n \in Nat, NEW d \in Nat, d <= 1, d <= n, n <= MaxEntries,
         NEW es, DOMAIN es = 1 .. n, NEW bf, DOMAIN bf = 1 .. n - d,
         \A k \in DOMAIN bf : bf[k] = es[k + d],
         d = 1 => n = MaxEntries,
         Ordered(u, es, b)
  PROVE  /\ Ordered(u, bf, b)
         /\ \A k \in DOMAIN bf, i \in 1 .. b : u[i] = bf[k] => i + (n + 1 - d - k) <= b + 1
         /\ \A i \in 1 .. b : Held(u, es, i) => Held(u, bf, i) \/ b + 1 - i >= MaxEntries
<1>1. MaxEntries \in Nat
  BY ObserversAssumption
<1>2. ASSUME NEW k \in 1 .. n, NEW m \in 1 .. n, k < m, NEW i \in 1 .. b, NEW j \in 1 .. b,
             u[i] = es[k], u[j] = es[m]
      PROVE  i + (m - k) <= j
  <2>1. \A x, y \in DOMAIN es : x < y =>
          \A p, q \in 1 .. b : u[p] = es[x] /\ u[q] = es[y] => p + (y - x) <= q
    BY DEF Ordered
  <2>2. k \in DOMAIN es /\ m \in DOMAIN es
    OBVIOUS
  <2> QED BY <1>2, <2>1, <2>2
<1>3. ASSUME NEW k \in 1 .. n - d PROVE k + d \in 1 .. n /\ bf[k] = es[k + d]
  OBVIOUS
<1>4. Ordered(u, bf, b)
  <2>1. ASSUME NEW k \in DOMAIN bf PROVE \E i \in 1 .. b : u[i] = bf[k]
    BY <1>3 DEF Ordered
  <2>2. ASSUME NEW k \in 1 .. n - d, NEW m \in 1 .. n - d, k < m, NEW i \in 1 .. b, NEW j \in 1 .. b,
               u[i] = bf[k], u[j] = bf[m]
        PROVE  i + (m - k) <= j
    <3>1. u[i] = es[k + d] /\ u[j] = es[m + d] /\ k + d \in 1 .. n /\ m + d \in 1 .. n /\ k + d < m + d
      BY <1>3, <2>2
    <3>2. i + ((m + d) - (k + d)) <= j
      BY <1>2, <3>1
    <3> QED BY <3>2
  <2> QED BY <2>1, <2>2 DEF Ordered
<1>5. ASSUME NEW k \in 1 .. n, NEW i \in 1 .. b, u[i] = es[k] PROVE i + (n - k) <= b
  <2>1. n \in 1 .. n
    OBVIOUS
  <2>2. PICK j \in 1 .. b : u[j] = es[n]
    BY <2>1 DEF Ordered
  <2>3. CASE k = n
    BY <2>3
  <2>4. CASE k < n
    <3>1. i + (n - k) <= j
      BY <1>2, <1>5, <2>1, <2>2, <2>4
    <3> QED BY <3>1
  <2> QED BY <2>3, <2>4
<1>6. ASSUME NEW k \in 1 .. n - d, NEW i \in 1 .. b, u[i] = bf[k] PROVE i + (n + 1 - d - k) <= b + 1
  <2>1. i + (n - (k + d)) <= b
    BY <1>3, <1>5, <1>6
  <2> QED BY <2>1
<1>7. ASSUME NEW i \in 1 .. b, Held(u, es, i) PROVE Held(u, bf, i) \/ b + 1 - i >= MaxEntries
  <2>1. PICK k \in 1 .. n : es[k] = u[i]
    BY <1>7 DEF Held
  <2>2. CASE k > d
    <3>1. k - d \in 1 .. n - d /\ (k - d) + d = k
      BY <2>2
    <3>2. bf[k - d] = es[k]
      BY <1>3, <3>1
    <3> QED BY <2>1, <3>1, <3>2 DEF Held
  <2>3. CASE ~(k > d)
    <3>1. k = 1 /\ d = 1
      BY <2>3
    <3>2. i + (MaxEntries - 1) <= b
      BY <1>5, <2>1, <3>1
    <3> QED BY <1>1, <3>2
  <2> QED BY <2>2, <2>3
<1> QED BY <1>4, <1>6, <1>7
\* Loading the cache: its entries if they are over the same records, or none.
LEMMA LoadsOwn ==
  ASSUME IInv, NEW a \in Asker, AskLoads(a)
  PROVE  AskerInv(a)' /\ UNCHANGED <<ask, saved, refused>>
<1> USE DEF IInv, TypeOK, Shape
<1>1. ~Malformed
  BY DEF Malformed, AskInv
<1>2. /\ apc'[a] = "answer" /\ base'[a] = Len(saved) /\ seen' = seen /\ refused' = refused
      /\ state'[a] = IF Matching(a) THEN ask.entries ELSE <<>>
      /\ UNCHANGED <<ask, tmp, saved>>
  BY <1>1 DEF AskLoads, cache
<1>3. saved \in Seq({saved[i] : i \in DOMAIN saved}) /\ DOMAIN saved = 1 .. Len(saved) /\ Len(saved) \in Nat
  BY DEF Saved
<1>4. Loaded(a)'
  BY <1>2, <1>3 DEF Loaded
<1>5. CASE Matching(a)
  <2>1. ask # None /\ ask.fingerprint = seen[a]
    BY <1>5 DEF Matching, Fingerprint
  <2>2. /\ ask.entries \in Seq(Over(seen[a])) /\ Len(ask.entries) <= MaxEntries
        /\ Ordered(saved, ask.entries, Len(saved))
        /\ \A i \in DOMAIN saved : Held(saved, ask.entries, i) \/ Excused(saved, i, Len(saved), Len(saved))
    BY <2>1 DEF AskInv
  <2>3. Asking(a)'
    BY <1>2, <1>3, <1>5, <2>2 DEF Asking
  <2> QED BY <1>2, <1>4, <1>5, <2>2, <2>3 DEF AskerInv, InFlight, Waiting, Over
<1>6. CASE ~Matching(a)
  <2>1. state'[a] = <<>>
    BY <1>2, <1>6
  <2>2. ASSUME NEW i \in 1 .. Len(saved), saved[i].of = seen[a]
        PROVE  Excused(saved, i, Len(saved), Len(saved))
    <3>1. ask # None /\ Len(saved) \in 1 .. Len(saved) /\ saved[Len(saved)].of # seen[a]
      BY <1>3, <1>6, <2>2 DEF AskInv, Matching, Fingerprint
    <3>2. Len(saved) \in i + 1 .. Len(saved)
      BY <1>3, <2>2, <3>1
    <3> QED BY <2>2, <3>1, <3>2 DEF Excused
  <2>3. Ordered(saved, <<>>, Len(saved))
    BY DEF Ordered
  <2>4. Asking(a)'
    BY <1>2, <2>1, <2>2, <2>3 DEF Asking
  <2>5. state'[a] \in Seq(Over(seen[a])) /\ Len(state'[a]) <= MaxEntries
    BY <2>1, ObserversAssumption
  <2> QED BY <1>2, <1>4, <2>1, <2>4, <2>5 DEF AskerInv, InFlight, Waiting, Over
<1> QED BY <1>2, <1>5, <1>6

\* How many of the entries make room for one more: the oldest, or none.
Dropped(es) == IF Len(es) = MaxEntries THEN 1 ELSE 0

\* The cache with one more entry.
LEMMA KeptFacts ==
  ASSUME NEW T, NEW es \in Seq(T), Len(es) <= MaxEntries, NEW e \in T
  PROVE  /\ Kept(Append(es, e)) \in Seq(T) /\ Len(Kept(Append(es, e))) \in 1 .. MaxEntries
         /\ Dropped(es) \in {0, 1} /\ Dropped(es) <= Len(es)
         /\ Len(Kept(Append(es, e))) = Len(es) + 1 - Dropped(es)
         /\ Kept(Append(es, e))[Len(Kept(Append(es, e)))] = e
         /\ \A k \in 1 .. Len(es) - Dropped(es) : Kept(Append(es, e))[k] = es[k + Dropped(es)]
<1> DEFINE q == Append(es, e)
           d == Dropped(es)
           fs == Kept(q)
<1>1. MaxEntries \in Nat \ {0}
  BY ObserversAssumption
<1>2. /\ q \in Seq(T) /\ Len(q) = Len(es) + 1 /\ q[Len(es) + 1] = e /\ Len(es) \in Nat
      /\ \A i \in 1 .. Len(es) : q[i] = es[i]
  OBVIOUS
<1>3. fs = LastOf(q, MaxEntries)
  BY DEF Kept
<1> HIDE DEF q, fs
<1>4. /\ fs \in Seq(T) /\ Len(fs) = IF Len(q) > MaxEntries THEN MaxEntries ELSE Len(q)
      /\ \A i \in DOMAIN fs : fs[i] = q[i + (Len(q) - Len(fs))]
  BY <1>1, <1>2, <1>3, LastOfFacts
<1>5. /\ d \in {0, 1} /\ d <= Len(es)
      /\ Len(fs) = Len(es) + 1 - d /\ Len(fs) \in 1 .. MaxEntries /\ Len(q) - Len(fs) = d
  <2>1. CASE Len(es) = MaxEntries
    <3>1. d = 1 /\ Len(fs) = MaxEntries
      BY <1>1, <1>2, <1>4, <2>1 DEF Dropped
    <3> QED BY <1>1, <1>2, <2>1, <3>1
  <2>2. CASE Len(es) # MaxEntries
    <3>1. d = 0 /\ Len(fs) = Len(q)
      BY <1>1, <1>2, <1>4, <2>2 DEF Dropped
    <3> QED BY <1>1, <1>2, <2>2, <3>1
  <2> QED BY <2>1, <2>2
<1> HIDE DEF d
<1>6. \A i \in 1 .. Len(fs) : fs[i] = q[i + d]
  BY <1>4, <1>5, LenProperties
<1>7. fs[Len(fs)] = e
  <2>1. Len(fs) + d = Len(es) + 1 /\ Len(fs) \in 1 .. Len(fs)
    BY <1>2, <1>5
  <2> QED BY <1>2, <1>6, <2>1
<1>8. ASSUME NEW k \in 1 .. Len(es) - d PROVE fs[k] = es[k + d]
  <2>1. k \in 1 .. Len(fs) /\ k + d \in 1 .. Len(es)
    BY <1>2, <1>5
  <2> QED BY <1>2, <1>6, <2>1
<1> QED BY <1>4, <1>5, <1>7, <1>8 DEF q, d, fs

\* The model's answer becomes the last entry.
LEMMA AnswersOwn ==
  ASSUME IInv, NEW a \in Asker, AskAnswers(a)
  PROVE  AskerInv(a)' /\ UNCHANGED <<ask, saved, refused>>
<1> DEFINE es == state[a]
           fs == state'[a]
<1>1. /\ apc'[a] = "write" /\ fs = Kept(Append(es, Answer(a)))
      /\ UNCHANGED <<ask, tmp, seen, base, saved, refused>>
  BY DEF AskAnswers, cache, IInv, TypeOK, Shape
<1>2. /\ es \in Seq(Over(seen[a])) /\ Len(es) \in Nat /\ Len(es) <= MaxEntries /\ DOMAIN es = 1 .. Len(es)
      /\ Loaded(a) /\ Asking(a) /\ base[a] \in Nat
  BY DEF AskAnswers, AskerInv, InFlight, IInv, TypeOK
<1>3. Answer(a) \in Over(seen[a]) /\ Answer(a)' = Answer(a)
  BY <1>1, <1>2 DEF Answer, Over
<1> DEFINE d == Dropped(es)
<1>5. /\ fs \in Seq(Over(seen[a])) /\ Len(fs) \in 1 .. MaxEntries
      /\ d \in {0, 1} /\ d <= Len(es) /\ (d = 1 => Len(es) = MaxEntries) /\ Len(fs) = Len(es) + 1 - d
      /\ fs[Len(fs)] = Answer(a) /\ \A k \in 1 .. Len(es) - d : fs[k] = es[k + d]
  <2>1. d = 1 => Len(es) = MaxEntries
    BY DEF Dropped
  <2> HIDE DEF d, es, fs
  <2>2. /\ fs \in Seq(Over(seen[a])) /\ Len(fs) \in 1 .. MaxEntries
        /\ Dropped(es) \in {0, 1} /\ Dropped(es) <= Len(es) /\ Len(fs) = Len(es) + 1 - Dropped(es)
        /\ fs[Len(fs)] = Answer(a) /\ \A k \in 1 .. Len(es) - Dropped(es) : fs[k] = es[k + Dropped(es)]
    <3> DEFINE T == Over(seen[a])
               e == Answer(a)
    <3>1. es \in Seq(T) /\ Len(es) <= MaxEntries /\ e \in T
      BY <1>2, <1>3
    <3>2. fs = Kept(Append(es, e))
      BY <1>1
    <3> HIDE DEF T, e
    <3>3. /\ Kept(Append(es, e)) \in Seq(T) /\ Len(Kept(Append(es, e))) \in 1 .. MaxEntries
          /\ Dropped(es) \in {0, 1} /\ Dropped(es) <= Len(es)
          /\ Len(Kept(Append(es, e))) = Len(es) + 1 - Dropped(es)
          /\ Kept(Append(es, e))[Len(Kept(Append(es, e)))] = e
          /\ \A k \in 1 .. Len(es) - Dropped(es) : Kept(Append(es, e))[k] = es[k + Dropped(es)]
      BY <3>1, KeptFacts
    <3> QED BY <3>2, <3>3 DEF T, e
  <2> QED BY <2>1, <2>2 DEF d
<1> HIDE DEF es, fs, d
<1> DEFINE bf == SubSeq(fs, 1, Len(fs) - 1)
<1>6. /\ DOMAIN bf = 1 .. Len(es) - d
      /\ \A k \in DOMAIN bf : bf[k] = fs[k] /\ bf[k] = es[k + d]
  <2>1. Len(fs) - 1 = Len(es) - d /\ Len(es) - d \in Nat
    BY <1>2, <1>5
  <2>2. DOMAIN bf = 1 .. Len(fs) - 1 /\ \A k \in DOMAIN bf : bf[k] = fs[k]
    BY <1>5
  <2> QED BY <1>5, <2>1, <2>2
<1> HIDE DEF bf
<1>7. Ordered(saved, es, base[a])
  BY <1>2 DEF Asking, es
<1>8. /\ Ordered(saved, bf, base[a])
      /\ \A k \in DOMAIN bf, i \in 1 .. base[a] : saved[i] = bf[k] => i + (Len(es) + 1 - d - k) <= base[a] + 1
      /\ \A i \in 1 .. base[a] : Held(saved, es, i) => Held(saved, bf, i) \/ base[a] + 1 - i >= MaxEntries
  <2>1. d \in Nat /\ d <= 1
    BY <1>5
  <2>2. \A k \in DOMAIN bf : bf[k] = es[k + d]
    BY <1>6
  <2> DEFINE b == base[a]
             n == Len(es)
  <2>3. /\ b \in Nat /\ n \in Nat /\ d <= n /\ n <= MaxEntries /\ DOMAIN es = 1 .. n /\ DOMAIN bf = 1 .. n - d
        /\ (d = 1 => n = MaxEntries) /\ Ordered(saved, es, b)
    BY <1>2, <1>5, <1>6, <1>7
  <2> HIDE DEF b, n
  <2>4. /\ Ordered(saved, bf, b)
        /\ \A k \in DOMAIN bf, i \in 1 .. b : saved[i] = bf[k] => i + (n + 1 - d - k) <= b + 1
        /\ \A i \in 1 .. b : Held(saved, es, i) => Held(saved, bf, i) \/ b + 1 - i >= MaxEntries
    BY <2>1, <2>2, <2>3, Joining
  <2> QED BY <2>4 DEF b, n
<1>9. ASSUME NEW i \in 1 .. base[a], saved[i].of = seen[a]
      PROVE  Held(saved, bf, i) \/ Excused(saved, i, base[a], base[a] + 1)
  <2>1. Held(saved, es, i) \/ Excused(saved, i, base[a], base[a])
    BY <1>2, <1>9 DEF Asking, es
  <2>2. base[a] - i >= MaxEntries => base[a] + 1 - i >= MaxEntries
    BY <1>2, ObserversAssumption
  <2>3. Excused(saved, i, base[a], base[a]) => Excused(saved, i, base[a], base[a] + 1)
    BY <1>2, <2>2 DEF Excused
  <2>4. base[a] + 1 - i >= MaxEntries => Excused(saved, i, base[a], base[a] + 1)
    BY <1>2 DEF Excused
  <2> QED BY <1>8, <2>1, <2>3, <2>4
<1>10. Answered(a)'
  <2>1. ASSUME NEW k \in DOMAIN bf, NEW i \in 1 .. base[a], saved[i] = fs[k]
        PROVE  i + (Len(fs) - k) <= base[a] + 1
    <3>1. i + (Len(es) + 1 - d - k) <= base[a] + 1
      BY <1>6, <1>8, <2>1
    <3>2. Len(fs) - k = Len(es) + 1 - d - k
      BY <1>2, <1>5, <1>6
    <3> QED BY <3>1, <3>2
  <2>2. Before(a)' = bf
    BY <1>1 DEF Before, bf, fs
  <2> QED BY <1>1, <1>3, <1>5, <1>8, <1>9, <2>1, <2>2 DEF Answered, fs
<1>11. Loaded(a)'
  BY <1>1, <1>2 DEF Loaded
<1>12. state'[a] \in Seq(Over(seen[a])) /\ Len(state'[a]) <= MaxEntries
  BY <1>5, ObserversAssumption DEF fs
<1> QED BY <1>1, <1>10, <1>11, <1>12 DEF AskerInv, InFlight, Waiting, Over
\* No answer is saved twice.
LEMMA Once ==
  ASSUME NEW u, NEW L \in Nat,
         \A i \in 1 .. L : u[i].after \in 0 .. i - 1,
         \A i, j \in 1 .. L : i < j /\ u[i].by = u[j].by => i <= u[j].after,
         NEW i \in 1 .. L, NEW j \in 1 .. L, u[i] = u[j]
  PROVE  i = j
<1>1. ASSUME NEW k \in 1 .. L, NEW m \in 1 .. L, k < m, u[k] = u[m] PROVE FALSE
  <2>1. u[k].after < k
    OBVIOUS
  <2>2. u[k].by = u[m].by /\ u[k].after = u[m].after
    BY <1>1
  <2>3. k <= u[m].after
    BY <1>1, <2>2
  <2> QED BY <2>1, <2>2, <2>3
<1> QED BY <1>1

\* The rename: a new ask.json, and what it drops is excused.
LEMMA RenamesOwn ==
  ASSUME IInv, NEW a \in Asker, AskRenames(a)
  PROVE  Saved' /\ AskInv' /\ AskerInv(a)' /\ saved' = Append(saved, Answer(a)) /\ refused' = refused
<1> DEFINE es == state[a]  bf == Before(a)  u == saved'  b == base[a]  A == Answer(a)
           n == Len(es)  L == Len(saved)
<1>1. /\ u = Append(saved, A) /\ ask' = tmp[a] /\ ask' # None /\ refused' = refused
      /\ apc'[a] = "idle" /\ seen'[a] = <<>> /\ state'[a] = <<>>
  BY DEF AskRenames, TmpOf, Idle, IInv, TypeOK, Shape
<1>2. /\ es \in Seq(Over(seen[a])) /\ n \in Nat /\ n > 0 /\ n <= MaxEntries /\ DOMAIN es = 1 .. n
      /\ Loaded(a) /\ Answered(a) /\ b \in Nat /\ tmp[a] = Cache(seen[a], es)
  <2>1. apc[a] = "rename" /\ tmp[a] # None
    BY DEF AskRenames, TmpOf
  <2>2. AskerInv(a) /\ b \in Nat
    BY DEF IInv, TypeOK
  <2>3. Answered(a)
    BY <2>1, <2>2 DEF AskerInv, Waiting
  <2> QED BY <2>1, <2>2, <2>3 DEF AskerInv, InFlight, Waiting, Answered
<1>3. /\ saved \in Seq({saved[i] : i \in DOMAIN saved}) /\ Saved
      /\ \A i \in DOMAIN saved : saved[i].by \in Asker /\ saved[i].after \in 0 .. i - 1
      /\ \A i, j \in DOMAIN saved : i < j /\ saved[i].by = saved[j].by => i <= saved[j].after
  BY DEF IInv, Saved
<1>4. /\ u \in Seq({u[i] : i \in DOMAIN u}) /\ Len(u) = L + 1 /\ DOMAIN u = 1 .. L + 1
      /\ DOMAIN saved = 1 .. L /\ L \in Nat
      /\ \A i \in 1 .. L : u[i] = saved[i]
      /\ u[L + 1] = A
  <2>1. /\ Append(saved, A) \in Seq({Append(saved, A)[i] : i \in DOMAIN Append(saved, A)})
        /\ Len(Append(saved, A)) = L + 1 /\ DOMAIN Append(saved, A) = 1 .. L + 1
        /\ DOMAIN saved = 1 .. L /\ L \in Nat
        /\ \A i \in DOMAIN saved : Append(saved, A)[i] = saved[i]
        /\ Append(saved, A)[L + 1] = A
    BY <1>3, AppendOwn
  <2> QED BY <1>1, <2>1
<1>5. A.by = a /\ A.after = b /\ A.of = seen[a] /\ b <= L /\ \A i \in 1 .. L : saved[i].by = a => i <= b
  BY <1>2, <1>4 DEF Answer, Loaded
<1>6. /\ DOMAIN bf = 1 .. n - 1 /\ \A k \in 1 .. n - 1 : bf[k] = es[k]
  BY <1>2 DEF Before
<1>7. /\ es[n] = A /\ Ordered(saved, bf, b)
      /\ \A k \in 1 .. n - 1, i \in 1 .. b : saved[i] = es[k] => i + (n - k) <= b + 1
      /\ \A i \in 1 .. b : saved[i].of = seen[a] => Held(saved, bf, i) \/ Excused(saved, i, b, b + 1)
  BY <1>2, <1>6 DEF Answered
<1> HIDE DEF es, bf, u, b, A, n, L
<1>8. ASSUME NEW i \in 1 .. L + 1 PROVE u[i].by \in Asker /\ u[i].after \in 0 .. i - 1
  <2>1. CASE i = L + 1
    BY <1>2, <1>4, <1>5, <2>1
  <2>2. CASE i \in 1 .. L
    BY <1>3, <1>4, <2>2
  <2> QED BY <1>4, <2>1, <2>2
<1>9. ASSUME NEW i \in 1 .. L + 1, NEW j \in 1 .. L + 1, i < j, u[i].by = u[j].by PROVE i <= u[j].after
  <2>1. i \in 1 .. L
    BY <1>4, <1>9
  <2>2. CASE j = L + 1
    BY <1>4, <1>5, <1>9, <2>1, <2>2
  <2>3. CASE j \in 1 .. L
    BY <1>3, <1>4, <1>9, <2>1, <2>3
  <2> QED BY <1>4, <2>2, <2>3
<1>10. Saved'
  BY <1>4, <1>8, <1>9 DEF Saved, u
<1>11. ASSUME NEW i \in 1 .. L + 1, NEW j \in 1 .. L + 1, u[i] = u[j] PROVE i = j
  <2>1. L + 1 \in Nat
    BY <1>4
  <2> QED BY <1>8, <1>9, <1>11, <2>1, Once
<1>12. ASSUME NEW k \in 1 .. n - 1, NEW i \in 1 .. L + 1, u[i] = es[k]
       PROVE  i \in 1 .. b /\ saved[i] = es[k]
  <2>1. PICK h \in 1 .. b : saved[h] = es[k]
    BY <1>6, <1>7 DEF Ordered
  <2>2. h \in 1 .. L + 1 /\ u[h] = es[k]
    BY <1>2, <1>4, <1>5, <2>1
  <2>3. i = h
    BY <1>11, <1>12, <2>2
  <2> QED BY <2>1, <2>3
<1>13. Ordered(u, es, L + 1)
  <2>1. ASSUME NEW k \in 1 .. n PROVE \E i \in 1 .. L + 1 : u[i] = es[k]
    <3>1. CASE k = n
      BY <1>4, <1>7, <3>1
    <3>2. CASE k \in 1 .. n - 1
      <4>1. PICK h \in 1 .. b : saved[h] = es[k]
        BY <1>6, <1>7, <3>2 DEF Ordered
      <4>2. h \in 1 .. L + 1 /\ u[h] = es[k]
        BY <1>2, <1>4, <1>5, <4>1
      <4> QED BY <4>2
    <3> QED BY <1>2, <3>1, <3>2
  <2>2. ASSUME NEW k \in 1 .. n, NEW m \in 1 .. n, k < m, NEW i \in 1 .. L + 1, NEW j \in 1 .. L + 1,
               u[i] = es[k], u[j] = es[m]
        PROVE  i + (m - k) <= j
    <3>1. k \in 1 .. n - 1
      BY <1>2, <2>2
    <3>2. i \in 1 .. b /\ saved[i] = es[k]
      BY <1>12, <2>2, <3>1
    <3>3. CASE m = n
      <4>1. j = L + 1
        BY <1>4, <1>7, <1>11, <2>2, <3>3
      <4>2. i + (n - k) <= b + 1
        BY <1>7, <3>1, <3>2
      <4> QED BY <1>2, <1>4, <1>5, <3>3, <4>1, <4>2
    <3>4. CASE m \in 1 .. n - 1
      <4>1. j \in 1 .. b /\ saved[j] = es[m]
        BY <1>12, <2>2, <3>4
      <4> QED BY <1>6, <1>7, <2>2, <3>1, <3>2, <3>4, <4>1 DEF Ordered
    <3> QED BY <1>2, <3>3, <3>4
  <2> QED BY <1>2, <2>1, <2>2 DEF Ordered
<1>14. ASSUME NEW i \in 1 .. L + 1 PROVE Held(u, es, i) \/ Excused(u, i, L + 1, L + 1)
  <2>1. CASE i = L + 1
    BY <1>2, <1>4, <1>7, <2>1 DEF Held
  <2>2. ASSUME i \in 1 .. L, u[L + 1].of # u[i].of \/ u[L + 1].after < i PROVE Excused(u, i, L + 1, L + 1)
    <3>1. L + 1 \in i + 1 .. L + 1
      BY <1>4, <2>2
    <3> QED BY <2>2, <3>1 DEF Excused
  <2>3. CASE i \in 1 .. L /\ i > b
    BY <1>2, <1>4, <1>5, <2>2, <2>3
  <2>4. CASE i \in 1 .. b /\ u[i].of # seen[a]
    BY <1>2, <1>4, <1>5, <2>2, <2>4
  <2>5. CASE i \in 1 .. b /\ u[i].of = seen[a]
    <3>1. u[i] = saved[i] /\ i \in 1 .. L
      BY <1>2, <1>4, <1>5, <2>5
    <3>2. CASE Held(saved, bf, i)
      <4>1. PICK k \in 1 .. n - 1 : bf[k] = saved[i]
        BY <1>6, <3>2 DEF Held
      <4> QED BY <1>2, <1>6, <3>1, <4>1 DEF Held
    <3>3. CASE Excused(saved, i, b, b + 1)
      <4>1. ASSUME NEW j \in i + 1 .. b, saved[j].of # saved[i].of \/ saved[j].after < i
            PROVE  Excused(u, i, L + 1, L + 1)
        <5>1. j \in i + 1 .. L + 1 /\ u[j] = saved[j]
          BY <1>2, <1>4, <1>5, <2>5, <4>1
        <5> QED BY <3>1, <4>1, <5>1 DEF Excused
      <4>2. ASSUME b + 1 - i >= MaxEntries PROVE L + 1 - i >= MaxEntries
        BY <1>2, <1>4, <1>5, <4>2, ObserversAssumption
      <4>3. ASSUME L + 1 - i >= MaxEntries PROVE Excused(u, i, L + 1, L + 1)
        <5>1. (L + 1) - i >= MaxEntries
          BY <1>4, <4>3
        <5> QED BY <5>1 DEF Excused
      <4>4. \/ \E j \in i + 1 .. b : saved[j].of # saved[i].of \/ saved[j].after < i
            \/ b + 1 - i >= MaxEntries
        BY <1>2, <3>3 DEF Excused
      <4> QED BY <4>1, <4>2, <4>3, <4>4
    <3> QED BY <1>7, <2>5, <3>1, <3>2, <3>3
  <2> QED BY <1>2, <1>4, <1>5, <2>1, <2>3, <2>4, <2>5
<1>15. AskInv'
  <2>1. ask'.fingerprint = seen[a] /\ ask'.entries = es /\ ask'.whole
    BY <1>1, <1>2 DEF Cache, Fingerprint
  <2>2. u # <<>> /\ u[L + 1].of = seen[a]
    BY <1>4, <1>5
  <2>3. ask'.entries \in Seq(Over(ask'.fingerprint)) /\ Len(ask'.entries) <= MaxEntries
    BY <1>2, <2>1 DEF n
  <2> QED BY <1>1, <1>4, <1>13, <1>14, <2>1, <2>2, <2>3 DEF AskInv, u, Over
<1>16. AskerInv(a)'
  <2>1. state'[a] \in Seq(Over(seen[a])') /\ Len(state'[a]) <= MaxEntries
    BY <1>1, ObserversAssumption
  <2> QED BY <1>1, <2>1 DEF AskerInv, InFlight, Waiting
<1> QED BY <1>1, <1>10, <1>15, <1>16 DEF u, A
\* The other steps of an ask, which change neither ask.json nor what was saved.
LEMMA QuietOwn ==
  ASSUME IInv, NEW a \in Asker, AskReads(a) \/ AskWrites(a) \/ AskWritten(a) \/ AskStops(a)
  PROVE  AskerInv(a)' /\ UNCHANGED <<ask, saved, refused>>
<1> USE DEF IInv, TypeOK, Shape
<1>1. AskerInv(a) /\ base[a] \in Nat
  OBVIOUS
<1>2. CASE AskReads(a)
  <2>1. /\ apc[a] = "idle" /\ apc'[a] = "read" /\ UNCHANGED <<ask, tmp, state, base, saved, refused>>
    BY <1>2 DEF AskReads, cache
  <2>2. state'[a] = <<>> /\ <<>> \in Seq(Over(seen[a])') /\ Len(<<>>) <= MaxEntries
    BY <1>1, <2>1, ObserversAssumption DEF AskerInv
  <2> QED BY <2>1, <2>2 DEF AskerInv, InFlight, Waiting
<1>3. CASE AskStops(a)
  <2>1. /\ apc'[a] = "idle" /\ state'[a] = <<>> /\ UNCHANGED <<ask, saved, refused>>
    BY <1>3 DEF AskStops, Idle, cache
  <2>2. <<>> \in Seq(Over(seen[a])') /\ Len(<<>>) <= MaxEntries
    BY ObserversAssumption
  <2> QED BY <2>1, <2>2 DEF AskerInv, InFlight, Waiting
<1>4. CASE AskWrites(a) \/ AskWritten(a)
  <2>1. /\ apc[a] \in {"write", "writing"} /\ apc'[a] \in {"writing", "rename"}
        /\ UNCHANGED <<ask, seen, state, base, saved, refused>>
        /\ apc'[a] = "rename" => tmp'[a] = Cache(seen[a], state[a])
    BY <1>4 DEF AskWrites, AskWritten, TmpOf
  <2>2. Loaded(a)' /\ Answered(a)'
    BY <1>1, <2>1 DEF AskerInv, InFlight, Waiting, Loaded, Answered, Before, Answer
  <2>3. Cache(seen[a], state[a])' = Cache(seen[a], state[a]) /\ Over(seen[a])' = Over(seen[a])
    BY <2>1 DEF Cache, Fingerprint, Over
  <2> QED BY <1>1, <2>1, <2>2, <2>3 DEF AskerInv, InFlight, Waiting
<1> QED BY <1>2, <1>3, <1>4

\* Types of the askers.
LEMMA AskTypes ==
  ASSUME IInv, NEW a \in Asker, Ask(a)
  PROVE  /\ UNCHANGED <<t, attached, now, counters>> /\ Shape' /\ base' \in [Asker -> Nat]
         /\ apc' \in [Asker -> {"idle", "read", "answer", "write", "writing", "rename"}]
         /\ faults' \in 0 .. MaxFaults /\ asks' \in 0 .. MaxAsks
         /\ \A b \in Asker \ {a} : UNCHANGED <<apc[b], seen[b], state[b], base[b], tmp[b]>>
<1>1. UNCHANGED <<t, attached, now, counters>>
  BY DEF Ask, tell
<1>2. TypeOK /\ Shape /\ Len(saved) \in Nat
  BY DEF IInv, Saved
<1> DEFINE Steps == {"idle", "read", "answer", "write", "writing", "rename"}
<1>3. /\ faults' \in 0 .. MaxFaults /\ asks' \in 0 .. MaxAsks
  <2>1. faults' = faults \/ (faults < MaxFaults /\ faults' = faults + 1)
    <3>1. CASE AskStops(a)
      BY <3>1 DEF AskStops
    <3>2. CASE AskReads(a) \/ AskWrites(a) \/ AskWritten(a)
      BY <3>2 DEF AskReads, AskWrites, AskWritten
    <3>3. CASE AskLoads(a)
      BY <3>3 DEF AskLoads
    <3>4. CASE AskAnswers(a)
      BY <3>4 DEF AskAnswers
    <3>5. CASE AskRenames(a)
      BY <3>5 DEF AskRenames
    <3> QED BY <3>1, <3>2, <3>3, <3>4, <3>5 DEF Ask
  <2>2. asks' = asks \/ (asks < MaxAsks /\ asks' = asks + 1)
    <3>1. CASE AskReads(a)
      BY <3>1 DEF AskReads
    <3>2. CASE AskStops(a) \/ AskWrites(a) \/ AskWritten(a)
      BY <3>2 DEF AskStops, AskWrites, AskWritten
    <3>3. CASE AskLoads(a)
      BY <3>3 DEF AskLoads
    <3>4. CASE AskAnswers(a)
      BY <3>4 DEF AskAnswers
    <3>5. CASE AskRenames(a)
      BY <3>5 DEF AskRenames
    <3> QED BY <3>1, <3>2, <3>3, <3>4, <3>5 DEF Ask
  <2>3. faults \in 0 .. MaxFaults /\ asks \in 0 .. MaxAsks /\ MaxFaults \in Nat /\ MaxAsks \in Nat
    BY <1>2, ObserversAssumption DEF TypeOK
  <2> QED BY <2>1, <2>2, <2>3
<1>4. \E x \in Steps : apc' = [apc EXCEPT ![a] = x]
  BY DEF Ask, AskReads, AskLoads, AskAnswers, AskWrites, AskWritten, AskRenames, AskStops, Idle
<1>5. base' = base \/ \E x \in Nat : base' = [base EXCEPT ![a] = x]
  BY <1>2 DEF Ask, AskReads, AskLoads, AskAnswers, AskWrites, AskWritten, AskRenames, AskStops, Idle
<1>6. seen' = seen \/ \E x : seen' = [seen EXCEPT ![a] = x]
  BY DEF Ask, AskReads, AskLoads, AskAnswers, AskWrites, AskWritten, AskRenames, AskStops, Idle
<1>7. state' = state \/ \E x : state' = [state EXCEPT ![a] = x]
  BY DEF Ask, AskReads, AskLoads, AskAnswers, AskWrites, AskWritten, AskRenames, AskStops, Idle
<1>8. tmp' = tmp \/ \E x : tmp' = [tmp EXCEPT ![a] = x]
  BY DEF Ask, AskReads, AskLoads, AskAnswers, AskWrites, AskWritten, AskRenames, AskStops, TmpOf, cache
<1>9. Shape'
  BY <1>2, <1>6, <1>7, <1>8 DEF Shape
<1>10. apc' \in [Asker -> Steps] /\ base' \in [Asker -> Nat]
  BY <1>2, <1>4, <1>5 DEF TypeOK
<1>11. ASSUME NEW b \in Asker \ {a} PROVE UNCHANGED <<apc[b], seen[b], state[b], base[b], tmp[b]>>
  BY <1>2, <1>4, <1>5, <1>6, <1>7, <1>8 DEF TypeOK, Shape
<1> QED BY <1>1, <1>3, <1>9, <1>10, <1>11

\* A step of an ask.
LEMMA AskNext ==
  ASSUME IInv, NEW a \in Asker, Ask(a)
  PROVE  IInv'
<1>1. AskerInv(a)' /\ Saved' /\ AskInv' /\ ~refused'
  <2>1. CASE AskRenames(a)
    BY <2>1, RenamesOwn DEF IInv
  <2>2. CASE ~AskRenames(a)
    <3>1. AskerInv(a)' /\ UNCHANGED <<ask, saved, refused>>
      BY <2>2, LoadsOwn, AnswersOwn, QuietOwn DEF Ask
    <3> QED BY <3>1 DEF IInv, Saved, AskInv
  <2> QED BY <2>1, <2>2
<1>2. /\ saved \in Seq({saved[i] : i \in DOMAIN saved}) /\ saved' \in Seq({saved[i] : i \in DOMAIN saved})'
      /\ saved' = saved \/ saved' = Append(saved, Answer(a))
  <2>1. saved' = saved \/ saved' = Append(saved, Answer(a))
    BY RenamesOwn, LoadsOwn, AnswersOwn, QuietOwn DEF Ask
  <2> QED BY <1>1, <2>1 DEF IInv, Saved
<1>3. /\ Len(saved') \in Nat /\ DOMAIN saved' = 1 .. Len(saved') /\ Len(saved) <= Len(saved')
      /\ \A i \in DOMAIN saved : saved'[i] = saved[i]
      /\ \A i \in DOMAIN saved' \ DOMAIN saved : saved'[i].by = a
  <2>1. CASE saved' = saved
    BY <1>2, <2>1
  <2>2. CASE saved' = Append(saved, Answer(a))
    <3>1. Answer(a).by = a
      BY DEF Answer
    <3> QED BY <1>2, <2>2, <3>1, AppendOwn
  <2> QED BY <1>2, <2>1, <2>2
<1>4. ASSUME NEW b \in Asker \ {a} PROVE AskerInv(b)'
  <2>1. AskerInv(b) /\ base[b] \in Nat /\ b \in Asker
    BY DEF IInv, TypeOK
  <2>2. UNCHANGED <<apc[b], seen[b], state[b], base[b], tmp[b]>>
    BY AskTypes
  <2>3. \A i \in DOMAIN saved' \ DOMAIN saved : saved'[i].by # b
    BY <1>3
  <2> QED BY <1>2, <1>3, <2>1, <2>2, <2>3, OthersStable
<1>5. Shape' /\ Costs'
  BY AskTypes DEF IInv, Costs
<1>6. \A b \in Asker : AskerInv(b)'
  BY <1>1, <1>4
<1>7. TypeOK'
  <2>1. \A b \in Asker : Len(state[b])' <= MaxEntries
    BY <1>6 DEF AskerInv
  <2> QED BY <2>1, AskTypes DEF IInv, TypeOK
<1> QED BY <1>1, <1>5, <1>6, <1>7 DEF IInv

\* The inductive invariant holds in every reachable state.
THEOREM Invariance == Spec => []IInv
<1>1. ASSUME IInv, Tell PROVE IInv'
  BY <1>1, Apart, TellTypes DEF IInv, Tell
<1>2. ASSUME IInv, StatusReports \/ UNCHANGED vars PROVE IInv'
  <2>1. UNCHANGED <<tell, cache, askers, faults>>
    BY <1>2 DEF StatusReports, vars
  <2>2. TypeOK' /\ Costs'
    BY <1>2, <2>1 DEF IInv, TypeOK, Costs, tell, askers
  <2> QED BY <1>2, <2>1, <2>2, Apart DEF IInv
<1>3. IInv /\ [Next]_vars => IInv'
  BY <1>1, <1>2, AskNext DEF Next
<1> QED BY <1>3, InvInit, PTL DEF Spec

\* Types hold, and no ask ever carries more entries than the cache has room for.
THEOREM TypeCorrect == Spec => []TypeOK
<1>1. IInv => TypeOK
  BY DEF IInv
<1> QED BY <1>1, Invariance, PTL

\* However asks, crashes and failed writes interleave, ask.json is whole whenever
\* it is there, and no ask ever found it malformed.
THEOREM Atomic == Spec => []NeverPartial
<1>1. IInv => NeverPartial
  BY DEF IInv, AskInv, NeverPartial
<1> QED BY <1>1, Invariance, PTL

\* The answers in ask.json, and those a model is given as prior context, are over
\* the records the asker sees.
THEOREM OneView == Spec => []EntriesOfOneView
<1>1. ASSUME IInv, NEW a \in Asker, NEW i \in DOMAIN Prior(state[a]) PROVE Prior(state[a])[i].of = seen[a]
  <2>1. state[a] \in Seq(Over(seen[a])) /\ PriorEntries \in Nat
    BY <1>1, ObserversAssumption DEF IInv, AskerInv
  <2>2. Prior(state[a]) \in Seq(Over(seen[a]))
    BY <2>1, LastOfFacts DEF Prior
  <2>3. Prior(state[a])[i] \in Over(seen[a])
    BY <1>1, <2>2
  <2> QED BY <2>3 DEF Over
<1>2. ASSUME IInv, ask # None, NEW i \in DOMAIN ask.entries PROVE ask.entries[i].of = ask.fingerprint
  <2>1. ask.entries \in Seq(Over(ask.fingerprint))
    BY <1>2 DEF IInv, AskInv
  <2>2. ask.entries[i] \in Over(ask.fingerprint)
    BY <1>2, <2>1
  <2> QED BY <2>2 DEF Over
<1>3. IInv => EntriesOfOneView
  BY <1>1, <1>2 DEF EntriesOfOneView
<1> QED BY <1>3, Invariance, PTL

\* An answer once saved stays in ask.json, in its order, until one over other
\* records, enough newer ones, or an overlapping ask replaces it.
THEOREM NothingElseLost == Spec => []LostOnlyToOverlap
<1>1. ASSUME IInv, NEW i \in DOMAIN saved
      PROVE  \/ \E k \in DOMAIN ask.entries : ask.entries[k] = saved[i]
             \/ \E j \in i + 1 .. Len(saved) : saved[j].of # saved[i].of \/ saved[j].after < i
             \/ Len(saved) - i >= MaxEntries
  BY <1>1 DEF IInv, AskInv, Held, Excused
<1>2. ASSUME IInv, ask # None, NEW k \in DOMAIN ask.entries, NEW n \in DOMAIN ask.entries, k < n
      PROVE  Place(ask.entries[k]) < Place(ask.entries[n])
  <2>1. DOMAIN saved = 1 .. Len(saved) /\ Len(saved) \in Nat
    <3>1. Saved
      BY <1>2 DEF IInv
    <3>2. \E T : saved \in Seq(T)
      BY <3>1 DEF Saved
    <3> QED BY <3>2
  <2>2. Ordered(saved, ask.entries, Len(saved)) /\ k \in Int /\ n \in Int
    BY <1>2 DEF IInv, AskInv
  <2>3. ASSUME NEW m \in DOMAIN ask.entries
        PROVE  Place(ask.entries[m]) \in 1 .. Len(saved) /\ saved[Place(ask.entries[m])] = ask.entries[m]
    <3>1. \E i \in 1 .. Len(saved) : saved[i] = ask.entries[m]
      BY <2>2 DEF Ordered
    <3> DEFINE e == ask.entries[m]
    <3> HIDE DEF e
    <3>2. \E i \in DOMAIN saved : saved[i] = e
      BY <2>1, <3>1 DEF e
    <3>3. Place(e) \in DOMAIN saved /\ saved[Place(e)] = e
      BY <3>2 DEF Place
    <3> QED BY <2>1, <3>3 DEF e
  <2>4. Place(ask.entries[k]) + (n - k) <= Place(ask.entries[n])
    <3> DEFINE i == Place(ask.entries[k])
               j == Place(ask.entries[n])
    <3>1. /\ i \in 1 .. Len(saved) /\ saved[i] = ask.entries[k]
          /\ j \in 1 .. Len(saved) /\ saved[j] = ask.entries[n]
      BY <1>2, <2>3
    <3> HIDE DEF i, j
    <3>2. i + (n - k) <= j
      BY <1>2, <2>2, <3>1 DEF Ordered
    <3> QED BY <3>2 DEF i, j
  <2>5. Place(ask.entries[k]) \in Nat /\ Place(ask.entries[n]) \in Nat
    BY <1>2, <2>1, <2>3
  <2> QED BY <1>2, <2>2, <2>4, <2>5
<1>3. IInv => LostOnlyToOverlap
  BY <1>1, <1>2 DEF LostOnlyToOverlap
<1> QED BY <1>3, Invariance, PTL

-----------------------------------------------------------------------------
(***************************************************************************)
(* What status counts.  The sums over the log are those of the invocations *)
(* that closed, and what the one under way has yet to leave a snapshot of. *)
(***************************************************************************)
IsLog(l) ==
  /\ l \in Seq({l[i] : i \in DOMAIN l})
  /\ \A i \in DOMAIN l :
       /\ l[i].kind = "usage" => l[i].cost \in Nat
       /\ l[i].kind = "snapshot" => l[i].cost \in Nat /\ l[i].turns \in Nat

\* An invocation that has not come to its snapshot yet, and what that will say.
UnderWay == t \in {"prune", "fold", "user", "turn", "usage", "snapshot"}
TurnsToCome == IF UnderWay THEN counters.turns ELSE 0
CostToCome == IF UnderWay THEN counters.cost ELSE 0

\* Every reply that was billed has its record, unless a prune took it; a tell
\* replies only when the log is whole.
Billed ==
  /\ IsLog(log) /\ billed \in Nat /\ prunes \in Nat
  /\ UsageCost(log) <= billed
  /\ prunes = 0 => UsageCost(log) = billed /\ (t # "closed" => attached)
  /\ t \in {"user", "turn", "usage"} => Readable

\* The snapshots of a log that was neither pruned nor torn.
Snapped ==
  prunes = 0 /\ Readable =>
    /\ SnapshotTurns(log) + TurnsToCome <= Count(log, "assistant")
    /\ ~unsnapped => SnapshotCost(log) + CostToCome = UsageCost(log)

\* What was printed is what the log says.
Printed == report # None => Readable /\ report = [summary |-> Summary(log), metrics |-> Metrics(log)]

Counts == Billed /\ Snapped /\ Printed

-----------------------------------------------------------------------------
\* A non-empty set of naturals has a least element.
LEMMA LeastNatural ==
  ASSUME NEW T, T \subseteq Nat, T # {}
  PROVE  \E x \in T : \A y \in T : x <= y
<1>1. PICK x \in T : \A y \in T : <<y, x>> \notin OpToRel(<, Nat)
  BY NatLessThanWellFounded, WFMin, Zenon
<1>2. ASSUME NEW y \in T PROVE x <= y
  <2>1. CASE y < x
    <3>1. <<y, x>> \in OpToRel(<, Nat)  BY <2>1 DEF OpToRel
    <3> QED  BY <1>1, <3>1
  <2> QED  BY <2>1
<1> QED  BY <1>2

\* Induction over the naturals.
LEMMA NatSetInduction ==
  ASSUME NEW S, 0 \in S, \A n \in Nat : n \in S => n + 1 \in S
  PROVE  \A n \in Nat : n \in S
<1> DEFINE T == Nat \ S
<1>1. SUFFICES ASSUME T # {} PROVE FALSE  BY <1>1
<1>2. PICK x \in T : \A y \in T : x <= y  BY <1>1, LeastNatural
<1>3. x \in Nat /\ x # 0 /\ x - 1 \in Nat /\ x - 1 \notin T  BY <1>2
<1>4. x - 1 + 1 \in S /\ x - 1 + 1 = x  BY <1>3
<1> QED  BY <1>2, <1>4

\* f holds the sums of the beginnings of v, up to position n.
Adds(v, f, n) == f[0] = 0 /\ \A i \in 1 .. n : f[i] = f[i - 1] + v[i]

\* The sums of the beginnings exist.
LEMMA SumsExist ==
  ASSUME NEW v
  PROVE  \A n \in Nat : (\A i \in 1 .. n : v[i] \in Nat) => \E f \in [0 .. n -> Nat] : Adds(v, f, n)
<1> DEFINE P == {n \in Nat : (\A i \in 1 .. n : v[i] \in Nat) => \E f \in [0 .. n -> Nat] : Adds(v, f, n)}
<1>1. 0 \in P
  <2> DEFINE f == [i \in 0 .. 0 |-> 0]
  <2>1. f \in [0 .. 0 -> Nat] /\ Adds(v, f, 0)
    BY DEF Adds
  <2> QED BY <2>1
<1>2. ASSUME NEW n \in Nat, n \in P PROVE n + 1 \in P
  <2> SUFFICES ASSUME \A i \in 1 .. n + 1 : v[i] \in Nat
               PROVE  \E f \in [0 .. n + 1 -> Nat] : Adds(v, f, n + 1)
    OBVIOUS
  <2>1. PICK f \in [0 .. n -> Nat] : Adds(v, f, n)
    BY <1>2
  <2> DEFINE g == [i \in 0 .. n + 1 |-> IF i = n + 1 THEN f[n] + v[n + 1] ELSE f[i]]
  <2>2. g \in [0 .. n + 1 -> Nat]
    OBVIOUS
  <2>3. g[0] = 0 /\ g[n + 1] = f[n] + v[n + 1] /\ \A i \in 0 .. n : g[i] = f[i]
    BY <2>1 DEF Adds
  <2> HIDE DEF g
  <2>4. \A i \in 1 .. n + 1 : g[i] = g[i - 1] + v[i]
    <3> TAKE i \in 1 .. n + 1
    <3>1. CASE i = n + 1
      BY <2>3, <3>1
    <3>2. CASE i # n + 1
      <4>1. i \in 1 .. n /\ i \in 0 .. n /\ i - 1 \in 0 .. n
        BY <3>2
      <4> QED BY <2>1, <2>3, <4>1 DEF Adds
    <3> QED BY <3>1, <3>2
  <2> QED BY <2>2, <2>3, <2>4 DEF Adds
<1> HIDE DEF P
<1>3. \A n \in Nat : n \in P
  BY <1>1, <1>2, NatSetInduction
<1> QED BY <1>3 DEF P

\* There is one way to add.
LEMMA AddsOnce ==
  ASSUME NEW v, NEW f, NEW g, NEW n \in Nat, Adds(v, f, n), Adds(v, g, n)
  PROVE  f[n] = g[n]
<1> DEFINE P == {i \in Nat : i <= n => f[i] = g[i]}
<1>1. 0 \in P
  BY DEF Adds
<1>2. ASSUME NEW i \in Nat, i \in P PROVE i + 1 \in P
  <2> SUFFICES ASSUME i + 1 <= n PROVE f[i + 1] = g[i + 1]
    OBVIOUS
  <2>1. i + 1 \in 1 .. n /\ i <= n /\ i + 1 - 1 = i
    OBVIOUS
  <2>2. f[i] = g[i]
    BY <1>2, <2>1
  <2>3. f[i + 1] = f[i + 1 - 1] + v[i + 1] /\ g[i + 1] = g[i + 1 - 1] + v[i + 1]
    BY <2>1 DEF Adds
  <2> QED BY <2>1, <2>2, <2>3
<1> HIDE DEF P
<1>3. \A i \in Nat : i \in P
  BY <1>1, <1>2, NatSetInduction
<1> QED BY <1>3 DEF P

\* Whatever adds up v gives its sum.
LEMMA SumBy ==
  ASSUME NEW v \in Seq(Nat), NEW f, Adds(v, f, Len(v))
  PROVE  Sum(v) = f[Len(v)]
<1> DEFINE N == Len(v)
           Eq(g) == g = [i \in 0 .. N |-> IF i = 0 THEN 0 ELSE g[i - 1] + v[i]]
           g == CHOOSE g : Eq(g)
<1>1. N \in Nat
  OBVIOUS
<1>2. Sum(v) = g[N]
  BY DEF Sum
<1> HIDE DEF N
<1>3. \E h : Eq(h)
  <2>1. \A i \in 1 .. N : v[i] \in Nat
    BY DEF N
  <2>2. PICK h \in [0 .. N -> Nat] : Adds(v, h, N)
    BY <1>1, <2>1, SumsExist
  <2>3. h[0] = 0 /\ \A i \in 1 .. N : h[i] = h[i - 1] + v[i]
    BY <2>2 DEF Adds
  <2>4. \A i \in 0 .. N : h[i] = IF i = 0 THEN 0 ELSE h[i - 1] + v[i]
    BY <1>1, <2>3
  <2>5. Eq(h)
    BY <2>4
  <2> QED BY <2>5
<1>4. Eq(g)
  BY <1>3
<1> HIDE DEF g
<1>5. Adds(v, g, N)
  <2>1. \A i \in 0 .. N : g[i] = IF i = 0 THEN 0 ELSE g[i - 1] + v[i]
    BY <1>4, Zenon
  <2> QED BY <1>1, <2>1 DEF Adds
<1> QED BY <1>1, <1>2, <1>5, AddsOnce DEF N

\* The sums of the beginnings of v, the last of which is its sum.
LEMMA SumAdds ==
  ASSUME NEW v \in Seq(Nat)
  PROVE  \E f \in [0 .. Len(v) -> Nat] : Adds(v, f, Len(v)) /\ Sum(v) = f[Len(v)]
<1>1. Len(v) \in Nat /\ \A i \in 1 .. Len(v) : v[i] \in Nat
  OBVIOUS
<1>2. PICK f \in [0 .. Len(v) -> Nat] : Adds(v, f, Len(v))
  BY <1>1, SumsExist
<1> QED BY <1>2, SumBy

\* One number more.
LEMMA SumAppend ==
  ASSUME NEW v \in Seq(Nat), NEW x \in Nat
  PROVE  Sum(v) \in Nat /\ Sum(Append(v, x)) = Sum(v) + x
<1> DEFINE N == Len(v)
           w == Append(v, x)
<1>1. PICK f \in [0 .. N -> Nat] : Adds(v, f, N) /\ Sum(v) = f[N]
  BY SumAdds
<1>2. N \in Nat /\ w \in Seq(Nat) /\ Len(w) = N + 1 /\ w[N + 1] = x /\ \A i \in 1 .. N : w[i] = v[i]
  OBVIOUS
<1> HIDE DEF N, w
<1> DEFINE g == [i \in 0 .. N + 1 |-> IF i = N + 1 THEN f[N] + x ELSE f[i]]
<1>3. g[0] = 0 /\ g[N + 1] = f[N] + x /\ \A i \in 0 .. N : g[i] = f[i]
  BY <1>1, <1>2 DEF Adds
<1> HIDE DEF g
<1>4. \A i \in 1 .. N + 1 : g[i] = g[i - 1] + w[i]
  <2> TAKE i \in 1 .. N + 1
  <2>1. CASE i = N + 1
    BY <1>2, <1>3, <2>1
  <2>2. CASE i # N + 1
    <3>1. i \in 1 .. N /\ i \in 0 .. N /\ i - 1 \in 0 .. N
      BY <1>2, <2>2
    <3> QED BY <1>1, <1>2, <1>3, <3>1 DEF Adds
  <2> QED BY <2>1, <2>2
<1>5. Sum(w) = g[N + 1]
  BY <1>2, <1>3, <1>4, SumBy DEF Adds
<1>6. f[N] \in Nat
  BY <1>2
<1> QED BY <1>1, <1>3, <1>5, <1>6 DEF w

\* The end of a sequence adds up to no more.
LEMMA SumTail ==
  ASSUME NEW v \in Seq(Nat), NEW a \in 1 .. Len(v)
  PROVE  Sum(SubSeq(v, a, Len(v))) <= Sum(v) /\ Sum(v) \in Nat
<1> DEFINE N == Len(v)
           M == N + 1 - a
           w == SubSeq(v, a, N)
<1>1. PICK f \in [0 .. N -> Nat] : Adds(v, f, N) /\ Sum(v) = f[N]
  BY SumAdds
<1>2. N \in Nat /\ a \in 1 .. N
  OBVIOUS
<1>3. w \in Seq(Nat) /\ Len(w) = M /\ \A k \in 1 .. M : w[k] = v[a - 1 + k]
  <2> HIDE DEF N
  <2>1. w \in Seq(Nat) /\ Len(w) = M
    BY <1>2 DEF N
  <2>2. \A k \in 1 .. M : w[k] = v[a + k - 1] /\ a + k - 1 = a - 1 + k
    BY <1>2 DEF N
  <2> QED BY <2>1, <2>2
<1> HIDE DEF N, w
<1> DEFINE g == [k \in 0 .. M |-> f[a - 1 + k] - f[a - 1]]
<1>4. M \in Nat /\ a - 1 \in 0 .. N /\ a - 1 + M = N /\ \A k \in 0 .. M : a - 1 + k \in 0 .. N
  BY <1>2
<1>5. \A k \in 0 .. M : g[k] = f[a - 1 + k] - f[a - 1]
  OBVIOUS
<1>6. f[a - 1] \in Nat /\ \A k \in 0 .. M : f[a - 1 + k] \in Nat
  BY <1>4
<1> HIDE DEF g
<1>7. g[0] = 0
  <2>1. a - 1 + 0 = a - 1 /\ 0 \in 0 .. M
    BY <1>2, <1>4
  <2> QED BY <1>5, <1>6, <2>1
<1>8. ASSUME NEW k \in 1 .. M PROVE g[k] = g[k - 1] + w[k]
  <2>1. k \in 0 .. M /\ k - 1 \in 0 .. M /\ a - 1 + k \in 1 .. N /\ a - 1 + (k - 1) = a - 1 + k - 1
    BY <1>2
  <2>2. f[a - 1 + k] = f[a - 1 + k - 1] + v[a - 1 + k]
    BY <1>1, <2>1 DEF Adds
  <2>3. w[k] = v[a - 1 + k] /\ v[a - 1 + k] \in Nat
    BY <1>3, <2>1 DEF N
  <2>4. g[k] = f[a - 1 + k] - f[a - 1] /\ g[k - 1] = f[a - 1 + k - 1] - f[a - 1]
    BY <1>5, <2>1
  <2>5. f[a - 1] \in Nat /\ f[a - 1 + k - 1] \in Nat
    BY <1>6, <2>1
  <2>6. \A x, y, z \in Nat : (x + z) - y = (x - y) + z
    OBVIOUS
  <2>7. g[k] = (f[a - 1 + k - 1] + w[k]) - f[a - 1]
    BY <2>2, <2>3, <2>4
  <2>8. (f[a - 1 + k - 1] + w[k]) - f[a - 1] = (f[a - 1 + k - 1] - f[a - 1]) + w[k]
    BY <2>3, <2>5, <2>6
  <2> QED BY <2>4, <2>7, <2>8
<1>9. Sum(w) = g[M]
  <2> HIDE DEF M
  <2> QED BY <1>3, <1>7, <1>8, SumBy DEF Adds
<1>10. g[M] = f[N] - f[a - 1] /\ f[N] \in Nat
  <2>1. M \in 0 .. M
    BY <1>4
  <2> HIDE DEF M
  <2> QED BY <1>4, <1>5, <1>6, <2>1
<1> QED BY <1>1, <1>6, <1>9, <1>10 DEF w, N

-----------------------------------------------------------------------------
\* The three amounts status adds up.
Amount == {<<"usage", "cost">>, <<"snapshot", "cost">>, <<"snapshot", "turns">>}
Total(l, a) == Sum(Amounts(l, a[1], a[2]))
Adding(r, a) == IF r.kind = a[1] THEN r[a[2]] ELSE 0

\* A record status can add up, and a log that parses.
Sound(r) ==
  /\ r.kind = "usage" => r.cost \in Nat
  /\ r.kind = "snapshot" => r.cost \in Nat /\ r.turns \in Nat
Whole(l) == \A i \in DOMAIN l : l[i].kind # "torn"

\* The amounts of a log, one for each record.
LEMMA AmountsTyped ==
  ASSUME NEW l, IsLog(l), NEW a \in Amount
  PROVE  /\ Amounts(l, a[1], a[2]) \in Seq(Nat) /\ Len(Amounts(l, a[1], a[2])) = Len(l)
         /\ Len(l) \in Nat /\ DOMAIN l = 1 .. Len(l)
         /\ \A i \in 1 .. Len(l) : Amounts(l, a[1], a[2])[i] = Adding(l[i], a)
<1> DEFINE v == Amounts(l, a[1], a[2])
<1>1. Len(l) \in Nat /\ DOMAIN l = 1 .. Len(l)
  BY DEF IsLog
<1>2. v = [i \in 1 .. Len(l) |-> Adding(l[i], a)]
  BY <1>1 DEF Amounts, Adding
<1>3. \A i \in 1 .. Len(l) : Adding(l[i], a) \in Nat
  <2> TAKE i \in 1 .. Len(l)
  <2>1. Sound(l[i])
    BY <1>1 DEF IsLog, Sound
  <2> QED BY <2>1 DEF Adding, Sound, Amount
<1> HIDE DEF v
<1>4. v \in [1 .. Len(l) -> Nat]
  BY <1>2, <1>3
<1>5. v \in Seq(Nat) /\ Len(v) = Len(l)
  BY <1>1, <1>2, <1>4
<1> QED BY <1>1, <1>2, <1>5 DEF v

\* One record more.
LEMMA TotalAppend ==
  ASSUME NEW l, IsLog(l), NEW r, Sound(r), NEW a \in Amount
  PROVE  /\ IsLog(Append(l, r)) /\ Total(l, a) \in Nat /\ Adding(r, a) \in Nat
         /\ Total(Append(l, r), a) = Total(l, a) + Adding(r, a)
<1> DEFINE m == Append(l, r)
           v == Amounts(l, a[1], a[2])
           w == Amounts(m, a[1], a[2])
           x == Adding(r, a)
           N == Len(l)
<1>1. /\ m \in Seq({m[i] : i \in DOMAIN m}) /\ Len(m) = N + 1 /\ DOMAIN m = 1 .. N + 1
      /\ N \in Nat /\ DOMAIN l = 1 .. N
      /\ \A i \in 1 .. N : m[i] = l[i]
      /\ m[N + 1] = r
  BY AppendOwn DEF IsLog
<1> HIDE DEF m
<1>2. IsLog(m)
  <2>1. \A i \in DOMAIN m : Sound(m[i])
    <3> TAKE i \in DOMAIN m
    <3>1. i \in 1 .. N \/ i = N + 1
      BY <1>1
    <3> QED BY <1>1, <3>1 DEF IsLog, Sound
  <2> QED BY <1>1, <2>1 DEF IsLog, Sound
<1>3. x \in Nat
  BY DEF Adding, Sound, Amount
<1>4. v \in Seq(Nat) /\ Len(v) = N /\ \A i \in 1 .. N : v[i] = Adding(l[i], a)
  BY AmountsTyped
<1>5. w \in Seq(Nat) /\ Len(w) = N + 1 /\ \A i \in 1 .. N + 1 : w[i] = Adding(m[i], a)
  BY <1>1, <1>2, AmountsTyped
<1> HIDE DEF v, w, x, N
<1>6. w = Append(v, x)
  <2>1. Append(v, x) \in Seq(Nat) /\ Len(Append(v, x)) = N + 1 /\ Append(v, x)[N + 1] = x
        /\ \A i \in 1 .. N : Append(v, x)[i] = v[i]
    BY <1>3, <1>4
  <2>2. \A i \in 1 .. N + 1 : w[i] = Append(v, x)[i]
    <3> TAKE i \in 1 .. N + 1
    <3>1. i \in 1 .. N \/ i = N + 1
      BY <1>1 DEF N
    <3> QED BY <1>1, <1>4, <1>5, <2>1, <3>1 DEF x
  <2> QED BY <1>5, <2>1, <2>2, SeqEqual
<1>7. Sum(v) \in Nat /\ Sum(w) = Sum(v) + x
  BY <1>3, <1>4, <1>6, SumAppend
<1> QED BY <1>2, <1>3, <1>7 DEF Total, m, v, w, x

\* The end of a log has no more to add up than the log.
LEMMA TotalTail ==
  ASSUME NEW l, IsLog(l), NEW n \in 1 .. Len(l), NEW a \in Amount
  PROVE  IsLog(SubSeq(l, n, Len(l))) /\ Total(SubSeq(l, n, Len(l)), a) <= Total(l, a) /\ Total(l, a) \in Nat
         /\ Total(SubSeq(l, n, Len(l)), a) \in Nat
<1> DEFINE m == SubSeq(l, n, Len(l))
           v == Amounts(l, a[1], a[2])
           w == Amounts(m, a[1], a[2])
           N == Len(l)
           M == N + 1 - n
<1>1. /\ m \in Seq({l[i] : i \in DOMAIN l}) /\ Len(m) = M /\ DOMAIN m = 1 .. M /\ M \in Nat
      /\ N \in Nat /\ DOMAIN l = 1 .. N
      /\ \A i \in 1 .. M : m[i] = l[n - 1 + i] /\ n - 1 + i \in 1 .. N
  <2>1. N \in Nat /\ DOMAIN l = 1 .. N /\ n \in 1 .. N
    BY DEF IsLog
  <2>2. m \in Seq({l[i] : i \in DOMAIN l}) /\ Len(m) = M
    BY <2>1 DEF IsLog
  <2>3. \A i \in 1 .. M : m[i] = l[n + i - 1]
    BY <2>1 DEF IsLog
  <2>4. \A i \in 1 .. M : n + i - 1 = n - 1 + i /\ n - 1 + i \in 1 .. N
    BY <2>1
  <2> HIDE DEF m, N
  <2>5. M \in Nat
    BY <2>1
  <2> QED BY <2>1, <2>2, <2>3, <2>4, <2>5
<1> HIDE DEF m
<1>2. IsLog(m)
  <2>1. m \in Seq({m[i] : i \in DOMAIN m})
    <3> DEFINE T == {m[i] : i \in DOMAIN m}
    <3>1. m \in [1 .. M -> T]
      <4>1. m = [i \in 1 .. M |-> m[i]]
        BY <1>1
      <4> QED BY <1>1, <4>1
    <3> HIDE DEF M, T
    <3>2. m \in Seq(T)
      BY <1>1, <3>1, SeqDef
    <3> QED BY <3>2 DEF T
  <2>2. \A i \in DOMAIN m : Sound(m[i])
    BY <1>1 DEF IsLog, Sound
  <2> QED BY <2>1, <2>2 DEF IsLog, Sound
<1>3. v \in Seq(Nat) /\ Len(v) = N /\ \A i \in 1 .. N : v[i] = Adding(l[i], a)
  BY AmountsTyped
<1>4. w \in Seq(Nat) /\ Len(w) = M /\ \A i \in 1 .. M : w[i] = Adding(m[i], a)
  BY <1>1, <1>2, AmountsTyped
<1> HIDE DEF v, w, N
<1>5. n \in 1 .. N
  BY DEF N
<1>6. w = SubSeq(v, n, N)
  <2> DEFINE u == SubSeq(v, n, N)
  <2>1. u \in Seq(Nat) /\ Len(u) = M /\ \A i \in 1 .. M : u[i] = v[n + i - 1]
    BY <1>1, <1>3, <1>5
  <2>2. \A i \in 1 .. M : u[i] = v[n - 1 + i]
    <3>1. \A i \in 1 .. M : n + i - 1 = n - 1 + i
      BY <1>5
    <3> QED BY <2>1, <3>1
  <2>3. \A i \in 1 .. M : w[i] = u[i]
    BY <1>1, <1>3, <1>4, <2>2
  <2> HIDE DEF u, M
  <2>4. w = u
    BY <1>4, <2>1, <2>3, SeqEqual
  <2> QED BY <2>4 DEF u
<1>7. Sum(w) <= Sum(v) /\ Sum(v) \in Nat
  BY <1>3, <1>5, <1>6, SumTail
<1>8. Sum(w) \in Nat
  BY <1>4, SumAppend
<1> QED BY <1>2, <1>7, <1>8 DEF Total, m, v, w, N

\* How many replies a log holds, and one record more.
LEMMA CountAppend ==
  ASSUME NEW l, IsLog(l), NEW r
  PROVE  /\ Count(l, "assistant") \in Nat
         /\ Count(Append(l, r), "assistant") = Count(l, "assistant") + IF r.kind = "assistant" THEN 1 ELSE 0
<1> DEFINE m == Append(l, r)
           N == Len(l)
           S == {i \in DOMAIN l : l[i].kind = "assistant"}
           U == {i \in DOMAIN m : m[i].kind = "assistant"}
<1>1. /\ DOMAIN m = 1 .. N + 1 /\ N \in Nat /\ DOMAIN l = 1 .. N
      /\ \A i \in 1 .. N : m[i] = l[i]
      /\ m[N + 1] = r
  BY AppendOwn DEF IsLog
<1> HIDE DEF m, N
<1>2. U = IF r.kind = "assistant" THEN S \cup {N + 1} ELSE S
  <2>1. \A i \in 1 .. N + 1 : i \in 1 .. N \/ i = N + 1
    BY <1>1
  <2>2. N + 1 \in 1 .. N + 1 /\ N + 1 \notin 1 .. N /\ \A i \in 1 .. N : i \in 1 .. N + 1
    BY <1>1
  <2> QED BY <1>1, <2>1, <2>2
<1>3. S \in SUBSET (1 .. N) /\ IsFiniteSet(1 .. N) /\ N + 1 \notin S
  BY <1>1, FS_Interval
<1> HIDE DEF S, U
<1>4. IsFiniteSet(S) /\ Cardinality(S) \in Nat
  BY <1>3, FS_Subset, FS_CardinalityType
<1>5. Cardinality(S \cup {N + 1}) = Cardinality(S) + 1
  BY <1>3, <1>4, FS_AddElement
<1>6. Cardinality(S) \in Nat /\ Cardinality(U) = Cardinality(S) + IF r.kind = "assistant" THEN 1 ELSE 0
  BY <1>2, <1>4, <1>5
<1> QED BY <1>6 DEF Count, S, U, m

\* A record is put behind a log that parses, and joins a torn line.
LEMMA PutSound ==
  ASSUME NEW l, IsLog(l), NEW r, Sound(r)
  PROVE  /\ IsLog(Put(l, r))
         /\ Whole(Put(l, r)) => Whole(l)
         /\ Whole(l) => /\ r.kind # "torn" => Whole(Put(l, r))
                        /\ \A a \in Amount : Total(Put(l, r), a) = Total(l, a) + Adding(r, a)
                        /\ Count(Put(l, r), "assistant") = Count(l, "assistant") + IF r.kind = "assistant" THEN 1 ELSE 0
         /\ \A a \in Amount : /\ Total(l, a) \in Nat /\ Adding(r, a) \in Nat
                              /\ Total(Put(l, r), a) <= Total(l, a) + Adding(r, a)
                              /\ Adding(r, a) = 0 => Total(Put(l, r), a) = Total(l, a)
<1>1. /\ Len(Append(l, r)) = Len(l) + 1 /\ DOMAIN Append(l, r) = 1 .. Len(l) + 1
      /\ DOMAIN l = 1 .. Len(l) /\ Len(l) \in Nat
      /\ \A i \in DOMAIN l : Append(l, r)[i] = l[i]
      /\ Append(l, r)[Len(l) + 1] = r
  BY AppendOwn DEF IsLog
<1>2. \A a \in Amount : /\ IsLog(Append(l, r)) /\ Total(l, a) \in Nat /\ Adding(r, a) \in Nat
                        /\ Total(Append(l, r), a) = Total(l, a) + Adding(r, a)
  BY TotalAppend
<1>3. IsLog(Append(l, r))
  <2>1. <<"usage", "cost">> \in Amount
    BY DEF Amount
  <2> QED BY <1>2, <2>1
<1>4. Count(Append(l, r), "assistant") = Count(l, "assistant") + IF r.kind = "assistant" THEN 1 ELSE 0
  BY CountAppend
<1>5. CASE l # <<>> /\ Last(l).kind = "torn"
  <2>1. Put(l, r) = l
    BY <1>5 DEF Put
  <2>2. ~Whole(l)
    <3>1. Len(l) \in DOMAIN l
      BY <1>1, <1>5, EmptySeq DEF IsLog
    <3> QED BY <1>5, <3>1 DEF Last, Whole
  <2>3. \A x, y \in Nat : x <= x + y
    OBVIOUS
  <2> QED BY <1>2, <2>1, <2>2, <2>3
<1>6. CASE ~(l # <<>> /\ Last(l).kind = "torn")
  <2>1. Put(l, r) = Append(l, r)
    BY <1>6 DEF Put
  <2> DEFINE m == Append(l, r)
  <2>2. Whole(m) => Whole(l)
    BY <1>1 DEF Whole
  <2>3. Whole(l) /\ r.kind # "torn" => Whole(m)
    <3> SUFFICES ASSUME Whole(l), r.kind # "torn", NEW i \in DOMAIN m PROVE m[i].kind # "torn"
      BY DEF Whole
    <3>1. i \in DOMAIN l \/ i = Len(l) + 1
      BY <1>1
    <3> QED BY <1>1, <3>1 DEF Whole
  <2> HIDE DEF m
  <2>4. IsLog(m) /\ \A a \in Amount : /\ Total(l, a) \in Nat /\ Adding(r, a) \in Nat
                                      /\ Total(m, a) = Total(l, a) + Adding(r, a)
    BY <1>2, <1>3 DEF m
  <2>5. \A x, y \in Nat : x + y <= x + y /\ x + 0 = x
    OBVIOUS
  <2>6. \A a \in Amount : Total(m, a) <= Total(l, a) + Adding(r, a) /\ (Adding(r, a) = 0 => Total(m, a) = Total(l, a))
    BY <2>4, <2>5
  <2> QED BY <1>4, <2>1, <2>2, <2>3, <2>4, <2>6 DEF m
<1> QED BY <1>5, <1>6

\* The same, of what status adds up.
LEMMA PutCosts ==
  ASSUME NEW l, IsLog(l), NEW r, Sound(r)
  PROVE  /\ IsLog(Put(l, r)) /\ (Whole(Put(l, r)) => Whole(l))
         /\ UsageCost(l) \in Nat /\ UsageCost(Put(l, r)) \in Nat
         /\ SnapshotCost(l) \in Nat /\ SnapshotTurns(l) \in Nat /\ Count(l, "assistant") \in Nat
         /\ r.kind # "usage" => UsageCost(Put(l, r)) = UsageCost(l)
         /\ r.kind = "usage" => UsageCost(Put(l, r)) <= UsageCost(l) + r.cost
         /\ Whole(l) =>
              /\ r.kind # "torn" => Whole(Put(l, r))
              /\ UsageCost(Put(l, r)) = UsageCost(l) + IF r.kind = "usage" THEN r.cost ELSE 0
              /\ SnapshotCost(Put(l, r)) = SnapshotCost(l) + IF r.kind = "snapshot" THEN r.cost ELSE 0
              /\ SnapshotTurns(Put(l, r)) = SnapshotTurns(l) + IF r.kind = "snapshot" THEN r.turns ELSE 0
              /\ Count(Put(l, r), "assistant") = Count(l, "assistant") + IF r.kind = "assistant" THEN 1 ELSE 0
<1> DEFINE m == Put(l, r)
           u == <<"usage", "cost">>
           c == <<"snapshot", "cost">>
           n == <<"snapshot", "turns">>
<1>1. u \in Amount /\ c \in Amount /\ n \in Amount
  BY DEF Amount
<1>2. /\ Adding(r, u) = IF r.kind = "usage" THEN r.cost ELSE 0
      /\ Adding(r, c) = IF r.kind = "snapshot" THEN r.cost ELSE 0
      /\ Adding(r, n) = IF r.kind = "snapshot" THEN r.turns ELSE 0
  BY DEF Adding
<1>3. /\ UsageCost(l) = Total(l, u) /\ SnapshotCost(l) = Total(l, c) /\ SnapshotTurns(l) = Total(l, n)
      /\ UsageCost(m) = Total(m, u) /\ SnapshotCost(m) = Total(m, c) /\ SnapshotTurns(m) = Total(m, n)
  BY DEF UsageCost, SnapshotCost, SnapshotTurns, Total
<1>4. Count(l, "assistant") \in Nat
  BY CountAppend
<1>5. IsLog(m)
  BY PutSound
<1>6. Total(m, u) \in Nat
  BY <1>1, <1>5, TotalAppend DEF Sound
<1>7. /\ Whole(m) => Whole(l)
      /\ Whole(l) => /\ r.kind # "torn" => Whole(m)
                     /\ \A a \in Amount : Total(m, a) = Total(l, a) + Adding(r, a)
                     /\ Count(m, "assistant") = Count(l, "assistant") + IF r.kind = "assistant" THEN 1 ELSE 0
      /\ \A a \in Amount : /\ Total(l, a) \in Nat /\ Adding(r, a) \in Nat
                           /\ Total(m, a) <= Total(l, a) + Adding(r, a)
                           /\ Adding(r, a) = 0 => Total(m, a) = Total(l, a)
  BY PutSound
<1> HIDE DEF m, u, c, n
<1>8. /\ UsageCost(l) \in Nat /\ UsageCost(m) \in Nat /\ SnapshotCost(l) \in Nat /\ SnapshotTurns(l) \in Nat
      /\ r.kind # "usage" => UsageCost(m) = UsageCost(l)
      /\ r.kind = "usage" => UsageCost(m) <= UsageCost(l) + r.cost
  BY <1>1, <1>2, <1>3, <1>6, <1>7
<1>9. Whole(l) =>
        /\ UsageCost(m) = UsageCost(l) + IF r.kind = "usage" THEN r.cost ELSE 0
        /\ SnapshotCost(m) = SnapshotCost(l) + IF r.kind = "snapshot" THEN r.cost ELSE 0
        /\ SnapshotTurns(m) = SnapshotTurns(l) + IF r.kind = "snapshot" THEN r.turns ELSE 0
  BY <1>1, <1>2, <1>3, <1>7
<1> QED BY <1>4, <1>5, <1>7, <1>8, <1>9 DEF m

-----------------------------------------------------------------------------
\* What the tell writes keeps the books.
LEMMA Books ==
  ASSUME TypeOK, Billed, Snapped
  PROVE  /\ counters.turns \in Nat /\ counters.cost \in Nat
         /\ UsageCost(log) \in Nat /\ SnapshotCost(log) \in Nat /\ SnapshotTurns(log) \in Nat
         /\ Count(log, "assistant") \in Nat /\ billed \in Nat /\ prunes \in Nat
         /\ (Readable <=> Whole(log)) /\ (Readable' <=> Whole(log'))
<1>1. counters.turns \in Nat /\ counters.cost \in Nat
  BY ObserversAssumption DEF TypeOK
<1>2. Sound(Of("start"))
  BY DEF Sound, Of
<1>3. UsageCost(log) \in Nat /\ SnapshotCost(log) \in Nat /\ SnapshotTurns(log) \in Nat /\ Count(log, "assistant") \in Nat
  BY <1>2, PutCosts DEF Billed
<1> QED BY <1>1, <1>3 DEF Billed, Readable, Whole

\* A record appended, whatever it is, or a part of it.
LEMMA Written ==
  ASSUME TypeOK, Billed, Snapped, NEW r, Sound(r), prunes' = prunes,
         log' = IF attached THEN Put(log, r) ELSE log,
         billed' = IF r.kind = "usage" THEN billed + r.cost ELSE billed,
         r.kind = "usage" => t = "usage",
         prunes = 0 /\ t' # "closed" => attached',
         t' \in {"user", "turn", "usage"} => Readable /\ r.kind # "torn"
  PROVE  Billed'
<1> DEFINE m == Put(log, r)
<1>1. /\ IsLog(m) /\ UsageCost(log) \in Nat /\ UsageCost(m) \in Nat
      /\ (r.kind # "usage" => UsageCost(m) = UsageCost(log))
      /\ (r.kind = "usage" => UsageCost(m) <= UsageCost(log) + r.cost)
      /\ (Whole(log) => UsageCost(m) = UsageCost(log) + IF r.kind = "usage" THEN r.cost ELSE 0)
      /\ (Whole(log) /\ r.kind # "torn" => Whole(m))
  BY PutCosts DEF Billed
<1> HIDE DEF m
<1>2. /\ UsageCost(log) <= billed /\ billed \in Nat /\ prunes \in Nat /\ IsLog(log)
      /\ (prunes = 0 => UsageCost(log) = billed /\ (t # "closed" => attached))
      /\ (t \in {"user", "turn", "usage"} => Readable)
  BY DEF Billed
<1>3. (Readable <=> Whole(log)) /\ (Readable' <=> Whole(log'))
  BY Books
<1>4. r.kind = "usage" => r.cost \in Nat
  BY DEF Sound
<1>5. IsLog(log') /\ billed' \in Nat /\ prunes' \in Nat
  BY <1>1, <1>2, <1>4 DEF m
<1>6. UsageCost(log') <= billed'
  <2>1. CASE attached
    BY <1>1, <1>2, <1>4, <2>1 DEF m
  <2>2. CASE ~attached
    BY <1>1, <1>2, <1>4, <2>2
  <2> QED BY <2>1, <2>2
<1>7. ASSUME prunes = 0 PROVE UsageCost(log') = billed'
  <2>1. CASE r.kind = "usage"
    <3>1. attached /\ Whole(log)
      BY <1>2, <1>3, <1>7, <2>1
    <3> QED BY <1>1, <1>2, <1>7, <2>1, <3>1 DEF m
  <2>2. CASE r.kind # "usage"
    BY <1>1, <1>2, <1>7, <2>2 DEF m
  <2> QED BY <2>1, <2>2
<1>8. t' \in {"user", "turn", "usage"} => Readable'
  BY <1>1, <1>3 DEF m
<1> QED BY <1>5, <1>6, <1>7, <1>8 DEF Billed

\* The log is what it was.
LEMMA Unwritten ==
  ASSUME Billed, UNCHANGED <<log, attached, billed, prunes>>,
         t # "closed" \/ t' = "closed", t' \in {"user", "turn", "usage"} => Readable
  PROVE  Billed' /\ (Readable' <=> Readable)
BY DEF Billed, Readable

\* Each step of the tell: a record is counted when it has been written, and one
\* that failed ends the invocation without its snapshot.
LEMMA TellCounts ==
  ASSUME TypeOK, Billed, Snapped, Tell
  PROVE  Billed' /\ Snapped'
<1> DEFINE turns == counters.turns
           cost == counters.cost
           n == Count(log, "assistant")
<1>1. /\ turns \in Nat /\ cost \in Nat
      /\ UsageCost(log) \in Nat /\ SnapshotCost(log) \in Nat /\ SnapshotTurns(log) \in Nat
      /\ n \in Nat /\ billed \in Nat /\ prunes \in Nat
      /\ (Readable <=> Whole(log)) /\ (Readable' <=> Whole(log'))
  BY Books
<1>2. prunes = 0 /\ t # "closed" => attached
  BY DEF Billed
<1>3. prunes = 0 /\ Whole(log) =>
        /\ SnapshotTurns(log) + TurnsToCome <= n
        /\ ~unsnapped => SnapshotCost(log) + CostToCome = UsageCost(log)
  BY <1>1 DEF Snapped
<1>4. ASSUME NEW r, Sound(r)
      PROVE  /\ Whole(Put(log, r)) => Whole(log)
             /\ Whole(log) =>
                  /\ UsageCost(Put(log, r)) = UsageCost(log) + IF r.kind = "usage" THEN r.cost ELSE 0
                  /\ SnapshotCost(Put(log, r)) = SnapshotCost(log) + IF r.kind = "snapshot" THEN r.cost ELSE 0
                  /\ SnapshotTurns(Put(log, r)) = SnapshotTurns(log) + IF r.kind = "snapshot" THEN r.turns ELSE 0
                  /\ Count(Put(log, r), "assistant") = n + IF r.kind = "assistant" THEN 1 ELSE 0
  BY <1>4, PutCosts DEF Billed
<1> HIDE DEF turns, cost, n
<1>5. CASE Open
  <2> DEFINE r == Of("start")
  <2>1. Sound(r) /\ r.kind = "start"
    BY DEF Sound, Of
  <2>2. /\ t = "closed" /\ t' = "prune" /\ attached' = TRUE /\ log' = Put(log, r)
        /\ counters' = [turns |-> 0, cost |-> 0] /\ prunes' = prunes /\ billed' = billed /\ unsnapped' = unsnapped
    BY <1>5 DEF Open, NoCounters
  <2> HIDE DEF r
  <2>3. Billed'
    <3>1. /\ IsLog(Put(log, r)) /\ UsageCost(Put(log, r)) = UsageCost(log)
      BY <2>1, PutCosts DEF Billed
    <3> QED BY <2>2, <3>1 DEF Billed
  <2>4. Snapped'
    <3>1. TurnsToCome = 0 /\ CostToCome = 0 /\ TurnsToCome' = 0 /\ CostToCome' = 0
      BY <2>2 DEF TurnsToCome, CostToCome, UnderWay
    <3>2. /\ Whole(Put(log, r)) => Whole(log)
          /\ Whole(log) => /\ UsageCost(Put(log, r)) = UsageCost(log) + 0 /\ SnapshotCost(Put(log, r)) = SnapshotCost(log) + 0
                           /\ SnapshotTurns(Put(log, r)) = SnapshotTurns(log) + 0 /\ Count(Put(log, r), "assistant") = n + 0
      BY <1>4, <2>1
    <3> QED BY <1>1, <1>3, <2>2, <3>1, <3>2 DEF Snapped
  <2> QED BY <2>3, <2>4
<1>6. CASE Prune
  <2>1. CASE UNCHANGED <<log, attached, prunes>>
    <3>1. /\ t = "prune" /\ t' = "fold" /\ UNCHANGED <<log, attached, counters, prunes, billed, unsnapped>>
      BY <1>6, <2>1 DEF Prune
    <3>2. Billed' /\ (Readable' <=> Readable)
      BY <3>1, Unwritten
    <3>3. TurnsToCome' = TurnsToCome /\ CostToCome' = CostToCome
      BY <3>1 DEF TurnsToCome, CostToCome, UnderWay
    <3> QED BY <1>1, <1>3, <3>1, <3>2, <3>3 DEF Snapped
  <2>2. CASE prunes' = prunes + 1
    <3>1. PICK i \in 2 .. Len(log) : log' = SubSeq(log, i, Len(log))
      BY <1>1, <1>6, <2>2 DEF Prune
    <3>2. t' = "fold" /\ billed' = billed
      BY <1>6 DEF Prune
    <3>3. i \in 1 .. Len(log) /\ IsLog(log) /\ UsageCost(log) <= billed
      BY DEF Billed
    <3>4. IsLog(log') /\ UsageCost(log') <= UsageCost(log) /\ UsageCost(log') \in Nat
      <4> DEFINE a == <<"usage", "cost">>
                 m == SubSeq(log, i, Len(log))
      <4>1. a \in Amount
        BY DEF Amount
      <4>2. IsLog(m) /\ Total(m, a) <= Total(log, a) /\ Total(m, a) \in Nat
        BY <3>3, <4>1, TotalTail
      <4>3. UsageCost(m) = Total(m, a) /\ UsageCost(log) = Total(log, a)
        BY DEF UsageCost, Total
      <4> HIDE DEF m, a
      <4>4. log' = m
        BY <3>1 DEF m
      <4> QED BY <4>2, <4>3, <4>4
    <3>5. prunes' \in Nat /\ prunes' # 0
      BY <1>1, <2>2
    <3> QED BY <1>1, <3>2, <3>3, <3>4, <3>5 DEF Billed, Snapped
  <2> QED BY <1>6, <2>1, <2>2 DEF Prune
<1>7. CASE Fold
  <2>1. /\ t = "fold" /\ Readable /\ t' = "user"
        /\ UNCHANGED <<attached, counters, prunes, billed, unsnapped>>
    BY <1>7 DEF Fold
  <2>2. TurnsToCome' = TurnsToCome /\ CostToCome' = CostToCome
    BY <2>1 DEF TurnsToCome, CostToCome, UnderWay
  <2>3. CASE log' = log
    <3>1. Billed' /\ (Readable' <=> Readable)
      BY <2>1, <2>3, Unwritten
    <3> QED BY <1>1, <1>3, <2>1, <2>2, <2>3, <3>1 DEF Snapped
  <2>4. ASSUME NEW i \in DOMAIN Newer(log),
               log' = IF attached THEN Append(log, [kind |-> "summary", cutoff |-> Newer(log)[i]]) ELSE log
        PROVE  Billed' /\ Snapped'
    <3> DEFINE r == [kind |-> "summary", cutoff |-> Newer(log)[i]]
    <3>1. Sound(r) /\ r.kind = "summary"
      BY DEF Sound
    <3> HIDE DEF r
    <3>2. Put(log, r) = Append(log, r)
      <4>1. log # <<>> => Last(log).kind # "torn"
        <5> SUFFICES ASSUME log # <<>> PROVE Last(log).kind # "torn"
          OBVIOUS
        <5>1. Len(log) \in DOMAIN log
          BY EmptySeq DEF Billed, IsLog
        <5> QED BY <2>1, <5>1 DEF Readable, Last
      <4> QED BY <4>1 DEF Put
    <3>3. log' = IF attached THEN Put(log, r) ELSE log
      BY <2>4, <3>2 DEF r
    <3>4. Billed'
      BY <1>2, <2>1, <3>1, <3>3, Written
    <3>5. Snapped'
      BY <1>1, <1>3, <1>4, <2>1, <2>2, <3>1, <3>3 DEF Snapped
    <3> QED BY <3>4, <3>5
  <2> QED BY <1>7, <2>3, <2>4 DEF Fold
<1>8. CASE Unreadable \/ Leave
  <2>1. /\ t \in {"fold", "turn"} /\ t' = "snapshot" /\ UNCHANGED <<log, attached, counters, prunes, billed, unsnapped>>
    BY <1>8 DEF Unreadable, Leave
  <2>2. Billed' /\ (Readable' <=> Readable)
    BY <2>1, Unwritten
  <2>3. TurnsToCome' = TurnsToCome /\ CostToCome' = CostToCome
    BY <2>1 DEF TurnsToCome, CostToCome, UnderWay
  <2> QED BY <1>1, <1>3, <2>1, <2>2, <2>3 DEF Snapped
<1>9. CASE Prompt \/ Reply \/ Usage
  <2>1. PICK r : /\ Sound(r) /\ Appends(r) /\ r.kind \in {"user", "assistant", "usage"}
                 /\ (r.kind = "usage" => t = "usage" /\ r.cost = 1)
                 /\ t \in {"user", "turn", "usage"} /\ t' \in {"turn", "usage"}
                 /\ UNCHANGED <<attached, prunes, unsnapped>>
    <3>1. CASE Prompt
      <4> DEFINE r == [kind |-> "user", ts |-> now + 1]
      <4>1. Sound(r) /\ r.kind = "user"
        BY DEF Sound
      <4> QED BY <3>1, <4>1 DEF Prompt
    <3>2. CASE Reply
      <4> DEFINE r == [kind |-> "assistant", ts |-> now + 1]
      <4>1. Sound(r) /\ r.kind = "assistant"
        BY DEF Sound
      <4> QED BY <3>2, <4>1 DEF Reply
    <3>3. CASE Usage
      <4> DEFINE r == [kind |-> "usage", cost |-> 1]
      <4>1. Sound(r) /\ r.kind = "usage" /\ r.cost = 1
        BY DEF Sound
      <4> QED BY <3>3, <4>1 DEF Usage
    <3> QED BY <1>9, <3>1, <3>2, <3>3
  <2>2. /\ log' = IF attached THEN Put(log, r) ELSE log
        /\ billed' = IF r.kind = "usage" THEN billed + r.cost ELSE billed
        /\ counters' = Counted(counters, r)
    BY <2>1 DEF Appends
  <2>3. Readable
    BY <2>1 DEF Billed
  <2>4. Billed'
    BY <1>2, <2>1, <2>2, <2>3, Written
  <2>5. /\ counters'.turns = turns + IF r.kind = "assistant" THEN 1 ELSE 0
        /\ counters'.cost = cost + IF r.kind = "usage" THEN r.cost ELSE 0
    BY <1>1, <2>1, <2>2 DEF Counted, TypeOK, turns, cost
  <2>6. TurnsToCome = turns /\ CostToCome = cost /\ TurnsToCome' = counters'.turns /\ CostToCome' = counters'.cost
    BY <2>1 DEF TurnsToCome, CostToCome, UnderWay, turns, cost
  <2>7. Snapped'
    <3> SUFFICES ASSUME prunes = 0
                 PROVE  /\ SnapshotTurns(log') + counters'.turns <= Count(log', "assistant")
                        /\ ~unsnapped => SnapshotCost(log') + counters'.cost = UsageCost(log')
      BY <2>1, <2>6 DEF Snapped
    <3>1. log' = Put(log, r) /\ Whole(log)
      BY <1>1, <1>2, <2>1, <2>2, <2>3
    <3>2. /\ UsageCost(log') = UsageCost(log) + IF r.kind = "usage" THEN r.cost ELSE 0
          /\ SnapshotCost(log') = SnapshotCost(log) + 0
          /\ SnapshotTurns(log') = SnapshotTurns(log) + 0
          /\ Count(log', "assistant") = n + IF r.kind = "assistant" THEN 1 ELSE 0
      BY <1>4, <2>1, <3>1
    <3>3. /\ SnapshotTurns(log) + turns <= n
          /\ ~unsnapped => SnapshotCost(log) + cost = UsageCost(log)
      BY <1>3, <2>6, <3>1
    <3> QED BY <1>1, <2>1, <2>5, <3>2, <3>3
  <2> QED BY <2>4, <2>7
<1>10. CASE Snapshot
  <2> DEFINE r == [kind |-> "snapshot", turns |-> counters.turns, cost |-> counters.cost]
  <2>1. /\ Sound(r) /\ r.kind = "snapshot" /\ r.turns = turns /\ r.cost = cost
    BY <1>1 DEF Sound, turns, cost
  <2>2. /\ t = "snapshot" /\ t' = "end" /\ UNCHANGED <<attached, prunes, unsnapped>> /\ Appends(r)
    BY <1>10 DEF Snapshot
  <2> HIDE DEF r
  <2>3. log' = (IF attached THEN Put(log, r) ELSE log) /\ billed' = billed
    BY <2>1, <2>2 DEF Appends
  <2>4. Billed'
    BY <1>2, <2>1, <2>2, <2>3, Written
  <2>5. TurnsToCome = turns /\ CostToCome = cost /\ TurnsToCome' = 0 /\ CostToCome' = 0
    BY <2>2 DEF TurnsToCome, CostToCome, UnderWay, turns, cost
  <2>6. Snapped'
    <3> SUFFICES ASSUME prunes = 0, Whole(log')
                 PROVE  /\ SnapshotTurns(log') + 0 <= Count(log', "assistant")
                        /\ ~unsnapped => SnapshotCost(log') + 0 = UsageCost(log')
      BY <1>1, <2>2, <2>5 DEF Snapped
    <3>1. log' = Put(log, r) /\ Whole(log)
      BY <1>2, <1>4, <2>1, <2>2, <2>3
    <3>2. /\ UsageCost(log') = UsageCost(log) + 0
          /\ SnapshotCost(log') = SnapshotCost(log) + cost
          /\ SnapshotTurns(log') = SnapshotTurns(log) + turns
          /\ Count(log', "assistant") = n + 0
      BY <1>4, <2>1, <3>1
    <3>3. /\ SnapshotTurns(log) + turns <= n
          /\ ~unsnapped => SnapshotCost(log) + cost = UsageCost(log)
      BY <1>3, <2>5, <3>1
    <3> QED BY <1>1, <3>2, <3>3
  <2> QED BY <2>4, <2>6
<1>11. CASE End
  <2> DEFINE r == [kind |-> "end", reason |-> reason]
  <2>1. Sound(r) /\ r.kind = "end"
    BY DEF Sound
  <2>2. /\ t = "end" /\ t' = "closed" /\ UNCHANGED <<attached, prunes, unsnapped>> /\ Appends(r)
    BY <1>11 DEF End
  <2> HIDE DEF r
  <2>3. log' = (IF attached THEN Put(log, r) ELSE log) /\ billed' = billed
    BY <2>1, <2>2 DEF Appends
  <2>4. Billed'
    BY <2>1, <2>2, <2>3, Written
  <2>5. TurnsToCome = 0 /\ CostToCome = 0 /\ TurnsToCome' = 0 /\ CostToCome' = 0
    BY <2>2 DEF TurnsToCome, CostToCome, UnderWay
  <2>6. Snapped'
    <3> SUFFICES ASSUME prunes = 0, Whole(log')
                 PROVE  /\ SnapshotTurns(log') + 0 <= Count(log', "assistant")
                        /\ ~unsnapped => SnapshotCost(log') + 0 = UsageCost(log')
      BY <1>1, <2>2, <2>5 DEF Snapped
    <3>1. log' = Put(log, r) /\ Whole(log)
      BY <1>2, <1>4, <2>1, <2>2, <2>3
    <3>2. /\ UsageCost(log') = UsageCost(log) + 0
          /\ SnapshotCost(log') = SnapshotCost(log) + 0
          /\ SnapshotTurns(log') = SnapshotTurns(log) + 0
          /\ Count(log', "assistant") = n + 0
      BY <1>4, <2>1, <3>1
    <3> QED BY <1>1, <1>3, <2>5, <3>1, <3>2
  <2> QED BY <2>4, <2>6
<1>12. CASE Stops
  <2> DEFINE r == Of("torn")
  <2>1. Sound(r) /\ r.kind = "torn"
    BY DEF Sound, Of
  <2>2. /\ log' = log \/ (attached /\ log' = Put(log, r))
        /\ t \notin {"closed", "prune", "fold"}
        /\ UNCHANGED <<attached, counters, prunes, billed>>
        /\ t' \in {"closed", "snapshot", "end"}
    BY <1>12 DEF Stops
  <2>3. \/ t' = "closed" /\ unsnapped' = (unsnapped \/ t # "end")
        \/ t' = "snapshot" /\ t \in {"user", "turn", "usage"} /\ unsnapped' = unsnapped
        \/ t' = "end" /\ unsnapped' = TRUE
    BY <1>12 DEF Stops
  <2> HIDE DEF r
  <2>4. Billed'
    <3>1. CASE log' = log
      BY <2>2, <3>1, Unwritten
    <3>2. CASE attached /\ log' = Put(log, r)
      BY <1>2, <2>1, <2>2, <3>2, Written
    <3> QED BY <2>2, <3>1, <3>2
  <2>5. Snapped'
    <3> SUFFICES ASSUME prunes = 0, Whole(log') PROVE /\ SnapshotTurns(log') + TurnsToCome' <= Count(log', "assistant")
                                                      /\ ~unsnapped' => SnapshotCost(log') + CostToCome' = UsageCost(log')
      BY <1>1, <2>2 DEF Snapped
    <3>1. /\ Whole(log) /\ UsageCost(log') = UsageCost(log) /\ SnapshotCost(log') = SnapshotCost(log)
          /\ SnapshotTurns(log') = SnapshotTurns(log) /\ Count(log', "assistant") = n
      BY <1>1, <1>4, <2>1, <2>2 DEF n
    <3>2. TurnsToCome' = TurnsToCome \/ (TurnsToCome' = 0 /\ TurnsToCome = turns)
      BY <2>2, <2>3 DEF TurnsToCome, UnderWay, turns
    <3>3. ASSUME ~unsnapped' PROVE CostToCome' = CostToCome /\ ~unsnapped
      <4>1. t' = "closed" => t = "end"
        BY <2>2, <2>3, <3>3
      <4>2. ~unsnapped
        BY <2>3, <3>3, Zenon
      <4> QED BY <2>2, <2>3, <3>3, <4>1, <4>2 DEF CostToCome, UnderWay
    <3>4. TurnsToCome \in Nat
      BY <1>1 DEF TurnsToCome, turns
    <3> QED BY <1>1, <1>3, <3>1, <3>2, <3>3, <3>4
  <2> QED BY <2>4, <2>5
<1> QED BY <1>5, <1>6, <1>7, <1>8, <1>9, <1>10, <1>11, <1>12 DEF Tell

\* An ask and a status leave the log and the tell alone.
LEMMA CountsNext == IInv /\ Counts /\ [Next]_vars => Counts'
<1> SUFFICES ASSUME IInv, Counts, [Next]_vars PROVE Counts'
  OBVIOUS
<1>1. CASE Tell
  <2>1. Billed' /\ Snapped'
    BY <1>1, TellCounts DEF IInv, Counts
  <2>2. report' = None
    BY <1>1 DEF Tell
  <2> QED BY <2>1, <2>2 DEF Counts, Printed
<1>2. ASSUME UNCHANGED tell PROVE Billed' /\ Snapped'
  <2>1. UNCHANGED <<log, attached, t, counters, prunes, billed, unsnapped>>
    BY <1>2 DEF tell
  <2>2. Readable' = Readable
    BY <2>1 DEF Readable
  <2>3. TurnsToCome' = TurnsToCome /\ CostToCome' = CostToCome
    BY <2>1 DEF TurnsToCome, CostToCome, UnderWay
  <2> QED BY <2>1, <2>2, <2>3 DEF Counts, Billed, Snapped
<1>3. ASSUME NEW a \in Asker, Ask(a) PROVE Counts'
  <2>1. report' = None /\ UNCHANGED tell
    BY <1>3 DEF Ask
  <2> QED BY <1>2, <2>1 DEF Counts, Printed
<1>4. CASE StatusReports
  <2>1. UNCHANGED tell /\ log' = log
    BY <1>4 DEF StatusReports, tell
  <2>2. Printed'
    BY <1>4, <2>1 DEF StatusReports, Printed, Readable
  <2> QED BY <1>2, <2>1, <2>2 DEF Counts
<1>5. CASE UNCHANGED vars
  <2>1. UNCHANGED tell /\ log' = log /\ report' = report
    BY <1>5 DEF vars, tell
  <2>2. Printed'
    BY <2>1 DEF Counts, Printed, Readable
  <2> QED BY <1>2, <2>1, <2>2 DEF Counts
<1> QED BY <1>1, <1>3, <1>4, <1>5 DEF Next

\* What status prints: the tokens of every reply that recorded its usage, each
\* once, whatever crashed; and a warning that the two sums diverge only if an
\* invocation is under way, ended without its snapshot, or lost records to a prune.
THEOREM RecordedTotals == Spec => []TotalsAreRecorded
<1>1. Init => Counts
  <2> SUFFICES ASSUME Init PROVE Counts
    OBVIOUS
  <2>1. PICK s \in Starts : log = s.log /\ billed = UsageCost(s.log)
    BY DEF Init
  <2>2. /\ t = "closed" /\ prunes = 0 /\ unsnapped = FALSE /\ report = None /\ counters = NoCounters
    BY DEF Init
  <2>3. IsLog(log) /\ ~Diverges(log) /\ SnapshotTurns(log) <= Count(log, "assistant")
    BY <2>1, StartsAssumption DEF AtRest, IsLog
  <2>4. Sound(Of("start"))
    BY DEF Sound, Of
  <2>5. /\ UsageCost(log) \in Nat /\ SnapshotCost(log) \in Nat /\ SnapshotTurns(log) \in Nat
        /\ Count(log, "assistant") \in Nat
    BY <2>3, <2>4, PutCosts
  <2>6. Billed
    BY <2>1, <2>2, <2>3, <2>5 DEF Billed
  <2>7. Snapped
    <3>1. TurnsToCome = 0 /\ CostToCome = 0
      BY <2>2 DEF TurnsToCome, CostToCome, UnderWay
    <3> QED BY <2>3, <2>5, <3>1 DEF Snapped, Diverges
  <2> QED BY <2>2, <2>6, <2>7 DEF Counts, Printed
<1>2. ASSUME IInv, Counts PROVE TotalsAreRecorded
  <2> SUFFICES ASSUME report # None
               PROVE  /\ report.metrics.cost <= billed
                      /\ prunes = 0 => report.metrics.cost = billed
                      /\ report.metrics.warned => t # "closed" \/ unsnapped \/ prunes > 0
                      /\ prunes = 0 => report.metrics.turns <= report.summary.assistant
    BY DEF TotalsAreRecorded
  <2>1. /\ Readable /\ report.metrics = Metrics(log) /\ report.summary = Summary(log)
    BY <1>2 DEF Counts, Printed
  <2>2. /\ report.metrics.cost = UsageCost(log) /\ report.metrics.warned = Diverges(log)
        /\ report.metrics.turns = SnapshotTurns(log) /\ report.summary.assistant = Count(log, "assistant")
    BY <2>1 DEF Metrics, Summary, Diverges
  <2>3. /\ counters.turns \in Nat
        /\ UsageCost(log) \in Nat /\ SnapshotCost(log) \in Nat /\ SnapshotTurns(log) \in Nat
        /\ Count(log, "assistant") \in Nat /\ prunes \in Nat
    BY <1>2, Books DEF IInv, Counts
  <2>4. /\ UsageCost(log) <= billed
        /\ prunes = 0 => UsageCost(log) = billed
    BY <1>2 DEF Counts, Billed
  <2>5. prunes = 0 => /\ SnapshotTurns(log) + TurnsToCome <= Count(log, "assistant")
                      /\ ~unsnapped => SnapshotCost(log) + CostToCome = UsageCost(log)
    BY <1>2, <2>1 DEF Counts, Snapped
  <2>6. TurnsToCome \in Nat /\ (t = "closed" => CostToCome = 0)
    BY <2>3 DEF TurnsToCome, CostToCome, UnderWay
  <2>7. report.metrics.warned => t # "closed" \/ unsnapped \/ prunes > 0
    <3>1. ASSUME t = "closed", ~unsnapped, ~(prunes > 0) PROVE ~Diverges(log)
      BY <2>3, <2>5, <2>6, <3>1 DEF Diverges
    <3> QED BY <2>2, <3>1, Zenon
  <2> QED BY <2>2, <2>3, <2>4, <2>5, <2>6, <2>7
<1> QED BY <1>1, <1>2, Invariance, CountsNext, PTL DEF Spec
=============================================================================
