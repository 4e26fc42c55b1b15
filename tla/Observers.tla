------------------------------ MODULE Observers ------------------------------
(***************************************************************************)
(* The commands that look at a session without its LOCK while a tell is at *)
(* work: any number of `ask`, which keep their answers in ask.json, and    *)
(* `status`, which counts what conversation.jsonl holds.                   *)
(*                                                                         *)
(* The tell is here only what it does to the log, record by record; what   *)
(* decides about its turns is TellLoop, what its folds and prunes keep is  *)
(* ConversationLog.  A message is its stamp, and stamps are distinct; the  *)
(* records of tools and approvals are left out.  A fingerprint stands for  *)
(* the very records it was computed from: hashes do not collide.           *)
(***************************************************************************)
EXTENDS Naturals, Sequences, FiniteSets, SequencesExt, FiniteSetsExt

CONSTANTS
  Asker,         \* processes that run ask, one after the other under one pid
  Window,        \* what they look at: --all or not, and --limit (0: none)
  MaxEntries,    \* MAX_ASK_ENTRIES
  PriorEntries,  \* PRIOR_ASK_CONTEXT_ENTRIES
  None,
  Starts,        \* sessions to look at: [log, now, opens, asks, faults], the last three as bounds
  MaxAsks,       \* bound: asks that read the conversation
  MaxOpens,      \* bound: invocations of tell
  MaxTurns,      \* bound: replies of one invocation
  MaxFolds,      \* bound: summaries
  MaxPrunes,     \* bound: prunes
  MaxFaults      \* bound: crashes and failures of a tell or an ask

ASSUME ObserversAssumption ==
  /\ Window \subseteq [all : BOOLEAN, limit : Nat]
  /\ MaxEntries \in Nat \ {0} /\ PriorEntries \in Nat
  /\ {MaxAsks, MaxOpens, MaxTurns, MaxFolds, MaxPrunes, MaxFaults} \subseteq Nat
  /\ \A s \in Starts : s.now \in Nat /\ s.asks \in 0 .. MaxAsks /\ s.faults \in 0 .. MaxFaults

VARIABLES
  log,       \* conversation.jsonl
  attached,  \* does the tell's handle write to it?
  t,         \* what the tell does next
  now,       \* stamps given so far
  counters,  \* its Counters: [turns, cost]
  reason,    \* how its loop ended
  ask,       \* ask.json
  tmp,       \* the temporary files beside it
  apc,       \* an ask: "idle", "read", "answer", "write", "writing", "rename"
  seen,      \* the records it looks at
  state,     \* the entries it carries on from
  report,    \* what a status has just printed
  opens, folds, prunes, asks, faults, \* history: counted for the bounds
  base,      \* history: saves an ask had before it when it loaded ask.json
  saved,     \* history: the answers saved, in order
  refused,   \* history: did an ask find ask.json malformed?
  billed,    \* history: tokens of the usage records appended
  unsnapped  \* history: has an invocation ended without its snapshot?

tell == <<log, attached, t, now, counters, reason, opens, folds, prunes, billed, unsnapped>>
cache == <<ask, tmp>>
askers == <<apc, seen, state, base, saved, asks, refused>>
vars == <<tell, cache, askers, faults, report>>

-----------------------------------------------------------------------------
(***************************************************************************)
(* Records.  A write that stops half-way leaves a line that does not       *)
(* parse, and what is appended next joins it.  A reader that comes while a *)
(* line is being written fails in the same way, and leaves nothing behind. *)
(***************************************************************************)
Of(kind) == [kind |-> kind]
OfKind(l, kinds) == LET Is(x) == x.kind \in kinds IN SelectSeq(l, Is)
MessageKind == {"user", "assistant"}
Readable == \A i \in DOMAIN log : log[i].kind # "torn"
Put(l, r) == IF l # <<>> /\ Last(l).kind = "torn" THEN l ELSE Append(l, r)

\* read_chat_message_with_ts, and the window of ask.
Cutoffs(l) == {0} \cup {l[i].cutoff : i \in {j \in DOMAIN l : l[j].kind = "summary"}}
Stamps(l) == [i \in DOMAIN OfKind(l, MessageKind) |-> OfKind(l, MessageKind)[i].ts]
Newer(l) == LET Behind(ts) == ts > Max(Cutoffs(l)) IN SelectSeq(Stamps(l), Behind)
LastOf(s, n) == SubSeq(s, IF Len(s) > n THEN Len(s) - n + 1 ELSE 1, Len(s))
View(l, w) ==
  LET records == IF w.all THEN Stamps(l) ELSE Newer(l)
  IN  IF w.limit = 0 THEN records ELSE LastOf(records, w.limit)

-----------------------------------------------------------------------------
(***************************************************************************)
(* The tell: invocation_start, a prune, a fold, the prompt, its replies    *)
(* with their usage, metrics_snapshot, invocation_end.                     *)
(***************************************************************************)
NoCounters == [turns |-> 0, cost |-> 0]
\* Mutant: the billed total is the cost of the last call.
CountedLast(c, r) ==
  CASE r.kind = "assistant" -> [c EXCEPT !.turns = @ + 1]
    [] r.kind = "usage" -> [c EXCEPT !.cost = r.cost]
    [] OTHER -> c
\* The counters follow a record once its append has returned.
Counted(c, r) ==
  CASE r.kind = "assistant" -> [c EXCEPT !.turns = @ + 1]
    [] r.kind = "usage" -> [c EXCEPT !.cost = @ + r.cost]
    [] OTHER -> c

Appends(r) ==
  /\ log' = IF attached THEN Put(log, r) ELSE log
  /\ counters' = Counted(counters, r)
  /\ billed' = IF r.kind = "usage" THEN billed + r.cost ELSE billed

Open ==
  /\ t = "closed" /\ opens < MaxOpens
  /\ t' = "prune" /\ attached' = TRUE
  /\ log' = Put(log, Of("start"))
  /\ counters' = NoCounters /\ opens' = opens + 1
  /\ UNCHANGED <<now, reason, folds, prunes, billed, unsnapped>>

\* maybe_prune_conversation, at a record no call hangs on; the handle stays
\* with the old file.
Prune ==
  /\ t = "prune"
  /\ t' = "fold"
  /\ \/ UNCHANGED <<log, attached, prunes>>
     \/ /\ prunes < MaxPrunes /\ prunes' = prunes + 1
        /\ \E i \in 2 .. Len(log) : log[i].kind \in MessageKind /\ log' = SubSeq(log, i, Len(log))
        /\ attached' = FALSE
  /\ UNCHANGED <<now, counters, reason, opens, folds, billed, unsnapped>>

\* try_auto_compact; a log that does not parse ends the loop.
Fold ==
  /\ t = "fold" /\ Readable
  /\ t' = "user"
  /\ \/ UNCHANGED <<log, folds>>
     \/ /\ folds < MaxFolds /\ folds' = folds + 1
        /\ \E i \in DOMAIN Newer(log) :
             log' = IF attached THEN Append(log, [kind |-> "summary", cutoff |-> Newer(log)[i]]) ELSE log
  /\ UNCHANGED <<attached, now, counters, reason, opens, prunes, billed, unsnapped>>
Unreadable ==
  /\ t = "fold" /\ ~Readable
  /\ t' = "snapshot" /\ reason' = "error"
  /\ UNCHANGED <<log, attached, now, counters, opens, folds, prunes, billed, unsnapped>>

Prompt ==
  /\ t = "user" /\ t' = "turn"
  /\ Appends([kind |-> "user", ts |-> now + 1]) /\ now' = now + 1
  /\ UNCHANGED <<attached, reason, opens, folds, prunes, unsnapped>>

\* The model call: a reply, with its usage if the server gave it, or the end
\* of the loop.
Reply ==
  /\ t = "turn" /\ counters.turns < MaxTurns
  /\ t' \in {"usage", "turn"}
  /\ Appends([kind |-> "assistant", ts |-> now + 1]) /\ now' = now + 1
  /\ UNCHANGED <<attached, reason, opens, folds, prunes, unsnapped>>
Usage ==
  /\ t = "usage" /\ t' = "turn"
  /\ Appends([kind |-> "usage", cost |-> 1])
  /\ UNCHANGED <<attached, now, reason, opens, folds, prunes, unsnapped>>
Leave ==
  /\ t = "turn" /\ t' = "snapshot"
  /\ reason' \in {"completed", "transport_error"} /\ (reason' = "completed" => counters.turns > 0)
  /\ UNCHANGED <<log, attached, now, counters, opens, folds, prunes, billed, unsnapped>>

Snapshot ==
  /\ t = "snapshot" /\ t' = "end"
  /\ Appends([kind |-> "snapshot", turns |-> counters.turns, cost |-> counters.cost])
  /\ UNCHANGED <<attached, now, reason, opens, folds, prunes, unsnapped>>
End ==
  /\ t = "end" /\ t' = "closed"
  /\ Appends([kind |-> "end", reason |-> reason])
  /\ UNCHANGED <<attached, now, reason, opens, folds, prunes, unsnapped>>

\* An append fails, with a part of the line written or none, or the process
\* dies there.  Failing to write the snapshot or the end is passed over, any
\* other failure ends the loop.
Stops ==
  /\ t \notin {"closed", "prune", "fold"}
  /\ faults < MaxFaults /\ faults' = faults + 1
  /\ log' = log \/ (attached /\ log' = Put(log, Of("torn")))
  /\ \/ t' = "closed" /\ unsnapped' = (unsnapped \/ t # "end") /\ UNCHANGED reason
     \/ t \in {"user", "turn", "usage"} /\ t' = "snapshot" /\ reason' = "error" /\ UNCHANGED unsnapped
     \/ t = "snapshot" /\ t' = "end" /\ unsnapped' = TRUE /\ UNCHANGED reason
  /\ UNCHANGED <<attached, now, counters, opens, folds, prunes, billed>>

Tell ==
  /\ \/ /\ Open \/ Prune \/ Fold \/ Unreadable \/ Prompt \/ Reply \/ Usage \/ Leave \/ Snapshot \/ End
        /\ UNCHANGED faults
     \/ Stops
  /\ report' = None /\ UNCHANGED <<cache, askers>>

-----------------------------------------------------------------------------
(***************************************************************************)
(* ask.  The model is given the records it saw and the last entries of the *)
(* cache, which count only if they were made from the same records.        *)
(***************************************************************************)
\* Mutant: only the newest record is hashed.
FingerprintOfNewest(view) == <<Last(view)>>
Fingerprint(view) == view

\* render_prior_ask_context.
Prior(entries) == LastOf(entries, PriorEntries)

\* Mutant: the cache keeps its oldest entries.
KeptOldest(entries) == SubSeq(entries, 1, IF Len(entries) > MaxEntries THEN MaxEntries ELSE Len(entries))
Kept(entries) == LastOf(entries, MaxEntries)

\* Mutant: one temporary file for all.
SharedTmp(a) == CHOOSE b \in Asker : TRUE
TmpOf(a) == a

Cache(view, entries) == [fingerprint |-> Fingerprint(view), entries |-> entries, whole |-> TRUE]

\* An empty window ends an ask before it looks at ask.json.
AskReads(a) ==
  /\ apc[a] = "idle" /\ asks < MaxAsks /\ Readable
  /\ \E w \in Window :
       /\ View(log, w) # <<>>
       /\ seen' = [seen EXCEPT ![a] = View(log, w)]
  /\ apc' = [apc EXCEPT ![a] = "read"]
  /\ asks' = asks + 1
  /\ UNCHANGED <<cache, state, base, saved, refused, faults>>

Idle(a) ==
  /\ apc' = [apc EXCEPT ![a] = "idle"]
  /\ seen' = [seen EXCEPT ![a] = <<>>]
  /\ state' = [state EXCEPT ![a] = <<>>]
  /\ base' = [base EXCEPT ![a] = 0]

\* load_ask_state; malformed content is an error.
Malformed == IF ask = None THEN FALSE ELSE ~ask.whole
Matching(a) == IF ask = None THEN FALSE ELSE ask.fingerprint = Fingerprint(seen[a])
AskLoads(a) ==
  /\ apc[a] = "read"
  /\ IF Malformed THEN Idle(a) /\ refused' = TRUE
     ELSE /\ apc' = [apc EXCEPT ![a] = "answer"]
          /\ state' = [state EXCEPT ![a] = IF Matching(a) THEN ask.entries ELSE <<>>]
          /\ base' = [base EXCEPT ![a] = Len(saved)]
          /\ UNCHANGED <<seen, refused>>
  /\ UNCHANGED <<cache, saved, asks, faults>>

\* The model answers.
Answer(a) == [by |-> a, after |-> base[a], of |-> seen[a]]
AskAnswers(a) ==
  /\ apc[a] = "answer"
  /\ apc' = [apc EXCEPT ![a] = "write"]
  /\ state' = [state EXCEPT ![a] = Kept(Append(@, Answer(a)))]
  /\ UNCHANGED <<cache, seen, base, saved, asks, refused, faults>>

\* save_ask_state: a file of its own, created and written, then renamed.
AskWrites(a) ==
  /\ apc[a] = "write"
  /\ apc' = [apc EXCEPT ![a] = "writing"]
  /\ tmp' = [tmp EXCEPT ![TmpOf(a)] = [Cache(seen[a], state[a]) EXCEPT !.whole = FALSE]]
  /\ UNCHANGED <<ask, seen, state, base, saved, asks, refused, faults>>
AskWritten(a) ==
  /\ apc[a] = "writing"
  /\ apc' = [apc EXCEPT ![a] = "rename"]
  /\ tmp' = [tmp EXCEPT ![TmpOf(a)] = Cache(seen[a], state[a])]
  /\ UNCHANGED <<ask, seen, state, base, saved, asks, refused, faults>>
AskRenames(a) ==
  /\ apc[a] = "rename" /\ tmp[TmpOf(a)] # None
  /\ ask' = tmp[TmpOf(a)]
  /\ tmp' = [tmp EXCEPT ![TmpOf(a)] = None]
  /\ saved' = Append(saved, Answer(a))
  /\ Idle(a)
  /\ UNCHANGED <<asks, refused, faults>>

\* The model call or a write fails, or the process dies: what it wrote stays.
AskStops(a) ==
  /\ apc[a] \in {"answer", "writing", "rename"}
  /\ faults < MaxFaults /\ faults' = faults + 1
  /\ Idle(a)
  /\ UNCHANGED <<cache, saved, asks, refused>>

Ask(a) ==
  /\ \/ AskReads(a) \/ AskLoads(a) \/ AskAnswers(a) \/ AskWrites(a) \/ AskWritten(a)
     \/ AskRenames(a) \/ AskStops(a)
  /\ report' = None /\ UNCHANGED tell

-----------------------------------------------------------------------------
(***************************************************************************)
(* status: the sums over the snapshots, one of each invocation, and over   *)
(* the usage records, one of each reply that had any.  It reads the log    *)
(* once for each, and keeps nothing.                                       *)
(***************************************************************************)
Sum(s) == LET upTo[i \in 0 .. Len(s)] == IF i = 0 THEN 0 ELSE upTo[i - 1] + s[i] IN upTo[Len(s)]
Amounts(l, kind, member) == [i \in DOMAIN l |-> IF l[i].kind = kind THEN l[i][member] ELSE 0]
SnapshotTurns(l) == Sum(Amounts(l, "snapshot", "turns"))
SnapshotCost(l) == Sum(Amounts(l, "snapshot", "cost"))
UsageCost(l) == Sum(Amounts(l, "usage", "cost"))
Diverges(l) == SnapshotCost(l) # UsageCost(l)

\* scan_conversation.
Count(l, kind) == Cardinality({i \in DOMAIN l : l[i].kind = kind})
EndsBy(l, why) == Cardinality({i \in DOMAIN l : l[i].kind = "end" /\ l[i].reason = why})
Summary(l) ==
  [records |-> Len(l), starts |-> Count(l, "start"),
   completed |-> EndsBy(l, "completed"), error |-> EndsBy(l, "error"),
   user |-> Count(l, "user"), assistant |-> Count(l, "assistant"), summaries |-> Count(l, "summary")]

\* collect_session_metrics, on one text of the log.
Metrics(l) ==
  [turns |-> SnapshotTurns(l),
   cost |-> IF Diverges(l) THEN UsageCost(l) ELSE SnapshotCost(l), warned |-> Diverges(l)]

StatusReports ==
  /\ Readable
  /\ report' = [summary |-> Summary(log), metrics |-> Metrics(log)]
  /\ UNCHANGED <<tell, cache, askers, faults>>

-----------------------------------------------------------------------------
\* A session is first looked at when no tell is at work and every invocation
\* has left its snapshot, which counts what it recorded.
AtRest(l) ==
  /\ \A i \in DOMAIN l :
       /\ l[i].kind = "usage" => l[i].cost \in Nat
       /\ l[i].kind = "snapshot" => l[i].cost \in Nat /\ l[i].turns \in Nat
  /\ ~Diverges(l) /\ SnapshotTurns(l) <= Count(l, "assistant")
ASSUME StartsAssumption ==
  \A s \in Starts : s.log \in Seq({s.log[i] : i \in DOMAIN s.log}) /\ AtRest(s.log)

Init ==
  /\ \E s \in Starts :
       /\ log = s.log /\ now = s.now /\ opens = s.opens /\ asks = s.asks /\ faults = s.faults
       /\ billed = UsageCost(s.log)
  /\ attached = FALSE /\ t = "closed"
  /\ counters = NoCounters /\ reason = "completed"
  /\ folds = 0 /\ prunes = 0 /\ unsnapped = FALSE
  /\ ask = None /\ tmp = [a \in Asker |-> None]
  /\ apc = [a \in Asker |-> "idle"] /\ seen = [a \in Asker |-> <<>>]
  /\ state = [a \in Asker |-> <<>>] /\ base = [a \in Asker |-> 0]
  /\ saved = <<>> /\ refused = FALSE
  /\ report = None

Next == Tell \/ (\E a \in Asker : Ask(a)) \/ StatusReports
Spec == Init /\ [][Next]_vars

-----------------------------------------------------------------------------
TypeOK ==
  /\ t \in {"closed", "prune", "fold", "user", "turn", "usage", "snapshot", "end"}
  /\ attached \in BOOLEAN /\ now \in Nat /\ faults \in 0 .. MaxFaults
  /\ counters \in [turns : 0 .. MaxTurns, cost : 0 .. MaxTurns]
  /\ apc \in [Asker -> {"idle", "read", "answer", "write", "writing", "rename"}]
  /\ \A a \in Asker : Len(state[a]) <= MaxEntries
  /\ base \in [Asker -> Nat] /\ asks \in 0 .. MaxAsks

\* AskState: "a mismatch means the observation changed ... and the cache is
\* discarded rather than trusted".  However asks with different windows, a tell
\* that appends, folds and prunes, and crashes follow one another: the answers
\* in ask.json, and those handed to the model as prior context, were all given
\* over the very same records, which are the ones this ask looks at.
EntriesOfOneView ==
  /\ ask # None => \A i, j \in DOMAIN ask.entries : ask.entries[i].of = ask.entries[j].of
  /\ \A a \in Asker : apc[a] = "answer" =>
       \A i \in DOMAIN Prior(state[a]) : Prior(state[a])[i].of = seen[a]

\* ask takes no lock, so of two that overlap the later rename wins.  Nothing
\* else is lost: an answer that was saved is in ask.json until an answer over
\* other records replaces it, MAX_ASK_ENTRIES newer ones push it out, or an ask
\* that had read the file before it was saved is saved; and answers stay in the
\* order they were saved in.
Place(e) == CHOOSE i \in DOMAIN saved : saved[i] = e
LostOnlyToOverlap ==
  /\ \A i \in DOMAIN saved :
       \/ \E k \in DOMAIN ask.entries : ask.entries[k] = saved[i]
       \/ \E j \in i + 1 .. Len(saved) : saved[j].of # saved[i].of \/ saved[j].after < i
       \/ Len(saved) - i >= MaxEntries
  /\ ask # None =>
       \A k, n \in DOMAIN ask.entries : k < n => Place(ask.entries[k]) < Place(ask.entries[n])

\* save_ask_state: "a concurrent reader never sees a partial file", whoever
\* else is writing, and whoever died while doing so.
NeverPartial == ~refused /\ (ask # None => ask.whole)

\* status: "MetricsSnapshot may be missing on a crashed invocation".  The
\* tokens reported are those of every reply that recorded its usage, each once,
\* whatever crashed, and of a log never pruned all of them; the warning that
\* the two sums diverge is given only if an invocation is under way, ended
\* without its snapshot, or lost records to a prune.
TotalsAreRecorded ==
  report # None =>
    /\ report.metrics.cost <= billed
    /\ prunes = 0 => report.metrics.cost = billed
    /\ report.metrics.warned => t # "closed" \/ unsnapped \/ prunes > 0
    /\ prunes = 0 => report.metrics.turns <= report.summary.assistant
=============================================================================
