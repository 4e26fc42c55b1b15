------------------------ MODULE Permissions_proofs ------------------------
(***************************************************************************)
(* Proofs about Permissions.  First what appending a rule and stacking two *)
(* files does to a judgement, then an inductive invariant that says what a *)
(* session's process may rely on as long as nobody else wrote its files.   *)
(***************************************************************************)
EXTENDS Permissions, SequenceTheorems, WellFoundedInduction, TLAPS

-----------------------------------------------------------------------------
(***************************************************************************)
(* Judgements.                                                             *)
(***************************************************************************)
\* Of two stacked files the later one decides if it can.
LEMMA JudgeStacked ==
  ASSUME NEW S, NEW a \in Seq(S), NEW b \in Seq(S), NEW c
  PROVE  Judge(a \o b, c) = IF Judge(b, c) = "pending" THEN Judge(a, c) ELSE Judge(b, c)
<1> DEFINE ab == a \o b
<1>1. /\ ab \in Seq(S) /\ Len(ab) = Len(a) + Len(b)
      /\ \A i \in 1 .. Len(a) : ab[i] = a[i]
      /\ \A i \in 1 .. Len(b) : ab[i + Len(a)] = b[i]
      /\ DOMAIN a = 1 .. Len(a) /\ DOMAIN b = 1 .. Len(b) /\ DOMAIN ab = 1 .. Len(a) + Len(b)
      /\ Len(a) \in Nat /\ Len(b) \in Nat
  OBVIOUS
<1> HIDE DEF ab
<1>2. \A i \in DOMAIN ab : i \in 1 .. Len(a) \/ \E j \in 1 .. Len(b) : i = j + Len(a)
  <2> TAKE i \in DOMAIN ab
  <2>1. i \notin 1 .. Len(a) => i - Len(a) \in 1 .. Len(b) /\ i = (i - Len(a)) + Len(a)
    BY <1>1
  <2> QED  BY <2>1
<1>3. NoneAfter(ab, c, 0) <=> NoneAfter(a, c, 0) /\ NoneAfter(b, c, 0)
  <2>1. ASSUME NoneAfter(ab, c, 0), NEW i \in DOMAIN a PROVE ~Matches(a[i], c)
    <3>1. i \in DOMAIN ab /\ i > 0 /\ ab[i] = a[i]  BY <1>1
    <3> QED  BY <2>1, <3>1 DEF NoneAfter
  <2>2. ASSUME NoneAfter(ab, c, 0), NEW i \in DOMAIN b PROVE ~Matches(b[i], c)
    <3>1. i + Len(a) \in DOMAIN ab /\ i + Len(a) > 0 /\ ab[i + Len(a)] = b[i]  BY <1>1
    <3> QED  BY <2>2, <3>1 DEF NoneAfter
  <2>3. ASSUME NoneAfter(a, c, 0), NoneAfter(b, c, 0), NEW i \in DOMAIN ab PROVE ~Matches(ab[i], c)
    <3>1. CASE i \in 1 .. Len(a)  BY <2>3, <3>1, <1>1 DEF NoneAfter
    <3>2. ASSUME NEW j \in 1 .. Len(b), i = j + Len(a) PROVE ~Matches(ab[i], c)
      <4>1. j \in DOMAIN b /\ j > 0 /\ ab[i] = b[j]  BY <1>1, <3>2
      <4> QED  BY <2>3, <4>1 DEF NoneAfter
    <3> QED  BY <3>1, <3>2, <1>2
  <2> QED  BY <2>1, <2>2, <2>3 DEF NoneAfter
<1>4. ASSUME NoneAfter(b, c, 0) PROVE LastAllows(ab, c) <=> LastAllows(a, c)
  <2>1. \A j \in 1 .. Len(b) : ~Matches(b[j], c)
    BY <1>1, <1>4 DEF NoneAfter
  <2>2. ASSUME NEW i \in 1 .. Len(a) PROVE NoneAfter(ab, c, i) <=> NoneAfter(a, c, i)
    <3>1. ASSUME NoneAfter(ab, c, i), NEW m \in DOMAIN a, m > i PROVE ~Matches(a[m], c)
      <4>1. m \in DOMAIN ab /\ ab[m] = a[m]  BY <1>1
      <4> QED  BY <3>1, <4>1 DEF NoneAfter
    <3>2. ASSUME NoneAfter(a, c, i), NEW m \in DOMAIN ab, m > i PROVE ~Matches(ab[m], c)
      <4>1. CASE m \in 1 .. Len(a)  BY <1>1, <3>2, <4>1 DEF NoneAfter
      <4>2. CASE \E j \in 1 .. Len(b) : m = j + Len(a)  BY <1>1, <2>1, <4>2
      <4> QED  BY <1>2, <4>1, <4>2
    <3> QED  BY <3>1, <3>2 DEF NoneAfter
  <2> QED  BY <1>1, <1>2, <2>1, <2>2 DEF LastAllows
<1>5. ASSUME ~NoneAfter(b, c, 0) PROVE LastAllows(ab, c) <=> LastAllows(b, c)
  <2>1. PICK k \in 1 .. Len(b) : Matches(b[k], c)
    BY <1>1, <1>5 DEF NoneAfter
  <2>2. ASSUME NEW i \in 1 .. Len(a) PROVE ~NoneAfter(ab, c, i)
    <3>1. k + Len(a) \in DOMAIN ab /\ k + Len(a) > i /\ ab[k + Len(a)] = b[k]  BY <1>1
    <3> QED  BY <2>1, <3>1 DEF NoneAfter
  <2>3. ASSUME NEW j \in 1 .. Len(b) PROVE NoneAfter(ab, c, j + Len(a)) <=> NoneAfter(b, c, j)
    <3>1. ASSUME NoneAfter(ab, c, j + Len(a)), NEW m \in DOMAIN b, m > j PROVE ~Matches(b[m], c)
      <4>1. m + Len(a) \in DOMAIN ab /\ m + Len(a) > j + Len(a) /\ ab[m + Len(a)] = b[m]
        BY <1>1, <3>1
      <4> QED  BY <4>1, <3>1 DEF NoneAfter
    <3>2. ASSUME NoneAfter(b, c, j), NEW m \in DOMAIN ab, m > j + Len(a) PROVE ~Matches(ab[m], c)
      <4>1. PICK n \in 1 .. Len(b) : m = n + Len(a)
        BY <1>1, <1>2, <3>2
      <4>2. n \in DOMAIN b /\ n > j /\ ab[m] = b[n]  BY <4>1, <1>1, <3>2
      <4> QED  BY <4>2, <3>2 DEF NoneAfter
    <3> QED  BY <3>1, <3>2 DEF NoneAfter
  <2>4. ASSUME LastAllows(ab, c) PROVE LastAllows(b, c)
    <3>1. PICK i \in DOMAIN ab : Matches(ab[i], c) /\ ab[i].allow /\ NoneAfter(ab, c, i)
      BY <2>4 DEF LastAllows
    <3>2. PICK j \in 1 .. Len(b) : i = j + Len(a)
      BY <1>2, <2>2, <3>1
    <3> QED  BY <1>1, <3>1, <3>2, <2>3 DEF LastAllows
  <2>5. ASSUME LastAllows(b, c) PROVE LastAllows(ab, c)
    <3>1. PICK j \in DOMAIN b : Matches(b[j], c) /\ b[j].allow /\ NoneAfter(b, c, j)
      BY <2>5 DEF LastAllows
    <3>2. j + Len(a) \in DOMAIN ab /\ ab[j + Len(a)] = b[j]
      BY <1>1
    <3> QED  BY <1>1, <3>1, <3>2, <2>3 DEF LastAllows
  <2> QED  BY <2>4, <2>5
<1> QED  BY <1>3, <1>4, <1>5 DEF Judge, ab

\* A rule at the end decides the calls it matches, and only those.
LEMMA JudgeAppended ==
  ASSUME NEW S, NEW a \in Seq(S), NEW g \in S, NEW c, g.allow = TRUE
  PROVE  Judge(Append(a, g), c) = IF Matches(g, c) THEN "allow" ELSE Judge(a, c)
<1> DEFINE b == <<g>>
<1>1. b \in Seq(S) /\ Append(a, g) = a \o b
  OBVIOUS
<1>2. NoneAfter(b, c, 0) <=> ~Matches(g, c)
  BY DEF NoneAfter
<1>3. LastAllows(b, c) <=> Matches(g, c)
  BY DEF LastAllows, NoneAfter
<1>4. Judge(b, c) = IF Matches(g, c) THEN "allow" ELSE "pending"
  BY <1>2, <1>3 DEF Judge
<1> HIDE DEF b
<1>5. Judge(a \o b, c) = IF Judge(b, c) = "pending" THEN Judge(a, c) ELSE Judge(b, c)
  BY <1>1, JudgeStacked
<1> QED  BY <1>1, <1>4, <1>5

\* If rules match at all, one of them is the last to match.
LEMMA LastMatch ==
  ASSUME NEW S, NEW rules \in Seq(S), NEW c, ~NoneAfter(rules, c, 0)
  PROVE  \E i \in DOMAIN rules : Matches(rules[i], c) /\ NoneAfter(rules, c, i)
<1>1. DOMAIN rules = 1 .. Len(rules) /\ Len(rules) \in Nat
  OBVIOUS
<1> DEFINE after == {Len(rules) - i : i \in {j \in DOMAIN rules : Matches(rules[j], c)}}
<1>2. PICK k \in DOMAIN rules : Matches(rules[k], c)
  BY DEF NoneAfter
<1>3. after \subseteq Nat /\ Len(rules) - k \in after
  BY <1>1, <1>2
<1> HIDE DEF after
<1>4. after # {}
  BY <1>3
<1>5. PICK d \in after : \A e \in after : ~(<<e, d>> \in OpToRel(<, Nat))
  BY <1>3, <1>4, NatLessThanWellFounded, WFMin, Zenon
<1>6. \A e \in after : ~(e < d)
  BY <1>3, <1>5 DEF OpToRel
<1>7. PICK i \in DOMAIN rules : d = Len(rules) - i /\ Matches(rules[i], c)
  BY <1>5 DEF after
<1>8. ASSUME NEW j \in DOMAIN rules, j > i PROVE ~Matches(rules[j], c)
  <2> SUFFICES ASSUME Matches(rules[j], c) PROVE FALSE  OBVIOUS
  <2>1. Len(rules) - j \in after
    BY DEF after
  <2>2. Len(rules) - j < d
    BY <1>1, <1>7, <1>8
  <2> QED  BY <1>6, <2>1, <2>2
<1>9. NoneAfter(rules, c, i)
  BY <1>8 DEF NoneAfter
<1> QED  BY <1>7, <1>9

\* Rules that match decide, and if not as v says, then the last of them contradicts v.
LEMMA LastDecides ==
  ASSUME NEW rules \in Seq(Line), NEW c \in Calls, NEW i \in DOMAIN rules, Matches(rules[i], c),
         NEW v \in BOOLEAN
  PROVE  /\ Judge(rules, c) # "pending"
         /\ Judge(rules, c) # (IF v THEN "allow" ELSE "deny")
              => \E j \in DOMAIN rules :
                   Matches(rules[j], c) /\ NoneAfter(rules, c, j) /\ rules[j].allow = ~v
<1>1. i > 0
  OBVIOUS
<1>2. ~NoneAfter(rules, c, 0)
  BY <1>1 DEF NoneAfter
<1>3. PICK j \in DOMAIN rules : Matches(rules[j], c) /\ NoneAfter(rules, c, j)
  BY <1>2, LastMatch
<1>4. rules[j].allow \in BOOLEAN
  <2>1. rules[j] \in Line /\ c.kind \in Kinds
    BY PermissionsAssumption DEF Asked
  <2>2. rules[j].kind \in Kinds
    BY <1>3, <2>1 DEF Matches
  <2> QED  BY <2>1, <2>2, PermissionsAssumption DEF Line, WellFormed
<1>5. Judge(rules, c) = IF LastAllows(rules, c) THEN "allow" ELSE "deny"
  BY <1>2 DEF Judge
<1>6. rules[j].allow => LastAllows(rules, c)
  BY <1>3 DEF LastAllows
<1>7. ASSUME LastAllows(rules, c) PROVE rules[j].allow
  <2>1. PICK k \in DOMAIN rules : Matches(rules[k], c) /\ rules[k].allow /\ NoneAfter(rules, c, k)
    BY <1>7 DEF LastAllows
  <2>2. ~(k > j) /\ ~(j > k)
    BY <1>3, <2>1 DEF NoneAfter
  <2>3. k = j
    BY <2>2
  <2> QED  BY <2>1, <2>3
<1>8. Judge(rules, c) = IF rules[j].allow THEN "allow" ELSE "deny"
  BY <1>5, <1>6, <1>7
<1> QED  BY <1>3, <1>4, <1>8

\* What a grant writes is a rule that allows.
LEMMA GrantedIsRule ==
  ASSUME NEW c \in Calls
  PROVE  /\ Granted(c) \in Line /\ Granted(c).allow = TRUE /\ Granted(c).kind = c.kind
         /\ Granted(c) # Bytes
<1>1. c.kind \in Kinds  BY PermissionsAssumption DEF Asked
<1>2. Granted(c).of \in UNION {{d.of, Granted(d).of} : d \in Calls}  OBVIOUS
<1>3. Granted(c).kind = c.kind /\ Granted(c).allow = TRUE  BY DEF Granted
<1>4. Granted(c) = [kind |-> c.kind, allow |-> TRUE, of |-> Granted(c).of]  BY DEF Granted
<1> DEFINE O == UNION {{d.of, Granted(d).of} : d \in Calls}
           o == Granted(c).of
<1> HIDE DEF O, o
<1>5. [kind |-> c.kind, allow |-> TRUE, of |-> o] \in [kind : Kinds, allow : BOOLEAN, of : O]
  BY <1>1, <1>2 DEF O, o
<1>7. Granted(c) \in Line  BY <1>4, <1>5 DEF Line, O, o
<1>6. Granted(c) # Bytes  BY <1>1, <1>3 DEF Bytes, Kinds
<1> QED  BY <1>3, <1>6, <1>7

\* A rule with the matcher of a grant matches the call the grant is for, if its
\* path is written the way rules are.
LEMMA SameMatches ==
  ASSUME NEW c \in Calls, c.spelled = c.of, NEW r, SameMatcher(r, Granted(c))
  PROVE  Matches(r, c)
<1>1. c.of \in Seq(ToSet(c.of))  BY PermissionsAssumption DEF Asked, Words
<1>2. r.kind = c.kind /\ r.of = IF c.kind = "command" /\ Len(c.of) > 2 THEN SubSeq(c.of, 1, 2) ELSE c.of
  BY DEF SameMatcher, Granted
<1>3. IsPrefix(c.of, c.of)  BY <1>1 DEF IsPrefix
<1>4. Len(c.of) > 2 => IsPrefix(SubSeq(c.of, 1, 2), c.of)
  <2> SUFFICES ASSUME Len(c.of) > 2 PROVE IsPrefix(SubSeq(c.of, 1, 2), c.of)  OBVIOUS
  <2> DEFINE p == SubSeq(c.of, 1, 2)
  <2>1. p \in Seq(ToSet(c.of)) /\ Len(p) = 2  BY <1>1
  <2>2. SubSeq(p, 1, Len(p)) = p  BY <2>1
  <2> QED  BY <2>1, <2>2, <1>1 DEF IsPrefix
<1> QED  BY <1>2, <1>3, <1>4 DEF Matches

\* Appending a rule to a file appends it to what is loaded from the file.
LEMMA RulesAppended ==
  ASSUME NEW a \in Seq(Line), NEW g \in Line, g # Bytes, Readable(a)
  PROVE  Rules(Append(a, g)) = Append(Rules(a), g)
<1>1. Bytes \notin ToSet(Append(a, g))
  BY DEF Readable, ToSet
<1> QED  BY <1>1 DEF Rules, Readable

LEMMA RulesTyped == ASSUME NEW a \in Seq(Line) PROVE Rules(a) \in Seq(Line)
BY DEF Rules

-----------------------------------------------------------------------------
(***************************************************************************)
(* The invariant: what holds of a session beside its types.                *)
(***************************************************************************)
\* Only a grant about to be renamed can be overtaken, and then its session's
\* files were changed by others.
Overtaken(s) == s \in stale => pc[s] = "rename" /\ s \in raced
\* What append_rule_line read is text, and still there unless overtaken.
Current(s) ==
  pc[s] = "rename" => Readable(body[s]) /\ (s \notin stale => body[s] = file[scope[s]])
\* Only behind a grant is there an outcome.
Quiet(s) == outcome[s] # "none" => pc[s] = "reload" /\ scope[s] \in {"workspace", s}
\* What a grant reports of its call is what the files say, unless it is overruled.
Holds(s) ==
  \/ Judge(Layers(s), call[s]) = Reported(s)
  \/ Judge(Layers(s), call[s]) # "pending" /\ Overruled(s)
InForce(s) ==
  (pc[s] = "reload" /\ s \notin raced /\ outcome[s] \notin {"none", "failed"}
   /\ call[s].spelled = call[s].of)
    => Holds(s)

Relies(s) == Overtaken(s) /\ Current(s) /\ Quiet(s) /\ InForce(s)
IInv == TypeOK /\ \A s \in Sessions : Relies(s)

LEMMA LayersTyped == ASSUME TypeOK, NEW s \in Sessions PROVE Layers(s) \in Seq(Line)
<1>1. file["workspace"] \in Seq(Line) /\ file[s] \in Seq(Line)  BY DEF TypeOK, Scopes
<1>2. Rules(file["workspace"]) \in Seq(Line) /\ Rules(file[s]) \in Seq(Line)  BY <1>1, RulesTyped
<1> QED  BY <1>2 DEF Layers

LEMMA InitTypes == Init => TypeOK
<1> SUFFICES ASSUME Init PROVE TypeOK  OBVIOUS
<1>1. (CHOOSE c \in Calls : TRUE) \in Calls  BY PermissionsAssumption
<1> QED  BY <1>1, PermissionsAssumption DEF Init, TypeOK

LEMMA InitRelies == ASSUME Init, NEW s \in Sessions PROVE Relies(s)
<1>1. pc[s] = "off" /\ outcome[s] = "none" /\ s \notin stale  BY DEF Init
<1> QED  BY <1>1 DEF Relies, Overtaken, Current, Quiet, InForce

-----------------------------------------------------------------------------
(***************************************************************************)
(* Types.                                                                  *)
(***************************************************************************)
LEMMA EditTyped ==
  ASSUME NEW a \in Seq(Line), NEW i \in DOMAIN a PROVE RemoveAt(a, i) \in Seq(Line)
<1>1. i \in 1 .. Len(a) /\ Len(a) \in Nat  OBVIOUS
<1>2. SubSeq(a, 1, i - 1) \in Seq(Line)  BY <1>1
<1>3. SubSeq(a, i + 1, Len(a)) \in Seq(Line)  BY <1>1
<1> QED  BY <1>2, <1>3 DEF RemoveAt

LEMMA TypesKept == TypeOK /\ [Next]_vars => TypeOK'
<1> SUFFICES ASSUME TypeOK, [Next]_vars PROVE TypeOK'  OBVIOUS
<1> USE PermissionsAssumption
<1>1. ASSUME NEW s \in Sessions, Tell(s) PROVE TypeOK'
  <2>1. Layers(s) \in Seq(Line)  BY LayersTyped
  <2> QED  BY <1>1, <2>1 DEF Tell, Load, TypeOK
<1>2. ASSUME NEW s \in Sessions, Exit(s) PROVE TypeOK'  BY <1>2 DEF Exit, Gone, Goes, TypeOK
<1>3. ASSUME NEW s \in Sessions, NEW c \in Calls, Park(s, c) PROVE TypeOK'
  BY <1>3 DEF Park, Gone, Goes, TypeOK
<1>4. ASSUME NEW s \in Sessions, NEW x \in {"oneshot", "workspace", s}, Approve(s, x) PROVE TypeOK'
  <2>1. Layers(s) \in Seq(Line)  BY LayersTyped
  <2> QED  BY <1>4, <2>1 DEF Approve, Load, Goes, TypeOK, Scopes
<1>15. ASSUME NEW s \in Sessions, Executed(s) PROVE TypeOK'  BY <1>15 DEF Executed, Goes, TypeOK
<1>5. ASSUME NEW s \in Sessions, AlreadyThere(s) PROVE TypeOK'
  BY <1>5 DEF AlreadyThere, Settled, Goes, TypeOK
<1>6. ASSUME NEW s \in Sessions, NotThere(s) PROVE TypeOK'  BY <1>6 DEF NotThere, Goes, TypeOK
<1>7. ASSUME NEW s \in Sessions, ReadBody(s) PROVE TypeOK'
  <2>1. file[scope[s]] \in Seq(Line)  BY <1>7 DEF ReadBody, Goes, TypeOK, Scopes
  <2> QED  BY <1>7, <2>1 DEF ReadBody, Goes, TypeOK
<1>8. ASSUME NEW s \in Sessions, ReadFails(s) PROVE TypeOK'
  BY <1>8 DEF ReadFails, Settled, Goes, TypeOK
<1>9. ASSUME NEW s \in Sessions, Rename(s) PROVE TypeOK'
  <2>1. Granted(call[s]) \in Line  BY GrantedIsRule DEF TypeOK
  <2>2. Append(body[s], Granted(call[s])) \in Seq(Line)  BY <2>1 DEF TypeOK
  <2> DEFINE lines == Append(body[s], Granted(call[s]))
  <2>3. file' = [file EXCEPT ![scope[s]] = lines]  BY <1>9 DEF Rename, Change
  <2> HIDE DEF lines
  <2>4. file' \in [Scopes -> Seq(Line)]  BY <2>2, <2>3 DEF TypeOK, lines
  <2>5. raced' \subseteq Sessions /\ stale' \subseteq Sessions
    BY <1>9 DEF Rename, Change, Readers, Appending, TypeOK, Goes, Scopes
  <2> QED  BY <1>9, <2>4, <2>5 DEF Rename, Goes, TypeOK
<1>10. ASSUME NEW s \in Sessions, WriteFails(s) PROVE TypeOK'
  BY <1>10 DEF WriteFails, Settled, Goes, TypeOK
<1>11. ASSUME NEW s \in Sessions, Reload(s) PROVE TypeOK'
  <2>1. Layers(s) \in Seq(Line)  BY LayersTyped
  <2> QED  BY <1>11, <2>1 DEF Reload, Load, Forget, Goes, TypeOK
<1>12. ASSUME NEW s \in Sessions, Crash(s) PROVE TypeOK'  BY <1>12 DEF Crash, Gone, Forget, TypeOK
<1>13. ASSUME NEW x \in Scopes, Edit(x) PROVE TypeOK'
  <2>1. PICK lines \in {Append(file[x], l) : l \in HandWritten}
                       \cup {RemoveAt(file[x], i) : i \in DOMAIN file[x]} : Change(x, lines, "nobody")
    BY <1>13 DEF Edit
  <2>2. file[x] \in Seq(Line)  BY DEF TypeOK
  <2>3. lines \in Seq(Line)
    <3>1. ASSUME NEW l \in HandWritten PROVE Append(file[x], l) \in Seq(Line)  BY <2>2 DEF Line
    <3> QED  BY <3>1, <2>2, EditTyped
  <2>4. file' \in [Scopes -> Seq(Line)]  BY <2>1, <2>3 DEF Change, TypeOK
  <2>5. raced' \subseteq Sessions /\ stale' \subseteq Sessions
    BY <2>1 DEF Change, Readers, Appending, TypeOK, Scopes
  <2> QED  BY <1>13, <2>4, <2>5 DEF Edit, process, TypeOK
<1>14. CASE UNCHANGED vars  BY <1>14 DEF vars, process, TypeOK
<1> QED
  BY <1>1, <1>2, <1>3, <1>4, <1>5, <1>6, <1>7, <1>8, <1>9, <1>10, <1>11, <1>12, <1>13, <1>14, <1>15
  DEF Next, Grant

-----------------------------------------------------------------------------
(***************************************************************************)
(* What a session relies on is kept: first by the steps of others, then by *)
(* each of its own.                                                        *)
(***************************************************************************)
\* Nothing of the process of t changes.
Rests(t) ==
  /\ pc'[t] = pc[t] /\ call'[t] = call[t] /\ scope'[t] = scope[t]
  /\ body'[t] = body[t] /\ outcome'[t] = outcome[t]

LEMMA HoldsKept ==
  ASSUME NEW t \in Sessions, Holds(t), Rests(t), Layers(t)' = Layers(t),
         file'[t] = file[t], file'[scope[t]] = file[scope[t]]
  PROVE  Holds(t)'
<1>1. Target(t)' = Target(t) /\ Rules(file'[t]) = Rules(file[t])
  BY DEF Target, Rests
<1>2. call'[t] = call[t] /\ outcome'[t] = outcome[t] /\ scope'[t] = scope[t]
  BY DEF Rests
<1>3. Existing(t)' = Existing(t)
  BY <1>1, <1>2 DEF Existing
<1>4. \A r : Contradicts(r, t)' <=> Contradicts(r, t)
  BY <1>2 DEF Contradicts
<1>5. Overruled(t)' <=> Overruled(t)
  BY <1>1, <1>2, <1>3, <1>4 DEF Overruled
<1>6. Reported(t)' = Reported(t)
  BY <1>2 DEF Reported
<1> QED  BY <1>2, <1>5, <1>6 DEF Holds

LEMMA RestsAlone ==
  ASSUME NEW t \in Sessions, Relies(t), Rests(t), file' = file,
         t \in raced' <=> t \in raced, t \in stale' <=> t \in stale
  PROVE  Relies(t)'
<1>1. Layers(t)' = Layers(t)  BY DEF Layers
<1>2. Holds(t) => Holds(t)'
  BY <1>1, HoldsKept
<1> QED
  BY <1>1, <1>2 DEF Relies, Rests, Overtaken, Current, Quiet, InForce

LEMMA RestsOvertaken ==
  ASSUME TypeOK, NEW t \in Sessions, NEW x \in Scopes, NEW lines, NEW s,
         Relies(t), Rests(t), Change(x, lines, s), t # s
  PROVE  Relies(t)'
<1> USE PermissionsAssumption
<1>1. /\ file' = [file EXCEPT ![x] = lines]
      /\ t \in raced' <=> t \in raced \/ t \in Readers(x)
      /\ t \in stale' <=> t \in stale \/ t \in Appending(x)
  BY DEF Change
<1>2. t \in Appending(x) <=> pc[t] = "rename" /\ scope[t] = x  BY DEF Appending
<1>3. pc[t] = "rename" => scope[t] \in {"workspace", t}  BY DEF TypeOK
<1>4. t \in Appending(x) => t \in Readers(x)  BY <1>2, <1>3 DEF Readers
<1>5. Overtaken(t)'  BY <1>1, <1>2, <1>4 DEF Relies, Overtaken, Rests
<1>6. Current(t)'
  <2>1. scope[t] # x => file'[scope[t]] = file[scope[t]]
    <3>1. DOMAIN file = Scopes  BY DEF TypeOK
    <3>2. scope[t] \in Scopes \/ scope[t] = "oneshot"  BY DEF TypeOK
    <3> QED  BY <1>1, <3>1, <3>2
  <2> QED  BY <1>1, <1>2, <2>1 DEF Relies, Current, Rests
<1>7. t \notin raced' => Layers(t)' = Layers(t)
  <2>1. t \notin Readers(x) => x # "workspace" /\ x # t  BY DEF Readers
  <2>2. x # "workspace" /\ x # t => file'["workspace"] = file["workspace"] /\ file'[t] = file[t]
    BY <1>1 DEF TypeOK, Scopes
  <2> QED  BY <1>1, <2>1, <2>2 DEF Layers
<1>8. t \notin raced' => t \notin raced  BY <1>1
<1>9. Quiet(t)'  BY DEF Relies, Quiet, Rests
<1>10. ASSUME t \notin raced', outcome[t] # "none", Holds(t) PROVE Holds(t)'
  <2>1. x # "workspace" /\ x # t
    BY <1>1, <1>10 DEF Readers
  <2>2. scope[t] \in {"workspace", t}
    BY <1>10 DEF Relies, Quiet
  <2>3. file'[t] = file[t] /\ file'[scope[t]] = file[scope[t]]
    BY <1>1, <2>1, <2>2 DEF TypeOK, Scopes
  <2> QED  BY <1>7, <1>10, <2>3, HoldsKept
<1>11. InForce(t)'
  <2> SUFFICES ASSUME pc[t] = "reload", t \notin raced', outcome[t] \notin {"none", "failed"},
                      call[t].spelled = call[t].of
               PROVE  Holds(t)'
    BY DEF InForce, Rests
  <2>1. Holds(t)
    BY <1>8 DEF Relies, InForce
  <2> QED  BY <1>10, <2>1
<1> QED  BY <1>5, <1>6, <1>9, <1>11 DEF Relies

LEMMA TellRelies == ASSUME TypeOK, NEW s \in Sessions, Relies(s), Tell(s) PROVE Relies(s)'
<1>1. pc[s] \in {"off", "parked"} /\ pc'[s] = "live" /\ s \notin stale'
  BY DEF Tell, TypeOK, Relies, Overtaken
<1> QED  BY <1>1 DEF Tell, Relies, Overtaken, Current, Quiet, InForce

LEMMA ParkRelies ==
  ASSUME TypeOK, NEW s \in Sessions, NEW c \in Calls, Relies(s), Park(s, c) PROVE Relies(s)'
<1>1. pc[s] = "live" /\ pc'[s] = "parked"
  BY DEF Park, Goes, TypeOK
<1> QED
  BY <1>1 DEF Park, Relies, Overtaken, Current, Quiet, InForce

LEMMA ApproveRelies ==
  ASSUME TypeOK, NEW s \in Sessions, NEW x, Relies(s), Approve(s, x) PROVE Relies(s)'
<1>1. pc[s] = "parked" /\ pc'[s] = "run"
  BY DEF Approve, Goes, TypeOK
<1> QED
  BY <1>1 DEF Approve, Relies, Overtaken, Current, Quiet, InForce

LEMMA ExecutedRelies ==
  ASSUME TypeOK, NEW s \in Sessions, Relies(s), Executed(s) PROVE Relies(s)'
<1>1. pc[s] = "run" /\ pc'[s] \in {"reload", "check"}
  BY DEF Executed, Goes, TypeOK
<1> QED
  BY <1>1 DEF Executed, Relies, Overtaken, Current, Quiet, InForce

\* The rules of the file that was looked at decide the call, and the one that was
\* found says what is reported.
LEMMA AlreadyThereRelies ==
  ASSUME TypeOK, NEW s \in Sessions, Relies(s), AlreadyThere(s) PROVE Relies(s)'
<1> USE PermissionsAssumption
<1>1. /\ pc[s] = "check" /\ pc'[s] = "reload" /\ s \notin stale' /\ scope'[s] = scope[s]
      /\ scope[s] \in {"workspace", s} /\ file' = file /\ call' = call
      /\ outcome'[s] = IF FirstAllows(s) THEN "already" ELSE "conflict"
  BY DEF AlreadyThere, Settled, Goes, TypeOK
<1> DEFINE a == Rules(file["workspace"])
           b == Rules(file[s])
           c == call[s]
           v == outcome'[s] = "already"
<1>2. a \in Seq(Line) /\ b \in Seq(Line) /\ c \in Calls /\ Target(s) \in Seq(Line)
      /\ Target(s) = IF scope[s] = "workspace" THEN a ELSE b
  BY <1>1, RulesTyped DEF TypeOK, Scopes, Target
<1>3. Layers(s)' = a \o b /\ Target(s)' = Target(s) /\ Existing(s)' = Existing(s)
  BY <1>1 DEF Layers, Target, Existing
<1>4. Reported(s)' = (IF v THEN "allow" ELSE "deny") /\ v \in BOOLEAN
      /\ (outcome'[s] = "conflict" <=> ~v) /\ outcome'[s] # "appended"
  BY <1>1 DEF Reported
<1>5. ASSUME c.spelled = c.of PROVE Holds(s)'
  <2>1. PICK i \in Existing(s) : \A j \in Existing(s) : i <= j
    <3>1. Existing(s) # {} /\ Existing(s) \subseteq Nat
      BY <1>2 DEF AlreadyThere, Existing
    <3>2. PICK i \in Existing(s) : \A j \in Existing(s) : ~(<<j, i>> \in OpToRel(<, Nat))
      BY <3>1, NatLessThanWellFounded, WFMin, Zenon
    <3>3. \A j \in Existing(s) : ~(j < i)
      BY <3>1, <3>2 DEF OpToRel
    <3> QED  BY <3>1, <3>3
  <2>2. i \in DOMAIN Target(s) /\ Matches(Target(s)[i], c)
    <3>1. i \in DOMAIN Target(s) /\ SameMatcher(Target(s)[i], Granted(c))
      BY <2>1 DEF Existing
    <3> QED  BY <1>2, <1>5, <3>1, SameMatches
  <2>3. (Target(s)[i]).allow = v
    <3>1. FirstAllows(s) <=> Target(s)[i].allow
      <4>1. ASSUME NEW k \in Existing(s), Target(s)[k].allow, \A j \in Existing(s) : k <= j
            PROVE  k = i
        BY <2>1, <4>1, <1>2 DEF Existing
      <4> QED  BY <2>1, <4>1 DEF FirstAllows
    <3>2. Target(s)[i].allow \in BOOLEAN
      <4>1. Target(s)[i] \in Line /\ Target(s)[i].kind \in Kinds
        BY <1>2, <2>2 DEF Matches, Asked
      <4> QED  BY <4>1 DEF Line, WellFormed
    <3> QED  BY <1>1, <3>1, <3>2
  <2> HIDE DEF a, b, c, v
  <2>5. Judge(a \o b, c) = IF Judge(b, c) = "pending" THEN Judge(a, c) ELSE Judge(b, c)
    BY <1>2, JudgeStacked
  <2> DEFINE Said == IF v THEN "allow" ELSE "deny"
  <2>6. /\ Judge(Target(s), c) # "pending"
        /\ Judge(Target(s), c) # Said => Overruled(s)'
    <3>1. /\ Judge(Target(s), c) # "pending"
          /\ Judge(Target(s), c) # Said
               => \E j \in DOMAIN Target(s) :
                    /\ Matches(Target(s)[j], c) /\ NoneAfter(Target(s), c, j)
                    /\ Target(s)[j].allow = ~v
      BY <1>2, <1>4, <2>2, LastDecides
    <3>2. ASSUME NEW j \in DOMAIN Target(s), Matches(Target(s)[j], c), NoneAfter(Target(s), c, j),
                 Target(s)[j].allow = ~v
          PROVE  Overruled(s)'
      <4>1. ~(i > j)
        BY <2>2, <3>2 DEF NoneAfter
      <4>2. i # j
        BY <2>3, <3>2, <1>4
      <4>3. i < j
        BY <1>2, <2>2, <4>1, <4>2
      <4>4. Contradicts(Target(s)[j], s)'
        <5>1. Matches(Target(s)'[j], call'[s]) /\ (Target(s)'[j]).allow = ~v
          BY <1>1, <1>3, <3>2 DEF c
        <5> QED  BY <1>4, <5>1 DEF Contradicts
      <4> QED  BY <1>3, <1>4, <2>1, <4>3, <4>4 DEF Overruled
    <3> QED  BY <3>1, <3>2
  <2>7. CASE scope[s] # "workspace"
    BY <1>1, <1>2, <1>3, <1>4, <2>5, <2>6, <2>7 DEF Holds, c
  <2>8. CASE scope[s] = "workspace" /\ Judge(b, c) = "pending"
    BY <1>1, <1>2, <1>3, <1>4, <2>5, <2>6, <2>8 DEF Holds, c
  <2>9. CASE scope[s] = "workspace" /\ Judge(b, c) # "pending"
    <3>1. PICK k \in DOMAIN b : Matches(b[k], c)
      BY <2>9 DEF Judge, NoneAfter
    <3>2. Judge(b, c) # Said =>
            \E j \in DOMAIN b : Matches(b[j], c) /\ NoneAfter(b, c, j) /\ b[j].allow = ~v
      BY <1>2, <1>4, <3>1, LastDecides
    <3>3. ASSUME NEW j \in DOMAIN b, Matches(b[j], c), b[j].allow = ~v PROVE Overruled(s)'
      <4> DEFINE e == Rules(file'[s])
      <4>1. e = b /\ e[j] \in ToSet(e)
        BY <1>1, <3>3 DEF b, ToSet
      <4>2. Matches(e[j], call'[s]) /\ e[j].allow = (outcome'[s] = "conflict")
        BY <1>1, <1>4, <3>3, <4>1 DEF c
      <4>3. \E r \in ToSet(e) : Matches(r, call'[s]) /\ r.allow = (outcome'[s] = "conflict")
        BY <4>1, <4>2
      <4> QED  BY <1>1, <2>9, <4>3 DEF Overruled, Contradicts
    <3> QED  BY <1>1, <1>3, <1>4, <2>5, <2>9, <3>2, <3>3 DEF Holds, c
  <2> QED  BY <2>7, <2>8, <2>9
<1>6. InForce(s)'  BY <1>1, <1>5 DEF InForce
<1>7. Quiet(s)'  BY <1>1 DEF Quiet
<1> QED  BY <1>1, <1>6, <1>7 DEF Relies, Overtaken, Current

LEMMA ReadBodyRelies ==
  ASSUME TypeOK, NEW s \in Sessions, Relies(s), ReadBody(s) PROVE Relies(s)'
<1>1. Layers(s)' = Layers(s) /\ pc[s] = "body" /\ pc'[s] = "rename" /\ body'[s] = file[scope[s]]
  BY DEF ReadBody, Goes, TypeOK, Layers
<1> QED
  BY <1>1 DEF ReadBody, Relies, Overtaken, Current, Quiet, InForce

\* Steps that end without a grant, or leave the grant where it is.
LEMMA QuietRelies ==
  ASSUME TypeOK, NEW s \in Sessions, Relies(s),
         Exit(s) \/ NotThere(s) \/ ReadFails(s) \/ WriteFails(s) \/ Reload(s) \/ Crash(s)
  PROVE  Relies(s)'
<1>1. Layers(s)' = Layers(s)
  BY DEF Exit, NotThere, ReadFails, WriteFails, Reload, Crash, Layers
<1>2. CASE Exit(s)
  BY <1>1, <1>2 DEF Exit, Goes, TypeOK, Relies, Overtaken, Current, Quiet, InForce
<1>3. CASE NotThere(s)
  BY <1>1, <1>3 DEF NotThere, Goes, TypeOK, Relies, Overtaken, Current, Quiet, InForce
<1>4. CASE ReadFails(s)
  BY <1>1, <1>4 DEF ReadFails, Settled, Goes, TypeOK, Relies, Overtaken, Current, Quiet, InForce
<1>5. CASE WriteFails(s)
  BY <1>1, <1>5 DEF WriteFails, Settled, Goes, TypeOK, Relies, Overtaken, Current, Quiet, InForce
<1>6. CASE Reload(s)
  BY <1>6 DEF Reload, Forget, Goes, TypeOK, Relies, Overtaken, Current, Quiet, InForce
<1>7. CASE Crash(s)
  BY <1>1, <1>7 DEF Crash, Forget, TypeOK, Relies, Overtaken, Current, Quiet, InForce
<1> QED  BY <1>2, <1>3, <1>4, <1>5, <1>6, <1>7

\* What the rename of a grant does to the rules of every session.
LEMMA RenameLayers ==
  ASSUME TypeOK, NEW s \in Sessions, Relies(s), Rename(s), s \notin stale, NEW t \in Sessions
  PROVE  LET g == Granted(call[s])
             W == Rules(file["workspace"])
             F == Rules(file[t])
         IN  /\ scope[s] \in {"workspace", s}
             /\ W \in Seq(Line) /\ F \in Seq(Line) /\ g \in Line /\ g.allow = TRUE
             /\ Layers(t)' = IF scope[s] = "workspace" THEN Append(W, g) \o F
                             ELSE IF t = s THEN W \o Append(F, g) ELSE W \o F
<1> USE PermissionsAssumption
<1> DEFINE g == Granted(call[s])
           W == Rules(file["workspace"])
           F == Rules(file[t])
           x == scope[s]
<1>1. pc[s] = "rename" /\ x \in {"workspace", s}  BY DEF Rename, Goes, TypeOK
<1>2. g \in Line /\ g.allow = TRUE /\ g # Bytes  BY GrantedIsRule DEF TypeOK
<1>3. body[s] = file[x] /\ Readable(file[x]) /\ file[x] \in Seq(Line)
  BY <1>1 DEF Relies, Current, TypeOK, Scopes
<1>4. file' = [file EXCEPT ![x] = Append(file[x], g)]  BY <1>3 DEF Rename, Change
<1>5. Rules(Append(file[x], g)) = Append(Rules(file[x]), g)  BY <1>2, <1>3, RulesAppended
<1>6. W \in Seq(Line) /\ F \in Seq(Line)  BY RulesTyped DEF TypeOK, Scopes
<1>7. DOMAIN file = Scopes  BY DEF TypeOK
<1>8. CASE x = "workspace"
  <2>1. file'["workspace"] = Append(file["workspace"], g) /\ file'[t] = file[t]
    BY <1>4, <1>7, <1>8 DEF Scopes
  <2>2. Rules(file'["workspace"]) = Append(W, g) /\ Rules(file'[t]) = F
    BY <2>1, <1>5, <1>8
  <2> QED  BY <2>2, <1>1, <1>2, <1>6, <1>8 DEF Layers
<1>9. CASE x = s /\ t = s
  <2>1. file'["workspace"] = file["workspace"] /\ file'[t] = Append(file[t], g) /\ x # "workspace"
    BY <1>4, <1>7, <1>9 DEF Scopes
  <2>2. Rules(file'["workspace"]) = W /\ Rules(file'[t]) = Append(F, g)
    BY <2>1, <1>5, <1>9
  <2> QED  BY <2>1, <2>2, <1>1, <1>2, <1>6, <1>9 DEF Layers
<1>10. CASE x = s /\ t # s
  <2>1. file'["workspace"] = file["workspace"] /\ file'[t] = file[t] /\ x # "workspace"
    BY <1>4, <1>7, <1>10 DEF Scopes
  <2>2. Rules(file'["workspace"]) = W /\ Rules(file'[t]) = F
    BY <2>1
  <2> QED  BY <2>1, <2>2, <1>1, <1>2, <1>6, <1>10 DEF Layers
<1> QED  BY <1>1, <1>8, <1>9, <1>10

LEMMA RenameRelies ==
  ASSUME TypeOK, NEW s \in Sessions, Relies(s), Rename(s) PROVE Relies(s)'
<1> USE PermissionsAssumption
<1> DEFINE c == call[s]
           g == Granted(call[s])
           W == Rules(file["workspace"])
           F == Rules(file[s])
           Wg == Append(W, g)
           Fg == Append(F, g)
<1>1. /\ pc[s] = "rename" /\ pc'[s] = "reload" /\ outcome'[s] = "appended" /\ s \notin stale'
      /\ s \in raced' <=> s \in raced
      /\ call' = call
  BY DEF Rename, Goes, Change, TypeOK
<1>2. ASSUME s \notin raced, c.spelled = c.of PROVE Holds(s)'
  <2>1. s \notin stale  BY <1>2 DEF Relies, Overtaken
  <2>2. /\ scope[s] \in {"workspace", s}
        /\ W \in Seq(Line) /\ F \in Seq(Line) /\ g \in Line /\ g.allow = TRUE
        /\ Layers(s)' = IF scope[s] = "workspace" THEN Wg \o F ELSE W \o Fg
    BY <2>1, RenameLayers
  <2>3. Matches(g, c)
    <3>1. SameMatcher(g, Granted(c))  BY DEF SameMatcher
    <3> QED  BY <3>1, <1>2, SameMatches DEF TypeOK
  <2>4. Reported(s)' = "allow" /\ c \in Calls
    BY <1>1 DEF Reported, TypeOK
  <2>5. scope[s] = "workspace" => Rules(file'[s]) = F
    <3>1. scope[s] = "workspace" => file'[s] = file[s]
      BY DEF Rename, Change, TypeOK, Scopes
    <3> QED  BY <3>1
  <2> HIDE DEF c, g, W, F
  <2>6. /\ Judge(Wg, c) = "allow" /\ Judge(Fg, c) = "allow"
        /\ Wg \in Seq(Line) /\ Fg \in Seq(Line)
    <3>1. Judge(Wg, c) = IF Matches(g, c) THEN "allow" ELSE Judge(W, c)
      BY <2>2, JudgeAppended
    <3>2. Judge(Fg, c) = IF Matches(g, c) THEN "allow" ELSE Judge(F, c)
      BY <2>2, JudgeAppended
    <3> QED  BY <2>2, <2>3, <3>1, <3>2
  <2> HIDE DEF Wg, Fg
  <2>7. Judge(Wg \o F, c)
            = IF Judge(F, c) = "pending" THEN Judge(Wg, c) ELSE Judge(F, c)
    BY <2>2, <2>6, JudgeStacked
  <2>8. Judge(W \o Fg, c) = "allow"
    <3>1. Judge(W \o Fg, c)
            = IF Judge(Fg, c) = "pending" THEN Judge(W, c) ELSE Judge(Fg, c)
      BY <2>2, <2>6, JudgeStacked
    <3> QED  BY <3>1, <2>6
  <2>9. CASE scope[s] # "workspace"
    BY <1>1, <2>2, <2>4, <2>8, <2>9 DEF Holds, c
  <2>10. CASE scope[s] = "workspace" /\ Judge(F, c) = "pending"
    BY <1>1, <2>2, <2>4, <2>6, <2>7, <2>10 DEF Holds, c
  <2>11. CASE scope[s] = "workspace" /\ Judge(F, c) # "pending"
    <3>1. PICK k \in DOMAIN F : Matches(F[k], c)
      BY <2>11 DEF Judge, NoneAfter
    <3>2. Judge(F, c) # "allow" =>
            \E j \in DOMAIN F : Matches(F[j], c) /\ NoneAfter(F, c, j) /\ F[j].allow = FALSE
      <4>1. TRUE \in BOOLEAN  OBVIOUS
      <4>2. Judge(F, c) # (IF TRUE THEN "allow" ELSE "deny") =>
              \E j \in DOMAIN F : Matches(F[j], c) /\ NoneAfter(F, c, j) /\ F[j].allow = ~TRUE
        BY <2>2, <2>4, <3>1, <4>1, LastDecides
      <4> QED  BY <4>2
    <3>3. ASSUME NEW j \in DOMAIN F, Matches(F[j], c), F[j].allow = FALSE PROVE Overruled(s)'
      <4> DEFINE e == Rules(file'[s])
      <4>1. e = F /\ e[j] \in ToSet(e) /\ scope'[s] = "workspace"
        BY <2>5, <2>11, <3>3 DEF ToSet, Rename
      <4>2. Matches(e[j], call'[s]) /\ e[j].allow = (outcome'[s] = "conflict")
        BY <1>1, <3>3, <4>1 DEF c
      <4>3. \E r \in ToSet(e) : Matches(r, call'[s]) /\ r.allow = (outcome'[s] = "conflict")
        BY <4>1, <4>2
      <4> QED  BY <4>1, <4>3 DEF Overruled, Contradicts
    <3> QED  BY <1>1, <2>2, <2>4, <2>7, <2>11, <3>2, <3>3 DEF Holds, c
  <2> QED  BY <2>9, <2>10, <2>11
<1>3. InForce(s)'  BY <1>1, <1>2 DEF InForce
<1>4. Quiet(s)'  BY <1>1 DEF Quiet, Rename, TypeOK
<1> QED  BY <1>1, <1>3, <1>4 DEF Relies, Overtaken, Current

-----------------------------------------------------------------------------
(***************************************************************************)
(* The invariant is inductive.                                             *)
(***************************************************************************)
\* Of a step of session s, what another session sees.
LEMMA OthersRely ==
  ASSUME IInv, NEW s \in Sessions, NEW t \in Sessions, t # s,
         \/ Tell(s) \/ Exit(s) \/ Grant(s) \/ Crash(s)
         \/ (\E c \in Calls : Park(s, c))
         \/ \E x \in {"oneshot", "workspace", s} : Approve(s, x)
  PROVE  Relies(t)'
<1> USE PermissionsAssumption
<1>1. TypeOK /\ Relies(t)  BY DEF IInv
<1>2. CASE Rename(s)
  <2>1. Rests(t)  BY <1>1, <1>2 DEF Rename, Goes, Rests, TypeOK
  <2>2. scope[s] \in Scopes  BY <1>1, <1>2 DEF Rename, Goes, TypeOK, Scopes
  <2>3. Change(scope[s], Append(body[s], Granted(call[s])), s)  BY <1>2 DEF Rename
  <2> QED  BY <1>1, <2>1, <2>2, <2>3, RestsOvertaken
<1>3. CASE ~Rename(s)
  <2>1. Rests(t) /\ file' = file /\ (t \in raced' <=> t \in raced) /\ (t \in stale' <=> t \in stale)
    <3>1. CASE Tell(s)  BY <1>1, <3>1 DEF Tell, Rests, TypeOK
    <3>12. CASE Executed(s)  BY <1>1, <3>12 DEF Executed, Goes, Rests, TypeOK
    <3>2. CASE Exit(s)  BY <1>1, <3>2 DEF Exit, Goes, Rests, TypeOK
    <3>3. CASE Crash(s)  BY <1>1, <3>3 DEF Crash, Forget, Rests, TypeOK
    <3>4. CASE \E c \in Calls : Park(s, c)  BY <1>1, <3>4 DEF Park, Goes, Rests, TypeOK
    <3>5. CASE \E x \in {"oneshot", "workspace", s} : Approve(s, x)
      BY <1>1, <3>5 DEF Approve, Goes, Rests, TypeOK
    <3>6. CASE AlreadyThere(s)  BY <1>1, <3>6 DEF AlreadyThere, Settled, Goes, Rests, TypeOK
    <3>7. CASE NotThere(s)  BY <1>1, <3>7 DEF NotThere, Goes, Rests, TypeOK
    <3>8. CASE ReadBody(s)  BY <1>1, <3>8 DEF ReadBody, Goes, Rests, TypeOK
    <3>9. CASE ReadFails(s)  BY <1>1, <3>9 DEF ReadFails, Settled, Goes, Rests, TypeOK
    <3>10. CASE WriteFails(s)  BY <1>1, <3>10 DEF WriteFails, Settled, Goes, Rests, TypeOK
    <3>11. CASE Reload(s)  BY <1>1, <3>11 DEF Reload, Forget, Goes, Rests, TypeOK
    <3> QED
      BY <1>3, <3>1, <3>2, <3>3, <3>4, <3>5, <3>6, <3>7, <3>8, <3>9, <3>10, <3>11, <3>12 DEF Grant
  <2> QED  BY <1>1, <2>1, RestsAlone
<1> QED  BY <1>2, <1>3

LEMMA OwnRely ==
  ASSUME IInv, NEW s \in Sessions,
         \/ Tell(s) \/ Exit(s) \/ Grant(s) \/ Crash(s)
         \/ (\E c \in Calls : Park(s, c))
         \/ \E x \in {"oneshot", "workspace", s} : Approve(s, x)
  PROVE  Relies(s)'
<1>1. TypeOK /\ Relies(s)  BY DEF IInv
<1> QED
  BY <1>1, TellRelies, ParkRelies, ApproveRelies, ExecutedRelies, AlreadyThereRelies, ReadBodyRelies, RenameRelies,
     QuietRelies DEF Grant

LEMMA StepRelies == IInv /\ [Next]_vars => IInv'
<1> SUFFICES ASSUME IInv, [Next]_vars PROVE IInv'  OBVIOUS
<1>1. TypeOK /\ TypeOK'  BY TypesKept DEF IInv
<1>2. ASSUME NEW t \in Sessions PROVE Relies(t)'
  <2>1. Relies(t)  BY DEF IInv
  <2>2. ASSUME NEW s \in Sessions,
               \/ Tell(s) \/ Exit(s) \/ Grant(s) \/ Crash(s)
               \/ (\E c \in Calls : Park(s, c))
               \/ \E x \in {"oneshot", "workspace", s} : Approve(s, x)
        PROVE  Relies(t)'
    BY <2>2, OthersRely, OwnRely
  <2>3. ASSUME NEW x \in Scopes, Edit(x) PROVE Relies(t)'
    <3>1. \E lines : Change(x, lines, "nobody")  BY <2>3 DEF Edit
    <3>2. Rests(t) /\ t # "nobody"  BY <2>3, PermissionsAssumption DEF Edit, process, Rests
    <3> QED  BY <1>1, <2>1, <3>1, <3>2, RestsOvertaken
  <2>4. CASE UNCHANGED vars
    <3>1. Rests(t) /\ file' = file /\ (t \in raced' <=> t \in raced) /\ (t \in stale' <=> t \in stale)
      BY <2>4 DEF vars, process, Rests
    <3> QED  BY <2>1, <3>1, RestsAlone
  <2> QED  BY <2>2, <2>3, <2>4 DEF Next
<1> QED  BY <1>1, <1>2 DEF IInv

\* IInv holds in every state: what a process decides on rests on the files it read.
THEOREM Invariance == Spec => []IInv
<1>1. Init => IInv  BY InitTypes, InitRelies DEF IInv
<1> QED  BY <1>1, StepRelies, PTL DEF Spec

-----------------------------------------------------------------------------
(***************************************************************************)
(* What follows.                                                           *)
(***************************************************************************)
\* The types hold in every reachable state: in particular a grant is only ever
\* written to the workspace file or to its own session's.
THEOREM TypeCorrect == Spec => []TypeOK
<1>1. IInv => TypeOK  BY DEF IInv
<1> QED  BY <1>1, Invariance, PTL

\* A session's place changes by its own steps only.
LEMMA MovesItself ==
  ASSUME TypeOK, [Next]_vars, NEW s \in Sessions, pc'[s] # pc[s], pc[s] \in {"rename", "reload"}
  PROVE  Rename(s) \/ WriteFails(s) \/ Reload(s) \/ Crash(s)
<1>1. ASSUME NEW t \in Sessions, Tell(t) PROVE t = s /\ FALSE  BY <1>1 DEF Tell, TypeOK
<1>2. ASSUME NEW t \in Sessions, Exit(t) PROVE t = s /\ FALSE  BY <1>2 DEF Exit, Goes, TypeOK
<1>3. ASSUME NEW t \in Sessions, NEW c \in Calls, Park(t, c) PROVE t = s /\ FALSE
  BY <1>3 DEF Park, Goes, TypeOK
<1>4. ASSUME NEW t \in Sessions, NEW x, Approve(t, x) PROVE t = s /\ FALSE
  BY <1>4 DEF Approve, Goes, TypeOK
<1>5. ASSUME NEW t \in Sessions, AlreadyThere(t) PROVE t = s /\ FALSE
  BY <1>5 DEF AlreadyThere, Goes, TypeOK
<1>6. ASSUME NEW t \in Sessions, NotThere(t) PROVE t = s /\ FALSE  BY <1>6 DEF NotThere, Goes, TypeOK
<1>7. ASSUME NEW t \in Sessions, ReadBody(t) PROVE t = s /\ FALSE  BY <1>7 DEF ReadBody, Goes, TypeOK
<1>8. ASSUME NEW t \in Sessions, ReadFails(t) PROVE t = s /\ FALSE
  BY <1>8 DEF ReadFails, Goes, TypeOK
<1>9. ASSUME NEW t \in Sessions, Rename(t) PROVE t = s  BY <1>9 DEF Rename, Goes, TypeOK
<1>10. ASSUME NEW t \in Sessions, WriteFails(t) PROVE t = s  BY <1>10 DEF WriteFails, Goes, TypeOK
<1>11. ASSUME NEW t \in Sessions, Reload(t) PROVE t = s  BY <1>11 DEF Reload, Goes, TypeOK
<1>12. ASSUME NEW t \in Sessions, Crash(t) PROVE t = s  BY <1>12 DEF Crash, TypeOK
<1>13. ASSUME NEW x \in Scopes, Edit(x) PROVE FALSE  BY <1>13 DEF Edit, process
<1>15. ASSUME NEW t \in Sessions, Executed(t) PROVE t = s /\ FALSE
  BY <1>15 DEF Executed, Goes, TypeOK
<1>14. CASE UNCHANGED vars  BY <1>14 DEF vars, process
<1> QED
  BY <1>1, <1>2, <1>3, <1>4, <1>5, <1>6, <1>7, <1>8, <1>9, <1>10, <1>11, <1>12, <1>13, <1>14, <1>15
  DEF Next, Grant

\* What apply_grant reports of a call is what the rest of the invocation goes by, for
\* any files and however they were edited while the call waited and ran, unless a
\* rule that the grant does not look at overrules it.
THEOREM TakesEffect == Spec => GrantTakesEffect
<1>1. ASSUME IInv, [Next]_vars, NEW s \in Sessions,
             pc[s] = "reload", pc'[s] = "live", s \notin raced, outcome[s] \notin {"none", "failed"},
             call[s].spelled = call[s].of
      PROVE  \/ Judge(loaded'[s], call[s]) = Reported(s)
             \/ Judge(loaded'[s], call[s]) # "pending" /\ Overruled(s)
  <2>1. TypeOK /\ Relies(s)  BY <1>1 DEF IInv
  <2>2. Reload(s)
    <3>1. Rename(s) \/ WriteFails(s) \/ Reload(s) \/ Crash(s)  BY <1>1, <2>1, MovesItself
    <3>2. ~Rename(s) /\ ~WriteFails(s)  BY <1>1 DEF Rename, WriteFails, Goes
    <3>3. ~Crash(s)  BY <1>1, <2>1 DEF Crash, TypeOK
    <3> QED  BY <3>1, <3>2, <3>3
  <2>3. loaded'[s] = Layers(s)  BY <2>1, <2>2 DEF Reload, Load, TypeOK
  <2> QED  BY <1>1, <2>1, <2>3 DEF Relies, InForce, Holds
<1>2. IInv /\ [Next]_vars =>
        \A s \in Sessions :
          (pc[s] = "reload" /\ pc'[s] = "live" /\ s \notin raced
           /\ outcome[s] \notin {"none", "failed"} /\ call[s].spelled = call[s].of)
            => \/ Judge(loaded'[s], call[s]) = Reported(s)
               \/ Judge(loaded'[s], call[s]) # "pending" /\ Overruled(s)
  BY <1>1
<1> QED  BY <1>2, Invariance, PTL DEF Spec, GrantTakesEffect

\* No step but an edit by hand takes a line out of a file or moves one, unless a
\* grant was overtaken between its reading and its renaming.
THEOREM LinesStay == Spec => LinesSurvive
<1>1. ASSUME IInv, [Next]_vars, edits' = edits, NEW x \in Scopes
      PROVE  IsPrefix(file[x], file'[x]) \/ stale \cap Appending(x) # {}
  <2>1. TypeOK  BY <1>1 DEF IInv
  <2>2. file[x] \in Seq(Line)  BY <2>1 DEF TypeOK
  <2>3. IsPrefix(file[x], file[x])  BY <2>2 DEF IsPrefix
  <2>4. CASE file'[x] = file[x]  BY <2>3, <2>4
  <2>5. ASSUME NEW s \in Sessions, Rename(s)
        PROVE  IsPrefix(file[x], file'[x]) \/ stale \cap Appending(x) # {}
    <3>1. Relies(s) /\ pc[s] = "rename"  BY <1>1, <2>5 DEF IInv, Rename, Goes
    <3>2. CASE scope[s] # x  BY <3>2, <2>1, <2>3, <2>5 DEF Rename, Change, TypeOK
    <3>3. CASE scope[s] = x /\ s \in stale  BY <3>1, <3>3 DEF Appending
    <3>4. CASE scope[s] = x /\ s \notin stale
      <4> DEFINE a == file[x]
                 g == Granted(call[s])
      <4>1. file'[x] = Append(a, g)
        BY <3>1, <3>4, <2>1, <2>5 DEF Rename, Change, TypeOK, Relies, Current
      <4>2. g \in Line  BY <2>1, GrantedIsRule DEF TypeOK
      <4> HIDE DEF a, g
      <4>3. a \in Seq(Line)  BY <2>2 DEF a
      <4>4. Len(a) <= Len(Append(a, g)) /\ SubSeq(a, 1, Len(a)) = SubSeq(Append(a, g), 1, Len(a))
        BY <4>2, <4>3
      <4> QED  BY <4>1, <4>4 DEF IsPrefix, a
    <3> QED  BY <3>2, <3>3, <3>4
  <2>6. ASSUME NEW y \in Scopes, Edit(y) PROVE FALSE
    BY <1>1, <2>1, <2>6 DEF Edit, TypeOK
  <2>7. CASE file' = file  BY <2>4, <2>7
  <2>8. (\E s \in Sessions : Rename(s)) \/ (\E y \in Scopes : Edit(y)) \/ file' = file
    BY <1>1 DEF Next, vars, Grant, Tell, Exit, Park, Approve, Executed, AlreadyThere, NotThere, ReadBody,
                ReadFails, WriteFails, Reload, Crash
  <2> QED  BY <2>5, <2>6, <2>7, <2>8
<1>2. IInv /\ [Next]_vars =>
        (edits' = edits => \A x \in Scopes : IsPrefix(file[x], file'[x]) \/ stale \cap Appending(x) # {})
  BY <1>1
<1> QED  BY <1>2, Invariance, PTL DEF Spec, LinesSurvive

\* A grant changes judgements only to allow, only below its prefix, in another
\* session only through the workspace file and there never against its own rules.
THEOREM ReachesNoFurther == Spec => GrantReach
<1>1. ASSUME IInv, [Next]_vars, NEW s \in Sessions,
             pc[s] = "rename", file' # file, pc'[s] = "reload", s \notin stale,
             NEW t \in Sessions, NEW c \in Calls, Judge(Layers(t), c) # Judge(Layers(t)', c)
      PROVE  /\ Judge(Layers(t)', c) = "allow" /\ Matches(Granted(call[s]), c)
             /\ IF scope[s] = "workspace" THEN Judge(Rules(file[t]), c) = "pending" ELSE t = s
  <2>1. TypeOK /\ Relies(s)  BY <1>1 DEF IInv
  <2>2. Rename(s)
    <3>1. Rename(s) \/ WriteFails(s) \/ Reload(s) \/ Crash(s)  BY <1>1, <2>1, MovesItself
    <3>2. ~WriteFails(s) /\ ~Reload(s) /\ ~Crash(s)  BY <1>1 DEF WriteFails, Reload, Crash
    <3> QED  BY <3>1, <3>2
  <2> DEFINE g == Granted(call[s])
             W == Rules(file["workspace"])
             F == Rules(file[t])
             Wg == Append(W, g)
             Fg == Append(F, g)
  <2>3. /\ scope[s] \in {"workspace", s}
        /\ W \in Seq(Line) /\ F \in Seq(Line) /\ g \in Line /\ g.allow = TRUE
        /\ Layers(t)' = IF scope[s] = "workspace" THEN Wg \o F
                        ELSE IF t = s THEN W \o Fg ELSE W \o F
    BY <1>1, <2>1, <2>2, RenameLayers
  <2>4. Layers(t) = W \o F  BY DEF Layers
  <2> HIDE DEF g, W, F
  <2>5. /\ Judge(Wg, c) = IF Matches(g, c) THEN "allow" ELSE Judge(W, c)
        /\ Judge(Fg, c) = IF Matches(g, c) THEN "allow" ELSE Judge(F, c)
        /\ Wg \in Seq(Line) /\ Fg \in Seq(Line)
    <3>1. Judge(Wg, c) = IF Matches(g, c) THEN "allow" ELSE Judge(W, c)
      BY <2>3, JudgeAppended
    <3>2. Judge(Fg, c) = IF Matches(g, c) THEN "allow" ELSE Judge(F, c)
      BY <2>3, JudgeAppended
    <3> QED  BY <2>3, <3>1, <3>2
  <2> HIDE DEF Wg, Fg
  <2>6. Judge(W \o F, c) = IF Judge(F, c) = "pending" THEN Judge(W, c) ELSE Judge(F, c)
    BY <2>3, JudgeStacked
  <2>7. Judge(Wg \o F, c) = IF Judge(F, c) = "pending" THEN Judge(Wg, c) ELSE Judge(F, c)
    BY <2>3, <2>5, JudgeStacked
  <2>8. Judge(W \o Fg, c) = IF Judge(Fg, c) = "pending" THEN Judge(W, c) ELSE Judge(Fg, c)
    BY <2>3, <2>5, JudgeStacked
  <2>9. CASE scope[s] = "workspace"
    <3>1. Judge(Layers(t)', c) = Judge(Wg \o F, c)  BY <2>3, <2>9
    <3>2. Judge(F, c) = "pending" /\ Judge(Wg, c) # Judge(W, c)  BY <1>1, <2>4, <2>6, <2>7, <3>1
    <3> QED  BY <2>5, <2>7, <2>9, <3>1, <3>2 DEF g, F
  <2>10. CASE scope[s] # "workspace"
    <3>1. t = s  BY <1>1, <2>3, <2>4, <2>10
    <3>2. Judge(Layers(t)', c) = Judge(W \o Fg, c)  BY <2>3, <2>10, <3>1
    <3>3. Judge(Fg, c) # Judge(F, c)  BY <1>1, <2>4, <2>6, <2>8, <3>2
    <3> QED  BY <2>5, <2>8, <2>10, <3>1, <3>2, <3>3 DEF g
  <2> QED  BY <2>9, <2>10
<1>2. IInv /\ [Next]_vars =>
        \A s \in Sessions : (pc[s] = "rename" /\ file' # file /\ pc'[s] = "reload" /\ s \notin stale) =>
          \A t \in Sessions, c \in Calls :
            Judge(Layers(t), c) # Judge(Layers(t)', c) =>
              /\ Judge(Layers(t)', c) = "allow" /\ Matches(Granted(call[s]), c)
              /\ IF scope[s] = "workspace" THEN Judge(Rules(file[t]), c) = "pending" ELSE t = s
  BY <1>1
<1> QED  BY <1>2, Invariance, PTL DEF Spec, GrantReach
=============================================================================
