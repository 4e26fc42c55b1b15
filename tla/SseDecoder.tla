----------------------------- MODULE SseDecoder -----------------------------
(***************************************************************************)
(* The incremental decoder of Server-Sent Events (sansio/sse.rs): bytes    *)
(* come in chunks of any size, lines are cut off at LF, CRLF or a lone CR, *)
(* the data fields between two empty lines are one message.                *)
(*                                                                         *)
(* A byte is a member of a small set: the four the decoder looks at, "D"   *)
(* for the whole field name `data`, "!" for a byte that is not UTF-8, and  *)
(* any other for itself (a payload, or a field name it ignores).           *)
(*                                                                         *)
(* Two definitions: the code's, on a decoder state that has seen some of   *)
(* the chunks, and a reference that reads a stream as a whole.             *)
(***************************************************************************)
EXTENDS Naturals, Sequences, FiniteSets, SequencesExt, FiniteSetsExt

CONSTANTS
  Byte,     \* what a stream is made of
  MaxLine   \* max_line_bytes

ASSUME SseAssumption == MaxLine \in Nat /\ {"D", ":", " ", "R", "N", "!"} \subseteq Byte

Cr == "R"
Lf == "N"

(***************************************************************************)
(* SseDecoder's fields.  `data` keeps the newline push('\n') puts behind   *)
(* every value; next_event pops the last.                                  *)
(***************************************************************************)
Decoder == [buf : Seq(Byte), data : Seq(Byte), has : BOOLEAN, error : {"none", "long", "utf8"}]
NewDecoder == [buf |-> <<>>, data |-> <<>>, has |-> FALSE, error |-> "none"]
Feed(d, chunk) == [d EXCEPT !.buf = @ \o chunk]

-----------------------------------------------------------------------------
(***************************************************************************)
(* take_line: the position of the first terminator decides; a CR at the    *)
(* very end of the buffer may be half a CRLF and is left there.            *)
(***************************************************************************)
Ends(b) == b = Cr \/ b = Lf
HasTerminator(buf) == \E i \in DOMAIN buf : Ends(buf[i])
Terminator(buf) == CHOOSE i \in DOMAIN buf : Ends(buf[i]) /\ \A j \in 1 .. i - 1 : ~Ends(buf[j])
LineBytes(buf) == Terminator(buf) - 1

\* Mutant: a CR at the end of the buffer ends its line.
EagerTaking(buf) ==
  IF ~HasTerminator(buf) THEN IF Len(buf) > MaxLine THEN "long" ELSE "more"
  ELSE IF LineBytes(buf) > MaxLine THEN "long" ELSE "line"
\* pending_or_too_long counts every byte of the buffer, a last CR too.
Taking(buf) ==
  IF \/ ~HasTerminator(buf)
     \/ buf[Terminator(buf)] = Cr /\ Terminator(buf) = Len(buf)
  THEN IF Len(buf) > MaxLine THEN "long" ELSE "more"
  ELSE IF LineBytes(buf) > MaxLine THEN "long" ELSE "line"

Consumed(buf) ==
  LET t == Terminator(buf)
  IN  IF buf[t] = Cr /\ t < Len(buf) /\ buf[t + 1] = Lf THEN t + 1 ELSE t
TakenLine(buf) == SubSeq(buf, 1, LineBytes(buf))
Rest(buf) == SubSeq(buf, Consumed(buf) + 1, Len(buf))

(***************************************************************************)
(* What next_event does with a line that is not empty.                     *)
(***************************************************************************)
IsUtf8(bytes) == \A i \in DOMAIN bytes : bytes[i] # "!"
IsComment(line) == line[1] = ":"
Colons(line) == {i \in DOMAIN line : line[i] = ":"}
Field(line) == IF Colons(line) = {} THEN line ELSE SubSeq(line, 1, Min(Colons(line)) - 1)
Value(line) ==
  IF Colons(line) = {} THEN <<>>
  ELSE LET c == Min(Colons(line))
           skip == IF c < Len(line) /\ line[c + 1] = " " THEN 2 ELSE 1
       IN  SubSeq(line, c + skip, Len(line))

\* The empty line behind a data field: the message is taken, the state reset.
Dispatched(d) == [d EXCEPT !.has = FALSE, !.data = <<>>]
Message(d) == Front(d.data)
Dispatches(d, line) == line = <<>> /\ d.has

Absorbed(d, line) ==
  CASE Dispatches(d, line) -> Dispatched(d)
    [] line = <<>> /\ ~d.has -> d
    [] line # <<>> /\ ~IsUtf8(line) -> [d EXCEPT !.error = "utf8"]
    [] line # <<>> /\ IsUtf8(line) /\ ~IsComment(line) /\ Field(line) = <<"D">> ->
         [d EXCEPT !.data = @ \o Value(line) \o <<Lf>>, !.has = TRUE]
    [] OTHER -> d

(***************************************************************************)
(* One round of next_event's loop: a line is taken, or none is there yet,  *)
(* or the error sticks.                                                    *)
(***************************************************************************)
Round(d) ==
  CASE d.error # "none" \/ Taking(d.buf) = "more" -> d
    [] d.error = "none" /\ Taking(d.buf) = "long" -> [d EXCEPT !.error = "long"]
    [] OTHER -> Absorbed([d EXCEPT !.buf = Rest(@)], TakenLine(d.buf))
Starved(d) == d.error = "none" /\ Taking(d.buf) = "more"
Emits(d) == d.error = "none" /\ Taking(d.buf) = "line" /\ Dispatches(d, TakenLine(d.buf))

-----------------------------------------------------------------------------
(***************************************************************************)
(* The reference: a stream as a whole.  A line ends at a LF, or at a CR    *)
(* that another byte than LF follows.                                      *)
(***************************************************************************)
LineEnds(s) == {i \in DOMAIN s : s[i] = Lf \/ (s[i] = Cr /\ i < Len(s) /\ s[i + 1] # Lf)}
\* The members of a set of numbers in their order.
InOrder(S) == [k \in 1 .. Cardinality(S) |-> CHOOSE x \in S : Cardinality({y \in S : y <= x}) = k]
EndOf(s, k) == IF k = 0 THEN 0 ELSE InOrder(LineEnds(s))[k]
LineBetween(s, from, e) ==
  SubSeq(s, from + 1, IF s[e] = Lf /\ e > from + 1 /\ s[e - 1] = Cr THEN e - 2 ELSE e - 1)
Lines(s) == [k \in 1 .. Cardinality(LineEnds(s)) |-> LineBetween(s, EndOf(s, k - 1), EndOf(s, k))]
Unended(s) == SubSeq(s, EndOf(s, Cardinality(LineEnds(s))) + 1, Len(s))

\* A reader that goes line by line and stops at the first it cannot read.
BadLine(l) == Len(l) > MaxLine \/ ~IsUtf8(l)
GoodLines(s) ==
  LET bad == {k \in DOMAIN Lines(s) : BadLine(Lines(s)[k])}
  IN  SubSeq(Lines(s), 1, (IF bad = {} THEN Len(Lines(s)) + 1 ELSE Min(bad)) - 1)

\* The messages of a list of lines: at each empty line the values of the data
\* fields since the one before, joined with LF, if there are any.
IsData(l) == l # <<>> /\ Field(l) = <<"D">>
DataBefore(ls, k) == {j \in 1 .. k - 1 : IsData(ls[j]) /\ \A b \in j .. k - 1 : ls[b] # <<>>}
Joined(ls, S) == LET at == InOrder(S) IN FlattenSeq([i \in DOMAIN at |-> Value(ls[at[i]]) \o <<Lf>>])
MessagesIn(ls) ==
  LET at == InOrder({k \in DOMAIN ls : ls[k] = <<>> /\ DataBefore(ls, k) # {}})
  IN  [n \in DOMAIN at |-> Front(Joined(ls, DataBefore(ls, at[n])))]
Messages(s) == MessagesIn(GoodLines(s))

\* Is a stream beyond what the decoder reads?  Of a line that has no end yet
\* a last CR does not count.
Unterminated(s) ==
  IF Unended(s) # <<>> /\ Last(Unended(s)) = Cr THEN Front(Unended(s)) ELSE Unended(s)
Overlong(s) ==
  \/ Len(GoodLines(s)) < Len(Lines(s)) /\ Len(Lines(s)[Len(GoodLines(s)) + 1]) > MaxLine
  \/ Len(GoodLines(s)) = Len(Lines(s)) /\ Len(Unterminated(s)) > MaxLine
=============================================================================
