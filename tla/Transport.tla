------------------------------ MODULE Transport ------------------------------
(***************************************************************************)
(* One model call: the shell (curl.rs `call`) starts curl, hands it the    *)
(* request, decodes what curl writes to its stdout chunk by chunk,         *)
(* assembles the reply, and waits for curl.  TellLoop takes the outcome,   *)
(* a reply, a fault one may retry or a rejection, for a free choice; here  *)
(* is where it comes from.                                                 *)
(*                                                                         *)
(* Three actors: the shell, the curl process, and the server and network,  *)
(* which are a body to be delivered, a status, and the moments at which    *)
(* curl may fail.  Nothing here has a time limit: curl is started without  *)
(* one.                                                                    *)
(***************************************************************************)
EXTENDS SseDecoder

CONSTANTS
  Words,      \* what texts, ids and names are made of; "" is none
  Json,       \* the JSON value a payload byte stands for; another is malformed
  JsonNull,   \* null, where a value has it
  Done,       \* the payload byte of [DONE]
  ErrorBody,  \* the byte of a JSON object with a non-empty error.message
  Bodies,     \* what servers answer: [bytes, status]
  PipeSize    \* bytes curl's stdout holds

\* A chunk: choices[0].delta, finish_reason and usage.  "" is an absent id,
\* name or reason; fragments, and contents, are sequences of what they add.
NoText == <<>>
Delta == [index : Nat, id : Words, name : Words, frag : Seq(Words)]
Chunk == [content : Seq(Words), tools : Seq(Delta), finish : Words, usage : Words]
Slot == [index : Nat, id : Words, name : Words, args : Seq(Words)]
Assembly == [content : Seq(Words), slots : Seq(Slot), finish : Words, usage : Words]

(***************************************************************************)
(* StreamChunk::try_from: what a JSON value means.  An object is a record  *)
(* of the members it has.  Only the first choice counts, and no choice is  *)
(* a chunk that adds nothing but its usage; a text may be absent or null,  *)
(* an object or an array may be absent but not null.                       *)
(***************************************************************************)
Has(o, name) == name \in DOMAIN o
NotNull(o, name) == Has(o, name) => o[name] # JsonNull
OptionalString(o, name) == IF Has(o, name) /\ o[name] # JsonNull THEN o[name] ELSE ""
Fragment(o, name) == IF OptionalString(o, name) = "" THEN NoText ELSE <<OptionalString(o, name)>>
NoMembers == [n \in {} |-> JsonNull]
Member(o, name) == IF Has(o, name) THEN o[name] ELSE NoMembers

Choice(j) == IF Has(j, "choices") /\ j.choices # <<>> THEN j.choices[1] ELSE NoMembers
ToolCalls(delta) == IF Has(delta, "tool_calls") THEN delta.tool_calls ELSE <<>>
Decodable(j) ==
  /\ j # JsonNull /\ NotNull(j, "choices")
  /\ NotNull(Choice(j), "delta")
  /\ LET delta == Member(Choice(j), "delta") IN
       /\ NotNull(delta, "tool_calls")
       /\ \A i \in DOMAIN ToolCalls(delta) :
            NotNull(delta.tool_calls[i], "function") /\ Has(delta.tool_calls[i], "index")
DeltaOf(item) ==
  [index |-> item.index, id |-> OptionalString(item, "id"),
   name |-> OptionalString(Member(item, "function"), "name"),
   frag |-> Fragment(Member(item, "function"), "arguments")]
ChunkOf(j) ==
  LET delta == Member(Choice(j), "delta") IN
  [content |-> Fragment(delta, "content"),
   tools |-> [i \in DOMAIN ToolCalls(delta) |-> DeltaOf(ToolCalls(delta)[i])],
   finish |-> OptionalString(Choice(j), "finish_reason"),
   usage |-> OptionalString(j, "usage")]

ASSUME TransportAssumption ==
  /\ \A p \in DOMAIN Json : Decodable(Json[p]) => ChunkOf(Json[p]) \in Chunk
  /\ "" \in Words /\ DOMAIN Json \subseteq Byte /\ Done \in Byte \ DOMAIN Json
  /\ ErrorBody \in Byte \ {"D"}
  /\ Bodies \subseteq [bytes : Seq(Byte), status : {"ok", "error"}]
  /\ PipeSize \in Nat \ {0}

VARIABLES
  pc,      \* the shell: "start", "send", "read", "decode", "reap" or "returned"
  body,    \* the server's answer to this request
  child,   \* curl: "none", "alive" or "exited"
  exit,    \* curl's exit status once it has exited: 0 or 1, for any other
  written, \* bytes of the body curl has written to its stdout
  fed,     \* bytes of it the shell has read
  open,    \* does the shell still hold the read end?
  dec,     \* the decoder
  asm,     \* the reply so far
  heard,   \* history: the messages the decoder has emitted
  result,  \* what call returns
  broken   \* history: did curl, a read or the wait fail?

vars == <<pc, body, child, exit, written, fed, open, dec, asm, heard, result, broken>>
shell == <<pc, dec, asm, heard, result>>
curl == <<child, exit, written>>

Received == SubSeq(body.bytes, 1, fed)

-----------------------------------------------------------------------------
(***************************************************************************)
(* Assembly: the fragments of a tool call find their slot by index; the    *)
(* first id and name stay, the arguments are appended.                     *)
(***************************************************************************)
NewAssembly == [content |-> NoText, slots |-> <<>>, finish |-> "", usage |-> ""]
SlotOf(slots, d) == {i \in DOMAIN slots : slots[i].index = d.index}
NewSlot(d) == [index |-> d.index, id |-> "", name |-> "", args |-> NoText]
OrElse(x, y) == IF x = "" THEN y ELSE x
Extended(s, d) ==
  [s EXCEPT !.id = OrElse(@, d.id), !.name = OrElse(@, d.name), !.args = @ \o d.frag]

\* Mutant: fragments go to the slot opened last.
AbsorbLast(slots, d) ==
  IF d.id # "" THEN Append(slots, Extended(NewSlot(d), d))
  ELSE [slots EXCEPT ![Len(slots)] = Extended(@, d)]
AbsorbToolCall(slots, d) ==
  IF SlotOf(slots, d) = {} THEN Append(slots, Extended(NewSlot(d), d))
  ELSE [slots EXCEPT ![Min(SlotOf(slots, d))] = Extended(@, d)]
AbsorbToolCalls(slots, ds) ==
  LET after[n \in 0 .. Len(ds)] == IF n = 0 THEN slots ELSE AbsorbToolCall(after[n - 1], ds[n])
  IN  after[Len(ds)]
AbsorbChunk(a, c) ==
  [content |-> a.content \o c.content,
   slots |-> AbsorbToolCalls(a.slots, c.tools),
   finish |-> OrElse(c.finish, a.finish),
   usage |-> OrElse(c.usage, a.usage)]

\* Assembly::finish and into_assistant, as the next request carries it: content
\* is null when the turn has calls only.
Null == <<"null">>
ToolCallOf(s) == [id |-> s.id, name |-> s.name, args |-> s.args]
Assistant(a) ==
  [content |-> IF a.slots # <<>> /\ a.content = NoText THEN Null ELSE a.content,
   calls |-> [i \in DOMAIN a.slots |-> ToolCallOf(a.slots[i])]]

\* decode_stream_payload: white space around the payload does not matter.
Solid(data) == {i \in DOMAIN data : data[i] \notin {" ", Cr, Lf}}
Holds(data, b) == \E i \in DOMAIN data : Solid(data) = {i} /\ data[i] = b
IsDone(data) == Holds(data, Done)
IsChunk(data) == \E p \in DOMAIN Json : Holds(data, p) /\ Decodable(Json[p])
PayloadOf(data) == ChunkOf(Json[CHOOSE p \in DOMAIN Json : Holds(data, p)])

-----------------------------------------------------------------------------
Init ==
  /\ pc = "start" /\ body \in Bodies
  /\ child = "none" /\ exit = 0 /\ written = 0 /\ fed = 0 /\ open = FALSE
  /\ dec = NewDecoder /\ asm = NewAssembly /\ heard = <<>>
  /\ result = "none" /\ broken = FALSE

\* call returns, and drops its ends of curl's pipes.  It waits for curl on the
\* way only if it comes past Reap.
Return(r) == pc' = "returned" /\ result' = r /\ open' = FALSE

\* No API key, or a base URL that is empty or not Unicode.
Unavailable ==
  /\ pc = "start"
  /\ Return("unavailable")
  /\ UNCHANGED <<body, child, exit, written, fed, dec, asm, heard, broken>>

Spawn ==
  /\ pc = "start"
  /\ \/ pc' = "send" /\ child' = "alive" /\ open' = TRUE /\ UNCHANGED <<result, broken>>
     \/ Return("transport") /\ broken' = TRUE /\ UNCHANGED child
  /\ UNCHANGED <<body, exit, written, fed, dec, asm, heard>>

\* Mutant: curl is waited for before its output is read.
SendThenWait ==
  /\ pc = "send"
  /\ IF child = "exited" THEN Return("transport") ELSE pc' = "reap" /\ UNCHANGED <<result, open>>
  /\ UNCHANGED <<body, child, exit, written, fed, dec, asm, heard, broken>>
\* write_all of the request: a broken pipe if curl has gone.
Send ==
  /\ pc = "send"
  /\ IF child = "exited" THEN Return("transport") ELSE pc' = "read" /\ UNCHANGED <<result, open>>
  /\ UNCHANGED <<body, child, exit, written, fed, dec, asm, heard, broken>>

\* fill_buf: whatever the pipe holds, end of file once curl has exited.
ReadChunk ==
  /\ pc = "read" /\ fed < written
  /\ dec' = Feed(dec, SubSeq(body.bytes, fed + 1, written))
  /\ fed' = written
  /\ pc' = "decode"
  /\ UNCHANGED <<body, child, exit, written, open, asm, heard, result, broken>>
EndOfBody ==
  /\ pc = "read" /\ fed = written /\ child = "exited"
  /\ pc' = "reap" /\ open' = FALSE
  /\ UNCHANGED <<body, child, exit, written, fed, dec, asm, heard, result, broken>>
ReadFails ==
  /\ pc = "read"
  /\ Return("transport") /\ broken' = TRUE
  /\ UNCHANGED <<body, child, exit, written, fed, dec, asm, heard>>

(***************************************************************************)
(* next_event until it has nothing more.  A message is a chunk, the end of *)
(* the reply (what follows it is not looked at, and the read end is        *)
(* closed), or malformed.                                                  *)
(***************************************************************************)
Starve ==
  /\ pc = "decode" /\ Starved(dec)
  /\ pc' = "read"
  /\ UNCHANGED <<body, child, exit, written, fed, open, dec, asm, heard, result, broken>>
SkipLine ==
  /\ pc = "decode" /\ ~Starved(dec) /\ ~Emits(dec)
  /\ dec' = Round(dec)
  /\ IF dec'.error # "none" THEN Return("transport") ELSE UNCHANGED <<pc, result, open>>
  /\ UNCHANGED <<body, child, exit, written, fed, asm, heard, broken>>
Deliver ==
  /\ pc = "decode" /\ Emits(dec)
  /\ dec' = Round(dec)
  /\ \E data \in {Message(dec)} :
     /\ heard' = Append(heard, data)
     /\ \/ /\ IsDone(data)
           /\ pc' = "reap" /\ open' = FALSE /\ UNCHANGED <<asm, result>>
        \/ /\ IsChunk(data)
           /\ \E chunk \in {PayloadOf(data)} : asm' = AbsorbChunk(asm, chunk)
           /\ UNCHANGED <<pc, open, result>>
        \/ /\ ~IsDone(data) /\ ~IsChunk(data)
           /\ Return("transport") /\ UNCHANGED asm
  /\ UNCHANGED <<body, child, exit, written, fed, broken>>

(***************************************************************************)
(* stderr is read to its end and curl waited for; a status other than 0    *)
(* throws the reply away.                                                  *)
(***************************************************************************)
ApiError(raw) == Holds(raw, ErrorBody)
Classify(raw) == IF ApiError(raw) THEN "http" ELSE "transport"

\* Mutant: curl's status is not asked for when a reply has come.
ReapTrusting ==
  /\ pc = "reap" /\ child = "exited"
  /\ Return(IF exit = 0 \/ asm # NewAssembly THEN "ok" ELSE Classify(Received))
  /\ UNCHANGED <<body, child, exit, written, fed, dec, asm, heard, broken>>
Reap ==
  /\ pc = "reap" /\ child = "exited"
  /\ Return(IF exit = 0 THEN "ok" ELSE Classify(Received))
  /\ UNCHANGED <<body, child, exit, written, fed, dec, asm, heard, broken>>
WaitFails ==
  /\ pc = "reap" /\ child = "exited"
  /\ Return("transport") /\ broken' = TRUE
  /\ UNCHANGED <<body, child, exit, written, fed, dec, asm, heard>>

-----------------------------------------------------------------------------
(***************************************************************************)
(* curl.  It reads its stdin to the end before it sends the request, and   *)
(* with -N passes on every byte it gets.  With --fail-with-body a status   *)
(* of 400 or more is an exit status behind the whole body.                 *)
(***************************************************************************)
Transferring == child = "alive" /\ pc \notin {"start", "send"}
CurlWrite ==
  /\ Transferring /\ open
  /\ written < Len(body.bytes) /\ written - fed < PipeSize
  /\ written' = written + 1
  /\ UNCHANGED <<shell, body, child, exit, fed, open, broken>>
CurlEnd ==
  /\ Transferring /\ written = Len(body.bytes)
  /\ child' = "exited" /\ exit' = IF body.status = "ok" THEN 0 ELSE 1
  /\ UNCHANGED <<shell, body, written, fed, open, broken>>
\* Bytes are left and nobody reads them.
CurlEpipe ==
  /\ Transferring /\ ~open /\ written < Len(body.bytes)
  /\ child' = "exited" /\ exit' = 1
  /\ UNCHANGED <<shell, body, written, fed, open, broken>>
\* No host, a connection cut or reset, a signal.
CurlFails ==
  /\ child = "alive"
  /\ child' = "exited" /\ exit' = 1 /\ broken' = TRUE
  /\ UNCHANGED <<shell, body, written, fed, open>>

Shell ==
  \/ Unavailable \/ Spawn \/ Send \/ ReadChunk \/ EndOfBody \/ ReadFails
  \/ Starve \/ SkipLine \/ Deliver \/ Reap \/ WaitFails
Answer == CurlWrite \/ CurlEnd \/ CurlEpipe
Next == Shell \/ Answer \/ CurlFails

\* The shell runs, and the server delivers its answer as long as curl can pass
\* it on: nothing in the code bounds how long that takes.
Spec == Init /\ [][Next]_vars /\ WF_vars(Shell) /\ WF_vars(Answer)

-----------------------------------------------------------------------------
TypeOK ==
  /\ pc \in {"start", "send", "read", "decode", "reap", "returned"}
  /\ body \in Bodies
  /\ child \in {"none", "alive", "exited"} /\ exit \in {0, 1}
  /\ written \in 0 .. Len(body.bytes) /\ fed \in 0 .. Len(body.bytes)
  /\ open \in BOOLEAN /\ broken \in BOOLEAN
  /\ dec \in Decoder /\ asm \in Assembly /\ heard \in Seq(Seq(Byte))
  /\ result \in {"none", "ok", "http", "transport", "unavailable"}

\* sse.rs: "Event output does not depend on how the input byte stream is split
\* into chunks".  Whatever the chunks were, what has been decoded once the
\* decoder asks for more is what a reader of the whole stream finds in it; the
\* decoder gives up only at a line that reader gives up at.  Of a line of
\* exactly max_line_bytes that ends in CR this is not so: the CR counts as one
\* byte too many when a chunk ends behind it.
EdgeLine == \E e \in 1 .. fed : body.bytes[e] = Cr /\ Len(Unterminated(SubSeq(body.bytes, 1, e))) = MaxLine
ChunksDoNotMatter ==
  /\ pc = "read" => heard = Messages(Received) /\ ~Overlong(Received)
  /\ dec.error = "long" => Overlong(Received) \/ EdgeLine

\* The reference for a reply: of each index, in order of first appearance, the
\* first id and name and all fragments, whatever deltas came in between.
DeltasOf(cs) == FlattenSeq([i \in DOMAIN cs |-> cs[i].tools])
OfIndex(ds, n) == {i \in DOMAIN ds : ds[i].index = n}
First(at, text) == LET t == {i \in at : text[i] # ""} IN IF t = {} THEN "" ELSE text[Min(t)]
CallOf(ds, n) ==
  LET at == OfIndex(ds, n) IN
  [id |-> First(at, [i \in DOMAIN ds |-> ds[i].id]), name |-> First(at, [i \in DOMAIN ds |-> ds[i].name]),
   args |-> FlattenSeq([k \in DOMAIN InOrder(at) |-> ds[InOrder(at)[k]].frag])]
Opening(ds) == {i \in DOMAIN ds : \A j \in 1 .. i - 1 : ds[j].index # ds[i].index}
CallsIn(ds) == [k \in DOMAIN InOrder(Opening(ds)) |-> CallOf(ds, ds[InOrder(Opening(ds))[k]].index)]
UpToDone(ms) ==
  LET d == {i \in DOMAIN ms : IsDone(ms[i])} IN SubSeq(ms, 1, (IF d = {} THEN Len(ms) + 1 ELSE Min(d)) - 1)

\* The reply the next request carries back is the one the server streamed, call
\* by call: interleaved fragments of two calls are not mixed up, so that calls
\* the server gave ids of their own keep them, and nothing is lost between two
\* chunks, skipped as malformed or added behind [DONE].
ReplyEchoesStream ==
  result = "ok" =>
    LET ms == UpToDone(Messages(body.bytes))
        cs == [i \in DOMAIN ms |-> PayloadOf(ms[i])]
        text == FlattenSeq([i \in DOMAIN cs |-> cs[i].content])
        calls == CallsIn(DeltasOf(cs))
    IN  /\ \A i \in DOMAIN ms : IsChunk(ms[i])
        /\ Assistant(asm).calls = calls
        /\ Assistant(asm).content = IF calls # <<>> /\ text = <<>> THEN Null ELSE text

\* A reply whose transfer was cut short or failed is never taken for a reply:
\* Ok means that curl was waited for, ended well, and that the shell has read
\* everything, or everything up to [DONE].
OkIsWhole ==
  result = "ok" =>
    /\ child = "exited" /\ exit = 0 /\ written = Len(body.bytes)
    /\ fed = written \/ (heard # <<>> /\ IsDone(Last(heard)))

\* CurlError: Http is "a definitive HTTP/API rejection", Transport a "transient
\* transport failure; safe to re-issue".  If nothing failed on the way, a call
\* is given up for good exactly if the server rejected it with a body that says
\* why, however that body came in.
FinalIffRejected ==
  pc = "returned" /\ child = "exited" /\ ~broken /\ written = Len(body.bytes) /\ dec.error = "none" =>
    (result = "http" <=> body.status = "error" /\ ApiError(body.bytes))

\* What the turn loop is told of a call: a reply is a whole one, and a failure that
\* is not retried is one that a retry would meet again.
OutcomeIsTrue == OkIsWhole /\ FinalIffRejected

\* The call returns: neither the shell, which reads stdout to its end before it
\* waits, nor curl, which the pipe may hold up, waits for the other for ever.
CallReturns == <>(pc = "returned")
=============================================================================
