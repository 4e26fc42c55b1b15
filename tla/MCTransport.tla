----------------------------- MODULE MCTransport -----------------------------
(* Bodies of up to three messages that bring out the cases of Transport.     *)
EXTENDS Transport

\* Payloads: two texts, the calls 0 ("i", then "k", then "l" with another id)
\* and 1 ("j"), both at once ("b"), a finish reason, the usage, an error object
\* in the stream, which has no choices, and two that do not decode.
OneChoice(c) == [choices |-> <<c>>]
OfDelta(d) == OneChoice([delta |-> d, finish_reason |-> JsonNull])
Text(t) == OfDelta([content |-> t, role |-> "assistant"])
Started(n, id, arg) == [index |-> n, id |-> id, function |-> [name |-> id, arguments |-> arg]]
Continued(n, arg) == [index |-> n, function |-> [arguments |-> arg]]
Calls(ds) == OfDelta([content |-> JsonNull, tool_calls |-> ds])
MCJson ==
  ("t" :> Text("t")) @@ ("u" :> Text("u")) @@
  ("i" :> Calls(<<Started(0, "c0", "i")>>)) @@ ("k" :> Calls(<<Continued(0, "k")>>)) @@
  ("l" :> Calls(<<Started(0, "c9", "l")>>)) @@ ("j" :> Calls(<<Started(1, "c1", "j")>>)) @@
  ("b" :> Calls(<<Continued(1, "p"), Started(0, "c0", "q")>>)) @@
  ("f" :> OneChoice([delta |-> [role |-> "assistant"], finish_reason |-> "stop"])) @@
  ("s" :> [choices |-> <<>>, usage |-> "s"]) @@
  ("q" :> [error |-> "overloaded"]) @@
  ("n" :> OfDelta([tool_calls |-> JsonNull])) @@
  ("m" :> Calls(<<[function |-> [name |-> "c0"]]>>))
MCWords == {"", "c0", "c1", "c9", "stop"} \cup DOMAIN MCJson \cup {"p"}
MCByte == {"D", "E", ":", " ", "R", "N", "!", "x", "Z", "e", "g"} \cup DOMAIN MCJson

Frame(p) == <<"D", ":", " ", p, "N", "N">>
Body(ps) == FlattenSeq([i \in DOMAIN ps |-> Frame(ps[i])])
Ok(bytes) == [bytes |-> bytes, status |-> "ok"]
Rejected(bytes) == [bytes |-> bytes, status |-> "error"]

Replies == {Body(<<a, b>>) : a, b \in {"t", "i", "j", "x", "f", "q"}}
  \cup {Body(<<a, b, c>>) : a \in {"i", "j"}, b \in {"j", "b"}, c \in {"k", "l", "u"}}
  \cup {Body(<<a, "s", "Z">>) : a \in {"t", "i"}} \cup {Body(<<"t", b>>) : b \in {"n", "m"}}
\* CRLF, lone CR, comments, fields that are ignored, two data fields, no space,
\* bytes behind [DONE], a line too long, one that is not UTF-8.
Odd == {
  <<"D", ":", " ", "t", "R", "N", "R", "N", "D", ":", "Z", "R", "N", "R", "N">>,
  <<"D", ":", "t", "R", "R", "D", ":", "u", "R", "R", ":", "N">>,
  <<":", "t", "N", "N", "E", ":", "t", "N", "D", ":", "u", "N", "N">>,
  <<"D", "N", "D", ":", "t", "N", "N", "D", "N", "N">>,
  <<"D", ":", "t", "N", "D", ":", "u", "N", "N">>,
  <<"D", ":", "t", "N", "N", "D", ":", "Z", "N", "N", ":", "N">>,
  <<"D", ":", " ", "t", "t", "N", "N">>,
  <<"D", ":", "t", "N", "N", "E", "E", "E", "E", "E">>,
  <<"D", ":", "t", "N", "N", "D", ":", "!", "N", "N">>}
Refused == {<<"e">>, <<"e", "N">>, <<"N", "e", "R", "N">>, <<"g", "N">>, <<>>, <<"t", "e">>}

MCBodies == {Ok(b) : b \in Replies \cup Odd \cup {<<>>, <<"e", "N">>}} \cup {Rejected(b) : b \in Refused}
=============================================================================
