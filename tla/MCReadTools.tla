----------------------------- MODULE MCReadTools -----------------------------
(***************************************************************************)
(* Read tools for TLC: a workspace with a hidden directory, an unreadable  *)
(* one, a symlink that leads outside or back, a directory that may turn    *)
(* into one, and a tree outside.                                           *)
(***************************************************************************)
EXTENDS ReadTools

MCRoot == <<"w">>
A == <<"w", "a">>
AF == <<"w", "a", "f">>
AG == <<"w", "a", "g">>
Link == <<"w", "l">>
Shut == <<"w", "s">>
Out == <<"o">>
OutD == <<"o", "d">>
OutF == <<"o", "d", "f">>
MCSorted == <<Out, OutD, OutF, MCRoot, <<"w", ".h">>, <<"w", ".h", "f">>, A, AF, AG, <<"w", "b">>, Link, Shut>>
MCKind ==
  [p \in ToSet(MCSorted) |->
     CASE p = Link -> "link" [] p = Shut -> "shut" [] p = AG -> "blob"
       [] p \in {AF, OutF, <<"w", ".h", "f">>, <<"w", "b">>} -> "text" [] OTHER -> "dir"]
MCHits == [p \in ToSet(MCSorted) |-> IF p = AF THEN <<1, 3>> ELSE IF MCKind[p] = "text" THEN <<2>> ELSE <<>>]
MCHidden == {<<"w", ".h">>}
MCTargets == {OutD, A}
MCTurning == {A}
MCLoose == {A, OutD, Shut}
MCAbsent == {{Shut}}
MCRuleSets == {{}, {Link}}

List(p, recursive, hidden, cap) ==
  [op |-> "list", path |-> p, recursive |-> recursive, hidden |-> hidden, cap |-> cap]
Search(p, cap) == [op |-> "search", path |-> p, cap |-> cap]
ReadCall(p, range) == [op |-> "read", path |-> p, range |-> range]
MCRanges == {<<>>, <<0, 1>>, <<1, 1>>, <<2, 1>>, <<2, 9>>}
MCCalls ==
  {List(MCRoot, TRUE, TRUE, 20), List(MCRoot, TRUE, FALSE, 4), List(MCRoot, FALSE, FALSE, 0), List(Link, TRUE, FALSE, 20),
   List(Out, TRUE, FALSE, 20), Search(MCRoot, 20), Search(MCRoot, 2), Search(OutD, 20), ReadCall(Link \o <<"f">>, <<>>)}
  \cup {ReadCall(AF, range) : range \in MCRanges} \cup {ReadCall(p, <<>>) : p \in {A, AG, OutF}}

MCTexts ==
  {<<"0">>, <<"a", "0">>, <<"a", "n", "a", "0">>}
  \cup {s \in BoundedSeq({"a", "n", "h", "t"}, 4) : \A i \in DOMAIN s : /\ s[i] = "h" => i < Len(s) /\ s[i + 1] = "t"
                                     /\ s[i] \in {"a", "t"} /\ i < Len(s) => s[i + 1] # s[i]}
Inner == {Word("--"), Word("--stat"), Word("-D"), Word("b"), Operand(A), Operand(OutD), Operand(Link)}
Heads == {Word("status"), Word("branch"), Word("remote"), Word("push")}
Prefixed == {<<Word("-C"), Operand(OutD)>>, <<Joined("--git-dir", A)>>, <<Word("-C")>>, <<Joined("--git-dir", <<>>)>>}
MCCommands ==
  {<<Word("git")>>, <<Word("make")>>}
  \cup {<<Word("git"), sub>> \o rest : sub \in {Word("status"), Word("branch")}, rest \in BoundedSeq(Inner, 2)}
  \cup {<<Word("git")>> \o pre \o <<sub>> \o rest : pre \in Prefixed, sub \in Heads, rest \in BoundedSeq(Inner, 1)}
  \cup {<<Word("git"), Word(sub)>> \o rest :
          sub \in {"branch", "remote", "diff"}, rest \in {<<Word("-v")>>, <<Word("show")>>, <<Word("add")>>, <<Word("-a")>>, <<Joined("--format", <<>>)>>}}
=============================================================================
