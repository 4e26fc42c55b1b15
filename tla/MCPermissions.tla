--------------------------- MODULE MCPermissions ---------------------------
(***************************************************************************)
(* Permissions for TLC: two commands that share the prefix a grant writes, *)
(* an update, and an add whose path the model spells with a leading dot.   *)
(***************************************************************************)
EXTENDS Permissions, TLC

Call(kind, of, spelled) == [kind |-> kind, of |-> of, spelled |-> spelled]
Push == <<"git", "push", "origin">>
Force == <<"git", "push", "force">>
MCCalls ==
  {Call("command", Push, Push), Call("command", Force, Force),
   Call("write", <<"src", "old">>, <<"src", "old">>),
   Call("write", <<"src", "new">>, <<".", "src", "new">>)}

Rule(kind, allow, of) == [kind |-> kind, allow |-> allow, of |-> of]
MCHandWritten == {Rule("command", FALSE, Force), Rule("command", FALSE, <<"git", "push">>),
                   Rule("command", TRUE, <<"git", "push">>), Rule("write", TRUE, <<"src">>),
                   Note, Bytes}

Symmetry == Permutations(Sessions)
=============================================================================
