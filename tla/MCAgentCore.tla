----------------------------- MODULE MCAgentCore -----------------------------
(***************************************************************************)
(* The instance of AgentCore that TLC checks: two calls to a reply, one id *)
(* that every reply may use, a call whose id never comes, and arguments    *)
(* that outgrow their limit.                                               *)
(***************************************************************************)
EXTENDS AgentCore

CONSTANT a

Fragment(id, fn, over) == [id |-> id, fn |-> fn, over |-> over]
MCFragments ==
  {Fragment(a, "read", FALSE), Fragment(a, "patch", FALSE),
   Fragment("none", "command", FALSE), Fragment("none", "none", TRUE)}
=============================================================================
