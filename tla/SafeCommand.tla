---------------------------- MODULE SafeCommand ----------------------------
(***************************************************************************)
(* safe_read_only: which git invocations may run unasked, provided that    *)
(* the paths it returns lie where the session may read.  It fails closed:  *)
(* an option it does not know is not safe.                                 *)
(*                                                                         *)
(* A token of an argument vector is a word, an option with or without a    *)
(* value joined by "=", or a path (its word is empty).  Of the subcommands *)
(* and options that are treated alike, a few stand for all.                *)
(***************************************************************************)
EXTENDS Naturals, Sequences, SequencesExt

Word(w) == [word |-> w, joined |-> FALSE, path |-> <<>>]
Joined(w, p) == [word |-> w, joined |-> TRUE, path |-> p]
Operand(p) == [word |-> "", joined |-> FALSE, path |-> p]

ReadOptions == {"--stat", "--format", "-C", "-d", "-m"}
BranchOptions == {"--list", "--format", "-a", "-v"}
OtherOptions == {"--", "--git-dir", "--work-tree", "-D"}
IsOption(t) == t.word \in ReadOptions \cup BranchOptions \cup OtherOptions
Is(t, w) == t.word = w /\ ~t.joined

NotSafe == [safe |-> FALSE, paths |-> <<>>]
Safe(paths) == [safe |-> TRUE, paths |-> paths]

\* Options up to a literal "--", which must all be known, and revisions; paths
\* behind it.
SafeGitRead(args) ==
  LET dashes == {i \in DOMAIN args : Is(args[i], "--")}
      end == CHOOSE i \in 1 .. Len(args) + 1 :
               /\ i \in dashes \cup {Len(args) + 1} /\ \A j \in dashes : i <= j
  IN  IF \A i \in 1 .. end - 1 : IsOption(args[i]) => args[i].word \in ReadOptions
      THEN Safe(SubSeq(args, end + 1, Len(args))) ELSE NotSafe

\* Listing options only; a value must not be joined to them.
SafeGitBranch(args) ==
  IF \A i \in DOMAIN args : args[i].word \in BranchOptions /\ ~args[i].joined THEN Safe(<<>>) ELSE NotSafe
SafeGitRemote(args) ==
  IF \/ args = <<>> \/ args = <<Word("-v")>>
     \/ Is(Head(args), "show") \/ Is(Head(args), "get-url")
  THEN Safe(<<>>) ELSE NotSafe

Readers == {"status", "diff", "log", "show"}
SafeSubcommand(args) ==
  IF args = <<>> \/ Head(args).joined THEN NotSafe
  ELSE CASE Head(args).word \in Readers -> SafeGitRead(Tail(args))
         [] Head(args).word = "branch" -> SafeGitBranch(Tail(args))
         [] Head(args).word = "remote" -> SafeGitRemote(Tail(args))
         [] OTHER -> NotSafe

\* At most one leading option that sends git to another repository.
Retargets(args) ==
  /\ args # <<>>
  /\ \/ Is(args[1], "-C") /\ Len(args) > 1 /\ ~IsOption(args[2])
     \/ args[1].word = "--git-dir" /\ args[1].joined /\ args[1].path # <<>>
\* Mutant: the other repository is not among the paths.
SafeGitAnywhere(args) ==
  IF ~Retargets(args) THEN SafeSubcommand(args)
  ELSE SafeSubcommand(SubSeq(args, IF args[1].joined THEN 2 ELSE 3, Len(args)))
SafeGit(args) ==
  IF ~Retargets(args) THEN SafeSubcommand(args)
  ELSE LET taken == IF args[1].joined THEN 1 ELSE 2
           dir == IF args[1].joined THEN Operand(args[1].path) ELSE args[2]
           tail == SafeSubcommand(SubSeq(args, taken + 1, Len(args)))
       IN  IF tail.safe THEN Safe(<<dir>> \o tail.paths) ELSE NotSafe

SafeReadOnly(argv) == IF argv # <<>> /\ Is(argv[1], "git") THEN SafeGit(Tail(argv)) ELSE NotSafe
=============================================================================
