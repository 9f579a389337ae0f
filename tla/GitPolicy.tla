----------------------------- MODULE GitPolicy -----------------------------
(***************************************************************************)
(* What a git command may do in a coding run (protocol/git-policy.ts), as  *)
(* the shim on the coding agent's PATH and Mac's own GitRunner check it,   *)
(* and what git then does to a clone.                                      *)
(*                                                                         *)
(* A command is a record of what the policy looks at: the subcommand, the  *)
(* options, the refs it names, for a push where its refspecs lead, what it *)
(* overrides with -c and whether -C takes it to another directory.  The    *)
(* code of a refusal is left out.                                          *)
(***************************************************************************)
EXTENDS Naturals, FiniteSets

BRANCHES == {"default", "task", "other"}

SUBCOMMANDS == {"commit", "checkout", "merge", "rebase", "reset", "branch", "ref-write",
                "push", "gc", "history", "inspect", "clone"}

OPTIONS == {"create", "force", "delete", "hard", "interactive", "prune", "bypass"}

(* "task" stands for every branch of Mac's namespace, "HEAD" for a destination that means
   whatever is checked out, "plus" for a leading +. *)
Command ==
  [sub : SUBCOMMANDS, options : SUBSET OPTIONS, refs : SUBSET (BRANCHES \cup {"HEAD"}),
   plus : BOOLEAN, override : {"none", "harmless", "hooks-off", "safe-ssh", "protected"},
   elsewhere : BOOLEAN]

(* What the policy knows of the place the command runs in. *)
Context == [current : BRANCHES \cup {"none"}, mayPush : BOOLEAN]

-----------------------------------------------------------------------------
(* The rules.                                                              *)

IsReadOnlyInspection(c) == c.sub = "inspect"

(* -c: what can redirect the remote or switch off hooks is refused, but for the two forms the
   agent's own tooling is known to use. *)
PermitsOverride(c) ==
  \/ c.override \in {"none", "harmless"}
  \/ c.override = "hooks-off" /\ IsReadOnlyInspection(c)
  \/ c.override = "safe-ssh" /\ c.sub = "clone"

(* -C: only to look. *)
PermitsDirectory(c) == c.elsewhere => IsReadOnlyInspection(c)

CheckPush(c, context) ==
  /\ c.options \cap {"force", "bypass", "delete"} = {} /\ ~c.plus
  /\ context.mayPush
  /\ c.refs # {} /\ c.refs \subseteq {"task"}

(* Not into the default branch, and not into what is not known. *)
CheckMerge(context) == context.current \notin {"default", "none"}

CheckRebase(c, context) == context.current # "default" /\ "interactive" \notin c.options

CheckReset(c, context) == "hard" \in c.options => context.current # "default"

CheckBranch(c) == c.options \cap {"delete", "force"} # {} => "default" \notin c.refs

CheckRefWrite(c) == "default" \notin c.refs

OnlyWhenCreating(c) ==  \* mutant: only creating a branch of that name is refused
  "create" \in c.options => "default" \notin c.refs

CheckCheckout(c) == "default" \notin c.refs

(* A command is let through when no rule refuses it; what no rule knows is let through. *)
CheckGitCommand(c, context) ==
  /\ PermitsDirectory(c) /\ PermitsOverride(c)
  /\ c.sub # "history"
  /\ c.sub = "push" => CheckPush(c, context)
  /\ c.sub = "merge" => CheckMerge(context)
  /\ c.sub = "rebase" => CheckRebase(c, context)
  /\ c.sub = "reset" => CheckReset(c, context)
  /\ c.sub = "branch" => CheckBranch(c)
  /\ c.sub = "ref-write" => CheckRefWrite(c)
  /\ c.sub = "checkout" => CheckCheckout(c)
  /\ c.sub = "gc" => "prune" \notin c.options

(* The shim's policy file is written once, when the task branch is checked out, and never
   lets anything be pushed. *)
ShimPolicy == [current |-> "task", mayPush |-> FALSE]

(* Mac's own, once the task branch is created. *)
MacPolicy == [current |-> "task", mayPush |-> TRUE]

(* The one push Mac makes. *)
PushOfTaskBranch ==
  [sub |-> "push", options |-> {}, refs |-> {"task"}, plus |-> FALSE, override |-> "none",
   elsewhere |-> FALSE]

-----------------------------------------------------------------------------
(* git itself.  A clone: "tip" counts the commits since the base on HEAD and "branch" those
   on the task branch, "head" is what is checked out in the worktree, "moved" is whether the
   default branch is no longer where it was. *)

(* The branch that is checked out follows HEAD. *)
MovesTo(clone, n) ==
  [clone EXCEPT !.tip = n, !.branch = IF clone.head = "task" THEN n ELSE @,
                !.moved = @ \/ clone.head = "default"]

Commits(clone) == [MovesTo(clone, clone.tip + 1) EXCEPT !.dirty = FALSE]

ChecksOut(c, clone) ==
  UNION {IF "create" \in c.options
         THEN {[clone EXCEPT !.head = b, !.branch = IF b = "task" THEN clone.tip ELSE @,
                             !.moved = @ \/ b = "default"]}
         ELSE CASE b = "task" -> {[clone EXCEPT !.head = b, !.tip = clone.branch]}
                [] b = "default" -> {[clone EXCEPT !.head = b, !.tip = 0]}
                [] OTHER -> {[clone EXCEPT !.head = b, !.tip = n] : n \in 0..clone.tip} :
         b \in c.refs \ {"HEAD"}}

(* Moves or deletes branches that are not checked out. *)
MovesBranches(c, clone) ==
  {[clone EXCEPT !.branch = IF "task" \in c.refs /\ clone.head # "task" THEN n ELSE @,
                 !.moved = @ \/ ("default" \in c.refs /\ clone.head # "default")] :
     n \in 0..clone.tip}

(* What command c may make of a clone whose HEAD has at most max commits of its own. *)
GitDoes(c, clone, max) ==
  CASE c.sub = "commit" -> IF clone.dirty /\ clone.tip < max THEN {Commits(clone)} ELSE {}
    [] c.sub = "checkout" -> ChecksOut(c, clone)
    [] c.sub \in {"merge", "rebase"} -> {MovesTo(clone, n) : n \in clone.tip..max}
    [] c.sub = "reset" -> {[MovesTo(clone, n) EXCEPT !.dirty = @ /\ "hard" \notin c.options] :
                             n \in 0..clone.tip}
    [] c.sub = "ref-write" \/ (c.sub = "branch" /\ c.options \cap {"delete", "force"} # {})
         -> MovesBranches(c, clone)
    [] OTHER -> {clone}
=============================================================================
