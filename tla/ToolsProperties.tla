-------------------------- MODULE ToolsProperties --------------------------
(***************************************************************************)
(* What the git tool-proxy and the working trees guarantee.                *)
(***************************************************************************)
EXTENDS Worktrees

Kept == (UNION {log[b] : b \in refs}) \cup (UNION {squashed[b] : b \in Branch})

(* orchestrate.go 33-59: what a request to commit or to push does, it does to a
   branch its policy allows, although it looks first and acts later, perhaps after
   its deadline: as long as nobody switches the tree meanwhile.  Nothing of the
   kind holds of a pull. *)
OnlyAllowed ==
  [][\A r \in Req :
       /\ req[r].at \in {"run", "late"} /\ req'[r] # req[r]
       /\ req[r].ask.sub # "pull" /\ r \notin moved
       => \A b \in Branch \ Repo(r).branches : log'[b] = log[b] /\ remote'[b] = remote[b]]_vars

(* worktree.go, manager.go 1041-1053, 1110-1127: every commit an agent has made
   is on a branch, or its changes are, and every edit of the operator is on one or
   where it was: whatever fails, races or dies, but for what was given up by name or
   by a pull with a "+", and for what was done after the operation had looked. *)
NothingLost ==
  /\ 1..made \subseteq Kept \cup given \cup behind
  /\ checkout.typed \subseteq checkout.edits \cup Kept \cup given \cup behind

(* worktree.go 200-205: when Merge deletes a branch, the content of its commits is
   in the base. *)
PrunedMerged ==
  [][\A c \in Client : At(c, "branch") /\ op[c].merge /\ own \in refs \ refs' =>
       log[own] \subseteq log[op[c].old.base] \cup squashed[op[c].old.base]]_vars

(* toolsocket.go 95-122: a request is answered, whatever git does, unless what git
   has started holds its output for ever. *)
Answered ==
  \A r \in Req : []<>(req[r].at \notin {"held", "late"})
                    => (req[r].at # "idle" ~> req[r].at = "idle")
=============================================================================
