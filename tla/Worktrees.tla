----------------------------- MODULE Worktrees -----------------------------
(***************************************************************************)
(* internal/worktree, and Run, Restart, Merge and Delete of manager.go as  *)
(* far as they act on a sandbox's git working tree: the branch of one      *)
(* sandbox name, its trees (one for each id the name was run under) and    *)
(* the operator's own checkout of the repository, over deaths of murod.    *)
(***************************************************************************)
EXTENDS GitProxy

CONSTANTS
  Client,    \* control connections
  Typed,     \* edits the operator makes in its own checkout
  Faults,    \* of "conflict", "commit", "launch"
  Budgets    \* how many operations, switches, crashes may come

VARIABLES
  rec,       \* the record: NoRec, or [id, state, wt, base]
  box,       \* the id of the sandbox that lives, or NoBox
  checkout,  \* the operator's: [on, edits, index, typed]
  op,        \* each client's operation
  given,     \* history: given up with --discard-worktree, or by a pull with a "+"
  behind,    \* history: what was done after an operation had looked
  left

NoBox == 0
own == "agent"     \* worktreeBranch: "agent/<namespace>/<name>"

(* The operator starts on "main"; the tool socket's policy is for trees of this
   branch (WorktreeMounts). *)
ASSUME WorktreesAssumption ==
  /\ {own, "main"} \subseteq Branch /\ "" \notin Branch /\ NoBox \notin Id
  /\ MaxWork \in Nat /\ Typed \cap (0..MaxWork) = {}
  /\ \A ask \in Ask : Validate(ask, Mounts, Repos, DaemonSubs) =>
       /\ own \in ResolveRepo(Repos, TranslateCwd(Mounts, ask.cwd)).branches
       /\ "HEAD" \notin ResolveRepo(Repos, TranslateCwd(Mounts, ask.cwd)).branches
NoRec == [id |-> 0, state |-> "none", wt |-> FALSE, base |-> ""]
NoOp == [at |-> "idle"]
managerVars == <<rec, box, op, given>>
vars == <<tree, refs, log, squashed, remote, made, req, moved,
          rec, box, checkout, op, given, behind, left>>

Init ==
  /\ tree = [i \in Id |-> NoTree]
  /\ refs = Branch \ {own}
  /\ log = [b \in Branch |-> {}] /\ squashed = [b \in Branch |-> {}]
  /\ remote = [b \in Branch |-> {}]
  /\ made = 0 /\ req = [r \in Req |-> NoReq] /\ moved = {}
  /\ rec = NoRec /\ box = NoBox
  /\ checkout = [on |-> "main", edits |-> {}, index |-> {}, typed |-> {}]
  /\ op = [c \in Client |-> NoOp]
  /\ given = {} /\ behind = {}
  /\ left \in Budgets

Spend(what) == left[what] > 0 /\ left' = [left EXCEPT ![what] = @ - 1]
At(c, point) == op[c].at = point
Go(c, point) == op' = [op EXCEPT ![c].at = point]
Done(c) == op' = [op EXCEPT ![c] = NoOp]
Finish(c) == IF op[c].merge THEN Go(c, "put") ELSE Done(c)

Active == rec.state = "running"
Launching == \E c \in Client : op[c].at \in {"create", "sidecar", "launch", "put"}

(* A branch is checked out once. *)
CheckedOut == {checkout.on} \cup HeadsOf(Id)

(* HasUnmergedCommits: what HEAD reaches and the base does not; none if the
   tree is gone. *)
HasUnmergedCommits(i, base) == tree[i].there /\ ~(log[tree[i].head] \subseteq log[base])

----------------------------------------------------------------------------
(* Run with a fresh id, or Restart --from-profile with the record's.  They are
   taken one at a time: what overlapping ones do is in Manager. *)
Run(c) ==
  /\ At(c, "idle") /\ Spend("ops") /\ ~Active /\ ~Launching
  /\ \E i \in Id : /\ tree[i] = NoTree /\ \A j \in Id : j < i => tree[j] # NoTree
                   /\ op' = [op EXCEPT ![c] = [at |-> "create", id |-> i, fresh |-> TRUE, base |-> ""]]
  /\ UNCHANGED <<gitVars, proxyVars, checkout, rec, box, given, behind>>

Restart(c) ==
  /\ At(c, "idle") /\ Spend("ops") /\ rec # NoRec /\ ~Launching
  /\ op' = [op EXCEPT ![c] = [at |-> "create", id |-> rec.id, fresh |-> FALSE, base |-> ""]]
  /\ UNCHANGED <<gitVars, proxyVars, checkout, rec, box, given, behind>>

(* worktree.Create: a tree that is there is used as it is, if its base is known;
   else one is added on a new branch off what the operator has checked out. *)
Create(c) ==
  LET i == op[c].id
  IN  /\ At(c, "create")
      /\ IF tree[i].there \/ own \in refs
         THEN /\ IF tree[i].there /\ tree[i].base # ""
                 THEN op' = [op EXCEPT ![c].at = "launch", ![c].base = tree[i].base]
                 ELSE Done(c)
              /\ UNCHANGED <<tree, refs, log>>
         ELSE /\ tree' = [tree EXCEPT ![i] = [NoTree EXCEPT !.there = TRUE, !.head = own]]
              /\ refs' = refs \cup {own}
              /\ log' = [log EXCEPT ![own] = log[checkout.on]]
              /\ op' = [op EXCEPT ![c].at = "sidecar", ![c].base = checkout.on]
      /\ UNCHANGED <<squashed, remote, made, proxyVars, checkout, rec, box, given, behind, left>>

(* Its sidecar is written. *)
Sidecar(c) ==
  /\ At(c, "sidecar")
  /\ tree' = [tree EXCEPT ![op[c].id].base = op[c].base]
  /\ Go(c, "launch")
  /\ UNCHANGED <<refs, log, squashed, remote, made, proxyVars, checkout, rec, box, given,
                 behind, left>>

Record(c, state) == [id |-> op[c].id, state |-> state, wt |-> TRUE, base |-> op[c].base]

(* Launch, after a Restart has stopped what lives; it fails without the tree. *)
Launch(c) ==
  /\ At(c, "launch")
  /\ \/ tree[op[c].id].there /\ box' = op[c].id /\ Go(c, "put") /\ UNCHANGED rec
     \/ /\ "launch" \in Faults \/ ~tree[op[c].id].there
        /\ box' = NoBox /\ Done(c)
        /\ rec' = IF op[c].fresh THEN rec ELSE Record(c, "crashed")
  /\ UNCHANGED <<gitVars, proxyVars, checkout, given, behind, left>>

PutRun(c) ==
  /\ At(c, "put") /\ "old" \notin DOMAIN op[c]
  /\ rec' = Record(c, "running")
  /\ Done(c)
  /\ UNCHANGED <<gitVars, proxyVars, checkout, box, given, behind, left>>

(* Stop, or the sandbox ends. *)
Stop ==
  /\ Active /\ ~Launching
  /\ box' = NoBox
  /\ rec' = [rec EXCEPT !.state = "stopped"]
  /\ UNCHANGED <<gitVars, proxyVars, checkout, op, given, behind, left>>

----------------------------------------------------------------------------
(* Merge: the record is read and its tree has unmerged commits. *)
MergeGet(c) ==
  /\ At(c, "idle") /\ Spend("ops")
  /\ rec.wt /\ HasUnmergedCommits(rec.id, rec.base)
  /\ op' = [op EXCEPT ![c] = [at |-> "on", old |-> rec, merge |-> TRUE, force |-> FALSE]]
  /\ UNCHANGED <<gitVars, proxyVars, checkout, rec, box, given, behind>>

(* SquashMerge's two looks at the operator's checkout *)
MergeOn(c) ==
  /\ At(c, "on")
  /\ IF checkout.on = op[c].old.base THEN Go(c, "clean") ELSE Done(c)
  /\ UNCHANGED <<gitVars, proxyVars, checkout, rec, box, given, behind, left>>

MergeClean(c) ==
  /\ At(c, "clean")
  /\ IF checkout.edits = {} /\ checkout.index = {} THEN Go(c, "squash") ELSE Done(c)
  /\ UNCHANGED <<gitVars, proxyVars, checkout, rec, box, given, behind, left>>

(* git merge --squash: a conflict, or edits or an index in its way, and it fails *)
MergeSquash(c) ==
  /\ At(c, "squash")
  /\ \/ /\ own \in refs /\ checkout.index = {}
        /\ checkout' = [checkout EXCEPT !.index = log[own] \ log[checkout.on]]
        /\ Go(c, "commit")
     \/ /\ "conflict" \in Faults \/ own \notin refs
           \/ checkout.edits # {} \/ checkout.index # {}
        /\ Go(c, "reset") /\ UNCHANGED checkout
  /\ UNCHANGED <<gitVars, proxyVars, rec, box, given, behind, left>>

(* git commit, which fails when nothing is staged (any more) *)
MergeCommit(c) ==
  /\ At(c, "commit")
  /\ \/ /\ checkout.index # {}
        /\ squashed' = [squashed EXCEPT ![checkout.on] = @ \cup checkout.index]
        /\ checkout' = [checkout EXCEPT !.index = {}]
        /\ Go(c, "remove")
     \/ /\ "commit" \in Faults \/ checkout.index = {}
        /\ Go(c, "reset") /\ UNCHANGED <<squashed, checkout>>
  /\ UNCHANGED <<tree, refs, log, remote, made, proxyVars, rec, box, given, behind, left>>

(* resetHard *)
MergeReset(c) ==
  /\ At(c, "reset")
  /\ checkout' = [checkout EXCEPT !.edits = {}, !.index = {}]
  /\ Done(c)
  /\ UNCHANGED <<gitVars, proxyVars, rec, box, given, behind, left>>

(* remove: git worktree remove, which refuses a dirty tree unless forced ... *)
Remove(c) ==
  LET i == op[c].old.id
  IN  /\ At(c, "remove")
      /\ IF tree[i].there /\ (op[c].force \/ ~tree[i].dirty)
         THEN tree' = [tree EXCEPT ![i].there = FALSE] /\ Go(c, "branch")
         ELSE Finish(c) /\ UNCHANGED tree
      /\ UNCHANGED <<refs, log, squashed, remote, made, proxyVars, checkout, rec, box, given,
                     behind, left>>

(* ... then git branch -D, which refuses a branch that is checked out, and the
   sidecar. *)
DeleteBranch(c) ==
  LET free == own \in refs \ CheckedOut
  IN  /\ At(c, "branch")
      /\ IF free
         THEN /\ refs' = refs \ {own} /\ log' = [log EXCEPT ![own] = {}]
              /\ tree' = [tree EXCEPT ![op[c].old.id].base = ""]
              /\ given' = IF op[c].force THEN given \cup log[own] ELSE given
         ELSE UNCHANGED <<refs, log, tree, given>>
      /\ Finish(c)
      /\ UNCHANGED <<squashed, remote, made, proxyVars, checkout, rec, box, behind, left>>

(* Merge puts its copy of the record back, without the tree. *)
PutMerge(c) ==
  /\ At(c, "put") /\ "old" \in DOMAIN op[c]
  /\ rec' = [op[c].old EXCEPT !.wt = FALSE]
  /\ Done(c)
  /\ UNCHANGED <<gitVars, proxyVars, checkout, box, given, behind, left>>

----------------------------------------------------------------------------
(* Slip: only the tree's uncommitted state is left to git to protect. *)
DeleteGetAnyhow(c, discard) ==
  /\ At(c, "idle") /\ Spend("ops") /\ rec # NoRec /\ ~Active
  /\ op' = [op EXCEPT ![c] = [at |-> "delete", old |-> rec, merge |-> FALSE, force |-> discard]]
  /\ UNCHANGED <<gitVars, proxyVars, checkout, rec, box, given, behind>>

(* Delete: refused while active, and for unmerged commits that are not given up *)
DeleteGet(c, discard) ==
  /\ At(c, "idle") /\ Spend("ops") /\ rec # NoRec /\ ~Active
  /\ discard \/ ~rec.wt \/ ~HasUnmergedCommits(rec.id, rec.base)
  /\ op' = [op EXCEPT ![c] = [at |-> "delete", old |-> rec, merge |-> FALSE, force |-> discard]]
  /\ UNCHANGED <<gitVars, proxyVars, checkout, rec, box, given, behind>>

DeleteRec(c) ==
  /\ At(c, "delete")
  /\ rec' = NoRec
  /\ IF op[c].old.wt THEN Go(c, "remove") ELSE Done(c)
  /\ UNCHANGED <<gitVars, proxyVars, checkout, box, given, behind, left>>

----------------------------------------------------------------------------
(* What is done after an operation has looked and before it ends: a commit since
   the squash or since Delete's check, an edit since isClean. *)
LookedAtWork == \E c \in Client : op[c].at \in {"commit", "remove", "branch", "delete"}
LookedAtEdits == \E c \in Client : op[c].at \in {"squash", "commit", "reset"}

(* The agent that lives, and its requests, which go on when it has ended. *)
AgentStep ==
  /\ box # NoBox
  /\ \/ Edit(box) /\ Spend("edits")
     \/ \E r \in Req : Begin(r, box) /\ Spend("asks")
  /\ UNCHANGED <<checkout, managerVars, behind>>

ToolStep(r) ==
  /\ CheckCurrentBranch(r) \/ PlanPush(r) \/ LetGo(r)
  /\ UNCHANGED <<checkout, managerVars, behind, left>>

ToolRun(r) ==
  /\ RunGit(r)
  /\ behind' = IF made' # made /\ LookedAtWork THEN behind \cup {made'} ELSE behind
  /\ given' = given \cup
       UNION {(log[b] \ log'[b]) \cup (squashed[b] \ squashed'[b]) : b \in Branch}
  /\ UNCHANGED <<checkout, rec, box, op, left>>

ToolEnds(r) ==
  /\ Expire(r) \/ Respond(r)
  /\ UNCHANGED <<checkout, managerVars, behind, left>>

(* The operator works in its own checkout, switches trees by hand, or merges the
   agent's branch by hand; others push. *)
Type(e) ==
  /\ e \notin checkout.typed
  /\ checkout' = [checkout EXCEPT !.edits = @ \cup {e}, !.typed = @ \cup {e}]
  /\ behind' = IF LookedAtEdits THEN behind \cup {e} ELSE behind
  /\ UNCHANGED <<gitVars, proxyVars, managerVars, left>>

(* What is committed to the agent's branch from elsewhere than its tree, no
   operation looks at. *)
Save ==
  /\ checkout.edits # {} /\ checkout.index = {}
  /\ log' = [log EXCEPT ![checkout.on] = @ \cup checkout.edits]
  /\ checkout' = [checkout EXCEPT !.edits = {}]
  /\ behind' = IF checkout.on = own THEN behind \cup checkout.edits ELSE behind
  /\ UNCHANGED <<tree, refs, squashed, remote, made, proxyVars, managerVars, left>>

CheckOut(b) ==
  /\ Spend("switches")
  /\ checkout.edits = {} /\ checkout.index = {}
  /\ b \in refs \ CheckedOut
  /\ checkout' = [checkout EXCEPT !.on = b]
  /\ UNCHANGED <<gitVars, proxyVars, managerVars, behind>>

MergeByHand ==
  /\ Spend("switches")
  /\ own \in refs /\ checkout.edits = {} /\ checkout.index = {}
  /\ log' = [log EXCEPT ![checkout.on] = @ \cup log[own]]
  /\ UNCHANGED <<tree, refs, squashed, remote, made, proxyVars, checkout, managerVars, behind>>

Outside ==
  /\ Spend("switches") /\ \E b \in Branch : Others(b)
  /\ UNCHANGED <<checkout, managerVars, behind>>

(* What is on the agent's branch is then hidden from HasUnmergedCommits, which
   looks at the tree's HEAD: it counts as done behind its back. *)
SwitchTree(i, b) ==
  /\ Spend("switches") /\ b # checkout.on /\ Switch(i, b)
  /\ behind' = behind \cup log[own]
  /\ UNCHANGED <<checkout, managerVars>>

(* murod dies: what is on disk stays as it is. *)
Crash ==
  /\ Spend("crashes")
  /\ op' = [c \in Client |-> NoOp] /\ req' = [r \in Req |-> NoReq]
  /\ UNCHANGED <<gitVars, moved, checkout, rec, box, given, behind>>

Manager(c) ==
  \/ Run(c) \/ Restart(c) \/ Create(c) \/ Sidecar(c) \/ Launch(c) \/ PutRun(c)
  \/ MergeGet(c) \/ MergeOn(c) \/ MergeClean(c) \/ MergeSquash(c) \/ MergeCommit(c)
  \/ MergeReset(c) \/ Remove(c) \/ DeleteBranch(c) \/ PutMerge(c)
  \/ DeleteGet(c, TRUE) \/ DeleteGet(c, FALSE) \/ DeleteRec(c)

Next ==
  \/ \E c \in Client : Manager(c)
  \/ Stop \/ AgentStep \/ Save \/ MergeByHand \/ Outside \/ Crash
  \/ \E r \in Req : ToolStep(r) \/ ToolRun(r) \/ ToolEnds(r)
  \/ \E e \in Typed : Type(e)
  \/ \E b \in Branch : CheckOut(b) \/ \E i \in Id : SwitchTree(i, b)

(* A git invocation may hang; its deadline comes, and the response is written
   under another one.  That git's children let go of its output nobody sees to. *)
Fairness == \A r \in Req : WF_vars(ToolEnds(r))

Spec == Init /\ [][Next]_vars
FairSpec == Spec /\ Fairness
=============================================================================
