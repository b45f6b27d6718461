------------------------------ MODULE GitProxy ------------------------------
(***************************************************************************)
(* internal/gitproxy and internal/sandbox/toolsocket.go: a sandboxed agent *)
(* asks for git invocations in the working tree it was given, which murod  *)
(* runs on the host, each under its deadline, while the operator works in  *)
(* the same repository.                                                    *)
(***************************************************************************)
EXTENDS GitPolicy

CONSTANTS
  Id,          \* sandbox ids: each has its own working tree
  Branch,      \* branches of the repository
  Req,         \* requests in flight: a goroutine each
  Ask,         \* what an agent may ask: [sub, cwd, args]
  Mounts, Repos, DaemonSubs,   \* what its tool socket was started with
  MaxWork      \* commits that are made

VARIABLES
  tree,     \* the working tree of each sandbox: [there, head, dirty, base],
            \* base what its sidecar file says
  refs,     \* branches that exist
  log,      \* the commits each one reaches
  squashed, \* those whose changes a squash has put on it
  remote,   \* and those of the remote's branch of that name
  made,     \* how many commits have been made: they are numbered
  req,      \* the handlers' locals
  moved     \* history: requests whose tree was switched to another branch meanwhile

Work == 1..MaxWork
NoTree == [there |-> FALSE, head |-> "", dirty |-> FALSE, base |-> ""]
NoReq == [at |-> "idle"]
gitVars == <<tree, refs, log, squashed, remote, made>>
proxyVars == <<req, moved>>

Repo(r) == ResolveRepo(Repos, TranslateCwd(Mounts, req[r].ask.cwd))
Tree(r) == tree[req[r].id]
Goto(r, point) == req' = [req EXCEPT ![r].at = point]

(* handleConn, Handle: Validate and the checks that come first. *)
Begin(r, i) ==
  /\ req[r] = NoReq
  /\ \E ask \in Ask :
       req' = [req EXCEPT ![r] =
         [id |-> i, ask |-> ask,
          at |-> IF ~Validate(ask, Mounts, Repos, DaemonSubs) THEN "refused"
                 ELSE CASE ask.sub = "commit" -> "branch"
                        [] ask.sub = "push"   -> "plan"
                        [] OTHER              -> "run"]]
  /\ moved' = moved \ {r}
  /\ UNCHANGED gitVars

(* Slip: a commit is run without the check. *)
CheckCurrentBranchNot(r) ==
  /\ req[r].at = "branch"
  /\ Goto(r, IF Tree(r).there THEN "run" ELSE "refused")
  /\ UNCHANGED <<gitVars, moved>>

(* CheckCurrentBranch *)
CheckCurrentBranch(r) ==
  /\ req[r].at = "branch"
  /\ Goto(r, IF Tree(r).there /\ Tree(r).head \in Repo(r).branches
             THEN "run" ELSE "refused")
  /\ UNCHANGED <<gitVars, moved>>

(* What `git push <remote> <refspec>' would do: one update, from the branch
   named or the one checked out, to the one named or that of the same name. *)
Named(name, r) == IF name = "HEAD" THEN Tree(r).head ELSE name
Update(r) ==
  LET spec == Refspec[req[r].ask.args[2]]
      to == Named(spec.dst, r)
      from == Named(spec.src, r)
      tip == IF spec.src = "" THEN {} ELSE log[from]
  IN  IF ~Tree(r).there \/ (spec.src # "" /\ from \notin refs) THEN {}
      ELSE {[to |-> to, tip |-> tip,
             flag |-> CASE tip = remote[to]                             -> "="
                        [] spec.src = "" \/ remote[to] \subseteq tip    -> " "
                        [] spec.force                                   -> "+"
                        [] OTHER                                        -> "!"]}

(* The dry run of a push, and CheckPushPlan. *)
PlanPush(r) ==
  /\ req[r].at = "plan"
  /\ Goto(r, IF CheckPushPlan(Update(r), Repo(r)) THEN "run" ELSE "refused")
  /\ UNCHANGED <<gitVars, moved>>

(* git commit *)
Commits(r) ==
  IF Tree(r).there /\ Tree(r).dirty /\ made < MaxWork
  THEN /\ made' = made + 1
       /\ log' = [log EXCEPT ![Tree(r).head] = @ \cup {made + 1}]
       /\ tree' = [tree EXCEPT ![req[r].id].dirty = FALSE]
  ELSE UNCHANGED <<made, log, tree>>

(* git pull: a refspec with a colon has the branch it names set, if that is a
   fast-forward or it has a "+", checked out or not; a pull that is not refused
   then merges into what the tree has checked out, unless that conflicts. *)
PullSpec(r) ==
  IF Len(req[r].ask.args) = 2 THEN Refspec[req[r].ask.args[2]]
  ELSE [src |-> Tree(r).head, dst |-> "", force |-> FALSE, pair |-> FALSE]
Pulls(r) ==
  LET spec == PullSpec(r)
      set == {b \in Branch : /\ spec.pair /\ b = spec.dst
                             /\ spec.force \/ (log[b] \subseteq remote[spec.src]
                                               /\ squashed[b] = {})}
  IN  IF Tree(r).there /\ spec.src \in Branch /\ (spec.pair => set # {})
      THEN /\ \E merged \in SUBSET {Tree(r).head} :
                log' = [b \in Branch |-> (IF b \in set THEN {} ELSE log[b]) \cup
                                         (IF b \in set \cup merged THEN remote[spec.src] ELSE {})]
           /\ squashed' = [b \in Branch |-> IF b \in set THEN {} ELSE squashed[b]]
           /\ refs' = refs \cup set
      ELSE UNCHANGED <<log, squashed, refs>>

(* RunGit.  Of the rest (status, add, fetch, ...) nothing is told apart.  When git
   has done its work, what it has started (a hook, gc) may still hold its output. *)
RunGit(r) ==
  /\ req[r].at \in {"run", "late"}
  /\ \E end \in {"answered", "held"} : Goto(r, end)
  /\ CASE req[r].ask.sub = "commit" -> Commits(r) /\ UNCHANGED <<refs, squashed, remote>>
       [] req[r].ask.sub = "push" ->
            /\ remote' = [b \in Branch |->
                 LET to == {u \in Update(r) : u.to = b /\ u.flag # "!"}
                 IN  IF to = {} THEN remote[b] ELSE (CHOOSE u \in to : TRUE).tip]
            /\ UNCHANGED <<tree, refs, log, squashed, made>>
       [] req[r].ask.sub = "pull" -> Pulls(r) /\ UNCHANGED <<tree, remote, made>>
       [] OTHER -> UNCHANGED gitVars
  /\ UNCHANGED moved

(* toolExecTimeout: git is killed, and git only.  The call ends, unless children
   of git hold its output: then it waits for them ("held"), and those of a push or
   a pull may still do what was asked ("late"). *)
Killed(r) ==
  {"answered",
   IF req[r].at = "run" /\ req[r].ask.sub \in {"push", "pull"} THEN "late" ELSE "held"}

(* Slip: only the real invocation has a deadline. *)
ExpireRun(r) ==
  /\ req[r].at = "run"
  /\ \E end \in Killed(r) : Goto(r, end)
  /\ UNCHANGED <<gitVars, moved>>

Expire(r) ==
  /\ req[r].at \in {"branch", "plan", "run"}
  /\ \E end \in Killed(r) : Goto(r, end)
  /\ UNCHANGED <<gitVars, moved>>

(* They let go of it, if they ever do. *)
LetGo(r) ==
  /\ req[r].at \in {"held", "late"}
  /\ Goto(r, "answered")
  /\ UNCHANGED <<gitVars, moved>>

(* The response is written, under its own deadline. *)
Respond(r) ==
  /\ req[r].at \in {"refused", "answered"}
  /\ req' = [req EXCEPT ![r] = NoReq]
  /\ UNCHANGED <<gitVars, moved>>

(* The agent edits a file of its tree. *)
Edit(i) ==
  /\ tree[i].there /\ ~tree[i].dirty
  /\ tree' = [tree EXCEPT ![i].dirty = TRUE]
  /\ UNCHANGED <<refs, log, squashed, remote, made, req, moved>>

(* The operator switches a tree to another branch, which no other has. *)
HeadsOf(ids) == {tree[i].head : i \in {j \in ids : tree[j].there}}
Switch(i, b) ==
  /\ tree[i].there /\ b \in refs \ HeadsOf(Id)
  /\ tree' = [tree EXCEPT ![i].head = b]
  /\ moved' = moved \cup {r \in Req : req[r] # NoReq /\ req[r].id = i}
  /\ UNCHANGED <<refs, log, squashed, remote, made, req>>

(* Others push to the remote: a commit of theirs, numbered 0. *)
Others(b) ==
  /\ 0 \notin remote[b]
  /\ remote' = [remote EXCEPT ![b] = @ \cup {0}]
  /\ UNCHANGED <<tree, refs, log, squashed, made, req, moved>>
=============================================================================
