----------------------------- MODULE GitPolicy -----------------------------
(***************************************************************************)
(* internal/gitproxy/policy.go and the checks of exec.go: which git        *)
(* invocations a sandbox's tool socket lets through, and where they run.   *)
(* A path is the sequence of its names, an argument a symbol.              *)
(***************************************************************************)
EXTENDS Sequences, Naturals
LOCAL INSTANCE SequencesExt

CONSTANTS
  Looks,    \* of each argument: "flag", "absolute" or "plain"; "" is "empty"
  Refspec   \* of each push or pull argument: [src, dst, force, pair]; one that is no
            \* pair names one branch, for both sides of a push

(* TranslateCwd: the most specific mount that holds it, the first of equals.
   A mount of "/" holds itself only: "//" is no prefix. *)
Holds(mount, cwd) ==
  cwd = mount.sandbox \/ (mount.sandbox # <<>> /\ IsStrictPrefix(mount.sandbox, cwd))
Holding(mounts, cwd) == {i \in DOMAIN mounts : Holds(mounts[i], cwd)}
Best(mounts, cwd) ==
  LET longest == Max({Len(mounts[i].sandbox) : i \in Holding(mounts, cwd)})
  IN  mounts[Min({i \in Holding(mounts, cwd) : Len(mounts[i].sandbox) = longest})]
TranslateCwd(mounts, cwd) ==
  Best(mounts, cwd).host \o SubSeq(cwd, Len(Best(mounts, cwd).sandbox) + 1, Len(cwd))

(* ResolveRepo: the first policy whose repository holds the path. *)
Covering(repos, hostCwd) == {i \in DOMAIN repos : IsPrefix(repos[i].host, hostCwd)}
ResolveRepo(repos, hostCwd) == repos[Min(Covering(repos, hostCwd))]

(* The arguments each subcommand may have. *)
NoFlag(args) == \A i \in DOMAIN args : Looks[args[i]] # "flag"
RemoteFirst(args, repo) == args = <<>> \/ args[1] \in repo.remotes
Grammar(sub, args, repo) ==
  CASE sub \in {"status", "show", "log"} -> args = <<>>
    [] sub = "diff"   -> args \in {<<>>, <<"--staged">>}
    [] sub = "add"    -> args # <<>> /\ \A i \in DOMAIN args : Looks[args[i]] = "plain"
    [] sub = "commit" -> Len(args) = 2 /\ args[1] = "-m"
    [] sub = "push"   -> /\ Len(args) = 2 /\ NoFlag(args) /\ args[1] \in repo.remotes
                         /\ Refspec[args[2]].dst \in repo.branches
    [] sub = "fetch"  -> Len(args) <= 1 /\ NoFlag(args) /\ RemoteFirst(args, repo)
    [] sub = "pull"   -> Len(args) <= 2 /\ NoFlag(args) /\ RemoteFirst(args, repo)
    [] OTHER          -> FALSE

(* Validate *)
Validate(request, mounts, repos, daemonSubs) ==
  /\ request.sub \in daemonSubs
  /\ Holding(mounts, request.cwd) # {}
  /\ Covering(repos, TranslateCwd(mounts, request.cwd)) # {}
  /\ Grammar(request.sub, request.args,
             ResolveRepo(repos, TranslateCwd(mounts, request.cwd)))

(* ParsePushPorcelain and CheckPushPlan, of the updates a dry run announces *)
CheckPushPlan(updates, repo) ==
  /\ updates # {}
  /\ \A u \in updates : u.flag # "!" /\ u.to \in repo.branches
=============================================================================
