---------------------------- MODULE ProfileRules ----------------------------
(***************************************************************************)
(* What profiles mean: internal/config/validate.go, mergeProfiles of       *)
(* profile.go, and the mounts internal/sandbox resolves a profile to.      *)
(* A path is the sequence of its names, "~" first if it is under the home  *)
(* of whoever reads it; "/" is the empty one.                              *)
(***************************************************************************)
EXTENDS SequencesExt

CONSTANTS
  Home,      \* os.UserHomeDir
  Guarded,   \* dangerousHostRoots
  Scaffold   \* sandboxScaffoldPaths

(* The fields that are told apart; a profile with no base extends "". *)
Path == Seq(STRING)
Mount == [host: Path, sandbox: Path, mode: {"ro", "rw"}]
Tool == [host: Path, as: STRING]
GitRepoPolicy == [host: Path, worktree: BOOLEAN, at: Path,
                  branches: SUBSET STRING, remotes: SUBSET STRING]
Profile == [name: STRING, extends: STRING, workdir: Path, audio: BOOLEAN, mounts: Seq(Mount),
            tools: Seq(Tool), private: Seq(Path), repos: Seq(GitRepoPolicy)]

toolRoot == <<"usr", "local", "bin">>
GitStubMountPath == Append(toolRoot, "git")

(* Nobody's home is above or below the directory of the tools. *)
ASSUME HomeAssumption ==
  /\ Home \in Path
  /\ ~IsPrefix(Home, toolRoot) /\ ~IsPrefix(toolRoot, Home)

ExpandHome(path) == IF path # <<>> /\ Head(path) = "~" THEN Home \o Tail(path) ELSE path

pathCoversOrEquals(outer, inner) == IsPrefix(outer, inner)

(* The tools mounted one by one; As == "*" mounts a whole directory. *)
NamedTools(p) == {i \in DOMAIN p.tools : p.tools[i].as \notin {"", "*"}}
Target(tool) == Append(toolRoot, tool.as)
ToolTargets(p) == {Target(p.tools[i]) : i \in NamedTools(p)}
MountTargets(p) == {p.mounts[i].sandbox : i \in DOMAIN p.mounts}

(* A mount leaves the sandbox's scaffolding alone, and if writable the host's
   system and muro's own directories and the home as a whole. *)
ValidMount(mount) ==
  /\ mount.mode = "rw" =>
       LET host == ExpandHome(mount.host) IN
         /\ \A root \in Guarded : ~pathCoversOrEquals(host, root) /\ ~pathCoversOrEquals(root, host)
         /\ ~pathCoversOrEquals(host, Home)
  /\ \A path \in Scaffold : ~pathCoversOrEquals(mount.sandbox, path)

(* A repository is worked on in a tree of its own, mounted at "at", or where a
   mount has put it. *)
ValidRepo(p, repo) ==
  \/ /\ repo.worktree /\ repo.at # <<>> /\ repo.branches = {}
     /\ repo.at \notin ToolTargets(p) \cup MountTargets(p) \cup Range(p.private)
  \/ /\ ~repo.worktree /\ repo.at = <<>>
     /\ repo.branches # {} /\ repo.remotes # {}
     /\ \E i \in DOMAIN p.mounts :
          pathCoversOrEquals(ExpandHome(p.mounts[i].host), ExpandHome(repo.host))

Worktrees(p) == {i \in DOMAIN p.repos : p.repos[i].worktree}

(* ValidateProfile.  Targets are compared as they are written. *)
ValidateProfile(p) ==
  /\ \A i, j \in NamedTools(p) : p.tools[i].as = p.tools[j].as => i = j
  /\ MountTargets(p) \cap ToolTargets(p) = {}
  /\ \A i \in DOMAIN p.mounts : ValidMount(p.mounts[i])
  /\ \A i, j \in DOMAIN p.private : p.private[i] = p.private[j] => i = j
  /\ Range(p.private) \cap (ToolTargets(p) \cup MountTargets(p)) = {}
  /\ \A i \in DOMAIN p.repos : ValidRepo(p, p.repos[i])
  /\ \A i, j \in Worktrees(p) : p.repos[i].at = p.repos[j].at => i = j

(* mergeProfiles: lists are joined, the base's first; of a single value the
   child's counts, if it has one (as for the agent, its arguments, the policy and
   the instructions); a switch is on if either has it on (also quiet mode). *)
firstNonEmpty(a, b) == IF a # <<>> THEN a ELSE b
(* Slip: the last of equals is taken to be the base's. *)
mergeProfilesBaseLast(base, child) ==
  [child EXCEPT !.extends = "", !.workdir = firstNonEmpty(@, base.workdir),
                !.audio = @ \/ base.audio, !.mounts = @ \o base.mounts, !.tools = @ \o base.tools,
                !.private = @ \o base.private, !.repos = @ \o base.repos]
mergeProfiles(base, child) ==
  [name |-> child.name, extends |-> "",
   workdir |-> firstNonEmpty(child.workdir, base.workdir),
   audio   |-> base.audio \/ child.audio,
   mounts  |-> base.mounts \o child.mounts,
   tools   |-> base.tools \o child.tools,
   private |-> base.private \o child.private,
   repos   |-> base.repos \o child.repos]

(* The elements of seq that are in set, in their order (of SelectSeq nothing can
   be proved). *)
Only(seq, set) ==
  LET f[i \in 0..Len(seq)] ==
        IF i = 0 THEN <<>>
        ELSE IF seq[i] \in set THEN Append(f[i - 1], seq[i]) ELSE f[i - 1]
  IN  f[Len(seq)]

(* ResolveMounts: the mounts, then the tools as mounts *)
ResolveMounts(p) ==
  LET Expanded(m) == [m EXCEPT !.host = ExpandHome(@), !.sandbox = ExpandHome(@)]
      ToolMount(t) == [host |-> t.host, mode |-> "ro",
                       sandbox |-> IF t.as = "*" THEN toolRoot ELSE Target(t)]
      tools == Only(p.tools, {t \in Tool : t.as # ""})
      all == p.mounts \o [i \in DOMAIN tools |-> ToolMount(tools[i])]
  IN  [i \in DOMAIN all |-> Expanded(all[i])]

(* BundleDocsMounts (the directory; AGENT.md has a mount of its own),
   PrivateDirMounts and WorktreeMounts add theirs, in that order. *)
BundleDocsMounts(name) == << [host |-> <<"profiles", name>>, sandbox |-> <<"agent">>, mode |-> "rw"] >>
PrivateDirMounts(p) ==
  [i \in DOMAIN p.private |->
     LET path == ExpandHome(p.private[i])
     IN  [host |-> <<"private">> \o path, sandbox |-> path, mode |-> "rw"]]
WorktreeMounts(p) ==
  LET repos == Only(p.repos, {r \in GitRepoPolicy : r.worktree})
  IN  [i \in DOMAIN repos |->
         [host |-> <<"worktrees", Last(repos[i].at)>>, sandbox |-> repos[i].at, mode |-> "rw"]]

(* What buildArgs appends to them, last: the stub of the tool proxy, where there
   is a git policy.  (The sockets in /run and what bwrap sets up before are left
   out: they are mounted over no tool.) *)
gitStub == [host |-> <<"muro-toolstub">>, sandbox |-> GitStubMountPath, mode |-> "ro"]
StubMounts(p) == IF p.repos # <<>> THEN <<gitStub>> ELSE <<>>
=============================================================================
