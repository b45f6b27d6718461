------------------------ MODULE ProfilesProperties ------------------------
(***************************************************************************)
(* What the profile commands and the loads of profiles guarantee, however  *)
(* they overlap.                                                           *)
(***************************************************************************)
EXTENDS Profiles

(* Every variable holds what the code can put there: a profile is in the
   directory of its name, was validated before it was written, and its temporary
   file is there while its command is about to rename it. *)
ProfilesTypeOK ==
  /\ \A n \in Name :
       /\ Readable(n) => files[n].name = n /\ ValidateProfile(files[n])
       /\ temps[n] \subseteq {c \in Command : At(c, "rename")} \cup {litter}
       /\ docs[n] \in BOOLEAN
  /\ \A c \in Command : cmd[c].at \in {"idle", "temp", "rename", "clear", "tear", "copy"}
  /\ \A l \in Loader : /\ load[l].at \in {"idle", "read", "merge", "resolve", "docs", "launched", "failed"}
                       /\ load[l].at \in {"resolve", "docs", "launched"} => load[l].p.name = load[l].name
  /\ edition \in Nat

(* profile.go 31-36: a profile's file holds mounts that were asked for under its
   own name only, never what it inherits, whatever is edited and saved meanwhile. *)
OwnMounts == \A n \in Name : Readable(n) => Range(files[n].mounts) \subseteq given[n]

(* What is seen at a path is the last of what is mounted there or above it. *)
Shown(mounts, path) ==
  {i \in DOMAIN mounts : /\ IsPrefix(mounts[i].sandbox, path)
                         /\ \A k \in DOMAIN mounts : IsPrefix(mounts[k].sandbox, path) => k <= i}

(* What a profile has mounted after its mounts, of a whole directory. *)
Directories(p) ==
  {toolRoot : t \in {t \in DOMAIN p.tools : p.tools[t].as = "*"}}
    \cup {ExpandHome(p.private[d]) : d \in DOMAIN p.private}
    \cup {p.repos[r].at : r \in Worktrees(p)}

(* validate.go 175-178 and bwrap.go 59-61, of what is launched: however the files
   of a chain were changed while it was read, whatever is mounted where a named
   tool is, is that tool or the stub of the tool proxy; no mount of the profile
   hides a tool, at its path or above it, only a directory of tools, a private one
   or a worktree may; and where there is a git policy git is the stub. *)
ToolsStand ==
  \A l \in Loader : load[l].at = "launched" =>
    LET p == load[l].p  mounts == load[l].mounts IN
    /\ \A t \in NamedTools(p) :
         LET path == Target(p.tools[t]) IN
         /\ \A i \in DOMAIN mounts : mounts[i].sandbox = path =>
              mounts[i].host = ExpandHome(p.tools[t].host) \/ (p.repos # <<>> /\ mounts[i] = gitStub)
         /\ \A i \in Shown(mounts, path) : mounts[i].sandbox \in {path} \cup Directories(p)
    /\ p.repos # <<>> => \A i \in Shown(mounts, GitStubMountPath) : mounts[i] = gitStub

(* Above n, where a disk holds fs: the name k steps up, "" above the last; whether
   that goes on for ever; the profiles, n's own first; what a list of theirs holds
   from the base down; and the nearest working directory. *)
Up(fs, n) ==
  LET u[k \in 0..Cardinality(Name)] ==
        IF k = 0 THEN n
        ELSE IF u[k - 1] \in Name /\ fs[u[k - 1]] \notin {NoFile, Torn}
             THEN fs[u[k - 1]].extends ELSE ""
  IN  u
Cyclic(fs, n) == Up(fs, n)[Cardinality(Name)] # ""
Height(fs, n) == Cardinality({k \in 0..(Cardinality(Name) - 1) : Up(fs, n)[k] # ""})
Chain(fs, n) == [k \in 1..Height(fs, n) |-> fs[Up(fs, n)[k - 1]]]
FromBase(chain, field) == FlattenSeq([k \in 1..Len(chain) |-> Reverse(chain)[k][field]])
Nearest(chain) ==
  LET with == {k \in 1..Len(chain) : chain[k].workdir # <<>>}
  IN  IF with = {} THEN <<>> ELSE chain[CHOOSE k \in with : \A j \in with : k <= j].workdir

(* profile.go 183-201: if no file changed meanwhile, a load has the lists of the
   whole chain from the base down, the nearest of the single values and any
   switch that is on; it is refused for a cycle exactly when there is one. *)
Inherited ==
  \A l \in Loader : load[l].at # "idle" /\ load[l].edition = edition =>
    LET chain == Chain(files, load[l].name)  p == load[l].p IN
    /\ load[l].at \in {"resolve", "docs", "launched"} =>
         /\ ~Cyclic(files, load[l].name)
         /\ \A field \in {"mounts", "tools", "private", "repos"} : p[field] = FromBase(chain, field)
         /\ p.workdir = Nearest(chain)
         /\ p.audio = \E k \in 1..Len(chain) : chain[k].audio
    /\ load[l].at = "failed" /\ load[l].why = "cycle" => Cyclic(files, load[l].name)
=============================================================================
