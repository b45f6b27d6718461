------------------------------ MODULE Profiles ------------------------------
(***************************************************************************)
(* The profiles on disk: internal/config/profile.go, and the commands of   *)
(* internal/cli that read, change, save and import them, each a process of *)
(* its own and none behind a lock, while murod loads them for its runs.    *)
(***************************************************************************)
EXTENDS ProfileRules

CONSTANTS
  Name,      \* profiles
  Command,   \* CLI processes
  Loader,    \* murod's goroutines that run a sandbox
  Draft,     \* what create may be asked to write, whatever the name
  Bundle,    \* what import may find: [profile, docs]
  NewMount,  \* what mount add may add
  Dir,       \* what workdir set may set
  FirstFiles,\* what the disk may hold at first
  Budgets    \* how many writes, loads and faults may come

VARIABLES
  files,     \* <name>/profile.json: a profile, NoFile or Torn
  temps,     \* the temporary files next to it: of a command, or litter
  docs,      \* whether there is any other file next to it
  cmd, load, \* the commands and loads under way
  edition,   \* history: how often a file has changed
  given,     \* history: the mounts asked for, by the name they were asked for
  left

NoFile == [name |-> "none"]
Torn == [name |-> "torn"]     \* created, and not all written
litter == "litter"

(* Commands write profiles whole, under a name of Name and with a base of it;
   what the disk holds at first is what earlier commands have left. *)
Written(p) == p \in Profile /\ p.extends \in Name \cup {""}
ASSUME ProfilesAssumption ==
  /\ Name \subseteq STRING \ {""} /\ IsFiniteSet(Name) /\ litter \notin Command
  /\ \A p \in Draft : Written(p)
  /\ \A b \in Bundle : Written(b.profile) /\ b.profile.name \in Name /\ b.docs \in BOOLEAN
  /\ NewMount \subseteq Mount /\ Dir \subseteq Path
  /\ \A first \in FirstFiles :
       /\ first = [n \in Name |-> first[n]]
       /\ \A n \in Name : \/ first[n] = NoFile
                          \/ /\ Written(first[n]) /\ first[n].name = n
                             /\ ValidateProfile(first[n])

NoCmd == [at |-> "idle"]
NoLoad == [at |-> "idle"]
vars == <<files, temps, docs, cmd, load, edition, given, left>>

Readable(n) == files[n] \notin {NoFile, Torn}

Init ==
  /\ files \in FirstFiles
  /\ temps = [n \in Name |-> {}]
  /\ docs = [n \in Name |-> FALSE]
  /\ cmd = [c \in Command |-> NoCmd]
  /\ load = [l \in Loader |-> NoLoad]
  /\ edition = 0
  /\ given = [n \in Name |-> IF Readable(n) THEN Range(files[n].mounts) ELSE {}]
  /\ left \in Budgets

Spend(what) == left[what] > 0 /\ left' = [left EXCEPT ![what] = @ - 1]
At(c, point) == cmd[c].at = point
Go(c, point) == cmd' = [cmd EXCEPT ![c].at = point]
Done(c) == cmd' = [cmd EXCEPT ![c] = NoCmd]
Wrote(n, content) == files' = [files EXCEPT ![n] = content] /\ edition' = edition + 1

----------------------------------------------------------------------------
(* A command that has a profile to save. *)
Saves(c, p) == cmd' = [cmd EXCEPT ![c] = [at |-> "temp", p |-> p]]
Asked(n, mounts) == given' = [given EXCEPT ![n] = @ \cup mounts]

(* profile create: whatever is there under the name *)
Create(c) ==
  /\ At(c, "idle") /\ Spend("writes")
  /\ \E d \in Draft, n \in Name :
       LET p == [d EXCEPT !.name = n] IN
         /\ ValidateProfile(p)
         /\ Saves(c, p)
         /\ Asked(n, Range(p.mounts))
  /\ UNCHANGED <<files, temps, docs, load, edition>>

(* profile mount add *)
MountAdd(c, p) ==
  \E m \in NewMount :
    LET q == [p EXCEPT !.mounts = Append(@, m)] IN
      /\ ValidateProfile(q)
      /\ Saves(c, q) /\ Asked(p.name, {m})

(* profile mount remove, by the path in the sandbox *)
MountRemove(c, p) ==
  \E path \in MountTargets(p) :
    LET q == [p EXCEPT !.mounts = Only(@, {m \in Mount : m.sandbox # path})]
    IN  /\ ValidateProfile(q)
        /\ Saves(c, q) /\ UNCHANGED given

(* profile agent-args, instructions and workdir set: a value is replaced, or
   cleared. *)
SetValue(c, p) ==
  \E d \in Dir \cup {<<>>} :
    LET q == [p EXCEPT !.workdir = d] IN
      /\ ValidateProfile(q)
      /\ Saves(c, q) /\ UNCHANGED given

(* profile audio and quiet-mode set *)
SetSwitch(c, p) ==
  \E on \in BOOLEAN :
    LET q == [p EXCEPT !.audio = on] IN
      /\ ValidateProfile(q)
      /\ Saves(c, q) /\ UNCHANGED given

Edited(c, p) == MountAdd(c, p) \/ MountRemove(c, p) \/ SetValue(c, p) \/ SetSwitch(c, p)

(* Slip: they load it with what it inherits. *)
ChangeResolved(c) ==
  /\ At(c, "idle") /\ Spend("writes")
  /\ \E n \in Name :
       /\ Readable(n)
       /\ LET up == files[n].extends
              p == IF up \in Name /\ Readable(up)
                   THEN [mergeProfiles(files[up], files[n]) EXCEPT !.extends = up]
                   ELSE files[n]
          IN  Edited(c, p)
  /\ UNCHANGED <<files, temps, docs, load, edition>>

(* They all load the profile as it is on disk (LoadProfileRaw). *)
Change(c) ==
  /\ At(c, "idle") /\ Spend("writes")
  /\ \E n \in Name : Readable(n) /\ Edited(c, files[n])
  /\ UNCHANGED <<files, temps, docs, load, edition>>

(* SaveProfile: a temporary file in the profile's directory is written, *)
SaveTemp(c) ==
  /\ At(c, "temp") /\ Go(c, "rename")
  /\ temps' = [temps EXCEPT ![cmd[c].p.name] = @ \cup {c}]
  /\ UNCHANGED <<files, docs, load, edition, given, left>>

(* and renamed, unless an import has removed it. *)
SaveRename(c) ==
  LET p == cmd[c].p IN
  /\ At(c, "rename") /\ Done(c)
  /\ temps' = [temps EXCEPT ![p.name] = @ \ {c}]
  /\ IF c \in temps[p.name] THEN Wrote(p.name, p) ELSE UNCHANGED <<files, edition>>
  /\ UNCHANGED <<docs, load, given, left>>

----------------------------------------------------------------------------
(* profile import, of one bundle (importOneBundle); one import at a time *)
Importing == \E c \in Command : cmd[c].at \in {"clear", "tear", "copy"}

(* Slip: a bundle is copied before it is validated. *)
ImportUnchecked(c) ==
  /\ At(c, "idle") /\ ~Importing /\ Spend("writes")
  /\ \E b \in Bundle :
       /\ ~Readable(b.profile.name)
       /\ cmd' = [cmd EXCEPT ![c] = [at |-> "tear", p |-> b.profile, docs |-> b.docs]]
       /\ Asked(b.profile.name, Range(b.profile.mounts))
  /\ UNCHANGED <<files, temps, docs, load, edition>>

Import(c) ==
  /\ At(c, "idle") /\ ~Importing /\ Spend("writes")
  /\ \E b \in Bundle, overwrite \in BOOLEAN :
       /\ overwrite \/ ~Readable(b.profile.name)
       /\ ValidateProfile(b.profile)
       /\ cmd' = [cmd EXCEPT ![c] =
            [at |-> IF overwrite THEN "clear" ELSE "tear", p |-> b.profile, docs |-> b.docs]]
       /\ Asked(b.profile.name, Range(b.profile.mounts))
  /\ UNCHANGED <<files, temps, docs, load, edition>>

(* os.RemoveAll of the directory, *)
ImportClear(c) ==
  LET n == cmd[c].p.name IN
  /\ At(c, "clear") /\ Go(c, "tear")
  /\ Wrote(n, NoFile)
  /\ temps' = [temps EXCEPT ![n] = {}]
  /\ docs' = [docs EXCEPT ![n] = FALSE]
  /\ UNCHANGED <<load, given, left>>

(* copyDir: the docs and profile.json are created, *)
ImportTear(c) ==
  LET n == cmd[c].p.name IN
  /\ At(c, "tear") /\ Go(c, "copy")
  /\ Wrote(n, Torn)
  /\ docs' = [docs EXCEPT ![n] = @ \/ cmd[c].docs]
  /\ UNCHANGED <<temps, load, given, left>>

(* filled, unless another command has renamed its own over it, and saved again. *)
ImportCopy(c) ==
  LET p == cmd[c].p IN
  /\ At(c, "copy") /\ Go(c, "temp")
  /\ IF files[p.name] = Torn THEN Wrote(p.name, p) ELSE UNCHANGED <<files, edition>>
  /\ UNCHANGED <<temps, docs, load, given, left>>

(* A write, a sync or a copy fails: the temporary file is removed.  Or the command
   is killed: the file stays. *)
Saving(c) == cmd[c].at \in {"temp", "rename", "clear", "tear", "copy"}
Fail(c) ==
  /\ Saving(c) /\ Spend("faults") /\ Done(c)
  /\ temps' = [temps EXCEPT ![cmd[c].p.name] = @ \ {c}]
  /\ UNCHANGED <<files, docs, load, edition, given>>
Die(c) ==
  /\ Saving(c) /\ Spend("faults") /\ Done(c)
  /\ temps' = [temps EXCEPT ![cmd[c].p.name] = IF c \in @ THEN (@ \ {c}) \cup {litter} ELSE @]
  /\ UNCHANGED <<files, docs, load, edition, given>>

----------------------------------------------------------------------------
(* handleSandboxRun, Restart --from-profile: LoadProfile *)
diskVars == <<files, temps, docs, cmd, edition, given>>
Loads(l, point) == load[l].at = point
Failed(l, why) ==
  load' = [load EXCEPT ![l] = [at |-> "failed", why |-> why, name |-> @.name, edition |-> @.edition]]

LoadProfile(l) ==
  /\ Loads(l, "idle") /\ Spend("loads")
  /\ \E n \in Name :
       load' = [load EXCEPT ![l] = [at |-> "read", name |-> n, next |-> n, seen |-> {},
                                    chain |-> <<>>, edition |-> edition]]
  /\ UNCHANGED diskVars

(* loadProfileResolved reads one file after the other, up the chain. *)
Read(l) ==
  LET n == load[l].next  p == files[n] IN
  /\ Loads(l, "read")
  /\ \/ n \in load[l].seen /\ Failed(l, "cycle")
     \/ n \notin load[l].seen /\ p = NoFile /\ Failed(l, "missing")
     \/ n \notin load[l].seen /\ p = Torn /\ Failed(l, "parse")
     \/ /\ n \notin load[l].seen /\ Readable(n) /\ p.extends # ""
        /\ load' = [load EXCEPT ![l].next = p.extends, ![l].seen = @ \cup {n},
                                ![l].chain = Append(@, p)]
     \/ /\ n \notin load[l].seen /\ Readable(n) /\ p.extends = ""
        /\ load' = [load EXCEPT ![l] = [at |-> "merge", name |-> @.name, edition |-> @.edition,
                                        p |-> p, chain |-> @.chain]]
  /\ UNCHANGED <<diskVars, left>>

(* The calls return, each with its profile merged into what it extends. *)
Merge(l) ==
  /\ Loads(l, "merge")
  /\ \/ /\ load[l].chain # <<>>
        /\ load' = [load EXCEPT ![l].p = mergeProfiles(@, Last(load[l].chain)),
                                ![l].chain = Front(@)]
     \/ /\ load[l].chain = <<>>
        /\ load' = [load EXCEPT ![l] = [at |-> "resolve", name |-> @.name,
                                        edition |-> @.edition, p |-> @.p]]
  /\ UNCHANGED <<diskVars, left>>

(* Slip: what was validated when it was written is taken to be valid. *)
ResolveTrusting(l) ==
  /\ Loads(l, "resolve") /\ load' = [load EXCEPT ![l].at = "docs"]
  /\ UNCHANGED <<diskVars, left>>

(* resolveSandboxFieldsFromProfile: ResolveMounts, which validates, *)
Resolve(l) ==
  LET p == load[l].p IN
  /\ Loads(l, "resolve")
  /\ \/ ~ValidateProfile(p) /\ Failed(l, "invalid")
     \/ ValidateProfile(p) /\ load' = [load EXCEPT ![l].at = "docs"]
  /\ UNCHANGED <<diskVars, left>>

(* then what is in the profile's directory besides profile.json, and the rest. *)
HasDocs(n) == docs[n] \/ temps[n] # {}
Launch(l) ==
  LET p == load[l].p
      bundle == IF HasDocs(p.name) THEN BundleDocsMounts(p.name) ELSE <<>>
  IN
  /\ Loads(l, "docs")
  /\ load' = [load EXCEPT ![l] =
       [at |-> "launched", name |-> @.name, edition |-> @.edition, p |-> p, docs |-> bundle # <<>>,
        mounts |-> ResolveMounts(p) \o bundle \o PrivateDirMounts(p) \o WorktreeMounts(p)
                     \o StubMounts(p)]]
  /\ UNCHANGED <<diskVars, left>>

(* No sound server, no instructions file, no git repository, no stub for it. *)
LaunchFails(l) ==
  /\ Loads(l, "docs") /\ Failed(l, "host") /\ UNCHANGED <<diskVars, left>>

Answer(l) ==
  /\ load[l].at \in {"launched", "failed"}
  /\ load' = [load EXCEPT ![l] = NoLoad]
  /\ UNCHANGED <<diskVars, left>>

----------------------------------------------------------------------------
Save(c) == SaveTemp(c) \/ SaveRename(c)
DoImport(c) == Import(c) \/ ImportClear(c) \/ ImportTear(c) \/ ImportCopy(c)
Next ==
  \/ \E c \in Command : \/ Create(c) \/ Change(c) \/ Save(c) \/ DoImport(c) \/ Fail(c) \/ Die(c)
  \/ \E l \in Loader : LoadProfile(l) \/ Read(l) \/ Merge(l) \/ Resolve(l) \/ Launch(l) \/ LaunchFails(l) \/ Answer(l)

Spec == Init /\ [][Next]_vars
=============================================================================
