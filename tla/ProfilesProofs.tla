--------------------------- MODULE ProfilesProofs ---------------------------
(***************************************************************************)
(* The theorems about profiles, for any names, commands and loads, however *)
(* many: what a file on disk is (DiskInv), whose mounts it holds, that a   *)
(* tool stands where it is named in what is launched (LoadInv), and that a *)
(* load has what its chain gives it (TraceInv).                            *)
(***************************************************************************)
EXTENDS ProfilesProperties, WellFoundedInduction, FiniteSetTheorems, TLAPS

(* A profile that a command may write, with no mount but those asked for under
   its name: asked[n] is what has been. *)
Good(p, asked) ==
  /\ Written(p) /\ p.name \in Name /\ ValidateProfile(p)
  /\ Range(p.mounts) \subseteq asked[p.name]

CmdRec == {NoCmd} \cup [at: {"temp", "rename"}, p: Profile]
                  \cup [at: {"clear", "tear", "copy", "temp", "rename"}, p: Profile, docs: BOOLEAN]

(* A file, and what a command is about to write, is good; a temporary file is
   litter or that of a command about to rename it, under its profile's name. *)
DiskInv ==
  /\ files \in [Name -> Profile \cup {NoFile, Torn}] /\ cmd \in [Command -> CmdRec]
  /\ temps \in [Name -> SUBSET (Command \cup {litter})] /\ docs \in [Name -> BOOLEAN]
  /\ given \in [Name -> SUBSET Mount] /\ edition \in Nat
  /\ \A n \in Name : Readable(n) => Good(files[n], given) /\ files[n].name = n
  /\ \A c \in Command : ~At(c, "idle") => Good(cmd[c].p, given)
  /\ \A n \in Name, c \in Command : c \in temps[n] => At(c, "rename") /\ cmd[c].p.name = n

(* A mount of what is launched.  (The provers do not know of a string that is
   written out that it is in STRING.) *)
Word == STRING \cup {"usr", "local", "bin", "git", "agent", "profiles", "private", "worktrees",
                     "muro-toolstub"}
Place == [host: Seq(Word), sandbox: Seq(Word), mode: {"ro", "rw"}]

(* A mount where a named tool of p is, is that tool or the stub; one at its path or
   above may be the last of a list if it is there or is a directory of p, and is
   covered by the tool's own otherwise. *)
Right(p, mount) ==
  \A t \in NamedTools(p) :
    mount.sandbox = Target(p.tools[t]) =>
      mount.host = ExpandHome(p.tools[t].host) \/ (p.repos # <<>> /\ mount = gitStub)
Placed(p, mount) ==
  \A t \in NamedTools(p) :
    IsPrefix(mount.sandbox, Target(p.tools[t])) =>
      mount.sandbox \in {Target(p.tools[t])} \cup Directories(p)
Covered(p, mounts) ==
  \A i \in DOMAIN mounts, t \in NamedTools(p) :
    IsPrefix(mounts[i].sandbox, Target(p.tools[t])) =>
      \/ mounts[i].sandbox \in {Target(p.tools[t])} \cup Directories(p)
      \/ \E k \in DOMAIN mounts : k > i /\ mounts[k].sandbox = Target(p.tools[t])
Stands(p, mounts) == (\A i \in DOMAIN mounts : Right(p, mounts[i])) /\ Covered(p, mounts)
StubLast(p, mounts) ==
  p.repos # <<>> => Len(mounts) \in DOMAIN mounts /\ mounts[Len(mounts)] = gitStub

LoadRec ==
  {NoLoad}
  \cup [at: {"read"}, name: Name, next: Name, seen: SUBSET Name, chain: Seq(Profile), edition: Nat]
  \cup [at: {"merge"}, name: Name, edition: Nat, p: Profile, chain: Seq(Profile)]
  \cup [at: {"resolve", "docs"}, name: Name, edition: Nat, p: Profile]
  \cup [at: {"launched"}, name: Name, edition: Nat, p: Profile, docs: BOOLEAN, mounts: Seq(Place)]
  \cup [at: {"failed"}, why: {"cycle", "missing", "parse", "invalid", "host"},
        name: Name, edition: Nat]

(* The first profile of a chain is the one that was asked for; what is resolved
   is it, merged, and valid once it is to be launched. *)
LoadOK(r) ==
  /\ r.at = "read" => IF r.chain = <<>> THEN r.next = r.name ELSE r.chain[1].name = r.name
  /\ r.at = "merge" => /\ r.p.extends = ""
                       /\ IF r.chain = <<>> THEN r.p.name = r.name ELSE r.chain[1].name = r.name
  /\ r.at \in {"resolve", "docs", "launched"} => r.p.name = r.name
  /\ r.at = "docs" => ValidateProfile(r.p)
  /\ r.at = "launched" => Stands(r.p, r.mounts) /\ StubLast(r.p, r.mounts)
LoadInv == load \in [Loader -> LoadRec] /\ \A l \in Loader : LoadOK(load[l])

-----------------------------------------------------------------------------
(* Induction over the natural numbers, from a set that has the ones for which
   a fact holds: of the library, the least element of a well-founded set. *)

LEMMA LeastNatural ==
  ASSUME NEW T, T \subseteq Nat, T # {}
  PROVE  \E x \in T : \A y \in T : ~(y < x)
<1>1. \E x \in T : \A y \in T : ~(<<y, x>> \in OpToRel(<, Nat))
  BY NatLessThanWellFounded, WFMin
<1> QED BY <1>1 DEF OpToRel

LEMMA Induction ==
  ASSUME NEW T, 0 \in T, \A n \in Nat : n \in T => n + 1 \in T
  PROVE  Nat \subseteq T
<1> DEFINE Rest == {n \in Nat : n \notin T}
<1> SUFFICES ASSUME Rest # {} PROVE FALSE
  OBVIOUS
<1>1. PICK x \in Rest : \A y \in Rest : ~(y < x)
  BY LeastNatural
<1>2. x # 0 /\ x - 1 \in Nat /\ x - 1 < x
  BY <1>1
<1>3. x - 1 \in T
  BY <1>1, <1>2
<1> QED BY <1>1, <1>2, <1>3

(* What Only returns is made of the elements of seq that are in set, of all of
   them. *)
OnlyUpTo(f, seq, set, n) ==
  f = [i \in 0..n |-> IF i = 0 THEN <<>>
                      ELSE IF seq[i] \in set THEN Append(f[i - 1], seq[i]) ELSE f[i - 1]]

LEMMA OnlyDefined ==
  ASSUME NEW seq, NEW set, NEW n \in Nat
  PROVE  \E f : OnlyUpTo(f, seq, set, n)
<1> DEFINE T == {m \in Nat : \E f : OnlyUpTo(f, seq, set, m)}
<1>1. 0 \in T
  <2>1. OnlyUpTo([i \in 0..0 |-> <<>>], seq, set, 0)
    BY DEF OnlyUpTo
  <2> QED BY <2>1
<1>2. ASSUME NEW m \in Nat, m \in T
      PROVE  m + 1 \in T
  <2>1. PICK f : OnlyUpTo(f, seq, set, m)
    BY <1>2
  <2>2. PICK last : last = IF seq[m + 1] \in set THEN Append(f[m], seq[m + 1]) ELSE f[m]
    OBVIOUS
  <2>3. PICK g : g = [i \in 0..(m + 1) |-> IF i = m + 1 THEN last ELSE f[i]]
    OBVIOUS
  <2>4. /\ \A i \in 0..(m + 1) : g[i] = IF i = m + 1 THEN last ELSE f[i]
        /\ \A i \in 0..m : f[i] = IF i = 0 THEN <<>>
                                  ELSE IF seq[i] \in set THEN Append(f[i - 1], seq[i]) ELSE f[i - 1]
    BY <2>1, <2>3 DEF OnlyUpTo
  <2>5. ASSUME NEW i \in 0..(m + 1)
        PROVE  g[i] = IF i = 0 THEN <<>>
                      ELSE IF seq[i] \in set THEN Append(g[i - 1], seq[i]) ELSE g[i - 1]
    <3>1. CASE i = m + 1
      <4>1. i # 0 /\ i - 1 = m /\ m \in 0..(m + 1) /\ m # m + 1
        BY <3>1
      <4>2. g[i] = last /\ g[i - 1] = f[m]
        BY <2>4, <3>1, <4>1
      <4> QED BY <2>2, <3>1, <4>1, <4>2
    <3>2. CASE i # m + 1
      <4>1. i \in 0..m /\ (i # 0 => i - 1 \in 0..(m + 1) /\ i - 1 # m + 1)
        BY <3>2
      <4> QED BY <2>4, <3>2, <4>1
    <3> QED BY <3>1, <3>2
  <2>6. OnlyUpTo(g, seq, set, m + 1)
    BY <2>3, <2>5 DEF OnlyUpTo
  <2> QED BY <2>6
<1>3. Nat \subseteq T
  BY <1>1, <1>2, Induction
<1> QED BY <1>3

LEMMA OnlyOf ==
  ASSUME NEW S, NEW seq \in Seq(S), NEW set
  PROVE  /\ Only(seq, set) \in Seq(S)
         /\ \A i \in DOMAIN Only(seq, set) :
              /\ Only(seq, set)[i] \in set
              /\ \E j \in DOMAIN seq : Only(seq, set)[i] = seq[j]
         /\ \A j \in DOMAIN seq : seq[j] \in set =>
              \E i \in DOMAIN Only(seq, set) : Only(seq, set)[i] = seq[j]
<1> DEFINE n == Len(seq)
           f == CHOOSE f : OnlyUpTo(f, seq, set, n)
           Made(s) == /\ s \in Seq(S)
                      /\ \A i \in DOMAIN s : s[i] \in set /\ \E j \in DOMAIN seq : s[i] = seq[j]
           Has(s, m) == \A j \in 1..m : seq[j] \in set => \E i \in DOMAIN s : s[i] = seq[j]
           T == {m \in Nat : m <= n => Made(f[m]) /\ Has(f[m], m)}
<1>1. n \in Nat /\ DOMAIN seq = 1..n /\ \A j \in 1..n : seq[j] \in S
  OBVIOUS
<1>2. Only(seq, set) = f[n]
  BY DEF Only, OnlyUpTo
<1>3. OnlyUpTo(f, seq, set, n)
  BY <1>1, OnlyDefined
<1> HIDE DEF f, n
<1>4. \A i \in 0..n : f[i] = IF i = 0 THEN <<>>
                             ELSE IF seq[i] \in set THEN Append(f[i - 1], seq[i]) ELSE f[i - 1]
  BY <1>3 DEF OnlyUpTo
<1>5. 0 \in T
  <2>1. f[0] = <<>>
    BY <1>1, <1>4
  <2>2. <<>> \in Seq(S) /\ \A i \in DOMAIN <<>> : FALSE
    OBVIOUS
  <2>3. Made(f[0])
    BY <2>1, <2>2
  <2>4. Has(f[0], 0)
    OBVIOUS
  <2> QED BY <2>3, <2>4
<1>6. ASSUME NEW m \in Nat, m \in T
      PROVE  m + 1 \in T
  <2> SUFFICES ASSUME m + 1 <= n PROVE Made(f[m + 1]) /\ Has(f[m + 1], m + 1)
    OBVIOUS
  <2>1. m <= n /\ m + 1 \in 0..n /\ m + 1 # 0 /\ (m + 1) - 1 = m /\ m + 1 \in 1..n
    BY <1>1
  <2>2. PICK s : s = f[m] /\ Made(s) /\ Has(s, m)
    BY <1>6, <2>1
  <2>3. f[m + 1] = IF seq[m + 1] \in set THEN Append(s, seq[m + 1]) ELSE s
    BY <1>4, <2>1, <2>2
  <2>4. PICK e : e = seq[m + 1] /\ e \in S /\ \E j \in DOMAIN seq : e = seq[j]
    BY <1>1, <2>1
  <2>5. CASE e \in set
    <3>1. PICK t : t = Append(s, e)
      OBVIOUS
    <3>2. /\ t \in Seq(S) /\ DOMAIN t = DOMAIN s \cup {Len(s) + 1} /\ t[Len(s) + 1] = e
          /\ \A i \in DOMAIN s : t[i] = s[i]
      BY <2>2, <2>4, <3>1
    <3>3. Made(t)
      BY <2>2, <2>4, <2>5, <3>2
    <3>4. Has(t, m + 1)
      <4> SUFFICES ASSUME NEW j \in 1..(m + 1), seq[j] \in set PROVE \E i \in DOMAIN t : t[i] = seq[j]
        OBVIOUS
      <4>1. CASE j = m + 1
        <5>1. Len(s) + 1 \in DOMAIN t /\ t[Len(s) + 1] = seq[j]
          BY <2>4, <3>2, <4>1
        <5> QED BY <5>1
      <4>2. CASE j # m + 1
        <5>1. j \in 1..m
          BY <4>2
        <5>2. PICK i \in DOMAIN s : s[i] = seq[j]
          BY <2>2, <5>1
        <5> QED BY <3>2, <5>2
      <4> QED BY <4>1, <4>2
    <3>5. f[m + 1] = t
      BY <2>3, <2>4, <2>5, <3>1
    <3> QED BY <3>3, <3>4, <3>5
  <2>6. CASE e \notin set
    <3>1. f[m + 1] = s
      BY <2>3, <2>4, <2>6
    <3>2. Has(s, m + 1)
      <4> SUFFICES ASSUME NEW j \in 1..(m + 1), seq[j] \in set PROVE \E i \in DOMAIN s : s[i] = seq[j]
        OBVIOUS
      <4>1. j \in 1..m
        BY <2>4, <2>6
      <4> QED BY <2>2, <4>1
    <3> QED BY <2>2, <3>1, <3>2
  <2> QED BY <2>5, <2>6
<1>7. Nat \subseteq T
  BY <1>5, <1>6, Induction
<1>8. Made(f[n]) /\ Has(f[n], n)
  BY <1>1, <1>7
<1> QED BY <1>1, <1>2, <1>8

-----------------------------------------------------------------------------
(* The disk. *)

LEMMA GoodMore ==
  ASSUME NEW p, NEW asked, NEW more, Good(p, asked), \A n \in Name : asked[n] \subseteq more[n]
  PROVE  Good(p, more)
BY DEF Good

LEMMA GoodProfile ==
  ASSUME NEW p, NEW asked, Good(p, asked)
  PROVE  /\ p \in Profile /\ p.name \in Name /\ p.extends \in Name \cup {""}
         /\ p.mounts \in Seq(Mount) /\ p.tools \in Seq(Tool) /\ p.private \in Seq(Path)
         /\ p.repos \in Seq(GitRepoPolicy)
BY DEF Good, Written, Profile

LEMMA CmdFacts ==
  ASSUME NEW r \in CmdRec
  PROVE  /\ r.at \in {"idle", "temp", "rename", "clear", "tear", "copy"}
         /\ r.at # "idle" => r.p \in Profile
         /\ r.at \in {"clear", "tear", "copy"} => r.docs \in BOOLEAN
         /\ r.at # "idle" => \A at \in {"temp", "rename"} :
              /\ [r EXCEPT !.at = at] \in CmdRec
              /\ [r EXCEPT !.at = at].at = at /\ [r EXCEPT !.at = at].p = r.p
         /\ r.at \in {"clear", "tear"} => \A at \in {"tear", "copy"} :
              /\ [r EXCEPT !.at = at] \in CmdRec
              /\ [r EXCEPT !.at = at].at = at /\ [r EXCEPT !.at = at].p = r.p
<1>1. CASE r = NoCmd
  BY <1>1 DEF NoCmd
<1>2. CASE r \in [at: {"temp", "rename"}, p: Profile]
  BY <1>2 DEF CmdRec
<1>3. CASE r \in [at: {"clear", "tear", "copy", "temp", "rename"}, p: Profile, docs: BOOLEAN]
  BY <1>3 DEF CmdRec
<1> QED BY <1>1, <1>2, <1>3 DEF CmdRec

(* A step of one command: what it may leave in the files, among the temporary
   files, in what was asked for and in the rest. *)
FilesStep ==
  \/ UNCHANGED files
  \/ \E n \in Name : \E x : /\ files' = [files EXCEPT ![n] = x]
                            /\ x \in {NoFile, Torn} \/ (Good(x, given') /\ x.name = n)
TempsStep(c, r) ==
  /\ temps' \in [Name -> SUBSET (Command \cup {litter})]
  /\ \A n \in Name, d \in Command : d \in temps'[n] =>
       \/ d \in temps[n] /\ d # c
       \/ d = c /\ r.at = "rename" /\ r.p.name = n
GivenStep == given' \in [Name -> SUBSET Mount] /\ \A n \in Name : given[n] \subseteq given'[n]
OtherStep == edition' \in {edition, edition + 1} /\ docs' \in [Name -> BOOLEAN]

LEMMA DiskFrom ==
  ASSUME DiskInv, NEW c \in Command, NEW r \in CmdRec, cmd' = [cmd EXCEPT ![c] = r],
         r.at # "idle" => Good(r.p, given'),
         FilesStep, TempsStep(c, r), GivenStep, OtherStep
  PROVE  DiskInv'
<1> USE DEF FilesStep, TempsStep, GivenStep, OtherStep
<1>1. cmd' \in [Command -> CmdRec] /\ cmd'[c] = r /\ \A d \in Command : d # c => cmd'[d] = cmd[d]
  BY DEF DiskInv
<1>2. \A d \in Command : ~At(d, "idle")' => Good(cmd'[d].p, given')
  BY <1>1, GoodMore DEF DiskInv, At
<1>3. \A n \in Name, d \in Command : d \in temps'[n] => At(d, "rename")' /\ cmd'[d].p.name = n
  BY <1>1 DEF DiskInv, At
<1>4. /\ files' \in [Name -> Profile \cup {NoFile, Torn}]
      /\ \A n \in Name : Readable(n)' => Good(files'[n], given') /\ files'[n].name = n
  <2>1. CASE UNCHANGED files
    BY <2>1, GoodMore DEF DiskInv, Readable
  <2>2. CASE ~UNCHANGED files
    <3>0. PICK m \in Name : \E x : /\ files' = [files EXCEPT ![m] = x]
                                   /\ x \in {NoFile, Torn} \/ (Good(x, given') /\ x.name = m)
      BY <2>2
    <3>1. PICK x : /\ files' = [files EXCEPT ![m] = x]
                   /\ x \in {NoFile, Torn} \/ (Good(x, given') /\ x.name = m)
      BY <3>0
    <3>2. x \in Profile \cup {NoFile, Torn}
      BY <3>1, GoodProfile
    <3>3. files'[m] = x /\ \A n \in Name : n # m => files'[n] = files[n]
      BY <3>1 DEF DiskInv
    <3>4. \A n \in Name : Readable(n)' => Good(files'[n], given') /\ files'[n].name = n
      BY <3>1, <3>3, GoodMore DEF DiskInv, Readable
    <3> QED BY <3>1, <3>2, <3>4 DEF DiskInv
  <2> QED BY <2>1, <2>2
<1>5. edition' \in Nat
  BY DEF DiskInv
<1> QED BY <1>1, <1>2, <1>3, <1>4, <1>5 DEF DiskInv

(* A command that has a profile to save, asked for with mounts. *)
LEMMA SavesDisk ==
  ASSUME DiskInv, NEW c \in Command, NEW p, At(c, "idle"),
         \/ Saves(c, p)
         \/ \E at \in {"clear", "tear"}, d \in BOOLEAN :
              cmd' = [cmd EXCEPT ![c] = [at |-> at, p |-> p, docs |-> d]],
         \/ UNCHANGED given
         \/ \E n \in Name, mounts \in SUBSET Mount : Asked(n, mounts),
         Good(p, given'), UNCHANGED <<files, temps, docs, edition>>
  PROVE  DiskInv'
<1>1. \A n \in Name : c \notin temps[n]
  BY DEF DiskInv, At
<1>2. /\ given' \in [Name -> SUBSET Mount] /\ \A n \in Name : given[n] \subseteq given'[n]
      /\ temps' = temps /\ temps \in [Name -> SUBSET (Command \cup {litter})]
      /\ docs' \in [Name -> BOOLEAN] /\ edition' = edition /\ files' = files
  BY DEF DiskInv, Asked
<1>3. p \in Profile
  BY GoodProfile
<1>4. PICK r : /\ cmd' = [cmd EXCEPT ![c] = r]
               /\ \/ r = [at |-> "temp", p |-> p]
                  \/ \E at \in {"clear", "tear"}, d \in BOOLEAN : r = [at |-> at, p |-> p, docs |-> d]
  BY DEF Saves
<1>5. r \in CmdRec /\ r.p = p /\ r.at \in {"temp", "clear", "tear"}
  BY <1>3, <1>4 DEF CmdRec
<1>6. \A n \in Name, d \in Command : d \in temps'[n] =>
        \/ d \in temps[n] /\ d # c
        \/ d = c /\ r.at = "rename" /\ r.p.name = n
  BY <1>1, <1>2
<1>7. Good(r.p, given')
  BY <1>5
<1>8. temps' \in [Name -> SUBSET (Command \cup {litter})]
  BY <1>2
<1>9. edition' \in {edition, edition + 1}
  BY <1>2
<1>10. FilesStep /\ GivenStep
  BY <1>2 DEF FilesStep, GivenStep
<1>11. TempsStep(c, r)
  BY <1>6, <1>8 DEF TempsStep
<1>12. OtherStep
  BY <1>2, <1>9 DEF OtherStep
<1> QED BY <1>4, <1>5, <1>7, <1>10, <1>11, <1>12, DiskFrom

LEMMA RangeFacts ==
  /\ \A s \in Seq(Mount) : Range(s) \in SUBSET Mount
  /\ \A s \in Seq(Mount), m \in Mount :
       Append(s, m) \in Seq(Mount) /\ Range(Append(s, m)) \subseteq Range(s) \cup {m}
<1>1. \A s \in Seq(Mount) : Range(s) \in SUBSET Mount
  BY DEF Range
<1>2. ASSUME NEW s \in Seq(Mount), NEW m \in Mount
      PROVE  Append(s, m) \in Seq(Mount) /\ Range(Append(s, m)) \subseteq Range(s) \cup {m}
  <2>1. PICK t : t = Append(s, m)
    OBVIOUS
  <2>2. /\ t \in Seq(Mount) /\ DOMAIN t = DOMAIN s \cup {Len(s) + 1} /\ t[Len(s) + 1] = m
        /\ \A i \in DOMAIN s : t[i] = s[i]
    BY <2>1
  <2> QED BY <2>1, <2>2 DEF Range
<1> QED BY <1>1, <1>2

LEMMA CreateDisk ==
  ASSUME DiskInv, NEW c \in Command, Create(c)
  PROVE  DiskInv'
<1>1. PICK d \in Draft, n \in Name : /\ ValidateProfile([d EXCEPT !.name = n])
                                     /\ Saves(c, [d EXCEPT !.name = n])
                                     /\ Asked(n, Range([d EXCEPT !.name = n].mounts))
  BY DEF Create
<1>2. PICK p : p = [d EXCEPT !.name = n]
  OBVIOUS
<1>3. Written(d) /\ n \in STRING
  BY ProfilesAssumption
<1>4. p \in Profile /\ p.name = n /\ p.extends = d.extends
  BY <1>2, <1>3 DEF Written, Profile
<1>5. p.mounts \in Seq(Mount)
  BY <1>4 DEF Profile
<1>6. Range(p.mounts) \in SUBSET Mount /\ Asked(n, Range(p.mounts))
  BY <1>1, <1>2, <1>5, RangeFacts
<1>7. given'[n] = given[n] \cup Range(p.mounts)
  BY <1>6 DEF Asked, DiskInv
<1>8. Good(p, given')
  BY <1>1, <1>2, <1>3, <1>4, <1>7 DEF Good, Written
<1> QED BY <1>1, <1>2, <1>6, <1>8, SavesDisk DEF Create

LEMMA ChangeDisk ==
  ASSUME DiskInv, NEW c \in Command, Change(c)
  PROVE  DiskInv'
<1>1. PICK n \in Name : Readable(n) /\ Edited(c, files[n])
  BY DEF Change
<1>2. PICK p : p = files[n] /\ Good(p, given) /\ p.name = n
  BY <1>1 DEF DiskInv
<1>3. p \in Profile /\ p.mounts \in Seq(Mount)
  BY <1>2, GoodProfile
<1>4. At(c, "idle") /\ UNCHANGED <<files, temps, docs, edition>>
  BY DEF Change
<1>5. CASE MountAdd(c, p)
  <2>1. PICK m \in NewMount : LET q == [p EXCEPT !.mounts = Append(@, m)]
                              IN  ValidateProfile(q) /\ Saves(c, q) /\ Asked(p.name, {m})
    BY <1>5 DEF MountAdd
  <2>2. PICK q : q = [p EXCEPT !.mounts = Append(p.mounts, m)]
    OBVIOUS
  <2>3. m \in Mount /\ Append(p.mounts, m) \in Seq(Mount)
        /\ Range(Append(p.mounts, m)) \subseteq Range(p.mounts) \cup {m}
    BY <1>3, ProfilesAssumption, RangeFacts
  <2>4. q \in Profile /\ q.name = n /\ q.extends = p.extends /\ q.mounts = Append(p.mounts, m)
    BY <1>2, <1>3, <2>2, <2>3 DEF Profile
  <2>5. given'[n] = given[n] \cup {m} /\ Asked(n, {m}) /\ {m} \in SUBSET Mount
    BY <1>2, <2>1, <2>3 DEF Asked, DiskInv
  <2>6. ValidateProfile(q) /\ Saves(c, q)
    BY <2>1, <2>2
  <2>7. Good(q, given')
    BY <1>2, <2>3, <2>4, <2>5, <2>6 DEF Good, Written
  <2> QED BY <1>4, <2>5, <2>6, <2>7, SavesDisk
<1>6. CASE MountRemove(c, p)
  <2>1. PICK path : LET q == [p EXCEPT !.mounts = Only(@, {m \in Mount : m.sandbox # path})]
                    IN  ValidateProfile(q) /\ Saves(c, q) /\ UNCHANGED given
    BY <1>6 DEF MountRemove
  <2>2. PICK mounts : mounts = Only(p.mounts, {m \in Mount : m.sandbox # path})
    OBVIOUS
  <2>3. mounts \in Seq(Mount) /\ Range(mounts) \subseteq Range(p.mounts)
    BY <1>3, <2>2, OnlyOf DEF Range
  <2>4. PICK q : q = [p EXCEPT !.mounts = mounts]
    OBVIOUS
  <2>5. q \in Profile /\ q.name = n /\ q.extends = p.extends /\ q.mounts = mounts
    BY <1>2, <1>3, <2>3, <2>4 DEF Profile
  <2>6. ValidateProfile(q) /\ Saves(c, q) /\ given' = given
    BY <2>1, <2>2, <2>4
  <2>7. Good(q, given')
    BY <1>2, <2>3, <2>5, <2>6 DEF Good, Written
  <2> QED BY <1>4, <2>6, <2>7, SavesDisk
<1>7. CASE SetValue(c, p) \/ SetSwitch(c, p)
  <2>1. PICK q : /\ \/ \E d \in Path : q = [p EXCEPT !.workdir = d]
                    \/ \E on \in BOOLEAN : q = [p EXCEPT !.audio = on]
                 /\ ValidateProfile(q) /\ Saves(c, q) /\ UNCHANGED given
    <3>1. Dir \subseteq Path
      BY ProfilesAssumption
    <3>2. <<>> \in Path
      BY DEF Path
    <3> QED BY <1>7, <3>1, <3>2 DEF SetValue, SetSwitch
  <2>2. q \in Profile /\ q.name = n /\ q.extends = p.extends /\ q.mounts = p.mounts
    BY <1>2, <1>3, <2>1 DEF Profile
  <2>3. Good(q, given')
    BY <1>2, <2>1, <2>2 DEF Good, Written
  <2> QED BY <1>4, <2>1, <2>3, SavesDisk
<1> QED BY <1>1, <1>2, <1>5, <1>6, <1>7 DEF Edited

(* The temporary file of a command that is done, or clears what is there. *)
LEMMA TempsLeft ==
  ASSUME DiskInv, NEW n \in Name, NEW rest \in SUBSET (temps[n] \cup {litter}),
         temps' = [temps EXCEPT ![n] = rest]
  PROVE  /\ temps' \in [Name -> SUBSET (Command \cup {litter})]
         /\ \A m \in Name, d \in Command : d \in temps'[m] => d \in temps[m]
<1>1. litter \notin Command
  BY ProfilesAssumption
<1>2. rest \in SUBSET (Command \cup {litter})
  BY DEF DiskInv
<1> QED BY <1>1, <1>2 DEF DiskInv

LEMMA SaveTempDisk ==
  ASSUME DiskInv, NEW c \in Command, SaveTemp(c)
  PROVE  DiskInv'
<1>1. PICK r : r = [cmd[c] EXCEPT !.at = "rename"]
  OBVIOUS
<1>2. cmd[c] \in CmdRec /\ cmd[c].at = "temp" /\ Good(cmd[c].p, given)
  BY DEF DiskInv, SaveTemp, At
<1>3. r \in CmdRec /\ r.at = "rename" /\ r.p = cmd[c].p
  BY <1>1, <1>2, CmdFacts
<1>4. PICK n \in Name : n = cmd[c].p.name
  BY <1>2 DEF Good
<1>5. temps' = [temps EXCEPT ![n] = @ \cup {c}] /\ cmd' = [cmd EXCEPT ![c] = r]
  BY <1>1, <1>4 DEF SaveTemp, Go
<1>6. /\ temps' \in [Name -> SUBSET (Command \cup {litter})]
      /\ \A m \in Name, d \in Command : d \in temps'[m] =>
           \/ d \in temps[m] /\ d # c
           \/ d = c /\ r.at = "rename" /\ r.p.name = m
  <2>1. \A m \in Name : c \notin temps[m]
    BY <1>2 DEF DiskInv, At
  <2> QED BY <1>3, <1>4, <1>5, <2>1 DEF DiskInv
<1>7. given' = given /\ files' = files /\ edition' = edition /\ docs' = docs
  BY DEF SaveTemp
<1>8. given' \in [Name -> SUBSET Mount] /\ docs' \in [Name -> BOOLEAN] /\ Good(r.p, given')
      /\ edition' \in {edition, edition + 1}
  BY <1>2, <1>3, <1>7 DEF DiskInv
<1>9. FilesStep /\ GivenStep /\ OtherStep
  BY <1>7, <1>8 DEF FilesStep, GivenStep, OtherStep
<1>10. TempsStep(c, r)
  BY <1>6 DEF TempsStep
<1> QED BY <1>3, <1>5, <1>8, <1>9, <1>10, DiskFrom

(* A step that ends a command, and may write its profile. *)
LEMMA DoneDisk ==
  ASSUME DiskInv, NEW c \in Command, NEW n \in Name, NEW rest, Done(c),
         rest \in SUBSET (temps[n] \cup {litter}), c \notin rest,
         ~At(c, "idle"), n = cmd[c].p.name, temps' = [temps EXCEPT ![n] = rest],
         UNCHANGED <<files, edition>> \/ Wrote(n, cmd[c].p), UNCHANGED <<docs, given>>
  PROVE  DiskInv'
<1>1. PICK r : r = NoCmd
  OBVIOUS
<1>2. r \in CmdRec /\ r.at = "idle" /\ cmd' = [cmd EXCEPT ![c] = r]
  BY <1>1 DEF NoCmd, CmdRec, Done
<1>3. PICK p : p = cmd[c].p /\ Good(p, given) /\ p.name = n
  BY DEF DiskInv
<1>4. /\ temps' \in [Name -> SUBSET (Command \cup {litter})]
      /\ \A m \in Name, d \in Command : d \in temps'[m] => d \in temps[m]
  BY TempsLeft
<1>5. \A m \in Name : c \notin temps'[m]
  BY <1>4 DEF DiskInv
<1>6. \A m \in Name, d \in Command : d \in temps'[m] =>
        \/ d \in temps[m] /\ d # c
        \/ d = c /\ r.at = "rename" /\ r.p.name = m
  BY <1>4, <1>5
<1>7. \/ UNCHANGED files
      \/ \E m \in Name : \E x : /\ files' = [files EXCEPT ![m] = x]
                                /\ x \in {NoFile, Torn} \/ (Good(x, given') /\ x.name = m)
  <2>1. CASE UNCHANGED files
    BY <2>1
  <2>2. CASE Wrote(n, p)
    BY <1>3, <2>2 DEF Wrote
  <2> QED BY <1>3, <2>1, <2>2
<1>8. edition' \in {edition, edition + 1}
  BY DEF Wrote
<1>9. given' \in [Name -> SUBSET Mount] /\ docs' \in [Name -> BOOLEAN] /\ given' = given
  BY DEF DiskInv
<1>10. FilesStep
  BY <1>7 DEF FilesStep
<1>11. GivenStep /\ OtherStep
  BY <1>8, <1>9 DEF GivenStep, OtherStep
<1>12. TempsStep(c, r)
  BY <1>4, <1>6 DEF TempsStep
<1> QED BY <1>2, <1>10, <1>11, <1>12, DiskFrom

LEMMA EndDisk ==
  ASSUME DiskInv, NEW c \in Command, SaveRename(c) \/ Fail(c) \/ Die(c)
  PROVE  DiskInv'
<1>1. ~At(c, "idle") /\ Done(c) /\ UNCHANGED <<docs, given>>
  BY DEF SaveRename, Fail, Die, Saving, At
<1>2. PICK n \in Name : n = cmd[c].p.name
  BY <1>1 DEF DiskInv, Good
<1>3. UNCHANGED <<files, edition>> \/ Wrote(n, cmd[c].p)
  BY <1>2 DEF SaveRename, Fail, Die
<1>4. litter # c
  BY ProfilesAssumption
<1>5. PICK rest : /\ temps' = [temps EXCEPT ![n] = rest] /\ c \notin rest
                  /\ rest \in SUBSET (temps[n] \cup {litter})
  <2>1. CASE SaveRename(c) \/ Fail(c)
    <3>1. temps' = [temps EXCEPT ![n] = temps[n] \ {c}]
      BY <1>2, <2>1 DEF SaveRename, Fail
    <3>2. c \notin temps[n] \ {c} /\ temps[n] \ {c} \in SUBSET (temps[n] \cup {litter})
      OBVIOUS
    <3> QED BY <3>1, <3>2
  <2>2. CASE Die(c)
    <3>1. temps' = [temps EXCEPT ![n] = IF c \in temps[n] THEN (temps[n] \ {c}) \cup {litter}
                                        ELSE temps[n]]
      BY <1>2, <2>2 DEF Die
    <3>2. PICK it : it = IF c \in temps[n] THEN (temps[n] \ {c}) \cup {litter} ELSE temps[n]
      OBVIOUS
    <3>3. c \notin it /\ it \in SUBSET (temps[n] \cup {litter})
      BY <1>4, <3>2
    <3> QED BY <3>1, <3>2, <3>3
  <2> QED BY <2>1, <2>2
<1> QED BY <1>1, <1>2, <1>3, <1>5, DoneDisk

LEMMA ImportDisk ==
  ASSUME DiskInv, NEW c \in Command, Import(c)
  PROVE  DiskInv'
<1>1. PICK b \in Bundle, overwrite \in BOOLEAN :
        /\ ValidateProfile(b.profile)
        /\ cmd' = [cmd EXCEPT ![c] =
             [at |-> IF overwrite THEN "clear" ELSE "tear", p |-> b.profile, docs |-> b.docs]]
        /\ Asked(b.profile.name, Range(b.profile.mounts))
  BY DEF Import
<1>2. PICK p : p = b.profile /\ Written(p) /\ p.name \in Name /\ b.docs \in BOOLEAN
  BY ProfilesAssumption
<1>3. p.mounts \in Seq(Mount)
  BY <1>2 DEF Written, Profile
<1>4. Range(p.mounts) \in SUBSET Mount /\ Asked(p.name, Range(p.mounts))
  BY <1>1, <1>2, <1>3, RangeFacts
<1>5. given'[p.name] = given[p.name] \cup Range(p.mounts)
  BY <1>2, <1>4 DEF Asked, DiskInv
<1>6. Good(p, given')
  BY <1>1, <1>2, <1>5 DEF Good
<1>7. \E at \in {"clear", "tear"}, d \in BOOLEAN :
        cmd' = [cmd EXCEPT ![c] = [at |-> at, p |-> p, docs |-> d]]
  BY <1>1, <1>2
<1>8. At(c, "idle") /\ UNCHANGED <<files, temps, docs, edition>>
  BY DEF Import
<1> QED BY <1>2, <1>4, <1>6, <1>7, <1>8, SavesDisk

LEMMA CopyDisk ==
  ASSUME DiskInv, NEW c \in Command, ImportClear(c) \/ ImportTear(c) \/ ImportCopy(c)
  PROVE  DiskInv'
<1>1. PICK point \in {"tear", "copy", "temp"} :
        /\ Go(c, point) /\ UNCHANGED given
        /\ \/ point = "tear" /\ cmd[c].at = "clear"
           \/ point = "copy" /\ cmd[c].at = "tear"
           \/ point = "temp" /\ cmd[c].at = "copy"
  BY DEF ImportClear, ImportTear, ImportCopy, At
<1>2. cmd[c] \in CmdRec /\ cmd[c].at # "idle" /\ Good(cmd[c].p, given)
  BY <1>1 DEF DiskInv, At
<1>3. PICK n \in Name : n = cmd[c].p.name
  BY <1>2 DEF Good
<1>4. PICK r : r = [cmd[c] EXCEPT !.at = point]
  OBVIOUS
<1>5. r \in CmdRec /\ r.p = cmd[c].p /\ cmd' = [cmd EXCEPT ![c] = r]
  <2>1. cmd' = [cmd EXCEPT ![c] = r]
    BY <1>1, <1>4 DEF Go
  <2>2. CASE point = "temp"
    <3>1. r = [cmd[c] EXCEPT !.at = "temp"]
      BY <1>4, <2>2
    <3> QED BY <1>2, <2>1, <3>1, CmdFacts
  <2>3. CASE point = "tear"
    <3>1. r = [cmd[c] EXCEPT !.at = "tear"] /\ cmd[c].at = "clear"
      BY <1>1, <1>4, <2>3
    <3> QED BY <1>2, <2>1, <3>1, CmdFacts
  <2>4. CASE point = "copy"
    <3>1. r = [cmd[c] EXCEPT !.at = "copy"] /\ cmd[c].at = "tear"
      BY <1>1, <1>4, <2>4
    <3> QED BY <1>2, <2>1, <3>1, CmdFacts
  <2> QED BY <2>2, <2>3, <2>4
<1>6. PICK p : p = cmd[c].p /\ Good(p, given) /\ p.name = n
  BY <1>2, <1>3
<1>7. /\ temps' \in [Name -> SUBSET (Command \cup {litter})]
      /\ \A m \in Name, d \in Command : d \in temps'[m] => d \in temps[m]
  <2>1. temps' = temps \/ temps' = [temps EXCEPT ![n] = {}]
    BY <1>3 DEF ImportClear, ImportTear, ImportCopy
  <2>2. CASE temps' = temps
    BY <2>2 DEF DiskInv
  <2>3. CASE temps' = [temps EXCEPT ![n] = {}]
    BY <2>3, TempsLeft
  <2> QED BY <2>1, <2>2, <2>3
<1>8. \A m \in Name, d \in Command : d \in temps'[m] => d \in temps[m] /\ d # c
  BY <1>1, <1>7 DEF DiskInv, At
<1>9. \/ UNCHANGED files
      \/ \E m \in Name : \E x : /\ files' = [files EXCEPT ![m] = x]
                                /\ x \in {NoFile, Torn} \/ (Good(x, given') /\ x.name = m)
  <2>1. UNCHANGED files \/ \E x \in {NoFile, Torn, p} : files' = [files EXCEPT ![n] = x]
    BY <1>3, <1>6 DEF ImportClear, ImportTear, ImportCopy, Wrote
  <2> QED BY <1>1, <1>6, <2>1
<1>10. docs' \in [Name -> BOOLEAN]
  <2>1. \/ docs' = docs
        \/ docs' = [docs EXCEPT ![n] = FALSE]
        \/ docs' = [docs EXCEPT ![n] = @ \/ cmd[c].docs] /\ cmd[c].at = "tear"
    BY <1>3 DEF ImportClear, ImportTear, ImportCopy, At
  <2>2. cmd[c].at = "tear" => (docs[n] \/ cmd[c].docs) \in BOOLEAN
    BY <1>2, CmdFacts DEF DiskInv
  <2> QED BY <2>1, <2>2 DEF DiskInv
<1>11. edition' \in {edition, edition + 1}
  BY DEF ImportClear, ImportTear, ImportCopy, Wrote
<1>12. given' = given /\ given' \in [Name -> SUBSET Mount]
  BY <1>1 DEF DiskInv
<1>13. r.at # "idle" => Good(r.p, given')
  BY <1>2, <1>5, <1>12
<1>14. FilesStep
  BY <1>9 DEF FilesStep
<1>15. GivenStep /\ OtherStep
  BY <1>10, <1>11, <1>12 DEF GivenStep, OtherStep
<1>16. TempsStep(c, r)
  BY <1>7, <1>8 DEF TempsStep
<1> QED BY <1>5, <1>13, <1>14, <1>15, <1>16, DiskFrom

LEMMA InitDisk == Init => DiskInv
<1> SUFFICES ASSUME Init PROVE DiskInv
  OBVIOUS
<1>1. PICK first \in FirstFiles : files = first
  BY DEF Init
<1>2. /\ first = [n \in Name |-> first[n]]
      /\ \A n \in Name : \/ first[n] = NoFile
                         \/ Written(first[n]) /\ first[n].name = n /\ ValidateProfile(first[n])
  BY ProfilesAssumption
<1>3. files \in [Name -> Profile \cup {NoFile, Torn}]
  <2>1. \A n \in Name : first[n] \in Profile \cup {NoFile, Torn}
    BY <1>2 DEF Written
  <2> QED BY <1>1, <1>2, <2>1
<1>4. \A n \in Name : Readable(n) => /\ Written(files[n]) /\ files[n].name = n
                                     /\ ValidateProfile(files[n]) /\ files[n].mounts \in Seq(Mount)
  BY <1>1, <1>2 DEF Readable, Written, Profile
<1>5. \A n \in Name : given[n] = IF Readable(n) THEN Range(files[n].mounts) ELSE {}
  BY DEF Init
<1>6. given \in [Name -> SUBSET Mount]
  <2>1. \A n \in Name : (IF Readable(n) THEN Range(files[n].mounts) ELSE {}) \in SUBSET Mount
    BY <1>4, RangeFacts
  <2> QED BY <2>1 DEF Init
<1>7. \A n \in Name : Readable(n) => Good(files[n], given) /\ files[n].name = n
  BY <1>4, <1>5 DEF Good
<1>8. NoCmd \in CmdRec /\ NoCmd.at = "idle"
  BY DEF CmdRec, NoCmd
<1>9. /\ cmd \in [Command -> CmdRec] /\ \A c \in Command : At(c, "idle")
      /\ temps \in [Name -> SUBSET (Command \cup {litter})] /\ \A n \in Name : temps[n] = {}
      /\ docs \in [Name -> BOOLEAN] /\ edition \in Nat
  BY <1>8 DEF Init, At
<1> QED BY <1>3, <1>6, <1>7, <1>9 DEF DiskInv

LEMMA NextDisk == DiskInv /\ [Next]_vars => DiskInv'
<1> SUFFICES ASSUME DiskInv, [Next]_vars PROVE DiskInv'
  OBVIOUS
<1>1. CASE UNCHANGED diskVars
  BY <1>1 DEF diskVars, DiskInv, Readable, At
<1>2. CASE UNCHANGED vars
  BY <1>1, <1>2 DEF vars, diskVars
<1>3. ASSUME NEW l \in Loader,
             LoadProfile(l) \/ Read(l) \/ Merge(l) \/ Resolve(l) \/ Launch(l) \/ LaunchFails(l) \/ Answer(l)
      PROVE  DiskInv'
  <2>1. UNCHANGED diskVars
    BY <1>3 DEF LoadProfile, Read, Merge, Resolve, Launch, LaunchFails, Answer, diskVars
  <2> QED BY <1>1, <2>1
<1> QED BY <1>2, <1>3, CreateDisk, ChangeDisk, SaveTempDisk, EndDisk, ImportDisk, CopyDisk
           DEF Next, Save, DoImport

(* A profile's file holds mounts that were asked for under its own name only,
   never what it inherits, whatever is edited and saved meanwhile. *)
THEOREM MountsAreOwn == Spec => []OwnMounts
<1>1. Spec => []DiskInv
  BY InitDisk, NextDisk, PTL DEF Spec
<1>2. DiskInv => OwnMounts
  BY DEF DiskInv, Good, OwnMounts
<1> QED BY <1>1, <1>2, PTL

-----------------------------------------------------------------------------
(* What is launched. *)

LEMMA Words ==
  /\ \A path \in Path : path \in Seq(Word)
  /\ toolRoot \in Seq(Word) /\ Len(toolRoot) = 3 /\ toolRoot[1] = "usr"
<1>1. \A path \in Path : path \in Seq(Word)
  <2>1. STRING \subseteq Word
    BY DEF Word
  <2> SUFFICES ASSUME NEW S, NEW T, S \subseteq T, NEW s \in Seq(S) PROVE s \in Seq(T)
    BY <2>1 DEF Path
  <2> QED OBVIOUS
<1>2. toolRoot \in Seq(Word)
  <2>1. ASSUME NEW S, NEW a \in S, NEW b \in S, NEW c \in S
        PROVE  <<a, b, c>> \in Seq(S)
    OBVIOUS
  <2>2. "usr" \in Word /\ "local" \in Word /\ "bin" \in Word
    BY DEF Word
  <2> HIDE DEF Word
  <2> QED BY <2>1, <2>2 DEF toolRoot
<1>3. Len(toolRoot) = 3
  BY DEF toolRoot
<1>4. toolRoot[1] = "usr"
  BY DEF toolRoot
<1> QED BY <1>1, <1>2, <1>3, <1>4

LEMMA AppendFacts ==
  ASSUME NEW S, NEW s \in Seq(S), NEW e \in S
  PROVE  /\ Append(s, e) \in Seq(S) /\ Len(Append(s, e)) = Len(s) + 1
         /\ Append(s, e)[Len(s) + 1] = e
         /\ \A i \in 1..Len(s) : Append(s, e)[i] = s[i]
OBVIOUS

LEMMA TargetFacts ==
  ASSUME NEW as \in Word
  PROVE  /\ Append(toolRoot, as) \in Seq(Word) /\ Len(Append(toolRoot, as)) = 4
         /\ \A i \in 1..3 : Append(toolRoot, as)[i] = toolRoot[i]
         /\ Append(toolRoot, as)[4] = as
<1>1. PICK root \in Seq(Word) : root = toolRoot /\ Len(root) = 3
  BY Words
<1>2. PICK n \in Nat : n = Len(root) /\ n = 3
  BY <1>1
<1>3. /\ Append(root, as) \in Seq(Word) /\ Len(Append(root, as)) = n + 1
      /\ Append(root, as)[n + 1] = as
      /\ \A i \in 1..n : Append(root, as)[i] = root[i]
  <2>1. PICK t : t = Append(root, as)
    OBVIOUS
  <2>2. /\ t \in Seq(Word) /\ Len(t) = Len(root) + 1 /\ t[Len(root) + 1] = as
        /\ \A i \in 1..Len(root) : t[i] = root[i]
    BY <2>1, AppendFacts
  <2> QED BY <1>2, <2>1, <2>2
<1>4. n + 1 = 4
  BY <1>2
<1> QED BY <1>1, <1>2, <1>3, <1>4

LEMMA TargetApart ==
  ASSUME NEW as \in Word, NEW other \in Word, Append(toolRoot, as) = Append(toolRoot, other)
  PROVE  as = other
<1>1. Append(toolRoot, as)[4] = as /\ Append(toolRoot, other)[4] = other
  BY TargetFacts
<1> QED BY <1>1

LEMMA PrefixOf ==
  ASSUME NEW s \in Seq(Word), NEW t \in Seq(Word), Len(s) <= Len(t),
         \A i \in 1..Len(s) : s[i] = t[i]
  PROVE  IsPrefix(s, t)
BY DEF IsPrefix

LEMMA PrefixSelf ==
  ASSUME NEW s \in Seq(Word)
  PROVE  IsPrefix(s, s)
BY PrefixOf

LEMMA PrefixFacts ==
  ASSUME NEW s \in Seq(Word), NEW t \in Seq(Word), IsPrefix(s, t)
  PROVE  /\ \A i \in 1..Len(s) : s[i] = t[i]
         /\ Len(s) = Len(t) => s = t
<1>1. Len(s) \in Nat /\ Len(t) \in Nat /\ Len(s) <= Len(t)
  BY DEF IsPrefix
<1>2. PICK u : u = SubSeq(s, 1, Len(s)) /\ u = SubSeq(t, 1, Len(s))
  BY DEF IsPrefix
<1>3. \A i \in 1..Len(s) : u[i] = s[i] /\ u[i] = t[i]
  BY <1>1, <1>2
<1>4. \A i \in 1..Len(s) : s[i] = t[i]
  BY <1>3
<1>5. ASSUME Len(s) = Len(t)
      PROVE  s = t
  BY <1>4, <1>5
<1> QED BY <1>4, <1>5

(* The home is nowhere near the tools: what is expanded to a tool's path was
   written as it. *)
LEMMA ExpandFacts ==
  /\ \A path \in Path : ExpandHome(path) \in Seq(Word)
  /\ \A path \in Path, as \in Word :
       ExpandHome(path) = Append(toolRoot, as) => path = Append(toolRoot, as)
  /\ \A as \in Word : ExpandHome(Append(toolRoot, as)) = Append(toolRoot, as)
  /\ ExpandHome(toolRoot) = toolRoot
<1>1. Home \in Seq(Word)
  BY HomeAssumption, Words
<1>2. ASSUME NEW path \in Path
      PROVE  ExpandHome(path) \in Seq(Word)
  <2>1. path \in Seq(Word)
    BY Words
  <2>2. CASE path # <<>> /\ Head(path) = "~"
    <3>1. Tail(path) \in Seq(Word)
      BY <2>1, <2>2
    <3>2. Home \o Tail(path) \in Seq(Word)
      BY <1>1, <3>1
    <3> QED BY <2>2, <3>2 DEF ExpandHome
  <2>3. CASE ~(path # <<>> /\ Head(path) = "~")
    BY <2>1, <2>3 DEF ExpandHome
  <2> QED BY <2>2, <2>3
<1>3. ASSUME NEW path \in Path, NEW as \in Word, ExpandHome(path) = Append(toolRoot, as),
             path # Append(toolRoot, as)
      PROVE  FALSE
  <2>1. path \in Seq(Word) /\ path # <<>> /\ ExpandHome(path) = Home \o Tail(path)
    BY <1>3, Words DEF ExpandHome
  <2>2. Tail(path) \in Seq(Word)
    BY <2>1
  <2>3. PICK tail \in Seq(Word) : tail = Tail(path)
    BY <2>2
  <2>4. PICK t : t = Append(toolRoot, as)
    OBVIOUS
  <2>5. /\ t \in Seq(Word) /\ Len(t) = 4 /\ \A i \in 1..3 : t[i] = toolRoot[i]
        /\ toolRoot \in Seq(Word) /\ Len(toolRoot) = 3
    BY <2>4, TargetFacts, Words
  <2>6. t = Home \o tail
    BY <1>3, <2>1, <2>3, <2>4
  <2>7. PICK n \in Nat : n = Len(Home)
    BY <1>1
  <2>8. n <= Len(t) /\ \A i \in 1..n : Home[i] = t[i]
    BY <1>1, <2>3, <2>5, <2>6, <2>7
  <2>9. n <= 3 \/ n = 4
    <3>1. n <= 4
      BY <2>5, <2>8
    <3> QED BY <3>1
  <2>10. CASE n <= 3
    <3>1. \A i \in 1..Len(Home) : Home[i] = toolRoot[i]
      BY <2>5, <2>7, <2>8, <2>10
    <3>2. Len(Home) <= Len(toolRoot)
      BY <2>5, <2>7, <2>10
    <3>3. IsPrefix(Home, toolRoot)
      BY <1>1, <2>5, <3>1, <3>2, PrefixOf
    <3> QED BY <3>3, HomeAssumption
  <2>11. CASE n = 4
    <3>1. \A i \in 1..3 : toolRoot[i] = Home[i]
      BY <2>5, <2>8, <2>11
    <3>2. Len(toolRoot) <= Len(Home) /\ \A i \in 1..Len(toolRoot) : toolRoot[i] = Home[i]
      BY <2>5, <2>7, <2>11, <3>1
    <3>3. IsPrefix(toolRoot, Home)
      BY <1>1, <2>5, <3>2, PrefixOf
    <3> QED BY <3>3, HomeAssumption
  <2> QED BY <2>9, <2>10, <2>11
<1>4. ASSUME NEW as \in Word
      PROVE  ExpandHome(Append(toolRoot, as)) = Append(toolRoot, as)
  <2>1. 1 \in 1..3
    OBVIOUS
  <2>2. Append(toolRoot, as) \in Seq(Word) /\ Append(toolRoot, as)[1] = "usr"
    BY <2>1, TargetFacts, Words
  <2>3. PICK t \in Seq(Word) : t = Append(toolRoot, as) /\ t[1] = "usr"
    BY <2>2
  <2>4. ASSUME NEW S, NEW s \in Seq(S), s # <<>>
        PROVE  Head(s) = s[1]
    BY <2>4
  <2>5. t = <<>> \/ Head(t) = "usr"
    BY <2>3, <2>4
  <2> QED BY <2>3, <2>5 DEF ExpandHome
<1>5. ExpandHome(toolRoot) = toolRoot
  BY DEF ExpandHome, toolRoot
<1> QED BY <1>2, <1>3, <1>4, <1>5

LEMMA StandsTogether ==
  ASSUME NEW p, NEW ms \in Seq(Place), NEW ns \in Seq(Place), Stands(p, ms), Stands(p, ns)
  PROVE  ms \o ns \in Seq(Place) /\ Stands(p, ms \o ns)
<1>1. PICK all : all = ms \o ns
  OBVIOUS
<1>2. /\ all \in Seq(Place)
      /\ \A i \in DOMAIN all : \/ i \in DOMAIN ms /\ all[i] = ms[i]
                               \/ \E j \in DOMAIN ns : all[i] = ns[j]
  <2>1. /\ Len(all) = Len(ms) + Len(ns) /\ Len(ms) \in Nat /\ Len(ns) \in Nat
        /\ \A i \in 1..Len(all) : all[i] = IF i <= Len(ms) THEN ms[i] ELSE ns[i - Len(ms)]
    BY <1>1
  <2>2. all \in Seq(Place) /\ DOMAIN all = 1..Len(all)
    BY <1>1
  <2>3. DOMAIN ms = 1..Len(ms) /\ DOMAIN ns = 1..Len(ns)
    OBVIOUS
  <2>4. ASSUME NEW i \in DOMAIN all
        PROVE  \/ i \in DOMAIN ms /\ all[i] = ms[i]
               \/ \E j \in DOMAIN ns : all[i] = ns[j]
    <3>1. CASE i <= Len(ms)
      BY <2>1, <2>2, <2>3, <3>1
    <3>2. CASE i > Len(ms)
      <4>1. i - Len(ms) \in DOMAIN ns
        BY <2>1, <2>2, <2>3, <3>2
      <4> QED BY <2>1, <2>2, <3>2, <4>1
    <3> QED BY <2>1, <2>2, <3>1, <3>2
  <2> QED BY <2>2, <2>4
<1>3. \A i \in DOMAIN all : Right(p, all[i])
  BY <1>2 DEF Stands
<1>4. PICK m \in Nat : m = Len(ms)
  OBVIOUS
<1>5. /\ DOMAIN all \subseteq Nat
      /\ \A i \in DOMAIN ms : i \in DOMAIN all /\ all[i] = ms[i]
      /\ \A i \in DOMAIN ns : i \in Nat /\ m + i \in DOMAIN all /\ all[m + i] = ns[i]
      /\ \A i \in DOMAIN all : i \in DOMAIN ms \/ \E j \in DOMAIN ns : i = m + j
  <2>1. /\ Len(all) = m + Len(ns) /\ Len(ns) \in Nat
        /\ \A i \in 1..Len(all) : all[i] = IF i <= m THEN ms[i] ELSE ns[i - m]
    BY <1>1, <1>4
  <2>2. DOMAIN all = 1..Len(all) /\ DOMAIN ms = 1..m /\ DOMAIN ns = 1..Len(ns)
    BY <1>2, <1>4
  <2>3. \A i \in DOMAIN ms : i \in DOMAIN all /\ all[i] = ms[i]
    BY <2>1, <2>2
  <2>4. \A i \in DOMAIN ns : i \in Nat /\ m + i \in DOMAIN all /\ all[m + i] = ns[i]
    BY <2>1, <2>2
  <2>5. ASSUME NEW i \in DOMAIN all, i \notin DOMAIN ms
        PROVE  \E j \in DOMAIN ns : i = m + j
    <3>1. i - m \in DOMAIN ns /\ i = m + (i - m)
      BY <2>1, <2>2, <2>5
    <3> QED BY <3>1
  <2> QED BY <2>2, <2>3, <2>4, <2>5
<1>6. Covered(p, all)
  <2> SUFFICES ASSUME NEW i \in DOMAIN all, NEW t \in NamedTools(p),
                      IsPrefix(all[i].sandbox, Target(p.tools[t])),
                      all[i].sandbox \notin {Target(p.tools[t])} \cup Directories(p)
               PROVE  \E k \in DOMAIN all : k > i /\ all[k].sandbox = Target(p.tools[t])
    BY DEF Covered
  <2>1. CASE i \in DOMAIN ms
    <3>1. PICK k \in DOMAIN ms : k > i /\ ms[k].sandbox = Target(p.tools[t])
      BY <1>5, <2>1 DEF Stands, Covered
    <3> QED BY <1>5, <3>1
  <2>2. CASE i \notin DOMAIN ms
    <3>1. PICK j \in DOMAIN ns : i = m + j /\ all[i] = ns[j]
      BY <1>5, <2>2
    <3>2. PICK k \in DOMAIN ns : k > j /\ ns[k].sandbox = Target(p.tools[t])
      BY <3>1 DEF Stands, Covered
    <3>3. m + k \in DOMAIN all /\ m + k > i /\ all[m + k].sandbox = Target(p.tools[t])
      BY <1>4, <1>5, <3>1, <3>2
    <3> QED BY <3>3
  <2> QED BY <2>1, <2>2
<1>7. Stands(p, all)
  BY <1>3, <1>6 DEF Stands
<1> QED BY <1>1, <1>2, <1>7

(* A list of mounts, one for each element of a list. *)
LEMMA Listed ==
  ASSUME NEW S, NEW seq \in Seq(S), NEW ms, ms = [i \in DOMAIN seq |-> ms[i]],
         \A i \in DOMAIN seq : ms[i] \in Place
  PROVE  ms \in Seq(Place) /\ DOMAIN ms = DOMAIN seq
<1>1. DOMAIN seq = 1..Len(seq) /\ Len(seq) \in Nat
  OBVIOUS
<1>2. DOMAIN ms = 1..Len(seq)
  BY <1>1
<1>3. ms \in [1..Len(seq) -> Place]
  BY <1>1
<1> QED BY <1>1, <1>2, <1>3

LEMMA SeqFacts ==
  ASSUME NEW S, NEW s \in Seq(S)
  PROVE  /\ DOMAIN s = 1..Len(s) /\ Len(s) \in Nat
         /\ \A i \in DOMAIN s : s[i] \in S
OBVIOUS

LEMMA SeqMade ==
  ASSUME NEW S, NEW n \in Nat, NEW f \in [1..n -> S]
  PROVE  f \in Seq(S)
OBVIOUS

LEMMA PlaceFacts ==
  ASSUME NEW host \in Seq(Word), NEW sandbox \in Seq(Word), NEW mode \in {"ro", "rw"}
  PROVE  [host |-> host, sandbox |-> sandbox, mode |-> mode] \in Place
BY DEF Place

LEMMA ToolFacts ==
  ASSUME NEW p \in Profile, NEW t \in NamedTools(p)
  PROVE  /\ t \in DOMAIN p.tools /\ p.tools[t] \in Tool
         /\ p.tools[t].as \in STRING /\ p.tools[t].as \in Word /\ p.tools[t].host \in Path
         /\ Target(p.tools[t]) = Append(toolRoot, p.tools[t].as)
         /\ Target(p.tools[t]) \in ToolTargets(p)
         /\ Target(p.tools[t]) \in Seq(Word) /\ Len(Target(p.tools[t])) = 4
<1>1. p.tools \in Seq(Tool)
  BY DEF Profile
<1>2. t \in DOMAIN p.tools
  BY DEF NamedTools
<1>3. p.tools[t] \in Tool
  BY <1>1, <1>2
<1>4. p.tools[t].as \in STRING /\ p.tools[t].host \in Path
  BY <1>3 DEF Tool
<1>5. p.tools[t].as \in Word
  BY <1>4 DEF Word
<1>6. Target(p.tools[t]) \in ToolTargets(p)
  BY DEF ToolTargets
<1> QED BY <1>2, <1>3, <1>4, <1>5, <1>6, TargetFacts DEF Target

(* A mount of the profile is not where a named tool is. *)
LEMMA MountStands ==
  ASSUME NEW p \in Profile, ValidateProfile(p), NEW j \in DOMAIN p.mounts, NEW m, m = p.mounts[j],
         NEW place, place = [host |-> ExpandHome(m.host), sandbox |-> ExpandHome(m.sandbox),
                             mode |-> m.mode]
  PROVE  place \in Place /\ Right(p, place)
<1>1. m \in Mount
  BY DEF Profile
<1>2. /\ m = [host |-> m.host, sandbox |-> m.sandbox, mode |-> m.mode]
      /\ m.host \in Path /\ m.sandbox \in Path /\ m.mode \in {"ro", "rw"}
  BY <1>1 DEF Mount
<1>4. place \in Place
  <2>1. PICK host \in Seq(Word) : host = ExpandHome(m.host)
    BY <1>2, ExpandFacts
  <2>2. PICK sandbox \in Seq(Word) : sandbox = ExpandHome(m.sandbox)
    BY <1>2, ExpandFacts
  <2>3. place = [host |-> host, sandbox |-> sandbox, mode |-> m.mode]
    BY <2>1, <2>2
  <2>4. [host |-> host, sandbox |-> sandbox, mode |-> m.mode] \in Place
    BY <1>2, PlaceFacts
  <2> QED BY <2>3, <2>4
<1>5. ASSUME NEW t \in NamedTools(p), place.sandbox = Target(p.tools[t])
      PROVE  FALSE
  <2>1. ExpandHome(m.sandbox) = Append(toolRoot, p.tools[t].as) /\ p.tools[t].as \in Word
    BY <1>5, ToolFacts
  <2>2. m.sandbox = Append(toolRoot, p.tools[t].as)
    BY <1>2, <2>1, ExpandFacts
  <2>3. m.sandbox \in ToolTargets(p)
    BY <2>2, ToolFacts
  <2>4. m.sandbox \in MountTargets(p)
    BY DEF MountTargets
  <2> QED BY <2>3, <2>4 DEF ValidateProfile
<1> QED BY <1>4, <1>5 DEF Right

(* What is above a tool's path, as long as it, is it. *)
LEMMA PlacedAt ==
  ASSUME NEW p \in Profile, NEW at \in Seq(Word), Len(at) = 4, NEW t \in NamedTools(p),
         IsPrefix(at, Target(p.tools[t]))
  PROVE  at = Target(p.tools[t])
<1>1. Target(p.tools[t]) \in Seq(Word) /\ Len(Target(p.tools[t])) = 4
  BY ToolFacts
<1> QED BY <1>1, PrefixFacts

(* A tool is where it is named, or all of a directory is. *)
LEMMA ToolStands ==
  ASSUME NEW p \in Profile, ValidateProfile(p), NEW j \in DOMAIN p.tools, NEW tool,
         tool = p.tools[j], tool.as # "",
         NEW place, place = [host |-> ExpandHome(tool.host), mode |-> "ro",
                             sandbox |-> ExpandHome(IF tool.as = "*" THEN toolRoot ELSE Target(tool))]
  PROVE  place \in Place /\ Right(p, place) /\ Placed(p, place)
<1>1. tool \in Tool
  <2>1. p.tools \in Seq(Tool)
    BY DEF Profile
  <2>2. p.tools[j] \in Tool
    BY <2>1, SeqFacts
  <2> QED BY <2>2
<1>2. tool.host \in Path /\ tool.as \in STRING
  BY <1>1 DEF Tool
<1>3. tool.as \in Word
  BY <1>2 DEF Word
<1>4. PICK at \in Seq(Word) : at = place.sandbox /\ at = IF tool.as = "*" THEN toolRoot ELSE Target(tool)
  <2>1. ExpandHome(Target(tool)) = Target(tool) /\ Target(tool) \in Seq(Word)
    BY <1>3, ExpandFacts, TargetFacts DEF Target
  <2> QED BY <2>1, ExpandFacts, Words
<1>5. /\ place = [host |-> ExpandHome(tool.host), sandbox |-> at, mode |-> "ro"]
      /\ place.host = ExpandHome(tool.host)
  BY <1>4
<1>6. place \in Place
  BY <1>2, <1>4, <1>5, ExpandFacts, PlaceFacts
<1>7. ASSUME NEW t \in NamedTools(p), at = Target(p.tools[t])
      PROVE  place.host = ExpandHome(p.tools[t].host)
  <2>1. tool.as # "*"
    <3> SUFFICES ASSUME tool.as = "*" PROVE FALSE
      OBVIOUS
    <3>1. PICK n \in Nat : n = Len(at)
      BY <1>4
    <3>2. n = 3
      BY <1>4, <3>1, Words
    <3>3. n = 4
      BY <1>7, <3>1, ToolFacts
    <3> QED BY <3>2, <3>3
  <2>2. j \in NamedTools(p)
    BY <2>1 DEF NamedTools
  <2>3. Append(toolRoot, tool.as) = Append(toolRoot, p.tools[t].as) /\ p.tools[t].as \in Word
    BY <1>4, <1>7, <2>1, ToolFacts DEF Target
  <2>4. p.tools[j].as = p.tools[t].as
    BY <1>3, <2>3, TargetApart
  <2>5. j = t
    BY <2>2, <2>4 DEF ValidateProfile
  <2>6. tool = p.tools[t]
    BY <2>5
  <2> QED BY <1>5, <2>6
<1>8. ASSUME NEW t \in NamedTools(p), IsPrefix(at, Target(p.tools[t]))
      PROVE  at \in {Target(p.tools[t])} \cup Directories(p)
  <2>1. CASE tool.as = "*"
    BY <1>4, <2>1 DEF Directories
  <2>2. CASE tool.as # "*"
    <3>1. Len(at) = 4
      BY <1>3, <1>4, <2>2, TargetFacts DEF Target
    <3> QED BY <1>8, <3>1, PlacedAt
  <2> QED BY <2>1, <2>2
<1> QED BY <1>4, <1>6, <1>7, <1>8 DEF Right, Placed

(* Of two lists, one behind the other. *)
MadeOf(all, s, t) ==
  \A i \in DOMAIN all :
    \/ /\ \E j \in DOMAIN s : all[i] = s[j]
       /\ \A j \in DOMAIN t : \E k \in DOMAIN all : k > i /\ all[k] = t[j]
    \/ \E j \in DOMAIN t : all[i] = t[j]

LEMMA Joined ==
  ASSUME NEW S, NEW T, NEW s \in Seq(S), NEW t \in Seq(T), NEW all, all = s \o t
  PROVE  DOMAIN all = 1..Len(all) /\ Len(all) \in Nat /\ MadeOf(all, s, t)
<1>1. /\ Len(all) = Len(s) + Len(t) /\ Len(s) \in Nat /\ Len(t) \in Nat
      /\ DOMAIN all = 1..Len(all) /\ DOMAIN s = 1..Len(s) /\ DOMAIN t = 1..Len(t)
      /\ \A i \in 1..Len(all) : all[i] = IF i <= Len(s) THEN s[i] ELSE t[i - Len(s)]
  <2>1. s \in Seq(S \cup T) /\ t \in Seq(S \cup T)
    OBVIOUS
  <2> QED BY <2>1
<1>2. ASSUME NEW i \in DOMAIN all
      PROVE  \/ /\ \E j \in DOMAIN s : all[i] = s[j]
                /\ \A j \in DOMAIN t : \E k \in DOMAIN all : k > i /\ all[k] = t[j]
             \/ \E j \in DOMAIN t : all[i] = t[j]
  <2>1. CASE i <= Len(s)
    <3>1. \E j \in DOMAIN s : all[i] = s[j]
      BY <1>1, <2>1
    <3>2. ASSUME NEW j \in DOMAIN t
          PROVE  \E k \in DOMAIN all : k > i /\ all[k] = t[j]
      <4>1. PICK k : k = Len(s) + j
        OBVIOUS
      <4>2. k \in DOMAIN all /\ k > i /\ k > Len(s) /\ k - Len(s) = j
        BY <1>1, <2>1, <4>1
      <4>3. all[k] = t[j]
        BY <1>1, <4>2
      <4> QED BY <4>2, <4>3
    <3> QED BY <3>1, <3>2
  <2>2. CASE i > Len(s)
    <3>1. i - Len(s) \in DOMAIN t
      BY <1>1, <2>2
    <3> QED BY <1>1, <2>2, <3>1
  <2>3. i <= Len(s) \/ i > Len(s)
    BY <1>1
  <2> QED BY <2>1, <2>2, <2>3
<1>3. MadeOf(all, s, t)
  BY <1>2 DEF MadeOf
<1> QED BY <1>1, <1>3

LEMMA ListStands ==
  ASSUME NEW p, NEW n \in Nat, NEW ms, ms = [i \in 1..n |-> ms[i]],
         \A i \in 1..n : ms[i] \in Place /\ Right(p, ms[i]) /\ Placed(p, ms[i])
  PROVE  ms \in Seq(Place) /\ Stands(p, ms)
<1>1. ms \in [1..n -> Place]
  OBVIOUS
<1>2. ms \in Seq(Place) /\ DOMAIN ms = 1..n
  BY <1>1
<1> QED BY <1>2 DEF Stands, Covered, Placed

(* The steps of ResolveMounts. *)
AsMounts(tools, ms) ==
  ms = [i \in DOMAIN tools |->
          [host |-> tools[i].host, mode |-> "ro",
           sandbox |-> IF tools[i].as = "*" THEN toolRoot ELSE Target(tools[i])]]
Expansion(all, ms) ==
  ms = [i \in DOMAIN all |-> [all[i] EXCEPT !.host = ExpandHome(@), !.sandbox = ExpandHome(@)]]

LEMMA ResolvedFrom ==
  ASSUME NEW p \in Profile, ValidateProfile(p), NEW tools \in Seq(Tool),
         \A i \in DOMAIN tools : tools[i].as # "" /\ \E j \in DOMAIN p.tools : tools[i] = p.tools[j],
         \A t \in NamedTools(p) : \E j \in DOMAIN tools : tools[j] = p.tools[t],
         NEW toolMounts, AsMounts(tools, toolMounts),
         NEW n \in Nat, NEW all, DOMAIN all = 1..n, MadeOf(all, p.mounts, toolMounts),
         NEW ms, Expansion(all, ms)
  PROVE  ms \in Seq(Place) /\ Stands(p, ms)
<1>1. p.mounts \in Seq(Mount)
  BY DEF Profile
<1>2. ASSUME NEW i \in DOMAIN all
      PROVE  /\ ms[i] \in Place /\ Right(p, ms[i])
             /\ \/ Placed(p, ms[i])
                \/ \A t \in NamedTools(p) : \E k \in DOMAIN ms :
                     k > i /\ ms[k].sandbox = Target(p.tools[t])
  <2>1. PICK e : e = all[i]
    OBVIOUS
  <2>2. PICK place : /\ place = ms[i]
                     /\ place = [e EXCEPT !.host = ExpandHome(e.host), !.sandbox = ExpandHome(e.sandbox)]
    BY <2>1 DEF Expansion
  <2>3. CASE /\ \E j \in DOMAIN p.mounts : e = p.mounts[j]
             /\ \A j \in DOMAIN toolMounts : \E k \in DOMAIN all : k > i /\ all[k] = toolMounts[j]
    <3>1. PICK j \in DOMAIN p.mounts : e = p.mounts[j]
      BY <2>3
    <3>2. e \in Mount
      BY <1>1, <3>1, SeqFacts
    <3>3. place = [host |-> ExpandHome(e.host), sandbox |-> ExpandHome(e.sandbox), mode |-> e.mode]
      BY <2>2, <3>2 DEF Mount
    <3>4. place \in Place /\ Right(p, place)
      BY <3>1, <3>3, MountStands
    <3>5. ASSUME NEW t \in NamedTools(p)
          PROVE  \E k \in DOMAIN ms : k > i /\ ms[k].sandbox = Target(p.tools[t])
      <4>1. PICK u \in DOMAIN tools : tools[u] = p.tools[t]
        OBVIOUS
      <4>2. PICK m : m = toolMounts[u] /\ u \in DOMAIN toolMounts
        BY DEF AsMounts
      <4>3. PICK k \in DOMAIN all : k > i /\ all[k] = m
        BY <2>3, <4>2
      <4>4. PICK tool : tool = p.tools[t] /\ tool = tools[u]
        BY <4>1
      <4>5. tool.as # "*" /\ Target(tool) = Append(toolRoot, tool.as) /\ tool.as \in Word
        BY <4>4, ToolFacts DEF NamedTools
      <4>6. m = [host |-> tool.host, mode |-> "ro", sandbox |-> Target(tool)]
        BY <4>2, <4>4, <4>5 DEF AsMounts
      <4>7. PICK own : own = ms[k] /\ own.sandbox = ExpandHome(m.sandbox) /\ k \in DOMAIN ms
        <5>1. ms[k] = [m EXCEPT !.host = ExpandHome(m.host), !.sandbox = ExpandHome(m.sandbox)]
          BY <4>3 DEF Expansion
        <5>2. ms[k].sandbox = ExpandHome(m.sandbox)
          BY <4>6, <5>1
        <5> QED BY <4>3, <5>2 DEF Expansion
      <4>8. own.sandbox = Target(tool)
        BY <4>5, <4>6, <4>7, ExpandFacts
      <4> QED BY <4>3, <4>4, <4>7, <4>8
    <3> QED BY <2>2, <3>4, <3>5
  <2>4. CASE \E j \in DOMAIN toolMounts : e = toolMounts[j]
    <3>1. PICK j \in DOMAIN tools : e = toolMounts[j]
      BY <2>4 DEF AsMounts
    <3>2. PICK k \in DOMAIN p.tools : tools[j] = p.tools[k] /\ tools[j].as # ""
      OBVIOUS
    <3>3. PICK tool : tool = p.tools[k] /\ tool = tools[j] /\ tool.as # ""
      BY <3>2
    <3>4. e = [host |-> tool.host, mode |-> "ro",
               sandbox |-> IF tool.as = "*" THEN toolRoot ELSE Target(tool)]
      BY <3>1, <3>3 DEF AsMounts
    <3>5. PICK at : at = IF tool.as = "*" THEN toolRoot ELSE Target(tool)
      OBVIOUS
    <3>6. e = [host |-> tool.host, mode |-> "ro", sandbox |-> at]
      BY <3>4, <3>5
    <3>7. place = [host |-> ExpandHome(tool.host), mode |-> "ro", sandbox |-> ExpandHome(at)]
      BY <2>2, <3>6
    <3>8. place = [host |-> ExpandHome(tool.host), mode |-> "ro",
                   sandbox |-> ExpandHome(IF tool.as = "*" THEN toolRoot ELSE Target(tool))]
      BY <3>5, <3>7
    <3>9. place \in Place /\ Right(p, place) /\ Placed(p, place)
      BY <3>3, <3>8, ToolStands
    <3> QED BY <2>2, <3>9
  <2> QED BY <2>1, <2>3, <2>4 DEF MadeOf
<1>3. ms = [i \in 1..n |-> ms[i]]
  BY DEF Expansion
<1>4. ms \in [1..n -> Place] /\ ms \in Seq(Place) /\ DOMAIN ms = 1..n
  <2>1. ms \in [1..n -> Place]
    BY <1>2, <1>3
  <2> QED BY <2>1, SeqMade
<1>5. Covered(p, ms)
  BY <1>2, <1>4 DEF Covered, Placed
<1> QED BY <1>2, <1>4, <1>5 DEF Stands

LEMMA ResolvedStands ==
  ASSUME NEW p \in Profile, ValidateProfile(p)
  PROVE  ResolveMounts(p) \in Seq(Place) /\ Stands(p, ResolveMounts(p))
<1>1. PICK named : named = {t \in Tool : t.as # ""}
  OBVIOUS
<1>2. PICK tools : tools = Only(p.tools, named)
  OBVIOUS
<1>3. p.tools \in Seq(Tool)
  BY DEF Profile
<1>4. /\ tools \in Seq(Tool)
      /\ \A i \in DOMAIN tools : tools[i] \in named /\ \E j \in DOMAIN p.tools : tools[i] = p.tools[j]
      /\ \A j \in DOMAIN p.tools : p.tools[j] \in named =>
           \E i \in DOMAIN tools : tools[i] = p.tools[j]
  BY <1>2, <1>3, OnlyOf
<1>16. \A t \in NamedTools(p) : \E j \in DOMAIN tools : tools[j] = p.tools[t]
  <2> SUFFICES ASSUME NEW t \in NamedTools(p) PROVE \E j \in DOMAIN tools : tools[j] = p.tools[t]
    OBVIOUS
  <2>1. p.tools[t] \in Tool /\ p.tools[t].as # "" /\ t \in DOMAIN p.tools
    BY ToolFacts DEF NamedTools
  <2>2. p.tools[t] \in named
    BY <1>1, <2>1
  <2> QED BY <1>4, <2>1, <2>2
<1>5. \A i \in DOMAIN tools : tools[i].as # "" /\ \E j \in DOMAIN p.tools : tools[i] = p.tools[j]
  BY <1>1, <1>4
<1>6. PICK toolMounts : AsMounts(tools, toolMounts)
  BY DEF AsMounts
<1>7. PICK all : all = p.mounts \o toolMounts
  OBVIOUS
<1>8. PICK T : toolMounts \in Seq(T)
  <2>1. PICK m \in Nat : m = Len(tools) /\ DOMAIN tools = 1..m
    BY <1>4, SeqFacts
  <2>2. PICK T : T = {toolMounts[i] : i \in DOMAIN tools}
    OBVIOUS
  <2>3. toolMounts \in [1..m -> T]
    BY <1>6, <2>1, <2>2 DEF AsMounts
  <2>4. toolMounts \in Seq(T)
    BY <2>3, SeqMade
  <2> QED BY <2>4
<1>9. PICK mounts \in Seq(Mount) : mounts = p.mounts
  BY DEF Profile
<1>10. DOMAIN all = 1..Len(all) /\ Len(all) \in Nat /\ MadeOf(all, mounts, toolMounts)
  <2>1. all = mounts \o toolMounts
    BY <1>7, <1>9
  <2> QED BY <1>8, <2>1, Joined
<1>11. PICK n \in Nat : n = Len(all) /\ DOMAIN all = 1..n
  BY <1>10
<1>12. MadeOf(all, p.mounts, toolMounts)
  BY <1>9, <1>10
<1>13. PICK ms : Expansion(all, ms)
  BY DEF Expansion
<1>14. ResolveMounts(p) = ms
  BY <1>1, <1>2, <1>6, <1>7, <1>13 DEF ResolveMounts, AsMounts, Expansion
<1>15. ms \in Seq(Place) /\ Stands(p, ms)
  BY <1>4, <1>5, <1>6, <1>11, <1>12, <1>13, <1>16, ResolvedFrom
<1> QED BY <1>14, <1>15

LEMMA ShortSeqs ==
  /\ \A a \in Word : <<a>> \in Seq(Word) /\ Len(<<a>>) = 1
  /\ \A a, b \in Word : <<a, b>> \in Seq(Word)
  /\ \A a \in Word, s \in Seq(Word) : <<a>> \o s \in Seq(Word)
<1>1. ASSUME NEW S, NEW a \in S, NEW b \in S, NEW s \in Seq(S)
      PROVE  /\ <<a>> \in Seq(S) /\ Len(<<a>>) = 1 /\ <<a, b>> \in Seq(S)
             /\ <<a>> \o s \in Seq(S)
  OBVIOUS
<1>2. <<>> \in Seq(Word)
  OBVIOUS
<1> QED BY <1>1, <1>2

(* The directory of the bundle is nowhere near the tools. *)
LEMMA BundleStands ==
  ASSUME NEW p \in Profile, NEW name \in STRING
  PROVE  BundleDocsMounts(name) \in Seq(Place) /\ Stands(p, BundleDocsMounts(name))
<1>1. "profiles" \in Word /\ "agent" \in Word /\ name \in Word
  BY DEF Word
<1>2. PICK host \in Seq(Word) : host = <<"profiles", name>>
  BY <1>1, ShortSeqs
<1>3. PICK at \in Seq(Word) : at = <<"agent">> /\ Len(at) = 1
  BY <1>1, ShortSeqs
<1>4. PICK place : place = [host |-> host, sandbox |-> at, mode |-> "rw"]
  OBVIOUS
<1>5. place \in Place /\ place.sandbox = at
  BY <1>4, PlaceFacts
<1>6. Right(p, place)
  <2> SUFFICES ASSUME NEW t \in NamedTools(p), at = Target(p.tools[t]) PROVE FALSE
    BY <1>5 DEF Right
  <2>1. PICK n \in Nat : n = Len(at) /\ n = 1
    BY <1>3
  <2>2. n = 4
    BY <2>1, ToolFacts
  <2> QED BY <2>1, <2>2
<1>13. Placed(p, place)
  <2> SUFFICES ASSUME NEW t \in NamedTools(p), IsPrefix(at, Target(p.tools[t])) PROVE FALSE
    BY <1>5 DEF Placed
  <2>1. PICK path \in Seq(Word) : path = Target(p.tools[t]) /\ path[1] = "usr"
    <3>1. 1 \in 1..3
      OBVIOUS
    <3> QED BY <3>1, ToolFacts, TargetFacts, Words
  <2>2. 1 \in 1..Len(at)
    BY <1>3
  <2>3. at[1] = path[1]
    BY <2>1, <2>2, PrefixFacts
  <2>4. at[1] = "agent"
    BY <1>3
  <2> QED BY <2>1, <2>3, <2>4
<1>7. PICK ms : ms = BundleDocsMounts(name)
  OBVIOUS
<1>8. ms = <<place>>
  BY <1>2, <1>3, <1>4, <1>7 DEF BundleDocsMounts
<1>9. ms = [i \in 1..1 |-> ms[i]] /\ \A i \in 1..1 : ms[i] = place
  BY <1>8
<1>10. \A i \in 1..1 : ms[i] \in Place /\ Right(p, ms[i]) /\ Placed(p, ms[i])
  BY <1>5, <1>6, <1>9, <1>13
<1>11. 1 \in Nat /\ ms = [i \in 1..1 |-> ms[i]]
  BY <1>9
<1>12. ms \in Seq(Place) /\ Stands(p, ms)
  BY <1>10, <1>11, ListStands
<1> QED BY <1>7, <1>12

LEMMA PrivateStands ==
  ASSUME NEW p \in Profile, ValidateProfile(p)
  PROVE  PrivateDirMounts(p) \in Seq(Place) /\ Stands(p, PrivateDirMounts(p))
<1>1. p.private \in Seq(Path)
  BY DEF Profile
<1>2. PICK n \in Nat : n = Len(p.private) /\ DOMAIN p.private = 1..n
  BY <1>1, SeqFacts
<1>3. PICK ms : ms = PrivateDirMounts(p)
  OBVIOUS
<1>4. ms = [i \in 1..n |-> ms[i]]
  BY <1>2, <1>3 DEF PrivateDirMounts
<1>5. ASSUME NEW i \in 1..n
      PROVE  ms[i] \in Place /\ Right(p, ms[i]) /\ Placed(p, ms[i])
  <2>1. PICK written \in Path : written = p.private[i]
    BY <1>1, <1>2, SeqFacts
  <2>2. PICK at \in Seq(Word) : at = ExpandHome(written)
    BY ExpandFacts
  <2>3. PICK host \in Seq(Word) : host = <<"private">> \o at
    <3>1. "private" \in Word
      BY DEF Word
    <3> QED BY <2>2, <3>1, ShortSeqs
  <2>4. ms[i] = [host |-> host, sandbox |-> at, mode |-> "rw"]
    BY <1>2, <1>3, <2>1, <2>2, <2>3 DEF PrivateDirMounts
  <2>5. ms[i] \in Place /\ ms[i].sandbox = at
    <3>1. PICK place : place = [host |-> host, sandbox |-> at, mode |-> "rw"]
      OBVIOUS
    <3>2. place \in Place
      BY <3>1, PlaceFacts
    <3>3. place.sandbox = at
      BY <3>1
    <3> QED BY <2>4, <3>1, <3>2, <3>3
  <2>6. ASSUME NEW t \in NamedTools(p), at = Target(p.tools[t])
        PROVE  FALSE
    <3>1. ExpandHome(written) = Append(toolRoot, p.tools[t].as) /\ p.tools[t].as \in Word
      BY <2>2, <2>6, ToolFacts
    <3>2. written = Append(toolRoot, p.tools[t].as)
      BY <3>1, ExpandFacts
    <3>3. written \in ToolTargets(p)
      BY <3>2, ToolFacts
    <3>4. written \in Range(p.private)
      BY <1>2, <2>1 DEF Range
    <3> QED BY <3>3, <3>4 DEF ValidateProfile
  <2>7. at \in Directories(p)
    BY <1>2, <2>1, <2>2 DEF Directories
  <2> QED BY <2>5, <2>6, <2>7 DEF Right, Placed
<1>6. ms \in Seq(Place) /\ Stands(p, ms)
  BY <1>4, <1>5, ListStands
<1> QED BY <1>3, <1>6

LEMMA WorktreesStand ==
  ASSUME NEW p \in Profile, ValidateProfile(p)
  PROVE  WorktreeMounts(p) \in Seq(Place) /\ Stands(p, WorktreeMounts(p))
<1>1. p.repos \in Seq(GitRepoPolicy)
  BY DEF Profile
<1>2. PICK named : named = {r \in GitRepoPolicy : r.worktree}
  OBVIOUS
<1>3. PICK repos \in Seq(GitRepoPolicy) :
        /\ repos = Only(p.repos, named)
        /\ \A i \in DOMAIN repos : repos[i] \in named /\ \E j \in DOMAIN p.repos : repos[i] = p.repos[j]
  BY <1>1, OnlyOf
<1>4. PICK n \in Nat : n = Len(repos) /\ DOMAIN repos = 1..n
  BY <1>3, SeqFacts
<1>5. PICK ms : ms = WorktreeMounts(p)
  OBVIOUS
<1>6. ms = [i \in DOMAIN repos |->
              [host |-> <<"worktrees", Last(repos[i].at)>>, sandbox |-> repos[i].at, mode |-> "rw"]]
  BY <1>2, <1>3, <1>5 DEF WorktreeMounts
<1>7. ms = [i \in 1..n |-> ms[i]]
  BY <1>4, <1>6
<1>8. ASSUME NEW i \in 1..n
      PROVE  ms[i] \in Place /\ Right(p, ms[i]) /\ Placed(p, ms[i])
  <2>1. PICK r \in named : r = repos[i] /\ \E j \in DOMAIN p.repos : r = p.repos[j]
    BY <1>3, <1>4
  <2>2. r.worktree /\ r \in GitRepoPolicy
    BY <1>2, <2>1
  <2>3. r.at \in Path
    BY <2>2 DEF GitRepoPolicy
  <2>4. ValidRepo(p, r)
    BY <2>1 DEF ValidateProfile
  <2>5. r.at # <<>> /\ r.at \notin ToolTargets(p)
    BY <2>2, <2>4 DEF ValidRepo
  <2>6. PICK at \in Path : at = r.at /\ at # <<>>
    BY <2>3, <2>5
  <2>7. PICK last \in Word : last = Last(at)
    <3>1. ASSUME NEW S, NEW s \in Seq(S), s # <<>>
          PROVE  Last(s) \in S
      BY <3>1 DEF Last
    <3>2. Last(at) \in STRING
      BY <2>6, <3>1 DEF Path
    <3> QED BY <3>2 DEF Word
  <2>8. PICK host \in Seq(Word) : host = <<"worktrees", last>>
    <3>1. "worktrees" \in Word
      BY DEF Word
    <3> QED BY <3>1, ShortSeqs
  <2>9. ms[i] = [host |-> host, sandbox |-> at, mode |-> "rw"]
    BY <1>4, <1>6, <2>1, <2>6, <2>7, <2>8
  <2>10. ms[i] \in Place /\ ms[i].sandbox = at
    <3>1. PICK place : place = [host |-> host, sandbox |-> at, mode |-> "rw"]
      OBVIOUS
    <3>2. at \in Seq(Word)
      BY Words
    <3>3. place \in Place
      BY <3>1, <3>2, PlaceFacts
    <3>4. place.sandbox = at
      BY <3>1
    <3> QED BY <2>9, <3>1, <3>3, <3>4
  <2>11. \A t \in NamedTools(p) : at # Target(p.tools[t])
    BY <2>5, <2>6, ToolFacts
  <2>12. at \in Directories(p)
    BY <2>1, <2>2, <2>6 DEF Directories, Worktrees
  <2> QED BY <2>10, <2>11, <2>12 DEF Right, Placed
<1>9. ms \in Seq(Place) /\ Stands(p, ms)
  BY <1>7, <1>8, ListStands
<1> QED BY <1>5, <1>9

LEMMA StubStands ==
  ASSUME NEW p \in Profile
  PROVE  StubMounts(p) \in Seq(Place) /\ Stands(p, StubMounts(p))
<1>1. "git" \in Word /\ "muro-toolstub" \in Word
  BY DEF Word
<1>2. PICK at \in Seq(Word) : at = GitStubMountPath /\ Len(at) = 4
  BY <1>1, TargetFacts DEF GitStubMountPath
<1>3. PICK host \in Seq(Word) : host = <<"muro-toolstub">>
  BY <1>1, ShortSeqs
<1>4. PICK stub \in Place : stub = gitStub /\ stub.sandbox = at
  <2>1. PICK stub : stub = [host |-> host, sandbox |-> at, mode |-> "ro"]
    OBVIOUS
  <2>2. stub \in Place /\ stub.sandbox = at
    BY <2>1, PlaceFacts
  <2> QED BY <1>2, <1>3, <2>1, <2>2 DEF gitStub
<1>5. Placed(p, stub)
  BY <1>2, <1>4, PlacedAt DEF Placed
<1>6. PICK ms : ms = StubMounts(p)
  OBVIOUS
<1>7. CASE p.repos # <<>>
  <2>1. ms = <<stub>>
    BY <1>4, <1>6, <1>7 DEF StubMounts
  <2>2. ms = [i \in 1..1 |-> ms[i]] /\ \A i \in 1..1 : ms[i] = stub
    BY <2>1
  <2>3. Right(p, stub)
    BY <1>4, <1>7 DEF Right
  <2>4. \A i \in 1..1 : ms[i] \in Place /\ Right(p, ms[i]) /\ Placed(p, ms[i])
    BY <1>5, <2>2, <2>3
  <2>5. 1 \in Nat /\ ms = [i \in 1..1 |-> ms[i]]
    BY <2>2
  <2> QED BY <1>6, <2>4, <2>5, ListStands
<1>8. CASE p.repos = <<>>
  <2>1. ms = <<>>
    BY <1>6, <1>8 DEF StubMounts
  <2>2. <<>> \in Seq(Place) /\ \A i \in DOMAIN <<>> : FALSE
    OBVIOUS
  <2> QED BY <1>6, <2>1, <2>2 DEF Stands, Covered
<1> QED BY <1>7, <1>8

LEMMA LastAppended ==
  ASSUME NEW S, NEW s \in Seq(S), NEW e \in S, NEW t, t = s \o <<e>>
  PROVE  Len(t) \in DOMAIN t /\ t[Len(t)] = e
<1>1. <<e>> \in Seq(S) /\ Len(<<e>>) = 1 /\ <<e>>[1] = e
  OBVIOUS
<1>2. Len(t) = Len(s) + 1 /\ Len(s) \in Nat /\ DOMAIN t = 1..Len(t) /\ t[Len(s) + 1] = e
  BY <1>1
<1> QED BY <1>2

LEMMA Concatenated ==
  ASSUME NEW S, NEW s \in Seq(S), NEW t \in Seq(S)
  PROVE  s \o t \in Seq(S)
OBVIOUS

LEMMA MergedProfile ==
  ASSUME NEW base \in Profile, NEW child \in Profile, base.extends = ""
  PROVE  /\ mergeProfiles(base, child) \in Profile /\ mergeProfiles(base, child).name = child.name
         /\ mergeProfiles(base, child).extends = ""
<1>1. PICK q : q = mergeProfiles(base, child)
  OBVIOUS
<1>2. /\ q.name = child.name /\ q.extends = "" /\ q.workdir = firstNonEmpty(child.workdir, base.workdir)
      /\ q.audio = (base.audio \/ child.audio) /\ q.mounts = base.mounts \o child.mounts
      /\ q.tools = base.tools \o child.tools /\ q.private = base.private \o child.private
      /\ q.repos = base.repos \o child.repos
      /\ q = [name |-> q.name, extends |-> q.extends, workdir |-> q.workdir, audio |-> q.audio,
              mounts |-> q.mounts, tools |-> q.tools, private |-> q.private, repos |-> q.repos]
  BY <1>1 DEF mergeProfiles
<1>3. \A S : \A s, t \in Seq(S) : s \o t \in Seq(S)
  BY Concatenated
<1>4. q.mounts \in Seq(Mount)
  <2>1. base.mounts \in Seq(Mount) /\ child.mounts \in Seq(Mount)
    BY DEF Profile
  <2> QED BY <1>2, <1>3, <2>1
<1>5. q.tools \in Seq(Tool)
  <2>1. base.tools \in Seq(Tool) /\ child.tools \in Seq(Tool)
    BY DEF Profile
  <2> QED BY <1>2, <1>3, <2>1
<1>6. q.private \in Seq(Path)
  <2>1. base.private \in Seq(Path) /\ child.private \in Seq(Path)
    BY DEF Profile
  <2> QED BY <1>2, <1>3, <2>1
<1>7. q.repos \in Seq(GitRepoPolicy)
  <2>1. base.repos \in Seq(GitRepoPolicy) /\ child.repos \in Seq(GitRepoPolicy)
    BY DEF Profile
  <2> QED BY <1>2, <1>3, <2>1
<1>8. q.workdir \in Path
  BY <1>2 DEF Profile, firstNonEmpty
<1>9. q.audio \in BOOLEAN
  BY <1>2 DEF Profile
<1>10. q.name \in STRING
  BY <1>2 DEF Profile
<1>11. q.extends \in STRING
  BY <1>2 DEF Profile
<1>12. q \in Profile
  BY <1>2, <1>4, <1>5, <1>6, <1>7, <1>8, <1>9, <1>10, <1>11 DEF Profile
<1> QED BY <1>1, <1>2, <1>12

LEMMA FirstOfAppend ==
  ASSUME NEW S, NEW s \in Seq(S), NEW e \in S
  PROVE  /\ Append(s, e) \in Seq(S) /\ Append(s, e) # <<>>
         /\ Append(s, e)[1] = IF s = <<>> THEN e ELSE s[1]
<1>1. CASE s = <<>>
  BY <1>1
<1>2. CASE s # <<>>
  BY <1>2
<1> QED BY <1>1, <1>2

LEMMA FrontLast ==
  ASSUME NEW S, NEW s \in Seq(S), s # <<>>
  PROVE  /\ Last(s) \in S /\ Front(s) \in Seq(S)
         /\ IF Front(s) = <<>> THEN Last(s) = s[1] ELSE Front(s)[1] = s[1]
<1>1. PICK n \in Nat : n = Len(s) /\ n # 0
  OBVIOUS
<1>2. Last(s) = s[n] /\ s[n] \in S
  BY <1>1 DEF Last
<1>3. PICK front : front = Front(s)
  OBVIOUS
<1>4. /\ front \in Seq(S) /\ Len(front) = n - 1
      /\ \A i \in 1..(n - 1) : front[i] = s[i]
  BY <1>1, <1>3 DEF Front
<1>5. CASE n = 1
  <2>1. front = <<>>
    BY <1>4, <1>5
  <2> QED BY <1>2, <1>3, <1>4, <1>5, <2>1
<1>6. CASE n # 1
  <2>1. 1 \in 1..(n - 1) /\ n - 1 # 0
    BY <1>1, <1>6
  <2>2. front # <<>> /\ front[1] = s[1]
    BY <1>4, <2>1
  <2> QED BY <1>2, <1>3, <1>4, <2>2
<1> QED BY <1>5, <1>6

(* A step of one load. *)
LEMMA LoadFrom ==
  ASSUME LoadInv, NEW l \in Loader, NEW r \in LoadRec, LoadOK(r), load' = [load EXCEPT ![l] = r]
  PROVE  LoadInv'
<1>1. load' \in [Loader -> LoadRec]
  BY DEF LoadInv
<1>2. \A k \in Loader : load'[k] = load[k] \/ load'[k] = r
  BY DEF LoadInv
<1>3. \A k \in Loader : LoadOK(load'[k])
  BY <1>2 DEF LoadInv
<1> QED BY <1>1, <1>3 DEF LoadInv

LEMMA LoadFacts ==
  ASSUME NEW r \in LoadRec
  PROVE  /\ r.at \in {"idle", "read", "merge", "resolve", "docs", "launched", "failed"}
         /\ r.at # "idle" => r.name \in Name /\ r.edition \in Nat
         /\ r.at = "read" =>
              r \in [at: {"read"}, name: Name, next: Name, seen: SUBSET Name,
                     chain: Seq(Profile), edition: Nat]
         /\ r.at = "merge" =>
              r \in [at: {"merge"}, name: Name, edition: Nat, p: Profile, chain: Seq(Profile)]
         /\ r.at \in {"resolve", "docs"} =>
              r \in [at: {"resolve", "docs"}, name: Name, edition: Nat, p: Profile]
BY DEF LoadRec, NoLoad

LEMMA LoadFails ==
  ASSUME LoadInv, NEW l \in Loader, load[l].at # "idle",
         NEW why \in {"cycle", "missing", "parse", "invalid", "host"}, Failed(l, why)
  PROVE  LoadInv'
<1>1. load[l] \in LoadRec
  BY DEF LoadInv
<1>2. PICK r : r = [at |-> "failed", why |-> why, name |-> load[l].name, edition |-> load[l].edition]
  OBVIOUS
<1>3. load[l].name \in Name /\ load[l].edition \in Nat
  BY <1>1, LoadFacts
<1>4. r \in LoadRec
  BY <1>2, <1>3 DEF LoadRec
<1>5. LoadOK(r)
  BY <1>2 DEF LoadOK
<1>6. load' = [load EXCEPT ![l] = r]
  BY <1>2 DEF Failed
<1> QED BY <1>4, <1>5, <1>6, LoadFrom

LEMMA StartLoad ==
  ASSUME DiskInv, LoadInv, NEW l \in Loader, LoadProfile(l)
  PROVE  LoadInv'
<1>1. PICK n \in Name :
        load' = [load EXCEPT ![l] = [at |-> "read", name |-> n, next |-> n, seen |-> {},
                                     chain |-> <<>>, edition |-> edition]]
  BY DEF LoadProfile
<1>2. PICK r : r = [at |-> "read", name |-> n, next |-> n, seen |-> {}, chain |-> <<>>,
                    edition |-> edition]
  OBVIOUS
<1>3. edition \in Nat /\ <<>> \in Seq(Profile) /\ {} \in SUBSET Name
  BY DEF DiskInv
<1>4. r \in LoadRec
  <2>1. r \in [at: {"read"}, name: Name, next: Name, seen: SUBSET Name, chain: Seq(Profile),
               edition: Nat]
    BY <1>2, <1>3
  <2> QED BY <2>1 DEF LoadRec
<1>5. LoadOK(r)
  BY <1>2 DEF LoadOK
<1>6. load' = [load EXCEPT ![l] = r]
  BY <1>1, <1>2
<1> QED BY <1>4, <1>5, <1>6, LoadFrom

LEMMA ReadFurther ==
  ASSUME NEW old \in [at: {"read"}, name: Name, next: Name, seen: SUBSET Name,
                      chain: Seq(Profile), edition: Nat],
         NEW up \in Name, NEW more \in SUBSET Name, NEW longer \in Seq(Profile)
  PROVE  LET r == [old EXCEPT !.next = up, !.seen = more, !.chain = longer]
         IN  /\ r \in [at: {"read"}, name: Name, next: Name, seen: SUBSET Name,
                       chain: Seq(Profile), edition: Nat]
             /\ r.at = "read" /\ r.name = old.name /\ r.chain = longer
<1>1. PICK T : T = Seq(Profile)
  OBVIOUS
<1>2. PICK U : U = SUBSET Name
  OBVIOUS
<1> QED BY <1>1, <1>2

LEMMA ReadLoad ==
  ASSUME DiskInv, LoadInv, NEW l \in Loader, Read(l)
  PROVE  LoadInv'
<1>1. PICK old \in LoadRec : old = load[l] /\ old.at = "read" /\ LoadOK(old)
  BY DEF LoadInv, Read, Loads
<1>2. old \in [at: {"read"}, name: Name, next: Name, seen: SUBSET Name, chain: Seq(Profile),
               edition: Nat]
  BY <1>1, LoadFacts
<1>3. PICK n \in Name : n = old.next
  BY <1>2
<1>4. PICK chain \in Seq(Profile) : chain = old.chain
  BY <1>2
<1>5. PICK p : p = files[n]
  OBVIOUS
<1>6. CASE Failed(l, "cycle") \/ Failed(l, "missing") \/ Failed(l, "parse")
  BY <1>1, <1>6, LoadFails
<1>7. ASSUME Readable(n)
      PROVE  p \in Profile /\ p.name = n /\ p.extends \in Name \cup {""}
  BY <1>5, <1>7, GoodProfile DEF DiskInv
<1>8. IF chain = <<>> THEN n = old.name ELSE chain[1].name = old.name
  BY <1>1, <1>3, <1>4 DEF LoadOK
<1>9. CASE /\ Readable(n) /\ p.extends # ""
           /\ load' = [load EXCEPT ![l].next = p.extends, ![l].seen = @ \cup {n},
                                   ![l].chain = Append(@, p)]
  <2>1. PICK longer : longer = Append(chain, p)
    OBVIOUS
  <2>2. /\ longer \in Seq(Profile) /\ longer # <<>>
        /\ longer[1] = IF chain = <<>> THEN p ELSE chain[1]
    BY <1>7, <1>9, <2>1, FirstOfAppend
  <2>3. PICK r : r = [old EXCEPT !.next = p.extends, !.seen = old.seen \cup {n}, !.chain = longer]
    OBVIOUS
  <2>4. load' = [load EXCEPT ![l] = r]
    BY <1>1, <1>4, <1>9, <2>1, <2>3 DEF LoadInv
  <2>5. PICK up \in Name, more \in SUBSET Name : up = p.extends /\ more = old.seen \cup {n}
    BY <1>2, <1>7, <1>9
  <2>6. r = [old EXCEPT !.next = up, !.seen = more, !.chain = longer]
    BY <2>3, <2>5
  <2>7. /\ r \in [at: {"read"}, name: Name, next: Name, seen: SUBSET Name, chain: Seq(Profile),
                 edition: Nat]
        /\ r.at = "read" /\ r.name = old.name /\ r.chain = longer
    BY <1>2, <2>2, <2>6, ReadFurther
  <2>8. r \in LoadRec
    BY <2>7 DEF LoadRec
  <2>9. longer[1].name = old.name
    BY <1>7, <1>8, <1>9, <2>2
  <2>10. LoadOK(r)
    BY <2>2, <2>7, <2>9 DEF LoadOK
  <2> QED BY <2>4, <2>8, <2>10, LoadFrom
<1>10. CASE /\ Readable(n) /\ p.extends = ""
            /\ load' = [load EXCEPT ![l] = [at |-> "merge", name |-> @.name, edition |-> @.edition,
                                            p |-> p, chain |-> @.chain]]
  <2>1. PICK r : r = [at |-> "merge", name |-> old.name, edition |-> old.edition, p |-> p,
                      chain |-> chain]
    OBVIOUS
  <2>2. load' = [load EXCEPT ![l] = r]
    BY <1>1, <1>4, <1>10, <2>1
  <2>3. r \in LoadRec
    <3>1. r \in [at: {"merge"}, name: Name, edition: Nat, p: Profile, chain: Seq(Profile)]
      BY <1>2, <1>7, <1>10, <2>1
    <3> QED BY <3>1 DEF LoadRec
  <2>4. LoadOK(r)
    BY <1>7, <1>8, <1>10, <2>1 DEF LoadOK
  <2> QED BY <2>2, <2>3, <2>4, LoadFrom
<1>11. \/ Failed(l, "cycle") \/ Failed(l, "missing") \/ Failed(l, "parse")
       \/ /\ Readable(n) /\ p.extends # ""
          /\ load' = [load EXCEPT ![l].next = p.extends, ![l].seen = @ \cup {n},
                                  ![l].chain = Append(@, p)]
       \/ /\ Readable(n) /\ p.extends = ""
          /\ load' = [load EXCEPT ![l] = [at |-> "merge", name |-> @.name, edition |-> @.edition,
                                          p |-> p, chain |-> @.chain]]
  BY <1>1, <1>3, <1>5 DEF Read
<1> QED BY <1>6, <1>9, <1>10, <1>11

LEMMA MergeLoad ==
  ASSUME LoadInv, NEW l \in Loader, Merge(l)
  PROVE  LoadInv'
<1>1. PICK old \in LoadRec : old = load[l] /\ old.at = "merge" /\ LoadOK(old)
  BY DEF LoadInv, Merge, Loads
<1>2. old \in [at: {"merge"}, name: Name, edition: Nat, p: Profile, chain: Seq(Profile)]
  BY <1>1, LoadFacts
<1>3. PICK chain \in Seq(Profile) : chain = old.chain
  BY <1>2
<1>4. PICK p \in Profile : p = old.p /\ p.extends = ""
  BY <1>1, <1>2 DEF LoadOK
<1>5. IF chain = <<>> THEN p.name = old.name ELSE chain[1].name = old.name
  BY <1>1, <1>3, <1>4 DEF LoadOK
<1>6. CASE /\ chain # <<>>
           /\ load' = [load EXCEPT ![l].p = mergeProfiles(@, Last(chain)), ![l].chain = Front(@)]
  <2>1. PICK last \in Profile, front \in Seq(Profile) :
          /\ last = Last(chain) /\ front = Front(chain)
          /\ IF front = <<>> THEN last = chain[1] ELSE front[1] = chain[1]
    BY <1>6, FrontLast
  <2>2. PICK q \in Profile : q = mergeProfiles(p, last) /\ q.name = last.name /\ q.extends = ""
    BY <1>4, MergedProfile
  <2>3. PICK r : r = [old EXCEPT !.p = q, !.chain = front]
    OBVIOUS
  <2>4. load' = [load EXCEPT ![l] = r]
    BY <1>1, <1>3, <1>4, <1>6, <2>1, <2>2, <2>3 DEF LoadInv
  <2>5. /\ r \in [at: {"merge"}, name: Name, edition: Nat, p: Profile, chain: Seq(Profile)]
        /\ r.at = "merge" /\ r.name = old.name /\ r.p = q /\ r.chain = front
    BY <1>2, <2>3
  <2>6. r \in LoadRec
    BY <2>5 DEF LoadRec
  <2>7. IF front = <<>> THEN q.name = old.name ELSE front[1].name = old.name
    BY <1>5, <1>6, <2>1, <2>2
  <2>8. LoadOK(r)
    BY <2>2, <2>5, <2>7 DEF LoadOK
  <2> QED BY <2>4, <2>6, <2>8, LoadFrom
<1>7. CASE /\ chain = <<>>
           /\ load' = [load EXCEPT ![l] = [at |-> "resolve", name |-> @.name,
                                           edition |-> @.edition, p |-> @.p]]
  <2>1. PICK r : r = [at |-> "resolve", name |-> old.name, edition |-> old.edition, p |-> p]
    OBVIOUS
  <2>2. load' = [load EXCEPT ![l] = r]
    BY <1>1, <1>4, <1>7, <2>1
  <2>3. r \in LoadRec
    <3>1. r \in [at: {"resolve", "docs"}, name: Name, edition: Nat, p: Profile]
      BY <1>2, <2>1
    <3> QED BY <3>1 DEF LoadRec
  <2>4. LoadOK(r)
    BY <1>5, <1>7, <2>1 DEF LoadOK
  <2> QED BY <2>2, <2>3, <2>4, LoadFrom
<1>8. \/ /\ chain # <<>>
         /\ load' = [load EXCEPT ![l].p = mergeProfiles(@, Last(chain)), ![l].chain = Front(@)]
      \/ /\ chain = <<>>
         /\ load' = [load EXCEPT ![l] = [at |-> "resolve", name |-> @.name,
                                         edition |-> @.edition, p |-> @.p]]
  BY <1>1, <1>3 DEF Merge
<1> QED BY <1>6, <1>7, <1>8

LEMMA ResolveLoad ==
  ASSUME LoadInv, NEW l \in Loader, Resolve(l)
  PROVE  LoadInv'
<1>1. PICK old \in LoadRec : old = load[l] /\ old.at = "resolve" /\ LoadOK(old)
  BY DEF LoadInv, Resolve, Loads
<1>2. CASE Failed(l, "invalid")
  BY <1>1, <1>2, LoadFails
<1>3. CASE ValidateProfile(old.p) /\ load' = [load EXCEPT ![l].at = "docs"]
  <2>1. old \in [at: {"resolve", "docs"}, name: Name, edition: Nat, p: Profile]
    BY <1>1, LoadFacts
  <2>2. PICK r : r = [old EXCEPT !.at = "docs"]
    OBVIOUS
  <2>3. load' = [load EXCEPT ![l] = r]
    BY <1>1, <1>3, <2>2
  <2>4. /\ r \in [at: {"resolve", "docs"}, name: Name, edition: Nat, p: Profile]
        /\ r.at = "docs" /\ r.name = old.name /\ r.p = old.p
    BY <2>1, <2>2
  <2>5. r \in LoadRec
    BY <2>4 DEF LoadRec
  <2>6. LoadOK(r)
    BY <1>1, <1>3, <2>4 DEF LoadOK
  <2> QED BY <2>3, <2>5, <2>6, LoadFrom
<1> QED BY <1>1, <1>2, <1>3 DEF Resolve

LEMMA LaunchLoad ==
  ASSUME LoadInv, NEW l \in Loader, Launch(l)
  PROVE  LoadInv'
<1>1. PICK old \in LoadRec : old = load[l] /\ old.at = "docs" /\ LoadOK(old)
  BY DEF LoadInv, Launch, Loads
<1>2. old \in [at: {"resolve", "docs"}, name: Name, edition: Nat, p: Profile]
  BY <1>1, LoadFacts
<1>3. PICK p \in Profile : p = old.p /\ p.name = old.name /\ ValidateProfile(p)
  BY <1>1, <1>2 DEF LoadOK
<1>4. PICK bundle : bundle = IF HasDocs(p.name) THEN BundleDocsMounts(p.name) ELSE <<>>
  OBVIOUS
<1>5. bundle \in Seq(Place) /\ Stands(p, bundle)
  <2>1. p.name \in STRING
    BY DEF Profile
  <2>2. CASE HasDocs(p.name)
    BY <1>4, <2>1, <2>2, BundleStands
  <2>3. CASE ~HasDocs(p.name)
    <3>1. bundle = <<>>
      BY <1>4, <2>3
    <3>2. <<>> \in Seq(Place) /\ \A i \in DOMAIN <<>> : FALSE
      OBVIOUS
    <3> QED BY <3>1, <3>2 DEF Stands, Covered
  <2> QED BY <2>2, <2>3
<1>6. PICK own \in Seq(Place) : own = ResolveMounts(p) /\ Stands(p, own)
  BY <1>3, ResolvedStands
<1>7. PICK private \in Seq(Place) : private = PrivateDirMounts(p) /\ Stands(p, private)
  BY <1>3, PrivateStands
<1>8. PICK trees \in Seq(Place) : trees = WorktreeMounts(p) /\ Stands(p, trees)
  BY <1>3, WorktreesStand
<1>9. PICK some \in Seq(Place) : some = own \o bundle /\ Stands(p, some)
  BY <1>5, <1>6, StandsTogether
<1>10. PICK more \in Seq(Place) : more = some \o private /\ Stands(p, more)
  BY <1>7, <1>9, StandsTogether
<1>18. PICK most \in Seq(Place) : most = more \o trees /\ Stands(p, most)
  BY <1>8, <1>10, StandsTogether
<1>19. PICK stubs \in Seq(Place) : stubs = StubMounts(p) /\ Stands(p, stubs)
  BY StubStands
<1>11. PICK all \in Seq(Place) : all = most \o stubs /\ Stands(p, all)
  BY <1>18, <1>19, StandsTogether
<1>12. all = ResolveMounts(p) \o bundle \o PrivateDirMounts(p) \o WorktreeMounts(p) \o StubMounts(p)
  BY <1>6, <1>7, <1>8, <1>9, <1>10, <1>11, <1>18, <1>19
<1>20. StubLast(p, all)
  <2> SUFFICES ASSUME p.repos # <<>> PROVE Len(all) \in DOMAIN all /\ all[Len(all)] = gitStub
    BY DEF StubLast
  <2>1. stubs = <<gitStub>>
    BY <1>19 DEF StubMounts
  <2>2. PICK stub : stub = gitStub
    OBVIOUS
  <2>3. stub \in Place
    BY <1>19, <2>1, <2>2
  <2>4. all = most \o <<stub>>
    BY <1>11, <2>1, <2>2
  <2> QED BY <1>18, <2>2, <2>3, <2>4, LastAppended
<1>13. PICK some_docs \in BOOLEAN : some_docs = (bundle # <<>>)
  OBVIOUS
<1>14. PICK r : r = [at |-> "launched", name |-> old.name, edition |-> old.edition, p |-> p,
                     docs |-> some_docs, mounts |-> all]
  OBVIOUS
<1>15. load' = [load EXCEPT ![l] = r]
  BY <1>1, <1>3, <1>4, <1>12, <1>13, <1>14 DEF Launch
<1>16. r \in LoadRec
  <2>1. r \in [at: {"launched"}, name: Name, edition: Nat, p: Profile, docs: BOOLEAN,
               mounts: Seq(Place)]
    BY <1>2, <1>14
  <2> QED BY <2>1 DEF LoadRec
<1>17. LoadOK(r)
  BY <1>3, <1>11, <1>14, <1>20 DEF LoadOK
<1> QED BY <1>15, <1>16, <1>17, LoadFrom

LEMMA AnswerLoad ==
  ASSUME LoadInv, NEW l \in Loader, Answer(l)
  PROVE  LoadInv'
<1>1. NoLoad \in LoadRec
  BY DEF LoadRec
<1>2. LoadOK(NoLoad)
  BY DEF LoadOK, NoLoad
<1>3. load' = [load EXCEPT ![l] = NoLoad]
  BY DEF Answer
<1> QED BY <1>1, <1>2, <1>3, LoadFrom

LEMMA InitLoad == Init => LoadInv
<1>1. NoLoad \in LoadRec
  BY DEF LoadRec
<1>2. LoadOK(NoLoad)
  BY DEF LoadOK, NoLoad
<1> QED BY <1>1, <1>2 DEF Init, LoadInv

LEMMA NextLoad == DiskInv /\ LoadInv /\ [Next]_vars => LoadInv'
<1> SUFFICES ASSUME DiskInv, LoadInv, [Next]_vars PROVE LoadInv'
  OBVIOUS
<1>1. CASE UNCHANGED load
  BY <1>1 DEF LoadInv
<1>2. CASE UNCHANGED vars
  BY <1>1, <1>2 DEF vars
<1>3. ASSUME NEW c \in Command,
             Create(c) \/ Change(c) \/ Save(c) \/ DoImport(c) \/ Fail(c) \/ Die(c)
      PROVE  LoadInv'
  <2>1. UNCHANGED load
    BY <1>3 DEF Create, Change, Save, SaveTemp, SaveRename, DoImport, Import, ImportClear,
                ImportTear, ImportCopy, Fail, Die
  <2> QED BY <1>1, <2>1
<1>4. ASSUME NEW l \in Loader, LaunchFails(l)
      PROVE  LoadInv'
  <2>1. load[l].at # "idle" /\ Failed(l, "host")
    BY <1>4 DEF LaunchFails, Loads
  <2> QED BY <2>1, LoadFails
<1> QED BY <1>2, <1>3, <1>4, StartLoad, ReadLoad, MergeLoad, ResolveLoad, LaunchLoad, AnswerLoad
        DEF Next

LEMMA ProfilesInvariant == Spec => [](DiskInv /\ LoadInv)
BY InitDisk, InitLoad, NextDisk, NextLoad, PTL DEF Spec

(* What a sandbox sees where its tools are, of mounts like these. *)
Seen(p, mounts) ==
  /\ \A t \in NamedTools(p) :
       /\ \A i \in DOMAIN mounts : mounts[i].sandbox = Target(p.tools[t]) =>
            mounts[i].host = ExpandHome(p.tools[t].host) \/ (p.repos # <<>> /\ mounts[i] = gitStub)
       /\ \A i \in Shown(mounts, Target(p.tools[t])) :
            mounts[i].sandbox \in {Target(p.tools[t])} \cup Directories(p)
  /\ p.repos # <<>> => \A i \in Shown(mounts, GitStubMountPath) : mounts[i] = gitStub

LEMMA SeenRight ==
  ASSUME NEW p, NEW mounts \in Seq(Place), Stands(p, mounts), StubLast(p, mounts)
  PROVE  Seen(p, mounts)
<1>1. DOMAIN mounts = 1..Len(mounts) /\ Len(mounts) \in Nat
  BY SeqFacts
<1>2. ASSUME NEW t \in NamedTools(p), NEW i \in DOMAIN mounts,
             mounts[i].sandbox = Target(p.tools[t])
      PROVE  \/ mounts[i].host = ExpandHome(p.tools[t].host)
             \/ p.repos # <<>> /\ mounts[i] = gitStub
  BY <1>2 DEF Stands, Right
<1>3. ASSUME NEW t \in NamedTools(p), NEW i \in Shown(mounts, Target(p.tools[t]))
      PROVE  mounts[i].sandbox \in {Target(p.tools[t])} \cup Directories(p)
  <2>1. /\ i \in DOMAIN mounts /\ IsPrefix(mounts[i].sandbox, Target(p.tools[t]))
        /\ \A k \in DOMAIN mounts :
             IsPrefix(mounts[k].sandbox, Target(p.tools[t])) => k <= i
    BY DEF Shown
  <2>2. ASSUME NEW k \in DOMAIN mounts, mounts[k].sandbox = Target(p.tools[t])
        PROVE  k <= i
    <3>1. mounts[k] \in Place
      BY SeqFacts
    <3>2. mounts[k].sandbox \in Seq(Word)
      BY <3>1 DEF Place
    <3>3. IsPrefix(mounts[k].sandbox, Target(p.tools[t]))
      BY <2>2, <3>2, PrefixSelf
    <3> QED BY <2>1, <3>3
  <2>3. \A k \in DOMAIN mounts : ~(k > i) \/ mounts[k].sandbox # Target(p.tools[t])
    BY <1>1, <2>1, <2>2
  <2> QED BY <2>1, <2>3 DEF Stands, Covered
<1>4. ASSUME p.repos # <<>>, NEW i \in Shown(mounts, GitStubMountPath)
      PROVE  mounts[i] = gitStub
  <2>1. PICK n \in DOMAIN mounts : n = Len(mounts) /\ mounts[n] = gitStub
    BY <1>4 DEF StubLast
  <2>2. mounts[n].sandbox = GitStubMountPath
    BY <2>1 DEF gitStub
  <2>3. IsPrefix(GitStubMountPath, GitStubMountPath)
    <3>1. "git" \in Word
      BY DEF Word
    <3>2. GitStubMountPath \in Seq(Word)
      BY <3>1, TargetFacts DEF GitStubMountPath
    <3> QED BY <3>2, PrefixSelf
  <2>4. n <= i /\ i \in DOMAIN mounts
    BY <2>2, <2>3 DEF Shown
  <2>5. i = n
    BY <1>1, <2>1, <2>4
  <2> QED BY <2>1, <2>5
<1> QED BY <1>2, <1>3, <1>4 DEF Seen

(* validate.go 175-178 and bwrap.go 59-61, of what is launched: however the files
   of a chain were changed while it was read, whatever is mounted where a named
   tool is, is that tool or the stub of the tool proxy; no mount of the profile
   hides a tool, at its path or above it, only a directory of tools, a private one
   or a worktree may; and where there is a git policy git is the stub. *)
THEOREM ToolsStandAsNamed == Spec => []ToolsStand
<1>1. LoadInv => ToolsStand
  <2>1. ASSUME LoadInv, NEW l \in Loader, load[l].at = "launched"
        PROVE  Seen(load[l].p, load[l].mounts)
    <3>1. PICK r \in LoadRec : r = load[l] /\ r.at = "launched" /\ LoadOK(r)
      BY <2>1 DEF LoadInv
    <3>2. r.mounts \in Seq(Place)
      BY <3>1 DEF LoadRec, NoLoad
    <3> QED BY <3>1, <3>2, SeenRight DEF LoadOK
  <2> QED BY <2>1 DEF ToolsStand, Seen
<1> QED BY <1>1, ProfilesInvariant, PTL

(* Every variable holds what the code can put there: a profile is in the directory
   of its name, validated, its temporary file is there while its command is about
   to rename it, and a load has the profile that was asked for. *)
THEOREM ProfilesTyped == Spec => []ProfilesTypeOK
<1>1. DiskInv /\ LoadInv => ProfilesTypeOK
  <2> SUFFICES ASSUME DiskInv, LoadInv PROVE ProfilesTypeOK
    OBVIOUS
  <2>1. ASSUME NEW n \in Name
        PROVE  /\ Readable(n) => files[n].name = n /\ ValidateProfile(files[n])
               /\ temps[n] \subseteq {c \in Command : At(c, "rename")} \cup {litter}
               /\ docs[n] \in BOOLEAN
    BY DEF DiskInv, Good
  <2>2. \A c \in Command : cmd[c].at \in {"idle", "temp", "rename", "clear", "tear", "copy"}
    <3>1. \A c \in Command : cmd[c] \in CmdRec
      BY DEF DiskInv
    <3> QED BY <3>1, CmdFacts
  <2>3. ASSUME NEW l \in Loader
        PROVE  /\ load[l].at \in {"idle", "read", "merge", "resolve", "docs", "launched", "failed"}
               /\ load[l].at \in {"resolve", "docs", "launched"} => load[l].p.name = load[l].name
    <3>1. PICK r \in LoadRec : r = load[l] /\ LoadOK(r)
      BY DEF LoadInv
    <3>2. r.at \in {"idle", "read", "merge", "resolve", "docs", "launched", "failed"}
      BY LoadFacts
    <3> QED BY <3>1, <3>2 DEF LoadOK
  <2>4. edition \in Nat
    BY DEF DiskInv
  <2> QED BY <2>1, <2>2, <2>3, <2>4 DEF ProfilesTypeOK
<1> QED BY <1>1, ProfilesInvariant, PTL

-----------------------------------------------------------------------------
(* The chain above a name, and the lists that are joined along it. *)

(* (Where a string is written out, the provers find no arithmetic.) *)
NoBase == ""
UpTo(u, fs, n, m) ==
  u = [k \in 0..m |-> IF k = 0 THEN n
                      ELSE IF u[k - 1] \in Name /\ fs[u[k - 1]] \notin {NoFile, Torn}
                           THEN fs[u[k - 1]].extends ELSE NoBase]

LEMMA UpDefined ==
  ASSUME NEW fs, NEW n, NEW m \in Nat
  PROVE  \E u : UpTo(u, fs, n, m)
<1> DEFINE Above(name) == IF name \in Name /\ fs[name] \notin {NoFile, Torn}
                          THEN fs[name].extends ELSE NoBase
           T == {k \in Nat : \E u : UpTo(u, fs, n, k)}
<1>1. 0 \in T
  <2>1. UpTo([k \in 0..0 |-> n], fs, n, 0)
    BY DEF UpTo
  <2> QED BY <2>1
<1>2. ASSUME NEW k \in Nat, k \in T
      PROVE  k + 1 \in T
  <2>1. PICK u : UpTo(u, fs, n, k)
    BY <1>2
  <2>2. PICK up : up = Above(u[k])
    OBVIOUS
  <2>3. PICK v : v = [i \in 0..(k + 1) |-> IF i = k + 1 THEN up ELSE u[i]]
    OBVIOUS
  <2>4. /\ \A i \in 0..(k + 1) : v[i] = IF i = k + 1 THEN up ELSE u[i]
        /\ \A i \in 0..k : u[i] = IF i = 0 THEN n ELSE Above(u[i - 1])
    BY <2>1, <2>3 DEF UpTo
  <2>5. ASSUME NEW i \in 0..(k + 1)
        PROVE  v[i] = IF i = 0 THEN n ELSE Above(v[i - 1])
    <3>1. CASE i = k + 1
      <4>1. i # 0 /\ i - 1 = k /\ k \in 0..(k + 1) /\ k # k + 1
        BY <3>1
      <4>2. v[i] = up /\ v[i - 1] = u[k]
        BY <2>4, <3>1, <4>1
      <4> HIDE DEF Above
      <4> QED BY <2>2, <4>1, <4>2
    <3>2. CASE i # k + 1
      <4>1. i \in 0..k /\ (i # 0 => i - 1 \in 0..(k + 1) /\ i - 1 # k + 1)
        BY <3>2
      <4> HIDE DEF Above
      <4> QED BY <2>4, <3>2, <4>1
    <3> QED BY <3>1, <3>2
  <2>6. UpTo(v, fs, n, k + 1)
    BY <2>3, <2>5 DEF UpTo
  <2> QED BY <2>6
<1>3. Nat \subseteq T
  BY <1>1, <1>2, Induction
<1> QED BY <1>3

(* A disk whose files, where they can be read, extend names or nothing. *)
Linked(fs) == \A n \in Name : fs[n] \notin {NoFile, Torn} => fs[n].extends \in Name \cup {NoBase}

LEMMA NameCount == Cardinality(Name) \in Nat /\ IsFiniteSet(Name) /\ NoBase \notin Name
BY ProfilesAssumption, FS_CardinalityType DEF ProfilesAssumption, NoBase

LEMMA UpFacts ==
  ASSUME NEW fs, Linked(fs), NEW n \in Name, NEW size \in Nat, NEW u, UpTo(u, fs, n, size)
  PROVE  /\ u[0] = n
         /\ \A k \in 0..(size - 1) :
              u[k + 1] = IF u[k] \in Name /\ fs[u[k]] \notin {NoFile, Torn} THEN fs[u[k]].extends ELSE NoBase
         /\ \A k \in 0..size : u[k] \in Name \cup {NoBase}
         /\ \A k, m \in 0..size : k <= m /\ u[k] = NoBase => u[m] = NoBase
<1>1. NoBase \notin Name
  BY NameCount
<1>4. \A k \in 0..size : u[k] = IF k = 0 THEN n
                                ELSE IF u[k - 1] \in Name /\ fs[u[k - 1]] \notin {NoFile, Torn}
                                     THEN fs[u[k - 1]].extends ELSE NoBase
  BY DEF UpTo
<1>5. u[0] = n
  BY <1>1, <1>4
<1>6. ASSUME NEW k \in 0..(size - 1)
      PROVE  u[k + 1] = IF u[k] \in Name /\ fs[u[k]] \notin {NoFile, Torn}
                        THEN fs[u[k]].extends ELSE NoBase
  <2>1. k + 1 \in 0..size /\ k + 1 # 0 /\ (k + 1) - 1 = k
    BY <1>1
  <2> QED BY <1>4, <2>1
<1>7. \A k \in 0..size : u[k] \in Name \cup {NoBase}
  <2> SUFFICES ASSUME NEW k \in 0..size PROVE u[k] \in Name \cup {NoBase}
    OBVIOUS
  <2>1. CASE k = 0
    BY <1>5, <2>1
  <2>2. CASE k # 0
    <3>1. k - 1 \in 0..(size - 1) /\ (k - 1) + 1 = k
      BY <1>1, <2>2
    <3> QED BY <1>6, <3>1 DEF Linked
  <2> QED BY <2>1, <2>2
<1>8. ASSUME NEW k \in 0..size, u[k] = NoBase, NEW m \in 0..size, k <= m
      PROVE  u[m] = NoBase
  <2> DEFINE T == {i \in Nat : k + i <= size => u[k + i] = NoBase}
  <2>1. 0 \in T
    BY <1>1, <1>8
  <2>2. ASSUME NEW i \in Nat, i \in T
        PROVE  i + 1 \in T
    <3> SUFFICES ASSUME k + (i + 1) <= size PROVE u[k + (i + 1)] = NoBase
      OBVIOUS
    <3>1. k + i <= size /\ k + i \in 0..(size - 1) /\ k + (i + 1) = (k + i) + 1
      BY <1>1
    <3>2. u[k + i] = NoBase
      BY <2>2, <3>1
    <3> QED BY <1>1, <1>6, <3>1, <3>2
  <2>3. Nat \subseteq T
    BY <2>1, <2>2, Induction
  <2>4. m - k \in Nat /\ k + (m - k) = m /\ m <= size
    BY <1>1, <1>8
  <2> HIDE DEF T
  <2>5. m - k \in T
    BY <2>3, <2>4
  <2> QED BY <2>4, <2>5 DEF T
<1> QED BY <1>1, <1>5, <1>6, <1>7, <1>8

LEMMA UpIs ==
  ASSUME NEW fs, NEW n
  PROVE  \E size \in Nat : size = Cardinality(Name) /\ UpTo(Up(fs, n), fs, n, size)
<1>1. PICK size \in Nat : size = Cardinality(Name)
  BY NameCount
<1>2. Up(fs, n) = CHOOSE v : UpTo(v, fs, n, size)
  BY <1>1 DEF Up, UpTo, NoBase
<1>3. UpTo(Up(fs, n), fs, n, size)
  BY <1>2, UpDefined
<1> QED BY <1>1, <1>3

(* A chain of names that comes back to one of its own never ends. *)
LEMMA ComesBack ==
  ASSUME NEW fs, Linked(fs), NEW n \in Name, NEW size \in Nat, NEW u, UpTo(u, fs, n, size),
         NEW k \in 0..size,
         \A j \in 0..(k - 1) : u[j] \in Name,
         u[k] \in {u[j] : j \in 0..(k - 1)}
  PROVE  u[size] # NoBase
<1>2. /\ NoBase \notin Name
      /\ \A i \in 0..(size - 1) :
           u[i + 1] = IF u[i] \in Name /\ fs[u[i]] \notin {NoFile, Torn} THEN fs[u[i]].extends ELSE NoBase
  BY UpFacts, NameCount
<1>3. PICK S : S = {u[j] : j \in 0..(k - 1)}
  OBVIOUS
<1>4. S \subseteq Name /\ u[k] \in S
  BY <1>3
<1>5. ASSUME NEW i \in 0..(size - 1), u[i] \in S
      PROVE  u[i + 1] \in S
  <2>1. PICK j \in 0..(k - 1) : u[i] = u[j]
    BY <1>3, <1>5
  <2>2. j \in 0..(size - 1)
    BY <1>2
  <2>3. u[i + 1] = u[j + 1]
    BY <1>2, <2>1, <2>2
  <2>4. CASE j + 1 = k
    BY <1>4, <2>3, <2>4
  <2>5. CASE j + 1 # k
    <3>1. j + 1 \in 0..(k - 1)
      BY <1>2, <2>5
    <3> QED BY <1>3, <2>3, <3>1
  <2> QED BY <2>4, <2>5
<1>6. u[0] \in S
  <2>1. k # 0
    BY <1>2, <1>3, <1>4
  <2>2. 0 \in 0..(k - 1)
    BY <1>2, <2>1
  <2> QED BY <1>3, <2>2
<1> DEFINE T == {i \in Nat : i <= size => u[i] \in S}
<1>7. 0 \in T
  BY <1>6
<1>8. ASSUME NEW i \in Nat, i \in T
      PROVE  i + 1 \in T
  <2> SUFFICES ASSUME i + 1 <= size PROVE u[i + 1] \in S
    OBVIOUS
  <2>1. i \in 0..(size - 1) /\ i <= size
    BY <1>2
  <2> QED BY <1>5, <1>8, <2>1
<1>9. Nat \subseteq T
  BY <1>7, <1>8, Induction
<1>10. u[size] \in S
  BY <1>2, <1>9
<1> QED BY <1>2, <1>4, <1>10

(* A chain of names that have files, the last one with no base. *)
Named(u, k) == \A j \in 0..k : u[j] \in Name
Rooted(p) == p \notin {NoFile, Torn} /\ p.extends = NoBase
Ends(u, size, k) ==
  u[size] = NoBase /\ Cardinality({i \in 0..(size - 1) : u[i] # NoBase}) = k + 1
LEMMA EndsHere ==
  ASSUME NEW fs, Linked(fs), NEW n \in Name, NEW size \in Nat,
         NEW u, UpTo(u, fs, n, size), NEW k \in Nat, k < size,
         Named(u, k), Rooted(fs[u[k]])
  PROVE  Ends(u, size, k)
<1>1. /\ NoBase \notin Name
      /\ \A i \in 0..(size - 1) :
           u[i + 1] = IF u[i] \in Name /\ fs[u[i]] \notin {NoFile, Torn} THEN fs[u[i]].extends ELSE NoBase
      /\ \A i, m \in 0..size : i <= m /\ u[i] = NoBase => u[m] = NoBase
  BY UpFacts, NameCount
<1>2. /\ \A j \in 0..k : u[j] \in Name
      /\ fs[u[k]] \notin {NoFile, Torn} /\ fs[u[k]].extends = NoBase
  BY DEF Named, Rooted
<1>3. k \in 0..k /\ k \in 0..(size - 1) /\ k + 1 \in 0..size /\ size \in 0..size /\ k + 1 <= size
  BY <1>1
<1>4. u[k + 1] = NoBase
  BY <1>1, <1>3, <1>2
<1>5. u[size] = NoBase
  BY <1>1, <1>3, <1>4
<1>6. {i \in 0..(size - 1) : u[i] # NoBase} = 0..k
  <2>1. ASSUME NEW i \in 0..(size - 1), u[i] # NoBase
        PROVE  i \in 0..k
    <3>1. i \in 0..size /\ ~(k + 1 <= i)
      BY <1>1, <1>3, <1>4, <2>1
    <3> QED BY <1>3, <3>1
  <2>2. ASSUME NEW i \in 0..k
        PROVE  i \in 0..(size - 1) /\ u[i] # NoBase
    BY <1>1, <1>3, <1>2
  <2> QED BY <2>1, <2>2
<1>7. Cardinality(0..k) = k + 1
  <2>1. Cardinality(0..k) = IF 0 > k THEN 0 ELSE k - 0 + 1
    BY FS_Interval
  <2> QED BY <2>1
<1> QED BY <1>5, <1>6, <1>7 DEF Ends

(* FlattenSeq, one sequence after the other. *)
FlatTo(f, seqs, n) == f = [i \in 1..n |-> IF i = 1 THEN seqs[i] ELSE f[i - 1] \o seqs[i]]

LEMMA FlatDefined ==
  ASSUME NEW seqs, NEW n \in Nat
  PROVE  \E f : FlatTo(f, seqs, n)
<1> DEFINE T == {m \in Nat : \E f : FlatTo(f, seqs, m)}
<1>1. 0 \in T
  <2>1. 1..0 = {}
    OBVIOUS
  <2>2. FlatTo([i \in 1..0 |-> 0], seqs, 0)
    BY <2>1 DEF FlatTo
  <2> QED BY <2>2
<1>2. ASSUME NEW m \in Nat, m \in T
      PROVE  m + 1 \in T
  <2>1. PICK f : FlatTo(f, seqs, m)
    BY <1>2
  <2>2. PICK last : last = IF m + 1 = 1 THEN seqs[m + 1] ELSE f[m] \o seqs[m + 1]
    OBVIOUS
  <2>3. PICK g : g = [i \in 1..(m + 1) |-> IF i = m + 1 THEN last ELSE f[i]]
    OBVIOUS
  <2>4. /\ \A i \in 1..(m + 1) : g[i] = IF i = m + 1 THEN last ELSE f[i]
        /\ \A i \in 1..m : f[i] = IF i = 1 THEN seqs[i] ELSE f[i - 1] \o seqs[i]
    BY <2>1, <2>3 DEF FlatTo
  <2>5. ASSUME NEW i \in 1..(m + 1)
        PROVE  g[i] = IF i = 1 THEN seqs[i] ELSE g[i - 1] \o seqs[i]
    <3>1. CASE i = m + 1
      <4>1. i - 1 = m /\ (i # 1 => m \in 1..(m + 1) /\ m # m + 1)
        BY <3>1
      <4>2. g[i] = last /\ (i # 1 => g[i - 1] = f[m])
        BY <2>4, <3>1, <4>1
      <4> QED BY <2>2, <3>1, <4>1, <4>2
    <3>2. CASE i # m + 1
      <4>1. i \in 1..m /\ (i # 1 => i - 1 \in 1..(m + 1) /\ i - 1 # m + 1)
        BY <3>2
      <4> QED BY <2>4, <3>2, <4>1
    <3> QED BY <3>1, <3>2
  <2>6. FlatTo(g, seqs, m + 1)
    BY <2>3, <2>5 DEF FlatTo
  <2> QED BY <2>6
<1>3. Nat \subseteq T
  BY <1>1, <1>2, Induction
<1> QED BY <1>3

LEMMA LenMade ==
  ASSUME NEW n \in Nat, NEW s, s = [i \in 1..n |-> s[i]]
  PROVE  Len(s) = n
<1>1. PICK S : S = {s[i] : i \in 1..n}
  OBVIOUS
<1>2. s \in [1..n -> S]
  BY <1>1
<1>3. s \in Seq(S)
  BY <1>2, SeqMade
<1> QED BY <1>2, <1>3

LEMMA FlatFacts ==
  ASSUME NEW n \in Nat, n # 0, NEW s, s = [i \in 1..n |-> s[i]]
  PROVE  \E f : /\ FlatTo(f, s, n)
                /\ FlattenSeq(s) = f[n]
<1>1. Len(s) = n
  BY LenMade
<1>2. PICK f : f = CHOOSE g : FlatTo(g, s, n)
  OBVIOUS
<1>3. FlattenSeq(s) = f[n]
  BY <1>1, <1>2 DEF FlattenSeq, FlatTo
<1>4. FlatTo(f, s, n)
  BY <1>2, FlatDefined
<1> QED BY <1>3, <1>4

LEMMA FlattenOne ==
  ASSUME NEW s, s = [i \in 1..1 |-> s[i]]
  PROVE  FlattenSeq(s) = s[1]
<1>1. PICK n \in Nat : n = 1 /\ n # 0
  OBVIOUS
<1>2. s = [i \in 1..n |-> s[i]]
  BY <1>1
<1>3. PICK f : FlatTo(f, s, n) /\ FlattenSeq(s) = f[n]
  BY <1>1, <1>2, FlatFacts
<1> QED BY <1>1, <1>3 DEF FlatTo

LEMMA FlattenMore ==
  ASSUME NEW n \in Nat, n # 0, NEW s, NEW t, s = [i \in 1..n |-> s[i]],
         t = [i \in 1..(n + 1) |-> t[i]], \A i \in 1..n : t[i] = s[i]
  PROVE  FlattenSeq(t) = FlattenSeq(s) \o t[n + 1]
<1>1. PICK f : FlatTo(f, s, n) /\ FlattenSeq(s) = f[n]
  BY FlatFacts
<1>2. PICK g : FlatTo(g, t, n + 1) /\ FlattenSeq(t) = g[n + 1]
  <2>1. PICK m \in Nat : m = n + 1 /\ m # 0
    OBVIOUS
  <2>2. t = [i \in 1..m |-> t[i]]
    BY <2>1
  <2>3. PICK g : FlatTo(g, t, m) /\ FlattenSeq(t) = g[m]
    BY <2>1, <2>2, FlatFacts
  <2> QED BY <2>1, <2>3
<1>3. \A i \in 1..n : f[i] = IF i = 1 THEN s[i] ELSE f[i - 1] \o s[i]
  BY <1>1 DEF FlatTo
<1>4. \A i \in 1..(n + 1) : g[i] = IF i = 1 THEN t[i] ELSE g[i - 1] \o t[i]
  BY <1>2 DEF FlatTo
<1> DEFINE T == {m \in Nat : m + 1 <= n => f[m + 1] = g[m + 1]}
<1>5. 0 \in T
  <2>1. 1 \in 1..n /\ 1 \in 1..(n + 1)
    OBVIOUS
  <2>2. f[1] = s[1] /\ g[1] = t[1]
    BY <1>3, <1>4, <2>1
  <2> QED BY <2>1, <2>2
<1>6. ASSUME NEW m \in Nat, m \in T
      PROVE  m + 1 \in T
  <2> SUFFICES ASSUME (m + 1) + 1 <= n PROVE f[(m + 1) + 1] = g[(m + 1) + 1]
    OBVIOUS
  <2>1. PICK k : k = (m + 1) + 1
    OBVIOUS
  <2>2. k \in 1..n /\ k \in 1..(n + 1) /\ k # 1 /\ k - 1 = m + 1 /\ m + 1 <= n
    BY <2>1
  <2>3. f[k - 1] = g[k - 1]
    BY <1>6, <2>2
  <2>4. f[k] = f[k - 1] \o s[k] /\ g[k] = g[k - 1] \o t[k]
    BY <1>3, <1>4, <2>2
  <2> QED BY <2>1, <2>2, <2>3, <2>4
<1>7. Nat \subseteq T
  BY <1>5, <1>6, Induction
<1>8. n - 1 \in Nat /\ (n - 1) + 1 = n /\ n + 1 \in 1..(n + 1) /\ n + 1 # 1 /\ (n + 1) - 1 = n
  OBVIOUS
<1> HIDE DEF T
<1>9. n - 1 \in T
  BY <1>7, <1>8
<1>10. f[n] = g[n]
  BY <1>8, <1>9 DEF T
<1>11. g[n + 1] = g[n] \o t[n + 1]
  BY <1>4, <1>8
<1> QED BY <1>1, <1>2, <1>10, <1>11

-----------------------------------------------------------------------------
(* What the profiles of a chain from the k-th up are merged to. *)
Lists == {"mounts", "tools", "private", "repos"}
JoinedFrom(chain, k, field) ==
  FlattenSeq([j \in 1..(Len(chain) - k) |-> chain[Len(chain) + 1 - j][field]])
Merged(chain, k, p) ==
  /\ \A field \in Lists : p[field] = JoinedFrom(chain, k, field)
  /\ (\A j \in 1..k : chain[j].workdir = <<>>) => p.workdir = Nearest(chain)
  /\ p.audio = \E j \in 1..Len(chain) : j > k /\ chain[j].audio

LEMMA MergeLists ==
  ASSUME NEW base, NEW child, NEW field \in Lists
  PROVE  mergeProfiles(base, child)[field] = base[field] \o child[field]
<1>1. PICK q : q = mergeProfiles(base, child)
  OBVIOUS
<1>2. /\ q.mounts = base.mounts \o child.mounts /\ q.tools = base.tools \o child.tools
      /\ q.private = base.private \o child.private /\ q.repos = base.repos \o child.repos
  BY <1>1 DEF mergeProfiles
<1>3. CASE field = "mounts"
  BY <1>1, <1>2, <1>3
<1>4. CASE field = "tools"
  BY <1>1, <1>2, <1>4
<1>5. CASE field = "private"
  BY <1>1, <1>2, <1>5
<1>6. CASE field = "repos"
  BY <1>1, <1>2, <1>6
<1> QED BY <1>3, <1>4, <1>5, <1>6 DEF Lists

LEMMA JoinedTop ==
  ASSUME NEW chain \in Seq(Profile), NEW k \in Nat, Len(chain) = k + 1, NEW field
  PROVE  JoinedFrom(chain, k, field) = chain[k + 1][field]
<1>1. PICK s : s = [j \in 1..(Len(chain) - k) |-> chain[Len(chain) + 1 - j][field]]
  OBVIOUS
<1>2. Len(chain) - k = 1 /\ Len(chain) + 1 - 1 = k + 1 /\ 1 \in 1..1
  OBVIOUS
<1>3. s = [j \in 1..1 |-> s[j]] /\ s[1] = chain[k + 1][field]
  BY <1>1, <1>2
<1>4. FlattenSeq(s) = s[1]
  BY <1>3, FlattenOne
<1> QED BY <1>1, <1>3, <1>4 DEF JoinedFrom

LEMMA JoinedNext ==
  ASSUME NEW chain \in Seq(Profile), NEW k \in Nat, k + 1 < Len(chain), NEW field
  PROVE  JoinedFrom(chain, k, field) = JoinedFrom(chain, k + 1, field) \o chain[k + 1][field]
<1>1. PICK n \in Nat : n = Len(chain) - (k + 1) /\ n # 0 /\ Len(chain) - k = n + 1
  OBVIOUS
<1>2. PICK s : s = [j \in 1..n |-> chain[Len(chain) + 1 - j][field]]
  OBVIOUS
<1>3. PICK t : t = [j \in 1..(n + 1) |-> chain[Len(chain) + 1 - j][field]]
  OBVIOUS
<1>4. s = [j \in 1..n |-> s[j]] /\ t = [j \in 1..(n + 1) |-> t[j]] /\ \A j \in 1..n : t[j] = s[j]
  BY <1>2, <1>3
<1>5. FlattenSeq(t) = FlattenSeq(s) \o t[n + 1]
  BY <1>1, <1>4, FlattenMore
<1>6. n + 1 \in 1..(n + 1) /\ Len(chain) + 1 - (n + 1) = k + 1
  BY <1>1
<1>7. t[n + 1] = chain[k + 1][field]
  BY <1>3, <1>6
<1>8. JoinedFrom(chain, k, field) = FlattenSeq(t) /\ JoinedFrom(chain, k + 1, field) = FlattenSeq(s)
  BY <1>1, <1>2, <1>3 DEF JoinedFrom
<1> QED BY <1>5, <1>7, <1>8

LEMMA JoinedAll ==
  ASSUME NEW chain \in Seq(Profile), NEW field
  PROVE  JoinedFrom(chain, 0, field) = FromBase(chain, field)
<1>1. PICK n \in Nat : n = Len(chain)
  OBVIOUS
<1>2. \A j \in 1..n : Reverse(chain)[j] = chain[n + 1 - j]
  <2>1. \A j \in 1..n : n - j + 1 = n + 1 - j
    OBVIOUS
  <2>2. Reverse(chain) = [j \in 1..n |-> chain[n - j + 1]]
    BY <1>1 DEF Reverse
  <2> QED BY <2>1, <2>2
<1>3. n - 0 = n
  OBVIOUS
<1>4. [j \in 1..n |-> Reverse(chain)[j][field]] = [j \in 1..(n - 0) |-> chain[n + 1 - j][field]]
  BY <1>2, <1>3
<1> QED BY <1>1, <1>4 DEF JoinedFrom, FromBase

(* The nearest working directory: of the first profile that has one. *)
LEMMA NearestIs ==
  ASSUME NEW chain, NEW k \in 1..Len(chain), Len(chain) \in Nat,
         \A j \in 1..(k - 1) : chain[j].workdir = <<>>,
         chain[k].workdir # <<>>
  PROVE  Nearest(chain) = chain[k].workdir
<1>1. PICK with : with = {i \in 1..Len(chain) : chain[i].workdir # <<>>}
  OBVIOUS
<1>2. k \in with /\ with \subseteq 1..Len(chain)
  BY <1>1
<1>3. \A j \in with : k <= j
  <2> SUFFICES ASSUME NEW j \in with, ~(k <= j) PROVE FALSE
    OBVIOUS
  <2>1. j \in 1..(k - 1)
    BY <1>2
  <2> QED BY <1>1, <2>1
<1>4. \A i \in with : (\A j \in with : i <= j) => i = k
  BY <1>2, <1>3
<1>5. (CHOOSE i \in with : \A j \in with : i <= j) = k
  BY <1>2, <1>3, <1>4
<1> QED BY <1>1, <1>2, <1>5 DEF Nearest

LEMMA NearestNone ==
  ASSUME NEW chain, \A j \in 1..Len(chain) : chain[j].workdir = <<>>
  PROVE  Nearest(chain) = <<>>
<1>1. {i \in 1..Len(chain) : chain[i].workdir # <<>>} = {}
  OBVIOUS
<1> QED BY <1>1 DEF Nearest

LEMMA MergedTop ==
  ASSUME NEW chain \in Seq(Profile), NEW k \in Nat, Len(chain) = k + 1
  PROVE  Merged(chain, k, chain[k + 1])
<1>1. \A field \in Lists : chain[k + 1][field] = JoinedFrom(chain, k, field)
  BY JoinedTop
<1>2. k + 1 \in 1..Len(chain) /\ (k + 1) - 1 = k /\ Len(chain) \in Nat
      /\ chain[k + 1] \in Profile
  OBVIOUS
<1>3. ASSUME \A j \in 1..k : chain[j].workdir = <<>>
      PROVE  chain[k + 1].workdir = Nearest(chain)
  <2>1. CASE chain[k + 1].workdir # <<>>
    BY <1>2, <1>3, <2>1, NearestIs
  <2>2. CASE chain[k + 1].workdir = <<>>
    <3>1. \A j \in 1..Len(chain) : j \in 1..k \/ j = k + 1
      OBVIOUS
    <3>2. \A j \in 1..Len(chain) : chain[j].workdir = <<>>
      BY <1>3, <2>2, <3>1
    <3> QED BY <2>2, <3>2, NearestNone
  <2> QED BY <2>1, <2>2
<1>4. \A j \in 1..Len(chain) : j > k <=> j = k + 1
  OBVIOUS
<1>5. chain[k + 1].audio \in BOOLEAN
  BY <1>2 DEF Profile
<1>6. chain[k + 1].audio = \E j \in 1..Len(chain) : j > k /\ chain[j].audio
  BY <1>2, <1>4, <1>5
<1> QED BY <1>1, <1>3, <1>6 DEF Merged

LEMMA MergedNext ==
  ASSUME NEW chain \in Seq(Profile), NEW k \in Nat, k + 1 < Len(chain),
         NEW p \in Profile, Merged(chain, k + 1, p)
  PROVE  Merged(chain, k, mergeProfiles(p, chain[k + 1]))
<1>1. PICK child \in Profile : child = chain[k + 1]
  OBVIOUS
<1>2. PICK q : q = mergeProfiles(p, child)
  OBVIOUS
<1>3. \A field \in Lists : q[field] = JoinedFrom(chain, k, field)
  <2> SUFFICES ASSUME NEW field \in Lists PROVE q[field] = JoinedFrom(chain, k, field)
    OBVIOUS
  <2>1. q[field] = p[field] \o child[field]
    BY <1>2, MergeLists
  <2>2. p[field] = JoinedFrom(chain, k + 1, field)
    BY DEF Merged
  <2>3. JoinedFrom(chain, k, field) = JoinedFrom(chain, k + 1, field) \o chain[k + 1][field]
    BY JoinedNext
  <2> QED BY <1>1, <2>1, <2>2, <2>3
<1>4. q.workdir = IF child.workdir # <<>> THEN child.workdir ELSE p.workdir
  BY <1>2 DEF mergeProfiles, firstNonEmpty
<1>5. k + 1 \in 1..Len(chain) /\ (k + 1) - 1 = k /\ Len(chain) \in Nat
  OBVIOUS
<1>6. ASSUME \A j \in 1..k : chain[j].workdir = <<>>
      PROVE  q.workdir = Nearest(chain)
  <2>1. CASE child.workdir # <<>>
    <3>1. Nearest(chain) = chain[k + 1].workdir
      BY <1>1, <1>5, <1>6, <2>1, NearestIs
    <3> QED BY <1>1, <1>4, <2>1, <3>1
  <2>2. CASE child.workdir = <<>>
    <3>1. \A j \in 1..(k + 1) : j \in 1..k \/ j = k + 1
      OBVIOUS
    <3>2. \A j \in 1..(k + 1) : chain[j].workdir = <<>>
      BY <1>1, <1>6, <2>2, <3>1
    <3>3. p.workdir = Nearest(chain)
      BY <3>2 DEF Merged
    <3> QED BY <1>4, <2>2, <3>3
  <2> QED BY <2>1, <2>2
<1>7. q.audio = \E j \in 1..Len(chain) : j > k /\ chain[j].audio
  <2>1. q.audio = (p.audio \/ child.audio)
    BY <1>2 DEF mergeProfiles
  <2>2. p.audio = \E j \in 1..Len(chain) : j > k + 1 /\ chain[j].audio
    BY DEF Merged
  <2>3. \A j \in 1..Len(chain) : j > k <=> (j > k + 1 \/ j = k + 1)
    OBVIOUS
  <2> QED BY <1>1, <1>5, <2>1, <2>2, <2>3
<1> QED BY <1>1, <1>2, <1>3, <1>6, <1>7 DEF Merged

-----------------------------------------------------------------------------
(* Where no file has changed since a load began, what it has read is the chain
   from its profile up, and what it has merged is the rest of the chain. *)
ReadOf(fs, r) ==
  LET u == Up(fs, r.name)  k == Len(r.chain) IN
  /\ k <= Cardinality(Name) /\ r.next = u[k]
  /\ r.seen = {u[j] : j \in 0..(k - 1)} /\ Cardinality(r.seen) = k
  /\ \A j \in 1..k : fs[u[j - 1]] \notin {NoFile, Torn} /\ r.chain[j] = fs[u[j - 1]]
MergedOf(fs, r) ==
  LET chain == Chain(fs, r.name) IN
  /\ ~Cyclic(fs, r.name) /\ chain \in Seq(Profile)
  /\ Len(r.chain) < Len(chain) /\ \A j \in 1..Len(r.chain) : r.chain[j] = chain[j]
  /\ Merged(chain, Len(r.chain), r.p)
Follows(fs, r) ==
  /\ r.at = "read" => ReadOf(fs, r)
  /\ r.at = "merge" => MergedOf(fs, r)
  /\ r.at \in {"resolve", "docs", "launched"} =>
       /\ ~Cyclic(fs, r.name) /\ Chain(fs, r.name) \in Seq(Profile)
       /\ Merged(Chain(fs, r.name), 0, r.p)
  /\ r.at = "failed" => (r.why = "cycle" => Cyclic(fs, r.name))
Traces(r) == r.at # "idle" => /\ r.edition <= edition
                              /\ r.edition = edition => Follows(files, r)
TraceInv == \A l \in Loader : Traces(load[l])

LEMMA DiskLinked == DiskInv => Linked(files)
BY GoodProfile DEF DiskInv, Linked, Readable, NoBase

(* A step that leaves the files alone, and changes one load if any. *)
LEMMA TraceFrom ==
  ASSUME LoadInv, TraceInv, NEW l \in Loader, NEW r, load' = [load EXCEPT ![l] = r],
         UNCHANGED <<files, edition>>,
         r.at # "idle" => /\ load[l].at # "idle" /\ r.edition = load[l].edition
                          /\ r.edition = edition => Follows(files, r)
  PROVE  TraceInv'
<1>1. load'[l] = r /\ \A k \in Loader : k # l => load'[k] = load[k]
  BY DEF LoadInv
<1>2. ASSUME NEW k \in Loader PROVE Traces(load[k])'
  <2>1. CASE k # l
    BY <1>1, <2>1 DEF TraceInv, Traces
  <2>2. CASE k = l
    <3>1. r.at # "idle" => r.edition <= edition
      BY DEF TraceInv, Traces
    <3> QED BY <1>1, <2>2, <3>1 DEF Traces
  <2> QED BY <2>1, <2>2
<1> QED BY <1>2 DEF TraceInv

LEMMA FollowsThen ==
  ASSUME TraceInv, NEW l \in Loader, load[l].at # "idle", load[l].edition = edition
  PROVE  Follows(files, load[l])
BY DEF TraceInv, Traces

(* A change of a file outdates every load there is. *)
LEMMA DiskTrace ==
  ASSUME DiskInv, LoadInv, TraceInv, UNCHANGED load,
         UNCHANGED <<files, edition>> \/ edition' = edition + 1
  PROVE  TraceInv'
<1>1. ASSUME NEW l \in Loader PROVE Traces(load[l])'
  <2>1. CASE UNCHANGED <<files, edition>>
    BY <2>1 DEF TraceInv, Traces
  <2>2. CASE edition' = edition + 1
    <3>1. PICK old, now : old = edition /\ now = edition' /\ old \in Nat /\ now = old + 1
      BY <2>2 DEF DiskInv
    <3>2. CASE load[l].at = "idle"
      BY <3>2 DEF Traces
    <3>3. CASE load[l].at # "idle"
      <4>1. load[l].edition \in Nat /\ load[l].edition <= edition
        BY <3>3, LoadFacts DEF LoadInv, TraceInv, Traces
      <4>2. PICK e \in Nat : e = load[l].edition /\ e <= old
        BY <3>1, <4>1
      <4>3. e <= now /\ e # now
        BY <3>1, <4>2
      <4> QED BY <3>1, <4>2, <4>3 DEF Traces
    <3> QED BY <3>2, <3>3
  <2> QED BY <2>1, <2>2
<1> QED BY <1>1 DEF TraceInv

LEMMA CommandTrace ==
  ASSUME DiskInv, LoadInv, TraceInv, NEW c \in Command,
         Create(c) \/ Change(c) \/ Save(c) \/ DoImport(c) \/ Fail(c) \/ Die(c)
  PROVE  TraceInv'
<1>1. UNCHANGED load /\ (UNCHANGED <<files, edition>> \/ edition' = edition + 1)
  <2>1. CASE Create(c) \/ Change(c) \/ Fail(c) \/ Die(c)
    BY <2>1 DEF Create, Change, Fail, Die
  <2>2. CASE Save(c)
    BY <2>2 DEF Save, SaveTemp, SaveRename, Wrote
  <2>3. CASE DoImport(c)
    BY <2>3 DEF DoImport, Import, ImportClear, ImportTear, ImportCopy, Wrote
  <2> QED BY <2>1, <2>2, <2>3
<1> QED BY <1>1, DiskTrace

(* What ReadOf says, with the names k steps up for a size that is a number. *)
ReadTo(fs, r, u, size, k) ==
  /\ size = Cardinality(Name) /\ UpTo(u, fs, r.name, size)
  /\ k = Len(r.chain) /\ k <= size /\ r.next = u[k]
  /\ r.seen = {u[j] : j \in 0..(k - 1)} /\ Cardinality(r.seen) = k
  /\ \A j \in 0..(k - 1) :
       u[j] \in Name /\ fs[u[j]] \notin {NoFile, Torn} /\ r.chain[j + 1] = fs[u[j]]

LEMMA ReadFacts ==
  ASSUME NEW fs, Linked(fs), NEW r, r.name \in Name, r.chain \in Seq(Profile), r.seen \subseteq Name,
         r.next \in Name, ReadOf(fs, r), NEW u, u = Up(fs, r.name)
  PROVE  \E size, k \in Nat : ReadTo(fs, r, u, size, k)
<1>1. PICK size \in Nat : size = Cardinality(Name) /\ UpTo(u, fs, r.name, size)
  BY UpIs
<1>2. PICK k \in Nat : k = Len(r.chain)
  OBVIOUS
<1>3. /\ k <= size /\ r.next = u[k] /\ r.seen = {u[j] : j \in 0..(k - 1)} /\ Cardinality(r.seen) = k
      /\ \A j \in 1..k : fs[u[j - 1]] \notin {NoFile, Torn} /\ r.chain[j] = fs[u[j - 1]]
  BY <1>1, <1>2 DEF ReadOf
<1>4. ASSUME NEW j \in 0..(k - 1)
      PROVE  u[j] \in Name /\ fs[u[j]] \notin {NoFile, Torn} /\ r.chain[j + 1] = fs[u[j]]
  <2>1. j + 1 \in 1..k /\ (j + 1) - 1 = j
    BY <1>2
  <2>2. u[j] \in Name
    BY <1>3
  <2>3. fs[u[(j + 1) - 1]] \notin {NoFile, Torn} /\ r.chain[j + 1] = fs[u[(j + 1) - 1]]
    BY <1>3, <2>1
  <2> QED BY <2>1, <2>2, <2>3
<1>5. ReadTo(fs, r, u, size, k)
  BY <1>1, <1>2, <1>3, <1>4 DEF ReadTo
<1> QED BY <1>5

LEMMA ReadCycle ==
  ASSUME NEW fs, Linked(fs), NEW r, r.name \in Name, r.chain \in Seq(Profile), r.seen \subseteq Name,
         r.next \in Name, ReadOf(fs, r), r.next \in r.seen
  PROVE  Cyclic(fs, r.name)
<1>1. PICK u : u = Up(fs, r.name)
  OBVIOUS
<1>2. PICK size, k \in Nat : ReadTo(fs, r, u, size, k)
  BY <1>1, ReadFacts
<1>3. /\ size = Cardinality(Name) /\ UpTo(u, fs, r.name, size)
      /\ k <= size /\ r.next = u[k] /\ r.seen = {u[j] : j \in 0..(k - 1)}
      /\ \A j \in 0..(k - 1) : u[j] \in Name
  BY <1>2 DEF ReadTo
<1>4. k \in 0..size
  <2>1. k <= size
    BY <1>3
  <2> QED BY <2>1
<1>5. u[size] # NoBase
  <2>1. u[k] \in {u[j] : j \in 0..(k - 1)}
    BY <1>3
  <2> QED BY <1>3, <1>4, <2>1, ComesBack
<1> QED BY <1>1, <1>3, <1>5 DEF Cyclic, NoBase

(* Names that are read are as many as the steps: there is one less to read. *)
LEMMA RoomFor ==
  ASSUME NEW seen \in SUBSET Name, NEW n \in Name, n \notin seen
  PROVE  /\ Cardinality(seen \cup {n}) = Cardinality(seen) + 1
         /\ Cardinality(seen) \in Nat /\ Cardinality(Name) \in Nat
         /\ Cardinality(seen) + 1 <= Cardinality(Name)
<1>1. IsFiniteSet(Name) /\ IsFiniteSet(seen) /\ Cardinality(Name) \in Nat
  BY NameCount, FS_Subset
<1>2. Cardinality(seen) \in Nat
  BY <1>1, FS_CardinalityType
<1>3. Cardinality(seen \cup {n}) = Cardinality(seen) + 1
  BY <1>1, FS_AddElement
<1>4. seen \cup {n} \in SUBSET Name
  OBVIOUS
<1>5. Cardinality(seen \cup {n}) <= Cardinality(Name)
  BY <1>1, <1>4, FS_Subset
<1> QED BY <1>1, <1>2, <1>3, <1>5

LEMMA ReadOn ==
  ASSUME NEW fs, Linked(fs), NEW r, r.name \in Name, r.chain \in Seq(Profile), r.seen \subseteq Name,
         r.next \in Name, ReadOf(fs, r), r.next \notin r.seen,
         NEW p \in Profile, p = fs[r.next], p \notin {NoFile, Torn},
         NEW q, q.name = r.name, q.next = p.extends, q.seen = r.seen \cup {r.next},
         q.chain = Append(r.chain, p)
  PROVE  ReadOf(fs, q)
<1>1. PICK u : u = Up(fs, r.name)
  OBVIOUS
<1>2. PICK size, k \in Nat : ReadTo(fs, r, u, size, k)
  BY <1>1, ReadFacts
<1>3. /\ size = Cardinality(Name) /\ UpTo(u, fs, r.name, size)
      /\ k = Len(r.chain) /\ k <= size /\ r.next = u[k]
      /\ r.seen = {u[j] : j \in 0..(k - 1)} /\ Cardinality(r.seen) = k
      /\ \A j \in 0..(k - 1) :
           u[j] \in Name /\ fs[u[j]] \notin {NoFile, Torn} /\ r.chain[j + 1] = fs[u[j]]
  BY <1>2 DEF ReadTo
<1>4. k + 1 <= size /\ Cardinality(q.seen) = k + 1
  <2>1. PICK seen \in SUBSET Name, n \in Name : seen = r.seen /\ n = r.next /\ n \notin seen
    OBVIOUS
  <2>2. /\ Cardinality(seen \cup {n}) = Cardinality(seen) + 1
        /\ Cardinality(seen) + 1 <= Cardinality(Name)
    BY <2>1, RoomFor
  <2> QED BY <1>3, <2>1, <2>2
<1>5. k \in 0..(size - 1)
  BY <1>4
<1>6. u[k + 1] = p.extends
  <2>1. \A i \in 0..(size - 1) :
          u[i + 1] = IF u[i] \in Name /\ fs[u[i]] \notin {NoFile, Torn} THEN fs[u[i]].extends ELSE NoBase
    BY <1>3, UpFacts
  <2> QED BY <1>3, <1>5, <2>1
<1>7. q.seen = {u[j] : j \in 0..k}
  <2>1. \A j : j \in 0..k <=> j \in 0..(k - 1) \/ j = k
    OBVIOUS
  <2>2. PICK next : next = r.next /\ next = u[k]
    BY <1>3
  <2> QED BY <1>3, <2>1, <2>2
<1>8. Len(q.chain) = k + 1 /\ q.chain[k + 1] = p /\ \A j \in 1..k : q.chain[j] = r.chain[j]
  BY <1>3
<1>9. ASSUME NEW j \in 1..(k + 1)
      PROVE  fs[u[j - 1]] \notin {NoFile, Torn} /\ q.chain[j] = fs[u[j - 1]]
  <2>1. CASE j = k + 1
    <3>1. j - 1 = k
      BY <2>1
    <3> QED BY <1>3, <1>8, <2>1, <3>1
  <2>2. CASE j # k + 1
    <3>1. j \in 1..k /\ j - 1 \in 0..(k - 1) /\ (j - 1) + 1 = j
      BY <2>2
    <3>2. r.chain[j] = fs[u[j - 1]] /\ fs[u[j - 1]] \notin {NoFile, Torn}
      BY <1>3, <3>1
    <3> QED BY <1>8, <3>1, <3>2
  <2> QED BY <2>1, <2>2
<1>10. (k + 1) - 1 = k
  OBVIOUS
<1> QED BY <1>1, <1>3, <1>4, <1>6, <1>7, <1>8, <1>9, <1>10 DEF ReadOf

LEMMA ReadEnd ==
  ASSUME NEW fs, Linked(fs), \A n \in Name : fs[n] \notin {NoFile, Torn} => fs[n] \in Profile,
         NEW r, r.name \in Name, r.chain \in Seq(Profile), r.seen \subseteq Name,
         r.next \in Name, ReadOf(fs, r), r.next \notin r.seen,
         NEW p \in Profile, p = fs[r.next], p \notin {NoFile, Torn}, p.extends = NoBase,
         NEW q, q.name = r.name, q.p = p, q.chain = r.chain
  PROVE  MergedOf(fs, q)
<1>1. PICK u : u = Up(fs, r.name)
  OBVIOUS
<1>2. PICK size, k \in Nat : ReadTo(fs, r, u, size, k)
  BY <1>1, ReadFacts
<1>3. /\ size = Cardinality(Name) /\ UpTo(u, fs, r.name, size)
      /\ k = Len(r.chain) /\ k <= size /\ r.next = u[k]
      /\ r.seen = {u[j] : j \in 0..(k - 1)} /\ Cardinality(r.seen) = k
      /\ \A j \in 0..(k - 1) :
           u[j] \in Name /\ fs[u[j]] \notin {NoFile, Torn} /\ r.chain[j + 1] = fs[u[j]]
  BY <1>2 DEF ReadTo
<1>4. k < size
  <2>1. k + 1 <= size
    BY <1>3, RoomFor
  <2> QED BY <2>1
<1>5. \A j \in 0..k : u[j] \in Name /\ fs[u[j]] \notin {NoFile, Torn}
  <2>1. \A j \in 0..k : j \in 0..(k - 1) \/ j = k
    OBVIOUS
  <2> QED BY <1>3, <2>1
<1>6. Ends(u, size, k)
  <2>1. Rooted(fs[u[k]])
    BY <1>3 DEF Rooted
  <2>2. Named(u, k)
    BY <1>5 DEF Named
  <2>3. PICK n \in Name : n = r.name
    OBVIOUS
  <2>4. UpTo(u, fs, n, size)
    BY <1>3, <2>3
  <2> QED BY <1>4, <2>1, <2>2, <2>4, EndsHere
<1>7. ~Cyclic(fs, r.name) /\ Height(fs, r.name) = k + 1
  BY <1>1, <1>3, <1>6 DEF Ends, Cyclic, Height, NoBase
<1>8. PICK chain : chain = Chain(fs, r.name)
  OBVIOUS
<1>9. chain = [j \in 1..(k + 1) |-> fs[u[j - 1]]]
  BY <1>1, <1>3, <1>7, <1>8 DEF Chain
<1>10. chain \in [1..(k + 1) -> Profile]
  <2>1. ASSUME NEW j \in 1..(k + 1) PROVE fs[u[j - 1]] \in Profile
    <3>1. j - 1 \in 0..k
      OBVIOUS
    <3> QED BY <1>5, <3>1
  <2> QED BY <1>9, <2>1
<1>11. chain \in Seq(Profile) /\ Len(chain) = k + 1
  BY <1>10
<1>12. chain[k + 1] = p
  <2>1. k + 1 \in 1..(k + 1) /\ (k + 1) - 1 = k
    OBVIOUS
  <2> QED BY <1>3, <1>9, <2>1
<1>13. ASSUME NEW j \in 1..k PROVE q.chain[j] = chain[j]
  <2>1. j \in 1..(k + 1) /\ j - 1 \in 0..(k - 1) /\ (j - 1) + 1 = j
    OBVIOUS
  <2>2. r.chain[j] = fs[u[j - 1]]
    BY <1>3, <2>1
  <2> QED BY <1>9, <2>1, <2>2
<1>14. Merged(chain, k, p)
  BY <1>11, <1>12, MergedTop
<1>15. k < Len(chain)
  BY <1>11
<1> QED BY <1>3, <1>7, <1>8, <1>11, <1>13, <1>14, <1>15 DEF MergedOf

LEMMA FailTrace ==
  ASSUME LoadInv, TraceInv, NEW l \in Loader, load[l].at # "idle", UNCHANGED <<files, edition>>,
         NEW why, Failed(l, why),
         why = "cycle" /\ load[l].edition = edition => Cyclic(files, load[l].name)
  PROVE  TraceInv'
<1>1. PICK r : r = [at |-> "failed", why |-> why, name |-> load[l].name, edition |-> load[l].edition]
  OBVIOUS
<1>2. load' = [load EXCEPT ![l] = r]
  BY <1>1 DEF Failed
<1>3. r.edition = edition => Follows(files, r)
  BY <1>1 DEF Follows
<1>4. r.edition = load[l].edition
  BY <1>1
<1> QED BY <1>2, <1>3, <1>4, TraceFrom

LEMMA StartTrace ==
  ASSUME DiskInv, LoadInv, TraceInv, NEW l \in Loader, LoadProfile(l)
  PROVE  TraceInv'
<1>1. PICK n \in Name :
        load' = [load EXCEPT ![l] = [at |-> "read", name |-> n, next |-> n, seen |-> {},
                                     chain |-> <<>>, edition |-> edition]]
  BY DEF LoadProfile
<1>2. PICK r : r = [at |-> "read", name |-> n, next |-> n, seen |-> {}, chain |-> <<>>,
                    edition |-> edition]
  OBVIOUS
<1>3. load'[l] = r /\ \A k \in Loader : k # l => load'[k] = load[k]
  BY <1>1, <1>2 DEF LoadInv
<1>4. UNCHANGED <<files, edition>>
  BY DEF LoadProfile, diskVars
<1>5. PICK size \in Nat : size = Cardinality(Name) /\ Up(files, n)[0] = n
  BY DiskLinked, UpIs, UpFacts
<1>6. ReadOf(files, r)
  <2>1. Len(r.chain) = 0 /\ 0 <= size /\ 0..(0 - 1) = {} /\ 1..0 = {}
    BY <1>2
  <2>2. Cardinality({}) = 0
    BY FS_EmptySet
  <2>3. r.name = n /\ r.next = n /\ r.seen = {}
    BY <1>2
  <2>4. {Up(files, n)[j] : j \in 0..(0 - 1)} = {}
    BY <2>1
  <2> QED BY <1>5, <2>1, <2>2, <2>3, <2>4 DEF ReadOf
<1>7. edition <= edition
  BY DEF DiskInv
<1>8. Traces(r)'
  BY <1>2, <1>4, <1>6, <1>7 DEF Traces, Follows
<1>9. ASSUME NEW k \in Loader PROVE Traces(load[k])'
  <2>1. CASE k # l
    BY <1>3, <1>4, <2>1 DEF TraceInv, Traces
  <2>2. CASE k = l
    BY <1>3, <1>8, <2>2
  <2> QED BY <2>1, <2>2
<1> QED BY <1>9 DEF TraceInv

LEMMA ReadTrace ==
  ASSUME DiskInv, LoadInv, TraceInv, NEW l \in Loader, Read(l)
  PROVE  TraceInv'
<1>1. PICK old \in LoadRec : old = load[l] /\ old.at = "read"
  BY DEF LoadInv, Read, Loads
<1>2. old \in [at: {"read"}, name: Name, next: Name, seen: SUBSET Name, chain: Seq(Profile),
               edition: Nat]
  BY <1>1, LoadFacts
<1>3. PICK n \in Name : n = old.next
  BY <1>2
<1>4. PICK p : p = files[n]
  OBVIOUS
<1>5. UNCHANGED <<files, edition>>
  BY DEF Read, diskVars
<1>6. Linked(files) /\ \A m \in Name : files[m] \notin {NoFile, Torn} => files[m] \in Profile
  BY DiskLinked, GoodProfile DEF DiskInv, Readable
<1>7. old.edition = edition => ReadOf(files, old)
  BY <1>1, FollowsThen DEF Follows
<1>8. /\ old.name \in Name /\ old.chain \in Seq(Profile) /\ old.seen \subseteq Name
      /\ old.next \in Name
  BY <1>2
<1>9. CASE Failed(l, "missing") \/ Failed(l, "parse")
  BY <1>1, <1>5, <1>9, FailTrace
<1>10. CASE n \in old.seen /\ Failed(l, "cycle")
  <2>1. old.edition = edition => Cyclic(files, old.name)
    BY <1>3, <1>6, <1>7, <1>8, <1>10, ReadCycle
  <2> QED BY <1>1, <1>5, <1>10, <2>1, FailTrace
<1>11. Readable(n) => p \in Profile /\ p \notin {NoFile, Torn}
  BY <1>4, <1>6 DEF Readable
<1>12. CASE /\ n \notin old.seen /\ Readable(n)
            /\ load' = [load EXCEPT ![l].next = p.extends, ![l].seen = @ \cup {n},
                                    ![l].chain = Append(@, p)]
  <2>1. PICK r : r = [old EXCEPT !.next = p.extends, !.seen = @ \cup {n}, !.chain = Append(@, p)]
    OBVIOUS
  <2>2. load' = [load EXCEPT ![l] = r]
    BY <1>1, <1>12, <2>1 DEF LoadInv
  <2>3. /\ r.at = "read" /\ r.name = old.name /\ r.edition = old.edition /\ r.next = p.extends
        /\ r.seen = old.seen \cup {n} /\ r.chain = Append(old.chain, p)
    BY <1>2, <2>1
  <2>4. ASSUME old.edition = edition PROVE ReadOf(files, r)
    BY <1>3, <1>4, <1>6, <1>7, <1>8, <1>11, <1>12, <2>3, <2>4, ReadOn
  <2>5. r.edition = edition => Follows(files, r)
    BY <2>3, <2>4 DEF Follows
  <2>6. load[l].at # "idle" /\ r.edition = load[l].edition
    BY <1>1, <2>3
  <2> QED BY <1>5, <2>2, <2>5, <2>6, TraceFrom
<1>13. CASE /\ n \notin old.seen /\ Readable(n) /\ p.extends = NoBase
            /\ load' = [load EXCEPT ![l] = [at |-> "merge", name |-> @.name, edition |-> @.edition,
                                            p |-> p, chain |-> @.chain]]
  <2>1. PICK r : r = [at |-> "merge", name |-> old.name, edition |-> old.edition, p |-> p,
                      chain |-> old.chain]
    OBVIOUS
  <2>2. load' = [load EXCEPT ![l] = r]
    BY <1>1, <1>13, <2>1
  <2>3. /\ r.at = "merge" /\ r.name = old.name /\ r.edition = old.edition /\ r.p = p
        /\ r.chain = old.chain
    BY <2>1
  <2>4. ASSUME old.edition = edition PROVE MergedOf(files, r)
    BY <1>3, <1>4, <1>6, <1>7, <1>8, <1>11, <1>13, <2>3, <2>4, ReadEnd
  <2>5. r.edition = edition => Follows(files, r)
    BY <2>3, <2>4 DEF Follows
  <2>6. load[l].at # "idle" /\ r.edition = load[l].edition
    BY <1>1, <2>3
  <2> QED BY <1>5, <2>2, <2>5, <2>6, TraceFrom
<1>14. \/ Failed(l, "missing") \/ Failed(l, "parse")
       \/ n \in old.seen /\ Failed(l, "cycle")
       \/ /\ n \notin old.seen /\ Readable(n)
          /\ load' = [load EXCEPT ![l].next = p.extends, ![l].seen = @ \cup {n},
                                  ![l].chain = Append(@, p)]
       \/ /\ n \notin old.seen /\ Readable(n) /\ p.extends = NoBase
          /\ load' = [load EXCEPT ![l] = [at |-> "merge", name |-> @.name, edition |-> @.edition,
                                          p |-> p, chain |-> @.chain]]
  BY <1>1, <1>3, <1>4 DEF Read, NoBase
<1> QED BY <1>9, <1>10, <1>12, <1>13, <1>14

(* The last of a list, and the others. *)
LEMMA LastOf ==
  ASSUME NEW S, NEW s \in Seq(S), s # <<>>
  PROVE  \E k \in Nat : /\ Len(s) = k + 1 /\ Len(Front(s)) = k /\ Last(s) = s[k + 1]
                        /\ \A j \in 1..k : Front(s)[j] = s[j]
<1>1. PICK k \in Nat : Len(s) = k + 1
  <2>1. Len(s) \in Nat /\ Len(s) # 0
    OBVIOUS
  <2>2. Len(s) - 1 \in Nat /\ Len(s) = (Len(s) - 1) + 1
    BY <2>1
  <2> QED BY <2>2
<1>2. Last(s) = s[k + 1]
  BY <1>1 DEF Last
<1>3. PICK front : front = Front(s)
  OBVIOUS
<1>4. Len(front) = k /\ \A j \in 1..k : front[j] = s[j]
  BY <1>1, <1>3 DEF Front
<1> QED BY <1>1, <1>2, <1>3, <1>4

LEMMA MergeTrace ==
  ASSUME DiskInv, LoadInv, TraceInv, NEW l \in Loader, Merge(l)
  PROVE  TraceInv'
<1>1. PICK old \in LoadRec : old = load[l] /\ old.at = "merge"
  BY DEF LoadInv, Merge, Loads
<1>2. old \in [at: {"merge"}, name: Name, edition: Nat, p: Profile, chain: Seq(Profile)]
  BY <1>1, LoadFacts
<1>3. UNCHANGED <<files, edition>>
  BY DEF Merge, diskVars
<1>4. old.edition = edition => MergedOf(files, old)
  BY <1>1, FollowsThen DEF Follows
<1>5. PICK chain : chain = Chain(files, old.name)
  OBVIOUS
<1>6. PICK rest \in Seq(Profile), p \in Profile : rest = old.chain /\ p = old.p
  BY <1>2
<1>7. old.edition = edition =>
        /\ ~Cyclic(files, old.name) /\ chain \in Seq(Profile)
        /\ Len(rest) < Len(chain) /\ \A j \in 1..Len(rest) : rest[j] = chain[j]
        /\ Merged(chain, Len(rest), p)
  BY <1>4, <1>5, <1>6 DEF MergedOf
<1>8. CASE /\ rest # <<>>
           /\ load' = [load EXCEPT ![l].p = mergeProfiles(@, Last(rest)), ![l].chain = Front(@)]
  <2>1. PICK k \in Nat : /\ Len(rest) = k + 1 /\ Len(Front(rest)) = k /\ Last(rest) = rest[k + 1]
                         /\ \A j \in 1..k : Front(rest)[j] = rest[j]
    BY <1>8, LastOf
  <2>2. PICK front, q : front = Front(rest) /\ q = mergeProfiles(p, Last(rest))
    OBVIOUS
  <2>3. PICK r : r = [old EXCEPT !.p = q, !.chain = front]
    OBVIOUS
  <2>4. load' = [load EXCEPT ![l] = r]
    BY <1>1, <1>6, <1>8, <2>2, <2>3 DEF LoadInv
  <2>5. /\ r.at = "merge" /\ r.name = old.name /\ r.edition = old.edition
        /\ r.p = q /\ r.chain = front
    BY <1>2, <2>3
  <2>6. ASSUME old.edition = edition PROVE MergedOf(files, r)
    <3>1. /\ ~Cyclic(files, old.name) /\ chain \in Seq(Profile)
          /\ Len(rest) < Len(chain) /\ \A j \in 1..Len(rest) : rest[j] = chain[j]
          /\ Merged(chain, Len(rest), p)
      BY <1>7, <2>6
    <3>2. k + 1 < Len(chain) /\ Merged(chain, k + 1, p)
      BY <2>1, <3>1
    <3>3. Last(rest) = chain[k + 1]
      <4>1. k + 1 \in 1..Len(rest)
        BY <2>1
      <4> QED BY <2>1, <3>1, <4>1
    <3>4. Merged(chain, k, q)
      BY <2>2, <3>1, <3>2, <3>3, MergedNext
    <3>5. \A j \in 1..k : front[j] = chain[j]
      <4>1. \A j \in 1..k : j \in 1..Len(rest)
        BY <2>1
      <4> QED BY <2>1, <2>2, <3>1, <4>1
    <3>6. Len(front) = k /\ k < Len(chain)
      BY <2>1, <2>2, <3>1, <3>2
    <3> QED BY <1>5, <2>5, <3>1, <3>4, <3>5, <3>6 DEF MergedOf
  <2>7. r.edition = edition => Follows(files, r)
    BY <2>5, <2>6 DEF Follows
  <2>8. load[l].at # "idle" /\ r.edition = load[l].edition
    BY <1>1, <2>5
  <2> QED BY <1>3, <2>4, <2>7, <2>8, TraceFrom
<1>9. CASE /\ rest = <<>>
           /\ load' = [load EXCEPT ![l] = [at |-> "resolve", name |-> @.name,
                                           edition |-> @.edition, p |-> @.p]]
  <2>1. PICK r : r = [at |-> "resolve", name |-> old.name, edition |-> old.edition, p |-> p]
    OBVIOUS
  <2>2. load' = [load EXCEPT ![l] = r]
    BY <1>1, <1>6, <1>9, <2>1
  <2>3. r.at = "resolve" /\ r.name = old.name /\ r.edition = old.edition /\ r.p = p
    BY <2>1
  <2>4. Len(rest) = 0
    BY <1>9
  <2>5. r.edition = edition => Follows(files, r)
    BY <1>5, <1>7, <2>3, <2>4 DEF Follows
  <2>6. load[l].at # "idle" /\ r.edition = load[l].edition
    BY <1>1, <2>3
  <2> QED BY <1>3, <2>2, <2>5, <2>6, TraceFrom
<1>10. \/ /\ rest # <<>>
          /\ load' = [load EXCEPT ![l].p = mergeProfiles(@, Last(rest)), ![l].chain = Front(@)]
       \/ /\ rest = <<>>
          /\ load' = [load EXCEPT ![l] = [at |-> "resolve", name |-> @.name,
                                          edition |-> @.edition, p |-> @.p]]
  BY <1>1, <1>6 DEF Merge
<1> QED BY <1>8, <1>9, <1>10

LEMMA LastTrace ==
  ASSUME DiskInv, LoadInv, TraceInv, NEW l \in Loader, Resolve(l) \/ Launch(l) \/ LaunchFails(l)
  PROVE  TraceInv'
<1>1. PICK old \in LoadRec : old = load[l] /\ old.at \in {"resolve", "docs"}
  BY DEF LoadInv, Resolve, Launch, LaunchFails, Loads
<1>2. old \in [at: {"resolve", "docs"}, name: Name, edition: Nat, p: Profile]
  BY <1>1, LoadFacts
<1>3. UNCHANGED <<files, edition>>
  BY DEF Resolve, Launch, LaunchFails, diskVars
<1>4. ASSUME old.edition = edition
      PROVE  /\ ~Cyclic(files, old.name) /\ Chain(files, old.name) \in Seq(Profile)
             /\ Merged(Chain(files, old.name), 0, old.p)
  BY <1>1, <1>4, FollowsThen DEF Follows
<1>5. CASE Failed(l, "invalid") \/ Failed(l, "host")
  BY <1>1, <1>3, <1>5, FailTrace
<1>6. CASE load' = [load EXCEPT ![l].at = "docs"]
  <2>1. PICK r : r = [old EXCEPT !.at = "docs"]
    OBVIOUS
  <2>2. load' = [load EXCEPT ![l] = r]
    BY <1>1, <1>6, <2>1
  <2>3. r.at \in {"docs", "launched"} /\ r.name = old.name /\ r.edition = old.edition /\ r.p = old.p
    BY <1>2, <2>1
  <2>4. r.edition = edition => Follows(files, r)
    BY <1>4, <2>3 DEF Follows
  <2>5. load[l].at # "idle" /\ r.edition = load[l].edition
    BY <1>1, <2>3
  <2> QED BY <1>3, <2>2, <2>4, <2>5, TraceFrom
<1>7. CASE \E d, m : load' = [load EXCEPT ![l] = [at |-> "launched", name |-> @.name,
                                edition |-> @.edition, p |-> load[l].p, docs |-> d, mounts |-> m]]
  <2>1. PICK d, m : load' = [load EXCEPT ![l] = [at |-> "launched", name |-> @.name,
                              edition |-> @.edition, p |-> load[l].p, docs |-> d, mounts |-> m]]
    BY <1>7
  <2>2. PICK r : r = [at |-> "launched", name |-> old.name, edition |-> old.edition, p |-> old.p,
                      docs |-> d, mounts |-> m]
    OBVIOUS
  <2>3. load' = [load EXCEPT ![l] = r]
    BY <1>1, <2>1, <2>2
  <2>4. r.at \in {"docs", "launched"} /\ r.name = old.name /\ r.edition = old.edition /\ r.p = old.p
    BY <2>2
  <2>5. r.edition = edition => Follows(files, r)
    BY <1>4, <2>4 DEF Follows
  <2>6. load[l].at # "idle" /\ r.edition = load[l].edition
    BY <1>1, <2>4
  <2> QED BY <1>3, <2>3, <2>5, <2>6, TraceFrom
<1>8. Launch(l) => \E d, m : load' = [load EXCEPT ![l] = [at |-> "launched", name |-> @.name,
                               edition |-> @.edition, p |-> load[l].p, docs |-> d, mounts |-> m]]
  BY DEF Launch
<1>9. Resolve(l) => Failed(l, "invalid") \/ load' = [load EXCEPT ![l].at = "docs"]
  BY DEF Resolve
<1>10. LaunchFails(l) => Failed(l, "host")
  BY DEF LaunchFails
<1> QED BY <1>5, <1>6, <1>7, <1>8, <1>9, <1>10

LEMMA AnswerTrace ==
  ASSUME LoadInv, TraceInv, NEW l \in Loader, Answer(l)
  PROVE  TraceInv'
<1>1. UNCHANGED <<files, edition>> /\ load' = [load EXCEPT ![l] = NoLoad]
  BY DEF Answer, diskVars
<1>2. NoLoad.at = "idle"
  BY DEF NoLoad
<1> QED BY <1>1, <1>2, TraceFrom

LEMMA NextTrace == DiskInv /\ LoadInv /\ TraceInv /\ [Next]_vars => TraceInv'
<1> SUFFICES ASSUME DiskInv, LoadInv, TraceInv, [Next]_vars PROVE TraceInv'
  OBVIOUS
<1>1. CASE UNCHANGED vars
  BY <1>1, DiskTrace DEF vars
<1> QED BY <1>1, CommandTrace, StartTrace, ReadTrace, MergeTrace, LastTrace, AnswerTrace DEF Next

LEMMA InitTrace == Init => TraceInv
BY DEF Init, TraceInv, Traces, NoLoad

(* profile.go 183-201: a load during which no file changes has the lists of its
   whole chain, however long, from the base down, the nearest working directory
   and any switch that is on, and is refused for a cycle exactly when the chain
   has one; whatever commands change, replace, tear or lose before and after. *)
THEOREM InheritsItsChain == Spec => []Inherited
<1>1. LoadInv /\ TraceInv => Inherited
  <2> SUFFICES ASSUME LoadInv, TraceInv, NEW l \in Loader, load[l].at # "idle",
                      load[l].edition = edition,
                      NEW chain, chain = Chain(files, load[l].name), NEW p, p = load[l].p
               PROVE  /\ load[l].at \in {"resolve", "docs", "launched"} =>
                           /\ ~Cyclic(files, load[l].name)
                           /\ \A field \in Lists : p[field] = FromBase(chain, field)
                           /\ p.workdir = Nearest(chain)
                           /\ p.audio = \E k \in 1..Len(chain) : chain[k].audio
                      /\ load[l].at = "failed" /\ load[l].why = "cycle" =>
                           Cyclic(files, load[l].name)
    BY DEF Inherited, Lists
  <2>1. Follows(files, load[l])
    BY FollowsThen
  <2>2. ASSUME load[l].at \in {"resolve", "docs", "launched"}
        PROVE  /\ \A field \in Lists : p[field] = FromBase(chain, field)
               /\ p.workdir = Nearest(chain)
               /\ p.audio = \E k \in 1..Len(chain) : chain[k].audio
    <3>1. chain \in Seq(Profile) /\ Merged(chain, 0, p)
      BY <2>1, <2>2 DEF Follows
    <3>2. \A field \in Lists : p[field] = FromBase(chain, field)
      BY <3>1, JoinedAll DEF Merged
    <3>3. 1..0 = {} /\ \A k \in 1..Len(chain) : k > 0
      BY <3>1
    <3>4. p.workdir = Nearest(chain)
      BY <3>1, <3>3 DEF Merged
    <3>5. p.audio = \E k \in 1..Len(chain) : chain[k].audio
      BY <3>1, <3>3 DEF Merged
    <3> QED BY <3>2, <3>4, <3>5
  <2> QED BY <2>1, <2>2 DEF Follows
<1> QED BY ProfilesInvariant, InitTrace, NextTrace, <1>1, PTL DEF Spec
=============================================================================
