---------------------------- MODULE SerialProofs ----------------------------
(***************************************************************************)
(* The theorems about Manager where requests, exits and crashes only meet  *)
(* a settled murod: SerialInv, the properties of a settled murod that it   *)
(* implies, that Manager implements SandboxLife, and, where records are    *)
(* also reloaded and merged, RestartBudget and BridgesUp.                  *)
(*                                                                         *)
(* First what a step leaves alone, then one lemma per step of a request;   *)
(* the steps that open, relay and close sessions, exits, crashes and       *)
(* startup; the watchLoops; the theorems; the same steps again, as steps   *)
(* of SandboxLife; and last who has copies of a record, and what of the    *)
(* record stays true of them.                                              *)
(***************************************************************************)
EXTENDS ManagerProofs, RecordsInvariant, FiniteSetTheorems

----------------------------------------------------------------------------
(* What a step on one sandbox leaves of the others. *)

OtherKeys(k) ==
  /\ \A l \in Key \ {k} : /\ store'[l] = store[l] /\ handles'[l] = handles[l]
                          /\ epoch'[l] = epoch[l]
  /\ \A p \in Process : proc'[p] # proc[p] =>
       proc'[p].key = k /\ (proc[p].key = k \/ proc[p] = Unborn)
  /\ \A p \in Process : watch'[p] # watch[p] => proc'[p].key = k
  /\ addrs \subseteq addrs'
  /\ \A i \in Id : allow'[i] # allow[i] =>
       \A p \in Process : proc[p].id = i => proc[p].key = k

LEMMA RestFrame ==
  ASSUME Types, CopiesOK, NEW k \in Key, NEW l \in Key \ {k}, OtherKeys(k), Rest(l)
  PROVE  Rest(l)'
<1>1. store'[l] = store[l] /\ handles'[l] = handles[l] /\ epoch'[l] = epoch[l]
  BY DEF OtherKeys
<1>2. ASSUME NEW p \in Process, proc[p].key = l \/ proc'[p].key = l
      PROVE  proc'[p] = proc[p] /\ watch'[p] = watch[p]
  <2>1. None \notin Key
    BY ConstantsAssumption
  <2>2. Unborn.key = None
    BY DEF Unborn
  <2>3. proc'[p] = proc[p]
    BY <1>2, <2>1, <2>2 DEF OtherKeys
  <2> QED BY <1>2, <2>3 DEF OtherKeys
<1>3. CASE Gone(l)
  <2>1. Nobody(l)'
    BY <1>2, <1>3 DEF Gone, Nobody, Alive
  <2> QED BY <1>1, <1>3, <2>1 DEF Gone, Inactive, Active, Rest
<1>4. CASE Held(l)
  <2>1. PICK sb, p : sb = store[l] /\ p = sb.pid
    OBVIOUS
  <2>2. /\ store[l] # None /\ sb.state = "running" /\ handles[l] = p
        /\ Only(l, p) /\ Minds(p, l) /\ p \in addrs /\ allow[sb.id] = sb.urls
    BY <1>4, <2>1 DEF Held, Backed, Running, Listed
  <2>3. p \in Process /\ proc[p].key = l
    BY <2>2 DEF Only
  <2>4. Only(l, p)'
    BY <1>2, <2>2, <2>3 DEF Only, Alive
  <2>5. Minds(p, l)'
    BY <1>1, <1>2, <2>2, <2>3 DEF Minds
  <2>6. sb.id \in Id /\ proc[p].id = sb.id
    <3>1. sb \in Record
      BY <2>1, <2>2, OrNoneElim DEF Types, StoreOK
    <3> QED BY <2>1, <2>2, <3>1 DEF Record, CopiesOK, StoreCopies, Of
  <2>7. allow'[sb.id] = sb.urls
    BY <2>2, <2>3, <2>6 DEF OtherKeys
  <2>8. p \in addrs'
    BY <2>2 DEF OtherKeys
  <2> QED BY <1>1, <2>1, <2>2, <2>4, <2>5, <2>7, <2>8 DEF Rest, Held, Backed, Running, Listed
<1> QED BY <1>3, <1>4 DEF Rest

(* A loop that was not handling an exit is not handling one after a step. *)
Unheeding(p) ==
  \/ ~Waits(p)'
  \/ watch'[p].pc = "wait" /\ ~Dead(p)'
  \/ /\ watch'[p] = watch[p] /\ ~Handling(p)
     /\ Dead(p)' /\ ~Dead(p) /\ Waits(p) => watch[p].epoch # epoch[watch[p].key]

LEMMA StillUnheeding ==
  ASSUME Types, EpochInv, Advances, Types', NEW p \in Process, Unheeding(p)
  PROVE  ~Handling(p)'
<1>1. CASE ~Waits(p)'
  BY <1>1 DEF Handling
<1>2. CASE watch'[p].pc = "wait" /\ ~Dead(p)'
  BY <1>2 DEF Handling
<1>3. CASE /\ watch'[p] = watch[p] /\ ~Handling(p) /\ Waits(p)
           /\ Dead(p)' /\ ~Dead(p) /\ Waits(p) => watch[p].epoch # epoch[watch[p].key]
  <2>1. PICK k, e : k = watch[p].key /\ e = watch[p].epoch
    OBVIOUS
  <2>2. k \in Key /\ e \in Nat /\ e <= epoch[k]
    BY <1>3, <2>1 DEF Waits, Types, WatchesOK, WatchOK, WatchType, EpochInv, EpochsPast
  <2>3. epoch[k] \in Nat /\ epoch'[k] \in Nat /\ epoch[k] <= epoch'[k]
    BY <2>2 DEF Types, TableOK, Advances
  <2>4. watch[p].pc = "wait" /\ (Dead(p) => e # epoch[k])
    BY <1>3, <2>1 DEF Handling
  <2>5. Dead(p)' => e # epoch'[k]
    BY <1>3, <2>1, <2>2, <2>3, <2>4
  <2> QED BY <1>3, <2>1, <2>4, <2>5 DEF Handling
<1> QED BY <1>1, <1>2, <1>3 DEF Unheeding, Waits

----------------------------------------------------------------------------
(* Launches and deaths. *)

LEMMA LaunchFacts ==
  ASSUME Types, NEW k \in Key, Nobody(k), NEW p \in Process, NEW sb, Launch(p, k, sb)
  PROVE  /\ Only(k, p)' /\ Alive(p)' /\ proc[p] = Unborn
         /\ proc'[p].key = k /\ proc'[p].id = sb.id /\ Born(p)'
         /\ \A q \in Process \ {p} : proc'[q] = proc[q]
         /\ \A q \in Process : Dead(q)' => Dead(q)
<1>1. /\ proc'[p].st = "alive" /\ proc'[p].key = k /\ proc'[p].id = sb.id
      /\ \A q \in Process \ {p} : proc'[q] = proc[q]
  BY DEF Launch, Types, ProcOK
<1>2. Only(k, p)'
  BY <1>1 DEF Only, Alive, Nobody
<1> QED BY <1>1, <1>2 DEF Launch, Alive, Dead, Born, Unborn

(* p dies: of what Kill and Exit do. *)
Dies(p) == /\ Dead(p)' /\ Alive(p) /\ proc'[p].key = proc[p].key /\ proc'[p].id = proc[p].id
           /\ \A q \in Process \ {p} : proc'[q] = proc[q]

LEMMA DiesFacts ==
  ASSUME Types, NEW p \in Process, Alive(p),
         Kill(p) \/ \E st \in {"clean", "failed"} : proc' = [proc EXCEPT ![p].st = st]
  PROVE  Dies(p)
<1>1. ASSUME NEW st \in {"clean", "failed"}, proc' = [proc EXCEPT ![p].st = st]
      PROVE  Dies(p)
  <2>1. /\ proc'[p].st = st /\ proc'[p].key = proc[p].key /\ proc'[p].id = proc[p].id
        /\ \A q \in Process \ {p} : proc'[q] = proc[q]
    BY <1>1 DEF Types, ProcOK, ProcType
  <2> QED BY <2>1 DEF Dies, Dead
<1> QED BY <1>1 DEF Kill

LEMMA LastDies ==
  ASSUME NEW k \in Key, NEW p \in Process, Only(k, p), Dies(p)
  PROVE  Nobody(k)'
<1>1. ~Alive(p)'
  BY DEF Dies, Dead, Alive
<1>2. \A q \in Process \ {p} : Alive(q)' /\ proc'[q].key = k => FALSE
  BY DEF Dies, Only, Alive
<1> QED BY <1>1, <1>2 DEF Nobody

LEMMA IdsStay ==
  ASSUME IdsApart, NEW S \in SUBSET Process,
         \A p \in Process \ S : proc'[p].key = proc[p].key /\ proc'[p].id = proc[p].id
                                /\ (Born(p)' => Born(p)),
         \A p \in S : /\ proc'[p].key \in Key
                      /\ \A q \in Process : proc'[q].id = proc'[p].id => proc'[q].key = proc'[p].key
  PROVE  IdsApart'
  BY DEF IdsApart

LEMMA SameIds == ASSUME IdsApart, UNCHANGED proc PROVE IdsApart'
  BY DEF IdsApart, Born

LEMMA DeathIds ==
  ASSUME IdsApart, NEW p \in Process, Dies(p)
  PROVE  IdsApart'
<1>1. \A q \in Process : proc'[q].key = proc[q].key /\ proc'[q].id = proc[q].id
                        /\ (Born(q)' => Born(q))
  BY DEF Dies, Alive, Born, Unborn
<1> QED BY <1>1 DEF IdsApart

LEMMA LaunchIds ==
  ASSUME Types, IdsApart, NEW k \in Key, Nobody(k), NEW p \in Process, NEW sb, Launch(p, k, sb),
         \A q \in Process : proc[q].id = sb.id => proc[q].key = k
  PROVE  IdsApart'
<1>1. /\ proc'[p].key = k /\ proc'[p].id = sb.id
      /\ \A q \in Process \ {p} : proc'[q] = proc[q]
  BY LaunchFacts
<1>2. \A q \in Process \ {p} : proc'[q].key = proc[q].key /\ proc'[q].id = proc[q].id
                               /\ (Born(q)' => Born(q))
  BY <1>1 DEF Born
<1>3. \A q \in Process : proc'[q].id = sb.id => proc'[q].key = k
  BY <1>1
<1>4. \A q \in {p} : /\ proc'[q].key \in Key
                     /\ \A x \in Process : proc'[x].id = proc'[q].id => proc'[x].key = proc'[q].key
  BY <1>1, <1>3
<1> QED BY <1>2, <1>4, IdsStay

----------------------------------------------------------------------------
(* A request at work. *)

ReqMode(c) == /\ murod = "up" /\ disk = store /\ IdsApart
              /\ Working(c) /\ ReqForm(req[c], req[c].key)
              /\ \A l \in Key \ {req[c].key} : Rest(l)
              /\ \A d \in Client \ {c} : ~Working(d)
              /\ \A p \in Process : ~Handling(p)

LEMMA InReqMode ==
  ASSUME StartInv, SerialInv, NEW c \in Client, Working(c)
  PROVE  ReqMode(c)
<1>1. murod = "up"
  BY DEF StartInv, Working
<1>2. RequestAtWork
  BY <1>1 DEF SerialInv, AtRest, WatchAtWork
<1>3. PICK d \in Client : /\ Working(d) /\ ReqForm(req[d], req[d].key)
                          /\ \A l \in Key \ {req[d].key} : Rest(l)
                          /\ \A e \in Client \ {d} : ~Working(e)
                          /\ \A p \in Process : ~Handling(p)
  BY <1>2 DEF RequestAtWork
<1>4. d = c
  BY <1>3
<1> QED BY <1>1, <1>3, <1>4 DEF ReqMode, SerialInv

(* Where a step of a request on sandbox k leads. *)
Rests(c, k) == ~Working(c)' /\ Rest(k)'
GoesOnAt(c, k) == Working(c)' /\ req'[c].key = k /\ ReqForm(req[c], k)'

LEMMA RequestOutcome ==
  ASSUME IInv, Types', NEW c \in Client, ReqMode(c), NEW k \in Key, k = req[c].key,
         Others(c), UNCHANGED murod, disk' = store', IdsApart', OtherKeys(k), Advances,
         \A p \in Process : Unheeding(p),
         Rests(c, k) \/ GoesOnAt(c, k)
  PROVE  SerialInv'
<1>1. \A p \in Process : ~Handling(p)'
  BY StillUnheeding DEF IInv
<1>2. \A l \in Key \ {k} : Rest(l)'
  BY RestFrame DEF IInv, ReqMode
<1>3. \A d \in Client \ {c} : ~Working(d)'
  BY DEF ReqMode, Others, Working
<1>4. murod' = "up"
  BY DEF ReqMode
<1>5. CASE Rests(c, k)
  <2>1. AtRest'
    BY <1>1, <1>2, <1>3, <1>5 DEF Rests, AtRest
  <2> QED BY <1>4, <2>1 DEF SerialInv
<1>6. CASE GoesOnAt(c, k)
  <2>1. RequestAtWork'
    BY <1>1, <1>2, <1>3, <1>6 DEF GoesOnAt, RequestAtWork
  <2> QED BY <1>4, <2>1 DEF SerialInv
<1> QED BY <1>5, <1>6

(* Steps that leave the processes and the loops alone. *)
LEMMA StillProcesses ==
  ASSUME UNCHANGED <<proc, watch>>, \A p \in Process : ~Handling(p)
  PROVE  \A p \in Process : Unheeding(p)
  BY DEF Unheeding, Dead

LEMMA StillLists ==
  ASSUME Types, NEW k \in Key, UNCHANGED <<proc, watch, addrs, allow>>,
         UNCHANGED tableVars \/ (\E p : setHandle(k, p)),
         UNCHANGED store \/ (\E r : Set(k, r))
  PROVE  OtherKeys(k)
<1>1. \A l \in Key \ {k} : handles'[l] = handles[l] /\ epoch'[l] = epoch[l]
  BY DEF Types, TableOK, tableVars, setHandle
<1>2. \A l \in Key \ {k} : store'[l] = store[l]
  BY DEF Types, StoreOK, Set
<1> QED BY <1>1, <1>2 DEF OtherKeys

LEMMA PutFacts ==
  ASSUME Types, NEW k \in Key, NEW r, Set(k, r), Persist
  PROVE  store'[k] = r /\ disk' = store'
  BY DEF Types, StoreOK, Set, Persist

LEMMA NoPutFault == Serially => ~NotPersisted /\ ~KillFails
  BY DEF Serially, NotPersisted, KillFails

(* A step that leaves the processes, the loops and the proxy alone. *)
LEMMA PlainOutcome ==
  ASSUME IInv, Types', NEW c \in Client, ReqMode(c), NEW k \in Key, k = req[c].key,
         Others(c), UNCHANGED <<murod, proc, watch, proxyVars>>,
         UNCHANGED tableVars \/ (\E p : setHandle(k, p)),
         UNCHANGED storeVars \/ (\E r : Set(k, r) /\ Persist),
         Rests(c, k) \/ GoesOnAt(c, k)
  PROVE  SerialInv'
<1>1. OtherKeys(k)
  <2>1. UNCHANGED store \/ \E r : Set(k, r)
    BY DEF storeVars
  <2>2. UNCHANGED <<proc, watch, addrs, allow>>
    BY DEF proxyVars
  <2> QED BY <2>1, <2>2, StillLists DEF IInv
<1>2. Advances /\ \A p \in Process : Unheeding(p)
  BY StillProcesses, StillKeeps DEF IInv, ReqMode
<1>3. IdsApart' /\ disk' = store'
  BY SameIds DEF ReqMode, storeVars, Persist
<1> QED BY <1>1, <1>2, <1>3, RequestOutcome

(* What a request keeps as it goes on, and what it keeps beside a note. *)
LEMMA GotoFacts ==
  ASSUME Types, NEW c \in Client, NEW pc, Goto(c, pc)
  PROVE  /\ Others(c) /\ req'[c].pc = pc
         /\ req'[c].key = req[c].key /\ req'[c].sb = req[c].sb
         /\ req'[c].new = req[c].new /\ req'[c].old = req[c].old
         /\ req'[c].epoch = req[c].epoch
  BY DEF Goto, Types, ReqsOK, ReqType, Others

LEMMA OldFacts ==
  ASSUME Types, NEW c \in Client, NEW pc, NEW h,
         req' = [req EXCEPT ![c].pc = pc, ![c].old = h]
  PROVE  /\ Others(c) /\ req'[c].pc = pc /\ req'[c].old = h
         /\ req'[c].key = req[c].key /\ req'[c].sb = req[c].sb
  BY DEF Types, ReqsOK, ReqType, Others

LEMMA LaunchedFacts ==
  ASSUME Types, NEW c \in Client, NEW pc, NEW p, NEW sb,
         req' = [req EXCEPT ![c].pc = pc, ![c].new = p, ![c].sb = sb]
  PROVE  /\ Others(c) /\ req'[c].pc = pc /\ req'[c].new = p /\ req'[c].sb = sb
         /\ req'[c].key = req[c].key
  BY DEF Types, ReqsOK, ReqType, Others

LEMMA DoneRests ==
  ASSUME Types, NEW c \in Client, NEW k, Done(c), Rest(k)'
  PROVE  Others(c) /\ Rests(c, k)
  BY MoveFacts DEF Rests, Working

(* What the forms say of each control point. *)
FormNow(c) == ReqForm(req[c], req[c].key)

LEMMA FormFacts ==
  ASSUME NEW r, NEW k, ReqForm(r, k)
  PROVE  /\ r.pc = "run.launch" => /\ Gone(k) /\ r.sb.state = "running"
                                   /\ \A p \in Process : proc[p].id # r.sb.id
         /\ r.pc = "run.put" => Fresh(r, k) /\ Inactive(k) /\ handles[k] = None
         /\ r.pc = "run.sethandle" => Stored(r, k) /\ handles[k] = None
         /\ r.pc = "run.watch" => Stored(r, k) /\ handles[k] = r.new /\ r.epoch = epoch[k]
         /\ r.pc = "restart.handle" => store[k] # None /\ Rest(k)
         /\ r.pc = "restart.clear" => Held(k) /\ r.old = handles[k]
         /\ r.pc = "restart.kill" => /\ Running(k) /\ handles[k] = None
                                     /\ Only(k, r.old) /\ Unminded(k)
         /\ r.pc \in {"restart.launch", "restart.crashed"} =>
              /\ store[k] # None /\ handles[k] = None /\ Nobody(k)
              /\ r.pc = "restart.crashed" => r.sb.state = "crashed"
         /\ r.pc = "restart.put" => store[k] # None /\ Fresh(r, k) /\ handles[k] = None
         /\ r.pc = "restart.proxy" => Stored(r, k) /\ handles[k] = None
         /\ r.pc = "restart.watch" => /\ Stored(r, k) /\ handles[k] = None
                                      /\ Listed(k) /\ r.new \in addrs
         /\ r.pc = "stop.put" => store[k] # None /\ Rest(k) /\ r.sb.state = "stopped"
         /\ r.pc = "stop.handle" => /\ store[k] # None /\ Inactive(k)
                                    /\ \/ handles[k] = None /\ Nobody(k)
                                       \/ Only(k, handles[k])
         /\ r.pc = "stop.clear" => /\ store[k] # None /\ Inactive(k)
                                   /\ r.old = handles[k] /\ Only(k, r.old)
         /\ r.pc = "stop.kill" => /\ store[k] # None /\ Inactive(k) /\ handles[k] = None
                                  /\ Only(k, r.old) /\ Unminded(k)
         /\ r.pc = "delete.store" => store[k] # None /\ Gone(k)
         /\ r.pc \in {"update.put", "update.proxy"} => UpdateForm(r, k)
         /\ r.pc \notin {"run.undo", "reload.handle", "reload.put", "merge.put"}
  BY DEF ReqForm, RunForm, UpdateForm, RestartForm, StopForm, DeleteForm

LEMMA RunPutSerial ==
  ASSUME Serially, IInv, Types', NEW c \in Client, ReqMode(c), RunPut(c)
  PROVE  SerialInv'
<1>1. PICK k, sb : k = req[c].key /\ sb = req[c].sb
  OBVIOUS
<1>2. /\ At(c, "run.put") /\ Set(k, sb) /\ Persist /\ Goto(c, "run.sethandle")
      /\ UNCHANGED <<tableVars, proxyVars, proc, watch>>
  BY <1>1, NoPutFault DEF RunPut
<1>3. k \in Key /\ UNCHANGED murod
  BY <1>1, <1>2, AtOK DEF IInv, NoKeyPcs, At, startVars
<1>4. Fresh(req[c], k) /\ handles[k] = None
  BY <1>1, <1>2, FormFacts DEF At, ReqMode
<1>5. store'[k] = sb
  BY <1>2, <1>3, PutFacts DEF IInv
<1>6. Stored(req[c], k)' /\ handles'[k] = None
  BY <1>1, <1>2, <1>4, <1>5, GotoFacts DEF IInv, Stored, Fresh, Only, Alive, tableVars
<1>7. GoesOnAt(c, k)
  BY <1>1, <1>2, <1>6, GotoFacts DEF IInv, GoesOnAt, ReqForm, RunForm, Working, AttachPcs
<1> QED BY <1>1, <1>2, <1>3, <1>7, GotoFacts, PlainOutcome DEF IInv

LEMMA RunSetHandleSerial ==
  ASSUME Serially, IInv, Types', NEW c \in Client, ReqMode(c), RunSetHandle(c)
  PROVE  SerialInv'
<1>1. PICK k, p : k = req[c].key /\ p = req[c].new
  OBVIOUS
<1>2. /\ At(c, "run.sethandle") /\ setHandle(k, p)
      /\ req' = [req EXCEPT ![c].pc = "run.watch", ![c].epoch = epoch'[k]]
      /\ UNCHANGED <<storeVars, proxyVars, proc, watch>>
  BY <1>1 DEF RunSetHandle
<1>3. k \in Key /\ UNCHANGED murod
  BY <1>1, <1>2, AtOK DEF IInv, NoKeyPcs, At, startVars
<1>4. Stored(req[c], k)
  BY <1>1, <1>2, FormFacts DEF At, ReqMode
<1>5. /\ Others(c) /\ req'[c].pc = "run.watch" /\ req'[c].epoch = epoch'[k]
      /\ req'[c].key = k /\ req'[c].sb = req[c].sb /\ req'[c].new = p
  BY <1>1, <1>2 DEF IInv, Types, ReqsOK, ReqType, Others
<1>6. Stored(req[c], k)' /\ handles'[k] = p
  BY <1>1, <1>2, <1>3, <1>4, <1>5, SetHandleFacts DEF IInv, Stored, Fresh, Only, Alive, storeVars
<1>7. GoesOnAt(c, k)
  BY <1>5, <1>6 DEF GoesOnAt, ReqForm, RunForm, Working, AttachPcs
<1> QED BY <1>1, <1>2, <1>3, <1>5, <1>7, PlainOutcome

(* A sandbox that becomes held. *)
LEMMA BecomesHeld ==
  ASSUME NEW k \in Key, NEW sb, NEW p, store'[k] = sb, sb # None, sb.state = "running",
         sb.pid = p, handles'[k] = p, Only(k, p)', watch'[p] = Watching(k, epoch'[k]),
         p \in addrs', allow'[sb.id] = sb.urls
  PROVE  Rest(k)'
<1>1. PICK w : w = Watching(k, epoch'[k])
  OBVIOUS
<1>2. w.pc = "wait" /\ w.key = k /\ w.epoch = epoch'[k]
  BY <1>1 DEF Watching, NoWatch
<1>3. Minds(p, k)'
  BY <1>1, <1>2 DEF Minds
<1> QED BY <1>3 DEF Rest, Held, Backed, Running, Listed

(* Its proxy entry is its own. *)
LEMMA ListFacts ==
  ASSUME Types, NEW sb \in Record, SetAllowlist(sb)
  PROVE  /\ allow'[sb.id] = sb.urls
         /\ \A i \in Id \ {sb.id} : allow'[i] = allow[i]
  BY DEF Types, ProxyOK, SetAllowlist, Record

LEMMA OwnId ==
  ASSUME IdsApart, NEW sb, NEW k, Of(sb, k), Born(sb.pid)
  PROVE  \A p \in Process : proc[p].id = sb.id => proc[p].key = k
  BY DEF IdsApart, Of

LEMMA RunWatchSerial ==
  ASSUME Serially, IInv, Types', NEW c \in Client, ReqMode(c), RunWatch(c)
  PROVE  SerialInv'
<1>0. Types /\ CopiesOK
  BY DEF IInv
<1>1. PICK k, p, sb, w : /\ k = req[c].key /\ p = req[c].new /\ sb = req[c].sb
                         /\ w = Watching(k, req[c].epoch)
  OBVIOUS
<1>2. /\ At(c, "run.watch") /\ SetAllowlist(sb) /\ addrs' = addrs \cup {p}
      /\ watch' = [watch EXCEPT ![p] = w] /\ Done(c)
      /\ UNCHANGED <<storeVars, tableVars, proc>>
  BY <1>1 DEF RunWatch
<1>3. /\ k \in Key /\ p \in Process /\ sb \in Record /\ sb # None
      /\ UNCHANGED murod /\ Of(sb, k) /\ sb.id \in Id
  <2>1. k \in Key /\ p \in Process /\ sb \in Record
    BY <1>0, <1>1, <1>2, AtOK DEF NoKeyPcs, SbPcs, NewPcs
  <2>2. Of(sb, k)
    BY <1>0, <1>1, <1>2 DEF At, CopiesOK, ReqCopies, ReqCopy, SbPcs
  <2> QED BY <1>2, <2>1, <2>2, ConstantsAssumption DEF At, startVars, Record
<1>4. /\ store[k] = sb /\ sb.state = "running" /\ sb.pid = p /\ Only(k, p)
      /\ handles[k] = p /\ req[c].epoch = epoch[k]
  BY <1>1, <1>2, FormFacts DEF At, ReqMode, Stored, Fresh
<1>5. watch'[p] = w /\ \A q \in Process \ {p} : watch'[q] = watch[q]
  BY <1>0, <1>2, <1>3 DEF Types, WatchesOK
<1>6. /\ allow'[sb.id] = sb.urls
      /\ \A i \in Id \ {sb.id} : allow'[i] = allow[i]
  BY <1>0, <1>2, <1>3, ListFacts
<1>7. Rest(k)'
  <2>1. Only(k, p)'
    BY <1>2, <1>4 DEF Only, Alive
  <2>2. /\ store'[k] = sb /\ handles'[k] = p /\ w = Watching(k, epoch'[k])
        /\ p \in addrs'
    BY <1>1, <1>2, <1>4 DEF storeVars, tableVars
  <2> QED BY <1>3, <1>4, <1>5, <1>6, <2>1, <2>2, BecomesHeld
<1>8. OtherKeys(k)
  <2>1. \A q \in Process : proc[q].id = sb.id => proc[q].key = k
    BY <1>3, <1>4, OwnId DEF ReqMode, Only, Alive, Born, Unborn
  <2>2. proc[p].key = k
    BY <1>4 DEF Only
  <2> QED BY <1>2, <1>5, <1>6, <2>1, <2>2 DEF OtherKeys, storeVars, tableVars
<1>9. \A q \in Process : Unheeding(q)
  <2>1. w.pc = "wait" /\ ~Dead(p)'
    BY <1>1, <1>2, <1>4 DEF Watching, NoWatch, Only, Alive, Dead
  <2> QED BY <1>2, <1>5, <2>1 DEF Unheeding, ReqMode, Dead
<1>10. IdsApart' /\ disk' = store' /\ Advances
  BY <1>0, <1>2, SameIds, StillKeeps DEF ReqMode, storeVars
<1>11. Others(c) /\ Rests(c, k)
  BY <1>0, <1>2, <1>7, DoneRests
<1> QED BY <1>1, <1>3, <1>8, <1>9, <1>10, <1>11, RequestOutcome

LEMMA LaunchOutcome ==
  ASSUME IInv, Types', NEW c \in Client, ReqMode(c), NEW k \in Key, k = req[c].key,
         Others(c), UNCHANGED <<murod, storeVars, tableVars, proxyVars, watch>>,
         Nobody(k), NEW p \in Process, NEW sb, Launch(p, k, sb),
         \A q \in Process : proc[q].id = sb.id => proc[q].key = k,
         GoesOnAt(c, k)
  PROVE  SerialInv'
<1>0. Types /\ CopiesOK
  BY DEF IInv
<1>1. /\ proc'[p].key = k /\ proc[p] = Unborn
      /\ \A q \in Process \ {p} : proc'[q] = proc[q]
      /\ \A q \in Process : Dead(q)' => Dead(q)
  BY <1>0, LaunchFacts
<1>2. OtherKeys(k)
  BY <1>1 DEF OtherKeys, storeVars, tableVars, proxyVars
<1>3. \A q \in Process : Unheeding(q)
  <2>1. ~Waits(p)'
    BY <1>0, LaunchUnheld DEF Unheld, Waits
  <2> QED BY <1>1, <2>1 DEF Unheeding, ReqMode
<1>4. IdsApart' /\ disk' = store' /\ Advances
  BY <1>0, LaunchIds, StillKeeps DEF ReqMode, storeVars
<1> QED BY <1>2, <1>3, <1>4, RequestOutcome

LEMMA GoneStays ==
  ASSUME NEW k \in Key, Gone(k), UNCHANGED <<store, handles, proc>>
  PROVE  Rest(k)'
  BY DEF Rest, Gone, Inactive, Active, Nobody, Alive

LEMMA RunLaunchSerial ==
  ASSUME Serially, IInv, Types', NEW c \in Client, ReqMode(c), RunLaunch(c)
  PROVE  SerialInv'
<1>0. Types
  BY DEF IInv
<1>1. PICK k, sb : k = req[c].key /\ sb = req[c].sb
  OBVIOUS
<1>2. /\ At(c, "run.launch") /\ UNCHANGED <<storeVars, tableVars, proxyVars, watch>>
      /\ \/ \E p \in Process :
              /\ Launch(p, k, sb)
              /\ req' = [req EXCEPT ![c].pc = "run.put", ![c].new = p,
                                    ![c].sb = captureHandleInfo(sb, p)]
         \/ Done(c) /\ UNCHANGED proc
  BY <1>1 DEF RunLaunch
<1>3. k \in Key /\ UNCHANGED murod /\ sb \in Record
  BY <1>0, <1>1, <1>2, AtOK DEF NoKeyPcs, SbPcs, At, startVars
<1>4. Gone(k) /\ sb.state = "running" /\ \A p \in Process : proc[p].id # sb.id
  BY <1>1, <1>2, FormFacts DEF At, ReqMode
<1>5. CASE Done(c) /\ UNCHANGED proc
  <2>1. Rest(k)'
    BY <1>2, <1>3, <1>4, <1>5, GoneStays DEF storeVars, tableVars
  <2> QED BY <1>0, <1>1, <1>2, <1>3, <1>5, <2>1, DoneRests, PlainOutcome
<1>6. ASSUME NEW p \in Process, Launch(p, k, sb),
             req' = [req EXCEPT ![c].pc = "run.put", ![c].new = p,
                                ![c].sb = captureHandleInfo(sb, p)]
      PROVE  SerialInv'
  <2>1. PICK r : r = captureHandleInfo(sb, p)
    OBVIOUS
  <2>2. r.state = "running" /\ r.pid = p
    BY <1>3, <1>4, <2>1 DEF captureHandleInfo, Record
  <2>0. req' = [req EXCEPT ![c].pc = "run.put", ![c].new = p, ![c].sb = r]
    BY <1>6, <2>1
  <2>3. /\ Others(c) /\ req'[c].pc = "run.put" /\ req'[c].new = p /\ req'[c].sb = r
        /\ req'[c].key = req[c].key
    BY <1>0, <2>0, LaunchedFacts
  <2>4. Nobody(k)
    BY <1>4 DEF Gone
  <2>5. Only(k, p)'
    BY <1>0, <1>3, <1>6, <2>4, LaunchFacts
  <2>6. Fresh(req[c], k)' /\ Inactive(k)' /\ handles'[k] = None
    BY <1>2, <1>4, <2>2, <2>3, <2>5 DEF Fresh, Gone, Inactive, Active, storeVars, tableVars
  <2>7. GoesOnAt(c, k)
    BY <1>1, <2>3, <2>6 DEF GoesOnAt, ReqForm, RunForm, Working, AttachPcs
  <2> QED BY <1>1, <1>2, <1>3, <1>4, <1>6, <2>3, <2>4, <2>7, LaunchOutcome
<1> QED BY <1>2, <1>5, <1>6

----------------------------------------------------------------------------
(* Restart at work. *)

LEMMA HeldFacts ==
  ASSUME Types, NEW k \in Key, Held(k)
  PROVE  /\ store[k] # None /\ store[k] \in Record /\ handles[k] # None
         /\ handles[k] = store[k].pid /\ Only(k, handles[k]) /\ Running(k)
  BY OrNoneElim, ConstantsAssumption DEF Held, Backed, Running, Only, Types, StoreOK

LEMMA RestartHandleSerial ==
  ASSUME Serially, IInv, Types', NEW c \in Client, ReqMode(c), RestartHandle(c)
  PROVE  SerialInv'
<1>0. Types
  BY DEF IInv
<1>1. PICK k, h : k = req[c].key /\ h = handles[k]
  OBVIOUS
<1>2. /\ At(c, "restart.handle") /\ UNCHANGED <<storeVars, tableVars, proxyVars, proc, watch>>
      /\ \/ h = None /\ Goto(c, "restart.launch")
         \/ h # None /\ req' = [req EXCEPT ![c].pc = "restart.clear", ![c].old = h]
  BY <1>1 DEF RestartHandle
<1>3. k \in Key /\ UNCHANGED murod
  BY <1>0, <1>1, <1>2, AtOK DEF NoKeyPcs, At, startVars
<1>4. store[k] # None /\ Rest(k)
  BY <1>1, <1>2, FormFacts DEF At, ReqMode
<1>5. CASE h = None
  <2>1. Gone(k) /\ Goto(c, "restart.launch")
    BY <1>0, <1>1, <1>2, <1>3, <1>4, <1>5, HeldFacts DEF Rest
  <2>2. store'[k] # None /\ handles'[k] = None /\ Nobody(k)'
    BY <1>2, <1>4, <2>1 DEF Gone, Nobody, Alive, storeVars, tableVars
  <2>3. GoesOnAt(c, k)
    BY <1>0, <1>1, <2>1, <2>2, GotoFacts DEF GoesOnAt, ReqForm, RestartForm, Working, AttachPcs
  <2> QED BY <1>0, <1>1, <1>2, <1>3, <2>1, <2>3, GotoFacts, PlainOutcome
<1>6. CASE h # None
  <2>0. req' = [req EXCEPT ![c].pc = "restart.clear", ![c].old = h]
    BY <1>2, <1>6
  <2>1. Held(k)
    BY <1>1, <1>4, <1>6 DEF Rest, Gone
  <2>2. Held(k)'
    BY <1>2, <2>1 DEF Held, Backed, Running, Only, Alive, Minds, Listed, storeVars, tableVars,
                      proxyVars
  <2>3. /\ Others(c) /\ req'[c].pc = "restart.clear" /\ req'[c].old = h
        /\ req'[c].key = req[c].key
    BY <1>0, <2>0 DEF Types, ReqsOK, ReqType, Others
  <2>4. handles'[k] = h
    BY <1>1, <1>2 DEF tableVars
  <2>5. GoesOnAt(c, k)
    BY <1>1, <2>2, <2>3, <2>4 DEF GoesOnAt, ReqForm, RestartForm, Working, AttachPcs
  <2> QED BY <1>1, <1>2, <1>3, <2>3, <2>5, PlainOutcome
<1> QED BY <1>5, <1>6

(* clearHandle takes the epoch from every loop of the sandbox. *)
LEMMA ClearUnminds ==
  ASSUME Types, EpochInv, NEW k \in Key, clearHandle(k), UNCHANGED watch
  PROVE  Unminded(k)' /\ handles'[k] = None
<1>1. epoch'[k] = epoch[k] + 1 /\ handles'[k] = None /\ epoch[k] \in Nat
  BY DEF clearHandle, setHandle, Types, TableOK
<1>2. ASSUME NEW p \in Process, Waits(p), watch[p].key = k
      PROVE  watch[p].epoch # epoch'[k]
  <2>1. watch[p].epoch <= epoch[k] /\ watch[p].epoch \in Nat
    BY <1>2 DEF EpochInv, EpochsPast, Types, WatchesOK, WatchType
  <2> QED BY <1>1, <2>1
<1> QED BY <1>1, <1>2 DEF Unminded, Waits

LEMMA RestartClearSerial ==
  ASSUME Serially, IInv, Types', NEW c \in Client, ReqMode(c), RestartClear(c)
  PROVE  SerialInv'
<1>0. Types /\ EpochInv
  BY DEF IInv
<1>1. PICK k : k = req[c].key
  OBVIOUS
<1>2. /\ At(c, "restart.clear") /\ clearHandle(k) /\ Goto(c, "restart.kill")
      /\ UNCHANGED <<storeVars, proxyVars, proc, watch>>
  BY <1>1 DEF RestartClear
<1>3. k \in Key /\ UNCHANGED murod
  BY <1>0, <1>1, <1>2, AtOK DEF NoKeyPcs, At, startVars
<1>4. Held(k) /\ req[c].old = handles[k]
  BY <1>1, <1>2, FormFacts DEF At, ReqMode
<1>5. Unminded(k)' /\ handles'[k] = None
  BY <1>0, <1>2, <1>3, ClearUnminds
<1>6. Running(k)' /\ Only(k, req[c].old)'
  <2>1. Only(k, handles[k]) /\ Running(k)
    BY <1>0, <1>3, <1>4, HeldFacts
  <2>2. req'[c].old = handles[k]
    BY <1>0, <1>2, <1>4, GotoFacts
  <2> QED BY <1>2, <2>1, <2>2 DEF Only, Alive, Running, storeVars
<1>7. GoesOnAt(c, k)
  BY <1>0, <1>1, <1>2, <1>5, <1>6, GotoFacts DEF GoesOnAt, ReqForm, RestartForm, Working, AttachPcs
<1>8. \E p : setHandle(k, p)
  BY <1>2 DEF clearHandle
<1> QED BY <1>0, <1>1, <1>2, <1>3, <1>7, <1>8, GotoFacts, PlainOutcome

(* A kill of the only process, which no loop minds any more. *)
LEMMA KillOutcome ==
  ASSUME IInv, Types', NEW c \in Client, ReqMode(c), NEW k \in Key, k = req[c].key,
         Others(c), UNCHANGED <<murod, storeVars, tableVars, proxyVars, watch>>,
         NEW p, Only(k, p), Unminded(k), Kill(p),
         Nobody(k)' => Rests(c, k) \/ GoesOnAt(c, k)
  PROVE  SerialInv'
<1>0. Types /\ CopiesOK
  BY DEF IInv
<1>1. p \in Process /\ Alive(p) /\ proc[p].key = k
  BY DEF Only
<1>2. Dies(p) /\ Nobody(k)'
  <2>1. Dies(p)
    BY <1>0, <1>1, DiesFacts
  <2> QED BY <1>1, <2>1, LastDies
<1>3. OtherKeys(k)
  BY <1>1, <1>2 DEF Dies, OtherKeys, storeVars, tableVars, proxyVars
<1>4. \A q \in Process : Unheeding(q)
  <2>1. Waits(p) => watch[p].key = k
    BY <1>0, <1>1 DEF CopiesOK, WatchCopies, WatchCopy, Waits
  <2>2. Waits(p) => watch[p].epoch # epoch[watch[p].key]
    BY <1>1, <2>1 DEF Unminded
  <2>3. \A q \in Process \ {p} : Dead(q)' => Dead(q)
    BY <1>2 DEF Dies, Dead
  <2> QED BY <2>2, <2>3 DEF Unheeding, ReqMode
<1>5. IdsApart' /\ disk' = store' /\ Advances
  BY <1>0, <1>1, <1>2, DeathIds, StillKeeps DEF ReqMode, storeVars
<1> QED BY <1>2, <1>3, <1>4, <1>5, RequestOutcome

LEMMA RestartKillSerial ==
  ASSUME Serially, IInv, Types', NEW c \in Client, ReqMode(c), RestartKill(c)
  PROVE  SerialInv'
<1>0. Types
  BY DEF IInv
<1>1. PICK k, p : k = req[c].key /\ p = req[c].old
  OBVIOUS
<1>2. /\ At(c, "restart.kill") /\ Kill(p) /\ Goto(c, "restart.launch")
      /\ UNCHANGED <<storeVars, tableVars, proxyVars, watch>>
  BY <1>1, NoPutFault DEF RestartKill
<1>3. k \in Key /\ UNCHANGED murod
  BY <1>0, <1>1, <1>2, AtOK DEF NoKeyPcs, At, startVars
<1>4. Running(k) /\ handles[k] = None /\ Only(k, p) /\ Unminded(k)
  BY <1>1, <1>2, FormFacts DEF At, ReqMode
<1>5. store'[k] # None /\ handles'[k] = None
  BY <1>2, <1>4 DEF Running, storeVars, tableVars
<1>6. Nobody(k)' => GoesOnAt(c, k)
  BY <1>0, <1>1, <1>2, <1>5, GotoFacts DEF GoesOnAt, ReqForm, RestartForm, Working, AttachPcs
<1> QED BY <1>0, <1>1, <1>2, <1>3, <1>4, <1>6, GotoFacts, KillOutcome
LEMMA RestartLaunchSerial ==
  ASSUME Serially, IInv, Types', NEW c \in Client, ReqMode(c), RestartLaunch(c)
  PROVE  SerialInv'
<1>0. Types
  BY DEF IInv
<1>1. PICK k, sb : k = req[c].key /\ sb = req[c].sb
  OBVIOUS
<1>2. /\ At(c, "restart.launch") /\ UNCHANGED <<storeVars, tableVars, proxyVars, watch>>
      /\ \/ \E p \in Process :
              /\ Launch(p, k, sb)
              /\ req' = [req EXCEPT ![c].pc = "restart.put", ![c].new = p,
                                    ![c].sb = [captureHandleInfo(sb, p) EXCEPT
                                                 !.state = "running"]]
         \/ /\ UNCHANGED proc
            /\ req' = [req EXCEPT ![c].pc = "restart.crashed", ![c].sb.state = "crashed"]
  BY <1>1 DEF RestartLaunch
<1>3. k \in Key /\ UNCHANGED murod /\ sb \in Record
  BY <1>0, <1>1, <1>2, AtOK DEF NoKeyPcs, SbPcs, At, startVars
<1>4. store[k] # None /\ handles[k] = None /\ Nobody(k)
  <2>1. req[c].pc = "restart.launch" /\ ReqForm(req[c], k)
    BY <1>1, <1>2 DEF At, ReqMode
  <2> QED BY <2>1, FormFacts
<1>5. store'[k] # None /\ handles'[k] = None
  BY <1>2, <1>4 DEF storeVars, tableVars
<1>6. ASSUME NEW p \in Process, Launch(p, k, sb),
             req' = [req EXCEPT ![c].pc = "restart.put", ![c].new = p,
                                ![c].sb = [captureHandleInfo(sb, p) EXCEPT
                                             !.state = "running"]]
      PROVE  SerialInv'
  <2>1. PICK r : r = [captureHandleInfo(sb, p) EXCEPT !.state = "running"]
    OBVIOUS
  <2>2. r.state = "running" /\ r.pid = p
    BY <1>3, <2>1 DEF captureHandleInfo, Record
  <2>3. req' = [req EXCEPT ![c].pc = "restart.put", ![c].new = p, ![c].sb = r]
    BY <1>6, <2>1
  <2>4. /\ Others(c) /\ req'[c].pc = "restart.put" /\ req'[c].new = p /\ req'[c].sb = r
        /\ req'[c].key = req[c].key
    BY <1>0, <2>3, LaunchedFacts
  <2>5. Only(k, p)'
    BY <1>0, <1>3, <1>4, <1>6, LaunchFacts
  <2>6. Fresh(req[c], k)'
    BY <2>2, <2>4, <2>5 DEF Fresh
  <2>7. GoesOnAt(c, k)
    BY <1>1, <1>5, <2>4, <2>6 DEF GoesOnAt, ReqForm, RestartForm, Working, AttachPcs
  <2>8. \A q \in Process : proc[q].id = sb.id => proc[q].key = k
    <3>1. Of(sb, k)
      BY <1>1, <1>2 DEF IInv, CopiesOK, ReqCopies, ReqCopy, SbPcs, At
    <3>2. Born(sb.pid)
      BY <1>3, <3>1, ConstantsAssumption DEF Of, Born, Unborn
    <3>3. IdsApart
      BY DEF ReqMode
    <3>4. PICK x : x = sb.pid
      OBVIOUS
    <3>5. x \in Process /\ proc[x].key = k /\ proc[x].id = sb.id /\ Born(x)
      BY <3>1, <3>2, <3>4 DEF Of
    <3>6. \A q \in Process : proc[q].id = proc[x].id => proc[q].key = proc[x].key
      BY <3>3, <3>5 DEF IdsApart
    <3> QED BY <3>5, <3>6
  <2>9. Others(c) /\ Nobody(k) /\ UNCHANGED <<murod, storeVars, tableVars, proxyVars, watch>>
    BY <1>2, <1>3, <1>4, <2>4
  <2>10. k \in Key /\ k = req[c].key
    BY <1>1, <1>3
  <2> QED BY <1>6, <2>7, <2>8, <2>9, <2>10, LaunchOutcome
<1>7. CASE /\ UNCHANGED proc
           /\ req' = [req EXCEPT ![c].pc = "restart.crashed", ![c].sb.state = "crashed"]
  <2>1. /\ Others(c) /\ req'[c].pc = "restart.crashed" /\ req'[c].key = k
        /\ req'[c].sb.state = "crashed"
    BY <1>0, <1>1, <1>3, <1>7 DEF Types, ReqsOK, ReqType, Others, Record
  <2>2. Nobody(k)'
    BY <1>4, <1>7 DEF Nobody, Alive
  <2>3. GoesOnAt(c, k)
    BY <1>5, <2>1, <2>2 DEF GoesOnAt, ReqForm, RestartForm, Working, AttachPcs
  <2> QED BY <1>1, <1>2, <1>3, <1>7, <2>1, <2>3, PlainOutcome
<1> QED BY <1>2, <1>6, <1>7

(* A record stored as inactive, of a sandbox nothing of which runs. *)
LEMMA BecomesGone ==
  ASSUME Types, NEW k \in Key, NEW r, Set(k, r), r = None \/ ~isActive(r.state),
         Nobody(k), UNCHANGED proc, handles'[k] = None
  PROVE  Rest(k)'
<1>1. store'[k] = r
  BY DEF Types, StoreOK, Set
<1>2. Nobody(k)'
  BY DEF Nobody, Alive
<1> QED BY <1>1, <1>2 DEF Rest, Gone, Inactive, Active

LEMMA RestartCrashedSerial ==
  ASSUME Serially, IInv, Types', NEW c \in Client, ReqMode(c), RestartCrashed(c)
  PROVE  SerialInv'
<1>0. Types
  BY DEF IInv
<1>1. PICK k, sb : k = req[c].key /\ sb = req[c].sb
  OBVIOUS
<1>2. /\ At(c, "restart.crashed") /\ Set(k, sb) /\ Persist /\ Done(c)
      /\ UNCHANGED <<tableVars, proxyVars, proc, watch>>
  BY <1>1, NoPutFault DEF RestartCrashed
<1>3. k \in Key /\ UNCHANGED murod
  BY <1>0, <1>1, <1>2, AtOK DEF NoKeyPcs, At, startVars
<1>4. handles[k] = None /\ Nobody(k) /\ sb.state = "crashed"
  BY <1>1, <1>2, FormFacts DEF At, ReqMode
<1>5. ~isActive(sb.state) /\ handles'[k] = None
  BY <1>2, <1>4 DEF isActive, tableVars
<1>6. Rest(k)'
  BY <1>0, <1>2, <1>3, <1>4, <1>5, BecomesGone
<1> QED BY <1>0, <1>1, <1>2, <1>3, <1>6, DoneRests, PlainOutcome

LEMMA RestartPutSerial ==
  ASSUME Serially, IInv, Types', NEW c \in Client, ReqMode(c), RestartPut(c)
  PROVE  SerialInv'
<1>0. Types
  BY DEF IInv
<1>1. PICK k, sb : k = req[c].key /\ sb = req[c].sb
  OBVIOUS
<1>2. /\ At(c, "restart.put") /\ Set(k, sb) /\ Persist /\ Goto(c, "restart.proxy")
      /\ UNCHANGED <<tableVars, proxyVars, proc, watch>>
  BY <1>1, NoPutFault DEF RestartPut
<1>3. k \in Key /\ UNCHANGED murod
  BY <1>0, <1>1, <1>2, AtOK DEF NoKeyPcs, At, startVars
<1>4. Fresh(req[c], k) /\ handles[k] = None
  BY <1>1, <1>2, FormFacts DEF At, ReqMode
<1>5. store'[k] = sb
  BY <1>0, <1>2, <1>3, PutFacts
<1>6. Stored(req[c], k)' /\ handles'[k] = None
  BY <1>0, <1>1, <1>2, <1>4, <1>5, GotoFacts DEF Stored, Fresh, Only, Alive, tableVars
<1>7. GoesOnAt(c, k)
  BY <1>0, <1>1, <1>2, <1>6, GotoFacts DEF GoesOnAt, ReqForm, RestartForm, Working, AttachPcs
<1> QED BY <1>0, <1>1, <1>2, <1>3, <1>7, GotoFacts, PlainOutcome

(* What a request at work on a stored record knows of it. *)
LEMMA StoredFacts ==
  ASSUME Types, CopiesOK, IdsApart, NEW k \in Key, NEW r, r.key = k, Stored(r, k),
         r.sb \in Record
  PROVE  /\ store[k] = r.sb /\ r.sb # None /\ r.sb.state = "running" /\ r.sb.pid = r.new
         /\ Only(k, r.new) /\ r.new \in Process /\ r.sb.id \in Id
         /\ \A q \in Process : proc[q].id = r.sb.id => proc[q].key = k
<1>1. /\ store[k] = r.sb /\ r.sb # None /\ r.sb.state = "running" /\ r.sb.pid = r.new
      /\ Only(k, r.new) /\ r.new \in Process /\ r.sb.id \in Id
  BY ConstantsAssumption DEF Stored, Fresh, Only, Record
<1>2. Of(r.sb, k) /\ Born(r.sb.pid)
  BY <1>1 DEF CopiesOK, StoreCopies, Only, Alive, Born, Unborn
<1> QED BY <1>1, <1>2, OwnId

LEMMA RestartProxySerial ==
  ASSUME Serially, IInv, Types', NEW c \in Client, ReqMode(c), RestartProxy(c)
  PROVE  SerialInv'
<1>0. Types /\ CopiesOK /\ IdsApart
  BY DEF IInv, ReqMode
<1>1. PICK k, p, sb : k = req[c].key /\ p = req[c].new /\ sb = req[c].sb
  OBVIOUS
<1>2. /\ At(c, "restart.proxy") /\ SetAllowlist(sb) /\ addrs' = addrs \cup {p}
      /\ Goto(c, "restart.watch") /\ UNCHANGED <<storeVars, tableVars, proc, watch>>
  BY <1>1 DEF RestartProxy
<1>3. k \in Key /\ UNCHANGED murod /\ sb \in Record
  BY <1>0, <1>1, <1>2, AtOK DEF NoKeyPcs, SbPcs, At, startVars
<1>4. Stored(req[c], k) /\ handles[k] = None
  BY <1>1, <1>2, FormFacts DEF At, ReqMode
<1>5. /\ store[k] = sb /\ Only(k, p) /\ sb.id \in Id
      /\ \A q \in Process : proc[q].id = sb.id => proc[q].key = k
  BY <1>0, <1>1, <1>3, <1>4, StoredFacts
<1>6. /\ allow'[sb.id] = sb.urls
      /\ \A i \in Id \ {sb.id} : allow'[i] = allow[i]
  BY <1>0, <1>2, <1>3, ListFacts
<1>7. /\ Stored(req[c], k)' /\ handles'[k] = None /\ Listed(k)' /\ req'[c].new \in addrs'
  BY <1>0, <1>1, <1>2, <1>4, <1>5, <1>6, GotoFacts
     DEF Stored, Fresh, Only, Alive, Listed, storeVars, tableVars
<1>8. GoesOnAt(c, k)
  BY <1>0, <1>1, <1>2, <1>7, GotoFacts DEF GoesOnAt, ReqForm, RestartForm, Working, AttachPcs
<1>9. OtherKeys(k)
  BY <1>2, <1>5, <1>6 DEF OtherKeys, storeVars, tableVars
<1>10. /\ \A q \in Process : Unheeding(q)
       /\ IdsApart' /\ disk' = store' /\ Advances
  BY <1>0, <1>2, SameIds, StillKeeps, StillProcesses DEF ReqMode, storeVars
<1> QED BY <1>0, <1>1, <1>2, <1>3, <1>8, <1>9, <1>10, GotoFacts, RequestOutcome

LEMMA RestartWatchSerial ==
  ASSUME Serially, IInv, Types', NEW c \in Client, ReqMode(c), RestartWatch(c)
  PROVE  SerialInv'
<1>0. Types /\ CopiesOK /\ IdsApart
  BY DEF IInv, ReqMode
<1>1. PICK k, p, sb, w : /\ k = req[c].key /\ p = req[c].new /\ sb = req[c].sb
                         /\ w = Watching(k, epoch'[k])
  OBVIOUS
<1>2. /\ At(c, "restart.watch") /\ setHandle(k, p)
      /\ watch' = [watch EXCEPT ![p] = w] /\ Done(c)
      /\ UNCHANGED <<storeVars, proxyVars, proc>>
  BY <1>1 DEF RestartWatch
<1>3. k \in Key /\ UNCHANGED murod /\ sb \in Record
  BY <1>0, <1>1, <1>2, AtOK DEF NoKeyPcs, SbPcs, At, startVars
<1>4. Stored(req[c], k) /\ Listed(k) /\ p \in addrs
  BY <1>1, <1>2, FormFacts DEF At, ReqMode
<1>5. /\ store[k] = sb /\ sb # None /\ sb.state = "running" /\ sb.pid = p /\ Only(k, p)
      /\ p \in Process
  BY <1>0, <1>1, <1>3, <1>4, StoredFacts
<1>6. watch'[p] = w /\ \A q \in Process \ {p} : watch'[q] = watch[q]
  BY <1>0, <1>2, <1>5 DEF Types, WatchesOK
<1>7. Rest(k)'
  <2>1. Only(k, p)'
    BY <1>2, <1>5 DEF Only, Alive
  <2>2. /\ store'[k] = sb /\ handles'[k] = p /\ p \in addrs' /\ allow'[sb.id] = sb.urls
    BY <1>0, <1>2, <1>3, <1>4, <1>5, SetHandleFacts DEF storeVars, proxyVars, Listed
  <2> QED BY <1>1, <1>3, <1>5, <1>6, <2>1, <2>2, BecomesHeld
<1>8. OtherKeys(k)
  <2>1. proc[p].key = k
    BY <1>5 DEF Only
  <2> QED BY <1>0, <1>2, <1>3, <1>6, <2>1, SetHandleFacts DEF OtherKeys, storeVars, proxyVars
<1>9. \A q \in Process : Unheeding(q)
  <2>1. w.pc = "wait" /\ ~Dead(p)'
    BY <1>1, <1>2, <1>5 DEF Watching, NoWatch, Only, Alive, Dead
  <2> QED BY <1>2, <1>6, <2>1 DEF Unheeding, ReqMode, Dead
<1>10. IdsApart' /\ disk' = store' /\ Advances
  BY <1>0, <1>2, <1>3, SameIds, StillKeeps DEF ReqMode, storeVars
<1>11. Others(c) /\ Rests(c, k)
  BY <1>0, <1>2, <1>7, DoneRests
<1> QED BY <1>1, <1>2, <1>3, <1>8, <1>9, <1>10, <1>11, RequestOutcome

----------------------------------------------------------------------------
(* Stop and Delete at work. *)

LEMMA StopPutSerial ==
  ASSUME Serially, IInv, Types', NEW c \in Client, ReqMode(c), StopPut(c)
  PROVE  SerialInv'
<1>0. Types
  BY DEF IInv
<1>1. PICK k, sb : k = req[c].key /\ sb = req[c].sb
  OBVIOUS
<1>2. /\ At(c, "stop.put") /\ Set(k, sb) /\ Persist /\ Goto(c, "stop.handle")
      /\ UNCHANGED <<tableVars, proxyVars, proc, watch>>
  BY <1>1, NoPutFault DEF StopPut
<1>3. k \in Key /\ UNCHANGED murod /\ sb \in Record
  BY <1>0, <1>1, <1>2, AtOK DEF NoKeyPcs, SbPcs, At, startVars
<1>4. Rest(k) /\ sb.state = "stopped"
  BY <1>1, <1>2, FormFacts DEF At, ReqMode
<1>5. store'[k] = sb /\ sb # None
  BY <1>0, <1>2, <1>3, PutFacts, ConstantsAssumption
<1>6. Inactive(k)'
  BY <1>4, <1>5 DEF Inactive, Active, isActive
<1>7. \/ handles[k] = None /\ Nobody(k)
      \/ Only(k, handles[k])
  BY <1>0, <1>3, <1>4, HeldFacts DEF Rest, Gone
<1>8. \/ handles'[k] = None /\ Nobody(k)'
      \/ Only(k, handles[k])'
  BY <1>2, <1>7 DEF Nobody, Only, Alive, tableVars
<1>9. GoesOnAt(c, k)
  BY <1>0, <1>1, <1>2, <1>5, <1>6, <1>8, GotoFacts DEF GoesOnAt, ReqForm, StopForm, Working, AttachPcs
<1> QED BY <1>0, <1>1, <1>2, <1>3, <1>9, GotoFacts, PlainOutcome

LEMMA StopHandleSerial ==
  ASSUME Serially, IInv, Types', NEW c \in Client, ReqMode(c), StopHandle(c)
  PROVE  SerialInv'
<1>0. Types
  BY DEF IInv
<1>1. PICK k, h : k = req[c].key /\ h = handles[k]
  OBVIOUS
<1>2. /\ At(c, "stop.handle") /\ UNCHANGED <<storeVars, tableVars, proxyVars, proc, watch>>
      /\ \/ h = None /\ Done(c)
         \/ h # None /\ req' = [req EXCEPT ![c].pc = "stop.clear", ![c].old = h]
  BY <1>1 DEF StopHandle
<1>3. k \in Key /\ UNCHANGED murod
  BY <1>0, <1>1, <1>2, AtOK DEF NoKeyPcs, At, startVars
<1>4. /\ store[k] # None /\ Inactive(k)
      /\ \/ handles[k] = None /\ Nobody(k)
         \/ Only(k, handles[k])
  BY <1>1, <1>2, FormFacts DEF At, ReqMode
<1>5. CASE h = None
  <2>1. Done(c) /\ Gone(k)
    BY <1>1, <1>2, <1>4, <1>5, ConstantsAssumption DEF Gone, Only
  <2>2. Rest(k)'
    BY <1>2, <1>3, <2>1, GoneStays DEF storeVars, tableVars
  <2> QED BY <1>0, <1>1, <1>2, <1>3, <2>1, <2>2, DoneRests, PlainOutcome
<1>6. CASE h # None
  <2>1. req' = [req EXCEPT ![c].pc = "stop.clear", ![c].old = h]
    BY <1>2, <1>6
  <2>2. /\ Others(c) /\ req'[c].pc = "stop.clear" /\ req'[c].old = h
        /\ req'[c].key = req[c].key
    BY <1>0, <2>1 DEF Types, ReqsOK, ReqType, Others
  <2>3. Only(k, h)' /\ handles'[k] = h /\ store'[k] # None /\ Inactive(k)'
    BY <1>1, <1>2, <1>4, <1>6 DEF Only, Alive, Inactive, Active, storeVars, tableVars
  <2>4. GoesOnAt(c, k)
    BY <1>1, <2>2, <2>3 DEF GoesOnAt, ReqForm, StopForm, Working, AttachPcs
  <2> QED BY <1>1, <1>2, <1>3, <2>2, <2>4, PlainOutcome
<1> QED BY <1>5, <1>6

LEMMA StopClearSerial ==
  ASSUME Serially, IInv, Types', NEW c \in Client, ReqMode(c), StopClear(c)
  PROVE  SerialInv'
<1>0. Types /\ EpochInv
  BY DEF IInv
<1>1. PICK k : k = req[c].key
  OBVIOUS
<1>2. /\ At(c, "stop.clear") /\ clearHandle(k) /\ Goto(c, "stop.kill")
      /\ UNCHANGED <<storeVars, proxyVars, proc, watch>>
  BY <1>1 DEF StopClear
<1>3. k \in Key /\ UNCHANGED murod
  BY <1>0, <1>1, <1>2, AtOK DEF NoKeyPcs, At, startVars
<1>4. store[k] # None /\ Inactive(k) /\ Only(k, req[c].old)
  BY <1>1, <1>2, FormFacts DEF At, ReqMode
<1>5. Unminded(k)' /\ handles'[k] = None
  BY <1>0, <1>2, <1>3, ClearUnminds
<1>6. store'[k] # None /\ Inactive(k)' /\ Only(k, req[c].old)'
  <2>1. req'[c].old = req[c].old
    BY <1>0, <1>2, GotoFacts
  <2> QED BY <1>2, <1>4, <2>1 DEF Only, Alive, Inactive, Active, storeVars
<1>7. GoesOnAt(c, k)
  BY <1>0, <1>1, <1>2, <1>5, <1>6, GotoFacts DEF GoesOnAt, ReqForm, StopForm, Working, AttachPcs
<1>8. \E p : setHandle(k, p)
  BY <1>2 DEF clearHandle
<1> QED BY <1>0, <1>1, <1>2, <1>3, <1>7, <1>8, GotoFacts, PlainOutcome

LEMMA StopKillSerial ==
  ASSUME Serially, IInv, Types', NEW c \in Client, ReqMode(c), StopKill(c)
  PROVE  SerialInv'
<1>0. Types
  BY DEF IInv
<1>1. PICK k, p : k = req[c].key /\ p = req[c].old
  OBVIOUS
<1>2. /\ At(c, "stop.kill") /\ Kill(p) /\ Done(c)
      /\ UNCHANGED <<storeVars, tableVars, proxyVars, watch>>
  BY <1>1, NoPutFault DEF StopKill
<1>3. k \in Key /\ UNCHANGED murod
  BY <1>0, <1>1, <1>2, AtOK DEF NoKeyPcs, At, startVars
<1>4. Inactive(k) /\ handles[k] = None /\ Only(k, p) /\ Unminded(k)
  BY <1>1, <1>2, FormFacts DEF At, ReqMode
<1>5. Inactive(k)' /\ handles'[k] = None
  BY <1>2, <1>4 DEF Inactive, Active, storeVars, tableVars
<1>6. Nobody(k)' => Rests(c, k)
  BY <1>0, <1>2, <1>5, DoneRests DEF Rest, Gone
<1>7. Others(c)
  BY <1>0, <1>2, MoveFacts
<1> QED BY <1>0, <1>1, <1>2, <1>3, <1>4, <1>6, <1>7, KillOutcome

LEMMA DeleteStoreSerial ==
  ASSUME Serially, IInv, Types', NEW c \in Client, ReqMode(c), DeleteStore(c)
  PROVE  SerialInv'
<1>0. Types
  BY DEF IInv
<1>1. PICK k : k = req[c].key
  OBVIOUS
<1>2. /\ At(c, "delete.store") /\ Set(k, None) /\ Persist /\ Done(c)
      /\ UNCHANGED <<tableVars, proxyVars, proc, watch>>
  BY <1>1, NoPutFault DEF DeleteStore
<1>3. k \in Key /\ UNCHANGED murod
  BY <1>0, <1>1, <1>2, AtOK DEF NoKeyPcs, At, startVars
<1>4. Gone(k)
  BY <1>1, <1>2, FormFacts DEF At, ReqMode
<1>5. Nobody(k) /\ handles'[k] = None
  BY <1>2, <1>4 DEF Gone, tableVars
<1>6. Rest(k)'
  BY <1>0, <1>2, <1>3, <1>5, BecomesGone
<1> QED BY <1>0, <1>1, <1>2, <1>3, <1>6, DoneRests, PlainOutcome
----------------------------------------------------------------------------
(* Update at work: its candidates carry the mounts and the state that are
   stored, so storing one changes a sandbox's urls, and the proxy follows. *)

LEMMA UpdateFacts ==
  ASSUME NEW r, NEW k, UpdateForm(r, k)
  PROVE  /\ Drafted(r)
         /\ r.pc = "update.put" => \A l \in Key : Rest(l)
         /\ r.pc = "update.proxy" => /\ r.todo[k] = store[k]
                                     /\ Backed(k) \/ Gone(k)
                                     /\ r.arg.allow \cup r.arg.deny = {} => Rest(k)
  BY DEF UpdateForm

(* A candidate stored in place of the record leaves the sandbox as it was. *)
LEMMA CandidateStored ==
  ASSUME Types, NEW k \in Key, NEW r \in Record, Set(k, r), store[k] # None,
         r.state = store[k].state, r.pid = store[k].pid, r.id = store[k].id,
         UNCHANGED <<tableVars, proxyVars, proc, watch>>
  PROVE  /\ store'[k] = r
         /\ Gone(k) => Gone(k)'
         /\ Backed(k) => Backed(k)'
         /\ r.urls = store[k].urls => (Rest(k) => Rest(k)')
<1>1. store'[k] = r /\ r # None
  BY ConstantsAssumption DEF Types, StoreOK, Set
<1>2. Gone(k) => Gone(k)'
  BY <1>1 DEF Gone, Inactive, Active, Nobody, Alive, tableVars
<1>3. Backed(k) => Backed(k)'
  BY <1>1 DEF Backed, Running, Only, Alive, Minds, tableVars, proxyVars
<1>4. r.urls = store[k].urls => (Listed(k) => Listed(k)')
  BY <1>1 DEF Listed, proxyVars
<1> QED BY <1>1, <1>2, <1>3, <1>4 DEF Rest, Held

LEMMA UpdatePutSerial ==
  ASSUME Serially, IInv, Types', NEW c \in Client, ReqMode(c), UpdatePut(c)
  PROVE  SerialInv'
<1>0. Types /\ CopiesOK
  BY DEF IInv
<1>1. PICK k \in Key :
        /\ At(c, "update.put") /\ req[c].todo[k] # None
        /\ Set(k, req[c].todo[k]) /\ Persist
        /\ req' = [req EXCEPT ![c].pc = "update.proxy", ![c].key = k]
        /\ UNCHANGED <<tableVars, proxyVars, proc, watch>>
  BY NoPutFault DEF UpdatePut
<1>2. PICK r : r = req[c].todo[k]
  OBVIOUS
<1>3. UNCHANGED murod /\ r \in Record
  BY <1>0, <1>1, <1>2, OrNoneElim DEF At, startVars, Types, ReqsOK, ReqType, Todo
<1>4. Drafted(req[c]) /\ \A l \in Key : Rest(l)
  <2>1. req[c].pc = "update.put" /\ ReqForm(req[c], req[c].key)
    BY <1>1 DEF At, ReqMode
  <2> QED BY <2>1, FormFacts, UpdateFacts
<1>5. /\ store[k] # None /\ r.state = store[k].state /\ r.pid = store[k].pid
      /\ r.id = store[k].id
      /\ req[c].arg.allow \cup req[c].arg.deny = {} => r.urls = store[k].urls
  BY <1>1, <1>2, <1>4 DEF Drafted
<1>6. /\ store'[k] = r /\ (Gone(k) => Gone(k)') /\ (Backed(k) => Backed(k)')
      /\ r.urls = store[k].urls => (Rest(k) => Rest(k)')
  BY <1>0, <1>1, <1>2, <1>3, <1>5, CandidateStored
<1>7. /\ Others(c) /\ req'[c].pc = "update.proxy" /\ req'[c].key = k
      /\ req'[c].todo = req[c].todo /\ req'[c].arg = req[c].arg
  BY <1>0, <1>1 DEF Types, ReqsOK, ReqType, Others
<1>8. \A l \in Key \ {k} : store'[l] = store[l]
  BY <1>0, <1>1 DEF Types, StoreOK, Set
<1>9. Drafted(req[c])'
  <2>1. ASSUME NEW l \in Key, req[c].todo[l] # None
        PROVE  /\ store'[l] # None
               /\ req[c].todo[l].state = store'[l].state
               /\ req[c].todo[l].pid = store'[l].pid
               /\ req[c].todo[l].id = store'[l].id
               /\ req[c].arg.allow \cup req[c].arg.deny = {} =>
                    req[c].todo[l].urls = store'[l].urls
    <3>1. CASE l = k
      BY <1>1, <1>2, <1>6, <3>1
    <3>2. CASE l # k
      BY <1>4, <1>8, <2>1, <3>2 DEF Drafted
    <3> QED BY <3>1, <3>2
  <2> QED BY <1>7, <2>1 DEF Drafted
<1>10. UpdateForm(req[c], k)'
  <2>1. Backed(k)' \/ Gone(k)'
    BY <1>4, <1>6 DEF Rest, Held
  <2>2. req[c].arg.allow \cup req[c].arg.deny = {} => Rest(k)'
    BY <1>4, <1>5, <1>6
  <2> QED BY <1>2, <1>6, <1>7, <1>9, <2>1, <2>2 DEF UpdateForm
<1>11. /\ ReqForm(req[c], req[c].key)' /\ Working(c)'
       /\ \A l \in Key \ {req'[c].key} : Rest(l)'
  <2>1. OtherKeys(k)
    BY <1>0, <1>1, StillLists DEF proxyVars
  <2>2. \A l \in Key \ {k} : Rest(l)'
    BY <1>0, <1>4, <2>1, RestFrame
  <2> QED BY <1>7, <1>10, <2>2 DEF ReqForm, Working, AttachPcs
<1>12. \A p \in Process : ~Handling(p)'
  BY <1>1, StillProcesses, StillUnheeding, StillKeeps DEF IInv, ReqMode
<1>13. \A d \in Client \ {c} : ~Working(d)'
  BY <1>7 DEF ReqMode, Others, Working
<1>14. IdsApart' /\ disk' = store' /\ murod' = "up"
  BY <1>1, <1>3, SameIds DEF ReqMode, Persist
<1> QED BY <1>11, <1>12, <1>13, <1>14 DEF SerialInv, RequestAtWork
LEMMA UpdateProxySerial ==
  ASSUME Serially, IInv, Types', NEW c \in Client, ReqMode(c), UpdateProxy(c)
  PROVE  SerialInv'
<1>0. Types /\ CopiesOK
  BY DEF IInv
<1>1. PICK k, r, rest : /\ k = req[c].key /\ r = req[c].todo[k]
                        /\ rest = [req[c].todo EXCEPT ![k] = None]
  OBVIOUS
<1>2. /\ At(c, "update.proxy")
      /\ IF req[c].arg.allow \cup req[c].arg.deny # {} THEN SetAllowlist(r) ELSE UNCHANGED allow
      /\ \/ Done(c)
         \/ req' = [req EXCEPT ![c].pc = "update.put", ![c].todo = rest]
      /\ UNCHANGED <<storeVars, tableVars, addrs, proc, watch>>
  BY <1>1 DEF UpdateProxy
<1>3. k \in Key /\ UNCHANGED murod /\ r \in Record /\ r # None
  BY <1>0, <1>1, <1>2, AtOK, ConstantsAssumption
     DEF NoKeyPcs, At, startVars, Types, ReqsOK, ReqOK
<1>4. ReqForm(req[c], k) /\ req[c].pc = "update.proxy"
  BY <1>1, <1>2 DEF At, ReqMode
<1>5. /\ Drafted(req[c]) /\ r = store[k]
      /\ Backed(k) \/ Gone(k)
      /\ req[c].arg.allow \cup req[c].arg.deny = {} => Rest(k)
  BY <1>1, <1>4, FormFacts, UpdateFacts
<1>6. /\ \A i \in Id \ {r.id} : allow'[i] = allow[i]
      /\ Rest(k)'
      /\ r.id \in Id
  <2>0. r.id \in Id
    BY <1>3 DEF Record
  <2>1. CASE req[c].arg.allow \cup req[c].arg.deny # {}
    <3>1. /\ allow'[r.id] = r.urls
          /\ \A i \in Id \ {r.id} : allow'[i] = allow[i]
      BY <1>0, <1>2, <1>3, <2>1, ListFacts
    <3>2. Gone(k) => Rest(k)'
      BY <1>2, <1>3, GoneStays DEF storeVars, tableVars
    <3>3. Backed(k) => Held(k)'
      <4>1. Listed(k)'
        BY <1>2, <1>5, <3>1 DEF Listed, storeVars
      <4>2. Backed(k) => Backed(k)'
        BY <1>2 DEF Backed, Running, Only, Alive, Minds, storeVars, tableVars
      <4> QED BY <4>1, <4>2 DEF Held
    <3> QED BY <1>5, <2>0, <3>1, <3>2, <3>3 DEF Rest
  <2>2. CASE req[c].arg.allow \cup req[c].arg.deny = {}
    <3>1. UNCHANGED allow /\ Rest(k)
      BY <1>2, <1>5, <2>2
    <3>2. Rest(k)'
      BY <1>2, <3>1 DEF Rest, Gone, Inactive, Active, Nobody, Held, Backed, Running, Only,
                        Alive, Minds, Listed, storeVars, tableVars
    <3> QED BY <2>0, <3>1, <3>2
  <2> QED BY <2>1, <2>2
<1>7. OtherKeys(k)
  <2>1. Of(r, k)
    BY <1>0, <1>3, <1>5 DEF CopiesOK, StoreCopies, Of
  <2>2. Born(r.pid)
    BY <1>3, <2>1, ConstantsAssumption DEF Of, Born, Unborn
  <2>3. IdsApart
    BY DEF ReqMode
  <2>4. PICK x : x = r.pid
    OBVIOUS
  <2>5. x \in Process /\ proc[x].key = k /\ proc[x].id = r.id /\ Born(x)
    BY <2>1, <2>2, <2>4 DEF Of
  <2>6. \A q \in Process : proc[q].id = proc[x].id => proc[q].key = proc[x].key
    BY <2>3, <2>5 DEF IdsApart
  <2> QED BY <1>2, <1>6, <2>5, <2>6 DEF OtherKeys, storeVars, tableVars
<1>8. \A l \in Key : Rest(l)'
  BY <1>0, <1>1, <1>3, <1>6, <1>7, RestFrame DEF ReqMode
<1>9. \A p \in Process : ~Handling(p)'
  BY <1>2, StillProcesses, StillUnheeding, StillKeeps DEF IInv, ReqMode
<1>10. IdsApart' /\ disk' = store' /\ murod' = "up"
  BY <1>2, <1>3, SameIds DEF ReqMode, storeVars
<1>11. CASE Done(c)
  <2>1. Others(c) /\ Rests(c, k)
    BY <1>0, <1>8, <1>3, <1>11, DoneRests
  <2>2. \A d \in Client : ~Working(d)'
    BY <2>1 DEF ReqMode, Others, Working, Rests
  <2> QED BY <1>8, <1>9, <1>10, <2>2 DEF SerialInv, AtRest
<1>12. CASE req' = [req EXCEPT ![c].pc = "update.put", ![c].todo = rest]
  <2>1. /\ Others(c) /\ req'[c].pc = "update.put" /\ req'[c].key = req[c].key
        /\ req'[c].arg = req[c].arg /\ req'[c].todo = rest
    BY <1>0, <1>12 DEF Types, ReqsOK, ReqType, Others
  <2>2. \A l \in Key : rest[l] # None => rest[l] = req[c].todo[l]
    BY <1>0, <1>1 DEF Types, ReqsOK, ReqType, Todo
  <2>3. Drafted(req[c])'
    <3>1. /\ store' = store /\ req'[c].todo = rest /\ req'[c].arg = req[c].arg
          /\ Drafted(req[c])
      BY <1>2, <1>5, <2>1 DEF storeVars
    <3>2. ASSUME NEW l \in Key, req'[c].todo[l] # None
          PROVE  /\ store'[l] # None
                 /\ req'[c].todo[l].state = store'[l].state
                 /\ req'[c].todo[l].pid = store'[l].pid
                 /\ req'[c].todo[l].id = store'[l].id
                 /\ req'[c].arg.allow \cup req'[c].arg.deny = {} =>
                      req'[c].todo[l].urls = store'[l].urls
      <4>1. req'[c].todo[l] = req[c].todo[l]
        BY <2>2, <3>1, <3>2
      <4> QED BY <3>1, <3>2, <4>1 DEF Drafted
    <3> QED BY <3>2 DEF Drafted
  <2>4. ReqForm(req[c], req[c].key)' /\ Working(c)'
    BY <1>8, <2>1, <2>3 DEF ReqForm, UpdateForm, Working, AttachPcs
  <2>5. \A d \in Client \ {c} : ~Working(d)'
    <3>1. Others(c)
      BY <2>1
    <3> QED BY <3>1 DEF ReqMode, Others, Working
  <2> QED BY <1>8, <1>9, <1>10, <2>4, <2>5 DEF SerialInv, RequestAtWork
<1> QED BY <1>2, <1>11, <1>12

(* The steps of a request a settled murod has no use for. *)
LEMMA NoSuchStep ==
  ASSUME NEW c \in Client, ReqMode(c)
  PROVE  ~RunUndo(c) /\ ~ReloadHandle(c) /\ ~ReloadPut(c) /\ ~MergePut(c)
<1>1. ReqForm(req[c], req[c].key)
  BY DEF ReqMode
<1>2. req[c].pc \notin {"run.undo", "reload.handle", "reload.put", "merge.put"}
  BY <1>1, FormFacts
<1> QED BY <1>2 DEF RunUndo, ReloadHandle, ReloadPut, MergePut, At

AttachStep(c) == AttachTry(c) \/ AttachHandle(c) \/ AttachDial(c) \/ AttachDetach(c)

LEMMA WorkingStep ==
  ASSUME NEW c \in Client, RequestStep(c), ~AttachStep(c)
  PROVE  Working(c)
  BY DEF RequestStep, AttachStep, Working, AttachPcs, At,
         RunLaunch, RunPut, RunUndo, RunSetHandle, RunWatch, UpdatePut, UpdateProxy,
         ReloadHandle, ReloadPut,
         RestartHandle, RestartClear, RestartKill, RestartLaunch, RestartCrashed, RestartPut,
         RestartProxy, RestartWatch, StopPut, StopHandle, StopClear, StopKill,
         DeleteStore, MergePut

LEMMA StepSerial ==
  ASSUME Serially, IInv, SerialInv, Types', NEW c \in Client, RequestStep(c), ~AttachStep(c)
  PROVE  SerialInv'
<1>1. ReqMode(c)
  BY WorkingStep, InReqMode DEF IInv
<1> QED BY <1>1, NoSuchStep, RunLaunchSerial, RunPutSerial, RunSetHandleSerial, RunWatchSerial,
           UpdatePutSerial, UpdateProxySerial, RestartHandleSerial, RestartClearSerial,
           RestartKillSerial, RestartLaunchSerial, RestartCrashedSerial, RestartPutSerial,
           RestartProxySerial, RestartWatchSerial, StopPutSerial, StopHandleSerial,
           StopClearSerial, StopKillSerial, DeleteStoreSerial
        DEF RequestStep, AttachStep

----------------------------------------------------------------------------
(* Requests arriving, and the steps of a session: nothing a form speaks of
   moves but the loop of a dead process. *)

Drained == \A p \in Process : watch'[p] = watch[p] \/ (Dead(p) /\ watch'[p] = NoWatch)
Calm == UNCHANGED <<murod, storeVars, tableVars, proxyVars, proc>> /\ Drained

LEMMA DrainedMinds ==
  ASSUME Drained, UNCHANGED <<tableVars, proc>>, NEW k, NEW p, Only(k, p), Minds(p, k)
  PROVE  Minds(p, k)'
<1>1. p \in Process /\ ~Dead(p)
  BY DEF Only, Alive, Dead
<1>2. watch'[p] = watch[p]
  BY <1>1 DEF Drained
<1> QED BY <1>2 DEF Minds, tableVars

LEMMA DrainedUnminded ==
  ASSUME Drained, UNCHANGED tableVars, NEW k, Unminded(k)
  PROVE  Unminded(k)'
<1>1. ASSUME NEW p \in Process, Waits(p)'
      PROVE  watch'[p] = watch[p]
  <2>1. NoWatch.pc = "none"
    BY DEF NoWatch
  <2> QED BY <1>1, <2>1 DEF Drained, Waits
<1> QED BY <1>1 DEF Unminded, Waits, tableVars

LEMMA CalmAtoms ==
  ASSUME Calm, NEW k
  PROVE  /\ Nobody(k) => Nobody(k)'
         /\ \A p : Only(k, p) => Only(k, p)'
         /\ Running(k) => Running(k)'
         /\ Active(k) <=> Active(k)'
         /\ Inactive(k) => Inactive(k)'
         /\ Listed(k) => Listed(k)'
         /\ Unminded(k) => Unminded(k)'
         /\ UNCHANGED <<store, handles, epoch, allow, addrs>>
<1>1. UNCHANGED <<store, handles, epoch, allow, addrs, proc, tableVars>> /\ Drained
  BY DEF Calm, storeVars, tableVars, proxyVars
<1>2. /\ Nobody(k) => Nobody(k)'
      /\ \A p : Only(k, p) => Only(k, p)'
  BY <1>1 DEF Nobody, Only, Alive
<1>3. /\ Running(k) => Running(k)'
      /\ Active(k) <=> Active(k)'
      /\ Inactive(k) => Inactive(k)'
      /\ Listed(k) => Listed(k)'
  BY <1>1 DEF Running, Inactive, Active, Listed
<1>4. Unminded(k) => Unminded(k)'
  BY <1>1, DrainedUnminded
<1> QED BY <1>1, <1>2, <1>3, <1>4

LEMMA CalmRests ==
  ASSUME Calm, NEW k
  PROVE  /\ Gone(k) => Gone(k)'
         /\ Backed(k) => Backed(k)'
         /\ Held(k) => Held(k)'
         /\ Rest(k) => Rest(k)'
<1>1. Gone(k) => Gone(k)'
  BY CalmAtoms DEF Gone
<1>2. Backed(k) => Backed(k)'
  <2>1. UNCHANGED <<tableVars, proc>> /\ Drained
    BY DEF Calm
  <2>2. PICK p : p = store[k].pid
    OBVIOUS
  <2>3. Backed(k) => Minds(p, k)'
    BY <2>1, <2>2, DrainedMinds DEF Backed
  <2>4. Backed(k) => Only(k, p)'
    BY <2>2, CalmAtoms DEF Backed
  <2>5. UNCHANGED <<store, handles, addrs>> /\ (Running(k) => Running(k)')
    BY CalmAtoms
  <2> QED BY <2>2, <2>3, <2>4, <2>5 DEF Backed
<1> QED BY <1>1, <1>2, CalmAtoms DEF Held, Rest

LEMMA CalmForms ==
  ASSUME Calm, NEW k, NEW r, ReqForm(r, k)
  PROVE  ReqForm(r, k)'
<1>1. Fresh(r, k) => Fresh(r, k)'
  BY CalmAtoms DEF Fresh
<1>2. Stored(r, k) => Stored(r, k)'
  BY <1>1, CalmAtoms DEF Stored
<1>3. Drafted(r) => Drafted(r)'
  BY CalmAtoms DEF Drafted
<1>4. UNCHANGED <<store, handles, epoch, allow, addrs, proc>>
  BY DEF Calm, storeVars, tableVars, proxyVars
<1>5. RunForm(r, k) => RunForm(r, k)'
  BY <1>1, <1>2, <1>4, CalmAtoms, CalmRests DEF RunForm
<1>6. UpdateForm(r, k) => UpdateForm(r, k)'
  BY <1>3, <1>4, CalmRests DEF UpdateForm
<1>7. RestartForm(r, k) => RestartForm(r, k)'
  BY <1>1, <1>2, <1>4, CalmAtoms, CalmRests DEF RestartForm
<1>8. StopForm(r, k) => StopForm(r, k)'
  BY <1>4, CalmAtoms, CalmRests DEF StopForm
<1>9. DeleteForm(r, k) => DeleteForm(r, k)'
  BY <1>4, CalmRests DEF DeleteForm
<1> QED BY <1>5, <1>6, <1>7, <1>8, <1>9 DEF ReqForm

LEMMA CalmWatchForms ==
  ASSUME Calm, NEW k, NEW p, NEW w, WatchForm(p, w, k)
  PROVE  WatchForm(p, w, k)'
  BY CalmAtoms DEF WatchForm

(* No loop begins to handle an exit. *)
LEMMA CalmHandling ==
  ASSUME Calm, NEW p \in Process
  PROVE  /\ Handling(p)' => Handling(p) /\ watch'[p] = watch[p]
         /\ watch'[p] = watch[p] => (Handling(p) => Handling(p)')
<1>1. UNCHANGED <<epoch, proc>> /\ Drained
  BY DEF Calm, tableVars
<1>2. NoWatch.pc = "none"
  BY DEF NoWatch
<1> QED BY <1>1, <1>2 DEF Drained, Handling, Waits, Dead

LEMMA CalmFlags == ASSUME IdsApart, Calm PROVE IdsApart' /\ (disk = store => disk' = store')
  BY SameIds DEF Calm, storeVars

(* A step of a session, or of a stale loop. *)
LEMMA CalmOutcome ==
  ASSUME SerialInv, murod = "up", Calm,
         \A p \in Process : Handling(p) => watch'[p] = watch[p],
         \A c \in Client : req'[c] = req[c] \/ (~Working(c) /\ ~Working(c)')
  PROVE  SerialInv'
<1>1. IdsApart' /\ disk' = store' /\ murod' = "up"
  BY CalmFlags DEF SerialInv, Calm
<1>2. \A c \in Client : Working(c)' => Working(c)
  BY DEF Working
<1>3. CASE AtRest
  <2>1. AtRest'
    BY <1>2, <1>3, CalmRests, CalmHandling DEF AtRest
  <2> QED BY <1>1, <2>1 DEF SerialInv
<1>4. CASE RequestAtWork
  <2>1. PICK c \in Client : /\ Working(c) /\ ReqForm(req[c], req[c].key)
                            /\ \A l \in Key \ {req[c].key} : Rest(l)
                            /\ \A d \in Client \ {c} : ~Working(d)
                            /\ \A p \in Process : ~Handling(p)
    BY <1>4 DEF RequestAtWork
  <2>2. req'[c] = req[c]
    BY <2>1
  <2>3. PICK r, k : r = req[c] /\ k = req[c].key
    OBVIOUS
  <2>4. ReqForm(r, k)'
    BY <2>1, <2>3, CalmForms
  <2>5. ReqForm(req[c], req[c].key)'
    BY <2>2, <2>3, <2>4
  <2>6. \A l \in Key \ {req'[c].key} : Rest(l)'
    BY <2>1, <2>2, CalmRests
  <2>7. /\ Working(c)' /\ \A d \in Client \ {c} : ~Working(d)'
        /\ \A p \in Process : ~Handling(p)'
    BY <1>2, <2>1, <2>2, CalmHandling DEF Working
  <2> QED BY <1>1, <2>5, <2>6, <2>7 DEF SerialInv, RequestAtWork
<1>5. CASE WatchAtWork
  <2>1. PICK p \in Process : /\ Handling(p) /\ WatchForm(p, watch[p], watch[p].key)
                             /\ \A l \in Key \ {watch[p].key} : Rest(l)
                             /\ \A c \in Client : ~Working(c)
                             /\ \A q \in Process \ {p} : ~Handling(q)
    BY <1>5 DEF WatchAtWork
  <2>2. watch'[p] = watch[p]
    BY <2>1
  <2>3. PICK w, k : w = watch[p] /\ k = watch[p].key
    OBVIOUS
  <2>4. WatchForm(p, w, k)'
    BY <2>1, <2>3, CalmWatchForms
  <2>5. WatchForm(p, watch[p], watch[p].key)'
    BY <2>2, <2>3, <2>4
  <2>6. \A l \in Key \ {watch'[p].key} : Rest(l)'
    BY <2>1, <2>2, CalmRests
  <2>7. /\ Handling(p)' /\ \A q \in Process \ {p} : ~Handling(q)'
        /\ \A c \in Client : ~Working(c)'
    BY <1>2, <2>1, <2>2, CalmHandling
  <2> QED BY <1>1, <2>5, <2>6, <2>7 DEF SerialInv, WatchAtWork
<1> QED BY <1>3, <1>4, <1>5 DEF SerialInv

LEMMA SessionSerial ==
  ASSUME IInv, SerialInv, NEW c \in Client, AttachStep(c) \/ SessionEnd(c)
  PROVE  SerialInv'
<1>0. Types
  BY DEF IInv
<1>1. /\ req[c].pc \in AttachPcs
      /\ UNCHANGED <<startVars, storeVars, tableVars, proxyVars, proc, watch>>
  BY DEF AttachStep, SessionEnd, AttachTry, AttachHandle, AttachDial, AttachDetach, At, AttachPcs
<1>2. murod = "up" /\ Calm
  <2>1. req[c].pc # "idle"
    BY <1>1 DEF AttachPcs
  <2>2. murod = "up"
    BY <2>1 DEF IInv, StartInv
  <2> QED BY <1>1, <2>2 DEF Calm, Drained, startVars
<1>3. Others(c)
  BY <1>0, StepOthers DEF AttachStep, RequestStep
<1>4. req'[c].pc \in {"idle"} \cup AttachPcs
  <2>1. \/ Done(c)
        \/ Goto(c, "attach.handle") \/ Goto(c, "attach.detach") \/ Goto(c, "attached")
        \/ \E h : req' = [req EXCEPT ![c].pc = "attach.dial", ![c].old = h]
    BY DEF AttachStep, SessionEnd, AttachTry, AttachHandle, AttachDial, AttachDetach
  <2>2. ASSUME NEW h, req' = [req EXCEPT ![c].pc = "attach.dial", ![c].old = h]
        PROVE  req'[c].pc = "attach.dial"
    BY <1>0, <2>2 DEF Types, ReqsOK, ReqType
  <2> QED BY <1>0, <2>1, <2>2, MoveFacts DEF Moves, AttachPcs
<1>5. \A d \in Client : req'[d] = req[d] \/ (~Working(d) /\ ~Working(d)')
  BY <1>1, <1>3, <1>4 DEF Others, Working
<1>6. \A p \in Process : Handling(p) => watch'[p] = watch[p]
  BY <1>1
<1> QED BY <1>2, <1>5, <1>6, CalmOutcome
----------------------------------------------------------------------------
(* Requests, exits and crashes find a settled murod. *)

LEMMA QuietRests ==
  ASSUME SerialInv, murod = "up", Quiet
  PROVE  AtRest
<1>1. \A c \in Client : ~Working(c)
  BY DEF Quiet, Working, AttachPcs
<1>2. \A p \in Process : ~Handling(p)
  BY DEF Quiet, Handling, Waits, Alive, Dead
<1> QED BY <1>1, <1>2 DEF SerialInv, RequestAtWork, WatchAtWork

LEMMA BeginRests ==
  ASSUME Serially, SerialInv, NEW c \in Client, NEW op, Begin(c, op)
  PROVE  AtRest /\ murod = "up" /\ UNCHANGED murod
<1>1. Quiet /\ murod = "up"
  BY DEF Begin, Permitted, Serially
<1> QED BY <1>1, QuietRests DEF Begin, startVars

LEMMA BeginOutcome ==
  ASSUME SerialInv, NEW c \in Client, AtRest, murod = "up", Others(c),
         UNCHANGED <<murod, storeVars, tableVars, proxyVars, proc, watch>>,
         NEW r, NEW k, req'[c] = r, r.key = k, r.pc \notin {"idle"} \cup AttachPcs,
         ReqForm(r, k)
  PROVE  SerialInv'
<1>1. Calm
  BY DEF Calm, Drained
<1>2. IdsApart' /\ disk' = store' /\ murod' = "up"
  BY <1>1, CalmFlags DEF SerialInv
<1>3. ReqForm(r, k)'
  BY <1>1, CalmForms
<1>4. ReqForm(req[c], req[c].key)' /\ Working(c)'
  BY <1>3 DEF Working
<1>5. \A l \in Key : Rest(l)'
  BY <1>1, CalmRests DEF AtRest
<1>6. /\ \A d \in Client \ {c} : ~Working(d)'
      /\ \A p \in Process : ~Handling(p)'
  BY <1>1, CalmHandling DEF AtRest, Others, Working
<1> QED BY <1>2, <1>4, <1>5, <1>6 DEF SerialInv, RequestAtWork

LEMMA OpenRow ==
  ASSUME Types, NEW c \in Client, NEW pc, NEW k, NEW sb, NEW arg, Open(c, pc, k, sb, arg)
  PROVE  Others(c) /\ req'[c].pc = pc /\ req'[c].key = k /\ req'[c].sb = sb
  BY DEF Types, ReqsOK, Open, Others, IdleReq

(* What a sandbox at rest is, by its record. *)
LEMMA RestFacts ==
  ASSUME NEW k \in Key, Rest(k)
  PROVE  /\ Inactive(k) => Gone(k)
         /\ Active(k) => Held(k)
         /\ store[k] # None => store[k].state # "reload-pending"
  BY DEF Rest, Held, Backed, Running, Gone, Inactive, Active, isActive

LEMMA OpenOutcome ==
  ASSUME IInv, SerialInv, NEW c \in Client, AtRest, murod = "up",
         UNCHANGED <<murod, storeVars, tableVars, proxyVars, proc, watch>>,
         NEW pc, NEW k \in Key, NEW sb, NEW arg, Open(c, pc, k, sb, arg),
         \/ pc = "restart.handle" /\ store[k] # None
         \/ pc = "stop.put" /\ store[k] # None /\ sb.state = "stopped"
         \/ pc = "delete.store" /\ store[k] # None /\ Inactive(k)
         \/ /\ pc = "run.launch" /\ Inactive(k) /\ sb.state = "running"
            /\ \A p \in Process : proc[p].id # sb.id
  PROVE  SerialInv'
<1>1. PICK r : r = req'[c]
  OBVIOUS
<1>2. Others(c) /\ r.pc = pc /\ r.key = k /\ r.sb = sb
  BY <1>1, OpenRow DEF IInv
<1>3. Rest(k) /\ (Inactive(k) => Gone(k))
  BY RestFacts DEF AtRest
<1>4. ReqForm(r, k)
  BY <1>2, <1>3 DEF ReqForm, RestartForm, StopForm, DeleteForm, RunForm
<1>5. r.pc \notin {"idle"} \cup AttachPcs
  BY <1>2 DEF AttachPcs
<1> QED BY <1>1, <1>2, <1>4, <1>5, BeginOutcome

LEMMA RunCheckSerial ==
  ASSUME Serially, IInv, SerialInv, NEW c \in Client, NEW k \in Key, RunCheck(c, k)
  PROVE  SerialInv'
<1>1. PICK pf \in Profile, id \in Id :
        LET sb == [state |-> "running", id |-> id, pid |-> None, count |-> 0,
                   policy |-> pf.policy, mounts |-> pf.mounts,
                   urls |-> pf.urls, git |-> pf.git]
        IN  NewID(id) /\ Open(c, "run.launch", k, sb, None)
  BY DEF RunCheck
<1>2. PICK sb : sb = [state |-> "running", id |-> id, pid |-> None, count |-> 0,
                      policy |-> pf.policy, mounts |-> pf.mounts,
                      urls |-> pf.urls, git |-> pf.git]
  OBVIOUS
<1>3. NewID(id) /\ Open(c, "run.launch", k, sb, None) /\ sb.state = "running" /\ sb.id = id
  BY <1>1, <1>2
<1>4. \A p \in Process : proc[p].id # sb.id
  BY <1>3 DEF NewID
<1>5. Inactive(k) /\ UNCHANGED <<storeVars, tableVars, proxyVars, proc, watch>>
  BY DEF RunCheck, Inactive, Active
<1>6. AtRest /\ murod = "up" /\ UNCHANGED murod
  BY BeginRests DEF RunCheck
<1> QED BY <1>3, <1>4, <1>5, <1>6, OpenOutcome

LEMMA GetSerial ==
  ASSUME Serially, IInv, SerialInv, NEW c \in Client, NEW k \in Key,
         RestartGet(c, k) \/ StopGet(c, k) \/ DeleteGet(c, k)
  PROVE  SerialInv'
<1>1. /\ store[k] # None
      /\ UNCHANGED <<storeVars, tableVars, proxyVars, proc, watch>>
      /\ \E op : Begin(c, op)
  BY DEF RestartGet, StopGet, DeleteGet
<1>2. AtRest /\ murod = "up" /\ UNCHANGED murod
  BY <1>1, BeginRests
<1>3. CASE RestartGet(c, k)
  <2>1. \E sb, arg : Open(c, "restart.handle", k, sb, arg)
    BY <1>3 DEF RestartGet
  <2> QED BY <1>1, <1>2, <2>1, OpenOutcome
<1>4. CASE StopGet(c, k)
  <2>1. PICK sb : sb = [store[k] EXCEPT !.state = "stopped"]
    OBVIOUS
  <2>2. sb.state = "stopped"
    <3>1. store[k] \in Record
      BY <1>1, OrNoneElim DEF IInv, Types, StoreOK
    <3> QED BY <2>1, <3>1 DEF Record
  <2>3. Open(c, "stop.put", k, sb, None)
    BY <1>4, <2>1 DEF StopGet
  <2> QED BY <1>1, <1>2, <2>2, <2>3, OpenOutcome
<1>5. CASE DeleteGet(c, k)
  <2>1. Open(c, "delete.store", k, store[k], None) /\ Inactive(k)
    BY <1>5 DEF DeleteGet, Inactive, Active
  <2> QED BY <1>1, <1>2, <2>1, OpenOutcome
<1> QED BY <1>3, <1>4, <1>5

LEMMA CandidateFacts ==
  ASSUME NEW sb \in Record, NEW d \in Delta, d.mounts = {}, sb.state # "reload-pending"
  PROVE  /\ Candidate(sb, d).state = sb.state
         /\ Candidate(sb, d).pid = sb.pid
         /\ Candidate(sb, d).id = sb.id
         /\ d.allow \cup d.deny = {} => Candidate(sb, d).urls = sb.urls
  BY DEF Candidate, Record

LEMMA UpdateBeginSerial ==
  ASSUME Serially, IInv, SerialInv, NEW c \in Client, UpdateBegin(c)
  PROVE  SerialInv'
<1>1. PICK d \in Delta, targets \in {{k} : k \in Key} \cup
                       {{k \in Key : store[k] # None /\ isActive(store[k].state)}} :
        /\ \A k \in targets : store[k] # None
        /\ req' = [req EXCEPT ![c] =
              [IdleReq EXCEPT !.pc = "update.put", !.arg = d,
                 !.todo = [k \in Key |-> IF k \in targets
                                         THEN Candidate(store[k], d) ELSE None]]]
  BY DEF UpdateBegin
<1>2. /\ UNCHANGED <<storeVars, tableVars, proxyVars, proc, watch>>
      /\ Begin(c, "update")
  BY DEF UpdateBegin
<1>3. AtRest /\ murod = "up" /\ UNCHANGED murod
  BY <1>2, BeginRests
<1>4. PICK r, todo : /\ r = req'[c]
                     /\ todo = [k \in Key |-> IF k \in targets
                                              THEN Candidate(store[k], d) ELSE None]
  OBVIOUS
<1>5. r.pc = "update.put" /\ r.arg = d /\ r.todo = todo /\ Others(c)
  BY <1>1, <1>4 DEF IInv, Types, ReqsOK, IdleReq, Others
<1>6. Drafted(r)
  <2>1. ASSUME NEW k \in Key, todo[k] # None
        PROVE  /\ store[k] # None
               /\ todo[k].state = store[k].state
               /\ todo[k].pid = store[k].pid
               /\ todo[k].id = store[k].id
               /\ d.allow \cup d.deny = {} => todo[k].urls = store[k].urls
    <3>1. k \in targets /\ todo[k] = Candidate(store[k], d)
      BY <1>4, <2>1
    <3>2. store[k] \in Record /\ store[k] # None
      BY <1>1, <3>1, OrNoneElim DEF IInv, Types, StoreOK
    <3>3. store[k].state # "reload-pending" /\ d.mounts = {}
      BY <1>3, <3>2, RestFacts DEF AtRest, Serially
    <3> QED BY <3>1, <3>2, <3>3, CandidateFacts
  <2> QED BY <1>5, <2>1 DEF Drafted
<1>7. ReqForm(r, r.key)
  BY <1>3, <1>5, <1>6 DEF ReqForm, UpdateForm, AtRest
<1>8. r.pc \notin {"idle"} \cup AttachPcs
  BY <1>5 DEF AttachPcs
<1> QED BY <1>2, <1>3, <1>4, <1>5, <1>7, <1>8, BeginOutcome

LEMMA AttachGetSerial ==
  ASSUME Serially, IInv, SerialInv, NEW c \in Client, NEW k \in Key, AttachGet(c, k)
  PROVE  SerialInv'
<1>1. /\ UNCHANGED <<storeVars, tableVars, proxyVars, proc, watch>>
      /\ Begin(c, "attach") /\ Open(c, "attach.try", k, None, None)
  BY DEF AttachGet
<1>2. AtRest /\ murod = "up" /\ UNCHANGED murod
  BY <1>1, BeginRests
<1>3. Others(c) /\ req'[c].pc = "attach.try"
  BY <1>1, OpenRow DEF IInv
<1>4. Calm
  BY <1>1, <1>2 DEF Calm, Drained
<1>5. \A d \in Client : req'[d] = req[d] \/ (~Working(d) /\ ~Working(d)')
  BY <1>2, <1>3 DEF Others, Working, AttachPcs, AtRest
<1> QED BY <1>1, <1>2, <1>4, <1>5, CalmOutcome

LEMMA BeginSerial ==
  ASSUME Serially, IInv, SerialInv, NEW c \in Client, RequestBegin(c)
  PROVE  SerialInv'
<1>1. ASSUME NEW k \in Key, ReloadGet(c, k)
      PROVE  FALSE
  <2>1. AtRest
    BY <1>1, BeginRests DEF ReloadGet
  <2> QED BY <1>1, <2>1, RestFacts DEF ReloadGet, AtRest
<1>2. ASSUME NEW k \in Key, MergeGet(c, k)
      PROVE  FALSE
  BY <1>2 DEF MergeGet, Begin, Serially
<1> QED BY <1>1, <1>2, RunCheckSerial, GetSerial, UpdateBeginSerial, AttachGetSerial
        DEF RequestBegin

LEMMA ExitSerial ==
  ASSUME Serially, IInv, SerialInv, Types', NEW p \in Process, Exit(p)
  PROVE  SerialInv'
<1>0. Types /\ CopiesOK
  BY DEF IInv
<1>1. /\ Alive(p) /\ Quiet /\ IdsApart
      /\ \E st \in {"clean", "failed"} : proc' = [proc EXCEPT ![p].st = st]
      /\ UNCHANGED <<storeVars, tableVars, proxyVars, req, watch, murod>>
  BY DEF Exit, Permitted, Serially, startVars, SerialInv
<1>2. Dies(p)
  BY <1>0, <1>1, DiesFacts
<1>3. IdsApart'
  BY <1>1, <1>2, DeathIds
<1>4. PICK k : k = proc[p].key
  OBVIOUS
<1>5. k \in Key
  BY <1>1, <1>4 DEF IdsApart, Alive, Born, Unborn
<1>6. CASE murod = "up"
  <2>1. AtRest
    BY <1>1, <1>6, QuietRests
  <2>2. Held(k) /\ store[k].pid = p /\ handles[k] = p /\ Only(k, p)
    <3>1. Rest(k)
      BY <1>5, <2>1 DEF AtRest
    <3>2. ~Nobody(k)
      BY <1>1, <1>4 DEF Nobody
    <3>3. Held(k) /\ Only(k, store[k].pid) /\ handles[k] = store[k].pid
      BY <3>1, <3>2 DEF Rest, Gone, Held, Backed
    <3> QED BY <1>1, <1>4, <3>3 DEF Only
  <2>3. OtherKeys(k)
    BY <1>1, <1>2, <1>4 DEF OtherKeys, Dies, storeVars, tableVars, proxyVars
  <2>4. \A l \in Key \ {k} : Rest(l)'
    BY <1>0, <1>5, <2>1, <2>3, RestFrame DEF AtRest
  <2>5. Nobody(k)'
    BY <1>2, <1>5, <2>2, LastDies
  <2>6. watch[p].pc = "wait" /\ watch[p].key = k /\ watch[p].epoch = epoch[k]
    BY <2>2 DEF Held, Backed, Minds
  <2>7. WatchForm(p, watch[p], watch[p].key)'
    BY <1>1, <2>2, <2>5, <2>6
       DEF WatchForm, Held, Backed, Running, Listed, storeVars, tableVars, proxyVars
  <2>8. Handling(p)'
    BY <1>1, <1>2, <2>6 DEF Handling, Waits, Dies, tableVars
  <2>9. \A q \in Process \ {p} : ~Handling(q)'
    BY <1>1, <1>2, <2>1 DEF Handling, Waits, Dies, Dead, tableVars, AtRest
  <2>10. \A c \in Client : ~Working(c)'
    BY <1>1, <2>1 DEF AtRest, Working
  <2>11. disk' = store' /\ murod' = "up" /\ watch'[p].key = k
    BY <1>1, <1>6, <2>6 DEF SerialInv, storeVars
  <2> QED BY <1>3, <2>4, <2>7, <2>8, <2>9, <2>10, <2>11 DEF SerialInv, WatchAtWork
<1>7. CASE murod = "down"
  <2>1. \A q \in Process : Alive(q)' => Alive(q) /\ proc'[q].key = proc[q].key
    BY <1>2 DEF Dies, Alive, Dead
  <2>2. Down
    BY <1>7 DEF SerialInv
  <2>3. Down'
    BY <1>1, <2>1, <2>2 DEF Down, Told, Plain, storeVars
  <2> QED BY <1>1, <1>3, <1>7, <2>3 DEF SerialInv
<1> QED BY <1>1, <1>6, <1>7 DEF Quiet

LEMMA CrashSerial ==
  ASSUME Serially, IInv, SerialInv, Crash
  PROVE  SerialInv'
<1>1. /\ Quiet /\ murod = "up" /\ murod' = "down" /\ UNCHANGED <<disk, proc>>
      /\ store' = [k \in Key |-> None]
  BY DEF Crash, Permitted, Serially, Quiet
<1>2. AtRest /\ disk = store
  BY <1>1, QuietRests DEF SerialInv
<1>3. ASSUME NEW k \in Key
      PROVE  Told(k, disk[k]) /\ Plain(disk[k])
  <2>1. Rest(k) /\ disk[k] = store[k]
    BY <1>2, <1>3 DEF AtRest
  <2>2. CASE Held(k)
    BY <2>1, <2>2 DEF Held, Backed, Running, Only, Told, Plain
  <2>3. CASE Gone(k)
    BY <2>1, <2>3 DEF Gone, Inactive, Active, Nobody, Told, Plain
  <2> QED BY <2>1, <2>2, <2>3 DEF Rest
<1>4. Down'
  BY <1>1, <1>3 DEF Down, Told, Plain, Alive
<1>5. IdsApart'
  BY <1>1, SameIds DEF SerialInv
<1> QED BY <1>1, <1>4, <1>5 DEF SerialInv

----------------------------------------------------------------------------
(* Startup. *)

LEMMA LoadSerial ==
  ASSUME SerialInv, StartLoad
  PROVE  SerialInv'
<1>1. /\ murod = "down" /\ murod' = "reconcile" /\ store' = disk /\ UNCHANGED <<disk, proc>>
      /\ pending' = RunningIn(disk)
  BY DEF StartLoad
<1>2. Down /\ IdsApart'
  BY <1>1, SameIds DEF SerialInv
<1>3. ASSUME NEW k \in Key
      PROVE  /\ Told(k, store[k])' /\ Plain(store[k])'
             /\ k \notin pending' => ~Running(k)'
  BY <1>1, <1>2 DEF Down, Told, Plain, Alive, Running, RunningIn
<1>4. Reconciling'
  BY <1>3 DEF Reconciling
<1> QED BY <1>1, <1>2, <1>4 DEF SerialInv

LEMMA ReconcileSerial ==
  ASSUME Serially, IInv, SerialInv, NEW k \in Key, Reconcile(k)
  PROVE  SerialInv'
<1>0. Types
  BY DEF IInv
<1>1. /\ murod = "reconcile" /\ k \in pending /\ murod' = murod /\ UNCHANGED proc
      /\ pending' = pending \ {k}
      /\ \/ Alive(store[k].pid) /\ UNCHANGED storeVars
         \/ /\ ~Alive(store[k].pid) /\ Persist
            /\ Set(k, [store[k] EXCEPT !.state = "stopped"])
  BY NoPutFault DEF Reconcile
<1>2. Reconciling /\ disk = store /\ IdsApart'
  BY <1>1, SameIds DEF SerialInv
<1>3. CASE Alive(store[k].pid) /\ UNCHANGED storeVars
  <2>1. Reconciling'
    BY <1>1, <1>2, <1>3 DEF Reconciling, Told, Plain, Running, Alive, storeVars
  <2> QED BY <1>1, <1>2, <1>3, <2>1 DEF SerialInv, storeVars
<1>4. CASE /\ ~Alive(store[k].pid) /\ Persist
           /\ Set(k, [store[k] EXCEPT !.state = "stopped"])
  <2>1. PICK r : r = [store[k] EXCEPT !.state = "stopped"]
    OBVIOUS
  <2>2. r.state = "stopped" /\ Set(k, r)
    <3>1. store[k] \in Record
      BY <1>0, <1>1, OrNoneElim DEF IInv, StartInv, Types, StoreOK
    <3> QED BY <1>4, <2>1, <3>1 DEF Record
  <2>3. /\ store'[k] = r /\ disk' = store'
        /\ \A l \in Key \ {k} : store'[l] = store[l]
    BY <1>0, <1>4, <2>2 DEF Set, Persist, Types, StoreOK
  <2>4. \A p \in Process : Alive(p) => proc[p].key # k
    BY <1>2, <1>4 DEF Reconciling, Told
  <2>5. Told(k, store[k])' /\ Plain(store[k])' /\ ~Running(k)'
    BY <1>1, <2>2, <2>3, <2>4 DEF Told, Plain, Running, Alive, isActive
  <2>6. ASSUME NEW l \in Key \ {k}
        PROVE  /\ Told(l, store[l])' /\ Plain(store[l])'
               /\ l \notin pending' /\ Running(l)' => Alive(store[l].pid)'
    BY <1>1, <1>2, <2>3, <2>6 DEF Reconciling, Told, Plain, Running, Alive
  <2>7. Reconciling'
    BY <2>5, <2>6 DEF Reconciling
  <2> QED BY <1>1, <1>2, <2>3, <2>7 DEF SerialInv
<1> QED BY <1>1, <1>3, <1>4

LEMMA StartReattachSerial ==
  ASSUME IInv, SerialInv, StartReattach
  PROVE  SerialInv'
<1>1. /\ murod = "reconcile" /\ pending = {} /\ murod' = "reattach"
      /\ pending' = RunningIn(store)
      /\ UNCHANGED <<storeVars, tableVars, proxyVars, proc, watch>>
  BY DEF StartReattach
<1>2. Reconciling /\ disk = store /\ IdsApart'
  BY <1>1, SameIds DEF SerialInv
<1>3. /\ \A p \in Process : ~Waits(p)
      /\ \A k \in Key : handles[k] = None
  BY <1>1 DEF IInv, StartInv
<1>4. ASSUME NEW k \in pending'
      PROVE  Running(k)' /\ Only(k, store[k].pid)'
  <2>1. PICK p : p = store[k].pid
    OBVIOUS
  <2>2. k \in Key /\ Running(k)
    BY <1>1, <1>4 DEF RunningIn, Running
  <2>3. p \in Process /\ proc[p].key = k /\ Alive(p)
    BY <1>1, <1>2, <2>1, <2>2 DEF Reconciling, IInv, CopiesOK, StoreCopies, Of, Running
  <2>4. \A q \in Process : Alive(q) /\ proc[q].key = k => q = p
    BY <1>2, <2>1, <2>2 DEF Reconciling, Told
  <2> QED BY <1>1, <2>1, <2>2, <2>3, <2>4 DEF Running, Only, Alive, storeVars
<1>5. ASSUME NEW k \in Key \ pending'
      PROVE  Rest(k)'
  <2>1. ~Running(k)
    BY <1>1, <1>5 DEF RunningIn, Running
  <2>2. Gone(k)
    BY <1>2, <1>3, <1>5, <2>1 DEF Reconciling, Told, Plain, Running, Gone, Inactive, Active, Nobody
  <2> QED BY <1>1, <1>5, <2>2, GoneStays DEF storeVars, tableVars
<1>6. Reattaching'
  BY <1>1, <1>3, <1>4, <1>5 DEF Reattaching, Handling, Waits
<1> QED BY <1>1, <1>2, <1>6 DEF SerialInv, storeVars

LEMMA ReattachSerial ==
  ASSUME IInv, SerialInv, Types', NEW k \in Key, Reattach(k)
  PROVE  SerialInv'
<1>0. Types /\ CopiesOK
  BY DEF IInv
<1>1. PICK sb, p, w : sb = store[k] /\ p = sb.pid /\ w = Watching(k, epoch'[k])
  OBVIOUS
<1>2. /\ murod = "reattach" /\ k \in pending /\ UNCHANGED <<storeVars, murod, proc>>
      /\ pending' = pending \ {k}
      /\ Alive(p) => /\ setHandle(k, p) /\ SetAllowlist(sb) /\ addrs' = addrs \cup {p}
                     /\ watch' = [watch EXCEPT ![p] = w]
  BY <1>1 DEF Reattach
<1>3. Reattaching /\ disk = store /\ IdsApart
  BY <1>2 DEF SerialInv
<1>4. /\ Running(k) /\ Only(k, p) /\ Alive(p) /\ p \in Process /\ proc[p].key = k
      /\ sb # None /\ sb.state = "running"
  BY <1>1, <1>2, <1>3 DEF Reattaching, Only, Running
<1>5. sb \in Record /\ sb.id \in Id /\ proc[p].id = sb.id
  <2>1. sb \in Record
    BY <1>0, <1>1, <1>4, OrNoneElim DEF Types, StoreOK
  <2> QED BY <1>0, <1>1, <1>4, <2>1 DEF CopiesOK, StoreCopies, Of, Record
<1>6. watch'[p] = w /\ \A q \in Process \ {p} : watch'[q] = watch[q]
  BY <1>0, <1>2, <1>4 DEF Types, WatchesOK
<1>7. /\ allow'[sb.id] = sb.urls
      /\ \A i \in Id \ {sb.id} : allow'[i] = allow[i]
  BY <1>0, <1>2, <1>4, <1>5, ListFacts
<1>8. /\ handles'[k] = p
      /\ \A l \in Key \ {k} : handles'[l] = handles[l] /\ epoch'[l] = epoch[l]
  BY <1>0, <1>2, <1>4, SetHandleFacts
<1>9. Rest(k)'
  <2>1. Only(k, p)' /\ store'[k] = sb /\ p \in addrs'
    BY <1>1, <1>2, <1>4 DEF Only, Alive, storeVars
  <2> QED BY <1>1, <1>4, <1>6, <1>7, <1>8, <2>1, BecomesHeld
<1>10. OtherKeys(k)
  <2>1. \A q \in Process : proc[q].id = sb.id => proc[q].key = k
    BY <1>3, <1>4, <1>5 DEF IdsApart, Alive, Born, Unborn
  <2> QED BY <1>2, <1>4, <1>6, <1>7, <1>8, <2>1 DEF OtherKeys, storeVars
<1>11. ASSUME NEW l \in pending'
       PROVE  Running(l)' /\ Only(l, store[l].pid)'
  <2>1. Running(l) /\ Only(l, store[l].pid)
    BY <1>2, <1>3, <1>11 DEF Reattaching
  <2> QED BY <1>2, <2>1 DEF Running, Only, Alive, storeVars
<1>12. ASSUME NEW l \in Key \ pending'
       PROVE  Rest(l)'
  <2>1. CASE l = k
    BY <1>9, <2>1
  <2>2. CASE l # k
    <3>1. Rest(l)
      BY <1>2, <1>3, <1>12, <2>2 DEF Reattaching
    <3> QED BY <1>0, <1>10, <1>12, <2>2, <3>1, RestFrame
  <2> QED BY <2>1, <2>2
<1>13. ASSUME NEW q \in Process
       PROVE  ~Handling(q)'
  <2>1. w.pc = "wait" /\ ~Dead(p)'
    BY <1>1, <1>2, <1>4 DEF Watching, NoWatch, Alive, Dead
  <2>2. Unheeding(q)
    BY <1>2, <1>3, <1>6, <2>1, <1>13 DEF Unheeding, Reattaching, Dead
  <2>3. Advances /\ EpochInv
    BY <1>0, <1>2, <1>4, StillKeeps DEF IInv
  <2> QED BY <1>0, <1>13, <2>2, <2>3, StillUnheeding
<1>14. Reattaching'
  BY <1>11, <1>12, <1>13 DEF Reattaching
<1> QED BY <1>2, <1>3, <1>14, SameIds DEF SerialInv, storeVars

LEMMA ServeSerial ==
  ASSUME IInv, SerialInv, Serve
  PROVE  SerialInv'
<1>1. /\ murod = "reattach" /\ pending = {} /\ murod' = "up"
      /\ UNCHANGED <<storeVars, tableVars, proxyVars, proc, watch, req>>
  BY DEF Serve
<1>2. Reattaching /\ disk = store /\ IdsApart'
  BY <1>1, SameIds DEF SerialInv
<1>3. \A c \in Client : ~Working(c)
  BY <1>1 DEF IInv, StartInv, Working
<1>4. AtRest
  BY <1>1, <1>2, <1>3 DEF Reattaching, AtRest
<1>5. AtRest'
  BY <1>1, <1>4 DEF AtRest, Working, Handling, Waits, Dead, Rest, Gone, Inactive, Active, Nobody,
       Held, Backed, Running, Only, Alive, Minds, Listed, storeVars, tableVars, proxyVars
<1> QED BY <1>1, <1>2, <1>5 DEF SerialInv, storeVars

LEMMA InitSerial == Init => SerialInv
<1> SUFFICES ASSUME Init
             PROVE  SerialInv
  OBVIOUS
<1>1. /\ \A p \in Process : proc[p] = Unborn /\ watch[p] = NoWatch
      /\ \A c \in Client : req[c] = IdleReq
      /\ \A k \in Key : store[k] = None /\ handles[k] = None
      /\ murod = "up" /\ disk = store
  BY DEF Init
<1>2. IdsApart
  BY <1>1 DEF IdsApart, Born
<1>3. \A k \in Key : Rest(k)
  BY <1>1 DEF Rest, Gone, Inactive, Active, Nobody, Alive, Unborn
<1>4. AtRest
  BY <1>1, <1>3 DEF AtRest, Working, Handling, Waits, IdleReq, NoWatch
<1> QED BY <1>1, <1>2, <1>4 DEF SerialInv
----------------------------------------------------------------------------
(* A loop at work on the exit of its process. *)

WatchMode(p) == /\ murod = "up" /\ disk = store /\ IdsApart
                /\ Handling(p) /\ WatchForm(p, watch[p], watch[p].key)
                /\ \A l \in Key \ {watch[p].key} : Rest(l)
                /\ \A c \in Client : ~Working(c)
                /\ \A q \in Process \ {p} : ~Handling(q)

LEMMA InWatchMode ==
  ASSUME StartInv, Types, SerialInv, NEW p \in Process, Handling(p)
  PROVE  WatchMode(p)
<1>1. murod = "up"
  BY DEF StartInv, Handling, SerialInv, Reattaching, Types, StartOK
<1>2. WatchAtWork
  BY <1>1 DEF SerialInv, AtRest, RequestAtWork
<1>3. PICK r \in Process : /\ Handling(r) /\ WatchForm(r, watch[r], watch[r].key)
                           /\ \A l \in Key \ {watch[r].key} : Rest(l)
                           /\ \A c \in Client : ~Working(c)
                           /\ \A q \in Process \ {r} : ~Handling(q)
  BY <1>2 DEF WatchAtWork
<1>4. r = p
  BY <1>3
<1> QED BY <1>1, <1>3, <1>4 DEF WatchMode, SerialInv

LoopRests(p, k) == ~Handling(p)' /\ Rest(k)'
LoopGoesOn(p, k) == Handling(p)' /\ watch'[p].key = k /\ WatchForm(p, watch[p], k)'

LEMMA WatchOutcome ==
  ASSUME IInv, Types', NEW p \in Process, WatchMode(p), NEW k \in Key, k = watch[p].key,
         UNCHANGED <<req, murod>>, disk' = store', IdsApart', OtherKeys(k), Advances,
         \A q \in Process \ {p} : Unheeding(q),
         LoopRests(p, k) \/ LoopGoesOn(p, k)
  PROVE  SerialInv'
<1>1. \A q \in Process \ {p} : ~Handling(q)'
  BY StillUnheeding DEF IInv
<1>2. \A l \in Key \ {k} : Rest(l)'
  BY RestFrame DEF IInv, WatchMode
<1>3. \A c \in Client : ~Working(c)'
  BY DEF WatchMode, Working
<1>4. murod' = "up"
  BY DEF WatchMode
<1>5. CASE LoopRests(p, k)
  <2>1. AtRest'
    BY <1>1, <1>2, <1>3, <1>5 DEF LoopRests, AtRest
  <2> QED BY <1>4, <2>1 DEF SerialInv
<1>6. CASE LoopGoesOn(p, k)
  <2>1. WatchAtWork'
    BY <1>1, <1>2, <1>3, <1>6 DEF LoopGoesOn, WatchAtWork
  <2> QED BY <1>4, <2>1 DEF SerialInv
<1> QED BY <1>5, <1>6

(* Its row, and only its row, goes on. *)
RowOf(p, w) == watch'[p] = w /\ \A q \in Process \ {p} : watch'[q] = watch[q]

LEMMA RowFacts ==
  ASSUME Types, NEW p \in Process
  PROVE  /\ WDone(p) => RowOf(p, NoWatch)
         /\ \A pc : WGoto(p, pc) => RowOf(p, [watch[p] EXCEPT !.pc = pc])
         /\ \A pc, sb : watch' = [watch EXCEPT ![p].pc = pc, ![p].sb = sb] =>
              RowOf(p, [watch[p] EXCEPT !.pc = pc, !.sb = sb])
         /\ \A pc, q, sb : watch' = [watch EXCEPT ![p].pc = pc, ![p].new = q, ![p].sb = sb] =>
              RowOf(p, [watch[p] EXCEPT !.pc = pc, !.new = q, !.sb = sb])
  BY DEF Types, WatchesOK, WatchType, WDone, WGoto, RowOf

LEMMA RowFields ==
  ASSUME NEW w \in WatchType, NEW pc
  PROVE  /\ LET x == [w EXCEPT !.pc = pc] IN
            x.pc = pc /\ x.key = w.key /\ x.epoch = w.epoch /\ x.sb = w.sb /\ x.new = w.new
         /\ \A sb : LET x == [w EXCEPT !.pc = pc, !.sb = sb] IN
              x.pc = pc /\ x.key = w.key /\ x.epoch = w.epoch /\ x.sb = sb /\ x.new = w.new
         /\ \A q, sb : LET x == [w EXCEPT !.pc = pc, !.new = q, !.sb = sb] IN
              x.pc = pc /\ x.key = w.key /\ x.epoch = w.epoch /\ x.sb = sb /\ x.new = q
  BY DEF WatchType

(* What the form says of each control point. *)
LEMMA WatchFormFacts ==
  ASSUME NEW p, NEW w, NEW k, WatchForm(p, w, k)
  PROVE  /\ w.pc \in {"wait", "get", "restarting"} =>
              /\ Running(k) /\ handles[k] = p /\ w.epoch = epoch[k] /\ Nobody(k) /\ Listed(k)
         /\ w.pc = "restarting" => /\ w.sb.state = "restarting" /\ w.sb.id = store[k].id
                                   /\ w.sb.urls = store[k].urls
         /\ w.pc \in {"backoff", "crashed"} =>
              /\ Active(k) /\ handles[k] = p /\ Nobody(k) /\ Listed(k)
              /\ w.sb.id = store[k].id /\ w.sb.urls = store[k].urls
         /\ w.pc = "crashed" => w.sb.state = "crashed"
         /\ w.pc = "crashed.clear" => store[k] # None /\ Inactive(k) /\ Nobody(k)
         /\ w.pc = "running" => /\ Active(k) /\ w.sb.state = "running" /\ w.sb.pid = w.new
                                /\ Only(k, w.new) /\ allow[w.sb.id] = w.sb.urls
         /\ w.pc \in {"running", "sethandle"} => w.new # p
         /\ w.pc = "sethandle" => /\ store[k] = w.sb /\ Running(k) /\ w.sb.pid = w.new
                                  /\ Only(k, w.new) /\ Listed(k)
         /\ w.pc \in {"clear", "final"} => /\ Active(k) /\ Nobody(k) /\ ~isActive(w.sb.state)
         /\ w.pc = "final" => handles[k] = None
  BY DEF WatchForm

(* What a step of the loop of p starts from. *)
LEMMA LoopStart ==
  ASSUME IInv, NEW p \in Process, WatchMode(p), NEW pc, WAt(p, pc)
  PROVE  /\ watch[p].key \in Key /\ watch[p] \in WatchType /\ watch[p].pc = pc
         /\ proc[p].key = watch[p].key
         /\ WatchForm(p, watch[p], watch[p].key)
         /\ UNCHANGED <<req, murod>>
         /\ pc \in CopyPcs => watch[p].sb \in Record /\ Of(watch[p].sb, watch[p].key)
  BY DEF IInv, Types, WatchesOK, WatchOK, WatchMode, Handling, Waits, WAt, startVars,
         CopiesOK, WatchCopies, WatchCopy

LEMMA LoopLists ==
  ASSUME Types, NEW k \in Key, NEW p \in Process, NEW w, RowOf(p, w), proc[p].key = k,
         UNCHANGED <<proc, addrs, allow>>,
         UNCHANGED tableVars \/ (\E h : setHandle(k, h)),
         UNCHANGED store \/ (\E r : Set(k, r))
  PROVE  OtherKeys(k)
<1>1. \A l \in Key \ {k} : handles'[l] = handles[l] /\ epoch'[l] = epoch[l]
  BY DEF Types, TableOK, tableVars, setHandle
<1>2. \A l \in Key \ {k} : store'[l] = store[l]
  BY DEF Types, StoreOK, Set
<1> QED BY <1>1, <1>2 DEF OtherKeys, RowOf

(* A step that leaves the processes and the proxy alone. *)
LEMMA PlainLoop ==
  ASSUME IInv, Types', NEW p \in Process, WatchMode(p), NEW k \in Key, k = watch[p].key,
         proc[p].key = k, NEW w, RowOf(p, w),
         UNCHANGED <<req, murod, proc, proxyVars>>,
         UNCHANGED tableVars \/ (\E h : setHandle(k, h)),
         UNCHANGED storeVars \/ (\E r : Set(k, r) /\ Persist),
         LoopRests(p, k) \/ LoopGoesOn(p, k)
  PROVE  SerialInv'
<1>0. Types
  BY DEF IInv
<1>1. OtherKeys(k)
  <2>1. UNCHANGED store \/ \E r : Set(k, r)
    BY DEF storeVars
  <2>2. UNCHANGED <<proc, addrs, allow>>
    BY DEF proxyVars
  <2> QED BY <1>0, <2>1, <2>2, LoopLists
<1>2. Advances
  BY <1>0, StillKeeps
<1>3. \A q \in Process \ {p} : Unheeding(q)
  BY DEF Unheeding, RowOf, Dead, WatchMode
<1>4. IdsApart' /\ disk' = store'
  BY SameIds DEF WatchMode, storeVars, Persist
<1> QED BY <1>1, <1>2, <1>3, <1>4, WatchOutcome

LEMMA StillHandles ==
  ASSUME NEW p, NEW w, watch'[p] = w, w.pc \notin {"none", "wait"}
  PROVE  Handling(p)'
  BY DEF Handling, Waits

LEMMA NoMore ==
  ASSUME NEW p, watch'[p] = NoWatch
  PROVE  ~Handling(p)'
  BY DEF Handling, Waits, NoWatch

LEMMA WatchExitSerial ==
  ASSUME Serially, IInv, SerialInv, Types', NEW p \in Process, WatchExit(p)
  PROVE  SerialInv'
<1>0. Types
  BY DEF IInv
<1>1. /\ WAt(p, "wait") /\ Dead(p) /\ watch[p].pc = "wait"
      /\ IF epoch[watch[p].key] = watch[p].epoch THEN WGoto(p, "get") ELSE WDone(p)
      /\ UNCHANGED <<storeVars, tableVars, proxyVars, proc, req, startVars>>
  BY DEF WatchExit, WAt
<1>2. CASE epoch[watch[p].key] # watch[p].epoch
  <2>1. RowOf(p, NoWatch)
    BY <1>0, <1>1, <1>2, RowFacts
  <2>2. Calm
    BY <1>1, <2>1 DEF Calm, Drained, RowOf, startVars
  <2>3. \A q \in Process : Handling(q) => watch'[q] = watch[q]
    BY <1>1, <1>2, <2>1 DEF RowOf, Handling
  <2>4. murod \in {"up", "reattach"}
    BY <1>0, <1>1 DEF IInv, StartInv, Waits, Types, StartOK
  <2>5. CASE murod = "up"
    BY <1>1, <2>2, <2>3, <2>5, CalmOutcome
  <2>6. CASE murod = "reattach"
    <3>1. Reattaching /\ disk = store /\ IdsApart
      BY <2>6 DEF SerialInv
    <3>2. \A q \in Process : ~Handling(q)'
      BY <2>2, <3>1, CalmHandling DEF Reattaching
    <3>3. \A k \in Key \ pending : Rest(k)'
      BY <2>2, <3>1, CalmRests DEF Reattaching
    <3>4. ASSUME NEW k \in pending
          PROVE  Running(k)' /\ Only(k, store[k].pid)'
      <4>1. Running(k) /\ Only(k, store[k].pid)
        BY <3>1 DEF Reattaching
      <4> QED BY <1>1, <4>1 DEF Running, Only, Alive, storeVars
    <3>5. Reattaching'
      BY <1>1, <3>2, <3>3, <3>4 DEF Reattaching, startVars
    <3> QED BY <1>1, <2>2, <2>6, <3>1, <3>5, CalmFlags DEF SerialInv, startVars
  <2> QED BY <2>4, <2>5, <2>6
<1>3. CASE epoch[watch[p].key] = watch[p].epoch
  <2>1. Handling(p)
    BY <1>1, <1>3 DEF Handling, Waits
  <2>2. WatchMode(p)
    BY <1>0, <2>1, InWatchMode DEF IInv
  <2>3. PICK k, w, v : k = watch[p].key /\ w = watch[p] /\ v = [watch[p] EXCEPT !.pc = "get"]
    OBVIOUS
  <2>4. /\ k \in Key /\ w \in WatchType /\ proc[p].key = k /\ WatchForm(p, w, k)
        /\ UNCHANGED <<req, murod>> /\ w.pc = "wait"
    BY <1>1, <2>2, <2>3, LoopStart
  <2>5. RowOf(p, v)
    BY <1>0, <1>1, <1>3, <2>3, RowFacts
  <2>6. v.pc = "get" /\ v.key = k /\ v.epoch = w.epoch
    BY <2>3, <2>4, RowFields
  <2>7. /\ Running(k) /\ handles[k] = p /\ w.epoch = epoch[k] /\ Nobody(k) /\ Listed(k)
    BY <2>4, WatchFormFacts
  <2>8. WatchForm(p, v, k)'
    BY <1>1, <2>6, <2>7
       DEF WatchForm, Running, Nobody, Alive, Listed, storeVars, tableVars, proxyVars
  <2>9. LoopGoesOn(p, k)
    BY <2>5, <2>6, <2>8, StillHandles DEF LoopGoesOn, RowOf
  <2> QED BY <1>1, <2>2, <2>3, <2>4, <2>5, <2>9, PlainLoop
<1> QED BY <1>2, <1>3

LEMMA WatchGetSerial ==
  ASSUME Serially, IInv, Types', NEW p \in Process, WatchMode(p), WatchGet(p)
  PROVE  SerialInv'
<1>0. Types
  BY DEF IInv
<1>1. PICK k, w, sb : k = watch[p].key /\ w = watch[p] /\ sb = store[k]
  OBVIOUS
<1>2. /\ WAt(p, "get") /\ UNCHANGED <<storeVars, tableVars, proxyVars, proc>>
  BY DEF WatchGet
<1>3. /\ k \in Key /\ w \in WatchType /\ proc[p].key = k /\ WatchForm(p, w, k)
      /\ UNCHANGED <<req, murod>> /\ w.pc = "get"
  BY <1>1, <1>2, LoopStart
<1>4. /\ Running(k) /\ handles[k] = p /\ w.epoch = epoch[k] /\ Nobody(k) /\ Listed(k)
  BY <1>3, WatchFormFacts
<1>5. sb # None /\ sb \in Record
  BY <1>0, <1>1, <1>3, <1>4, OrNoneElim DEF Running, Types, StoreOK
<1>6. /\ Running(k)' /\ Active(k)' /\ handles'[k] = p /\ w.epoch = epoch'[k] /\ Nobody(k)'
      /\ Listed(k)' /\ store'[k] = sb
  BY <1>1, <1>2, <1>4
     DEF Running, Active, isActive, Nobody, Alive, Listed, storeVars, tableVars, proxyVars
<1>7. \/ \E r : /\ r = [sb EXCEPT !.count = @ + 1, !.state = "restarting"]
                /\ watch' = [watch EXCEPT ![p].pc = "restarting", ![p].sb = r]
      \/ \E r : /\ r = [sb EXCEPT !.state = FinalState(sb, proc[p].st = "clean")]
                /\ watch' = [watch EXCEPT ![p].pc = "clear", ![p].sb = r]
  BY <1>1, <1>5 DEF WatchGet
<1>8. ASSUME NEW r, r = [sb EXCEPT !.count = @ + 1, !.state = "restarting"],
             watch' = [watch EXCEPT ![p].pc = "restarting", ![p].sb = r]
      PROVE  SerialInv'
  <2>1. r.state = "restarting" /\ r.id = sb.id /\ r.urls = sb.urls
    BY <1>5, <1>8 DEF Record
  <2>2. PICK v : v = [watch[p] EXCEPT !.pc = "restarting", !.sb = r]
    OBVIOUS
  <2>3. RowOf(p, v)
    BY <1>0, <1>8, <2>2, RowFacts
  <2>4. v.pc = "restarting" /\ v.key = k /\ v.epoch = w.epoch /\ v.sb = r
    BY <1>1, <1>3, <2>2, RowFields
  <2>5. WatchForm(p, v, k)'
    BY <1>6, <2>1, <2>4 DEF WatchForm
  <2>6. LoopGoesOn(p, k)
    BY <2>3, <2>4, <2>5, StillHandles DEF LoopGoesOn, RowOf
  <2> QED BY <1>1, <1>2, <1>3, <2>3, <2>6, PlainLoop
<1>9. ASSUME NEW r, r = [sb EXCEPT !.state = FinalState(sb, proc[p].st = "clean")],
             watch' = [watch EXCEPT ![p].pc = "clear", ![p].sb = r]
      PROVE  SerialInv'
  <2>1. ~isActive(r.state)
    BY <1>5, <1>9 DEF Record, FinalState, isActive
  <2>2. PICK v : v = [watch[p] EXCEPT !.pc = "clear", !.sb = r]
    OBVIOUS
  <2>3. RowOf(p, v)
    BY <1>0, <1>9, <2>2, RowFacts
  <2>4. v.pc = "clear" /\ v.key = k /\ v.sb = r
    BY <1>1, <1>3, <2>2, RowFields
  <2>5. WatchForm(p, v, k)'
    BY <1>6, <2>1, <2>4 DEF WatchForm
  <2>6. LoopGoesOn(p, k)
    BY <2>3, <2>4, <2>5, StillHandles DEF LoopGoesOn, RowOf
  <2> QED BY <1>1, <1>2, <1>3, <2>3, <2>6, PlainLoop
<1> QED BY <1>7, <1>8, <1>9
(* A loop's Put of its working copy. *)
LEMMA LoopPut ==
  ASSUME Serially, IInv, NEW p \in Process, WatchMode(p), NEW pc, pc \in CopyPcs,
         WatchPut(p, pc), NEW k, NEW w, k = watch[p].key, w = watch[p]
  PROVE  /\ k \in Key /\ w \in WatchType /\ proc[p].key = k /\ WatchForm(p, w, k)
         /\ UNCHANGED <<req, murod, tableVars, proxyVars, proc>> /\ w.pc = pc
         /\ Set(k, w.sb) /\ Persist /\ store'[k] = w.sb /\ w.sb \in Record /\ w.sb # None
<1>1. /\ WAt(p, pc) /\ Set(k, w.sb) /\ Persist /\ UNCHANGED <<tableVars, proxyVars, proc>>
  BY NoPutFault DEF WatchPut
<1>2. /\ k \in Key /\ w \in WatchType /\ proc[p].key = k /\ WatchForm(p, w, k)
      /\ UNCHANGED <<req, murod>> /\ w.pc = pc /\ w.sb \in Record
  BY <1>1, LoopStart
<1>3. store'[k] = w.sb
  BY <1>1, <1>2, PutFacts DEF IInv
<1> QED BY <1>1, <1>2, <1>3, ConstantsAssumption

LEMMA WatchRestartingSerial ==
  ASSUME Serially, IInv, Types', NEW p \in Process, WatchMode(p), WatchRestarting(p)
  PROVE  SerialInv'
<1>0. Types
  BY DEF IInv
<1>1. PICK k, w, v : /\ k = watch[p].key /\ w = watch[p]
                     /\ v = [watch[p] EXCEPT !.pc = "backoff"]
  OBVIOUS
<1>2. WatchPut(p, "restarting") /\ WGoto(p, "backoff")
  BY DEF WatchRestarting
<1>3. /\ k \in Key /\ w \in WatchType /\ proc[p].key = k /\ WatchForm(p, w, k)
      /\ UNCHANGED <<req, murod, tableVars, proxyVars, proc>> /\ w.pc = "restarting"
      /\ Set(k, w.sb) /\ Persist /\ store'[k] = w.sb /\ w.sb # None
  BY <1>1, <1>2, LoopPut DEF CopyPcs
<1>4. /\ handles[k] = p /\ Nobody(k) /\ Listed(k)
      /\ w.sb.state = "restarting" /\ w.sb.id = store[k].id /\ w.sb.urls = store[k].urls
  BY <1>3, WatchFormFacts
<1>5. RowOf(p, v)
  BY <1>0, <1>1, <1>2, RowFacts
<1>6. v.pc = "backoff" /\ v.key = k /\ v.sb = w.sb
  BY <1>1, <1>3, RowFields
<1>7. /\ Active(k)' /\ handles'[k] = p /\ Nobody(k)' /\ Listed(k)'
  BY <1>3, <1>4 DEF Active, isActive, Nobody, Alive, Listed, tableVars, proxyVars
<1>8. WatchForm(p, v, k)'
  BY <1>3, <1>6, <1>7 DEF WatchForm
<1>9. LoopGoesOn(p, k)
  BY <1>5, <1>6, <1>8, StillHandles DEF LoopGoesOn, RowOf
<1> QED BY <1>1, <1>3, <1>5, <1>9, PlainLoop

LEMMA WatchCrashedSerial ==
  ASSUME Serially, IInv, Types', NEW p \in Process, WatchMode(p), WatchCrashed(p)
  PROVE  SerialInv'
<1>0. Types
  BY DEF IInv
<1>1. PICK k, w, v : /\ k = watch[p].key /\ w = watch[p]
                     /\ v = [watch[p] EXCEPT !.pc = "crashed.clear"]
  OBVIOUS
<1>2. WatchPut(p, "crashed") /\ WGoto(p, "crashed.clear")
  BY DEF WatchCrashed
<1>3. /\ k \in Key /\ w \in WatchType /\ proc[p].key = k /\ WatchForm(p, w, k)
      /\ UNCHANGED <<req, murod, tableVars, proxyVars, proc>> /\ w.pc = "crashed"
      /\ Set(k, w.sb) /\ Persist /\ store'[k] = w.sb /\ w.sb # None
  BY <1>1, <1>2, LoopPut DEF CopyPcs
<1>4. Nobody(k) /\ w.sb.state = "crashed"
  BY <1>3, WatchFormFacts
<1>5. RowOf(p, v)
  BY <1>0, <1>1, <1>2, RowFacts
<1>6. v.pc = "crashed.clear" /\ v.key = k
  BY <1>1, <1>3, RowFields
<1>7. Inactive(k)' /\ Nobody(k)' /\ store'[k] # None
  BY <1>3, <1>4 DEF Inactive, Active, isActive, Nobody, Alive
<1>8. WatchForm(p, v, k)'
  BY <1>6, <1>7 DEF WatchForm
<1>9. LoopGoesOn(p, k)
  BY <1>5, <1>6, <1>8, StillHandles DEF LoopGoesOn, RowOf
<1> QED BY <1>1, <1>3, <1>5, <1>9, PlainLoop

LEMMA WatchRunningSerial ==
  ASSUME Serially, IInv, Types', NEW p \in Process, WatchMode(p), WatchRunning(p)
  PROVE  SerialInv'
<1>0. Types
  BY DEF IInv
<1>1. PICK k, w, v : /\ k = watch[p].key /\ w = watch[p]
                     /\ v = [watch[p] EXCEPT !.pc = "sethandle"]
  OBVIOUS
<1>2. WatchPut(p, "running") /\ WGoto(p, "sethandle")
  BY DEF WatchRunning
<1>3. /\ k \in Key /\ w \in WatchType /\ proc[p].key = k /\ WatchForm(p, w, k)
      /\ UNCHANGED <<req, murod, tableVars, proxyVars, proc>> /\ w.pc = "running"
      /\ Set(k, w.sb) /\ Persist /\ store'[k] = w.sb /\ w.sb # None
  BY <1>1, <1>2, LoopPut DEF CopyPcs
<1>4. /\ w.sb.state = "running" /\ w.sb.pid = w.new /\ w.new # p /\ Only(k, w.new)
      /\ allow[w.sb.id] = w.sb.urls
  BY <1>3, WatchFormFacts
<1>5. RowOf(p, v)
  BY <1>0, <1>1, <1>2, RowFacts
<1>6. v.pc = "sethandle" /\ v.key = k /\ v.sb = w.sb /\ v.new = w.new
  BY <1>1, <1>3, RowFields
<1>7. Running(k)' /\ Only(k, w.new)' /\ Listed(k)'
  <2>1. PICK q : q = w.new
    OBVIOUS
  <2>2. Only(k, q)'
    BY <1>3, <1>4, <2>1 DEF Only, Alive
  <2> QED BY <1>3, <1>4, <2>1, <2>2 DEF Running, Listed, proxyVars
<1>8. WatchForm(p, v, k)'
  BY <1>3, <1>4, <1>6, <1>7 DEF WatchForm
<1>9. LoopGoesOn(p, k)
  BY <1>5, <1>6, <1>8, StillHandles DEF LoopGoesOn, RowOf
<1> QED BY <1>1, <1>3, <1>5, <1>9, PlainLoop

LEMMA WatchFinalSerial ==
  ASSUME Serially, IInv, Types', NEW p \in Process, WatchMode(p), WatchFinal(p)
  PROVE  SerialInv'
<1>0. Types
  BY DEF IInv
<1>1. PICK k, w : k = watch[p].key /\ w = watch[p]
  OBVIOUS
<1>2. WatchPut(p, "final") /\ WDone(p)
  BY DEF WatchFinal
<1>3. /\ k \in Key /\ w \in WatchType /\ proc[p].key = k /\ WatchForm(p, w, k)
      /\ UNCHANGED <<req, murod, tableVars, proxyVars, proc>> /\ w.pc = "final"
      /\ Set(k, w.sb) /\ Persist
  BY <1>1, <1>2, LoopPut DEF CopyPcs
<1>4. Nobody(k) /\ ~isActive(w.sb.state) /\ handles'[k] = None
  BY <1>3, WatchFormFacts DEF tableVars
<1>5. RowOf(p, NoWatch)
  BY <1>0, <1>2, RowFacts
<1>6. Rest(k)'
  BY <1>0, <1>3, <1>4, BecomesGone
<1>7. LoopRests(p, k)
  BY <1>5, <1>6, NoMore DEF LoopRests, RowOf
<1> QED BY <1>1, <1>3, <1>5, <1>7, PlainLoop

LEMMA WatchClearSerial ==
  ASSUME Serially, IInv, Types', NEW p \in Process, WatchMode(p), WatchClear(p)
  PROVE  SerialInv'
<1>0. Types
  BY DEF IInv
<1>1. PICK k, w, v : k = watch[p].key /\ w = watch[p] /\ v = [watch[p] EXCEPT !.pc = "final"]
  OBVIOUS
<1>2. /\ WAt(p, "clear") /\ clearHandle(k) /\ WGoto(p, "final")
      /\ UNCHANGED <<storeVars, proxyVars, proc>>
  BY <1>1 DEF WatchClear
<1>3. /\ k \in Key /\ w \in WatchType /\ proc[p].key = k /\ WatchForm(p, w, k)
      /\ UNCHANGED <<req, murod>> /\ w.pc = "clear"
  BY <1>1, <1>2, LoopStart
<1>4. Active(k) /\ Nobody(k) /\ ~isActive(w.sb.state)
  BY <1>3, WatchFormFacts
<1>5. RowOf(p, v)
  BY <1>0, <1>1, <1>2, RowFacts
<1>6. v.pc = "final" /\ v.key = k /\ v.sb = w.sb
  BY <1>1, <1>3, RowFields
<1>7. /\ Active(k)' /\ Nobody(k)' /\ handles'[k] = None
  BY <1>0, <1>2, <1>3, <1>4, SetHandleFacts DEF Active, Nobody, Alive, storeVars
<1>8. WatchForm(p, v, k)'
  BY <1>4, <1>6, <1>7 DEF WatchForm
<1>9. LoopGoesOn(p, k)
  BY <1>5, <1>6, <1>8, StillHandles DEF LoopGoesOn, RowOf
<1>10. \E h : setHandle(k, h)
  BY <1>2 DEF clearHandle
<1> QED BY <1>1, <1>2, <1>3, <1>5, <1>9, <1>10, PlainLoop

LEMMA WatchCrashedClearSerial ==
  ASSUME Serially, IInv, Types', NEW p \in Process, WatchMode(p), WatchCrashedClear(p)
  PROVE  SerialInv'
<1>0. Types
  BY DEF IInv
<1>1. PICK k, w : k = watch[p].key /\ w = watch[p]
  OBVIOUS
<1>2. /\ WAt(p, "crashed.clear") /\ clearHandle(k) /\ WDone(p)
      /\ UNCHANGED <<storeVars, proxyVars, proc>>
  BY <1>1 DEF WatchCrashedClear
<1>3. /\ k \in Key /\ proc[p].key = k /\ WatchForm(p, w, k)
      /\ UNCHANGED <<req, murod>> /\ w.pc = "crashed.clear"
  BY <1>1, <1>2, LoopStart
<1>4. Inactive(k) /\ Nobody(k)
  BY <1>3, WatchFormFacts
<1>5. RowOf(p, NoWatch)
  BY <1>0, <1>2, RowFacts
<1>6. Rest(k)'
  BY <1>0, <1>2, <1>3, <1>4, SetHandleFacts
     DEF Rest, Gone, Inactive, Active, Nobody, Alive, storeVars
<1>7. LoopRests(p, k)
  BY <1>5, <1>6, NoMore DEF LoopRests, RowOf
<1>8. \E h : setHandle(k, h)
  BY <1>2 DEF clearHandle
<1> QED BY <1>1, <1>2, <1>3, <1>5, <1>7, <1>8, PlainLoop

LEMMA WatchRelaunchSerial ==
  ASSUME Serially, IInv, Types', NEW p \in Process, WatchMode(p), WatchRelaunch(p)
  PROVE  SerialInv'
<1>0. Types /\ CopiesOK
  BY DEF IInv
<1>1. PICK k, w, sb : k = watch[p].key /\ w = watch[p] /\ sb = watch[p].sb
  OBVIOUS
<1>2. /\ WAt(p, "backoff") /\ UNCHANGED <<storeVars, tableVars, proxyVars>>
      /\ \/ \E q \in Process :
              /\ Launch(q, k, sb)
              /\ watch' = [watch EXCEPT ![p].pc = "running", ![p].new = q,
                             ![p].sb = [captureHandleInfo(sb, q) EXCEPT !.state = "running"]]
         \/ /\ UNCHANGED proc
            /\ watch' = [watch EXCEPT ![p].pc = "crashed", ![p].sb.state = "crashed"]
  BY <1>1 DEF WatchRelaunch
<1>3. /\ k \in Key /\ w \in WatchType /\ proc[p].key = k /\ WatchForm(p, w, k)
      /\ UNCHANGED <<req, murod>> /\ w.pc = "backoff" /\ w.sb = sb
      /\ sb \in Record /\ Of(sb, k)
  BY <1>1, <1>2, LoopStart DEF CopyPcs
<1>4. /\ Active(k) /\ handles[k] = p /\ Nobody(k) /\ Listed(k)
      /\ sb.id = store[k].id /\ sb.urls = store[k].urls
  BY <1>3, WatchFormFacts
<1>5. Active(k)' /\ handles'[k] = p /\ Listed(k)' /\ allow'[sb.id] = sb.urls
      /\ store'[k] = store[k]
  BY <1>2, <1>4 DEF Active, Listed, storeVars, tableVars, proxyVars
<1>6. ASSUME NEW q \in Process, Launch(q, k, sb),
             watch' = [watch EXCEPT ![p].pc = "running", ![p].new = q,
                         ![p].sb = [captureHandleInfo(sb, q) EXCEPT !.state = "running"]]
      PROVE  SerialInv'
  <2>1. PICK r : r = [captureHandleInfo(sb, q) EXCEPT !.state = "running"]
    OBVIOUS
  <2>2. r.state = "running" /\ r.pid = q /\ r.id = sb.id /\ r.urls = sb.urls
    BY <1>3, <2>1 DEF captureHandleInfo, Record
  <2>3. watch' = [watch EXCEPT ![p].pc = "running", ![p].new = q, ![p].sb = r]
    BY <1>6, <2>1
  <2>4. PICK v : v = [watch[p] EXCEPT !.pc = "running", !.new = q, !.sb = r]
    OBVIOUS
  <2>5. RowOf(p, v)
    BY <1>0, <2>3, <2>4, RowFacts
  <2>6. v.pc = "running" /\ v.key = k /\ v.sb = r /\ v.new = q
    BY <1>1, <1>3, <2>4, RowFields
  <2>7. /\ Only(k, q)' /\ proc'[q].key = k /\ proc[q] = Unborn
        /\ \A x \in Process \ {q} : proc'[x] = proc[x]
        /\ \A x \in Process : Dead(x)' => Dead(x)
    BY <1>0, <1>3, <1>4, <1>6, LaunchFacts
  <2>8. q # p
    BY <1>3, <2>7, ConstantsAssumption DEF Unborn
  <2>9. WatchForm(p, v, k)'
    BY <1>5, <2>8, <2>2, <2>6, <2>7 DEF WatchForm
  <2>10. LoopGoesOn(p, k)
    BY <2>5, <2>6, <2>9, StillHandles DEF LoopGoesOn, RowOf
  <2>11. OtherKeys(k)
    <3>1. proc'[p].key = k
      BY <1>3, <2>8, <2>7
    <3> QED BY <1>2, <2>5, <2>7, <3>1 DEF OtherKeys, RowOf, storeVars, tableVars, proxyVars
  <2>12. \A x \in Process \ {p} : Unheeding(x)
    <3>1. ~Waits(q)
      BY <1>0, <1>6, LaunchUnheld DEF Unheld
    <3>2. q # p => ~Waits(q)'
      BY <2>5, <3>1 DEF RowOf, Waits
    <3> QED BY <2>5, <2>7, <3>2 DEF Unheeding, RowOf, WatchMode
  <2>13. \A x \in Process : proc[x].id = sb.id => proc[x].key = k
    <3>1. PICK x : x = sb.pid
      OBVIOUS
    <3>2. x \in Process /\ proc[x].key = k /\ proc[x].id = sb.id
      BY <1>3, <3>1 DEF Of
    <3>3. Born(x) /\ IdsApart
      BY <1>3, <3>2, ConstantsAssumption DEF Born, Unborn, WatchMode
    <3>4. \A y \in Process : proc[y].id = proc[x].id => proc[y].key = proc[x].key
      BY <3>2, <3>3 DEF IdsApart
    <3> QED BY <3>2, <3>4
  <2>14. IdsApart'
    <3>1. IdsApart /\ Nobody(k)
      BY <1>4 DEF WatchMode
    <3> QED BY <1>0, <1>3, <1>6, <2>13, <3>1, LaunchIds
  <2>15. disk' = store' /\ Advances
    BY <1>0, <1>2, StillKeeps DEF WatchMode, storeVars
  <2> QED BY <1>1, <1>3, <2>10, <2>11, <2>12, <2>14, <2>15, WatchOutcome
<1>7. CASE /\ UNCHANGED proc
           /\ watch' = [watch EXCEPT ![p].pc = "crashed", ![p].sb.state = "crashed"]
  <2>1. PICK r, v : /\ r = [sb EXCEPT !.state = "crashed"]
                    /\ v = [watch[p] EXCEPT !.pc = "crashed", !.sb = r]
    OBVIOUS
  <2>2. r.state = "crashed" /\ r.id = sb.id /\ r.urls = sb.urls
    BY <1>3, <2>1 DEF Record
  <2>3. RowOf(p, v)
    <3>1. watch' = [watch EXCEPT ![p].pc = "crashed", ![p].sb = r]
      BY <1>0, <1>1, <1>7, <2>1 DEF Types, WatchesOK, WatchType
    <3> QED BY <1>0, <2>1, <3>1, RowFacts
  <2>4. v.pc = "crashed" /\ v.key = k /\ v.sb = r
    BY <1>1, <1>3, <2>1, RowFields
  <2>5. Nobody(k)'
    BY <1>4, <1>7 DEF Nobody, Alive
  <2>6. WatchForm(p, v, k)'
    BY <1>4, <1>5, <2>2, <2>4, <2>5 DEF WatchForm
  <2>7. LoopGoesOn(p, k)
    BY <2>3, <2>4, <2>6, StillHandles DEF LoopGoesOn, RowOf
  <2> QED BY <1>1, <1>2, <1>3, <1>7, <2>3, <2>7, PlainLoop
<1> QED BY <1>2, <1>6, <1>7

LEMMA WatchSetHandleSerial ==
  ASSUME Serially, IInv, Types', NEW p \in Process, WatchMode(p), WatchSetHandle(p)
  PROVE  SerialInv'
<1>0. Types /\ CopiesOK
  BY DEF IInv
<1>1. PICK k, w, q, v, sb : /\ k = watch[p].key /\ w = watch[p] /\ q = watch[p].new
                            /\ v = Watching(k, epoch'[k]) /\ sb = watch[p].sb
  OBVIOUS
<1>2. /\ WAt(p, "sethandle") /\ addrs' = addrs \cup {q} /\ setHandle(k, q)
      /\ watch' = [watch EXCEPT ![p] = NoWatch, ![q] = v]
      /\ UNCHANGED <<storeVars, allow, proc>>
  BY <1>1 DEF WatchSetHandle
<1>3. /\ k \in Key /\ proc[p].key = k /\ WatchForm(p, w, k)
      /\ UNCHANGED <<req, murod>> /\ w.pc = "sethandle"
  BY <1>1, <1>2, LoopStart
<1>4. /\ store[k] = sb /\ Running(k) /\ sb.pid = q /\ Only(k, q) /\ Listed(k)
  BY <1>1, <1>3, WatchFormFacts
<1>5. Alive(q) /\ q \in Process /\ proc[q].key = k /\ q # p
  BY <1>1, <1>3, <1>4, WatchFormFacts DEF Only
<1>6. /\ watch'[q] = v /\ watch'[p] = NoWatch
      /\ \A x \in Process \ {p, q} : watch'[x] = watch[x]
  BY <1>0, <1>2, <1>5 DEF Types, WatchesOK
<1>7. /\ handles'[k] = q
      /\ \A l \in Key \ {k} : handles'[l] = handles[l] /\ epoch'[l] = epoch[l]
  BY <1>0, <1>2, <1>3, SetHandleFacts
<1>8. Rest(k)'
  <2>1. Only(k, q)' /\ store'[k] = sb /\ q \in addrs' /\ allow'[sb.id] = sb.urls
    BY <1>2, <1>4 DEF Only, Alive, Listed, storeVars
  <2>2. sb # None /\ sb.state = "running"
    BY <1>4 DEF Running
  <2> QED BY <1>1, <1>3, <1>4, <1>6, <1>7, <2>1, <2>2, BecomesHeld
<1>9. OtherKeys(k)
  BY <1>2, <1>3, <1>5, <1>6, <1>7 DEF OtherKeys, storeVars
<1>10. \A x \in Process \ {p} : Unheeding(x)
  <2>1. v.pc = "wait" /\ ~Dead(q)'
    BY <1>1, <1>2, <1>5 DEF Watching, NoWatch, Alive, Dead
  <2> QED BY <1>2, <1>6, <2>1 DEF Unheeding, Dead, WatchMode
<1>11. LoopRests(p, k)
  BY <1>6, <1>8, NoMore DEF LoopRests
<1>12. IdsApart' /\ disk' = store' /\ Advances
  BY <1>0, <1>2, <1>3, SameIds, StillKeeps DEF WatchMode, storeVars
<1> QED BY <1>1, <1>3, <1>9, <1>10, <1>11, <1>12, WatchOutcome

LEMMA WatchSerial ==
  ASSUME Serially, IInv, SerialInv, Types', NEW p \in Process, WatchStep(p)
  PROVE  SerialInv'
<1>1. CASE WatchExit(p)
  BY <1>1, WatchExitSerial
<1>2. CASE ~WatchExit(p)
  <2>1. Handling(p)
    BY <1>2 DEF WatchStep, WatchGet, WatchRestarting, WatchRelaunch, WatchCrashed,
         WatchCrashedClear, WatchRunning, WatchSetHandle, WatchClear, WatchFinal, WatchPut,
         WAt, Handling, Waits
  <2>2. WatchMode(p)
    BY <2>1, InWatchMode DEF IInv
  <2> QED BY <1>2, <2>2, WatchGetSerial, WatchRestartingSerial, WatchRelaunchSerial,
             WatchCrashedSerial, WatchCrashedClearSerial, WatchRunningSerial,
             WatchSetHandleSerial, WatchClearSerial, WatchFinalSerial
          DEF WatchStep
<1> QED BY <1>1, <1>2

----------------------------------------------------------------------------
(* Every step keeps SerialInv, and what that says of a settled murod. *)

LEMMA StutterSerial ==
  ASSUME Types, SerialInv, UNCHANGED vars
  PROVE  SerialInv'
<1>1. /\ UNCHANGED <<storeVars, tableVars, proxyVars, proc, req, watch, startVars, murod>>
  BY DEF vars, storeVars, tableVars, proxyVars, startVars
<1>2. Calm
  BY <1>1 DEF Calm, Drained
<1>3. IdsApart' /\ (disk = store => disk' = store')
  BY <1>2, CalmFlags DEF SerialInv
<1>4. CASE murod = "up"
  BY <1>1, <1>2, <1>4, CalmOutcome
<1>5. CASE murod = "down"
  <2>1. Down'
    BY <1>1, <1>5 DEF SerialInv, Down, Told, Plain, Alive, storeVars
  <2> QED BY <1>1, <1>3, <1>5, <2>1 DEF SerialInv
<1>6. CASE murod = "reconcile"
  <2>1. Reconciling'
    BY <1>1, <1>6 DEF SerialInv, Reconciling, Told, Plain, Running, Alive, storeVars, startVars
  <2> QED BY <1>1, <1>3, <1>6, <2>1 DEF SerialInv
<1>7. CASE murod = "reattach"
  <2>1. Reattaching
    BY <1>7 DEF SerialInv
  <2>2. /\ \A k \in Key \ pending : Rest(k)'
        /\ \A p \in Process : ~Handling(p)'
    BY <1>2, <2>1, CalmRests, CalmHandling DEF Reattaching
  <2>3. ASSUME NEW k \in pending
        PROVE  Running(k)' /\ Only(k, store[k].pid)'
    <3>1. Running(k) /\ Only(k, store[k].pid)
      BY <2>1 DEF Reattaching
    <3> QED BY <1>1, <3>1 DEF Running, Only, Alive, storeVars
  <2>4. Reattaching'
    BY <1>1, <2>2, <2>3 DEF Reattaching, startVars
  <2> QED BY <1>1, <1>3, <1>7, <2>4 DEF SerialInv
<1>8. murod \in {"up", "down", "reconcile", "reattach"}
  BY DEF Types, StartOK
<1> QED BY <1>4, <1>5, <1>6, <1>7, <1>8

LEMMA NextSerial ==
  ASSUME Serially, IInv, IInv', SerialInv, [Next]_vars
  PROVE  SerialInv'
<1>0. Types /\ Types'
  BY DEF IInv
<1>1. ASSUME NEW c \in Client, RequestBegin(c) \/ RequestStep(c) \/ SessionEnd(c)
      PROVE  SerialInv'
  <2>1. CASE RequestBegin(c)
    BY <2>1, BeginSerial
  <2>2. CASE RequestStep(c) /\ ~AttachStep(c)
    BY <1>0, <2>2, StepSerial
  <2>3. CASE AttachStep(c) \/ SessionEnd(c)
    BY <2>3, SessionSerial
  <2> QED BY <1>1, <2>1, <2>2, <2>3
<1>2. ASSUME NEW p \in Process, WatchStep(p) \/ Exit(p)
      PROVE  SerialInv'
  BY <1>0, <1>2, WatchSerial, ExitSerial
<1>3. CASE Crash
  BY <1>3, CrashSerial
<1>4. CASE Startup
  BY <1>0, <1>4, LoadSerial, StartReattachSerial, ServeSerial, ReconcileSerial, ReattachSerial
     DEF Startup
<1>5. CASE UNCHANGED vars
  BY <1>0, <1>5, StutterSerial
<1> QED BY <1>1, <1>2, <1>3, <1>4, <1>5 DEF Next

(* Where requests, exits and crashes only meet a settled murod, at most one
   goroutine is at work at a time, on a sandbox whose record, handle and
   process stand as where it is says, and every other sandbox is held or
   gone; what a crash leaves on disk names exactly what still lives. *)
THEOREM SerialMurod ==
  ASSUME Serially
  PROVE  Spec => []SerialInv
<1>1. IInv /\ IInv' /\ SerialInv /\ [Next]_vars => SerialInv'
  BY NextSerial
<1> QED BY Invariant, InitSerial, <1>1, PTL DEF Spec

LEMMA SettledRests ==
  ASSUME SerialInv, Settled
  PROVE  AtRest
  BY QuietRests DEF Settled

LEMMA RestTells ==
  ASSUME Types, CopiesOK, IdsApart, AtRest
  PROVE  /\ \A p \in Process : Alive(p) => handles[proc[p].key] = p
         /\ \A k \in Key : store[k] # None => (isActive(store[k].state) <=> Alive(store[k].pid))
         /\ \A k \in Key : store[k] # None /\ isActive(store[k].state) =>
              /\ handles[k] \in addrs
              /\ allow[store[k].id] = store[k].urls
<1>1. ASSUME NEW p \in Process, Alive(p)
      PROVE  handles[proc[p].key] = p
  <2>1. PICK k : k = proc[p].key
    OBVIOUS
  <2>2. k \in Key
    BY <1>1, <2>1 DEF IdsApart, Alive, Born, Unborn
  <2>3. Rest(k) /\ ~Gone(k)
    BY <1>1, <2>1, <2>2 DEF AtRest, Gone, Nobody
  <2>4. handles[k] = store[k].pid /\ Only(k, store[k].pid)
    BY <2>3 DEF Rest, Held, Backed
  <2> QED BY <1>1, <2>1, <2>4 DEF Only
<1>2. ASSUME NEW k \in Key, store[k] # None
      PROVE  /\ isActive(store[k].state) <=> Alive(store[k].pid)
             /\ isActive(store[k].state) => /\ handles[k] \in addrs
                                            /\ allow[store[k].id] = store[k].urls
  <2>1. Rest(k)
    BY DEF AtRest
  <2>2. CASE Held(k)
    <3>1. isActive(store[k].state)
      BY <2>2 DEF Held, Backed, Running, isActive
    <3> QED BY <2>2, <3>1 DEF Held, Backed, Only, Listed
  <2>3. CASE Gone(k)
    <3>1. ~isActive(store[k].state) /\ Nobody(k)
      BY <1>2, <2>3 DEF Gone, Inactive, Active
    <3>2. store[k].pid \in Process /\ proc[store[k].pid].key = k
      BY <1>2 DEF CopiesOK, StoreCopies, Of
    <3> QED BY <3>1, <3>2 DEF Nobody
  <2> QED BY <2>1, <2>2, <2>3 DEF Rest
<1> QED BY <1>1, <1>2

(* Nothing runs that `muro sandbox stop' cannot reach: whatever Runs,
   Restarts, Stops, exits, relaunches and murod restarts went before, every
   process that lives when murod is settled is the handle of its sandbox. *)
THEOREM NothingOrphaned ==
  ASSUME Serially
  PROVE  Spec => []NoOrphan
<1>1. IInv /\ SerialInv => NoOrphan
  BY SettledRests, RestTells DEF NoOrphan, IInv, SerialInv
<1> QED BY Invariant, SerialMurod, <1>1, PTL

(* A settled murod tells the truth about its sandboxes: a record is active
   exactly when its own process lives. *)
THEOREM RecordsTrue ==
  ASSUME Serially
  PROVE  Spec => []RecordTruthful
<1>1. IInv /\ SerialInv => RecordTruthful
  BY SettledRests, RestTells DEF RecordTruthful, IInv, SerialInv
<1> QED BY Invariant, SerialMurod, <1>1, PTL

(* The fail-closed proxy is never behind a settled murod: it knows the address
   of every active sandbox, and holds the allowlist its record shows. *)
THEOREM ProxyKnows ==
  ASSUME Serially
  PROVE  Spec => []ProxyCurrent
<1>1. IInv /\ SerialInv => ProxyCurrent
  BY SettledRests, RestTells DEF ProxyCurrent, IInv, SerialInv
<1> QED BY Invariant, SerialMurod, <1>1, PTL

----------------------------------------------------------------------------
(* Every step is a step of SandboxLife, or none. *)

Class(sb) == IF sb = None THEN "unknown"
             ELSE IF isActive(sb.state) THEN "active" ELSE "inactive"

LEMMA ClassOf == \A k : LifeOf(k) = Class(RecordOf(k))
  BY DEF LifeOf, Class

LEMMA LivesFacts ==
  ASSUME NEW k
  PROVE  /\ Nobody(k) => LivesOf(k) = None
         /\ \A p : Only(k, p) => LivesOf(k) = p
<1>1. Nobody(k) => LiveOf(k) = {}
  BY DEF LiveOf, Nobody
<1>2. ASSUME NEW p, Only(k, p)
      PROVE  LiveOf(k) = {p}
  BY <1>2 DEF LiveOf, Only
<1> QED BY <1>1, <1>2 DEF LivesOf

(* The sandboxes a step does not concern. *)
Apart(k) == \A l \in Key \ {k} : LifeOf(l)' = LifeOf(l) /\ LivesOf(l)' = LivesOf(l)

LEMMA LifeStutters ==
  ASSUME \A l \in Key : LifeOf(l)' = LifeOf(l) /\ LivesOf(l)' = LivesOf(l),
         {p \in Process : proc'[p] # Unborn} = {p \in Process : proc[p] # Unborn}
  PROVE  UNCHANGED Life!lifeVars
  BY DEF Life!lifeVars

LEMMA LifeSpawns ==
  ASSUME NEW k \in Key, Apart(k), LifeOf(k)' = LifeOf(k), LivesOf(k) = None,
         NEW p \in Process, proc[p] = Unborn, LivesOf(k)' = p,
         {q \in Process : proc'[q] # Unborn} = {q \in Process : proc[q] # Unborn} \cup {p}
  PROVE  Life!Next
<1>1. Life!Spawn(k)
  BY DEF Life!Spawn, Apart
<1> QED BY <1>1 DEF Life!Next

LEMMA LifeEnds ==
  ASSUME NEW k \in Key, Apart(k), LifeOf(k)' = LifeOf(k), LivesOf(k) # None,
         LivesOf(k)' = None,
         {q \in Process : proc'[q] # Unborn} = {q \in Process : proc[q] # Unborn}
  PROVE  Life!Next
<1>1. Life!Die(k)
  BY DEF Life!Die, Apart
<1> QED BY <1>1 DEF Life!Next

LEMMA LifeMoves ==
  ASSUME NEW k \in Key, Apart(k), LivesOf(k)' = LivesOf(k),
         {q \in Process : proc'[q] # Unborn} = {q \in Process : proc[q] # Unborn},
         \/ LifeOf(k) # "active" /\ LifeOf(k)' = "active" /\ LivesOf(k) # None
         \/ LifeOf(k) = "active" /\ LifeOf(k)' = "inactive"
         \/ LifeOf(k) = "inactive" /\ LifeOf(k)' = "unknown" /\ LivesOf(k) = None
  PROVE  Life!Next
<1>1. CASE LifeOf(k) # "active" /\ LifeOf(k)' = "active" /\ LivesOf(k) # None
  <2>1. Life!Announce(k)
    BY <1>1 DEF Life!Announce, Apart
  <2> QED BY <2>1 DEF Life!Next
<1>2. CASE LifeOf(k) = "active" /\ LifeOf(k)' = "inactive"
  <2>1. Life!Retire(k)
    BY <1>2 DEF Life!Retire, Apart
  <2> QED BY <2>1 DEF Life!Next
<1>3. CASE LifeOf(k) = "inactive" /\ LifeOf(k)' = "unknown" /\ LivesOf(k) = None
  <2>1. Life!Forget(k)
    BY <1>3 DEF Life!Forget, Apart
  <2> QED BY <2>1 DEF Life!Next
<1> QED BY <1>1, <1>2, <1>3

Simulated == Life!Next \/ UNCHANGED Life!lifeVars

(* A step that neither launches nor kills, nor stores anything. *)
LEMMA NothingStored ==
  ASSUME UNCHANGED proc, \A k \in Key : RecordOf(k)' = RecordOf(k)
  PROVE  Simulated
<1>1. \A k \in Key : LifeOf(k)' = LifeOf(k)
  BY DEF LifeOf
<1>2. \A k \in Key : LivesOf(k)' = LivesOf(k)
  BY DEF LivesOf, LiveOf, Alive
<1> QED BY <1>1, <1>2, LifeStutters DEF Simulated

LEMMA StoreKept ==
  ASSUME UNCHANGED <<murod, storeVars, proc>>
  PROVE  Simulated
<1>1. \A k \in Key : RecordOf(k)' = RecordOf(k)
  BY DEF RecordOf, storeVars
<1> QED BY <1>1, NothingStored

(* A record stored: it is announced of a process that lives, retired, kept in
   its class, or forgotten when nothing of the sandbox runs. *)
LEMMA RecordStored ==
  ASSUME Types, murod # "down", UNCHANGED <<murod, proc>>, NEW k \in Key, NEW r, Set(k, r),
         \/ r # None /\ isActive(r.state) /\ (Active(k) \/ \E p : Only(k, p))
         \/ r # None /\ ~isActive(r.state) /\ store[k] # None
         \/ r = None /\ store[k] # None /\ Inactive(k) /\ Nobody(k)
  PROVE  Simulated
<1>1. store'[k] = r /\ \A l \in Key \ {k} : store'[l] = store[l]
  BY DEF Types, StoreOK, Set
<1>2. LifeOf(k) = Class(store[k]) /\ LifeOf(k)' = Class(r)
  BY <1>1 DEF LifeOf, RecordOf, Class
<1>3. \A l \in Key : LivesOf(l)' = LivesOf(l)
  BY DEF LivesOf, LiveOf, Alive
<1>4. Apart(k)
  BY <1>1, <1>3 DEF Apart, LifeOf, RecordOf
<1>5. {p \in Process : proc'[p] # Unborn} = {p \in Process : proc[p] # Unborn}
  OBVIOUS
<1>6. CASE LifeOf(k)' = LifeOf(k)
  BY <1>3, <1>4, <1>5, <1>6, LifeStutters DEF Apart, Simulated
<1>7. CASE LifeOf(k)' # LifeOf(k)
  <2>1. \A p : Only(k, p) => LivesOf(k) # None
    BY LivesFacts, ConstantsAssumption DEF Only
  <2>2. Nobody(k) => LivesOf(k) = None
    BY LivesFacts
  <2>3. \/ LifeOf(k) # "active" /\ LifeOf(k)' = "active" /\ LivesOf(k) # None
        \/ LifeOf(k) = "active" /\ LifeOf(k)' = "inactive"
        \/ LifeOf(k) = "inactive" /\ LifeOf(k)' = "unknown" /\ LivesOf(k) = None
    BY <1>2, <1>7, <2>1, <2>2 DEF Class, Active, Inactive
  <2>4. LivesOf(k)' = LivesOf(k)
    BY <1>3
  <2> QED BY <1>4, <1>5, <2>3, <2>4, LifeMoves DEF Simulated
<1> QED BY <1>6, <1>7

LEMMA Launched ==
  ASSUME Types, UNCHANGED <<murod, storeVars>>, NEW k \in Key, Nobody(k),
         NEW p \in Process, NEW sb, Launch(p, k, sb)
  PROVE  Simulated
<1>1. /\ Only(k, p)' /\ proc[p] = Unborn /\ proc'[p].key = k /\ Born(p)'
      /\ \A q \in Process \ {p} : proc'[q] = proc[q]
  BY LaunchFacts
<1>2. \A l : LifeOf(l)' = LifeOf(l)
  BY DEF LifeOf, RecordOf, storeVars
<1>3. ASSUME NEW l \in Key \ {k}
      PROVE  LivesOf(l)' = LivesOf(l)
  <2>1. LiveOf(l)' = LiveOf(l)
    BY <1>1, <1>3 DEF LiveOf, Alive, Unborn
  <2> QED BY <2>1 DEF LivesOf
<1>4. LivesOf(k) = None
  BY LivesFacts
<1>5. LivesOf(k)' = p
  <2>1. LiveOf(k)' = {p}
    BY <1>1 DEF LiveOf, Only
  <2> QED BY <2>1 DEF LivesOf
<1>6. {q \in Process : proc'[q] # Unborn} = {q \in Process : proc[q] # Unborn} \cup {p}
  BY <1>1 DEF Born
<1>7. Apart(k) /\ LifeOf(k)' = LifeOf(k)
  BY <1>2, <1>3 DEF Apart
<1> QED BY <1>1, <1>4, <1>5, <1>6, <1>7, LifeSpawns DEF Simulated

LEMMA Died ==
  ASSUME UNCHANGED <<murod, storeVars>>, NEW k \in Key, NEW p, Only(k, p), Dies(p)
  PROVE  Simulated
<1>1. /\ p \in Process /\ Alive(p) /\ proc[p].key = k /\ proc'[p].key = k /\ Dead(p)'
      /\ \A q \in Process \ {p} : proc'[q] = proc[q]
  BY DEF Only, Dies
<1>2. \A l : LifeOf(l)' = LifeOf(l)
  BY DEF LifeOf, RecordOf, storeVars
<1>3. ASSUME NEW l \in Key \ {k}
      PROVE  LivesOf(l)' = LivesOf(l)
  <2>1. LiveOf(l)' = LiveOf(l)
    BY <1>1, <1>3 DEF LiveOf, Alive
  <2> QED BY <2>1 DEF LivesOf
<1>4. LivesOf(k) # None
  BY <1>1, LivesFacts, ConstantsAssumption
<1>5. LivesOf(k)' = None
  <2>1. Nobody(k)'
    BY <1>1, LastDies
  <2>2. LiveOf(k)' = {}
    BY <2>1 DEF LiveOf, Nobody
  <2> QED BY <2>2 DEF LivesOf
<1>6. {q \in Process : proc'[q] # Unborn} = {q \in Process : proc[q] # Unborn}
  BY <1>1 DEF Dead, Alive, Unborn
<1>7. Apart(k) /\ LifeOf(k)' = LifeOf(k)
  BY <1>2, <1>3 DEF Apart
<1> QED BY <1>4, <1>5, <1>6, <1>7, LifeEnds DEF Simulated

----------------------------------------------------------------------------
(* The requests. *)

LEMMA BeginSimulated ==
  ASSUME NEW c \in Client, RequestBegin(c)
  PROVE  Simulated
<1>1. UNCHANGED <<murod, storeVars, proc>>
  BY DEF RequestBegin, UpdateBegin, RunCheck, ReloadGet, RestartGet, StopGet, DeleteGet,
         MergeGet, AttachGet, Begin, startVars
<1> QED BY <1>1, StoreKept

LEMMA SessionSimulated ==
  ASSUME NEW c \in Client, AttachStep(c) \/ SessionEnd(c)
  PROVE  Simulated
<1>1. UNCHANGED <<murod, storeVars, proc>>
  BY DEF AttachStep, SessionEnd, AttachTry, AttachHandle, AttachDial, AttachDetach, At, startVars
<1> QED BY <1>1, StoreKept

LEMMA StillSimulated ==
  ASSUME NEW c \in Client,
         \/ RunSetHandle(c) \/ RunWatch(c) \/ UpdateProxy(c) \/ RestartHandle(c)
         \/ RestartClear(c) \/ RestartProxy(c) \/ RestartWatch(c) \/ StopHandle(c)
         \/ StopClear(c)
  PROVE  Simulated
<1>1. UNCHANGED <<murod, storeVars, proc>>
  BY DEF RunSetHandle, RunWatch, UpdateProxy, RestartHandle, RestartClear, RestartProxy,
         RestartWatch, StopHandle, StopClear, At, startVars
<1> QED BY <1>1, StoreKept

LEMMA LaunchSimulated ==
  ASSUME IInv, NEW c \in Client, ReqMode(c), RunLaunch(c) \/ RestartLaunch(c)
  PROVE  Simulated
<1>0. Types
  BY DEF IInv
<1>1. PICK k, sb : k = req[c].key /\ sb = req[c].sb
  OBVIOUS
<1>2. PICK pc \in {"run.launch", "restart.launch"} :
        /\ At(c, pc) /\ UNCHANGED storeVars
        /\ UNCHANGED proc \/ \E p \in Process : Launch(p, k, sb)
  BY <1>1 DEF RunLaunch, RestartLaunch
<1>3. k \in Key /\ UNCHANGED murod /\ req[c].pc = pc
  BY <1>0, <1>1, <1>2, AtOK DEF NoKeyPcs, At, startVars
<1>4. Nobody(k)
  BY <1>1, <1>3, FormFacts DEF ReqMode, Gone
<1>5. CASE UNCHANGED proc
  BY <1>2, <1>3, <1>5, StoreKept
<1>6. CASE \E p \in Process : Launch(p, k, sb)
  BY <1>0, <1>2, <1>3, <1>4, <1>6, Launched
<1> QED BY <1>2, <1>5, <1>6

LEMMA PutSimulated ==
  ASSUME IInv, NEW c \in Client, ReqMode(c),
         RunPut(c) \/ RestartPut(c) \/ RestartCrashed(c) \/ StopPut(c) \/ DeleteStore(c)
  PROVE  Simulated
<1>0. Types
  BY DEF IInv
<1>1. PICK k, sb, r : k = req[c].key /\ sb = req[c].sb /\ r = req[c]
  OBVIOUS
<1>2. PICK pc \in {"run.put", "restart.put", "restart.crashed", "stop.put", "delete.store"} :
        /\ At(c, pc) /\ UNCHANGED proc
        /\ Set(k, IF pc = "delete.store" THEN None ELSE sb)
  BY <1>1 DEF RunPut, RestartPut, RestartCrashed, StopPut, DeleteStore
<1>3. /\ k \in Key /\ UNCHANGED murod /\ r.pc = pc
      /\ pc # "delete.store" => sb # None
  BY <1>0, <1>1, <1>2, AtOK, ConstantsAssumption DEF NoKeyPcs, SbPcs, At, startVars
<1>4. ReqForm(r, k) /\ murod = "up"
  BY <1>1 DEF ReqMode
<1>5. /\ r.pc \in {"run.put", "restart.put"} => isActive(sb.state) /\ \E p : Only(k, p)
      /\ r.pc \in {"restart.crashed", "stop.put"} => ~isActive(sb.state) /\ store[k] # None
      /\ r.pc = "delete.store" => store[k] # None /\ Inactive(k) /\ Nobody(k)
  BY <1>1, <1>4, FormFacts DEF Fresh, Gone, isActive
<1> QED BY <1>0, <1>2, <1>3, <1>4, <1>5, RecordStored

LEMMA UpdateSimulated ==
  ASSUME IInv, NEW c \in Client, ReqMode(c), UpdatePut(c)
  PROVE  Simulated
<1>0. Types
  BY DEF IInv
<1>1. PICK k \in Key : /\ At(c, "update.put") /\ req[c].todo[k] # None
                       /\ Set(k, req[c].todo[k]) /\ UNCHANGED proc
  BY DEF UpdatePut
<1>2. PICK r : r = req[c].todo[k]
  OBVIOUS
<1>3. ReqForm(req[c], req[c].key) /\ req[c].pc = "update.put"
  BY <1>1 DEF ReqMode, At
<1>4. Drafted(req[c])
  BY <1>3, FormFacts, UpdateFacts
<1>5. store[k] # None /\ r # None /\ r.state = store[k].state /\ Set(k, r)
  BY <1>1, <1>2, <1>4 DEF Drafted
<1>6. UNCHANGED <<murod, proc>> /\ murod = "up"
  BY <1>1 DEF At, startVars, ReqMode
<1> QED BY <1>0, <1>5, <1>6, RecordStored DEF Active

LEMMA KillSimulated ==
  ASSUME Serially, IInv, NEW c \in Client, ReqMode(c), RestartKill(c) \/ StopKill(c)
  PROVE  Simulated
<1>0. Types
  BY DEF IInv
<1>1. PICK k, p : k = req[c].key /\ p = req[c].old
  OBVIOUS
<1>2. PICK pc \in {"restart.kill", "stop.kill"} :
        At(c, pc) /\ Kill(p) /\ UNCHANGED storeVars
  BY <1>1, NoPutFault DEF RestartKill, StopKill
<1>3. k \in Key /\ UNCHANGED murod /\ req[c].pc = pc
  BY <1>0, <1>1, <1>2, AtOK DEF NoKeyPcs, At, startVars
<1>4. Only(k, p)
  BY <1>1, <1>3, FormFacts DEF ReqMode
<1>5. p \in Process /\ Alive(p)
  BY <1>4 DEF Only
<1>6. Dies(p)
  BY <1>0, <1>2, <1>5, DiesFacts
<1> QED BY <1>2, <1>3, <1>4, <1>6, Died

LEMMA RequestSimulated ==
  ASSUME Serially, IInv, SerialInv, NEW c \in Client,
         RequestBegin(c) \/ RequestStep(c) \/ SessionEnd(c)
  PROVE  Simulated
<1>1. CASE RequestStep(c) /\ ~AttachStep(c)
  <2>1. ReqMode(c)
    BY <1>1, WorkingStep, InReqMode DEF IInv
  <2> QED BY <1>1, <2>1, NoSuchStep, StillSimulated, LaunchSimulated, PutSimulated,
             UpdateSimulated, KillSimulated DEF RequestStep, AttachStep
<1> QED BY <1>1, BeginSimulated, SessionSimulated

----------------------------------------------------------------------------
(* The loops, the exits, and murod's death and recovery. *)

LEMMA WatchSimulated ==
  ASSUME Serially, IInv, SerialInv, NEW p \in Process, WatchStep(p)
  PROVE  Simulated
<1>0. Types
  BY DEF IInv
<1>1. CASE WatchExit(p) \/ WatchGet(p) \/ WatchCrashedClear(p) \/ WatchSetHandle(p)
           \/ WatchClear(p)
  <2>1. UNCHANGED <<murod, storeVars, proc>>
    BY <1>1 DEF WatchExit, WatchGet, WatchCrashedClear, WatchSetHandle, WatchClear, WAt,
                startVars
  <2> QED BY <2>1, StoreKept
<1>2. CASE WatchRestarting(p) \/ WatchRunning(p) \/ WatchCrashed(p) \/ WatchFinal(p)
           \/ WatchRelaunch(p)
  <2>1. PICK k, w, sb : k = watch[p].key /\ w = watch[p] /\ sb = watch[p].sb
    OBVIOUS
  <2>2. PICK pc \in {"restarting", "running", "crashed", "final", "backoff"} :
          /\ WAt(p, pc)
          /\ \/ pc # "backoff" /\ Set(k, sb) /\ UNCHANGED proc
             \/ pc = "backoff" /\ WatchRelaunch(p)
    BY <1>2, <2>1 DEF WatchRestarting, WatchRunning, WatchCrashed, WatchFinal, WatchPut,
                      WatchRelaunch
  <2>3. Handling(p)
    BY <2>2 DEF WAt, Handling, Waits
  <2>4. WatchMode(p)
    BY <2>3, InWatchMode DEF IInv
  <2>5. /\ k \in Key /\ w.pc = pc /\ w.sb = sb /\ WatchForm(p, w, k) /\ sb \in Record
        /\ murod = "up" /\ UNCHANGED murod
    BY <2>1, <2>2, <2>4, LoopStart DEF CopyPcs, WatchMode
  <2>6. /\ pc = "restarting" => sb.state = "restarting" /\ Running(k)
        /\ pc = "running" => sb.state = "running" /\ Active(k)
        /\ pc = "crashed" => sb.state = "crashed" /\ Active(k)
        /\ pc = "final" => ~isActive(sb.state) /\ Active(k)
        /\ pc = "backoff" => Nobody(k)
    BY <2>5, WatchFormFacts
  <2>7. CASE pc # "backoff"
    <3>1. UNCHANGED <<murod, proc>> /\ Set(k, sb) /\ sb # None
      BY <2>2, <2>5, <2>7, ConstantsAssumption
    <3>2. (isActive(sb.state) /\ Active(k)) \/ (~isActive(sb.state) /\ store[k] # None)
      BY <2>2, <2>6, <2>7 DEF isActive, Active, Running
    <3> QED BY <1>0, <2>5, <3>1, <3>2, RecordStored
  <2>8. CASE pc = "backoff"
    <3>1. /\ UNCHANGED storeVars
          /\ UNCHANGED proc \/ \E q \in Process : Launch(q, k, sb)
      BY <2>1, <2>2, <2>8 DEF WatchRelaunch
    <3>2. CASE UNCHANGED proc
      BY <2>5, <3>1, <3>2, StoreKept
    <3>3. CASE \E q \in Process : Launch(q, k, sb)
      BY <1>0, <2>5, <2>6, <2>8, <3>1, <3>3, Launched
    <3> QED BY <3>1, <3>2, <3>3
  <2> QED BY <2>7, <2>8
<1> QED BY <1>1, <1>2 DEF WatchStep

LEMMA ExitSimulated ==
  ASSUME Serially, IInv, SerialInv, NEW p \in Process, Exit(p)
  PROVE  Simulated
<1>0. Types
  BY DEF IInv
<1>1. /\ Alive(p) /\ Quiet /\ UNCHANGED <<murod, storeVars>>
      /\ \E st \in {"clean", "failed"} : proc' = [proc EXCEPT ![p].st = st]
  BY DEF Exit, Permitted, Serially, startVars
<1>2. Dies(p)
  BY <1>0, <1>1, DiesFacts
<1>3. PICK k : k = proc[p].key
  OBVIOUS
<1>4. k \in Key
  BY <1>1, <1>3 DEF SerialInv, IdsApart, Born, Alive, Unborn
<1>5. Only(k, p)
  <2>1. CASE murod = "up"
    <3>1. Rest(k)
      BY <1>1, <1>4, <2>1, QuietRests DEF AtRest
    <3>2. ~Gone(k)
      BY <1>1, <1>3 DEF Gone, Nobody
    <3>3. PICK q : Only(k, q)
      BY <3>1, <3>2 DEF Rest, Held, Backed
    <3>4. p = q
      BY <1>1, <1>3, <3>3 DEF Only
    <3> QED BY <3>3, <3>4
  <2>2. CASE murod = "down"
    <3>1. Told(k, disk[k])
      BY <1>4, <2>2 DEF SerialInv, Down
    <3> QED BY <1>1, <1>3, <3>1 DEF Told, Only
  <2> QED BY <1>1, <2>1, <2>2 DEF Quiet
<1> QED BY <1>1, <1>2, <1>4, <1>5, Died

LEMMA StartSimulated ==
  ASSUME Serially, IInv, SerialInv, Crash \/ Startup
  PROVE  Simulated
<1>0. Types
  BY DEF IInv
<1>1. CASE Crash
  <2>1. murod # "down" /\ murod' = "down" /\ UNCHANGED <<disk, proc>>
    BY <1>1 DEF Crash
  <2>2. \A k \in Key : RecordOf(k)' = RecordOf(k)
    BY <2>1 DEF RecordOf, SerialInv
  <2> QED BY <2>1, <2>2, NothingStored
<1>2. CASE StartLoad
  <2>1. murod = "down" /\ murod' = "reconcile" /\ store' = disk /\ UNCHANGED proc
    BY <1>2 DEF StartLoad
  <2>2. \A k \in Key : RecordOf(k)' = RecordOf(k)
    BY <2>1 DEF RecordOf
  <2> QED BY <2>1, <2>2, NothingStored
<1>3. CASE StartReattach \/ Serve \/ \E k \in Key : Reattach(k)
  <2>1. murod # "down" /\ murod' # "down" /\ UNCHANGED <<storeVars, proc>>
    BY <1>3 DEF StartReattach, Serve, Reattach
  <2>2. \A k \in Key : RecordOf(k)' = RecordOf(k)
    BY <2>1 DEF RecordOf, storeVars
  <2> QED BY <2>1, <2>2, NothingStored
<1>4. ASSUME NEW k \in Key, Reconcile(k)
      PROVE  Simulated
  <2>1. murod = "reconcile" /\ k \in pending /\ UNCHANGED <<murod, proc>>
    BY <1>4 DEF Reconcile
  <2>2. CASE UNCHANGED storeVars
    BY <2>1, <2>2, StoreKept
  <2>3. CASE Set(k, [store[k] EXCEPT !.state = "stopped"])
    <3>1. PICK r : r = [store[k] EXCEPT !.state = "stopped"]
      OBVIOUS
    <3>2. store[k] # None
      BY <2>1 DEF IInv, StartInv
    <3>3. store[k] \in Record
      BY <1>0, <3>2, OrNoneElim DEF Types, StoreOK
    <3>4. r \in Record /\ r.state = "stopped"
      BY <3>1, <3>3 DEF Record, States
    <3>5. r # None /\ Set(k, r) /\ ~isActive(r.state)
      BY <2>3, <3>1, <3>4, ConstantsAssumption DEF isActive
    <3> QED BY <1>0, <2>1, <3>2, <3>5, RecordStored
  <2> QED BY <1>4, <2>2, <2>3 DEF Reconcile
<1> QED BY <1>1, <1>2, <1>3, <1>4 DEF Startup

LEMMA NextSimulated ==
  ASSUME Serially, IInv, SerialInv, [Next]_vars
  PROVE  [Life!Next]_(Life!lifeVars)
<1>1. CASE UNCHANGED vars
  <2>1. UNCHANGED <<murod, storeVars, proc>>
    BY <1>1 DEF vars, storeVars
  <2> QED BY <2>1, StoreKept DEF Simulated
<1>2. CASE Next
  BY <1>2, RequestSimulated, WatchSimulated, ExitSimulated, StartSimulated DEF Next, Simulated
<1> QED BY <1>1, <1>2

LEMMA InitSimulated == Init => Life!Init
<1> SUFFICES ASSUME Init
             PROVE  Life!Init
  OBVIOUS
<1>1. \A k \in Key : LifeOf(k) = "unknown"
  BY DEF Init, LifeOf, RecordOf
<1>2. \A p \in Process : proc[p] = Unborn /\ ~Alive(p)
  BY DEF Init, Alive, Unborn
<1>3. \A k \in Key : LivesOf(k) = None
  BY <1>2, LivesFacts DEF Nobody
<1>4. {p \in Process : proc[p] # Unborn} = {}
  BY <1>2
<1> QED BY <1>1, <1>3, <1>4 DEF Life!Init

(* What a name promises, of any number of sandboxes, clients and restarts:
   never two processes under it, active only once its process lives, a relaunch
   only after a death, forgotten only when nothing runs -- by every handler,
   watchLoop and startup step of manager.go, murod's own death included. *)
THEOREM Implements ==
  ASSUME Serially
  PROVE  Spec => ImplementsLife
<1>1. IInv /\ SerialInv /\ [Next]_vars => [Life!Next]_(Life!lifeVars)
  BY NextSimulated
<1> QED BY Invariant, SerialMurod, InitSimulated, <1>1, PTL DEF Spec, ImplementsLife, Life!Spec

----------------------------------------------------------------------------
(* One goroutine at a time, also where records are reloaded and merged. *)

(* A step that launches nothing. *)
SameProcs == \A p \in Process : /\ proc'[p].key = proc[p].key /\ proc'[p].id = proc[p].id
                                /\ Born(p)' => Born(p)
                                /\ Alive(p)' => Alive(p)
                                /\ Dead(p) => Dead(p)'

LEMMA SameProcsFacts ==
  ASSUME SameProcs
  PROVE  /\ IdsApart => IdsApart'
         /\ \A i : LaunchedAs(i)' = LaunchedAs(i)
  BY DEF SameProcs, IdsApart, LaunchedAs

LEMMA DeathSame ==
  ASSUME Types, \/ UNCHANGED proc
                \/ \E p \in Process : Alive(p) /\ \E st : proc' = [proc EXCEPT ![p].st = st]
  PROVE  SameProcs
<1>1. ASSUME NEW p \in Process, Alive(p), NEW st, proc' = [proc EXCEPT ![p].st = st]
      PROVE  SameProcs
  <2>1. proc'[p].key = proc[p].key /\ proc'[p].id = proc[p].id /\ Born(p) /\ ~Dead(p)
    BY <1>1 DEF Types, ProcOK, ProcType, Alive, Dead, Born, Unborn
  <2>2. \A q \in Process \ {p} : proc'[q] = proc[q]
    BY <1>1 DEF Types, ProcOK
  <2> QED BY <1>1, <2>1, <2>2 DEF SameProcs, Born, Alive, Dead
<1> QED BY <1>1 DEF SameProcs, Born, Alive, Dead

(* The other one. *)
LEMMA LaunchAdds ==
  ASSUME Types, NEW p \in Process, NEW k \in Key, NEW sb \in Record, Launch(p, k, sb)
  PROVE  /\ p \notin LaunchedAs(sb.id) /\ LaunchedAs(sb.id)' = LaunchedAs(sb.id) \cup {p}
         /\ \A i : i # sb.id /\ i # None => LaunchedAs(i)' = LaunchedAs(i)
         /\ proc'[p].key = k /\ proc'[p].id = sb.id /\ Alive(p)'
         /\ \A q \in Process \ {p} : proc'[q] = proc[q]
<1>1. sb.id \in Id /\ sb.id # None
  BY ConstantsAssumption DEF Record
<1>2. /\ proc[p].id = None /\ proc'[p].key = k /\ proc'[p].id = sb.id /\ Alive(p)'
      /\ \A q \in Process \ {p} : proc'[q] = proc[q]
  BY DEF Types, ProcOK, Launch, Unborn, Alive
<1> QED BY <1>1, <1>2 DEF LaunchedAs

LEMMA LaunchAlive ==
  ASSUME Types,
         UNCHANGED proc \/ \E p \in Process : \E k, sb : Launch(p, k, sb)
  PROVE  \A q \in Process : Alive(q) => Alive(q)'
  BY DEF Types, ProcOK, Launch, Alive

LEMMA LaunchApart ==
  ASSUME Types, IdsApart, NEW p \in Process, NEW k \in Key, NEW sb \in Record, Launch(p, k, sb),
         \A q \in Process : proc[q].id = sb.id => proc[q].key = k
  PROVE  IdsApart'
<1>1. /\ proc'[p].key = k /\ proc'[p].id = sb.id
      /\ \A q \in Process \ {p} : proc'[q] = proc[q]
  BY LaunchAdds
<1> QED BY <1>1 DEF IdsApart, Born

(* A step of a request is a session's, or of the one request at work. *)
LEMMA SessionStill ==
  ASSUME Types, NEW c \in Client, AttachStep(c) \/ SessionEnd(c)
  PROVE  /\ Others(c) /\ req'[c].pc \in {"idle"} \cup AttachPcs
         /\ UNCHANGED <<storeVars, tableVars, bridgeVars, proxyVars, proc, watch, murod, pending>>
<1>1. Others(c) /\ req'[c].pc \in {"idle"} \cup AttachPcs
  <2>1. \/ Done(c)
        \/ \E pc \in AttachPcs : Goto(c, pc)
        \/ \E h : req' = [req EXCEPT ![c].pc = "attach.dial", ![c].old = h]
    BY DEF AttachStep, SessionEnd, AttachTry, AttachHandle, AttachDial, AttachDetach, AttachPcs
  <2> QED BY <2>1, MoveFacts, GotoFacts, OldFacts DEF AttachPcs
<1>2. UNCHANGED <<storeVars, tableVars, bridgeVars, proxyVars, proc, watch, murod, pending>>
  BY DEF AttachStep, SessionEnd, AttachTry, AttachHandle, AttachDial, AttachDetach,
         At, startVars
<1> QED BY <1>1, <1>2

LEMMA BeginFree ==
  ASSUME OneByOne, NEW c \in Client, RequestBegin(c)
  PROVE  /\ murod = "up" /\ murod' = "up"
         /\ \A d \in Client : ~Working(d)
         /\ \A p \in Process : ~Busy(p)
         /\ \A k \in Key : ~RestartGet(c, k)
         /\ UNCHANGED <<storeVars, tableVars, proxyVars, proc, watch>>
<1>1. \E op \in AllOps : Begin(c, op)
  BY DEF RequestBegin, UpdateBegin, RunCheck, ReloadGet, RestartGet, StopGet, DeleteGet,
         MergeGet, AttachGet, AllOps
<1>2. Quiet /\ murod = "up" /\ murod' = "up"
  BY <1>1 DEF Begin, Permitted, OneByOne, startVars
<1>3. /\ \A d \in Client : ~Working(d)
      /\ \A p \in Process : ~Busy(p)
  BY <1>2 DEF Quiet, Working, AttachPcs, Busy, Waits
<1>4. \A k \in Key : ~RestartGet(c, k)
  BY DEF RestartGet, Begin, OneByOne
<1>5. UNCHANGED <<storeVars, tableVars, proxyVars, proc, watch>>
  BY <1>4 DEF RequestBegin, UpdateBegin, RunCheck, ReloadGet, StopGet, DeleteGet,
         MergeGet, AttachGet
<1> QED BY <1>2, <1>3, <1>4, <1>5

(* Where a request at work goes. *)
LEMMA StepPcs ==
  ASSUME Types, NEW c \in Client, RequestStep(c), req[c].pc \notin RestartPcs
  PROVE  req'[c].pc \notin RestartPcs \cup {"run.launch", "stop.put"}
<1>1. CASE Done(c)
  BY <1>1, MoveFacts DEF RestartPcs
<1>2. CASE \E pc \in ReqPcs \ (RestartPcs \cup {"run.launch", "stop.put"}) : Goto(c, pc)
  BY <1>2, GotoFacts
<1>3. CASE RunLaunch(c) /\ ~Done(c)
  <2>1. \/ Done(c)
        \/ \E p, sb : req' = [req EXCEPT ![c].pc = "run.put", ![c].new = p, ![c].sb = sb]
    BY <1>3 DEF RunLaunch
  <2>2. PICK p, sb : req' = [req EXCEPT ![c].pc = "run.put", ![c].new = p, ![c].sb = sb]
    BY <1>3, <2>1
  <2>3. req'[c].pc = "run.put"
    BY <2>2, LaunchMoves
  <2> QED BY <2>3 DEF RestartPcs
<1>4. CASE \E h : \/ req' = [req EXCEPT ![c].pc = "stop.clear", ![c].old = h]
                  \/ req' = [req EXCEPT ![c].pc = "attach.dial", ![c].old = h]
  BY <1>4, OldFacts DEF RestartPcs
<1>5. CASE \E x : \/ req' = [req EXCEPT ![c].pc = "update.put", ![c].todo = x]
                  \/ req' = [req EXCEPT ![c].pc = "run.watch", ![c].epoch = x]
                  \/ req' = [req EXCEPT ![c].pc = "reload.put", ![c].sb.state = x]
  BY <1>5, NoteMoves DEF Moves, RestartPcs
<1>6. CASE \E k : req' = [req EXCEPT ![c].pc = "update.proxy", ![c].key = k]
  <2>1. PICK k : req' = [req EXCEPT ![c].pc = "update.proxy", ![c].key = k]
    BY <1>6
  <2>2. Carries(c, "update.proxy")
    BY <2>1, CarryFacts
  <2> QED BY <2>2 DEF Carries, RestartPcs
<1>7. CASE RunPut(c) \/ UpdatePut(c) \/ UpdateProxy(c) \/ RunSetHandle(c)
  BY <1>1, <1>2, <1>5, <1>6, <1>7
     DEF RunPut, UpdatePut, UpdateProxy, RunSetHandle, ReqPcs, RestartPcs
<1>8. CASE RunUndo(c) \/ RunWatch(c) \/ ReloadHandle(c) \/ ReloadPut(c)
           \/ StopPut(c) \/ StopHandle(c) \/ StopClear(c) \/ StopKill(c) \/ DeleteStore(c)
           \/ MergePut(c) \/ AttachTry(c) \/ AttachHandle(c) \/ AttachDial(c) \/ AttachDetach(c)
  BY <1>1, <1>2, <1>4, <1>5, <1>8
     DEF RunUndo, RunWatch, ReloadHandle, ReloadPut, StopPut, StopHandle, StopClear, StopKill,
         DeleteStore, MergePut, AttachTry, AttachHandle, AttachDial, AttachDetach,
         ReqPcs, RestartPcs
<1>9. ~RestartHandle(c) /\ ~RestartClear(c) /\ ~RestartKill(c) /\ ~RestartLaunch(c)
      /\ ~RestartCrashed(c) /\ ~RestartPut(c) /\ ~RestartProxy(c) /\ ~RestartWatch(c)
  BY DEF RestartHandle, RestartClear, RestartKill, RestartLaunch, RestartCrashed, RestartPut,
         RestartProxy, RestartWatch, At, RestartPcs
<1> QED BY <1>1, <1>3, <1>7, <1>8, <1>9 DEF RequestStep

LEMMA StepProcs ==
  ASSUME Types, NEW c \in Client, RequestStep(c), req[c].pc \notin RestartPcs
  PROVE  /\ ~RunLaunch(c) => SameProcs
         /\ ~RunWatch(c) => UNCHANGED watch
         /\ ~RunLaunch(c) /\ ~RunUndo(c) /\ ~StopKill(c) => UNCHANGED proc
<1>0. ~RestartHandle(c) /\ ~RestartClear(c) /\ ~RestartKill(c) /\ ~RestartLaunch(c)
      /\ ~RestartCrashed(c) /\ ~RestartPut(c) /\ ~RestartProxy(c) /\ ~RestartWatch(c)
  BY DEF RestartHandle, RestartClear, RestartKill, RestartLaunch, RestartCrashed, RestartPut,
         RestartProxy, RestartWatch, At, RestartPcs
<1>1. ~RunWatch(c) => UNCHANGED watch
  BY <1>0 DEF RequestStep, RunLaunch, RunPut, RunUndo, RunSetHandle, UpdatePut, UpdateProxy,
         ReloadHandle, ReloadPut, StopPut, StopHandle, StopClear, StopKill, DeleteStore,
         MergePut, AttachTry, AttachHandle, AttachDial, AttachDetach
<1>2. ~RunLaunch(c) /\ ~RunUndo(c) /\ ~StopKill(c) => UNCHANGED proc
  BY <1>0 DEF RequestStep, RunPut, RunSetHandle, RunWatch, UpdatePut, UpdateProxy,
         ReloadHandle, ReloadPut, StopPut, StopHandle, StopClear, DeleteStore,
         MergePut, AttachTry, AttachHandle, AttachDial, AttachDetach
<1>3. CASE RunUndo(c)
  <2>1. req[c].new \in Process
    BY <1>3, AtOK DEF RunUndo, NewPcs
  <2> QED BY <1>1, <1>2, <1>3, <2>1, DeathSame DEF RunUndo, Kill
<1>4. CASE StopKill(c)
  <2>1. req[c].old \in Process
    BY <1>4, AtOK DEF StopKill, OldPcs
  <2> QED BY <1>1, <1>2, <1>4, <2>1, DeathSame DEF StopKill, Kill
<1> QED BY <1>1, <1>2, <1>3, <1>4, DeathSame

(* The work is handed on at most once: to the loop of one process, by a
   request that is then done. *)
LEMMA HandOver ==
  ASSUME OneAtWork, NEW c \in Client, Working(c), Others(c), murod' = "up",
         req'[c].pc \notin RestartPcs,
         NEW q, \A p \in Process : p # q => ~Busy(p)',
         q \in Process => ~Busy(q)' \/ ~Working(c)'
  PROVE  OneAtWork'
<1>1. \A d \in Client \ {c} : ~Working(d)'
  BY DEF OneAtWork, Others, Working
<1>2. \A d \in Client : req'[d].pc \notin RestartPcs
  BY DEF OneAtWork, Others
<1> QED BY <1>1, <1>2 DEF OneAtWork

LEMMA StepOneAtWork ==
  ASSUME Types, StartInv, OneAtWork, NEW c \in Client, RequestStep(c) \/ SessionEnd(c)
  PROVE  OneAtWork'
<1>1. CASE AttachStep(c) \/ SessionEnd(c)
  <2>1. /\ \A p \in Process : Busy(p)' => Busy(p)
        /\ \A d \in Client : /\ Working(d)' => Working(d)
                             /\ req'[d].pc \notin RestartPcs
        /\ UNCHANGED murod
    BY <1>1, SessionStill DEF OneAtWork, Busy, Waits, Alive, Working, Others, AttachPcs, RestartPcs
  <2> QED BY <2>1 DEF OneAtWork
<1>2. CASE RequestStep(c) /\ ~AttachStep(c)
  <2>1. Working(c) /\ Others(c) /\ req[c].pc \notin RestartPcs /\ murod' = "up"
    <3>1. murod = "up" /\ UNCHANGED murod
      BY <1>2 DEF StartInv, RequestStep, RunLaunch, RunPut, RunUndo, RunSetHandle,
         RunWatch, UpdatePut, UpdateProxy, ReloadHandle, ReloadPut, RestartHandle, RestartClear,
         RestartKill, RestartLaunch, RestartCrashed, RestartPut, RestartProxy, RestartWatch,
         StopPut, StopHandle, StopClear, StopKill, DeleteStore, MergePut,
         AttachTry, AttachHandle, AttachDial, AttachDetach, At, startVars
    <3> QED BY <1>2, <3>1, WorkingStep, StepOthers DEF OneAtWork
  <2>2. req'[c].pc \notin RestartPcs
    BY <1>2, <2>1, StepPcs
  <2>3. \A p \in Process : ~Busy(p)
    BY <2>1 DEF OneAtWork
  <2>4. CASE RunWatch(c)
    <3>1. PICK q, k, e : watch' = [watch EXCEPT ![q] = Watching(k, e)]
      BY <2>4 DEF RunWatch
    <3>2. \A p \in Process : p # q => ~Busy(p)'
      BY <2>3, <2>4, <3>1 DEF RunWatch, Types, WatchesOK, Busy, Waits, Alive
    <3>3. ~Working(c)'
      BY <2>4, MoveFacts DEF RunWatch, Working
    <3> QED BY <2>1, <2>2, <3>2, <3>3, HandOver
  <2>5. CASE RunLaunch(c)
    <3>1. UNCHANGED watch /\ \A p \in Process : Alive(p) => Alive(p)'
      BY <2>5, LaunchAlive DEF RunLaunch
    <3>2. \A p \in Process : ~Busy(p)'
      BY <2>3, <3>1 DEF Busy, Waits
    <3> QED BY <2>1, <2>2, <3>2, HandOver
  <2>6. CASE RunUndo(c) \/ StopKill(c)
    <3>1. PICK q : Kill(q) \/ UNCHANGED proc
      BY <2>6 DEF RunUndo, StopKill
    <3>2. \A p \in Process : p # q => ~Busy(p)'
      BY <2>3, <2>6, <3>1 DEF RunUndo, StopKill, Kill, Types, ProcOK, Busy, Waits, Alive
    <3>3. ~Working(c)'
      BY <2>6, MoveFacts DEF RunUndo, StopKill, Working
    <3> QED BY <2>1, <2>2, <3>2, <3>3, HandOver
  <2>7. CASE ~RunWatch(c) /\ ~RunLaunch(c) /\ ~RunUndo(c) /\ ~StopKill(c)
    <3>1. UNCHANGED watch /\ UNCHANGED proc
      BY <1>2, <2>1, <2>7, StepProcs
    <3>2. \A p \in Process : ~Busy(p)'
      BY <2>3, <3>1 DEF Busy, Waits, Alive
    <3> QED BY <2>1, <2>2, <3>2, HandOver
  <2> QED BY <2>4, <2>5, <2>6, <2>7
<1> QED BY <1>1, <1>2

LEMMA BeginOneAtWork ==
  ASSUME Types, OneByOne, OneAtWork, NEW c \in Client, RequestBegin(c)
  PROVE  OneAtWork' /\ Others(c) /\ req'[c].pc \notin RestartPcs
<1>1. Others(c) /\ req'[c].pc \notin RestartPcs
  <2>1. CASE UpdateBegin(c)
    <3>1. PICK d, t : req' = [req EXCEPT ![c] =
                        [IdleReq EXCEPT !.pc = "update.put", !.arg = d, !.todo = t]]
      BY <2>1 DEF UpdateBegin
    <3> QED BY <3>1 DEF Types, ReqsOK, Others, IdleReq, RestartPcs
  <2>2. CASE \E k \in Key : RunCheck(c, k)
    <3>1. PICK k, sb : Open(c, "run.launch", k, sb, None)
      BY <2>2 DEF RunCheck
    <3> QED BY <3>1, OpenRow DEF RestartPcs
  <2>3. CASE \E k \in Key : MergeGet(c, k)
    <3>1. PICK k, sb : Open(c, "merge.put", k, sb, None)
      BY <2>3 DEF MergeGet
    <3> QED BY <3>1, OpenRow DEF RestartPcs
  <2>4. CASE \E k \in Key : \/ ReloadGet(c, k) \/ StopGet(c, k) \/ DeleteGet(c, k)
                            \/ AttachGet(c, k)
    BY <2>4, OpenRow DEF ReloadGet, StopGet, DeleteGet, AttachGet, RestartPcs
  <2> QED BY <2>1, <2>2, <2>3, <2>4, BeginFree DEF RequestBegin
<1>2. /\ \A d \in Client \ {c} : ~Working(d)' /\ req'[d].pc \notin RestartPcs
      /\ \A p \in Process : ~Busy(p)'
  BY <1>1, BeginFree DEF OneAtWork, Others, Working, Busy, Waits, Alive
<1> QED BY <1>1, <1>2, BeginFree DEF OneAtWork

(* A watchLoop that takes a step is the one that is busy. *)
LEMMA WatchBusy ==
  ASSUME OneAtWork, NEW p \in Process, WatchStep(p)
  PROVE  /\ Busy(p) /\ murod = "up" /\ UNCHANGED <<req, murod>>
         /\ \A c \in Client : ~Working(c)
         /\ \A q \in Process \ {p} : ~Busy(q)
<1>1. Busy(p)
  BY DEF WatchStep, WatchExit, WatchGet, WatchRestarting, WatchRelaunch, WatchCrashed,
         WatchCrashedClear, WatchRunning, WatchSetHandle, WatchClear, WatchFinal, WatchPut,
         WAt, Busy, Waits, Alive, Dead
<1>2. UNCHANGED <<req, murod>>
  BY DEF WatchStep, WatchExit, WatchGet, WatchRestarting, WatchRelaunch, WatchCrashed,
         WatchCrashedClear, WatchRunning, WatchSetHandle, WatchClear, WatchFinal, WatchPut,
         WAt, startVars
<1> QED BY <1>1, <1>2 DEF OneAtWork

LEMMA WatchOneAtWork ==
  ASSUME Types, OneAtWork, NEW p \in Process, WatchStep(p)
  PROVE  OneAtWork'
<1>1. \A q \in Process : Alive(q) => Alive(q)'
  BY LaunchAlive DEF WatchStep, WatchExit, WatchGet, WatchRestarting, WatchRelaunch,
         WatchCrashed, WatchCrashedClear, WatchRunning, WatchSetHandle, WatchClear,
         WatchFinal, WatchPut
<1>2. \E q \in Process : \A r \in Process \ {q} : ~Busy(r)'
  <2>1. CASE WatchSetHandle(p)
    <3>1. PICK q, k, e : watch' = [watch EXCEPT ![p] = NoWatch, ![q] = Watching(k, e)]
      BY <2>1 DEF WatchSetHandle
    <3>2. \A r \in Process \ {p, q} : watch'[r] = watch[r]
      BY <3>1 DEF Types, WatchesOK
    <3>3. q # p => watch'[p] = NoWatch
      BY <3>1 DEF Types, WatchesOK
    <3>4. \A r \in Process : r # q => ~Busy(r)'
      BY <1>1, <3>2, <3>3, WatchBusy DEF Busy, Waits, NoWatch
    <3> QED BY <3>4
  <2>2. CASE ~WatchSetHandle(p)
    <3>1. \A q \in Process \ {p} : watch'[q] = watch[q]
      BY <2>2, WatchOnwards
    <3> QED BY <1>1, <3>1, WatchBusy DEF Busy, Waits
  <2> QED BY <2>1, <2>2
<1> QED BY <1>2, WatchBusy DEF OneAtWork, Working

(* No exit, crash or startup meets work that is under way. *)
LEMMA WorldFree ==
  ASSUME OneByOne, StartInv, OneAtWork, Crash \/ Startup \/ \E p \in Process : Exit(p)
  PROVE  /\ \A d \in Client : ~Working(d)
         /\ \A p \in Process : ~Busy(p)
<1>1. CASE Crash \/ \E p \in Process : Exit(p)
  <2>1. Quiet
    BY <1>1 DEF Crash, Exit, Permitted, OneByOne
  <2> QED BY <2>1 DEF Quiet, Working, AttachPcs, Busy, Waits
<1>2. CASE Startup
  <2>1. murod # "up"
    BY <1>2 DEF Startup, StartLoad, StartReattach, Serve, Reconcile, Reattach
  <2> QED BY <2>1 DEF StartInv, OneAtWork, Working
<1> QED BY <1>1, <1>2

LEMMA WorldOneAtWork ==
  ASSUME Types, OneByOne, StartInv, OneAtWork, Crash \/ Startup \/ \E p \in Process : Exit(p)
  PROVE  OneAtWork'
<1>1. CASE Crash
  <2>1. /\ \A c \in Client : req'[c].pc = "idle"
        /\ \A p \in Process : watch'[p].pc = "none"
    BY <1>1 DEF Crash, IdleReq, NoWatch
  <2> QED BY <2>1 DEF OneAtWork, Working, Busy, Waits, RestartPcs
<1>2. CASE \E p \in Process : Exit(p)
  <2>1. PICK p \in Process : Exit(p)
    BY <1>2
  <2>2. \A q \in Process \ {p} : Alive(q) => Alive(q)'
    BY <2>1 DEF Exit, Types, ProcOK, Alive
  <2>3. UNCHANGED <<req, watch, murod>>
    BY <2>1 DEF Exit, startVars
  <2>4. \A q \in Process \ {p} : ~Busy(q)'
    BY <1>2, <2>2, <2>3, WorldFree DEF Busy, Waits
  <2>5. murod # "up" => ~Waits(p)
    BY <2>1 DEF Exit, Permitted, OneByOne, Quiet, StartInv
  <2> QED BY <1>2, <2>3, <2>4, <2>5, WorldFree DEF OneAtWork, Working, Busy, Waits
<1>3. CASE Startup
  <2>1. UNCHANGED <<req, proc>>
    BY <1>3 DEF Startup, StartLoad, StartReattach, Serve, Reconcile, Reattach
  <2>2. \A p \in Process : ~Busy(p)'
    <3>1. CASE UNCHANGED watch
      BY <1>3, <2>1, <3>1, WorldFree DEF Busy, Waits, Alive
    <3>2. ASSUME NEW p, NEW k, NEW e, Alive(p), watch' = [watch EXCEPT ![p] = Watching(k, e)]
          PROVE  \A q \in Process : ~Busy(q)'
      BY <1>3, <2>1, <3>2, WorldFree
         DEF Types, WatchesOK, Watching, NoWatch, Busy, Waits, Alive
    <3> QED BY <1>3, <3>1, <3>2 DEF Startup, StartLoad, StartReattach, Serve, Reconcile, Reattach
  <2> QED BY <1>3, <2>1, <2>2, WorldFree DEF OneAtWork, Working
<1> QED BY <1>1, <1>2, <1>3

LEMMA LaunchWorks ==
  ASSUME NEW c \in Client, req[c].pc = "run.launch"
  PROVE  Working(c)
  BY DEF Working, AttachPcs

LEMMA RequestAlone ==
  ASSUME OneByOne, Types, StartInv, AloneInv, NEW c \in Client,
         RequestBegin(c) \/ RequestStep(c) \/ SessionEnd(c)
  PROVE  AloneInv'
<1> USE DEF AloneInv
<1>1. CASE RequestBegin(c)
  <2>1. IdsApart' /\ \A i : LaunchedAs(i)' = LaunchedAs(i)
    BY <1>1, BeginFree, DeathSame, SameProcsFacts
  <2>2. /\ OneAtWork' /\ Others(c)
        /\ \A d \in Client \ {c} : req'[d].pc # "run.launch"
    BY <1>1, BeginOneAtWork, BeginFree, LaunchWorks DEF Others
  <2>3. CASE \E k \in Key : RunCheck(c, k)
    <3>1. PICK id, k, sb : NewID(id) /\ sb.id = id /\ Open(c, "run.launch", k, sb, None)
      BY <2>3 DEF RunCheck
    <3>2. req'[c].sb.id = id /\ LaunchedAs(id) = {}
      BY <3>1, OpenRow DEF NewID, LaunchedAs
    <3> QED BY <2>1, <2>2, <3>2 DEF NewIds
  <2>4. CASE ~ \E k \in Key : RunCheck(c, k)
    <3>1. req'[c].pc # "run.launch"
      <4>1. CASE UpdateBegin(c)
        <5>1. PICK d, t : req' = [req EXCEPT ![c] =
                            [IdleReq EXCEPT !.pc = "update.put", !.arg = d, !.todo = t]]
          BY <4>1 DEF UpdateBegin
        <5> QED BY <5>1 DEF Types, ReqsOK, IdleReq
      <4>2. CASE \E k \in Key : MergeGet(c, k)
        <5>1. PICK k, sb : Open(c, "merge.put", k, sb, None)
          BY <4>2 DEF MergeGet
        <5> QED BY <5>1, OpenRow
      <4>3. CASE \E k \in Key : \/ ReloadGet(c, k) \/ StopGet(c, k) \/ DeleteGet(c, k)
                                \/ AttachGet(c, k)
        BY <4>3, OpenRow DEF ReloadGet, StopGet, DeleteGet, AttachGet
      <4> QED BY <1>1, <2>4, <4>1, <4>2, <4>3, BeginFree DEF RequestBegin
    <3> QED BY <2>1, <2>2, <3>1 DEF NewIds
  <2> QED BY <2>3, <2>4
<1>2. CASE AttachStep(c) \/ SessionEnd(c)
  <2>1. OneAtWork'
    BY <1>2, StepOneAtWork DEF AttachStep, RequestStep
  <2>2. IdsApart' /\ \A i : LaunchedAs(i)' = LaunchedAs(i)
    BY <1>2, SessionStill, DeathSame, SameProcsFacts
  <2>3. \A d \in Client : req'[d].pc = "run.launch" => req'[d] = req[d]
    BY <1>2, SessionStill DEF Others, AttachPcs
  <2> QED BY <2>1, <2>2, <2>3 DEF NewIds
<1>3. CASE RequestStep(c) /\ ~AttachStep(c)
  <2>1. OneAtWork' /\ Working(c) /\ Others(c) /\ req[c].pc \notin RestartPcs
    BY <1>3, StepOneAtWork, WorkingStep, StepOthers DEF OneAtWork
  <2>2. \A d \in Client : req'[d].pc # "run.launch"
    BY <1>3, <2>1, StepPcs, LaunchWorks DEF OneAtWork, Others
  <2>3. CASE RunLaunch(c)
    <3>1. req[c].key \in Key /\ req[c].sb \in Record /\ LaunchedAs(req[c].sb.id) = {}
      <4>1. At(c, "run.launch")
        BY <2>3 DEF RunLaunch
      <4> QED BY <4>1, AtOK DEF NoKeyPcs, SbPcs, NewIds
    <3>2. CASE UNCHANGED proc
      BY <2>1, <2>2, <3>2, SameIds DEF NewIds
    <3>3. CASE \E p \in Process : Launch(p, req[c].key, req[c].sb)
      <4>1. IdsApart'
        BY <3>1, <3>3, LaunchApart DEF LaunchedAs
      <4> QED BY <2>1, <2>2, <4>1 DEF NewIds
    <3> QED BY <2>3, <3>2, <3>3 DEF RunLaunch
  <2>4. CASE ~RunLaunch(c)
    BY <1>3, <2>1, <2>2, <2>4, StepProcs, SameProcsFacts DEF NewIds
  <2> QED BY <2>3, <2>4
<1> QED BY <1>1, <1>2, <1>3

LEMMA WatchAlone ==
  ASSUME Types, CopiesOK, AloneInv, NEW p \in Process, WatchStep(p)
  PROVE  AloneInv'
<1> USE DEF AloneInv
<1>1. OneAtWork' /\ \A c \in Client : req'[c].pc # "run.launch"
  BY WatchOneAtWork, WatchBusy, LaunchWorks
<1>2. CASE UNCHANGED proc
  BY <1>1, <1>2, SameIds DEF NewIds
<1>3. CASE WatchRelaunch(p) /\ ~UNCHANGED proc
  <2>1. WAt(p, "backoff")
    BY <1>3 DEF WatchRelaunch
  <2>2. watch[p].key \in Key /\ watch[p].sb \in Record
    BY <2>1, WAtOK DEF CopyPcs
  <2>3. Of(watch[p].sb, watch[p].key)
    BY <2>1 DEF WAt, CopiesOK, WatchCopies, WatchCopy, CopyPcs
  <2>4. \A q \in Process : proc[q].id = watch[p].sb.id => proc[q].key = watch[p].key
    <3>1. Born(watch[p].sb.pid)
      BY <2>2, <2>3, ConstantsAssumption DEF Of, Born, Unborn
    <3> QED BY <2>3, <3>1 DEF Of, IdsApart
  <2>5. \E q \in Process : Launch(q, watch[p].key, watch[p].sb)
    BY <1>3 DEF WatchRelaunch
  <2>6. IdsApart'
    BY <2>2, <2>4, <2>5, LaunchApart
  <2> QED BY <1>1, <2>6 DEF NewIds
<1> QED BY <1>2, <1>3 DEF WatchStep, WatchExit, WatchGet, WatchRestarting, WatchCrashed,
           WatchCrashedClear, WatchRunning, WatchSetHandle, WatchClear, WatchFinal, WatchPut

LEMMA WorldAlone ==
  ASSUME OneByOne, Types, StartInv, AloneInv, Crash \/ Startup \/ \E p \in Process : Exit(p)
  PROVE  AloneInv'
<1>1. SameProcs
  BY DeathSame DEF Crash, Startup, StartLoad, StartReattach, Serve, Reconcile, Reattach, Exit
<1>2. \A c \in Client : req'[c].pc = "run.launch" => req'[c] = req[c]
  <2>1. UNCHANGED req \/ req' = [c \in Client |-> IdleReq]
    BY DEF Crash, Startup, StartLoad, StartReattach, Serve, Reconcile, Reattach, Exit
  <2> QED BY <2>1 DEF IdleReq
<1> QED BY <1>1, <1>2, SameProcsFacts, WorldOneAtWork DEF AloneInv, NewIds

LEMMA AloneNext ==
  ASSUME OneByOne, IInv, AloneInv, [Next]_vars
  PROVE  AloneInv'
<1> USE DEF IInv
<1>1. CASE UNCHANGED vars
  <2>1. UNCHANGED <<proc, req, watch, murod>>
    BY <1>1 DEF vars
  <2> QED BY <2>1 DEF AloneInv, OneAtWork, IdsApart, NewIds, LaunchedAs, Born, Busy, Waits,
                      Alive, Working
<1>2. CASE Next
  BY <1>2, RequestAlone, WatchAlone, WorldAlone DEF Next
<1> QED BY <1>1, <1>2

LEMMA AloneInit == Init => AloneInv
<1> SUFFICES ASSUME Init PROVE AloneInv
  OBVIOUS
<1>1. /\ \A c \in Client : req[c].pc = "idle"
      /\ \A p \in Process : watch[p].pc = "none" /\ proc[p] = Unborn
  BY DEF Init, IdleReq, NoWatch
<1> QED BY <1>1 DEF AloneInv, OneAtWork, Working, Busy, Waits, RestartPcs, IdsApart, Born, NewIds

----------------------------------------------------------------------------
(* RestartBudget.  Only the policy, the count and the id of a record matter. *)

(* What a request copies: only the state, the mounts and the urls differ. *)
Kin(a, b) == /\ b.id = a.id /\ b.pid = a.pid
             /\ b.policy = a.policy /\ b.count = a.count /\ b.git = a.git

LEMMA WithinKin ==
  ASSUME NEW a, NEW b, Within(a), Kin(a, b)
  PROVE  Within(b)
  BY DEF Within, Allowed, Counts, Kin

SameLaunches == \A i : LaunchedAs(i)' = LaunchedAs(i)

WithinStays == \A sb : Within(sb) => Within(sb)'

(* A loop's copy, within the budget as it will be. *)
LaunchesOf(i) == {p \in Process : proc'[p].id = i}
WillBeSpent(w) ==
  /\ Cardinality(LaunchesOf(w.sb.id)) <= 1 + w.sb.count
  /\ w.pc \in {"restarting", "backoff"} => Cardinality(LaunchesOf(w.sb.id)) <= w.sb.count
LoopCopy(w) == w.pc \in CopyPcs => Within(w.sb) /\ WillBeSpent(w)

LEMMA WithinKept ==
  ASSUME BudgetInv, SameProcs
  PROVE  Counted' /\ WithinStays /\ SameLaunches
<1>1. SameLaunches
  BY SameProcsFacts DEF SameLaunches
<1>2. WithinStays
  <2> SUFFICES ASSUME NEW sb, Within(sb) PROVE Within(sb)'
    BY DEF WithinStays
  <2>1. Alive(sb.pid)' => Alive(sb.pid)
    BY DEF Within, SameProcs
  <2>2. Cardinality(LaunchedAs(sb.id))' = Cardinality(LaunchedAs(sb.id))
    BY <1>1 DEF SameLaunches
  <2> QED BY <2>1, <2>2 DEF Within, Allowed, Counts, SameProcs
<1> QED BY <1>1, <1>2 DEF BudgetInv, Counted, SameLaunches

(* A step that leaves within the budget what is, and puts back what is. *)
LEMMA BudgetFrame ==
  ASSUME BudgetInv, Counted', WithinStays,
         \A k \in Key : store'[k] \in {None, store[k], disk[k]} \/ Within(store'[k]),
         UNCHANGED disk \/ disk' = store',
         \A c \in Client : req'[c] = req[c] \/ ReqWithin(req'[c]) \/ ReqWithin(req[c])',
         \A p \in Process : LoopCopy(watch'[p])
  PROVE  BudgetInv'
<1>1. StoreWithin'
  <2> SUFFICES ASSUME NEW k \in Key
               PROVE  /\ store'[k] # None => Within(store[k])'
                      /\ disk'[k] # None => Within(disk[k])'
    BY DEF StoreWithin
  <2>1. \A sb : sb = store'[k] /\ sb # None => Within(sb)'
    BY DEF BudgetInv, StoreWithin, WithinStays
  <2>2. \A sb : sb = disk'[k] /\ sb # None => Within(sb)'
    BY <2>1 DEF BudgetInv, StoreWithin, WithinStays
  <2> QED BY <2>1, <2>2 DEF Within, Allowed, Counts, LaunchedAs, Alive
<1>2. ReqsWithin'
  <2> SUFFICES ASSUME NEW c \in Client PROVE ReqWithin(req[c])'
    BY DEF ReqsWithin
  <2>1. PICK r : r = req'[c]
    OBVIOUS
  <2>2. ReqWithin(r) \/ ReqWithin(req[c])'
    BY <2>1 DEF BudgetInv, ReqsWithin
  <2>3. ReqWithin(r) => ReqWithin(r)'
    BY DEF ReqWithin, WithinStays, Allowed
  <2> QED BY <2>1, <2>2, <2>3 DEF ReqWithin, Within, Allowed, Counts, LaunchedAs, Alive
<1>3. LoopsWithin'
  <2> SUFFICES ASSUME NEW p \in Process
               PROVE  /\ watch'[p].pc \in CopyPcs => Within(watch[p].sb)'
                      /\ Spent(watch[p])'
    BY DEF LoopsWithin
  <2>1. watch'[p].pc \in CopyPcs => \A sb : sb = watch'[p].sb => Within(sb)'
    BY DEF WithinStays, LoopCopy
  <2>2. watch'[p].pc \in CopyPcs => Within(watch[p].sb)'
    BY <2>1 DEF Within, Allowed, Counts, LaunchedAs, Alive
  <2>3. watch'[p].pc \notin CopyPcs => Spent(watch[p])'
    BY DEF Spent, CopyPcs
  <2>4. watch'[p].pc \in CopyPcs => Spent(watch[p])'
    <3>1. LoopCopy(watch'[p])
      OBVIOUS
    <3> QED BY <2>4, <3>1 DEF LoopCopy, WillBeSpent, Spent, Counts, LaunchesOf, LaunchedAs
  <2> QED BY <2>2, <2>3, <2>4
<1> QED BY <1>1, <1>2, <1>3 DEF BudgetInv

LEMMA LaunchesSame ==
  ASSUME SameLaunches
  PROVE  \A i : LaunchesOf(i) = LaunchedAs(i)
  BY DEF SameLaunches, LaunchesOf, LaunchedAs

LEMMA CopyStill ==
  ASSUME SameLaunches, NEW w, w.pc \in CopyPcs => Within(w.sb), Spent(w)
  PROVE  LoopCopy(w)
  BY LaunchesSame DEF LoopCopy, WillBeSpent, Spent, Counts

LEMMA CopyBusy ==
  ASSUME NEW p \in Process, watch[p].pc \in CopyPcs
  PROVE  Busy(p)
  BY DEF CopyPcs, Busy, Waits

LEMMA SessionBudget ==
  ASSUME Types, BudgetInv, NEW c \in Client, AttachStep(c) \/ SessionEnd(c)
  PROVE  BudgetInv'
<1>1. /\ SameProcs /\ UNCHANGED <<store, disk, watch>>
      /\ \A d \in Client : req'[d] = req[d] \/ ReqWithin(req'[d])
  BY SessionStill, DeathSame
     DEF storeVars, Others, ReqWithin, AttachPcs, SbPcs, UpdatePcs
<1>2. \A p \in Process : LoopCopy(watch'[p])
  BY <1>1, WithinKept, CopyStill DEF BudgetInv, LoopsWithin
<1> QED BY <1>1, <1>2, WithinKept, BudgetFrame
----------------------------------------------------------------------------
(* What a request at work does to the records it has copies of. *)

LEMMA StepCopies ==
  ASSUME Types, NEW c \in Client, RequestStep(c), req[c].pc \notin RestartPcs, ~RunLaunch(c)
  PROVE  /\ req'[c].pc \in SbPcs => req[c].pc \in SbPcs /\ Kin(req[c].sb, req'[c].sb)
         /\ req'[c].pc \in UpdatePcs =>
              /\ req[c].pc \in UpdatePcs
              /\ \A k \in Key : req'[c].todo[k] \in {None, req[c].todo[k]}
<1> DEFINE Goal == /\ req'[c].pc \in SbPcs => req[c].pc \in SbPcs /\ Kin(req[c].sb, req'[c].sb)
                   /\ req'[c].pc \in UpdatePcs =>
                        /\ req[c].pc \in UpdatePcs
                        /\ \A k \in Key : req'[c].todo[k] \in {None, req[c].todo[k]}
<1> SUFFICES Goal
  OBVIOUS
<1>1. CASE Done(c)
  BY <1>1, MoveFacts DEF SbPcs, UpdatePcs
<1>2. ASSUME NEW pc, Carries(c, pc), pc \in SbPcs => req[c].pc \in SbPcs,
             pc \in UpdatePcs => req[c].pc \in UpdatePcs
      PROVE  Goal
  BY <1>2 DEF Carries, Kin
<1>3. CASE ~Done(c) /\ UpdatePut(c)
  <2>1. Carries(c, "update.proxy")
    BY <1>3, CarryFacts DEF UpdatePut
  <2> QED BY <1>2, <1>3, <2>1 DEF UpdatePut, At, SbPcs, UpdatePcs
<1>4. CASE ~Done(c) /\ UpdateProxy(c)
  <2>1. req' = [req EXCEPT ![c].pc = "update.put",
                           ![c].todo = [req[c].todo EXCEPT ![req[c].key] = None]]
    BY <1>4 DEF UpdateProxy
  <2>2. /\ req'[c].pc = "update.put"
        /\ \A k \in Key : req'[c].todo[k] \in {None, req[c].todo[k]}
    BY <2>1 DEF Types, ReqsOK, ReqType, Todo
  <2> QED BY <1>4, <2>2 DEF UpdateProxy, At, SbPcs, UpdatePcs
<1>5. CASE ~Done(c) /\ (RunPut(c) \/ RunSetHandle(c))
  <2>1. \E pc \in {"run.sethandle", "run.undo", "run.watch"} : Carries(c, pc)
    BY <1>5, CarryFacts DEF RunPut, RunSetHandle
  <2>2. req[c].pc \in {"run.put", "run.sethandle"}
    BY <1>5 DEF RunPut, RunSetHandle, At
  <2> QED BY <1>2, <2>1, <2>2 DEF SbPcs, UpdatePcs
<1>6. CASE ~Done(c) /\ (StopPut(c) \/ StopHandle(c) \/ StopClear(c))
  <2>1. \E pc \in {"stop.handle", "stop.clear", "stop.kill"} : Carries(c, pc)
    BY <1>6, CarryFacts DEF StopPut, StopHandle, StopClear
  <2>2. req[c].pc \in {"stop.put", "stop.handle", "stop.clear"}
    BY <1>6 DEF StopPut, StopHandle, StopClear, At
  <2> QED BY <1>2, <2>1, <2>2 DEF SbPcs, UpdatePcs
<1>7. CASE ~Done(c) /\ (AttachTry(c) \/ AttachHandle(c) \/ AttachDial(c))
  <2>1. \E pc \in {"attach.handle", "attach.dial", "attached", "attach.detach"} : Carries(c, pc)
    BY <1>7, CarryFacts DEF AttachTry, AttachHandle, AttachDial
  <2> QED BY <1>2, <2>1 DEF SbPcs, UpdatePcs
<1>8. CASE ~Done(c) /\ ReloadHandle(c)
  <2>1. At(c, "reload.handle")
    BY <1>8 DEF ReloadHandle
  <2>2. req[c].sb \in Record
    BY <2>1, AtOK DEF SbPcs
  <2>3. PICK s : req' = [req EXCEPT ![c].pc = "reload.put", ![c].sb.state = s]
    BY <1>8 DEF ReloadHandle
  <2>4. req'[c].pc = "reload.put" /\ Kin(req[c].sb, req'[c].sb)
    BY <2>2, <2>3 DEF Types, ReqsOK, ReqType, Record, Kin
  <2> QED BY <2>1, <2>4 DEF At, SbPcs, UpdatePcs
<1>9. ~RestartHandle(c) /\ ~RestartClear(c) /\ ~RestartKill(c) /\ ~RestartLaunch(c)
      /\ ~RestartCrashed(c) /\ ~RestartPut(c) /\ ~RestartProxy(c) /\ ~RestartWatch(c)
  BY DEF RestartHandle, RestartClear, RestartKill, RestartLaunch, RestartCrashed, RestartPut,
         RestartProxy, RestartWatch, At, RestartPcs
<1> HIDE DEF Goal
<1> QED BY <1>1, <1>3, <1>4, <1>5, <1>6, <1>7, <1>8, <1>9
        DEF RequestStep, RunUndo, RunWatch, ReloadPut, StopKill, DeleteStore, MergePut,
            AttachDetach

LEMMA SetRows ==
  ASSUME Types, NEW k, NEW sb, Set(k, sb)
  PROVE  \A l \in Key : store'[l] = store[l] \/ (l = k /\ store'[l] = sb)
  BY DEF Types, StoreOK, Set

(* What it puts is its copy. *)
StepStored(c, l) ==
  \/ store'[l] \in {None, store[l]}
  \/ req[c].pc \in SbPcs /\ store'[l] = req[c].sb /\ l = req[c].key
  \/ req[c].pc \in UpdatePcs /\ store'[l] = req[c].todo[l]

LEMMA StepStores ==
  ASSUME Types, NEW c \in Client, RequestStep(c), req[c].pc \notin RestartPcs
  PROVE  /\ \A l \in Key : StepStored(c, l)
         /\ UNCHANGED disk \/ disk' = store'
<1>1. CASE RunPut(c) \/ ReloadPut(c) \/ StopPut(c) \/ MergePut(c)
  <2>1. Set(req[c].key, req[c].sb) /\ (Persist \/ NotPersisted)
    BY <1>1 DEF RunPut, ReloadPut, StopPut, MergePut
  <2>2. req[c].pc \in SbPcs
    BY <1>1 DEF RunPut, ReloadPut, StopPut, MergePut, At, SbPcs
  <2> QED BY <2>1, <2>2, SetRows DEF Persist, NotPersisted, StepStored
<1>2. CASE DeleteStore(c)
  BY <1>2, SetRows DEF DeleteStore, Persist, NotPersisted, StepStored
<1>3. CASE UpdatePut(c)
  <2>1. PICK k \in Key : Set(k, req[c].todo[k]) /\ (Persist \/ NotPersisted)
    BY <1>3 DEF UpdatePut
  <2>2. req[c].pc \in UpdatePcs
    BY <1>3 DEF UpdatePut, At, UpdatePcs
  <2> QED BY <2>1, <2>2, SetRows DEF Persist, NotPersisted, StepStored
<1>4. CASE ~RunPut(c) /\ ~ReloadPut(c) /\ ~StopPut(c) /\ ~MergePut(c) /\ ~DeleteStore(c)
           /\ ~UpdatePut(c)
  <2>1. ~RestartCrashed(c) /\ ~RestartPut(c)
    BY DEF RestartCrashed, RestartPut, At, RestartPcs
  <2>2. UNCHANGED storeVars
    BY <1>4, <2>1 DEF RequestStep, RunLaunch, RunUndo, RunSetHandle, RunWatch,
         UpdateProxy, ReloadHandle, RestartHandle, RestartClear, RestartKill,
         RestartLaunch, RestartProxy, RestartWatch, StopHandle, StopClear, StopKill,
         AttachTry, AttachHandle, AttachDial, AttachDetach
  <2> QED BY <2>2 DEF storeVars, StepStored
<1> QED BY <1>1, <1>2, <1>3, <1>4

(* No loop has a copy of a record after a step of a request. *)
LEMMA StepNoCopies ==
  ASSUME Types, OneAtWork, NEW c \in Client, RequestStep(c), Working(c)
  PROVE  \A p \in Process : watch'[p].pc \notin CopyPcs
<1>1. req[c].pc \notin RestartPcs /\ \A p \in Process : watch[p].pc \notin CopyPcs
  BY CopyBusy DEF OneAtWork
<1>2. CASE RunWatch(c)
  <2>1. PICK q, k, e : watch' = [watch EXCEPT ![q] = Watching(k, e)]
    BY <1>2 DEF RunWatch
  <2> QED BY <1>1, <2>1 DEF Types, WatchesOK, Watching, NoWatch, CopyPcs
<1> QED BY <1>1, <1>2, StepProcs

LEMMA NotLaunching ==
  ASSUME NEW c \in Client, RequestStep(c), ~RunLaunch(c)
  PROVE  req[c].pc # "run.launch"
  BY DEF RequestStep, At, RunPut, RunUndo, RunSetHandle, RunWatch, UpdatePut, UpdateProxy,
         ReloadHandle, ReloadPut, RestartHandle, RestartClear, RestartKill, RestartLaunch,
         RestartCrashed, RestartPut, RestartProxy, RestartWatch, StopPut, StopHandle, StopClear,
         StopKill, DeleteStore, MergePut, AttachTry, AttachHandle, AttachDial, AttachDetach

LEMMA StepBudget ==
  ASSUME Types, AloneInv, BudgetInv, NEW c \in Client, RequestStep(c), Working(c), ~RunLaunch(c)
  PROVE  BudgetInv'
<1>1. req[c].pc \notin RestartPcs /\ ReqWithin(req[c])
  BY DEF AloneInv, OneAtWork, BudgetInv, ReqsWithin
<1>0. req[c].pc # "run.launch" => (req[c].pc \in SbPcs => Within(req[c].sb))
  BY <1>1 DEF ReqWithin
<1>2. SameProcs
  BY <1>1, StepProcs
<1>3. /\ \A k \in Key : store'[k] \in {None, store[k], disk[k]} \/ Within(store'[k])
      /\ UNCHANGED disk \/ disk' = store'
  BY <1>0, <1>1, StepStores, NotLaunching DEF StepStored, ReqWithin
<1>4. ReqWithin(req'[c])
  <2>0. req'[c].pc # "run.launch"
    BY <1>1, StepPcs
  <2>1. req'[c].pc \in SbPcs => Within(req'[c].sb)
    BY <1>0, <1>1, StepCopies, NotLaunching, WithinKin
  <2>2. req'[c].pc \in UpdatePcs => \A k \in Key : req'[c].todo[k] # None => Within(req'[c].todo[k])
    BY <1>1, StepCopies DEF ReqWithin
  <2> QED BY <2>0, <2>1, <2>2 DEF ReqWithin
<1>5. \A d \in Client : req'[d] = req[d] \/ ReqWithin(req'[d])
  BY <1>4, StepOthers DEF Others
<1> QED BY <1>2, <1>3, <1>5, WithinKept, StepNoCopies, BudgetFrame DEF AloneInv, LoopCopy

LEMMA RunLaunchBudget ==
  ASSUME Types, AloneInv, BudgetInv, NEW c \in Client, RunLaunch(c)
  PROVE  BudgetInv'
<1>1. At(c, "run.launch")
  BY DEF RunLaunch
<1>2. /\ req[c].key \in Key /\ req[c].sb \in Record /\ Allowed(req[c].sb)
      /\ LaunchedAs(req[c].sb.id) = {}
  BY <1>1, AtOK DEF NoKeyPcs, SbPcs, AloneInv, NewIds, BudgetInv, ReqsWithin, ReqWithin
<1>3. /\ Others(c)
      /\ \A k \in Key : store'[k] \in {None, store[k], disk[k]} \/ Within(store'[k])
      /\ UNCHANGED disk \/ disk' = store'
  BY StepOthers DEF RequestStep, RunLaunch, storeVars
<1>4. \A p \in Process : watch'[p].pc \notin CopyPcs
  BY <1>1, LaunchWorks, StepNoCopies DEF At, AloneInv, RequestStep
<1>5. CASE Done(c) /\ UNCHANGED proc
  <2>1. Counted' /\ WithinStays
    BY <1>5, DeathSame, WithinKept
  <2>2. \A d \in Client : req'[d] = req[d] \/ ReqWithin(req'[d])
    BY <1>3, <1>5, MoveFacts DEF Others, ReqWithin, SbPcs, UpdatePcs
  <2> QED BY <1>3, <1>4, <2>1, <2>2, BudgetFrame DEF LoopCopy
<1>0. PICK sb : sb = req[c].sb
  OBVIOUS
<1>6. ASSUME NEW p \in Process, Launch(p, req[c].key, req[c].sb),
             req' = [req EXCEPT ![c].pc = "run.put", ![c].new = p,
                                ![c].sb = captureHandleInfo(req[c].sb, p)]
      PROVE  BudgetInv'
  <2>0. sb \in Record /\ LaunchedAs(sb.id) = {} /\ Launch(p, req[c].key, sb)
    BY <1>0, <1>2, <1>6
  <2>1. /\ \A i : i = sb.id => LaunchedAs(i)' = {p}
        /\ \A i : i # sb.id /\ i # None => LaunchedAs(i)' = LaunchedAs(i)
    <3>1. /\ LaunchedAs(sb.id)' = LaunchedAs(sb.id) \cup {p}
          /\ \A i : i # sb.id /\ i # None => LaunchedAs(i)' = LaunchedAs(i)
      BY <1>2, <2>0, LaunchAdds
    <3>2. LaunchedAs(sb.id)' = {p}
      BY <2>0, <3>1
    <3> QED BY <3>1, <3>2 DEF LaunchedAs
  <2>2. IsFiniteSet({p}) /\ Cardinality({p}) = 1
    BY FS_Singleton
  <2>3. Counted'
    <3>1. \A i \in Id : i # sb.id => LaunchedAs(i)' = LaunchedAs(i)
      BY <2>1, ConstantsAssumption
    <3> QED BY <2>1, <2>2, <3>1, ConstantsAssumption DEF BudgetInv, Counted
  <2>4. WithinStays
    <3> SUFFICES ASSUME NEW a, Within(a) PROVE Within(a)'
      BY DEF WithinStays
    <3>1. a.id # sb.id /\ a.pid # p /\ a.id \in Id /\ a.pid \in Process
      <4>1. proc[p].id = None /\ a.id \in Id /\ a.pid \in LaunchedAs(a.id)
        BY <2>0 DEF Launch, Unborn, Within, Allowed, LaunchedAs
      <4> QED BY <2>0, <4>1, ConstantsAssumption DEF LaunchedAs
    <3>2. proc'[a.pid] = proc[a.pid] /\ LaunchedAs(a.id)' = LaunchedAs(a.id)
      BY <1>2, <2>0, <2>1, <3>1, LaunchAdds, ConstantsAssumption
    <3> QED BY <3>2 DEF Within, Allowed, Counts, Alive
  <2>5. ReqWithin(req[c])'
    <3>0. PICK b : b = captureHandleInfo(req[c].sb, p)
      OBVIOUS
    <3>1. req'[c].pc = "run.put" /\ req'[c].sb = b
      BY <1>6, <3>0 DEF Types, ReqsOK, ReqType
    <3>2. b.id = sb.id /\ b.pid = p /\ b.policy = sb.policy /\ b.count = sb.count
      BY <1>0, <1>2, <3>0 DEF captureHandleInfo, Record
    <3>3. Allowed(b) /\ 1 <= 1 + b.count
      BY <1>0, <1>2, <3>2, ConstantsAssumption DEF Allowed
    <3>4. proc'[p].id = b.id
      BY <1>2, <2>0, <3>2, LaunchAdds
    <3>5. \A i : i = b.id => Cardinality(LaunchedAs(i))' = 1
      BY <2>1, <2>2, <3>2
    <3>6. \A x : x = b => Within(x)'
      BY <3>2, <3>3, <3>4, <3>5 DEF Within, Allowed, Counts
    <3>7. Within(req[c].sb)'
      BY <3>1, <3>6 DEF Within, Allowed, Counts, LaunchedAs, Alive
    <3> QED BY <3>1, <3>7 DEF ReqWithin, UpdatePcs
  <2>6. \A d \in Client : req'[d] = req[d] \/ ReqWithin(req[d])'
    BY <1>3, <2>5 DEF Others
  <2> QED BY <1>3, <1>4, <2>3, <2>4, <2>6, BudgetFrame DEF LoopCopy
<1> QED BY <1>5, <1>6 DEF RunLaunch

(* What a request begins with is stored, or new. *)
LEMMA BeginBudget ==
  ASSUME OneByOne, Limited, Types, AloneInv, BudgetInv, NEW c \in Client, RequestBegin(c)
  PROVE  BudgetInv'
<1>1. /\ Others(c) /\ SameProcs /\ UNCHANGED <<store, disk, watch>>
      /\ \A p \in Process : watch'[p].pc \notin CopyPcs
  <2>1. \A p \in Process : watch[p].pc \notin CopyPcs
    BY BeginFree, CopyBusy
  <2> QED BY <2>1, BeginFree, BeginOneAtWork, DeathSame DEF AloneInv, storeVars
<1> SUFFICES ReqWithin(req'[c])
  BY <1>1, WithinKept, BudgetFrame DEF Others, LoopCopy
<1>2. ASSUME NEW k, NEW pc \in SbPcs, NEW sb, Open(c, pc, k, sb, None),
             Within(sb) \/ (pc = "run.launch" /\ Allowed(sb))
      PROVE  ReqWithin(req'[c])
  BY <1>2, OpenRow DEF ReqWithin, SbPcs, UpdatePcs, Within
<1>3. ASSUME NEW k \in Key, store[k] # None
      PROVE  store[k] \in Record /\ Within(store[k])
  BY <1>3, OrNoneElim DEF Types, StoreOK, BudgetInv, StoreWithin
<1>4. CASE UpdateBegin(c)
  <2>1. PICK d \in Delta,
             targets \in {{k} : k \in Key} \cup
                       {{k \in Key : store[k] # None /\ isActive(store[k].state)}} :
          /\ \A k \in targets : store[k] # None
          /\ req' = [req EXCEPT ![c] =
               [IdleReq EXCEPT !.pc = "update.put", !.arg = d,
                  !.todo = [k \in Key |-> IF k \in targets
                                          THEN Candidate(store[k], d) ELSE None]]]
    BY <1>4 DEF UpdateBegin
  <2>0. targets \subseteq Key
    OBVIOUS
  <2>2. /\ req'[c].pc = "update.put"
        /\ \A k \in Key : req'[c].todo[k] = IF k \in targets
                                            THEN Candidate(store[k], d) ELSE None
    BY <2>1 DEF Types, ReqsOK, IdleReq
  <2>3. ASSUME NEW k \in targets
        PROVE  Within(Candidate(store[k], d))
    <3>1. store[k] \in Record /\ Within(store[k])
      BY <1>3, <2>0, <2>1, <2>3
    <3>2. Kin(store[k], Candidate(store[k], d))
      BY <3>1 DEF Candidate, Record, Kin
    <3> QED BY <3>1, <3>2, WithinKin
  <2> QED BY <2>2, <2>3 DEF ReqWithin, SbPcs
<1>5. ASSUME NEW k \in Key, RunCheck(c, k) PROVE ReqWithin(req'[c])
  <2>1. PICK pf \in Profile, id \in Id :
          /\ NewID(id)
          /\ Open(c, "run.launch", k,
                  [state |-> "running", id |-> id, pid |-> None, count |-> 0,
                   policy |-> pf.policy, mounts |-> pf.mounts,
                   urls |-> pf.urls, git |-> pf.git], None)
    BY <1>5 DEF RunCheck
  <2> DEFINE sb == [state |-> "running", id |-> id, pid |-> None, count |-> 0,
                    policy |-> pf.policy, mounts |-> pf.mounts,
                    urls |-> pf.urls, git |-> pf.git]
  <2>3. Allowed(sb)
    BY ConstantsAssumption DEF Allowed, Limited
  <2> HIDE DEF sb
  <2> QED BY <1>2, <2>1, <2>3 DEF SbPcs, sb
<1>6. ASSUME NEW k \in Key, ReloadGet(c, k) \/ DeleteGet(c, k) PROVE ReqWithin(req'[c])
  BY <1>2, <1>3, <1>6 DEF ReloadGet, DeleteGet, SbPcs
<1>7. ASSUME NEW k \in Key, StopGet(c, k) PROVE ReqWithin(req'[c])
  <2>1. store[k] \in Record /\ Within(store[k])
    BY <1>3, <1>7 DEF StopGet
  <2>2. Within([store[k] EXCEPT !.state = "stopped"])
    <3>1. Kin(store[k], [store[k] EXCEPT !.state = "stopped"])
      BY <2>1 DEF Record, Kin
    <3> QED BY <2>1, <3>1, WithinKin
  <2> QED BY <1>2, <1>7, <2>2 DEF StopGet, SbPcs
<1>8. ASSUME NEW k \in Key, MergeGet(c, k) PROVE ReqWithin(req'[c])
  <2>1. store[k] \in Record /\ Within(store[k])
    BY <1>3, <1>8 DEF MergeGet
  <2>2. PICK wt :
          Open(c, "merge.put", k,
               [store[k] EXCEPT !.mounts = @ \ {wt},
                  !.state = IF isActive(@) THEN "reload-pending" ELSE @], None)
    BY <1>8 DEF MergeGet
  <2>3. Within([store[k] EXCEPT !.mounts = @ \ {wt},
                  !.state = IF isActive(@) THEN "reload-pending" ELSE @])
    <3>1. Kin(store[k], [store[k] EXCEPT !.mounts = @ \ {wt},
                  !.state = IF isActive(@) THEN "reload-pending" ELSE @])
      BY <2>1 DEF Record, Kin
    <3> QED BY <2>1, <3>1, WithinKin
  <2> QED BY <1>2, <2>2, <2>3 DEF SbPcs
<1>9. ASSUME NEW k \in Key, AttachGet(c, k) PROVE ReqWithin(req'[c])
  BY <1>9, OpenRow DEF AttachGet, ReqWithin, SbPcs, UpdatePcs
<1> QED BY <1>4, <1>5, <1>6, <1>7, <1>8, <1>9, BeginFree DEF RequestBegin

(* A step of the loop that is busy, which launches nothing. *)
LEMMA LoopBudget ==
  ASSUME Types, OneAtWork, BudgetInv, NEW p \in Process, WatchStep(p),
         \A q \in Process \ {p} : watch'[q].pc \notin CopyPcs,
         UNCHANGED proc,
         \A k \in Key : store'[k] = store[k] \/ Within(store'[k]),
         UNCHANGED disk \/ disk' = store',
         LoopCopy(watch'[p])
  PROVE  BudgetInv'
<1>1. \A q \in Process : LoopCopy(watch'[q])
  <2> SUFFICES ASSUME NEW q \in Process PROVE LoopCopy(watch'[q])
    OBVIOUS
  <2>1. CASE q = p
    BY <2>1
  <2>2. CASE q # p
    BY <2>2 DEF LoopCopy
  <2> QED BY <2>1, <2>2
<1>2. Counted' /\ WithinStays /\ \A c \in Client : req'[c] = req[c]
  BY WatchBusy, DeathSame, WithinKept
<1> QED BY <1>1, <1>2, BudgetFrame

(* Its copy is the only one. *)
LEMMA LoopOnly ==
  ASSUME Types, OneAtWork, NEW p \in Process, WatchStep(p)
  PROVE  /\ \A q \in Process \ {p} : watch'[q].pc \notin CopyPcs
         /\ \A c \in Client : req'[c].pc \notin SbPcs \cup UpdatePcs
<1>1. \A q \in Process \ {p} : watch[q].pc \notin CopyPcs
  BY WatchBusy, CopyBusy
<1>2. CASE WatchSetHandle(p)
  <2>1. PICK q, k, e : watch' = [watch EXCEPT ![p] = NoWatch, ![q] = Watching(k, e)]
    BY <1>2 DEF WatchSetHandle
  <2>2. Watching(k, e).pc = "wait"
    BY DEF Watching, NoWatch
  <2>3. \A r \in Process \ {p} : watch'[r] \in {watch[r], Watching(k, e)}
    BY <2>1 DEF Types, WatchesOK
  <2> QED BY <1>1, <2>2, <2>3, WatchBusy DEF CopyPcs, Working, SbPcs, UpdatePcs, AttachPcs
<1>3. CASE ~WatchSetHandle(p)
  BY <1>1, <1>3, WatchOnwards, WatchBusy DEF Working, SbPcs, UpdatePcs, AttachPcs
<1> QED BY <1>2, <1>3

(* What a loop finds on record, after the exit of its process, counts every
   launch, and nothing else lives under the record's id. *)
LEMMA GetTells ==
  ASSUME Types, AloneInv, Handled, LifeInv, NEW p \in Process, WatchGet(p),
         store[watch[p].key] # None
  PROVE  Counts(store[watch[p].key]) /\ NoneAs(store[watch[p].key].id)
<1>1. WAt(p, "get") /\ watch[p].key \in Key
  BY WAtOK DEF WatchGet
<1>2. handles[watch[p].key] = p /\ p # None
  BY <1>1, ConstantsAssumption DEF WAt, Waits, Handled, LoopInHand, InHand
<1>3. Dead(p) /\ ~Alive(p)
  BY <1>1 DEF WAt, LifeInv, LoopsTell, LoopTells, Dead, Alive
<1>4. ~Settling(watch[p].key)
  <2>1. \A c \in Client : req[c].pc \notin Placing
    BY WatchBusy DEF WatchStep, AloneInv, Working, Placing, AttachPcs
  <2>2. \A q \in Process : watch[q].pc \notin HeirPcs
    <3>1. \A q \in Process \ {p} : ~Busy(q)
      BY WatchBusy DEF WatchStep, AloneInv
    <3> QED BY <1>1, <3>1 DEF Busy, Waits, HeirPcs, WAt
  <2> QED BY <2>1, <2>2 DEF Settling
<1>5. Tells(store[watch[p].key], p)
  BY <1>1, <1>2, <1>4 DEF LifeInv, StoreTells
<1> QED BY <1>3, <1>5 DEF Tells, OnlyAs, NoneAs

(* A copy that differs in its state from one that counts. *)
LEMMA CopyCounts ==
  ASSUME SameLaunches, NEW a, NEW b, NEW pc, Within(a), Counts(a), Kin(a, b),
         NEW w, w.pc = pc, w.sb = b, pc \notin {"restarting", "backoff"}
  PROVE  LoopCopy(w)
<1>1. Within(b) /\ Counts(b)
  BY WithinKin DEF Counts, Kin
<1> QED BY <1>1, LaunchesSame DEF LoopCopy, WillBeSpent, Counts

LEMMA WatchGetBudget ==
  ASSUME Types, AloneInv, Handled, LifeInv, BudgetInv, NEW p \in Process, WatchGet(p)
  PROVE  BudgetInv'
<1>1. WAt(p, "get") /\ watch[p].key \in Key
  BY WAtOK DEF WatchGet
<1>2. UNCHANGED <<store, disk, proc>>
  BY DEF WatchGet, storeVars
<1>3. SameLaunches
  BY <1>2, DeathSame, WithinKept
<1>4. LoopCopy(watch'[p])
  <2>0. PICK sb : sb = store[watch[p].key]
    OBVIOUS
  <2>1. CASE WDone(p)
    BY <2>1 DEF WDone, Types, WatchesOK, NoWatch, CopyPcs, LoopCopy
  <2>2. ASSUME sb # None PROVE sb \in Record /\ Within(sb) /\ Counts(sb)
    BY <1>1, <2>0, <2>2, OrNoneElim, GetTells DEF Types, StoreOK, BudgetInv, StoreWithin
  <2>3. ASSUME sb # None, NEW st, watch' = [watch EXCEPT ![p].pc = "clear", ![p].sb =
                                     [sb EXCEPT !.state = st]]
        PROVE  LoopCopy(watch'[p])
    <3>1. Kin(sb, [sb EXCEPT !.state = st])
      BY <2>2, <2>3 DEF Record, Kin
    <3>2. watch'[p].pc = "clear" /\ watch'[p].sb = [sb EXCEPT !.state = st]
      BY <2>3 DEF Types, WatchesOK, WatchType
    <3> QED BY <1>3, <2>2, <2>3, <3>1, <3>2, CopyCounts
  <2>4. ASSUME sb # None, shouldRestart(sb, proc[p].st = "clean"),
               watch' = [watch EXCEPT ![p].pc = "restarting", ![p].sb =
                           [sb EXCEPT !.count = @ + 1, !.state = "restarting"]]
        PROVE  LoopCopy(watch'[p])
    <3>0. PICK b : b = [sb EXCEPT !.count = @ + 1, !.state = "restarting"]
      OBVIOUS
    <3>1. sb.count < MaxRestart /\ sb.count \in 0 .. MaxRestart /\ sb.id \in Id
      BY <2>2, <2>4 DEF shouldRestart, Within, Allowed
    <3>2. /\ b.id = sb.id /\ b.policy = sb.policy /\ b.count = sb.count + 1 /\ b.pid = sb.pid
      BY <2>2, <2>4, <3>0 DEF Record
    <3>3. PICK n : n = Cardinality(LaunchedAs(sb.id))
      OBVIOUS
    <3>4. n \in Nat /\ n <= 1 + sb.count
      BY <2>2, <2>4, <3>1, <3>3, FS_CardinalityType DEF BudgetInv, Counted, Counts
    <3>5. n <= b.count /\ n <= 1 + b.count /\ b.count \in 0 .. MaxRestart
      BY <3>1, <3>2, <3>4, ConstantsAssumption
    <3>6. Within(b)
      BY <2>2, <2>4, <3>2, <3>3, <3>5 DEF Within, Allowed, Counts
    <3>7. watch'[p].pc = "restarting" /\ watch'[p].sb = b
      BY <2>4, <3>0 DEF Types, WatchesOK, WatchType
    <3>8. Cardinality(LaunchesOf(b.id)) = n
      BY <1>3, <3>2, <3>3, LaunchesSame
    <3> QED BY <3>5, <3>6, <3>7, <3>8 DEF LoopCopy, WillBeSpent
  <2> QED BY <2>0, <2>1, <2>3, <2>4 DEF WatchGet
<1> QED BY <1>2, <1>4, LoopOnly, LoopBudget DEF AloneInv, WatchStep

(* The copies of one id are of one sandbox. *)
LEMMA CopyKeys ==
  ASSUME IdsApart, NEW a, NEW k \in Key, Of(a, k), NEW b, NEW l \in Key, Of(b, l), a.id = b.id
  PROVE  k = l
<1>1. Born(a.pid)
  BY ConstantsAssumption DEF Of, Born, Unborn
<1> QED BY <1>1 DEF Of, IdsApart

PutGoes(p, from) == /\ WatchPut(p, from)
                    /\ \/ WDone(p)
                       \/ from = "restarting" /\ WGoto(p, "backoff")
                       \/ WGoto(p, "crashed.clear") \/ WGoto(p, "sethandle")

LEMMA WatchPutBudget ==
  ASSUME Types, AloneInv, BudgetInv, NEW p \in Process,
         NEW from \in CopyPcs, PutGoes(p, from), WatchStep(p)
  PROVE  BudgetInv'
<1>1. WAt(p, from) /\ watch[p].key \in Key /\ watch[p].sb \in Record
  BY WAtOK DEF PutGoes, WatchPut, CopyPcs
<1>2. Within(watch[p].sb) /\ Spent(watch[p]) /\ Counts(watch[p].sb)
  BY <1>1 DEF WAt, BudgetInv, LoopsWithin, Spent
<1>3. /\ UNCHANGED proc /\ (UNCHANGED disk \/ disk' = store')
      /\ \A k \in Key : store'[k] = store[k] \/ store'[k] = watch[p].sb
  BY SetRows DEF PutGoes, WatchPut, Persist, NotPersisted
<1>4. SameLaunches
  BY <1>3, DeathSame, WithinKept
<1>5. LoopCopy(watch'[p])
  <2>1. CASE WDone(p)
    BY <2>1 DEF WDone, Types, WatchesOK, NoWatch, CopyPcs, LoopCopy
  <2>2. ASSUME NEW pc, WGoto(p, pc), pc = "backoff" => from = "restarting", pc # "restarting"
        PROVE  LoopCopy(watch'[p])
    <3>1. watch'[p].sb = watch[p].sb /\ watch'[p].pc = pc
      BY <2>2 DEF WGoto, Types, WatchesOK, WatchType
    <3>2. PICK sb : sb = watch[p].sb
      OBVIOUS
    <3>3. Cardinality(LaunchesOf(sb.id)) <= 1 + sb.count
      BY <1>2, <1>4, <3>2, LaunchesSame DEF Counts
    <3>4. pc = "backoff" => Cardinality(LaunchesOf(sb.id)) <= sb.count
      BY <1>1, <1>2, <1>4, <2>2, <3>2, LaunchesSame DEF Spent, WAt
    <3> QED BY <1>2, <2>2, <3>1, <3>2, <3>3, <3>4 DEF LoopCopy, WillBeSpent
  <2> QED BY <2>1, <2>2 DEF PutGoes
<1> QED BY <1>2, <1>3, <1>5, LoopOnly, LoopBudget DEF AloneInv

LEMMA RelaunchBudget ==
  ASSUME Types, CopiesOK, AloneInv, LifeInv, BudgetInv, NEW p \in Process, WatchRelaunch(p)
  PROVE  BudgetInv'
<1>0. WAt(p, "backoff")
  BY DEF WatchRelaunch
<1>1. WAt(p, "backoff") /\ watch[p].key \in Key /\ watch[p].sb \in Record
  BY <1>0, WAtOK DEF CopyPcs
<1>2. PICK sb : sb = watch[p].sb
  OBVIOUS
<1>3. /\ Within(sb) /\ Counts(sb) /\ NoneAs(sb.id)
      /\ Cardinality(LaunchedAs(sb.id)) <= sb.count
  BY <1>1, <1>2 DEF WAt, BudgetInv, LoopsWithin, CopyPcs, HeirPcs, Spent, LifeInv, LoopsTell,
                    LoopTells
<1>4. UNCHANGED <<store, disk>> /\ sb \in Record
  BY <1>1, <1>2 DEF WatchRelaunch, storeVars
<1>5. CASE UNCHANGED proc /\ watch' = [watch EXCEPT ![p].pc = "crashed", ![p].sb.state = "crashed"]
  <2>1. /\ watch'[p].pc = "crashed" /\ watch'[p].sb = [sb EXCEPT !.state = "crashed"]
    BY <1>2, <1>5 DEF Types, WatchesOK, WatchType
  <2>2. SameLaunches
    BY <1>5, DeathSame, WithinKept
  <2>3. Kin(sb, [sb EXCEPT !.state = "crashed"])
    BY <1>4 DEF Record, Kin
  <2>4. LoopCopy(watch'[p])
    BY <1>3, <2>1, <2>2, <2>3, CopyCounts
  <2> QED BY <1>4, <1>5, <2>4, LoopOnly, LoopBudget DEF AloneInv, WatchStep
<1>6. ASSUME NEW q \in Process, Launch(q, watch[p].key, sb),
             watch' = [watch EXCEPT ![p].pc = "running", ![p].new = q,
                         ![p].sb = [captureHandleInfo(sb, q) EXCEPT !.state = "running"]]
      PROVE  BudgetInv'
  <2>1. PICK n : n = Cardinality(LaunchedAs(sb.id))
    OBVIOUS
  <2>2. n \in Nat /\ sb.id \in Id /\ sb.count \in 0 .. MaxRestart /\ n <= sb.count
    BY <1>3, <2>1, FS_CardinalityType DEF Within, Allowed, BudgetInv, Counted
  <2>3. /\ \A i : i = sb.id => IsFiniteSet(LaunchedAs(i))' /\ Cardinality(LaunchedAs(i))' = 1 + n
        /\ \A i \in Id : i # sb.id => LaunchedAs(i)' = LaunchedAs(i)
    <3>1. /\ q \notin LaunchedAs(sb.id) /\ LaunchedAs(sb.id)' = LaunchedAs(sb.id) \cup {q}
          /\ \A i : i # sb.id /\ i # None => LaunchedAs(i)' = LaunchedAs(i)
      BY <1>1, <1>4, <1>6, LaunchAdds
    <3>2. \A i \in Id : i # sb.id => LaunchedAs(i)' = LaunchedAs(i)
      BY <3>1, ConstantsAssumption
    <3>3. IsFiniteSet(LaunchedAs(sb.id))' /\ Cardinality(LaunchedAs(sb.id))' = 1 + n
      BY <2>1, <2>2, <3>1, FS_AddElement DEF BudgetInv, Counted
    <3> QED BY <3>2, <3>3 DEF LaunchedAs
  <2>4. Counted'
    BY <2>2, <2>3, ConstantsAssumption DEF BudgetInv, Counted
  <2>5. WithinStays
    <3> SUFFICES ASSUME NEW a, Within(a) PROVE Within(a)'
      BY DEF WithinStays
    <3>1. a.pid \in Process /\ a.id \in Id /\ proc[a.pid].id = a.id /\ a.pid # q
      BY <1>6, ConstantsAssumption DEF Within, Allowed, Launch, Unborn
    <3>2. proc'[a.pid] = proc[a.pid]
      BY <1>1, <1>4, <1>6, <3>1, LaunchAdds
    <3>3. CASE a.id = sb.id
      <4>1. ~Alive(a.pid)'
        BY <1>3, <3>1, <3>2, <3>3 DEF NoneAs, Alive
      <4> QED BY <3>1, <3>2, <4>1 DEF Within, Allowed
    <3>4. CASE a.id # sb.id
      <4>1. LaunchedAs(a.id)' = LaunchedAs(a.id)
        BY <2>3, <3>1, <3>4
      <4> QED BY <3>2, <4>1 DEF Within, Allowed, Counts, Alive
    <3> QED BY <3>3, <3>4
  <2>6. StoreWithin'
    <3> SUFFICES ASSUME NEW k \in Key
                 PROVE  /\ store'[k] # None => Within(store[k])'
                        /\ disk'[k] # None => Within(disk[k])'
      BY DEF StoreWithin
    <3>1. \A a : a = store[k] /\ a # None => Within(a)'
      BY <2>5 DEF BudgetInv, StoreWithin, WithinStays
    <3>2. \A a : a = disk[k] /\ a # None => Within(a)'
      BY <2>5 DEF BudgetInv, StoreWithin, WithinStays
    <3> QED BY <1>4, <3>1, <3>2 DEF Within, Allowed, Counts, LaunchedAs, Alive
  <2>7. /\ ReqsWithin'
        /\ \A r \in Process \ {p} : watch'[r].pc \notin CopyPcs
    BY LoopOnly DEF AloneInv, WatchStep, ReqsWithin, ReqWithin, SbPcs
  <2>8. LoopsWithin'
    <3>0. PICK b : b = [captureHandleInfo(sb, q) EXCEPT !.state = "running"]
      OBVIOUS
    <3>1. watch'[p].pc = "running" /\ watch'[p].sb = b
      BY <1>6, <3>0 DEF Types, WatchesOK, WatchType
    <3>2. b.id = sb.id /\ b.count = sb.count /\ b.policy = sb.policy /\ b.pid = q
      BY <1>4, <3>0 DEF Record, captureHandleInfo
    <3>3. Allowed(b) /\ 1 + n <= 1 + b.count /\ proc'[q].id = b.id
      BY <1>1, <1>3, <1>4, <1>6, <2>2, <3>2, LaunchAdds, ConstantsAssumption DEF Within, Allowed
    <3>4. \A i : i = b.id => Cardinality(LaunchedAs(i))' = 1 + n
      BY <2>3, <3>2
    <3>5. \A a : a = b => Within(a)' /\ Counts(a)'
      BY <3>2, <3>3, <3>4 DEF Within, Allowed, Counts
    <3>6. Within(watch[p].sb)' /\ Counts(watch[p].sb)'
      BY <3>1, <3>5 DEF Within, Allowed, Counts, LaunchedAs, Alive
    <3>7. \A r \in Process : Spent(watch[r])'
      BY <2>7, <3>1, <3>6 DEF Spent, CopyPcs
    <3> QED BY <2>7, <3>6, <3>7 DEF LoopsWithin
  <2> QED BY <2>4, <2>6, <2>7, <2>8 DEF BudgetInv
<1> QED BY <1>2, <1>5, <1>6 DEF WatchRelaunch

LEMMA WatchBudget ==
  ASSUME Types, CopiesOK, AloneInv, Handled, LifeInv, BudgetInv, NEW p \in Process, WatchStep(p)
  PROVE  BudgetInv'
<1>1. CASE WatchGet(p) \/ WatchRelaunch(p)
  BY <1>1, WatchGetBudget, RelaunchBudget
<1>2. CASE WatchRestarting(p) \/ WatchCrashed(p) \/ WatchRunning(p) \/ WatchFinal(p)
  <2>1. \E from \in CopyPcs : PutGoes(p, from)
    BY <1>2 DEF WatchRestarting, WatchCrashed, WatchRunning, WatchFinal, PutGoes, CopyPcs
  <2> QED BY <2>1, WatchPutBudget
<1>3. CASE WatchExit(p) \/ WatchCrashedClear(p) \/ WatchClear(p) \/ WatchSetHandle(p)
  <2>1. UNCHANGED <<store, disk, proc>>
    BY <1>3 DEF WatchExit, WatchCrashedClear, WatchClear, WatchSetHandle, storeVars
  <2>2. LoopCopy(watch'[p])
    <3>1. CASE WatchClear(p)
      <4>1. WAt(p, "clear") /\ WGoto(p, "final")
        BY <3>1 DEF WatchClear
      <4>2. Within(watch[p].sb) /\ Counts(watch[p].sb)
        BY <4>1 DEF WAt, BudgetInv, LoopsWithin, Spent, CopyPcs
      <4>3. watch'[p].pc = "final" /\ watch'[p].sb = watch[p].sb
        BY <4>1 DEF WGoto, Types, WatchesOK, WatchType
      <4>4. SameLaunches
        BY <2>1, DeathSame, WithinKept
      <4> QED BY <4>2, <4>3, <4>4, CopyCounts DEF Kin
    <3>2. CASE WatchExit(p) \/ WatchCrashedClear(p)
      <4>1. WDone(p) \/ WGoto(p, "get")
        BY <3>2 DEF WatchExit, WatchCrashedClear
      <4> QED BY <4>1 DEF WDone, WGoto, Types, WatchesOK, WatchType, NoWatch, CopyPcs, LoopCopy
    <3>3. CASE WatchSetHandle(p)
      <4>1. PICK q, k, e : watch' = [watch EXCEPT ![p] = NoWatch, ![q] = Watching(k, e)]
        BY <3>3 DEF WatchSetHandle
      <4>2. watch'[p].pc \in {"none", "wait"}
        BY <4>1 DEF Types, WatchesOK, Watching, NoWatch
      <4> QED BY <4>2 DEF CopyPcs, LoopCopy
    <3> QED BY <1>3, <3>1, <3>2, <3>3
  <2> QED BY <2>1, <2>2, LoopOnly, LoopBudget DEF AloneInv
<1> QED BY <1>1, <1>2, <1>3 DEF WatchStep

LEMMA WorldBudget ==
  ASSUME OneByOne, Types, StartInv, AloneInv, BudgetInv,
         Crash \/ Startup \/ \E p \in Process : Exit(p)
  PROVE  BudgetInv'
<1>1. Counted' /\ WithinStays
  <2>1. SameProcs
    BY DeathSame DEF Crash, Startup, StartLoad, StartReattach, Serve, Reconcile, Reattach, Exit
  <2> QED BY <2>1, WithinKept
<1>2. \A c \in Client : req'[c] = req[c] \/ ReqWithin(req'[c])
  <2>1. UNCHANGED req \/ req' = [c \in Client |-> IdleReq]
    BY DEF Crash, Startup, StartLoad, StartReattach, Serve, Reconcile, Reattach, Exit
  <2> QED BY <2>1 DEF ReqWithin, IdleReq, SbPcs, UpdatePcs
<1>3. \A p \in Process : LoopCopy(watch'[p])
  <2>1. \A p \in Process : watch[p].pc \notin CopyPcs
    BY WorldFree, CopyBusy DEF AloneInv
  <2>2. CASE \E k \in Key : Reattach(k)
    <3>1. UNCHANGED watch \/ \E p, k, e : watch' = [watch EXCEPT ![p] = Watching(k, e)]
      BY <2>2 DEF Reattach
    <3>2. ASSUME NEW p, NEW k, NEW e, watch' = [watch EXCEPT ![p] = Watching(k, e)]
          PROVE  \A q \in Process : watch'[q].pc \notin CopyPcs
      BY <2>1, <3>2 DEF Types, WatchesOK, Watching, NoWatch, CopyPcs
    <3> QED BY <2>1, <3>1, <3>2 DEF LoopCopy
  <2>3. CASE ~ \E k \in Key : Reattach(k)
    <3>1. UNCHANGED watch \/ watch' = [p \in Process |-> NoWatch]
      BY <2>3 DEF Exit, Crash, Startup, StartLoad, StartReattach, Serve, Reconcile
    <3> QED BY <2>1, <3>1 DEF NoWatch, CopyPcs, LoopCopy
  <2> QED BY <2>2, <2>3
<1>4. /\ \A k \in Key : store'[k] \in {None, store[k], disk[k]} \/ Within(store'[k])
      /\ UNCHANGED disk \/ disk' = store'
  <2>1. CASE \E k \in Key : Reconcile(k)
    <3>1. PICK k \in Key : Reconcile(k)
      BY <2>1
    <3>2. CASE UNCHANGED storeVars
      BY <3>2 DEF storeVars
    <3>3. CASE Set(k, [store[k] EXCEPT !.state = "stopped"]) /\ (Persist \/ NotPersisted)
      <4>1. store[k] # None
        BY <3>1 DEF StartInv, Reconcile
      <4>2. store[k] \in Record /\ Within(store[k])
        BY <4>1, OrNoneElim DEF Types, StoreOK, BudgetInv, StoreWithin
      <4>3. Kin(store[k], [store[k] EXCEPT !.state = "stopped"])
        BY <4>2 DEF Record, Kin
      <4> QED BY <3>3, <4>2, <4>3, WithinKin, SetRows DEF Persist, NotPersisted
    <3> QED BY <3>1, <3>2, <3>3 DEF Reconcile
  <2>2. CASE ~ \E k \in Key : Reconcile(k)
    <3>1. /\ UNCHANGED disk
          /\ UNCHANGED store \/ store' = disk \/ store' = [k \in Key |-> None]
      BY <2>2 DEF Exit, Crash, Startup, StartLoad, StartReattach, Serve, Reattach, storeVars
    <3> QED BY <3>1
  <2> QED BY <2>1, <2>2
<1> QED BY <1>1, <1>2, <1>3, <1>4, BudgetFrame

LEMMA BudgetNext ==
  ASSUME OneByOne, Limited, IInv, AloneInv, Handled, LifeInv, BudgetInv, [Next]_vars
  PROVE  BudgetInv'
<1> USE DEF IInv
<1>1. CASE UNCHANGED vars
  <2>1. UNCHANGED <<proc, req, watch, store, disk>>
    BY <1>1 DEF vars
  <2>2. Counted' /\ WithinStays /\ SameLaunches
    BY <2>1, DeathSame, WithinKept
  <2>3. \A p \in Process : LoopCopy(watch'[p])
    BY <2>1, <2>2, CopyStill DEF BudgetInv, LoopsWithin
  <2> QED BY <2>1, <2>2, <2>3, BudgetFrame
<1>2. ASSUME NEW c \in Client, RequestBegin(c) \/ RequestStep(c) \/ SessionEnd(c)
      PROVE  BudgetInv'
  <2>1. CASE RequestStep(c) /\ ~AttachStep(c)
    BY <2>1, WorkingStep, StepBudget, RunLaunchBudget
  <2> QED BY <1>2, <2>1, BeginBudget, SessionBudget
<1>3. ASSUME NEW p \in Process, WatchStep(p)
      PROVE  BudgetInv'
  BY <1>3, WatchBudget
<1>4. CASE Crash \/ Startup \/ \E p \in Process : Exit(p)
  BY <1>4, WorldBudget
<1> QED BY <1>1, <1>2, <1>3, <1>4 DEF Next

LEMMA BudgetInit == Init => BudgetInv
<1> SUFFICES ASSUME Init PROVE BudgetInv
  OBVIOUS
<1>1. /\ \A k \in Key : store[k] = None /\ disk[k] = None
      /\ \A c \in Client : req[c].pc = "idle"
      /\ \A p \in Process : watch[p].pc = "none" /\ proc[p].id = None
  BY DEF Init, IdleReq, NoWatch, Unborn
<1>2. \A i \in Id : LaunchedAs(i) = {}
  BY <1>1, ConstantsAssumption DEF LaunchedAs
<1>3. IsFiniteSet({}) /\ Cardinality({}) = 0
  BY FS_EmptySet
<1>4. Counted
  <2>1. 0 <= 1 + MaxRestart
    BY ConstantsAssumption
  <2> QED BY <1>2, <1>3, <2>1 DEF Counted
<1> QED BY <1>1, <1>4 DEF BudgetInv, StoreWithin, ReqsWithin, ReqWithin, LoopsWithin, Spent,
                          SbPcs, UpdatePcs, CopyPcs

----------------------------------------------------------------------------
(* The epoch a loop holds is current only as long as the handle is its own. *)

Turns == \A k \in Key : \/ handles'[k] = handles[k] /\ epoch'[k] = epoch[k]
                        \/ epoch[k] < epoch'[k]

LEMMA TurnFacts ==
  ASSUME Types
  PROVE  /\ UNCHANGED tableVars => Turns
         /\ \A k \in Key : \A p : setHandle(k, p) => Turns
         /\ \A k \in Key : clearHandle(k) => Turns
<1>1. \A k \in Key : epoch[k] \in Nat /\ epoch[k] < epoch[k] + 1
  BY DEF Types, TableOK
<1>2. ASSUME NEW k \in Key, NEW p, setHandle(k, p)
      PROVE  Turns
  <2>1. epoch'[k] = epoch[k] + 1 /\ \A l \in Key \ {k} : epoch'[l] = epoch[l] /\ handles'[l] = handles[l]
    BY <1>2 DEF setHandle, Types, TableOK
  <2> QED BY <1>1, <2>1 DEF Turns
<1>3. \A k \in Key : clearHandle(k) => Turns
  BY <1>2 DEF clearHandle
<1>4. UNCHANGED tableVars => Turns
  BY DEF tableVars, Turns
<1> QED BY <1>2, <1>3, <1>4

WillHold(k, p, e) == e = epoch'[k] => handles'[k] = p

LEMMA HoldsOn ==
  ASSUME Types, Turns, NEW k \in Key, NEW p, NEW e \in Nat, e <= epoch[k], InHand(k, p, e)
  PROVE  WillHold(k, p, e)
<1>1. epoch[k] \in Nat
  BY DEF Types, TableOK
<1>2. epoch[k] < epoch'[k] => e # epoch'[k]
  BY <1>1
<1> QED BY <1>2 DEF Turns, InHand, WillHold

LEMMA HandledFrame ==
  ASSUME Types, EpochInv, Handled, Turns,
         \A p \in Process : \/ WKeeps(p)
                            \/ Waits(p)' => WillHold(watch'[p].key, p, watch'[p].epoch),
         \A c \in Client : Starts(c)' =>
           \/ Starts(c) /\ req'[c] = req[c]
           \/ WillHold(req'[c].key, req'[c].new, req'[c].epoch),
         \A p \in Process : watch'[p].pc = "get" => watch'[p].epoch = epoch'[watch'[p].key]
  PROVE  Handled'
<1>1. ASSUME NEW p \in Process PROVE LoopInHand(p)'
  <2>1. ASSUME WKeeps(p), Waits(p)' PROVE WillHold(watch'[p].key, p, watch'[p].epoch)
    <3>1. Waits(p) /\ watch'[p].key = watch[p].key /\ watch'[p].epoch = watch[p].epoch
      BY <2>1 DEF WKeeps
    <3>2. watch[p].key \in Key /\ watch[p].epoch \in Nat
      BY <3>1 DEF Types, WatchesOK, WatchOK, WatchType, Waits
    <3>3. watch[p].epoch <= epoch[watch[p].key] /\ InHand(watch[p].key, p, watch[p].epoch)
      BY <3>1 DEF EpochInv, EpochsPast, Handled, LoopInHand
    <3>4. WillHold(watch[p].key, p, watch[p].epoch)
      BY <3>2, <3>3, HoldsOn
    <3> QED BY <3>1, <3>4
  <2>2. Waits(p)' => WillHold(watch'[p].key, p, watch'[p].epoch)
    BY <2>1
  <2> QED BY <2>2 DEF LoopInHand, InHand, WillHold
<1>2. ASSUME NEW c \in Client PROVE StartInHand(c)'
  <2>1. ASSUME Starts(c), req'[c] = req[c]
        PROVE  WillHold(req'[c].key, req'[c].new, req'[c].epoch)
    <3>1. req[c].key \in Key /\ req[c].epoch \in Nat
      BY <2>1 DEF Types, ReqsOK, ReqOK, ReqType, Starts, NoKeyPcs
    <3>2. req[c].epoch <= epoch[req[c].key] /\ InHand(req[c].key, req[c].new, req[c].epoch)
      BY <2>1 DEF EpochInv, EpochsPast, Handled, StartInHand
    <3>3. WillHold(req[c].key, req[c].new, req[c].epoch)
      BY <3>1, <3>2, HoldsOn
    <3> QED BY <2>1, <3>3
  <2>2. Starts(c)' => WillHold(req'[c].key, req'[c].new, req'[c].epoch)
    BY <2>1
  <2> QED BY <2>2 DEF StartInHand, InHand, WillHold
<1> QED BY <1>1, <1>2 DEF Handled

(* No loop is past its exit while a request is at work. *)
NoneGets == \A p \in Process : watch'[p].pc # "get"

LEMMA IdleLoops ==
  ASSUME Types, \A p \in Process : ~Busy(p),
         UNCHANGED watch \/ \E p, k, e : watch' = [watch EXCEPT ![p] = Watching(k, e)]
  PROVE  NoneGets
<1>1. \A p \in Process : watch[p].pc # "get"
  BY DEF Busy, Waits
<1>2. ASSUME NEW p, NEW k, NEW e, watch' = [watch EXCEPT ![p] = Watching(k, e)]
      PROVE  NoneGets
  BY <1>1, <1>2 DEF Types, WatchesOK, Watching, NoWatch, NoneGets
<1> QED BY <1>1, <1>2 DEF NoneGets

LEMMA RequestHandled ==
  ASSUME OneByOne, Types, EpochInv, OneAtWork, Handled, NEW c \in Client,
         RequestBegin(c) \/ RequestStep(c) \/ SessionEnd(c)
  PROVE  Handled'
<1>1. CASE RequestBegin(c)
  <2>1. /\ \A p \in Process : WKeeps(p)
        /\ Turns /\ NoneGets
    BY <1>1, BeginFree, BeginKeeps, StillKeeps, TurnFacts, IdleLoops
  <2>2. \A d \in Client : Starts(d)' => Starts(d) /\ req'[d] = req[d]
    BY <1>1, BeginFree, BeginKeeps, BeginOneAtWork DEF RKeeps, Others, Starts, Working, AttachPcs
  <2> QED BY <2>1, <2>2, HandledFrame DEF NoneGets
<1>2. CASE AttachStep(c) \/ SessionEnd(c)
  <2>1. /\ \A p \in Process : WKeeps(p)
        /\ Turns
    BY <1>2, SessionStill, StillKeeps, TurnFacts
  <2>2. \A d \in Client : Starts(d)' => Starts(d) /\ req'[d] = req[d]
    BY <1>2, SessionStill DEF Others, Starts, AttachPcs
  <2>3. \A p \in Process : watch'[p].pc = "get" => watch'[p].epoch = epoch'[watch'[p].key]
    BY <1>2, SessionStill DEF Handled, LoopInHand, tableVars
  <2> QED BY <2>1, <2>2, <2>3, HandledFrame
<1>3. CASE RequestStep(c) /\ ~AttachStep(c)
  <2>1. /\ Working(c) /\ Others(c) /\ req[c].pc \notin RestartPcs
        /\ \A p \in Process : ~Busy(p)
    BY <1>3, WorkingStep, StepOthers DEF OneAtWork
  <2>2. NoneGets
    <3>1. CASE RunWatch(c)
      <4>1. \E p, k, e : watch' = [watch EXCEPT ![p] = Watching(k, e)]
        BY <3>1 DEF RunWatch
      <4> QED BY <2>1, <4>1, IdleLoops
    <3>2. CASE ~RunWatch(c)
      BY <1>3, <2>1, <3>2, StepProcs, IdleLoops
    <3> QED BY <3>1, <3>2
  <2>3. \A d \in Client \ {c} : Starts(d)' => Starts(d) /\ req'[d] = req[d]
    BY <2>1 DEF Others, Starts
  <2>4. CASE RunSetHandle(c)
    <3>1. At(c, "run.sethandle")
      BY <2>4 DEF RunSetHandle
    <3>2. req[c].key \in Key
      BY <3>1, AtOK DEF NoKeyPcs
    <3>3. setHandle(req[c].key, req[c].new) /\ UNCHANGED watch
      BY <2>4 DEF RunSetHandle
    <3>4. Turns /\ \A p \in Process : WKeeps(p)
      BY <3>2, <3>3, TurnFacts, StillKeeps
    <3>5. WillHold(req'[c].key, req'[c].new, req'[c].epoch)
      <4>1. req'[c].key = req[c].key /\ req'[c].new = req[c].new
        <5>1. PICK e : req' = [req EXCEPT ![c].pc = "run.watch", ![c].epoch = e]
          BY <2>4 DEF RunSetHandle
        <5> QED BY <5>1, NoteMoves DEF Moves
      <4>2. handles'[req[c].key] = req[c].new
        BY <3>2, <3>3, SetHandleFacts
      <4> QED BY <4>1, <4>2 DEF WillHold
    <3> QED BY <2>2, <2>3, <3>4, <3>5, HandledFrame DEF NoneGets
  <2>5. CASE RunWatch(c)
    <3>1. At(c, "run.watch") /\ Done(c) /\ UNCHANGED tableVars
      BY <2>5 DEF RunWatch
    <3>2. req[c].new \in Process /\ req[c].key \in Key /\ req[c].epoch \in Nat
      BY <3>1, AtOK DEF NewPcs, NoKeyPcs, ReqType
    <3>3. PICK p \in Process, k \in Key, e \in Nat :
             p = req[c].new /\ k = req[c].key /\ e = req[c].epoch
      BY <3>2
    <3>4. watch' = [watch EXCEPT ![p] = Watching(k, e)]
      BY <2>5, <3>3 DEF RunWatch
    <3>5. /\ watch'[p].key = k /\ watch'[p].epoch = e
          /\ \A q \in Process \ {p} : watch'[q] = watch[q]
      BY <3>4 DEF Types, WatchesOK, Watching, NoWatch
    <3>6. WillHold(k, p, e)
      <4>1. InHand(k, p, e)
        BY <3>1, <3>3 DEF At, Starts, Handled, StartInHand
      <4> QED BY <3>1, <4>1 DEF tableVars, InHand, WillHold
    <3>7. \A q \in Process \ {p} : WKeeps(q)
      BY <3>5 DEF WKeeps, Waits
    <3>8. ~Starts(c)' /\ Turns
      BY <3>1, MoveFacts, TurnFacts DEF Starts
    <3> QED BY <2>2, <2>3, <3>5, <3>6, <3>7, <3>8, HandledFrame DEF NoneGets
  <2>6. CASE ~RunSetHandle(c) /\ ~RunWatch(c)
    <3>1. ~RestartWatch(c)
      BY <2>1 DEF RestartWatch, At, RestartPcs
    <3>2. /\ UNCHANGED watch /\ ~Starts(c)
          /\ UNCHANGED tableVars \/ (req[c].key \in Key /\ clearHandle(req[c].key))
      BY <1>3, <2>6, <3>1, StepTables
    <3>3. Turns /\ \A p \in Process : WKeeps(p)
      BY <3>2, TurnFacts, StillKeeps
    <3>4. RKeeps(c)
      BY <1>3, <2>6, <3>1, StepKeeps DEF RequestStep
    <3> QED BY <2>2, <2>3, <3>2, <3>3, <3>4, HandledFrame DEF NoneGets, RKeeps
  <2> QED BY <2>4, <2>5, <2>6
<1> QED BY <1>1, <1>2, <1>3

LEMMA WatchHandled ==
  ASSUME Types, EpochInv, OneAtWork, Handled, NEW p \in Process, WatchStep(p)
  PROVE  Handled'
<1>1. /\ UNCHANGED req
      /\ \A c \in Client : ~Starts(c)
      /\ \A q \in Process \ {p} : watch[q].pc # "get"
  BY WatchBusy DEF Starts, Working, AttachPcs, Busy, Waits
<1>2. CASE WatchSetHandle(p)
  <2>1. PICK k \in Key, q \in Process :
           /\ k = watch[p].key /\ q = watch[p].new
           /\ Waits(p) /\ UNCHANGED req
           /\ setHandle(k, q)
           /\ watch'[q] = Watching(k, epoch'[k])
           /\ \A x \in Process \ {q} : WKeeps(x)
    BY <1>2, SetHandleSteps
  <2>2. Turns /\ handles'[k] = q
    BY <2>1, TurnFacts, SetHandleFacts
  <2>3. WillHold(watch'[q].key, q, watch'[q].epoch)
    BY <2>1, <2>2 DEF Watching, NoWatch, WillHold
  <2>4. NoneGets
    <3>1. PICK e : watch' = [watch EXCEPT ![p] = NoWatch, ![q] = Watching(k, e)]
      BY <1>2, <2>1 DEF WatchSetHandle
    <3>2. \A r \in Process : r # p => watch'[r] \in {watch[r], Watching(k, e)}
      BY <3>1 DEF Types, WatchesOK
    <3>3. watch'[p] \in {NoWatch, Watching(k, e)}
      BY <3>1 DEF Types, WatchesOK
    <3>4. NoWatch.pc = "none" /\ Watching(k, e).pc = "wait"
      BY DEF Watching, NoWatch
    <3> QED BY <1>1, <3>2, <3>3, <3>4 DEF NoneGets
  <2> QED BY <1>1, <2>1, <2>2, <2>3, <2>4, HandledFrame DEF NoneGets, Starts
<1>3. CASE ~WatchSetHandle(p)
  <2>1. /\ \A q \in Process : WKeeps(q)
        /\ UNCHANGED tableVars \/ (watch[p].key \in Key /\ clearHandle(watch[p].key))
    <3>1. Waits(p) /\ (\A q \in Process : WKeeps(q))
          /\ (UNCHANGED tableVars \/ clearHandle(watch[p].key))
      BY <1>3, WatchKeeps
    <3>2. watch[p].key \in Key
      BY <3>1 DEF Types, WatchesOK, WatchOK, Waits
    <3> QED BY <3>1, <3>2
  <2>2. Turns
    BY <2>1, TurnFacts
  <2>3. \A q \in Process \ {p} : watch'[q].pc # "get"
    BY <1>1, <1>3, WatchOnwards
  <2>4. watch'[p].pc = "get" => watch'[p].epoch = epoch'[watch'[p].key]
    <3>1. CASE WatchExit(p)
      <4>1. CASE WGoto(p, "get") /\ epoch[watch[p].key] = watch[p].epoch
        <5>1. watch'[p].key = watch[p].key /\ watch'[p].epoch = watch[p].epoch
          BY <4>1 DEF WGoto, Types, WatchesOK, WatchType
        <5> QED BY <3>1, <4>1, <5>1 DEF WatchExit, tableVars
      <4>2. CASE WDone(p)
        BY <4>2 DEF WDone, NoWatch, Types, WatchesOK
      <4> QED BY <3>1, <4>1, <4>2 DEF WatchExit
    <3>2. CASE ~WatchExit(p)
      <4>1. CASE WDone(p)
        BY <4>1 DEF WDone, NoWatch, Types, WatchesOK
      <4>2. ASSUME NEW pc, WGoto(p, pc), pc # "get" PROVE watch'[p].pc # "get"
        BY <4>2 DEF WGoto, Types, WatchesOK, WatchType
      <4>3. CASE WatchGet(p)
        BY <4>1, <4>3 DEF WatchGet, Types, WatchesOK, WatchType
      <4>4. CASE WatchRelaunch(p)
        BY <4>4 DEF WatchRelaunch, Types, WatchesOK, WatchType
      <4> QED BY <1>3, <3>2, <4>1, <4>2, <4>3, <4>4
              DEF WatchStep, WatchRestarting, WatchCrashed, WatchCrashedClear, WatchRunning,
                  WatchClear, WatchFinal
    <3> QED BY <3>1, <3>2
  <2> QED BY <1>1, <2>1, <2>2, <2>3, <2>4, HandledFrame DEF Starts
<1> QED BY <1>2, <1>3

LEMMA WorldHandled ==
  ASSUME OneByOne, Types, StartInv, EpochInv, OneAtWork, Handled,
         Crash \/ Startup \/ \E p \in Process : Exit(p)
  PROVE  Handled'
<1>1. CASE Crash
  <2>1. /\ \A c \in Client : ~Starts(c)'
        /\ \A p \in Process : ~Waits(p)' /\ watch'[p].pc # "get"
    BY <1>1 DEF Crash, IdleReq, NoWatch, Starts, Waits
  <2> QED BY <2>1 DEF Handled, LoopInHand, StartInHand
<1>2. CASE \E k \in Key : Reattach(k) /\ Alive(store[k].pid)
  <2>1. PICK k \in Key : Reattach(k) /\ Alive(store[k].pid)
    BY <1>2
  <2>2. PICK p : p = store[k].pid
    OBVIOUS
  <2>3. /\ setHandle(k, p) /\ UNCHANGED req
        /\ watch' = [watch EXCEPT ![p] = Watching(k, epoch'[k])]
    BY <2>1, <2>2 DEF Reattach
  <2>4. Turns /\ handles'[k] = p
    BY <2>3, TurnFacts, SetHandleFacts
  <2>5. NoneGets
    BY <1>2, <2>3, WorldFree, IdleLoops DEF Startup
  <2>6. \A q \in Process : q # p => WKeeps(q)
    BY <2>3 DEF Types, WatchesOK, WKeeps, Waits
  <2>7. p \in Process => WillHold(watch'[p].key, p, watch'[p].epoch)
    BY <2>3, <2>4 DEF Types, WatchesOK, Watching, NoWatch, WillHold
  <2> QED BY <2>3, <2>4, <2>5, <2>6, <2>7, HandledFrame DEF NoneGets, Starts
<1>3. CASE ~Crash /\ ~ \E k \in Key : Reattach(k) /\ Alive(store[k].pid)
  <2>1. UNCHANGED <<tableVars, watch, req>>
    BY <1>3 DEF Exit, Startup, StartLoad, StartReattach, Serve, Reconcile, Reattach
  <2>2. NoneGets
    BY <1>3, <2>1, WorldFree, IdleLoops
  <2> QED BY <2>1, <2>2, TurnFacts, StillKeeps, HandledFrame DEF NoneGets, Starts
<1> QED BY <1>1, <1>2, <1>3

LEMMA HandledNext ==
  ASSUME OneByOne, IInv, AloneInv, Handled, [Next]_vars
  PROVE  Handled'
<1> USE DEF IInv, AloneInv
<1>1. CASE UNCHANGED vars
  <2>1. UNCHANGED <<handles, epoch, req, watch>>
    BY <1>1 DEF vars
  <2> QED BY <2>1 DEF Handled, LoopInHand, StartInHand, InHand, Waits, Starts
<1>2. CASE Next
  BY <1>2, RequestHandled, WatchHandled, WorldHandled DEF Next
<1> QED BY <1>1, <1>2

----------------------------------------------------------------------------
(* LifeInv.  What is told of a record, as it will be. *)

WillBeOnly(i, p) == \A q \in Process : Alive(q)' /\ proc'[q].id = i => q = p
WillBeNone(i) == \A q \in Process : proc'[q].id = i => ~Alive(q)'
WillTell(sb, p) == Cardinality(LaunchesOf(sb.id)) <= 1 + sb.count /\ WillBeOnly(sb.id, p)

ReqWillTell(r) ==
  /\ r.pc \in {"run.put"} \cup Placing => WillTell(r.sb, r.new)
  /\ r.pc \in Placing => store'[r.key] = r.sb
  /\ r.pc = "run.undo" => "put" \in Faults
  /\ r.pc \in SbPcs \ RunPcs => (handles'[r.key] # None => WillTell(r.sb, handles'[r.key]))
  /\ r.pc \in UpdatePcs =>
       \A k \in Key : r.todo[k] # None /\ handles'[k] # None => WillTell(r.todo[k], handles'[k])
LoopWillTell(p, w) ==
  /\ w.pc \notin {"none", "wait"} => Dead(p)'
  /\ w.pc \in CopyPcs \ HeirPcs => WillBeNone(w.sb.id)
  /\ w.pc \in HeirPcs => WillBeOnly(w.sb.id, w.new)
  /\ w.pc = "sethandle" => store'[w.key] = w.sb

LEMMA TellNext ==
  ASSUME OneLife',
         \A k \in Key : store'[k] # None /\ handles'[k] # None =>
           \/ WillTell(store'[k], handles'[k])
           \/ \E c \in Client : req'[c].key = k /\ req'[c].pc \in Placing
           \/ \E p \in Process : watch'[p].key = k /\ watch'[p].pc \in HeirPcs,
         \A c \in Client : ReqWillTell(req'[c]),
         \A p \in Process : LoopWillTell(p, watch'[p])
  PROVE  LifeInv'
<1>1. StoreTells'
  BY DEF StoreTells, Settling, Tells, Counts, OnlyAs, LaunchedAs, WillTell, WillBeOnly, LaunchesOf
<1>2. ReqsTell'
  <2> SUFFICES ASSUME NEW c \in Client PROVE ReqTells(req[c])'
    BY DEF ReqsTell
  <2>1. ReqWillTell(req'[c])
    OBVIOUS
  <2> QED BY <2>1 DEF ReqWillTell, ReqTells, Tells, Counts, OnlyAs, LaunchedAs, WillTell,
                      WillBeOnly, LaunchesOf
<1>3. LoopsTell'
  <2> SUFFICES ASSUME NEW p \in Process PROVE LoopTells(p, watch[p])'
    BY DEF LoopsTell
  <2>1. LoopWillTell(p, watch'[p])
    OBVIOUS
  <2> QED BY <2>1 DEF LoopWillTell, LoopTells, OnlyAs, NoneAs, WillBeOnly, WillBeNone
<1> QED BY <1>1, <1>2, <1>3 DEF LifeInv

(* What is told stays so while nothing is launched. *)
LEMMA TellsStay ==
  ASSUME SameProcs
  PROVE  /\ OneLife => OneLife'
         /\ \A sb, p : Tells(sb, p) => WillTell(sb, p)
         /\ \A i, p : OnlyAs(i, p) => WillBeOnly(i, p)
         /\ \A i : NoneAs(i) => WillBeNone(i)
<1>1. \A i : LaunchesOf(i) = LaunchedAs(i)
  BY DEF SameProcs, LaunchesOf, LaunchedAs
<1>2. \A i, p : OnlyAs(i, p) => WillBeOnly(i, p)
  BY DEF SameProcs, OnlyAs, WillBeOnly
<1>3. \A i : NoneAs(i) => WillBeNone(i)
  BY DEF SameProcs, NoneAs, WillBeNone
<1>4. OneLife => OneLife'
  BY DEF SameProcs, OneLife
<1> QED BY <1>1, <1>2, <1>3, <1>4 DEF Tells, WillTell, Counts

LEMMA ToldOfNone ==
  ASSUME NEW i, WillBeNone(i), NEW p
  PROVE  WillBeOnly(i, p)
  BY DEF WillBeNone, WillBeOnly

(* No loop is past its exit, before and after a step of a request at work. *)
Lull == \A p \in Process : watch'[p].pc \in {"none", "wait"}

LEMMA IdleLull ==
  ASSUME Types, \A p \in Process : ~Busy(p),
         UNCHANGED watch \/ \E p, k, e : watch' = [watch EXCEPT ![p] = Watching(k, e)]
  PROVE  Lull
<1>1. \A p \in Process : watch[p].pc \in {"none", "wait"}
  BY DEF Busy, Waits
<1>2. CASE \E p, k, e : watch' = [watch EXCEPT ![p] = Watching(k, e)]
  <2>1. PICK p, k, e : watch' = [watch EXCEPT ![p] = Watching(k, e)]
    BY <1>2
  <2>2. Watching(k, e).pc = "wait"
    BY DEF Watching, NoWatch
  <2>3. \A q \in Process : watch'[q] \in {watch[q], Watching(k, e)}
    BY <2>1 DEF Types, WatchesOK
  <2> QED BY <1>1, <2>2, <2>3 DEF Lull
<1> QED BY <1>1, <1>2 DEF Lull

LEMMA LullTells ==
  ASSUME Lull, NEW p \in Process
  PROVE  LoopWillTell(p, watch'[p])
  BY DEF Lull, LoopWillTell, CopyPcs, HeirPcs

LEMMA StepLull ==
  ASSUME Types, OneAtWork, NEW c \in Client, RequestStep(c), Working(c)
  PROVE  Lull
<1>1. req[c].pc \notin RestartPcs /\ \A p \in Process : ~Busy(p)
  BY DEF OneAtWork
<1>2. CASE RunWatch(c)
  <2>1. \E p, k, e : watch' = [watch EXCEPT ![p] = Watching(k, e)]
    BY <1>2 DEF RunWatch
  <2> QED BY <1>1, <2>1, IdleLull
<1>3. CASE ~RunWatch(c)
  BY <1>1, <1>3, StepProcs, IdleLull
<1> QED BY <1>2, <1>3

LEMMA RequestTells ==
  ASSUME NEW c \in Client, Others(c), \A d \in Client \ {c} : ~Working(d), Lull,
         OneLife', ReqWillTell(req'[c]),
         \A k \in Key : store'[k] # None /\ handles'[k] # None =>
           WillTell(store'[k], handles'[k]) \/ (req'[c].key = k /\ req'[c].pc \in Placing)
  PROVE  LifeInv'
<1>1. \A d \in Client \ {c} : req'[d].pc \in {"idle"} \cup AttachPcs
  BY DEF Others, Working
<1>2. \A d \in Client : ReqWillTell(req'[d])
  BY <1>1 DEF ReqWillTell, AttachPcs, SbPcs, UpdatePcs, Placing
<1> QED BY <1>2, LullTells, TellNext

(* What is stored where no loop is busy. *)
LEMMA StoreTold ==
  ASSUME LifeInv, \A p \in Process : ~Busy(p), NEW c \in Client,
         \A d \in Client \ {c} : ~Working(d),
         NEW k \in Key, store[k] # None, handles[k] # None
  PROVE  Tells(store[k], handles[k]) \/ (req[c].key = k /\ req[c].pc \in Placing)
<1>1. \A p \in Process : watch[p].pc \notin HeirPcs
  BY DEF Busy, Waits, HeirPcs
<1>2. \A d \in Client : req[d].pc \in Placing => d = c
  BY DEF Placing, Working, AttachPcs
<1> QED BY <1>1, <1>2 DEF LifeInv, StoreTells, Settling

LEMMA AtWorkAlone ==
  ASSUME Types, OneAtWork, NEW c \in Client, RequestStep(c), Working(c)
  PROVE  /\ Others(c) /\ \A d \in Client \ {c} : ~Working(d)
         /\ \A p \in Process : ~Busy(p)
         /\ req[c].pc \notin RestartPcs /\ Lull
  BY StepOthers, StepLull DEF OneAtWork

LEMMA KinTells ==
  ASSUME NEW a, NEW b, Kin(a, b), NEW p, WillTell(a, p)
  PROVE  WillTell(b, p)
  BY DEF Kin, WillTell

(* A request other than a Run. *)
LEMMA StepStays ==
  ASSUME Types, NEW c \in Client, RequestStep(c), req[c].pc \notin RestartPcs \cup RunPcs
  PROVE  /\ req'[c].pc \notin RunPcs
         /\ req'[c].pc \in SbPcs => req'[c].key = req[c].key
<1>1. CASE Done(c)
  BY <1>1, MoveFacts DEF RunPcs, SbPcs
<1>2. CASE \E pc \in ReqPcs \ RunPcs : Goto(c, pc)
  BY <1>2, GotoFacts
<1>3. CASE \E h : \/ req' = [req EXCEPT ![c].pc = "stop.clear", ![c].old = h]
                  \/ req' = [req EXCEPT ![c].pc = "attach.dial", ![c].old = h]
  BY <1>3, OldFacts DEF RunPcs
<1>4. CASE \E x : \/ req' = [req EXCEPT ![c].pc = "update.put", ![c].todo = x]
                  \/ req' = [req EXCEPT ![c].pc = "reload.put", ![c].sb.state = x]
  BY <1>4, NoteMoves DEF Moves, RunPcs
<1>5. CASE \E k : req' = [req EXCEPT ![c].pc = "update.proxy", ![c].key = k]
  <2>1. PICK k : req' = [req EXCEPT ![c].pc = "update.proxy", ![c].key = k]
    BY <1>5
  <2>2. Carries(c, "update.proxy")
    BY <2>1, CarryFacts
  <2> QED BY <2>2 DEF Carries, RunPcs, SbPcs
<1>6. CASE UpdatePut(c) \/ UpdateProxy(c) \/ ReloadHandle(c) \/ ReloadPut(c)
           \/ StopPut(c) \/ StopHandle(c) \/ StopClear(c) \/ StopKill(c) \/ DeleteStore(c)
           \/ MergePut(c) \/ AttachTry(c) \/ AttachHandle(c) \/ AttachDial(c) \/ AttachDetach(c)
  BY <1>1, <1>2, <1>3, <1>4, <1>5, <1>6
     DEF UpdatePut, UpdateProxy, ReloadHandle, ReloadPut, StopPut, StopHandle, StopClear,
         StopKill, DeleteStore, MergePut, AttachTry, AttachHandle, AttachDial, AttachDetach,
         ReqPcs, RunPcs
<1>7. /\ ~RestartHandle(c) /\ ~RestartClear(c) /\ ~RestartKill(c) /\ ~RestartLaunch(c)
      /\ ~RestartCrashed(c) /\ ~RestartPut(c) /\ ~RestartProxy(c) /\ ~RestartWatch(c)
      /\ ~RunLaunch(c) /\ ~RunPut(c) /\ ~RunUndo(c) /\ ~RunSetHandle(c) /\ ~RunWatch(c)
  BY DEF RestartHandle, RestartClear, RestartKill, RestartLaunch, RestartCrashed, RestartPut,
         RestartProxy, RestartWatch, RunLaunch, RunPut, RunUndo, RunSetHandle, RunWatch, At,
         RestartPcs, RunPcs
<1> QED BY <1>6, <1>7 DEF RequestStep

LEMMA RunSteps ==
  ASSUME NEW c \in Client, RequestStep(c), req[c].pc \in RunPcs
  PROVE  RunLaunch(c) \/ RunPut(c) \/ RunUndo(c) \/ RunSetHandle(c) \/ RunWatch(c)
<1>1. /\ ~UpdatePut(c) /\ ~UpdateProxy(c) /\ ~ReloadHandle(c) /\ ~ReloadPut(c)
      /\ ~RestartHandle(c) /\ ~RestartClear(c) /\ ~RestartKill(c) /\ ~RestartLaunch(c)
      /\ ~RestartCrashed(c) /\ ~RestartPut(c) /\ ~RestartProxy(c) /\ ~RestartWatch(c)
  BY DEF UpdatePut, UpdateProxy, ReloadHandle, ReloadPut, RestartHandle, RestartClear, RestartKill,
         RestartLaunch, RestartCrashed, RestartPut, RestartProxy, RestartWatch, At, RunPcs
<1>2. /\ ~StopPut(c) /\ ~StopHandle(c) /\ ~StopClear(c) /\ ~StopKill(c)
      /\ ~DeleteStore(c) /\ ~MergePut(c)
      /\ ~AttachTry(c) /\ ~AttachHandle(c) /\ ~AttachDial(c) /\ ~AttachDetach(c)
  BY DEF StopPut, StopHandle, StopClear, StopKill, DeleteStore, MergePut, AttachTry, AttachHandle,
         AttachDial, AttachDetach, At, RunPcs
<1> QED BY <1>1, <1>2 DEF RequestStep

LEMMA StepTells ==
  ASSUME Types, OneAtWork, LifeInv, NEW c \in Client, RequestStep(c), Working(c),
         req[c].pc \notin RunPcs
  PROVE  LifeInv'
<1>1. /\ Others(c) /\ \A d \in Client \ {c} : ~Working(d)
      /\ \A p \in Process : ~Busy(p)
      /\ req[c].pc \notin RestartPcs \cup RunPcs /\ Lull /\ ReqTells(req[c])
  BY AtWorkAlone DEF LifeInv, ReqsTell
<1>2. ~RunLaunch(c) /\ ~RunSetHandle(c) /\ ~RunWatch(c) /\ ~RestartWatch(c)
  BY <1>1 DEF RunLaunch, RunSetHandle, RunWatch, RestartWatch, At, RunPcs, RestartPcs
<1>3. SameProcs /\ OneLife'
  BY <1>1, <1>2, StepProcs, TellsStay DEF LifeInv
<1>4. \A k \in Key : handles'[k] \in {None, handles[k]}
  BY <1>2, StepTables, SetHandleFacts DEF tableVars
<1>5. ASSUME NEW k \in Key, store[k] # None, handles[k] # None
      PROVE  WillTell(store[k], handles[k])
  <2>1. req[c].pc \notin Placing
    BY <1>1 DEF RunPcs, Placing
  <2> QED BY <1>1, <1>3, <1>5, <2>1, StoreTold, TellsStay
<1>6. req[c].pc \in SbPcs /\ handles[req[c].key] # None => WillTell(req[c].sb, handles[req[c].key])
  BY <1>1, <1>3, TellsStay DEF ReqTells
<1>7. req[c].pc \in UpdatePcs =>
        \A k \in Key : req[c].todo[k] # None /\ handles[k] # None => WillTell(req[c].todo[k], handles[k])
  BY <1>1, <1>3, TellsStay DEF ReqTells
<1>8. ReqWillTell(req'[c])
  <2>1. req'[c].pc \notin RunPcs
    BY <1>1, StepStays
  <2>2. ASSUME req'[c].pc \in SbPcs, handles'[req'[c].key] # None
        PROVE  WillTell(req'[c].sb, handles'[req'[c].key])
    <3>1. req'[c].key = req[c].key /\ req[c].pc \in SbPcs /\ Kin(req[c].sb, req'[c].sb)
      BY <1>1, <1>2, <2>2, StepStays, StepCopies
    <3>2. req[c].key \in Key
      BY <3>1 DEF Types, ReqsOK, ReqOK, SbPcs, NoKeyPcs
    <3>3. handles'[req'[c].key] = handles[req[c].key]
      BY <1>4, <2>2, <3>1, <3>2
    <3> QED BY <1>6, <2>2, <3>1, <3>3, KinTells
  <2>3. req'[c].pc \in UpdatePcs =>
          \A k \in Key : req'[c].todo[k] # None /\ handles'[k] # None =>
                           WillTell(req'[c].todo[k], handles'[k])
    <3>1. req'[c].pc \in UpdatePcs =>
            /\ req[c].pc \in UpdatePcs
            /\ \A k \in Key : req'[c].todo[k] \in {None, req[c].todo[k]}
      BY <1>1, <1>2, StepCopies
    <3> QED BY <1>4, <1>7, <3>1
  <2> QED BY <2>1, <2>2, <2>3 DEF ReqWillTell, RunPcs, Placing
<1>9. ASSUME NEW k \in Key, store'[k] # None, handles'[k] # None
      PROVE  WillTell(store'[k], handles'[k])
  <2>1. handles'[k] = handles[k]
    BY <1>4, <1>9
  <2>2. StepStored(c, k)
    BY <1>1, StepStores
  <2> QED BY <1>5, <1>6, <1>7, <1>9, <2>1, <2>2 DEF StepStored
<1> QED BY <1>1, <1>3, <1>8, <1>9, RequestTells

LEMMA RunLaunchTells ==
  ASSUME Types, CopiesOK, AloneInv, LifeInv, NEW c \in Client, RunLaunch(c)
  PROVE  LifeInv'
<1>1. At(c, "run.launch")
  BY DEF RunLaunch
<1>2. /\ req[c].key \in Key /\ req[c].sb \in Record /\ LaunchedAs(req[c].sb.id) = {}
      /\ Others(c) /\ \A d \in Client \ {c} : ~Working(d)
      /\ \A p \in Process : ~Busy(p)
      /\ Lull
  <2>1. req[c].key \in Key /\ req[c].sb \in Record /\ req[c].pc = "run.launch"
    BY <1>1, AtOK DEF NoKeyPcs, SbPcs
  <2> QED BY <2>1, LaunchWorks, AtWorkAlone DEF AloneInv, NewIds, RequestStep
<1>3. UNCHANGED <<store, handles>>
  BY DEF RunLaunch, storeVars, tableVars
<1>4. ASSUME NEW k \in Key, store[k] # None, handles[k] # None
      PROVE  /\ Tells(store[k], handles[k])
             /\ store[k].id # req[c].sb.id /\ store[k].id \in Id
  <2>1. Tells(store[k], handles[k])
    BY <1>1, <1>2, <1>4, StoreTold DEF At, Placing
  <2>2. Of(store[k], k) /\ store[k] \in Record
    BY <1>4, OrNoneElim DEF CopiesOK, StoreCopies, Types, StoreOK
  <2> QED BY <1>2, <2>1, <2>2 DEF Of, LaunchedAs, Record
<1>5. CASE Done(c) /\ UNCHANGED proc
  <2>1. SameProcs
    BY <1>5, DeathSame
  <2>2. ReqWillTell(req'[c])
    BY <1>5, MoveFacts DEF ReqWillTell, Placing, SbPcs, UpdatePcs
  <2>3. \A k \in Key : store'[k] # None /\ handles'[k] # None => WillTell(store'[k], handles'[k])
    BY <1>3, <1>4, <2>1, TellsStay
  <2> QED BY <1>2, <2>1, <2>2, <2>3, TellsStay, RequestTells DEF LifeInv
<1>6. ASSUME NEW p \in Process, Launch(p, req[c].key, req[c].sb),
             req' = [req EXCEPT ![c].pc = "run.put", ![c].new = p,
                                ![c].sb = captureHandleInfo(req[c].sb, p)]
      PROVE  LifeInv'
  <2>0. PICK sb \in Record, k0 \in Key : sb = req[c].sb /\ k0 = req[c].key
    BY <1>2
  <2>1. /\ proc'[p].id = sb.id /\ LaunchedAs(sb.id) = {}
        /\ \A q \in Process \ {p} : proc'[q] = proc[q]
        /\ \A i : i # sb.id /\ i # None => LaunchedAs(i)' = LaunchedAs(i)
    BY <1>2, <1>6, <2>0, LaunchAdds
  <2>2. \A q \in Process \ {p} : proc'[q].id # sb.id
    BY <2>1 DEF LaunchedAs
  <2>3. OneLife'
    BY <2>1, <2>2 DEF LifeInv, OneLife, Alive
  <2>4. ASSUME NEW k \in Key, store'[k] # None, handles'[k] # None
        PROVE  WillTell(store'[k], handles'[k])
    <3>1. PICK a, h : a = store[k] /\ h = handles[k]
      OBVIOUS
    <3>2. Tells(a, h) /\ a.id # sb.id /\ a.id # None
      BY <1>3, <1>4, <2>0, <2>4, <3>1, ConstantsAssumption
    <3>3. LaunchesOf(a.id) = LaunchedAs(a.id)
      BY <2>1, <3>2 DEF LaunchesOf, LaunchedAs
    <3>4. WillBeOnly(a.id, h)
      BY <2>1, <3>2 DEF Tells, OnlyAs, WillBeOnly, Alive
    <3> QED BY <1>3, <3>1, <3>2, <3>3, <3>4 DEF Tells, Counts, WillTell
  <2>5. ReqWillTell(req'[c])
    <3>1. PICK b : b = captureHandleInfo(sb, p)
      OBVIOUS
    <3>2. req'[c].pc = "run.put" /\ req'[c].sb = b /\ req'[c].new = p
      BY <1>6, <2>0, <3>1 DEF Types, ReqsOK, ReqType
    <3>3. b.id = sb.id /\ b.count \in Nat
      BY <3>1 DEF captureHandleInfo, Record
    <3>4. LaunchesOf(b.id) = {p}
      BY <2>1, <2>2, <3>3 DEF LaunchesOf
    <3>5. Cardinality(LaunchesOf(b.id)) <= 1 + b.count
      <4>1. Cardinality({p}) = 1
        BY FS_Singleton
      <4>2. 1 <= 1 + b.count
        BY <3>3
      <4> QED BY <3>4, <4>1, <4>2
    <3>6. WillBeOnly(b.id, p)
      BY <2>2, <3>3 DEF WillBeOnly
    <3> QED BY <3>2, <3>5, <3>6 DEF ReqWillTell, WillTell, Placing, RunPcs, UpdatePcs
  <2> QED BY <1>2, <2>3, <2>4, <2>5, RequestTells
<1> QED BY <1>5, <1>6 DEF RunLaunch

LEMMA RunTells ==
  ASSUME Undone, Types, OneAtWork, LifeInv, NEW c \in Client, Working(c),
         RunPut(c) \/ RunUndo(c) \/ RunSetHandle(c) \/ RunWatch(c)
  PROVE  LifeInv'
<1>1. /\ Others(c) /\ \A d \in Client \ {c} : ~Working(d)
      /\ \A p \in Process : ~Busy(p)
      /\ req[c].pc \notin RestartPcs /\ Lull /\ ReqTells(req[c])
      /\ RequestStep(c) /\ ~RunLaunch(c)
      /\ req[c].key \in Key
  <2>1. req[c].pc \in {"run.put", "run.undo", "run.sethandle", "run.watch"}
    BY DEF RunPut, RunUndo, RunSetHandle, RunWatch, At
  <2>2. req[c].key \in Key
    BY <2>1 DEF Types, ReqsOK, ReqOK, NoKeyPcs
  <2> QED BY <2>1, <2>2, AtWorkAlone DEF RequestStep, RunLaunch, At, LifeInv, ReqsTell
<1>2. SameProcs /\ OneLife'
  BY <1>1, StepProcs, TellsStay DEF LifeInv
<1>3. PICK k0, sb, p : k0 = req[c].key /\ sb = req[c].sb /\ p = req[c].new /\ k0 \in Key
  BY <1>1
<1>4. ASSUME NEW k \in Key, store[k] # None, handles[k] # None
      PROVE  WillTell(store[k], handles[k]) \/ (k = k0 /\ req[c].pc \in Placing)
  BY <1>1, <1>2, <1>3, <1>4, StoreTold, TellsStay
<1>5. req[c].pc \in {"run.put"} \cup Placing => WillTell(sb, p)
  BY <1>1, <1>2, <1>3, TellsStay DEF ReqTells
<1>6. CASE RunPut(c)
  <2>1. At(c, "run.put") /\ Set(k0, sb) /\ UNCHANGED handles
    BY <1>3, <1>6 DEF RunPut, tableVars
  <2>2. PICK pc \in Placing : Goto(c, pc) /\ (pc = "run.undo" => "put" \in Faults)
    BY <1>6 DEF RunPut, NotPersisted, Placing
  <2>3. /\ req'[c].pc = pc /\ req'[c].key = k0 /\ req'[c].sb = sb /\ req'[c].new = p
        /\ store'[k0] = sb /\ \A k \in Key \ {k0} : store'[k] = store[k]
    BY <1>3, <2>1, <2>2, GotoFacts DEF Set, Types, StoreOK
  <2>4. ReqWillTell(req'[c])
    BY <1>5, <2>1, <2>2, <2>3 DEF At, ReqWillTell, Placing, RunPcs, UpdatePcs
  <2>5. \A k \in Key : store'[k] # None /\ handles'[k] # None =>
          WillTell(store'[k], handles'[k]) \/ (req'[c].key = k /\ req'[c].pc \in Placing)
    BY <1>4, <2>1, <2>2, <2>3
  <2> QED BY <1>1, <1>2, <2>4, <2>5, RequestTells
<1>7. CASE RunUndo(c)
  <2>1. At(c, "run.undo") /\ Done(c) /\ UNCHANGED <<store, handles>>
    BY <1>7 DEF RunUndo, storeVars, tableVars
  <2>2. WillTell(sb, p) /\ store[k0] = sb
    BY <1>1, <1>3, <1>5, <2>1 DEF ReqTells, Placing, At
  <2>3. ~Alive(p)'
    <3>1. ~KillFails
      BY <1>1, <2>1 DEF ReqTells, At, Undone, KillFails
    <3>2. Kill(p) /\ p \in Process
      BY <1>3, <1>7, <2>1, <3>1 DEF RunUndo, At, Types, ReqsOK, ReqOK, NewPcs
    <3>3. ASSUME NEW st \in {"clean", "failed"}, proc' = [proc EXCEPT ![p].st = st]
          PROVE  ~Alive(p)'
      BY <3>2, <3>3 DEF Alive, Types, ProcOK, ProcType
    <3> QED BY <3>2, <3>3 DEF Kill, Alive
  <2>4. \A h : WillTell(sb, h)
    BY <2>2, <2>3 DEF WillTell, WillBeOnly
  <2>5. \A k \in Key : store'[k] # None /\ handles'[k] # None => WillTell(store'[k], handles'[k])
    BY <1>4, <2>1, <2>2, <2>4
  <2>6. ReqWillTell(req'[c])
    BY <2>1, MoveFacts DEF ReqWillTell, Placing, SbPcs, UpdatePcs
  <2> QED BY <1>1, <1>2, <2>5, <2>6, RequestTells
<1>8. CASE RunSetHandle(c)
  <2>1. At(c, "run.sethandle") /\ setHandle(k0, p) /\ UNCHANGED store
    BY <1>3, <1>8 DEF RunSetHandle, storeVars
  <2>2. WillTell(sb, p) /\ store[k0] = sb
    BY <1>1, <1>3, <1>5, <2>1 DEF ReqTells, Placing, At
  <2>3. handles'[k0] = p /\ \A k \in Key \ {k0} : handles'[k] = handles[k]
    BY <1>3, <2>1, SetHandleFacts
  <2>4. \A k \in Key : store'[k] # None /\ handles'[k] # None => WillTell(store'[k], handles'[k])
    BY <1>4, <2>1, <2>2, <2>3
  <2>5. PICK e : req' = [req EXCEPT ![c].pc = "run.watch", ![c].epoch = e]
    BY <1>8 DEF RunSetHandle
  <2>6. Moves(c, "run.watch")
    BY <2>5, NoteMoves
  <2>7. ReqWillTell(req'[c])
    BY <2>6 DEF Moves, ReqWillTell, Placing, RunPcs, UpdatePcs
  <2> QED BY <1>1, <1>2, <2>4, <2>7, RequestTells
<1>9. CASE RunWatch(c)
  <2>1. At(c, "run.watch") /\ Done(c) /\ UNCHANGED <<store, handles>>
    BY <1>9 DEF RunWatch, storeVars, tableVars
  <2>2. \A k \in Key : store'[k] # None /\ handles'[k] # None => WillTell(store'[k], handles'[k])
    BY <1>4, <2>1 DEF At, Placing
  <2>3. ReqWillTell(req'[c])
    BY <2>1, MoveFacts DEF ReqWillTell, Placing, SbPcs, UpdatePcs
  <2> QED BY <1>1, <1>2, <2>2, <2>3, RequestTells
<1> QED BY <1>6, <1>7, <1>8, <1>9

LEMMA BeginTells ==
  ASSUME OneByOne, Types, OneAtWork, LifeInv, NEW c \in Client, RequestBegin(c)
  PROVE  LifeInv'
<1>1. /\ Others(c) /\ \A d \in Client : ~Working(d)
      /\ \A p \in Process : ~Busy(p)
      /\ UNCHANGED <<store, handles, proc, watch>> /\ SameProcs /\ Lull /\ OneLife'
  BY BeginFree, BeginOneAtWork, DeathSame, IdleLull, TellsStay DEF LifeInv, storeVars, tableVars
<1>2. ASSUME NEW k \in Key, store[k] # None, handles[k] # None
      PROVE  WillTell(store[k], handles[k])
  BY <1>1, <1>2, StoreTold, TellsStay DEF Placing, Working, AttachPcs
<1> SUFFICES ReqWillTell(req'[c])
  BY <1>1, <1>2, RequestTells
<1>3. ASSUME NEW k \in Key, store[k] # None, NEW sb, Kin(store[k], sb),
             NEW pc \in SbPcs \ RunPcs, Open(c, pc, k, sb, None)
      PROVE  ReqWillTell(req'[c])
  BY <1>1, <1>2, <1>3, OpenRow, KinTells DEF ReqWillTell, RunPcs, Placing, SbPcs, UpdatePcs
<1>4. CASE UpdateBegin(c)
  <2>1. PICK d \in Delta,
             targets \in {{k} : k \in Key} \cup
                       {{k \in Key : store[k] # None /\ isActive(store[k].state)}} :
          /\ \A k \in targets : store[k] # None
          /\ req' = [req EXCEPT ![c] =
               [IdleReq EXCEPT !.pc = "update.put", !.arg = d,
                  !.todo = [k \in Key |-> IF k \in targets
                                          THEN Candidate(store[k], d) ELSE None]]]
    BY <1>4 DEF UpdateBegin
  <2>2. /\ req'[c].pc = "update.put"
        /\ \A k \in Key : req'[c].todo[k] = IF k \in targets
                                            THEN Candidate(store[k], d) ELSE None
    BY <2>1 DEF Types, ReqsOK, IdleReq
  <2>3. ASSUME NEW k \in Key, k \in targets, handles[k] # None
        PROVE  WillTell(Candidate(store[k], d), handles[k])
    <3>1. store[k] # None /\ store[k] \in Record
      BY <2>1, <2>3, OrNoneElim DEF Types, StoreOK
    <3>2. Kin(store[k], Candidate(store[k], d))
      BY <3>1 DEF Candidate, Record, Kin
    <3> QED BY <1>2, <2>3, <3>1, <3>2, KinTells
  <2> QED BY <1>1, <2>2, <2>3 DEF ReqWillTell, Placing, SbPcs
<1>5. ASSUME NEW k \in Key, RunCheck(c, k) PROVE ReqWillTell(req'[c])
  <2>1. PICK sb : Open(c, "run.launch", k, sb, None)
    BY <1>5 DEF RunCheck
  <2> QED BY <2>1, OpenRow DEF ReqWillTell, Placing, RunPcs, UpdatePcs
<1>6. ASSUME NEW k \in Key, ReloadGet(c, k) \/ DeleteGet(c, k) PROVE ReqWillTell(req'[c])
  BY <1>3, <1>6 DEF ReloadGet, DeleteGet, Kin, SbPcs, RunPcs
<1>7. ASSUME NEW k \in Key, StopGet(c, k) PROVE ReqWillTell(req'[c])
  <2>1. store[k] # None /\ store[k] \in Record
    BY <1>7, OrNoneElim DEF StopGet, Types, StoreOK
  <2>2. Kin(store[k], [store[k] EXCEPT !.state = "stopped"])
    BY <2>1 DEF Record, Kin
  <2> QED BY <1>3, <1>7, <2>1, <2>2 DEF StopGet, SbPcs, RunPcs
<1>8. ASSUME NEW k \in Key, MergeGet(c, k) PROVE ReqWillTell(req'[c])
  <2>1. store[k] # None /\ store[k] \in Record
    BY <1>8, OrNoneElim DEF MergeGet, Types, StoreOK
  <2>2. PICK wt :
          Open(c, "merge.put", k,
               [store[k] EXCEPT !.mounts = @ \ {wt},
                  !.state = IF isActive(@) THEN "reload-pending" ELSE @], None)
    BY <1>8 DEF MergeGet
  <2>3. Kin(store[k], [store[k] EXCEPT !.mounts = @ \ {wt},
                  !.state = IF isActive(@) THEN "reload-pending" ELSE @])
    BY <2>1 DEF Record, Kin
  <2> QED BY <1>3, <2>1, <2>2, <2>3 DEF SbPcs, RunPcs
<1>9. ASSUME NEW k \in Key, AttachGet(c, k) PROVE ReqWillTell(req'[c])
  BY <1>9, OpenRow DEF AttachGet, ReqWillTell, Placing, SbPcs, UpdatePcs
<1> QED BY <1>4, <1>5, <1>6, <1>7, <1>8, <1>9, BeginFree DEF RequestBegin

LEMMA SessionTells ==
  ASSUME Types, LifeInv, NEW c \in Client, AttachStep(c) \/ SessionEnd(c)
  PROVE  LifeInv'
<1>1. /\ Others(c) /\ req'[c].pc \in {"idle"} \cup AttachPcs
      /\ UNCHANGED <<store, handles, proc, watch>> /\ SameProcs /\ OneLife'
  BY SessionStill, DeathSame, TellsStay DEF storeVars, tableVars, LifeInv
<1>2. req[c].pc \notin Placing
  BY DEF AttachStep, SessionEnd, AttachTry, AttachHandle, AttachDial, AttachDetach, At, Placing
<1>3. \A d \in Client : ReqWillTell(req'[d])
  <2>1. ReqWillTell(req'[c])
    BY <1>1 DEF ReqWillTell, AttachPcs, SbPcs, UpdatePcs, Placing
  <2>2. ASSUME NEW d \in Client \ {c} PROVE ReqWillTell(req'[d])
    <3>1. ReqTells(req[d]) /\ req'[d] = req[d]
      BY <1>1 DEF LifeInv, ReqsTell, Others
    <3>2. ReqWillTell(req[d])
      BY <1>1, <3>1, TellsStay DEF ReqTells, ReqWillTell
    <3> QED BY <3>1, <3>2
  <2> QED BY <2>1, <2>2
<1>4. ASSUME NEW p \in Process PROVE LoopWillTell(p, watch'[p])
  BY <1>1, TellsStay DEF LifeInv, LoopsTell, LoopTells, LoopWillTell, Dead
<1>5. ASSUME NEW k \in Key, store[k] # None, handles[k] # None
      PROVE  \/ WillTell(store[k], handles[k])
             \/ \E d \in Client : req'[d].key = k /\ req'[d].pc \in Placing
             \/ \E p \in Process : watch[p].key = k /\ watch[p].pc \in HeirPcs
  BY <1>1, <1>2, <1>5, TellsStay DEF LifeInv, StoreTells, Settling, Others
<1> QED BY <1>1, <1>3, <1>4, <1>5, TellNext

(* A loop that takes a step: what is stored, and what becomes of it. *)
LEMMA LoopTold ==
  ASSUME OneAtWork, LifeInv, NEW p \in Process, WatchStep(p),
         NEW k \in Key, store[k] # None, handles[k] # None
  PROVE  Tells(store[k], handles[k]) \/ (watch[p].key = k /\ watch[p].pc \in HeirPcs)
<1>1. \A q \in Process \ {p} : watch[q].pc \notin HeirPcs
  BY WatchBusy DEF Busy, Waits, HeirPcs
<1>2. \A d \in Client : req[d].pc \notin Placing
  BY WatchBusy DEF Placing, Working, AttachPcs
<1> QED BY <1>1, <1>2 DEF LifeInv, StoreTells, Settling

LEMMA LoopLull ==
  ASSUME Types, OneAtWork, NEW p \in Process, WatchStep(p)
  PROVE  \A q \in Process \ {p} : watch'[q].pc \in {"none", "wait"}
<1>1. \A q \in Process \ {p} : watch[q].pc \in {"none", "wait"}
  BY WatchBusy DEF Busy, Waits
<1>2. CASE WatchSetHandle(p)
  <2>1. PICK q, k, e : watch' = [watch EXCEPT ![p] = NoWatch, ![q] = Watching(k, e)]
    BY <1>2 DEF WatchSetHandle
  <2>2. Watching(k, e).pc = "wait"
    BY DEF Watching, NoWatch
  <2>3. \A r \in Process \ {p} : watch'[r] \in {watch[r], Watching(k, e)}
    BY <2>1 DEF Types, WatchesOK
  <2> QED BY <1>1, <2>2, <2>3
<1>3. CASE ~WatchSetHandle(p)
  BY <1>1, <1>3, WatchOnwards
<1> QED BY <1>2, <1>3

LEMMA LoopTellNext ==
  ASSUME Types, OneAtWork, NEW p \in Process, WatchStep(p), OneLife',
         LoopWillTell(p, watch'[p]),
         \A k \in Key : store'[k] # None /\ handles'[k] # None =>
           WillTell(store'[k], handles'[k]) \/ (watch'[p].key = k /\ watch'[p].pc \in HeirPcs)
  PROVE  LifeInv'
<1>1. \A c \in Client : ReqWillTell(req'[c])
  BY LoopOnly DEF ReqWillTell, SbPcs, UpdatePcs, Placing
<1>2. \A q \in Process : LoopWillTell(q, watch'[q])
  <2>1. \A q \in Process \ {p} : LoopWillTell(q, watch'[q])
    BY LoopLull DEF LoopWillTell, CopyPcs, HeirPcs
  <2> QED BY <2>1
<1> QED BY <1>1, <1>2, TellNext

LEMMA WatchPutTells ==
  ASSUME Types, OneAtWork, BudgetInv, LifeInv, NEW p \in Process,
         NEW from \in CopyPcs \ {"sethandle"}, PutGoes(p, from), WatchStep(p),
         from = "running" => WGoto(p, "sethandle"),
         from # "running" => ~WGoto(p, "sethandle")
  PROVE  LifeInv'
<1>1. WAt(p, from) /\ watch[p].key \in Key /\ watch[p].sb \in Record
  BY WAtOK DEF PutGoes, WatchPut, CopyPcs
<1>2. PICK w : w = watch[p]
  OBVIOUS
<1>3. Cardinality(LaunchedAs(w.sb.id)) <= 1 + w.sb.count /\ LoopTells(p, w) /\ w.pc = from
  BY <1>1, <1>2 DEF WAt, BudgetInv, LoopsWithin, Spent, Counts, LifeInv, LoopsTell
<1>4. /\ UNCHANGED <<proc, handles>> /\ SameProcs /\ OneLife'
      /\ store'[w.key] = w.sb /\ \A k \in Key \ {w.key} : store'[k] = store[k]
  <2>1. UNCHANGED <<proc, handles>>
    BY DEF PutGoes, WatchPut, tableVars
  <2>2. store'[w.key] = w.sb /\ \A k \in Key \ {w.key} : store'[k] = store[k]
    BY <1>1, <1>2 DEF PutGoes, WatchPut, Set, Types, StoreOK
  <2> QED BY <2>1, <2>2, DeathSame, TellsStay DEF LifeInv
<1>5. LaunchesOf(w.sb.id) = LaunchedAs(w.sb.id)
  BY <1>4 DEF LaunchesOf, LaunchedAs
<1>6. from # "running" => WillBeNone(w.sb.id) /\ \A h : WillTell(w.sb, h)
  BY <1>3, <1>4, <1>5, TellsStay, ToldOfNone DEF LoopTells, HeirPcs, WillTell
<1>7. Dead(p)'
  BY <1>3, <1>4 DEF LoopTells, CopyPcs, SameProcs
<1>8. ASSUME NEW k \in Key, k # w.key, store'[k] # None, handles'[k] # None
      PROVE  WillTell(store'[k], handles'[k])
  <2>1. Tells(store[k], handles[k])
    BY <1>2, <1>4, <1>8, LoopTold
  <2> QED BY <1>4, <1>8, <2>1, TellsStay
<1>9. CASE from # "running"
  <2>1. ~WGoto(p, "sethandle") /\ WillBeNone(w.sb.id) /\ \A h : WillTell(w.sb, h)
    BY <1>6, <1>9
  <2>2. \A k \in Key : store'[k] # None /\ handles'[k] # None => WillTell(store'[k], handles'[k])
    BY <1>4, <1>8, <2>1
  <2>3. PICK pc \in {"none", "backoff", "crashed.clear"} :
          watch'[p].pc = pc /\ (pc # "none" => watch'[p].sb = w.sb)
    BY <1>2, <2>1 DEF PutGoes, WDone, WGoto, NoWatch, Types, WatchesOK, WatchType
  <2>4. LoopWillTell(p, watch'[p])
    BY <1>7, <2>1, <2>3 DEF LoopWillTell, CopyPcs, HeirPcs
  <2> QED BY <1>4, <2>2, <2>4, LoopTellNext
<1>10. CASE from = "running"
  <2>1. /\ watch'[p].pc = "sethandle" /\ watch'[p].sb = w.sb
        /\ watch'[p].key = w.key /\ watch'[p].new = w.new
    BY <1>2, <1>10 DEF WGoto, Types, WatchesOK, WatchType
  <2>2. WillBeOnly(w.sb.id, w.new)
    BY <1>3, <1>4, <1>10, TellsStay DEF LoopTells, HeirPcs
  <2>3. LoopWillTell(p, watch'[p])
    BY <1>4, <1>7, <2>1, <2>2 DEF LoopWillTell, HeirPcs
  <2>4. \A k \in Key : store'[k] # None /\ handles'[k] # None =>
          WillTell(store'[k], handles'[k]) \/ (watch'[p].key = k /\ watch'[p].pc \in HeirPcs)
    BY <1>8, <2>1 DEF HeirPcs
  <2> QED BY <1>4, <2>3, <2>4, LoopTellNext
<1> QED BY <1>9, <1>10

(* A relaunch, under an id that nothing lives under. *)
LEMMA RelaunchTells ==
  ASSUME Types, CopiesOK, AloneInv, BudgetInv, LifeInv, NEW p \in Process, WatchRelaunch(p)
  PROVE  LifeInv'
<1>0. WAt(p, "backoff") /\ WatchStep(p)
  BY DEF WatchRelaunch, WatchStep
<1>1. watch[p].key \in Key /\ watch[p].sb \in Record
  BY <1>0, WAtOK DEF CopyPcs
<1>2. PICK sb \in Record, k0 \in Key : sb = watch[p].sb /\ k0 = watch[p].key
  BY <1>1
<1>3. NoneAs(sb.id) /\ Dead(p) /\ Of(sb, k0) /\ Counts(sb)
  <2>1. LoopTells(p, watch[p]) /\ WatchCopy(p, watch[p]) /\ Spent(watch[p])
    BY DEF LifeInv, LoopsTell, CopiesOK, WatchCopies, BudgetInv, LoopsWithin
  <2> QED BY <1>0, <1>2, <2>1 DEF LoopTells, WatchCopy, Spent, WAt, CopyPcs, HeirPcs
<1>4. UNCHANGED <<store, handles>>
  BY DEF WatchRelaunch, storeVars, tableVars
<1>5. ASSUME NEW k \in Key, store[k] # None, handles[k] # None
      PROVE  Tells(store[k], handles[k])
  BY <1>0, <1>5, LoopTold DEF AloneInv, WAt, HeirPcs
<1>6. CASE /\ UNCHANGED proc
           /\ watch' = [watch EXCEPT ![p].pc = "crashed", ![p].sb.state = "crashed"]
  <2>1. SameProcs /\ OneLife'
    BY <1>6, DeathSame, TellsStay DEF LifeInv
  <2>2. watch'[p].pc = "crashed" /\ watch'[p].sb.id = sb.id
    BY <1>2, <1>6 DEF Types, WatchesOK, WatchType, Record
  <2>3. LoopWillTell(p, watch'[p])
    BY <1>3, <2>1, <2>2, TellsStay DEF LoopWillTell, HeirPcs, SameProcs
  <2> QED BY <1>0, <1>4, <1>5, <2>1, <2>3, TellsStay, LoopTellNext DEF AloneInv
<1>7. ASSUME NEW q \in Process, Launch(q, k0, sb),
             watch' = [watch EXCEPT ![p].pc = "running", ![p].new = q,
                         ![p].sb = [captureHandleInfo(sb, q) EXCEPT !.state = "running"]]
      PROVE  LifeInv'
  <2>1. /\ proc'[q].id = sb.id /\ proc[q] = Unborn
        /\ \A r \in Process \ {q} : proc'[r] = proc[r]
        /\ \A i : i # sb.id /\ i # None => LaunchedAs(i)' = LaunchedAs(i)
    BY <1>7, LaunchAdds DEF Launch
  <2>2. \A r \in Process \ {q} : proc'[r].id = sb.id => ~Alive(r)'
    BY <1>3, <2>1 DEF NoneAs, Alive
  <2>3. OneLife'
    BY <2>1, <2>2 DEF LifeInv, OneLife, Alive
  <2>4. Dead(p)'
    BY <1>3, <2>1 DEF Dead, Unborn
  <2>5. /\ watch'[p].pc = "running" /\ watch'[p].sb.id = sb.id
        /\ watch'[p].key = k0 /\ watch'[p].new = q
    BY <1>2, <1>7 DEF Types, WatchesOK, WatchType, captureHandleInfo, Record
  <2>6. LoopWillTell(p, watch'[p])
    BY <2>2, <2>4, <2>5 DEF LoopWillTell, WillBeOnly, HeirPcs
  <2>7. ASSUME NEW k \in Key, k # k0, store'[k] # None, handles'[k] # None
        PROVE  WillTell(store'[k], handles'[k])
    <3>1. PICK a, h : a = store[k] /\ h = handles[k]
      OBVIOUS
    <3>2. Tells(a, h) /\ a \in Record /\ Of(a, k)
      BY <1>4, <1>5, <2>7, <3>1, OrNoneElim DEF Types, StoreOK, CopiesOK, StoreCopies
    <3>3. a.id # sb.id /\ a.id # None
      BY <1>3, <2>7, <3>2, CopyKeys, ConstantsAssumption DEF AloneInv, Record
    <3>4. LaunchesOf(a.id) = LaunchedAs(a.id)
      BY <2>1, <3>3 DEF LaunchesOf, LaunchedAs
    <3>5. WillBeOnly(a.id, h)
      BY <2>1, <3>2, <3>3 DEF Tells, OnlyAs, WillBeOnly, Alive
    <3> QED BY <1>4, <3>1, <3>2, <3>4, <3>5 DEF Tells, Counts, WillTell
  <2> QED BY <1>0, <2>3, <2>5, <2>6, <2>7, LoopTellNext DEF AloneInv, HeirPcs
<1> QED BY <1>2, <1>6, <1>7 DEF WatchRelaunch

LEMMA WatchTells ==
  ASSUME Types, CopiesOK, AloneInv, Handled, BudgetInv, LifeInv,
         NEW p \in Process, WatchStep(p)
  PROVE  LifeInv'
<1> USE DEF AloneInv
<1>1. CASE WatchRelaunch(p)
  BY <1>1, RelaunchTells
<1>2. CASE WatchRestarting(p) \/ WatchCrashed(p) \/ WatchRunning(p) \/ WatchFinal(p)
  <2>1. PICK from \in {"restarting", "crashed", "running", "final"} :
          /\ WatchPut(p, from)
          /\ \/ from = "restarting" /\ WGoto(p, "backoff")
             \/ from = "crashed" /\ WGoto(p, "crashed.clear")
             \/ from = "running" /\ WGoto(p, "sethandle")
             \/ from = "final" /\ WDone(p)
    BY <1>2 DEF WatchRestarting, WatchCrashed, WatchRunning, WatchFinal
  <2>2. watch'[p].pc = "sethandle" => from = "running"
    BY <2>1 DEF WGoto, WDone, NoWatch, Types, WatchesOK, WatchType
  <2>3. WGoto(p, "sethandle") => watch'[p].pc = "sethandle"
    BY DEF WGoto, Types, WatchesOK, WatchType
  <2>4. PutGoes(p, from) /\ from \in CopyPcs
    BY <2>1 DEF PutGoes, CopyPcs
  <2>5. /\ from = "running" => WGoto(p, "sethandle")
        /\ from # "running" => ~WGoto(p, "sethandle")
    BY <2>1, <2>2, <2>3
  <2> QED BY <2>4, <2>5, WatchPutTells
<1>3. CASE WatchExit(p) \/ WatchGet(p) \/ WatchCrashedClear(p) \/ WatchClear(p)
           \/ WatchSetHandle(p)
  <2>1. UNCHANGED <<store, proc>> /\ SameProcs /\ OneLife' /\ SameLaunches
    <3>1. UNCHANGED <<store, proc>>
      BY <1>3 DEF WatchExit, WatchGet, WatchCrashedClear, WatchClear, WatchSetHandle, storeVars
    <3> QED BY <3>1, DeathSame, TellsStay, WithinKept DEF LifeInv
  <2>2. PICK k0, w : w = watch[p] /\ k0 = watch[p].key
    OBVIOUS
  <2>3. LoopTells(p, w) /\ (Dead(p) => Dead(p)')
    BY <2>1, <2>2 DEF LifeInv, LoopsTell, SameProcs
  <2>4. ASSUME NEW k \in Key, store[k] # None, handles[k] # None, k # k0 \/ w.pc \notin HeirPcs
        PROVE  WillTell(store[k], handles[k])
    BY <2>1, <2>2, <2>4, LoopTold, TellsStay
  <2>5. CASE WDone(p) /\ w.pc \notin HeirPcs /\ \A k \in Key : handles'[k] \in {None, handles[k]}
    <3>1. watch'[p].pc = "none"
      BY <2>5 DEF WDone, NoWatch, Types, WatchesOK
    <3>2. LoopWillTell(p, watch'[p])
      BY <3>1 DEF LoopWillTell, CopyPcs, HeirPcs
    <3> QED BY <2>1, <2>4, <2>5, <3>2, LoopTellNext
  <2>6. CASE WatchExit(p)
    <3>1. WAt(p, "wait") /\ Dead(p) /\ UNCHANGED handles /\ (WDone(p) \/ WGoto(p, "get"))
      BY <2>6 DEF WatchExit, tableVars
    <3>2. ASSUME WGoto(p, "get") PROVE LifeInv'
      <4>1. watch'[p].pc = "get"
        BY <3>2 DEF WGoto, Types, WatchesOK, WatchType
      <4>2. LoopWillTell(p, watch'[p])
        BY <2>3, <3>1, <4>1 DEF LoopWillTell, CopyPcs, HeirPcs
      <4> QED BY <2>1, <2>2, <2>4, <3>1, <4>2, LoopTellNext DEF WAt, HeirPcs
    <3> QED BY <2>2, <2>5, <3>1, <3>2 DEF WAt, HeirPcs
  <2>7. CASE WatchGet(p)
    <3>1. WAt(p, "get") /\ UNCHANGED handles /\ k0 \in Key /\ w.pc = "get"
      BY <2>2, <2>7, WAtOK DEF WatchGet, WAt, tableVars
    <3>2. PICK sb : sb = store[k0]
      OBVIOUS
    <3>3. ASSUME sb # None, NEW pc \in {"restarting", "clear"}, NEW b, b.id = sb.id,
                 watch' = [watch EXCEPT ![p].pc = pc, ![p].sb = b]
          PROVE  LifeInv'
      <4>1. watch'[p].pc = pc /\ watch'[p].sb = b
        BY <3>3 DEF Types, WatchesOK, WatchType
      <4>2. NoneAs(sb.id)
        BY <2>2, <2>7, <3>2, <3>3, GetTells
      <4>3. WillBeNone(b.id) /\ Dead(p)'
        BY <2>1, <2>3, <3>1, <3>3, <4>2, TellsStay DEF LoopTells
      <4>4. LoopWillTell(p, watch'[p])
        BY <4>1, <4>3 DEF LoopWillTell, HeirPcs
      <4> QED BY <2>1, <2>2, <2>4, <3>1, <4>4, LoopTellNext DEF HeirPcs
    <3>4. sb # None => sb \in Record
      BY <3>1, <3>2, OrNoneElim DEF Types, StoreOK
    <3>5. ASSUME sb # None,
                 watch' = [watch EXCEPT ![p].pc = "restarting",
                             ![p].sb = [sb EXCEPT !.count = @ + 1, !.state = "restarting"]]
          PROVE  LifeInv'
      <4>1. [sb EXCEPT !.count = @ + 1, !.state = "restarting"].id = sb.id
        BY <3>4, <3>5 DEF Record
      <4> QED BY <3>3, <3>5, <4>1
    <3>6. ASSUME sb # None, NEW st,
                 watch' = [watch EXCEPT ![p].pc = "clear", ![p].sb = [sb EXCEPT !.state = st]]
          PROVE  LifeInv'
      <4>1. [sb EXCEPT !.state = st].id = sb.id
        BY <3>4, <3>6 DEF Record
      <4> QED BY <3>3, <3>6, <4>1
    <3> QED BY <2>2, <2>5, <2>7, <3>1, <3>2, <3>5, <3>6 DEF WatchGet, HeirPcs
  <2>8. CASE WatchCrashedClear(p) \/ WatchClear(p)
    <3>1. PICK from \in {"crashed.clear", "clear"} :
            /\ WAt(p, from) /\ clearHandle(watch[p].key)
            /\ \/ from = "crashed.clear" /\ WDone(p)
               \/ from = "clear" /\ WGoto(p, "final")
      BY <2>8 DEF WatchCrashedClear, WatchClear
    <3>2. k0 \in Key /\ w.pc = from
      BY <2>2, <3>1, WAtOK DEF WAt, CopyPcs
    <3>3. \A k \in Key : handles'[k] \in {None, handles[k]}
      BY <2>2, <3>1, <3>2, SetHandleFacts DEF clearHandle
    <3>4. ASSUME WGoto(p, "final"), from = "clear" PROVE LifeInv'
      <4>1. watch'[p].pc = "final" /\ watch'[p].sb = w.sb
        BY <2>2, <3>4 DEF WGoto, Types, WatchesOK, WatchType
      <4>2. WillBeNone(w.sb.id) /\ Dead(p)'
        BY <2>1, <2>3, <3>2, <3>4, TellsStay DEF LoopTells, CopyPcs, HeirPcs
      <4>3. LoopWillTell(p, watch'[p])
        BY <4>1, <4>2 DEF LoopWillTell, HeirPcs
      <4> QED BY <2>1, <2>4, <3>2, <3>3, <4>3, LoopTellNext DEF HeirPcs
    <3> QED BY <2>5, <3>1, <3>2, <3>3, <3>4 DEF HeirPcs
  <2>9. CASE WatchSetHandle(p)
    <3>1. /\ WAt(p, "sethandle") /\ setHandle(k0, w.new)
          /\ watch' = [watch EXCEPT ![p] = NoWatch, ![w.new] = Watching(k0, epoch'[k0])]
      BY <2>2, <2>9 DEF WatchSetHandle
    <3>2. k0 \in Key /\ w.pc = "sethandle"
      BY <2>2, <3>1, WAtOK DEF WAt, CopyPcs
    <3>3. handles'[k0] = w.new /\ \A k \in Key \ {k0} : handles'[k] = handles[k]
      BY <3>1, <3>2, SetHandleFacts
    <3>4. store[k0] = w.sb /\ OnlyAs(w.sb.id, w.new) /\ Counts(w.sb)
      BY <2>2, <2>3, <3>2 DEF LoopTells, HeirPcs, BudgetInv, LoopsWithin, Spent, CopyPcs
    <3>5. WillTell(w.sb, w.new)
      BY <2>1, <3>4, TellsStay DEF Tells
    <3>6. watch'[p].pc \in {"none", "wait"}
      BY <3>1 DEF Types, WatchesOK, Watching, NoWatch
    <3>7. LoopWillTell(p, watch'[p])
      BY <3>6 DEF LoopWillTell, CopyPcs, HeirPcs
    <3>8. \A k \in Key : store'[k] # None /\ handles'[k] # None =>
                           WillTell(store'[k], handles'[k])
      BY <2>1, <2>4, <3>3, <3>4, <3>5
    <3> QED BY <2>1, <3>7, <3>8, LoopTellNext
  <2> QED BY <1>3, <2>6, <2>7, <2>8, <2>9
<1> QED BY <1>1, <1>2, <1>3 DEF WatchStep

(* A step of nobody's: no record changes hands. *)
LEMMA StillTells ==
  ASSUME Types, LifeInv, SameProcs, UNCHANGED <<store, handles, req, watch>>
  PROVE  LifeInv'
<1>1. OneLife' /\ \A sb, p : Tells(sb, p) => WillTell(sb, p)
  BY TellsStay DEF LifeInv
<1>2. \A c \in Client : ReqWillTell(req'[c])
  <2> SUFFICES ASSUME NEW c \in Client PROVE ReqWillTell(req[c])
    OBVIOUS
  <2>1. ReqTells(req[c])
    BY DEF LifeInv, ReqsTell
  <2> QED BY <1>1, <2>1 DEF ReqTells, ReqWillTell
<1>3. \A p \in Process : LoopWillTell(p, watch'[p])
  <2> SUFFICES ASSUME NEW p \in Process PROVE LoopWillTell(p, watch[p])
    OBVIOUS
  <2>1. LoopTells(p, watch[p]) /\ (Dead(p) => Dead(p)')
    BY DEF LifeInv, LoopsTell, SameProcs
  <2> QED BY <2>1, TellsStay DEF LoopTells, LoopWillTell
<1> QED BY <1>1, <1>2, <1>3, TellNext DEF LifeInv, StoreTells, Settling

LEMMA WorldTells ==
  ASSUME OneByOne, Types, StartInv, AloneInv, BudgetInv, LifeInv,
         Crash \/ Startup \/ \E p \in Process : Exit(p)
  PROVE  LifeInv'
<1>1. SameProcs /\ OneLife'
  BY DeathSame, TellsStay
     DEF LifeInv, Crash, Startup, StartLoad, StartReattach, Serve, Reconcile, Reattach, Exit
<1>2. CASE UNCHANGED <<store, handles, req, watch>>
  BY <1>1, <1>2, StillTells
<1>3. CASE Crash
  <2>1. /\ \A k \in Key : handles'[k] = None
        /\ \A c \in Client : req'[c].pc = "idle"
        /\ \A p \in Process : watch'[p].pc = "none"
    BY <1>3 DEF Crash, IdleReq, NoWatch
  <2> QED BY <1>1, <2>1, TellNext
          DEF ReqWillTell, LoopWillTell, Placing, SbPcs, UpdatePcs, CopyPcs, HeirPcs
<1>4. ASSUME Startup, UNCHANGED req, Lull,
             \A k \in Key : store'[k] # None /\ handles'[k] # None =>
               WillTell(store'[k], handles'[k])
      PROVE  LifeInv'
  <2>1. \A c \in Client : ~Working(c)
    BY <1>4, WorldFree DEF AloneInv
  <2>2. \A c \in Client : ReqWillTell(req'[c])
    BY <1>4, <2>1 DEF Working, ReqWillTell, AttachPcs, SbPcs, UpdatePcs, Placing
  <2> QED BY <1>1, <1>4, <2>2, LullTells, TellNext
<1>5. CASE StartLoad \/ \E k \in Key : Reconcile(k)
  <2>1. UNCHANGED <<handles, req, watch>> /\ \A k \in Key : handles[k] = None
    BY <1>5 DEF StartLoad, Reconcile, tableVars, StartInv
  <2>2. Lull
    BY <1>5, <2>1, WorldFree, IdleLull DEF AloneInv, Startup
  <2> QED BY <1>4, <1>5, <2>1, <2>2 DEF Startup
<1>6. ASSUME NEW k \in Key, Reattach(k), Alive(store[k].pid)
      PROVE  LifeInv'
  <2>1. PICK sb, p : sb = store[k] /\ p = store[k].pid
    OBVIOUS
  <2>2. /\ setHandle(k, p) /\ UNCHANGED <<store, req, proc>>
        /\ watch' = [watch EXCEPT ![p] = Watching(k, epoch'[k])]
    BY <1>6, <2>1 DEF Reattach, storeVars
  <2>3. sb # None /\ Within(sb) /\ Alive(p) /\ p = sb.pid
    BY <1>6, <2>1 DEF Reattach, StartInv, BudgetInv, StoreWithin
  <2>4. WillTell(sb, p)
    <3>1. Tells(sb, p)
      BY <2>3 DEF Within, Tells, OnlyAs, LifeInv, OneLife
    <3> QED BY <1>1, <3>1, TellsStay
  <2>5. ASSUME NEW l \in Key, l # k, store[l] # None, handles[l] # None
        PROVE  WillTell(store[l], handles[l])
    <3>1. (\A c \in Client : ~Working(c)) /\ \A q \in Process : ~Busy(q)
      BY <1>6, WorldFree DEF AloneInv, Startup
    <3>2. ~Settling(l)
      BY <3>1 DEF Settling, Working, Busy, Waits, Placing, AttachPcs, HeirPcs
    <3> QED BY <1>1, <2>5, <3>2, TellsStay DEF LifeInv, StoreTells
  <2>6. handles'[k] = p /\ \A l \in Key \ {k} : handles'[l] = handles[l]
    BY <2>2, SetHandleFacts
  <2>7. \A l \in Key : store'[l] # None /\ handles'[l] # None => WillTell(store'[l], handles'[l])
    BY <2>1, <2>2, <2>4, <2>5, <2>6
  <2>8. Lull
    BY <1>6, <2>2, WorldFree, IdleLull DEF AloneInv, Startup
  <2> QED BY <1>4, <1>6, <2>2, <2>7, <2>8 DEF Startup
<1>7. CASE /\ ~Crash /\ ~StartLoad /\ ~ \E k \in Key : Reconcile(k)
           /\ ~ \E k \in Key : Reattach(k) /\ Alive(store[k].pid)
  <2>1. UNCHANGED <<store, handles, req, watch>>
    BY <1>7 DEF Exit, Startup, StartReattach, Serve, Reattach, storeVars, tableVars
  <2> QED BY <1>2, <2>1
<1> QED BY <1>3, <1>5, <1>6, <1>7

LEMMA LifeNext ==
  ASSUME OneByOne, Undone, IInv, AloneInv, Handled, BudgetInv, LifeInv, [Next]_vars
  PROVE  LifeInv'
<1> USE DEF IInv
<1>1. CASE UNCHANGED vars
  <2>1. UNCHANGED <<store, handles, proc, req, watch>>
    BY <1>1 DEF vars
  <2> QED BY <2>1, DeathSame, StillTells
<1>2. ASSUME NEW c \in Client, RequestStep(c), ~AttachStep(c)
      PROVE  LifeInv'
  <2>1. Working(c)
    BY <1>2, WorkingStep
  <2>2. CASE req[c].pc \notin RunPcs
    BY <1>2, <2>1, <2>2, StepTells DEF AloneInv
  <2>3. CASE req[c].pc \in RunPcs
    <3>1. RunLaunch(c) \/ RunPut(c) \/ RunUndo(c) \/ RunSetHandle(c) \/ RunWatch(c)
      BY <1>2, <2>3, RunSteps
    <3> QED BY <2>1, <3>1, RunLaunchTells, RunTells DEF AloneInv
  <2> QED BY <2>2, <2>3
<1>3. ASSUME NEW c \in Client, RequestBegin(c) \/ AttachStep(c) \/ SessionEnd(c)
      PROVE  LifeInv'
  BY <1>3, BeginTells, SessionTells DEF AloneInv
<1>4. ASSUME NEW p \in Process, WatchStep(p)
      PROVE  LifeInv'
  BY <1>4, WatchTells
<1>5. CASE Crash \/ Startup \/ \E p \in Process : Exit(p)
  BY <1>5, WorldTells
<1> QED BY <1>1, <1>2, <1>3, <1>4, <1>5 DEF Next

LEMMA LifeInit == Init => Handled /\ LifeInv
<1> SUFFICES ASSUME Init PROVE Handled /\ LifeInv
  OBVIOUS
<1>1. /\ \A k \in Key : store[k] = None
      /\ \A c \in Client : req[c].pc = "idle"
      /\ \A p \in Process : watch[p].pc = "none" /\ ~Alive(p)
  BY DEF Init, IdleReq, NoWatch, Unborn, Alive
<1> QED BY <1>1 DEF Handled, LoopInHand, StartInHand, Waits, Starts, LifeInv, OneLife, StoreTells,
                    ReqsTell, ReqTells, LoopsTell, LoopTells, Placing, SbPcs, UpdatePcs,
                    CopyPcs, HeirPcs

(* No crash loop: where one goroutine is at work at a time, an on-failure
   sandbox is launched at most 1 + MaxRestart times, whatever Updates, Reloads,
   Merges, Stops and restarts of murod come between its crashes, and whatever
   writes of its record fail: no record that a relaunch goes by has forgotten an
   earlier one. *)
THEOREM LaunchesAreCounted ==
  ASSUME OneByOne, Limited, Undone
  PROVE  Spec => []RestartBudget
<1>1. IInv /\ AloneInv /\ [Next]_vars => AloneInv'
  BY AloneNext
<1>2. IInv /\ AloneInv /\ Handled /\ [Next]_vars => Handled'
  BY HandledNext
<1>3. IInv /\ AloneInv /\ Handled /\ LifeInv /\ BudgetInv /\ [Next]_vars => BudgetInv'
  BY BudgetNext
<1>4. IInv /\ AloneInv /\ Handled /\ LifeInv /\ BudgetInv /\ [Next]_vars => LifeInv'
  BY LifeNext
<1>5. BudgetInv => RestartBudget
  BY DEF BudgetInv, Counted, RestartBudget, LaunchedAs
<1> QED BY Invariant, AloneInit, LifeInit, BudgetInit, <1>1, <1>2, <1>3, <1>4, <1>5, PTL DEF Spec

----------------------------------------------------------------------------
(* BridgesUp.  What is held of a record, as it will be. *)

WillBeUp(sb) == sb.id \in agents' /\ (sb.git => sb.id \in tools')
ReqWillBeUp(r) ==
  /\ r.pc \in {"run.launch", "run.put"} => WillBeUp(r.sb)
  /\ r.pc = "run.sethandle" => (store'[r.key] # None => WillBeUp(store'[r.key]))
  /\ r.pc \in {"reload.handle", "reload.put", "merge.put"} =>
       (handles'[r.key] # None => WillBeUp(r.sb))
  /\ r.pc \in UpdatePcs =>
       \A k \in Key : r.todo[k] # None /\ handles'[k] # None => WillBeUp(r.todo[k])
LoopWillBeUp(w) ==
  /\ w.pc \in CopyPcs => WillBeUp(w.sb)
  /\ w.pc = "sethandle" => (store'[w.key] # None => WillBeUp(store'[w.key]))

(* The one request that may be stopping a sandbox. *)
Stops(c, k) == req[c].key = k /\ req[c].pc \in StopPcs

LEMMA UpNext ==
  ASSUME \A k \in Key : store'[k] # None /\ handles'[k] # None =>
           WillBeUp(store'[k]) \/ \E c \in Client : req'[c].key = k /\ req'[c].pc \in StopPcs,
         \A c \in Client : ReqWillBeUp(req'[c]),
         \A p \in Process : LoopWillBeUp(watch'[p])
  PROVE  StoreUp' /\ ReqsUp' /\ LoopsUp'
<1>1. StoreUp'
  BY DEF StoreUp, Stopping, Up, WillBeUp
<1>2. ReqsUp'
  <2> SUFFICES ASSUME NEW c \in Client PROVE ReqUp(req[c])'
    BY DEF ReqsUp
  <2>1. ReqWillBeUp(req'[c])
    OBVIOUS
  <2> QED BY <2>1 DEF ReqWillBeUp, ReqUp, Up, WillBeUp
<1>3. LoopsUp'
  <2> SUFFICES ASSUME NEW p \in Process PROVE WatchUp(watch[p])'
    BY DEF LoopsUp
  <2>1. LoopWillBeUp(watch'[p])
    OBVIOUS
  <2> QED BY <2>1 DEF LoopWillBeUp, WatchUp, Up, WillBeUp
<1> QED BY <1>1, <1>2, <1>3

(* While one request is at work nobody else has a copy of a record. *)
NoCopies == \A p \in Process : watch'[p].pc \notin CopyPcs
Alone(c) == Others(c) /\ \A d \in Client \ {c} : ~Working(d)

LEMMA RequestUp ==
  ASSUME NEW c \in Client, Alone(c), NoCopies, ReqWillBeUp(req'[c]),
         \A k \in Key : store'[k] # None /\ handles'[k] # None =>
           WillBeUp(store'[k]) \/ (req'[c].key = k /\ req'[c].pc \in StopPcs)
  PROVE  StoreUp' /\ ReqsUp' /\ LoopsUp'
<1>1. \A d \in Client \ {c} : req'[d].pc \in {"idle"} \cup AttachPcs
  BY DEF Alone, Others, Working
<1>2. \A d \in Client : ReqWillBeUp(req'[d])
  BY <1>1 DEF ReqWillBeUp, AttachPcs, UpdatePcs
<1>3. \A p \in Process : LoopWillBeUp(watch'[p])
  BY DEF NoCopies, LoopWillBeUp, CopyPcs
<1> QED BY <1>2, <1>3, UpNext

LEMMA StoreIsUp ==
  ASSUME StoreUp, NEW c \in Client, \A d \in Client \ {c} : ~Working(d),
         NEW k \in Key, store[k] # None, handles[k] # None
  PROVE  Up(store[k]) \/ Stops(c, k)
<1>1. \A d \in Client : req[d].pc \in StopPcs => d = c
  BY DEF StopPcs, Working, AttachPcs
<1> QED BY <1>1 DEF StoreUp, Stopping, Stops

LEMMA StepAlone ==
  ASSUME Types, OneAtWork, NEW c \in Client, RequestStep(c), Working(c)
  PROVE  /\ Alone(c) /\ NoCopies
         /\ req[c].pc \notin RestartPcs
  BY StepOthers, StepNoCopies DEF OneAtWork, Alone, NoCopies

LEMMA UpStill ==
  ASSUME agents \subseteq agents', tools \subseteq tools'
  PROVE  \A sb : Up(sb) => WillBeUp(sb)
  BY DEF Up, WillBeUp

LEMMA RunLaunchUp ==
  ASSUME Types, CopiesOK, AloneInv, StoreUp, ReqsUp, NEW c \in Client, RunLaunch(c)
  PROVE  StoreUp' /\ ReqsUp' /\ LoopsUp'
<1>1. At(c, "run.launch")
  BY DEF RunLaunch
<1>2. /\ req[c].sb \in Record /\ Up(req[c].sb) /\ LaunchedAs(req[c].sb.id) = {}
      /\ Alone(c) /\ NoCopies
  <2>1. req[c].sb \in Record /\ req[c].pc = "run.launch"
    BY <1>1, AtOK DEF SbPcs
  <2> QED BY <2>1, LaunchWorks, StepAlone DEF AloneInv, NewIds, ReqsUp, ReqUp, RequestStep
<1>3. ASSUME NEW k \in Key, store[k] # None, handles[k] # None
      PROVE  Up(store[k]) /\ store[k].id # req[c].sb.id
  <2>1. Up(store[k])
    BY <1>1, <1>2, <1>3, StoreIsUp DEF Alone, Stops, StopPcs, At
  <2>2. Of(store[k], k)
    BY <1>3 DEF CopiesOK, StoreCopies
  <2> QED BY <1>2, <2>1, <2>2 DEF Of, LaunchedAs
<1>4. UNCHANGED <<store, handles>>
  BY DEF RunLaunch, storeVars, tableVars
<1>5. CASE /\ agents' = agents \ {req[c].sb.id} /\ tools' = tools \ {req[c].sb.id}
           /\ Done(c)
  <2>1. ReqWillBeUp(req'[c])
    BY <1>5, MoveFacts DEF ReqWillBeUp, UpdatePcs
  <2>2. \A k \in Key : store'[k] # None /\ handles'[k] # None => WillBeUp(store'[k])
    BY <1>3, <1>4, <1>5 DEF Up, WillBeUp
  <2> QED BY <1>2, <2>1, <2>2, RequestUp
<1>6. CASE \E p \in Process :
             /\ req' = [req EXCEPT ![c].pc = "run.put", ![c].new = p,
                                   ![c].sb = captureHandleInfo(req[c].sb, p)]
             /\ UNCHANGED bridgeVars
  <2>1. PICK p \in Process :
             /\ req' = [req EXCEPT ![c].pc = "run.put", ![c].new = p,
                                   ![c].sb = captureHandleInfo(req[c].sb, p)]
             /\ UNCHANGED bridgeVars
    BY <1>6
  <2>2. req'[c].pc = "run.put" /\ req'[c].sb = captureHandleInfo(req[c].sb, p)
    BY <2>1 DEF Types, ReqsOK, ReqType
  <2>3. PICK b : b = captureHandleInfo(req[c].sb, p) /\ b.id = req[c].sb.id /\ b.git = req[c].sb.git
    BY <1>2 DEF captureHandleInfo, Record
  <2>4. UNCHANGED <<agents, tools>>
    BY <2>1 DEF bridgeVars
  <2>5. ReqWillBeUp(req'[c])
    BY <1>2, <2>2, <2>3, <2>4 DEF Up, ReqWillBeUp, WillBeUp, UpdatePcs
  <2>6. \A k \in Key : store'[k] # None /\ handles'[k] # None => WillBeUp(store'[k])
    BY <1>3, <1>4, <2>4 DEF Up, WillBeUp
  <2> QED BY <1>2, <2>5, <2>6, RequestUp
<1> QED BY <1>5, <1>6 DEF RunLaunch

LEMMA StepBridges ==
  ASSUME NEW c \in Client, RequestStep(c), req[c].pc \notin RestartPcs, ~RunLaunch(c)
  PROVE  UNCHANGED <<agents, tools>>
<1>1. ~RestartHandle(c) /\ ~RestartClear(c) /\ ~RestartKill(c) /\ ~RestartLaunch(c)
      /\ ~RestartCrashed(c) /\ ~RestartPut(c) /\ ~RestartProxy(c) /\ ~RestartWatch(c)
  BY DEF RestartHandle, RestartClear, RestartKill, RestartLaunch, RestartCrashed, RestartPut,
         RestartProxy, RestartWatch, At, RestartPcs
<1> QED BY <1>1 DEF RequestStep, RunPut, RunUndo, RunSetHandle, RunWatch, UpdatePut,
           UpdateProxy, ReloadHandle, ReloadPut, StopPut, StopHandle, StopClear, StopKill,
           DeleteStore, MergePut, AttachTry, AttachHandle, AttachDial, AttachDetach, bridgeVars

LEMMA NothingTaken ==
  ASSUME Types, NEW c \in Client, Done(c)
  PROVE  ReqWillBeUp(req'[c])
  BY MoveFacts DEF ReqWillBeUp, UpdatePcs

LEMMA RunUp ==
  ASSUME OneByOne, Types, AloneInv, StoreUp, ReqsUp, NEW c \in Client, Working(c),
         RunPut(c) \/ RunUndo(c) \/ RunSetHandle(c) \/ RunWatch(c)
  PROVE  StoreUp' /\ ReqsUp' /\ LoopsUp'
<1>1. /\ Alone(c) /\ NoCopies /\ UNCHANGED <<agents, tools>>
      /\ req[c].key \in Key /\ ReqUp(req[c])
      /\ req[c].pc \in {"run.put", "run.undo", "run.sethandle", "run.watch"}
  <2>1. req[c].pc \in {"run.put", "run.undo", "run.sethandle", "run.watch"}
    BY DEF RunPut, RunUndo, RunSetHandle, RunWatch, At
  <2>2. req[c].key \in Key
    BY <2>1 DEF Types, ReqsOK, ReqOK, NoKeyPcs
  <2> QED BY <2>1, <2>2, StepAlone, StepBridges
          DEF AloneInv, RequestStep, RunLaunch, At, ReqsUp
<1>2. ASSUME NEW k \in Key, store[k] # None, handles[k] # None
      PROVE  WillBeUp(store[k])
  BY <1>1, <1>2, StoreIsUp, UpStill DEF Alone, Stops, StopPcs
<1>3. CASE RunPut(c)
  <2>1. /\ Up(req[c].sb) /\ Set(req[c].key, req[c].sb)
        /\ Goto(c, "run.sethandle") \/ Goto(c, "run.undo")
    BY <1>1, <1>3 DEF RunPut, At, ReqUp
  <2>2. \A k \in Key : store'[k] = store[k] \/ WillBeUp(store'[k])
    BY <1>1, <2>1, SetRows, UpStill
  <2>3. store'[req[c].key] = req[c].sb
    BY <1>1, <2>1 DEF Set, Types, StoreOK
  <2>4. ReqWillBeUp(req'[c])
    BY <1>1, <2>1, <2>3, GotoFacts, UpStill DEF ReqWillBeUp, UpdatePcs
  <2>5. UNCHANGED handles
    BY <1>3 DEF RunPut, tableVars
  <2> QED BY <1>1, <1>2, <2>2, <2>4, <2>5, RequestUp
<1>4. CASE RunUndo(c) \/ RunWatch(c)
  <2>1. Done(c) /\ UNCHANGED <<store, handles>>
    BY <1>4 DEF RunUndo, RunWatch, storeVars, tableVars
  <2> QED BY <1>1, <1>2, <2>1, NothingTaken, RequestUp
<1>5. CASE RunSetHandle(c)
  <2>1. At(c, "run.sethandle") /\ setHandle(req[c].key, req[c].new) /\ UNCHANGED store
    BY <1>5 DEF RunSetHandle, storeVars
  <2>2. \A k \in Key \ {req[c].key} : handles'[k] = handles[k]
    BY <1>1, <2>1, SetHandleFacts
  <2>3. store[req[c].key] # None => WillBeUp(store[req[c].key])
    BY <1>1, <2>1, UpStill DEF ReqUp, At
  <2>4. PICK e : req' = [req EXCEPT ![c].pc = "run.watch", ![c].epoch = e]
    BY <1>5 DEF RunSetHandle
  <2>5. Moves(c, "run.watch")
    BY <2>4, NoteMoves
  <2>6. ReqWillBeUp(req'[c])
    BY <2>5 DEF Moves, ReqWillBeUp, UpdatePcs
  <2> QED BY <1>1, <1>2, <2>1, <2>2, <2>3, <2>6, RequestUp
<1> QED BY <1>3, <1>4, <1>5

LEMMA UpdateUp ==
  ASSUME OneByOne, Types, AloneInv, StoreUp, ReqsUp, NEW c \in Client, Working(c),
         UpdatePut(c) \/ UpdateProxy(c)
  PROVE  StoreUp' /\ ReqsUp' /\ LoopsUp'
<1>1. /\ Alone(c) /\ NoCopies /\ UNCHANGED <<agents, tools>>
      /\ ReqUp(req[c]) /\ req[c].pc \in UpdatePcs
  <2>1. req[c].pc \in UpdatePcs
    BY DEF UpdatePut, UpdateProxy, At, UpdatePcs
  <2> QED BY <2>1, StepAlone, StepBridges
          DEF AloneInv, RequestStep, RunLaunch, At, ReqsUp, UpdatePcs
<1>2. ASSUME NEW k \in Key, store[k] # None, handles[k] # None
      PROVE  WillBeUp(store[k])
  BY <1>1, <1>2, StoreIsUp, UpStill DEF Alone, Stops, StopPcs, UpdatePcs
<1>3. UNCHANGED handles
  BY DEF UpdatePut, UpdateProxy, tableVars
<1>4. \A k \in Key : req[c].todo[k] # None /\ handles[k] # None => WillBeUp(req[c].todo[k])
  BY <1>1, UpStill DEF ReqUp
<1>5. ReqWillBeUp(req'[c])
  <2>1. /\ req'[c].pc \notin SbPcs
        /\ req'[c].pc \in UpdatePcs =>
              \A k \in Key : req'[c].todo[k] \in {None, req[c].todo[k]}
    <3>1. RequestStep(c) /\ ~RunLaunch(c) /\ req[c].pc \notin SbPcs
      BY <1>1 DEF RequestStep, RunLaunch, At, UpdatePcs, SbPcs
    <3> QED BY <1>1, <3>1, StepCopies DEF UpdatePcs, RestartPcs
  <2> QED BY <1>3, <1>4, <2>1 DEF ReqWillBeUp, SbPcs
<1>6. \A k \in Key : \/ store'[k] = store[k]
                     \/ store'[k] # None /\ handles[k] # None => WillBeUp(store'[k])
  <2>1. CASE UpdateProxy(c)
    BY <2>1 DEF UpdateProxy, storeVars
  <2>2. CASE UpdatePut(c)
    <3>1. PICK k \in Key : Set(k, req[c].todo[k])
      BY <2>2 DEF UpdatePut
    <3> QED BY <1>4, <3>1, SetRows
  <2> QED BY <2>1, <2>2
<1> QED BY <1>1, <1>2, <1>3, <1>5, <1>6, RequestUp

LEMMA ReloadUp ==
  ASSUME OneByOne, Types, AloneInv, StoreUp, ReqsUp, NEW c \in Client, Working(c),
         ReloadHandle(c) \/ ReloadPut(c) \/ MergePut(c) \/ DeleteStore(c)
  PROVE  StoreUp' /\ ReqsUp' /\ LoopsUp'
<1>1. /\ Alone(c) /\ NoCopies /\ UNCHANGED <<agents, tools>>
      /\ ReqUp(req[c]) /\ req[c].key \in Key /\ req[c].sb \in Record
      /\ req[c].pc \in {"reload.handle", "reload.put", "merge.put", "delete.store"}
  <2>1. req[c].pc \in {"reload.handle", "reload.put", "merge.put", "delete.store"}
    BY DEF ReloadHandle, ReloadPut, MergePut, DeleteStore, At
  <2>2. req[c].key \in Key /\ req[c].sb \in Record
    BY <2>1 DEF Types, ReqsOK, ReqOK, NoKeyPcs, SbPcs
  <2> QED BY <2>1, <2>2, StepAlone, StepBridges
          DEF AloneInv, RequestStep, RunLaunch, At, ReqsUp
<1>2. ASSUME NEW k \in Key, store[k] # None, handles[k] # None
      PROVE  WillBeUp(store[k])
  BY <1>1, <1>2, StoreIsUp, UpStill DEF Alone, Stops, StopPcs
<1>3. UNCHANGED handles
  BY DEF ReloadHandle, ReloadPut, MergePut, DeleteStore, tableVars
<1>4. CASE ReloadHandle(c)
  <2>1. At(c, "reload.handle") /\ UNCHANGED store
    BY <1>4 DEF ReloadHandle, storeVars
  <2>2. CASE Done(c)
    BY <1>1, <1>2, <1>3, <2>1, <2>2, NothingTaken, RequestUp
  <2>3. CASE ~Done(c)
    <3>1. PICK st : req' = [req EXCEPT ![c].pc = "reload.put", ![c].sb.state = st]
      BY <1>4, <2>3 DEF ReloadHandle
    <3>2. /\ req'[c].pc = "reload.put" /\ req'[c].key = req[c].key
          /\ req'[c].sb.id = req[c].sb.id /\ req'[c].sb.git = req[c].sb.git
      BY <1>1, <3>1 DEF Types, ReqsOK, ReqType, Record
    <3>3. handles[req[c].key] # None => Up(req[c].sb)
      BY <1>1, <2>1 DEF ReqUp, At
    <3>4. ReqWillBeUp(req'[c])
      BY <1>1, <1>3, <3>2, <3>3 DEF ReqWillBeUp, WillBeUp, Up, UpdatePcs
    <3> QED BY <1>1, <1>2, <1>3, <2>1, <3>4, RequestUp
  <2> QED BY <2>2, <2>3
<1>5. CASE ReloadPut(c) \/ MergePut(c)
  <2>1. /\ req[c].pc \in {"reload.put", "merge.put"}
        /\ Set(req[c].key, req[c].sb) /\ Done(c)
    BY <1>5 DEF ReloadPut, MergePut, At
  <2>2. handles[req[c].key] # None => WillBeUp(req[c].sb)
    BY <1>1, <2>1, UpStill DEF ReqUp
  <2>3. \A k \in Key : \/ store'[k] = store[k]
                       \/ handles[k] # None => WillBeUp(store'[k])
    BY <2>1, <2>2, SetRows
  <2> QED BY <1>1, <1>2, <1>3, <2>1, <2>3, NothingTaken, RequestUp
<1>6. CASE DeleteStore(c)
  <2>1. Set(req[c].key, None) /\ Done(c)
    BY <1>6 DEF DeleteStore
  <2>2. \A k \in Key : store'[k] = store[k] \/ store'[k] = None
    BY <2>1, SetRows
  <2> QED BY <1>1, <1>2, <1>3, <2>1, <2>2, NothingTaken, RequestUp
<1> QED BY <1>4, <1>5, <1>6

LEMMA StopUp ==
  ASSUME OneByOne, StopsSaved, Types, AloneInv, StoreUp, ReqsUp, StopAsked,
         NEW c \in Client, Working(c),
         StopPut(c) \/ StopHandle(c) \/ StopClear(c) \/ StopKill(c)
  PROVE  StoreUp' /\ ReqsUp' /\ LoopsUp'
<1>1. /\ Alone(c) /\ NoCopies /\ UNCHANGED <<agents, tools>>
      /\ req[c].key \in Key
      /\ req[c].pc \in {"stop.put", "stop.handle", "stop.clear", "stop.kill"}
  <2>1. req[c].pc \in {"stop.put", "stop.handle", "stop.clear", "stop.kill"}
    BY DEF StopPut, StopHandle, StopClear, StopKill, At
  <2>2. req[c].key \in Key
    BY <2>1 DEF Types, ReqsOK, ReqOK, NoKeyPcs
  <2> QED BY <2>1, <2>2, StepAlone, StepBridges DEF AloneInv, RequestStep, RunLaunch, At
<1>2. ASSUME NEW k \in Key, store[k] # None, handles[k] # None
      PROVE  WillBeUp(store[k]) \/ Stops(c, k)
  BY <1>1, <1>2, StoreIsUp, UpStill DEF Alone
<1>3. ASSUME NEW pc, Goto(c, pc), pc \in StopPcs \cup {"stop.kill"}
      PROVE  /\ ReqWillBeUp(req'[c])
             /\ pc \in StopPcs => req'[c].key = req[c].key /\ req'[c].pc \in StopPcs
  BY <1>3, GotoFacts DEF ReqWillBeUp, StopPcs, UpdatePcs
<1>4. CASE StopPut(c)
  <2>1. Goto(c, "stop.handle") /\ Set(req[c].key, req[c].sb) /\ UNCHANGED handles
    BY <1>4 DEF StopPut, At, StopAsked, StopsSaved, NotPersisted, tableVars
  <2>2. \A k \in Key : k # req[c].key => store'[k] = store[k]
    BY <2>1, SetRows
  <2>3. /\ ReqWillBeUp(req'[c])
        /\ req'[c].key = req[c].key /\ req'[c].pc \in StopPcs
    BY <1>3, <2>1 DEF StopPcs
  <2> QED BY <1>1, <1>2, <2>1, <2>2, <2>3, RequestUp DEF Stops
<1>5. CASE StopHandle(c)
  <2>1. UNCHANGED <<store, handles>>
    BY <1>5 DEF StopHandle, storeVars, tableVars
  <2>2. CASE handles[req[c].key] = None /\ Done(c)
    BY <1>1, <1>2, <2>1, <2>2, NothingTaken, RequestUp DEF Stops
  <2>3. CASE handles[req[c].key] # None
    <3>1. req' = [req EXCEPT ![c].pc = "stop.clear", ![c].old = handles[req[c].key]]
      BY <1>5, <2>3 DEF StopHandle
    <3>2. req'[c].pc = "stop.clear" /\ req'[c].key = req[c].key
      BY <3>1, OldFacts
    <3>3. ReqWillBeUp(req'[c])
      BY <3>2 DEF ReqWillBeUp, UpdatePcs
    <3> QED BY <1>1, <1>2, <2>1, <3>2, <3>3, RequestUp DEF Stops, StopPcs
  <2> QED BY <1>5, <2>2, <2>3 DEF StopHandle
<1>6. CASE StopClear(c)
  <2>1. clearHandle(req[c].key) /\ Goto(c, "stop.kill") /\ UNCHANGED store
    BY <1>6 DEF StopClear, storeVars
  <2>2. /\ handles'[req[c].key] = None
        /\ \A k \in Key \ {req[c].key} : handles'[k] = handles[k]
    BY <1>1, <2>1, SetHandleFacts
  <2> QED BY <1>1, <1>2, <1>3, <2>1, <2>2, RequestUp DEF Stops
<1>7. CASE StopKill(c)
  <2>1. Done(c) /\ UNCHANGED <<store, handles>> /\ req[c].pc = "stop.kill"
    BY <1>7 DEF StopKill, At, storeVars, tableVars
  <2> QED BY <1>1, <1>2, <2>1, NothingTaken, RequestUp DEF Stops, StopPcs
<1> QED BY <1>4, <1>5, <1>6, <1>7

LEMMA BeginUp ==
  ASSUME OneByOne, Types, CopiesOK, AloneInv, StoreUp, NEW c \in Client, RequestBegin(c)
  PROVE  StoreUp' /\ ReqsUp' /\ LoopsUp'
<1>1. /\ Alone(c) /\ NoCopies /\ UNCHANGED <<store, handles>>
      /\ ~Working(c)
  <2>1. \A p \in Process : watch[p].pc \notin CopyPcs
    BY BeginFree, CopyBusy
  <2> QED BY <2>1, BeginFree, BeginOneAtWork
          DEF AloneInv, Alone, NoCopies, storeVars, tableVars
<1>2. ASSUME NEW k \in Key, store[k] # None, handles[k] # None
      PROVE  Up(store[k])
  BY <1>1, <1>2, StoreIsUp DEF Alone, Stops, StopPcs, Working, AttachPcs
<1>3. ASSUME NEW k \in Key, RunCheck(c, k)
      PROVE  StoreUp' /\ ReqsUp' /\ LoopsUp'
  <2>1. PICK sb : /\ startAgentBridge(k, sb) /\ startToolBridge(sb)
                  /\ Open(c, "run.launch", k, sb, None)
    BY <1>3 DEF RunCheck
  <2>2. agents \subseteq agents' /\ tools \subseteq tools' /\ WillBeUp(sb)
    BY <2>1 DEF startAgentBridge, startToolBridge, WillBeUp
  <2>3. ReqWillBeUp(req'[c])
    BY <2>1, <2>2, OpenRow DEF ReqWillBeUp, UpdatePcs
  <2> QED BY <1>1, <1>2, <2>2, <2>3, UpStill, RequestUp
<1>4. ASSUME NEW k \in Key, StopGet(c, k)
      PROVE  StoreUp' /\ ReqsUp' /\ LoopsUp'
  <2>1. /\ store[k] # None
        /\ Open(c, "stop.put", k, [store[k] EXCEPT !.state = "stopped"], None)
        /\ agents' = agents \ {store[k].id} /\ tools' = tools \ {store[k].id}
    BY <1>4 DEF StopGet
  <2>2. req'[c].pc = "stop.put" /\ req'[c].key = k
    BY <2>1, OpenRow
  <2>3. ReqWillBeUp(req'[c])
    BY <2>2 DEF ReqWillBeUp, UpdatePcs
  <2>4. ASSUME NEW l \in Key \ {k}, store[l] # None, handles[l] # None
        PROVE  WillBeUp(store[l])
    <3>1. Of(store[l], l) /\ Of(store[k], k)
      BY <2>1, <2>4 DEF CopiesOK, StoreCopies
    <3>2. store[l].id # store[k].id
      BY <2>4, <3>1, CopyKeys DEF AloneInv
    <3> QED BY <1>2, <2>1, <2>4, <3>2 DEF Up, WillBeUp
  <2> QED BY <1>1, <2>2, <2>3, <2>4, RequestUp DEF StopPcs
<1>5. ASSUME UNCHANGED <<agents, tools>>, ReqWillBeUp(req'[c])
      PROVE  StoreUp' /\ ReqsUp' /\ LoopsUp'
  BY <1>1, <1>2, <1>5, UpStill, RequestUp
<1>6. ASSUME NEW k \in Key, store[k] # None, handles[k] # None, NEW sb, Kin(store[k], sb),
             UNCHANGED <<agents, tools>>
      PROVE  WillBeUp(sb)
  BY <1>2, <1>6, UpStill DEF Kin, WillBeUp
<1>7. ASSUME NEW k \in Key, store[k] # None
      PROVE  store[k] \in Record
  BY <1>7, OrNoneElim DEF Types, StoreOK
<1>8. CASE UpdateBegin(c)
  <2>1. PICK d \in Delta,
             targets \in {{k} : k \in Key} \cup
                       {{k \in Key : store[k] # None /\ isActive(store[k].state)}} :
          /\ \A k \in targets : store[k] # None
          /\ req' = [req EXCEPT ![c] =
               [IdleReq EXCEPT !.pc = "update.put", !.arg = d,
                  !.todo = [k \in Key |-> IF k \in targets
                                          THEN Candidate(store[k], d) ELSE None]]]
    BY <1>8 DEF UpdateBegin
  <2>2. /\ req'[c].pc = "update.put"
        /\ \A k \in Key : req'[c].todo[k] = IF k \in targets
                                            THEN Candidate(store[k], d) ELSE None
    BY <2>1 DEF Types, ReqsOK, IdleReq
  <2>3. UNCHANGED <<agents, tools>>
    BY <1>8 DEF UpdateBegin, bridgeVars
  <2>4. ASSUME NEW k \in Key, k \in targets, handles[k] # None
        PROVE  WillBeUp(Candidate(store[k], d))
    <3>1. store[k] \in Record /\ store[k] # None
      BY <1>7, <2>1, <2>4
    <3>2. Kin(store[k], Candidate(store[k], d))
      BY <3>1 DEF Candidate, Record, Kin
    <3> QED BY <1>6, <2>3, <2>4, <3>1, <3>2
  <2>5. ReqWillBeUp(req'[c])
    BY <1>1, <2>2, <2>4 DEF ReqWillBeUp
  <2> QED BY <1>5, <2>3, <2>5
<1>9. ASSUME NEW k \in Key, ReloadGet(c, k) \/ MergeGet(c, k)
      PROVE  StoreUp' /\ ReqsUp' /\ LoopsUp'
  <2>1. store[k] # None /\ store[k] \in Record /\ UNCHANGED <<agents, tools>>
    BY <1>7, <1>9 DEF ReloadGet, MergeGet, bridgeVars
  <2>2. PICK sb, pc : Kin(store[k], sb) /\ pc \in {"reload.handle", "merge.put"} /\ Open(c, pc, k, sb, None)
    <3>1. CASE ReloadGet(c, k)
      BY <3>1 DEF ReloadGet, Kin
    <3>2. CASE MergeGet(c, k)
      <4>1. PICK wt : Open(c, "merge.put", k,
              [store[k] EXCEPT !.mounts = @ \ {wt},
               !.state = IF isActive(@) THEN "reload-pending" ELSE @], None)
        BY <3>2 DEF MergeGet
      <4>2. Kin(store[k], [store[k] EXCEPT !.mounts = @ \ {wt},
               !.state = IF isActive(@) THEN "reload-pending" ELSE @])
        BY <2>1 DEF Record, Kin
      <4> QED BY <4>1, <4>2
    <3> QED BY <1>9, <3>1, <3>2
  <2>3. ReqWillBeUp(req'[c])
    BY <1>1, <1>6, <2>1, <2>2, OpenRow DEF ReqWillBeUp, UpdatePcs
  <2> QED BY <1>5, <2>1, <2>3
<1>10. ASSUME NEW k \in Key, DeleteGet(c, k) \/ AttachGet(c, k)
       PROVE  StoreUp' /\ ReqsUp' /\ LoopsUp'
  <2>1. /\ UNCHANGED <<agents, tools>>
        /\ req'[c].pc \in {"delete.store", "attach.try"}
    BY <1>10, OpenRow DEF DeleteGet, AttachGet, bridgeVars
  <2> QED BY <1>5, <2>1 DEF ReqWillBeUp, UpdatePcs
<1> QED BY <1>3, <1>4, <1>8, <1>9, <1>10, BeginFree DEF RequestBegin

LEMMA SessionUp ==
  ASSUME Types, StoreUp, ReqsUp, LoopsUp, NEW c \in Client, AttachStep(c) \/ SessionEnd(c)
  PROVE  StoreUp' /\ ReqsUp' /\ LoopsUp'
<1>1. /\ Others(c) /\ req'[c].pc \in {"idle"} \cup AttachPcs
      /\ UNCHANGED <<store, handles, agents, tools, watch>>
  BY SessionStill DEF storeVars, tableVars, bridgeVars
<1>2. req[c].pc \notin StopPcs
  BY DEF AttachStep, SessionEnd, AttachTry, AttachHandle, AttachDial, AttachDetach, At, StopPcs
<1>3. \A d \in Client : ReqWillBeUp(req'[d])
  <2>1. ReqWillBeUp(req'[c])
    BY <1>1 DEF ReqWillBeUp, AttachPcs, UpdatePcs
  <2>2. ASSUME NEW d \in Client \ {c} PROVE ReqWillBeUp(req'[d])
    <3>1. ReqUp(req[d]) /\ req'[d] = req[d]
      BY <1>1 DEF ReqsUp, Others
    <3>2. ReqWillBeUp(req[d])
      BY <1>1, <3>1, UpStill DEF ReqUp, ReqWillBeUp
    <3> QED BY <3>1, <3>2
  <2> QED BY <2>1, <2>2
<1>4. \A p \in Process : LoopWillBeUp(watch'[p])
  BY <1>1, UpStill DEF LoopsUp, WatchUp, LoopWillBeUp
<1>5. ASSUME NEW k \in Key, store[k] # None, handles[k] # None
      PROVE  WillBeUp(store[k]) \/ \E d \in Client : req'[d].key = k /\ req'[d].pc \in StopPcs
  BY <1>1, <1>2, <1>5, UpStill DEF StoreUp, Stopping, Others
<1> QED BY <1>1, <1>3, <1>4, <1>5, UpNext

(* A loop that takes a step works for nobody else, and nobody stops. *)
LEMMA LoopUp ==
  ASSUME Types, OneAtWork, NEW p \in Process, WatchStep(p), LoopWillBeUp(watch'[p]),
         \A k \in Key : store'[k] # None /\ handles'[k] # None => WillBeUp(store'[k])
  PROVE  StoreUp' /\ ReqsUp' /\ LoopsUp'
<1>1. \A c \in Client : ReqWillBeUp(req'[c])
  BY LoopOnly DEF ReqWillBeUp, SbPcs, UpdatePcs
<1>2. \A q \in Process : LoopWillBeUp(watch'[q])
  <2>1. \A q \in Process \ {p} : LoopWillBeUp(watch'[q])
    BY LoopOnly DEF LoopWillBeUp, CopyPcs
  <2> QED BY <2>1
<1> QED BY <1>1, <1>2, UpNext

LEMMA WatchPutUp ==
  ASSUME Types, AloneInv, StoreUp, LoopsUp, NEW p \in Process,
         NEW from \in CopyPcs, PutGoes(p, from), WatchStep(p), UNCHANGED <<agents, tools>>,
         \A k \in Key : store[k] # None /\ handles[k] # None => WillBeUp(store[k])
  PROVE  StoreUp' /\ ReqsUp' /\ LoopsUp'
<1>1. WAt(p, from) /\ watch[p].key \in Key /\ Up(watch[p].sb)
  BY WAtOK DEF PutGoes, WatchPut, CopyPcs, LoopsUp, WatchUp, WAt
<1>2. /\ \A k \in Key : store'[k] = store[k] \/ store'[k] = watch[p].sb
      /\ store'[watch[p].key] = watch[p].sb /\ UNCHANGED handles
  BY <1>1, SetRows DEF PutGoes, WatchPut, Set, Types, StoreOK, tableVars
<1>3. WillBeUp(watch[p].sb)
  BY <1>1, UpStill
<1>4. LoopWillBeUp(watch'[p])
  <2>1. CASE WDone(p)
    BY <2>1 DEF WDone, Types, WatchesOK, NoWatch, CopyPcs, LoopWillBeUp
  <2>2. ASSUME NEW pc, WGoto(p, pc)
        PROVE  LoopWillBeUp(watch'[p])
    <3>1. watch'[p].sb = watch[p].sb /\ watch'[p].key = watch[p].key
      BY <2>2 DEF WGoto, Types, WatchesOK, WatchType
    <3> QED BY <1>2, <1>3, <3>1 DEF LoopWillBeUp
  <2> QED BY <2>1, <2>2 DEF PutGoes
<1> QED BY <1>2, <1>3, <1>4, LoopUp DEF AloneInv

LEMMA WatchUpNext ==
  ASSUME OneByOne, Types, AloneInv, Handled, StoreUp, LoopsUp, NEW p \in Process, WatchStep(p)
  PROVE  StoreUp' /\ ReqsUp' /\ LoopsUp'
<1>1. UNCHANGED <<agents, tools>>
  BY DEF WatchStep, WatchExit, WatchGet, WatchRestarting, WatchRelaunch, WatchCrashed,
         WatchCrashedClear, WatchRunning, WatchSetHandle, WatchClear, WatchFinal, WatchPut,
         WAt, bridgeVars
<1>2. ASSUME NEW k \in Key, store[k] # None, handles[k] # None
      PROVE  WillBeUp(store[k])
  <2>1. ~Stopping(k)
    BY WatchBusy DEF AloneInv, Stopping, StopPcs, Working, AttachPcs
  <2> QED BY <1>1, <1>2, <2>1, UpStill DEF StoreUp
<1>3. CASE WatchRestarting(p) \/ WatchCrashed(p) \/ WatchRunning(p) \/ WatchFinal(p)
  <2>1. \E from \in CopyPcs : PutGoes(p, from)
    BY <1>3 DEF WatchRestarting, WatchCrashed, WatchRunning, WatchFinal, PutGoes, CopyPcs
  <2> QED BY <1>1, <1>2, <2>1, WatchPutUp
<1>4. CASE WatchExit(p)
  <2>1. UNCHANGED <<store, handles>> /\ (WGoto(p, "get") \/ WDone(p))
    BY <1>4 DEF WatchExit, storeVars, tableVars
  <2>2. watch'[p].pc \in {"get", "none"}
    BY <2>1 DEF WGoto, WDone, NoWatch, Types, WatchesOK, WatchType
  <2>3. LoopWillBeUp(watch'[p])
    BY <2>2 DEF LoopWillBeUp, CopyPcs
  <2> QED BY <1>2, <2>1, <2>3, LoopUp DEF AloneInv
<1>5. CASE WatchGet(p)
  <2>1. WAt(p, "get") /\ UNCHANGED <<store, handles>>
    BY <1>5 DEF WatchGet, storeVars, tableVars
  <2>2. watch[p].key \in Key /\ handles[watch[p].key] # None
    <3>1. watch[p].key \in Key
      BY <2>1, WAtOK
    <3>2. handles[watch[p].key] = p
      BY <2>1 DEF WAt, Waits, Handled, LoopInHand, InHand
    <3> QED BY <3>1, <3>2, ConstantsAssumption
  <2>3. PICK sb : sb = store[watch[p].key]
    OBVIOUS
  <2>4. CASE sb = None
    <3>1. WDone(p)
      BY <1>5, <2>3, <2>4 DEF WatchGet
    <3>2. LoopWillBeUp(watch'[p])
      BY <3>1 DEF WDone, NoWatch, Types, WatchesOK, CopyPcs, LoopWillBeUp
    <3> QED BY <1>2, <2>1, <3>2, LoopUp DEF AloneInv
  <2>5. CASE sb # None
    <3>1. sb \in Record /\ WillBeUp(sb)
      BY <1>2, <2>2, <2>3, <2>5, OrNoneElim DEF Types, StoreOK
    <3>2. PICK b, pc : /\ Kin(sb, b) \/ (b.id = sb.id /\ b.git = sb.git)
                       /\ pc \in {"restarting", "clear"}
                       /\ watch' = [watch EXCEPT ![p].pc = pc, ![p].sb = b]
      <4>1. CASE watch' = [watch EXCEPT ![p].pc = "restarting",
                    ![p].sb = [sb EXCEPT !.count = @ + 1, !.state = "restarting"]]
        <5>1. PICK b : b = [sb EXCEPT !.count = @ + 1, !.state = "restarting"]
          OBVIOUS
        <5>2. b.id = sb.id /\ b.git = sb.git
          BY <3>1, <5>1 DEF Record
        <5> QED BY <4>1, <5>1, <5>2
      <4>2. CASE watch' = [watch EXCEPT ![p].pc = "clear",
                    ![p].sb = [sb EXCEPT !.state = FinalState(sb, proc[p].st = "clean")]]
        <5>1. PICK b : b = [sb EXCEPT !.state = FinalState(sb, proc[p].st = "clean")]
          OBVIOUS
        <5>2. b.id = sb.id /\ b.git = sb.git
          BY <3>1, <5>1 DEF Record
        <5> QED BY <4>2, <5>1, <5>2
      <4> QED BY <1>5, <2>3, <2>5, <4>1, <4>2 DEF WatchGet
    <3>3. watch'[p].pc \in {"restarting", "clear"} /\ watch'[p].sb = b
      BY <3>2 DEF Types, WatchesOK, WatchType
    <3>4. WillBeUp(b)
      BY <3>1, <3>2 DEF Kin, WillBeUp
    <3>5. LoopWillBeUp(watch'[p])
      BY <3>3, <3>4 DEF LoopWillBeUp
    <3> QED BY <1>2, <2>1, <3>5, LoopUp DEF AloneInv
  <2> QED BY <2>4, <2>5
<1>6. CASE WatchRelaunch(p)
  <2>1. WAt(p, "backoff") /\ UNCHANGED <<store, handles>>
    BY <1>6 DEF WatchRelaunch, storeVars, tableVars
  <2>2. PICK sb \in Record : sb = watch[p].sb /\ WillBeUp(sb)
    BY <1>1, <2>1, WAtOK, UpStill DEF WAt, LoopsUp, WatchUp, CopyPcs
  <2>3. LoopWillBeUp(watch'[p])
    <3>1. CASE \E q \in Process : watch' = [watch EXCEPT ![p].pc = "running", ![p].new = q,
                         ![p].sb = [captureHandleInfo(sb, q) EXCEPT !.state = "running"]]
      <4>1. PICK q \in Process : watch' = [watch EXCEPT ![p].pc = "running", ![p].new = q,
                         ![p].sb = [captureHandleInfo(sb, q) EXCEPT !.state = "running"]]
        BY <3>1
      <4>2. /\ watch'[p].pc = "running"
            /\ watch'[p].sb = [captureHandleInfo(sb, q) EXCEPT !.state = "running"]
        BY <4>1 DEF Types, WatchesOK, WatchType
      <4>3. watch'[p].sb.id = sb.id /\ watch'[p].sb.git = sb.git
        BY <4>2 DEF captureHandleInfo, Record
      <4> QED BY <2>2, <4>2, <4>3 DEF LoopWillBeUp, WillBeUp
    <3>2. CASE watch' = [watch EXCEPT ![p].pc = "crashed", ![p].sb.state = "crashed"]
      <4>1. watch'[p].pc = "crashed" /\ watch'[p].sb = [sb EXCEPT !.state = "crashed"]
        BY <2>2, <3>2 DEF Types, WatchesOK, WatchType
      <4>2. watch'[p].sb.id = sb.id /\ watch'[p].sb.git = sb.git
        BY <4>1 DEF Record
      <4> QED BY <2>2, <4>1, <4>2 DEF LoopWillBeUp, WillBeUp
    <3> QED BY <1>6, <2>2, <3>1, <3>2 DEF WatchRelaunch
  <2> QED BY <1>2, <2>1, <2>3, LoopUp DEF AloneInv
<1>7. CASE WatchCrashedClear(p) \/ WatchClear(p)
  <2>1. /\ watch[p].pc \in {"crashed.clear", "clear"} /\ clearHandle(watch[p].key)
        /\ UNCHANGED store
    BY <1>7 DEF WatchCrashedClear, WatchClear, WAt, storeVars
  <2>2. watch[p].key \in Key /\ WillBeUp(watch[p].sb)
    BY <1>1, <2>1, UpStill DEF Types, WatchesOK, WatchOK, LoopsUp, WatchUp, CopyPcs
  <2>3. \A k \in Key : handles'[k] = handles[k] \/ handles'[k] = None
    BY <2>1, <2>2, SetHandleFacts
  <2>4. LoopWillBeUp(watch'[p])
    <3>1. CASE WDone(p)
      BY <3>1 DEF WDone, NoWatch, Types, WatchesOK, CopyPcs, LoopWillBeUp
    <3>2. CASE WGoto(p, "final")
      <4>1. watch'[p].pc = "final" /\ watch'[p].sb = watch[p].sb
        BY <3>2 DEF WGoto, Types, WatchesOK, WatchType
      <4> QED BY <2>2, <4>1 DEF LoopWillBeUp
    <3> QED BY <1>7, <3>1, <3>2 DEF WatchCrashedClear, WatchClear
  <2> QED BY <1>2, <2>1, <2>3, <2>4, LoopUp DEF AloneInv
<1>8. CASE WatchSetHandle(p)
  <2>1. PICK k \in Key, q \in Process :
           k = watch[p].key /\ q = watch[p].new /\ setHandle(k, q)
    BY <1>8, SetHandleSteps
  <2>2. /\ \A l \in Key \ {k} : handles'[l] = handles[l]
        /\ UNCHANGED store
    BY <1>8, <2>1, SetHandleFacts DEF WatchSetHandle, storeVars
  <2>3. store[k] # None => WillBeUp(store[k])
    BY <1>1, <1>8, <2>1, UpStill DEF WatchSetHandle, WAt, LoopsUp, WatchUp
  <2>4. LoopWillBeUp(watch'[p])
    <3>1. PICK e : watch' = [watch EXCEPT ![p] = NoWatch, ![q] = Watching(k, e)]
      BY <1>8, <2>1 DEF WatchSetHandle
    <3>2. watch'[p].pc \in {"none", "wait"}
      BY <3>1 DEF Types, WatchesOK, Watching, NoWatch
    <3> QED BY <3>2 DEF LoopWillBeUp, CopyPcs
  <2> QED BY <1>2, <2>2, <2>3, <2>4, LoopUp DEF AloneInv
<1> QED BY <1>3, <1>4, <1>5, <1>6, <1>7, <1>8 DEF WatchStep

LEMMA WorldUp ==
  ASSUME OneByOne, Types, StartInv, AloneInv, StoreUp,
         Crash \/ Startup \/ \E p \in Process : Exit(p)
  PROVE  StoreUp' /\ ReqsUp' /\ LoopsUp'
<1>1. \A c \in Client : ReqWillBeUp(req'[c])
  <2>1. UNCHANGED req \/ req' = [c \in Client |-> IdleReq]
    BY DEF Crash, Startup, StartLoad, StartReattach, Serve, Reconcile, Reattach, Exit
  <2>2. \A c \in Client : req'[c].pc \in {"idle"} \cup AttachPcs
    BY <2>1, WorldFree DEF AloneInv, Working, IdleReq
  <2> QED BY <2>2 DEF ReqWillBeUp, AttachPcs, UpdatePcs
<1>2. \A p \in Process : LoopWillBeUp(watch'[p])
  <2>1. \A p \in Process : watch[p].pc \notin CopyPcs
    BY WorldFree, CopyBusy DEF AloneInv
  <2>2. ASSUME NEW p, NEW k, NEW e, watch' = [watch EXCEPT ![p] = Watching(k, e)]
        PROVE  \A q \in Process : watch'[q].pc \notin CopyPcs
    BY <2>1, <2>2 DEF Types, WatchesOK, Watching, NoWatch, CopyPcs
  <2>3. \/ UNCHANGED watch \/ watch' = [p \in Process |-> NoWatch]
        \/ \E p, k, e : watch' = [watch EXCEPT ![p] = Watching(k, e)]
    BY DEF Exit, Crash, Startup, StartLoad, StartReattach, Serve, Reconcile, Reattach
  <2>4. \A q \in Process : watch'[q].pc \notin CopyPcs
    <3>1. CASE UNCHANGED watch
      BY <2>1, <3>1
    <3>2. CASE watch' = [p \in Process |-> NoWatch]
      BY <3>2 DEF NoWatch, CopyPcs
    <3> QED BY <2>2, <2>3, <3>1, <3>2
  <2> QED BY <2>4 DEF LoopWillBeUp, CopyPcs
<1>3. \A k \in Key : store'[k] # None /\ handles'[k] # None => WillBeUp(store'[k])
  <2>1. ASSUME NEW k \in Key, store[k] # None, handles[k] # None
        PROVE  Up(store[k])
    BY <2>1, WorldFree DEF AloneInv, StoreUp, Stopping, StopPcs, Working, AttachPcs
  <2>2. CASE Crash
    BY <2>2 DEF Crash
  <2>3. CASE murod \in {"down", "reconcile"} /\ UNCHANGED handles
    BY <2>3 DEF StartInv
  <2>4. CASE UNCHANGED <<store, handles, agents, tools>>
    BY <2>1, <2>4, UpStill
  <2>5. CASE \E k \in Key : Reattach(k)
    <3>1. PICK k \in Key : Reattach(k)
      BY <2>5
    <3>2. /\ startAgentBridge(k, store[k]) /\ startToolBridge(store[k]) /\ UNCHANGED store
          /\ UNCHANGED tableVars \/ setHandle(k, store[k].pid)
      BY <3>1 DEF Reattach, storeVars
    <3>3. agents \subseteq agents' /\ tools \subseteq tools' /\ WillBeUp(store[k])
      BY <3>2 DEF startAgentBridge, startToolBridge, WillBeUp
    <3>4. \A l \in Key \ {k} : handles'[l] = handles[l]
      BY <3>2, SetHandleFacts
    <3> QED BY <2>1, <3>2, <3>3, <3>4, UpStill
  <2> QED BY <2>2, <2>3, <2>4, <2>5
          DEF Exit, Startup, StartLoad, StartReattach, Serve, Reconcile, storeVars, tableVars,
              bridgeVars
<1> QED BY <1>1, <1>2, <1>3, UpNext

(* A Stop is one that a client may ask for. *)
LEMMA StopAskedNext ==
  ASSUME OneByOne, Types, AloneInv, StopAsked, Next
  PROVE  StopAsked'
<1>1. ASSUME NEW c \in Client, RequestStep(c) \/ SessionEnd(c)
      PROVE  StopAsked'
  <2>1. Others(c) /\ req'[c].pc # "stop.put"
    BY <1>1, StepPcs, StepOthers, SessionStill DEF AloneInv, OneAtWork, AttachPcs
  <2> QED BY <2>1 DEF StopAsked, Others
<1>2. ASSUME NEW c \in Client, RequestBegin(c)
      PROVE  StopAsked'
  <2>1. Others(c)
    BY <1>2, BeginOneAtWork DEF AloneInv
  <2>2. ASSUME NEW pc, NEW k, NEW sb, Open(c, pc, k, sb, None) PROVE req'[c].pc = pc
    BY <2>2, OpenRow
  <2>3. CASE UpdateBegin(c)
    <3>1. req'[c].pc = "update.put"
      BY <2>3 DEF UpdateBegin, Types, ReqsOK, IdleReq
    <3> QED BY <2>1, <3>1 DEF StopAsked, Others
  <2>4. ASSUME NEW k \in Key, StopGet(c, k) PROVE StopAsked'
    BY <2>4 DEF StopGet, Begin, StopAsked
  <2>5. ASSUME NEW k \in Key, RunCheck(c, k) \/ ReloadGet(c, k) \/ DeleteGet(c, k)
                              \/ MergeGet(c, k) \/ AttachGet(c, k)
        PROVE  req'[c].pc # "stop.put"
    <3>1. \E pc \in ReqPcs \ {"stop.put"} : \E sb : Open(c, pc, k, sb, None)
      BY <2>5 DEF RunCheck, ReloadGet, DeleteGet, MergeGet, AttachGet, ReqPcs
    <3> QED BY <2>2, <3>1
  <2> QED BY <1>2, <2>1, <2>3, <2>4, <2>5, BeginFree DEF RequestBegin, StopAsked, Others
<1>3. ASSUME NEW p \in Process, WatchStep(p)
      PROVE  StopAsked'
  BY <1>3, WatchBusy DEF AloneInv, StopAsked
<1>4. CASE Crash \/ Startup \/ \E p \in Process : Exit(p)
  <2>1. UNCHANGED req \/ req' = [c \in Client |-> IdleReq]
    BY <1>4 DEF Crash, Startup, StartLoad, StartReattach, Serve, Reconcile, Reattach, Exit
  <2> QED BY <2>1 DEF StopAsked, IdleReq
<1> QED BY <1>1, <1>2, <1>3, <1>4 DEF Next

LEMMA BridgeNext ==
  ASSUME OneByOne, StopsSaved, IInv, AloneInv, BridgeInv, [Next]_vars
  PROVE  BridgeInv'
<1> USE DEF IInv, BridgeInv
<1>1. CASE UNCHANGED vars
  <2>1. UNCHANGED <<store, handles, epoch, agents, tools, req, watch>>
    BY <1>1 DEF vars
  <2> QED BY <2>1 DEF Handled, LoopInHand, StartInHand, InHand, Waits, Starts, StoreUp, Stopping,
                      Up, ReqsUp, ReqUp, LoopsUp, WatchUp, StopAsked
<1>2. Next => StopAsked'
  BY StopAskedNext
<1>3. ASSUME NEW c \in Client, RequestBegin(c) \/ RequestStep(c) \/ SessionEnd(c)
      PROVE  BridgeInv'
  <2>1. Handled'
    BY <1>3, RequestHandled DEF AloneInv
  <2>2. CASE RequestStep(c) /\ ~AttachStep(c)
    <3>1. Working(c)
      BY <2>2, WorkingStep
    <3>2. ~RestartHandle(c) /\ ~RestartClear(c) /\ ~RestartKill(c) /\ ~RestartLaunch(c)
          /\ ~RestartCrashed(c) /\ ~RestartPut(c) /\ ~RestartProxy(c) /\ ~RestartWatch(c)
      BY DEF RestartHandle, RestartClear, RestartKill, RestartLaunch, RestartCrashed, RestartPut,
             RestartProxy, RestartWatch, At, RestartPcs, AloneInv, OneAtWork
    <3>3. StoreUp' /\ ReqsUp' /\ LoopsUp'
      BY <2>2, <3>1, <3>2, RunLaunchUp, RunUp, UpdateUp, ReloadUp, StopUp
         DEF RequestStep, AttachStep
    <3> QED BY <1>3, <1>2, <2>1, <3>3 DEF Next
  <2> QED BY <1>3, <1>2, <2>1, <2>2, BeginUp, SessionUp DEF Next
<1>4. ASSUME NEW p \in Process, WatchStep(p)
      PROVE  BridgeInv'
  BY <1>4, <1>2, WatchHandled, WatchUpNext DEF AloneInv, Next
<1>5. CASE Crash \/ Startup \/ \E p \in Process : Exit(p)
  BY <1>5, <1>2, WorldHandled, WorldUp DEF AloneInv, Next
<1> QED BY <1>1, <1>3, <1>4, <1>5 DEF Next

LEMMA BridgeInit == Init => BridgeInv
<1> SUFFICES ASSUME Init PROVE BridgeInv
  OBVIOUS
<1>1. /\ \A k \in Key : store[k] = None
      /\ \A c \in Client : req[c].pc = "idle"
      /\ \A p \in Process : watch[p].pc = "none"
  BY DEF Init, IdleReq, NoWatch
<1> QED BY <1>1 DEF BridgeInv, Handled, LoopInHand, StartInHand, Waits, Starts, StoreUp,
                    ReqsUp, ReqUp, LoopsUp, WatchUp, UpdatePcs, CopyPcs, StopAsked

(* A sandbox whose handle murod holds has the listeners its sockets lead to,
   whatever failed launches, relaunches, Stops and Merges of it and of others
   went before, and also after murod was started again; unless a Stop has closed
   the listeners and then failed to write. *)
THEOREM BridgesAreUp ==
  ASSUME OneByOne, StopsSaved
  PROVE  Spec => []BridgesUp
<1>1. IInv /\ AloneInv /\ [Next]_vars => AloneInv'
  BY AloneNext
<1>2. IInv /\ AloneInv /\ BridgeInv /\ [Next]_vars => BridgeInv'
  BY BridgeNext
<1>3. BridgeInv => BridgesUp
  <2> SUFFICES ASSUME BridgeInv, Settled PROVE BridgesUp
    BY DEF BridgesUp
  <2>1. \A k \in Key : ~Stopping(k)
    BY DEF Settled, Quiet, Stopping, StopPcs
  <2> QED BY <2>1 DEF BridgeInv, StoreUp, Up, BridgesUp
<1> QED BY Invariant, AloneInit, BridgeInit, <1>1, <1>2, <1>3, PTL DEF Spec

=============================================================================
