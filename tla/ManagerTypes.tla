---------------------------- MODULE ManagerTypes ----------------------------
(***************************************************************************)
(* Two conjuncts of ManagerInvariant's IInv.  Types: type correctness,     *)
(* with what each control point of a handler and of a watchLoop has set.   *)
(* Then CopiesOK: no copy of a record ever strays; what is stored,         *)
(* persisted, registered or carried by a goroutine under a key is of a     *)
(* process launched for that key.                                          *)
(***************************************************************************)
EXTENDS ManagerInvariant, TLAPS

LEMMA OrNoneIntro == \A S : None \in OrNone(S) /\ \A x \in S : x \in OrNone(S)
  BY DEF OrNone

LEMMA OrNoneElim == \A S : \A x \in OrNone(S) : x # None => x \in S
  BY DEF OrNone

(* The record updates of the handlers. *)
LEMMA RecordUpdates ==
  ASSUME NEW sb \in Record
  PROVE  /\ \A s \in States : [sb EXCEPT !.state = s] \in Record
         /\ \A p \in Process : captureHandleInfo(sb, p) \in Record
         /\ [sb EXCEPT !.count = @ + 1, !.state = "restarting"] \in Record
         /\ \A p \in Process : [captureHandleInfo(sb, p) EXCEPT !.state = "running"]
                               \in Record
         /\ \A m \in SUBSET Mount, u \in SUBSET Url, s \in States :
              [sb EXCEPT !.mounts = m, !.urls = u, !.state = s] \in Record
         /\ \A m \in SUBSET Mount, s \in States :
              [sb EXCEPT !.mounts = m, !.state = s] \in Record
         /\ \A pf \in Profile : Resolved(sb, pf) \in Record
         /\ sb.id \in Id /\ sb.urls \in SUBSET Url /\ sb.mounts \in SUBSET Mount
<1>1. \A s \in States : [sb EXCEPT !.state = s] \in Record
  BY DEF Record
<1>2. \A p \in Process : captureHandleInfo(sb, p) \in Record
  BY DEF Record, captureHandleInfo
<1>3. [sb EXCEPT !.count = @ + 1, !.state = "restarting"] \in Record
  <2>1. sb.count + 1 \in Nat /\ "restarting" \in States
    BY DEF Record, States
  <2> QED BY <2>1 DEF Record
<1>4. \A p \in Process :
        [captureHandleInfo(sb, p) EXCEPT !.state = "running"] \in Record
  <2>1. "running" \in States
    BY DEF States
  <2> QED BY <1>2, <2>1 DEF Record
<1>5. \A m \in SUBSET Mount, u \in SUBSET Url, s \in States :
        [sb EXCEPT !.mounts = m, !.urls = u, !.state = s] \in Record
  BY DEF Record
<1>6. \A m \in SUBSET Mount, s \in States :
        [sb EXCEPT !.mounts = m, !.state = s] \in Record
  BY DEF Record
<1>7. ASSUME NEW pf \in Profile
      PROVE  Resolved(sb, pf) \in Record
  <2>1. pf \in [policy: Policies, mounts: SUBSET Mount, urls: SUBSET Url,
                git: BOOLEAN]
    BY ConstantsAssumption
  <2> QED BY <2>1 DEF Record, Resolved
<1>8. sb.id \in Id /\ sb.urls \in SUBSET Url /\ sb.mounts \in SUBSET Mount
  BY DEF Record
<1> QED BY <1>1, <1>2, <1>3, <1>4, <1>5, <1>6, <1>7, <1>8

LEMMA IdleOK == IdleReq \in ReqType /\ ReqOK(IdleReq)
<1>1. [k \in Key |-> None] \in Todo
  BY OrNoneIntro DEF Todo
<1>2. 0 \in Nat /\ "idle" \in ReqPcs
  BY DEF ReqPcs
<1>3. /\ None \in OrNone(Key) /\ None \in OrNone(Record)
      /\ None \in OrNone(Process) /\ None \in OrNone(Profile \cup Delta)
  BY OrNoneIntro
<1>4. IdleReq \in ReqType
  BY <1>1, <1>2, <1>3 DEF IdleReq, ReqType
<1>5. ReqOK(IdleReq)
  BY DEF ReqOK, IdleReq, NoKeyPcs, SbPcs, NewPcs, OldPcs, UpdatePcs
<1> QED BY <1>4, <1>5

LEMMA NoWatchOK == NoWatch \in WatchType /\ WatchOK(NoWatch)
<1>1. /\ None \in OrNone(Key) /\ None \in OrNone(Record)
      /\ None \in OrNone(Process)
  BY OrNoneIntro
<1>2. NoWatch \in WatchType
  BY <1>1 DEF NoWatch, WatchType, WatchPcs
<1>3. WatchOK(NoWatch)
  BY DEF WatchOK, NoWatch, CopyPcs, HeirPcs
<1> QED BY <1>2, <1>3

LEMMA WatchingOK ==
  ASSUME NEW k \in Key, NEW e \in Nat
  PROVE  Watching(k, e) \in WatchType /\ WatchOK(Watching(k, e))
<1>1. k \in OrNone(Key)
  BY OrNoneIntro
<1>2. "wait" \in WatchPcs
  BY DEF WatchPcs
<1>3. Watching(k, e) \in WatchType
  BY <1>1, <1>2, NoWatchOK DEF Watching, WatchType
<1>4. /\ Watching(k, e).pc = "wait" /\ Watching(k, e).key = k
  BY DEF Watching, NoWatch
<1>5. WatchOK(Watching(k, e))
  BY <1>4 DEF WatchOK, CopyPcs, HeirPcs
<1> QED BY <1>3, <1>5

----------------------------------------------------------------------------
(* What the pieces of an action keep. *)

LEMMA Frame ==
  /\ StoreOK /\ UNCHANGED storeVars => StoreOK'
  /\ TableOK /\ UNCHANGED tableVars => TableOK'
  /\ BridgeOK /\ UNCHANGED bridgeVars => BridgeOK'
  /\ ProxyOK /\ UNCHANGED proxyVars => ProxyOK'
  /\ StartOK /\ UNCHANGED startVars => StartOK'
  /\ BoundOK /\ UNCHANGED boundVars => BoundOK'
  /\ ProcOK /\ UNCHANGED proc => ProcOK'
  /\ ReqsOK /\ UNCHANGED req => ReqsOK'
  /\ WatchesOK /\ UNCHANGED watch => WatchesOK'
  BY DEF StoreOK, storeVars, TableOK, tableVars, BridgeOK, bridgeVars, ProxyOK,
         proxyVars, StartOK, startVars, BoundOK, boundVars, ProcOK, ReqsOK, WatchesOK

LEMMA SetOK ==
  ASSUME StoreOK, NEW k, NEW r \in OrNone(Record), Set(k, r),
         Persist \/ NotPersisted
  PROVE  StoreOK'
  BY DEF StoreOK, Set, Persist, NotPersisted

LEMMA HandleOK ==
  ASSUME TableOK, NEW k \in Key, NEW p \in OrNone(Process), setHandle(k, p)
  PROVE  TableOK' /\ epoch'[k] \in Nat
  BY DEF TableOK, setHandle

LEMMA ClearOK ==
  ASSUME TableOK, NEW k \in Key, clearHandle(k)
  PROVE  TableOK'
  BY HandleOK, OrNoneIntro DEF clearHandle

LEMMA LaunchOK ==
  ASSUME ProcOK, NEW k \in Key, NEW p \in Process, NEW sb \in Record,
         Launch(p, k, sb)
  PROVE  ProcOK'
<1>1. sb.id \in OrNone(Id) /\ sb.mounts \in SUBSET Mount /\ k \in OrNone(Key)
  BY RecordUpdates, OrNoneIntro
<1> QED BY <1>1 DEF ProcOK, ProcType, Launch

LEMMA KillOK ==
  ASSUME ProcOK, NEW p, Kill(p) \/ UNCHANGED proc
  PROVE  ProcOK'
  BY DEF ProcOK, ProcType, Kill

LEMMA AllowOK ==
  ASSUME ProxyOK, NEW sb \in Record, SetAllowlist(sb),
         addrs' \subseteq Process
  PROVE  ProxyOK'
<1>1. sb.id \in Id /\ sb.urls \in OrNone(SUBSET Url)
  BY RecordUpdates, OrNoneIntro
<1> QED BY <1>1 DEF ProxyOK, SetAllowlist

LEMMA ReqUpdate ==
  ASSUME ReqsOK, NEW c \in Client, NEW r \in ReqType, ReqOK(r),
         req' = [req EXCEPT ![c] = r]
  PROVE  ReqsOK'
  BY DEF ReqsOK

LEMMA DoneOK ==
  ASSUME ReqsOK, NEW c \in Client, Done(c)
  PROVE  ReqsOK'
  BY ReqUpdate, IdleOK DEF Done

LEMMA GotoOK ==
  ASSUME ReqsOK, NEW c \in Client, NEW pc \in ReqPcs \ UpdatePcs, Goto(c, pc),
         pc \notin NoKeyPcs => req[c].pc \notin NoKeyPcs,
         pc \in SbPcs => req[c].pc \in SbPcs,
         pc \in NewPcs => req[c].pc \in NewPcs,
         pc \in OldPcs => req[c].pc \in OldPcs
  PROVE  ReqsOK'
<1> DEFINE r == [req[c] EXCEPT !.pc = pc]
<1>1. r \in ReqType
  BY DEF ReqsOK, ReqType
<1>2. /\ r.pc = pc /\ r.key = req[c].key /\ r.sb = req[c].sb
      /\ r.new = req[c].new /\ r.old = req[c].old
  BY DEF ReqsOK, ReqType
<1>3. ReqOK(r)
  <2> HIDE DEF r
  <2> QED BY <1>2 DEF ReqsOK, ReqOK, UpdatePcs
<1>4. req' = [req EXCEPT ![c] = r]
  BY DEF Goto, ReqsOK
<1> QED BY <1>1, <1>3, <1>4, ReqUpdate

LEMMA OpenOK ==
  ASSUME ReqsOK, NEW c \in Client, NEW pc \in ReqPcs \ (UpdatePcs \cup NewPcs \cup OldPcs),
         NEW k \in Key, NEW sb \in OrNone(Record),
         NEW arg \in OrNone(Profile \cup Delta),
         pc \in SbPcs => sb \in Record,
         Open(c, pc, k, sb, arg)
  PROVE  ReqsOK'
<1> DEFINE r == [IdleReq EXCEPT !.pc = pc, !.key = k, !.sb = sb, !.arg = arg]
<1>1. k \in OrNone(Key)
  BY OrNoneIntro
<1>2. r \in ReqType
  BY <1>1, IdleOK DEF ReqType
<1>3. r.pc = pc /\ r.key = k /\ r.sb = sb
  BY DEF IdleReq
<1>4. ReqOK(r)
  <2> HIDE DEF r
  <2> QED BY <1>3 DEF ReqOK, UpdatePcs
<1>5. req' = [req EXCEPT ![c] = r]
  BY DEF Open
<1> QED BY <1>2, <1>4, <1>5, ReqUpdate

LEMMA WatchUpdate ==
  ASSUME WatchesOK, NEW p \in Process, NEW w \in WatchType, WatchOK(w),
         watch' = [watch EXCEPT ![p] = w]
  PROVE  WatchesOK'
  BY DEF WatchesOK

LEMMA WDoneOK ==
  ASSUME WatchesOK, NEW p \in Process, WDone(p)
  PROVE  WatchesOK'
  BY WatchUpdate, NoWatchOK DEF WDone

LEMMA WGotoOK ==
  ASSUME WatchesOK, NEW p \in Process, NEW pc \in WatchPcs \ {"none"}, WGoto(p, pc),
         watch[p].pc # "none",
         pc \in CopyPcs => watch[p].pc \in CopyPcs,
         pc \in HeirPcs => watch[p].pc \in HeirPcs
  PROVE  WatchesOK'
<1> DEFINE w == [watch[p] EXCEPT !.pc = pc]
<1>1. w \in WatchType
  BY DEF WatchesOK, WatchType
<1>2. w.pc = pc /\ w.key = watch[p].key /\ w.sb = watch[p].sb /\ w.new = watch[p].new
  BY DEF WatchesOK, WatchType
<1>3. WatchOK(w)
  <2> HIDE DEF w
  <2> QED BY <1>2 DEF WatchesOK, WatchOK
<1>4. watch' = [watch EXCEPT ![p] = w]
  BY DEF WGoto, WatchesOK
<1> QED BY <1>1, <1>3, <1>4, WatchUpdate

LEMMA OldOK ==
  ASSUME ReqsOK, NEW c \in Client, NEW h \in Process,
         NEW pc \in OldPcs \ NewPcs,
         req[c].pc \notin NoKeyPcs, pc \in SbPcs => req[c].pc \in SbPcs,
         req' = [req EXCEPT ![c].pc = pc, ![c].old = h]
  PROVE  ReqsOK'
<1> DEFINE r == [req[c] EXCEPT !.pc = pc, !.old = h]
<1>1. pc \in ReqPcs /\ h \in OrNone(Process) /\ pc \notin UpdatePcs
  BY OrNoneIntro DEF OldPcs, ReqPcs, UpdatePcs
<1>2. r \in ReqType
  BY <1>1 DEF ReqsOK, ReqType
<1>3. r.pc = pc /\ r.key = req[c].key /\ r.sb = req[c].sb /\ r.old = h
  BY DEF ReqsOK, ReqType
<1>4. ReqOK(r)
  <2> HIDE DEF r
  <2> QED BY <1>1, <1>3 DEF ReqsOK, ReqOK, UpdatePcs
<1>5. req' = [req EXCEPT ![c] = r]
  BY DEF ReqsOK
<1> QED BY <1>2, <1>4, <1>5, ReqUpdate

LEMMA NewOK ==
  ASSUME ReqsOK, NEW c \in Client, NEW p \in Process, NEW sb \in Record,
         NEW pc \in {"run.put", "restart.put"}, req[c].pc \notin NoKeyPcs,
         req' = [req EXCEPT ![c].pc = pc, ![c].new = p, ![c].sb = sb]
  PROVE  ReqsOK'
<1> DEFINE r == [req[c] EXCEPT !.pc = pc, !.new = p, !.sb = sb]
<1>1. /\ pc \in ReqPcs /\ pc \notin UpdatePcs /\ pc \notin OldPcs
      /\ p \in OrNone(Process) /\ sb \in OrNone(Record)
  BY OrNoneIntro DEF OldPcs, ReqPcs, UpdatePcs
<1>2. r \in ReqType
  BY <1>1 DEF ReqsOK, ReqType
<1>3. r.pc = pc /\ r.key = req[c].key /\ r.sb = sb /\ r.new = p
  BY DEF ReqsOK, ReqType
<1>4. ReqOK(r)
  <2> HIDE DEF r
  <2> QED BY <1>1, <1>3 DEF ReqsOK, ReqOK, UpdatePcs
<1>5. req' = [req EXCEPT ![c] = r]
  BY DEF ReqsOK
<1> QED BY <1>2, <1>4, <1>5, ReqUpdate

LEMMA SbOK ==
  ASSUME ReqsOK, NEW c \in Client, NEW s \in States,
         NEW pc \in {"reload.put", "restart.crashed"}, req[c].pc \in SbPcs,
         req' = [req EXCEPT ![c].pc = pc, ![c].sb.state = s]
  PROVE  ReqsOK'
<1> DEFINE sb == [req[c].sb EXCEPT !.state = s]
           r == [req[c] EXCEPT !.pc = pc, !.sb = sb]
<1>1. sb \in Record
  BY RecordUpdates DEF ReqsOK, ReqOK
<1>2. req' = [req EXCEPT ![c] = r]
  BY DEF ReqsOK, ReqType
<1> HIDE DEF sb
<1>3. /\ pc \in ReqPcs /\ pc \notin UpdatePcs \cup OldPcs \cup NewPcs
      /\ sb \in OrNone(Record) /\ req[c].pc \notin NoKeyPcs
  BY <1>1, OrNoneIntro DEF OldPcs, NewPcs, ReqPcs, UpdatePcs, SbPcs, NoKeyPcs
<1>4. r \in ReqType
  BY <1>3 DEF ReqsOK, ReqType
<1>5. r.pc = pc /\ r.key = req[c].key /\ r.sb = sb
  BY DEF ReqsOK, ReqType
<1>6. ReqOK(r)
  <2> HIDE DEF r
  <2> QED BY <1>1, <1>3, <1>5 DEF ReqsOK, ReqOK, UpdatePcs
<1> QED BY <1>2, <1>4, <1>6, ReqUpdate

(* Where a request stands, and what it therefore holds. *)
LEMMA AtOK ==
  ASSUME Types, NEW c \in Client, NEW pc, At(c, pc)
  PROVE  /\ StartOK' /\ BoundOK'
         /\ req[c] \in ReqType /\ req[c].pc = pc
         /\ pc \notin NoKeyPcs => req[c].key \in Key
         /\ pc \in SbPcs => req[c].sb \in Record /\ req[c].sb \in OrNone(Record)
         /\ pc \in NewPcs => req[c].new \in Process
         /\ pc \in OldPcs => req[c].old \in Process
  BY Frame, OrNoneIntro DEF At, Types, ReqsOK, ReqOK

LEMMA BeginOK ==
  ASSUME Types, NEW c \in Client, NEW op, Begin(c, op)
  PROVE  StartOK' /\ BoundOK'
  BY ConstantsAssumption, Frame DEF Begin, BoundOK, Types, startVars

----------------------------------------------------------------------------
(* One lemma per handler: each of its steps keeps the types. *)

LEMMA RunCheckTypes ==
  ASSUME Types, NEW c \in Client, NEW k \in Key, RunCheck(c, k)
  PROVE  Types'
<1>1. PICK pf \in Profile, id \in Id :
        LET sb == [state |-> "running", id |-> id, pid |-> None, count |-> 0,
                   policy |-> pf.policy, mounts |-> pf.mounts,
                   urls |-> pf.urls, git |-> pf.git]
        IN  /\ startAgentBridge(k, sb) /\ startToolBridge(sb)
            /\ Open(c, "run.launch", k, sb, None)
  BY DEF RunCheck
<1> DEFINE sb == [state |-> "running", id |-> id, pid |-> None, count |-> 0,
                  policy |-> pf.policy, mounts |-> pf.mounts,
                  urls |-> pf.urls, git |-> pf.git]
<1>2. sb \in Record /\ sb.id = id
  <2>1. pf \in [policy: Policies, mounts: SUBSET Mount, urls: SUBSET Url,
                git: BOOLEAN]
    BY ConstantsAssumption
  <2> QED BY <2>1 DEF Record, States
<1>3. startAgentBridge(k, sb) /\ startToolBridge(sb) /\ Open(c, "run.launch", k, sb, None)
  BY <1>1
<1> HIDE DEF sb
<1>4. ReqsOK'
  <2>1. "run.launch" \in ReqPcs \ (UpdatePcs \cup NewPcs \cup OldPcs)
    BY DEF ReqPcs, UpdatePcs, NewPcs, OldPcs
  <2>2. sb \in OrNone(Record) /\ None \in OrNone(Profile \cup Delta)
    BY <1>2, OrNoneIntro
  <2> QED BY <1>2, <1>3, <2>1, <2>2, OpenOK DEF Types
<1>5. BridgeOK'
  BY <1>2, <1>3 DEF Types, BridgeOK, startAgentBridge, startToolBridge
<1> QED BY <1>4, <1>5, BeginOK, Frame DEF RunCheck, Types

LEMMA RunTypes ==
  ASSUME Types, NEW c \in Client,
         \/ RunLaunch(c) \/ RunPut(c) \/ RunUndo(c) \/ RunSetHandle(c) \/ RunWatch(c)
  PROVE  Types'
<1> USE DEF Types, ReqPcs, SbPcs, NewPcs, OldPcs, UpdatePcs, NoKeyPcs
<1> DEFINE sb == req[c].sb
<1>1. CASE RunLaunch(c)
  <2>0. At(c, "run.launch")
    BY <1>1 DEF RunLaunch
  <2>1. sb \in Record /\ req[c].key \in Key /\ req[c].pc = "run.launch"
    BY <2>0, AtOK
  <2>2. ASSUME NEW p \in Process, Launch(p, req[c].key, sb),
               req' = [req EXCEPT ![c].pc = "run.put", ![c].new = p,
                                  ![c].sb = captureHandleInfo(sb, p)],
               UNCHANGED bridgeVars
        PROVE  Types'
    <3>1. captureHandleInfo(sb, p) \in Record
      BY <2>1, RecordUpdates
    <3>2. ReqsOK'
      BY <2>1, <2>2, <3>1, NewOK
    <3>3. ProcOK'
      BY <2>1, <2>2, LaunchOK
    <3> QED BY <1>1, <2>2, <3>2, <3>3, AtOK, Frame DEF RunLaunch
  <2>3. ASSUME agents' = agents \ {sb.id}, tools' = tools \ {sb.id},
               Done(c), UNCHANGED <<inboxes, proc>>
        PROVE  Types'
    <3>1. ReqsOK'
      BY <2>3, DoneOK
    <3>2. BridgeOK'
      BY <2>3 DEF BridgeOK
    <3> QED BY <1>1, <2>3, <3>1, <3>2, AtOK, Frame DEF RunLaunch
  <2> QED BY <1>1, <2>2, <2>3 DEF RunLaunch
<1>2. CASE RunPut(c)
  <2>1. StoreOK'
    BY <1>2, AtOK, SetOK DEF RunPut
  <2>2. ReqsOK'
    BY <1>2, AtOK, GotoOK DEF RunPut
  <2> QED BY <1>2, <2>1, <2>2, AtOK, Frame DEF RunPut
<1>3. CASE RunUndo(c)
  <2>1. ProcOK' /\ ReqsOK'
    BY <1>3, KillOK, DoneOK DEF RunUndo
  <2> QED BY <1>3, <2>1, AtOK, Frame DEF RunUndo
<1>4. CASE RunSetHandle(c)
  <2> DEFINE k == req[c].key
             r == [req[c] EXCEPT !.pc = "run.watch", !.epoch = epoch'[k]]
  <2>1. /\ k \in Key /\ req[c].new \in Process /\ sb \in Record
        /\ req[c] \in ReqType
    BY <1>4, AtOK DEF RunSetHandle
  <2>2. TableOK' /\ epoch'[k] \in Nat
    BY <1>4, <2>1, HandleOK, OrNoneIntro DEF RunSetHandle
  <2>3. r \in ReqType
    BY <2>1, <2>2 DEF ReqType
  <2>4. r.pc = "run.watch" /\ r.key = k /\ r.sb = sb /\ r.new = req[c].new
    BY <2>1 DEF ReqType
  <2>5. ReqOK(r)
    <3> HIDE DEF r
    <3> QED BY <2>1, <2>4 DEF ReqOK
  <2>6. req' = [req EXCEPT ![c] = r]
    BY <1>4 DEF RunSetHandle, ReqsOK
  <2>7. ReqsOK'
    BY <2>3, <2>5, <2>6, ReqUpdate
  <2> QED BY <1>4, <2>2, <2>7, AtOK, Frame DEF RunSetHandle
<1>5. CASE RunWatch(c)
  <2>1. /\ sb \in Record /\ req[c].new \in Process /\ req[c].key \in Key
        /\ req[c].epoch \in Nat
    BY <1>5, AtOK DEF RunWatch, ReqType
  <2>2. ProxyOK'
    BY <1>5, <2>1, AllowOK DEF RunWatch, ProxyOK
  <2>3. WatchesOK'
    BY <1>5, <2>1, WatchingOK, WatchUpdate DEF RunWatch
  <2>4. ReqsOK'
    BY <1>5, DoneOK DEF RunWatch
  <2> QED BY <1>5, <2>2, <2>3, <2>4, AtOK, Frame DEF RunWatch
<1> QED BY <1>1, <1>2, <1>3, <1>4, <1>5

LEMMA CandidateOK ==
  ASSUME NEW sb \in Record, NEW d \in Delta
  PROVE  Candidate(sb, d) \in Record
<1> DEFINE m == sb.mounts \cup d.mounts
           w == (sb.urls \cup d.allow) \ d.deny
           s == IF d.mounts # {} THEN "reload-pending"
                ELSE IF sb.state = "reload-pending" THEN "running" ELSE sb.state
<1>1. d \in [mounts: SUBSET Mount, allow: SUBSET Url, deny: SUBSET Url]
  BY ConstantsAssumption
<1>2. m \in SUBSET Mount /\ w \in SUBSET Url /\ s \in States
  BY <1>1 DEF Record, States
<1>3. Candidate(sb, d) = [sb EXCEPT !.mounts = m, !.urls = w, !.state = s]
  BY DEF Candidate, Record
<1> HIDE DEF m, w, s
<1>4. [sb EXCEPT !.mounts = m, !.urls = w, !.state = s] \in Record
  BY <1>2, RecordUpdates
<1> QED BY <1>3, <1>4

LEMMA UpdateTypes ==
  ASSUME Types, NEW c \in Client,
         UpdateBegin(c) \/ UpdatePut(c) \/ UpdateProxy(c)
  PROVE  Types'
<1> USE DEF Types, ReqPcs, SbPcs, NewPcs, OldPcs, UpdatePcs, NoKeyPcs
<1>1. CASE UpdateBegin(c)
  <2>1. PICK d \in Delta,
             targets \in {{k} : k \in Key} \cup
               {{k \in Key : store[k] # None /\ isActive(store[k].state)}} :
          /\ \A k \in targets : store[k] # None
          /\ req' = [req EXCEPT ![c] =
               [IdleReq EXCEPT !.pc = "update.put", !.arg = d,
                  !.todo = [k \in Key |-> IF k \in targets
                                          THEN Candidate(store[k], d) ELSE None]]]
    BY <1>1 DEF UpdateBegin
  <2> DEFINE todo == [k \in Key |-> IF k \in targets
                                    THEN Candidate(store[k], d) ELSE None]
             r == [IdleReq EXCEPT !.pc = "update.put", !.arg = d, !.todo = todo]
  <2>2. ASSUME NEW k \in targets
        PROVE  Candidate(store[k], d) \in Record
    <3>1. k \in Key
      BY <2>2
    <3>2. store[k] # None /\ store[k] \in OrNone(Record)
      BY <2>1, <2>2, <3>1 DEF StoreOK
    <3>3. store[k] \in Record
      BY <3>2, OrNoneElim
    <3> QED BY <3>3, CandidateOK
  <2>3. todo \in Todo
    BY <2>2, OrNoneIntro DEF Todo
  <2>4. req' = [req EXCEPT ![c] = r]
    BY <2>1
  <2> HIDE DEF todo
  <2>5. d \in OrNone(Profile \cup Delta)
    BY OrNoneIntro
  <2>6. r \in ReqType
    BY <2>3, <2>5, IdleOK DEF ReqType
  <2>7. r.pc = "update.put" /\ r.arg = d
    BY DEF IdleReq
  <2>8. ReqOK(r)
    <3> HIDE DEF r
    <3> QED BY <2>7 DEF ReqOK
  <2>9. ReqsOK'
    BY <2>4, <2>6, <2>8, ReqUpdate
  <2> QED BY <1>1, <2>9, BeginOK, Frame DEF UpdateBegin
<1>2. CASE UpdatePut(c)
  <2>1. PICK k \in Key :
          /\ req[c].todo[k] # None
          /\ Set(k, req[c].todo[k])
          /\ \/ /\ Persist
                /\ req' = [req EXCEPT ![c].pc = "update.proxy", ![c].key = k]
             \/ NotPersisted /\ Done(c)
    BY <1>2 DEF UpdatePut
  <2> DEFINE r == [req[c] EXCEPT !.pc = "update.proxy", !.key = k]
  <2>0. At(c, "update.put")
    BY <1>2 DEF UpdatePut
  <2>2. req[c] \in ReqType /\ req[c].todo[k] \in OrNone(Record) /\ req[c].arg \in Delta
    <3>1. req[c] \in ReqType /\ req[c].arg \in Delta
      BY <2>0, AtOK DEF ReqsOK, ReqOK
    <3> QED BY <3>1 DEF ReqType, Todo
  <2>3. StoreOK'
    BY <2>1, <2>2, SetOK
  <2>4. k \in OrNone(Key) /\ req[c].todo[k] \in Record
    BY <2>1, <2>2, OrNoneIntro, OrNoneElim
  <2>5. r \in ReqType
    BY <2>2, <2>4 DEF ReqType
  <2>6. r.pc = "update.proxy" /\ r.key = k /\ r.arg = req[c].arg /\ r.todo = req[c].todo
    BY <2>2 DEF ReqType
  <2>7. ReqOK(r)
    <3> HIDE DEF r
    <3> QED BY <2>2, <2>4, <2>6 DEF ReqOK
  <2>8. req' = [req EXCEPT ![c].pc = "update.proxy", ![c].key = k]
        => req' = [req EXCEPT ![c] = r]
    BY DEF ReqsOK
  <2>9. ReqsOK'
    BY <2>1, <2>5, <2>7, <2>8, ReqUpdate, DoneOK
  <2> QED BY <1>2, <2>3, <2>9, AtOK, Frame DEF UpdatePut
<1>3. CASE UpdateProxy(c)
  <2> DEFINE k == req[c].key
             rest == [req[c].todo EXCEPT ![k] = None]
             r == [req[c] EXCEPT !.pc = "update.put", !.todo = rest]
  <2>0. At(c, "update.proxy")
    BY <1>3 DEF UpdateProxy
  <2>1. /\ req[c] \in ReqType /\ req[c].todo \in Todo /\ req[c].todo[k] \in Record
        /\ req[c].arg \in Delta
    <3>1. /\ req[c] \in ReqType /\ req[c].todo[k] \in Record
          /\ req[c].arg \in Delta
      BY <2>0, AtOK DEF ReqsOK, ReqOK
    <3> QED BY <3>1 DEF ReqType
  <2>2. ProxyOK'
    BY <1>3, <2>1, AllowOK, Frame DEF UpdateProxy, ProxyOK
  <2>3. rest \in Todo
    BY <2>1, OrNoneIntro DEF Todo
  <2>4. req' = [req EXCEPT ![c].pc = "update.put", ![c].todo = rest]
        => req' = [req EXCEPT ![c] = r]
    BY DEF ReqsOK
  <2>5. Done(c) \/ req' = [req EXCEPT ![c].pc = "update.put", ![c].todo = rest]
    BY <1>3 DEF UpdateProxy
  <2> HIDE DEF rest
  <2>6. r \in ReqType
    BY <2>1, <2>3 DEF ReqType
  <2>7. r.pc = "update.put" /\ r.arg = req[c].arg
    BY <2>1 DEF ReqType
  <2>8. ReqOK(r)
    <3> HIDE DEF r
    <3> QED BY <2>1, <2>7 DEF ReqOK
  <2>9. ReqsOK'
    BY <2>4, <2>5, <2>6, <2>8, ReqUpdate, DoneOK
  <2> QED BY <1>3, <2>2, <2>9, AtOK, Frame DEF UpdateProxy
<1> QED BY <1>1, <1>2, <1>3

LEMMA ReloadTypes ==
  ASSUME Types, NEW c \in Client,
         \/ \E k \in Key : ReloadGet(c, k)
         \/ ReloadHandle(c) \/ ReloadPut(c)
  PROVE  Types'
<1> USE DEF Types, ReqPcs, SbPcs, NewPcs, OldPcs, UpdatePcs, NoKeyPcs
<1>1. ASSUME NEW k \in Key, ReloadGet(c, k)
      PROVE  Types'
  <2>1. store[k] \in Record /\ store[k] \in OrNone(Record)
    BY <1>1, OrNoneElim DEF ReloadGet, StoreOK
  <2>2. ReqsOK'
    BY <1>1, <2>1, OpenOK, OrNoneIntro DEF ReloadGet
  <2> QED BY <1>1, <2>2, BeginOK, Frame DEF ReloadGet
<1>2. CASE ReloadHandle(c)
  <2> DEFINE s == IF req[c].sb.mounts = {} THEN "running" ELSE req[c].sb.state
  <2>1. At(c, "reload.handle")
    BY <1>2 DEF ReloadHandle
  <2>2. req[c].sb \in Record /\ req[c].pc = "reload.handle"
    BY <2>1, AtOK
  <2>3. s \in States
    BY <2>2 DEF Record, States
  <2>4. Done(c) \/ req' = [req EXCEPT ![c].pc = "reload.put", ![c].sb.state = s]
    BY <1>2 DEF ReloadHandle, ReqsOK, ReqType
  <2> HIDE DEF s
  <2>5. ReqsOK'
    <3>1. Done(c) => ReqsOK'
      BY DoneOK
    <3>2. req' = [req EXCEPT ![c].pc = "reload.put", ![c].sb.state = s] => ReqsOK'
      BY <2>2, <2>3, SbOK
    <3> QED BY <2>4, <3>1, <3>2
  <2> QED BY <1>2, <2>5, AtOK, Frame DEF ReloadHandle
<1>3. CASE ReloadPut(c)
  <2>1. StoreOK' /\ ReqsOK'
    BY <1>3, AtOK, SetOK, DoneOK DEF ReloadPut
  <2> QED BY <1>3, <2>1, AtOK, Frame DEF ReloadPut
<1> QED BY <1>1, <1>2, <1>3

LEMMA RestartGetTypes ==
  ASSUME Types, NEW c \in Client, NEW k \in Key, RestartGet(c, k)
  PROVE  Types'
<1> USE DEF Types
<1>1. store[k] \in Record
  BY OrNoneElim DEF RestartGet, StoreOK
<1>2. \E op : Begin(c, op)
  BY DEF RestartGet
<1>3. StartOK' /\ BoundOK'
  BY <1>2, BeginOK
<1>4. \E sb \in Record, arg \in OrNone(Profile \cup Delta) :
        Open(c, "restart.handle", k, sb, arg)
  <2>1. CASE Open(c, "restart.handle", k, store[k], None)
    BY <1>1, <2>1, OrNoneIntro
  <2>2. CASE \E pf \in Profile :
               Open(c, "restart.handle", k, Resolved(store[k], pf), pf)
    BY <1>1, <2>2, RecordUpdates, OrNoneIntro
  <2> QED BY <2>1, <2>2 DEF RestartGet
<1>5. ReqsOK'
  BY <1>4, OpenOK, OrNoneIntro DEF ReqPcs, NewPcs, OldPcs, UpdatePcs
<1>6. BridgeOK' /\ slot' \subseteq Key
  BY DEF RestartGet, BridgeOK
<1> QED BY <1>3, <1>5, <1>6, Frame DEF RestartGet

LEMMA RestartTypes ==
  ASSUME Types, NEW c \in Client,
         \/ RestartHandle(c) \/ RestartClear(c) \/ RestartKill(c)
         \/ RestartLaunch(c) \/ RestartCrashed(c) \/ RestartPut(c)
         \/ RestartProxy(c) \/ RestartWatch(c)
  PROVE  Types'
<1> USE DEF Types, ReqPcs, SbPcs, NewPcs, OldPcs, UpdatePcs, NoKeyPcs
<1> DEFINE k == req[c].key
           sb == req[c].sb
           p == req[c].new
<1>1. CASE RestartHandle(c)
  <2>1. At(c, "restart.handle")
    BY <1>1 DEF RestartHandle
  <2>2. k \in Key /\ req[c].pc = "restart.handle"
    BY <2>1, AtOK
  <2>3. handles[k] # None => handles[k] \in Process
    BY <2>2, OrNoneElim DEF TableOK
  <2>4. CASE handles[k] = None
    <3>1. ReqsOK'
      BY <1>1, <2>2, <2>4, GotoOK DEF RestartHandle
    <3> QED BY <1>1, <2>1, <3>1, AtOK, Frame DEF RestartHandle
  <2>5. CASE handles[k] # None
    <3>1. req' = [req EXCEPT ![c].pc = "restart.clear", ![c].old = handles[k]]
      BY <1>1, <2>5 DEF RestartHandle
    <3>2. /\ "restart.clear" \in OldPcs \ NewPcs /\ req[c].pc \in SbPcs
          /\ req[c].pc \notin NoKeyPcs /\ handles[k] \in Process
      BY <2>2, <2>3, <2>5
    <3>3. ReqsOK'
      <4> HIDE DEF ReqPcs, SbPcs, NewPcs, OldPcs, UpdatePcs, NoKeyPcs
      <4> QED BY <3>1, <3>2, OldOK
    <3> QED BY <1>1, <2>1, <3>3, AtOK, Frame DEF RestartHandle
  <2> QED BY <2>4, <2>5
<1>2. CASE RestartClear(c)
  <2>1. At(c, "restart.clear")
    BY <1>2 DEF RestartClear
  <2>2. k \in Key /\ req[c].pc = "restart.clear"
    BY <2>1, AtOK
  <2>3. ReqsOK' /\ TableOK'
    BY <1>2, <2>2, GotoOK, ClearOK DEF RestartClear
  <2> QED BY <1>2, <2>1, <2>3, AtOK, Frame DEF RestartClear
<1>3. CASE RestartKill(c)
  <2>1. At(c, "restart.kill")
    BY <1>3 DEF RestartKill
  <2>2. ReqsOK'
    BY <1>3, <2>1, AtOK, GotoOK, DoneOK DEF RestartKill
  <2>3. ProcOK'
    BY <1>3, KillOK DEF RestartKill
  <2> QED BY <1>3, <2>1, <2>2, <2>3, AtOK, Frame DEF RestartKill
<1>4. CASE RestartLaunch(c)
  <2>1. At(c, "restart.launch")
    BY <1>4 DEF RestartLaunch
  <2>2. sb \in Record /\ k \in Key /\ req[c].pc = "restart.launch"
    BY <2>1, AtOK
  <2>3. BridgeOK'
    BY <1>4, <2>2, RecordUpdates DEF RestartLaunch, BridgeOK, startToolBridge
  <2>4. ASSUME NEW q \in Process, Launch(q, k, sb),
               req' = [req EXCEPT ![c].pc = "restart.put", ![c].new = q,
                         ![c].sb = [captureHandleInfo(sb, q) EXCEPT
                                      !.state = "running"]]
        PROVE  ReqsOK' /\ ProcOK'
    <3>1. [captureHandleInfo(sb, q) EXCEPT !.state = "running"] \in Record
      BY <2>2, RecordUpdates
    <3>2. ReqsOK'
      BY <2>2, <2>4, <3>1, NewOK
    <3> QED BY <2>2, <2>4, <3>2, LaunchOK
  <2>5. ASSUME UNCHANGED proc,
               req' = [req EXCEPT ![c].pc = "restart.crashed",
                                  ![c].sb.state = "crashed"]
        PROVE  ReqsOK' /\ ProcOK'
    <3>1. "crashed" \in States
      BY DEF States
    <3> QED BY <2>2, <2>5, <3>1, SbOK, Frame
  <2>6. ReqsOK' /\ ProcOK'
    BY <1>4, <2>4, <2>5 DEF RestartLaunch
  <2> QED BY <1>4, <2>1, <2>3, <2>6, AtOK, Frame DEF RestartLaunch
<1>5. CASE RestartCrashed(c)
  <2>1. StoreOK' /\ ReqsOK'
    BY <1>5, AtOK, SetOK, DoneOK DEF RestartCrashed
  <2> QED BY <1>5, <2>1, AtOK, Frame DEF RestartCrashed
<1>6. CASE RestartPut(c)
  <2>1. StoreOK'
    BY <1>6, AtOK, SetOK DEF RestartPut
  <2>2. ReqsOK'
    BY <1>6, AtOK, GotoOK, DoneOK DEF RestartPut
  <2> QED BY <1>6, <2>1, <2>2, AtOK, Frame DEF RestartPut
<1>7. CASE RestartProxy(c)
  <2>1. At(c, "restart.proxy")
    BY <1>7 DEF RestartProxy
  <2>2. sb \in Record /\ p \in Process
    BY <2>1, AtOK
  <2>3. ProxyOK'
    BY <1>7, <2>2, AllowOK DEF RestartProxy, ProxyOK
  <2>4. ReqsOK'
    BY <1>7, <2>1, AtOK, GotoOK DEF RestartProxy
  <2> QED BY <1>7, <2>1, <2>3, <2>4, AtOK, Frame DEF RestartProxy
<1>8. CASE RestartWatch(c)
  <2>1. At(c, "restart.watch")
    BY <1>8 DEF RestartWatch
  <2>2. k \in Key /\ p \in Process
    BY <2>1, AtOK
  <2>3. TableOK' /\ epoch'[k] \in Nat
    BY <1>8, <2>2, HandleOK, OrNoneIntro DEF RestartWatch
  <2>4. WatchesOK'
    BY <1>8, <2>2, <2>3, WatchingOK, WatchUpdate DEF RestartWatch
  <2>5. ReqsOK'
    BY <1>8, DoneOK DEF RestartWatch
  <2> QED BY <1>8, <2>1, <2>3, <2>4, <2>5, AtOK, Frame DEF RestartWatch
<1> QED BY <1>1, <1>2, <1>3, <1>4, <1>5, <1>6, <1>7, <1>8

LEMMA StopTypes ==
  ASSUME Types, NEW c \in Client,
         \/ \E k \in Key : StopGet(c, k)
         \/ StopPut(c) \/ StopHandle(c) \/ StopClear(c) \/ StopKill(c)
  PROVE  Types'
<1> USE DEF Types, ReqPcs, SbPcs, NewPcs, OldPcs, UpdatePcs, NoKeyPcs
<1> DEFINE h == handles[req[c].key]
<1>1. ASSUME NEW k \in Key, StopGet(c, k)
      PROVE  Types'
  <2> DEFINE sb == [store[k] EXCEPT !.state = "stopped"]
  <2>1. store[k] \in Record /\ "stopped" \in States
    BY <1>1, OrNoneElim DEF StopGet, StoreOK, States
  <2>2. sb \in Record
    BY <2>1, RecordUpdates
  <2>3. sb \in OrNone(Record) /\ Open(c, "stop.put", k, sb, None)
    BY <1>1, <2>2, OrNoneIntro DEF StopGet
  <2> HIDE DEF sb
  <2>4. ReqsOK'
    BY <2>2, <2>3, OpenOK, OrNoneIntro
  <2>5. BridgeOK' /\ slot' \subseteq Key
    BY <1>1 DEF StopGet, BridgeOK
  <2> QED BY <1>1, <2>4, <2>5, BeginOK, Frame DEF StopGet
<1>2. CASE StopPut(c)
  <2>1. StoreOK'
    BY <1>2, AtOK, SetOK DEF StopPut
  <2>2. ReqsOK'
    BY <1>2, AtOK, GotoOK, DoneOK DEF StopPut
  <2> QED BY <1>2, <2>1, <2>2, AtOK, Frame DEF StopPut
<1>3. CASE StopHandle(c)
  <2>1. At(c, "stop.handle")
    BY <1>3 DEF StopHandle
  <2>2. req[c].key \in Key /\ req[c].pc = "stop.handle"
    BY <2>1, AtOK
  <2>3. CASE h = None
    <3>1. ReqsOK'
      BY <1>3, <2>3, DoneOK DEF StopHandle
    <3> QED BY <1>3, <2>1, <3>1, AtOK, Frame DEF StopHandle
  <2>4. CASE h # None
    <3>1. h \in Process
      BY <2>2, <2>4, OrNoneElim DEF TableOK
    <3>2. req' = [req EXCEPT ![c].pc = "stop.clear", ![c].old = h]
      BY <1>3, <2>4 DEF StopHandle
    <3>3. /\ "stop.clear" \in OldPcs \ NewPcs /\ req[c].pc \in SbPcs
          /\ req[c].pc \notin NoKeyPcs
      BY <2>2
    <3>4. ReqsOK'
      <4> HIDE DEF ReqPcs, SbPcs, NewPcs, OldPcs, UpdatePcs, NoKeyPcs
      <4> QED BY <3>1, <3>2, <3>3, OldOK
    <3> QED BY <1>3, <2>1, <3>4, AtOK, Frame DEF StopHandle
  <2> QED BY <2>3, <2>4
<1>4. CASE StopClear(c)
  <2>1. At(c, "stop.clear")
    BY <1>4 DEF StopClear
  <2>2. req[c].key \in Key /\ req[c].pc = "stop.clear"
    BY <2>1, AtOK
  <2>3. ReqsOK' /\ TableOK'
    BY <1>4, <2>2, GotoOK, ClearOK DEF StopClear
  <2> QED BY <1>4, <2>1, <2>3, AtOK, Frame DEF StopClear
<1>5. CASE StopKill(c)
  <2>1. ProcOK' /\ ReqsOK'
    BY <1>5, KillOK, DoneOK DEF StopKill
  <2> QED BY <1>5, <2>1, AtOK, Frame DEF StopKill
<1> QED BY <1>1, <1>2, <1>3, <1>4, <1>5

LEMMA DeleteTypes ==
  ASSUME Types, NEW c \in Client,
         (\E k \in Key : DeleteGet(c, k)) \/ DeleteStore(c)
  PROVE  Types'
<1> USE DEF Types, ReqPcs, SbPcs, NewPcs, OldPcs, UpdatePcs, NoKeyPcs
<1>1. ASSUME NEW k \in Key, DeleteGet(c, k)
      PROVE  Types'
  <2>1. store[k] \in Record /\ store[k] \in OrNone(Record)
    BY <1>1, OrNoneElim DEF DeleteGet, StoreOK
  <2>2. ReqsOK'
    BY <1>1, <2>1, OpenOK, OrNoneIntro DEF DeleteGet
  <2> QED BY <1>1, <2>2, BeginOK, Frame DEF DeleteGet
<1>2. CASE DeleteStore(c)
  <2>1. StoreOK' /\ ReqsOK'
    BY <1>2, OrNoneIntro, SetOK, DoneOK DEF DeleteStore
  <2> QED BY <1>2, <2>1, AtOK, Frame DEF DeleteStore
<1> QED BY <1>1, <1>2

LEMMA MergeTypes ==
  ASSUME Types, NEW c \in Client,
         (\E k \in Key : MergeGet(c, k)) \/ MergePut(c)
  PROVE  Types'
<1> USE DEF Types, ReqPcs, SbPcs, NewPcs, OldPcs, UpdatePcs, NoKeyPcs
<1>1. ASSUME NEW k \in Key, MergeGet(c, k)
      PROVE  Types'
  <2>1. store[k] \in Record
    BY <1>1, OrNoneElim DEF MergeGet, StoreOK
  <2>2. PICK wt \in store[k].mounts \cap Worktree :
          Open(c, "merge.put", k,
               [store[k] EXCEPT !.mounts = @ \ {wt},
                  !.state = IF isActive(@) THEN "reload-pending" ELSE @], None)
    BY <1>1 DEF MergeGet
  <2> DEFINE m == store[k].mounts \ {wt}
             s == IF isActive(store[k].state) THEN "reload-pending"
                                              ELSE store[k].state
             sb == [store[k] EXCEPT !.mounts = m, !.state = s]
  <2>3. m \in SUBSET Mount /\ s \in States
    BY <2>1 DEF Record, States
  <2>4. Open(c, "merge.put", k, sb, None)
    BY <2>1, <2>2 DEF Record
  <2> HIDE DEF m, s
  <2>5. sb \in Record
    BY <2>1, <2>3, RecordUpdates
  <2> HIDE DEF sb
  <2>6. ReqsOK'
    BY <2>4, <2>5, OpenOK, OrNoneIntro
  <2> QED BY <1>1, <2>6, BeginOK, Frame DEF MergeGet
<1>2. CASE MergePut(c)
  <2>1. StoreOK' /\ ReqsOK'
    BY <1>2, AtOK, SetOK, DoneOK DEF MergePut
  <2> QED BY <1>2, <2>1, AtOK, Frame DEF MergePut
<1> QED BY <1>1, <1>2

LEMMA AttachTypes ==
  ASSUME Types, NEW c \in Client,
         \/ \E k \in Key : AttachGet(c, k)
         \/ AttachTry(c) \/ AttachHandle(c) \/ AttachDial(c)
         \/ SessionEnd(c) \/ AttachDetach(c)
  PROVE  Types'
<1> USE DEF Types, ReqPcs, SbPcs, NewPcs, OldPcs, UpdatePcs, NoKeyPcs
<1> DEFINE k == req[c].key
<1>1. ASSUME NEW l \in Key, AttachGet(c, l)
      PROVE  Types'
  <2>1. ReqsOK'
    BY <1>1, OpenOK, OrNoneIntro DEF AttachGet
  <2> QED BY <1>1, <2>1, BeginOK, Frame DEF AttachGet
<1>2. CASE AttachTry(c)
  <2>1. At(c, "attach.try")
    BY <1>2 DEF AttachTry
  <2>2. k \in Key /\ req[c].pc = "attach.try"
    BY <2>1, AtOK
  <2>3. ReqsOK'
    BY <1>2, <2>2, DoneOK, GotoOK DEF AttachTry
  <2>4. slot' \subseteq Key
    BY <1>2, <2>2 DEF AttachTry
  <2> QED BY <1>2, <2>1, <2>3, <2>4, AtOK, Frame DEF AttachTry
<1>3. CASE AttachHandle(c)
  <2>1. At(c, "attach.handle")
    BY <1>3 DEF AttachHandle
  <2>2. k \in Key /\ req[c].pc = "attach.handle"
    BY <2>1, AtOK
  <2>3. CASE handles[k] = None
    <3>1. ReqsOK'
      BY <1>3, <2>2, <2>3, GotoOK DEF AttachHandle
    <3> QED BY <1>3, <2>1, <3>1, AtOK, Frame DEF AttachHandle
  <2>4. CASE handles[k] # None
    <3>1. handles[k] \in Process
      BY <2>2, <2>4, OrNoneElim DEF TableOK
    <3>2. req' = [req EXCEPT ![c].pc = "attach.dial", ![c].old = handles[k]]
      BY <1>3, <2>4 DEF AttachHandle
    <3>3. /\ "attach.dial" \in OldPcs \ NewPcs /\ "attach.dial" \notin SbPcs
          /\ req[c].pc \notin NoKeyPcs
      BY <2>2
    <3>4. ReqsOK'
      <4> HIDE DEF ReqPcs, SbPcs, NewPcs, OldPcs, UpdatePcs, NoKeyPcs
      <4> QED BY <3>1, <3>2, <3>3, OldOK
    <3> QED BY <1>3, <2>1, <3>4, AtOK, Frame DEF AttachHandle
  <2> QED BY <2>3, <2>4
<1>4. CASE AttachDial(c)
  <2>1. ReqsOK'
    BY <1>4, AtOK, GotoOK DEF AttachDial
  <2> QED BY <1>4, <2>1, AtOK, Frame DEF AttachDial
<1>5. CASE SessionEnd(c)
  <2>1. ReqsOK'
    BY <1>5, AtOK, GotoOK DEF SessionEnd
  <2> QED BY <1>5, <2>1, AtOK, Frame DEF SessionEnd
<1>6. CASE AttachDetach(c)
  <2>1. ReqsOK' /\ slot' \subseteq Key
    BY <1>6, DoneOK DEF AttachDetach
  <2> QED BY <1>6, <2>1, AtOK, Frame DEF AttachDetach
<1> QED BY <1>1, <1>2, <1>3, <1>4, <1>5, <1>6

----------------------------------------------------------------------------
(* watchLoop. *)

LEMMA WAtOK ==
  ASSUME Types, NEW p \in Process, NEW pc, WAt(p, pc)
  PROVE  /\ StartOK' /\ BoundOK' /\ ReqsOK' /\ BridgeOK' /\ slot' \subseteq Key
         /\ watch[p] \in WatchType /\ watch[p].pc = pc
         /\ pc # "none" => watch[p].key \in Key
         /\ pc \in CopyPcs => watch[p].sb \in Record /\ watch[p].sb \in OrNone(Record)
         /\ pc \in HeirPcs => watch[p].new \in Process
  BY Frame, OrNoneIntro DEF WAt, Types, WatchesOK, WatchOK

(* A watchLoop takes a working copy of the record, or changes it. *)
LEMMA CopyOK ==
  ASSUME WatchesOK, NEW p \in Process, NEW sb \in Record,
         NEW pc \in CopyPcs \ HeirPcs, watch[p].pc # "none",
         watch' = [watch EXCEPT ![p].pc = pc, ![p].sb = sb]
  PROVE  WatchesOK'
<1> DEFINE w == [watch[p] EXCEPT !.pc = pc, !.sb = sb]
<1>1. pc \in WatchPcs /\ pc # "none" /\ sb \in OrNone(Record)
  BY OrNoneIntro DEF CopyPcs, WatchPcs
<1>2. w \in WatchType
  BY <1>1 DEF WatchesOK, WatchType
<1>3. w.pc = pc /\ w.key = watch[p].key /\ w.sb = sb
  BY DEF WatchesOK, WatchType
<1>4. WatchOK(w)
  <2> HIDE DEF w
  <2> QED BY <1>1, <1>3 DEF WatchesOK, WatchOK
<1>5. watch' = [watch EXCEPT ![p] = w]
  BY DEF WatchesOK
<1> QED BY <1>2, <1>4, <1>5, WatchUpdate

LEMMA WatchPutOK ==
  ASSUME Types, NEW p \in Process, NEW pc \in CopyPcs, WatchPut(p, pc)
  PROVE  /\ StartOK' /\ BoundOK' /\ ReqsOK' /\ BridgeOK' /\ slot' \subseteq Key
         /\ StoreOK' /\ TableOK' /\ ProxyOK' /\ ProcOK'
         /\ watch[p].pc = pc
<1>1. WAt(p, pc)
  BY DEF WatchPut
<1>2. StoreOK'
  BY <1>1, WAtOK, SetOK DEF WatchPut, Types
<1> QED BY <1>1, <1>2, WAtOK, Frame DEF WatchPut, Types

LEMMA WatchTypes ==
  ASSUME Types, NEW p \in Process, WatchStep(p)
  PROVE  Types'
<1> USE DEF Types, WatchPcs, CopyPcs, HeirPcs
<1> DEFINE k == watch[p].key
           sb == watch[p].sb
<1>1. CASE WatchExit(p)
  <2>1. WatchesOK'
    BY <1>1, WAtOK, WGotoOK, WDoneOK DEF WatchExit
  <2> QED BY <1>1, <2>1, WAtOK, Frame DEF WatchExit
<1>2. CASE WatchGet(p)
  <2> DEFINE r == store[k]
             clean == proc[p].st = "clean"
             up == [r EXCEPT !.count = @ + 1, !.state = "restarting"]
             end == [r EXCEPT !.state = FinalState(r, clean)]
  <2>1. WAt(p, "get")
    BY <1>2 DEF WatchGet
  <2>2. k \in Key /\ watch[p].pc = "get"
    BY <2>1, WAtOK
  <2>3. CASE r = None
    <3>1. WatchesOK'
      BY <1>2, <2>3, WDoneOK DEF WatchGet
    <3> QED BY <1>2, <2>1, <3>1, WAtOK, Frame DEF WatchGet
  <2>4. CASE r # None
    <3>1. r \in Record /\ FinalState(r, clean) \in States
      BY <2>2, <2>4, OrNoneElim DEF StoreOK, FinalState, States
    <3>2. up \in Record /\ end \in Record
      BY <3>1, RecordUpdates
    <3>3. \/ watch' = [watch EXCEPT ![p].pc = "restarting", ![p].sb = up]
          \/ watch' = [watch EXCEPT ![p].pc = "clear", ![p].sb = end]
      BY <1>2, <2>4 DEF WatchGet
    <3> HIDE DEF up, end
    <3>4. WatchesOK'
      BY <2>2, <3>2, <3>3, CopyOK
    <3> QED BY <1>2, <2>1, <3>4, WAtOK, Frame DEF WatchGet
  <2> QED BY <2>3, <2>4
<1>3. CASE WatchRestarting(p)
  <2>1. WatchesOK'
    BY <1>3, WatchPutOK, WGotoOK DEF WatchRestarting
  <2> QED BY <1>3, <2>1, WatchPutOK DEF WatchRestarting
<1>4. CASE WatchRelaunch(p)
  <2>1. WAt(p, "backoff")
    BY <1>4 DEF WatchRelaunch
  <2>2. k \in Key /\ sb \in Record /\ watch[p].pc = "backoff" /\ watch[p] \in WatchType
    BY <2>1, WAtOK
  <2>3. ASSUME NEW q \in Process, Launch(q, k, sb),
               watch' = [watch EXCEPT ![p].pc = "running", ![p].new = q,
                           ![p].sb = [captureHandleInfo(sb, q) EXCEPT
                                        !.state = "running"]]
        PROVE  WatchesOK' /\ ProcOK'
    <3> DEFINE nb == [captureHandleInfo(sb, q) EXCEPT !.state = "running"]
               w == [watch[p] EXCEPT !.pc = "running", !.new = q, !.sb = nb]
    <3>1. nb \in Record
      BY <2>2, RecordUpdates
    <3>2. watch' = [watch EXCEPT ![p] = w]
      BY <2>3 DEF WatchesOK
    <3> HIDE DEF nb
    <3>3. nb \in OrNone(Record) /\ q \in OrNone(Process)
      BY <3>1, OrNoneIntro
    <3>4. w \in WatchType
      BY <2>2, <3>3 DEF WatchType
    <3>5. w.pc = "running" /\ w.key = k /\ w.sb = nb /\ w.new = q
      BY <2>2 DEF WatchType
    <3>6. WatchOK(w)
      <4> HIDE DEF w
      <4> QED BY <2>2, <3>1, <3>5 DEF WatchOK
    <3>7. WatchesOK'
      BY <3>2, <3>4, <3>6, WatchUpdate
    <3> QED BY <2>2, <2>3, <3>7, LaunchOK
  <2>4. ASSUME UNCHANGED proc,
               watch' = [watch EXCEPT ![p].pc = "crashed",
                                      ![p].sb.state = "crashed"]
        PROVE  WatchesOK' /\ ProcOK'
    <3> DEFINE nb == [sb EXCEPT !.state = "crashed"]
    <3>1. nb \in Record
      BY <2>2, RecordUpdates DEF States
    <3>2. watch' = [watch EXCEPT ![p].pc = "crashed", ![p].sb = nb]
      BY <2>2, <2>4 DEF WatchesOK, WatchType
    <3> HIDE DEF nb
    <3>3. "crashed" \in CopyPcs \ HeirPcs /\ watch[p].pc # "none"
      BY <2>2
    <3>4. WatchesOK'
      <4> HIDE DEF WatchPcs, CopyPcs, HeirPcs
      <4> QED BY <3>1, <3>2, <3>3, CopyOK
    <3> QED BY <2>4, <3>4, Frame
  <2>5. WatchesOK' /\ ProcOK'
    BY <1>4, <2>3, <2>4 DEF WatchRelaunch
  <2> QED BY <1>4, <2>1, <2>5, WAtOK, Frame DEF WatchRelaunch
<1>5. CASE WatchCrashed(p)
  <2>1. WatchesOK'
    BY <1>5, WatchPutOK, WGotoOK DEF WatchCrashed
  <2> QED BY <1>5, <2>1, WatchPutOK DEF WatchCrashed
<1>6. CASE WatchCrashedClear(p)
  <2>1. WAt(p, "crashed.clear")
    BY <1>6 DEF WatchCrashedClear
  <2>2. TableOK'
    BY <1>6, <2>1, WAtOK, ClearOK DEF WatchCrashedClear
  <2>3. WatchesOK'
    BY <1>6, WDoneOK DEF WatchCrashedClear
  <2> QED BY <1>6, <2>1, <2>2, <2>3, WAtOK, Frame DEF WatchCrashedClear
<1>7. CASE WatchRunning(p)
  <2>1. WatchesOK'
    BY <1>7, WatchPutOK, WGotoOK DEF WatchRunning
  <2> QED BY <1>7, <2>1, WatchPutOK DEF WatchRunning
<1>8. CASE WatchSetHandle(p)
  <2> DEFINE q == watch[p].new
             w == Watching(k, epoch'[k])
  <2>1. WAt(p, "sethandle")
    BY <1>8 DEF WatchSetHandle
  <2>2. k \in Key /\ q \in Process
    BY <2>1, WAtOK
  <2>3. TableOK' /\ epoch'[k] \in Nat
    BY <1>8, <2>2, HandleOK, OrNoneIntro DEF WatchSetHandle
  <2>4. w \in WatchType /\ WatchOK(w)
    BY <2>2, <2>3, WatchingOK
  <2>5. watch' = [watch EXCEPT ![p] = NoWatch, ![q] = w]
    BY <1>8 DEF WatchSetHandle
  <2> HIDE DEF w
  <2>6. WatchesOK'
    BY <2>2, <2>4, <2>5, NoWatchOK DEF WatchesOK
  <2>7. ProxyOK'
    BY <1>8, <2>2 DEF WatchSetHandle, ProxyOK
  <2> QED BY <1>8, <2>1, <2>3, <2>6, <2>7, WAtOK, Frame DEF WatchSetHandle
<1>9. CASE WatchClear(p)
  <2>1. WAt(p, "clear")
    BY <1>9 DEF WatchClear
  <2>2. TableOK'
    BY <1>9, <2>1, WAtOK, ClearOK DEF WatchClear
  <2>3. WatchesOK'
    BY <1>9, <2>1, WAtOK, WGotoOK DEF WatchClear
  <2> QED BY <1>9, <2>1, <2>2, <2>3, WAtOK, Frame DEF WatchClear
<1>10. CASE WatchFinal(p)
  <2>1. WatchesOK'
    BY <1>10, WDoneOK DEF WatchFinal
  <2> QED BY <1>10, <2>1, WatchPutOK DEF WatchFinal
<1> QED BY <1>1, <1>2, <1>3, <1>4, <1>5, <1>6, <1>7, <1>8, <1>9, <1>10 DEF WatchStep

----------------------------------------------------------------------------
(* The world and startup. *)

LEMMA ExitTypes ==
  ASSUME Types, NEW p \in Process, Exit(p)
  PROVE  Types'
<1>1. ProcOK'
  BY DEF Exit, Types, ProcOK, ProcType
<1> QED BY <1>1, Frame DEF Exit, Types, bridgeVars, boundVars

LEMMA CrashTypes ==
  ASSUME Types, Crash
  PROVE  Types'
<1> USE DEF Types
<1>1. /\ store' = [k \in Key |-> None] /\ disk' = disk
      /\ handles' = [k \in Key |-> None] /\ epoch' = [k \in Key |-> 0]
      /\ agents' = {} /\ inboxes' = {} /\ tools' = {} /\ slot' = {}
      /\ allow' = [i \in Id |-> None] /\ addrs' = {}
      /\ req' = [c \in Client |-> IdleReq]
      /\ watch' = [p \in Process |-> NoWatch]
      /\ murod' = "down" /\ pending' = {}
      /\ crashes < MaxCrash /\ crashes' = crashes + 1
      /\ UNCHANGED <<proc, reqs>>
  BY DEF Crash
<1>2. StoreOK' /\ TableOK'
  BY <1>1, OrNoneIntro DEF StoreOK, TableOK
<1>3. BridgeOK' /\ ProxyOK' /\ slot' \subseteq Key
  BY <1>1, OrNoneIntro DEF BridgeOK, ProxyOK
<1>4. StartOK' /\ BoundOK' /\ ProcOK'
  BY <1>1, ConstantsAssumption, Frame DEF StartOK, BoundOK
<1>5. ReqsOK' /\ WatchesOK'
  BY <1>1, IdleOK, NoWatchOK DEF ReqsOK, WatchesOK
<1> QED BY <1>2, <1>3, <1>4, <1>5

LEMMA ReconcileTypes ==
  ASSUME Types, NEW k \in Key, k \in pending => store[k] # None, Reconcile(k)
  PROVE  Types'
<1> USE DEF Types
<1>1. StartOK'
  BY DEF Reconcile, StartOK
<1>2. CASE UNCHANGED storeVars
  BY <1>1, <1>2, Frame DEF Reconcile
<1>3. CASE /\ Set(k, [store[k] EXCEPT !.state = "stopped"])
           /\ Persist \/ NotPersisted
  <2> DEFINE sb == [store[k] EXCEPT !.state = "stopped"]
  <2>1. store[k] \in Record /\ "stopped" \in States
    BY OrNoneElim DEF StoreOK, Reconcile, States
  <2>2. sb \in OrNone(Record)
    BY <2>1, RecordUpdates, OrNoneIntro
  <2> HIDE DEF sb
  <2>3. StoreOK'
    BY <1>3, <2>2, SetOK DEF sb
  <2> QED BY <1>1, <2>3, Frame DEF Reconcile
<1> QED BY <1>2, <1>3 DEF Reconcile

LEMMA ReattachTypes ==
  ASSUME Types, NEW k \in Key, k \in pending => store[k] # None,
         store[k] # None => store[k].pid \in Process, Reattach(k)
  PROVE  Types'
<1> USE DEF Types
<1> DEFINE sb == store[k]
           p == sb.pid
<1>1. sb \in Record /\ p \in Process
  BY OrNoneElim DEF StoreOK, Reattach
<1>2. BridgeOK' /\ StartOK'
  BY <1>1, RecordUpdates
     DEF Reattach, BridgeOK, StartOK, startAgentBridge, startToolBridge
<1>3. CASE Alive(p)
  <2>1. TableOK' /\ epoch'[k] \in Nat
    BY <1>1, <1>3, HandleOK, OrNoneIntro DEF Reattach
  <2>2. ProxyOK'
    BY <1>1, <1>3, AllowOK DEF Reattach, ProxyOK
  <2>3. WatchesOK'
    BY <1>1, <1>3, <2>1, WatchingOK, WatchUpdate DEF Reattach
  <2> QED BY <1>2, <2>1, <2>2, <2>3, Frame DEF Reattach
<1>4. CASE ~Alive(p)
  BY <1>2, <1>4, Frame DEF Reattach
<1> QED BY <1>3, <1>4

LEMMA StartupTypes ==
  ASSUME Types, StartLoad \/ StartReattach \/ Serve
  PROVE  Types'
<1> USE DEF Types
<1>1. CASE StartLoad
  <2>1. StoreOK' /\ StartOK'
    BY <1>1 DEF StartLoad, StoreOK, StartOK, RunningIn
  <2> QED BY <1>1, <2>1, Frame DEF StartLoad
<1>2. CASE StartReattach
  <2>1. StartOK'
    BY <1>2 DEF StartReattach, StartOK, RunningIn
  <2> QED BY <1>2, <2>1, Frame DEF StartReattach
<1>3. CASE Serve
  <2>1. StartOK'
    BY <1>3 DEF Serve, StartOK
  <2> QED BY <1>3, <2>1, Frame DEF Serve
<1> QED BY <1>1, <1>2, <1>3

LEMMA TypesInit == Init => Types
<1> SUFFICES ASSUME Init PROVE Types
  OBVIOUS
<1> USE DEF Init
<1>1. StoreOK /\ TableOK
  BY OrNoneIntro DEF StoreOK, TableOK
<1>2. BridgeOK /\ ProxyOK /\ slot \subseteq Key
  BY OrNoneIntro DEF BridgeOK, ProxyOK
<1>3. StartOK /\ BoundOK
  BY ConstantsAssumption DEF StartOK, BoundOK
<1>4. ProcOK
  BY OrNoneIntro DEF ProcOK, ProcType, Unborn
<1>5. ReqsOK /\ WatchesOK
  BY IdleOK, NoWatchOK DEF ReqsOK, WatchesOK
<1> QED BY <1>1, <1>2, <1>3, <1>4, <1>5 DEF Types

LEMMA TypesImplyTypeOK == Types => TypeOK
  BY DEF Types, TypeOK, ReqsOK, WatchesOK

----------------------------------------------------------------------------
(* No copy of a record strays. *)

(* A process keeps its key and id. *)
ProcKeeps ==
  \A p \in Process : proc[p].key # None => /\ proc'[p].key = proc[p].key
                                           /\ proc'[p].id = proc[p].id

LEMMA LaunchKeeps ==
  ASSUME Types, NEW p \in Process, NEW k \in Key, NEW sb \in Record, Launch(p, k, sb)
  PROVE  /\ ProcKeeps
         /\ proc'[p].key = k /\ proc'[p].id = sb.id
  BY DEF Types, ProcOK, ProcType, Launch, Unborn, ProcKeeps

LEMMA KillKeeps ==
  ASSUME Types, NEW p, Kill(p) \/ UNCHANGED proc
  PROVE  ProcKeeps
  BY DEF Types, ProcOK, ProcType, Kill, ProcKeeps

LEMMA OfKeeps ==
  ASSUME ProcKeeps, NEW k \in Key, NEW sb, Of(sb, k)
  PROVE  Of(sb, k)'
  BY ConstantsAssumption DEF ProcKeeps, Of

(* Updating a record in place does not change whose it is. *)
LEMMA OfUpdates ==
  ASSUME NEW k \in Key, NEW sb \in Record, Of(sb, k)
  PROVE  /\ \A s : Of([sb EXCEPT !.state = s], k)
         /\ \A s : Of([sb EXCEPT !.count = @ + 1, !.state = s], k)
         /\ \A m, s : Of([sb EXCEPT !.mounts = m, !.state = s], k)
         /\ \A pf : Of(Resolved(sb, pf), k)
         /\ \A d : Of(Candidate(sb, d), k)
  BY DEF Of, Record, Resolved, Candidate

(* A row that no step touches goes on being right. *)
LEMMA RowKeeps ==
  ASSUME ProcKeeps, NEW r, ReqOK(r), ReqCopy(r)
  PROVE  ReqCopy(r)'
<1>1. r.pc \in SbPcs \ {"run.launch"} => Of(r.sb, r.key)'
  BY OfKeeps DEF ReqCopy, ReqOK, SbPcs, NoKeyPcs
<1>2. r.pc \in NewPcs => proc'[r.new].key = r.key
  BY ConstantsAssumption DEF ReqCopy, ReqOK, NewPcs, NoKeyPcs, ProcKeeps
<1>3. r.pc \in UpdatePcs => \A k \in Key : r.todo[k] # None => Of(r.todo[k], k)'
  BY OfKeeps DEF ReqCopy
<1> QED BY <1>1, <1>2, <1>3 DEF ReqCopy

LEMMA WatchRowKeeps ==
  ASSUME ProcKeeps, NEW p \in Process, NEW w, WatchOK(w), WatchCopy(p, w)
  PROVE  WatchCopy(p, w)'
<1>1. w.pc \in CopyPcs => Of(w.sb, w.key)'
  BY OfKeeps DEF WatchCopy, WatchOK, CopyPcs
<1>2. /\ w.pc # "none" => proc'[p].key = w.key
      /\ w.pc \in HeirPcs => proc'[w.new].key = w.key
  BY ConstantsAssumption DEF WatchCopy, WatchOK, HeirPcs, ProcKeeps
<1> QED BY <1>1, <1>2 DEF WatchCopy

LEMMA CopyFrame ==
  ASSUME Types, ProcKeeps
  PROVE  /\ StoreCopies /\ UNCHANGED storeVars => StoreCopies'
         /\ HandleCopies /\ UNCHANGED tableVars => HandleCopies'
         /\ ReqCopies /\ UNCHANGED req => ReqCopies'
         /\ WatchCopies /\ UNCHANGED watch => WatchCopies'
<1> USE DEF Types
<1>1. StoreCopies /\ UNCHANGED storeVars => StoreCopies'
  BY OfKeeps DEF StoreCopies, storeVars
<1>2. HandleCopies /\ UNCHANGED tableVars => HandleCopies'
  BY ConstantsAssumption, OrNoneElim DEF HandleCopies, tableVars, TableOK, ProcKeeps
<1>3. ReqCopies /\ UNCHANGED req => ReqCopies'
  BY RowKeeps DEF ReqCopies, ReqsOK
<1>4. WatchCopies /\ UNCHANGED watch => WatchCopies'
  BY WatchRowKeeps DEF WatchCopies, WatchesOK
<1> QED BY <1>1, <1>2, <1>3, <1>4

LEMMA SetCopies ==
  ASSUME Types, ProcKeeps, StoreCopies, NEW k \in Key, NEW r,
         r # None => Of(r, k)', Set(k, r), Persist \/ NotPersisted
  PROVE  StoreCopies'
<1>1. ASSUME NEW l \in Key
      PROVE  (store[l] # None => Of(store[l], l))'
  <2>1. l # k => store'[l] = store[l]
    BY DEF Set, Types, StoreOK
  <2>2. store'[k] = r
    BY DEF Set, Types, StoreOK
  <2>3. l # k => (store[l] # None => Of(store[l], l))'
    BY <2>1, OfKeeps DEF StoreCopies, Of
  <2>4. (store[k] # None => Of(store[k], k))'
    BY <2>2 DEF Of
  <2> QED BY <2>3, <2>4
<1>2. ASSUME NEW l \in Key
      PROVE  (disk[l] # None => Of(disk[l], l))'
  BY <1>1, OfKeeps DEF StoreCopies, Persist, NotPersisted, Of
<1> QED BY <1>1, <1>2 DEF StoreCopies

LEMMA HandleSetCopies ==
  ASSUME Types, ProcKeeps, HandleCopies, NEW k \in Key, NEW p,
         p # None => proc'[p].key = k, setHandle(k, p)
  PROVE  HandleCopies'
<1>1. ASSUME NEW l \in Key, handles'[l] # None
      PROVE  proc'[handles'[l]].key = l
  <2>1. CASE l = k
    BY <1>1, <2>1 DEF setHandle, Types, TableOK
  <2>2. CASE l # k
    BY <1>1, <2>2, ConstantsAssumption, OrNoneElim
       DEF setHandle, Types, TableOK, HandleCopies, ProcKeeps
  <2> QED BY <2>1, <2>2
<1> QED BY <1>1 DEF HandleCopies

LEMMA ReqUpdateCopies ==
  ASSUME Types, ProcKeeps, ReqCopies, NEW c \in Client, NEW r,
         req' = [req EXCEPT ![c] = r], ReqCopy(r)'
  PROVE  ReqCopies'
<1>1. ASSUME NEW d \in Client
      PROVE  ReqCopy(req[d])'
  <2>1. CASE d = c
    <3>1. req'[d] = r
      BY <2>1 DEF Types, ReqsOK
    <3> QED BY <3>1 DEF ReqCopy, Of
  <2>2. CASE d # c
    <3>1. req'[d] = req[d]
      BY <2>2 DEF Types, ReqsOK
    <3>2. PICK w : w = req[d]
      OBVIOUS
    <3>3. ReqOK(w) /\ ReqCopy(w)
      BY <3>2 DEF Types, ReqsOK, ReqCopies
    <3>4. ReqCopy(w)'
      BY <3>3, RowKeeps
    <3> QED BY <3>1, <3>2, <3>4 DEF ReqCopy, Of
  <2> QED BY <2>1, <2>2
<1> QED BY <1>1 DEF ReqCopies

LEMMA DoneCopies ==
  ASSUME Types, ProcKeeps, ReqCopies, NEW c \in Client, Done(c)
  PROVE  ReqCopies'
<1>1. ReqCopy(IdleReq)'
  BY DEF ReqCopy, IdleReq, SbPcs, NewPcs, UpdatePcs
<1> QED BY <1>1, ReqUpdateCopies DEF Done

(* A step that only moves a request on, or notes the process it found. *)
LEMMA MoveCopies ==
  ASSUME Types, ProcKeeps, ReqCopies, NEW c \in Client, NEW r \in ReqType,
         req' = [req EXCEPT ![c] = r],
         r.key = req[c].key, r.sb = req[c].sb, r.new = req[c].new,
         r.pc \in SbPcs \ {"run.launch"} => req[c].pc \in SbPcs \ {"run.launch"},
         r.pc \in NewPcs => req[c].pc \in NewPcs,
         r.pc \notin UpdatePcs
  PROVE  ReqCopies'
<1>1. PICK w : w = req[c]
  OBVIOUS
<1>2. ReqOK(w) /\ ReqCopy(w)
  BY <1>1 DEF Types, ReqsOK, ReqCopies
<1>3. ReqCopy(w)'
  BY <1>2, RowKeeps
<1>4. ReqCopy(r)'
  BY <1>1, <1>3 DEF ReqCopy
<1> QED BY <1>4, ReqUpdateCopies

LEMMA GotoCopies ==
  ASSUME Types, ProcKeeps, ReqCopies, NEW c \in Client,
         NEW pc \in ReqPcs \ UpdatePcs, Goto(c, pc),
         pc \in SbPcs \ {"run.launch"} => req[c].pc \in SbPcs \ {"run.launch"},
         pc \in NewPcs => req[c].pc \in NewPcs
  PROVE  ReqCopies'
<1>1. PICK r : r = [req[c] EXCEPT !.pc = pc]
  OBVIOUS
<1>2. /\ r \in ReqType /\ r.pc = pc /\ r.key = req[c].key /\ r.sb = req[c].sb
      /\ r.new = req[c].new
  BY <1>1 DEF Types, ReqsOK, ReqType
<1>3. req' = [req EXCEPT ![c] = r]
  BY <1>1 DEF Goto, Types, ReqsOK
<1> QED BY <1>2, <1>3, MoveCopies

LEMMA OldCopies ==
  ASSUME Types, ProcKeeps, ReqCopies, NEW c \in Client,
         NEW pc \in ReqPcs \ (UpdatePcs \cup NewPcs), NEW h \in Process,
         req' = [req EXCEPT ![c].pc = pc, ![c].old = h],
         pc \in SbPcs \ {"run.launch"} => req[c].pc \in SbPcs \ {"run.launch"}
  PROVE  ReqCopies'
<1>1. PICK r : r = [req[c] EXCEPT !.pc = pc, !.old = h]
  OBVIOUS
<1>2. h \in OrNone(Process)
  BY OrNoneIntro
<1>3. /\ r \in ReqType /\ r.pc = pc /\ r.key = req[c].key /\ r.sb = req[c].sb
      /\ r.new = req[c].new
  BY <1>1, <1>2 DEF Types, ReqsOK, ReqType
<1>4. req' = [req EXCEPT ![c] = r]
  BY <1>1 DEF Types, ReqsOK
<1> QED BY <1>3, <1>4, MoveCopies

LEMMA OpenCopies ==
  ASSUME Types, ProcKeeps, ReqCopies, NEW c \in Client, NEW k \in Key,
         NEW pc \in ReqPcs \ (UpdatePcs \cup NewPcs), NEW sb, NEW arg,
         pc \in SbPcs \ {"run.launch"} => Of(sb, k)',
         Open(c, pc, k, sb, arg)
  PROVE  ReqCopies'
<1>1. PICK r : r = [IdleReq EXCEPT !.pc = pc, !.key = k, !.sb = sb, !.arg = arg]
  OBVIOUS
<1>2. r.pc = pc /\ r.key = k /\ r.sb = sb
  BY <1>1 DEF IdleReq
<1>3. ReqCopy(r)'
  BY <1>2 DEF ReqCopy
<1> QED BY <1>1, <1>3, ReqUpdateCopies DEF Open

LEMMA WatchUpdateCopies ==
  ASSUME Types, ProcKeeps, WatchCopies, NEW p \in Process, NEW w,
         watch' = [watch EXCEPT ![p] = w], WatchCopy(p, w)'
  PROVE  WatchCopies'
<1>1. ASSUME NEW q \in Process
      PROVE  WatchCopy(q, watch[q])'
  <2>1. CASE q = p
    <3>1. watch'[q] = w
      BY <2>1 DEF Types, WatchesOK
    <3> QED BY <2>1, <3>1 DEF WatchCopy, Of
  <2>2. CASE q # p
    <3>1. watch'[q] = watch[q]
      BY <2>2 DEF Types, WatchesOK
    <3>2. PICK v : v = watch[q]
      OBVIOUS
    <3>3. WatchOK(v) /\ WatchCopy(q, v)
      BY <3>2 DEF Types, WatchesOK, WatchCopies
    <3>4. WatchCopy(q, v)'
      BY <3>3, WatchRowKeeps
    <3> QED BY <3>1, <3>2, <3>4 DEF WatchCopy, Of
  <2> QED BY <2>1, <2>2
<1> QED BY <1>1 DEF WatchCopies

LEMMA WaitingCopy ==
  ASSUME NEW p \in Process, NEW k \in Key, NEW e, proc'[p].key = k
  PROVE  WatchCopy(p, NoWatch)' /\ WatchCopy(p, Watching(k, e))'
<1>1. WatchCopy(p, NoWatch)'
  BY DEF WatchCopy, NoWatch, CopyPcs, HeirPcs
<1>2. Watching(k, e).pc = "wait" /\ Watching(k, e).key = k
  BY DEF Watching, NoWatch
<1>3. WatchCopy(p, Watching(k, e))'
  BY <1>2 DEF WatchCopy, CopyPcs, HeirPcs
<1> QED BY <1>1, <1>3

LEMMA Still == ASSUME UNCHANGED proc PROVE ProcKeeps
  BY DEF ProcKeeps

(* What a request holds at its control point. *)
LEMMA AtCopies ==
  ASSUME Types, CopiesOK, NEW c \in Client, NEW pc, At(c, pc)
  PROVE  /\ req[c].pc = pc
         /\ pc \notin NoKeyPcs => req[c].key \in Key
         /\ pc \in SbPcs => req[c].sb \in Record
         /\ pc \in NewPcs => /\ req[c].new \in Process
                             /\ proc[req[c].new].key = req[c].key
         /\ pc \in SbPcs \ {"run.launch"} => Of(req[c].sb, req[c].key)
  BY DEF At, Types, ReqsOK, ReqOK, CopiesOK, ReqCopies, ReqCopy

(* store.Put of the request's own record. *)
LEMMA PutCopies ==
  ASSUME Types, CopiesOK, NEW c \in Client, NEW pc \in SbPcs \ {"run.launch"},
         At(c, pc), UNCHANGED proc,
         Set(req[c].key, req[c].sb), Persist \/ NotPersisted
  PROVE  StoreCopies'
<1>1. PICK r, k : r = req[c].sb /\ k = req[c].key
  OBVIOUS
<1>2. k \in Key /\ Of(r, k)
  BY <1>1, AtCopies DEF SbPcs, NoKeyPcs
<1>3. Of(r, k)'
  BY <1>2, Still, OfKeeps
<1> QED BY <1>1, <1>2, <1>3, Still, SetCopies DEF CopiesOK

----------------------------------------------------------------------------
(* One lemma per handler. *)

LEMMA RunCheckCopies ==
  ASSUME Types, CopiesOK, NEW c \in Client, NEW k \in Key, RunCheck(c, k)
  PROVE  CopiesOK'
<1>1. PICK sb : Open(c, "run.launch", k, sb, None)
  BY DEF RunCheck
<1>2. ProcKeeps
  BY Still DEF RunCheck
<1>3. ReqCopies'
  BY <1>1, <1>2, OpenCopies DEF CopiesOK, ReqPcs, NewPcs, UpdatePcs
<1> QED BY <1>2, <1>3, CopyFrame DEF RunCheck, CopiesOK

LEMMA LaunchCopies ==
  ASSUME Types, CopiesOK, NEW c \in Client, NEW p \in Process, NEW sb, NEW r,
         req[c].sb \in Record, req[c].key \in Key,
         Launch(p, req[c].key, req[c].sb),
         sb.pid = p, sb.id = req[c].sb.id,
         r.key = req[c].key, r.sb = sb, r.new = p,
         r.pc \notin UpdatePcs,
         req' = [req EXCEPT ![c] = r]
  PROVE  ProcKeeps /\ ReqCopies'
<1>1. PICK k, old : k = req[c].key /\ old = req[c].sb
  OBVIOUS
<1>2. ProcKeeps /\ proc'[p].key = k /\ proc'[p].id = old.id
  BY <1>1, LaunchKeeps
<1>3. Of(sb, k)'
  BY <1>1, <1>2 DEF Of
<1>4. ReqCopy(r)'
  BY <1>1, <1>2, <1>3 DEF ReqCopy
<1> QED BY <1>2, <1>4, ReqUpdateCopies DEF CopiesOK

LEMMA RunCopies ==
  ASSUME Types, CopiesOK, NEW c \in Client,
         \/ RunLaunch(c) \/ RunPut(c) \/ RunUndo(c) \/ RunSetHandle(c) \/ RunWatch(c)
  PROVE  CopiesOK'
<1> USE DEF ReqPcs, SbPcs, NewPcs, OldPcs, UpdatePcs, NoKeyPcs
<1>1. CASE RunLaunch(c)
  <2>1. At(c, "run.launch")
    BY <1>1 DEF RunLaunch
  <2>2. req[c].sb \in Record /\ req[c].key \in Key /\ req[c] \in ReqType
    BY <2>1, AtCopies, AtOK
  <2>3. ASSUME NEW p \in Process, Launch(p, req[c].key, req[c].sb),
               req' = [req EXCEPT ![c].pc = "run.put", ![c].new = p,
                                  ![c].sb = captureHandleInfo(req[c].sb, p)]
        PROVE  ProcKeeps /\ ReqCopies'
    <3>1. PICK sb, r : /\ sb = captureHandleInfo(req[c].sb, p)
                       /\ r = [req[c] EXCEPT !.pc = "run.put", !.new = p, !.sb = sb]
      OBVIOUS
    <3>2. sb.pid = p /\ sb.id = req[c].sb.id
      BY <2>2, <3>1 DEF captureHandleInfo, Record
    <3>3. r.key = req[c].key /\ r.sb = sb /\ r.new = p /\ r.pc = "run.put"
      BY <2>2, <3>1 DEF ReqType
    <3>4. req' = [req EXCEPT ![c] = r]
      BY <2>3, <3>1 DEF Types, ReqsOK
    <3> QED BY <2>2, <2>3, <3>2, <3>3, <3>4, LaunchCopies
  <2>4. ASSUME Done(c), UNCHANGED proc
        PROVE  ProcKeeps /\ ReqCopies'
    BY <2>4, Still, DoneCopies DEF CopiesOK
  <2>5. ProcKeeps /\ ReqCopies'
    BY <1>1, <2>3, <2>4 DEF RunLaunch
  <2> QED BY <1>1, <2>5, CopyFrame DEF RunLaunch, CopiesOK
<1>2. CASE RunPut(c)
  <2>1. ProcKeeps
    BY <1>2, Still DEF RunPut
  <2>2. StoreCopies'
    BY <1>2, PutCopies DEF RunPut
  <2>3. ReqCopies'
    BY <1>2, <2>1, AtCopies, GotoCopies DEF RunPut, CopiesOK
  <2> QED BY <1>2, <2>1, <2>2, <2>3, CopyFrame DEF RunPut, CopiesOK
<1>3. CASE RunUndo(c)
  <2>1. ProcKeeps
    BY <1>3, KillKeeps DEF RunUndo
  <2>2. ReqCopies'
    BY <1>3, <2>1, DoneCopies DEF RunUndo, CopiesOK
  <2> QED BY <1>3, <2>1, <2>2, CopyFrame DEF RunUndo, CopiesOK
<1>4. CASE RunSetHandle(c)
  <2>1. ProcKeeps
    BY <1>4, Still DEF RunSetHandle
  <2>2. At(c, "run.sethandle")
    BY <1>4 DEF RunSetHandle
  <2>3. PICK k, p : k = req[c].key /\ p = req[c].new
    OBVIOUS
  <2>4. k \in Key /\ p \in Process /\ proc'[p].key = k
    BY <1>4, <2>2, <2>3, AtCopies DEF RunSetHandle
  <2>5. HandleCopies'
    BY <1>4, <2>1, <2>3, <2>4, HandleSetCopies DEF RunSetHandle, CopiesOK
  <2>6. PICK e \in Nat : e = epoch'[k]
    BY <1>4, <2>3, <2>4, HandleOK, OrNoneIntro DEF RunSetHandle, Types
  <2> DEFINE r == [req[c] EXCEPT !.pc = "run.watch", !.epoch = e]
  <2>7. req' = [req EXCEPT ![c] = r]
    BY <1>4, <2>3, <2>6 DEF RunSetHandle
  <2>8. req[c] \in ReqType
    BY DEF Types, ReqsOK
  <2>9. /\ r \in ReqType /\ r.pc = "run.watch" /\ r.key = req[c].key
        /\ r.sb = req[c].sb /\ r.new = req[c].new
    BY <2>8 DEF ReqType
  <2> HIDE DEF r
  <2>10. ReqCopies'
    BY <2>1, <2>2, <2>7, <2>9, AtCopies, MoveCopies DEF CopiesOK
  <2> QED BY <1>4, <2>1, <2>5, <2>10, CopyFrame DEF RunSetHandle, CopiesOK
<1>5. CASE RunWatch(c)
  <2>1. ProcKeeps
    BY <1>5, Still DEF RunWatch
  <2>2. PICK k, p, e : k = req[c].key /\ p = req[c].new /\ e = req[c].epoch
    OBVIOUS
  <2>3. At(c, "run.watch")
    BY <1>5 DEF RunWatch
  <2>4. k \in Key /\ p \in Process /\ proc'[p].key = k
    BY <1>5, <2>2, <2>3, AtCopies DEF RunWatch
  <2>5. WatchCopies'
    BY <1>5, <2>1, <2>2, <2>4, WaitingCopy, WatchUpdateCopies DEF RunWatch, CopiesOK
  <2>6. ReqCopies'
    BY <1>5, <2>1, DoneCopies DEF RunWatch, CopiesOK
  <2> QED BY <1>5, <2>1, <2>5, <2>6, CopyFrame DEF RunWatch, CopiesOK
<1> QED BY <1>1, <1>2, <1>3, <1>4, <1>5

LEMMA UpdateCopies ==
  ASSUME Types, CopiesOK, NEW c \in Client,
         UpdateBegin(c) \/ UpdatePut(c) \/ UpdateProxy(c)
  PROVE  CopiesOK'
<1> USE DEF ReqPcs, SbPcs, NewPcs, OldPcs, UpdatePcs, NoKeyPcs
<1>1. ProcKeeps
  BY Still DEF UpdateBegin, UpdatePut, UpdateProxy
<1>2. CASE UpdateBegin(c)
  <2>1. PICK d \in Delta,
             targets \in {{k} : k \in Key} \cup
               {{k \in Key : store[k] # None /\ isActive(store[k].state)}} :
          /\ \A k \in targets : store[k] # None
          /\ req' = [req EXCEPT ![c] =
               [IdleReq EXCEPT !.pc = "update.put", !.arg = d,
                  !.todo = [k \in Key |-> IF k \in targets
                                          THEN Candidate(store[k], d) ELSE None]]]
    BY <1>2 DEF UpdateBegin
  <2>2. PICK todo : todo = [k \in Key |-> IF k \in targets
                                          THEN Candidate(store[k], d) ELSE None]
    OBVIOUS
  <2>3. ASSUME NEW k \in Key, todo[k] # None
        PROVE  Of(todo[k], k)'
    <3>1. k \in targets /\ todo[k] = Candidate(store[k], d)
      BY <2>2, <2>3
    <3>2. store[k] # None /\ store[k] \in OrNone(Record)
      BY <2>1, <3>1 DEF Types, StoreOK
    <3>3. PICK sb : sb = store[k]
      OBVIOUS
    <3>4. sb \in Record /\ Of(sb, k)
      BY <3>2, <3>3, OrNoneElim DEF CopiesOK, StoreCopies
    <3>5. Of(Candidate(sb, d), k)
      BY <3>4, OfUpdates
    <3>6. PICK new : new = todo[k]
      OBVIOUS
    <3>7. Of(new, k)
      BY <3>1, <3>3, <3>5, <3>6
    <3> QED BY <1>1, <3>6, <3>7, OfKeeps
  <2>4. PICK r : r = [IdleReq EXCEPT !.pc = "update.put", !.arg = d, !.todo = todo]
    OBVIOUS
  <2>5. r.pc = "update.put" /\ r.todo = todo
    BY <2>4 DEF IdleReq
  <2>6. ReqCopy(r)'
    BY <2>3, <2>5 DEF ReqCopy
  <2>7. ReqCopies'
    BY <1>1, <2>1, <2>2, <2>4, <2>6, ReqUpdateCopies DEF CopiesOK
  <2> QED BY <1>1, <1>2, <2>7, CopyFrame DEF UpdateBegin, CopiesOK
<1>3. CASE UpdatePut(c)
  <2>1. PICK k \in Key :
          /\ req[c].todo[k] # None
          /\ Set(k, req[c].todo[k])
          /\ \/ /\ Persist
                /\ req' = [req EXCEPT ![c].pc = "update.proxy", ![c].key = k]
             \/ NotPersisted /\ Done(c)
    BY <1>3 DEF UpdatePut
  <2>2. PICK todo, r : /\ todo = req[c].todo
                       /\ r = [req[c] EXCEPT !.pc = "update.proxy", !.key = k]
    OBVIOUS
  <2>3. \A l \in Key : todo[l] # None => Of(todo[l], l)
    BY <1>3, <2>2 DEF UpdatePut, At, CopiesOK, ReqCopies, ReqCopy
  <2>4. \A l \in Key : todo[l] # None => Of(todo[l], l)'
    BY <1>1, <2>3, OfKeeps
  <2>5. StoreCopies'
    BY <1>1, <2>1, <2>2, <2>4, SetCopies DEF CopiesOK
  <2>6. r.pc = "update.proxy" /\ r.todo = todo
    BY <2>2 DEF Types, ReqsOK, ReqType
  <2>7. ReqCopy(r)'
    BY <2>4, <2>6 DEF ReqCopy
  <2>8. req' = [req EXCEPT ![c].pc = "update.proxy", ![c].key = k]
        => req' = [req EXCEPT ![c] = r]
    BY <2>2 DEF Types, ReqsOK
  <2>9. ReqCopies'
    BY <1>1, <2>1, <2>7, <2>8, ReqUpdateCopies, DoneCopies DEF CopiesOK
  <2> QED BY <1>1, <1>3, <2>5, <2>9, CopyFrame DEF UpdatePut, CopiesOK
<1>4. CASE UpdateProxy(c)
  <2>1. PICK todo, rest, r :
          /\ todo = req[c].todo
          /\ rest = [req[c].todo EXCEPT ![req[c].key] = None]
          /\ r = [req[c] EXCEPT !.pc = "update.put", !.todo = rest]
    OBVIOUS
  <2>2. \A l \in Key : todo[l] # None => Of(todo[l], l)
    BY <1>4, <2>1 DEF UpdateProxy, At, CopiesOK, ReqCopies, ReqCopy
  <2>3. todo \in [Key -> OrNone(Record)]
    BY <2>1 DEF Types, ReqsOK, ReqType, Todo
  <2>4. \A l \in Key : rest[l] # None => rest[l] = todo[l]
    BY <2>1, <2>3
  <2>5. \A l \in Key : rest[l] # None => Of(rest[l], l)'
    BY <1>1, <2>2, <2>4, OfKeeps
  <2>6. r.pc = "update.put" /\ r.todo = rest
    BY <2>1 DEF Types, ReqsOK, ReqType
  <2>7. ReqCopy(r)'
    BY <2>5, <2>6 DEF ReqCopy
  <2>8. Done(c) \/ req' = [req EXCEPT ![c].pc = "update.put", ![c].todo = rest]
    BY <1>4, <2>1 DEF UpdateProxy
  <2>9. req' = [req EXCEPT ![c].pc = "update.put", ![c].todo = rest]
        => req' = [req EXCEPT ![c] = r]
    BY <2>1 DEF Types, ReqsOK
  <2>10. ReqCopies'
    BY <1>1, <2>7, <2>8, <2>9, ReqUpdateCopies, DoneCopies DEF CopiesOK
  <2> QED BY <1>1, <1>4, <2>10, CopyFrame DEF UpdateProxy, CopiesOK
<1> QED BY <1>2, <1>3, <1>4

(* A handler that opens with a copy of the stored record, changed or not. *)
LEMMA OpenStored ==
  ASSUME Types, CopiesOK, UNCHANGED proc, NEW c \in Client, NEW k \in Key,
         store[k] # None, NEW pc \in ReqPcs \ (UpdatePcs \cup NewPcs), NEW sb, NEW arg,
         Of(store[k], k) => Of(sb, k),
         Open(c, pc, k, sb, arg)
  PROVE  ReqCopies'
<1>1. Of(sb, k)
  BY DEF CopiesOK, StoreCopies
<1>2. Of(sb, k)'
  BY <1>1, Still, OfKeeps
<1> QED BY <1>2, Still, OpenCopies DEF CopiesOK

(* A request moves on and changes its record's state. *)
LEMMA NestedUpdate ==
  ASSUME ReqsOK, NEW c \in Client, NEW pc, NEW s
  PROVE  [req EXCEPT ![c].pc = pc, ![c].sb.state = s] =
         [req EXCEPT ![c] = [req[c] EXCEPT !.pc = pc,
                               !.sb = [req[c].sb EXCEPT !.state = s]]]
  BY DEF ReqsOK, ReqType

LEMMA ReloadCopies ==
  ASSUME Types, CopiesOK, NEW c \in Client,
         \/ \E k \in Key : ReloadGet(c, k)
         \/ ReloadHandle(c) \/ ReloadPut(c)
  PROVE  CopiesOK'
<1> USE DEF ReqPcs, SbPcs, NewPcs, OldPcs, UpdatePcs, NoKeyPcs
<1>1. ProcKeeps
  BY Still DEF ReloadGet, ReloadHandle, ReloadPut
<1>2. ASSUME NEW k \in Key, ReloadGet(c, k)
      PROVE  CopiesOK'
  <2>1. ReqCopies'
    BY <1>2, OpenStored DEF ReloadGet
  <2> QED BY <1>1, <1>2, <2>1, CopyFrame DEF ReloadGet, CopiesOK
<1>3. CASE ReloadHandle(c)
  <2> DEFINE s == IF req[c].sb.mounts = {} THEN "running" ELSE req[c].sb.state
  <2>1. PICK k, sb, r : /\ k = req[c].key
                        /\ sb = [req[c].sb EXCEPT !.state = s]
                        /\ r = [req[c] EXCEPT !.pc = "reload.put", !.sb = sb]
    OBVIOUS
  <2>2. At(c, "reload.handle")
    BY <1>3 DEF ReloadHandle
  <2>3. k \in Key /\ req[c].sb \in Record /\ Of(req[c].sb, k)
    BY <2>1, <2>2, AtCopies
  <2>4. Of(sb, k)
    BY <2>1, <2>3, OfUpdates
  <2>5. Of(sb, k)'
    BY <1>1, <2>3, <2>4, OfKeeps
  <2>6. r.pc = "reload.put" /\ r.key = k /\ r.sb = sb
    BY <2>1 DEF Types, ReqsOK, ReqType
  <2>7. ReqCopy(r)'
    BY <2>5, <2>6 DEF ReqCopy
  <2>8. Done(c) \/ req' = [req EXCEPT ![c] = r]
    <3>1. PICK t : t = s
      OBVIOUS
    <3>2. Done(c) \/ req' = [req EXCEPT ![c].pc = "reload.put", ![c].sb.state = t]
      BY <1>3, <3>1 DEF ReloadHandle
    <3> HIDE DEF s, ReqPcs, SbPcs, NewPcs, OldPcs, UpdatePcs, NoKeyPcs
    <3>3. r = [req[c] EXCEPT !.pc = "reload.put", !.sb = [req[c].sb EXCEPT !.state = t]]
      BY <2>1, <3>1
    <3>4. [req EXCEPT ![c].pc = "reload.put", ![c].sb.state = t] = [req EXCEPT ![c] = r]
      <4>1. ReqsOK
        BY DEF Types
      <4>2. \A pc, x : [req EXCEPT ![c].pc = pc, ![c].sb.state = x] =
                     [req EXCEPT ![c] = [req[c] EXCEPT !.pc = pc,
                        !.sb = [req[c].sb EXCEPT !.state = x]]]
        BY <4>1, NestedUpdate
      <4>3. [req EXCEPT ![c].pc = "reload.put", ![c].sb.state = t] =
            [req EXCEPT ![c] = [req[c] EXCEPT !.pc = "reload.put",
                        !.sb = [req[c].sb EXCEPT !.state = t]]]
        BY <4>2
      <4> QED BY <3>3, <4>3
    <3> QED BY <3>2, <3>4
  <2>9. ReqCopies'
    BY <1>1, <2>7, <2>8, ReqUpdateCopies, DoneCopies DEF CopiesOK
  <2> QED BY <1>1, <1>3, <2>9, CopyFrame DEF ReloadHandle, CopiesOK
<1>4. CASE ReloadPut(c)
  <2>1. StoreCopies'
    BY <1>4, PutCopies DEF ReloadPut
  <2>2. ReqCopies'
    BY <1>1, <1>4, DoneCopies DEF ReloadPut, CopiesOK
  <2> QED BY <1>1, <1>4, <2>1, <2>2, CopyFrame DEF ReloadPut, CopiesOK
<1> QED BY <1>2, <1>3, <1>4

LEMMA RestartGetCopies ==
  ASSUME Types, CopiesOK, NEW c \in Client, NEW k \in Key, RestartGet(c, k)
  PROVE  CopiesOK'
<1> USE DEF ReqPcs, SbPcs, NewPcs, OldPcs, UpdatePcs, NoKeyPcs
<1>1. ProcKeeps
  BY Still DEF RestartGet
<1>2. store[k] \in Record /\ Of(store[k], k)
  BY OrNoneElim DEF RestartGet, Types, StoreOK, CopiesOK, StoreCopies
<1>3. PICK sb, arg : /\ Of(sb, k)
                     /\ Open(c, "restart.handle", k, sb, arg)
  <2>1. CASE Open(c, "restart.handle", k, store[k], None)
    BY <1>2, <2>1
  <2>2. ASSUME NEW pf \in Profile,
               Open(c, "restart.handle", k, Resolved(store[k], pf), pf)
        PROVE  \E sb, arg : Of(sb, k) /\ Open(c, "restart.handle", k, sb, arg)
    BY <1>2, <2>2, OfUpdates
  <2> QED BY <2>1, <2>2 DEF RestartGet
<1>4. ReqCopies'
  BY <1>3, OpenStored DEF RestartGet
<1> QED BY <1>1, <1>4, CopyFrame DEF RestartGet, CopiesOK

LEMMA RestartCopies ==
  ASSUME Types, CopiesOK, NEW c \in Client,
         \/ RestartHandle(c) \/ RestartClear(c) \/ RestartKill(c)
         \/ RestartLaunch(c) \/ RestartCrashed(c) \/ RestartPut(c)
         \/ RestartProxy(c) \/ RestartWatch(c)
  PROVE  CopiesOK'
<1> USE DEF ReqPcs, SbPcs, NewPcs, OldPcs, UpdatePcs, NoKeyPcs
<1> DEFINE k == req[c].key
<1>1. CASE RestartHandle(c)
  <2>1. ProcKeeps
    BY <1>1, Still DEF RestartHandle
  <2>2. req[c].pc = "restart.handle" /\ k \in Key
    BY <1>1, AtCopies DEF RestartHandle
  <2>3. handles[k] # None => handles[k] \in Process
    BY <2>2, OrNoneElim DEF Types, TableOK
  <2>4. CASE handles[k] = None
    <3>1. ReqCopies'
      BY <1>1, <2>1, <2>2, <2>4, GotoCopies DEF RestartHandle, CopiesOK
    <3> QED BY <1>1, <2>1, <3>1, CopyFrame DEF RestartHandle, CopiesOK
  <2>5. CASE handles[k] # None
    <3>1. req' = [req EXCEPT ![c].pc = "restart.clear", ![c].old = handles[k]]
      BY <1>1, <2>5 DEF RestartHandle
    <3>2. ReqCopies'
      BY <2>1, <2>2, <2>3, <2>5, <3>1, OldCopies DEF CopiesOK
    <3> QED BY <1>1, <2>1, <3>2, CopyFrame DEF RestartHandle, CopiesOK
  <2> QED BY <2>4, <2>5
<1>2. CASE RestartClear(c)
  <2>1. ProcKeeps
    BY <1>2, Still DEF RestartClear
  <2>2. req[c].pc = "restart.clear" /\ k \in Key
    BY <1>2, AtCopies DEF RestartClear
  <2>3. ReqCopies'
    BY <1>2, <2>1, <2>2, GotoCopies DEF RestartClear, CopiesOK
  <2>4. HandleCopies'
    BY <1>2, <2>1, <2>2, HandleSetCopies DEF RestartClear, clearHandle, CopiesOK
  <2> QED BY <1>2, <2>1, <2>3, <2>4, CopyFrame DEF RestartClear, CopiesOK
<1>3. CASE RestartKill(c)
  <2>1. ProcKeeps
    BY <1>3, KillKeeps DEF RestartKill
  <2>2. req[c].pc = "restart.kill"
    BY <1>3, AtCopies DEF RestartKill
  <2>3. ReqCopies'
    BY <1>3, <2>1, <2>2, GotoCopies, DoneCopies DEF RestartKill, CopiesOK
  <2> QED BY <1>3, <2>1, <2>3, CopyFrame DEF RestartKill, CopiesOK
<1>4. CASE RestartLaunch(c)
  <2>1. At(c, "restart.launch")
    BY <1>4 DEF RestartLaunch
  <2>2. /\ req[c].sb \in Record /\ k \in Key /\ req[c] \in ReqType
        /\ Of(req[c].sb, k)
    BY <2>1, AtCopies, AtOK
  <2>3. ASSUME NEW p \in Process, Launch(p, k, req[c].sb),
               req' = [req EXCEPT ![c].pc = "restart.put", ![c].new = p,
                         ![c].sb = [captureHandleInfo(req[c].sb, p) EXCEPT
                                      !.state = "running"]]
        PROVE  ProcKeeps /\ ReqCopies'
    <3>1. PICK sb, r :
            /\ sb = [captureHandleInfo(req[c].sb, p) EXCEPT !.state = "running"]
            /\ r = [req[c] EXCEPT !.pc = "restart.put", !.new = p, !.sb = sb]
      OBVIOUS
    <3>2. sb.pid = p /\ sb.id = req[c].sb.id
      BY <2>2, <3>1 DEF captureHandleInfo, Record
    <3>3. r.key = k /\ r.sb = sb /\ r.new = p /\ r.pc = "restart.put"
      BY <2>2, <3>1 DEF ReqType
    <3>4. req' = [req EXCEPT ![c] = r]
      BY <2>3, <3>1 DEF Types, ReqsOK
    <3> QED BY <2>2, <2>3, <3>2, <3>3, <3>4, LaunchCopies
  <2>4. ASSUME UNCHANGED proc,
               req' = [req EXCEPT ![c].pc = "restart.crashed",
                                  ![c].sb.state = "crashed"]
        PROVE  ProcKeeps /\ ReqCopies'
    <3>1. PICK l, sb, r :
            /\ l = k
            /\ sb = [req[c].sb EXCEPT !.state = "crashed"]
            /\ r = [req[c] EXCEPT !.pc = "restart.crashed", !.sb = sb]
      OBVIOUS
    <3>2. Of(sb, l)
      BY <2>2, <3>1, OfUpdates
    <3>3. Of(sb, l)'
      BY <2>2, <2>4, <3>1, <3>2, Still, OfKeeps
    <3>4. r.pc = "restart.crashed" /\ r.key = l /\ r.sb = sb
      BY <2>2, <3>1 DEF ReqType
    <3>5. ReqCopy(r)'
      BY <3>3, <3>4 DEF ReqCopy
    <3>6. req' = [req EXCEPT ![c] = r]
      BY <2>4, <3>1 DEF Types, ReqsOK, ReqType
    <3> QED BY <2>4, <3>5, <3>6, Still, ReqUpdateCopies DEF CopiesOK
  <2>5. ProcKeeps /\ ReqCopies'
    BY <1>4, <2>3, <2>4 DEF RestartLaunch
  <2> QED BY <1>4, <2>5, CopyFrame DEF RestartLaunch, CopiesOK
<1>5. CASE RestartCrashed(c)
  <2>1. StoreCopies'
    BY <1>5, PutCopies DEF RestartCrashed
  <2>2. ProcKeeps
    BY <1>5, Still DEF RestartCrashed
  <2>3. ReqCopies'
    BY <1>5, <2>2, DoneCopies DEF RestartCrashed, CopiesOK
  <2> QED BY <1>5, <2>1, <2>2, <2>3, CopyFrame DEF RestartCrashed, CopiesOK
<1>6. CASE RestartPut(c)
  <2>1. StoreCopies'
    BY <1>6, PutCopies DEF RestartPut
  <2>2. ProcKeeps
    BY <1>6, Still DEF RestartPut
  <2>3. ReqCopies'
    BY <1>6, <2>2, AtCopies, DoneCopies, GotoCopies DEF RestartPut, CopiesOK
  <2> QED BY <1>6, <2>1, <2>2, <2>3, CopyFrame DEF RestartPut, CopiesOK
<1>7. CASE RestartProxy(c)
  <2>1. ProcKeeps
    BY <1>7, Still DEF RestartProxy
  <2>2. ReqCopies'
    BY <1>7, <2>1, AtCopies, GotoCopies DEF RestartProxy, CopiesOK
  <2> QED BY <1>7, <2>1, <2>2, CopyFrame DEF RestartProxy, CopiesOK
<1>8. CASE RestartWatch(c)
  <2>1. ProcKeeps
    BY <1>8, Still DEF RestartWatch
  <2>2. PICK l, p, e : l = k /\ p = req[c].new /\ e = epoch'[k]
    OBVIOUS
  <2>3. At(c, "restart.watch")
    BY <1>8 DEF RestartWatch
  <2>4. l \in Key /\ p \in Process /\ proc'[p].key = l
    BY <1>8, <2>2, <2>3, AtCopies DEF RestartWatch
  <2>5. HandleCopies'
    BY <1>8, <2>1, <2>2, <2>4, HandleSetCopies DEF RestartWatch, CopiesOK
  <2>6. WatchCopies'
    BY <1>8, <2>1, <2>2, <2>4, WaitingCopy, WatchUpdateCopies
       DEF RestartWatch, CopiesOK
  <2>7. ReqCopies'
    BY <1>8, <2>1, DoneCopies DEF RestartWatch, CopiesOK
  <2> QED BY <1>8, <2>1, <2>5, <2>6, <2>7, CopyFrame DEF RestartWatch, CopiesOK
<1> QED BY <1>1, <1>2, <1>3, <1>4, <1>5, <1>6, <1>7, <1>8

LEMMA StopCopies ==
  ASSUME Types, CopiesOK, NEW c \in Client,
         \/ \E k \in Key : StopGet(c, k)
         \/ StopPut(c) \/ StopHandle(c) \/ StopClear(c) \/ StopKill(c)
  PROVE  CopiesOK'
<1> USE DEF ReqPcs, SbPcs, NewPcs, OldPcs, UpdatePcs, NoKeyPcs
<1> DEFINE h == handles[req[c].key]
<1>1. ASSUME NEW k \in Key, StopGet(c, k)
      PROVE  CopiesOK'
  <2>1. PICK sb : sb = [store[k] EXCEPT !.state = "stopped"]
    OBVIOUS
  <2>2. store[k] \in Record
    BY <1>1, OrNoneElim DEF StopGet, Types, StoreOK
  <2>3. Of(store[k], k) => Of(sb, k)
    BY <2>1, <2>2, OfUpdates
  <2>4. ReqCopies'
    BY <1>1, <2>1, <2>3, OpenStored DEF StopGet
  <2> QED BY <1>1, <2>4, Still, CopyFrame DEF StopGet, CopiesOK
<1>2. CASE StopPut(c)
  <2>1. StoreCopies'
    BY <1>2, PutCopies DEF StopPut
  <2>2. ProcKeeps
    BY <1>2, Still DEF StopPut
  <2>3. ReqCopies'
    BY <1>2, <2>2, AtCopies, DoneCopies, GotoCopies DEF StopPut, CopiesOK
  <2> QED BY <1>2, <2>1, <2>2, <2>3, CopyFrame DEF StopPut, CopiesOK
<1>3. CASE StopHandle(c)
  <2>1. ProcKeeps
    BY <1>3, Still DEF StopHandle
  <2>2. req[c].pc = "stop.handle" /\ req[c].key \in Key
    BY <1>3, AtCopies DEF StopHandle
  <2>3. h # None => h \in Process
    BY <2>2, OrNoneElim DEF Types, TableOK
  <2>4. Done(c) => ReqCopies'
    BY <2>1, DoneCopies DEF CopiesOK
  <2>5. h # None /\ req' = [req EXCEPT ![c].pc = "stop.clear", ![c].old = h] => ReqCopies'
    BY <2>1, <2>2, <2>3, OldCopies DEF CopiesOK
  <2>6. ReqCopies'
    BY <1>3, <2>4, <2>5 DEF StopHandle
  <2> QED BY <1>3, <2>1, <2>6, CopyFrame DEF StopHandle, CopiesOK
<1>4. CASE StopClear(c)
  <2>1. ProcKeeps
    BY <1>4, Still DEF StopClear
  <2>2. req[c].pc = "stop.clear" /\ req[c].key \in Key
    BY <1>4, AtCopies DEF StopClear
  <2>3. ReqCopies'
    BY <1>4, <2>1, <2>2, GotoCopies DEF StopClear, CopiesOK
  <2>4. HandleCopies'
    BY <1>4, <2>1, <2>2, HandleSetCopies DEF StopClear, clearHandle, CopiesOK
  <2> QED BY <1>4, <2>1, <2>3, <2>4, CopyFrame DEF StopClear, CopiesOK
<1>5. CASE StopKill(c)
  <2>1. ProcKeeps
    BY <1>5, KillKeeps DEF StopKill
  <2>2. ReqCopies'
    BY <1>5, <2>1, DoneCopies DEF StopKill, CopiesOK
  <2> QED BY <1>5, <2>1, <2>2, CopyFrame DEF StopKill, CopiesOK
<1> QED BY <1>1, <1>2, <1>3, <1>4, <1>5

LEMMA DeleteMergeCopies ==
  ASSUME Types, CopiesOK, NEW c \in Client,
         \/ \E k \in Key : DeleteGet(c, k) \/ MergeGet(c, k)
         \/ DeleteStore(c) \/ MergePut(c)
  PROVE  CopiesOK'
<1> USE DEF ReqPcs, SbPcs, NewPcs, OldPcs, UpdatePcs, NoKeyPcs
<1>1. ProcKeeps
  BY Still DEF DeleteGet, DeleteStore, MergeGet, MergePut
<1>2. ASSUME NEW k \in Key, DeleteGet(c, k)
      PROVE  CopiesOK'
  <2>1. ReqCopies'
    BY <1>2, OpenStored DEF DeleteGet
  <2> QED BY <1>1, <1>2, <2>1, CopyFrame DEF DeleteGet, CopiesOK
<1>3. CASE DeleteStore(c)
  <2>1. req[c].key \in Key
    BY <1>3, AtCopies DEF DeleteStore
  <2>2. StoreCopies'
    BY <1>1, <1>3, <2>1, SetCopies DEF DeleteStore, CopiesOK
  <2>3. ReqCopies'
    BY <1>1, <1>3, DoneCopies DEF DeleteStore, CopiesOK
  <2> QED BY <1>1, <1>3, <2>2, <2>3, CopyFrame DEF DeleteStore, CopiesOK
<1>4. ASSUME NEW k \in Key, MergeGet(c, k)
      PROVE  CopiesOK'
  <2>1. PICK sb :
          /\ \E wt : sb = [store[k] EXCEPT !.mounts = @ \ {wt},
                        !.state = IF isActive(@) THEN "reload-pending" ELSE @]
          /\ Open(c, "merge.put", k, sb, None)
    BY <1>4 DEF MergeGet
  <2>2. store[k] \in Record
    BY <1>4, OrNoneElim DEF MergeGet, Types, StoreOK
  <2>3. sb.pid = store[k].pid /\ sb.id = store[k].id
    BY <2>1, <2>2 DEF Record
  <2>4. Of(store[k], k) => Of(sb, k)
    BY <2>3 DEF Of
  <2>5. ReqCopies'
    BY <1>4, <2>1, <2>4, OpenStored DEF MergeGet
  <2> QED BY <1>1, <1>4, <2>5, CopyFrame DEF MergeGet, CopiesOK
<1>5. CASE MergePut(c)
  <2>1. StoreCopies'
    BY <1>5, PutCopies DEF MergePut
  <2>2. ReqCopies'
    BY <1>1, <1>5, DoneCopies DEF MergePut, CopiesOK
  <2> QED BY <1>1, <1>5, <2>1, <2>2, CopyFrame DEF MergePut, CopiesOK
<1> QED BY <1>2, <1>3, <1>4, <1>5

LEMMA AttachCopies ==
  ASSUME Types, CopiesOK, NEW c \in Client,
         \/ \E k \in Key : AttachGet(c, k)
         \/ AttachTry(c) \/ AttachHandle(c) \/ AttachDial(c)
         \/ SessionEnd(c) \/ AttachDetach(c)
  PROVE  CopiesOK'
<1> USE DEF ReqPcs, SbPcs, NewPcs, OldPcs, UpdatePcs, NoKeyPcs
<1> DEFINE k == req[c].key
<1>1. ProcKeeps
  BY Still DEF AttachGet, AttachTry, AttachHandle, AttachDial, SessionEnd, AttachDetach
<1>2. ReqCopies'
  <2>1. ASSUME NEW l \in Key, AttachGet(c, l)
        PROVE  ReqCopies'
    BY <1>1, <2>1, OpenCopies DEF AttachGet, CopiesOK
  <2>2. CASE AttachTry(c)
    BY <1>1, <2>2, DoneCopies, GotoCopies DEF AttachTry, CopiesOK
  <2>3. CASE AttachHandle(c)
    <3>1. req[c].pc = "attach.handle" /\ k \in Key
      BY <2>3, AtCopies DEF AttachHandle
    <3>2. handles[k] # None => handles[k] \in Process
      BY <3>1, OrNoneElim DEF Types, TableOK
    <3>3. Goto(c, "attach.detach") => ReqCopies'
      BY <1>1, GotoCopies DEF CopiesOK
    <3>4. /\ handles[k] # None
          /\ req' = [req EXCEPT ![c].pc = "attach.dial", ![c].old = handles[k]]
          => ReqCopies'
      BY <1>1, <3>2, OldCopies DEF CopiesOK
    <3> QED BY <2>3, <3>3, <3>4 DEF AttachHandle
  <2>4. CASE AttachDial(c)
    BY <1>1, <2>4, GotoCopies DEF AttachDial, CopiesOK
  <2>5. CASE SessionEnd(c)
    BY <1>1, <2>5, GotoCopies DEF SessionEnd, CopiesOK
  <2>6. CASE AttachDetach(c)
    BY <1>1, <2>6, DoneCopies DEF AttachDetach, CopiesOK
  <2> QED BY <2>1, <2>2, <2>3, <2>4, <2>5, <2>6
<1> QED BY <1>1, <1>2, CopyFrame
        DEF AttachGet, AttachTry, AttachHandle, AttachDial, SessionEnd,
            AttachDetach, CopiesOK

----------------------------------------------------------------------------
(* watchLoop. *)

LEMMA WAtCopies ==
  ASSUME Types, CopiesOK, NEW p \in Process, NEW pc, WAt(p, pc)
  PROVE  /\ UNCHANGED req
         /\ watch[p].pc = pc /\ watch[p] \in WatchType
         /\ pc # "none" => watch[p].key \in Key /\ proc[p].key = watch[p].key
         /\ pc \in CopyPcs => /\ watch[p].sb \in Record
                              /\ Of(watch[p].sb, watch[p].key)
         /\ pc \in HeirPcs => /\ watch[p].new \in Process
                              /\ proc[watch[p].new].key = watch[p].key
  BY DEF WAt, Types, WatchesOK, WatchOK, CopiesOK, WatchCopies, WatchCopy

LEMMA WDoneCopies ==
  ASSUME Types, ProcKeeps, WatchCopies, NEW p \in Process, WDone(p)
  PROVE  WatchCopies'
<1>1. WatchCopy(p, NoWatch)'
  BY DEF WatchCopy, NoWatch, CopyPcs, HeirPcs
<1> QED BY <1>1, WatchUpdateCopies DEF WDone

LEMMA WGotoCopies ==
  ASSUME Types, ProcKeeps, WatchCopies, NEW p \in Process, NEW pc, WGoto(p, pc),
         watch[p].pc # "none",
         pc \in CopyPcs => watch[p].pc \in CopyPcs,
         pc \in HeirPcs => watch[p].pc \in HeirPcs
  PROVE  WatchCopies'
<1>1. PICK v, w : v = watch[p] /\ w = [watch[p] EXCEPT !.pc = pc]
  OBVIOUS
<1>2. WatchOK(v) /\ WatchCopy(p, v)
  BY <1>1 DEF Types, WatchesOK, WatchCopies
<1>3. WatchCopy(p, v)'
  BY <1>2, WatchRowKeeps
<1>4. w.pc = pc /\ w.key = v.key /\ w.sb = v.sb /\ w.new = v.new
  BY <1>1 DEF Types, WatchesOK, WatchType
<1>5. WatchCopy(p, w)'
  BY <1>1, <1>3, <1>4 DEF WatchCopy
<1>6. watch' = [watch EXCEPT ![p] = w]
  BY <1>1 DEF WGoto, Types, WatchesOK
<1> QED BY <1>5, <1>6, WatchUpdateCopies

(* A watchLoop takes a working copy, or changes it. *)
LEMMA TakeCopies ==
  ASSUME Types, CopiesOK, UNCHANGED proc, NEW p \in Process,
         watch[p].pc # "none", NEW sb, Of(sb, watch[p].key),
         NEW pc \in CopyPcs \ HeirPcs,
         watch' = [watch EXCEPT ![p].pc = pc, ![p].sb = sb]
  PROVE  WatchCopies'
<1>1. PICK v, w : v = watch[p] /\ w = [watch[p] EXCEPT !.pc = pc, !.sb = sb]
  OBVIOUS
<1>2. WatchOK(v) /\ v.key \in Key /\ proc[p].key = v.key /\ Of(sb, v.key)
  BY <1>1 DEF Types, WatchesOK, WatchOK, CopiesOK, WatchCopies, WatchCopy
<1>3. w.pc = pc /\ w.key = v.key /\ w.sb = sb
  BY <1>1 DEF Types, WatchesOK, WatchType
<1>4. Of(sb, v.key)'
  BY <1>2, Still, OfKeeps
<1>5. WatchCopy(p, w)'
  BY <1>2, <1>3, <1>4 DEF WatchCopy
<1>6. watch' = [watch EXCEPT ![p] = w]
  BY <1>1 DEF Types, WatchesOK
<1> QED BY <1>5, <1>6, Still, WatchUpdateCopies DEF CopiesOK

LEMMA WatchPutCopies ==
  ASSUME Types, CopiesOK, NEW p \in Process, NEW pc \in CopyPcs, WatchPut(p, pc)
  PROVE  /\ ProcKeeps /\ StoreCopies' /\ HandleCopies' /\ ReqCopies'
         /\ watch[p].pc = pc
<1>1. PICK sb, k : sb = watch[p].sb /\ k = watch[p].key
  OBVIOUS
<1>2. /\ Of(sb, k) /\ k \in Key /\ UNCHANGED req /\ watch[p].pc = pc
  BY <1>1, WAtCopies DEF WatchPut, CopyPcs
<1>3. ProcKeeps
  BY Still DEF WatchPut
<1>4. Of(sb, k)'
  BY <1>2, <1>3, OfKeeps
<1>5. StoreCopies'
  BY <1>1, <1>2, <1>3, <1>4, SetCopies DEF WatchPut, CopiesOK
<1> QED BY <1>2, <1>3, <1>5, CopyFrame DEF WatchPut, CopiesOK

LEMMA WatchStepCopies ==
  ASSUME Types, CopiesOK, NEW p \in Process, WatchStep(p)
  PROVE  CopiesOK'
<1> USE DEF CopyPcs, HeirPcs
<1>1. CASE WatchExit(p)
  <2>1. ProcKeeps
    BY <1>1, Still DEF WatchExit
  <2>2. WatchCopies'
    BY <1>1, <2>1, WAtCopies, WDoneCopies, WGotoCopies DEF WatchExit, CopiesOK
  <2> QED BY <1>1, <2>1, <2>2, WAtCopies, CopyFrame DEF WatchExit, CopiesOK
<1>2. CASE WatchGet(p)
  <2>1. WAt(p, "get") /\ ProcKeeps
    BY <1>2, Still DEF WatchGet
  <2>2. watch[p].key \in Key /\ watch[p].pc = "get" /\ UNCHANGED req
    BY <2>1, WAtCopies
  <2>3. PICK k, r, clean : /\ k = watch[p].key /\ r = store[k]
                           /\ clean = (proc[p].st = "clean")
    OBVIOUS
  <2>4. CASE r = None
    <3>1. WatchCopies'
      BY <1>2, <2>1, <2>3, <2>4, WDoneCopies DEF WatchGet, CopiesOK
    <3> QED BY <1>2, <2>1, <2>2, <3>1, CopyFrame DEF WatchGet, CopiesOK
  <2>5. CASE r # None
    <3>1. r \in Record /\ Of(r, k)
      BY <2>2, <2>3, <2>5, OrNoneElim
         DEF Types, StoreOK, CopiesOK, StoreCopies
    <3>2. PICK up, end : /\ up = [r EXCEPT !.count = @ + 1, !.state = "restarting"]
                         /\ end = [r EXCEPT !.state = FinalState(r, clean)]
      OBVIOUS
    <3>3. Of(up, k) /\ Of(end, k)
      BY <2>2, <2>3, <3>1, <3>2, OfUpdates
    <3>4. \/ watch' = [watch EXCEPT ![p].pc = "restarting", ![p].sb = up]
          \/ watch' = [watch EXCEPT ![p].pc = "clear", ![p].sb = end]
      BY <1>2, <2>3, <2>5, <3>2 DEF WatchGet
    <3>5. {"restarting", "clear"} \subseteq CopyPcs \ HeirPcs /\ watch[p].pc # "none"
      BY <2>2
    <3>6. WatchCopies'
      <4> HIDE DEF CopyPcs, HeirPcs
      <4>1. UNCHANGED proc
        BY <1>2 DEF WatchGet
      <4> QED BY <2>2, <2>3, <3>3, <3>4, <3>5, <4>1, TakeCopies
    <3> QED BY <1>2, <2>1, <2>2, <3>6, CopyFrame DEF WatchGet, CopiesOK
  <2> QED BY <2>4, <2>5
<1>3. CASE WatchRestarting(p)
  <2>1. WatchCopies'
    BY <1>3, WatchPutCopies, WGotoCopies DEF WatchRestarting, CopiesOK
  <2> QED BY <1>3, <2>1, WatchPutCopies DEF WatchRestarting, CopiesOK
<1>4. CASE WatchRelaunch(p)
  <2>1. WAt(p, "backoff")
    BY <1>4 DEF WatchRelaunch
  <2>2. PICK k, sb, v : k = watch[p].key /\ sb = watch[p].sb /\ v = watch[p]
    OBVIOUS
  <2>3. /\ k \in Key /\ sb \in Record /\ Of(sb, k) /\ v \in WatchType
        /\ v.pc = "backoff" /\ proc[p].key = k /\ UNCHANGED req
    BY <2>1, <2>2, WAtCopies
  <2>4. ASSUME NEW q \in Process, Launch(q, k, sb),
               watch' = [watch EXCEPT ![p].pc = "running", ![p].new = q,
                           ![p].sb = [captureHandleInfo(sb, q) EXCEPT
                                        !.state = "running"]]
        PROVE  ProcKeeps /\ WatchCopies'
    <3>1. PICK nb, w :
            /\ nb = [captureHandleInfo(sb, q) EXCEPT !.state = "running"]
            /\ w = [v EXCEPT !.pc = "running", !.new = q, !.sb = nb]
      OBVIOUS
    <3>2. nb.pid = q /\ nb.id = sb.id
      BY <2>3, <3>1 DEF captureHandleInfo, Record
    <3>3. ProcKeeps /\ proc'[q].key = k /\ proc'[q].id = sb.id
      BY <2>3, <2>4, LaunchKeeps
    <3>4. proc'[p].key = k
      BY <2>3, <3>3, ConstantsAssumption DEF ProcKeeps
    <3>5. w.pc = "running" /\ w.key = k /\ w.sb = nb /\ w.new = q
      BY <2>2, <2>3, <3>1 DEF WatchType
    <3>6. WatchCopy(p, w)'
      BY <3>2, <3>3, <3>4, <3>5 DEF WatchCopy, Of
    <3>7. watch' = [watch EXCEPT ![p] = w]
      BY <2>2, <2>4, <3>1 DEF Types, WatchesOK
    <3> QED BY <3>3, <3>6, <3>7, WatchUpdateCopies DEF CopiesOK
  <2>5. ASSUME UNCHANGED proc,
               watch' = [watch EXCEPT ![p].pc = "crashed",
                                      ![p].sb.state = "crashed"]
        PROVE  ProcKeeps /\ WatchCopies'
    <3>1. PICK nb : nb = [sb EXCEPT !.state = "crashed"]
      OBVIOUS
    <3>2. Of(nb, k)
      BY <2>3, <3>1, OfUpdates
    <3>3. watch' = [watch EXCEPT ![p].pc = "crashed", ![p].sb = nb]
      BY <2>2, <2>3, <2>5, <3>1 DEF Types, WatchesOK, WatchType
    <3>4. "crashed" \in CopyPcs \ HeirPcs /\ watch[p].pc # "none"
      BY <2>2, <2>3
    <3>5. WatchCopies'
      <4> HIDE DEF CopyPcs, HeirPcs
      <4> QED BY <2>2, <2>3, <2>5, <3>2, <3>3, <3>4, TakeCopies
    <3> QED BY <2>5, <3>5, Still
  <2>6. ProcKeeps /\ WatchCopies'
    BY <1>4, <2>2, <2>4, <2>5 DEF WatchRelaunch
  <2> QED BY <1>4, <2>3, <2>6, CopyFrame DEF WatchRelaunch, CopiesOK
<1>5. CASE WatchCrashed(p)
  <2>1. WatchCopies'
    BY <1>5, WatchPutCopies, WGotoCopies DEF WatchCrashed, CopiesOK
  <2> QED BY <1>5, <2>1, WatchPutCopies DEF WatchCrashed, CopiesOK
<1>6. CASE WatchCrashedClear(p)
  <2>1. ProcKeeps
    BY <1>6, Still DEF WatchCrashedClear
  <2>2. watch[p].key \in Key /\ UNCHANGED req
    BY <1>6, WAtCopies DEF WatchCrashedClear
  <2>3. HandleCopies'
    BY <1>6, <2>1, <2>2, HandleSetCopies DEF WatchCrashedClear, clearHandle, CopiesOK
  <2>4. WatchCopies'
    BY <1>6, <2>1, WDoneCopies DEF WatchCrashedClear, CopiesOK
  <2> QED BY <1>6, <2>1, <2>2, <2>3, <2>4, CopyFrame DEF WatchCrashedClear, CopiesOK
<1>7. CASE WatchRunning(p)
  <2>1. WatchCopies'
    BY <1>7, WatchPutCopies, WGotoCopies DEF WatchRunning, CopiesOK
  <2> QED BY <1>7, <2>1, WatchPutCopies DEF WatchRunning, CopiesOK
<1>8. CASE WatchSetHandle(p)
  <2>1. ProcKeeps
    BY <1>8, Still DEF WatchSetHandle
  <2>2. WAt(p, "sethandle")
    BY <1>8 DEF WatchSetHandle
  <2>3. PICK k, q, w : /\ k = watch[p].key /\ q = watch[p].new
                       /\ w = Watching(k, epoch'[k])
    OBVIOUS
  <2>4. /\ k \in Key /\ q \in Process /\ UNCHANGED req
        /\ proc'[q].key = k /\ proc'[p].key = k
    BY <1>8, <2>2, <2>3, WAtCopies DEF WatchSetHandle
  <2>5. HandleCopies'
    BY <1>8, <2>1, <2>3, <2>4, HandleSetCopies DEF WatchSetHandle, CopiesOK
  <2>6. WatchCopy(p, NoWatch)' /\ WatchCopy(q, w)'
    BY <2>3, <2>4, WaitingCopy
  <2>7. watch' = [watch EXCEPT ![p] = NoWatch, ![q] = w]
    BY <1>8, <2>3 DEF WatchSetHandle
  <2>8. ASSUME NEW x \in Process
        PROVE  WatchCopy(x, watch[x])'
    <3>1. PICK v : v = watch[x]
      OBVIOUS
    <3>2. WatchOK(v) /\ WatchCopy(x, v)
      BY <3>1 DEF Types, WatchesOK, CopiesOK, WatchCopies
    <3>3. WatchCopy(x, v)'
      BY <2>1, <3>2, WatchRowKeeps
    <3>4. watch'[x] = IF x = q THEN w ELSE IF x = p THEN NoWatch ELSE v
      BY <2>4, <2>7, <3>1 DEF Types, WatchesOK
    <3> QED BY <2>6, <3>3, <3>4 DEF WatchCopy, Of
  <2>9. WatchCopies'
    BY <2>8 DEF WatchCopies
  <2> QED BY <1>8, <2>1, <2>4, <2>5, <2>9, CopyFrame DEF WatchSetHandle, CopiesOK
<1>9. CASE WatchClear(p)
  <2>1. ProcKeeps
    BY <1>9, Still DEF WatchClear
  <2>2. watch[p].key \in Key /\ UNCHANGED req /\ watch[p].pc = "clear"
    BY <1>9, WAtCopies DEF WatchClear
  <2>3. HandleCopies'
    BY <1>9, <2>1, <2>2, HandleSetCopies DEF WatchClear, clearHandle, CopiesOK
  <2>4. WatchCopies'
    BY <1>9, <2>1, <2>2, WGotoCopies DEF WatchClear, CopiesOK
  <2> QED BY <1>9, <2>1, <2>2, <2>3, <2>4, CopyFrame DEF WatchClear, CopiesOK
<1>10. CASE WatchFinal(p)
  <2>1. WatchCopies'
    BY <1>10, WatchPutCopies, WDoneCopies DEF WatchFinal, CopiesOK
  <2> QED BY <1>10, <2>1, WatchPutCopies DEF WatchFinal, CopiesOK
<1> QED BY <1>1, <1>2, <1>3, <1>4, <1>5, <1>6, <1>7, <1>8, <1>9, <1>10 DEF WatchStep

----------------------------------------------------------------------------
(* The world and startup. *)

LEMMA ExitCopies ==
  ASSUME Types, CopiesOK, NEW p \in Process, Exit(p)
  PROVE  CopiesOK'
<1>1. ProcKeeps
  BY DEF Exit, Types, ProcOK, ProcType, ProcKeeps
<1> QED BY <1>1, CopyFrame DEF Exit, CopiesOK

LEMMA CrashCopies ==
  ASSUME Types, CopiesOK, Crash
  PROVE  CopiesOK'
<1>1. ProcKeeps
  BY Still DEF Crash
<1>2. StoreCopies'
  BY <1>1, OfKeeps DEF Crash, CopiesOK, StoreCopies, Of
<1>3. HandleCopies'
  BY DEF Crash, HandleCopies
<1>4. ReqCopies'
  BY DEF Crash, ReqCopies, ReqCopy, IdleReq, SbPcs, NewPcs, UpdatePcs
<1>5. WatchCopies'
  BY DEF Crash, WatchCopies, WatchCopy, NoWatch, CopyPcs, HeirPcs
<1> QED BY <1>2, <1>3, <1>4, <1>5 DEF CopiesOK

LEMMA StartupCopies ==
  ASSUME Types, CopiesOK, StartLoad \/ StartReattach \/ Serve
  PROVE  CopiesOK'
<1>1. CASE StartLoad
  <2>1. ProcKeeps
    BY <1>1, Still DEF StartLoad
  <2>2. StoreCopies'
    BY <1>1, <2>1, OfKeeps DEF StartLoad, CopiesOK, StoreCopies, Of
  <2> QED BY <1>1, <2>1, <2>2, CopyFrame DEF StartLoad, CopiesOK
<1>2. CASE StartReattach
  BY <1>2, Still, CopyFrame DEF StartReattach, CopiesOK
<1>3. CASE Serve
  BY <1>3, Still, CopyFrame DEF Serve, CopiesOK
<1> QED BY <1>1, <1>2, <1>3

LEMMA ReconcileCopies ==
  ASSUME Types, CopiesOK, NEW k \in Key, store[k] # None, Reconcile(k)
  PROVE  CopiesOK'
<1>1. ProcKeeps
  BY Still DEF Reconcile
<1>2. CASE UNCHANGED storeVars
  BY <1>1, <1>2, CopyFrame DEF Reconcile, CopiesOK
<1>3. CASE /\ Set(k, [store[k] EXCEPT !.state = "stopped"])
           /\ Persist \/ NotPersisted
  <2>1. PICK r, sb : r = store[k] /\ sb = [r EXCEPT !.state = "stopped"]
    OBVIOUS
  <2>2. r \in Record /\ Of(r, k)
    BY <2>1, OrNoneElim DEF Types, StoreOK, CopiesOK, StoreCopies
  <2>3. Of(sb, k)
    BY <2>1, <2>2, OfUpdates
  <2>4. Of(sb, k)'
    BY <1>1, <2>3, OfKeeps
  <2>5. StoreCopies'
    BY <1>1, <1>3, <2>1, <2>4, SetCopies DEF CopiesOK
  <2> QED BY <1>1, <2>5, CopyFrame DEF Reconcile, CopiesOK
<1> QED BY <1>2, <1>3 DEF Reconcile

LEMMA ReattachCopies ==
  ASSUME Types, CopiesOK, NEW k \in Key, store[k] # None, Reattach(k)
  PROVE  CopiesOK'
<1>1. ProcKeeps
  BY Still DEF Reattach
<1>2. PICK p : p = store[k].pid
  OBVIOUS
<1>3. p \in Process /\ proc'[p].key = k
  BY <1>2 DEF CopiesOK, StoreCopies, Of, Reattach
<1>4. CASE Alive(p)
  <2>1. PICK w : w = Watching(k, epoch'[k])
    OBVIOUS
  <2>2. HandleCopies'
    BY <1>1, <1>2, <1>3, <1>4, HandleSetCopies DEF Reattach, CopiesOK
  <2>3. WatchCopy(p, w)'
    BY <1>3, <2>1, WaitingCopy
  <2>4. watch' = [watch EXCEPT ![p] = w]
    BY <1>2, <1>4, <2>1 DEF Reattach
  <2>5. WatchCopies'
    BY <1>1, <1>3, <2>3, <2>4, WatchUpdateCopies DEF CopiesOK
  <2> QED BY <1>1, <2>2, <2>5, CopyFrame DEF Reattach, CopiesOK
<1>5. CASE ~Alive(p)
  BY <1>1, <1>2, <1>5, CopyFrame DEF Reattach, CopiesOK
<1> QED BY <1>4, <1>5

LEMMA CopiesInit == Init => CopiesOK
<1> SUFFICES ASSUME Init PROVE CopiesOK
  OBVIOUS
<1>1. StoreCopies /\ HandleCopies
  BY DEF Init, StoreCopies, HandleCopies
<1>2. ReqCopies
  BY DEF Init, ReqCopies, ReqCopy, IdleReq, SbPcs, NewPcs, UpdatePcs
<1>3. WatchCopies
  BY DEF Init, WatchCopies, WatchCopy, NoWatch, CopyPcs, HeirPcs
<1> QED BY <1>1, <1>2, <1>3 DEF CopiesOK

LEMMA CopiesImplyKeysApart == CopiesOK => KeysApart
  BY DEF CopiesOK, StoreCopies, HandleCopies, Of, KeysApart, BelongsTo

=============================================================================
