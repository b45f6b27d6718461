--------------------------- MODULE ManagerProofs ----------------------------
(***************************************************************************)
(* The theorems about Manager, for any number of sandboxes, requests,      *)
(* processes and crashes: its types, that sandboxes stay apart, that       *)
(* epochs tell watchLoops apart, that no handle goes unwatched where no    *)
(* request deletes, and that "running" shows the process's mounts.  IInv   *)
(* is the inductive invariant; ManagerTypes keeps its conjuncts Types and  *)
(* CopiesOK, and the first part of this module StartInv and EpochInv:      *)
(* startup comes before every request, and no epoch of a key is ever held  *)
(* by two goroutines.  The second part adds what HandleWatched rests on: a *)
(* process not yet waited for is in one goroutine's hands (Newborn), and   *)
(* no record that a goroutine works on leaves the store (Known).  The last *)
(* follows every copy of a record for MountsShown (MountsInv).             *)
(***************************************************************************)
EXTENDS ManagerTypes, TLAPS

(* What a step may do to the holders of epochs without more being said: let
   go of them, and advance the counters. *)
WKeeps(p) == Waits(p)' => /\ Waits(p)
                          /\ watch'[p].key = watch[p].key
                          /\ watch'[p].epoch = watch[p].epoch
RKeeps(c) == Starts(c)' => /\ Starts(c)
                           /\ req'[c].key = req[c].key
                           /\ req'[c].epoch = req[c].epoch
Advances == \A k \in Key : epoch[k] <= epoch'[k]

LEMMA StillKeeps ==
  ASSUME Types
  PROVE  /\ UNCHANGED watch => \A p \in Process : WKeeps(p)
         /\ UNCHANGED req => \A c \in Client : RKeeps(c)
         /\ UNCHANGED tableVars => Advances
         /\ \A k \in Key : \A p : setHandle(k, p) => Advances
         /\ \A k \in Key : clearHandle(k) => Advances
<1>1. UNCHANGED watch => \A p \in Process : WKeeps(p)
  BY DEF WKeeps, Waits
<1>2. UNCHANGED req => \A c \in Client : RKeeps(c)
  BY DEF RKeeps, Starts
<1>3. UNCHANGED tableVars => Advances
  BY DEF Types, TableOK, tableVars, Advances
<1>4. \A k \in Key : \A p : setHandle(k, p) => Advances
  BY DEF Types, TableOK, setHandle, Advances
<1> QED BY <1>1, <1>2, <1>3, <1>4 DEF clearHandle

LEMMA EpochFrame ==
  ASSUME Types, Types', EpochInv, Advances,
         \A p \in Process : WKeeps(p), \A c \in Client : RKeeps(c)
  PROVE  EpochInv'
<1>1. EpochsPast'
  <2>1. ASSUME NEW p \in Process, Waits(p)'
        PROVE  (watch[p].epoch <= epoch[watch[p].key])'
    <3>1. PICK k, e : k = watch[p].key /\ e = watch[p].epoch
      OBVIOUS
    <3>2. k \in Key /\ e \in Nat /\ e <= epoch[k]
      BY <2>1, <3>1
         DEF EpochInv, EpochsPast, WKeeps, Waits, Types, WatchesOK, WatchOK, WatchType
    <3>3. watch'[p].key = k /\ watch'[p].epoch = e
      BY <2>1, <3>1 DEF WKeeps
    <3>4. epoch[k] \in Nat /\ epoch'[k] \in Nat /\ epoch[k] <= epoch'[k]
      BY <3>2 DEF Types, TableOK, Advances
    <3> QED BY <3>2, <3>3, <3>4
  <2>2. ASSUME NEW c \in Client, Starts(c)'
        PROVE  (req[c].epoch <= epoch[req[c].key])'
    <3>1. PICK k, e : k = req[c].key /\ e = req[c].epoch
      OBVIOUS
    <3>2. k \in Key /\ e \in Nat /\ e <= epoch[k]
      BY <2>2, <3>1
         DEF EpochInv, EpochsPast, RKeeps, Starts, Types, ReqsOK, ReqOK, ReqType, NoKeyPcs
    <3>3. req'[c].key = k /\ req'[c].epoch = e
      BY <2>2, <3>1 DEF RKeeps
    <3>4. epoch[k] \in Nat /\ epoch'[k] \in Nat /\ epoch[k] <= epoch'[k]
      BY <3>2 DEF Types, TableOK, Advances
    <3> QED BY <3>2, <3>3, <3>4
  <2> QED BY <2>1, <2>2 DEF EpochsPast
<1>2. EpochsOnce'
  BY DEF EpochInv, EpochsOnce, WKeeps, RKeeps
<1> QED BY <1>1, <1>2 DEF EpochInv

(* A watchLoop that starts with the epoch just handed out. *)
LEMMA FreshWatch ==
  ASSUME Types, Types', EpochInv, NEW p \in Process, NEW k \in Key,
         epoch' = [epoch EXCEPT ![k] = @ + 1],
         watch'[p].key = k, watch'[p].epoch = epoch'[k],
         \A q \in Process \ {p} : WKeeps(q), \A c \in Client : RKeeps(c)
  PROVE  EpochInv'
<1>1. /\ epoch[k] \in Nat /\ epoch'[k] = epoch[k] + 1
      /\ \A l \in Key : epoch[l] \in Nat /\ epoch'[l] \in Nat /\ epoch[l] <= epoch'[l]
  BY DEF Types, TableOK
<1>2. ASSUME NEW q \in Process \ {p}, Waits(q)'
      PROVE  /\ watch'[q].epoch <= epoch'[watch'[q].key]
             /\ ~(watch'[q].key = k /\ watch'[q].epoch = epoch'[k])
  <2>1. PICK l, e : l = watch[q].key /\ e = watch[q].epoch
    OBVIOUS
  <2>2. l \in Key /\ e \in Nat /\ e <= epoch[l]
    BY <1>2, <2>1
       DEF EpochInv, EpochsPast, WKeeps, Waits, Types, WatchesOK, WatchOK, WatchType
  <2>3. watch'[q].key = l /\ watch'[q].epoch = e
    BY <1>2, <2>1 DEF WKeeps
  <2> QED BY <1>1, <2>2, <2>3
<1>3. ASSUME NEW c \in Client, Starts(c)'
      PROVE  /\ req'[c].epoch <= epoch'[req'[c].key]
             /\ ~(req'[c].key = k /\ req'[c].epoch = epoch'[k])
  <2>1. PICK l, e : l = req[c].key /\ e = req[c].epoch
    OBVIOUS
  <2>2. l \in Key /\ e \in Nat /\ e <= epoch[l]
    BY <1>3, <2>1
       DEF EpochInv, EpochsPast, RKeeps, Starts, Types, ReqsOK, ReqOK, ReqType, NoKeyPcs
  <2>3. req'[c].key = l /\ req'[c].epoch = e
    BY <1>3, <2>1 DEF RKeeps
  <2> QED BY <1>1, <2>2, <2>3
<1>4. EpochsPast'
  BY <1>1, <1>2, <1>3 DEF EpochsPast
<1>5. EpochsOnce'
  BY <1>2, <1>3 DEF EpochInv, EpochsOnce, WKeeps, RKeeps
<1> QED BY <1>4, <1>5 DEF EpochInv

(* A Run that is handed an epoch by setHandle. *)
LEMMA FreshStart ==
  ASSUME Types, Types', EpochInv, NEW d \in Client, NEW k \in Key,
         epoch' = [epoch EXCEPT ![k] = @ + 1],
         req'[d].key = k, req'[d].epoch = epoch'[k],
         \A q \in Process : WKeeps(q), \A c \in Client \ {d} : RKeeps(c)
  PROVE  EpochInv'
<1>1. /\ epoch[k] \in Nat /\ epoch'[k] = epoch[k] + 1
      /\ \A l \in Key : epoch[l] \in Nat /\ epoch'[l] \in Nat /\ epoch[l] <= epoch'[l]
  BY DEF Types, TableOK
<1>2. ASSUME NEW q \in Process, Waits(q)'
      PROVE  /\ watch'[q].epoch <= epoch'[watch'[q].key]
             /\ ~(watch'[q].key = k /\ watch'[q].epoch = epoch'[k])
  <2>1. PICK l, e : l = watch[q].key /\ e = watch[q].epoch
    OBVIOUS
  <2>2. l \in Key /\ e \in Nat /\ e <= epoch[l]
    BY <1>2, <2>1
       DEF EpochInv, EpochsPast, WKeeps, Waits, Types, WatchesOK, WatchOK, WatchType
  <2>3. watch'[q].key = l /\ watch'[q].epoch = e
    BY <1>2, <2>1 DEF WKeeps
  <2> QED BY <1>1, <2>2, <2>3
<1>3. ASSUME NEW c \in Client \ {d}, Starts(c)'
      PROVE  /\ req'[c].epoch <= epoch'[req'[c].key]
             /\ ~(req'[c].key = k /\ req'[c].epoch = epoch'[k])
  <2>1. PICK l, e : l = req[c].key /\ e = req[c].epoch
    OBVIOUS
  <2>2. l \in Key /\ e \in Nat /\ e <= epoch[l]
    BY <1>3, <2>1
       DEF EpochInv, EpochsPast, RKeeps, Starts, Types, ReqsOK, ReqOK, ReqType, NoKeyPcs
  <2>3. req'[c].key = l /\ req'[c].epoch = e
    BY <1>3, <2>1 DEF RKeeps
  <2> QED BY <1>1, <2>2, <2>3
<1>4. EpochsPast'
  BY <1>1, <1>2, <1>3 DEF EpochsPast
<1>5. EpochsOnce'
  BY <1>2, <1>3 DEF EpochInv, EpochsOnce, WKeeps, RKeeps
<1> QED BY <1>4, <1>5 DEF EpochInv

----------------------------------------------------------------------------
(* Requests. *)

(* A request that goes anywhere but to its "run.watch" step takes no epoch. *)
Elsewhere(c) == \E r : req' = [req EXCEPT ![c] = r] /\ r.pc # "run.watch"

LEMMA ElsewhereKeeps ==
  ASSUME Types, NEW c \in Client, Elsewhere(c)
  PROVE  \A d \in Client : RKeeps(d)
  BY DEF Types, ReqsOK, Elsewhere, RKeeps, Starts

LEMMA DoneElsewhere ==
  ASSUME NEW c \in Client, Done(c)
  PROVE  Elsewhere(c)
<1>1. IdleReq.pc = "idle"
  BY DEF IdleReq
<1> QED BY <1>1 DEF Done, Elsewhere

LEMMA OpenElsewhere ==
  ASSUME NEW c \in Client, NEW pc, NEW k, NEW sb, NEW arg, Open(c, pc, k, sb, arg),
         pc # "run.watch"
  PROVE  Elsewhere(c)
<1>1. PICK r : r = [IdleReq EXCEPT !.pc = pc, !.key = k, !.sb = sb, !.arg = arg]
  OBVIOUS
<1>2. r.pc = pc
  BY <1>1 DEF IdleReq
<1> QED BY <1>1, <1>2 DEF Open, Elsewhere

LEMMA GotoElsewhere ==
  ASSUME Types, NEW c \in Client, NEW pc, Goto(c, pc), pc # "run.watch"
  PROVE  Elsewhere(c)
<1>1. PICK r : r = [req[c] EXCEPT !.pc = pc]
  OBVIOUS
<1>2. r.pc = pc /\ req' = [req EXCEPT ![c] = r]
  BY <1>1 DEF Goto, Types, ReqsOK, ReqType
<1> QED BY <1>2 DEF Elsewhere

(* The same, of a request that also notes something. *)
LEMMA NoteElsewhere ==
  ASSUME Types, NEW c \in Client, NEW pc, NEW x, NEW y, pc # "run.watch",
         \/ req' = [req EXCEPT ![c].pc = pc, ![c].old = x]
         \/ req' = [req EXCEPT ![c].pc = pc, ![c].key = x]
         \/ req' = [req EXCEPT ![c].pc = pc, ![c].todo = x]
         \/ req' = [req EXCEPT ![c].pc = pc, ![c].new = x, ![c].sb = y]
         \/ req' = [req EXCEPT ![c].pc = pc, ![c].sb.state = x]
  PROVE  Elsewhere(c)
<1>1. CASE req' = [req EXCEPT ![c].pc = pc, ![c].old = x]
  <2>1. PICK r : r = [req[c] EXCEPT !.pc = pc, !.old = x]
    OBVIOUS
  <2>2. r.pc = pc
    BY <2>1 DEF Types, ReqsOK, ReqType
  <2>3. req' = [req EXCEPT ![c] = r]
    BY <1>1, <2>1 DEF Types, ReqsOK
  <2> QED BY <2>2, <2>3 DEF Elsewhere
<1>2. CASE req' = [req EXCEPT ![c].pc = pc, ![c].key = x]
  <2>1. PICK r : r = [req[c] EXCEPT !.pc = pc, !.key = x]
    OBVIOUS
  <2>2. r.pc = pc
    BY <2>1 DEF Types, ReqsOK, ReqType
  <2>3. req' = [req EXCEPT ![c] = r]
    BY <1>2, <2>1 DEF Types, ReqsOK
  <2> QED BY <2>2, <2>3 DEF Elsewhere
<1>3. CASE req' = [req EXCEPT ![c].pc = pc, ![c].todo = x]
  <2>1. PICK r : r = [req[c] EXCEPT !.pc = pc, !.todo = x]
    OBVIOUS
  <2>2. r.pc = pc
    BY <2>1 DEF Types, ReqsOK, ReqType
  <2>3. req' = [req EXCEPT ![c] = r]
    BY <1>3, <2>1 DEF Types, ReqsOK
  <2> QED BY <2>2, <2>3 DEF Elsewhere
<1>4. CASE req' = [req EXCEPT ![c].pc = pc, ![c].new = x, ![c].sb = y]
  <2>1. PICK r : r = [req[c] EXCEPT !.pc = pc, !.new = x, !.sb = y]
    OBVIOUS
  <2>2. r.pc = pc
    BY <2>1 DEF Types, ReqsOK, ReqType
  <2>3. req' = [req EXCEPT ![c] = r]
    BY <1>4, <2>1 DEF Types, ReqsOK
  <2> QED BY <2>2, <2>3 DEF Elsewhere
<1>5. CASE req' = [req EXCEPT ![c].pc = pc, ![c].sb.state = x]
  <2>1. PICK r : r = [req[c] EXCEPT !.pc = pc, !.sb = [req[c].sb EXCEPT !.state = x]]
    OBVIOUS
  <2>2. r.pc = pc
    BY <2>1 DEF Types, ReqsOK, ReqType
  <2>3. req' = [req EXCEPT ![c] = r]
    BY <1>5, <2>1 DEF Types, ReqsOK, ReqType
  <2> QED BY <2>2, <2>3 DEF Elsewhere
<1> QED BY <1>1, <1>2, <1>3, <1>4, <1>5

LEMMA BeginKeeps ==
  ASSUME Types, NEW c \in Client, RequestBegin(c)
  PROVE  (\A d \in Client : RKeeps(d)) /\ UNCHANGED <<tableVars, watch>>
<1>1. CASE UpdateBegin(c)
  <2>1. PICK d, t : req' = [req EXCEPT ![c] =
                 [IdleReq EXCEPT !.pc = "update.put", !.arg = d, !.todo = t]]
    BY <1>1 DEF UpdateBegin
  <2>2. PICK r : r = [IdleReq EXCEPT !.pc = "update.put", !.arg = d, !.todo = t]
    OBVIOUS
  <2>3. r.pc = "update.put"
    BY <2>2 DEF IdleReq
  <2>4. Elsewhere(c)
    BY <2>1, <2>2, <2>3 DEF Elsewhere
  <2> QED BY <1>1, <2>4, ElsewhereKeeps DEF UpdateBegin
<1>2. ASSUME NEW k \in Key,
             \/ RunCheck(c, k) \/ ReloadGet(c, k) \/ RestartGet(c, k)
             \/ StopGet(c, k) \/ DeleteGet(c, k) \/ MergeGet(c, k) \/ AttachGet(c, k)
      PROVE  (\A d \in Client : RKeeps(d)) /\ UNCHANGED <<tableVars, watch>>
  <2>1. UNCHANGED <<tableVars, watch>>
    BY <1>2 DEF RunCheck, ReloadGet, RestartGet, StopGet, DeleteGet, MergeGet, AttachGet
  <2>2. \E pc, sb, arg : Open(c, pc, k, sb, arg) /\ pc # "run.watch"
    <3>1. CASE RunCheck(c, k)
      BY <3>1 DEF RunCheck
    <3>2. CASE ReloadGet(c, k)
      BY <3>2 DEF ReloadGet
    <3>3. CASE RestartGet(c, k)
      BY <3>3 DEF RestartGet
    <3>4. CASE StopGet(c, k)
      BY <3>4 DEF StopGet
    <3>5. CASE DeleteGet(c, k)
      BY <3>5 DEF DeleteGet
    <3>6. CASE MergeGet(c, k)
      BY <3>6 DEF MergeGet
    <3>7. CASE AttachGet(c, k)
      BY <3>7 DEF AttachGet
    <3> QED BY <1>2, <3>1, <3>2, <3>3, <3>4, <3>5, <3>6, <3>7
  <2> QED BY <2>1, <2>2, OpenElsewhere, ElsewhereKeeps
<1> QED BY <1>1, <1>2 DEF RequestBegin

(* The steps of a request that neither start a watchLoop nor take an epoch. *)
LEMMA StepKeeps ==
  ASSUME Types, NEW c \in Client,
         \/ RunLaunch(c) \/ RunPut(c) \/ RunUndo(c)
         \/ UpdatePut(c) \/ UpdateProxy(c)
         \/ ReloadHandle(c) \/ ReloadPut(c)
         \/ RestartHandle(c) \/ RestartClear(c) \/ RestartKill(c) \/ RestartLaunch(c)
         \/ RestartCrashed(c) \/ RestartPut(c) \/ RestartProxy(c)
         \/ StopPut(c) \/ StopHandle(c) \/ StopClear(c) \/ StopKill(c)
         \/ DeleteStore(c) \/ MergePut(c)
         \/ AttachTry(c) \/ AttachHandle(c) \/ AttachDial(c) \/ AttachDetach(c)
         \/ SessionEnd(c)
  PROVE  (\A d \in Client : RKeeps(d)) /\ UNCHANGED watch /\ Advances
<1> SUFFICES Elsewhere(c) /\ UNCHANGED watch /\ Advances
  BY ElsewhereKeeps
<1>1. CASE RunLaunch(c)
  <2>1. \/ Done(c)
        \/ \E p, sb : req' = [req EXCEPT ![c].pc = "run.put", ![c].new = p, ![c].sb = sb]
    BY <1>1 DEF RunLaunch
  <2>2. UNCHANGED <<watch, tableVars>>
    BY <1>1 DEF RunLaunch
  <2>3. ASSUME NEW p, NEW sb,
               req' = [req EXCEPT ![c].pc = "run.put", ![c].new = p, ![c].sb = sb]
        PROVE  Elsewhere(c)
    BY <2>3, NoteElsewhere
  <2> QED BY <2>1, <2>2, <2>3, DoneElsewhere, StillKeeps
<1>2. CASE RunPut(c) \/ RunUndo(c)
  BY <1>2, DoneElsewhere, GotoElsewhere, StillKeeps DEF RunPut, RunUndo
<1>3. CASE UpdatePut(c)
  <2>1. \/ Done(c)
        \/ \E k : req' = [req EXCEPT ![c].pc = "update.proxy", ![c].key = k]
    BY <1>3 DEF UpdatePut
  <2> QED BY <1>3, <2>1, DoneElsewhere, NoteElsewhere, StillKeeps DEF UpdatePut
<1>4. CASE UpdateProxy(c)
  <2>1. \/ Done(c)
        \/ \E t : req' = [req EXCEPT ![c].pc = "update.put", ![c].todo = t]
    BY <1>4 DEF UpdateProxy
  <2> QED BY <1>4, <2>1, DoneElsewhere, NoteElsewhere, StillKeeps DEF UpdateProxy
<1>5. CASE ReloadHandle(c)
  <2>1. \/ Done(c)
        \/ \E s : req' = [req EXCEPT ![c].pc = "reload.put", ![c].sb.state = s]
    BY <1>5 DEF ReloadHandle
  <2> QED BY <1>5, <2>1, DoneElsewhere, NoteElsewhere, StillKeeps DEF ReloadHandle
<1>6. CASE RestartClear(c) \/ StopClear(c)
  <2>1. req[c].key \in Key
    BY <1>6, AtOK DEF RestartClear, StopClear, NoKeyPcs
  <2> QED BY <1>6, <2>1, GotoElsewhere, StillKeeps DEF RestartClear, StopClear
<1>7. CASE RestartHandle(c)
  <2>1. \/ Goto(c, "restart.launch")
        \/ \E h : req' = [req EXCEPT ![c].pc = "restart.clear", ![c].old = h]
    BY <1>7 DEF RestartHandle
  <2> QED BY <1>7, <2>1, GotoElsewhere, NoteElsewhere, StillKeeps DEF RestartHandle
<1>8. CASE RestartLaunch(c)
  <2>1. \/ \E p, sb : req' = [req EXCEPT ![c].pc = "restart.put", ![c].new = p,
                                         ![c].sb = sb]
        \/ \E s : req' = [req EXCEPT ![c].pc = "restart.crashed", ![c].sb.state = s]
    BY <1>8 DEF RestartLaunch
  <2>2. UNCHANGED <<watch, tableVars>>
    BY <1>8 DEF RestartLaunch
  <2>3. ASSUME NEW p, NEW sb,
               req' = [req EXCEPT ![c].pc = "restart.put", ![c].new = p, ![c].sb = sb]
        PROVE  Elsewhere(c)
    BY <2>3, NoteElsewhere
  <2>4. ASSUME NEW s,
               req' = [req EXCEPT ![c].pc = "restart.crashed", ![c].sb.state = s]
        PROVE  Elsewhere(c)
    BY <2>4, NoteElsewhere
  <2> QED BY <2>1, <2>2, <2>3, <2>4, StillKeeps
<1>9. CASE \/ ReloadPut(c) \/ RestartKill(c) \/ RestartCrashed(c) \/ RestartPut(c)
           \/ RestartProxy(c) \/ StopPut(c) \/ StopKill(c) \/ DeleteStore(c)
           \/ MergePut(c)
  <2>1. UNCHANGED <<watch, tableVars>>
    BY <1>9 DEF ReloadPut, RestartKill, RestartCrashed, RestartPut, RestartProxy,
                StopPut, StopKill, DeleteStore, MergePut
  <2>2. Done(c) \/ \E pc : Goto(c, pc) /\ pc # "run.watch"
    BY <1>9 DEF ReloadPut, RestartKill, RestartCrashed, RestartPut, RestartProxy,
                StopPut, StopKill, DeleteStore, MergePut
  <2> QED BY <2>1, <2>2, DoneElsewhere, GotoElsewhere, StillKeeps
<1>10. CASE StopHandle(c)
  <2>1. \/ Done(c)
        \/ \E h : req' = [req EXCEPT ![c].pc = "stop.clear", ![c].old = h]
    BY <1>10 DEF StopHandle
  <2> QED BY <1>10, <2>1, DoneElsewhere, NoteElsewhere, StillKeeps DEF StopHandle
<1>11. CASE AttachHandle(c)
  <2>1. \/ Goto(c, "attach.detach")
        \/ \E h : req' = [req EXCEPT ![c].pc = "attach.dial", ![c].old = h]
    BY <1>11 DEF AttachHandle
  <2> QED BY <1>11, <2>1, GotoElsewhere, NoteElsewhere, StillKeeps DEF AttachHandle
<1>12. CASE AttachTry(c) \/ AttachDial(c) \/ AttachDetach(c) \/ SessionEnd(c)
  <2>1. UNCHANGED <<watch, tableVars>>
    BY <1>12 DEF AttachTry, AttachDial, AttachDetach, SessionEnd
  <2>2. Done(c) \/ \E pc : Goto(c, pc) /\ pc # "run.watch"
    BY <1>12 DEF AttachTry, AttachDial, AttachDetach, SessionEnd
  <2> QED BY <2>1, <2>2, DoneElsewhere, GotoElsewhere, StillKeeps
<1> QED BY <1>1, <1>2, <1>3, <1>4, <1>5, <1>6, <1>7, <1>8, <1>9, <1>10, <1>11, <1>12

LEMMA RequestEpochs ==
  ASSUME Types, Types', EpochInv, NEW c \in Client,
         RequestBegin(c) \/ RequestStep(c) \/ SessionEnd(c)
  PROVE  EpochInv'
<1>1. CASE RequestBegin(c)
  BY <1>1, BeginKeeps, StillKeeps, EpochFrame
<1>2. CASE RunSetHandle(c)
  <2>1. PICK k, r : /\ k = req[c].key
                    /\ r = [req[c] EXCEPT !.pc = "run.watch", !.epoch = epoch'[k]]
    OBVIOUS
  <2>2. k \in Key /\ req[c] \in ReqType
    BY <1>2, <2>1, AtOK DEF RunSetHandle, NoKeyPcs
  <2>3. r.key = k /\ r.epoch = epoch'[k]
    BY <2>1, <2>2 DEF ReqType
  <2>4. req' = [req EXCEPT ![c] = r]
    BY <1>2, <2>1 DEF RunSetHandle, Types, ReqsOK
  <2>5. req'[c] = r /\ \A d \in Client \ {c} : RKeeps(d)
    BY <2>4 DEF Types, ReqsOK, RKeeps, Starts
  <2>6. epoch' = [epoch EXCEPT ![k] = @ + 1] /\ UNCHANGED watch
    BY <1>2, <2>1 DEF RunSetHandle, setHandle
  <2> QED BY <2>2, <2>3, <2>5, <2>6, StillKeeps, FreshStart
<1>3. CASE RunWatch(c)
  <2>1. PICK k, e, p, w : /\ k = req[c].key /\ e = req[c].epoch /\ p = req[c].new
                          /\ w = Watching(k, e)
    OBVIOUS
  <2>2. k \in Key /\ p \in Process /\ Starts(c) /\ e \in Nat
    BY <1>3, <2>1, AtOK DEF RunWatch, NoKeyPcs, NewPcs, Starts, At, ReqType
  <2>3. watch' = [watch EXCEPT ![p] = w] /\ w.key = k /\ w.epoch = e
    BY <1>3, <2>1 DEF RunWatch, Watching, NoWatch
  <2>4. watch'[p] = w /\ \A q \in Process \ {p} : WKeeps(q)
    BY <2>2, <2>3 DEF Types, WatchesOK, WKeeps, Waits
  <2>5. ~Starts(c)' /\ \A d \in Client : RKeeps(d)
    BY <1>3, DoneElsewhere, ElsewhereKeeps
       DEF RunWatch, Types, ReqsOK, Done, IdleReq, Starts
  <2>6. UNCHANGED tableVars
    BY <1>3 DEF RunWatch
  <2>7. EpochsPast'
    BY <2>1, <2>2, <2>3, <2>4, <2>5, <2>6
       DEF EpochInv, EpochsPast, WKeeps, RKeeps, tableVars
  <2>8. EpochsOnce'
    BY <2>1, <2>2, <2>3, <2>4, <2>5 DEF EpochInv, EpochsOnce, WKeeps, RKeeps
  <2> QED BY <2>7, <2>8 DEF EpochInv
<1>4. CASE RestartWatch(c)
  <2>1. PICK k, p, w : /\ k = req[c].key /\ p = req[c].new
                       /\ w = Watching(k, epoch'[k])
    OBVIOUS
  <2>2. k \in Key /\ p \in Process
    BY <1>4, <2>1, AtOK DEF RestartWatch, NoKeyPcs, NewPcs
  <2>3. watch' = [watch EXCEPT ![p] = w] /\ w.key = k /\ w.epoch = epoch'[k]
    BY <1>4, <2>1 DEF RestartWatch, Watching, NoWatch
  <2>4. watch'[p] = w /\ \A q \in Process \ {p} : WKeeps(q)
    BY <2>2, <2>3 DEF Types, WatchesOK, WKeeps, Waits
  <2>5. \A d \in Client : RKeeps(d)
    BY <1>4, DoneElsewhere, ElsewhereKeeps DEF RestartWatch
  <2>6. epoch' = [epoch EXCEPT ![k] = @ + 1]
    BY <1>4, <2>1 DEF RestartWatch, setHandle
  <2> QED BY <2>2, <2>3, <2>4, <2>5, <2>6, FreshWatch
<1>5. CASE (RequestStep(c) \/ SessionEnd(c)) /\ ~RunSetHandle(c) /\ ~RunWatch(c)
           /\ ~RestartWatch(c)
  BY <1>5, StepKeeps, StillKeeps, EpochFrame DEF RequestStep
<1> QED BY <1>1, <1>2, <1>3, <1>4, <1>5

----------------------------------------------------------------------------
(* The watchLoops. *)

(* A watchLoop that goes on keeps its key and its epoch. *)
GoesOn(p) == \E w : /\ watch' = [watch EXCEPT ![p] = w]
                    /\ w.pc # "none" => /\ w.key = watch[p].key
                                        /\ w.epoch = watch[p].epoch

LEMMA GoesOnKeeps ==
  ASSUME Types, NEW p \in Process, Waits(p), GoesOn(p)
  PROVE  \A q \in Process : WKeeps(q)
  BY DEF Types, WatchesOK, GoesOn, WKeeps, Waits

LEMMA WDoneGoesOn ==
  ASSUME NEW p \in Process, WDone(p)
  PROVE  GoesOn(p)
<1>1. NoWatch.pc = "none"
  BY DEF NoWatch
<1> QED BY <1>1 DEF WDone, GoesOn

LEMMA WGotoGoesOn ==
  ASSUME Types, NEW p \in Process, NEW pc, WGoto(p, pc)
  PROVE  GoesOn(p)
<1>1. PICK w : w = [watch[p] EXCEPT !.pc = pc]
  OBVIOUS
<1>2. w.key = watch[p].key /\ w.epoch = watch[p].epoch
  BY <1>1 DEF Types, WatchesOK, WatchType
<1>3. watch' = [watch EXCEPT ![p] = w]
  BY <1>1 DEF WGoto, Types, WatchesOK
<1> QED BY <1>2, <1>3 DEF GoesOn

LEMMA TakeGoesOn ==
  ASSUME Types, NEW p \in Process, NEW pc, NEW x, NEW y,
         \/ watch' = [watch EXCEPT ![p].pc = pc, ![p].sb = x]
         \/ watch' = [watch EXCEPT ![p].pc = pc, ![p].new = y, ![p].sb = x]
         \/ watch' = [watch EXCEPT ![p].pc = pc, ![p].sb.state = x]
  PROVE  GoesOn(p)
<1>1. CASE watch' = [watch EXCEPT ![p].pc = pc, ![p].sb = x]
  <2>1. PICK w : w = [watch[p] EXCEPT !.pc = pc, !.sb = x]
    OBVIOUS
  <2>2. w.key = watch[p].key /\ w.epoch = watch[p].epoch
    BY <2>1 DEF Types, WatchesOK, WatchType
  <2>3. watch' = [watch EXCEPT ![p] = w]
    BY <1>1, <2>1 DEF Types, WatchesOK
  <2> QED BY <2>2, <2>3 DEF GoesOn
<1>2. CASE watch' = [watch EXCEPT ![p].pc = pc, ![p].new = y, ![p].sb = x]
  <2>1. PICK w : w = [watch[p] EXCEPT !.pc = pc, !.new = y, !.sb = x]
    OBVIOUS
  <2>2. w.key = watch[p].key /\ w.epoch = watch[p].epoch
    BY <2>1 DEF Types, WatchesOK, WatchType
  <2>3. watch' = [watch EXCEPT ![p] = w]
    BY <1>2, <2>1 DEF Types, WatchesOK
  <2> QED BY <2>2, <2>3 DEF GoesOn
<1>3. CASE watch' = [watch EXCEPT ![p].pc = pc, ![p].sb.state = x]
  <2>1. PICK w : w = [watch[p] EXCEPT !.pc = pc, !.sb = [watch[p].sb EXCEPT !.state = x]]
    OBVIOUS
  <2>2. w.key = watch[p].key /\ w.epoch = watch[p].epoch
    BY <2>1 DEF Types, WatchesOK, WatchType
  <2>3. watch' = [watch EXCEPT ![p] = w]
    BY <1>3, <2>1 DEF Types, WatchesOK, WatchType
  <2> QED BY <2>2, <2>3 DEF GoesOn
<1> QED BY <1>1, <1>2, <1>3

(* Every step of a watchLoop but the one that starts its successor. *)
LEMMA WatchKeeps ==
  ASSUME Types, NEW p \in Process, WatchStep(p), ~WatchSetHandle(p)
  PROVE  /\ UNCHANGED req /\ Waits(p)
         /\ \A q \in Process : WKeeps(q)
         /\ UNCHANGED tableVars \/ clearHandle(watch[p].key)
<1> SUFFICES /\ UNCHANGED req /\ Waits(p) /\ GoesOn(p)
             /\ UNCHANGED tableVars \/ clearHandle(watch[p].key)
  BY GoesOnKeeps
<1>1. \/ WAt(p, "wait") \/ WAt(p, "get") \/ WAt(p, "restarting")
      \/ WAt(p, "backoff") \/ WAt(p, "crashed") \/ WAt(p, "crashed.clear")
      \/ WAt(p, "running") \/ WAt(p, "clear") \/ WAt(p, "final")
  BY DEF WatchStep, WatchExit, WatchGet, WatchRestarting, WatchRelaunch, WatchCrashed,
         WatchCrashedClear, WatchRunning, WatchClear, WatchFinal, WatchPut
<1>2. UNCHANGED req /\ Waits(p)
  BY <1>1 DEF WAt, Waits
<1>3. UNCHANGED tableVars \/ clearHandle(watch[p].key)
  BY DEF WatchStep, WatchExit, WatchGet, WatchRestarting, WatchRelaunch, WatchCrashed,
         WatchCrashedClear, WatchRunning, WatchClear, WatchFinal, WatchPut
<1>4. GoesOn(p)
  <2>1. CASE WatchGet(p)
    <3>1. \/ WDone(p)
          \/ \E sb : watch' = [watch EXCEPT ![p].pc = "restarting", ![p].sb = sb]
          \/ \E sb : watch' = [watch EXCEPT ![p].pc = "clear", ![p].sb = sb]
      BY <2>1 DEF WatchGet
    <3> QED BY <3>1, WDoneGoesOn, TakeGoesOn
  <2>2. CASE WatchRelaunch(p)
    <3>1. \/ \E q, sb : watch' = [watch EXCEPT ![p].pc = "running", ![p].new = q,
                                               ![p].sb = sb]
          \/ \E s : watch' = [watch EXCEPT ![p].pc = "crashed", ![p].sb.state = s]
      BY <2>2 DEF WatchRelaunch
    <3>2. ASSUME NEW q, NEW sb,
                 watch' = [watch EXCEPT ![p].pc = "running", ![p].new = q,
                                        ![p].sb = sb]
          PROVE  GoesOn(p)
      BY <3>2, TakeGoesOn
    <3>3. ASSUME NEW s, watch' = [watch EXCEPT ![p].pc = "crashed", ![p].sb.state = s]
          PROVE  GoesOn(p)
      BY <3>3, TakeGoesOn
    <3> QED BY <3>1, <3>2, <3>3
  <2>3. CASE ~WatchGet(p) /\ ~WatchRelaunch(p)
    <3>1. WDone(p) \/ \E pc : WGoto(p, pc)
      BY <2>3 DEF WatchStep, WatchExit, WatchRestarting, WatchCrashed,
                  WatchCrashedClear, WatchRunning, WatchClear, WatchFinal
    <3> QED BY <3>1, WDoneGoesOn, WGotoGoesOn
  <2> QED BY <2>1, <2>2, <2>3
<1> QED BY <1>2, <1>3, <1>4

LEMMA SetHandleSteps ==
  ASSUME Types, NEW p \in Process, WatchSetHandle(p)
  PROVE  \E k \in Key, q \in Process :
           /\ k = watch[p].key /\ q = watch[p].new
           /\ Waits(p) /\ UNCHANGED req
           /\ setHandle(k, q)
           /\ watch'[q] = Watching(k, epoch'[k])
           /\ \A x \in Process \ {q} : WKeeps(x)
<1>1. PICK k, q, w : k = watch[p].key /\ q = watch[p].new /\ w = Watching(k, epoch'[k])
  OBVIOUS
<1>2. WAt(p, "sethandle")
  BY DEF WatchSetHandle
<1>3. k \in Key /\ q \in Process
  BY <1>1, <1>2, WAtOK DEF HeirPcs
<1>4. watch' = [watch EXCEPT ![p] = NoWatch, ![q] = w]
  BY <1>1 DEF WatchSetHandle
<1>5. watch'[q] = w
  BY <1>3, <1>4 DEF Types, WatchesOK
<1>6. \A x \in Process \ {q} : WKeeps(x)
  <2>1. NoWatch.pc = "none"
    BY DEF NoWatch
  <2>2. \A x \in Process \ {q} : watch'[x] = NoWatch \/ watch'[x] = watch[x]
    BY <1>3, <1>4 DEF Types, WatchesOK
  <2> QED BY <2>1, <2>2 DEF WKeeps, Waits
<1>7. setHandle(k, q) /\ Waits(p) /\ UNCHANGED req
  BY <1>1, <1>2 DEF WatchSetHandle, WAt, Waits
<1> QED BY <1>1, <1>3, <1>5, <1>6, <1>7

LEMMA WatchEpochs ==
  ASSUME Types, Types', EpochInv, NEW p \in Process, WatchStep(p)
  PROVE  EpochInv'
<1>1. CASE WatchSetHandle(p)
  <2>1. PICK k \in Key, q \in Process :
           /\ UNCHANGED req /\ setHandle(k, q)
           /\ watch'[q] = Watching(k, epoch'[k])
           /\ \A x \in Process \ {q} : WKeeps(x)
    BY <1>1, SetHandleSteps
  <2>2. watch'[q].key = k /\ watch'[q].epoch = epoch'[k]
    BY <2>1 DEF Watching, NoWatch
  <2>3. epoch' = [epoch EXCEPT ![k] = @ + 1]
    BY <2>1 DEF setHandle
  <2> QED BY <2>1, <2>2, <2>3, StillKeeps, FreshWatch
<1>2. CASE ~WatchSetHandle(p)
  <2>1. watch[p].key \in Key
    BY <1>2, WatchKeeps DEF Types, WatchesOK, WatchOK, Waits
  <2> QED BY <1>2, <2>1, WatchKeeps, StillKeeps, EpochFrame
<1> QED BY <1>1, <1>2

----------------------------------------------------------------------------
(* The world and startup. *)

LEMMA WorldEpochs ==
  ASSUME Types, Types', EpochInv,
         \/ \E p \in Process : Exit(p)
         \/ Crash
         \/ StartLoad \/ StartReattach \/ Serve
         \/ \E k \in Key : Reconcile(k)
  PROVE  EpochInv'
<1>1. CASE \E p \in Process : Exit(p)
  BY <1>1, StillKeeps, EpochFrame DEF Exit
<1>2. CASE Crash
  <2>1. \A p \in Process : ~Waits(p)'
    BY <1>2 DEF Crash, Waits, NoWatch
  <2>2. \A c \in Client : ~Starts(c)'
    BY <1>2 DEF Crash, Starts, IdleReq
  <2> QED BY <2>1, <2>2 DEF EpochInv, EpochsPast, EpochsOnce
<1>3. CASE StartLoad \/ StartReattach \/ Serve
  BY <1>3, StillKeeps, EpochFrame DEF StartLoad, StartReattach, Serve
<1>4. CASE \E k \in Key : Reconcile(k)
  BY <1>4, StillKeeps, EpochFrame DEF Reconcile
<1> QED BY <1>1, <1>2, <1>3, <1>4

LEMMA ReattachEpochs ==
  ASSUME Types, Types', EpochInv, NEW k \in Key, store[k] # None,
         store[k].pid \in Process, Reattach(k)
  PROVE  EpochInv'
<1>1. PICK p, w : p = store[k].pid /\ w = Watching(k, epoch'[k])
  OBVIOUS
<1>2. CASE Alive(p)
  <2>1. setHandle(k, p) /\ watch' = [watch EXCEPT ![p] = w] /\ UNCHANGED req
    BY <1>1, <1>2 DEF Reattach
  <2>2. watch'[p] = w /\ \A q \in Process \ {p} : WKeeps(q)
    BY <1>1, <2>1 DEF Types, WatchesOK, WKeeps, Waits
  <2>3. w.key = k /\ w.epoch = epoch'[k]
    BY <1>1 DEF Watching, NoWatch
  <2>4. epoch' = [epoch EXCEPT ![k] = @ + 1]
    BY <2>1 DEF setHandle
  <2> QED BY <1>1, <2>1, <2>2, <2>3, <2>4, StillKeeps, FreshWatch
<1>3. CASE ~Alive(p)
  BY <1>1, <1>3, StillKeeps, EpochFrame DEF Reattach
<1> QED BY <1>2, <1>3

LEMMA EpochInit == Init => EpochInv
<1> SUFFICES ASSUME Init PROVE EpochInv
  OBVIOUS
<1>1. \A p \in Process : ~Waits(p)
  BY DEF Init, Waits, NoWatch
<1>2. \A c \in Client : ~Starts(c)
  BY DEF Init, Starts, IdleReq
<1> QED BY <1>1, <1>2 DEF EpochInv, EpochsPast, EpochsOnce

LEMMA EpochsImplyOneInCharge == Types /\ EpochInv => OneInCharge
<1> SUFFICES ASSUME Types, EpochInv, NEW k \in Key, NEW p \in Process, NEW q \in Process,
                    InCharge(k, p), InCharge(k, q)
             PROVE  p = q
  BY DEF OneInCharge
<1> DEFINE L(x) == Waits(x) /\ watch[x].key = k /\ watch[x].epoch = epoch[k]
           R(x) == \E c \in Client : /\ Starts(c) /\ req[c].key = k
                                     /\ req[c].new = x /\ req[c].epoch = epoch[k]
<1>1. (L(p) \/ R(p)) /\ (L(q) \/ R(q))
  BY DEF InCharge, Waits, Starts
<1>2. CASE L(p) /\ L(q)
  BY <1>2 DEF EpochInv, EpochsOnce
<1>3. CASE R(p) /\ R(q)
  BY <1>3 DEF EpochInv, EpochsOnce
<1>4. CASE (L(p) /\ R(q)) \/ (R(p) /\ L(q))
  BY <1>4 DEF EpochInv, EpochsOnce
<1> QED BY <1>1, <1>2, <1>3, <1>4

----------------------------------------------------------------------------
(* StartInv: requests keep it because murod is up, the watchLoops because
   those that run while murod reattaches are of keys it has visited. *)

LEMMA UpKeepsStart ==
  ASSUME StartInv, murod = "up", UNCHANGED startVars
  PROVE  StartInv'
  BY DEF StartInv, startVars

LEMMA RequestStart ==
  ASSUME Types, StartInv, NEW c \in Client,
         RequestBegin(c) \/ RequestStep(c) \/ SessionEnd(c)
  PROVE  StartInv'
<1>1. UNCHANGED startVars /\ (murod = "up" \/ req[c].pc # "idle")
  <2>1. CASE RequestBegin(c)
    BY <2>1 DEF RequestBegin, UpdateBegin, RunCheck, ReloadGet, RestartGet, StopGet,
                DeleteGet, MergeGet, AttachGet, Begin
  <2>2. CASE RequestStep(c) \/ SessionEnd(c)
    <3>1. \/ At(c, "run.launch") \/ At(c, "run.put") \/ At(c, "run.undo")
          \/ At(c, "run.sethandle") \/ At(c, "run.watch")
          \/ At(c, "update.put") \/ At(c, "update.proxy")
          \/ At(c, "reload.handle") \/ At(c, "reload.put")
          \/ At(c, "restart.handle") \/ At(c, "restart.clear") \/ At(c, "restart.kill")
          \/ At(c, "restart.launch") \/ At(c, "restart.crashed")
          \/ At(c, "restart.put") \/ At(c, "restart.proxy") \/ At(c, "restart.watch")
          \/ At(c, "stop.put") \/ At(c, "stop.handle") \/ At(c, "stop.clear")
          \/ At(c, "stop.kill") \/ At(c, "delete.store") \/ At(c, "merge.put")
          \/ At(c, "attach.try") \/ At(c, "attach.handle") \/ At(c, "attach.dial")
          \/ At(c, "attached") \/ At(c, "attach.detach")
      BY <2>2 DEF RequestStep, SessionEnd,
           RunLaunch, RunPut, RunUndo, RunSetHandle, RunWatch, UpdatePut, UpdateProxy,
           ReloadHandle, ReloadPut, RestartHandle, RestartClear, RestartKill,
           RestartLaunch, RestartCrashed, RestartPut, RestartProxy, RestartWatch,
           StopPut, StopHandle, StopClear, StopKill, DeleteStore, MergePut,
           AttachTry, AttachHandle, AttachDial, AttachDetach
    <3> QED BY <3>1 DEF At
  <2> QED BY <2>1, <2>2
<1>2. murod = "up"
  BY <1>1 DEF StartInv
<1> QED BY <1>1, <1>2, UpKeepsStart

LEMMA WatchStart ==
  ASSUME Types, StartInv, NEW p \in Process, WatchStep(p)
  PROVE  StartInv'
<1>1. PICK k : k = watch[p].key
  OBVIOUS
<1>2. /\ k \in Key /\ Waits(p) /\ UNCHANGED req
      /\ \A l \in Key \ {k} : handles'[l] = handles[l]
      /\ \A q \in Process : Waits(q)' => \/ watch'[q].key = k
                                         \/ Waits(q) /\ watch'[q].key = watch[q].key
  <2>1. CASE WatchSetHandle(p)
    <3>1. PICK l \in Key, q \in Process :
             /\ l = watch[p].key /\ Waits(p) /\ UNCHANGED req
             /\ setHandle(l, q) /\ watch'[q] = Watching(l, epoch'[l])
             /\ \A x \in Process \ {q} : WKeeps(x)
      BY <2>1, SetHandleSteps
    <3>2. watch'[q].key = l
      BY <3>1 DEF Watching, NoWatch
    <3>3. \A x \in Key \ {l} : handles'[x] = handles[x]
      BY <3>1 DEF setHandle, Types, TableOK
    <3> QED BY <1>1, <3>1, <3>2, <3>3 DEF WKeeps
  <2>2. CASE ~WatchSetHandle(p)
    <3>1. /\ Waits(p) /\ UNCHANGED req /\ \A q \in Process : WKeeps(q)
          /\ UNCHANGED tableVars \/ clearHandle(k)
      BY <1>1, <2>2, WatchKeeps
    <3>2. k \in Key
      BY <1>1, <3>1 DEF Types, WatchesOK, WatchOK, Waits
    <3>3. \A l \in Key \ {k} : handles'[l] = handles[l]
      BY <3>1, <3>2 DEF clearHandle, setHandle, tableVars, Types, TableOK
    <3> QED BY <3>1, <3>2, <3>3 DEF WKeeps
  <2> QED BY <2>1, <2>2
<1>3. UNCHANGED startVars /\ \A l \in Key : store[l] # None => store'[l] # None
  <2>1. CASE WatchRestarting(p) \/ WatchCrashed(p) \/ WatchRunning(p) \/ WatchFinal(p)
    <3>1. \/ WatchPut(p, "restarting") \/ WatchPut(p, "crashed")
          \/ WatchPut(p, "running") \/ WatchPut(p, "final")
      BY <2>1 DEF WatchRestarting, WatchCrashed, WatchRunning, WatchFinal
    <3>2. watch[p].sb \in Record /\ UNCHANGED startVars
      BY <3>1, WAtOK DEF WatchPut, WAt, CopyPcs
    <3>3. store' = [store EXCEPT ![k] = watch[p].sb]
      BY <1>1, <3>1 DEF WatchPut, Set
    <3> QED BY <1>2, <3>2, <3>3, ConstantsAssumption DEF Types, StoreOK
  <2>2. CASE ~(WatchRestarting(p) \/ WatchCrashed(p) \/ WatchRunning(p) \/ WatchFinal(p))
    BY <2>2 DEF WatchStep, WatchExit, WatchGet, WatchRelaunch, WatchCrashedClear,
                WatchSetHandle, WatchClear, WAt, storeVars
  <2> QED BY <2>1, <2>2
<1>4. murod \notin {"down", "reconcile"}
  BY <1>2 DEF StartInv
<1>5. murod = "reattach" => k \notin pending
  BY <1>1, <1>2 DEF StartInv
<1>6. murod \in {"up", "reattach"}
  BY <1>4 DEF Types, StartOK
<1>7. CASE murod = "up"
  BY <1>3, <1>7, UpKeepsStart
<1>8. CASE murod = "reattach"
  <2>1. pending \subseteq Key
    BY DEF Types, StartOK
  <2>2. \A l \in pending :
          /\ handles'[l] = None
          /\ \A q \in Process : Waits(q)' => watch'[q].key # l
    BY <1>2, <1>5, <1>8, <2>1 DEF StartInv
  <2> QED BY <1>2, <1>3, <1>8, <2>1, <2>2 DEF StartInv, startVars
<1> QED BY <1>6, <1>7, <1>8

LEMMA WorldStart ==
  ASSUME Types, StartInv,
         \/ \E p \in Process : Exit(p)
         \/ Crash
         \/ StartLoad \/ StartReattach \/ Serve
  PROVE  StartInv'
<1>1. CASE \E p \in Process : Exit(p)
  BY <1>1 DEF Exit, StartInv, startVars, storeVars, tableVars, Waits
<1>2. CASE Crash
  BY <1>2 DEF Crash, StartInv, Waits, NoWatch, IdleReq
<1>3. CASE StartLoad
  BY <1>3 DEF StartLoad, StartInv, tableVars, Waits, RunningIn
<1>4. CASE StartReattach
  BY <1>4 DEF StartReattach, StartInv, storeVars, tableVars, Waits, RunningIn,
              Types, StartOK
<1>5. CASE Serve
  BY <1>5 DEF Serve, StartInv, storeVars, tableVars, Waits
<1> QED BY <1>1, <1>2, <1>3, <1>4, <1>5

LEMMA ReconcileStart ==
  ASSUME Types, StartInv, NEW k \in Key, Reconcile(k)
  PROVE  StartInv'
<1>1. /\ murod = "reconcile" /\ murod' = "reconcile" /\ pending' \subseteq pending
      /\ UNCHANGED <<handles, req, watch>>
  BY DEF Reconcile, tableVars
<1>2. \A l \in pending' : store'[l] # None
  <2>1. CASE UNCHANGED storeVars
    BY <1>1, <2>1 DEF StartInv, storeVars
  <2>2. CASE Set(k, [store[k] EXCEPT !.state = "stopped"]) /\ k \notin pending'
    BY <1>1, <2>2 DEF StartInv, Set, Types, StoreOK, StartOK
  <2> QED BY <2>1, <2>2 DEF Reconcile
<1> QED BY <1>1, <1>2 DEF StartInv, Waits

LEMMA ReattachStart ==
  ASSUME Types, StartInv, NEW k \in Key, store[k].pid \in Process, Reattach(k)
  PROVE  StartInv'
<1>1. /\ murod = "reattach" /\ murod' = "reattach" /\ pending' = pending \ {k}
      /\ UNCHANGED <<store, req>>
  BY DEF Reattach, storeVars
<1>2. PICK p, w : p = store[k].pid /\ w = Watching(k, epoch'[k])
  OBVIOUS
<1>3. /\ \A l \in Key \ {k} : handles'[l] = handles[l]
      /\ \A q \in Process : Waits(q)' => \/ watch'[q].key = k
                                         \/ Waits(q) /\ watch'[q].key = watch[q].key
  <2>1. CASE Alive(p)
    <3>1. setHandle(k, p) /\ watch' = [watch EXCEPT ![p] = w]
      BY <1>2, <2>1 DEF Reattach
    <3>2. w.key = k
      BY <1>2 DEF Watching, NoWatch
    <3>3. \A l \in Key \ {k} : handles'[l] = handles[l]
      BY <3>1 DEF setHandle, Types, TableOK
    <3> QED BY <1>2, <3>1, <3>2, <3>3 DEF Types, WatchesOK, Waits
  <2>2. CASE ~Alive(p)
    BY <1>2, <2>2 DEF Reattach, tableVars, Waits
  <2> QED BY <2>1, <2>2
<1>4. pending \subseteq Key
  BY DEF Types, StartOK
<1>5. \A l \in pending' : /\ handles'[l] = None
                          /\ \A q \in Process : Waits(q)' => watch'[q].key # l
  BY <1>1, <1>3, <1>4 DEF StartInv
<1> QED BY <1>1, <1>4, <1>5 DEF StartInv

LEMMA StartInit == Init => StartInv
  BY DEF Init, StartInv

-----------------------------------------------------------------------------
LEMMA InitIInv == Init => IInv
  BY TypesInit, CopiesInit, StartInit, EpochInit DEF IInv

LEMMA RequestIInv ==
  ASSUME IInv, NEW c \in Client, RequestBegin(c) \/ RequestStep(c) \/ SessionEnd(c)
  PROVE  IInv'
<1>1. Types /\ CopiesOK /\ StartInv /\ EpochInv
  BY DEF IInv
<1>2. CASE RequestBegin(c)
  <2>1. CASE UpdateBegin(c)
    <3>1. Types' /\ CopiesOK'
      BY <1>1, <2>1, UpdateTypes, UpdateCopies
    <3> QED BY <1>1, <1>2, <3>1, RequestStart, RequestEpochs DEF IInv
  <2>2. ASSUME NEW k \in Key,
               \/ RunCheck(c, k) \/ ReloadGet(c, k) \/ RestartGet(c, k)
               \/ StopGet(c, k) \/ DeleteGet(c, k) \/ MergeGet(c, k)
               \/ AttachGet(c, k)
        PROVE  IInv'
    <3>1. Types'
      BY <1>1, <2>2, RunCheckTypes, ReloadTypes, RestartGetTypes, StopTypes,
         DeleteTypes, MergeTypes, AttachTypes
    <3>2. CopiesOK'
      BY <1>1, <2>2, RunCheckCopies, ReloadCopies, RestartGetCopies, StopCopies,
         DeleteMergeCopies, AttachCopies
    <3> QED BY <1>1, <1>2, <3>1, <3>2, RequestStart, RequestEpochs DEF IInv
  <2> QED BY <1>2, <2>1, <2>2 DEF RequestBegin
<1>3. CASE RequestStep(c) \/ SessionEnd(c)
  <2>1. Types'
    BY <1>1, <1>3, RunTypes, UpdateTypes, ReloadTypes, RestartTypes, StopTypes,
       DeleteTypes, MergeTypes, AttachTypes DEF RequestStep
  <2>2. CopiesOK'
    BY <1>1, <1>3, RunCopies, UpdateCopies, ReloadCopies, RestartCopies,
       StopCopies, DeleteMergeCopies, AttachCopies DEF RequestStep
  <2> QED BY <1>1, <1>3, <2>1, <2>2, RequestStart, RequestEpochs DEF IInv
<1> QED BY <1>2, <1>3

LEMMA WatchIInv ==
  ASSUME IInv, NEW p \in Process, WatchStep(p)
  PROVE  IInv'
<1>1. Types /\ CopiesOK /\ StartInv /\ EpochInv
  BY DEF IInv
<1>2. Types' /\ CopiesOK' /\ StartInv'
  BY <1>1, WatchTypes, WatchStepCopies, WatchStart
<1> QED BY <1>1, <1>2, WatchEpochs DEF IInv

LEMMA WorldIInv ==
  ASSUME IInv, (\E p \in Process : Exit(p)) \/ Crash \/ Startup
  PROVE  IInv'
<1>1. Types /\ CopiesOK /\ StartInv /\ EpochInv
  BY DEF IInv
<1>2. CASE \E p \in Process : Exit(p)
  <2>1. Types' /\ CopiesOK' /\ StartInv'
    BY <1>1, <1>2, ExitTypes, ExitCopies, WorldStart
  <2> QED BY <1>1, <1>2, <2>1, WorldEpochs DEF IInv
<1>3. CASE Crash
  <2>1. Types' /\ CopiesOK' /\ StartInv'
    BY <1>1, <1>3, CrashTypes, CrashCopies, WorldStart
  <2> QED BY <1>1, <1>3, <2>1, WorldEpochs DEF IInv
<1>4. CASE StartLoad \/ StartReattach \/ Serve
  <2>1. Types' /\ CopiesOK' /\ StartInv'
    BY <1>1, <1>4, StartupTypes, StartupCopies, WorldStart
  <2> QED BY <1>1, <1>4, <2>1, WorldEpochs DEF IInv
<1>5. ASSUME NEW k \in Key, Reconcile(k)
      PROVE  IInv'
  <2>1. store[k] # None
    BY <1>1, <1>5 DEF StartInv, Reconcile
  <2>2. Types' /\ CopiesOK' /\ StartInv'
    BY <1>1, <1>5, <2>1, ReconcileTypes, ReconcileCopies, ReconcileStart
  <2> QED BY <1>1, <1>5, <2>2, WorldEpochs DEF IInv
<1>6. ASSUME NEW k \in Key, Reattach(k)
      PROVE  IInv'
  <2>1. store[k] # None
    BY <1>1, <1>6 DEF StartInv, Reattach
  <2>2. store[k].pid \in Process
    BY <1>1, <2>1 DEF CopiesOK, StoreCopies, Of
  <2>3. Types' /\ CopiesOK' /\ StartInv'
    BY <1>1, <1>6, <2>1, <2>2, ReattachTypes, ReattachCopies, ReattachStart
  <2> QED BY <1>1, <1>6, <2>1, <2>2, <2>3, ReattachEpochs DEF IInv
<1> QED BY <1>2, <1>3, <1>4, <1>5, <1>6 DEF Startup

LEMMA StutterIInv ==
  ASSUME IInv, UNCHANGED vars
  PROVE  IInv'
<1>1. Types /\ CopiesOK /\ StartInv /\ EpochInv
  BY DEF IInv
<1>2. UNCHANGED <<storeVars, tableVars, bridgeVars, proxyVars, startVars, boundVars,
                  slot, proc, req, watch>>
  BY DEF vars, storeVars, tableVars, bridgeVars, proxyVars, startVars, boundVars
<1>3. Types'
  BY <1>1, <1>2, Frame DEF Types
<1>4. CopiesOK'
  BY <1>1, <1>2, Still, CopyFrame DEF CopiesOK
<1>5. StartInv'
  BY <1>1, <1>2 DEF StartInv, startVars, storeVars, tableVars, Waits
<1>6. EpochInv'
  BY <1>1, <1>2, <1>3, StillKeeps, EpochFrame
<1> QED BY <1>3, <1>4, <1>5, <1>6 DEF IInv

(* The inductive invariant: whatever murod's goroutines, its processes and its
   crashes do, in any order, every copy of a record stays with its sandbox,
   startup precedes service and no epoch is held twice. *)
THEOREM Invariant == Spec => []IInv
<1>1. IInv /\ [Next]_vars => IInv'
  <2> SUFFICES ASSUME IInv, [Next]_vars PROVE IInv'
    OBVIOUS
  <2>1. ASSUME NEW c \in Client, RequestBegin(c) \/ RequestStep(c) \/ SessionEnd(c)
        PROVE  IInv'
    BY <2>1, RequestIInv
  <2>2. ASSUME NEW p \in Process, WatchStep(p) \/ Exit(p)
        PROVE  IInv'
    BY <2>2, WatchIInv, WorldIInv
  <2>3. CASE Crash \/ Startup
    BY <2>3, WorldIInv
  <2>4. CASE UNCHANGED vars
    BY <2>4, StutterIInv
  <2> QED BY <2>1, <2>2, <2>3, <2>4 DEF Next
<1> QED BY InitIInv, <1>1, PTL DEF Spec

(* Every variable keeps its type, at every step of every handler: in
   particular no handler reads a field of a record that is not there. *)
THEOREM TypeCorrect == Spec => []TypeOK
<1>1. IInv => TypeOK
  BY TypesImplyTypeOK DEF IInv
<1> QED BY Invariant, <1>1, PTL

(* Run, Restart, Update, the watchLoops and Reattach each work on copies of
   records; none is ever stored, persisted or registered under another key
   than the one its process was launched for, nor with another id. *)
THEOREM SandboxesApart == Spec => []KeysApart
<1>1. IInv => KeysApart
  BY CopiesImplyKeysApart DEF IInv
<1> QED BY Invariant, <1>1, PTL

(* setHandle and clearHandle make watchLoop's single epoch check sound: at
   most one goroutine of a sandbox can ever pass it. *)
THEOREM OneGoroutineInCharge == Spec => []OneInCharge
<1>1. IInv => OneInCharge
  BY EpochsImplyOneInCharge DEF IInv
<1> QED BY Invariant, <1>1, PTL

----------------------------------------------------------------------------
(* Handles are watched, where no request deletes. *)

Others(c) == \A d \in Client \ {c} : req'[d] = req[d]
Moves(c, pc) == /\ Others(c) /\ req'[c].pc = pc
                /\ req'[c].key = req[c].key /\ req'[c].new = req[c].new

LEMMA MoveFacts ==
  ASSUME Types, NEW c \in Client
  PROVE  /\ Done(c) => Others(c) /\ req'[c].pc = "idle"
         /\ \A pc : Goto(c, pc) => Moves(c, pc)
<1>1. req = [d \in Client |-> req[d]] /\ req[c] \in ReqType
  BY DEF Types, ReqsOK
<1>2. Done(c) => Others(c) /\ req'[c].pc = "idle"
  BY <1>1 DEF Done, IdleReq, Others
<1>3. \A pc : Goto(c, pc) => Moves(c, pc)
  BY <1>1 DEF Goto, Moves, Others, ReqType
<1> QED BY <1>2, <1>3

(* The same, of a request that also notes something. *)
LEMMA NoteMoves ==
  ASSUME Types, NEW c \in Client, NEW pc, NEW x,
         \/ req' = [req EXCEPT ![c].pc = pc, ![c].old = x]
         \/ req' = [req EXCEPT ![c].pc = pc, ![c].todo = x]
         \/ req' = [req EXCEPT ![c].pc = pc, ![c].epoch = x]
         \/ req' = [req EXCEPT ![c].pc = pc, ![c].sb.state = x]
  PROVE  Moves(c, pc)
<1>1. req = [d \in Client |-> req[d]] /\ req[c] \in ReqType
  BY DEF Types, ReqsOK
<1>2. CASE req' = [req EXCEPT ![c].pc = pc, ![c].old = x]
  BY <1>1, <1>2 DEF Moves, Others, ReqType
<1>3. CASE req' = [req EXCEPT ![c].pc = pc, ![c].todo = x]
  BY <1>1, <1>3 DEF Moves, Others, ReqType
<1>4. CASE req' = [req EXCEPT ![c].pc = pc, ![c].epoch = x]
  BY <1>1, <1>4 DEF Moves, Others, ReqType
<1>5. CASE req' = [req EXCEPT ![c].pc = pc, ![c].sb.state = x]
  BY <1>1, <1>5 DEF Moves, Others, ReqType
<1> QED BY <1>2, <1>3, <1>4, <1>5

LEMMA LaunchMoves ==
  ASSUME Types, NEW c \in Client, NEW pc, NEW p, NEW sb,
         req' = [req EXCEPT ![c].pc = pc, ![c].new = p, ![c].sb = sb]
  PROVE  /\ Others(c) /\ req'[c].pc = pc
         /\ req'[c].key = req[c].key /\ req'[c].new = p
  BY DEF Types, ReqsOK, Others, ReqType

LEMMA OpenFacts ==
  ASSUME Types, NEW c \in Client, NEW pc, NEW k, NEW sb, NEW arg, Open(c, pc, k, sb, arg)
  PROVE  Others(c) /\ req'[c].pc = pc /\ req'[c].key = k
  BY DEF Types, ReqsOK, Open, Others, IdleReq

(* What the steps of a request other than a launch leave it with. *)
Onwards(c) ==
  /\ Others(c) /\ req'[c].pc # "delete.store"
  /\ req'[c].pc \in NewPcs => req[c].pc \in NewPcs /\ req'[c].new = req[c].new
  /\ req'[c].pc \in KnownPcs => /\ req'[c].key = req[c].key
                                /\ req[c].pc \in KnownPcs \/ RunPut(c)

LEMMA MoveOnwards ==
  ASSUME NEW c \in Client, NEW pc, Moves(c, pc), pc # "delete.store",
         pc \in NewPcs => req[c].pc \in NewPcs,
         pc \in KnownPcs => req[c].pc \in KnownPcs \/ RunPut(c)
  PROVE  Onwards(c)
  BY DEF Moves, Onwards

LEMMA DoneOnwards ==
  ASSUME Types, NEW c \in Client, Done(c)
  PROVE  Onwards(c)
  BY MoveFacts DEF Onwards, NewPcs, KnownPcs, SbPcs

LEMMA StepOnwards ==
  ASSUME Types, NEW c \in Client, RequestStep(c) \/ SessionEnd(c),
         ~RunLaunch(c), ~RestartLaunch(c)
  PROVE  Onwards(c)
<1> USE DEF NewPcs, KnownPcs, SbPcs
<1>1. CASE Done(c)
  BY <1>1, DoneOnwards
<1> SUFFICES ASSUME ~Done(c) PROVE Onwards(c)
  BY <1>1
<1>2. CASE RunPut(c)
  <2>1. Goto(c, "run.sethandle") \/ Goto(c, "run.undo")
    BY <1>2 DEF RunPut
  <2>2. req[c].pc = "run.put"
    BY <1>2 DEF RunPut, At
  <2> QED BY <1>2, <2>1, <2>2, MoveFacts, MoveOnwards
<1>3. CASE RunSetHandle(c)
  <2>1. \E e : req' = [req EXCEPT ![c].pc = "run.watch", ![c].epoch = e]
    BY <1>3 DEF RunSetHandle
  <2>2. req[c].pc = "run.sethandle"
    BY <1>3 DEF RunSetHandle, At
  <2>3. ASSUME NEW e, req' = [req EXCEPT ![c].pc = "run.watch", ![c].epoch = e]
        PROVE  Moves(c, "run.watch")
    BY <2>3, NoteMoves
  <2>4. Moves(c, "run.watch")
    BY <2>1, <2>3
  <2> QED BY <2>2, <2>4, MoveOnwards
<1>4. CASE UpdatePut(c)
  <2>1. \E k : req' = [req EXCEPT ![c].pc = "update.proxy", ![c].key = k]
    BY <1>4 DEF UpdatePut
  <2>2. Others(c) /\ req'[c].pc = "update.proxy"
    BY <2>1 DEF Types, ReqsOK, ReqType, Others
  <2> QED BY <2>2 DEF Onwards
<1>5. CASE UpdateProxy(c)
  <2>1. \E t : req' = [req EXCEPT ![c].pc = "update.put", ![c].todo = t]
    BY <1>5 DEF UpdateProxy
  <2>3. ASSUME NEW t, req' = [req EXCEPT ![c].pc = "update.put", ![c].todo = t]
        PROVE  Moves(c, "update.put")
    BY <2>3, NoteMoves
  <2>4. Moves(c, "update.put")
    BY <2>1, <2>3
  <2> QED BY <2>4, MoveOnwards
<1>6. CASE ReloadHandle(c)
  <2>1. \E s : req' = [req EXCEPT ![c].pc = "reload.put", ![c].sb.state = s]
    BY <1>6 DEF ReloadHandle
  <2>2. req[c].pc = "reload.handle"
    BY <1>6 DEF ReloadHandle, At
  <2>3. ASSUME NEW s, req' = [req EXCEPT ![c].pc = "reload.put", ![c].sb.state = s]
        PROVE  Moves(c, "reload.put")
    BY <2>3, NoteMoves
  <2>4. Moves(c, "reload.put")
    BY <2>1, <2>3
  <2> QED BY <2>2, <2>4, MoveOnwards
<1>7. CASE RestartHandle(c)
  <2>1. \/ Goto(c, "restart.launch")
        \/ \E h : req' = [req EXCEPT ![c].pc = "restart.clear", ![c].old = h]
    BY <1>7 DEF RestartHandle
  <2>2. req[c].pc = "restart.handle"
    BY <1>7 DEF RestartHandle, At
  <2>3. ASSUME NEW h, req' = [req EXCEPT ![c].pc = "restart.clear", ![c].old = h]
        PROVE  Moves(c, "restart.clear")
    BY <2>3, NoteMoves
  <2>4. Moves(c, "restart.clear") \/ Moves(c, "restart.launch")
    BY <2>1, <2>3, MoveFacts
  <2> QED BY <2>2, <2>4, MoveOnwards
<1>8. CASE StopHandle(c)
  <2>1. \E h : req' = [req EXCEPT ![c].pc = "stop.clear", ![c].old = h]
    BY <1>8 DEF StopHandle
  <2>2. req[c].pc = "stop.handle"
    BY <1>8 DEF StopHandle, At
  <2>3. ASSUME NEW h, req' = [req EXCEPT ![c].pc = "stop.clear", ![c].old = h]
        PROVE  Moves(c, "stop.clear")
    BY <2>3, NoteMoves
  <2>4. Moves(c, "stop.clear")
    BY <2>1, <2>3
  <2> QED BY <2>2, <2>4, MoveOnwards
<1>9. CASE AttachHandle(c)
  <2>1. \/ Goto(c, "attach.detach")
        \/ \E h : req' = [req EXCEPT ![c].pc = "attach.dial", ![c].old = h]
    BY <1>9 DEF AttachHandle
  <2>3. ASSUME NEW h, req' = [req EXCEPT ![c].pc = "attach.dial", ![c].old = h]
        PROVE  Moves(c, "attach.dial")
    BY <2>3, NoteMoves
  <2>4. Moves(c, "attach.dial") \/ Moves(c, "attach.detach")
    BY <2>1, <2>3, MoveFacts
  <2> QED BY <2>4, MoveOnwards
<1>10. CASE RestartClear(c) \/ RestartKill(c) \/ RestartPut(c) \/ RestartProxy(c)
            \/ StopPut(c) \/ StopClear(c)
  <2>1. /\ req[c].pc \in {"restart.clear", "restart.kill", "restart.put", "restart.proxy",
                          "stop.put", "stop.clear"}
        /\ \/ Goto(c, "restart.kill") \/ Goto(c, "restart.launch")
           \/ req[c].pc = "restart.put" /\ Goto(c, "restart.proxy")
           \/ req[c].pc = "restart.proxy" /\ Goto(c, "restart.watch")
           \/ Goto(c, "stop.handle") \/ Goto(c, "stop.kill")
    BY <1>10 DEF RestartClear, RestartKill, RestartPut, RestartProxy, StopPut, StopClear, At
  <2> QED BY <2>1, MoveFacts, MoveOnwards
<1>11. CASE AttachTry(c) \/ AttachDial(c) \/ SessionEnd(c)
  <2>1. Goto(c, "attach.handle") \/ Goto(c, "attached") \/ Goto(c, "attach.detach")
    BY <1>11 DEF AttachTry, AttachDial, SessionEnd
  <2> QED BY <2>1, MoveFacts, MoveOnwards
<1>12. CASE \/ RunUndo(c) \/ RunWatch(c) \/ ReloadPut(c) \/ RestartCrashed(c)
            \/ RestartWatch(c) \/ StopKill(c) \/ DeleteStore(c) \/ MergePut(c)
            \/ AttachDetach(c)
  BY <1>12 DEF RunUndo, RunWatch, ReloadPut, RestartCrashed, RestartWatch, StopKill,
               DeleteStore, MergePut, AttachDetach
<1> QED BY <1>2, <1>3, <1>4, <1>5, <1>6, <1>7, <1>8, <1>9, <1>10, <1>11, <1>12 DEF RequestStep

(* A request that begins works on a sandbox that is in the store. *)
LEMMA BeginOnwards ==
  ASSUME Types, NEW c \in Client, RequestBegin(c), "delete" \notin Ops
  PROVE  /\ Others(c) /\ UNCHANGED <<store, handles, epoch, watch, proc>>
         /\ req[c].pc = "idle" /\ req'[c].pc \notin NewPcs \cup {"delete.store"}
         /\ req'[c].pc \in KnownPcs => store[req'[c].key] # None
<1> USE DEF NewPcs, KnownPcs, SbPcs
<1>0. req[c].pc = "idle" /\ UNCHANGED <<store, handles, epoch, watch, proc>>
  BY DEF RequestBegin, UpdateBegin, RunCheck, ReloadGet, RestartGet, StopGet, DeleteGet,
         MergeGet, AttachGet, Begin, storeVars, tableVars
<1>1. CASE UpdateBegin(c)
  <2>1. PICK d, t : req' = [req EXCEPT ![c] =
                 [IdleReq EXCEPT !.pc = "update.put", !.arg = d, !.todo = t]]
    BY <1>1 DEF UpdateBegin
  <2>2. Others(c) /\ req'[c].pc = "update.put"
    BY <2>1 DEF Types, ReqsOK, Others, IdleReq
  <2> QED BY <1>0, <2>2
<1>2. ASSUME NEW k \in Key,
             \/ RunCheck(c, k) \/ ReloadGet(c, k) \/ RestartGet(c, k)
             \/ StopGet(c, k) \/ DeleteGet(c, k) \/ MergeGet(c, k) \/ AttachGet(c, k)
      PROVE  /\ Others(c)
             /\ req'[c].pc \notin NewPcs \cup {"delete.store"}
             /\ req'[c].pc \in KnownPcs => store[req'[c].key] # None
  <2>1. CASE RunCheck(c, k)
    <3>1. \E sb : Open(c, "run.launch", k, sb, None)
      BY <2>1 DEF RunCheck
    <3> QED BY <3>1, OpenFacts
  <2>2. CASE ~RunCheck(c, k)
    <3>1. /\ store[k] # None
          /\ \E sb, arg : \/ Open(c, "reload.handle", k, sb, arg)
                          \/ Open(c, "restart.handle", k, sb, arg)
                          \/ Open(c, "stop.put", k, sb, arg)
                          \/ Open(c, "merge.put", k, sb, arg)
                          \/ Open(c, "attach.try", k, sb, arg)
      <4>1. CASE ReloadGet(c, k)
        BY <4>1 DEF ReloadGet
      <4>2. CASE RestartGet(c, k)
        BY <4>2 DEF RestartGet
      <4>3. CASE StopGet(c, k)
        BY <4>3 DEF StopGet
      <4>4. CASE MergeGet(c, k)
        BY <4>4 DEF MergeGet
      <4>5. CASE AttachGet(c, k)
        BY <4>5 DEF AttachGet
      <4>6. ~DeleteGet(c, k)
        BY DEF DeleteGet, Begin
      <4> QED BY <1>2, <2>2, <4>1, <4>2, <4>3, <4>4, <4>5, <4>6
    <3> QED BY <3>1, OpenFacts
  <2> QED BY <2>1, <2>2
<1> QED BY <1>0, <1>1, <1>2 DEF RequestBegin

----------------------------------------------------------------------------
(* Newborn. *)

(* No step of the rest of the world puts a process in other hands. *)
Passes(S) ==
  /\ \A p \in Process \ S : Waits(p)' => Waits(p)
  /\ \A p \in Process \ S, c \in Client : Brings(c, p)' => Brings(c, p)
  /\ \A p \in Process \ S, q \in Process : Relaunches(q, p)' => Relaunches(q, p)

LEMMA NewbornFrame ==
  ASSUME Newborn, Passes({})
  PROVE  Newborn'
  BY DEF Newborn, Passes

(* The process of a launch is in nobody's hands, and comes into those of one. *)
Unheld(p) ==
  /\ ~Waits(p)
  /\ \A c \in Client : ~Brings(c, p)
  /\ \A q \in Process : ~Relaunches(q, p)

LEMMA LaunchUnheld ==
  ASSUME Types, CopiesOK, NEW p \in Process, NEW k, NEW sb, Launch(p, k, sb)
  PROVE  Unheld(p)
<1>1. proc[p].key \notin Key
  BY ConstantsAssumption DEF Launch, Unborn
<1>2. ~Waits(p)
  BY <1>1 DEF CopiesOK, WatchCopies, WatchCopy, Waits, Types, WatchesOK, WatchOK
<1>3. ASSUME NEW c \in Client, Brings(c, p)
      PROVE  FALSE
  <2>1. proc[p].key = req[c].key /\ req[c].key \in Key
    BY <1>3 DEF Brings, CopiesOK, ReqCopies, ReqCopy, Types, ReqsOK, ReqOK, NewPcs, NoKeyPcs
  <2> QED BY <1>1, <2>1
<1>4. ASSUME NEW q \in Process, Relaunches(q, p)
      PROVE  FALSE
  <2>1. proc[p].key = watch[q].key /\ watch[q].key \in Key
    BY <1>4 DEF Relaunches, CopiesOK, WatchCopies, WatchCopy, Types, WatchesOK, WatchOK,
                HeirPcs
  <2> QED BY <1>1, <2>1
<1> QED BY <1>2, <1>3, <1>4 DEF Unheld

LEMMA NewbornLaunched ==
  ASSUME Newborn, NEW p \in Process, Unheld(p), Passes({p}), ~Waits(p)',
         \/ \E c \in Client : /\ \A d \in Client : Brings(d, p)' => d = c
                              /\ \A q \in Process : ~Relaunches(q, p)'
         \/ \E q \in Process : /\ \A r \in Process : Relaunches(r, p)' => r = q
                               /\ \A c \in Client : ~Brings(c, p)'
  PROVE  Newborn'
  BY DEF Newborn, Passes

(* A process that gets its watchLoop has left the hands it was in. *)
LEMMA NewbornWaits ==
  ASSUME Newborn, NEW p \in Process, Passes({p}),
         \A c \in Client : ~Brings(c, p)', \A q \in Process : ~Relaunches(q, p)'
  PROVE  Newborn'
  BY DEF Newborn, Passes

LEMMA RequestNewborn ==
  ASSUME Types, CopiesOK, Newborn, NEW c \in Client, "delete" \notin Ops,
         RequestBegin(c) \/ RequestStep(c) \/ SessionEnd(c)
  PROVE  Newborn'
<1>1. CASE RequestBegin(c)
  <2>1. Passes({})
    BY <1>1, BeginOnwards DEF Passes, Others, Waits, Brings, Relaunches
  <2> QED BY <2>1, NewbornFrame
<1>2. ASSUME NEW p \in Process, NEW pc \in NewPcs, NEW sb, NEW k, NEW old,
             Launch(p, k, old),
             req' = [req EXCEPT ![c].pc = pc, ![c].new = p, ![c].sb = sb],
             UNCHANGED watch
      PROVE  Newborn'
  <2>1. Others(c) /\ req'[c].new = p
    BY <1>2 DEF Others, Types, ReqsOK, ReqType
  <2>2. Unheld(p)
    BY <1>2, LaunchUnheld
  <2>3. Passes({p}) /\ ~Waits(p)'
    BY <1>2, <2>1, <2>2 DEF Passes, Others, Unheld, Waits, Brings, Relaunches
  <2>4. /\ \A d \in Client : Brings(d, p)' => d = c
        /\ \A q \in Process : ~Relaunches(q, p)'
    BY <1>2, <2>1, <2>2 DEF Others, Unheld, Brings, Relaunches
  <2> QED BY <2>2, <2>3, <2>4, NewbornLaunched
<1>3. CASE RunLaunch(c) \/ RestartLaunch(c)
  <2>1. UNCHANGED watch
    BY <1>3 DEF RunLaunch, RestartLaunch
  <2>2. \/ Done(c)
        \/ \E s : req' = [req EXCEPT ![c].pc = "restart.crashed", ![c].sb.state = s]
        \/ \E p \in Process, pc \in NewPcs : \E sb :
             /\ Launch(p, req[c].key, req[c].sb)
             /\ req' = [req EXCEPT ![c].pc = pc, ![c].new = p, ![c].sb = sb]
    <3>1. CASE RunLaunch(c)
      <4>1. "run.put" \in NewPcs
        BY DEF NewPcs
      <4> QED BY <3>1, <4>1 DEF RunLaunch
    <3>2. CASE RestartLaunch(c)
      <4>1. "restart.put" \in NewPcs
        BY DEF NewPcs
      <4> QED BY <3>2, <4>1 DEF RestartLaunch
    <3> QED BY <1>3, <3>1, <3>2
  <2>3. CASE Done(c)
    <3>1. Others(c) /\ req'[c].pc \notin NewPcs
      BY <2>3, MoveFacts DEF NewPcs
    <3>2. Passes({})
      BY <2>1, <3>1 DEF Passes, Others, Waits, Brings, Relaunches
    <3> QED BY <3>2, NewbornFrame
  <2>4. ASSUME NEW s, req' = [req EXCEPT ![c].pc = "restart.crashed", ![c].sb.state = s]
        PROVE  Newborn'
    <3>1. Others(c) /\ req'[c].pc \notin NewPcs
      <4>1. Moves(c, "restart.crashed")
        BY <2>4, NoteMoves
      <4> QED BY <4>1 DEF Moves, NewPcs
    <3>2. Passes({})
      BY <2>1, <3>1 DEF Passes, Others, Waits, Brings, Relaunches
    <3> QED BY <3>2, NewbornFrame
  <2> QED BY <1>2, <2>1, <2>2, <2>3, <2>4
<1>4. CASE RunWatch(c) \/ RestartWatch(c)
  <2>0. PICK p, k, e : p = req[c].new /\ watch' = [watch EXCEPT ![p] = Watching(k, e)]
    BY <1>4 DEF RunWatch, RestartWatch
  <2>1. PICK w : w = Watching(k, e)
    OBVIOUS
  <2>8. watch' = [watch EXCEPT ![p] = w] /\ w.pc = "wait"
    BY <2>0, <2>1 DEF Watching, NoWatch
  <2>2. req[c].pc \in NewPcs /\ p \in Process
    BY <1>4, <2>0, AtOK DEF RunWatch, RestartWatch, NewPcs
  <2>3. Others(c) /\ req'[c].pc \notin NewPcs
    BY <1>4, MoveFacts DEF RunWatch, RestartWatch, NewPcs
  <2>4. watch'[p].pc = "wait" /\ \A q \in Process \ {p} : watch'[q] = watch[q]
    BY <2>2, <2>8 DEF Types, WatchesOK
  <2>5. Passes({p})
    BY <2>3, <2>4 DEF Passes, Others, Waits, Brings, Relaunches, HeirPcs
  <2>6. \A d \in Client : ~Brings(d, p)'
    BY <2>0, <2>2, <2>3 DEF Newborn, Others, Brings
  <2>7. \A q \in Process : ~Relaunches(q, p)'
    BY <2>0, <2>2, <2>4 DEF Newborn, Brings, Relaunches, HeirPcs
  <2> QED BY <2>2, <2>5, <2>6, <2>7, NewbornWaits
<1>5. CASE /\ RequestStep(c) \/ SessionEnd(c)
           /\ ~RunLaunch(c) /\ ~RestartLaunch(c) /\ ~RunWatch(c) /\ ~RestartWatch(c)
  <2>1. UNCHANGED watch
    BY <1>5, StepKeeps DEF RequestStep, RunSetHandle
  <2>2. Passes({})
    BY <1>5, <2>1, StepOnwards DEF Onwards, Passes, Others, Waits, Brings, Relaunches
  <2> QED BY <2>2, NewbornFrame
<1> QED BY <1>1, <1>3, <1>4, <1>5

(* What a watchLoop's steps leave it with. *)
LEMMA WatchOnwards ==
  ASSUME Types, NEW p \in Process, WatchStep(p), ~WatchSetHandle(p)
  PROVE  /\ \A q \in Process \ {p} : watch'[q] = watch[q]
         /\ ~WatchRelaunch(p) /\ watch'[p].pc \in HeirPcs =>
              watch[p].pc \in HeirPcs /\ watch'[p].new = watch[p].new
<1> DEFINE Goal == /\ \A q \in Process \ {p} : watch'[q] = watch[q]
                   /\ watch'[p].pc \in HeirPcs =>
                        watch[p].pc \in HeirPcs /\ watch'[p].new = watch[p].new
<1>0. watch = [q \in Process |-> watch[q]] /\ watch[p] \in WatchType
  BY DEF Types, WatchesOK
<1>1. WDone(p) => Goal
  BY <1>0 DEF WDone, NoWatch, HeirPcs
<1>2. CASE WatchGet(p)
  <2>1. \/ WDone(p)
        \/ \E sb : watch' = [watch EXCEPT ![p].pc = "restarting", ![p].sb = sb]
        \/ \E sb : watch' = [watch EXCEPT ![p].pc = "clear", ![p].sb = sb]
    BY <1>2 DEF WatchGet
  <2>2. ASSUME NEW sb,
               \/ watch' = [watch EXCEPT ![p].pc = "restarting", ![p].sb = sb]
               \/ watch' = [watch EXCEPT ![p].pc = "clear", ![p].sb = sb]
        PROVE  Goal
    BY <1>0, <2>2 DEF HeirPcs, WatchType
  <2> QED BY <1>1, <2>1, <2>2
<1>3. CASE WatchRelaunch(p)
  <2>1. \/ \E q, sb : watch' = [watch EXCEPT ![p].pc = "running", ![p].new = q,
                                             ![p].sb = sb]
        \/ \E s : watch' = [watch EXCEPT ![p].pc = "crashed", ![p].sb.state = s]
    BY <1>3 DEF WatchRelaunch
  <2> QED BY <1>0, <1>3, <2>1
<1>4. CASE WatchRunning(p)
  <2>1. WGoto(p, "sethandle") /\ watch[p].pc = "running"
    BY <1>4 DEF WatchRunning, WatchPut, WAt
  <2> QED BY <1>0, <2>1 DEF WGoto, HeirPcs, WatchType
<1>5. CASE ~WatchGet(p) /\ ~WatchRelaunch(p) /\ ~WatchRunning(p)
  <2>1. \/ WDone(p) \/ WGoto(p, "get") \/ WGoto(p, "backoff") \/ WGoto(p, "crashed.clear")
        \/ WGoto(p, "final")
    BY <1>5 DEF WatchStep, WatchExit, WatchRestarting, WatchCrashed,
                WatchCrashedClear, WatchClear, WatchFinal
  <2> QED BY <1>0, <1>1, <2>1 DEF WGoto, HeirPcs, WatchType
<1> QED BY <1>2, <1>3, <1>4, <1>5

LEMMA WatchNewborn ==
  ASSUME Types, CopiesOK, Newborn, NEW p \in Process, WatchStep(p)
  PROVE  Newborn'
<1>1. CASE WatchSetHandle(p)
  <2>0. PICK q, w : q = watch[p].new /\ w = Watching(watch[p].key, epoch'[watch[p].key])
    OBVIOUS
  <2>1. /\ q = watch[p].new /\ watch' = [watch EXCEPT ![p] = NoWatch, ![q] = w]
        /\ w.pc = "wait" /\ UNCHANGED req
    <3>1. w.pc = "wait"
      BY <2>0 DEF Watching, NoWatch
    <3> QED BY <1>1, <2>0, <3>1 DEF WatchSetHandle, WAt
  <2>2. q \in Process /\ Relaunches(p, q)
    BY <1>1, <2>1, WAtOK DEF WatchSetHandle, HeirPcs, Relaunches
  <2>3. q # p
    BY <2>2 DEF Newborn, Relaunches, Waits, HeirPcs
  <2>4. /\ watch'[q].pc = "wait" /\ watch'[p].pc = "none"
        /\ \A x \in Process \ {p, q} : watch'[x] = watch[x]
    BY <2>1, <2>2, <2>3 DEF Types, WatchesOK, NoWatch
  <2>5. Passes({q})
    BY <2>1, <2>4 DEF Passes, Waits, Brings, Relaunches, HeirPcs
  <2>6. \A d \in Client : ~Brings(d, q)'
    BY <2>1, <2>2 DEF Newborn, Brings
  <2>7. \A x \in Process : ~Relaunches(x, q)'
    <3>1. \A x \in Process : Relaunches(x, q) => x = p
      BY <2>2 DEF Newborn
    <3> QED BY <3>1, <2>4 DEF Relaunches, HeirPcs
  <2> QED BY <2>2, <2>5, <2>6, <2>7, NewbornWaits
<1>2. CASE ~WatchSetHandle(p)
  <2>0. /\ UNCHANGED req /\ Waits(p) /\ \A q \in Process : Waits(q)' => Waits(q)
        /\ \A q \in Process \ {p} : watch'[q] = watch[q]
    BY <1>2, WatchKeeps, WatchOnwards DEF WKeeps
  <2>1. CASE WatchRelaunch(p) /\ watch'[p].pc # "crashed"
    <3>0. ~(watch' = [watch EXCEPT ![p].pc = "crashed", ![p].sb.state = "crashed"])
      BY <2>1 DEF Types, WatchesOK, WatchType
    <3>1. PICK q \in Process : \E sb :
                /\ Launch(q, watch[p].key, watch[p].sb)
                /\ watch' = [watch EXCEPT ![p].pc = "running", ![p].new = q, ![p].sb = sb]
      BY <2>1, <3>0 DEF WatchRelaunch
    <3>2. Unheld(q) /\ watch'[p].new = q
      BY <3>1, LaunchUnheld DEF Types, WatchesOK, WatchType
    <3>3. Passes({q}) /\ ~Waits(q)'
      BY <2>0, <3>2 DEF Passes, Unheld, Brings, Relaunches
    <3>4. /\ \A r \in Process : Relaunches(r, q)' => r = p
          /\ \A c \in Client : ~Brings(c, q)'
      BY <2>0, <3>2 DEF Unheld, Brings, Relaunches
    <3> QED BY <3>2, <3>3, <3>4, NewbornLaunched
  <2>2. CASE ~WatchRelaunch(p) \/ watch'[p].pc = "crashed"
    <3>1. watch'[p].pc \in HeirPcs => watch[p].pc \in HeirPcs /\ watch'[p].new = watch[p].new
      BY <1>2, <2>2, WatchOnwards DEF HeirPcs
    <3>2. Passes({})
      BY <2>0, <3>1 DEF Passes, Brings, Relaunches
    <3> QED BY <3>2, NewbornFrame
  <2> QED BY <2>1, <2>2
<1> QED BY <1>1, <1>2

LEMMA WorldNewborn ==
  ASSUME Newborn,
         \/ \E p \in Process : Exit(p)
         \/ Crash \/ StartLoad \/ StartReattach \/ Serve
         \/ \E k \in Key : Reconcile(k)
         \/ UNCHANGED vars
  PROVE  Newborn'
<1>1. CASE Crash
  <2>1. /\ req' = [c \in Client |-> IdleReq] /\ watch' = [p \in Process |-> NoWatch]
        /\ IdleReq.pc = "idle" /\ NoWatch.pc = "none"
    BY <1>1 DEF Crash, IdleReq, NoWatch
  <2>2. Passes({})
    BY <2>1 DEF Passes, Waits, Brings, Relaunches, NewPcs, HeirPcs
  <2> QED BY <2>2, NewbornFrame
<1>2. CASE ~Crash
  <2>1. UNCHANGED <<req, watch>>
    BY <1>2 DEF Exit, StartLoad, StartReattach, Serve, Reconcile, vars
  <2>2. Passes({})
    BY <2>1 DEF Passes, Waits, Brings, Relaunches
  <2> QED BY <2>2, NewbornFrame
<1> QED BY <1>1, <1>2

LEMMA ReattachNewborn ==
  ASSUME Types, CopiesOK, StartInv, Newborn, NEW k \in Key, store[k] # None, Reattach(k)
  PROVE  Newborn'
<1>1. PICK p, w : p = store[k].pid /\ w = Watching(k, epoch'[k])
  OBVIOUS
<1>2. p \in Process /\ proc[p].key = k
  BY <1>1 DEF CopiesOK, StoreCopies, Of
<1>3. UNCHANGED req /\ \A c \in Client : req[c].pc = "idle"
  BY DEF Reattach, StartInv
<1>4. CASE Alive(p)
  <2>1. watch' = [watch EXCEPT ![p] = w] /\ w.pc = "wait"
    BY <1>1, <1>4 DEF Reattach, Watching, NoWatch
  <2>2. watch'[p].pc = "wait" /\ \A q \in Process \ {p} : watch'[q] = watch[q]
    BY <1>2, <2>1 DEF Types, WatchesOK
  <2>3. \A q \in Process : ~Relaunches(q, p)
    <3>1. \A q \in Process : Waits(q) => watch[q].key # k
      BY DEF StartInv, Reattach
    <3>2. \A q \in Process : Relaunches(q, p) => Waits(q) /\ watch[q].key = k
      BY <1>2 DEF Relaunches, Waits, HeirPcs, CopiesOK, WatchCopies, WatchCopy
    <3> QED BY <3>1, <3>2
  <2>4. Passes({p})
    BY <1>3, <2>2 DEF Passes, Waits, Brings, Relaunches, HeirPcs
  <2>5. \A c \in Client : ~Brings(c, p)'
    BY <1>3 DEF Brings, NewPcs
  <2>6. \A q \in Process : ~Relaunches(q, p)'
    BY <2>2, <2>3 DEF Relaunches, HeirPcs
  <2> QED BY <1>2, <2>4, <2>5, <2>6, NewbornWaits
<1>5. CASE ~Alive(p)
  <2>1. UNCHANGED watch
    BY <1>1, <1>5 DEF Reattach
  <2>2. Passes({})
    BY <1>3, <2>1 DEF Passes, Waits, Brings, Relaunches
  <2> QED BY <2>2, NewbornFrame
<1> QED BY <1>4, <1>5

----------------------------------------------------------------------------
(* Known. *)

StoreKeeps == \A k \in Key : store[k] # None => store'[k] # None

LEMMA PutKeeps ==
  ASSUME Types, NEW k, NEW r, r # None, Set(k, r)
  PROVE  StoreKeeps /\ (k \in Key => store'[k] # None)
  BY DEF Types, StoreOK, Set, StoreKeeps

LEMMA RequestPuts ==
  ASSUME Types, NEW c \in Client, RequestStep(c) \/ SessionEnd(c), req[c].pc # "delete.store"
  PROVE  StoreKeeps /\ (RunPut(c) => store'[req[c].key] # None)
<1>1. CASE RunPut(c) \/ ReloadPut(c) \/ RestartCrashed(c) \/ RestartPut(c) \/ StopPut(c)
           \/ MergePut(c)
  <2>1. Set(req[c].key, req[c].sb)
    BY <1>1 DEF RunPut, ReloadPut, RestartCrashed, RestartPut, StopPut, MergePut
  <2>2. \E pc \in SbPcs \ NoKeyPcs : At(c, pc)
    BY <1>1 DEF RunPut, ReloadPut, RestartCrashed, RestartPut, StopPut, MergePut,
                SbPcs, NoKeyPcs
  <2>3. req[c].sb # None /\ req[c].key \in Key
    BY <2>2, AtOK, ConstantsAssumption
  <2> QED BY <2>1, <2>3, PutKeeps
<1>2. CASE UpdatePut(c)
  <2>1. ~RunPut(c)
    BY <1>2 DEF UpdatePut, RunPut, At
  <2> QED BY <1>2, <2>1, PutKeeps DEF UpdatePut
<1>3. CASE ~RunPut(c) /\ ~ReloadPut(c) /\ ~RestartCrashed(c) /\ ~RestartPut(c) /\ ~StopPut(c)
           /\ ~MergePut(c) /\ ~UpdatePut(c)
  <2>1. UNCHANGED store
    BY <1>3 DEF RequestStep, SessionEnd, RunLaunch, RunUndo, RunSetHandle, RunWatch,
         UpdateProxy, ReloadHandle, RestartHandle, RestartClear, RestartKill,
         RestartLaunch, RestartProxy, RestartWatch, StopHandle, StopClear, StopKill,
         DeleteStore, At, AttachTry, AttachHandle, AttachDial, AttachDetach, storeVars
  <2> QED BY <1>3, <2>1 DEF StoreKeeps
<1> QED BY <1>1, <1>2, <1>3

LEMMA KnownFrame ==
  ASSUME Types, Known, StoreKeeps, NEW c \in Client, Others(c),
         req'[c].pc # "delete.store",
         req'[c].pc \in KnownPcs => store'[req'[c].key] # None,
         \A p \in Process : Waits(p)' => \/ Waits(p) /\ watch'[p].key = watch[p].key
                                         \/ store'[watch'[p].key] # None
  PROVE  Known'
<1>1. ASSUME NEW d \in Client
      PROVE  /\ req'[d].pc # "delete.store"
             /\ req'[d].pc \in KnownPcs => store'[req'[d].key] # None
  <2>1. CASE d = c
    BY <2>1
  <2>2. CASE d # c
    <3>1. req'[d] = req[d]
      BY <2>2 DEF Others
    <3>2. req[d].pc \in KnownPcs => req[d].key \in Key /\ store[req[d].key] # None
      BY DEF Known, Types, ReqsOK, ReqOK, KnownPcs, SbPcs, NoKeyPcs
    <3> QED BY <3>1, <3>2 DEF StoreKeeps, Known
  <2> QED BY <2>1, <2>2
<1>2. ASSUME NEW p \in Process, Waits(p)'
      PROVE  store'[watch'[p].key] # None
  <2>1. Waits(p) => watch[p].key \in Key /\ store[watch[p].key] # None
    BY DEF Known, Types, WatchesOK, WatchOK, Waits
  <2> QED BY <1>2, <2>1 DEF StoreKeeps
<1> QED BY <1>1, <1>2 DEF Known

LEMMA RequestKnown ==
  ASSUME Types, Known, NEW c \in Client, "delete" \notin Ops,
         RequestBegin(c) \/ RequestStep(c) \/ SessionEnd(c)
  PROVE  Known'
<1>1. CASE RequestBegin(c)
  <2>1. StoreKeeps /\ \A p \in Process : Waits(p)' => Waits(p) /\ watch'[p].key = watch[p].key
    BY <1>1, BeginOnwards DEF StoreKeeps, Waits
  <2> QED BY <1>1, <2>1, BeginOnwards, KnownFrame
<1>2. CASE RequestStep(c) \/ SessionEnd(c)
  <2>1. /\ req[c].pc # "delete.store"
        /\ req[c].pc \in KnownPcs => req[c].key \in Key /\ store[req[c].key] # None
    BY DEF Known, Types, ReqsOK, ReqOK, KnownPcs, SbPcs, NoKeyPcs
  <2>2. StoreKeeps /\ (RunPut(c) => store'[req[c].key] # None)
    BY <1>2, <2>1, RequestPuts
  <2>3. Others(c) /\ req'[c].pc # "delete.store"
        /\ (req'[c].pc \in KnownPcs => store'[req'[c].key] # None)
    <3>1. CASE RunLaunch(c)
      <4>1. \/ Done(c)
            \/ \E p, sb : req' = [req EXCEPT ![c].pc = "run.put", ![c].new = p, ![c].sb = sb]
        BY <3>1 DEF RunLaunch
      <4>2. ASSUME NEW p, NEW sb,
                   req' = [req EXCEPT ![c].pc = "run.put", ![c].new = p, ![c].sb = sb]
            PROVE  Others(c) /\ req'[c].pc = "run.put"
        BY <4>2, LaunchMoves
      <4>3. Others(c) /\ req'[c].pc \in {"idle", "run.put"}
        BY <4>1, <4>2, MoveFacts
      <4> QED BY <4>3 DEF KnownPcs, SbPcs
    <3>2. CASE RestartLaunch(c)
      <4>1. \/ \E p, sb : req' = [req EXCEPT ![c].pc = "restart.put", ![c].new = p, ![c].sb = sb]
            \/ \E s : req' = [req EXCEPT ![c].pc = "restart.crashed", ![c].sb.state = s]
        BY <3>2 DEF RestartLaunch
      <4>2. ASSUME NEW p, NEW sb,
                   req' = [req EXCEPT ![c].pc = "restart.put", ![c].new = p, ![c].sb = sb]
            PROVE  Others(c) /\ req'[c].pc = "restart.put" /\ req'[c].key = req[c].key
        BY <4>2, LaunchMoves
      <4>3. ASSUME NEW s,
                   req' = [req EXCEPT ![c].pc = "restart.crashed", ![c].sb.state = s]
            PROVE  Moves(c, "restart.crashed")
        BY <4>3, NoteMoves
      <4>4. /\ Others(c) /\ req'[c].key = req[c].key
            /\ req'[c].pc \in {"restart.put", "restart.crashed"}
        BY <4>1, <4>2, <4>3 DEF Moves
      <4>5. req[c].pc = "restart.launch"
        BY <3>2 DEF RestartLaunch, At
      <4> QED BY <2>1, <2>2, <4>4, <4>5 DEF StoreKeeps, KnownPcs, SbPcs
    <3>3. CASE ~RunLaunch(c) /\ ~RestartLaunch(c)
      BY <1>2, <2>1, <2>2, <3>3, StepOnwards DEF Onwards, StoreKeeps
    <3> QED BY <3>1, <3>2, <3>3
  <2>4. \A p \in Process : Waits(p)' => \/ Waits(p) /\ watch'[p].key = watch[p].key
                                        \/ store'[watch'[p].key] # None
    <3>1. CASE RunWatch(c) \/ RestartWatch(c)
      <4>1. PICK p, k, e : /\ k = req[c].key /\ p = req[c].new
                           /\ watch' = [watch EXCEPT ![p] = Watching(k, e)]
        BY <3>1 DEF RunWatch, RestartWatch
      <4>2. Watching(k, e).key = k
        BY DEF Watching, NoWatch
      <4>3. \A q \in Process : watch'[q] = watch[q] \/ watch'[q].key = k
        BY <4>1, <4>2 DEF Types, WatchesOK
      <4>4. req[c].pc \in KnownPcs
        BY <3>1 DEF RunWatch, RestartWatch, At, KnownPcs, SbPcs
      <4> QED BY <2>1, <2>2, <4>1, <4>3, <4>4 DEF StoreKeeps, Waits
    <3>2. CASE ~RunWatch(c) /\ ~RestartWatch(c)
      <4>1. UNCHANGED watch
        BY <1>2, <3>2, StepKeeps DEF RequestStep, RunSetHandle
      <4> QED BY <4>1 DEF Waits
    <3> QED BY <3>1, <3>2
  <2> QED BY <2>2, <2>3, <2>4, KnownFrame
<1> QED BY <1>1, <1>2

LEMMA WatchKnown ==
  ASSUME Types, Known, NEW p \in Process, WatchStep(p)
  PROVE  Known'
<1>1. StoreKeeps
  <2>1. CASE WatchRestarting(p) \/ WatchCrashed(p) \/ WatchRunning(p) \/ WatchFinal(p)
    <3>1. PICK pc \in CopyPcs : WatchPut(p, pc)
      BY <2>1 DEF WatchRestarting, WatchCrashed, WatchRunning, WatchFinal, CopyPcs
    <3>2. watch[p].sb # None
      BY <3>1, WAtOK, ConstantsAssumption DEF WatchPut
    <3> QED BY <3>1, <3>2, PutKeeps DEF WatchPut
  <2>2. CASE ~(WatchRestarting(p) \/ WatchCrashed(p) \/ WatchRunning(p) \/ WatchFinal(p))
    BY <2>2 DEF WatchStep, WatchExit, WatchGet, WatchRelaunch, WatchCrashedClear,
                WatchSetHandle, WatchClear, storeVars, StoreKeeps
  <2> QED BY <2>1, <2>2
<1>2. UNCHANGED req
  BY WatchKeeps, SetHandleSteps
<1>3. Waits(p) /\ \A q \in Process : Waits(q)' => \/ Waits(q) /\ watch'[q].key = watch[q].key
                                                  \/ watch'[q].key = watch[p].key
  <2>1. CASE WatchSetHandle(p)
    <3>1. PICK k \in Key, q \in Process :
             /\ k = watch[p].key /\ Waits(p)
             /\ watch'[q] = Watching(k, epoch'[k])
             /\ \A x \in Process \ {q} : WKeeps(x)
      BY <2>1, SetHandleSteps
    <3>2. watch'[q].key = k
      BY <3>1 DEF Watching, NoWatch
    <3> QED BY <3>1, <3>2 DEF WKeeps
  <2>2. CASE ~WatchSetHandle(p)
    BY <2>2, WatchKeeps DEF WKeeps
  <2> QED BY <2>1, <2>2
<1>4. \A c \in Client : req[c].pc \in KnownPcs => req[c].key \in Key
  BY DEF Types, ReqsOK, ReqOK, KnownPcs, SbPcs, NoKeyPcs
<1>5. \A q \in Process : Waits(q) => watch[q].key \in Key
  BY DEF Types, WatchesOK, WatchOK, Waits
<1>6. \A c \in Client : /\ req'[c].pc # "delete.store"
                        /\ req'[c].pc \in KnownPcs => store'[req'[c].key] # None
  BY <1>1, <1>2, <1>4 DEF Known, StoreKeeps
<1>7. \A q \in Process : Waits(q)' => store'[watch'[q].key] # None
  BY <1>1, <1>3, <1>5 DEF Known, StoreKeeps
<1> QED BY <1>6, <1>7 DEF Known

LEMMA WorldKnown ==
  ASSUME Types, StartInv, Known,
         \/ \E p \in Process : Exit(p)
         \/ Crash \/ StartLoad \/ StartReattach \/ Serve
         \/ \E k \in Key : Reconcile(k)
         \/ UNCHANGED vars
  PROVE  Known'
<1>1. CASE Crash
  <2>1. /\ req' = [c \in Client |-> IdleReq] /\ watch' = [p \in Process |-> NoWatch]
        /\ IdleReq.pc = "idle" /\ NoWatch.pc = "none"
    BY <1>1 DEF Crash, IdleReq, NoWatch
  <2> QED BY <2>1 DEF Known, Waits, KnownPcs, SbPcs
<1>2. CASE StartLoad \/ \E k \in Key : Reconcile(k)
  <2>1. /\ UNCHANGED <<req, watch>>
        /\ \A c \in Client : req[c].pc = "idle"
        /\ \A p \in Process : ~Waits(p)
    BY <1>2 DEF StartLoad, Reconcile, StartInv
  <2> QED BY <2>1 DEF Known, Waits, KnownPcs, SbPcs
<1>3. CASE ~Crash /\ ~StartLoad /\ ~(\E k \in Key : Reconcile(k))
  <2>1. UNCHANGED <<store, req, watch>>
    BY <1>3 DEF Exit, StartReattach, Serve, vars, storeVars
  <2> QED BY <2>1 DEF Known, Waits
<1> QED BY <1>1, <1>2, <1>3

LEMMA ReattachKnown ==
  ASSUME Types, Known, NEW k \in Key, store[k] # None, Reattach(k)
  PROVE  Known'
<1>1. UNCHANGED <<store, req>>
  BY DEF Reattach, storeVars
<1>2. \A q \in Process : Waits(q)' => \/ Waits(q) /\ watch'[q].key = watch[q].key
                                      \/ watch'[q].key = k
  <2>1. PICK p, w : p = store[k].pid /\ w = Watching(k, epoch'[k])
    OBVIOUS
  <2>2. UNCHANGED watch \/ watch' = [watch EXCEPT ![p] = w]
    BY <2>1 DEF Reattach
  <2>3. w.key = k
    BY <2>1 DEF Watching, NoWatch
  <2> QED BY <2>2, <2>3 DEF Types, WatchesOK, Waits
<1> QED BY <1>1, <1>2 DEF Known

----------------------------------------------------------------------------
(* HandleWatched. *)

(* The loop of p stays in charge, if it was. *)
Attends(p) == watch[p].pc \notin {"none", "final"} =>
                /\ watch'[p].pc \notin {"none", "final"}
                /\ watch'[p].key = watch[p].key /\ watch'[p].epoch = watch[p].epoch

LEMMA StayInCharge ==
  ASSUME HandleWatched, NEW k \in Key, handles[k] # None,
         handles'[k] = handles[k], epoch'[k] = epoch[k], Attends(handles[k]),
         \A c \in Client : Starts(c) /\ req[c].new = handles[k] => req'[c] = req[c]
  PROVE  InCharge(k, handles[k])'
<1>1. PICK h : h = handles[k]
  OBVIOUS
<1>2. CASE /\ watch[h].key = k /\ watch[h].epoch = epoch[k]
           /\ watch[h].pc \notin {"none", "final"}
  BY <1>1, <1>2 DEF InCharge, Attends
<1>3. ASSUME NEW c \in Client, req[c].pc = "run.watch", req[c].key = k,
             req[c].new = h, req[c].epoch = epoch[k]
      PROVE  InCharge(k, handles[k])'
  <2>1. req'[c] = req[c]
    BY <1>1, <1>3 DEF Starts
  <2> QED BY <1>1, <1>3, <2>1 DEF InCharge
<1> QED BY <1>1, <1>2, <1>3 DEF HandleWatched, InCharge

LEMMA SetHandleFacts ==
  ASSUME Types, NEW k \in Key
  PROVE  /\ \A p : setHandle(k, p) =>
              /\ handles'[k] = p
              /\ \A l \in Key \ {k} : handles'[l] = handles[l] /\ epoch'[l] = epoch[l]
         /\ clearHandle(k) =>
              /\ handles'[k] = None
              /\ \A l \in Key \ {k} : handles'[l] = handles[l] /\ epoch'[l] = epoch[l]
         /\ UNCHANGED tableVars =>
              \A l \in Key : handles'[l] = handles[l] /\ epoch'[l] = epoch[l]
  BY DEF Types, TableOK, setHandle, clearHandle, tableVars

LEMMA HandleProcess ==
  ASSUME Types, NEW k \in Key, handles[k] # None
  PROVE  handles[k] \in Process
  BY OrNoneElim DEF Types, TableOK

(* A request that neither takes nor starts anything leaves the others be. *)
LEMMA StepOthers ==
  ASSUME Types, NEW c \in Client, RequestStep(c) \/ SessionEnd(c)
  PROVE  Others(c)
<1>1. CASE RunLaunch(c)
  <2>1. \/ Done(c)
        \/ \E p, sb : req' = [req EXCEPT ![c].pc = "run.put", ![c].new = p, ![c].sb = sb]
    BY <1>1 DEF RunLaunch
  <2>2. ASSUME NEW p, NEW sb,
               req' = [req EXCEPT ![c].pc = "run.put", ![c].new = p, ![c].sb = sb]
        PROVE  Others(c)
    BY <2>2, LaunchMoves
  <2> QED BY <2>1, <2>2, MoveFacts
<1>2. CASE RestartLaunch(c)
  <2>1. \/ \E p, sb : req' = [req EXCEPT ![c].pc = "restart.put", ![c].new = p, ![c].sb = sb]
        \/ \E s : req' = [req EXCEPT ![c].pc = "restart.crashed", ![c].sb.state = s]
    BY <1>2 DEF RestartLaunch
  <2>2. ASSUME NEW p, NEW sb,
               req' = [req EXCEPT ![c].pc = "restart.put", ![c].new = p, ![c].sb = sb]
        PROVE  Others(c)
    BY <2>2, LaunchMoves
  <2>3. ASSUME NEW s, req' = [req EXCEPT ![c].pc = "restart.crashed", ![c].sb.state = s]
        PROVE  Others(c)
    <3>1. Moves(c, "restart.crashed")
      BY <2>3, NoteMoves
    <3> QED BY <3>1 DEF Moves
  <2> QED BY <2>1, <2>2, <2>3
<1>3. CASE ~RunLaunch(c) /\ ~RestartLaunch(c)
  BY <1>3, StepOnwards DEF Onwards
<1> QED BY <1>1, <1>2, <1>3

(* The steps of a request but the three that hand over a process. *)
LEMMA StepTables ==
  ASSUME Types, NEW c \in Client, RequestStep(c) \/ SessionEnd(c),
         ~RunSetHandle(c), ~RunWatch(c), ~RestartWatch(c)
  PROVE  /\ UNCHANGED watch /\ ~Starts(c)
         /\ UNCHANGED tableVars \/ (req[c].key \in Key /\ clearHandle(req[c].key))
<1>1. UNCHANGED watch
  BY StepKeeps DEF RequestStep
<1>2. CASE RestartClear(c) \/ StopClear(c)
  <2>1. At(c, "restart.clear") \/ At(c, "stop.clear")
    BY <1>2 DEF RestartClear, StopClear
  <2>2. req[c].key \in Key /\ ~Starts(c)
    BY <2>1, AtOK DEF NoKeyPcs, Starts
  <2> QED BY <1>1, <1>2, <2>2 DEF RestartClear, StopClear
<1>3. CASE ~RestartClear(c) /\ ~StopClear(c)
  <2>1. UNCHANGED tableVars
    BY <1>3 DEF RequestStep, SessionEnd,
         RunLaunch, RunPut, RunUndo, UpdatePut, UpdateProxy, ReloadHandle, ReloadPut,
         RestartHandle, RestartKill, RestartLaunch, RestartCrashed, RestartPut, RestartProxy,
         StopPut, StopHandle, StopKill, DeleteStore, MergePut,
         AttachTry, AttachHandle, AttachDial, AttachDetach
  <2>2. ~Starts(c)
    BY <1>3 DEF RequestStep, SessionEnd, At, Starts,
         RunLaunch, RunPut, RunUndo, UpdatePut, UpdateProxy, ReloadHandle, ReloadPut,
         RestartHandle, RestartKill, RestartLaunch, RestartCrashed, RestartPut, RestartProxy,
         StopPut, StopHandle, StopKill, DeleteStore, MergePut,
         AttachTry, AttachHandle, AttachDial, AttachDetach
  <2> QED BY <1>1, <2>1, <2>2
<1> QED BY <1>2, <1>3

LEMMA RequestWatched ==
  ASSUME Types, CopiesOK, Newborn, HandleWatched, NEW c \in Client, "delete" \notin Ops,
         RequestBegin(c) \/ RequestStep(c) \/ SessionEnd(c)
  PROVE  HandleWatched'
<1> SUFFICES ASSUME NEW k \in Key, handles'[k] # None PROVE InCharge(k, handles[k])'
  BY DEF HandleWatched
<1>1. CASE RequestBegin(c)
  BY <1>1, BeginOnwards, StayInCharge DEF Others, Starts, Attends
<1>2. CASE RunSetHandle(c)
  <2>1. At(c, "run.sethandle") /\ UNCHANGED watch
    BY <1>2 DEF RunSetHandle
  <2>2. PICK l, p : l = req[c].key /\ p = req[c].new
    OBVIOUS
  <2>3. l \in Key /\ setHandle(l, p) /\ ~Starts(c)
    BY <1>2, <2>1, <2>2, AtOK DEF RunSetHandle, NoKeyPcs, Starts
  <2>4. CASE k = l
    <3>1. req' = [req EXCEPT ![c].pc = "run.watch", ![c].epoch = epoch'[l]]
      BY <1>2, <2>2 DEF RunSetHandle
    <3>2. /\ req'[c].pc = "run.watch" /\ req'[c].epoch = epoch'[l]
          /\ req'[c].key = l /\ req'[c].new = p
      BY <2>2, <3>1 DEF Types, ReqsOK, ReqType
    <3>3. handles'[k] = p
      BY <2>3, <2>4, SetHandleFacts
    <3> QED BY <2>4, <3>2, <3>3 DEF InCharge
  <2>5. CASE k # l
    <3>1. handles'[k] = handles[k] /\ epoch'[k] = epoch[k]
      BY <2>3, <2>5, SetHandleFacts
    <3>2. Others(c)
      BY <1>2, StepOthers DEF RequestStep
    <3> QED BY <2>1, <2>3, <3>1, <3>2, StayInCharge DEF Others, Starts, Attends
  <2> QED BY <2>4, <2>5
<1>3. CASE RunWatch(c)
  <2>1. PICK l, p, w : l = req[c].key /\ p = req[c].new /\ w = Watching(l, req[c].epoch)
    OBVIOUS
  <2>2. /\ At(c, "run.watch") /\ UNCHANGED tableVars
        /\ watch' = [watch EXCEPT ![p] = w]
    BY <1>3, <2>1 DEF RunWatch
  <2>3. p \in Process /\ w.pc = "wait" /\ w.key = l /\ w.epoch = req[c].epoch
    BY <2>1, <2>2, AtOK DEF NewPcs, Watching, NoWatch
  <2>4. watch'[p] = w /\ \A q \in Process \ {p} : watch'[q] = watch[q]
    BY <2>2, <2>3 DEF Types, WatchesOK
  <2>5. handles'[k] = handles[k] /\ epoch'[k] = epoch[k] /\ handles[k] \in Process
    BY <2>2, SetHandleFacts, HandleProcess
  <2>6. Others(c)
    BY <1>3, StepOthers DEF RequestStep
  <2>7. CASE handles[k] = p
    <3>1. Brings(c, p)
      BY <2>1, <2>2 DEF At, Brings, NewPcs
    <3>2. ~Waits(p) /\ \A d \in Client : Brings(d, p) => d = c
      BY <2>3, <3>1 DEF Newborn
    <3>3. PICK d \in Client : /\ req[d].pc = "run.watch" /\ req[d].key = k
                              /\ req[d].new = p /\ req[d].epoch = epoch[k]
      BY <2>5, <2>7, <3>2 DEF HandleWatched, InCharge, Waits
    <3>4. d = c
      BY <3>2, <3>3 DEF Brings, NewPcs
    <3> QED BY <2>1, <2>3, <2>4, <2>5, <2>7, <3>3, <3>4 DEF InCharge
  <2>8. CASE handles[k] # p
    BY <2>1, <2>4, <2>5, <2>6, <2>8, StayInCharge DEF Others, Starts, Attends
  <2> QED BY <2>7, <2>8
<1>4. CASE RestartWatch(c)
  <2>1. PICK l, p, w : l = req[c].key /\ p = req[c].new /\ w = Watching(l, epoch'[l])
    OBVIOUS
  <2>2. /\ At(c, "restart.watch") /\ setHandle(l, p)
        /\ watch' = [watch EXCEPT ![p] = w]
    BY <1>4, <2>1 DEF RestartWatch
  <2>3. /\ l \in Key /\ p \in Process /\ ~Starts(c)
        /\ w.pc = "wait" /\ w.key = l /\ w.epoch = epoch'[l]
    BY <2>1, <2>2, AtOK DEF NewPcs, NoKeyPcs, Watching, NoWatch, Starts
  <2>4. watch'[p] = w /\ \A q \in Process \ {p} : watch'[q] = watch[q]
    BY <2>2, <2>3 DEF Types, WatchesOK
  <2>5. CASE k = l
    <3>1. handles'[k] = p
      BY <2>2, <2>3, <2>5, SetHandleFacts
    <3> QED BY <2>3, <2>4, <2>5, <3>1 DEF InCharge
  <2>6. CASE k # l
    <3>1. handles'[k] = handles[k] /\ epoch'[k] = epoch[k] /\ handles[k] \in Process
      BY <2>2, <2>3, <2>6, SetHandleFacts, HandleProcess
    <3>2. handles[k] # p
      BY <2>1, <2>2, <2>6, <3>1 DEF At, NewPcs, CopiesOK, HandleCopies, ReqCopies, ReqCopy
    <3>3. Others(c)
      BY <1>4, StepOthers DEF RequestStep
    <3> QED BY <2>3, <2>4, <3>1, <3>2, <3>3, StayInCharge DEF Others, Attends
  <2> QED BY <2>5, <2>6
<1>5. CASE /\ RequestStep(c) \/ SessionEnd(c)
           /\ ~RunSetHandle(c) /\ ~RunWatch(c) /\ ~RestartWatch(c)
  <2>1. /\ UNCHANGED watch /\ ~Starts(c)
        /\ UNCHANGED tableVars \/ (req[c].key \in Key /\ clearHandle(req[c].key))
    BY <1>5, StepTables
  <2>2. handles'[k] = handles[k] /\ epoch'[k] = epoch[k]
    BY <2>1, SetHandleFacts
  <2>3. Others(c)
    BY <1>5, StepOthers
  <2> QED BY <2>1, <2>2, <2>3, StayInCharge DEF Others, Attends
<1> QED BY <1>1, <1>2, <1>3, <1>4, <1>5

(* What the loop in charge does, it does in charge; a loop that has lost its
   key's epoch, or has only its last Put to make, lets go of nothing. *)
LEMMA WatchAttends ==
  ASSUME Types, Known, NEW p \in Process, WatchStep(p), ~WatchSetHandle(p),
         UNCHANGED tableVars, watch[p].epoch = epoch[watch[p].key]
  PROVE  Attends(p)
<1>0. watch = [q \in Process |-> watch[q]] /\ watch[p] \in WatchType
  BY DEF Types, WatchesOK
<1>1. ASSUME NEW pc \in WatchPcs \ {"none", "final"}, WGoto(p, pc)
      PROVE  Attends(p)
  BY <1>0, <1>1 DEF WGoto, Attends, WatchType
<1>2. ASSUME NEW x, \/ watch' = [watch EXCEPT ![p].pc = "restarting", ![p].sb = x]
                    \/ watch' = [watch EXCEPT ![p].pc = "clear", ![p].sb = x]
                    \/ watch' = [watch EXCEPT ![p].pc = "crashed", ![p].sb.state = x]
      PROVE  Attends(p)
  BY <1>0, <1>2 DEF Attends, WatchType
<1>3. ASSUME NEW q, NEW x,
             watch' = [watch EXCEPT ![p].pc = "running", ![p].new = q, ![p].sb = x]
      PROVE  Attends(p)
  BY <1>0, <1>3 DEF Attends, WatchType
<1>4. CASE WatchExit(p)
  <2>1. WGoto(p, "get")
    BY <1>4 DEF WatchExit
  <2> QED BY <1>1, <2>1 DEF WatchPcs
<1>5. CASE WatchGet(p)
  <2>1. store[watch[p].key] # None
    BY <1>5 DEF Known, WatchGet, WAt, Waits
  <2>2. \/ \E sb : watch' = [watch EXCEPT ![p].pc = "restarting", ![p].sb = sb]
        \/ \E sb : watch' = [watch EXCEPT ![p].pc = "clear", ![p].sb = sb]
    BY <1>5, <2>1 DEF WatchGet
  <2> QED BY <1>2, <2>2
<1>6. CASE WatchRelaunch(p)
  <2>1. \/ \E q, sb : watch' = [watch EXCEPT ![p].pc = "running", ![p].new = q, ![p].sb = sb]
        \/ \E s : watch' = [watch EXCEPT ![p].pc = "crashed", ![p].sb.state = s]
    BY <1>6 DEF WatchRelaunch
  <2> QED BY <1>2, <1>3, <2>1
<1>7. CASE WatchRestarting(p) \/ WatchCrashed(p) \/ WatchRunning(p)
  <2>1. WGoto(p, "backoff") \/ WGoto(p, "crashed.clear") \/ WGoto(p, "sethandle")
    BY <1>7 DEF WatchRestarting, WatchCrashed, WatchRunning
  <2> QED BY <1>1, <2>1 DEF WatchPcs
<1>8. CASE WatchCrashedClear(p) \/ WatchClear(p)
  <2>1. clearHandle(watch[p].key) /\ watch[p].key \in Key
    <3>1. WAt(p, "crashed.clear") \/ WAt(p, "clear")
      BY <1>8 DEF WatchCrashedClear, WatchClear
    <3> QED BY <1>8, <3>1, WAtOK DEF WatchCrashedClear, WatchClear
  <2>2. epoch'[watch[p].key] # epoch[watch[p].key]
    BY <2>1 DEF clearHandle, setHandle, Types, TableOK
  <2> QED BY <2>2 DEF tableVars
<1>9. CASE WatchFinal(p)
  BY <1>9 DEF WatchFinal, WatchPut, WAt, Attends
<1> QED BY <1>4, <1>5, <1>6, <1>7, <1>8, <1>9 DEF WatchStep

LEMMA WatchWatched ==
  ASSUME Types, CopiesOK, Newborn, Known, HandleWatched, NEW p \in Process, WatchStep(p)
  PROVE  HandleWatched'
<1> SUFFICES ASSUME NEW k \in Key, handles'[k] # None PROVE InCharge(k, handles[k])'
  BY DEF HandleWatched
<1>1. CASE WatchSetHandle(p)
  <2>1. PICK l, q, w : l = watch[p].key /\ q = watch[p].new /\ w = Watching(l, epoch'[l])
    OBVIOUS
  <2>2. /\ WAt(p, "sethandle") /\ setHandle(l, q) /\ UNCHANGED req
        /\ watch' = [watch EXCEPT ![p] = NoWatch, ![q] = w]
    BY <1>1, <2>1 DEF WatchSetHandle, WAt
  <2>3. /\ l \in Key /\ q \in Process
        /\ w.pc = "wait" /\ w.key = l /\ w.epoch = epoch'[l]
    BY <2>1, <2>2, WAtOK DEF HeirPcs, Watching, NoWatch
  <2>4. watch'[q] = w /\ \A x \in Process \ {p, q} : watch'[x] = watch[x]
    BY <2>2, <2>3 DEF Types, WatchesOK
  <2>5. CASE k = l
    <3>1. handles'[k] = q
      BY <2>2, <2>3, <2>5, SetHandleFacts
    <3> QED BY <2>3, <2>4, <2>5, <3>1 DEF InCharge
  <2>6. CASE k # l
    <3>1. handles'[k] = handles[k] /\ epoch'[k] = epoch[k] /\ handles[k] \in Process
      BY <2>2, <2>3, <2>6, SetHandleFacts, HandleProcess
    <3>2. proc[handles[k]].key = k /\ proc[p].key = l /\ proc[q].key = l
      BY <2>1, <2>2, <3>1 DEF WAt, HeirPcs, CopiesOK, HandleCopies, WatchCopies, WatchCopy
    <3>3. handles[k] # p /\ handles[k] # q
      BY <2>6, <3>2
    <3> QED BY <2>2, <2>4, <3>1, <3>3, StayInCharge DEF Attends
  <2> QED BY <2>5, <2>6
<1>2. CASE ~WatchSetHandle(p)
  <2>1. PICK l : l = watch[p].key
    OBVIOUS
  <2>2. /\ UNCHANGED req /\ Waits(p) /\ \A q \in Process \ {p} : watch'[q] = watch[q]
        /\ UNCHANGED tableVars \/ clearHandle(l)
    BY <1>2, <2>1, WatchKeeps, WatchOnwards
  <2>3. l \in Key /\ proc[p].key = l
    BY <2>1, <2>2 DEF Waits, Types, WatchesOK, WatchOK, CopiesOK, WatchCopies, WatchCopy
  <2>4. handles'[k] = handles[k] /\ epoch'[k] = epoch[k] /\ handles[k] \in Process
    BY <2>2, <2>3, SetHandleFacts, HandleProcess
  <2>5. CASE handles[k] # p
    BY <2>2, <2>4, <2>5, StayInCharge DEF Attends
  <2>6. CASE handles[k] = p
    <3>1. k = l
      BY <2>3, <2>4, <2>6 DEF CopiesOK, HandleCopies
    <3>2. UNCHANGED tableVars
      BY <2>2, <2>3, <3>1, SetHandleFacts
    <3>3. CASE watch[p].epoch = epoch[l]
      BY <1>2, <2>1, <2>2, <2>4, <2>6, <3>2, <3>3, WatchAttends, StayInCharge
    <3>4. CASE watch[p].epoch # epoch[l]
      <4>1. PICK c \in Client : /\ req[c].pc = "run.watch" /\ req[c].key = k
                                /\ req[c].new = p /\ req[c].epoch = epoch[k]
        BY <2>4, <2>6, <3>1, <3>4 DEF HandleWatched, InCharge
      <4> QED BY <2>2, <2>4, <2>6, <4>1 DEF InCharge
    <3> QED BY <3>3, <3>4
  <2> QED BY <2>5, <2>6
<1> QED BY <1>1, <1>2

LEMMA WorldWatched ==
  ASSUME Types, HandleWatched,
         \/ \E p \in Process : Exit(p)
         \/ Crash \/ StartLoad \/ StartReattach \/ Serve
         \/ \E k \in Key : Reconcile(k)
         \/ UNCHANGED vars
  PROVE  HandleWatched'
<1>1. CASE Crash
  BY <1>1 DEF Crash, HandleWatched
<1>2. CASE ~Crash
  <2>1. UNCHANGED <<handles, epoch, req, watch>>
    BY <1>2 DEF Exit, StartLoad, StartReattach, Serve, Reconcile, vars, tableVars
  <2> QED BY <2>1 DEF HandleWatched, InCharge
<1> QED BY <1>1, <1>2

LEMMA ReattachWatched ==
  ASSUME Types, CopiesOK, HandleWatched, NEW k \in Key, store[k] # None, Reattach(k)
  PROVE  HandleWatched'
<1> SUFFICES ASSUME NEW l \in Key, handles'[l] # None PROVE InCharge(l, handles[l])'
  BY DEF HandleWatched
<1>1. PICK p, w : p = store[k].pid /\ w = Watching(k, epoch'[k])
  OBVIOUS
<1>2. p \in Process /\ proc[p].key = k /\ UNCHANGED req
  BY <1>1 DEF Reattach, CopiesOK, StoreCopies, Of
<1>3. CASE Alive(p)
  <2>1. setHandle(k, p) /\ watch' = [watch EXCEPT ![p] = w]
    BY <1>1, <1>3 DEF Reattach
  <2>2. w.pc = "wait" /\ w.key = k /\ w.epoch = epoch'[k]
    BY <1>1 DEF Watching, NoWatch
  <2>3. watch'[p] = w /\ \A q \in Process \ {p} : watch'[q] = watch[q]
    BY <1>2, <2>1 DEF Types, WatchesOK
  <2>4. CASE l = k
    <3>1. handles'[l] = p
      BY <2>1, <2>4, SetHandleFacts
    <3> QED BY <2>2, <2>3, <2>4, <3>1 DEF InCharge
  <2>5. CASE l # k
    <3>1. handles'[l] = handles[l] /\ epoch'[l] = epoch[l] /\ handles[l] \in Process
      BY <2>1, <2>5, SetHandleFacts, HandleProcess
    <3>2. handles[l] # p
      BY <1>2, <2>5, <3>1 DEF CopiesOK, HandleCopies
    <3> QED BY <1>2, <2>3, <3>1, <3>2, StayInCharge DEF Attends
  <2> QED BY <2>4, <2>5
<1>4. CASE ~Alive(p)
  <2>1. UNCHANGED <<handles, epoch, req, watch>>
    BY <1>1, <1>2, <1>4 DEF Reattach, tableVars
  <2> QED BY <2>1 DEF HandleWatched, InCharge
<1> QED BY <1>3, <1>4

LEMMA InitNoDelete == Init => InvNoDelete
<1> SUFFICES ASSUME Init PROVE InvNoDelete
  OBVIOUS
<1>1. \A p \in Process : ~Waits(p) /\ watch[p].pc = "none"
  BY DEF Init, Waits, NoWatch
<1>2. \A c \in Client : req[c].pc = "idle"
  BY DEF Init, IdleReq
<1>3. \A k \in Key : handles[k] = None
  BY DEF Init
<1>4. Newborn /\ Known
  BY <1>1, <1>2 DEF Newborn, Known, Brings, Relaunches, NewPcs, HeirPcs, KnownPcs, SbPcs
<1> QED BY <1>3, <1>4, InitIInv DEF InvNoDelete, HandleWatched

LEMMA NextNoDelete ==
  ASSUME InvNoDelete, IInv', "delete" \notin Ops, [Next]_vars
  PROVE  InvNoDelete'
<1>1. Types /\ CopiesOK /\ StartInv /\ Newborn /\ Known /\ HandleWatched
  BY DEF InvNoDelete, IInv
<1> SUFFICES Newborn' /\ Known' /\ HandleWatched'
  BY DEF InvNoDelete
<1>2. ASSUME NEW c \in Client, RequestBegin(c) \/ RequestStep(c) \/ SessionEnd(c)
      PROVE  Newborn' /\ Known' /\ HandleWatched'
  BY <1>1, <1>2, RequestNewborn, RequestKnown, RequestWatched
<1>3. ASSUME NEW p \in Process, WatchStep(p)
      PROVE  Newborn' /\ Known' /\ HandleWatched'
  BY <1>1, <1>3, WatchNewborn, WatchKnown, WatchWatched
<1>4. ASSUME NEW k \in Key, Reattach(k)
      PROVE  Newborn' /\ Known' /\ HandleWatched'
  <2>1. store[k] # None
    BY <1>1, <1>4 DEF StartInv, Reattach
  <2> QED BY <1>1, <1>4, <2>1, ReattachNewborn, ReattachKnown, ReattachWatched
<1>5. CASE \/ \E p \in Process : Exit(p)
           \/ Crash \/ StartLoad \/ StartReattach \/ Serve
           \/ \E k \in Key : Reconcile(k)
           \/ UNCHANGED vars
  BY <1>1, <1>5, WorldNewborn, WorldKnown, WorldWatched
<1> QED BY <1>2, <1>3, <1>4, <1>5 DEF Next, Startup

(* No handle goes unwatched where no request deletes: through every
   interleaving of Run, Restart, Stop, Update, the watchLoops and the restarts
   of murod, the process behind a registered handle has a goroutine of the
   current epoch (HandleWatched fails with Delete: a watchLoop whose record is
   gone returns and leaves its handle registered). *)
THEOREM HandlesWatched ==
  ASSUME "delete" \notin Ops
  PROVE  Spec => []HandleWatched
<1>1. IInv' /\ InvNoDelete /\ [Next]_vars => InvNoDelete'
  BY NextNoDelete
<1>2. InvNoDelete => HandleWatched
  BY DEF InvNoDelete
<1> QED BY Invariant, InitNoDelete, <1>1, <1>2, PTL DEF Spec

----------------------------------------------------------------------------
(* MountsShown.  No step changes the mounts of a process that was launched. *)

MountsKeep == \A p \in Process : proc[p].key \in Key => proc'[p].mounts = proc[p].mounts

LEMMA ProcessMounts ==
  ASSUME Types, \/ UNCHANGED proc
                \/ \E p \in Process : Alive(p) /\ \E st : proc' = [proc EXCEPT ![p].st = st]
                \/ \E p \in Process, k \in Key, sb \in Record : Launch(p, k, sb)
  PROVE  MountsKeep
<1>1. proc = [p \in Process |-> proc[p]] /\ \A p \in Process : proc[p] \in ProcType
  BY DEF Types, ProcOK
<1>2. ASSUME NEW p \in Process, NEW st, proc' = [proc EXCEPT ![p].st = st]
      PROVE  MountsKeep
  BY <1>1, <1>2 DEF MountsKeep, ProcType
<1>3. ASSUME NEW p \in Process, NEW k \in Key, NEW sb \in Record, Launch(p, k, sb)
      PROVE  MountsKeep
  BY <1>1, <1>3, ConstantsAssumption DEF Launch, Unborn, MountsKeep
<1> QED BY <1>2, <1>3 DEF MountsKeep

LEMMA StepMounts ==
  ASSUME Types, NEW c \in Client, RequestStep(c) \/ SessionEnd(c)
  PROVE  MountsKeep
<1>1. CASE RunLaunch(c)
  <2>1. At(c, "run.launch")
    BY <1>1 DEF RunLaunch
  <2>2. req[c].key \in Key /\ req[c].sb \in Record
    BY <2>1, AtOK DEF NoKeyPcs, SbPcs
  <2> QED BY <1>1, <2>2, ProcessMounts DEF RunLaunch
<1>2. CASE RestartLaunch(c)
  <2>1. At(c, "restart.launch")
    BY <1>2 DEF RestartLaunch
  <2>2. req[c].key \in Key /\ req[c].sb \in Record
    BY <2>1, AtOK DEF NoKeyPcs, SbPcs
  <2> QED BY <1>2, <2>2, ProcessMounts DEF RestartLaunch
<1>3. CASE RunUndo(c)
  <2>1. req[c].new \in Process
    BY <1>3, AtOK DEF RunUndo, NewPcs
  <2> QED BY <1>3, <2>1, ProcessMounts DEF RunUndo, Kill
<1>4. CASE RestartKill(c) \/ StopKill(c)
  <2>1. req[c].old \in Process
    BY <1>4, AtOK DEF RestartKill, StopKill, OldPcs
  <2> QED BY <1>4, <2>1, ProcessMounts DEF RestartKill, StopKill, Kill
<1>5. CASE ~RunLaunch(c) /\ ~RestartLaunch(c) /\ ~RunUndo(c) /\ ~RestartKill(c) /\ ~StopKill(c)
  <2>1. UNCHANGED proc
    BY <1>5 DEF RequestStep, SessionEnd,
         RunPut, RunSetHandle, RunWatch, UpdatePut, UpdateProxy, ReloadHandle, ReloadPut,
         RestartHandle, RestartClear, RestartCrashed, RestartPut, RestartProxy, RestartWatch,
         StopPut, StopHandle, StopClear, DeleteStore, MergePut,
         AttachTry, AttachHandle, AttachDial, AttachDetach
  <2> QED BY <2>1, ProcessMounts
<1> QED BY <1>1, <1>2, <1>3, <1>4, <1>5

(* So what fits goes on to fit. *)
LEMMA ShowsKept ==
  ASSUME MountsKeep, NEW k \in Key, NEW sb, Of(sb, k), Shows(sb)
  PROVE  Shows(sb)'
  BY DEF MountsKeep, Of, Shows

LEMMA FitsKept ==
  ASSUME MountsKeep, NEW k \in Key, NEW sb, sb # None => Of(sb, k), Fits(sb)
  PROVE  Fits(sb)'
  BY ShowsKept DEF Fits, Based

LEMMA RequestFits ==
  ASSUME MountsKeep, NEW r, ReqOK(r), ReqCopy(r), ReqFits(r)
  PROVE  ReqFits(r)'
<1>1. r.pc \in SbPcs \ AheadPcs => Shows(r.sb)'
  BY ShowsKept DEF ReqFits, ReqOK, ReqCopy, SbPcs, NoKeyPcs, AheadPcs
<1>2. r.pc \in UpdatePcs => \A k \in Key : Fits(r.todo[k])'
  BY FitsKept DEF ReqFits, ReqCopy
<1> QED BY <1>1, <1>2 DEF ReqFits, Based

LEMMA LoopFits ==
  ASSUME MountsKeep, NEW p \in Process, NEW w, WatchOK(w), WatchCopy(p, w), WatchFits(w)
  PROVE  WatchFits(w)'
  BY FitsKept DEF WatchFits, WatchOK, WatchCopy, CopyPcs

LEMMA MountsFrame ==
  ASSUME Types, CopiesOK, MountsInv, MountsKeep,
         \A k \in Key : store'[k] \in {store[k], disk[k]} \/ Fits(store[k])',
         UNCHANGED disk \/ disk' = store',
         \A c \in Client : req'[c] = req[c] \/ ReqFits(req[c])',
         \A p \in Process : watch'[p] = watch[p] \/ WatchFits(watch[p])'
  PROVE  MountsInv'
<1>1. \A k \in Key : Fits(store[k])' /\ Fits(disk[k])'
  <2> SUFFICES ASSUME NEW k \in Key PROVE Fits(store[k])' /\ Fits(disk[k])'
    OBVIOUS
  <2>1. /\ \A sb : sb = store[k] => Fits(sb)'
        /\ \A sb : sb = disk[k] => Fits(sb)'
    BY FitsKept DEF MountsInv, CopiesOK, StoreCopies
  <2> QED BY <2>1 DEF Fits, Based, Shows
<1>2. \A c \in Client : ReqFits(req[c])'
  <2> SUFFICES ASSUME NEW c \in Client, req'[c] = req[c] PROVE ReqFits(req[c])'
    OBVIOUS
  <2>1. \A r : r = req[c] => ReqFits(r)'
    BY RequestFits DEF MountsInv, CopiesOK, ReqCopies, Types, ReqsOK
  <2> QED BY <2>1 DEF ReqFits, Based, Shows, Fits
<1>3. \A p \in Process : WatchFits(watch[p])'
  <2> SUFFICES ASSUME NEW p \in Process, watch'[p] = watch[p] PROVE WatchFits(watch[p])'
    OBVIOUS
  <2>1. \A w : w = watch[p] => WatchFits(w)'
    BY LoopFits DEF MountsInv, CopiesOK, WatchCopies, Types, WatchesOK
  <2> QED BY <2>1 DEF WatchFits, Based, Shows, Fits
<1> QED BY <1>1, <1>2, <1>3 DEF MountsInv

(* A request that goes on with the record it has. *)
Carries(c, pc) == /\ Others(c) /\ req'[c].pc = pc
                  /\ req'[c].sb = req[c].sb /\ req'[c].todo = req[c].todo

LEMMA CarryFacts ==
  ASSUME Types, NEW c \in Client, NEW pc, NEW x, NEW y,
         \/ Goto(c, pc)
         \/ req' = [req EXCEPT ![c].pc = pc, ![c].old = x]
         \/ req' = [req EXCEPT ![c].pc = pc, ![c].epoch = x]
         \/ req' = [req EXCEPT ![c].pc = pc, ![c].key = x]
  PROVE  Carries(c, pc)
<1>1. req = [d \in Client |-> req[d]] /\ req[c] \in ReqType
  BY DEF Types, ReqsOK
<1>2. CASE Goto(c, pc)
  BY <1>1, <1>2 DEF Goto, Carries, Others, ReqType
<1>3. CASE req' = [req EXCEPT ![c].pc = pc, ![c].old = x]
  BY <1>1, <1>3 DEF Carries, Others, ReqType
<1>4. CASE req' = [req EXCEPT ![c].pc = pc, ![c].epoch = x]
  BY <1>1, <1>4 DEF Carries, Others, ReqType
<1>5. CASE req' = [req EXCEPT ![c].pc = pc, ![c].key = x]
  BY <1>1, <1>5 DEF Carries, Others, ReqType
<1> QED BY <1>2, <1>3, <1>4, <1>5

(* A record that fits after the step. *)
WillFit(sb) == sb # None => /\ Based(sb)
                            /\ sb.state = "running" => proc'[sb.pid].mounts = sb.mounts

LEMMA StillFits ==
  ASSUME Types, CopiesOK, MountsInv, MountsKeep, NEW c \in Client
  PROVE  /\ req[c].pc \in SbPcs \ AheadPcs => WillFit(req[c].sb)
         /\ req[c].pc \in UpdatePcs => \A k \in Key : WillFit(req[c].todo[k])
<1>1. ReqFits(req[c]) /\ ReqCopy(req[c]) /\ ReqOK(req[c])
  BY DEF MountsInv, CopiesOK, ReqCopies, Types, ReqsOK
<1>2. ASSUME NEW k \in Key, NEW sb, sb # None => Of(sb, k), Fits(sb) PROVE WillFit(sb)
  BY <1>2, FitsKept DEF Fits, Based, Shows, WillFit
<1>3. req[c].pc \in SbPcs \ AheadPcs => WillFit(req[c].sb)
  BY <1>1, <1>2 DEF ReqFits, ReqCopy, ReqOK, Fits, SbPcs, NoKeyPcs, AheadPcs
<1> QED BY <1>1, <1>2, <1>3 DEF ReqFits, ReqCopy

LEMMA CarryFits ==
  ASSUME Types, CopiesOK, MountsInv, MountsKeep, NEW c \in Client, NEW pc, Carries(c, pc),
         pc # "reload.handle",
         pc \in SbPcs => req[c].pc \in SbPcs,
         pc \in SbPcs \ AheadPcs => req[c].pc \notin AheadPcs,
         pc \in UpdatePcs => req[c].pc \in UpdatePcs
  PROVE  ReqFits(req[c])'
<1>1. ReqFits(req[c])
  BY DEF MountsInv
<1>2. /\ req[c].pc \in SbPcs \ AheadPcs => WillFit(req[c].sb)
      /\ req[c].pc \in UpdatePcs => \A k \in Key : WillFit(req[c].todo[k])
  BY StillFits
<1>3. pc \in SbPcs \ AheadPcs => Shows(req[c].sb)'
  <2>1. pc \in SbPcs \ AheadPcs => req[c].sb # None
    BY ConstantsAssumption DEF Types, ReqsOK, ReqOK
  <2> QED BY <1>2, <2>1 DEF Carries, WillFit, Shows
<1>4. pc \in UpdatePcs => \A k \in Key : Fits(req[c].todo[k])'
  BY <1>2 DEF Carries, WillFit, Fits, Based, Shows
<1> QED BY <1>1, <1>3, <1>4 DEF Carries, ReqFits, Based

LEMMA DoneFits ==
  ASSUME Types, NEW c \in Client, Done(c)
  PROVE  ReqFits(req[c])'
  BY MoveFacts DEF ReqFits, SbPcs, UpdatePcs

LEMMA SetFits ==
  ASSUME Types, NEW k, NEW sb, Set(k, sb), WillFit(sb)
  PROVE  \A l \in Key : store'[l] \in {store[l], disk[l]} \/ Fits(store[l])'
<1>1. \A l \in Key : store'[l] = store[l] \/ store'[l] = sb
  BY DEF Types, StoreOK, Set
<1> QED BY <1>1 DEF WillFit, Fits, Based, Shows

LEMMA StepPuts ==
  ASSUME Types, CopiesOK, MountsInv, NEW c \in Client, RequestStep(c) \/ SessionEnd(c)
  PROVE  /\ \A l \in Key : store'[l] \in {store[l], disk[l]} \/ Fits(store[l])'
         /\ UNCHANGED disk \/ disk' = store'
<1> USE StepMounts
<1>1. CASE RunPut(c) \/ ReloadPut(c) \/ RestartCrashed(c) \/ RestartPut(c) \/ StopPut(c)
           \/ MergePut(c)
  <2>1. Set(req[c].key, req[c].sb) /\ (Persist \/ NotPersisted)
    BY <1>1 DEF RunPut, ReloadPut, RestartCrashed, RestartPut, StopPut, MergePut
  <2>2. req[c].pc \in SbPcs \ AheadPcs
    BY <1>1 DEF RunPut, ReloadPut, RestartCrashed, RestartPut, StopPut, MergePut,
                At, SbPcs, AheadPcs
  <2>3. WillFit(req[c].sb)
    BY <2>2, StillFits
  <2> QED BY <2>1, <2>3, SetFits DEF Persist, NotPersisted
<1>2. CASE DeleteStore(c)
  <2>1. WillFit(None)
    BY DEF WillFit
  <2> QED BY <1>2, <2>1, SetFits DEF DeleteStore, Persist, NotPersisted
<1>3. CASE UpdatePut(c)
  <2>1. PICK k \in Key : Set(k, req[c].todo[k]) /\ (Persist \/ NotPersisted)
    BY <1>3 DEF UpdatePut
  <2>2. WillFit(req[c].todo[k])
    BY <1>3, StillFits DEF UpdatePut, At, UpdatePcs
  <2> QED BY <2>1, <2>2, SetFits DEF Persist, NotPersisted
<1>4. CASE ~RunPut(c) /\ ~ReloadPut(c) /\ ~RestartCrashed(c) /\ ~RestartPut(c) /\ ~StopPut(c)
           /\ ~MergePut(c) /\ ~DeleteStore(c) /\ ~UpdatePut(c)
  <2>1. UNCHANGED storeVars
    BY <1>4 DEF RequestStep, SessionEnd, RunLaunch, RunUndo, RunSetHandle, RunWatch,
         UpdateProxy, ReloadHandle, RestartHandle, RestartClear, RestartKill,
         RestartLaunch, RestartProxy, RestartWatch, StopHandle, StopClear, StopKill,
         AttachTry, AttachHandle, AttachDial, AttachDetach
  <2> QED BY <2>1 DEF storeVars
<1> QED BY <1>1, <1>2, <1>3, <1>4

(* A launch gives the process the mounts of the record, whatever that says. *)
LEMMA LaunchFits ==
  ASSUME Types, NEW p \in Process, NEW k \in Key, NEW sb \in Record, Launch(p, k, sb), Based(sb)
  PROVE  /\ WillFit(captureHandleInfo(sb, p))
         /\ \A s : WillFit([captureHandleInfo(sb, p) EXCEPT !.state = s])
<1>1. proc'[p].mounts = sb.mounts
  BY DEF Types, ProcOK, Launch
<1> QED BY <1>1 DEF WillFit, captureHandleInfo, Record, Based

LEMMA RunLaunchFits ==
  ASSUME Types, MountsInv, NEW c \in Client, RunLaunch(c)
  PROVE  ReqFits(req[c])'
<1>1. At(c, "run.launch")
  BY DEF RunLaunch
<1>2. req[c].key \in Key /\ req[c].sb \in Record /\ Based(req[c].sb)
  BY <1>1, AtOK DEF NoKeyPcs, SbPcs, MountsInv, ReqFits
<1>3. ASSUME NEW p \in Process, Launch(p, req[c].key, req[c].sb),
             req' = [req EXCEPT ![c].pc = "run.put", ![c].new = p,
                                ![c].sb = captureHandleInfo(req[c].sb, p)]
      PROVE  ReqFits(req[c])'
  <2>1. WillFit(captureHandleInfo(req[c].sb, p))
    BY <1>2, <1>3, LaunchFits
  <2>2. req'[c].sb = captureHandleInfo(req[c].sb, p) /\ req'[c].pc = "run.put"
    BY <1>3 DEF Types, ReqsOK, ReqType
  <2>3. captureHandleInfo(req[c].sb, p) # None
    BY <1>2, <1>3, ConstantsAssumption DEF captureHandleInfo, Record
  <2> QED BY <2>1, <2>2, <2>3 DEF WillFit, ReqFits, Based, Shows, SbPcs, AheadPcs, UpdatePcs
<1> QED BY <1>3, DoneFits DEF RunLaunch

LEMMA RestartLaunchFits ==
  ASSUME Types, MountsInv, NEW c \in Client, RestartLaunch(c)
  PROVE  ReqFits(req[c])'
<1>1. At(c, "restart.launch")
  BY DEF RestartLaunch
<1>2. req[c].key \in Key /\ req[c].sb \in Record /\ Based(req[c].sb)
  BY <1>1, AtOK DEF NoKeyPcs, SbPcs, MountsInv, ReqFits
<1>3. ASSUME NEW p \in Process, Launch(p, req[c].key, req[c].sb),
             req' = [req EXCEPT ![c].pc = "restart.put", ![c].new = p,
                       ![c].sb = [captureHandleInfo(req[c].sb, p) EXCEPT !.state = "running"]]
      PROVE  ReqFits(req[c])'
  <2> DEFINE sb == [captureHandleInfo(req[c].sb, p) EXCEPT !.state = "running"]
  <2>1. WillFit(sb)
    BY <1>2, <1>3, LaunchFits
  <2>2. req'[c].sb = sb /\ req'[c].pc = "restart.put"
    BY <1>3 DEF Types, ReqsOK, ReqType
  <2>3. sb # None
    BY <1>2, <1>3, ConstantsAssumption DEF captureHandleInfo, Record, States
  <2> HIDE DEF sb
  <2> QED BY <2>1, <2>2, <2>3 DEF WillFit, ReqFits, Based, Shows, SbPcs, AheadPcs, UpdatePcs
<1>4. ASSUME req' = [req EXCEPT ![c].pc = "restart.crashed", ![c].sb.state = "crashed"]
      PROVE  ReqFits(req[c])'
  <2>1. /\ req'[c].pc = "restart.crashed" /\ req'[c].sb.state = "crashed"
        /\ req'[c].sb.mounts = req[c].sb.mounts
    BY <1>2, <1>4 DEF Types, ReqsOK, ReqType, Record
  <2> QED BY <1>2, <2>1 DEF ReqFits, Based, Shows, SbPcs, AheadPcs, UpdatePcs
<1> QED BY <1>3, <1>4 DEF RestartLaunch

LEMMA ReloadHandleFits ==
  ASSUME Types, MountsInv, NEW c \in Client, ReloadHandle(c)
  PROVE  ReqFits(req[c])'
<1>1. At(c, "reload.handle")
  BY DEF ReloadHandle
<1>2. /\ req[c].sb \in Record /\ Based(req[c].sb)
      /\ req[c].sb.state = "reload-pending"
  BY <1>1, AtOK DEF SbPcs, MountsInv, ReqFits
<1>3. req[c].sb.mounts # {}
  BY <1>2 DEF Based
<1>4. CASE Done(c)
  BY <1>4, DoneFits
<1>5. CASE req' = [req EXCEPT ![c].pc = "reload.put",
                     ![c].sb.state = IF req[c].sb.mounts = {} THEN "running" ELSE @]
  <2>1. /\ req'[c].pc = "reload.put" /\ req'[c].sb.state = "reload-pending"
        /\ req'[c].sb.mounts = req[c].sb.mounts
    BY <1>2, <1>3, <1>5 DEF Types, ReqsOK, ReqType, Record
  <2> QED BY <1>2, <2>1 DEF ReqFits, Based, Shows, SbPcs, AheadPcs, UpdatePcs
<1> QED BY <1>4, <1>5 DEF ReloadHandle

LEMMA UpdateProxyFits ==
  ASSUME Types, CopiesOK, MountsInv, NEW c \in Client, UpdateProxy(c)
  PROVE  ReqFits(req[c])'
<1>1. CASE Done(c)
  BY <1>1, DoneFits
<1>2. CASE req' = [req EXCEPT ![c].pc = "update.put",
                     ![c].todo = [req[c].todo EXCEPT ![req[c].key] = None]]
  <2>1. req[c].pc = "update.proxy" /\ UNCHANGED proc
    BY DEF UpdateProxy, At
  <2>2. \A k \in Key : WillFit(req[c].todo[k])
    BY <2>1, ProcessMounts, StillFits DEF UpdatePcs
  <2>3. /\ req'[c].pc = "update.put"
        /\ \A k \in Key : req'[c].todo[k] \in {None, req[c].todo[k]}
    BY <1>2 DEF Types, ReqsOK, ReqType, Todo
  <2>4. \A k \in Key : Fits(req[c].todo[k])'
    BY <2>2, <2>3 DEF Fits, WillFit, Based, Shows
  <2> QED BY <2>3, <2>4 DEF ReqFits, SbPcs, UpdatePcs
<1> QED BY <1>1, <1>2 DEF UpdateProxy

LEMMA StepFits ==
  ASSUME Types, CopiesOK, MountsInv, NEW c \in Client, RequestStep(c) \/ SessionEnd(c)
  PROVE  ReqFits(req[c])'
<1>0. MountsKeep
  BY StepMounts
<1>1. CASE Done(c)
  BY <1>1, DoneFits
<1>2. CASE RunLaunch(c) \/ RestartLaunch(c) \/ ReloadHandle(c) \/ UpdateProxy(c)
  BY <1>2, RunLaunchFits, RestartLaunchFits, ReloadHandleFits, UpdateProxyFits
<1>3. CASE ~Done(c) /\ UpdatePut(c)
  <2>1. Carries(c, "update.proxy")
    BY <1>3, CarryFacts DEF UpdatePut
  <2> QED BY <1>0, <1>3, <2>1, CarryFits DEF UpdatePut, At, SbPcs, UpdatePcs
<1>4. CASE ~Done(c) /\ (RunPut(c) \/ RunSetHandle(c) \/ RestartPut(c) \/ RestartProxy(c))
  <2>1. \E pc \in {"run.sethandle", "run.undo", "run.watch", "restart.proxy", "restart.watch"} :
          Carries(c, pc)
    BY <1>4, CarryFacts DEF RunPut, RunSetHandle, RestartPut, RestartProxy
  <2>2. req[c].pc \in {"run.put", "run.sethandle", "restart.put", "restart.proxy"}
    BY <1>4 DEF RunPut, RunSetHandle, RestartPut, RestartProxy, At
  <2> QED BY <1>0, <2>1, <2>2, CarryFits DEF SbPcs, AheadPcs, UpdatePcs
<1>5. CASE ~Done(c) /\ (RestartHandle(c) \/ RestartClear(c) \/ RestartKill(c))
  <2>1. \E pc \in AheadPcs : Carries(c, pc)
    BY <1>5, CarryFacts DEF RestartHandle, RestartClear, RestartKill, AheadPcs
  <2>2. req[c].pc \in {"restart.handle", "restart.clear", "restart.kill"}
    BY <1>5 DEF RestartHandle, RestartClear, RestartKill, At
  <2> QED BY <1>0, <2>1, <2>2, CarryFits DEF SbPcs, AheadPcs, UpdatePcs
<1>6. CASE ~Done(c) /\ (StopPut(c) \/ StopHandle(c) \/ StopClear(c))
  <2>1. \E pc \in {"stop.handle", "stop.clear", "stop.kill"} : Carries(c, pc)
    BY <1>6, CarryFacts DEF StopPut, StopHandle, StopClear
  <2>2. req[c].pc \in {"stop.put", "stop.handle", "stop.clear"}
    BY <1>6 DEF StopPut, StopHandle, StopClear, At
  <2> QED BY <1>0, <2>1, <2>2, CarryFits DEF SbPcs, AheadPcs, UpdatePcs
<1>7. CASE ~Done(c) /\ (\/ AttachTry(c) \/ AttachHandle(c) \/ AttachDial(c)
                        \/ SessionEnd(c))
  <2>1. \E pc \in {"attach.handle", "attach.dial", "attached", "attach.detach"} : Carries(c, pc)
    BY <1>7, CarryFacts DEF AttachTry, AttachHandle, AttachDial, SessionEnd
  <2> QED BY <2>1 DEF Carries, ReqFits, SbPcs, UpdatePcs
<1> QED BY <1>1, <1>2, <1>3, <1>4, <1>5, <1>6, <1>7
        DEF RequestStep, RunUndo, RunWatch, ReloadPut, RestartCrashed, RestartWatch, StopKill,
            DeleteStore, MergePut, AttachDetach

LEMMA StepShown ==
  ASSUME Types, CopiesOK, MountsInv, NEW c \in Client, RequestStep(c) \/ SessionEnd(c)
  PROVE  MountsInv'
<1>1. MountsKeep /\ Others(c) /\ ReqFits(req[c])'
  BY StepMounts, StepOthers, StepFits
<1>2. \A p \in Process : watch'[p] = watch[p] \/ watch'[p].pc = "wait"
  <2>1. CASE RunWatch(c) \/ RestartWatch(c)
    <3>1. \E p, k, e : watch' = [watch EXCEPT ![p] = Watching(k, e)]
      BY <2>1 DEF RunWatch, RestartWatch
    <3> QED BY <3>1 DEF Types, WatchesOK, Watching, NoWatch
  <2>2. CASE ~RunWatch(c) /\ ~RestartWatch(c)
    <3>1. UNCHANGED watch
      BY <2>2 DEF RequestStep, SessionEnd, RunLaunch, RunPut, RunUndo, RunSetHandle,
         UpdatePut, UpdateProxy, ReloadHandle, ReloadPut, RestartHandle, RestartClear,
         RestartKill, RestartLaunch, RestartCrashed, RestartPut, RestartProxy,
         StopPut, StopHandle, StopClear, StopKill, DeleteStore, MergePut,
         AttachTry, AttachHandle, AttachDial, AttachDetach
    <3> QED BY <3>1
  <2> QED BY <2>1, <2>2
<1>3. \A p \in Process : watch'[p] = watch[p] \/ WatchFits(watch[p])'
  BY <1>2 DEF WatchFits, CopyPcs
<1> QED BY <1>1, <1>3, StepPuts, MountsFrame DEF Others

(* What a request begins with. *)
LEMMA OpenFits ==
  ASSUME Types, CopiesOK, MountsInv, UNCHANGED <<proc, storeVars, watch>>, NEW c \in Client,
         Others(c), ReqFits(req[c])'
  PROVE  MountsInv'
<1>1. MountsKeep
  BY ProcessMounts
<1> QED BY <1>1, MountsFrame DEF Others, storeVars

LEMMA OpenRecord ==
  ASSUME Types, NEW c \in Client, NEW k, NEW pc \in SbPcs, NEW sb, NEW arg, Based(sb),
         Open(c, pc, k, sb, arg),
         \/ pc \in AheadPcs
         \/ pc = "reload.handle" /\ sb.state = "reload-pending"
         \/ pc # "reload.handle" /\ WillFit(sb) /\ sb # None
  PROVE  Others(c) /\ ReqFits(req[c])'
<1>1. req'[c].pc = pc /\ req'[c].sb = sb /\ Others(c)
  BY DEF Types, ReqsOK, Open, Others, IdleReq
<1> QED BY <1>1 DEF WillFit, ReqFits, Based, Shows, SbPcs, AheadPcs, UpdatePcs

LEMMA StoredBased ==
  ASSUME Types, MountsInv, NEW k \in Key, store[k] # None
  PROVE  store[k] \in Record /\ Based(store[k])
  BY OrNoneElim DEF Types, StoreOK, MountsInv, Fits

LEMMA BeginShown ==
  ASSUME Mounted, Types, CopiesOK, MountsInv, NEW c \in Client, RequestBegin(c)
  PROVE  MountsInv'
<1>1. UNCHANGED <<proc, storeVars, watch>>
  BY DEF RequestBegin, UpdateBegin, RunCheck, ReloadGet, RestartGet, StopGet, DeleteGet,
         MergeGet, AttachGet
<1> SUFFICES Others(c) /\ ReqFits(req[c])'
  BY <1>1, OpenFits
<1>2. CASE UpdateBegin(c)
  <2>1. PICK d \in Delta,
             targets \in {{k} : k \in Key} \cup
                       {{k \in Key : store[k] # None /\ isActive(store[k].state)}} :
          /\ \A k \in targets : store[k] # None
          /\ req' = [req EXCEPT ![c] =
               [IdleReq EXCEPT !.pc = "update.put", !.arg = d,
                  !.todo = [k \in Key |-> IF k \in targets
                                          THEN Candidate(store[k], d) ELSE None]]]
    BY <1>2 DEF UpdateBegin
  <2>0. targets \subseteq Key
    OBVIOUS
  <2>2. /\ Others(c) /\ req'[c].pc = "update.put"
        /\ \A k \in Key : req'[c].todo[k] = IF k \in targets
                                            THEN Candidate(store[k], d) ELSE None
    BY <2>1 DEF Types, ReqsOK, Others, IdleReq
  <2>3. ASSUME NEW k \in targets
        PROVE  Based(Candidate(store[k], d)) /\ Candidate(store[k], d).state = "reload-pending"
    <3>1. store[k] \in Record /\ Based(store[k])
      BY <2>0, <2>1, <2>3, StoredBased
    <3> QED BY <3>1 DEF Mounted, Candidate, Based, Record
  <2>4. \A k \in Key : Fits(req[c].todo[k])'
    BY <2>2, <2>3 DEF Fits, Based, Shows
  <2> QED BY <2>2, <2>4 DEF ReqFits, SbPcs, UpdatePcs
<1>3. ASSUME NEW k \in Key, RunCheck(c, k) PROVE Others(c) /\ ReqFits(req[c])'
  <2>1. PICK pf \in Profile, id \in Id :
          Open(c, "run.launch", k,
               [state |-> "running", id |-> id, pid |-> None, count |-> 0,
                policy |-> pf.policy, mounts |-> pf.mounts,
                urls |-> pf.urls, git |-> pf.git], None)
    BY <1>3 DEF RunCheck
  <2> DEFINE sb == [state |-> "running", id |-> id, pid |-> None, count |-> 0,
                    policy |-> pf.policy, mounts |-> pf.mounts,
                    urls |-> pf.urls, git |-> pf.git]
  <2>2. Based(sb)
    BY DEF Based, Mounted
  <2> HIDE DEF sb
  <2> QED BY <2>1, <2>2, OpenRecord DEF SbPcs, AheadPcs, sb
<1>4. ASSUME NEW k \in Key, ReloadGet(c, k) PROVE Others(c) /\ ReqFits(req[c])'
  <2>1. Based(store[k])
    BY <1>4, StoredBased DEF ReloadGet
  <2> QED BY <1>4, <2>1, OpenRecord DEF ReloadGet, SbPcs
<1>5. ASSUME NEW k \in Key, RestartGet(c, k) PROVE Others(c) /\ ReqFits(req[c])'
  <2>1. store[k] \in Record /\ Based(store[k])
    BY <1>5, StoredBased DEF RestartGet
  <2>2. \A pf \in Profile : Based(Resolved(store[k], pf))
    BY <2>1 DEF Mounted, Resolved, Based, Record
  <2> QED BY <1>5, <2>1, <2>2, OpenRecord DEF RestartGet, SbPcs, AheadPcs
<1>6. ASSUME NEW k \in Key, StopGet(c, k) PROVE Others(c) /\ ReqFits(req[c])'
  <2> DEFINE sb == [store[k] EXCEPT !.state = "stopped"]
  <2>1. store[k] \in Record /\ Based(store[k]) /\ Open(c, "stop.put", k, sb, None)
    BY <1>6, StoredBased DEF StopGet
  <2>2. Based(sb) /\ sb.state = "stopped" /\ sb \in Record
    BY <2>1 DEF Based, Record, States
  <2> HIDE DEF sb
  <2> QED BY <2>1, <2>2, OpenRecord, ConstantsAssumption DEF WillFit, SbPcs
<1>7. ASSUME NEW k \in Key, DeleteGet(c, k) PROVE Others(c) /\ ReqFits(req[c])'
  <2>1. Based(store[k]) /\ store[k] # None /\ store[k].state # "running"
    BY <1>7, StoredBased DEF DeleteGet, isActive
  <2> QED BY <1>7, <2>1, OpenRecord DEF DeleteGet, SbPcs, WillFit
<1>8. ASSUME NEW k \in Key, MergeGet(c, k) PROVE Others(c) /\ ReqFits(req[c])'
  <2>1. store[k] \in Record /\ Based(store[k])
    BY <1>8, StoredBased DEF MergeGet
  <2>2. PICK wt \in Worktree :
          Open(c, "merge.put", k,
               [store[k] EXCEPT !.mounts = @ \ {wt},
                  !.state = IF isActive(@) THEN "reload-pending" ELSE @], None)
    BY <1>8 DEF MergeGet
  <2> DEFINE sb == [store[k] EXCEPT !.mounts = @ \ {wt},
                      !.state = IF isActive(@) THEN "reload-pending" ELSE @]
  <2>3. Based(sb) /\ sb.state # "running" /\ sb \in Record
    BY <2>1 DEF Based, Record, States, isActive
  <2> HIDE DEF sb
  <2> QED BY <2>2, <2>3, OpenRecord, ConstantsAssumption DEF WillFit, SbPcs, sb
<1>9. ASSUME NEW k \in Key, AttachGet(c, k) PROVE Others(c) /\ ReqFits(req[c])'
  <2>1. Others(c) /\ req'[c].pc = "attach.try"
    BY <1>9, OpenFacts DEF AttachGet
  <2> QED BY <2>1 DEF ReqFits, SbPcs, UpdatePcs
<1> QED BY <1>2, <1>3, <1>4, <1>5, <1>6, <1>7, <1>8, <1>9 DEF RequestBegin

(* A watchLoop's copy, like a request's. *)
LEMMA StillCopied ==
  ASSUME Types, CopiesOK, MountsInv, MountsKeep, NEW p \in Process, watch[p].pc \in CopyPcs
  PROVE  watch[p].sb \in Record /\ Based(watch[p].sb) /\ WillFit(watch[p].sb)
<1>1. WatchFits(watch[p]) /\ WatchCopy(p, watch[p]) /\ WatchOK(watch[p])
  BY DEF MountsInv, CopiesOK, WatchCopies, Types, WatchesOK
<1>2. watch[p].sb \in Record /\ watch[p].sb # None /\ watch[p].key \in Key
  BY <1>1, ConstantsAssumption DEF WatchOK, CopyPcs
<1>3. Fits(watch[p].sb) /\ Of(watch[p].sb, watch[p].key)
  BY <1>1 DEF WatchFits, WatchCopy, CopyPcs
<1>4. \A sb : sb = watch[p].sb => WillFit(sb)
  BY <1>2, <1>3, FitsKept DEF Fits, Based, Shows, WillFit
<1> QED BY <1>2, <1>3, <1>4 DEF Fits

LEMMA LoopFrame ==
  ASSUME Types, CopiesOK, MountsInv, MountsKeep, UNCHANGED req, NEW p \in Process,
         UNCHANGED storeVars \/ \E pc \in CopyPcs : WatchPut(p, pc),
         \A q \in Process \ {p} : watch'[q] = watch[q] \/ watch'[q].pc = "wait",
         watch'[p].pc \in CopyPcs => WillFit(watch'[p].sb)
  PROVE  MountsInv'
<1>1. /\ \A l \in Key : store'[l] \in {store[l], disk[l]} \/ Fits(store[l])'
      /\ UNCHANGED disk \/ disk' = store'
  <2>1. CASE UNCHANGED storeVars
    BY <2>1 DEF storeVars
  <2>2. ASSUME NEW pc \in CopyPcs, WatchPut(p, pc)
        PROVE  /\ \A l \in Key : store'[l] \in {store[l], disk[l]} \/ Fits(store[l])'
               /\ UNCHANGED disk \/ disk' = store'
    <3>1. WillFit(watch[p].sb)
      BY <2>2, StillCopied DEF WatchPut, WAt
    <3> QED BY <2>2, <3>1, SetFits DEF WatchPut, Persist, NotPersisted
  <2> QED BY <2>1, <2>2
<1>2. \A q \in Process : watch'[q] = watch[q] \/ WatchFits(watch[q])'
  BY DEF WatchFits, CopyPcs, WillFit, Fits, Based, Shows
<1> QED BY <1>1, <1>2, MountsFrame

LEMMA GotoCopy ==
  ASSUME Types, NEW p \in Process, NEW pc
  PROVE  /\ WGoto(p, pc) => /\ \A q \in Process \ {p} : watch'[q] = watch[q]
                            /\ watch'[p].pc = pc /\ watch'[p].sb = watch[p].sb
         /\ WDone(p) => /\ \A q \in Process \ {p} : watch'[q] = watch[q]
                        /\ watch'[p].pc = "none"
<1>1. watch = [q \in Process |-> watch[q]] /\ watch[p] \in WatchType
  BY DEF Types, WatchesOK
<1>2. WGoto(p, pc) => /\ \A q \in Process \ {p} : watch'[q] = watch[q]
                      /\ watch'[p].pc = pc /\ watch'[p].sb = watch[p].sb
  BY <1>1 DEF WGoto, WatchType
<1>3. WDone(p) => /\ \A q \in Process \ {p} : watch'[q] = watch[q]
                  /\ watch'[p].pc = "none"
  BY <1>1 DEF WDone, NoWatch
<1> QED BY <1>2, <1>3

LEMMA WatchGetShown ==
  ASSUME Types, CopiesOK, MountsInv, NEW p \in Process, WatchGet(p)
  PROVE  MountsInv'
<1> DEFINE k == watch[p].key
           again == [store[k] EXCEPT !.count = @ + 1, !.state = "restarting"]
           last(s) == [store[k] EXCEPT !.state = s]
<1>1. WAt(p, "get") /\ UNCHANGED <<storeVars, proc>>
  BY DEF WatchGet
<1>2. k \in Key /\ UNCHANGED req /\ MountsKeep
  BY <1>1, WAtOK, ProcessMounts DEF WAt
<1>3. CASE WDone(p)
  BY <1>1, <1>2, <1>3, GotoCopy, LoopFrame DEF CopyPcs
<1>4. CASE store[k] # None /\ watch' = [watch EXCEPT ![p].pc = "restarting", ![p].sb = again]
  <2>1. Based(again) /\ again.state = "restarting"
    BY <1>2, <1>4, StoredBased DEF Based, Record
  <2>2. WillFit(again)
    BY <2>1 DEF WillFit
  <2>3. /\ \A q \in Process \ {p} : watch'[q] = watch[q]
        /\ watch'[p].sb = again
    BY <1>4 DEF Types, WatchesOK, WatchType
  <2> QED BY <1>1, <1>2, <2>2, <2>3, LoopFrame
<1>5. ASSUME NEW s \in {"restart-exhausted", "stopped", "crashed"}, store[k] # None,
             watch' = [watch EXCEPT ![p].pc = "clear", ![p].sb = last(s)]
      PROVE  MountsInv'
  <2>1. Based(last(s)) /\ last(s).state = s
    BY <1>2, <1>5, StoredBased DEF Based, Record
  <2>2. WillFit(last(s))
    BY <2>1 DEF WillFit
  <2>3. /\ \A q \in Process \ {p} : watch'[q] = watch[q]
        /\ watch'[p].sb = last(s)
    BY <1>5 DEF Types, WatchesOK, WatchType
  <2> QED BY <1>1, <1>2, <2>2, <2>3, LoopFrame
<1>6. \A clean : FinalState(store[k], clean) \in {"restart-exhausted", "stopped", "crashed"}
  BY DEF FinalState
<1> QED BY <1>3, <1>4, <1>5, <1>6 DEF WatchGet

LEMMA WatchRelaunchShown ==
  ASSUME Types, CopiesOK, MountsInv, NEW p \in Process, WatchRelaunch(p)
  PROVE  MountsInv'
<1> DEFINE sb == watch[p].sb
<1>1. WAt(p, "backoff") /\ UNCHANGED storeVars
  BY DEF WatchRelaunch
<1>2. watch[p].key \in Key /\ sb \in Record /\ UNCHANGED req
  BY <1>1, WAtOK DEF WAt, CopyPcs
<1>3. Based(sb)
  BY <1>1, <1>2, ConstantsAssumption DEF WAt, MountsInv, WatchFits, Fits, CopyPcs
<1>4. ASSUME NEW q \in Process, Launch(q, watch[p].key, sb),
             watch' = [watch EXCEPT ![p].pc = "running", ![p].new = q,
                         ![p].sb = [captureHandleInfo(sb, q) EXCEPT !.state = "running"]]
      PROVE  MountsInv'
  <2> DEFINE heir == [captureHandleInfo(sb, q) EXCEPT !.state = "running"]
  <2>1. MountsKeep /\ WillFit(heir)
    BY <1>2, <1>3, <1>4, ProcessMounts, LaunchFits
  <2>2. /\ \A r \in Process \ {p} : watch'[r] = watch[r]
        /\ watch'[p].sb = heir
    BY <1>4 DEF Types, WatchesOK, WatchType
  <2> QED BY <1>1, <1>2, <2>1, <2>2, LoopFrame
<1>5. ASSUME UNCHANGED proc,
             watch' = [watch EXCEPT ![p].pc = "crashed", ![p].sb.state = "crashed"]
      PROVE  MountsInv'
  <2>1. /\ \A r \in Process \ {p} : watch'[r] = watch[r]
        /\ watch'[p].sb = [sb EXCEPT !.state = "crashed"]
    BY <1>5 DEF Types, WatchesOK, WatchType
  <2>2. WillFit(watch'[p].sb)
    BY <1>2, <1>3, <2>1 DEF WillFit, Based, Record
  <2> QED BY <1>1, <1>2, <1>5, <2>1, <2>2, ProcessMounts, LoopFrame
<1> QED BY <1>4, <1>5 DEF WatchRelaunch

LEMMA WatchShown ==
  ASSUME Types, CopiesOK, MountsInv, NEW p \in Process, WatchStep(p)
  PROVE  MountsInv'
<1>1. CASE WatchGet(p) \/ WatchRelaunch(p)
  BY <1>1, WatchGetShown, WatchRelaunchShown
<1>2. CASE ~WatchGet(p) /\ ~WatchRelaunch(p)
  <2>1. UNCHANGED req /\ UNCHANGED proc
    BY <1>2 DEF WatchStep, WatchExit, WatchRestarting, WatchCrashed, WatchCrashedClear,
                WatchRunning, WatchSetHandle, WatchClear, WatchFinal, WatchPut, WAt
  <2>2. MountsKeep
    BY <2>1, ProcessMounts
  <2>3. UNCHANGED storeVars \/ \E pc \in CopyPcs : WatchPut(p, pc)
    BY <1>2 DEF WatchStep, WatchExit, WatchRestarting, WatchCrashed, WatchCrashedClear,
                WatchRunning, WatchSetHandle, WatchClear, WatchFinal, CopyPcs
  <2>4. CASE WDone(p) \/ WGoto(p, "get")
    <3>1. /\ \A q \in Process \ {p} : watch'[q] = watch[q]
          /\ watch'[p].pc \in {"none", "get"}
      BY <2>4, GotoCopy
    <3> QED BY <2>1, <2>2, <2>3, <3>1, LoopFrame DEF CopyPcs
  <2>5. CASE WatchSetHandle(p)
    <3>1. \E q, k, e : watch' = [watch EXCEPT ![p] = NoWatch, ![q] = Watching(k, e)]
      BY <2>5 DEF WatchSetHandle
    <3>2. /\ \A q \in Process \ {p} : watch'[q] = watch[q] \/ watch'[q].pc = "wait"
          /\ watch'[p].pc \notin CopyPcs
      BY <3>1 DEF Types, WatchesOK, Watching, NoWatch, CopyPcs
    <3> QED BY <2>1, <2>2, <2>3, <3>2, LoopFrame
  <2>6. CASE WatchRestarting(p) \/ WatchCrashed(p) \/ WatchRunning(p) \/ WatchClear(p)
    <3>1. watch[p].pc \in CopyPcs
      BY <2>6 DEF WatchRestarting, WatchCrashed, WatchRunning, WatchClear, WatchPut, WAt, CopyPcs
    <3>2. \E pc : WGoto(p, pc)
      BY <2>6 DEF WatchRestarting, WatchCrashed, WatchRunning, WatchClear
    <3>3. /\ \A q \in Process \ {p} : watch'[q] = watch[q]
          /\ WillFit(watch'[p].sb)
      BY <2>2, <3>1, <3>2, StillCopied, GotoCopy
    <3> QED BY <2>1, <2>2, <2>3, <3>3, LoopFrame
  <2> QED BY <1>2, <2>4, <2>5, <2>6
          DEF WatchStep, WatchExit, WatchCrashedClear, WatchFinal
<1> QED BY <1>1, <1>2

LEMMA WorldShown ==
  ASSUME Types, CopiesOK, StartInv, MountsInv,
         \/ \E p \in Process : Exit(p)
         \/ Crash \/ StartLoad \/ StartReattach \/ Serve
         \/ \E k \in Key : Reconcile(k) \/ Reattach(k)
         \/ UNCHANGED vars
  PROVE  MountsInv'
<1>1. MountsKeep
  BY ProcessMounts DEF Exit, Crash, StartLoad, StartReattach, Serve, Reconcile, Reattach, vars
<1>2. UNCHANGED req \/ req' = [c \in Client |-> IdleReq]
  BY DEF Exit, Crash, StartLoad, StartReattach, Serve, Reconcile, Reattach, vars
<1>3. \A c \in Client : req'[c] = req[c] \/ ReqFits(req[c])'
  BY <1>2 DEF ReqFits, SbPcs, UpdatePcs, IdleReq
<1>4. \A p \in Process : watch'[p] = watch[p] \/ watch'[p].pc \in {"none", "wait"}
  <2>1. ASSUME NEW k \in Key, Reattach(k)
        PROVE  UNCHANGED watch \/ \E p, e : watch' = [watch EXCEPT ![p] = Watching(k, e)]
    BY <2>1 DEF Reattach
  <2>2. ASSUME NEW k \in Key, NEW p, NEW e, watch' = [watch EXCEPT ![p] = Watching(k, e)]
        PROVE  \A q \in Process : watch'[q] = watch[q] \/ watch'[q].pc = "wait"
    BY <2>2 DEF Types, WatchesOK, Watching, NoWatch
  <2>3. CASE ~ \E k \in Key : Reattach(k)
    <3>1. UNCHANGED watch \/ watch' = [p \in Process |-> NoWatch]
      BY <2>3 DEF Exit, Crash, StartLoad, StartReattach, Serve, Reconcile, vars
    <3> QED BY <3>1 DEF NoWatch
  <2> QED BY <2>1, <2>2, <2>3
<1>5. \A p \in Process : watch'[p] = watch[p] \/ WatchFits(watch[p])'
  BY <1>4 DEF WatchFits, CopyPcs
<1>6. CASE \E k \in Key : Reconcile(k)
  <2>1. PICK k \in Key : Reconcile(k)
    BY <1>6
  <2>2. CASE UNCHANGED storeVars
    BY <1>1, <1>3, <1>5, <2>2, MountsFrame DEF storeVars
  <2>3. CASE Set(k, [store[k] EXCEPT !.state = "stopped"]) /\ (Persist \/ NotPersisted)
    <3>1. store[k] # None
      BY <2>1 DEF StartInv, Reconcile
    <3>2. WillFit([store[k] EXCEPT !.state = "stopped"])
      BY <3>1, StoredBased DEF WillFit, Based, Record
    <3> QED BY <1>1, <1>3, <1>5, <2>3, <3>2, SetFits, MountsFrame DEF Persist, NotPersisted
  <2> QED BY <2>1, <2>2, <2>3 DEF Reconcile
<1>7. CASE ~ \E k \in Key : Reconcile(k)
  <2>1. /\ UNCHANGED disk
        /\ UNCHANGED store \/ store' = disk \/ store' = [k \in Key |-> None]
    BY <1>7 DEF Exit, Crash, StartLoad, StartReattach, Serve, Reattach, vars, storeVars
  <2>2. \A k \in Key : store'[k] \in {store[k], disk[k]} \/ Fits(store[k])'
    BY <2>1 DEF Fits
  <2> QED BY <1>1, <1>3, <1>5, <2>1, <2>2, MountsFrame
<1> QED BY <1>6, <1>7

LEMMA MountsNext ==
  ASSUME Mounted, IInv, MountsInv, [Next]_vars
  PROVE  MountsInv'
<1> USE DEF IInv
<1>1. ASSUME NEW c \in Client, RequestBegin(c) \/ RequestStep(c) \/ SessionEnd(c)
      PROVE  MountsInv'
  BY <1>1, BeginShown, StepShown
<1>2. ASSUME NEW p \in Process, WatchStep(p)
      PROVE  MountsInv'
  BY <1>2, WatchShown
<1>3. CASE \/ \E p \in Process : Exit(p)
           \/ Crash \/ Startup
           \/ UNCHANGED vars
  BY <1>3, WorldShown DEF Startup
<1> QED BY <1>1, <1>2, <1>3 DEF Next

LEMMA MountsInit == Init => MountsInv
  BY DEF Init, MountsInv, Fits, ReqFits, WatchFits, IdleReq, NoWatch, SbPcs, CopyPcs, UpdatePcs

(* "running" means that the process has the recorded mounts: whatever Updates,
   Merges, Restarts, watchLoops, failures and deaths of murod come between,
   where every Update brings mounts and every profile has a mount that no Merge
   takes away (an Update without mounts clears a pending reload, and a Reload
   takes an empty list for applied). *)
THEOREM MountsAreShown ==
  ASSUME Mounted
  PROVE  Spec => []MountsShown
<1>1. IInv /\ MountsInv /\ [Next]_vars => MountsInv'
  BY MountsNext
<1>2. MountsInv => MountsShown
  BY DEF MountsInv, MountsShown, Fits, Shows
<1> QED BY Invariant, MountsInit, <1>1, <1>2, PTL DEF Spec
=============================================================================
