-------------------------- MODULE ManagerProperties --------------------------
(***************************************************************************)
(* What murod's sandbox lifecycle (Manager) is to guarantee.               *)
(***************************************************************************)
EXTENDS Manager

OrNone(S) == S \cup {None}

ReqPcs == {"idle", "run.launch", "run.put", "run.undo", "run.sethandle",
           "run.watch", "update.put", "update.proxy", "reload.handle",
           "reload.put", "restart.handle", "restart.clear", "restart.kill",
           "restart.launch", "restart.crashed", "restart.put",
           "restart.proxy", "restart.watch", "stop.put", "stop.handle",
           "stop.clear", "stop.kill", "delete.store", "merge.put",
           "attach.try", "attach.handle", "attach.dial", "attached",
           "attach.detach"}
WatchPcs == {"none", "wait", "get", "restarting", "backoff", "crashed",
             "crashed.clear", "running", "sethandle", "clear", "final"}

Todo == [Key -> OrNone(Record)]
ReqType == [pc : ReqPcs, key : OrNone(Key), sb : OrNone(Record),
            arg : OrNone(Profile \cup Delta), epoch : Nat,
            old : OrNone(Process), new : OrNone(Process), todo : Todo]
WatchType == [pc : WatchPcs, key : OrNone(Key), epoch : Nat,
              sb : OrNone(Record), new : OrNone(Process)]
ProcType == [st : {"unborn", "alive", "clean", "failed"}, key : OrNone(Key),
             id : OrNone(Id), mounts : SUBSET Mount]

StoreOK == store \in [Key -> OrNone(Record)] /\ disk \in [Key -> OrNone(Record)]
TableOK == handles \in [Key -> OrNone(Process)] /\ epoch \in [Key -> Nat]
BridgeOK == agents \subseteq Id /\ inboxes \subseteq Key /\ tools \subseteq Id
ProxyOK == allow \in [Id -> OrNone(SUBSET Url)] /\ addrs \subseteq Process
StartOK == murod \in {"down", "reconcile", "reattach", "up"} /\ pending \subseteq Key
ProcOK == proc \in [Process -> ProcType]
BoundOK == reqs \in 0..MaxReq /\ crashes \in 0..MaxCrash

(* Every variable of Manager has its type. *)
TypeOK ==
  /\ StoreOK /\ TableOK /\ BridgeOK /\ ProxyOK /\ StartOK /\ BoundOK
  /\ slot \subseteq Key
  /\ ProcOK
  /\ req \in [Client -> ReqType]
  /\ watch \in [Process -> WatchType]

----------------------------------------------------------------------------
(* Under every interleaving, every fault and every crash.                  *)

(* The goroutine answerable for the handle of key k: the watchLoop of its
   process, or the Run that is about to start it. *)
InCharge(k, p) ==
  \/ /\ watch[p].key = k /\ watch[p].epoch = epoch[k]
     /\ watch[p].pc \notin {"none", "final"}
  \/ \E c \in Client : /\ req[c].pc = "run.watch" /\ req[c].key = k
                       /\ req[c].new = p /\ req[c].epoch = epoch[k]

(* No handle goes unwatched: whatever Run, Restart, Stop, the watchLoops and a
   restart of murod do to handles and epoch, the process behind a registered
   handle has a goroutine of the current epoch that will see it exit. *)
HandleWatched == \A k \in Key : handles[k] # None => InCharge(k, handles[k])

(* Epochs tell watchLoops apart: at most one goroutine of a key holds its
   current epoch, so at most one ever passes watchLoop's check for it. *)
OneInCharge ==
  \A k \in Key : \A p, q \in Process : InCharge(k, p) /\ InCharge(k, q) => p = q

(* Records, handles and processes of different sandboxes never mix: what is
   stored, persisted or registered under a key was launched for that key, and
   under the record's own id. *)
BelongsTo(sb, k) ==
  sb # None => /\ proc[sb.pid].key = k /\ proc[sb.pid].id = sb.id
KeysApart ==
  \A k \in Key : /\ BelongsTo(store[k], k) /\ BelongsTo(disk[k], k)
                 /\ handles[k] # None => proc[handles[k]].key = k

----------------------------------------------------------------------------
(* When nothing is in flight.                                              *)

Settled == Quiet /\ murod = "up"

(* Every process murod ever launched and that still lives is the handle of its
   sandbox: nothing runs that `muro sandbox stop' cannot reach. *)
NoOrphan ==
  Settled => \A p \in Process : Alive(p) => handles[proc[p].key] = p

(* The record tells the truth: it is active exactly when its own recorded
   process lives, so `muro status' neither hides nor invents a sandbox. *)
RecordTruthful ==
  Settled => \A k \in Key : store[k] # None =>
               (isActive(store[k].state) <=> Alive(store[k].pid))

(* The fail-closed proxy knows every live sandbox: its address is registered
   and its allowlist is the recorded one. *)
ProxyCurrent ==
  Settled => \A k \in Key : store[k] # None /\ isActive(store[k].state) =>
               /\ handles[k] \in addrs
               /\ allow[store[k].id] = store[k].urls

(* A sandbox murod holds the handle of has the listeners its mounted sockets
   lead to, also after murod was started again. *)
BridgesUp ==
  Settled => \A k \in Key : store[k] # None /\ handles[k] # None =>
               /\ store[k].id \in agents
               /\ store[k].git => store[k].id \in tools

(* "running" means the process has the recorded mounts; a difference shows as
   reload-pending. *)
MountsShown ==
  Settled => \A k \in Key : store[k] # None /\ store[k].state = "running" =>
               proc[store[k].pid].mounts = store[k].mounts

(* An on-failure sandbox is launched at most MaxRestart times beyond its first
   launch, across Updates, Stops and restarts of murod. *)
RestartBudget ==
  \A i \in Id : Cardinality({p \in Process : proc[p].id = i}) <= 1 + MaxRestart

----------------------------------------------------------------------------
(* What must happen eventually (under FairSpec).                           *)

(* A dead process does not stay the handle of its sandbox: its watchLoop, a
   request or a restart of murod replaces or clears it. *)
ExitNoticed ==
  \A k \in Key, p \in Process :
    (handles[k] = p /\ Dead(p)) ~> handles[k] # p

(* A backoff ends: "restarting" is not a state a sandbox is left in. *)
BackoffEnds ==
  \A k \in Key :
    (store[k] # None /\ store[k].state = "restarting") ~>
    (store[k] = None \/ store[k].state # "restarting")

(* An attach slot does not leak: once nothing of the sandbox lives any more,
   the slot of its last session comes free. *)
SlotFreed ==
  \A k \in Key :
    (k \in slot) ~> (k \notin slot \/ \E p \in Process : Alive(p))

----------------------------------------------------------------------------
(* What the documents say and murod does not do (each is checked by a run
   that is to find it violated). *)

(* manager.go 979-982, SPEC.md 6: Stop marks the record so that a watchLoop
   waking up "doesn't treat it as a crash": only a request makes a stopped
   sandbox active again. *)
StopSticks ==
  [][\A k \in Key :
       (/\ store[k] # None /\ store[k].state = "stopped"
        /\ store'[k] # None /\ isActive(store'[k].state))
       => \E c \in Client : req'[c] # req[c]]_vars
=============================================================================
