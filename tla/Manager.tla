------------------------------ MODULE Manager ------------------------------
(***************************************************************************)
(* murod's sandbox lifecycle: internal/sandbox/manager.go over the state   *)
(* store, the isolator, the attach registry and the proxy's tables.        *)
(*                                                                         *)
(* Every control-socket connection is served by a goroutine of its own     *)
(* (Client), and every live handle has a watchLoop goroutine (a Process's  *)
(* entry of `watch').  Both run between the locks of Store.mu, Manager.mu, *)
(* attachRegistry.mu, pubMu and toolMu, and a step of this module is one   *)
(* such critical section, together with the local work up to the next one. *)
(* murod may die at any of these points; sandboxed processes outlive it,   *)
(* and the next murod reconciles the persisted registry with them.         *)
(***************************************************************************)
EXTENDS Naturals, FiniteSets

CONSTANTS
  Key,        \* namespace/name pairs (mapKey)
  Client,     \* goroutines serving control-socket requests
  Process,    \* the processes (shims) that can ever be launched
  Id,         \* sandbox ids (NewID draws a fresh one)
  Mount, Url, \* what a sandbox may be given
  Profile,    \* the profiles Run and Restart(fromProfile) may load
  Delta,      \* the ConfigDeltas requests may carry
  Worktree,   \* the mounts of Mount that are git worktrees
  MaxRestart, \* Manager.maxRestartAttempts
  Ops,        \* the requests this instance's clients issue
  Faults,     \* the failures the environment may cause
  Overlap,    \* FALSE: requests, exits and crashes only meet a settled murod
  MaxReq,     \* bound: the number of requests a behaviour issues
  MaxCrash,   \* bound: the number of times murod dies
  None        \* "no process", "no id", "no record", "no argument"

Policies == {"never", "on-failure", "always"}
AllOps == {"run", "update", "reload", "restart", "from-profile", "stop",
           "delete", "merge", "attach"}
AllFaults == {"launch", "put", "stop"}

VARIABLES
  store,    \* Store.sandboxes: key -> record, or None
  disk,     \* state.json: what Load would bring back
  handles,  \* Manager.handles: key -> process, or None
  epoch,    \* Manager.epoch
  slot,     \* attachRegistry.attached: keys with a claimed attach slot
  agents,   \* Manager.agentSockets: ids with a listener
  inboxes,  \* Manager.inboxSubscribed
  tools,    \* Manager.toolSockets: ids with a listener
  allow,    \* proxy.Server.allowlists: id -> urls, or None
  addrs,    \* proxy.Server.addrIndex: processes whose address is registered
  proc,     \* the host: process -> [st, key, id, mounts]
  req,      \* request goroutines: client -> [pc, key, sb, arg, old, new, epoch, todo]
  watch,    \* watchLoop goroutines: process -> [pc, key, epoch, sb, new]
  murod,    \* "down", "reconcile", "reattach" or "up"
  pending,  \* records startup has still to visit
  reqs,     \* requests issued so far
  crashes   \* murod deaths so far

storeVars == <<store, disk>>
tableVars == <<handles, epoch>>
bridgeVars == <<agents, inboxes, tools>>
proxyVars == <<allow, addrs>>
startVars == <<murod, pending>>
boundVars == <<reqs, crashes>>
vars == <<store, disk, handles, epoch, slot, agents, inboxes, tools, allow,
          addrs, proc, req, watch, murod, pending, reqs, crashes>>

States == {"running", "stopped", "reload-pending", "crashed", "restarting",
           "restart-exhausted"}
isActive(s) == s \in {"running", "reload-pending", "restarting"}

Record == [state: States, id: Id, pid: Process \cup {None}, count: Nat,
           policy: Policies, mounts: SUBSET Mount, urls: SUBSET Url,
           git: BOOLEAN]

ASSUME ConstantsAssumption ==
  /\ None \notin Key \cup Process \cup Id \cup Record
  /\ Worktree \subseteq Mount
  /\ Profile \subseteq [policy: Policies, mounts: SUBSET Mount,
                        urls: SUBSET Url, git: BOOLEAN]
  /\ Delta \subseteq [mounts: SUBSET Mount, allow: SUBSET Url, deny: SUBSET Url]
  /\ MaxRestart \in Nat
  /\ MaxReq \in Nat
  /\ MaxCrash \in Nat
  /\ Ops \subseteq AllOps
  /\ Faults \subseteq AllFaults
  /\ Overlap \in BOOLEAN

IdleReq == [pc |-> "idle", key |-> None, sb |-> None, arg |-> None,
            old |-> None, new |-> None, epoch |-> 0, todo |-> [k \in Key |-> None]]
NoWatch == [pc |-> "none", key |-> None, epoch |-> 0, sb |-> None, new |-> None]
Unborn == [st |-> "unborn", key |-> None, id |-> None, mounts |-> {}]

Alive(p) == proc[p].st = "alive"
Dead(p) == proc[p].st \in {"clean", "failed"}

----------------------------------------------------------------------------
(* What the handlers are built from.                                       *)

(* Store.Put and Store.Delete: memory first, then the whole registry to a
   temporary file renamed over state.json; an error leaves memory changed. *)
Persist == disk' = store'
NotPersisted == "put" \in Faults /\ UNCHANGED disk
Set(k, r) == store' = [store EXCEPT ![k] = r]

(* Slip: the table changes and the epoch does not. *)
setHandleSameEpoch(k, p) == /\ handles' = [handles EXCEPT ![k] = p]
                            /\ UNCHANGED epoch

setHandle(k, p) == /\ handles' = [handles EXCEPT ![k] = p]
                   /\ epoch' = [epoch EXCEPT ![k] = @ + 1]
clearHandle(k) == setHandle(k, None)

(* BwrapIsolator.Launch of record sb, as some unused process. *)
Launch(p, k, sb) ==
  /\ proc[p] = Unborn
  /\ proc' = [proc EXCEPT ![p] = [st |-> "alive", key |-> k, id |-> sb.id,
                                  mounts |-> sb.mounts]]
LaunchFails == "launch" \in Faults

(* BwrapIsolator.Stop waits until the shim is gone; a signal it is refused
   leaves the process as it was. *)
Kill(p) ==
  \/ /\ Alive(p)
     /\ \E st \in {"clean", "failed"} : proc' = [proc EXCEPT ![p].st = st]
  \/ ~Alive(p) /\ UNCHANGED proc
KillFails == "stop" \in Faults

captureHandleInfo(sb, p) == [sb EXCEPT !.pid = p]

startAgentBridge(k, sb) == /\ agents' = agents \cup {sb.id}
                           /\ inboxes' = inboxes \cup {k}
startToolBridge(sb) == tools' = IF sb.git THEN tools \cup {sb.id} ELSE tools

SetAllowlist(sb) == allow' = [allow EXCEPT ![sb.id] = sb.urls]

(* Slip: one attempt too many. *)
shouldRestartOnceMore(sb, clean) ==
  \/ sb.policy = "always"
  \/ sb.policy = "on-failure" /\ ~clean /\ sb.count <= MaxRestart

shouldRestart(sb, clean) ==
  \/ sb.policy = "always"
  \/ sb.policy = "on-failure" /\ ~clean /\ sb.count < MaxRestart

Watching(k, e) == [NoWatch EXCEPT !.pc = "wait", !.key = k, !.epoch = e]

(* state.NewID: an id of no process ever launched and of no Run under way. *)
NewID(id) == /\ \A p \in Process : proc[p].id # id
             /\ \A c \in Client : req[c].sb # None => req[c].sb.id # id

(* Nothing is in flight: no request is being served, no process has died
   that its watchLoop has not dealt with, and startup is over. *)
Quiet ==
  /\ murod \in {"up", "down"}
  /\ \A c \in Client : req[c].pc \in {"idle", "attached"}
  /\ \A p \in Process : /\ watch[p].pc \in {"none", "wait"}
                        /\ watch[p].pc = "wait" => Alive(p)
Permitted == Overlap \/ Quiet

(* A client goroutine's control: begin a request, go on, be done. *)
Begin(c, op) ==
  /\ murod = "up" /\ op \in Ops /\ req[c].pc = "idle"
  /\ Permitted
  /\ reqs < MaxReq /\ reqs' = reqs + 1
  /\ UNCHANGED <<crashes, startVars>>
At(c, pc) == req[c].pc = pc /\ UNCHANGED <<startVars, boundVars>>
Goto(c, pc) == req' = [req EXCEPT ![c].pc = pc]
Done(c) == req' = [req EXCEPT ![c] = IdleReq]
Open(c, pc, k, sb, arg) ==
  req' = [req EXCEPT ![c] = [IdleReq EXCEPT !.pc = pc, !.key = k, !.sb = sb,
                                            !.arg = arg]]

----------------------------------------------------------------------------
(* Run: check the name, start the bridges, Launch, Put, setHandle, tell the
   proxy, go watchLoop -- each its own critical section. *)

RunCheck(c, k) ==
  /\ Begin(c, "run")
  /\ store[k] # None => ~isActive(store[k].state)
  /\ \E pf \in Profile, id \in Id :
       LET sb == [state |-> "running", id |-> id, pid |-> None, count |-> 0,
                  policy |-> pf.policy, mounts |-> pf.mounts,
                  urls |-> pf.urls, git |-> pf.git]
       IN  /\ NewID(id)
           /\ startAgentBridge(k, sb) /\ startToolBridge(sb)
           /\ Open(c, "run.launch", k, sb, None)
  /\ UNCHANGED <<storeVars, tableVars, slot, proxyVars, proc, watch>>

RunLaunch(c) ==
  LET sb == req[c].sb IN
  /\ At(c, "run.launch")
  /\ \/ \E p \in Process :
          /\ Launch(p, req[c].key, sb)
          /\ req' = [req EXCEPT ![c].pc = "run.put", ![c].new = p,
                                ![c].sb = captureHandleInfo(sb, p)]
          /\ UNCHANGED bridgeVars
     \/ /\ LaunchFails
        /\ agents' = agents \ {sb.id} /\ tools' = tools \ {sb.id}
        /\ Done(c)
        /\ UNCHANGED <<inboxes, proc>>
  /\ UNCHANGED <<storeVars, tableVars, slot, proxyVars, watch>>

RunPut(c) ==
  /\ At(c, "run.put")
  /\ Set(req[c].key, req[c].sb)
  /\ \/ Persist /\ Goto(c, "run.sethandle")
     \/ NotPersisted /\ Goto(c, "run.undo")
  /\ UNCHANGED <<tableVars, slot, bridgeVars, proxyVars, proc, watch>>

RunUndo(c) ==
  /\ At(c, "run.undo")
  /\ Kill(req[c].new) \/ (KillFails /\ UNCHANGED proc)
  /\ Done(c)
  /\ UNCHANGED <<storeVars, tableVars, slot, bridgeVars, proxyVars, watch>>

(* Slip: the epoch is read before setHandle moves it. *)
RunSetHandleStale(c) ==
  /\ At(c, "run.sethandle")
  /\ setHandle(req[c].key, req[c].new)
  /\ req' = [req EXCEPT ![c].pc = "run.watch", ![c].epoch = epoch[req[c].key]]
  /\ UNCHANGED <<storeVars, slot, bridgeVars, proxyVars, proc, watch>>

RunSetHandle(c) ==
  /\ At(c, "run.sethandle")
  /\ setHandle(req[c].key, req[c].new)
  /\ req' = [req EXCEPT ![c].pc = "run.watch",
                        ![c].epoch = epoch'[req[c].key]]
  /\ UNCHANGED <<storeVars, slot, bridgeVars, proxyVars, proc, watch>>

RunWatch(c) ==
  LET p == req[c].new IN
  /\ At(c, "run.watch")
  /\ SetAllowlist(req[c].sb)
  /\ addrs' = addrs \cup {p}
  /\ watch' = [watch EXCEPT ![p] = Watching(req[c].key, req[c].epoch)]
  /\ Done(c)
  /\ UNCHANGED <<storeVars, tableVars, slot, bridgeVars, proc>>

----------------------------------------------------------------------------
(* Update: copy and validate every target, then store the candidates one by
   one.  BwrapIsolator.UpdateMounts never applies a non-empty list, so a
   delta with mounts leaves a candidate reload-pending, with or without a
   handle. *)

Candidate(sb, d) ==
  [sb EXCEPT !.mounts = @ \cup d.mounts,
             !.urls = (@ \cup d.allow) \ d.deny,
             !.state = IF d.mounts # {} THEN "reload-pending"
                       ELSE IF @ = "reload-pending" THEN "running" ELSE @]

UpdateBegin(c) ==
  /\ Begin(c, "update")
  /\ \E d \in Delta, targets \in {{k} : k \in Key} \cup
                       {{k \in Key : store[k] # None /\ isActive(store[k].state)}} :
       /\ targets # {} /\ \A k \in targets : store[k] # None
       /\ req' = [req EXCEPT ![c] =
            [IdleReq EXCEPT !.pc = "update.put", !.arg = d,
               !.todo = [k \in Key |-> IF k \in targets
                                       THEN Candidate(store[k], d) ELSE None]]]
  /\ UNCHANGED <<storeVars, tableVars, slot, bridgeVars, proxyVars, proc, watch>>

UpdatePut(c) ==
  /\ At(c, "update.put")
  /\ \E k \in Key :
       /\ req[c].todo[k] # None
       /\ Set(k, req[c].todo[k])
       /\ \/ /\ Persist
             /\ req' = [req EXCEPT ![c].pc = "update.proxy", ![c].key = k]
          \/ NotPersisted /\ Done(c)
  /\ UNCHANGED <<tableVars, slot, bridgeVars, proxyVars, proc, watch>>

UpdateProxy(c) ==
  LET k == req[c].key
      rest == [req[c].todo EXCEPT ![k] = None]
  IN
  /\ At(c, "update.proxy")
  /\ IF req[c].arg.allow \cup req[c].arg.deny # {}
     THEN SetAllowlist(req[c].todo[k]) ELSE UNCHANGED allow
  /\ IF \A l \in Key : rest[l] = None
     THEN Done(c)
     ELSE req' = [req EXCEPT ![c].pc = "update.put", ![c].todo = rest]
  /\ UNCHANGED <<storeVars, tableVars, slot, bridgeVars, addrs, proc, watch>>

----------------------------------------------------------------------------
(* Reload: only a reload-pending sandbox with a live handle. *)

ReloadGet(c, k) ==
  /\ Begin(c, "reload")
  /\ store[k] # None /\ store[k].state = "reload-pending"
  /\ Open(c, "reload.handle", k, store[k], None)
  /\ UNCHANGED <<storeVars, tableVars, slot, bridgeVars, proxyVars, proc, watch>>

ReloadHandle(c) ==
  /\ At(c, "reload.handle")
  /\ IF handles[req[c].key] = None
     THEN Done(c)
     ELSE req' = [req EXCEPT ![c].pc = "reload.put",
                    ![c].sb.state = IF req[c].sb.mounts = {} THEN "running"
                                                              ELSE @]
  /\ UNCHANGED <<storeVars, tableVars, slot, bridgeVars, proxyVars, proc, watch>>

ReloadPut(c) ==
  /\ At(c, "reload.put")
  /\ Set(req[c].key, req[c].sb) /\ (Persist \/ NotPersisted)
  /\ Done(c)
  /\ UNCHANGED <<tableVars, slot, bridgeVars, proxyVars, proc, watch>>

----------------------------------------------------------------------------
(* Restart, with the stored configuration or re-resolved from the profile.
   It copies the record of a sandbox in ANY state. *)

Resolved(sb, pf) == [sb EXCEPT !.policy = pf.policy, !.mounts = pf.mounts,
                               !.urls = pf.urls, !.git = pf.git]

RestartGet(c, k) ==
  /\ store[k] # None
  /\ \/ /\ Begin(c, "restart")
        /\ Open(c, "restart.handle", k, store[k], None)
        /\ UNCHANGED tools
     \/ /\ Begin(c, "from-profile")
        /\ \E pf \in Profile :
             Open(c, "restart.handle", k, Resolved(store[k], pf), pf)
        /\ tools' = tools \ {store[k].id}
  /\ slot' = slot \ {k}
  /\ UNCHANGED <<storeVars, tableVars, agents, inboxes, proxyVars, proc, watch>>

RestartHandle(c) ==
  LET h == handles[req[c].key] IN
  /\ At(c, "restart.handle")
  /\ IF h = None THEN Goto(c, "restart.launch")
     ELSE req' = [req EXCEPT ![c].pc = "restart.clear", ![c].old = h]
  /\ UNCHANGED <<storeVars, tableVars, slot, bridgeVars, proxyVars, proc, watch>>

RestartClear(c) ==
  /\ At(c, "restart.clear")
  /\ clearHandle(req[c].key)
  /\ Goto(c, "restart.kill")
  /\ UNCHANGED <<storeVars, slot, bridgeVars, proxyVars, proc, watch>>

(* Slip: the old process is forgotten, not killed. *)
RestartForgets(c) ==
  /\ At(c, "restart.kill")
  /\ Goto(c, "restart.launch")
  /\ UNCHANGED <<storeVars, tableVars, slot, bridgeVars, proxyVars, proc, watch>>

RestartKill(c) ==
  /\ At(c, "restart.kill")
  /\ \/ Kill(req[c].old) /\ Goto(c, "restart.launch")
     \/ KillFails /\ UNCHANGED proc /\ Done(c)
  /\ UNCHANGED <<storeVars, tableVars, slot, bridgeVars, proxyVars, watch>>

RestartLaunch(c) ==
  LET sb == req[c].sb IN
  /\ At(c, "restart.launch")
  /\ IF req[c].arg # None THEN startToolBridge(sb) ELSE UNCHANGED tools
  /\ \/ \E p \in Process :
          /\ Launch(p, req[c].key, sb)
          /\ req' = [req EXCEPT ![c].pc = "restart.put", ![c].new = p,
                       ![c].sb = [captureHandleInfo(sb, p) EXCEPT
                                    !.state = "running"]]
     \/ /\ LaunchFails /\ UNCHANGED proc
        /\ req' = [req EXCEPT ![c].pc = "restart.crashed",
                              ![c].sb.state = "crashed"]
  /\ UNCHANGED <<storeVars, tableVars, slot, agents, inboxes, proxyVars, watch>>

RestartCrashed(c) ==
  /\ At(c, "restart.crashed")
  /\ Set(req[c].key, req[c].sb) /\ (Persist \/ NotPersisted)
  /\ Done(c)
  /\ UNCHANGED <<tableVars, slot, bridgeVars, proxyVars, proc, watch>>

RestartPut(c) ==
  /\ At(c, "restart.put")
  /\ Set(req[c].key, req[c].sb)
  /\ \/ Persist /\ Goto(c, "restart.proxy")
     \/ NotPersisted /\ Done(c)
  /\ UNCHANGED <<tableVars, slot, bridgeVars, proxyVars, proc, watch>>

(* Slip: the replaced process's address is registered, if there was one. *)
RestartProxyOld(c) ==
  /\ At(c, "restart.proxy")
  /\ SetAllowlist(req[c].sb)
  /\ addrs' = addrs \cup {req[c].old}
  /\ Goto(c, "restart.watch")
  /\ UNCHANGED <<storeVars, tableVars, slot, bridgeVars, proc, watch>>

RestartProxy(c) ==
  /\ At(c, "restart.proxy")
  /\ SetAllowlist(req[c].sb)
  /\ addrs' = addrs \cup {req[c].new}
  /\ Goto(c, "restart.watch")
  /\ UNCHANGED <<storeVars, tableVars, slot, bridgeVars, proc, watch>>

RestartWatch(c) ==
  LET k == req[c].key
      p == req[c].new
  IN
  /\ At(c, "restart.watch")
  /\ setHandle(k, p)
  /\ watch' = [watch EXCEPT ![p] = Watching(k, epoch'[k])]
  /\ Done(c)
  /\ UNCHANGED <<storeVars, slot, bridgeVars, proxyVars, proc>>

----------------------------------------------------------------------------
(* Stop: the record first, then the process. *)

StopGet(c, k) ==
  /\ Begin(c, "stop")
  /\ store[k] # None
  /\ Open(c, "stop.put", k, [store[k] EXCEPT !.state = "stopped"], None)
  /\ slot' = slot \ {k}
  /\ agents' = agents \ {store[k].id}
  /\ tools' = tools \ {store[k].id}
  /\ UNCHANGED <<storeVars, tableVars, inboxes, proxyVars, proc, watch>>

StopPut(c) ==
  /\ At(c, "stop.put")
  /\ Set(req[c].key, req[c].sb)
  /\ \/ Persist /\ Goto(c, "stop.handle")
     \/ NotPersisted /\ Done(c)
  /\ UNCHANGED <<tableVars, slot, bridgeVars, proxyVars, proc, watch>>

StopHandle(c) ==
  LET h == handles[req[c].key] IN
  /\ At(c, "stop.handle")
  /\ IF h = None THEN Done(c)
     ELSE req' = [req EXCEPT ![c].pc = "stop.clear", ![c].old = h]
  /\ UNCHANGED <<storeVars, tableVars, slot, bridgeVars, proxyVars, proc, watch>>

StopClear(c) ==
  /\ At(c, "stop.clear")
  /\ clearHandle(req[c].key)
  /\ Goto(c, "stop.kill")
  /\ UNCHANGED <<storeVars, slot, bridgeVars, proxyVars, proc, watch>>

StopKill(c) ==
  /\ At(c, "stop.kill")
  /\ Kill(req[c].old) \/ (KillFails /\ UNCHANGED proc)
  /\ Done(c)
  /\ UNCHANGED <<storeVars, tableVars, slot, bridgeVars, proxyVars, watch>>

----------------------------------------------------------------------------
(* Delete of an inactive sandbox, and Merge of one of its worktrees.  The
   git work in between (unmerged-commit checks, squash merge, prune) only
   decides whether the request goes on, and is left to nondeterminism: a
   request git refuses is one that never begins. *)

(* Slip: an active sandbox is deleted too. *)
DeleteGetActive(c, k) ==
  /\ Begin(c, "delete")
  /\ store[k] # None
  /\ Open(c, "delete.store", k, store[k], None)
  /\ UNCHANGED <<storeVars, tableVars, slot, bridgeVars, proxyVars, proc, watch>>

DeleteGet(c, k) ==
  /\ Begin(c, "delete")
  /\ store[k] # None /\ ~isActive(store[k].state)
  /\ Open(c, "delete.store", k, store[k], None)
  /\ UNCHANGED <<storeVars, tableVars, slot, bridgeVars, proxyVars, proc, watch>>

DeleteStore(c) ==
  /\ At(c, "delete.store")
  /\ Set(req[c].key, None) /\ (Persist \/ NotPersisted)
  /\ Done(c)
  /\ UNCHANGED <<tableVars, slot, bridgeVars, proxyVars, proc, watch>>

(* Slip: the mount goes and the state stays. *)
MergeGetQuietly(c, k) ==
  /\ Begin(c, "merge")
  /\ store[k] # None
  /\ \E wt \in store[k].mounts \cap Worktree :
       Open(c, "merge.put", k, [store[k] EXCEPT !.mounts = @ \ {wt}], None)
  /\ UNCHANGED <<storeVars, tableVars, slot, bridgeVars, proxyVars, proc, watch>>

MergeGet(c, k) ==
  /\ Begin(c, "merge")
  /\ store[k] # None
  /\ \E wt \in store[k].mounts \cap Worktree :
       Open(c, "merge.put", k,
            [store[k] EXCEPT !.mounts = @ \ {wt},
               !.state = IF isActive(@) THEN "reload-pending" ELSE @], None)
  /\ UNCHANGED <<storeVars, tableVars, slot, bridgeVars, proxyVars, proc, watch>>

MergePut(c) ==
  /\ At(c, "merge.put")
  /\ Set(req[c].key, req[c].sb) /\ (Persist \/ NotPersisted)
  /\ Done(c)
  /\ UNCHANGED <<tableVars, slot, bridgeVars, proxyVars, proc, watch>>

----------------------------------------------------------------------------
(* Attach, and the session it opens: control.handleAttach relays until the
   client leaves or the process ends, then runs the detach closure, which
   frees the key's slot. *)

AttachGet(c, k) ==
  /\ Begin(c, "attach")
  /\ store[k] # None /\ isActive(store[k].state)
  /\ Open(c, "attach.try", k, None, None)
  /\ UNCHANGED <<storeVars, tableVars, slot, bridgeVars, proxyVars, proc, watch>>

AttachTry(c) ==
  LET k == req[c].key IN
  /\ At(c, "attach.try")
  /\ IF k \in slot THEN Done(c) /\ UNCHANGED slot
     ELSE slot' = slot \cup {k} /\ Goto(c, "attach.handle")
  /\ UNCHANGED <<storeVars, tableVars, bridgeVars, proxyVars, proc, watch>>

(* Slip: no handle, and the slot is kept. *)
AttachHandleKeeps(c) ==
  LET h == handles[req[c].key] IN
  /\ At(c, "attach.handle")
  /\ IF h = None THEN Done(c)
     ELSE req' = [req EXCEPT ![c].pc = "attach.dial", ![c].old = h]
  /\ UNCHANGED <<storeVars, tableVars, slot, bridgeVars, proxyVars, proc, watch>>

AttachHandle(c) ==
  LET h == handles[req[c].key] IN
  /\ At(c, "attach.handle")
  /\ IF h = None THEN Goto(c, "attach.detach")
     ELSE req' = [req EXCEPT ![c].pc = "attach.dial", ![c].old = h]
  /\ UNCHANGED <<storeVars, tableVars, slot, bridgeVars, proxyVars, proc, watch>>

AttachDial(c) ==
  /\ At(c, "attach.dial")
  /\ IF Alive(req[c].old) THEN Goto(c, "attached") ELSE Goto(c, "attach.detach")
  /\ UNCHANGED <<storeVars, tableVars, slot, bridgeVars, proxyVars, proc, watch>>

SessionEnd(c) ==
  /\ At(c, "attached")
  /\ Goto(c, "attach.detach")
  /\ UNCHANGED <<storeVars, tableVars, slot, bridgeVars, proxyVars, proc, watch>>

AttachDetach(c) ==
  /\ At(c, "attach.detach")
  /\ slot' = slot \ {req[c].key}
  /\ Done(c)
  /\ UNCHANGED <<storeVars, tableVars, bridgeVars, proxyVars, proc, watch>>

----------------------------------------------------------------------------
(* watchLoop.  The epoch is compared once, when Wait returns; the record is
   read after that, and nothing is looked at again across the backoff. *)

WAt(p, pc) == watch[p].pc = pc /\ UNCHANGED <<startVars, boundVars, req, slot,
                                              bridgeVars>>
WGoto(p, pc) == watch' = [watch EXCEPT ![p].pc = pc]
WDone(p) == watch' = [watch EXCEPT ![p] = NoWatch]

WatchExit(p) ==
  /\ WAt(p, "wait") /\ Dead(p)
  /\ IF epoch[watch[p].key] = watch[p].epoch THEN WGoto(p, "get") ELSE WDone(p)
  /\ UNCHANGED <<storeVars, tableVars, proxyVars, proc>>

FinalState(sb, clean) ==
  IF sb.policy = "on-failure" /\ ~clean THEN "restart-exhausted"
  ELSE IF clean THEN "stopped" ELSE "crashed"

WatchGet(p) ==
  LET sb == store[watch[p].key]
      clean == proc[p].st = "clean"
  IN
  /\ WAt(p, "get")
  /\ IF sb = None THEN WDone(p)
     ELSE watch' = IF shouldRestart(sb, clean)
            THEN [watch EXCEPT ![p].pc = "restarting",
                    ![p].sb = [sb EXCEPT !.count = @ + 1, !.state = "restarting"]]
            ELSE [watch EXCEPT ![p].pc = "clear",
                    ![p].sb = [sb EXCEPT !.state = FinalState(sb, clean)]]
  /\ UNCHANGED <<storeVars, tableVars, proxyVars, proc>>

(* store.Put of the working copy; watchLoop ignores its error. *)
WatchPut(p, from) ==
  /\ WAt(p, from)
  /\ Set(watch[p].key, watch[p].sb) /\ (Persist \/ NotPersisted)
  /\ UNCHANGED <<tableVars, proxyVars, proc>>

WatchRestarting(p) == WatchPut(p, "restarting") /\ WGoto(p, "backoff")

(* Slip: a failed relaunch just ends the loop. *)
WatchRelaunchGivesUp(p) ==
  LET sb == watch[p].sb IN
  /\ WAt(p, "backoff")
  /\ \/ \E q \in Process :
          /\ Launch(q, watch[p].key, sb)
          /\ watch' = [watch EXCEPT ![p].pc = "running", ![p].new = q,
                         ![p].sb = [captureHandleInfo(sb, q) EXCEPT
                                      !.state = "running"]]
     \/ LaunchFails /\ WDone(p) /\ UNCHANGED proc
  /\ UNCHANGED <<storeVars, tableVars, proxyVars>>

WatchRelaunch(p) ==
  LET sb == watch[p].sb IN
  /\ WAt(p, "backoff")
  /\ \/ \E q \in Process :
          /\ Launch(q, watch[p].key, sb)
          /\ watch' = [watch EXCEPT ![p].pc = "running", ![p].new = q,
                         ![p].sb = [captureHandleInfo(sb, q) EXCEPT
                                      !.state = "running"]]
     \/ /\ LaunchFails /\ UNCHANGED proc
        /\ watch' = [watch EXCEPT ![p].pc = "crashed",
                                  ![p].sb.state = "crashed"]
  /\ UNCHANGED <<storeVars, tableVars, proxyVars>>

WatchCrashed(p) == WatchPut(p, "crashed") /\ WGoto(p, "crashed.clear")

WatchCrashedClear(p) ==
  /\ WAt(p, "crashed.clear")
  /\ clearHandle(watch[p].key)
  /\ WDone(p)
  /\ UNCHANGED <<storeVars, proxyVars, proc>>

WatchRunning(p) == WatchPut(p, "running") /\ WGoto(p, "sethandle")

(* Slip: the successor waits with the epoch read before setHandle. *)
WatchSetHandleStale(p) ==
  LET k == watch[p].key
      q == watch[p].new
  IN
  /\ WAt(p, "sethandle")
  /\ addrs' = addrs \cup {q}
  /\ setHandle(k, q)
  /\ watch' = [watch EXCEPT ![p] = NoWatch, ![q] = Watching(k, epoch[k])]
  /\ UNCHANGED <<storeVars, allow, proc>>

WatchSetHandle(p) ==
  LET k == watch[p].key
      q == watch[p].new
  IN
  /\ WAt(p, "sethandle")
  /\ addrs' = addrs \cup {q}
  /\ setHandle(k, q)
  /\ watch' = [watch EXCEPT ![p] = NoWatch, ![q] = Watching(k, epoch'[k])]
  /\ UNCHANGED <<storeVars, allow, proc>>

(* Slip: the dead handle stays registered. *)
WatchClearNot(p) ==
  /\ WAt(p, "clear")
  /\ WGoto(p, "final")
  /\ UNCHANGED <<storeVars, tableVars, proxyVars, proc>>

WatchClear(p) ==
  /\ WAt(p, "clear")
  /\ clearHandle(watch[p].key)
  /\ WGoto(p, "final")
  /\ UNCHANGED <<storeVars, proxyVars, proc>>

WatchFinal(p) == WatchPut(p, "final") /\ WDone(p)

----------------------------------------------------------------------------
(* The world: a process ends by itself; murod dies, with all it held in
   memory, and starts again: Load, Reconcile, ReattachAll, serve. *)

Exit(p) ==
  /\ Alive(p)
  /\ Permitted
  /\ \E st \in {"clean", "failed"} : proc' = [proc EXCEPT ![p].st = st]
  /\ UNCHANGED <<storeVars, tableVars, slot, bridgeVars, proxyVars, req, watch,
                 startVars, boundVars>>

Crash ==
  /\ murod # "down"
  /\ Permitted
  /\ crashes < MaxCrash /\ crashes' = crashes + 1
  /\ murod' = "down" /\ pending' = {}
  /\ store' = [k \in Key |-> None]
  /\ handles' = [k \in Key |-> None] /\ epoch' = [k \in Key |-> 0]
  /\ slot' = {} /\ agents' = {} /\ inboxes' = {} /\ tools' = {}
  /\ allow' = [i \in Id |-> None] /\ addrs' = {}
  /\ req' = [c \in Client |-> IdleReq]
  /\ watch' = [p \in Process |-> NoWatch]
  /\ UNCHANGED <<disk, proc, reqs>>

RunningIn(s) == {k \in Key : s[k] # None /\ s[k].state = "running"}

StartLoad ==
  /\ murod = "down"
  /\ store' = disk
  /\ murod' = "reconcile" /\ pending' = RunningIn(disk)
  /\ UNCHANGED <<disk, tableVars, slot, bridgeVars, proxyVars, proc, req, watch,
                 boundVars>>

(* Slip: a recorded pid is taken for a live one. *)
ReconcileTrusts(k) ==
  /\ murod = "reconcile" /\ k \in pending
  /\ pending' = pending \ {k}
  /\ UNCHANGED <<storeVars, murod, tableVars, slot, bridgeVars, proxyVars, proc,
                 req, watch, boundVars>>

(* A failed Put ends the reconciliation; murod logs it and goes on. *)
Reconcile(k) ==
  /\ murod = "reconcile" /\ k \in pending
  /\ IF Alive(store[k].pid)
     THEN pending' = pending \ {k} /\ UNCHANGED storeVars
     ELSE /\ Set(k, [store[k] EXCEPT !.state = "stopped"])
          /\ \/ Persist /\ pending' = pending \ {k}
             \/ NotPersisted /\ pending' = {}
  /\ UNCHANGED <<murod, tableVars, slot, bridgeVars, proxyVars, proc, req,
                 watch, boundVars>>

StartReattach ==
  /\ murod = "reconcile" /\ pending = {}
  /\ murod' = "reattach" /\ pending' = RunningIn(store)
  /\ UNCHANGED <<storeVars, tableVars, slot, bridgeVars, proxyVars, proc, req,
                 watch, boundVars>>

(* Slip: the bridges' goroutines of the old murod are not started again. *)
ReattachBare(k) ==
  LET sb == store[k]
      p == sb.pid
  IN
  /\ murod = "reattach" /\ k \in pending
  /\ pending' = pending \ {k}
  /\ IF Alive(p)
     THEN /\ setHandle(k, p)
          /\ SetAllowlist(sb) /\ addrs' = addrs \cup {p}
          /\ watch' = [watch EXCEPT ![p] = Watching(k, epoch'[k])]
     ELSE UNCHANGED <<tableVars, proxyVars, watch>>
  /\ UNCHANGED <<storeVars, bridgeVars, murod, slot, proc, req, boundVars>>

(* Slip: the loop's variable is shared by its iterations, and a sandbox is
   registered under another one's key. *)
ReattachShared(k) ==
  \E l \in RunningIn(store) :
    LET sb == store[k]
        p == sb.pid
    IN
    /\ murod = "reattach" /\ k \in pending
    /\ pending' = pending \ {k}
    /\ startAgentBridge(l, sb) /\ startToolBridge(sb)
    /\ IF Alive(p)
       THEN /\ setHandle(l, p)
            /\ SetAllowlist(sb) /\ addrs' = addrs \cup {p}
            /\ watch' = [watch EXCEPT ![p] = Watching(l, epoch'[l])]
       ELSE UNCHANGED <<tableVars, proxyVars, watch>>
    /\ UNCHANGED <<storeVars, murod, slot, proc, req, boundVars>>

Reattach(k) ==
  LET sb == store[k]
      p == sb.pid
  IN
  /\ murod = "reattach" /\ k \in pending
  /\ pending' = pending \ {k}
  /\ startAgentBridge(k, sb) /\ startToolBridge(sb)
  /\ IF Alive(p)
     THEN /\ setHandle(k, p)
          /\ SetAllowlist(sb) /\ addrs' = addrs \cup {p}
          /\ watch' = [watch EXCEPT ![p] = Watching(k, epoch'[k])]
     ELSE UNCHANGED <<tableVars, proxyVars, watch>>
  /\ UNCHANGED <<storeVars, murod, slot, proc, req, boundVars>>

Serve ==
  /\ murod = "reattach" /\ pending = {}
  /\ murod' = "up"
  /\ UNCHANGED <<storeVars, tableVars, slot, bridgeVars, proxyVars, proc, req,
                 watch, pending, boundVars>>

----------------------------------------------------------------------------
Init ==
  /\ store = [k \in Key |-> None] /\ disk = store
  /\ handles = [k \in Key |-> None] /\ epoch = [k \in Key |-> 0]
  /\ slot = {} /\ agents = {} /\ inboxes = {} /\ tools = {}
  /\ allow = [i \in Id |-> None] /\ addrs = {}
  /\ proc = [p \in Process |-> Unborn]
  /\ req = [c \in Client |-> IdleReq]
  /\ watch = [p \in Process |-> NoWatch]
  /\ murod = "up" /\ pending = {}
  /\ reqs = 0 /\ crashes = 0

(* A handler's first step, and the steps it then always takes. *)
RequestBegin(c) ==
  \/ UpdateBegin(c)
  \/ \E k \in Key : \/ RunCheck(c, k) \/ ReloadGet(c, k) \/ RestartGet(c, k)
                    \/ StopGet(c, k) \/ DeleteGet(c, k) \/ MergeGet(c, k)
                    \/ AttachGet(c, k)

RequestStep(c) ==
  \/ RunLaunch(c) \/ RunPut(c) \/ RunUndo(c) \/ RunSetHandle(c) \/ RunWatch(c)
  \/ UpdatePut(c) \/ UpdateProxy(c)
  \/ ReloadHandle(c) \/ ReloadPut(c)
  \/ RestartHandle(c) \/ RestartClear(c) \/ RestartKill(c) \/ RestartLaunch(c)
  \/ RestartCrashed(c) \/ RestartPut(c) \/ RestartProxy(c) \/ RestartWatch(c)
  \/ StopPut(c) \/ StopHandle(c) \/ StopClear(c) \/ StopKill(c)
  \/ DeleteStore(c) \/ MergePut(c)
  \/ AttachTry(c) \/ AttachHandle(c) \/ AttachDial(c) \/ AttachDetach(c)

WatchStep(p) ==
  \/ WatchExit(p) \/ WatchGet(p) \/ WatchRestarting(p) \/ WatchRelaunch(p)
  \/ WatchCrashed(p) \/ WatchCrashedClear(p) \/ WatchRunning(p)
  \/ WatchSetHandle(p) \/ WatchClear(p) \/ WatchFinal(p)

Startup ==
  \/ StartLoad \/ StartReattach \/ Serve
  \/ \E k \in Key : Reconcile(k) \/ Reattach(k)

Next ==
  \/ \E c \in Client : RequestBegin(c) \/ RequestStep(c) \/ SessionEnd(c)
  \/ \E p \in Process : WatchStep(p) \/ Exit(p)
  \/ Crash \/ Startup

Spec == Init /\ [][Next]_vars

(* Goroutines are scheduled, every call a handler makes returns (a refused
   SIGTERM is followed by SIGKILL, a backoff is a bounded sleep), systemd
   starts murod again, and a session ends once its process is gone.  Nothing
   makes a process exit, a client leave or a request arrive. *)
FairSpec ==
  /\ Spec
  /\ \A c \in Client : /\ WF_vars(RequestStep(c))
                       /\ WF_vars(SessionEnd(c) /\ Dead(req[c].old))
  /\ \A p \in Process : WF_vars(WatchStep(p))
  /\ WF_vars(Startup)

=============================================================================
