-------------------------- MODULE ManagerInvariant --------------------------
(***************************************************************************)
(* The inductive invariant behind ManagerProperties' safety properties:    *)
(* which goroutine holds what at which of its steps.                       *)
(***************************************************************************)
EXTENDS ManagerProperties

(* The steps of a request at which its fields are set. *)
NoKeyPcs == {"idle", "update.put"}
SbPcs == {"run.launch", "run.put", "run.undo", "run.sethandle", "run.watch",
          "reload.handle", "reload.put", "restart.handle", "restart.clear",
          "restart.kill", "restart.launch", "restart.crashed", "restart.put",
          "restart.proxy", "restart.watch", "stop.put", "stop.handle",
          "stop.clear", "stop.kill", "delete.store", "merge.put"}
NewPcs == {"run.put", "run.undo", "run.sethandle", "run.watch",
           "restart.put", "restart.proxy", "restart.watch"}
OldPcs == {"restart.clear", "restart.kill", "stop.clear", "stop.kill",
           "attach.dial", "attached"}
UpdatePcs == {"update.put", "update.proxy"}

ReqOK(r) ==
  /\ r.pc \notin NoKeyPcs => r.key \in Key
  /\ r.pc \in SbPcs => r.sb \in Record
  /\ r.pc \in NewPcs => r.new \in Process
  /\ r.pc \in OldPcs => r.old \in Process
  /\ r.pc \in UpdatePcs => r.arg \in Delta
  /\ r.pc = "update.proxy" => r.todo[r.key] \in Record

(* The steps of a watchLoop at which its working copy and its successor's
   process are set. *)
CopyPcs == {"restarting", "backoff", "crashed", "crashed.clear", "running",
            "sethandle", "clear", "final"}
HeirPcs == {"running", "sethandle"}

WatchOK(w) ==
  /\ w.pc # "none" => w.key \in Key
  /\ w.pc \in CopyPcs => w.sb \in Record
  /\ w.pc \in HeirPcs => w.new \in Process

ReqsOK == req \in [Client -> ReqType] /\ \A c \in Client : ReqOK(req[c])
WatchesOK == watch \in [Process -> WatchType] /\ \A p \in Process : WatchOK(watch[p])

(* TypeOK, and what each control point adds to it. *)
Types == /\ StoreOK /\ TableOK /\ BridgeOK /\ ProxyOK /\ StartOK /\ BoundOK
         /\ ProcOK /\ slot \subseteq Key
         /\ ReqsOK /\ WatchesOK

----------------------------------------------------------------------------
(* A goroutine that has been handed an epoch of a key: no epoch is handed out
   twice, and none is ahead of the counter. *)
Waits(p) == watch[p].pc # "none"
Starts(c) == req[c].pc = "run.watch"

EpochsPast ==
  /\ \A p \in Process : Waits(p) => watch[p].epoch <= epoch[watch[p].key]
  /\ \A c \in Client : Starts(c) => req[c].epoch <= epoch[req[c].key]

EpochsOnce ==
  /\ \A p, q \in Process :
       /\ Waits(p) /\ Waits(q)
       /\ watch[p].key = watch[q].key /\ watch[p].epoch = watch[q].epoch
       => p = q
  /\ \A c, d \in Client :
       /\ Starts(c) /\ Starts(d)
       /\ req[c].key = req[d].key /\ req[c].epoch = req[d].epoch
       => c = d
  /\ \A c \in Client, p \in Process :
       ~ /\ Starts(c) /\ Waits(p)
         /\ req[c].key = watch[p].key /\ req[c].epoch = watch[p].epoch

EpochInv == EpochsPast /\ EpochsOnce

----------------------------------------------------------------------------
(* A process on its way from Launch to its watchLoop belongs to one goroutine. *)
Brings(c, p) == req[c].pc \in NewPcs /\ req[c].new = p
Relaunches(q, p) == watch[q].pc \in HeirPcs /\ watch[q].new = p

Newborn ==
  \A p \in Process :
    /\ \A c \in Client : Brings(c, p) => ~Waits(p)
    /\ \A q \in Process : Relaunches(q, p) => ~Waits(p)
    /\ \A c, d \in Client : Brings(c, p) /\ Brings(d, p) => c = d
    /\ \A q, r \in Process : Relaunches(q, p) /\ Relaunches(r, p) => q = r
    /\ \A c \in Client, q \in Process : ~(Brings(c, p) /\ Relaunches(q, p))

(* Every copy of a record, wherever it is held, is of a process launched for
   its key under its id; so is a handle, a process on its way and a process
   that is waited for. *)
Of(sb, k) == /\ sb.pid \in Process
             /\ proc[sb.pid].key = k
             /\ proc[sb.pid].id = sb.id

StoreCopies == \A k \in Key : /\ store[k] # None => Of(store[k], k)
                              /\ disk[k] # None => Of(disk[k], k)
HandleCopies == \A k \in Key : handles[k] # None => proc[handles[k]].key = k

ReqCopy(r) ==
  /\ r.pc \in SbPcs \ {"run.launch"} => Of(r.sb, r.key)
  /\ r.pc \in NewPcs => proc[r.new].key = r.key
  /\ r.pc \in UpdatePcs => \A k \in Key : r.todo[k] # None => Of(r.todo[k], k)
ReqCopies == \A c \in Client : ReqCopy(req[c])

WatchCopy(p, w) ==
  /\ w.pc # "none" => proc[p].key = w.key
  /\ w.pc \in CopyPcs => Of(w.sb, w.key)
  /\ w.pc \in HeirPcs => proc[w.new].key = w.key
WatchCopies == \A p \in Process : WatchCopy(p, watch[p])

CopiesOK == StoreCopies /\ HandleCopies /\ ReqCopies /\ WatchCopies

(* Startup: requests wait for it, and a sandbox still to be visited has no
   handle and no watchLoop. *)
StartInv ==
  /\ murod # "up" => \A c \in Client : req[c].pc = "idle"
  /\ murod \in {"down", "reconcile"} => \A p \in Process : ~Waits(p)
  /\ murod \in {"down", "reconcile"} => \A k \in Key : handles[k] = None
  /\ murod \in {"down", "up"} => pending = {}
  /\ \A k \in pending : store[k] # None
  /\ murod = "reattach" =>
       \A k \in pending : /\ handles[k] = None
                          /\ \A p \in Process : Waits(p) => watch[p].key # k

(* Without Delete, what a goroutine works on stays in the store. *)
KnownPcs == SbPcs \ {"run.launch", "run.put", "run.undo"}
Known ==
  /\ \A c \in Client : /\ req[c].pc # "delete.store"
                       /\ req[c].pc \in KnownPcs => store[req[c].key] # None
  /\ \A p \in Process : Waits(p) => store[watch[p].key] # None

(* The inductive invariant.  The types and the copies need StartInv (what
   startup visits has a record); a record's process is a process because of
   CopiesOK. *)
IInv == Types /\ CopiesOK /\ StartInv /\ EpochInv

(* What HandleWatched rests on where no request deletes. *)
InvNoDelete == IInv /\ Newborn /\ Known /\ HandleWatched

----------------------------------------------------------------------------
(* What MountsShown rests on: a record that says running is of a process with
   its mounts, and so is every copy that some goroutine may still put; only
   a Restart that has not launched yet works on a copy that is not.  Reload
   would take a record without mounts for up to date. *)
Mounted == /\ \A d \in Delta : d.mounts # {}
           /\ \A pf \in Profile : ~(pf.mounts \subseteq Worktree)

Based(sb) == ~(sb.mounts \subseteq Worktree)
Shows(sb) == sb.state = "running" => proc[sb.pid].mounts = sb.mounts
Fits(sb) == sb # None => Based(sb) /\ Shows(sb)

AheadPcs == {"run.launch", "restart.handle", "restart.clear", "restart.kill",
             "restart.launch"}
ReqFits(r) ==
  /\ r.pc \in SbPcs => Based(r.sb)
  /\ r.pc \in SbPcs \ AheadPcs => Shows(r.sb)
  /\ r.pc = "reload.handle" => r.sb.state = "reload-pending"
  /\ r.pc \in UpdatePcs => \A k \in Key : Fits(r.todo[k])
WatchFits(w) == w.pc \in CopyPcs => Fits(w.sb)

MountsInv ==
  /\ \A k \in Key : Fits(store[k]) /\ Fits(disk[k])
  /\ \A c \in Client : ReqFits(req[c])
  /\ \A p \in Process : WatchFits(watch[p])

=============================================================================
