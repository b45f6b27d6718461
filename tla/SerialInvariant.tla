-------------------------- MODULE SerialInvariant ---------------------------
(***************************************************************************)
(* Why a settled murod tells the truth, and why it implements SandboxLife, *)
(* where requests, exits and crashes only meet a settled murod: at most    *)
(* one goroutine is at work (a request, or the watchLoop of a process that *)
(* has died), and what it has done so far to its sandbox is known from     *)
(* where it is.  Every other sandbox is held or gone.                      *)
(***************************************************************************)
EXTENDS ManagerLife

(* What SerialInv is an invariant under; README.md says what breaks it when
   one of these is lifted. *)
Serially ==
  /\ ~Overlap
  /\ Faults \subseteq {"launch"}
  /\ "merge" \notin Ops
  /\ \A d \in Delta : d.mounts = {}

----------------------------------------------------------------------------
(* One sandbox. *)

Nobody(k) == \A p \in Process : Alive(p) => proc[p].key # k
Only(k, p) == /\ p \in Process /\ Alive(p) /\ proc[p].key = k
              /\ \A q \in Process : Alive(q) /\ proc[q].key = k => q = p

Running(k) == store[k] # None /\ store[k].state = "running"
Active(k) == store[k] # None /\ isActive(store[k].state)
Inactive(k) == ~Active(k)

(* The loop of p will see p exit, and find its epoch current. *)
Minds(p, k) == /\ watch[p].pc = "wait" /\ watch[p].key = k
               /\ watch[p].epoch = epoch[k]
Unminded(k) == \A p \in Process : Waits(p) /\ watch[p].key = k =>
                                    watch[p].epoch # epoch[k]
Listed(k) == allow[store[k].id] = store[k].urls

(* The record, its process and the handle agree... *)
Backed(k) == /\ Running(k) /\ handles[k] = store[k].pid /\ Only(k, store[k].pid)
             /\ Minds(store[k].pid, k) /\ store[k].pid \in addrs
Held(k) == Backed(k) /\ Listed(k)
(* ... and so they do when nothing of the sandbox runs. *)
Gone(k) == Inactive(k) /\ handles[k] = None /\ Nobody(k)
Rest(k) == Held(k) \/ Gone(k)

----------------------------------------------------------------------------
(* The goroutine at work. *)

AttachPcs == {"attach.try", "attach.handle", "attach.dial", "attached",
              "attach.detach"}
Working(c) == req[c].pc \notin {"idle"} \cup AttachPcs
Handling(p) == /\ Waits(p)
               /\ watch[p].pc = "wait" => /\ Dead(p)
                                          /\ watch[p].epoch = epoch[watch[p].key]

(* An Update's candidates differ from what is stored in their urls. *)
Drafted(r) ==
  \A k \in Key : r.todo[k] # None =>
    /\ store[k] # None
    /\ r.todo[k].state = store[k].state
    /\ r.todo[k].pid = store[k].pid
    /\ r.todo[k].id = store[k].id
    /\ r.arg.allow \cup r.arg.deny = {} => r.todo[k].urls = store[k].urls

(* A new process, with its record not yet stored, stored and registered. *)
Fresh(r, k) == r.sb.state = "running" /\ r.sb.pid = r.new /\ Only(k, r.new)
Stored(r, k) == Fresh(r, k) /\ store[k] = r.sb

RunForm(r, k) ==
  \/ r.pc = "run.launch" /\ Gone(k) /\ r.sb.state = "running"
     /\ \A p \in Process : proc[p].id # r.sb.id
  \/ r.pc = "run.put" /\ Fresh(r, k) /\ Inactive(k) /\ handles[k] = None
  \/ r.pc = "run.sethandle" /\ Stored(r, k) /\ handles[k] = None
  \/ r.pc = "run.watch" /\ Stored(r, k) /\ handles[k] = r.new /\ r.epoch = epoch[k]
UpdateForm(r, k) ==
  \/ r.pc = "update.put" /\ Drafted(r) /\ \A l \in Key : Rest(l)
  \/ /\ r.pc = "update.proxy" /\ Drafted(r) /\ r.todo[k] = store[k]
     /\ Backed(k) \/ Gone(k)
     /\ r.arg.allow \cup r.arg.deny = {} => Rest(k)
RestartForm(r, k) ==
  \/ r.pc = "restart.handle" /\ store[k] # None /\ Rest(k)
  \/ r.pc = "restart.clear" /\ Held(k) /\ r.old = handles[k]
  \/ r.pc = "restart.kill" /\ Running(k) /\ handles[k] = None
     /\ Only(k, r.old) /\ Unminded(k)
  \/ /\ r.pc \in {"restart.launch", "restart.crashed"}
     /\ store[k] # None /\ handles[k] = None /\ Nobody(k)
     /\ r.pc = "restart.crashed" => r.sb.state = "crashed"
  \/ r.pc = "restart.put" /\ store[k] # None /\ Fresh(r, k) /\ handles[k] = None
  \/ r.pc = "restart.proxy" /\ Stored(r, k) /\ handles[k] = None
  \/ r.pc = "restart.watch" /\ Stored(r, k) /\ handles[k] = None
     /\ Listed(k) /\ r.new \in addrs
StopForm(r, k) ==
  \/ r.pc = "stop.put" /\ store[k] # None /\ Rest(k) /\ r.sb.state = "stopped"
  \/ r.pc = "stop.handle" /\ store[k] # None /\ Inactive(k)
     /\ \/ handles[k] = None /\ Nobody(k)
        \/ Only(k, handles[k])
  \/ r.pc = "stop.clear" /\ store[k] # None /\ Inactive(k)
     /\ r.old = handles[k] /\ Only(k, r.old)
  \/ r.pc = "stop.kill" /\ store[k] # None /\ Inactive(k) /\ handles[k] = None
     /\ Only(k, r.old) /\ Unminded(k)
DeleteForm(r, k) == r.pc = "delete.store" /\ store[k] # None /\ Gone(k)

ReqForm(r, k) ==
  RunForm(r, k) \/ UpdateForm(r, k) \/ RestartForm(r, k) \/ StopForm(r, k) \/ DeleteForm(r, k)

(* The loop of p, from the moment p dies.  Its handle is p until it changes it. *)
WatchForm(p, w, k) ==
  \/ /\ w.pc \in {"wait", "get", "restarting"} /\ Running(k)
     /\ handles[k] = p /\ w.epoch = epoch[k] /\ Nobody(k) /\ Listed(k)
     /\ w.pc = "restarting" =>
          w.sb.state = "restarting" /\ w.sb.id = store[k].id /\ w.sb.urls = store[k].urls
  \/ /\ w.pc \in {"backoff", "crashed"} /\ Active(k) /\ handles[k] = p /\ Nobody(k)
     /\ Listed(k) /\ w.sb.id = store[k].id /\ w.sb.urls = store[k].urls
     /\ w.pc = "crashed" => w.sb.state = "crashed"
  \/ /\ w.pc = "crashed.clear" /\ store[k] # None /\ Inactive(k) /\ Nobody(k)
  \/ /\ w.pc = "running" /\ Active(k) /\ w.sb.state = "running" /\ w.sb.pid = w.new
     /\ w.new # p /\ Only(k, w.new) /\ allow[w.sb.id] = w.sb.urls
  \/ /\ w.pc = "sethandle" /\ store[k] = w.sb /\ Running(k) /\ w.sb.pid = w.new
     /\ w.new # p /\ Only(k, w.new) /\ Listed(k)
  \/ /\ w.pc \in {"clear", "final"} /\ Active(k) /\ Nobody(k) /\ ~isActive(w.sb.state)
     /\ w.pc = "final" => handles[k] = None

AtRest == /\ \A c \in Client : ~Working(c)
          /\ \A p \in Process : ~Handling(p)
          /\ \A k \in Key : Rest(k)
RequestAtWork ==
  \E c \in Client : /\ Working(c) /\ ReqForm(req[c], req[c].key)
                    /\ \A l \in Key \ {req[c].key} : Rest(l)
                    /\ \A d \in Client \ {c} : ~Working(d)
                    /\ \A p \in Process : ~Handling(p)
WatchAtWork ==
  \E p \in Process : /\ Handling(p) /\ WatchForm(p, watch[p], watch[p].key)
                     /\ \A l \in Key \ {watch[p].key} : Rest(l)
                     /\ \A c \in Client : ~Working(c)
                     /\ \A q \in Process \ {p} : ~Handling(q)

----------------------------------------------------------------------------
(* Startup. *)

(* What lives is what the record says runs. *)
Told(k, sb) == \A p \in Process : Alive(p) /\ proc[p].key = k =>
                 sb # None /\ sb.state = "running" /\ sb.pid = p
Plain(sb) == sb # None /\ isActive(sb.state) => sb.state = "running"

Down == /\ \A k \in Key : store[k] = None /\ Told(k, disk[k]) /\ Plain(disk[k])
Reconciling ==
  \A k \in Key : /\ Told(k, store[k]) /\ Plain(store[k])
                 /\ k \notin pending /\ Running(k) => Alive(store[k].pid)
Reattaching ==
  /\ \A k \in pending : Running(k) /\ Only(k, store[k].pid)
  /\ \A k \in Key \ pending : Rest(k)
  /\ \A p \in Process : ~Handling(p)

(* A process is some sandbox's, and the same id is the same sandbox. *)
Born(p) == proc[p] # Unborn
IdsApart == \A p \in Process : Born(p) =>
              /\ proc[p].key \in Key
              /\ \A q \in Process : proc[q].id = proc[p].id => proc[q].key = proc[p].key

SerialInv ==
  /\ IdsApart
  /\ murod # "down" => disk = store
  /\ CASE murod = "down" -> Down
       [] murod = "reconcile" -> Reconciling
       [] murod = "reattach" -> Reattaching
       [] murod = "up" -> AtRest \/ RequestAtWork \/ WatchAtWork
=============================================================================
