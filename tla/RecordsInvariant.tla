-------------------------- MODULE RecordsInvariant --------------------------
(***************************************************************************)
(* What RestartBudget and BridgesUp rest on, where requests, exits and     *)
(* crashes only meet a settled murod and no client asks for a restart: a   *)
(* goroutine that has read a record is the only one that is at work, so    *)
(* that what it puts back is still true of the sandbox.                    *)
(***************************************************************************)
EXTENDS SerialInvariant

(* What these are invariants under; README.md says what TLC finds when one of
   these is lifted.  Limited and Undone are what the budget needs beyond them: an
   "always" sandbox is relaunched without limit, and a Run whose write fails is
   undone for good unless the signal is refused too.  StopsSaved is what the
   listeners need: a Stop whose write fails has closed them and goes no further. *)
OneByOne ==
  /\ ~Overlap
  /\ Ops \cap {"restart", "from-profile"} = {}
Limited == \A pf \in Profile : pf.policy # "always"
Undone == ~({"put", "stop"} \subseteq Faults)
StopsSaved == ~("put" \in Faults /\ "stop" \in Ops)

RestartPcs == {"restart.handle", "restart.clear", "restart.kill", "restart.launch",
               "restart.crashed", "restart.put", "restart.proxy", "restart.watch"}

(* A watchLoop that has an exit to deal with, whatever its epoch. *)
Busy(p) == Waits(p) /\ (watch[p].pc = "wait" => ~Alive(p))

OneAtWork ==
  /\ \A c, d \in Client : Working(c) /\ Working(d) => c = d
  /\ \A p, q \in Process : Busy(p) /\ Busy(q) => p = q
  /\ \A c \in Client, p \in Process : ~(Working(c) /\ Busy(p))
  /\ murod # "up" => \A p \in Process : ~Busy(p)
  /\ \A c \in Client : req[c].pc \notin RestartPcs

(* The processes ever launched under an id; there is none yet of a Run's. *)
LaunchedAs(i) == {p \in Process : proc[p].id = i}
NewIds == \A c \in Client : req[c].pc = "run.launch" => LaunchedAs(req[c].sb.id) = {}

AloneInv == OneAtWork /\ IdsApart /\ NewIds

----------------------------------------------------------------------------
(* The budget.  A copy of a record counts every relaunch under its id as long as
   its process lives; where writes fail, what is on disk may lag behind, but then
   it is of a process that is dead, and nothing is relaunched from it. *)
Counts(sb) == Cardinality(LaunchedAs(sb.id)) <= 1 + sb.count
Allowed(sb) == sb.id \in Id /\ sb.policy # "always" /\ sb.count \in 0 .. MaxRestart
Within(sb) == /\ Allowed(sb)
              /\ sb.pid \in Process /\ proc[sb.pid].id = sb.id
              /\ Alive(sb.pid) => Counts(sb)

(* The copy of a loop that is about to relaunch counts the relaunch already. *)
Spent(w) ==
  /\ w.pc \in CopyPcs => Counts(w.sb)
  /\ w.pc \in {"restarting", "backoff"} => Cardinality(LaunchedAs(w.sb.id)) <= w.sb.count

ReqWithin(r) ==
  /\ r.pc = "run.launch" => Allowed(r.sb)
  /\ r.pc \in SbPcs \ {"run.launch"} => Within(r.sb)
  /\ r.pc \in UpdatePcs => \A k \in Key : r.todo[k] # None => Within(r.todo[k])

Counted == \A i \in Id : /\ IsFiniteSet(LaunchedAs(i))
                         /\ Cardinality(LaunchedAs(i)) <= 1 + MaxRestart
StoreWithin == \A k \in Key : /\ store[k] # None => Within(store[k])
                              /\ disk[k] # None => Within(disk[k])
ReqsWithin == \A c \in Client : ReqWithin(req[c])
LoopsWithin == \A p \in Process : /\ watch[p].pc \in CopyPcs => Within(watch[p].sb)
                                  /\ Spent(watch[p])

BudgetInv == Counted /\ StoreWithin /\ ReqsWithin /\ LoopsWithin

----------------------------------------------------------------------------
(* Why a loop that finds its process dead finds a record that counts: nothing
   else lives under the record's id, and no relaunch has gone uncounted. *)
OnlyAs(i, p) == \A q \in Process : Alive(q) /\ proc[q].id = i => q = p
NoneAs(i) == \A q \in Process : proc[q].id = i => ~Alive(q)
Tells(sb, p) == Counts(sb) /\ OnlyAs(sb.id, p)

(* A new process is on record already and its handle is not there yet. *)
RunPcs == {"run.launch", "run.put", "run.undo", "run.sethandle", "run.watch"}
Placing == {"run.undo", "run.sethandle"}
Settling(k) == \/ \E c \in Client : req[c].key = k /\ req[c].pc \in Placing
               \/ \E p \in Process : watch[p].key = k /\ watch[p].pc \in HeirPcs

OneLife == \A p, q \in Process : Alive(p) /\ Alive(q) /\ proc[p].id = proc[q].id => p = q
StoreTells == \A k \in Key : store[k] # None /\ handles[k] # None /\ ~Settling(k) =>
                Tells(store[k], handles[k])
ReqTells(r) ==
  /\ r.pc \in {"run.put"} \cup Placing => Tells(r.sb, r.new)
  /\ r.pc \in Placing => store[r.key] = r.sb
  /\ r.pc = "run.undo" => "put" \in Faults
  /\ r.pc \in SbPcs \ RunPcs =>
       (handles[r.key] # None => Tells(r.sb, handles[r.key]))
  /\ r.pc \in UpdatePcs =>
       \A k \in Key : r.todo[k] # None /\ handles[k] # None => Tells(r.todo[k], handles[k])
LoopTells(p, w) ==
  /\ w.pc \notin {"none", "wait"} => Dead(p)
  /\ w.pc \in CopyPcs \ HeirPcs => NoneAs(w.sb.id)
  /\ w.pc \in HeirPcs => OnlyAs(w.sb.id, w.new)
  /\ w.pc = "sethandle" => store[w.key] = w.sb

ReqsTell == \A c \in Client : ReqTells(req[c])
LoopsTell == \A p \in Process : LoopTells(p, watch[p])
LifeInv == OneLife /\ StoreTells /\ ReqsTell /\ LoopsTell

----------------------------------------------------------------------------
(* The listeners of a record that murod holds a handle of are up, but for a
   Stop that has not come to the handle yet. *)
Up(sb) == sb.id \in agents /\ (sb.git => sb.id \in tools)
StopPcs == {"stop.put", "stop.handle", "stop.clear"}
Stopping(k) == \E c \in Client : req[c].key = k /\ req[c].pc \in StopPcs

StoreUp == \A k \in Key : store[k] # None /\ handles[k] # None /\ ~Stopping(k) => Up(store[k])
ReqUp(r) ==
  /\ r.pc \in {"run.launch", "run.put"} => Up(r.sb)
  /\ r.pc = "run.sethandle" => (store[r.key] # None => Up(store[r.key]))
  /\ r.pc \in {"reload.handle", "reload.put", "merge.put"} =>
       (handles[r.key] # None => Up(r.sb))
  /\ r.pc \in UpdatePcs =>
       \A k \in Key : r.todo[k] # None /\ handles[k] # None => Up(r.todo[k])
WatchUp(w) ==
  /\ w.pc \in CopyPcs => Up(w.sb)
  /\ w.pc = "sethandle" => (store[w.key] # None => Up(store[w.key]))

ReqsUp == \A c \in Client : ReqUp(req[c])
LoopsUp == \A p \in Process : WatchUp(watch[p])

(* A loop whose epoch is current is that of the handle; so will the one be that
   a Run is about to start.  A loop about to read the record has found it so. *)
InHand(k, p, e) == e = epoch[k] => handles[k] = p
LoopInHand(p) ==
  /\ Waits(p) => InHand(watch[p].key, p, watch[p].epoch)
  /\ watch[p].pc = "get" => watch[p].epoch = epoch[watch[p].key]
StartInHand(c) == Starts(c) => InHand(req[c].key, req[c].new, req[c].epoch)
Handled == /\ \A p \in Process : LoopInHand(p)
           /\ \A c \in Client : StartInHand(c)

StopAsked == \A c \in Client : req[c].pc = "stop.put" => "stop" \in Ops

BridgeInv == Handled /\ StoreUp /\ ReqsUp /\ LoopsUp /\ StopAsked
=============================================================================
