---------------------------- MODULE ToolsProofs -----------------------------
(***************************************************************************)
(* The theorems about the git tool-proxy and the git working trees, for    *)
(* any number of clients, policies, requests, trees, branches and edits.   *)
(* First the types of Worktrees' variables, and that a request changes     *)
(* allowed branches only; then that nothing that was committed or typed    *)
(* is lost.                                                                *)
(***************************************************************************)
EXTENDS ToolsProperties, TLAPS

TreeRec == [there: BOOLEAN, head: Branch \cup {""}, dirty: BOOLEAN, base: Branch \cup {""}]
RecRec == [id: Id \cup {0}, state: {"none", "running", "stopped", "crashed"},
           wt: BOOLEAN, base: Branch \cup {""}]
RunOp == [at: {"create", "sidecar", "launch", "put"}, id: Id, fresh: BOOLEAN,
          base: Branch \cup {""}]
WorkOp == {r \in [at: {"on", "clean", "squash", "commit", "reset", "delete", "remove", "branch",
                       "put"},
                  old: RecRec, merge: BOOLEAN, force: BOOLEAN] : r.old.id \in Id}
OpRec == {NoOp} \cup RunOp \cup WorkOp
ReqRec == [id: Id, ask: Ask,
           at: {"branch", "plan", "run", "held", "late", "refused", "answered"}]

(* What a branch reaches: commits of agents and saved edits of the operator. *)
Entry == Nat \cup Typed

GitTypes ==
  /\ tree \in [Id -> TreeRec] /\ refs \subseteq Branch
  /\ log \in [Branch -> SUBSET Entry] /\ squashed \in [Branch -> SUBSET Entry]
  /\ remote \in [Branch -> SUBSET Entry] /\ made \in Nat
RecTypes == rec \in RecRec /\ (rec = NoRec \/ rec.id \in Id) /\ box \in Id \cup {NoBox}
HostTypes ==
  checkout \in [on: Branch, edits: SUBSET Typed, index: SUBSET Entry, typed: SUBSET Typed]
ReqTypes == req \in [Req -> {NoReq} \cup ReqRec]
OpTypes == op \in [Client -> OpRec]
Types == GitTypes /\ RecTypes /\ HostTypes /\ ReqTypes /\ OpTypes

(* The point an operation is at says what it holds. *)
LEMMA OpKind ==
  ASSUME OpTypes, NEW c \in Client
  PROVE  /\ op[c].at \in {"create", "sidecar", "launch"} => op[c] \in RunOp
         /\ op[c].at \in {"on", "clean", "squash", "commit", "reset", "delete", "remove", "branch"}
              => op[c] \in WorkOp
         /\ op[c].at = "put" => IF "old" \in DOMAIN op[c] THEN op[c] \in WorkOp
                                ELSE op[c] \in RunOp
<1>1. op[c] \in OpRec
  BY DEF OpTypes
<1>2. op[c] \in RunOp => op[c].at \in {"create", "sidecar", "launch", "put"} /\ "old" \notin DOMAIN op[c]
  BY DEF RunOp
<1>3. op[c] \in WorkOp => "old" \in DOMAIN op[c]
                          /\ op[c].at \notin {"create", "sidecar", "launch", "idle"}
  BY DEF WorkOp
<1>4. NoOp.at = "idle"
  BY DEF NoOp
<1> QED BY <1>1, <1>2, <1>3, <1>4 DEF OpRec

LEMMA OpOne ==
  ASSUME OpTypes, NEW c \in Client, NEW r \in OpRec, op' = [op EXCEPT ![c] = r]
  PROVE  OpTypes'
  BY DEF OpTypes

LEMMA OpGo ==
  ASSUME OpTypes, NEW c \in Client, NEW point,
         \/ op[c] \in RunOp /\ point \in {"create", "sidecar", "launch", "put"}
         \/ op[c] \in WorkOp /\ point \in {"on", "clean", "squash", "commit", "reset", "delete",
                                           "remove", "branch", "put"},
         Go(c, point)
  PROVE  OpTypes'
<1> DEFINE r == [op[c] EXCEPT !.at = point]
<1>1. op' = [op EXCEPT ![c] = r]
  BY DEF Go
<1>2. r \in RunOp \cup WorkOp
  BY DEF RunOp, WorkOp
<1> HIDE DEF r
<1> QED BY <1>1, <1>2, OpOne DEF OpRec

LEMMA OpDone == ASSUME OpTypes, NEW c \in Client, Done(c) PROVE OpTypes'
  BY DEF Done, OpTypes, OpRec

LEMMA OpFinish == ASSUME OpTypes, NEW c \in Client, op[c] \in WorkOp, Finish(c) PROVE OpTypes'
  BY OpGo, OpDone DEF Finish

(* Run, Restart: what they change has its type. *)
LEMMA TypesRun ==
  ASSUME Types, NEW c \in Client,
         Run(c) \/ Restart(c) \/ Create(c) \/ Sidecar(c) \/ Launch(c) \/ PutRun(c)
  PROVE  Types'
<1> USE DEF Types
<1>1. CASE Run(c)
  <2>1. PICK i \in Id : op' = [op EXCEPT ![c] = [at |-> "create", id |-> i, fresh |-> TRUE, base |-> ""]]
    BY <1>1 DEF Run
  <2>2. OpTypes'
    BY <2>1, OpOne DEF OpRec, RunOp
  <2> QED BY <1>1, <2>2 DEF Run, gitVars, proxyVars, GitTypes, RecTypes, HostTypes, ReqTypes
<1>2. CASE Restart(c)
  <2>1. rec.id \in Id
    BY <1>2 DEF Restart, RecTypes
  <2>2. OpTypes'
    BY <1>2, <2>1, OpOne DEF Restart, OpRec, RunOp
  <2> QED BY <1>2, <2>2 DEF Restart, gitVars, proxyVars, GitTypes, RecTypes, HostTypes, ReqTypes
<1>3. CASE Create(c)
  <2>1. op[c] \in RunOp
    BY <1>3, OpKind DEF Create, At
  <2>2. UNCHANGED <<made, rec, box, checkout, squashed, remote, req>>
    BY <1>3 DEF Create, proxyVars
  <2>3. CASE tree[op[c].id].there \/ own \in refs
    <3> DEFINE r == [op[c] EXCEPT !.at = "launch", !.base = tree[op[c].id].base]
    <3>1. Done(c) \/ op' = [op EXCEPT ![c] = r]
      BY <1>3, <2>3 DEF Create
    <3>2. r \in RunOp
      BY <2>1 DEF RunOp, GitTypes, TreeRec
    <3> HIDE DEF r
    <3>3. OpTypes'
      BY <3>1, <3>2, OpDone, OpOne DEF OpRec
    <3>4. UNCHANGED <<tree, refs, log>>
      BY <1>3, <2>3 DEF Create
    <3> QED BY <2>2, <3>3, <3>4 DEF GitTypes, RecTypes, HostTypes, ReqTypes
  <2>4. CASE ~(tree[op[c].id].there \/ own \in refs)
    <3> DEFINE r == [op[c] EXCEPT !.at = "sidecar", !.base = checkout.on]
               t == [NoTree EXCEPT !.there = TRUE, !.head = own]
    <3>1. /\ op' = [op EXCEPT ![c] = r]
          /\ tree' = [tree EXCEPT ![op[c].id] = t]
          /\ refs' = refs \cup {own} /\ log' = [log EXCEPT ![own] = log[checkout.on]]
      BY <1>3, <2>4 DEF Create
    <3>2. r \in RunOp /\ t \in TreeRec
      BY <2>1, WorktreesAssumption DEF RunOp, TreeRec, HostTypes, NoTree
    <3> HIDE DEF r, t
    <3>3. OpTypes'
      BY <3>1, <3>2, OpOne DEF OpRec
    <3>4. GitTypes'
      BY <2>1, <2>2, <3>1, <3>2, WorktreesAssumption DEF GitTypes, HostTypes, RunOp
    <3> QED BY <2>2, <3>3, <3>4 DEF RecTypes, HostTypes, ReqTypes
  <2> QED BY <2>3, <2>4
<1>4. CASE Sidecar(c)
  <2>1. op[c] \in RunOp
    BY <1>4, OpKind DEF Sidecar, At
  <2> DEFINE t == [tree[op[c].id] EXCEPT !.base = op[c].base]
  <2>2. tree' = [tree EXCEPT ![op[c].id] = t]
    BY <1>4 DEF Sidecar
  <2>5. tree[op[c].id] \in TreeRec /\ op[c].base \in Branch \cup {""}
    BY <2>1 DEF RunOp, GitTypes
  <2>3. t \in TreeRec
    BY <2>5 DEF TreeRec
  <2> HIDE DEF t
  <2>4. OpTypes'
    BY <1>4, <2>1, OpGo DEF Sidecar
  <2> QED BY <1>4, <2>2, <2>3, <2>4
          DEF Sidecar, proxyVars, GitTypes, RecTypes, HostTypes, ReqTypes
<1>5. CASE Launch(c)
  <2>1. op[c] \in RunOp
    BY <1>5, OpKind DEF Launch, At
  <2>2. OpTypes'
    BY <1>5, <2>1, OpGo, OpDone DEF Launch
  <2>4. op[c].id \in Id /\ Record(c, "crashed") \in RecRec /\ Record(c, "crashed").id = op[c].id
    BY <2>1 DEF Record, RecRec, RunOp
  <2>5. /\ box' \in {op[c].id, NoBox} /\ rec' \in {rec, Record(c, "crashed")}
    BY <1>5 DEF Launch
  <2>3. RecTypes'
    BY <2>4, <2>5 DEF RecTypes
  <2> QED BY <1>5, <2>2, <2>3
          DEF Launch, gitVars, proxyVars, GitTypes, HostTypes, ReqTypes
<1>6. CASE PutRun(c)
  <2>1. op[c] \in RunOp
    BY <1>6, OpKind DEF PutRun, At
  <2>2. OpTypes'
    BY <1>6, OpDone DEF PutRun
  <2>3. RecTypes'
    BY <1>6, <2>1 DEF PutRun, Record, RecTypes, RecRec, RunOp
  <2> QED BY <1>6, <2>2, <2>3
          DEF PutRun, gitVars, proxyVars, GitTypes, HostTypes, ReqTypes
<1> QED BY <1>1, <1>2, <1>3, <1>4, <1>5, <1>6

(* Merge, Delete and what they share. *)
LEMMA TypesMerge ==
  ASSUME Types, NEW c \in Client,
         MergeGet(c) \/ MergeOn(c) \/ MergeClean(c) \/ MergeSquash(c) \/ MergeCommit(c)
         \/ MergeReset(c)
  PROVE  Types'
<1> USE DEF Types
<1>0. /\ op[c].at \in {"on", "clean", "squash", "commit", "reset"} => op[c] \in WorkOp
      /\ checkout.on \in Branch /\ checkout.index \in SUBSET Entry
  BY OpKind DEF HostTypes
<1>1. CASE MergeGet(c)
  <2> DEFINE r == [at |-> "on", old |-> rec, merge |-> TRUE, force |-> FALSE]
  <2>1. op' = [op EXCEPT ![c] = r] /\ rec.wt
    BY <1>1 DEF MergeGet
  <2>5. NoRec.wt = FALSE
    BY DEF NoRec
  <2>4. rec \in RecRec /\ rec.id \in Id
    BY <2>1, <2>5 DEF RecTypes
  <2>2. r \in WorkOp
    BY <2>4 DEF WorkOp
  <2> HIDE DEF r
  <2>3. OpTypes'
    BY <2>1, <2>2, OpOne DEF OpRec
  <2> QED BY <1>1, <2>3
          DEF MergeGet, gitVars, proxyVars, GitTypes, RecTypes, HostTypes, ReqTypes
<1>2. CASE MergeOn(c)
  <2>1. OpTypes'
    BY <1>0, <1>2, OpGo, OpDone DEF MergeOn, At
  <2> QED BY <1>2, <2>1
          DEF MergeOn, gitVars, proxyVars, GitTypes, RecTypes, HostTypes, ReqTypes
<1>3. CASE MergeClean(c)
  <2>1. OpTypes'
    BY <1>0, <1>3, OpGo, OpDone DEF MergeClean, At
  <2> QED BY <1>3, <2>1
          DEF MergeClean, gitVars, proxyVars, GitTypes, RecTypes, HostTypes, ReqTypes
<1>4. CASE MergeSquash(c)
  <2>1. OpTypes'
    BY <1>0, <1>4, OpGo DEF MergeSquash, At
  <2>2. log[own] \ log[checkout.on] \in SUBSET Entry
    BY <1>0, WorktreesAssumption DEF GitTypes
  <2>3. HostTypes'
    BY <1>4, <2>2 DEF MergeSquash, HostTypes
  <2> QED BY <1>4, <2>1, <2>3 DEF MergeSquash, gitVars, proxyVars, GitTypes, RecTypes, ReqTypes
<1>5. CASE MergeCommit(c)
  <2>1. OpTypes'
    BY <1>0, <1>5, OpGo DEF MergeCommit, At
  <2>2. HostTypes'
    BY <1>0, <1>5 DEF MergeCommit, HostTypes
  <2>3. squashed' \in [Branch -> SUBSET Entry]
    BY <1>0, <1>5 DEF MergeCommit, GitTypes
  <2> QED BY <1>5, <2>1, <2>2, <2>3 DEF MergeCommit, proxyVars, GitTypes, RecTypes, ReqTypes
<1>6. CASE MergeReset(c)
  <2>1. OpTypes'
    BY <1>6, OpDone DEF MergeReset
  <2>2. HostTypes'
    BY <1>6 DEF MergeReset, HostTypes
  <2> QED BY <1>6, <2>1, <2>2 DEF MergeReset, gitVars, proxyVars, GitTypes, RecTypes, ReqTypes
<1> QED BY <1>1, <1>2, <1>3, <1>4, <1>5, <1>6

LEMMA TypesRemove ==
  ASSUME Types, NEW c \in Client,
         Remove(c) \/ DeleteBranch(c) \/ PutMerge(c) \/ DeleteGet(c, TRUE) \/ DeleteGet(c, FALSE)
         \/ DeleteRec(c)
  PROVE  Types'
<1> USE DEF Types
<1>0. op[c].at \in {"delete", "remove", "branch"} => op[c] \in WorkOp
  BY OpKind
<1>1. CASE Remove(c)
  <2> DEFINE t == [tree[op[c].old.id] EXCEPT !.there = FALSE]
  <2>1. op[c] \in WorkOp
    BY <1>0, <1>1 DEF Remove, At
  <2>2. tree' = tree \/ tree' = [tree EXCEPT ![op[c].old.id] = t]
    BY <1>1 DEF Remove
  <2>5. op[c].old.id \in Id /\ tree[op[c].old.id] \in TreeRec
    BY <2>1 DEF WorkOp, GitTypes
  <2>3. t \in TreeRec
    BY <2>5 DEF TreeRec
  <2> HIDE DEF t
  <2>4. OpTypes'
    BY <1>1, <2>1, OpGo, OpFinish DEF Remove
  <2> QED BY <1>1, <2>2, <2>3, <2>4
          DEF Remove, proxyVars, GitTypes, RecTypes, HostTypes, ReqTypes
<1>2. CASE DeleteBranch(c)
  <2> DEFINE t == [tree[op[c].old.id] EXCEPT !.base = ""]
  <2>1. op[c] \in WorkOp
    BY <1>0, <1>2 DEF DeleteBranch, At
  <2>2. \/ UNCHANGED <<tree, refs, log>>
        \/ /\ tree' = [tree EXCEPT ![op[c].old.id] = t]
           /\ refs' = refs \ {own} /\ log' = [log EXCEPT ![own] = {}]
    BY <1>2 DEF DeleteBranch
  <2>5. op[c].old.id \in Id /\ tree[op[c].old.id] \in TreeRec
    BY <2>1 DEF WorkOp, GitTypes
  <2>3. t \in TreeRec
    BY <2>5 DEF TreeRec
  <2> HIDE DEF t
  <2>4. OpTypes'
    BY <1>2, <2>1, OpFinish DEF DeleteBranch
  <2>6. GitTypes'
    <3>1. UNCHANGED <<made, squashed, remote>>
      BY <1>2 DEF DeleteBranch
    <3> QED BY <2>2, <2>3, <3>1 DEF GitTypes
  <2> QED BY <1>2, <2>4, <2>6
          DEF DeleteBranch, proxyVars, RecTypes, HostTypes, ReqTypes
<1>3. CASE PutMerge(c)
  <2>1. op[c] \in WorkOp
    BY <1>3, OpKind DEF PutMerge, At
  <2>2. OpTypes'
    BY <1>3, OpDone DEF PutMerge
  <2>3. rec' \in RecRec /\ rec'.id \in Id
    BY <1>3, <2>1 DEF PutMerge, WorkOp, RecRec
  <2> QED BY <1>3, <2>2, <2>3
          DEF PutMerge, gitVars, proxyVars, GitTypes, RecTypes, HostTypes, ReqTypes
<1>4. ASSUME NEW discard \in BOOLEAN, DeleteGet(c, discard) PROVE Types'
  <2> DEFINE r == [at |-> "delete", old |-> rec, merge |-> FALSE, force |-> discard]
  <2>1. op' = [op EXCEPT ![c] = r] /\ rec # NoRec
    BY <1>4 DEF DeleteGet
  <2>4. rec \in RecRec /\ rec.id \in Id
    BY <2>1 DEF RecTypes
  <2>2. r \in WorkOp
    BY <1>4, <2>4 DEF WorkOp
  <2> HIDE DEF r
  <2>3. OpTypes'
    BY <2>1, <2>2, OpOne DEF OpRec
  <2> QED BY <1>4, <2>3
          DEF DeleteGet, gitVars, proxyVars, GitTypes, RecTypes, HostTypes, ReqTypes
<1>5. CASE DeleteRec(c)
  <2>1. OpTypes'
    BY <1>0, <1>5, OpGo, OpDone DEF DeleteRec, At
  <2>2. RecTypes'
    BY <1>5 DEF DeleteRec, RecTypes, NoRec, RecRec
  <2> QED BY <1>5, <2>1, <2>2
          DEF DeleteRec, gitVars, proxyVars, GitTypes, HostTypes, ReqTypes
<1> QED BY <1>1, <1>2, <1>3, <1>4, <1>5

(* A push leaves each branch of the remote as it is, empties it, or makes it what a
   branch of the repository is. *)
LEMMA PushDoes ==
  ASSUME GitTypes, NEW r \in Req, RunGit(r), req[r].ask.sub = "push"
  PROVE  /\ remote' \in [Branch -> SUBSET Entry]
         /\ \A b \in Branch : \/ remote'[b] \in {remote[b], {}}
                              \/ \E from \in refs : remote'[b] = log[from]
<1>1. \A u \in Update(r) : u.tip = {} \/ \E from \in refs : u.tip = log[from]
  <2> DEFINE spec == Refspec[req[r].ask.args[2]]
             from == Named(spec.src, r)
             tip == IF spec.src = "" THEN {} ELSE log[from]
  <2>0. \A u \in Update(r) : \E t, f : u = [to |-> t, tip |-> tip, flag |-> f]
    BY Zenon DEF Update
  <2>1. \A u \in Update(r) : spec.src = "" \/ from \in refs
    BY Zenon DEF Update
  <2> HIDE DEF spec, from, tip
  <2>2. \A u \in Update(r) : u.tip = tip
    BY <2>0
  <2>3. tip = {} \/ (spec.src # "" /\ tip = log[from])
    BY DEF tip
  <2> QED BY <2>1, <2>2, <2>3
<1>2. remote' = [b \in Branch |->
                   LET to == {u \in Update(r) : u.to = b /\ u.flag # "!"}
                   IN  IF to = {} THEN remote[b] ELSE (CHOOSE u \in to : TRUE).tip]
  BY DEF RunGit
<1>3. ASSUME NEW b \in Branch
      PROVE  remote'[b] \in {remote[b], {}} \/ \E from \in refs : remote'[b] = log[from]
  <2> DEFINE to == {u \in Update(r) : u.to = b /\ u.flag # "!"}
  <2>1. remote'[b] = remote[b] \/ \E u \in to : remote'[b] = u.tip
    BY <1>2
  <2> QED BY <1>1, <2>1
<1>4. \A b \in Branch : remote'[b] \in SUBSET Entry
  BY <1>3 DEF GitTypes
<1> QED BY <1>2, <1>3, <1>4

(* A pull adds to the branches what a branch of the remote has, and to no branch that
   does not exist then. *)
LEMMA PullDoes ==
  ASSUME GitTypes, NEW r \in Req, Pulls(r)
  PROVE  /\ log' \in [Branch -> SUBSET Entry] /\ squashed' \in [Branch -> SUBSET Entry]
         /\ refs \subseteq refs' /\ refs' \subseteq Branch
         /\ \A b \in Branch : log'[b] # log[b] => b \in refs' \/ (Tree(r).there /\ b = Tree(r).head)
         /\ \A b \in Branch : \A e \in log'[b] \ log[b] : \E from \in Branch : e \in remote[from]
<1>1. CASE UNCHANGED <<log, squashed, refs>>
  BY <1>1 DEF GitTypes
<1>2. CASE ~UNCHANGED <<log, squashed, refs>>
  <2> DEFINE spec == PullSpec(r)
             set == {b \in Branch : /\ spec.pair /\ b = spec.dst
                                    /\ spec.force \/ (log[b] \subseteq remote[spec.src]
                                                      /\ squashed[b] = {})}
  <2>1. /\ Tree(r).there /\ spec.src \in Branch
        /\ \E merged \in SUBSET {Tree(r).head} :
             log' = [b \in Branch |-> (IF b \in set THEN {} ELSE log[b]) \cup
                                      (IF b \in set \cup merged THEN remote[spec.src] ELSE {})]
        /\ squashed' = [b \in Branch |-> IF b \in set THEN {} ELSE squashed[b]]
        /\ refs' = refs \cup set
    BY <1>2 DEF Pulls
  <2>2. set \subseteq Branch
    OBVIOUS
  <2>3. PICK src \in Branch : src = spec.src
    BY <2>1
  <2> HIDE DEF set, spec
  <2>4. PICK merged \in SUBSET {Tree(r).head} :
          log' = [b \in Branch |-> (IF b \in set THEN {} ELSE log[b]) \cup
                                   (IF b \in set \cup merged THEN remote[src] ELSE {})]
    BY <2>1, <2>3
  <2>5. remote[src] \subseteq Entry
    BY DEF GitTypes
  <2>6. \A b \in Branch : log'[b] \subseteq log[b] \cup remote[src]
    BY <2>4
  <2>7. \A b \in Branch : log'[b] # log[b] => b \in set \cup merged
    BY <2>4
  <2>8. log' \in [Branch -> SUBSET Entry] /\ squashed' \in [Branch -> SUBSET Entry]
    BY <2>1, <2>4, <2>5 DEF GitTypes
  <2> QED BY <2>1, <2>2, <2>6, <2>7, <2>8 DEF GitTypes
<1> QED BY <1>1, <1>2

LEMMA TypesTools ==
  ASSUME Types, NEW r \in Req, ToolStep(r) \/ ToolRun(r) \/ ToolEnds(r)
  PROVE  Types'
<1> USE DEF Types
<1>0. req[r] # NoReq => req[r] \in ReqRec
  BY DEF ReqTypes
<1>1. ASSUME NEW point \in {"run", "held", "late", "refused", "answered"}, req[r].at # "idle",
             Goto(r, point)
      PROVE  ReqTypes'
  <2> DEFINE q == [req[r] EXCEPT !.at = point]
  <2>1. q \in ReqRec
    BY <1>0, <1>1 DEF NoReq, ReqRec
  <2>2. req' = [req EXCEPT ![r] = q]
    BY <1>1 DEF Goto
  <2> HIDE DEF q
  <2> QED BY <2>1, <2>2 DEF ReqTypes
<1>2. CASE ToolStep(r)
  <2>1. ReqTypes'
    BY <1>1, <1>2 DEF ToolStep, CheckCurrentBranch, PlanPush, LetGo
  <2> QED BY <1>2, <2>1 DEF ToolStep, CheckCurrentBranch, PlanPush, LetGo, gitVars, managerVars,
          GitTypes, RecTypes, HostTypes, OpTypes
<1>3. CASE ToolRun(r)
  <2>1. ReqTypes' /\ req[r] \in ReqRec
    BY <1>0, <1>1, <1>3 DEF ToolRun, RunGit, NoReq
  <2>2. GitTypes'
    <3>1. CASE req[r].ask.sub = "commit"
      <4> DEFINE t == [tree[req[r].id] EXCEPT !.dirty = FALSE]
                 l == log[Tree(r).head] \cup {made + 1}
      <4>1. tree[req[r].id] \in TreeRec
        BY <2>1 DEF ReqRec, GitTypes
      <4>2. t \in TreeRec
        BY <4>1 DEF TreeRec
      <4>3. made + 1 \in Nat /\ (Tree(r).head \in Branch => l \in SUBSET Entry)
        BY DEF GitTypes, Entry
      <4>4. /\ UNCHANGED <<refs, squashed, remote>>
            /\ \/ UNCHANGED <<made, log, tree>>
               \/ /\ made' = made + 1
                  /\ log' = [log EXCEPT ![Tree(r).head] = l]
                  /\ tree' = [tree EXCEPT ![req[r].id] = t]
        BY <1>3, <3>1 DEF ToolRun, RunGit, Commits
      <4> HIDE DEF t, l
      <4> QED BY <4>2, <4>3, <4>4 DEF GitTypes
    <3>2. CASE req[r].ask.sub = "push"
      <4>1. UNCHANGED <<tree, refs, log, squashed, made>>
        BY <1>3, <3>2 DEF ToolRun, RunGit
      <4> QED BY <1>3, <3>2, <4>1, PushDoes DEF ToolRun, GitTypes
    <3>3. CASE req[r].ask.sub = "pull"
      <4>1. UNCHANGED <<tree, remote, made>>
        BY <1>3, <3>3 DEF ToolRun, RunGit
      <4> QED BY <1>3, <3>3, <4>1, PullDoes DEF ToolRun, RunGit, GitTypes
    <3>4. CASE req[r].ask.sub \notin {"commit", "push", "pull"}
      BY <1>3, <3>4 DEF ToolRun, RunGit, gitVars, GitTypes
    <3> QED BY <3>1, <3>2, <3>3, <3>4
  <2> QED BY <1>3, <2>1, <2>2 DEF ToolRun, RecTypes, HostTypes, OpTypes
<1>4. CASE ToolEnds(r)
  <2>1. ReqTypes'
    BY <1>1, <1>4 DEF ToolEnds, Expire, Killed, Respond, ReqTypes
  <2> QED BY <1>4, <2>1 DEF ToolEnds, Expire, Respond, gitVars, managerVars,
          GitTypes, RecTypes, HostTypes, OpTypes
<1> QED BY <1>2, <1>3, <1>4

LEMMA TypesAgent == ASSUME Types, AgentStep PROVE Types'
<1> USE DEF Types
<1>1. box \in Id
  BY DEF AgentStep, RecTypes
<1>2. CASE Edit(box)
  <2> DEFINE t == [tree[box] EXCEPT !.dirty = TRUE]
  <2>1. tree' = [tree EXCEPT ![box] = t]
    BY <1>2 DEF Edit
  <2>2. t \in TreeRec
    BY <1>1 DEF GitTypes, TreeRec
  <2> HIDE DEF t
  <2> QED BY <1>1, <1>2, <2>1, <2>2 DEF AgentStep, Edit, managerVars,
          GitTypes, RecTypes, HostTypes, ReqTypes, OpTypes
<1>3. ASSUME NEW r \in Req, Begin(r, box) PROVE Types'
  <2>1. PICK ask \in Ask, point \in {"branch", "plan", "run", "refused"} :
          req' = [req EXCEPT ![r] = [id |-> box, ask |-> ask, at |-> point]]
    BY <1>3 DEF Begin
  <2>2. ReqTypes'
    BY <1>1, <2>1 DEF ReqTypes, ReqRec
  <2> QED BY <1>3, <2>2 DEF AgentStep, Begin, gitVars, managerVars,
          GitTypes, RecTypes, HostTypes, OpTypes
<1> QED BY <1>2, <1>3 DEF AgentStep

LEMMA TypesOutside ==
  ASSUME Types,
         \/ Stop \/ Save \/ MergeByHand \/ Outside \/ Crash
         \/ \E e \in Typed : Type(e)
         \/ \E b \in Branch : CheckOut(b) \/ \E i \in Id : SwitchTree(i, b)
  PROVE  Types'
<1> USE DEF Types, gitVars, proxyVars, managerVars
<1>1. CASE Stop
  <2>3. NoRec.state # "running"
    BY DEF NoRec
  <2>1. rec \in RecRec /\ rec.id \in Id
    BY <1>1, <2>3 DEF Stop, Active, RecTypes
  <2>2. rec' \in RecRec /\ rec'.id \in Id /\ box' = NoBox
    BY <1>1, <2>1 DEF Stop, RecRec
  <2> QED BY <1>1, <2>2 DEF Stop, GitTypes, RecTypes, HostTypes, ReqTypes, OpTypes
<1>2. CASE Save
  <2>1. checkout.on \in Branch /\ checkout.edits \subseteq Entry
    BY DEF HostTypes, Entry
  <2> QED BY <1>2, <2>1 DEF Save, GitTypes, RecTypes, HostTypes, ReqTypes, OpTypes
<1>3. CASE MergeByHand
  <2>1. checkout.on \in Branch
    BY DEF HostTypes
  <2> QED BY <1>3, <2>1, WorktreesAssumption
          DEF MergeByHand, GitTypes, RecTypes, HostTypes, ReqTypes, OpTypes
<1>4. CASE Outside
  <2>1. 0 \in Entry
    BY DEF Entry
  <2> QED BY <1>4, <2>1 DEF Outside, Others, GitTypes, RecTypes, HostTypes, ReqTypes, OpTypes
<1>5. CASE Crash
  BY <1>5 DEF Crash, GitTypes, RecTypes, HostTypes, ReqTypes, OpTypes, OpRec
<1>6. ASSUME NEW e \in Typed, Type(e) PROVE Types'
  BY <1>6 DEF Type, GitTypes, RecTypes, HostTypes, ReqTypes, OpTypes
<1>7. ASSUME NEW b \in Branch, CheckOut(b) PROVE Types'
  BY <1>7 DEF CheckOut, GitTypes, RecTypes, HostTypes, ReqTypes, OpTypes
<1>8. ASSUME NEW b \in Branch, NEW i \in Id, SwitchTree(i, b) PROVE Types'
  <2> DEFINE t == [tree[i] EXCEPT !.head = b]
  <2>1. tree' = [tree EXCEPT ![i] = t]
    BY <1>8 DEF SwitchTree, Switch
  <2>2. t \in TreeRec
    BY DEF GitTypes, TreeRec
  <2> HIDE DEF t
  <2> QED BY <1>8, <2>1, <2>2 DEF SwitchTree, Switch,
          GitTypes, RecTypes, HostTypes, ReqTypes, OpTypes
<1> QED BY <1>1, <1>2, <1>3, <1>4, <1>5, <1>6, <1>7, <1>8

LEMMA TypesInit == ASSUME Init PROVE Types
<1> USE DEF Init
<1>1. GitTypes
  <2>1. NoTree \in TreeRec
    BY DEF NoTree, TreeRec
  <2> QED BY <2>1 DEF GitTypes
<1>2. RecTypes
  <2>1. NoRec \in RecRec
    BY DEF NoRec, RecRec
  <2> QED BY <2>1 DEF RecTypes
<1>3. HostTypes
  BY WorktreesAssumption DEF HostTypes
<1> QED BY <1>1, <1>2, <1>3 DEF Types, ReqTypes, OpTypes, OpRec

LEMMA TypesStep == ASSUME Types, [Next]_vars PROVE Types'
<1>1. CASE UNCHANGED vars
  BY <1>1 DEF vars, Types, GitTypes, RecTypes, HostTypes, ReqTypes, OpTypes
<1>2. CASE Next
  BY <1>2, TypesRun, TypesMerge, TypesRemove, TypesTools, TypesAgent, TypesOutside
  DEF Next, Manager
<1> QED BY <1>1, <1>2

----------------------------------------------------------------------------
Valid(ask) == Validate(ask, Mounts, Repos, DaemonSubs)
RepoOf(ask) == ResolveRepo(Repos, TranslateCwd(Mounts, ask.cwd))

LEMMA PolicyOf ==
  ASSUME NEW ask \in Ask, Valid(ask)
  PROVE  /\ own \in RepoOf(ask).branches /\ "HEAD" \notin RepoOf(ask).branches
         /\ ask.sub = "push" => Refspec[ask.args[2]].dst \in RepoOf(ask).branches
<1>1. Grammar(ask.sub, ask.args, RepoOf(ask))
  BY DEF Valid, Validate, RepoOf
<1>2. own \in RepoOf(ask).branches /\ "HEAD" \notin RepoOf(ask).branches
  BY WorktreesAssumption DEF Valid, RepoOf
<1>3. ask.sub = "push" => Refspec[ask.args[2]].dst \in RepoOf(ask).branches
  BY <1>1 DEF Grammar
<1> QED BY <1>2, <1>3

(* A request on its way has been validated; one that is about to commit is on a
   branch it may commit to, unless its tree has been switched. *)
OnAllowed(r) ==
  req[r].ask.sub = "commit" /\ r \notin moved /\ Tree(r).there
    => Tree(r).head \in RepoOf(req[r].ask).branches
Permitted ==
  \A r \in Req : /\ req[r].at \in {"branch", "plan", "run", "late"} => Valid(req[r].ask)
                 /\ req[r].at = "plan" => req[r].ask.sub = "push"
                 /\ req[r].at = "run" => OnAllowed(r)
                 /\ req[r].at = "late" => req[r].ask.sub \in {"push", "pull"}

LEMMA RepoSame == \A r \in Req : Repo(r) = RepoOf(req[r].ask)
  BY DEF Repo, RepoOf

(* Steps that leave the requests alone, and every tree its branch. *)
LEMMA PermittedTrees ==
  ASSUME Types, Permitted, UNCHANGED <<req, moved>>,
         \A i \in Id : tree'[i].there =>
           \/ tree'[i].head = own
           \/ tree[i].there /\ tree'[i].head = tree[i].head
  PROVE  Permitted'
<1> SUFFICES ASSUME NEW r \in Req, req[r].at = "run" PROVE OnAllowed(r)'
  BY DEF Permitted
<1>1. req[r] \in ReqRec /\ req[r].id \in Id /\ req[r].ask \in Ask
  BY DEF Types, ReqTypes, NoReq, ReqRec
<1>2. Valid(req[r].ask) /\ OnAllowed(r)
  BY DEF Permitted
<1> QED BY <1>1, <1>2, PolicyOf DEF OnAllowed, Tree

LEMMA TreeFields ==
  ASSUME NEW t \in TreeRec, NEW x
  PROVE  /\ [t EXCEPT !.there = x].there = x /\ [t EXCEPT !.there = x].head = t.head
         /\ [t EXCEPT !.base = x].there = t.there /\ [t EXCEPT !.base = x].head = t.head
         /\ [t EXCEPT !.dirty = x].there = t.there /\ [t EXCEPT !.dirty = x].head = t.head
  BY DEF TreeRec

LEMMA PermittedManager ==
  ASSUME Types, Permitted, NEW c \in Client, Manager(c)
  PROVE  Permitted'
<1> USE DEF Types
<1>1. UNCHANGED <<req, moved>>
  BY DEF Manager, Run, Restart, Create, Sidecar, Launch, PutRun, MergeGet, MergeOn, MergeClean,
     MergeSquash, MergeCommit, MergeReset, Remove, DeleteBranch, PutMerge, DeleteGet, DeleteRec,
     proxyVars
<1>2. \A i \in Id : tree'[i].there =>
           \/ tree'[i].head = own
           \/ tree[i].there /\ tree'[i].head = tree[i].head
  <2>0. tree \in [Id -> TreeRec]
    BY DEF GitTypes
  <2>1. CASE Create(c)
    <3>1. tree' = tree \/ tree' = [tree EXCEPT ![op[c].id] = [NoTree EXCEPT !.there = TRUE, !.head = own]]
      BY <2>1 DEF Create
    <3>2. [NoTree EXCEPT !.there = TRUE, !.head = own].head = own
      BY DEF NoTree
    <3> QED BY <2>0, <3>1, <3>2
  <2>2. CASE Sidecar(c)
    BY <2>0, <2>2, TreeFields DEF Sidecar
  <2>3. CASE Remove(c)
    <3> DEFINE j == op[c].old.id  t == [tree[j] EXCEPT !.there = FALSE]
    <3>1. tree' = tree \/ tree' = [tree EXCEPT ![j] = t]
      BY <2>3 DEF Remove
    <3>2. j \in Id => ~t.there
      BY <2>0, TreeFields
    <3> HIDE DEF j, t
    <3> QED BY <2>0, <3>1, <3>2
  <2>4. CASE DeleteBranch(c)
    <3> DEFINE j == op[c].old.id  t == [tree[j] EXCEPT !.base = ""]
    <3>1. tree' = tree \/ tree' = [tree EXCEPT ![j] = t]
      BY <2>4 DEF DeleteBranch
    <3>2. j \in Id => t.there = tree[j].there /\ t.head = tree[j].head
      BY <2>0, TreeFields
    <3> HIDE DEF j, t
    <3> QED BY <2>0, <3>1, <3>2
  <2>5. CASE tree' = tree
    BY <2>5
  <2> QED BY <2>1, <2>2, <2>3, <2>4, <2>5
          DEF Manager, Run, Restart, Launch, PutRun, MergeGet, MergeOn, MergeClean,
              MergeSquash, MergeCommit, MergeReset, PutMerge, DeleteGet, DeleteRec, gitVars
<1> QED BY <1>1, <1>2, PermittedTrees

LEMMA PermittedTools ==
  ASSUME Types, Permitted, NEW r \in Req, ToolStep(r) \/ ToolRun(r) \/ ToolEnds(r)
  PROVE  Permitted'
<1> SUFFICES ASSUME NEW q \in Req
             PROVE  /\ req'[q].at \in {"branch", "plan", "run", "late"} => Valid(req'[q].ask)
                    /\ req'[q].at = "plan" => req'[q].ask.sub = "push"
                    /\ req'[q].at = "run" => OnAllowed(q)'
                    /\ req'[q].at = "late" => req'[q].ask.sub \in {"push", "pull"}
  BY DEF Permitted
<1>0. /\ req \in [Req -> {NoReq} \cup ReqRec] /\ tree \in [Id -> TreeRec]
      /\ NoReq.at = "idle" /\ moved' = moved
      /\ req[q].at \in {"branch", "plan", "run", "late"} => Valid(req[q].ask)
      /\ req[q].at = "plan" => req[q].ask.sub = "push"
      /\ req[q].at = "run" => OnAllowed(q)
      /\ req[q].at = "late" => req[q].ask.sub \in {"push", "pull"}
  BY DEF Types, ReqTypes, GitTypes, NoReq, Permitted, ToolStep, ToolRun, ToolEnds,
     CheckCurrentBranch, PlanPush, LetGo, RunGit, Expire, Respond
<1>1. \A i \in Id : tree'[i].there = tree[i].there /\ tree'[i].head = tree[i].head
  <2> DEFINE j == req[r].id  t == [tree[j] EXCEPT !.dirty = FALSE]
  <2>1. tree' = tree \/ tree' = [tree EXCEPT ![j] = t]
    BY DEF ToolStep, ToolRun, ToolEnds, CheckCurrentBranch, PlanPush, LetGo, RunGit, Commits,
       Expire, Respond, gitVars
  <2>2. j \in Id => t.there = tree[j].there /\ t.head = tree[j].head
    BY <1>0, TreeFields
  <2> HIDE DEF j, t
  <2> QED BY <1>0, <2>1, <2>2
<1>2. CASE q # r
  <2>1. req'[q] = req[q]
    BY <1>0, <1>2 DEF ToolStep, ToolRun, ToolEnds, CheckCurrentBranch, PlanPush, LetGo, RunGit,
       Expire, Respond, Goto
  <2>2. req[q].at = "run" => req[q].id \in Id
    BY <1>0 DEF ReqRec
  <2> QED BY <1>0, <1>1, <2>1, <2>2 DEF OnAllowed, Tree
<1>3. CASE q = r
  <2>1. CASE CheckCurrentBranch(r) \/ PlanPush(r)
    <3>1. /\ req[r].at \in {"branch", "plan"} /\ req[r] \in ReqRec
          /\ req' = [req EXCEPT ![r] = [req[r] EXCEPT !.at = req'[r].at]]
          /\ tree' = tree /\ req'[r].at \in {"run", "refused"}
      BY <1>0, <2>1 DEF CheckCurrentBranch, PlanPush, Goto, gitVars, ReqRec
    <3>2. req'[r].ask = req[r].ask /\ req'[r].id = req[r].id
      BY <1>0, <3>1 DEF ReqRec
    <3>3. CASE CheckCurrentBranch(r)
      <4>1. req'[r].at = "run" => Tree(r).head \in Repo(r).branches
        BY <1>0, <3>1, <3>3 DEF CheckCurrentBranch, Goto, ReqRec
      <4>2. OnAllowed(r)' <=> (req[r].ask.sub = "commit" /\ r \notin moved /\ tree[req[r].id].there
                                 => tree[req[r].id].head \in RepoOf(req[r].ask).branches)
        BY <1>0, <3>1, <3>2 DEF OnAllowed, Tree
      <4>3. Valid(req[r].ask)
        BY <1>0, <1>3, <3>1, <3>3 DEF CheckCurrentBranch, Goto, ReqRec
      <4> QED BY <1>3, <3>1, <3>2, <4>1, <4>2, <4>3, RepoSame DEF Tree
    <3>4. CASE PlanPush(r)
      <4>1. req'[r].ask.sub = "push"
        BY <1>0, <1>3, <3>1, <3>2, <3>4 DEF PlanPush
      <4> QED BY <1>0, <1>3, <3>1, <3>2, <4>1 DEF OnAllowed
    <3> QED BY <2>1, <3>3, <3>4
  <2>2. CASE Expire(r)
    <3>1. req[r] \in ReqRec /\ \E end \in Killed(r) : req' = [req EXCEPT ![r] = [req[r] EXCEPT !.at = end]]
      BY <1>0, <2>2 DEF Expire, Goto
    <3>2. PICK end \in Killed(r) : req' = [req EXCEPT ![r] = [req[r] EXCEPT !.at = end]]
      BY <3>1
    <3>3. req'[r].at = end /\ req'[r].ask = req[r].ask
      BY <1>0, <3>1, <3>2 DEF ReqRec
    <3>4. end = "late" => req[r].at = "run" /\ req[r].ask.sub \in {"push", "pull"}
      BY DEF Killed
    <3>5. end \in {"answered", "held", "late"}
      BY DEF Killed
    <3> QED BY <1>0, <1>3, <3>3, <3>4, <3>5
  <2>3. CASE LetGo(r) \/ ToolRun(r) \/ Respond(r)
    <3>1. req'[r].at \in {"answered", "held", "idle"}
      BY <1>0, <2>3 DEF LetGo, ToolRun, RunGit, Respond, Goto, ReqRec
    <3> QED BY <1>3, <3>1
  <2> QED BY <2>1, <2>2, <2>3 DEF ToolStep, ToolEnds
<1> QED BY <1>2, <1>3

LEMMA PermittedAgent == ASSUME Types, Permitted, AgentStep PROVE Permitted'
<1>0. tree \in [Id -> TreeRec] /\ req \in [Req -> {NoReq} \cup ReqRec] /\ box \in Id
  BY DEF Types, GitTypes, ReqTypes, RecTypes, AgentStep
<1>1. CASE Edit(box)
  <2>1. \A i \in Id : tree'[i].there = tree[i].there /\ tree'[i].head = tree[i].head
    BY <1>0, <1>1 DEF Edit, TreeRec
  <2> QED BY <1>1, <2>1, PermittedTrees DEF Edit
<1>2. ASSUME NEW r \in Req, Begin(r, box) PROVE Permitted'
  <2>1. PICK ask \in Ask :
          req' = [req EXCEPT ![r] =
            [id |-> box, ask |-> ask,
             at |-> IF ~Validate(ask, Mounts, Repos, DaemonSubs) THEN "refused"
                    ELSE CASE ask.sub = "commit" -> "branch"
                           [] ask.sub = "push"   -> "plan"
                           [] OTHER              -> "run"]]
    BY <1>2 DEF Begin
  <2>2. moved' = moved \ {r} /\ tree' = tree
    BY <1>2 DEF Begin, gitVars
  <2> SUFFICES ASSUME NEW q \in Req
               PROVE  /\ req'[q].at \in {"branch", "plan", "run", "late"} => Valid(req'[q].ask)
                      /\ req'[q].at = "plan" => req'[q].ask.sub = "push"
                      /\ req'[q].at = "run" => OnAllowed(q)'
                      /\ req'[q].at = "late" => req'[q].ask.sub \in {"push", "pull"}
    BY DEF Permitted
  <2>3. CASE q = r
    <3>1. /\ req'[q].ask = ask
          /\ req'[q].at = IF ~Valid(ask) THEN "refused"
                          ELSE CASE ask.sub = "commit" -> "branch"
                                 [] ask.sub = "push"   -> "plan"
                                 [] OTHER              -> "run"
      BY <1>0, <2>1, <2>3 DEF Valid
    <3> QED BY <3>1 DEF OnAllowed
  <2>4. CASE q # r
    <3>1. req'[q] = req[q] /\ (q \in moved <=> q \in moved')
      BY <1>0, <2>1, <2>2, <2>4
    <3> QED BY <2>2, <3>1 DEF Permitted, OnAllowed, Tree
  <2> QED BY <2>3, <2>4
<1> QED BY <1>1, <1>2 DEF AgentStep

LEMMA PermittedOutside ==
  ASSUME Types, Permitted,
         \/ Stop \/ Save \/ MergeByHand \/ Outside \/ Crash
         \/ \E e \in Typed : Type(e)
         \/ \E b \in Branch : CheckOut(b) \/ \E i \in Id : SwitchTree(i, b)
  PROVE  Permitted'
<1>1. CASE Crash
  BY <1>1 DEF Crash, Permitted, NoReq
<1>2. ASSUME NEW b \in Branch, NEW i \in Id, SwitchTree(i, b) PROVE Permitted'
  <2> SUFFICES ASSUME NEW q \in Req, req[q].at = "run" PROVE OnAllowed(q)'
    BY <1>2 DEF Permitted, SwitchTree, Switch
  <2>1. /\ tree' = [tree EXCEPT ![i].head = b] /\ req' = req
        /\ moved' = moved \cup {r \in Req : req[r] # NoReq /\ req[r].id = i}
    BY <1>2 DEF SwitchTree, Switch
  <2>2. req[q] # NoReq /\ OnAllowed(q) /\ req[q].id \in Id
    BY DEF NoReq, Permitted, Types, ReqTypes, ReqRec
  <2>3. CASE req[q].id = i
    BY <2>1, <2>2, <2>3 DEF OnAllowed
  <2>4. CASE req[q].id # i
    <3>1. tree'[req[q].id] = tree[req[q].id]
      BY <2>1, <2>2, <2>4 DEF Types, GitTypes
    <3> QED BY <2>1, <2>2, <3>1 DEF OnAllowed, Tree
  <2> QED BY <2>3, <2>4
<1>3. CASE UNCHANGED <<tree, req, moved>>
  BY <1>3, PermittedTrees
<1> QED BY <1>1, <1>2, <1>3 DEF Stop, Save, MergeByHand, Outside, Others, Type, CheckOut,
                                gitVars, proxyVars

LEMMA PermittedStep == ASSUME Types, Permitted, [Next]_vars PROVE Permitted'
<1>1. CASE UNCHANGED vars
  BY <1>1, PermittedTrees DEF vars
<1>2. CASE Next
  BY <1>2, PermittedManager, PermittedTools, PermittedAgent, PermittedOutside DEF Next
<1> QED BY <1>1, <1>2

PolicyInv == Types /\ Permitted

(* Every request on its way was let through by the policy. *)
THEOREM PolicyInvariant == Spec => []PolicyInv
<1>1. Init => PolicyInv
  <2> SUFFICES ASSUME Init PROVE PolicyInv
    OBVIOUS
  <2>1. Permitted
    BY DEF Init, Permitted, NoReq
  <2> QED BY <2>1, TypesInit DEF PolicyInv
<1>2. PolicyInv /\ [Next]_vars => PolicyInv'
  BY TypesStep, PermittedStep DEF PolicyInv
<1> QED BY <1>1, <1>2, PTL DEF Spec

(* A push updates the branch it names, which is allowed. *)
LEMMA PushAllowed ==
  ASSUME Types, Permitted, NEW r \in Req, RunGit(r), req[r].ask.sub = "push",
         NEW b \in Branch \ Repo(r).branches
  PROVE  log'[b] = log[b] /\ remote'[b] = remote[b]
<1>1. Valid(req[r].ask) /\ req[r].ask \in Ask
  BY DEF RunGit, Permitted, Types, ReqTypes, NoReq, ReqRec
<1>5. LET to == Refspec[req[r].ask.args[2]].dst IN to # "HEAD" /\ to \in Repo(r).branches
  BY <1>1, PolicyOf, RepoSame
<1>2. \A u \in Update(r) : u.to \in Repo(r).branches
  <2> DEFINE to == Refspec[req[r].ask.args[2]].dst
  <2>0. \A u \in Update(r) : \E t, f : u = [to |-> Named(to, r), tip |-> t, flag |-> f]
    BY Zenon DEF Update
  <2>1. \A u \in Update(r) : u.to = Named(to, r)
    BY <2>0
  <2>2. Named(to, r) \in Repo(r).branches
    BY <1>5 DEF Named
  <2> HIDE DEF to
  <2> QED BY <2>1, <2>2
<1>3. {u \in Update(r) : u.to = b /\ u.flag # "!"} = {}
  BY <1>2
<1>4. /\ log' = log
      /\ remote' = [x \in Branch |->
            LET to == {u \in Update(r) : u.to = x /\ u.flag # "!"}
            IN  IF to = {} THEN remote[x] ELSE (CHOOSE u \in to : TRUE).tip]
  BY DEF RunGit
<1> QED BY <1>3, <1>4

LEMMA CommitAllowed ==
  ASSUME Types, Permitted, NEW r \in Req, RunGit(r), req[r].ask.sub = "commit", r \notin moved,
         NEW b \in Branch \ Repo(r).branches
  PROVE  log'[b] = log[b] /\ remote'[b] = remote[b]
<1>1. Tree(r).there => Tree(r).head \in Repo(r).branches
  BY RepoSame DEF RunGit, Permitted, OnAllowed
<1>2. remote' = remote /\ Commits(r)
  BY DEF RunGit
<1> QED BY <1>1, <1>2 DEF Commits, Types, GitTypes

(* Whatever an agent asks to commit or to push, and whatever else goes on between the
   look at the repository, the act and what git's children do after the deadline, the
   request changes branches its policy allows only, unless its tree is switched
   meanwhile. *)
THEOREM AllowedOnly == Spec => OnlyAllowed
<1>1. ASSUME PolicyInv, [Next]_vars, NEW r \in Req, req[r].at \in {"run", "late"}, req'[r] # req[r],
             req[r].ask.sub # "pull", r \notin moved, NEW b \in Branch \ Repo(r).branches
      PROVE  log'[b] = log[b] /\ remote'[b] = remote[b]
  <2>0. Types /\ Permitted
    BY <1>1 DEF PolicyInv
  <2>1. CASE UNCHANGED <<log, remote>>
    BY <2>1
  <2>2. CASE \E q \in Req : RunGit(q)
    <3>1. RunGit(r)
      <4>1. PICK q \in Req : RunGit(q)
        BY <2>2
      <4>2. q = r
        BY <1>1, <2>0, <4>1 DEF RunGit, Goto, Types, ReqTypes
      <4> QED BY <4>1, <4>2
    <3>2. CASE req[r].ask.sub \in {"push", "commit"}
      BY <1>1, <2>0, <3>1, <3>2, PushAllowed, CommitAllowed
    <3>3. CASE req[r].ask.sub \notin {"push", "commit"}
      BY <1>1, <3>1, <3>3 DEF RunGit, gitVars
    <3> QED BY <3>2, <3>3
  <2>3. CASE UNCHANGED req
    BY <1>1, <2>3
  <2>4. CASE Crash \/ AgentStep \/ \E q \in Req : ToolStep(q) \/ ToolEnds(q)
    BY <2>1, <2>4 DEF Crash, AgentStep, Edit, Begin, ToolStep, CheckCurrentBranch, PlanPush, LetGo,
       ToolEnds, Expire, Respond, gitVars
  <2> QED BY <1>1, <2>1, <2>2, <2>3, <2>4
          DEF Next, vars, Manager, Run, Restart, Create, Sidecar, Launch, PutRun, MergeGet, MergeOn,
     MergeClean, MergeSquash, MergeCommit, MergeReset, Remove, DeleteBranch, PutMerge, DeleteGet,
     DeleteRec, Stop, Save, MergeByHand, Outside, Others, ToolRun, Type, CheckOut, SwitchTree,
     Switch, proxyVars, gitVars
<1>2. PolicyInv /\ [Next]_vars =>
        [\A r \in Req :
           /\ req[r].at \in {"run", "late"} /\ req'[r] # req[r]
           /\ req[r].ask.sub # "pull" /\ r \notin moved
           => \A b \in Branch \ Repo(r).branches : log'[b] = log[b] /\ remote'[b] = remote[b]]_vars
  BY <1>1
<1> QED BY <1>2, PolicyInvariant, PTL DEF Spec, OnlyAllowed

-----------------------------------------------------------------------------
(* Where a commit outlives the agent's branch: those of others, numbered 0, are
   nobody's loss. *)
OnOthers == UNION {log[b] : b \in refs \ {own}}
Squashed == UNION {squashed[b] : b \in Branch}
Safe == OnOthers \cup Squashed \cup given \cup behind \cup {0}
Covered == log[own] \subseteq Safe

(* What a tree, the record and an operation call the base is a branch of the
   operator's. *)
OpBased(c) == op[c] \in RunOp /\ op[c].at # "create" => op[c].base \in refs \ {own}
Bases ==
  /\ \A i \in Id : tree[i].base # "" => tree[i].base \in refs \ {own}
  /\ rec.wt => rec.base \in refs \ {own}
  /\ \A c \in Client : OpBased(c)

(* One tree has the agent's branch, none while it is about to be deleted. *)
OpFree(c) == At(c, "branch") => own \in refs /\ \A i \in Id : ~tree[i].there
Heads ==
  /\ checkout.on \in refs
  /\ \A b \in Branch \ refs : log[b] = {}
  /\ \A i \in Id : tree[i].there => tree[i].head \in refs /\ own \in refs
  /\ \A i, j \in Id : tree[i].there /\ tree[j].there => i = j
  /\ \A c \in Client : OpFree(c)
  /\ \A c, d \in Client : At(c, "branch") /\ At(d, "branch") => c = d

(* What an operation has looked at is still so. *)
OpLooked(c) ==
  /\ At(c, "commit") /\ checkout.index # {} =>
       checkout.on # own /\ log[own] \subseteq checkout.index \cup Safe
  /\ At(c, "branch") /\ ~op[c].force => Covered
  /\ op[c].at \in {"delete", "remove"} /\ ~op[c].force /\ (At(c, "delete") => op[c].old.wt) =>
       Covered \/ ~tree[op[c].old.id].there
Looked ==
  /\ \A i \in Id : tree[i].there /\ tree[i].head # own => Covered
  /\ \A c \in Client : OpLooked(c)

Edits == LookedAtEdits => checkout.edits \subseteq behind
Lost ==
  /\ 1..made \subseteq log[own] \cup Safe
  /\ checkout.typed \subseteq checkout.edits \cup log[own] \cup Safe

(* What a pull may bring was pushed, and is still here. *)
Known == \A b \in Branch : remote[b] \subseteq log[own] \cup Safe

WorkInv == Types /\ Bases /\ Heads /\ Looked /\ Edits /\ Lost /\ Known

----------------------------------------------------------------------------
(* An operation's step leaves those of the others alone. *)
LEMMA OpKinds == RunOp \cap WorkOp = {} /\ NoOp \notin RunOp /\ NoOp.at = "idle"
<1>1. \A r \in RunOp : "old" \notin DOMAIN r /\ "at" \in DOMAIN r /\ r.at # "idle"
  BY DEF RunOp
<1>2. \A r \in WorkOp : "old" \in DOMAIN r
  BY DEF WorkOp
<1>3. NoOp.at = "idle"
  BY DEF NoOp
<1> QED BY <1>1, <1>2, <1>3

LEMMA GoOp ==
  ASSUME OpTypes, NEW c \in Client, NEW point, Go(c, point)
  PROVE  /\ \A d \in Client \ {c} : op'[d] = op[d]
         /\ op[c] \in RunOp => op'[c].at = point /\ op'[c].base = op[c].base
         /\ op[c] \in WorkOp => /\ op'[c].at = point /\ op'[c].old = op[c].old
                                /\ op'[c].force = op[c].force /\ op'[c] \notin RunOp
<1> DEFINE r == [op[c] EXCEPT !.at = point]
<1>1. op' = [op EXCEPT ![c] = r] /\ op \in [Client -> OpRec]
  BY DEF Go, OpTypes
<1>2. op[c] \in RunOp => r.at = point /\ r.base = op[c].base
  BY DEF RunOp
<1>3. op[c] \in WorkOp => r.at = point /\ r.old = op[c].old /\ r.force = op[c].force /\ r \notin RunOp
  BY DEF RunOp, WorkOp
<1> HIDE DEF r
<1> QED BY <1>1, <1>2, <1>3

LEMMA DoneOp ==
  ASSUME OpTypes, NEW c \in Client, Done(c)
  PROVE  (\A d \in Client \ {c} : op'[d] = op[d]) /\ op'[c].at = "idle" /\ op'[c] \notin RunOp
  BY OpKinds DEF Done, OpTypes

LEMMA FinishOp ==
  ASSUME OpTypes, NEW c \in Client, op[c] \in WorkOp, Finish(c)
  PROVE  /\ \A d \in Client \ {c} : op'[d] = op[d]
         /\ op'[c].at \in {"put", "idle"} /\ op'[c] \notin RunOp
  BY GoOp, DoneOp DEF Finish

----------------------------------------------------------------------------
(* Bases: the branches of the operator stay, and Create takes one of them. *)
LEMMA BasesFrame ==
  ASSUME Bases, refs \ {own} \subseteq refs',
         \A i \in Id : tree'[i].base # "" => tree'[i].base = tree[i].base,
         rec'.wt => rec'.base \in refs' \ {own},
         \A c \in Client : op'[c] = op[c] \/ OpBased(c)'
  PROVE  Bases'
<1>1. \A c \in Client : OpBased(c)'
  BY DEF Bases, OpBased
<1> QED BY <1>1 DEF Bases

LEMMA TreeBase ==
  ASSUME GitTypes, NEW i \in Id, NEW x
  PROVE  /\ [tree[i] EXCEPT !.there = x].base = tree[i].base
         /\ [tree[i] EXCEPT !.head = x].base = tree[i].base
         /\ [tree[i] EXCEPT !.dirty = x].base = tree[i].base
         /\ [tree[i] EXCEPT !.base = x].base = x
  BY DEF GitTypes, TreeRec

LEMMA BasesRun ==
  ASSUME WorkInv, NEW c \in Client,
         Run(c) \/ Restart(c) \/ Create(c) \/ Sidecar(c) \/ Launch(c) \/ PutRun(c)
  PROVE  Bases'
<1> USE DEF WorkInv
<1>0. Bases /\ GitTypes /\ OpTypes /\ OpBased(c) /\ (rec.wt => rec.base \in refs \ {own})
  BY DEF Types, Bases
<1>1. CASE Run(c) \/ Restart(c)
  <2>1. PICK i, fresh :
            op' = [op EXCEPT ![c] = [at |-> "create", id |-> i, fresh |-> fresh, base |-> ""]]
    BY <1>1 DEF Run, Restart
  <2>2. \A d \in Client : op'[d] = op[d] \/ op'[d].at = "create"
    BY <1>0, <2>1 DEF OpTypes
  <2>3. UNCHANGED <<tree, refs, rec>>
    BY <1>1 DEF Run, Restart, gitVars
  <2> QED BY <1>0, <2>2, <2>3, BasesFrame DEF OpBased
<1>2. CASE Create(c)
  <2>1. op[c] \in RunOp /\ op[c].id \in Id /\ UNCHANGED rec
    BY <1>0, <1>2, OpKind DEF Create, At, RunOp
  <2>2. CASE tree[op[c].id].there \/ own \in refs
    <3> DEFINE r == [op[c] EXCEPT !.at = "launch", !.base = tree[op[c].id].base]
    <3>1. /\ UNCHANGED <<tree, refs>>
          /\ Done(c) \/ (op' = [op EXCEPT ![c] = r] /\ tree[op[c].id].base # "")
      BY <1>2, <2>2 DEF Create
    <3>2. r.base = tree[op[c].id].base
      BY <2>1 DEF RunOp
    <3> HIDE DEF r
    <3>3. \A d \in Client : op'[d] = op[d] \/ OpBased(d)'
      BY <1>0, <2>1, <3>1, <3>2, DoneOp DEF OpBased, OpTypes, Bases
    <3> QED BY <1>0, <2>1, <3>1, <3>3, BasesFrame
  <2>3. CASE ~(tree[op[c].id].there \/ own \in refs)
    <3> DEFINE r == [op[c] EXCEPT !.at = "sidecar", !.base = checkout.on]
               t == [NoTree EXCEPT !.there = TRUE, !.head = own]
    <3>1. /\ op' = [op EXCEPT ![c] = r] /\ tree' = [tree EXCEPT ![op[c].id] = t]
          /\ refs' = refs \cup {own}
      BY <1>2, <2>3 DEF Create
    <3>2. r.base = checkout.on /\ t.base = "" /\ checkout.on \in refs \ {own}
      BY <2>1, <2>3 DEF RunOp, NoTree, Heads
    <3> HIDE DEF r, t
    <3>3. \A d \in Client : op'[d] = op[d] \/ OpBased(d)'
      BY <1>0, <2>1, <3>1, <3>2 DEF OpBased, OpTypes
    <3>4. \A i \in Id : tree'[i].base # "" => tree'[i].base = tree[i].base
      BY <1>0, <2>1, <3>1, <3>2 DEF GitTypes
    <3> QED BY <1>0, <2>1, <3>1, <3>3, <3>4, BasesFrame
  <2> QED BY <2>2, <2>3
<1>3. CASE Sidecar(c)
  <2> DEFINE t == [tree[op[c].id] EXCEPT !.base = op[c].base]
  <2>1. op[c] \in RunOp /\ op[c].id \in Id /\ op[c].base \in refs \ {own}
    BY <1>0, <1>3, OpKind DEF Sidecar, At, RunOp, OpBased
  <2>2. tree' = [tree EXCEPT ![op[c].id] = t] /\ t.base = op[c].base
    BY <1>0, <1>3, <2>1, TreeBase DEF Sidecar
  <2> HIDE DEF t
  <2>3. UNCHANGED <<refs, rec>> /\ Go(c, "launch")
    BY <1>3 DEF Sidecar
  <2>4. \A d \in Client : OpBased(d)'
    BY <1>0, <2>1, <2>3, GoOp DEF OpBased, Bases
  <2>5. \A i \in Id : tree'[i].base # "" => tree'[i].base \in refs \ {own}
    BY <1>0, <2>1, <2>2 DEF GitTypes, Bases
  <2> QED BY <1>0, <2>3, <2>4, <2>5 DEF Bases
<1>4. CASE Launch(c)
  <2>1. op[c] \in RunOp /\ op[c].base \in refs \ {own}
    BY <1>0, <1>4, OpKind DEF Launch, At, OpBased
  <2>2. UNCHANGED <<tree, refs>> /\ (Go(c, "put") \/ Done(c))
    BY <1>4 DEF Launch, gitVars
  <2>3. \A d \in Client : op'[d] = op[d] \/ OpBased(d)'
    BY <1>0, <2>1, <2>2, GoOp, DoneOp DEF OpBased
  <2>4. rec' = rec \/ rec'.base = op[c].base
    BY <1>4 DEF Launch, Record
  <2> QED BY <1>0, <2>1, <2>2, <2>3, <2>4, BasesFrame
<1>5. CASE PutRun(c)
  <2>1. op[c] \in RunOp /\ op[c].base \in refs \ {own}
    BY <1>0, <1>5, OpKind DEF PutRun, At, OpBased
  <2>2. UNCHANGED <<tree, refs>> /\ Done(c) /\ rec'.base = op[c].base
    BY <1>5 DEF PutRun, gitVars, Record
  <2>3. \A d \in Client : op'[d] = op[d] \/ OpBased(d)'
    BY <1>0, <2>2, DoneOp DEF OpBased
  <2> QED BY <1>0, <2>1, <2>2, <2>3, BasesFrame
<1> QED BY <1>1, <1>2, <1>3, <1>4, <1>5

(* An operation of Merge or Delete becomes one of theirs, or ends. *)
LEMMA WorkOps ==
  ASSUME OpTypes, RecTypes, NEW c \in Client,
         \/ MergeGet(c) \/ MergeOn(c) \/ MergeClean(c) \/ MergeSquash(c) \/ MergeCommit(c)
         \/ MergeReset(c) \/ Remove(c) \/ DeleteBranch(c) \/ PutMerge(c)
         \/ DeleteGet(c, TRUE) \/ DeleteGet(c, FALSE) \/ DeleteRec(c)
  PROVE  \A d \in Client : op'[d] = op[d] \/ op'[d] \notin RunOp
<1>1. CASE MergeGet(c) \/ DeleteGet(c, TRUE) \/ DeleteGet(c, FALSE)
  <2>1. PICK at, merge, force :
          op' = [op EXCEPT ![c] = [at |-> at, old |-> rec, merge |-> merge, force |-> force]]
    BY <1>1 DEF MergeGet, DeleteGet
  <2>2. [at |-> at, old |-> rec, merge |-> merge, force |-> force] \notin RunOp
    BY DEF RunOp
  <2> QED BY <2>1, <2>2 DEF OpTypes
<1>2. CASE ~(MergeGet(c) \/ DeleteGet(c, TRUE) \/ DeleteGet(c, FALSE))
  <2>1. op[c] \in WorkOp
    BY <1>2, OpKind DEF MergeOn, MergeClean, MergeSquash, MergeCommit, MergeReset, Remove,
       DeleteBranch, PutMerge, DeleteRec, At
  <2>2. Done(c) \/ \E point : Go(c, point)
    BY <1>2 DEF MergeOn, MergeClean, MergeSquash, MergeCommit, MergeReset, Remove,
       DeleteBranch, PutMerge, DeleteRec, Finish
  <2> QED BY <2>1, <2>2, GoOp, DoneOp
<1> QED BY <1>1, <1>2

LEMMA BasesWork ==
  ASSUME WorkInv, NEW c \in Client,
         \/ MergeGet(c) \/ MergeOn(c) \/ MergeClean(c) \/ MergeSquash(c) \/ MergeCommit(c)
         \/ MergeReset(c) \/ Remove(c) \/ DeleteBranch(c) \/ PutMerge(c)
         \/ DeleteGet(c, TRUE) \/ DeleteGet(c, FALSE) \/ DeleteRec(c)
  PROVE  Bases'
<1>0. Bases /\ GitTypes /\ OpTypes /\ RecTypes /\ (rec.wt => rec.base \in refs \ {own})
  BY DEF WorkInv, Types, Bases
<1>1. \A d \in Client : op'[d] = op[d] \/ OpBased(d)'
  BY <1>0, WorkOps DEF OpBased
<1>2. CASE Remove(c)
  <2> DEFINE j == op[c].old.id  t == [tree[j] EXCEPT !.there = FALSE]
  <2>1. (tree' = tree \/ tree' = [tree EXCEPT ![j] = t]) /\ UNCHANGED <<refs, rec>>
    BY <1>2 DEF Remove
  <2>2. j \in Id => t.base = tree[j].base
    BY <1>0, TreeBase
  <2> HIDE DEF j, t
  <2>3. \A i \in Id : tree'[i].base = tree[i].base
    BY <1>0, <2>1, <2>2 DEF GitTypes
  <2> QED BY <1>0, <1>1, <2>1, <2>3, BasesFrame
<1>3. CASE DeleteBranch(c)
  <2> DEFINE j == op[c].old.id  t == [tree[j] EXCEPT !.base = ""]
  <2>1. /\ tree' = tree \/ tree' = [tree EXCEPT ![j] = t]
        /\ refs \ {own} \subseteq refs' /\ UNCHANGED rec
    BY <1>3 DEF DeleteBranch
  <2>2. j \in Id => t.base = ""
    BY <1>0, TreeBase
  <2> HIDE DEF j, t
  <2>3. \A i \in Id : tree'[i].base = tree[i].base \/ tree'[i].base = ""
    BY <1>0, <2>1, <2>2 DEF GitTypes
  <2> QED BY <1>0, <1>1, <2>1, <2>3, BasesFrame
<1>4. CASE PutMerge(c)
  <2>1. op[c] \in WorkOp /\ UNCHANGED <<tree, refs>>
    BY <1>0, <1>4, OpKind DEF PutMerge, At, gitVars
  <2>2. ~rec'.wt
    BY <1>4, <2>1 DEF PutMerge, WorkOp, RecRec
  <2> QED BY <1>0, <1>1, <2>1, <2>2, BasesFrame
<1>5. CASE DeleteRec(c)
  BY <1>0, <1>1, <1>5, BasesFrame DEF DeleteRec, NoRec, gitVars
<1>6. CASE UNCHANGED <<tree, refs, rec>>
  BY <1>0, <1>1, <1>6, BasesFrame
<1> QED BY <1>2, <1>3, <1>4, <1>5, <1>6
        DEF MergeGet, MergeOn, MergeClean, MergeSquash, MergeCommit, MergeReset, DeleteGet, gitVars

(* What the agents and the operator do. *)
Outer ==
  \/ Stop \/ AgentStep \/ Save \/ MergeByHand \/ Outside \/ Crash
  \/ \E r \in Req : ToolStep(r) \/ ToolRun(r) \/ ToolEnds(r)
  \/ \E e \in Typed : Type(e)
  \/ \E b \in Branch : CheckOut(b) \/ \E i \in Id : SwitchTree(i, b)

LEMMA OuterOps ==
  ASSUME Outer, OpTypes
  PROVE  /\ UNCHANGED op \/ (Crash /\ \A c \in Client : op'[c] = NoOp)
         /\ refs \subseteq refs' /\ given \subseteq given' /\ behind \subseteq behind'
         /\ rec'.wt = rec.wt /\ rec'.base = rec.base /\ rec'.id = rec.id
<1>1. UNCHANGED op \/ (Crash /\ \A c \in Client : op'[c] = NoOp)
  BY DEF Outer, Stop, AgentStep, Save, MergeByHand, Outside, Crash, ToolStep, ToolRun, ToolEnds, Type,
     CheckOut, SwitchTree, managerVars
<1>2. refs \subseteq refs'
  BY DEF Outer, Stop, AgentStep, Edit, Begin, Save, MergeByHand, Outside, Others, Crash, ToolStep,
     CheckCurrentBranch, PlanPush, LetGo, ToolRun, RunGit, Pulls, ToolEnds, Expire, Respond, Type,
     CheckOut, SwitchTree, Switch, gitVars
<1>3. given \subseteq given' /\ behind \subseteq behind'
  BY DEF Outer, Stop, AgentStep, Save, MergeByHand, Outside, Crash, ToolStep, ToolRun, ToolEnds, Type,
     CheckOut, SwitchTree, managerVars
<1>4. UNCHANGED rec \/ Stop
  BY DEF Outer, AgentStep, Save, MergeByHand, Outside, Crash, ToolStep, ToolRun, ToolEnds, Type,
     CheckOut, SwitchTree, managerVars
<1>5. CASE Stop
  BY <1>1, <1>2, <1>3, <1>5 DEF Stop
<1> QED BY <1>1, <1>2, <1>3, <1>4, <1>5

(* No tree comes or goes, and but for one that is switched none has another branch. *)
LEMMA OuterTrees ==
  ASSUME Outer, Types, NEW i \in Id
  PROVE  /\ tree'[i].there = tree[i].there /\ tree'[i].base = tree[i].base
         /\ \/ tree'[i].head = tree[i].head
            \/ \E b \in Branch : SwitchTree(i, b) /\ tree'[i].head = b
<1> USE DEF Types, GitTypes
<1>1. ASSUME NEW j \in Id, NEW b \in Branch, SwitchTree(j, b) PROVE
        /\ tree'[i].there = tree[i].there /\ tree'[i].base = tree[i].base
        /\ IF i = j THEN tree'[i].head = b ELSE tree'[i].head = tree[i].head
  <2> DEFINE t == [tree[j] EXCEPT !.head = b]
  <2>1. tree' = [tree EXCEPT ![j] = t]
    BY <1>1 DEF SwitchTree, Switch
  <2>2. t.there = tree[j].there /\ t.base = tree[j].base /\ t.head = b
    BY DEF TreeRec
  <2> HIDE DEF t
  <2> QED BY <2>1, <2>2
<1>2. ASSUME NEW j \in Id \cup {NoBox}, NEW x, tree' = [tree EXCEPT ![j] = [tree[j] EXCEPT !.dirty = x]]
      PROVE  tree'[i].there = tree[i].there /\ tree'[i].base = tree[i].base
                /\ tree'[i].head = tree[i].head
  <2> DEFINE t == [tree[j] EXCEPT !.dirty = x]
  <2>2. j \in Id => t.there = tree[j].there /\ t.base = tree[j].base /\ t.head = tree[j].head
    BY DEF TreeRec
  <2>3. tree' = [tree EXCEPT ![j] = t]
    BY <1>2
  <2> HIDE DEF t
  <2> QED BY <2>2, <2>3
<1>3. CASE AgentStep
  <2>1. box \in Id \cup {NoBox} /\
            (UNCHANGED tree \/ tree' = [tree EXCEPT ![box] = [tree[box] EXCEPT !.dirty = TRUE]])
    BY <1>3 DEF AgentStep, Edit, Begin, RecTypes, gitVars
  <2> QED BY <1>2, <2>1
<1>4. ASSUME NEW r \in Req, ToolRun(r)
      PROVE  tree'[i].there = tree[i].there /\ tree'[i].base = tree[i].base
                /\ tree'[i].head = tree[i].head
  <2>1. req[r].id \in Id
    BY <1>4 DEF ToolRun, RunGit, ReqTypes, ReqRec, NoReq
  <2>2. UNCHANGED tree \/ tree' = [tree EXCEPT ![req[r].id] = [tree[req[r].id] EXCEPT !.dirty = FALSE]]
    BY <1>4 DEF ToolRun, RunGit, Commits, gitVars
  <2> QED BY <1>2, <2>1, <2>2
<1>5. CASE UNCHANGED tree
  BY <1>5
<1>6. \/ UNCHANGED tree \/ AgentStep \/ \E r \in Req : ToolRun(r)
      \/ \E j \in Id, b \in Branch : SwitchTree(j, b)
  BY DEF Outer, Stop, Save, MergeByHand, Outside, Others, Crash, ToolStep,
     CheckCurrentBranch, PlanPush, LetGo, ToolEnds, Expire, Respond, Type, CheckOut, gitVars
<1>7. ASSUME NEW j \in Id, NEW b \in Branch, SwitchTree(j, b) PROVE
        \/ tree'[i].head = tree[i].head
        \/ SwitchTree(i, b) /\ tree'[i].head = b
  <2>1. CASE i = j
    BY <1>1, <1>7, <2>1
  <2>2. CASE i # j
    BY <1>1, <1>7, <2>2
  <2> QED BY <2>1, <2>2
<1> QED BY <1>1, <1>3, <1>4, <1>5, <1>6, <1>7, <1>2

LEMMA BasesOuter == ASSUME WorkInv, Outer PROVE Bases'
<1>1. \A i \in Id : tree'[i].base = tree[i].base
  BY OuterTrees DEF WorkInv
<1>2. \A c \in Client : op'[c] = op[c] \/ OpBased(c)'
  BY OuterOps, OpKinds DEF OpBased, WorkInv, Types
<1> QED BY <1>1, <1>2, OuterOps, BasesFrame DEF WorkInv, Types, Bases

----------------------------------------------------------------------------
(* Heads: a tree comes with the agent's branch, and goes before it. *)
LEMMA HeadsFrame ==
  ASSUME Heads, UNCHANGED refs, checkout'.on = checkout.on,
         \A b \in Branch \ refs : log'[b] = log[b],
         \A i \in Id : tree'[i].there => tree[i].there /\ tree'[i].head = tree[i].head,
         \A c \in Client : op'[c] = op[c] \/ op'[c].at # "branch"
  PROVE  Heads'
<1>1. \A c \in Client : op'[c].at = "branch" => op[c].at = "branch"
  OBVIOUS
<1>2. \A c \in Client : OpFree(c)'
  BY <1>1 DEF Heads, OpFree, At
<1>3. \A c, d \in Client : op'[c].at = "branch" /\ op'[d].at = "branch" => c = d
  BY <1>1 DEF Heads, At
<1>4. \A i, j \in Id : tree'[i].there /\ tree'[j].there => i = j
  BY DEF Heads
<1>5. \A i \in Id : tree'[i].there => tree'[i].head \in refs /\ own \in refs
  BY DEF Heads
<1>6. checkout.on \in refs /\ \A b \in Branch \ refs : log'[b] = {}
  BY DEF Heads
<1> QED BY <1>2, <1>3, <1>4, <1>5, <1>6 DEF Heads, At

LEMMA HeadsRun ==
  ASSUME WorkInv, NEW c \in Client,
         Run(c) \/ Restart(c) \/ Create(c) \/ Sidecar(c) \/ Launch(c) \/ PutRun(c)
  PROVE  Heads'
<1>0. Heads /\ GitTypes /\ OpTypes
  BY DEF WorkInv, Types
<1>1. CASE Run(c) \/ Restart(c)
  <2>1. PICK i, fresh :
            op' = [op EXCEPT ![c] = [at |-> "create", id |-> i, fresh |-> fresh, base |-> ""]]
    BY <1>1 DEF Run, Restart
  <2>2. \A d \in Client : op'[d] = op[d] \/ op'[d].at # "branch"
    BY <1>0, <2>1 DEF OpTypes
  <2>3. UNCHANGED <<tree, refs, log, checkout>>
    BY <1>1 DEF Run, Restart, gitVars
  <2> QED BY <1>0, <2>2, <2>3, HeadsFrame
<1>2. CASE Create(c)
  <2>1. op[c] \in RunOp /\ op[c].id \in Id /\ UNCHANGED checkout
    BY <1>0, <1>2, OpKind DEF Create, At, RunOp
  <2>2. CASE tree[op[c].id].there \/ own \in refs
    <3> DEFINE r == [op[c] EXCEPT !.at = "launch", !.base = tree[op[c].id].base]
    <3>1. UNCHANGED <<tree, refs, log>> /\ (Done(c) \/ op' = [op EXCEPT ![c] = r])
      BY <1>2, <2>2 DEF Create
    <3>2. r.at = "launch"
      BY <2>1 DEF RunOp
    <3> HIDE DEF r
    <3>3. \A d \in Client : op'[d] = op[d] \/ op'[d].at # "branch"
      BY <1>0, <3>1, <3>2, DoneOp DEF OpTypes
    <3> QED BY <1>0, <2>1, <3>1, <3>3, HeadsFrame
  <2>3. CASE ~(tree[op[c].id].there \/ own \in refs)
    <3> DEFINE r == [op[c] EXCEPT !.at = "sidecar", !.base = checkout.on]
               t == [NoTree EXCEPT !.there = TRUE, !.head = own]
    <3>1. /\ op' = [op EXCEPT ![c] = r] /\ tree' = [tree EXCEPT ![op[c].id] = t]
          /\ refs' = refs \cup {own} /\ log' = [log EXCEPT ![own] = log[checkout.on]]
      BY <1>2, <2>3 DEF Create
    <3>2. r.at = "sidecar" /\ t.head = own
      BY <2>1 DEF RunOp, NoTree
    <3> HIDE DEF r, t
    <3>3. \A d \in Client : op'[d].at # "branch"
      BY <1>0, <2>3, <3>1, <3>2 DEF OpTypes, Heads, OpFree, At
    <3>4. \A i \in Id : tree'[i].there => i = op[c].id /\ tree'[i].head = own
      BY <1>0, <2>1, <2>3, <3>1, <3>2 DEF GitTypes, Heads
    <3>5. \A b \in Branch \ refs' : log'[b] = {}
      BY <1>0, <3>1 DEF GitTypes, Heads
    <3>6. checkout'.on \in refs' /\ own \in refs'
      BY <1>0, <2>1, <3>1 DEF Heads
    <3> QED BY <3>3, <3>4, <3>5, <3>6 DEF Heads, OpFree, At
  <2> QED BY <2>2, <2>3
<1>3. CASE Sidecar(c)
  <2> DEFINE t == [tree[op[c].id] EXCEPT !.base = op[c].base]
  <2>1. op[c] \in RunOp /\ op[c].id \in Id
    BY <1>0, <1>3, OpKind DEF Sidecar, At, RunOp
  <2>2. tree' = [tree EXCEPT ![op[c].id] = t] /\ Go(c, "launch") /\ UNCHANGED <<refs, log, checkout>>
    BY <1>3 DEF Sidecar
  <2>3. t.there = tree[op[c].id].there /\ t.head = tree[op[c].id].head
    BY <1>0, <2>1, TreeFields DEF GitTypes
  <2> HIDE DEF t
  <2>4. \A d \in Client : op'[d] = op[d] \/ op'[d].at # "branch"
    BY <1>0, <2>1, <2>2, GoOp
  <2>5. \A i \in Id : tree'[i].there => tree[i].there /\ tree'[i].head = tree[i].head
    BY <1>0, <2>2, <2>3 DEF GitTypes
  <2> QED BY <1>0, <2>2, <2>4, <2>5, HeadsFrame
<1>4. CASE Launch(c) \/ PutRun(c)
  <2>1. op[c] \in RunOp
    BY <1>0, <1>4, OpKind DEF Launch, PutRun, At
  <2>2. UNCHANGED <<tree, refs, log, checkout>> /\ (Go(c, "put") \/ Done(c))
    BY <1>4 DEF Launch, PutRun, gitVars
  <2>3. \A d \in Client : op'[d] = op[d] \/ op'[d].at # "branch"
    BY <1>0, <2>1, <2>2, GoOp, DoneOp
  <2> QED BY <1>0, <2>2, <2>3, HeadsFrame
<1> QED BY <1>1, <1>2, <1>3, <1>4

(* What Merge and Delete do to the operations, at each of their points. *)
LEMMA WorkPoints ==
  ASSUME OpTypes, NEW c \in Client,
         \/ MergeGet(c) \/ MergeOn(c) \/ MergeClean(c) \/ MergeSquash(c) \/ MergeCommit(c)
         \/ MergeReset(c) \/ Remove(c) \/ DeleteBranch(c) \/ PutMerge(c)
         \/ DeleteGet(c, TRUE) \/ DeleteGet(c, FALSE) \/ DeleteRec(c)
  PROVE  /\ \A d \in Client \ {c} : op'[d] = op[d]
         /\ op'[c].at = "branch" => Remove(c)
<1>1. CASE MergeGet(c) \/ DeleteGet(c, TRUE) \/ DeleteGet(c, FALSE)
  <2>1. PICK at \in {"on", "delete"} : \E merge, force :
          op' = [op EXCEPT ![c] = [at |-> at, old |-> rec, merge |-> merge, force |-> force]]
    BY <1>1 DEF MergeGet, DeleteGet
  <2> QED BY <2>1 DEF OpTypes
<1>2. CASE ~(MergeGet(c) \/ DeleteGet(c, TRUE) \/ DeleteGet(c, FALSE))
  <2>1. op[c] \in WorkOp
    BY <1>2, OpKind DEF MergeOn, MergeClean, MergeSquash, MergeCommit, MergeReset, Remove,
       DeleteBranch, PutMerge, DeleteRec, At
  <2>2. Remove(c) \/ Done(c) \/ \E point \in {"clean", "squash", "commit", "reset", "remove", "put"} :
            Go(c, point)
    BY <1>2 DEF MergeOn, MergeClean, MergeSquash, MergeCommit, MergeReset,
       DeleteBranch, PutMerge, DeleteRec, Finish
  <2>3. Remove(c) => Done(c) \/ \E point : Go(c, point)
    BY DEF Remove, Finish
  <2> QED BY <2>1, <2>2, <2>3, GoOp, DoneOp
<1> QED BY <1>1, <1>2

LEMMA HeadsWork ==
  ASSUME WorkInv, NEW c \in Client,
         \/ MergeGet(c) \/ MergeOn(c) \/ MergeClean(c) \/ MergeSquash(c) \/ MergeCommit(c)
         \/ MergeReset(c) \/ Remove(c) \/ DeleteBranch(c) \/ PutMerge(c)
         \/ DeleteGet(c, TRUE) \/ DeleteGet(c, FALSE) \/ DeleteRec(c)
  PROVE  Heads'
<1>0. Heads /\ GitTypes /\ OpTypes
  BY DEF WorkInv, Types
<1>1. CASE Remove(c)
  <2> DEFINE j == op[c].old.id  t == [tree[j] EXCEPT !.there = FALSE]
  <2>1. op[c] \in WorkOp /\ j \in Id /\ UNCHANGED <<refs, log, checkout>>
    BY <1>0, <1>1, OpKind DEF Remove, At, WorkOp
  <2>2. CASE tree[j].there /\ (op[c].force \/ ~tree[j].dirty)
    <3>1. tree' = [tree EXCEPT ![j] = t] /\ Go(c, "branch")
      BY <1>1, <2>2 DEF Remove
    <3>2. ~t.there
      BY <1>0, <2>1, TreeFields DEF GitTypes
    <3> HIDE DEF j, t
    <3>3. \A i \in Id : ~tree'[i].there
      BY <1>0, <2>1, <2>2, <3>1, <3>2 DEF GitTypes, Heads
    <3>4. own \in refs /\ \A d \in Client : op[d].at # "branch"
      BY <1>0, <2>1, <2>2 DEF Heads, OpFree, At
    <3>5. \A d \in Client : op'[d].at = "branch" => d = c
      BY <1>0, <3>1, <3>4, GoOp
    <3> QED BY <1>0, <2>1, <3>3, <3>4, <3>5 DEF Heads, OpFree, At
  <2>3. CASE ~(tree[j].there /\ (op[c].force \/ ~tree[j].dirty))
    <3>1. UNCHANGED tree /\ Finish(c)
      BY <1>1, <2>3 DEF Remove
    <3>2. \A d \in Client : op'[d] = op[d] \/ op'[d].at # "branch"
      BY <1>0, <2>1, <3>1, FinishOp
    <3> QED BY <1>0, <2>1, <3>1, <3>2, HeadsFrame
  <2> QED BY <2>2, <2>3
<1>2. CASE DeleteBranch(c)
  <2> DEFINE j == op[c].old.id  t == [tree[j] EXCEPT !.base = ""]
  <2>1. op[c] \in WorkOp /\ j \in Id /\ At(c, "branch") /\ Finish(c) /\ UNCHANGED checkout
    BY <1>0, <1>2, OpKind DEF DeleteBranch, At, WorkOp
  <2>2. \A d \in Client : op'[d].at # "branch"
    BY <1>0, <2>1, FinishOp DEF Heads, At
  <2>3. CASE own \in refs \ CheckedOut
    <3>1. /\ refs' = refs \ {own} /\ log' = [log EXCEPT ![own] = {}]
          /\ tree' = [tree EXCEPT ![j] = t]
      BY <1>2, <2>3 DEF DeleteBranch
    <3>2. t.there = tree[j].there
      BY <1>0, <2>1, TreeFields DEF GitTypes
    <3> HIDE DEF j, t
    <3>3. \A i \in Id : ~tree'[i].there
      BY <1>0, <2>1, <3>1, <3>2 DEF GitTypes, Heads, OpFree
    <3>4. checkout.on # own
      BY <2>3 DEF CheckedOut
    <3>5. \A b \in Branch \ refs' : log'[b] = {}
      BY <1>0, <3>1 DEF GitTypes, Heads
    <3> QED BY <1>0, <2>1, <2>2, <3>1, <3>3, <3>4, <3>5 DEF Heads, OpFree, At
  <2>4. CASE own \notin refs \ CheckedOut
    BY <1>0, <1>2, <2>1, <2>2, <2>4, HeadsFrame DEF DeleteBranch
  <2> QED BY <2>3, <2>4
<1>3. CASE ~Remove(c) /\ ~DeleteBranch(c)
  <2>1. UNCHANGED <<tree, refs, log>> /\ checkout'.on = checkout.on
    BY <1>3 DEF MergeGet, MergeOn, MergeClean, MergeSquash, MergeCommit, MergeReset, PutMerge,
       DeleteGet, DeleteRec, gitVars, WorkInv, Types, HostTypes
  <2>2. \A d \in Client : op'[d] = op[d] \/ op'[d].at # "branch"
    BY <1>0, <1>3, WorkPoints
  <2> QED BY <1>0, <2>1, <2>2, HeadsFrame
<1> QED BY <1>1, <1>2, <1>3

(* What a step of the agents or the operator does to the branches. *)
LEMMA OuterLogs ==
  ASSUME Outer, WorkInv
  PROVE  \/ UNCHANGED <<log, squashed, refs>>
         \/ /\ UNCHANGED <<squashed, refs>> /\ checkout.on \in refs
            /\ \/ MergeByHand /\ log' = [log EXCEPT ![checkout.on] = @ \cup log[own]]
               \/ Save /\ log' = [log EXCEPT ![checkout.on] = @ \cup checkout.edits]
         \/ \E r \in Req : /\ ToolRun(r) /\ Tree(r).there /\ Tree(r).head \in refs /\ req[r].id \in Id
                           /\ \/ /\ UNCHANGED <<squashed, refs>> /\ made' = made + 1
                                 /\ log' = [log EXCEPT ![Tree(r).head] = @ \cup {made + 1}]
                              \/ Pulls(r) /\ UNCHANGED <<made, remote>>
<1>0. Heads /\ Types
  BY DEF WorkInv
<1>1. ASSUME NEW r \in Req, ToolRun(r)
      PROVE  \/ UNCHANGED <<log, squashed, refs>>
             \/ /\ ToolRun(r) /\ Tree(r).there /\ Tree(r).head \in refs /\ req[r].id \in Id
                /\ \/ /\ UNCHANGED <<squashed, refs>> /\ made' = made + 1
                      /\ log' = [log EXCEPT ![Tree(r).head] = @ \cup {made + 1}]
                   \/ Pulls(r) /\ UNCHANGED <<made, remote>>
  <2>1. req[r].id \in Id
    BY <1>1 DEF ToolRun, RunGit, WorkInv, Types, ReqTypes, ReqRec, NoReq
  <2>2. RunGit(r)
    BY <1>1 DEF ToolRun
  <2>3. Tree(r).there => Tree(r).head \in refs
    BY <1>0, <2>1 DEF Heads, Tree
  <2>4. CASE req[r].ask.sub = "commit"
    BY <1>1, <2>1, <2>2, <2>3, <2>4 DEF RunGit, Commits
  <2>5. CASE req[r].ask.sub = "pull"
    <3>1. Pulls(r) /\ UNCHANGED <<made, remote>>
      BY <2>2, <2>5 DEF RunGit
    <3>2. Tree(r).there \/ UNCHANGED <<log, squashed, refs>>
      BY <3>1 DEF Pulls
    <3> QED BY <1>1, <2>1, <2>3, <3>1, <3>2
  <2>6. CASE req[r].ask.sub \notin {"commit", "pull"}
    BY <2>2, <2>6 DEF RunGit, gitVars
  <2> QED BY <2>4, <2>5, <2>6
<1>2. CASE MergeByHand
  BY <1>0, <1>2 DEF MergeByHand, Heads
<1>3. CASE Save
  BY <1>0, <1>3 DEF Save, Heads
<1>4. ~MergeByHand /\ ~Save /\ (\A r \in Req : ~ToolRun(r)) => UNCHANGED <<log, squashed, refs>>
  BY DEF Outer, Stop, AgentStep, Edit, Begin, Outside, Others, Crash, ToolStep, LetGo,
     CheckCurrentBranch, PlanPush, ToolEnds, Expire, Respond, Type, CheckOut, SwitchTree, Switch, gitVars
<1> QED BY <1>1, <1>2, <1>3, <1>4

(* Such a step takes from a branch what is given up only, and adds to none that does
   not exist. *)
LEMMA OuterKeeps ==
  ASSUME Outer, WorkInv
  PROVE  /\ \A b \in Branch : /\ log[b] \subseteq log'[b] \cup given'
                              /\ squashed[b] \subseteq squashed'[b] \cup given'
         /\ \A b \in Branch \ refs' : log'[b] = log[b]
<1>0. GitTypes /\ refs \subseteq refs'
  BY OuterOps DEF WorkInv, Types
<1>1. CASE UNCHANGED <<log, squashed, refs>>
  BY <1>1
<1>2. ASSUME NEW on \in refs, NEW more, UNCHANGED <<squashed, refs>>,
             log' = [log EXCEPT ![on] = @ \cup more]
      PROVE  /\ \A b \in Branch : /\ log[b] \subseteq log'[b] \cup given'
                                  /\ squashed[b] \subseteq squashed'[b] \cup given'
             /\ \A b \in Branch \ refs' : log'[b] = log[b]
  BY <1>0, <1>2 DEF GitTypes
<1>3. ASSUME NEW r \in Req, ToolRun(r), Pulls(r), Tree(r).head \in refs
      PROVE  /\ \A b \in Branch : /\ log[b] \subseteq log'[b] \cup given'
                                  /\ squashed[b] \subseteq squashed'[b] \cup given'
             /\ \A b \in Branch \ refs' : log'[b] = log[b]
  <2>1. given' = given \cup
          UNION {(log[b] \ log'[b]) \cup (squashed[b] \ squashed'[b]) : b \in Branch}
    BY <1>3 DEF ToolRun
  <2>2. \A b \in Branch : log[b] \ log'[b] \subseteq given' /\ squashed[b] \ squashed'[b] \subseteq given'
    BY <2>1
  <2> QED BY <1>0, <1>3, <2>2, PullDoes
<1> QED BY <1>1, <1>2, <1>3, OuterLogs

LEMMA OuterCheckout ==
  ASSUME Outer, WorkInv
  PROVE  /\ checkout'.on = checkout.on \/ \E b \in refs : checkout'.on = b /\ checkout.index = {}
         /\ checkout'.index = checkout.index
BY DEF Outer, Stop, AgentStep, Save, MergeByHand, Outside, Crash, ToolStep, ToolRun, ToolEnds, Type,
   CheckOut, SwitchTree, WorkInv, Types, HostTypes

LEMMA HeadsOuter == ASSUME WorkInv, Outer PROVE Heads'
<1>0. Heads /\ GitTypes /\ OpTypes /\ Types
  BY DEF WorkInv, Types
<1>1. refs \subseteq refs' /\ checkout'.on \in refs'
  BY <1>0, OuterOps, OuterCheckout DEF Heads
<1>2. \A b \in Branch \ refs' : log'[b] = {}
  BY <1>0, <1>1, OuterKeeps DEF Heads
<1>3. \A i \in Id : tree'[i].there = tree[i].there
  BY <1>0, OuterTrees
<1>4. \A i \in Id : tree'[i].there => tree'[i].head \in refs'
  BY <1>0, <1>1, OuterTrees DEF Heads, SwitchTree, Switch
<1>5. \A c \in Client : op'[c] = op[c] \/ op'[c].at # "branch"
  BY <1>0, OuterOps, OpKinds
<1>6. \A c \in Client : OpFree(c)'
  BY <1>0, <1>1, <1>3, <1>5 DEF Heads, OpFree, At
<1>7. \A c, d \in Client : op'[c].at = "branch" /\ op'[d].at = "branch" => c = d
  BY <1>0, <1>5 DEF Heads, At
<1>8. \A i, j \in Id : tree'[i].there /\ tree'[j].there => i = j
  BY <1>0, <1>3 DEF Heads
<1>9. \A i \in Id : tree'[i].there => own \in refs'
  BY <1>0, <1>1, <1>3 DEF Heads
<1> QED BY <1>1, <1>2, <1>4, <1>6, <1>7, <1>8, <1>9 DEF Heads, At

----------------------------------------------------------------------------
(* Looked: what is safe stays safe. *)
LEMMA SafeGrows ==
  ASSUME refs \ {own} \subseteq refs', \A b \in refs \ {own} : log[b] \subseteq log'[b] \cup given',
         \A b \in Branch : squashed[b] \subseteq squashed'[b] \cup given',
         given \subseteq given', behind \subseteq behind'
  PROVE  Safe \subseteq Safe'
<1>1. OnOthers \subseteq OnOthers' \cup given'
  BY DEF OnOthers
<1>2. Squashed \subseteq Squashed' \cup given'
  BY DEF Squashed
<1> QED BY <1>1, <1>2 DEF Safe

LEMMA SafeOf ==
  /\ \A b \in refs \ {own} : log[b] \subseteq Safe
  /\ \A b \in Branch : squashed[b] \subseteq Safe
  /\ given \subseteq Safe /\ behind \subseteq Safe /\ 0 \in Safe
  BY DEF Safe, OnOthers, Squashed

LEMMA LookedFrame ==
  ASSUME Types, Looked, Safe \subseteq Safe', log'[own] \subseteq log[own] \cup Safe',
         checkout'.index # {} =>
           \/ checkout'.index = checkout.index /\ checkout'.on = checkout.on
           \/ checkout'.on # own /\ log'[own] \subseteq checkout'.index \cup Safe',
         \A i \in Id : tree'[i].there =>
           (tree[i].there /\ tree'[i].head = tree[i].head) \/ Covered',
         \A c \in Client : op'[c] = op[c] \/ OpLooked(c)'
  PROVE  Looked'
<1>1. Covered => Covered'
  BY DEF Covered
<1>2. \A i \in Id : tree'[i].there /\ tree'[i].head # own => Covered'
  BY <1>1 DEF Looked
<1>3. ASSUME NEW c \in Client, op'[c] = op[c] PROVE OpLooked(c)'
  <2>1. OpLooked(c)
    BY DEF Looked
  <2>2. op[c].at \in {"delete", "remove"} => op[c].old.id \in Id
    BY OpKind DEF Types, WorkOp
  <2>3. CASE At(c, "commit")
    BY <1>3, <2>1, <2>3 DEF OpLooked, At
  <2>4. CASE At(c, "branch")
    BY <1>1, <1>3, <2>1, <2>4 DEF OpLooked, At
  <2>5. CASE op[c].at \in {"delete", "remove"}
    BY <1>1, <1>3, <2>1, <2>2, <2>5 DEF OpLooked, At
  <2>6. CASE op[c].at \notin {"commit", "branch", "delete", "remove"}
    BY <1>3, <2>6 DEF OpLooked, At
  <2> QED BY <2>3, <2>4, <2>5, <2>6 DEF At
<1>4. \A c \in Client : OpLooked(c)'
  BY <1>3
<1> QED BY <1>2, <1>4 DEF Looked

LEMMA NotLooked ==
  ASSUME NEW c \in Client, op'[c].at \notin {"commit", "branch", "delete", "remove"}
  PROVE  OpLooked(c)'
  BY DEF OpLooked, At

LEMMA LookedRun ==
  ASSUME WorkInv, NEW c \in Client,
         Run(c) \/ Restart(c) \/ Create(c) \/ Sidecar(c) \/ Launch(c) \/ PutRun(c)
  PROVE  Looked'
<1>0. Heads /\ Looked /\ Types /\ GitTypes /\ OpTypes
  BY DEF WorkInv, Types
<1>1. UNCHANGED <<checkout, squashed, given, behind>>
  BY DEF Run, Restart, Create, Sidecar, Launch, PutRun, gitVars
<1>2. CASE Create(c) /\ ~(tree[op[c].id].there \/ own \in refs)
  <2> DEFINE r == [op[c] EXCEPT !.at = "sidecar", !.base = checkout.on]
             t == [NoTree EXCEPT !.there = TRUE, !.head = own]
  <2>1. /\ op' = [op EXCEPT ![c] = r] /\ tree' = [tree EXCEPT ![op[c].id] = t]
        /\ refs' = refs \cup {own} /\ log' = [log EXCEPT ![own] = log[checkout.on]]
    BY <1>2 DEF Create
  <2>2. op[c] \in RunOp /\ op[c].id \in Id
    BY <1>0, <1>2, OpKind DEF Create, At, RunOp
  <2>3. r.at = "sidecar"
    BY <2>2 DEF RunOp
  <2> HIDE DEF r, t
  <2>4. own \in Branch /\ checkout.on \in refs \ {own}
    BY <1>0, <1>2, WorktreesAssumption DEF Heads
  <2>5. \A b \in refs \ {own} : log'[b] = log[b]
    BY <1>0, <2>1 DEF GitTypes
  <2>6. Safe \subseteq Safe'
    BY <1>1, <2>1, <2>5, SafeGrows
  <2>7. log'[own] = log[checkout.on] /\ log[checkout.on] \subseteq Safe
    BY <1>0, <2>1, <2>4, SafeOf DEF GitTypes
  <2>8. Covered'
    BY <2>6, <2>7 DEF Covered
  <2>9. \A d \in Client : op'[d] = op[d] \/ OpLooked(d)'
    BY <1>0, <2>1, <2>3, NotLooked DEF OpTypes
  <2> QED BY <1>0, <1>1, <2>6, <2>7, <2>8, <2>9, LookedFrame
<1>3. CASE ~(Create(c) /\ ~(tree[op[c].id].there \/ own \in refs))
  <2>1. UNCHANGED <<refs, log>>
    BY <1>3 DEF Run, Restart, Create, Sidecar, Launch, PutRun, gitVars
  <2>2. Safe \subseteq Safe'
    BY <1>1, <2>1, SafeGrows
  <2>3. \A i \in Id : tree'[i].there => tree[i].there /\ tree'[i].head = tree[i].head
    <3>1. CASE Sidecar(c)
      <4> DEFINE t == [tree[op[c].id] EXCEPT !.base = op[c].base]
      <4>1. op[c].id \in Id
        BY <1>0, <3>1, OpKind DEF Sidecar, At, RunOp
      <4>2. tree' = [tree EXCEPT ![op[c].id] = t]
        BY <3>1 DEF Sidecar
      <4>3. t.there = tree[op[c].id].there /\ t.head = tree[op[c].id].head
        BY <1>0, <4>1, TreeFields DEF GitTypes
      <4> HIDE DEF t
      <4> QED BY <1>0, <4>2, <4>3 DEF GitTypes
    <3>2. CASE ~Sidecar(c)
      BY <1>3, <3>2 DEF Run, Restart, Create, Launch, PutRun, gitVars
    <3> QED BY <3>1, <3>2
  <2>4. \A d \in Client : op'[d] = op[d] \/ op'[d].at \in {"create", "launch", "put", "idle"}
    <3>1. CASE Run(c) \/ Restart(c)
      <4>1. PICK i, fresh :
                op' = [op EXCEPT ![c] = [at |-> "create", id |-> i, fresh |-> fresh, base |-> ""]]
        BY <3>1 DEF Run, Restart
      <4> QED BY <1>0, <4>1 DEF OpTypes
    <3>2. CASE Create(c)
      <4> DEFINE r == [op[c] EXCEPT !.at = "launch", !.base = tree[op[c].id].base]
      <4>1. op[c] \in RunOp
        BY <1>0, <3>2, OpKind DEF Create, At
      <4>2. Done(c) \/ op' = [op EXCEPT ![c] = r]
        BY <1>3, <3>2 DEF Create
      <4>3. r.at = "launch"
        BY <4>1 DEF RunOp
      <4> HIDE DEF r
      <4> QED BY <1>0, <4>2, <4>3, DoneOp DEF OpTypes
    <3>3. CASE Sidecar(c) \/ Launch(c) \/ PutRun(c)
      <4>1. op[c] \in RunOp
        BY <1>0, <3>3, OpKind DEF Sidecar, Launch, PutRun, At
      <4>2. Go(c, "launch") \/ Go(c, "put") \/ Done(c)
        BY <3>3 DEF Sidecar, Launch, PutRun
      <4> QED BY <1>0, <4>1, <4>2, GoOp, DoneOp
    <3> QED BY <3>1, <3>2, <3>3
  <2>5. \A d \in Client : op'[d] = op[d] \/ OpLooked(d)'
    BY <2>4, NotLooked
  <2> QED BY <1>0, <1>1, <2>1, <2>2, <2>3, <2>5, LookedFrame
<1> QED BY <1>2, <1>3

LEMMA WorkGrows ==
  ASSUME WorkInv, NEW c \in Client,
         \/ MergeGet(c) \/ MergeOn(c) \/ MergeClean(c) \/ MergeSquash(c) \/ MergeCommit(c)
         \/ MergeReset(c) \/ Remove(c) \/ DeleteBranch(c) \/ PutMerge(c)
         \/ DeleteGet(c, TRUE) \/ DeleteGet(c, FALSE) \/ DeleteRec(c)
  PROVE  /\ Safe \subseteq Safe' /\ log'[own] \subseteq log[own]
         /\ \A i \in Id : tree'[i].there => tree[i].there /\ tree'[i].head = tree[i].head
<1>0. GitTypes /\ OpTypes /\ own \in Branch
  BY WorktreesAssumption DEF WorkInv, Types
<1>1. CASE DeleteBranch(c)
  <2> DEFINE j == op[c].old.id  t == [tree[j] EXCEPT !.base = ""]
  <2>1. /\ UNCHANGED <<tree, refs, log, given>>
           \/ /\ refs' = refs \ {own} /\ log' = [log EXCEPT ![own] = {}]
              /\ tree' = [tree EXCEPT ![j] = t] /\ given \subseteq given'
        /\ UNCHANGED <<squashed, behind>>
    BY <1>1 DEF DeleteBranch
  <2>2. op[c] \in WorkOp /\ j \in Id
    BY <1>0, <1>1, OpKind DEF DeleteBranch, At, WorkOp
  <2>3. t.there = tree[j].there /\ t.head = tree[j].head
    BY <1>0, <2>2, TreeFields DEF GitTypes
  <2> HIDE DEF j, t
  <2>4. Safe \subseteq Safe'
    <3>1. \A b \in refs \ {own} : log[b] \subseteq log'[b]
      BY <1>0, <2>1 DEF GitTypes
    <3> QED BY <2>1, <3>1, SafeGrows
  <2>5. log'[own] \subseteq log[own]
    BY <1>0, <2>1 DEF GitTypes
  <2>6. \A i \in Id : tree'[i].there => tree[i].there /\ tree'[i].head = tree[i].head
    BY <1>0, <2>1, <2>3 DEF GitTypes
  <2> QED BY <2>4, <2>5, <2>6
<1>2. CASE Remove(c)
  <2> DEFINE j == op[c].old.id  t == [tree[j] EXCEPT !.there = FALSE]
  <2>1. UNCHANGED <<refs, log, given, squashed, behind>> /\
            (UNCHANGED tree \/ tree' = [tree EXCEPT ![j] = t])
    BY <1>2 DEF Remove
  <2>2. op[c] \in WorkOp /\ j \in Id
    BY <1>0, <1>2, OpKind DEF Remove, At, WorkOp
  <2>3. ~t.there
    BY <1>0, <2>2, TreeFields DEF GitTypes
  <2> HIDE DEF j, t
  <2> QED BY <1>0, <2>1, <2>3, SafeGrows DEF GitTypes
<1>3. CASE MergeCommit(c)
  <2>1. UNCHANGED <<tree, refs, log, given, behind>>
    BY <1>3 DEF MergeCommit
  <2>2. UNCHANGED squashed \/ squashed' = [squashed EXCEPT ![checkout.on] = @ \cup checkout.index]
    BY <1>3 DEF MergeCommit
  <2>3. \A b \in Branch : squashed[b] \subseteq squashed'[b]
    BY <1>0, <2>2 DEF GitTypes
  <2> QED BY <2>1, <2>3, SafeGrows
<1>4. CASE UNCHANGED <<tree, refs, log, squashed, given, behind>>
  BY <1>4, SafeGrows
<1> QED BY <1>1, <1>2, <1>3, <1>4
        DEF MergeGet, MergeOn, MergeClean, MergeSquash, MergeReset, PutMerge, DeleteGet, DeleteRec,
            gitVars

LEMMA LookedMerge ==
  ASSUME WorkInv, NEW c \in Client,
         \/ MergeGet(c) \/ MergeOn(c) \/ MergeClean(c) \/ MergeSquash(c) \/ MergeCommit(c)
         \/ MergeReset(c) \/ PutMerge(c)
  PROVE  Looked'
<1>0. Types /\ Heads /\ Looked /\ OpTypes /\ GitTypes /\ HostTypes /\ OpLooked(c)
  BY DEF WorkInv, Types, Looked
<1>1. /\ Safe \subseteq Safe' /\ log'[own] \subseteq log[own]
      /\ \A i \in Id : tree'[i].there => tree[i].there /\ tree'[i].head = tree[i].head
  BY WorkGrows
<1>2. UNCHANGED <<refs, log>>
  BY DEF MergeGet, MergeOn, MergeClean, MergeSquash, MergeCommit, MergeReset, PutMerge, gitVars
<1>3. CASE MergeSquash(c) /\ Go(c, "commit")
  <2>1. op[c] \in WorkOp
    BY <1>0, <1>3, OpKind DEF MergeSquash, At
  <2>2. op'[c].at = "commit" /\ \A d \in Client \ {c} : op'[d] = op[d]
    BY <1>0, <1>3, <2>1, GoOp
  <2>3. ~Go(c, "reset")
    BY <1>0, <2>1, <2>2, GoOp
  <2>4. checkout'.index = log[own] \ log[checkout.on] /\ checkout'.on = checkout.on
    BY <1>0, <1>3, <2>3 DEF MergeSquash, HostTypes
  <2>5. checkout'.index # {} => checkout'.on # own /\ log'[own] \subseteq checkout'.index \cup Safe'
    BY <1>0, <1>1, <1>2, <2>4, SafeOf DEF Heads
  <2>6. OpLooked(c)'
    BY <2>2, <2>5 DEF OpLooked, At
  <2> QED BY <1>0, <1>1, <2>2, <2>5, <2>6, LookedFrame
<1>4. CASE MergeCommit(c) /\ Go(c, "remove")
  <2>1. op[c] \in WorkOp /\ At(c, "commit")
    BY <1>0, <1>4, OpKind DEF MergeCommit, At
  <2>2. op'[c].at = "remove" /\ \A d \in Client \ {c} : op'[d] = op[d]
    BY <1>0, <1>4, <2>1, GoOp
  <2>3. /\ checkout.index # {} /\ checkout'.index = {}
        /\ squashed' = [squashed EXCEPT ![checkout.on] = @ \cup checkout.index]
    <3>1. ~Go(c, "reset")
      BY <1>0, <2>1, <2>2, GoOp
    <3> QED BY <1>0, <1>4, <3>1 DEF MergeCommit, HostTypes
  <2>4. checkout.index \subseteq squashed'[checkout.on] /\ checkout.on \in Branch
    BY <1>0, <2>3 DEF HostTypes, GitTypes
  <2>5. squashed'[checkout.on] \subseteq Safe'
    BY <2>4, SafeOf DEF Safe, Squashed
  <2>6. log[own] \subseteq checkout.index \cup Safe
    BY <1>0, <2>1, <2>3 DEF OpLooked
  <2>7. Covered'
    BY <1>1, <1>2, <2>4, <2>5, <2>6 DEF Covered
  <2>8. OpLooked(c)'
    BY <2>2, <2>7 DEF OpLooked, At
  <2> QED BY <1>0, <1>1, <2>2, <2>3, <2>8, LookedFrame
<1>5. CASE ~(MergeSquash(c) /\ Go(c, "commit")) /\ ~(MergeCommit(c) /\ Go(c, "remove"))
  <2>1. checkout'.index = {} \/ (checkout'.index = checkout.index /\ checkout'.on = checkout.on)
    BY <1>0, <1>5 DEF MergeGet, MergeOn, MergeClean, MergeSquash, MergeCommit, MergeReset, PutMerge,
       HostTypes
  <2>2. \A d \in Client : op'[d] = op[d] \/ OpLooked(d)'
    <3>1. CASE MergeGet(c)
      <4>1. op'[c].at = "on" /\ \A d \in Client \ {c} : op'[d] = op[d]
        BY <1>0, <3>1 DEF MergeGet, OpTypes
      <4> QED BY <4>1, NotLooked
    <3>2. CASE ~MergeGet(c)
      <4>1. op[c] \in WorkOp
        BY <1>0, <3>2, OpKind DEF MergeOn, MergeClean, MergeSquash, MergeCommit, MergeReset, PutMerge, At
      <4>2. Done(c) \/ \E point \in {"clean", "squash", "reset"} : Go(c, point)
        BY <1>5, <3>2 DEF MergeOn, MergeClean, MergeSquash, MergeCommit, MergeReset, PutMerge
      <4> QED BY <1>0, <4>1, <4>2, GoOp, DoneOp, NotLooked
    <3> QED BY <3>1, <3>2
  <2> QED BY <1>0, <1>1, <2>1, <2>2, LookedFrame
<1> QED BY <1>3, <1>4, <1>5

LEMMA LookedDelete ==
  ASSUME WorkInv, NEW c \in Client,
         Remove(c) \/ DeleteBranch(c) \/ DeleteGet(c, TRUE) \/ DeleteGet(c, FALSE) \/ DeleteRec(c)
  PROVE  Looked'
<1>0. Types /\ Heads /\ Looked /\ OpTypes /\ GitTypes /\ RecTypes /\ OpLooked(c)
  BY DEF WorkInv, Types, Looked
<1>1. /\ Safe \subseteq Safe' /\ log'[own] \subseteq log[own]
      /\ \A i \in Id : tree'[i].there => tree[i].there /\ tree'[i].head = tree[i].head
  BY WorkGrows
<1>2. UNCHANGED checkout /\ (~DeleteBranch(c) => UNCHANGED log) /\ (Covered => Covered')
  BY <1>1 DEF Remove, DeleteBranch, DeleteGet, DeleteRec, gitVars, Covered
<1>3. \A d \in Client \ {c} : op'[d] = op[d]
  BY <1>0, WorkPoints
<1>4. OpLooked(c)'
  <2>1. CASE Remove(c)
    <3>1. op[c] \in WorkOp /\ At(c, "remove")
      BY <1>0, <2>1, OpKind DEF Remove, At
    <3>2. CASE tree[op[c].old.id].there /\ (op[c].force \/ ~tree[op[c].old.id].dirty)
      <4>1. op'[c].at = "branch" /\ op'[c].force = op[c].force
        BY <1>0, <2>1, <3>1, <3>2, GoOp DEF Remove
      <4>2. ~op[c].force => Covered'
        BY <1>0, <1>2, <3>1, <3>2 DEF OpLooked, At
      <4> QED BY <4>1, <4>2 DEF OpLooked, At
    <3>3. CASE ~(tree[op[c].old.id].there /\ (op[c].force \/ ~tree[op[c].old.id].dirty))
      BY <1>0, <2>1, <3>1, <3>3, FinishOp, NotLooked DEF Remove
    <3> QED BY <3>2, <3>3
  <2>2. CASE DeleteBranch(c)
    <3>1. op[c] \in WorkOp /\ Finish(c)
      BY <1>0, <2>2, OpKind DEF DeleteBranch, At
    <3> QED BY <1>0, <3>1, FinishOp, NotLooked
  <2>3. CASE DeleteGet(c, TRUE)
    <3>1. op'[c].at = "delete" /\ op'[c].force
      BY <1>0, <2>3 DEF DeleteGet, OpTypes
    <3> QED BY <3>1 DEF OpLooked, At
  <2>4. CASE DeleteGet(c, FALSE)
    <3>1. /\ op'[c] = [at |-> "delete", old |-> rec, merge |-> FALSE, force |-> FALSE]
          /\ rec # NoRec /\ UNCHANGED tree
          /\ rec.wt => ~HasUnmergedCommits(rec.id, rec.base)
      BY <1>0, <2>4 DEF DeleteGet, OpTypes, gitVars
    <3>2. rec.wt => Covered \/ ~tree[rec.id].there
      <4> SUFFICES ASSUME rec.wt, tree[rec.id].there PROVE Covered
        OBVIOUS
      <4>1. log[tree[rec.id].head] \subseteq log[rec.base] /\ rec.base \in refs \ {own}
        BY <3>1 DEF HasUnmergedCommits, WorkInv, Bases
      <4>2. CASE tree[rec.id].head = own
        BY <4>1, <4>2, SafeOf DEF Covered
      <4>3. CASE tree[rec.id].head # own
        BY <1>0, <3>1, <4>3 DEF Looked, RecTypes
      <4> QED BY <4>2, <4>3
    <3> QED BY <1>2, <3>1, <3>2 DEF OpLooked, At
  <2>5. CASE DeleteRec(c)
    <3>1. op[c] \in WorkOp /\ At(c, "delete") /\ UNCHANGED tree
      BY <1>0, <2>5, OpKind DEF DeleteRec, At, gitVars
    <3>2. CASE op[c].old.wt
      <4>1. op'[c].at = "remove" /\ op'[c].old = op[c].old /\ op'[c].force = op[c].force
        BY <1>0, <2>5, <3>1, <3>2, GoOp DEF DeleteRec
      <4>2. ~op[c].force => Covered \/ ~tree[op[c].old.id].there
        BY <1>0, <3>1, <3>2 DEF OpLooked, At
      <4> QED BY <1>2, <3>1, <4>1, <4>2 DEF OpLooked, At
    <3>3. CASE ~op[c].old.wt
      BY <1>0, <2>5, <3>3, DoneOp, NotLooked DEF DeleteRec
    <3> QED BY <3>2, <3>3
  <2> QED BY <2>1, <2>2, <2>3, <2>4, <2>5
<1> QED BY <1>0, <1>1, <1>2, <1>3, <1>4, LookedFrame

(* A commit to the agent's branch that nobody is about to delete or merge: or it
   counts as done behind what has been looked at.  What a pull brings is known. *)
LEMMA OuterGrows ==
  ASSUME WorkInv, Outer
  PROVE  /\ Safe \subseteq Safe' /\ log[own] \subseteq log'[own] \cup Safe'
         /\ \/ log'[own] \subseteq log[own] \cup Safe'
            \/ /\ ~LookedAtWork
               /\ \A i \in Id : tree[i].there => tree[i].head = own
<1>0. Types /\ Heads /\ GitTypes /\ HostTypes /\ Known /\ own \in Branch
  BY WorktreesAssumption DEF WorkInv, Types
<1>1. refs \subseteq refs' /\ given \subseteq given' /\ behind \subseteq behind'
  BY <1>0, OuterOps DEF Types
<1>2. \A b \in refs : log[b] \subseteq log'[b] \cup given'
  BY <1>0, OuterKeeps DEF GitTypes
<1>3. Safe \subseteq Safe'
  BY <1>0, <1>1, <1>2, OuterKeeps, SafeGrows
<1>4. log[own] \subseteq log'[own] \cup Safe'
  BY <1>0, OuterKeeps DEF Safe
<1>5. \/ log'[own] \subseteq log[own] \cup Safe'
      \/ ~LookedAtWork /\ \A i \in Id : tree[i].there => tree[i].head = own
  <2>1. CASE UNCHANGED log
    BY <2>1
  <2>2. CASE log' = [log EXCEPT ![checkout.on] = @ \cup log[own]]
    BY <1>0, <2>2 DEF GitTypes
  <2>3. CASE Save /\ log' = [log EXCEPT ![checkout.on] = @ \cup checkout.edits]
    <3>1. checkout.on = own => checkout.edits \subseteq Safe'
      BY <2>3 DEF Save, Safe
    <3> QED BY <1>0, <2>3, <3>1 DEF GitTypes
  <2>4. ASSUME NEW r \in Req, ToolRun(r), req[r].id \in Id, Tree(r).there, made' = made + 1,
               log' = [log EXCEPT ![Tree(r).head] = @ \cup {made + 1}]
        PROVE  \/ log'[own] \subseteq log[own] \cup Safe'
               \/ ~LookedAtWork /\ \A i \in Id : tree[i].there => tree[i].head = own
    <3>1. CASE Tree(r).head # own
      BY <1>0, <2>4, <3>1 DEF GitTypes
    <3>2. CASE Tree(r).head = own /\ LookedAtWork
      <4>1. behind' = behind \cup {made'}
        BY <1>0, <2>4, <3>2 DEF ToolRun, GitTypes
      <4>2. made' \in Safe'
        BY <4>1 DEF Safe
      <4>3. log'[own] \subseteq log[own] \cup {made'}
        BY <1>0, <2>4, <3>2 DEF GitTypes
      <4> QED BY <4>2, <4>3
    <3>3. CASE Tree(r).head = own /\ ~LookedAtWork
      BY <1>0, <2>4, <3>3 DEF Heads, Tree
    <3> QED BY <3>1, <3>2, <3>3
  <2>5. ASSUME NEW r \in Req, Pulls(r) PROVE log'[own] \subseteq log[own] \cup Safe'
    <3>1. \A e \in log'[own] \ log[own] : \E from \in Branch : e \in remote[from]
      BY <1>0, <2>5, PullDoes
    <3>2. log'[own] \ log[own] \subseteq log[own] \cup Safe
      BY <1>0, <3>1 DEF Known
    <3> QED BY <1>3, <3>2
  <2> QED BY <2>1, <2>2, <2>3, <2>4, <2>5, OuterLogs
<1> QED BY <1>3, <1>4, <1>5

LEMMA LookedOuter == ASSUME WorkInv, Outer PROVE Looked'
<1>0. Types /\ Heads /\ Looked /\ OpTypes
  BY DEF WorkInv, Types
<1>1. Safe \subseteq Safe'
  BY OuterGrows
<1>2. /\ checkout'.index = checkout.index
      /\ checkout.index # {} => checkout'.on = checkout.on
  BY OuterCheckout
<1>3. \A c \in Client : op'[c] = op[c] \/ op'[c].at = "idle"
  BY <1>0, OuterOps, OpKinds
<1>4. ASSUME NEW i \in Id
      PROVE  tree'[i].there = tree[i].there /\ (tree'[i].head = tree[i].head \/ Covered')
  <2>1. ASSUME NEW b \in Branch, SwitchTree(i, b) PROVE Covered'
    <3>1. behind' = behind \cup log[own] /\ UNCHANGED log
      BY <2>1 DEF SwitchTree, Switch
    <3> QED BY <3>1 DEF Covered, Safe
  <2> QED BY <1>0, <2>1, OuterTrees
<1>5. CASE log'[own] \subseteq log[own] \cup Safe'
  BY <1>0, <1>1, <1>2, <1>3, <1>4, <1>5, NotLooked, LookedFrame
<1>6. CASE ~LookedAtWork /\ \A i \in Id : tree[i].there => tree[i].head = own
  <2>1. \A c \in Client : OpLooked(c)'
    BY <1>3, <1>6, NotLooked DEF LookedAtWork
  <2>2. \A i \in Id : tree'[i].there /\ tree'[i].head # own => Covered'
    BY <1>4, <1>6
  <2> QED BY <2>1, <2>2 DEF Looked
<1> QED BY <1>5, <1>6, OuterGrows

----------------------------------------------------------------------------
(* Edits, Lost: the one step that throws edits away comes after a look, the one
   that deletes the branch after another. *)
LEMMA KnownFrame ==
  ASSUME Known, log[own] \cup Safe \subseteq log'[own] \cup Safe', UNCHANGED remote
  PROVE  Known'
  BY DEF Known

LEMMA EditsRun ==
  ASSUME WorkInv, NEW c \in Client,
         Run(c) \/ Restart(c) \/ Create(c) \/ Sidecar(c) \/ Launch(c) \/ PutRun(c)
  PROVE  Edits' /\ Lost' /\ Known'
<1>0. Types /\ OpTypes /\ GitTypes /\ Heads /\ Edits /\ Lost /\ Known
  BY DEF WorkInv, Types
<1>1. UNCHANGED <<checkout, squashed, remote, made, given, behind>>
  BY DEF Run, Restart, Create, Sidecar, Launch, PutRun, gitVars
<1>2. \A d \in Client : op'[d] = op[d] \/ op'[d].at \notin {"squash", "commit", "reset"}
  <2>1. CASE Run(c) \/ Restart(c)
    <3>1. PICK i, fresh :
              op' = [op EXCEPT ![c] = [at |-> "create", id |-> i, fresh |-> fresh, base |-> ""]]
      BY <2>1 DEF Run, Restart
    <3> QED BY <1>0, <3>1 DEF OpTypes
  <2>2. CASE Create(c)
    <3>1. op[c] \in RunOp
      BY <1>0, <2>2, OpKind DEF Create, At
    <3>2. Done(c) \/ \E at \in {"launch", "sidecar"} : \E base :
              op' = [op EXCEPT ![c] = [op[c] EXCEPT !.at = at, !.base = base]]
      BY <2>2 DEF Create
    <3>3. \A at, base : [op[c] EXCEPT !.at = at, !.base = base].at = at
      BY <3>1 DEF RunOp
    <3>4. CASE Done(c)
      BY <1>0, <3>4, DoneOp
    <3>5. CASE ~Done(c)
      <4>0. PICK at \in {"launch", "sidecar"} : \E base :
                op' = [op EXCEPT ![c] = [op[c] EXCEPT !.at = at, !.base = base]]
        BY <3>2, <3>5
      <4>1. PICK base : op' = [op EXCEPT ![c] = [op[c] EXCEPT !.at = at, !.base = base]]
        BY <4>0
      <4> DEFINE r == [op[c] EXCEPT !.at = at, !.base = base]
      <4>2. op' = [op EXCEPT ![c] = r] /\ r.at = at
        BY <3>3, <4>1
      <4> HIDE DEF r
      <4> QED BY <1>0, <4>2 DEF OpTypes
    <3> QED BY <3>4, <3>5
  <2>3. CASE Sidecar(c) \/ Launch(c) \/ PutRun(c)
    <3>1. op[c] \in RunOp
      BY <1>0, <2>3, OpKind DEF Sidecar, Launch, PutRun, At
    <3>2. Go(c, "launch") \/ Go(c, "put") \/ Done(c)
      BY <2>3 DEF Sidecar, Launch, PutRun
    <3> QED BY <1>0, <3>1, <3>2, GoOp, DoneOp
  <2> QED BY <2>1, <2>2, <2>3
<1>3. Edits'
  BY <1>0, <1>1, <1>2 DEF Edits, LookedAtEdits
<1>4. log[own] \cup Safe \subseteq log'[own] \cup Safe'
  <2>1. UNCHANGED <<refs, log>> \/ (own \notin refs /\ refs' = refs \cup {own} /\
            log' = [log EXCEPT ![own] = log[checkout.on]])
    BY DEF Run, Restart, Create, Sidecar, Launch, PutRun, gitVars
  <2>2. own \in Branch
    BY WorktreesAssumption
  <2>3. \A b \in refs \ {own} : log'[b] = log[b]
    BY <1>0, <2>1 DEF GitTypes
  <2>4. refs \ {own} \subseteq refs'
    BY <2>1
  <2>5. Safe \subseteq Safe'
    BY <1>1, <2>3, <2>4, SafeGrows
  <2>6. log[own] \subseteq log'[own]
    BY <1>0, <2>1, <2>2 DEF Heads
  <2> QED BY <2>5, <2>6
<1>5. Lost'
  BY <1>0, <1>1, <1>4 DEF Lost
<1> QED BY <1>0, <1>1, <1>3, <1>4, <1>5, KnownFrame

LEMMA EditsWork ==
  ASSUME WorkInv, NEW c \in Client,
         \/ MergeGet(c) \/ MergeOn(c) \/ MergeClean(c) \/ MergeSquash(c) \/ MergeCommit(c)
         \/ MergeReset(c) \/ Remove(c) \/ DeleteBranch(c) \/ PutMerge(c)
         \/ DeleteGet(c, TRUE) \/ DeleteGet(c, FALSE) \/ DeleteRec(c)
  PROVE  Edits' /\ Lost' /\ Known'
<1>0. Types /\ OpTypes /\ GitTypes /\ HostTypes /\ Looked /\ Edits /\ Lost /\ Known
  BY DEF WorkInv, Types
<1>1. UNCHANGED <<made, remote, behind>> /\ \A d \in Client \ {c} : op'[d] = op[d]
  BY <1>0, WorkPoints DEF MergeGet, MergeOn, MergeClean, MergeSquash, MergeCommit, MergeReset, Remove,
     DeleteBranch, PutMerge, DeleteGet, DeleteRec, gitVars
<1>2. CASE MergeReset(c)
  <2>1. checkout.edits \subseteq behind
    BY <1>0, <1>2 DEF MergeReset, At, Edits, LookedAtEdits
  <2>2. checkout'.edits = {} /\ checkout'.typed = checkout.typed
    BY <1>0, <1>2 DEF MergeReset, HostTypes
  <2>3. UNCHANGED log /\ Safe \subseteq Safe'
    BY <1>2, WorkGrows DEF MergeReset, gitVars
  <2>4. Edits' /\ Lost'
    BY <1>0, <1>1, <2>1, <2>2, <2>3, SafeOf DEF Edits, Lost
  <2> QED BY <1>0, <1>1, <2>3, <2>4, KnownFrame
<1>3. CASE ~MergeReset(c)
  <2>1. checkout'.edits = checkout.edits /\ checkout'.typed = checkout.typed
    BY <1>0, <1>3 DEF MergeGet, MergeOn, MergeClean, MergeSquash, MergeCommit, Remove,
              DeleteBranch, PutMerge,
       DeleteGet, DeleteRec, HostTypes
  <2>2. op'[c].at \in {"squash", "commit", "reset"} => LookedAtEdits \/ checkout.edits = {}
    <3>1. CASE MergeSquash(c) \/ MergeCommit(c)
      BY <3>1 DEF MergeSquash, MergeCommit, At, LookedAtEdits
    <3>2. CASE MergeClean(c)
      <4>1. op[c] \in WorkOp
        BY <1>0, <3>2, OpKind DEF MergeClean, At
      <4> QED BY <1>0, <3>2, <4>1, DoneOp DEF MergeClean
    <3>3. CASE MergeGet(c) \/ DeleteGet(c, TRUE) \/ DeleteGet(c, FALSE)
      BY <1>0, <3>3 DEF MergeGet, DeleteGet, OpTypes
    <3>4. CASE MergeOn(c) \/ Remove(c) \/ DeleteBranch(c) \/ PutMerge(c) \/ DeleteRec(c)
      <4>1. op[c] \in WorkOp
        BY <1>0, <3>4, OpKind DEF MergeOn, Remove, DeleteBranch, PutMerge, DeleteRec, At
      <4>2. Done(c) \/ \E point \in {"clean", "branch", "put", "remove"} : Go(c, point)
        BY <3>4 DEF MergeOn, Remove, DeleteBranch, PutMerge, DeleteRec, Finish
      <4> QED BY <1>0, <4>1, <4>2, GoOp, DoneOp
    <3> QED BY <1>3, <3>1, <3>2, <3>3, <3>4
  <2>3. Edits'
    BY <1>0, <1>1, <2>1, <2>2 DEF Edits, LookedAtEdits
  <2>4. log[own] \subseteq log'[own] \cup Safe'
    <3>1. CASE DeleteBranch(c)
      <4>1. CASE op[c].force /\ own \in refs \ CheckedOut
        BY <3>1, <4>1 DEF DeleteBranch, Safe
      <4>2. CASE ~op[c].force
        BY <1>0, <3>1, <4>2, WorkGrows DEF DeleteBranch, Looked, OpLooked, Covered
      <4>3. CASE own \notin refs \ CheckedOut
        BY <3>1, <4>3 DEF DeleteBranch
      <4> QED BY <4>1, <4>2, <4>3
    <3>2. CASE ~DeleteBranch(c)
      BY <1>3, <3>2 DEF MergeGet, MergeOn, MergeClean, MergeSquash, MergeCommit, Remove, PutMerge,
       DeleteGet, DeleteRec, gitVars
    <3> QED BY <3>1, <3>2
  <2>5. Lost'
    BY <1>0, <1>1, <2>1, <2>4, WorkGrows DEF Lost
  <2>6. Known'
    BY <1>0, <1>1, <2>4, WorkGrows, KnownFrame
  <2> QED BY <2>3, <2>5, <2>6
<1> QED BY <1>2, <1>3

LEMMA EditsOuter == ASSUME WorkInv, Outer PROVE Edits' /\ Lost' /\ Known'
<1>0. /\ Types /\ OpTypes /\ GitTypes /\ HostTypes /\ Heads /\ Edits /\ Lost /\ Known
      /\ own \in Branch
  BY WorktreesAssumption DEF WorkInv, Types
<1>1. behind \subseteq behind' /\ Safe \subseteq Safe' /\ log[own] \subseteq log'[own] \cup Safe'
  BY <1>0, OuterOps, OuterGrows
<1>2. LookedAtEdits' => LookedAtEdits
  BY <1>0, OuterOps, OpKinds DEF LookedAtEdits
<1>3. /\ LookedAtEdits => checkout'.edits \subseteq checkout.edits \cup behind'
      /\ checkout'.typed \ checkout.typed \subseteq checkout'.edits
      /\ checkout.edits \subseteq checkout'.edits \cup log'[own] \cup Safe'
  <2>1. ASSUME NEW e \in Typed, Type(e) PROVE
          /\ checkout'.edits = checkout.edits \cup {e} /\ checkout'.typed = checkout.typed \cup {e}
          /\ LookedAtEdits => e \in behind'
    BY <1>0, <2>1 DEF Type, HostTypes
  <2>2. CASE Save
    <3>1. checkout'.edits = {} /\ checkout'.typed = checkout.typed
      BY <1>0, <2>2 DEF Save, HostTypes
    <3>2. checkout.on \in refs' /\ checkout.edits \subseteq log'[checkout.on]
      BY <1>0, <2>2 DEF Save, Heads, GitTypes, HostTypes
    <3>3. checkout.edits \subseteq log'[own] \cup OnOthers'
      BY <3>2 DEF OnOthers
    <3> QED BY <3>1, <3>3 DEF Safe
  <2>3. ASSUME NEW b \in Branch, CheckOut(b) PROVE
          checkout'.edits = checkout.edits /\ checkout'.typed = checkout.typed
    BY <1>0, <2>3 DEF CheckOut, HostTypes
  <2>4. CASE UNCHANGED checkout
    BY <2>4
  <2> QED BY <2>1, <2>2, <2>3, <2>4 DEF Outer, Stop, AgentStep, MergeByHand, Outside, Crash, ToolStep,
          ToolRun, ToolEnds, SwitchTree
<1>4. Edits'
  BY <1>0, <1>1, <1>2, <1>3 DEF Edits
<1>5. 1..made' \subseteq log'[own] \cup Safe'
  <2>1. CASE UNCHANGED made
    BY <1>0, <1>1, <2>1 DEF Lost
  <2>2. CASE ~UNCHANGED made
    <3>1. PICK r \in Req : RunGit(r) /\ ToolRun(r)
      BY <2>2 DEF Outer, Stop, AgentStep, Edit, Begin, Save, MergeByHand,
                Outside, Others, Crash, ToolStep, LetGo,
         CheckCurrentBranch, PlanPush, ToolRun, ToolEnds, Expire, Respond, Type,
         CheckOut, SwitchTree, Switch, gitVars
    <3>2. Commits(r) /\ UNCHANGED refs
      BY <2>2, <3>1 DEF RunGit, gitVars
    <3>3. /\ Tree(r).there /\ made' = made + 1
          /\ log' = [log EXCEPT ![Tree(r).head] = @ \cup {made + 1}]
      BY <2>2, <3>2 DEF Commits
    <3>4. Tree(r).head \in refs
      BY <1>0, <3>1, <3>3 DEF Heads, Tree, RunGit, Types, ReqTypes, ReqRec, NoReq
    <3>5. made' \in log'[Tree(r).head]
      BY <1>0, <3>3, <3>4 DEF GitTypes
    <3>7. made' \in log'[own] \cup Safe'
      <4>1. CASE Tree(r).head = own
        BY <3>5, <4>1
      <4>2. CASE Tree(r).head # own
        BY <3>2, <3>4, <3>5, <4>2 DEF Safe, OnOthers
      <4> QED BY <4>1, <4>2
    <3>8. 1..made' = (1..made) \cup {made'}
      BY <1>0, <3>3 DEF GitTypes
    <3> QED BY <1>0, <1>1, <3>7, <3>8 DEF Lost
  <2> QED BY <2>1, <2>2
<1>6. Lost'
  BY <1>0, <1>1, <1>3, <1>5 DEF Lost
<1>7. Known'
  <2>1. CASE UNCHANGED remote
    BY <1>0, <1>1, <2>1, KnownFrame
  <2>2. ASSUME NEW b \in Branch, Others(b) PROVE Known'
    <3>1. \A x \in Branch : remote'[x] \subseteq remote[x] \cup {0}
      BY <1>0, <2>2 DEF Others, GitTypes
    <3> QED BY <1>0, <1>1, <3>1, SafeOf DEF Known
  <2>3. ASSUME NEW r \in Req, RunGit(r), req[r].ask.sub = "push" PROVE Known'
    <3>1. \A x \in refs : log[x] \subseteq log[own] \cup Safe
      BY SafeOf
    <3>2. \A x \in Branch : remote'[x] \subseteq log[own] \cup Safe
      BY <1>0, <2>3, <3>1, PushDoes DEF Known
    <3> QED BY <1>1, <3>2 DEF Known
  <2> QED BY <2>1, <2>2, <2>3 DEF Outer, Stop, AgentStep, Edit, Begin, Save, MergeByHand,
                Outside, Crash, ToolStep, LetGo,
         CheckCurrentBranch, PlanPush, ToolRun, RunGit, ToolEnds, Expire, Respond, Type,
         CheckOut, SwitchTree, Switch, gitVars
<1> QED BY <1>4, <1>6, <1>7

----------------------------------------------------------------------------
LEMMA WorkStep == ASSUME WorkInv, [Next]_vars PROVE WorkInv'
<1>0. Types'
  BY TypesStep DEF WorkInv
<1>1. CASE UNCHANGED vars
  <2>1. UNCHANGED <<tree, refs, log, remote, made, rec, checkout, squashed, op, given, behind>>
    BY <1>1 DEF vars
  <2>2. Safe \subseteq Safe'
    BY <2>1, SafeGrows
  <2>3. Bases' /\ Heads'
    BY <2>1, BasesFrame, HeadsFrame DEF WorkInv, Bases
  <2>4. Looked'
    BY <2>1, <2>2, LookedFrame DEF WorkInv
  <2>5. Edits' /\ Lost'
    BY <2>1, <2>2 DEF WorkInv, Edits, Lost, LookedAtEdits
  <2>6. Known'
    BY <2>1, <2>2, KnownFrame DEF WorkInv
  <2> QED BY <1>0, <2>3, <2>4, <2>5, <2>6 DEF WorkInv
<1>2. CASE Outer
  BY <1>0, <1>2, BasesOuter, HeadsOuter, LookedOuter, EditsOuter DEF WorkInv
<1>3. ASSUME NEW c \in Client, Manager(c) PROVE WorkInv'
  <2>1. CASE Run(c) \/ Restart(c) \/ Create(c) \/ Sidecar(c) \/ Launch(c) \/ PutRun(c)
    BY <1>0, <2>1, BasesRun, HeadsRun, LookedRun, EditsRun DEF WorkInv
  <2>2. CASE \/ MergeGet(c) \/ MergeOn(c) \/ MergeClean(c) \/ MergeSquash(c) \/ MergeCommit(c)
             \/ MergeReset(c) \/ Remove(c) \/ DeleteBranch(c) \/ PutMerge(c)
             \/ DeleteGet(c, TRUE) \/ DeleteGet(c, FALSE) \/ DeleteRec(c)
    BY <1>0, <2>2, BasesWork, HeadsWork, LookedMerge, LookedDelete, EditsWork DEF WorkInv
  <2> QED BY <1>3, <2>1, <2>2 DEF Manager
<1> QED BY <1>1, <1>2, <1>3 DEF Next, Outer

LEMMA WorkInit == ASSUME Init PROVE WorkInv
<1>0. Types
  BY TypesInit
<1>1. Bases
  BY OpKinds DEF Init, Bases, OpBased, NoTree, NoRec
<1>2. Heads
  BY WorktreesAssumption DEF Init, Heads, OpFree, At, NoTree, NoOp, own
<1>3. Looked
  BY DEF Init, Looked, OpLooked, At, NoTree, NoOp
<1>4. Edits /\ Lost /\ Known
  BY DEF Init, Edits, Lost, Known
<1> QED BY <1>0, <1>1, <1>2, <1>3, <1>4 DEF WorkInv

(* What NothingLost says follows: a branch that does not exist has no commits. *)
LEMMA WorkSafe == ASSUME WorkInv PROVE NothingLost
<1>1. log[own] \cup OnOthers \subseteq UNION {log[b] : b \in refs}
  <2>1. own \in refs \/ log[own] = {}
    BY WorktreesAssumption DEF WorkInv, Heads
  <2>2. OnOthers \subseteq UNION {log[b] : b \in refs}
    BY DEF OnOthers
  <2> QED BY <2>1, <2>2
<1>2. log[own] \cup Safe \subseteq Kept \cup given \cup behind \cup {0}
  BY <1>1 DEF Safe, Squashed, Kept
<1>3. 1..made \subseteq Kept \cup given \cup behind
  BY <1>2 DEF WorkInv, Lost
<1>4. 0 \notin checkout.typed
  <2>1. MaxWork \in Nat /\ Typed \cap (0..MaxWork) = {}
    BY Zenon, WorktreesAssumption
  <2>2. 0 \in 0..MaxWork
    BY <2>1
  <2> QED BY <2>1, <2>2 DEF WorkInv, Types, HostTypes
<1>5. checkout.typed \subseteq checkout.edits \cup Kept \cup given \cup behind
  BY <1>2, <1>4 DEF WorkInv, Lost
<1> QED BY <1>3, <1>5 DEF NothingLost

(* NothingLost: every commit of an agent is on a branch or in one as a squash, every
   edit of the operator where it was or on a branch, but for what was given up by name
   or by a pull with a "+" and what was done after an operation had looked: whatever
   fails, overlaps or dies. *)
THEOREM WorkKept == Spec => []NothingLost
<1>1. Init => WorkInv
  BY WorkInit
<1>2. WorkInv /\ [Next]_vars => WorkInv'
  BY WorkStep
<1>3. WorkInv => NothingLost
  BY WorkSafe
<1> QED BY <1>1, <1>2, <1>3, PTL DEF Spec
=============================================================================
