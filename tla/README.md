# A verification of muro in TLA+

muro runs coding agents in sandboxes.  A user-level daemon, `murod`, launches
each agent in a bubblewrap container behind a per-sandbox *shim* process, keeps
a registry of the sandboxes, restarts those that fail, lets one terminal at a
time attach to each, sends all their traffic through a proxy with an allowlist,
and outlives none of them: sandboxes survive a restart of `murod`.

These modules model the parts of it in which goroutines, processes, messages, git
commands and crashes meet.  TLC checks small instances; TLAPS proves most of their invariants for
every value of the constants.

## 1. Inventory

| component | source | state it keeps | operations |
|---|---|---|---|
| sandbox manager | `internal/sandbox/manager.go`, `restart.go`, `pty.go` | `handles`, `epoch`, attach slots, agent and tool listeners, inbox subscriptions | Run, Update, Reload, Restart, Stop, Delete, Merge, Attach, watchLoop, Reattach |
| state registry | `internal/state/store.go`, `reconcile.go` | records by namespace/name, `state.json` | Put, Get, List, Delete, persist, Load, Reconcile |
| denied-event ring | `internal/state/events.go` | `buf`, `next`, `size` | Push, Last, Snapshot, LoadSnapshot |
| murod | `cmd/murod/main.go` | none of its own | load, reconcile, reattach, serve, die |
| process isolation | `internal/sandbox/bwrap.go` | a handle per process | Launch, Stop, Wait, Reattach, UpdateMounts, Stdio |
| pty shim | `cmd/muro-shim/main.go` | replay buffer, the attached connection | broadcast, replay, attach, inject, exit status |
| network bridge | `internal/sandbox/network.go` | next outbound address; a slirp4netns per sandbox | allocate, find the inner process, start slirp4netns, restrict by nft, stop |
| egress proxy | `internal/proxy` | allowlist per sandbox, sandbox per address | SetAllowlist, RegisterSandboxAddr, HTTP, CONNECT, deny |
| control server | `internal/control` | connections | dispatch, attach stream, log stream |
| bridges | `agentsocket.go`, `toolsocket.go`, `inject.go` | listeners | publish, run a tool, inject a message |
| pub/sub | `internal/pubsub` | retained claims and presence at the broker; the connection | connect, claim, release, publish, subscribe, disconnect |
| git tool-proxy | `internal/gitproxy` | none | validate, rehearse a push, run |
| worktrees | `internal/worktree` | git repositories | create, squash-merge, prune, discard |
| terminal UI | `internal/tui` | the console's session, its pending target | select, dial, poll |
| profiles | `internal/config/profile.go`, `validate.go`, `internal/cli/profile.go`, `profile_import.go`, `internal/sandbox/mounts.go` | `<name>/profile.json` with its documents and temporary files | create, change, import, save; load up the chain, merge, validate, resolve |
| daemon configuration, other commands, broker, helpers | `internal/config/daemon.go`, `internal/cli`, `cmd/muro-broker`, ... | none that outlives a call | parse, print |

How they interact.  Each connection to the control socket has a goroutine that
calls the manager's methods; each live handle has a `watchLoop` goroutine that
waits for its process.  Both read and write the registry (`Store.mu`), the
handle table (`Manager.mu`), the attach slots (`attachRegistry.mu`), the
listeners (`pubMu`, `toolMu`) and the proxy's tables (`Server.mu`).  No lock is
held across two of these, and none across a launch, a kill or a backoff: the
manager's safety rests on the order of the steps and on the epoch that
`setHandle` and `clearHandle` bump.  The proxy's goroutines write the registry
too, when they deny a request.  A command that changes a profile is a process of its own: it and
`murod`, which loads profiles for its runs, share files and no lock.  A sandbox's processes belong to the shim, so
that `murod` may die and come back: all it then knows is `state.json`.

What is hard: requests for one sandbox that overlap each other and the
watchLoop; a record that is read, slept upon and put back; a death of `murod`
between any two steps; launches, kills and writes that fail halfway; tables in
memory that must be rebuilt.  `PROJECT.json` lists each hazard at its line.

What makes each component correct:

- manager: a handle has exactly one goroutine answerable for it; no process is
  out of reach; the record says what is so; a stopped sandbox stays stopped; the
  restart budget is spent once; the proxy and the bridges follow the processes;
  dead handles, backoffs and attach slots are dealt with in the end;
- registry: nothing of one sandbox is kept under another; after a restart the
  records of dead processes are corrected and the live ones taken up again;
- ring: it is the log of the newest events, also across a restart;
- shim: a client that is served misses no output, and no client starves where programs take their keys;
- network bridge: a live sandbox's route is restricted as soon as its launch is
  done, and its slirp4netns ends with it;
- proxy: what a sandbox asks for is decided under its own allowlist, and decided;
- claims: whoever was told that a name is its own is who the broker names;
- bridges: a message is typed into the sandbox that has the name, of its sender's
  namespace and no other;
- tools and worktrees: only allowed branches are committed and pushed to, a
  request is answered unless git's children hold its output, and no commit and no edit is lost;
- terminal UI: the console shows the session selected last and leaks none;
- profiles: a file that is read whole is valid and its profile's own, a load has what its chain gives
  it, and what is launched has its tools where it says.

## 2. Modules

| module | what it is |
|---|---|
| `Manager` | the manager, the registry, startup and the processes: one action per critical section |
| `ManagerProperties` | the type invariant, the safety and liveness properties |
| `ManagerInvariant` | the inductive invariant `IInv`, in named parts |
| `SandboxLife` | abstract: what a sandbox's name promises its user |
| `ManagerLife` | the refinement mapping from `Manager` to `SandboxLife` |
| `MCManager` | profiles, deltas and symmetry for TLC |
| `SerialInvariant` | the inductive invariant `SerialInv`, where requests come one at a time, in named parts |
| `RecordsInvariant` | what `RestartBudget` and `BridgesUp` rest on, in named parts: `AloneInv`, `BudgetInv`, `LifeInv`, `BridgeInv` |
| `ManagerTypes`, `ManagerProofs`, `SerialProofs` | the proofs |
| `EventRing` | the ring of denied events, its index arithmetic, saving and loading |
| `DeniedLog` | abstract: the log of the newest events |
| `AttachStream` | one attach from end to end: client, murod's handler and slot, the shim's two goroutines |
| `AttachProperties`, `MCAttach` | its properties; the module TLC runs |
| `Console` | `muro tui`'s console, composed over `AttachStream`'s connections |
| `ConsoleProperties`, `MCConsole` | its properties; the module TLC runs |
| `AttachProofs` | the proofs about both |
| `Allowlist` | what an entry of `allow_urls` parses to and lets pass, and which server name a ClientHello shows |
| `NetBridge` | address allocation, slirp4netns and nft around each launched process |
| `Proxy` | the proxy's two tables and its handlers |
| `Egress` | composes `NetBridge`, `Proxy`, `EventRing` and the manager's calls of them, over restarts |
| `EgressProperties`, `MCEgress` | its properties; the module TLC runs |
| `EgressProofs` | the proofs |
| `PubSub` | each murod's connection to the broker, presence, claims |
| `AgentBridge` | agents' messages over `PubSub`, from socket to terminal |
| `PubSubProperties`, `MCPubSub` | their properties; the module TLC runs |
| `PubSubProofs` | the proofs |
| `GitPolicy` | which git invocations pass, and where they run |
| `GitProxy` | a tool request: look, rehearse, run, answer |
| `Worktrees` | Run, Merge and Delete as sequences of git commands; composed over `GitProxy` |
| `ToolsProperties`, `MCTools` | their properties; the module TLC runs |
| `ToolsProofs` | the proofs |
| `ProfileRules` | what a profile means: validation, merging with a base, the mounts it resolves to |
| `Profiles` | the files on disk, the commands that change them, the loads of `murod` |
| `ProfilesProperties`, `MCProfiles` | their properties; the module TLC runs |
| `ProfilesProofs` | the proofs |

### Manager

*State.*  `store` is `Store.sandboxes` and `disk` what `Load` would bring back;
`handles` and `epoch` are the manager's maps; `slot` the attach registry;
`agents`, `inboxes` and `tools` the listeners; `allow` and `addrs` the proxy's
two tables; `proc` the host's processes, each with the key, id and mounts it was
launched with.  A goroutine's locals are a record: `req[c]` for a request (`pc`,
the record copy `sb`, the old and new process, the epoch it was handed, an
Update's remaining candidates), `watch[p]` for the watchLoop of process `p`.

*Actions.*  A handler is cut where it releases one lock and takes the next, or
calls the host.  `Run`, for example, is `RunCheck` (look the name up, draw an id,
open the listeners), `RunLaunch`, `RunPut` (or `RunUndo` when the registry cannot be
written), `RunSetHandle`, and `RunWatch` (proxy tables, `go watchLoop`).  Each
step's name is that of its handler and of the call it makes; `map` in
`PROJECT.json` gives its lines.  The `Slip...`-commented operators beside some
actions are the same code with one plausible mistake; nothing uses them in the
specification, they show that each property can fail.

*Where steps are merged.*  Looking the record up is merged with what follows it
and touches only the attach slot and the sandbox's own listeners (Restart, Stop):
no other step tells the two apart except another attach or bridge operation, which
commutes with one of them.  The proxy's two tables are written in one step, since
a request served between the two is denied either way.

*What is abstracted.*  A profile is a policy, a set of mounts, a set of URLs and
whether it has git repositories.  Clock times, log files, private directories,
agent arguments and published status events are left out.  Pub/sub is enabled
and subscribing succeeds.  A request that is refused changes nothing and is not a
step.  What git answers to Delete and Merge is left to choice by never beginning a
request it refuses.  Update's targets are one sandbox, or all active ones (a profile
selector chooses some of the latter), stored in any order although the code sorts
them.  `UpdateMounts` refuses every non-empty mount list, as bwrap's does.  Exit
codes are "clean" or "failed", by choice.  A process id is never used twice: the
code accepts reuse as unlikely (`reconcile.go` 17-22).

*Faults.*  `Faults` lists what may fail: a launch, a write of `state.json` (memory
stays changed, as in the code), a signal that is refused.  `Crash` may come at any
step: memory is lost, `disk` and `proc` stay; then `StartLoad`, `Reconcile`,
`StartReattach`, `Reattach` and `Serve` bring `murod` back, and may be interrupted.

*Overlap.*  With `Overlap = FALSE` requests, exits of processes and crashes only
come when nothing else is in flight.  The runs about what a settled `murod`
guarantees use it, since under overlap most of those properties are false (see
the findings and the hazards' notes); the steps inside a request are still separate.

### EventRing

`buf`, `next` and `size` are the ring, `disk` the saved events.  `RecordDenied`,
every other mutation of the registry (`Put`) and a `Restart` are its actions,
which `Egress` takes as parts of its own: a denial of the proxy, a launch's Put, a
restart of `murod`.  The write of `state.json` is atomic (temporary file and rename)
or fails.  Pushes happen under `Store.mu`, so that the two lock sections of `Snapshot`
never meet one and are one step.  An event is told apart by its sandbox alone.

### AttachStream

*State.*  `conn[c]` is a control connection that carries an attach: the point its
handler has reached, the client's end, whether murod has closed it, murod's
connection to the shim and whether the shim has closed that, and the chunks of
output written to it.  `keys` are those that nobody has read: in the hands of a handler in
`pty.Write`, in the shim's socket, or in the hands of a shim in `ptmx.Write`.  `shim[s]` is the shim: what drainToLog has read and is about to
hand to whom, the broadcaster's receiver, the connection handleAttachConn serves and
how far it is, its copy of the replay, and the socket's backlog.  `slot` is the
attach registry, `life` the process.

*Actions.*  `AttachTry`, `AttachDial`, `AttachReply`, `RelayEnd`, `Unwind` and `Detach` are
handleAttach with its deferred calls in their order, `PumpEnd` the pump's last act.
`Drain` and `DrainSend` are a broadcaster's write on each side of its unlock; `Accept`,
`Snapshot`, `SendReplay`, `ReadKeys` and `ServeEnd` are acceptLoop.  `Type` and `SendKeys` bring keys to the
shim; `TakeKeys`, the program reading its terminal, is nobody's duty: the pty is a blocking file
(`OpenPTY` has called `Fd()`) and `ptmx.Write` has no deadline, so that a shim may stay in it.  A Stop or Restart is
`ForceDetach`, then `Exit`, then perhaps `Launch`.  `MurodDies` drops the slots and closes
murod's connections: the shims live on.

*What is abstracted.*  Output is chunks, and a client's a set of them: their order and
duplicates are not told apart, since the code accepts both (`handleAttachConn`'s
comment).  A read and a write between murod and the client are not separate from the
shim's write.  A client reads all it is sent.  A socket has room
for one read's worth of keys; messages injected into the terminal are there only as the pty being full.
`Typing` and `Mortal` bound who types and which sandboxes die.  `Manager` models the same slot inside the whole manager, without the shim.

### Console

*State.*  `sel` is the highlight and `listed` the attachable items; `sess`, `showing`,
`pending` and `focus` are the Model's `sess`, `sessTarget`, `pendingTarget` and `focus`; a
restart or launch under way is `starting`.  A command's goroutine is its connection:
`answered` or `refused` means that its `sessionOpenedMsg` is on the way, and `SessionOpened`
handles such messages in any order.  `TypeKeys` is what is typed in the console; a status poll may leave the highlight
on any sandbox, since the list keeps its cursor's index whatever comes and goes.

*What is abstracted.*  Polls succeed, and no other client holds a slot.  The TUI is never blocked in its own write of keys.  A status poll is answered and handled in one step; at most one
restart or launch is under way at a time; dials are bounded by the free
connections (a dial that would need a third one is not made).  The stop and delete
keys are seen by their effect, `Exit`.  Filtering, namespaces, the profile list,
quitting, scrolling and rendering are left out.

### Allowlist, NetBridge, Proxy, Egress

*State.*  `nextAddr` is the allocator; `net[p]` what has been built around the process of one
launch: whether it lives, its address, its slirp4netns, whether nft has sealed its
namespace, and the point its Launch has reached.  `rules` and `addrIndex` are the
Server's tables, `conn[c]` a handler's locals, `rec` the process and allowlist on record,
`serving` how far Run or Restart is after Launch, or startup with a process it is to take up again, `pending` the Updates that have been put and
not yet told.  `owner`, `from` and `left` are the model's: who a process was launched
for, who opened a connection, what may still happen.

*Actions.*  Launch is cut at each of its system calls (`Started`, `FindInner`, `StartSlirp`,
`CheckTarget`, `Seal`, with `SlirpFailed`, `Unsealed` and `Undo` on the way out), since the
sandbox runs, may end and may use its route meanwhile.  A handler is cut where it
takes a lock or waits: `Resolve`, `Admit` or `Deny`, then for a CONNECT `Peek` (another part
of the client's first bytes), `PeekDeny` or `PeekTimeout`, then `Dial`, `Finish`.  `Put` and
`Tell` are what Run, Restart and a relaunch do after Launch, `UpdatePut` and `UpdateTell`
an Update.  `Crash` is a death of `murod` with its restart: the proxy serves at once, with empty tables
(`main.go` 52-58), and `Reattach` fills them later, a process at a time, in the order of a Go map (83).  Which
processes it will come to (`"again"`) is any choice of those their records name: a record that is reload-pending, or whose Stop
was cut short, is passed over (`"lost"`).  Requests are served once ReattachAll is through (`Serves`); a watchLoop it has
started may relaunch before.  Two live processes may then share an address, and either may be registered last.

*What is abstracted.*  Names are symbols and `Lower` a function on them; a path is a sequence
of characters; a ClientHello is a name in a number of parts.  Launches share the allocator
and nothing else, and are taken one at a time.  What nft's rules say, and that they
say it atomically, is the kernel's.  IPv6 literals and malformed targets are left out,
and so are requests that name no host (`EgressAssumption`: no name is equal to the empty one).

### PubSub, AgentBridge

*State.*  `mode`, `link` and `out` are each murod's client: its state, its connection, and
what it has published and the broker has not acknowledged.  `presence`, `claim` and `subs` are the
broker's.  `call` is a ClaimSandbox or ReleaseClaim in progress, `holds` the names whose claim
succeeded.  `record`, `box`, `sockets` and `inboxes` are the sandboxes and their bridges;
`post`, `arriving`, `dialing` and `heard` follow a message.  `raced` is history.

*Actions.*  A claim is `Claim`, `LookUp`, `Presence`, the broker's `Deliver` and perhaps
`CallTimesOut`: each call of the broker is one step.  A connection is cut (`Cut`), also with
an acknowledgement (`DeliverUnacked`: paho sends again); the broker notices (`SessionEnds`:
the will, the end of the clean session); paho reconnects (`Reconnect`), and neither
subscribes nor publishes "online" again.  `Start`, `Serve`, `Quit` and `Crash` are a murod's life; a
murod that is started again on its host has a new id.  `Send`, `Handle` and `Inject` carry a
message.  The broker and paho are external: they are modelled as `client.go` configures them
(QoS 1, clean session, will, automatic reconnect).

*What is abstracted.*  ClaimSandbox and ReleaseClaim are called by tests only at this commit:
any murod with pub/sub may call them.  Status events are not read back by any code and
are left out, so is the 4 KiB limit of a message.

### GitPolicy, GitProxy, Worktrees

*State.*  `tree[i]` is the git working tree of sandbox id `i`: whether it is there, its HEAD,
whether it is dirty, and the base its sidecar file names.  `refs` and `log` are the branches and
the commits each one reaches, `remote` those of the remote; a commit is a number.  `req` are tool
requests, `op` the operations of clients, each with the copy of the record it took.  `checkout`
is the operator's own checkout of the repository: its branch, edits, index.  `squashed[b]` are the
commits whose changes a squash has put on `b`, and a saved edit of the operator is in the `log` of the branch it was saved on.  `moved`, `given` and `behind` are history.

*Actions.*  Each git command is a step: a request looks at the branch or rehearses its push,
then runs (`RunGit`: what a commit, a push and a pull do to branches).  Its deadline (`Expire`) kills git and nothing else: `cmd.Run` goes
on waiting for children that hold git's output (`held`), and those of a push or pull may still do
what was asked (`late`), until they let go (`LetGo`), if ever.  Merge is `MergeGet`, `MergeOn`, `MergeClean`, `MergeSquash`, `MergeCommit` or `MergeReset`,
`Remove`, `DeleteBranch`, `PutMerge`; Delete is `DeleteGet`, `DeleteRec`, `Remove`, `DeleteBranch`;
Run is `Run`, `Create`, `Sidecar`, `Launch`, `PutRun`.  Between any two, the agent edits and asks
for commits, the operator types, saves, switches branches and trees or merges by hand,
others push, and murod dies, leaving what is on disk.

*What is abstracted.*  One sandbox name with one worktree; the state of a file is
"dirty", an edit of the operator an element.  Of the subcommands other than commit, push and
pull only the decision is modelled.  Each branch exists at the remote from the start.  A pull's refspec with a colon sets the branch it names, then what was
fetched is merged into what is checked out, or conflicts; what a conflict leaves in the tree, the index of a checkout whose branch a pull
has moved, and a git that runs on when murod dies are left out.  What git itself refuses is as git documents it: a second
checkout of a branch, the deletion of one that is checked out, the removal of a dirty
tree, a squash over a staged index, a push that is no fast-forward.  Restart without
`--from-profile` touches no worktree.  Overlapping Runs are in `Manager`.

### ProfileRules, Profiles

*State.*  `files[n]` is `<n>/profile.json`, which may be absent (`NoFile`) or partly written (`Torn`);
`temps[n]` the `.tmp-profile-*.json` next to it, of the commands that are saving and of those that were
killed (`litter`); `docs[n]` whether there is any document.  `cmd[c]` is a CLI process with the profile it is
about to write, `load[l]` a goroutine of murod with the part of the chain it has read.  `edition` and `given` are
history: how often a file has changed, and which mounts were asked for under which name.

*Actions.*  A command reads and validates in one step (`Create`; `Change`, which is `MountAdd`, `MountRemove`, `SetValue`
or `SetSwitch`; `Import`) and writes in several: `SaveTemp` and `SaveRename`, for an import first `ImportClear`, `ImportTear`
and `ImportCopy`.  `Fail` and `Die` may come at any of them.  A load reads one file a step (`Read`), up to the end of
the chain, a cycle, or a file that is missing or torn; `Merge` then takes one profile of the chain at a time, `Resolve`
validates, `Launch` lists the mounts, the stub of the tool proxy last (`StubMounts`, of `buildArgs`).

*What is abstracted.*  A path is a sequence of names.  Fields that merge alike stand for each other: `workdir` for all
single values, `audio` for both switches.  One import is under way at a time.  Files edited by hand are left out.  So are
the mounts of AGENT.md, skills, instructions and sound, each at a path of its own: they are there as `LaunchFails`.  The sockets in
`/run/muro` and what bwrap sets up before any mount cover no tool and are left out.
`os.RemoveAll` is one step.  `profile edit` looks for a file nothing writes (section 6) and changes nothing.

## 3. Runs

| run | question | instance | distinct states |
|---|---|---|---|
| `ManagerCrash` | Is the invariant of the proofs kept, is nothing of one sandbox kept under another, and has each handle one goroutine in charge, when requests overlap each other and the watchLoops, under every fault and a crash anywhere? | 2 clients, 2 sandboxes, 2 requests, 3 processes, 1 crash, all faults | 142,403 (symmetry) |
| `ManagerSerial` | When murod is settled, do records, handles and proxy tables match the processes?  Is each step one of `SandboxLife`? | 1 sandbox, 4 requests, 1 crash, failing launches | 507,517 |
| `ManagerRecords` | Over long histories: are mount changes announced, is the restart budget spent once, are mounted sockets served? | 6 requests, 2 crashes, 4 processes, failing launches, refused signals | 267,016 (symmetry) |
| `ManagerLive` | Are dead handles, backoffs and attach slots dealt with in the end? | 3 requests that overlap exits, failing launches | 54,469 |
| `Attach` | Does a client that is served miss output?  Is a slot ever kept, an attach left unserved though the program takes its keys? | 1 sandbox, 2 clients, one of which types, 2 chunks, 1 Stop, 1 death and relaunch, deaths of murod | 957,391 |
| `Console` | Does the console leak a session, show what it asked for last, catch up with the highlight? | 2 sandboxes, 2 connections, keys on one, 1 death and relaunch of one | 684,984 |
| `Egress` | Is a route ever open, a slirp4netns left, a request decided under another's allowlist, refused against the record, or never decided?  Is the log of denials the newest ones? | 2 launches, 2 addresses, 1 connection, 4 requests, 2 ClientHellos, 1 Update, 1 restart | 567,211 |
| `PubSub` | Who holds a name; does a dead daemon block it; does a message reach its sandbox and no other? | 3 murods on 2 hosts, 2 names, 3 claims, 1 message, 1 crash, quit, cut or slow call each | 185,432 |
| `Tools` | Is a commit or an edit ever lost, a branch committed or pushed to that the policy does not allow, a request left unanswered? | 2 clients, 2 trees, 1 to 3 operations, 1 to 3 requests, 2 commits, 1 or 2 edits, 1 switch, 1 death | 667,032 |
| `Profiles` | Are files valid and their own, does a load inherit what it should, does what is launched have its tools, and the stub in git's place? | 2 profiles, 2 commands, 1 load; 2 writes with a fault, or 3 without | 1,676,022 |

and two that find a statement of the comments violated (section 6): `StopRace`, `MergeRace`.

*Why the bounds are enough.*  Every conflict in this code is over one key, and
between a request and one or two other goroutines: the watchLoop of the process
it replaces and another request.  Two clients and three processes give a watchLoop a successor, and a request a rival that comes
between its steps; three requests and more, one after the other, are in the serial runs and, against exits, in
`ManagerLive`.  That no number of requests breaks `OneInCharge` and `KeysApart` is proved.
Two keys are enough to confuse one with another.  `MaxRestart = 1` reaches both
sides of the budget's boundary.  A second crash meets what the first recovery
left.  Two connections make a second attach, and an answer that is overtaken; one chunk of
replay and two of output put a chunk before, between and after the two locked
sections of an attach; one client that types can fill the pty, the socket and its handler's hands, and the
other then waits behind it.  A ring of three slots wraps after four denials, with `next` in each place
(the third of `Egress`'s budgets: one launch, four requests, one restart).  Two addresses make a third
launch, or a first after a restart, share one.  One connection is enough for `Proxy`: handlers
share the two tables and the ring, and write only the ring.  Three claims are a claim, its rival and a
release or a second try, against one crash, cut or slow answer.  Two commits put one before and one
after each look of a Merge or Delete; two clients are an operation and its rival.  `Budgets` in these three
modules is a set of bounds, of which a behaviour has one: what is to meet is
together in one of them.  Three requests make a pull that brings back what a push and a commit have made.  Two profiles make a base and its child, or a cycle; two commands a save
that is overtaken; a fault leaves a torn file, or a temporary one.
The requests that a run leaves out are those whose effect on its property is a
known hazard (its note says which) or does not concern it: `ManagerSerial` gives
Update no mounts and `ManagerRecords` nothing but mounts, because an Update
without mounts clears a pending reload; `ManagerRecords` has no Restart, because a
Restart after a Stop runs without an agent socket; `ManagerCrash` has no Delete,
because a Delete that overlaps the watchLoop leaves a dead handle (the theorems have it).

*Deadlock* is checked for `Attach` and `Console`.  In the others requests, operations and
crashes are bounded, and a murod with nothing to do may be idle for ever.

*Fairness* (`FairSpec`).  Goroutines are scheduled, and what they wait for ends:
a launch returns, `Stop` follows a refused SIGTERM with SIGKILL after 7 s, a
backoff sleeps at most 30 s.  So each request in progress, each watchLoop and
startup have weak fairness.  A session ends once its process is dead
(`pumpPtyToConn` closes the connection).  Nothing is assumed to make a process
exit, a client detach or a request arrive.  `FairStreamSpec` makes the
shims' acceptLoops run, whatever stage they are at, and no program take its keys; `FairSpec` of `Console` these, each connection's handler with
the handling of its answer, and polling, which `tickCmd` repeats for ever.  In `Egress` a handler goes on, its peek has a deadline, and its dial
ends (the dialler's timeout); a client need send nothing, and a round trip or a relay need not
end.  In `PubSub` the broker takes what comes over a live link, notices a dead one by its
keep-alive, and a murod's callbacks run; no link need come back.  In `Tools` only the end of a
request is fair: its deadline comes (`exec.CommandContext` kills git, and git only) and its answer is written
under another deadline; nothing makes the children of git let go of its output.  A Merge's or Delete's git commands have no deadline, and nothing is said
of their end.

*What the properties say.*

- `HandleWatched`, `OneInCharge`: each registered handle has a goroutine with the
  key's current epoch, and no key has two.
- `KeysApart`: stored, persisted and registered processes were launched for the key
  they are under, and under the record's id.
- `NoOrphan`, `RecordTruthful`, `ProxyCurrent`, `BridgesUp`, `MountsShown`: in a settled
  murod, every live process is its sandbox's handle; a record is active exactly when
  its process lives; the proxy has its address and its recorded allowlist; its
  listeners are up; "running" means the recorded mounts are the process's.
- `RestartBudget`: an id is launched at most `1 + MaxRestart` times in all where no
  client asks for a restart, also across restarts of murod.
- `ImplementsLife`: `Manager` implements `SandboxLife`: never two processes of a
  name, never announced active before its process lives, never forgotten while it does.
- `ExitNoticed`, `BackoffEnds`, `SlotFreed`: the liveness of the three.
- `NothingMissed`: a served client has all output from some chunk on, and at least the
  replay; of what the shim has not read, or drainToLog has in hand, when the process exits it says nothing.  `OneSession`: murod holds one session to a shim, where no Stop has freed a slot.
  `SlotBacked`: a claimed slot has a handler that will free it.  `AttachServed`: the shim comes
  to serve an attach that was told OK, or it ends, where no Stop has freed a slot: unless the shim is writing keys that the program does not take
  (once they are taken, an attach that still waits is to be served again).
- `HoldsOne`: the console's open connections are its session, under its name.
  `ShowsRequested`: with no dial under way it shows what it asked for last, or nothing.
  `CatchesUp`: where the highlight rests on a live sandbox, its session is shown again and
  again, unless the shim there is again and again left with keys that its program does not take.  "From some time on" would be false: a second dial may always be refused late.
- `KeepsNewest`: `EventRing`, filled by the proxy, implements `DeniedLog`; `LastAgrees`: each
  `Last(n)` is the end of the whole log.
- `NoOpenRoute`: a live sandbox with a route that nft does not restrict is in its launch (the
  window that `network.go` 272-275 documents), or murod died in that launch.  `NoStraySlirp`: a
  slirp4netns whose sandbox has ended has a goroutine that will stop it, unless murod died first.
- `OwnRules`: what is let through, an entry of the sender's own allowlist stands for, by a
  definition (`Means`) that does not go through `parseRule`; also the server name in a tunnel.
  `NotRefused`: what the record allows is not refused once this murod has told the proxy of the process, by a launch, a relaunch or Reattach;
  until then, and for a process that startup passes over, everything is (section 6).
  Both for processes that share no address.  `Decides`: no client keeps a handler waiting.
- `HolderNamed`: who was told that a name is its own is who the retained claim names, while its
  presence says so; but for two claims that were decided at once, which MQTT cannot exclude.
  `NotBlocked`: a daemon that crashed comes to be offline, or has no claims.
- `Reaches`: a message the broker takes is typed into the sandbox on record under its name, on every
  host whose murod has pub/sub and never lost its link.  `OwnNamespace`: into no other.
- `OnlyAllowed`: a commit or push changes allowed branches only, also after its deadline, unless somebody switches the
  tree between the look and the act.  A pull is left out: nothing checks what it changes (section 6).  `Answered`: a request gets its answer, unless
  what git has started holds its output for ever.
- `NothingLost`: every commit of an agent is on a branch, or squashed into one, or was given up by
  `--discard-worktree` or by a pull whose refspec has a `+`; every edit of the operator is where it was or committed.  Left out is what was
  done after an operation had looked (`behind`): that is lost, as `MergeRace` shows.
- `OwnMounts`: a profile's file holds mounts that were asked for under its name, never what it inherits.
  `Inherited`: a load during which no file changes has the lists of its whole chain, the nearest of each value, and is
  refused for a cycle exactly when there is one; the definition follows the chain and knows nothing of merging.
  `ToolsStand`: however the files were changed while they were read, what is mounted where a
  named tool is, is that tool or the git stub; what is shown at its path is mounted there, or is a directory of tools (`*`), a private one or a worktree
  above it, never a mount of the profile; and where there is a git policy, git is the stub.

## 4. What is proved

`ManagerProofs` proves, for any sets of keys, clients, processes, ids, profiles and
deltas, any subset of the requests and of the faults, with or without overlap and
with any bounds, from `ConstantsAssumption` alone:

- `Invariant`: `Spec => []IInv`;
- `TypeCorrect`: `Spec => []TypeOK`;
- `SandboxesApart`: `Spec => []KeysApart`;
- `OneGoroutineInCharge`: `Spec => []OneInCharge`;
- `HandlesWatched`: `Spec => []HandleWatched`, where `"delete" \notin Ops`;
- `MountsAreShown`: `Spec => []MountsShown`, where `Mounted`.

*The argument for `Manager`.*  None of these properties is inductive.  A goroutine carries copies: of
a record, of a process it launched, of an epoch it was handed.  What a step
writes to the registry or to the table is such a copy, so the invariant says what
is true of copies at each control point (`ManagerInvariant`):

- `Types` (`ManagerTypes`): `TypeOK`, and for each control point the fields that are
  set there.  The step that reads `req[c].new` is only reachable where it is a process.
- `CopiesOK` (`ManagerTypes`): each copy, wherever it is held, is of a process launched
  for its key under its id.  A launch makes this true of the new copy; no process changes
  its key or id; so copies stay good while they wait.
- `EpochInv` (`ManagerProofs`): an epoch handed to a goroutine is never ahead of the
  counter and never handed out twice.  `setHandle` bumps the counter and hands out the
  new value, so it differs from all that are out.  Two goroutines of one key then cannot
  both hold the current one.
- `StartInv`: no request is served and no watchLoop runs before startup has come to it;
  what startup has still to visit has a record, no handle and no watchLoop.  It carries
  the first three over a crash, where the epochs start from 0 again.

*The argument for `HandleWatched`*, which holds where `Ops` has no "delete" (with Delete a watchLoop whose record
is gone returns at `manager.go` 1202 and leaves its dead handle registered).  `InvNoDelete` adds two conjuncts to `IInv`:

- `Newborn`: from its Launch until it is waited for, a process is in the hands of one goroutine, a request's or
  a watchLoop's.  So the start of a watchLoop takes no other loop's entry, and the Run that has registered a
  handle is the one to start its loop.
- `Known`: what a goroutine works on stays in the store, so that a loop in charge finds its record and goes on.

A step that changes a key's handle advances its epoch, and either clears the handle, or starts a loop with the
new epoch, or is `RunSetHandle`, whose request holds that epoch until it starts the loop.  The other steps
leave the goroutine in charge where it is (`StayInCharge`): by `CopiesOK` they concern processes of other keys,
and a loop that is in charge itself goes on to its next step (`WatchAttends`).

*The argument for `MountsAreShown`*, which holds with overlap, faults and deaths of murod.  `MountsInv` follows every copy of a
record, in the store, on the disk, in requests and in watchLoops: one that says running is of a process with its mounts.  Only
a Run or Restart before its launch works on a copy that is not (`AheadPcs`).  A copy that is put back late
may be out of date, but its process and mounts have not come apart while it waited.
`Mounted` is needed: every Update brings mounts (one without clears a pending reload, section 6), and every
profile has a mount that no Merge takes away (otherwise Reload takes the empty list for applied).  TLC finds
`MountsShown` violated on `ManagerRecords`' instance with either lifted.

Each conjunct has one lemma per action; the modules share lemmas about what a step does to the
counters, the processes and the copies, and `ManagerProofs` puts them together.

`SerialProofs` proves five results from `ConstantsAssumption` and `Serially`, for any sets of sandboxes, clients,
processes, profiles and deltas without mounts, and any bounds:

- `SerialMurod`: `Spec => []SerialInv`;
- `NothingOrphaned`: `Spec => []NoOrphan`; `RecordsTrue`: `Spec => []RecordTruthful`;
  `ProxyKnows`: `Spec => []ProxyCurrent`;
- `Implements`: `Spec => ImplementsLife`, that is, `Manager` implements `SandboxLife`.

It proves two more, for any deltas and with merges, failing launches, refused signals and failing writes:

- `LaunchesAreCounted`: `Spec => []RestartBudget`, from `OneByOne`, `Limited` and `Undone`;
- `BridgesAreUp`: `Spec => []BridgesUp`, from `OneByOne` and `StopsSaved`.

*What `Serially` assumes, and why.*  Requests, exits and crashes only come when nothing else is in flight
(`Overlap = FALSE`; launches may still fail, the steps of one request or loop are still separate, and murod may
die and recover between any two requests).  Writes of the registry and signals do not fail, no request
merges, no Update carries mounts.  Each of these four is needed for each of the four results: with any one lifted TLC
finds each of them violated on `ManagerSerial`'s instance (for merges, with a worktree in the profile).  Two requests at once
may both launch.  A Stop whose write fails has a record that
says stopped and a process that runs; one whose signal is refused has no handle left of a process that lives.  A mount that is
added or merged away makes a record reload-pending, which the next murod's startup passes over, and an Update makes a
stopped sandbox reload-pending.  These are the code's hazards (section 6 and `PROJECT.json`), not the proof's.

*The argument for `SerialInv`* (`SerialInvariant`; `MCManager` extends it, and it passes as an INVARIANT of
`ManagerSerial`, and of that instance with two sandboxes and two clients).  At most one goroutine is at work: a request, or the watchLoop of a process that has
died.  Every other sandbox is at `Rest`: `Held` (the record says running, and its process is the only one alive under
the name, is the handle, will be seen to exit by a loop with the current epoch, and is in the proxy's tables with the recorded
allowlist) or `Gone` (no process, no handle, no active record).  For the one at work, `ReqForm` and `WatchForm` say, at each
control point, which part of `Held` or `Gone` stands already:

- a Run or Restart that has launched holds the only process of its name, before the record, the handle and the proxy know it;
- a Restart or Stop that is about to kill has cleared the handle, which advances the epoch, so that the loop of the
  process it kills ends without touching the record (`Unminded`);
- a loop past its epoch check finds the record active and nothing alive under the name, and so may launch;
- an Update's candidate differs from the record in its allowlist only (`Drafted`), so that the process behind it stays the record's.

While murod is down or starting, what lives is what the persisted record says is running (`Told`): so
Reconcile corrects the records of the dead only, and Reattach ends with every sandbox at rest (`Reattaching`).  One lemma per
action; `RestFrame` says that a step on one sandbox leaves the others at rest, for which ids of different sandboxes must differ
(`IdsApart`), since the proxy's allowlists are kept by id.

*The argument for `Implements`.*  Each step stores a record, launches, kills, or does none of these, and four lemmas
say what that is in `SandboxLife` (`RecordStored`, `Launched`, `Died`, `StoreKept`); the forms above supply what each
needs: that nothing of the name lives at a launch, that it does where a record becomes active, that it does not where
a record is deleted.  A death of murod, Load and Reattach map to no step, as the persisted record is the stored one.

*The argument for `LaunchesAreCounted` and `BridgesAreUp`* (`RecordsInvariant`; `MCManager` extends it, and its four invariants and
`MountsInv` pass as INVARIANTs of `ManagerRecords`; the first three also with failing writes and accepted signals, over 5 requests and a crash:
393,857 states).

- `AloneInv`: one goroutine at most is at work, a request or a watchLoop with an exit to deal with (`OneAtWork`), so that no
  other writes between its read of a record and its put; ids of different sandboxes differ; the id of a Run
  that has not launched has no process.
- `BudgetInv`: each copy's count is at least the number of relaunches under its id, as long as the copy's process lives.
  A loop counts the relaunch first, stores that, and launches after the backoff (`Spent`), so that a murod that dies in between
  has counted one too many, never one too few.  A write that failed leaves an older count on the disk, and the next
  murod loads it; but the process it names is dead then, and nothing is relaunched from it.
- `LifeInv`: why a loop past its epoch check finds a record that counts even so.  The record of a key with a handle, and
  each copy that may be put back while the handle stands, counts every launch under its id and is of the only process that may be
  alive under it (`Tells`), the handle; except between the put of a new process and its `setHandle` (`Settling`).  So where the
  handle's process has died, nothing lives under the id, and the copy the loop takes is the last word on it.
- `BridgeInv`: a loop with the current epoch is that of the handle (`Handled`); the listeners of a record with a handle are up,
  except while a Stop has closed them and not yet come to the handle (`Stopping`); so are those of the copies that may be put back.

`OneByOne` says that requests, exits and crashes meet a settled murod, and that nobody asks for a
restart; `Limited`, that no profile's policy is "always"; `Undone`, that either writes or signals do not fail;
`StopsSaved`, that the writes of Stops do not fail.  With one of them lifted TLC finds, on `ManagerRecords`' instance:

- with overlap, or with restart requests, both properties violated (a Restart launches without counting, and without an agent
  socket after a Stop);
- with failing writes and Stops, `BridgesUp` violated; with failing writes, and without Stops, it is not;
- with failing writes and refused signals, `RestartBudget` violated within 4 requests.  A Stop whose write fails leaves the handle of a
  process whose record says stopped; a Run of the name launches a second one, cannot write either, and its undo is refused,
  so that the record of the second stands beside the handle of the first; an Update of its allowlist writes it.  The first exits, and its loop
  relaunches under the id of the second, counting in memory only; after a restart of murod the second is reattached with the count on the disk.

`EgressProofs` proves, for any processes, ids, connections, allowlists, requests,
ClientHellos, faults and bounds, from `NetAssumption` and `EgressAssumption` (processes are positive
numbers, there is at least one address, the constants have the shape their comments say, an id is some sandbox's):

- `RoutesSealed`: `Spec => []NoOpenRoute`, and `SlirpsStopped`: `Spec => []NoStraySlirp`;
- `OnlyOwnRules`: `Spec => OwnRules`, and `RecordServed`: `Spec => NotRefused`;
- of the ring of denied events, for any capacity: `RingKeepsNewest`: `Spec => KeepsNewest`, that is, `EventRing`,
  as the proxy and the registry use it, implements `DeniedLog`; `LastsAgree`: `Spec => []LastAgrees`;
- `EgressTyped`: `Spec => []EgressTypeOK`.

*The argument for `Egress`.*

- `NetInv`: at each point of a Launch, which of slirp4netns, nft rules, handle and announcement there
  can be: a launch that has returned with a bridge is sealed, and one that has not is not held.
- `TabInv`: an address in the index leads to an id one of whose processes has that address, and
  each list in `rules` is the parsed form of some list of entries.  A restart empties both tables, and
  `Reattach` fills them from the record of processes that live.
- `ConnInv`: a handler's key is that of the address it came from, as it was looked up.  An address
  never changes hands among processes of which one is `Alone`, so the key is the sender's own.
- with a lemma on `parseRule` (what a parsed rule lets pass, its entry stands for), these three give
  `OnlyOwnRules`.
- `HeldInv`: of the processes of an id at most one is being launched, held, about to be announced or to be taken up again
  after a restart, and the record names it where it is held or to be taken up (`CrashLeaves` says what a restart leaves of each).
  `ToldInv`: a process this murod has announced has its
  address and its recorded list in the tables, unless an Update is pending, and so has the one behind a connection
  that came when it was.  With the
  converse lemma on `parseRule` they give `RecordServed`.
- `RingInv`: what the ring shows, read from the array slot by slot (`Spot`, where the `%` of `Last` is an `IF`), are
  denials, no more than `cap`, on disk as well.  `PushShows`: what is shown after a Push is the newest `cap` of
  what was shown and the new event, with room or without.  `LoadIs`: the recursive loading of no more than `cap`
  events ends with the array they fill, by `Induction` over the events; `FilledShows`: that array shows them.
  Each step of `Egress` then is one of `DeniedLog` or leaves it as it is (`LogStep`).

`ToolsProofs` proves, for any clients, sandbox ids, branches, requests, policies, edits,
faults and bounds, from `WorktreesAssumption` (the agent's branch and `main` are branches, and the
policy of a sandbox allows the branch of its own tree, as `WorktreeMounts` sets it up):

- `AllowedOnly`: `Spec => OnlyAllowed`;
- `WorkKept`: `Spec => []NothingLost`.

*The argument for `AllowedOnly`.*  `Permitted`: a request past `Begin` is one that `Validate` lets
through, and one that is about to commit sits in a tree whose branch is allowed, unless that tree has
been switched.  A tree that goes and one that `Create` adds meanwhile do not break it, since a new one
has the agent's branch.  A push names its destination, which `Validate` has looked up, so what the
rehearsal saw does not matter to it; nor does it matter when it runs: what its children do after the deadline (`late`) is the same
push.  Pulls are not in the statement.

*The argument for `WorkKept`.*  `NothingLost` is not inductive: the step that deletes the branch relies
on what an earlier one has looked at.  `WorkInv` adds what that is:

- `Bases`: the base in a sidecar, in the record or in an operation's hands is a branch of the operator's,
  never the agent's; so what it reaches outlives the agent's branch.
- `Heads`: one tree has the agent's branch, and while an operation is between `git worktree remove` and
  `git branch -D` there is no tree, so nobody can commit to the branch.
- `Looked`: the index that a squash has staged holds whatever is on the agent's branch and nowhere else;
  an operation that is going to delete without `--discard-worktree` finds every commit of the branch
  elsewhere, or no tree.  A commit made since is in `behind`.
- `Edits`: what is in the operator's checkout when `git reset --hard` comes was typed after `isClean`.
- `Known`: what the remote holds is on the agent's branch or is safe elsewhere; so a pull brings nothing that only the
  branch it replaces would keep, and what a `+` drops is in `given`.

`PubSubProofs` proves, for any murods, hosts, keys, sandboxes, messages, crashes, cuts and slow calls, from
`DaemonAssumption` and `BridgeAssumption` (ids of murods and of processes are positive numbers, each murod has a host,
and no key is empty):

- `HolderIsNamed`: `Spec => []HolderNamed`;
- `HeardOfOwn`: `Spec => []OwnNamespace`.

*The argument for `HolderIsNamed`.*  A claim is decided on what the broker said, published later, and lands later
still, perhaps twice: `ClaimInv` says what is true of each claim on its way.

- `Queued`: whoever it was decided against is not online and, since a murod publishes "online" once and never
  after (`Passed`), will not be; only the last claim in a queue is one its caller waits for.
- `Calling`, `Held`: only a connected murod asks and holds; a call that has looked up somebody else's claim
  knows that it is somebody else's.

A claim that lands over the claim of a murod that holds the name therefore finds it offline, or the two were
decided at once (`raced`).  A claim that an acknowledgement failed to reach is sent again and lands on itself.

*The argument for `HeardOfOwn`.*  `MailInv` follows a message through each place it waits in: what has been let through
the socket, lies in a queue, arrives, is about to be dialled, and has been typed, is of one namespace with the key it
goes to; and what is on record, or served, under a key was launched under it.

`AttachProofs` proves, for any connections, sandboxes, output, replay and numbers of stops and deaths, from
`StreamAssumption`:

- `NoOutputMissed`: `StreamSpec => []NothingMissed`; `SlotIsBacked`: `StreamSpec => []SlotBacked`;
  `OneSessionAtATime`: `StreamSpec => []OneSession`;
- `HoldsOneSession`: `Spec => []HoldsOne` and `ShowsLastRequested`: `Spec => []ShowsRequested`, for `Console`.

*The argument for `NoOutputMissed`.*  Output reaches a client by two ways, the replay and the broadcast, from two
goroutines that each let go of the lock before they write.  `Whole` says of the connection that is served: what
it has been sent, what drainToLog is about to hand it (`Due`), and what is in the copy of the replay, taken together,
have no gap up to the chunk read last.  Each step moves chunks among the three and never out of them; a chunk handed
to a connection that is no longer served is why `Serving` and `Queue` are needed.

*The argument for the slots.*  `SlotInv`: a handler past TryAttach has its sandbox's slot and, where no Stop has
freed one by its key, is alone; an open connection to a shim has a handler that will close it.

*The argument for `Console`.*  `TuiInv`: the session is the one open connection, and where the console shows another
sandbox than it asked for last, that dial is on its way.  It needs only the types of `AttachStream`, and that its
steps open no connection of a client by themselves (`StreamOnwards`).

`ProfilesProofs` proves, for any names, commands and loads, for chains of any length and profiles with any number
of mounts, tools, private directories and repositories, from `ProfilesAssumption` (the names are finitely many, what commands are
given are profiles and mounts, and what the disk holds at first are valid profiles, each in the directory of its name) and `HomeAssumption`:

- `ProfilesTyped`: `Spec => []ProfilesTypeOK`; `MountsAreOwn`: `Spec => []OwnMounts`;
- `ToolsStandAsNamed`: `Spec => []ToolsStand`; `InheritsItsChain`: `Spec => []Inherited`.

*The argument for `Profiles`.*  `DiskInv`: what is in a file, or in the hands of a command about to write it, is a valid
profile whose mounts were asked for under its name; a temporary file is litter, or of a command about to rename it
into the directory of its own profile.  `LoadInv`: what has been read of a chain begins with the profile that was asked for, and
what is merged keeps its name; what `Resolve` let through is valid, although no file need be as it was read.
The last step is about `ResolveMounts` and the lists after it.  A mount at a named tool's target would be one
that validation compares with it; and each mount above a tool's path is a directory of tools, a private one, a worktree, or stands before
the tool's own mount in the list, which then hides it (`Covered`), since the mounts of a profile come before its
tools.  The stub is the last of all (`StubLast`), so that nothing hides it.

*The argument for `InheritsItsChain`.*  The definition follows `Up`, the names above a name on the disk as it is; the code
reads one file after another and merges from the base down.  `TraceInv` relates the two wherever no file has changed since
the load began (its `edition`; a change outdates every load under way):

- `ReadOf`: what has been read after k steps is the first k profiles of `Up`, `seen` is their names, and the next is the
  name k steps up.  The names are finitely many, and so the walk ends or comes back to one it has seen.
- a name met again comes back for ever (`ComesBack`), so that the chain is cyclic; where the walk meets `""`, the
  chain is exactly what was read (`EndsHere`).
- `MergedOf`: what is merged so far holds the lists of the rest of the chain, joined from the base (`FlattenMore`), the
  nearest working directory there, and audio if one of them has it; merging one more profile extends each (`MergedNext`).

`HomeAssumption` is needed: targets are compared as they are written, and expanded afterwards, so that with a home
above or below `/usr/local/bin` a mount at `~/...` could stand where a tool does (section 6, *Mounts*).

Three of these proofs' lemmas are about data of any length.  `Only` replaces the standard `SelectSeq`,
of which the provers know nothing; `Induction` gets induction over the natural
numbers for a set, from the library's least element of a well-founded set; `Word` names the strings that the model writes
out, which the provers do not know to be in `STRING`.

Every invariant and action property of a passing run is stated by a theorem.  Out of this prover's reach, and left
to TLC: liveness under fairness (`Decides`, `Answered`, `Reaches`, `NotBlocked`, `CatchesUp`, `AttachServed`, ...).

## 5. Not modelled

`PROJECT.json` has the list, with reasons.  The daemon's configuration, the other commands and the
sandbox helpers are sequential code without state around library calls; the broker is a
third-party server, seen through its clients; rendering, the log stream, the line protocol of the
control socket, private directories and bwrap's arguments are I/O.  The kernel (namespaces, nft, signals)
and git are modelled by what the code relies on.

## 6. Disagreements between the code and its documents

Shown by runs:

- `StopRace`.  `Stop` writes "stopped" first, "so the in-flight watchLoop [...]
  doesn't treat it as a crash" (`manager.go` 979-982).  The watchLoop reads the record
  once and then puts its own copy back, before and after the backoff: a Stop in
  between is undone and the sandbox runs again.
- `MergeRace`.  Prune deletes the branch by force, since its commits are "never \"fully merged\" by git's
  own reachability check, even though their content is" (`worktree.go` 201-205).  Merge "works regardless of
  the sandbox's current state": an agent that commits between the squash and the prune loses the
  commit.

Met while modelling; the properties are stated around them:

- *Manager.*  Run looks before the launch and stores after it (655, 711): two Runs of one name at once both launch,
  against SPEC.md 188.  A sandbox that is reload-pending or restarting when murod restarts is passed over
  by Reconcile and ReattachAll (152), and so is out of reach.  Stop and Restart free an attach slot by its key while its
  session goes on (920, 991): an attach in that moment is told OK and queued at the shim, against `pty.go` 16.  An Update
  makes a stopped sandbox reload-pending; one without mounts clears a pending reload; Restart after Stop runs
  without an agent socket.  After a Stop whose Put failed (996) the record says stopped and the process runs: Delete forgets it,
  against 1016-1018 ("never doubles as an implicit stop"), and a Run launches a second one.  A Run whose Put fails ignores the
  error of its undo (712).  A process that dies between Reconcile and Reattach leaves a record that says
  running.  A comment in `cmd/murod/main.go` (79) says restart policies are not resumed, which Reattach does.
- *Network.*  A slirp4netns that exits at once is taken for a success, against the comment at `network.go` 291-294:
  `cmd.ProcessState` is nil until Wait.  After a restart of murod the allocator begins again at .2, and after 253
  launches it wraps: two live sandboxes may share an address, and the table knows the last one told.  A murod that
  dies between slirp4netns and nft leaves an open route; a sandbox that ends while no murod runs leaves its slirp4netns.
- *Proxy.*  It serves (`main.go` 52-58) before the broker is connected (60) and ReattachAll fills its tables (83): until then a restarted
  murod refuses what surviving sandboxes ask for; those it passes over (`manager.go` 152) are refused for good, and their
  slirp4netns has nobody to stop it.  `splitKey` (`proxy.go` 228) is given ids, not "namespace/name" keys, so that denied events have
  no namespace.  An established tunnel outlives a change of the allowlist.
- *Pub/sub.*  A clean Disconnect leaves the retained "online", since the broker drops the will: the claims of a murod that
  was stopped block their names for good, also for its successor, whose id is new; the comment at `claims.go` 124-127
  counts a clean disconnect as not online.  After a reconnect nothing subscribes again.  ReleaseClaim clears
  whatever claim is there.
- *Tools.*  A pull is run without a look at the branch (`orchestrate.go` 64-65), and of its arguments only the remote is checked (`policy.go`
  199-210): it merges into whatever is checked out, and a refspec `src:dst` sets any branch, with a `+` one that then loses its commits.
  `toolExecTimeout` guarantees "handleConn can't block forever" (`toolsocket.go` 95-99), but the deadline kills git only, and `cmd.Run` waits for
  whoever holds its pipes (`exec.go` 27-33 sets no WaitDelay).
- *Shim.*  A program that does not read its terminal keeps acceptLoop in `ptmx.Write` (`main.go` 463), where it does not notice that its
  connection has died, against the comment at 342: the next attach is told OK and not served, and a handler in `pty.Write`
  (`stream.go` 79) keeps its slot after its client has gone.
- *Worktrees.*  HasUnmergedCommits looks at the tree's HEAD, while the branch is deleted by its name: an operator who
  switches the tree hides the branch.  A failed squash resets edits made since the check.  A Run that fails after Create
  leaves a branch and a tree no record names, and the branch blocks the name.  Prune refuses a dirty tree, and
  Merge and Delete drop it from the record all the same.  A murod that dies between the squash and the commit leaves a staged index; between
  `git worktree add` and the sidecar, a tree whose base is not known.  Requests under way when the sandbox is stopped go on.
- *Profiles.*  Commands save the whole profile they have read, without a lock: of two mount adds at a time the
  second undoes the first, whose message said "added %d mount(s)" (`cli/profile.go` 342).  An import copies profile.json
  in place before it saves it (`profile_import.go` 134), so that a run in between fails to parse it, and a killed import leaves
  it so, against `profile.go` 284-285; without `--overwrite` it replaces a profile that was created since it looked, or
  that does not parse.  A temporary file, of a save under way or of one that was killed, counts as a document, so that
  the directory is mounted read-write, against `instructions.go` 71: "must get no mount here at all".  A cleared workdir is
  inherited from the base again, against the message at `cli/profile.go` 191.  `profileFilePath` (490) is `<name>.json`,
  which nothing writes: `profile edit` fails for every profile.
- *Mounts.*  TranslateCwd takes the first of the mounts with the longest path and bwrap the last, so that git runs in the
  base's directory where a profile mounts over its base (`gitproxy/policy.go` 51 against `profile.go` 187-191).  Paths are
  compared before `~` is expanded: a mount at the home's path and a private directory under `~` may collide.  A tool mounted as
  `*` may be hidden by mounts at `/usr/local/bin` (`validate.go` 180-182), against DESIGN.md 334-337.  A directory of tools, a private directory or a
  worktree above a named tool's path hides the tool, as only equal paths are compared; and where there is a git policy a tool named git
  is replaced by the stub without a word (`bwrap.go` 251-254), as is intended.
- *Console.*  It dials the next session before it closes the last (`pane.go` 43 says the opposite), and may show a
  sandbox that is no longer highlighted until the next poll (`model.go` 383).  A sandbox that comes or goes between two polls moves the
  highlight (239), also while the console has the focus: what is typed next goes to another session.

## 7. What could follow

An abstract specification of the attach path (one exclusive reader of a byte log) that
`AttachStream` implements; the log stream.
