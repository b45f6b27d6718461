------------------------------- MODULE Egress -------------------------------
(***************************************************************************)
(* The way out of a sandbox: NetBridge's launches, the manager's calls of  *)
(* the proxy, the Proxy's connections and the EventRing of what it denied, *)
(* over deaths and restarts of murod.                                      *)
(***************************************************************************)
EXTENDS NetBridge, Integers, Sequences

CONSTANTS
  Id, Conn, Request, Hello, MaxPeek, Lower,  \* see Proxy
  AllowURLs,     \* the allow_urls a sandbox may have
  FirstURLs,     \* those of each id's profile
  ReqCap, Sandbox, Zero, Faults,             \* see EventRing
  Budgets        \* how many launches, requests, updates and crashes may come

VARIABLES
  rules, addrIndex, conn,   \* see Proxy
  buf, next, size, disk,    \* see EventRing
  rec,     \* state.json: the process last recorded for an id, and its allow_urls
  owner,   \* the id a process was launched for
  serving, \* how far this murod is with a process: "no", "tell" and "done" after
           \* Launch; "again" if startup is to reattach it, "lost" if not
  pending, \* ids whose Update has been put and not yet told to the proxy
  from,    \* the process behind a connection; was it registered when it came?
  left     \* launches, requests, updates and crashes to come

Url == [scheme: STRING, host: STRING, port: STRING, path: Seq(STRING)]
ASSUME EgressAssumption ==
  /\ "" \notin Id
  /\ AllowURLs \subseteq SUBSET Url /\ FirstURLs \in [Id -> AllowURLs]
  /\ Request \subseteq
       [method: STRING, scheme: STRING, host: STRING, port: STRING, path: Seq(STRING)]
  /\ Hello \subseteq [tls: BOOLEAN, name: STRING, parts: Nat]
  /\ \A host \in {r.host : r \in Request} \cup ({h.name : h \in Hello} \ {""}) :
       Lower[host] # Lower[""]   \* each names a host
  /\ ReqCap \in Int /\ Id \subseteq {s.id : s \in Sandbox}

P == INSTANCE Proxy WITH SrcAddr <- Addr
Ring == INSTANCE EventRing

registryVars == <<rec, owner, serving, pending>>
ringVars == <<buf, next, size, disk>>
vars == <<nextAddr, net, rules, addrIndex, conn, buf, next, size, disk,
          rec, owner, serving, pending, from, left>>

NoProc == 0   \* Proc is a set of positive numbers, taken in order
Nobody == [proc |-> NoProc, known |-> FALSE]

Init == /\ NetInit /\ P!ProxyInit /\ Ring!Init
        /\ rec = [i \in Id |-> [proc |-> NoProc, urls |-> FirstURLs[i]]]
        /\ owner = [p \in Proc |-> P!NoKey]
        /\ serving = [p \in Proc |-> "no"]
        /\ pending = {}
        /\ from = [c \in Conn |-> Nobody]
        /\ left \in Budgets

Spend(what) == left[what] > 0 /\ left' = [left EXCEPT ![what] = @ - 1]

(* One goroutine at a time launches for an id, and none while the process of
   an earlier launch is held. *)
Idle(i) == \A p \in Proc : owner[p] = i =>
             /\ ~InLaunch(p) /\ ~net[p].held
             /\ net[p].at \in {"up", "off"} => serving[p] \in {"done", "lost"}

(* The control socket is opened once ReattachAll has returned; the watchLoop of
   a process this murod has taken up may relaunch before. *)
Serves == \A p \in Proc : serving[p] # "again"
Relaunched(i) == \E p \in Proc : owner[p] = i /\ serving[p] = "done"

(* Run, Restart or a relaunch: Launch begins.  Launches share the allocator
   and nothing else, so that one at a time is enough. *)
Launch(p) ==
  /\ Spend("launches")
  /\ \A q \in Proc : ~InLaunch(q) /\ (q < p => net[q].at # "unused")
  /\ Started(p)
  /\ \E i \in Id : /\ Serves \/ Relaunched(i)
                   /\ Idle(i) /\ owner' = [owner EXCEPT ![p] = i]
  /\ UNCHANGED <<rules, addrIndex, conn, rec, serving, pending, from>>
  /\ UNCHANGED ringVars

(* Launch returns a handle: captureHandleInfo and Put. *)
Put(p) ==
  /\ net[p].at \in {"up", "off"} /\ serving[p] = "no"
  /\ rec' = [rec EXCEPT ![owner[p]].proc = p]
  /\ serving' = [serving EXCEPT ![p] = "tell"]
  /\ net' = [net EXCEPT ![p].held = TRUE]
  /\ Ring!Put /\ Ring!persist
  /\ UNCHANGED <<nextAddr, rules, addrIndex, conn, owner, pending, from, left>>

(* SetAllowlist and registerHandleNetworkAddr, after the handle is set. *)
Tell(p) ==
  /\ serving[p] = "tell"
  /\ serving' = [serving EXCEPT ![p] = "done"]
  /\ P!SetAllowlist(owner[p], rec[owner[p]].urls)
  /\ P!RegisterSandboxAddr(owner[p], net[p].addr)
  /\ UNCHANGED <<nextAddr, net, conn, rec, owner, pending, from, left>>
  /\ UNCHANGED ringVars

(* Update of the URLs: Put, then SetAllowlist. *)
UpdatePut(i, urls) ==
  /\ Spend("updates") /\ Serves
  /\ rec[i].proc # NoProc /\ i \notin pending /\ rec[i].urls # urls
  /\ rec' = [rec EXCEPT ![i].urls = urls]
  /\ pending' = pending \cup {i}
  /\ Ring!Put /\ Ring!persist
  /\ UNCHANGED <<nextAddr, net, rules, addrIndex, conn, owner, serving, from>>

UpdateTell(i) ==
  /\ i \in pending
  /\ pending' = pending \ {i}
  /\ P!SetAllowlist(i, rec[i].urls)
  /\ UNCHANGED <<nextAddr, net, addrIndex, conn, rec, owner, serving, from, left>>
  /\ UNCHANGED ringVars

Beside == /\ UNCHANGED <<rules, addrIndex, conn, rec, owner, serving, pending, from, left>>
          /\ UNCHANGED ringVars
Launching(p) == LaunchStep(p) /\ Beside
Ends(p) == Exit(p) /\ Beside
TearDown(p) == Wait(p) /\ Beside

(* A process with a route opens a connection, sealed or not. *)
Ask(p, c) ==
  /\ Spend("requests")
  /\ net[p].alive /\ net[p].slirp = "up"
  /\ \E request \in Request :
       \E hello \in IF request.method = "CONNECT" THEN Hello ELSE {P!NoHello} :
         P!Arrive(c, net[p].addr, request, hello)
  /\ from' = [from EXCEPT ![c] = [proc |-> p, known |-> serving[p] = "done"]]
  /\ UNCHANGED <<nextAddr, net, rec, owner, serving, pending>>
  /\ UNCHANGED ringVars

(* What a handler does by itself; a client's bytes and its end are its own,
   and how long a round trip or a relay takes is the backend's. *)
Proceed(c) ==
  /\ P!Resolve(c) \/ P!Admit(c) \/ P!PeekTimeout(c) \/ P!Dial(c)
  /\ UNCHANGED <<nextAddr, net, rec, owner, serving, pending, from, left>>
  /\ UNCHANGED ringVars

Client(c) ==
  /\ \/ (P!Peek(c) \/ P!HangUp(c)) /\ UNCHANGED from
     \/ P!Finish(c) /\ from' = [from EXCEPT ![c] = Nobody]
  /\ UNCHANGED <<nextAddr, net, rec, owner, serving, pending, left>>
  /\ UNCHANGED ringVars

(* A denial is recorded under the key it was looked up with. *)
Refuse(c) ==
  /\ P!Deny(c) \/ P!PeekDeny(c)
  /\ Ring!RecordDenied(<<conn[c].key>>)
  /\ UNCHANGED <<nextAddr, net, rec, owner, serving, pending, from, left>>

(* Slip: the list is set and the address is not registered. *)
ReattachUnregistered(p) ==
  /\ serving[p] = "again"
  /\ IF net[p].alive
     THEN /\ net' = [net EXCEPT ![p].held = TRUE]
          /\ serving' = [serving EXCEPT ![p] = "done"]
          /\ P!SetAllowlist(owner[p], rec[owner[p]].urls)
          /\ UNCHANGED addrIndex
     ELSE serving' = [serving EXCEPT ![p] = "lost"] /\ UNCHANGED <<net, rules, addrIndex>>
  /\ UNCHANGED <<nextAddr, conn, rec, owner, pending, from, left>>
  /\ UNCHANGED ringVars

(* Startup, while the proxy serves: the handle, the allowlist and the address on
   record; or, for a process that has ended meanwhile, nothing. *)
Reattach(p) ==
  /\ serving[p] = "again"
  /\ IF net[p].alive
     THEN /\ net' = [net EXCEPT ![p].held = TRUE]
          /\ serving' = [serving EXCEPT ![p] = "done"]
          /\ P!SetAllowlist(owner[p], rec[owner[p]].urls)
          /\ P!RegisterSandboxAddr(owner[p], net[p].addr)
     ELSE serving' = [serving EXCEPT ![p] = "lost"] /\ UNCHANGED <<net, rules, addrIndex>>
  /\ UNCHANGED <<nextAddr, conn, rec, owner, pending, from, left>>
  /\ UNCHANGED ringVars

(* murod dies and is started again: its proxy serves at once, with empty tables.
   ReattachAll will come to the records that say running; a process whose record
   says otherwise (reload-pending, or a Stop cut short) is passed over. *)
Crash ==
  /\ Spend("crashes")
  /\ \E running \in SUBSET {p \in Proc : /\ net[p].at \in {"up", "off"} /\ net[p].alive
                                         /\ rec[owner[p]].proc = p} :
       serving' = [p \in Proc |-> IF p \in running THEN "again"
                                  ELSE IF net[p].at \in {"up", "off"} THEN "lost" ELSE "no"]
  /\ net' = [p \in Proc |-> [net[p] EXCEPT !.held = FALSE,
                                          !.at = IF InLaunch(p) THEN "lost" ELSE @]]
  /\ nextAddr' = FirstAddr
  /\ rules' = [i \in Id |-> P!NoRules]
  /\ addrIndex' = [a \in Addr |-> P!NoKey]
  /\ conn' = [c \in Conn |-> P!Free]
  /\ pending' = {}
  /\ from' = [c \in Conn |-> Nobody]
  /\ Ring!Restart
  /\ UNCHANGED <<rec, owner>>

Next ==
  \/ \E p \in Proc : \/ Launch(p) \/ Launching(p) \/ Put(p) \/ Tell(p)
                     \/ Ends(p) \/ TearDown(p) \/ Reattach(p)
  \/ \E i \in Id : (\E urls \in AllowURLs : UpdatePut(i, urls)) \/ UpdateTell(i)
  \/ \E c \in Conn : \/ \E p \in Proc : Ask(p, c)
                     \/ Proceed(c) \/ Client(c) \/ Refuse(c)
  \/ Crash

(* A handler goes on, and a peek has its deadline; a client owes nothing. *)
Fairness == \A c \in Conn : WF_vars(Proceed(c)) /\ WF_vars(Refuse(c))

Spec == Init /\ [][Next]_vars
FairSpec == Spec /\ Fairness
=============================================================================
