---------------------------- MODULE EgressProofs ----------------------------
(***************************************************************************)
(* The theorems about Egress, for any number of launches, addresses,       *)
(* connections, allowlists and restarts of murod. First the network        *)
(* bridges (NetInv), and what follows of routes and slirp4netns; then the  *)
(* proxy's tables and handlers (TabInv, ConnInv), and that a request is    *)
(* let through by an entry of its own sandbox only; and last the ring of   *)
(* denied events (RingInv), which is the log of the newest of them.        *)
(***************************************************************************)
EXTENDS EgressProperties, WellFoundedInduction, TLAPS

Points == {"unused", "find", "slirp", "noslirp", "nft", "sealing", "unsealed", "undo",
           "up", "off", "error", "lost"}
NetRec == [alive: BOOLEAN, addr: Addr \cup {0}, slirp: {"none", "up", "gone"},
           sealed: BOOLEAN, at: Points, held: BOOLEAN]

NetType ==
  /\ net \in [Proc -> NetRec]
  /\ serving \in [Proc -> {"no", "tell", "done", "again", "lost"}]
  /\ nextAddr \in Addr

(* Where slirp4netns may run, and who will stop it. *)
RouteOf(r, s) ==
  /\ r.slirp = "up" => r.at \in {"nft", "sealing", "unsealed", "up", "lost"}
  /\ r.at = "up" => r.sealed
  /\ s # "no" => r.at \in {"up", "off"}
  /\ r.slirp = "up" /\ r.at = "up" /\ s \in {"tell", "done"} => r.held
  /\ r.held => s \in {"tell", "done"}
  /\ r.at = "unused" => r.addr = 0 /\ ~r.alive /\ ~r.held
Route(p) == RouteOf(net[p], serving[p])

NetInv == NetType /\ \A p \in Proc : Route(p)

LEMMA AddrFacts == FirstAddr \in Addr /\ 0 \notin Addr /\ NoProc \notin Proc
  BY NetAssumption DEF Addr, FirstAddr, NoProc

LEMMA NetInit0 == Init => NetInv
<1> SUFFICES ASSUME Init PROVE NetInv
  OBVIOUS
<1>1. NetType
  BY AddrFacts DEF Init, NetInit, NetType, NetRec, Points, Unused
<1>2. \A p \in Proc : Route(p)
  BY DEF Init, NetInit, Route, RouteOf, Unused
<1> QED BY <1>1, <1>2 DEF NetInv

LEMMA NetOne ==
  ASSUME NetInv, NEW p \in Proc, NEW r \in NetRec,
         NEW s \in {"no", "tell", "done", "again", "lost"}, net' = [net EXCEPT ![p] = r], serving' = [serving EXCEPT ![p] = s],
         nextAddr' \in Addr, RouteOf(r, s)
  PROVE  NetInv'
  BY DEF NetInv, NetType, Route

LEMMA NetSame ==
  ASSUME NetInv, NEW p \in Proc, NEW r \in NetRec,
         net' = [net EXCEPT ![p] = r], serving' = serving, nextAddr' = nextAddr,
         RouteOf(r, serving[p])
  PROVE  NetInv'
  BY DEF NetInv, NetType, Route

LEMMA NetSteps ==
  ASSUME NetInv, NEW p \in Proc, LaunchStep(p), UNCHANGED serving
  PROVE  NetInv'
<1> USE DEF NetRec, Points, RouteOf, At, Goto
<1>0. net[p] \in NetRec /\ RouteOf(net[p], serving[p])
  BY DEF NetInv, NetType, Route
<1>1. CASE FindInner(p)
  <2>1. ASSUME NEW x \in {"slirp", "off"}, net' = [net EXCEPT ![p].at = x], net[p].at = "find"
        PROVE  NetInv'
    BY <1>0, <1>1, <2>1, NetSame DEF FindInner
  <2> QED BY <1>1, <2>1 DEF FindInner
<1>2. CASE StartSlirp(p)
  <2>1. ASSUME net' = [net EXCEPT ![p].at = "noslirp"] PROVE NetInv'
    BY <1>0, <1>2, <2>1, NetSame DEF StartSlirp
  <2>2. ASSUME NEW x \in {"up", "gone"}, net' = [net EXCEPT ![p].slirp = x, ![p].at = "nft"]
        PROVE  NetInv'
    <3> DEFINE r == [net[p] EXCEPT !.slirp = x, !.at = "nft"]
    <3>1. r \in NetRec
      BY <1>0
    <3>2. net' = [net EXCEPT ![p] = r] /\ serving' = serving /\ nextAddr' = nextAddr
      BY <1>2, <2>2 DEF StartSlirp
    <3>3. RouteOf(r, serving[p])
      BY <1>0, <1>2 DEF StartSlirp
    <3> QED BY <3>1, <3>2, <3>3, NetSame
  <2> QED BY <1>2, <2>1, <2>2 DEF StartSlirp
<1>3. CASE SlirpFailed(p)
  BY <1>0, <1>3, NetSame DEF SlirpFailed
<1>4. CASE CheckTarget(p)
  BY <1>0, <1>4, NetSame DEF CheckTarget
<1>5. CASE Seal(p)
  <2>1. ASSUME net' = [net EXCEPT ![p].sealed = TRUE, ![p].at = "up"] PROVE NetInv'
    <3> DEFINE r == [net[p] EXCEPT !.sealed = TRUE, !.at = "up"]
    <3>1. r \in NetRec
      BY <1>0
    <3>2. net' = [net EXCEPT ![p] = r] /\ serving' = serving /\ nextAddr' = nextAddr
      BY <1>5, <2>1 DEF Seal
    <3>3. RouteOf(r, serving[p])
      BY <1>0, <1>5 DEF Seal
    <3> QED BY <3>1, <3>2, <3>3, NetSame
  <2>2. ASSUME net' = [net EXCEPT ![p].at = "unsealed"] PROVE NetInv'
    BY <1>0, <1>5, <2>2, NetSame DEF Seal
  <2> QED BY <1>5, <2>1, <2>2 DEF Seal
<1>6. CASE Unsealed(p)
  <2> DEFINE r == [net[p] EXCEPT !.slirp = StopSlirp(@),
                                 !.at = IF net[p].alive THEN "undo" ELSE "off"]
  <2>1. r \in NetRec /\ RouteOf(r, serving[p])
    BY <1>0, <1>6 DEF Unsealed, StopSlirp
  <2>2. net' = [net EXCEPT ![p] = r] /\ serving' = serving /\ nextAddr' = nextAddr
    BY <1>6 DEF Unsealed
  <2> QED BY <2>1, <2>2, NetSame
<1>7. CASE Undo(p)
  <2> DEFINE r == [net[p] EXCEPT !.alive = FALSE, !.at = "error"]
  <2>1. r \in NetRec /\ RouteOf(r, serving[p])
    BY <1>0, <1>7 DEF Undo
  <2>2. net' = [net EXCEPT ![p] = r] /\ serving' = serving /\ nextAddr' = nextAddr
    BY <1>7 DEF Undo
  <2> QED BY <2>1, <2>2, NetSame
<1> QED BY <1>1, <1>2, <1>3, <1>4, <1>5, <1>6, <1>7 DEF LaunchStep

LEMMA NetLaunch ==
  ASSUME NetInv, NEW p \in Proc, Launch(p)
  PROVE  NetInv'
<1>0. net[p] \in NetRec /\ RouteOf(net[p], serving[p]) /\ nextAddr \in Addr
  BY DEF NetInv, NetType, Route
<1>1. nextAddr + 1 > LastAddr \/ nextAddr + 1 \in Addr
  BY <1>0, NetAssumption DEF Addr, FirstAddr
<1>2. nextAddr' \in Addr
  BY <1>1, AddrFacts DEF Launch, Started
<1> DEFINE r == [net[p] EXCEPT !.alive = TRUE, !.addr = nextAddr, !.at = "find"]
<1>3. r \in NetRec
  BY <1>0 DEF NetRec, Points
<1>4. /\ serving[p] \in {"no", "tell", "done", "again", "lost"}
      /\ serving' = [serving EXCEPT ![p] = serving[p]]
  BY DEF Launch, NetInv, NetType
<1>5. RouteOf(r, serving[p])
  BY <1>0 DEF RouteOf, Launch, Started, NetRec
<1>6. net' = [net EXCEPT ![p] = r]
  BY DEF Launch, Started
<1> QED BY <1>2, <1>3, <1>4, <1>5, <1>6, NetOne

LEMMA NetOwn ==
  ASSUME NetInv, NEW p \in Proc,
         Put(p) \/ Tell(p) \/ Ends(p) \/ TearDown(p) \/ Reattach(p)
  PROVE  NetInv'
<1>0. /\ net[p] \in NetRec /\ RouteOf(net[p], serving[p])
      /\ nextAddr \in Addr /\ serving[p] \in {"no", "tell", "done", "again", "lost"}
      /\ net = [net EXCEPT ![p] = net[p]]
  BY DEF NetInv, NetType, Route
<1>1. CASE Put(p)
  <2> DEFINE r == [net[p] EXCEPT !.held = TRUE]
  <2>1. r \in NetRec /\ RouteOf(r, "tell")
    BY <1>0, <1>1 DEF Put, NetRec, RouteOf
  <2>2. net' = [net EXCEPT ![p] = r] /\ serving' = [serving EXCEPT ![p] = "tell"]
    BY <1>1 DEF Put
  <2> QED BY <1>0, <1>1, <2>1, <2>2, NetOne DEF Put
<1>2. CASE Tell(p)
  <2>1. RouteOf(net[p], "done")
    BY <1>0, <1>2 DEF Tell, RouteOf
  <2>2. net' = [net EXCEPT ![p] = net[p]] /\ serving' = [serving EXCEPT ![p] = "done"]
    BY <1>0, <1>2 DEF Tell
  <2> QED BY <1>0, <1>2, <2>1, <2>2, NetOne DEF Tell
<1>3. CASE Ends(p)
  <2> DEFINE r == [net[p] EXCEPT !.alive = FALSE]
  <2>1. r \in NetRec /\ RouteOf(r, serving[p])
    BY <1>0 DEF NetRec, RouteOf
  <2> QED BY <1>0, <1>3, <2>1, NetSame DEF Ends, Exit, Beside
<1>4. CASE TearDown(p)
  <2> DEFINE r == [net[p] EXCEPT !.held = FALSE, !.slirp = StopSlirp(@)]
  <2>1. r \in NetRec /\ RouteOf(r, serving[p])
    BY <1>0 DEF NetRec, RouteOf, StopSlirp
  <2>2. net' = [net EXCEPT ![p] = r] /\ serving' = serving /\ nextAddr' = nextAddr
    BY <1>4 DEF TearDown, Wait, Beside
  <2> QED BY <1>0, <2>1, <2>2, NetSame
<1>5. CASE Reattach(p)
  <2>1. CASE net[p].alive
    <3> DEFINE r == [net[p] EXCEPT !.held = TRUE]
    <3>1. r \in NetRec /\ RouteOf(r, "done")
      BY <1>0, <1>5 DEF Reattach, NetRec, RouteOf
    <3>2. net' = [net EXCEPT ![p] = r] /\ serving' = [serving EXCEPT ![p] = "done"]
      BY <1>5, <2>1 DEF Reattach
    <3> QED BY <1>0, <1>5, <3>1, <3>2, NetOne DEF Reattach
  <2>2. CASE ~net[p].alive
    <3>1. RouteOf(net[p], "lost")
      BY <1>0, <1>5 DEF Reattach, RouteOf
    <3>2. net' = [net EXCEPT ![p] = net[p]] /\ serving' = [serving EXCEPT ![p] = "lost"]
      BY <1>0, <1>5, <2>2 DEF Reattach
    <3> QED BY <1>0, <1>5, <3>1, <3>2, NetOne DEF Reattach
  <2> QED BY <2>1, <2>2
<1> QED BY <1>1, <1>2, <1>3, <1>4, <1>5

(* What a death of murod and its restart leave of a process, and of its serving. *)
LEMMA CrashLeaves ==
  ASSUME NetInv, Crash, NEW p \in Proc
  PROVE  /\ net'[p] \in NetRec /\ ~net'[p].held
         /\ net'[p].alive = net[p].alive /\ net'[p].addr = net[p].addr
         /\ net'[p].slirp = net[p].slirp /\ net'[p].sealed = net[p].sealed
         /\ net'[p].at = IF InLaunch(p) THEN "lost" ELSE net[p].at
         /\ net[p].at \in {"up", "off"} => serving'[p] \in {"again", "lost"}
         /\ net[p].at \notin {"up", "off"} => serving'[p] = "no"
         /\ serving'[p] = "again" => rec[owner[p]].proc = p
<1>1. PICK running \in SUBSET {q \in Proc : /\ net[q].at \in {"up", "off"} /\ net[q].alive
                                            /\ rec[owner[q]].proc = q} :
        serving' = [q \in Proc |-> IF q \in running THEN "again"
                                   ELSE IF net[q].at \in {"up", "off"} THEN "lost" ELSE "no"]
  BY DEF Crash
<1>2. p \in running => net[p].at \in {"up", "off"} /\ rec[owner[p]].proc = p
  OBVIOUS
<1>3. net' = [q \in Proc |-> [net[q] EXCEPT !.held = FALSE,
                                           !.at = IF InLaunch(q) THEN "lost" ELSE @]]
  BY DEF Crash
<1>4. PICK at : at = IF InLaunch(p) THEN "lost" ELSE net[p].at
  OBVIOUS
<1>5. net'[p] = [net[p] EXCEPT !.held = FALSE, !.at = at]
  BY <1>3, <1>4
<1>6. net[p] \in NetRec /\ at \in Points
  BY <1>4 DEF NetInv, NetType, NetRec, Points
<1>7. PICK r \in NetRec : r = net[p]
  BY <1>6
<1>8. PICK after : after = [r EXCEPT !.held = FALSE, !.at = at]
  OBVIOUS
<1>9. /\ after \in NetRec /\ after.held = FALSE /\ after.at = at /\ after.alive = r.alive
      /\ after.addr = r.addr /\ after.slirp = r.slirp /\ after.sealed = r.sealed
  BY <1>6, <1>7, <1>8 DEF NetRec
<1>10. net'[p] = after
  BY <1>5, <1>7, <1>8
<1> QED BY <1>1, <1>2, <1>4, <1>7, <1>9, <1>10

LEMMA NetCrash == ASSUME NetInv, Crash PROVE NetInv'
<1>1. /\ net' = [p \in Proc |-> net'[p]] /\ serving' = [p \in Proc |-> serving'[p]]
      /\ nextAddr' \in Addr
  BY AddrFacts DEF Crash
<1>2. ASSUME NEW p \in Proc
      PROVE  /\ net'[p] \in NetRec /\ RouteOf(net'[p], serving'[p])
             /\ serving'[p] \in {"no", "tell", "done", "again", "lost"}
  <2>1. RouteOf(net[p], serving[p])
    BY DEF NetInv, Route
  <2>2. RouteOf(net'[p], serving'[p])
    BY <2>1, CrashLeaves DEF RouteOf, InLaunch
  <2> QED BY <2>2, CrashLeaves
<1> QED BY <1>1, <1>2 DEF NetInv, NetType, Route

LEMMA NetStep == ASSUME NetInv, [Next]_vars PROVE NetInv'
<1>1. ASSUME NEW p \in Proc, Launching(p) PROVE NetInv'
  BY <1>1, NetSteps DEF Launching, Beside
<1>2. ASSUME UNCHANGED <<net, serving, nextAddr>> PROVE NetInv'
  BY <1>2 DEF NetInv, NetType, Route, RouteOf
<1>3. ASSUME NEW i \in Id, NEW urls \in AllowURLs, UpdatePut(i, urls) PROVE NetInv'
  BY <1>3, <1>2 DEF UpdatePut
<1>4. ASSUME NEW i \in Id, UpdateTell(i) PROVE NetInv'
  BY <1>4, <1>2 DEF UpdateTell
<1>5. ASSUME NEW c \in Conn, NEW p \in Proc, Ask(p, c) PROVE NetInv'
  BY <1>5, <1>2 DEF Ask
<1>6. ASSUME NEW c \in Conn, Proceed(c) \/ Client(c) \/ Refuse(c) PROVE NetInv'
  BY <1>6, <1>2 DEF Proceed, Client, Refuse
<1>7. CASE UNCHANGED vars
  BY <1>7, <1>2 DEF vars
<1> QED BY <1>1, <1>3, <1>4, <1>5, <1>6, <1>7, NetLaunch, NetOwn, NetCrash DEF Next

THEOREM NetInvariant == Spec => []NetInv
  BY NetInit0, NetStep, PTL DEF Spec

(* A live sandbox is never left with a route that nft does not restrict, but in
   the window of its Launch, whatever fails in it, for any number of launches and
   restarts of murod. *)
THEOREM RoutesSealed == Spec => []NoOpenRoute
<1>1. NetInv => NoOpenRoute
  BY DEF NetInv, Route, RouteOf, NoOpenRoute
<1> QED BY <1>1, NetInvariant, PTL

(* A slirp4netns whose sandbox has ended has a goroutine that stops it. *)
THEOREM SlirpsStopped == Spec => []NoStraySlirp
<1>1. NetInv => NoStraySlirp
  BY DEF NetInv, NetType, Route, RouteOf, NoStraySlirp, InLaunch
<1> QED BY <1>1, NetInvariant, PTL

-----------------------------------------------------------------------------
(* Some process with address a was launched for k. *)
Owned(a, k, n, o) == \E q \in Proc : n[q].addr = a /\ o[q] = k

RecRec == [proc: Proc \cup {NoProc}, urls: AllowURLs]
TabInv ==
  /\ owner \in [Proc -> Id \cup {P!NoKey}]
  /\ rec \in [Id -> RecRec]
  /\ addrIndex \in [Addr -> Id \cup {P!NoKey}]
  /\ rules \in [Id -> {P!NoRules} \cup {P!Rules(u) : u \in AllowURLs}]
  /\ \A p \in Proc : /\ net[p].at = "unused" <=> owner[p] = P!NoKey
                     /\ net[p].at # "unused" => net[p].addr \in Addr
  /\ \A a \in Addr : addrIndex[a] # P!NoKey => Owned(a, addrIndex[a], net, owner)

ConnRec == [at: {"resolve", "check", "forward", "peek", "dial", "relay", "denied", "closed"},
            from: Addr, key: Id \cup {P!NoKey}, request: Request,
            hello: Hello \cup {P!NoHello}, got: Nat]
FromRec == [proc: Proc \cup {NoProc}, known: BOOLEAN]

(* A handler's locals r, of a connection behind which f stands. *)
Handler(r, f, n, o) ==
  /\ r \in ConnRec /\ f.proc \in Proc
  /\ r.from = n[f.proc].addr
  /\ r.key # P!NoKey => Owned(r.from, r.key, n, o)
  /\ r.at = "peek" => r.key # P!NoKey /\ r.request.method = "CONNECT"
ConnInv ==
  /\ DOMAIN conn = Conn /\ from \in [Conn -> FromRec]
  /\ \A c \in Conn : conn[c] = P!Free \/ Handler(conn[c], from[c], net, owner)

RulesInv == NetInv /\ TabInv /\ ConnInv

(* What no step but Launch does: give out addresses, begin or rename a launch. *)
Keeps(p) == /\ net'[p].addr = net[p].addr
            /\ net'[p].at = "unused" <=> net[p].at = "unused"
Quiet == owner' = owner /\ \A p \in Proc : Keeps(p)

LEMMA QuietLaunch ==
  ASSUME NetInv, NEW p \in Proc, LaunchStep(p)
  PROVE  \A q \in Proc : Keeps(q)
<1>0. /\ net \in [Proc -> NetRec] /\ net[p] \in NetRec
  BY DEF NetInv, NetType
<1> USE DEF At, Goto, Keeps, NetRec
<1>1. CASE FindInner(p)
  BY <1>0, <1>1 DEF FindInner
<1>2. CASE StartSlirp(p)
  BY <1>0, <1>2 DEF StartSlirp
<1>3. CASE SlirpFailed(p)
  BY <1>0, <1>3 DEF SlirpFailed
<1>4. CASE CheckTarget(p)
  BY <1>0, <1>4 DEF CheckTarget
<1>5. CASE Seal(p)
  BY <1>0, <1>5 DEF Seal
<1>6. CASE Unsealed(p)
  BY <1>0, <1>6 DEF Unsealed
<1>7. CASE Undo(p)
  BY <1>0, <1>7 DEF Undo
<1> QED BY <1>1, <1>2, <1>3, <1>4, <1>5, <1>6, <1>7 DEF LaunchStep

LEMMA QuietCrash == ASSUME NetInv, Crash PROVE Quiet
<1>1. \A p \in Proc : Keeps(p)
  BY CrashLeaves DEF Keeps, InLaunch
<1> QED BY <1>1 DEF Quiet, Crash

LEMMA QuietStep ==
  ASSUME NetInv, [Next]_vars, \A p \in Proc : ~Launch(p)
  PROVE  Quiet
<1>0. net \in [Proc -> NetRec]
  BY DEF NetInv, NetType
<1>1. ASSUME NEW p \in Proc, Launching(p) PROVE Quiet
  BY <1>1, QuietLaunch DEF Launching, Beside, Quiet
<1>2. ASSUME NEW p \in Proc, Put(p) \/ Tell(p) \/ Ends(p) \/ TearDown(p) \/ Reattach(p)
      PROVE  Quiet
  <2> USE DEF Quiet, Keeps, NetRec
  <2>1. CASE Put(p)
    BY <1>0, <2>1 DEF Put
  <2>2. CASE Tell(p)
    BY <2>2 DEF Tell
  <2>3. CASE Ends(p)
    BY <1>0, <2>3 DEF Ends, Exit, Beside
  <2>4. CASE TearDown(p)
    BY <1>0, <2>4 DEF TearDown, Wait, Beside
  <2>5. CASE Reattach(p)
    BY <1>0, <2>5 DEF Reattach
  <2> QED BY <1>2, <2>1, <2>2, <2>3, <2>4, <2>5
<1>3. ASSUME net' = net, owner' = owner PROVE Quiet
  BY <1>3 DEF Quiet, Keeps
<1>4. ASSUME NEW i \in Id, NEW urls \in AllowURLs, UpdatePut(i, urls) \/ UpdateTell(i)
      PROVE  Quiet
  BY <1>3, <1>4 DEF UpdatePut, UpdateTell
<1>5. ASSUME NEW c \in Conn, NEW p \in Proc, Ask(p, c) PROVE Quiet
  BY <1>3, <1>5 DEF Ask
<1>6. ASSUME NEW c \in Conn, Proceed(c) \/ Client(c) \/ Refuse(c) PROVE Quiet
  BY <1>3, <1>6 DEF Proceed, Client, Refuse
<1>7. ASSUME NEW i \in Id, UpdateTell(i) PROVE Quiet
  BY <1>3, <1>7 DEF UpdateTell
<1>8. CASE UNCHANGED vars
  BY <1>3, <1>8 DEF vars
<1> QED BY <1>1, <1>2, <1>4, <1>5, <1>6, <1>7, <1>8, QuietCrash DEF Next

(* What was launched stays what it is. *)
Stays == \A p \in Proc : net[p].at # "unused" =>
           net'[p].addr = net[p].addr /\ owner'[p] = owner[p]

LEMMA StaysStep == ASSUME NetInv, [Next]_vars PROVE Stays
<1>1. ASSUME NEW p \in Proc, Launch(p) PROVE Stays
  <2>1. PICK i \in Id : owner' = [owner EXCEPT ![p] = i]
    BY <1>1 DEF Launch
  <2>2. net[p].at = "unused" /\ net' = [net EXCEPT ![p].alive = TRUE, ![p].addr = nextAddr,
                                                    ![p].at = "find"]
    BY <1>1 DEF Launch, Started
  <2> QED BY <2>1, <2>2 DEF Stays, NetInv, NetType
<1>2. CASE Quiet
  BY <1>2 DEF Quiet, Keeps, Stays
<1> QED BY <1>1, <1>2, QuietStep

LEMMA OwnedStays ==
  ASSUME NetInv, TabInv, Stays, NEW a \in Addr, NEW k \in Id, Owned(a, k, net, owner)
  PROVE  Owned(a, k, net', owner')
<1>1. PICK q \in Proc : net[q].addr = a /\ owner[q] = k
  BY DEF Owned
<1>2. net[q].at # "unused"
  BY <1>1, AddrFacts DEF NetInv, Route, RouteOf
<1> QED BY <1>1, <1>2 DEF Stays, Owned

LEMMA RulesInit == Init => RulesInv
<1> SUFFICES ASSUME Init PROVE RulesInv
  OBVIOUS
<1>1. TabInv
  <2>1. rec \in [Id -> RecRec]
    BY EgressAssumption DEF Init, RecRec
  <2>2. owner \in [Proc -> Id \cup {P!NoKey}] /\ \A p \in Proc : owner[p] = P!NoKey
    BY DEF Init
  <2>3. addrIndex = [a \in Addr |-> P!NoKey] /\ rules = [i \in Id |-> P!NoRules]
    BY DEF Init, P!ProxyInit
  <2>4. \A p \in Proc : net[p].at = "unused"
    BY DEF Init, NetInit, Unused
  <2> QED BY <2>1, <2>2, <2>3, <2>4 DEF TabInv
<1>2. ConnInv
  BY DEF Init, P!ProxyInit, ConnInv, FromRec, Nobody
<1> QED BY <1>1, <1>2, NetInit0 DEF RulesInv

(* What a step does to the tables' entries: each is left alone or set to a list
   some id has had; an address leads where it did or to its owner. *)
TableStep ==
  /\ rec' \in [Id -> RecRec]
  /\ rules' \in [Id -> {P!NoRules} \cup {P!Rules(u) : u \in AllowURLs}]
  /\ addrIndex' \in [Addr -> Id \cup {P!NoKey}]
  /\ \A a \in Addr : \/ addrIndex'[a] = P!NoKey
                     \/ addrIndex'[a] = addrIndex[a]
                     \/ Owned(a, addrIndex'[a], net, owner)

LEMMA TabFromStep == ASSUME NetInv, TabInv, Stays, TableStep,
                            Quiet \/ \E p \in Proc : Launch(p)
                     PROVE  TabInv'
<1>1. \A a \in Addr : addrIndex'[a] # P!NoKey => Owned(a, addrIndex'[a], net', owner')
  <2> SUFFICES ASSUME NEW a \in Addr, addrIndex'[a] # P!NoKey
               PROVE  Owned(a, addrIndex'[a], net', owner')
    OBVIOUS
  <2>1. addrIndex'[a] \in Id
    BY DEF TableStep
  <2>2. Owned(a, addrIndex'[a], net, owner)
    BY DEF TableStep, TabInv
  <2> QED BY <2>1, <2>2, OwnedStays
<1>2. CASE Quiet
  BY <1>1, <1>2 DEF Quiet, Keeps, TabInv, TableStep
<1>3. ASSUME NEW p \in Proc, Launch(p) PROVE TabInv'
  <2>1. PICK i \in Id : owner' = [owner EXCEPT ![p] = i]
    BY <1>3 DEF Launch
  <2>2. /\ net' = [net EXCEPT ![p].alive = TRUE, ![p].addr = nextAddr, ![p].at = "find"]
        /\ net[p] \in NetRec /\ nextAddr \in Addr /\ net \in [Proc -> NetRec]
    BY <1>3 DEF Launch, Started, NetInv, NetType
  <2>3. i # P!NoKey
    BY EgressAssumption DEF P!NoKey
  <2>4. \A q \in Proc : /\ net'[q].at = "unused" <=> owner'[q] = P!NoKey
                        /\ net'[q].at # "unused" => net'[q].addr \in Addr
    <3> SUFFICES ASSUME NEW q \in Proc
                 PROVE  /\ net'[q].at = "unused" <=> owner'[q] = P!NoKey
                        /\ net'[q].at # "unused" => net'[q].addr \in Addr
      OBVIOUS
    <3>1. CASE q = p
      BY <3>1, <2>1, <2>2, <2>3 DEF TabInv, NetRec
    <3>2. CASE q # p
      BY <3>2, <2>1, <2>2 DEF TabInv
    <3> QED BY <3>1, <3>2
  <2>5. owner' \in [Proc -> Id \cup {P!NoKey}]
    BY <2>1 DEF TabInv
  <2> QED BY <1>1, <2>4, <2>5 DEF TabInv, TableStep
<1> QED BY <1>2, <1>3

LEMMA TellTables ==
  ASSUME TabInv, NEW i \in Id, P!SetAllowlist(i, rec[i].urls)
  PROVE  rules' \in [Id -> {P!NoRules} \cup {P!Rules(u) : u \in AllowURLs}]
<1>1. rec[i].urls \in AllowURLs
  BY DEF TabInv, RecRec
<1>2. P!Rules(rec[i].urls) \in {P!Rules(u) : u \in AllowURLs}
  BY <1>1
<1>3. rules' = [rules EXCEPT ![i] = P!Rules(rec[i].urls)]
  BY DEF P!SetAllowlist
<1> QED BY <1>2, <1>3 DEF TabInv

LEMMA CrashTables == ASSUME TabInv, Crash PROVE TableStep
  BY DEF Crash, TableStep, TabInv

(* A process is announced to the proxy: by Tell, or when it is taken up again. *)
Announced(p) == /\ P!SetAllowlist(owner[p], rec[owner[p]].urls)
                /\ P!RegisterSandboxAddr(owner[p], net[p].addr)

LEMMA TableAnnounced ==
  ASSUME NetInv, TabInv, NEW p \in Proc, serving[p] # "no", Announced(p), UNCHANGED rec
  PROVE  TableStep
<1>1. owner[p] \in Id /\ net[p].addr \in Addr
  BY DEF NetInv, Route, RouteOf, TabInv
<1>2. rules' \in [Id -> {P!NoRules} \cup {P!Rules(u) : u \in AllowURLs}]
  BY <1>1, TellTables DEF Announced
<1>3. addrIndex' = [addrIndex EXCEPT ![net[p].addr] = owner[p]]
  BY DEF Announced, P!RegisterSandboxAddr
<1>4. Owned(net[p].addr, owner[p], net, owner)
  BY DEF Owned
<1> QED BY <1>1, <1>2, <1>3, <1>4 DEF TableStep, TabInv

LEMMA TablesStep == ASSUME NetInv, TabInv, [Next]_vars PROVE TableStep
<1>0. /\ rec \in [Id -> RecRec]
      /\ rules \in [Id -> {P!NoRules} \cup {P!Rules(u) : u \in AllowURLs}]
      /\ addrIndex \in [Addr -> Id \cup {P!NoKey}]
  BY DEF TabInv
<1>1. ASSUME UNCHANGED <<rules, addrIndex, rec>> PROVE TableStep
  BY <1>0, <1>1 DEF TableStep
<1>2. ASSUME NEW p \in Proc, Put(p) PROVE TableStep
  <2>1. rec' = [rec EXCEPT ![owner[p]].proc = p] /\ UNCHANGED <<rules, addrIndex>>
    BY <1>2 DEF Put
  <2>2. rec' \in [Id -> RecRec]
    BY <1>0, <2>1 DEF RecRec
  <2> QED BY <1>0, <2>1, <2>2 DEF TableStep
<1>3. ASSUME NEW p \in Proc, Tell(p) PROVE TableStep
  BY <1>3, TableAnnounced DEF Tell, Announced
<1>10. ASSUME NEW p \in Proc, Reattach(p) PROVE TableStep
  BY <1>1, <1>10, TableAnnounced DEF Reattach, Announced
<1>4. ASSUME NEW i \in Id, NEW urls \in AllowURLs, UpdatePut(i, urls) PROVE TableStep
  <2>1. rec' = [rec EXCEPT ![i].urls = urls] /\ UNCHANGED <<rules, addrIndex>>
    BY <1>4 DEF UpdatePut
  <2>2. rec' \in [Id -> RecRec]
    BY <1>0, <2>1 DEF RecRec
  <2> QED BY <1>0, <2>1, <2>2 DEF TableStep
<1>5. ASSUME NEW i \in Id, UpdateTell(i) PROVE TableStep
  <2>1. rules' \in [Id -> {P!NoRules} \cup {P!Rules(u) : u \in AllowURLs}]
    BY <1>5, TellTables DEF UpdateTell
  <2>2. UNCHANGED <<addrIndex, rec>>
    BY <1>5 DEF UpdateTell
  <2> QED BY <1>0, <2>1, <2>2 DEF TableStep
<1>6. ASSUME NEW p \in Proc, Launch(p) \/ Launching(p) \/ Ends(p) \/ TearDown(p)
      PROVE  TableStep
  BY <1>1, <1>6 DEF Launch, Launching, Ends, TearDown, Beside
<1>7. ASSUME NEW c \in Conn, NEW p \in Proc, Ask(p, c) PROVE TableStep
  BY <1>1, <1>7 DEF Ask, P!Arrive, P!Tables
<1>8. ASSUME NEW c \in Conn, Proceed(c) \/ Client(c) \/ Refuse(c) PROVE TableStep
  BY <1>1, <1>8 DEF Proceed, Client, Refuse, P!Resolve, P!Admit, P!PeekTimeout, P!Dial,
                    P!Peek, P!HangUp, P!Finish, P!Deny, P!PeekDeny, P!Tables
<1>9. CASE UNCHANGED vars
  BY <1>1, <1>9 DEF vars
<1> QED BY <1>2, <1>3, <1>4, <1>5, <1>6, <1>7, <1>8, <1>9, <1>10, CrashTables DEF Next

LEMMA TabStep == ASSUME NetInv, TabInv, [Next]_vars PROVE TabInv'
  BY TablesStep, StaysStep, QuietStep, TabFromStep

LEMMA HandlerStays ==
  ASSUME NetInv, TabInv, Stays, NEW c \in Conn, Handler(conn[c], from[c], net, owner)
  PROVE  Handler(conn[c], from[c], net', owner')
<1> DEFINE r == conn[c]
           f == from[c]
<1>1. /\ r \in ConnRec /\ f.proc \in Proc /\ r.from = net[f.proc].addr
      /\ r.from \in Addr /\ r.key \in Id \cup {P!NoKey}
  BY DEF Handler, ConnRec
<1>2. net[f.proc].at # "unused"
  BY <1>1, AddrFacts DEF NetInv, Route, RouteOf
<1>3. r.from = net'[f.proc].addr
  BY <1>1, <1>2 DEF Stays
<1>4. r.key # P!NoKey => Owned(r.from, r.key, net', owner')
  BY <1>1, OwnedStays DEF Handler
<1>5. r.at = "peek" => r.key # P!NoKey /\ r.request.method = "CONNECT"
  BY DEF Handler
<1> QED BY <1>1, <1>3, <1>4, <1>5 DEF Handler

LEMMA ConnSame ==
  ASSUME NetInv, TabInv, ConnInv, Stays, UNCHANGED <<conn, from>>
  PROVE  ConnInv'
<1>1. \A c \in Conn : Handler(conn[c], from[c], net, owner)
                        => Handler(conn[c], from[c], net', owner')
  BY HandlerStays
<1> QED BY <1>1 DEF ConnInv

LEMMA ConnOne ==
  ASSUME ConnInv, NEW c \in Conn, NEW r, NEW f \in FromRec,
         UNCHANGED <<net, owner>>,
         conn' = [conn EXCEPT ![c] = r], from' = [from EXCEPT ![c] = f],
         r = P!Free \/ Handler(r, f, net, owner)
  PROVE  ConnInv'
<1>1. DOMAIN conn' = Conn /\ from' \in [Conn -> FromRec]
  BY DEF ConnInv
<1>2. ASSUME NEW d \in Conn
      PROVE  conn'[d] = P!Free \/ Handler(conn'[d], from'[d], net', owner')
  <2>1. CASE d = c
    <3>1. conn'[d] = r /\ from'[d] = f
      BY <2>1 DEF ConnInv
    <3> QED BY <3>1
  <2>2. CASE d # c
    <3>1. conn'[d] = conn[d] /\ from'[d] = from[d]
      BY <2>2 DEF ConnInv
    <3> QED BY <3>1 DEF ConnInv
  <2> QED BY <2>1, <2>2
<1> QED BY <1>1, <1>2 DEF ConnInv

(* A handler of its own accord goes from one point to another. *)
LEMMA ConnGoes ==
  ASSUME ConnInv, NEW c \in Conn, conn[c].at # "idle", NEW key \in Id \cup {P!NoKey},
         NEW got \in Nat,
         NEW at \in {"resolve", "check", "forward", "peek", "dial", "relay", "denied", "closed"},
         conn' = [conn EXCEPT ![c] = [conn[c] EXCEPT !.key = key, !.at = at, !.got = got]],
         key # P!NoKey => Owned(conn[c].from, key, net, owner),
         at = "peek" => key # P!NoKey /\ conn[c].request.method = "CONNECT",
         UNCHANGED <<net, owner, from>>
  PROVE  ConnInv'
<1> DEFINE r == [conn[c] EXCEPT !.key = key, !.at = at, !.got = got]
<1>1. Handler(conn[c], from[c], net, owner) /\ from[c] \in FromRec
      /\ from' = [from EXCEPT ![c] = from[c]]
  BY DEF ConnInv, P!Free
<1>2. r \in ConnRec /\ r.from = conn[c].from /\ r.key = key /\ r.at = at
      /\ r.request = conn[c].request
  BY <1>1 DEF Handler, ConnRec
<1> HIDE DEF r
<1>3. Handler(r, from[c], net, owner)
  BY <1>1, <1>2 DEF Handler
<1>4. conn' = [conn EXCEPT ![c] = r]
  BY DEF r
<1> QED BY <1>1, <1>3, <1>4, ConnOne

LEMMA ConnMoves ==
  ASSUME NetInv, TabInv, ConnInv, NEW c \in Conn, Proceed(c) \/ Client(c) \/ Refuse(c)
  PROVE  ConnInv'
<1> DEFINE Points8 == {"resolve", "check", "forward", "peek", "dial", "relay", "denied", "closed"}
<1>0. UNCHANGED <<net, owner>>
  BY DEF Proceed, Client, Refuse
<1>1. CASE P!Finish(c) /\ from' = [from EXCEPT ![c] = Nobody]
  <2>1. conn' = [conn EXCEPT ![c] = P!Free] /\ Nobody \in FromRec
    BY <1>1 DEF P!Finish, P!Become, FromRec, Nobody
  <2> QED BY <1>0, <1>1, <2>1, ConnOne
<1>2. ASSUME NEW at \in Points8, UNCHANGED from, P!Goto(c, at), conn[c].at # "idle",
             at = "peek" => conn[c].key # P!NoKey /\ conn[c].request.method = "CONNECT"
      PROVE  ConnInv'
  <2>1. Handler(conn[c], from[c], net, owner)
    BY <1>2 DEF ConnInv, P!Free
  <2>2. conn[c] = [conn[c] EXCEPT !.key = conn[c].key, !.got = conn[c].got]
        /\ conn[c].key \in Id \cup {P!NoKey} /\ conn[c].got \in Nat
    BY <2>1 DEF Handler, ConnRec
  <2>3. [conn[c] EXCEPT !.at = at]
          = [conn[c] EXCEPT !.key = conn[c].key, !.at = at, !.got = conn[c].got]
    BY <2>1 DEF Handler, ConnRec
  <2>4. conn' = [conn EXCEPT ![c] = [conn[c] EXCEPT !.key = conn[c].key, !.at = at,
                                                    !.got = conn[c].got]]
    BY <1>2, <2>3 DEF P!Goto, P!Become
  <2>5. conn[c].key # P!NoKey => Owned(conn[c].from, conn[c].key, net, owner)
    BY <2>1 DEF Handler
  <2> QED BY <1>0, <1>2, <2>2, <2>4, <2>5, ConnGoes
<1>3. CASE P!Resolve(c) /\ UNCHANGED from
  <2>1. Handler(conn[c], from[c], net, owner) /\ conn[c].at = "resolve"
    BY <1>3 DEF ConnInv, P!Free, P!Resolve
  <2> DEFINE key == addrIndex[conn[c].from]
  <2>2. /\ conn[c] \in ConnRec /\ conn[c].from \in Addr /\ conn[c].got \in Nat
    BY <2>1 DEF Handler, ConnRec
  <2>3. key \in Id \cup {P!NoKey} /\ (key # P!NoKey => Owned(conn[c].from, key, net, owner))
    BY <2>2 DEF TabInv
  <2>4. conn' = [conn EXCEPT ![c] = [conn[c] EXCEPT !.key = key, !.at = "check",
                                                    !.got = conn[c].got]]
    <3>1. conn' = [conn EXCEPT ![c] = [conn[c] EXCEPT !.key = key, !.at = "check"]]
      BY <1>3 DEF P!Resolve, P!Become
    <3>2. [conn[c] EXCEPT !.key = key, !.at = "check"]
            = [conn[c] EXCEPT !.key = key, !.at = "check", !.got = conn[c].got]
      BY <2>2 DEF ConnRec
    <3> QED BY <3>1, <3>2
  <2> HIDE DEF key
  <2> QED BY <1>0, <1>3, <2>1, <2>2, <2>3, <2>4, ConnGoes
<1>4. CASE P!Admit(c) /\ UNCHANGED from
  <2>1. conn[c].key # P!NoKey /\ conn[c].at = "check"
    BY <1>4 DEF P!Admit, P!Allows
  <2>2. CASE conn[c].request.method = "CONNECT"
    BY <1>2, <1>4, <2>1, <2>2 DEF P!Admit
  <2>3. CASE conn[c].request.method # "CONNECT"
    BY <1>2, <1>4, <2>1, <2>3 DEF P!Admit
  <2> QED BY <2>2, <2>3
<1>5. CASE (P!Deny(c) \/ P!HangUp(c) \/ P!PeekTimeout(c) \/ P!Dial(c)) /\ UNCHANGED from
  BY <1>2, <1>5 DEF P!Deny, P!HangUp, P!PeekTimeout, P!Dial
<1>6. CASE (P!Peek(c) \/ P!PeekDeny(c)) /\ UNCHANGED from
  <2>0. conn[c].at = "peek"
    BY <1>6 DEF P!Peek, P!PeekDeny
  <2>1. Handler(conn[c], from[c], net, owner) /\ conn[c].at = "peek"
    BY <2>0 DEF ConnInv, P!Free
  <2>2. /\ conn[c] \in ConnRec /\ conn[c].key \in Id \cup {P!NoKey} /\ conn[c].got + 1 \in Nat
        /\ conn[c].key # P!NoKey /\ conn[c].request.method = "CONNECT"
        /\ Owned(conn[c].from, conn[c].key, net, owner)
    BY <2>1 DEF Handler, ConnRec
  <2>3. PICK at \in Points8 :
          conn' = [conn EXCEPT ![c] = [conn[c] EXCEPT !.got = conn[c].got + 1, !.at = at]]
    BY <1>6 DEF P!Peek, P!PeekDeny, P!Become
  <2>4. [conn[c] EXCEPT !.got = conn[c].got + 1, !.at = at]
          = [conn[c] EXCEPT !.key = conn[c].key, !.at = at, !.got = conn[c].got + 1]
    BY <2>2 DEF ConnRec
  <2>5. conn' = [conn EXCEPT ![c] = [conn[c] EXCEPT !.key = conn[c].key, !.at = at,
                                                    !.got = conn[c].got + 1]]
    BY <2>3, <2>4
  <2> QED BY <1>0, <1>6, <2>1, <2>2, <2>5, ConnGoes
<1> QED BY <1>1, <1>3, <1>4, <1>5, <1>6 DEF Proceed, Client, Refuse

LEMMA ConnAsked ==
  ASSUME NetInv, TabInv, ConnInv, NEW c \in Conn, NEW p \in Proc, Ask(p, c)
  PROVE  ConnInv'
<1>1. PICK request \in Request, hello \in Hello \cup {P!NoHello} :
        P!Arrive(c, net[p].addr, request, hello)
  BY DEF Ask
<1> DEFINE r == [at |-> "resolve", from |-> net[p].addr, key |-> P!NoKey,
                 request |-> request, hello |-> hello, got |-> 0]
           f == [proc |-> p, known |-> serving[p] = "done"]
<1>2. /\ conn' = [conn EXCEPT ![c] = r] /\ from' = [from EXCEPT ![c] = f]
      /\ UNCHANGED <<net, owner>>
  BY <1>1 DEF Ask, P!Arrive, P!Become
<1>3. net[p].addr \in Addr
  BY DEF Ask, NetInv, Route, RouteOf, TabInv
<1>4. Handler(r, f, net, owner)
  BY <1>3 DEF Handler, ConnRec
<1>5. f \in FromRec
  BY DEF FromRec
<1> HIDE DEF r, f
<1> QED BY <1>2, <1>4, <1>5, ConnOne

LEMMA ConnStep == ASSUME RulesInv, [Next]_vars PROVE ConnInv'
<1> USE DEF RulesInv
<1>0. Stays
  BY StaysStep
<1>1. ASSUME NEW p \in Proc,
             \/ Launch(p) \/ Launching(p) \/ Put(p) \/ Tell(p)
             \/ Ends(p) \/ TearDown(p) \/ Reattach(p)
      PROVE  ConnInv'
  BY <1>0, <1>1, ConnSame DEF Launch, Launching, Put, Tell, Ends, TearDown, Reattach, Beside
<1>2. ASSUME NEW i \in Id, (\E urls \in AllowURLs : UpdatePut(i, urls)) \/ UpdateTell(i)
      PROVE  ConnInv'
  BY <1>0, <1>2, ConnSame DEF UpdatePut, UpdateTell
<1>3. CASE Crash
  BY <1>3 DEF Crash, ConnInv, FromRec, Nobody
<1>4. CASE UNCHANGED vars
  BY <1>0, <1>4, ConnSame DEF vars
<1>5. ASSUME NEW c \in Conn, Proceed(c) \/ Client(c) \/ Refuse(c) PROVE ConnInv'
  BY <1>5, ConnMoves
<1>6. ASSUME NEW c \in Conn, NEW p \in Proc, Ask(p, c) PROVE ConnInv'
  BY <1>6, ConnAsked
<1> QED BY <1>1, <1>2, <1>3, <1>4, <1>5, <1>6 DEF Next

THEOREM RulesInvariant == Spec => []RulesInv
<1>1. RulesInv /\ [Next]_vars => RulesInv'
  BY NetStep, TabStep, ConnStep DEF RulesInv
<1> QED BY RulesInit, <1>1, PTL DEF Spec

(* What the parsed rules let pass is what the entries stand for. *)
LEMMA HostMeans ==
  ASSUME NEW e \in Url, NEW host, Lower[host] # Lower[""], NEW port
  PROVE  /\ P!Parses(e)
         /\ P!parseRule(e).host = Lower[host]
         /\ P!PortMatches(P!parseRule(e), port)
         <=> MeansHost(e, host, port)
<1>1. P!PortMatches(P!parseRule(e), port) <=> MeansPort(e, port)
  <2>1. P!parseRule(e).port = IF e.port = "" THEN P!defaultPort(e.scheme) ELSE e.port
    BY DEF P!parseRule
  <2>2. P!defaultPort(e.scheme) = IF e.scheme = "https" THEN "443"
                                  ELSE IF e.scheme = "http" THEN "80" ELSE ""
    BY DEF P!defaultPort
  <2> QED BY <2>1, <2>2 DEF P!PortMatches, MeansPort
<1>2. P!parseRule(e).host = Lower[e.host]
  BY DEF P!parseRule
<1>3. /\ P!parseRule(e).host = Lower[host] => e.host # ""
      /\ e.host # "" => P!Parses(e)
  BY <1>2 DEF P!Parses
<1> QED BY <1>1, <1>2, <1>3 DEF MeansHost

LEMMA PathMeans ==
  ASSUME NEW path \in Seq(STRING), NEW prefix \in Seq(STRING)
  PROVE  P!IsPrefix(prefix, path) <=> Below(path, prefix)
<1>1. SubSeq(prefix, 1, Len(prefix)) = prefix
  OBVIOUS
<1>2. \A rest \in 0..Len(path) : Len(SubSeq(path, 1, rest)) = rest
  OBVIOUS
<1>3. Len(prefix) \in Nat /\ Len(path) \in Nat
  OBVIOUS
<1>4. P!IsPrefix(prefix, path)
        <=> Len(prefix) <= Len(path) /\ prefix = SubSeq(path, 1, Len(prefix))
  BY <1>1 DEF P!IsPrefix
<1>5. ASSUME P!IsPrefix(prefix, path) PROVE Below(path, prefix)
  <2>1. Len(prefix) \in 0..Len(path)
    BY <1>3, <1>4, <1>5
  <2> QED BY <1>4, <1>5, <2>1 DEF Below
<1>6. ASSUME Below(path, prefix) PROVE P!IsPrefix(prefix, path)
  <2>1. PICK rest \in 0..Len(path) : SubSeq(path, 1, rest) = prefix
    BY <1>6 DEF Below
  <2>2. rest = Len(prefix) /\ rest <= Len(path)
    BY <1>2, <1>3, <2>1
  <2> QED BY <1>4, <2>1, <2>2
<1> QED BY <1>5, <1>6

LEMMA HostAllowed ==
  ASSUME NEW u \in AllowURLs, NEW host, Lower[host] # Lower[""], NEW port
  PROVE  P!AllowsHost(P!Rules(u), host, port)
           <=> \E e \in u : MeansHost(e, host, IF port = "" THEN "443" ELSE port)
<1>1. u \subseteq Url
  BY EgressAssumption
<1> DEFINE asked == IF port = "" THEN "443" ELSE port
<1> HIDE DEF asked
<1>2. P!AllowsHost(P!Rules(u), host, port)
        <=> \E e \in u : /\ P!Parses(e) /\ P!parseRule(e).host = Lower[host]
                         /\ P!PortMatches(P!parseRule(e), asked)
  BY DEF P!AllowsHost, P!Rules, asked
<1>3. \A e \in u : /\ P!Parses(e) /\ P!parseRule(e).host = Lower[host]
                   /\ P!PortMatches(P!parseRule(e), asked)
                   <=> MeansHost(e, host, asked)
  BY <1>1, HostMeans
<1>4. P!AllowsHost(P!Rules(u), host, port) <=> \E e \in u : MeansHost(e, host, asked)
  BY <1>2, <1>3
<1> QED BY <1>4 DEF asked

LEMMA RequestAllowed ==
  ASSUME NEW u \in AllowURLs, NEW request \in Request
  PROVE  (IF request.method = "CONNECT"
          THEN P!AllowsHost(P!Rules(u), request.host, request.port)
          ELSE P!AllowsHTTP(P!Rules(u), request))
           <=> \E e \in u : Means(e, request)
<1>0. u \subseteq Url /\ request.path \in Seq(STRING)
  BY EgressAssumption
<1>3. Lower[request.host] # Lower[""]
  BY EgressAssumption
<1> DEFINE port == PortAsked(request)
<1>1. CASE request.method = "CONNECT"
  <2>1. port = IF request.port = "" THEN "443" ELSE request.port
    BY <1>1 DEF PortAsked
  <2> QED BY <1>1, <1>3, <2>1, HostAllowed DEF Means
<1>2. CASE request.method # "CONNECT"
  <2> DEFINE named == IF request.port = "" THEN P!defaultPort(request.scheme)
                                           ELSE request.port
             asked == IF named = "" THEN "80" ELSE named
  <2>1. P!defaultPort(request.scheme) = IF request.scheme = "https" THEN "443"
                                        ELSE IF request.scheme = "http" THEN "80" ELSE ""
    BY DEF P!defaultPort
  <2>2. asked = port
    BY <1>2, <2>1 DEF PortAsked
  <2> HIDE DEF asked, port
  <2>3. P!AllowsHTTP(P!Rules(u), request)
          <=> \E rule \in P!Rules(u) :
                /\ rule.scheme \in {"", request.scheme} /\ rule.host = Lower[request.host]
                /\ P!PortMatches(rule, asked) /\ P!IsPrefix(rule.path, request.path)
    BY <1>3 DEF P!AllowsHTTP, asked
  <2>4. P!AllowsHTTP(P!Rules(u), request)
          <=> \E e \in u :
                /\ P!Parses(e) /\ P!parseRule(e).host = Lower[request.host]
                /\ P!PortMatches(P!parseRule(e), port)
                /\ P!parseRule(e).scheme \in {"", request.scheme}
                /\ P!IsPrefix(P!parseRule(e).path, request.path)
    BY <2>2, <2>3 DEF P!Rules
  <2>5. ASSUME NEW e \in u
        PROVE  /\ P!parseRule(e).scheme \in {"", request.scheme}
               /\ P!IsPrefix(P!parseRule(e).path, request.path)
               <=> \/ e.scheme = ""
                   \/ e.scheme = request.scheme /\ Below(request.path, e.path)
    <3>1. /\ e.path \in Seq(STRING)
          /\ P!parseRule(e).scheme = e.scheme
          /\ P!parseRule(e).path = IF e.scheme = "" THEN <<>> ELSE e.path
      BY <1>0 DEF Url, P!parseRule
    <3>2. P!IsPrefix(<<>>, request.path)
      <4>1. SubSeq(request.path, 1, 0) = <<>> /\ SubSeq(<<>>, 1, 0) = <<>>
        BY <1>0
      <4> QED BY <1>0, <4>1 DEF P!IsPrefix
    <3> QED BY <1>0, <3>1, <3>2, PathMeans
  <2>6. \A e \in u : /\ P!Parses(e) /\ P!parseRule(e).host = Lower[request.host]
                     /\ P!PortMatches(P!parseRule(e), port)
                     <=> MeansHost(e, request.host, port)
    BY <1>0, <1>3, HostMeans
  <2> QED BY <1>2, <2>4, <2>5, <2>6 DEF Means, port
<1> QED BY <1>1, <1>2

LEMMA Handled ==
  ASSUME ConnInv, NEW c \in Conn, conn[c].at # "idle"
  PROVE  Handler(conn[c], from[c], net, owner)
  BY DEF ConnInv, P!Free

(* Which steps touch connection c. *)
LEMMA ConnTouched ==
  ASSUME ConnInv, [Next]_vars, ~Crash, NEW c \in Conn
  PROVE  \/ conn'[c] = conn[c] /\ from'[c] = from[c]
         \/ \E p \in Proc : Ask(p, c)
         \/ Proceed(c) \/ Client(c) \/ Refuse(c)
<1>1. CASE UNCHANGED <<conn, from>>
  BY <1>1
<1>2. ASSUME NEW d \in Conn, d # c,
             (\E p \in Proc : Ask(p, d)) \/ Proceed(d) \/ Client(d) \/ Refuse(d)
      PROVE  conn'[c] = conn[c] /\ from'[c] = from[c]
  <2>1. DOMAIN conn = Conn /\ DOMAIN from = Conn
    BY DEF ConnInv
  <2>2. CASE \E p \in Proc : Ask(p, d)
    BY <1>2, <2>1, <2>2 DEF Ask, P!Arrive, P!Become
  <2>3. CASE Proceed(d) \/ Refuse(d)
    BY <1>2, <2>1, <2>3 DEF Proceed, Refuse, P!Resolve, P!Admit, P!PeekTimeout, P!Dial,
                            P!Deny, P!PeekDeny, P!Goto, P!Become
  <2>4. CASE Client(d)
    BY <1>2, <2>1, <2>4 DEF Client, P!Peek, P!HangUp, P!Finish, P!Goto, P!Become
  <2> QED BY <1>2, <2>2, <2>3, <2>4
<1> QED BY <1>1, <1>2 DEF Next, Launch, Launching, Put, Tell, Ends, TearDown, Reattach,
                          Beside, UpdatePut, UpdateTell, vars

(* The only steps by which a handler lets something pass. *)
LEMMA Admitted ==
  ASSUME ConnInv, [Next]_vars, NEW c \in Conn, conn[c].at = "check",
         conn'[c].at \notin {"check", "idle"}
  PROVE  \/ conn'[c].at = "denied" /\ P!Deny(c)
         \/ conn'[c].at \in {"peek", "forward"} /\ P!Admit(c)
<1>1. conn'[c] # conn[c]
  OBVIOUS
<1>2. ASSUME Crash PROVE FALSE
  <2>1. conn'[c] = P!Free
    BY <1>2 DEF Crash
  <2> QED BY <2>1 DEF P!Free
<1>3. (\E p \in Proc : Ask(p, c)) \/ Proceed(c) \/ Client(c) \/ Refuse(c)
  BY <1>1, <1>2, ConnTouched
<1>5. P!Admit(c) \/ P!Deny(c)
  BY <1>3 DEF Ask, Proceed, Client, Refuse, P!Arrive, P!Resolve, P!PeekTimeout,
                    P!Dial, P!Peek, P!HangUp, P!Finish, P!PeekDeny
<1>6. \A x : P!Goto(c, x) => conn'[c].at = x
  <2>1. conn[c] \in ConnRec
    BY DEF ConnInv, P!Free, Handler
  <2> QED BY <2>1 DEF P!Goto, P!Become, ConnInv, ConnRec
<1>7. CASE P!Admit(c)
  <2>1. P!Goto(c, "peek") \/ P!Goto(c, "forward")
    BY <1>7 DEF P!Admit
  <2> QED BY <1>6, <1>7, <2>1
<1>8. CASE P!Deny(c)
  <2>1. P!Goto(c, "denied")
    BY <1>8 DEF P!Deny
  <2> QED BY <1>6, <1>8, <2>1
<1> QED BY <1>5, <1>7, <1>8

LEMMA Peeked ==
  ASSUME ConnInv, [Next]_vars, NEW c \in Conn, conn[c].at = "peek",
         conn'[c].at = "dial", conn'[c].got > conn[c].got
  PROVE  P!Peek(c) /\ conn'[c].got = conn[c].got + 1
<1>1. conn'[c] # conn[c]
  OBVIOUS
<1>2. ASSUME Crash PROVE FALSE
  <2>1. conn'[c] = P!Free
    BY <1>2 DEF Crash
  <2> QED BY <2>1 DEF P!Free
<1>3. (\E p \in Proc : Ask(p, c)) \/ Proceed(c) \/ Client(c) \/ Refuse(c)
  BY <1>1, <1>2, ConnTouched
<1>5. P!Peek(c) \/ P!PeekDeny(c) \/ P!PeekTimeout(c) \/ P!HangUp(c)
  BY <1>3 DEF Ask, Proceed, Client, Refuse, P!Arrive, P!Resolve, P!Admit,
                    P!Dial, P!Finish, P!Deny
<1>6. conn[c] \in ConnRec /\ conn[c].got \in Nat
  BY DEF ConnInv, P!Free, Handler, ConnRec
<1>7. ASSUME NEW x, P!Goto(c, x) PROVE FALSE
  <2>1. conn'[c].got = conn[c].got
    BY <1>6, <1>7 DEF P!Goto, P!Become, ConnInv, ConnRec
  <2> QED BY <1>6, <2>1
<1>8. ASSUME P!PeekDeny(c) PROVE FALSE
  <2>1. conn'[c].at = "denied"
    BY <1>6, <1>8 DEF P!PeekDeny, P!Become, ConnInv, ConnRec
  <2> QED BY <2>1
<1>9. P!Peek(c)
  BY <1>5, <1>7, <1>8 DEF P!PeekTimeout, P!HangUp
<1>10. conn'[c].got = conn[c].got + 1
  BY <1>6, <1>9 DEF P!Peek, P!Become, ConnInv, ConnRec
<1> QED BY <1>9, <1>10

(* A handler's key is its sender's own, if no other launch had that address. *)
LEMMA OwnKey ==
  ASSUME ConnInv, NEW c \in Conn, conn[c].at # "idle", conn[c].key # P!NoKey, Alone(Sender(c))
  PROVE  conn[c].key = owner[Sender(c)]
<1>1. Handler(conn[c], from[c], net, owner)
  BY DEF ConnInv, P!Free
<1>2. PICK q \in Proc : net[q].addr = conn[c].from /\ owner[q] = conn[c].key
  BY <1>1 DEF Handler, Owned
<1>3. q = Sender(c)
  BY <1>1, <1>2 DEF Handler, Alone, Sender
<1> QED BY <1>2, <1>3

LEMMA SomeList ==
  ASSUME TabInv, ConnInv, NEW c \in Conn, conn[c].at # "idle", conn[c].key # P!NoKey
  PROVE  \/ rules[conn[c].key] = P!NoRules
         \/ \E u \in AllowURLs : rules[conn[c].key] = P!Rules(u)
<1>1. conn[c].key \in Id
  BY DEF ConnInv, P!Free, Handler, ConnRec
<1> QED BY <1>1 DEF TabInv

(* What is let through by the proxy is let through by an entry of the sandbox that
   asks, whatever else is launched, updated, restarted or asked meanwhile. *)
THEOREM OnlyOwnRules == Spec => OwnRules
<1>1. ASSUME RulesInv, [Next]_vars, NEW c \in Conn, Alone(Sender(c)),
             conn[c].at = "check", conn'[c].at \in {"peek", "forward"}
      PROVE  Listed(c, LAMBDA entry : Means(entry, conn[c].request))
  <2>1. P!Admit(c)
    BY <1>1, Admitted DEF RulesInv
  <2>2. conn[c].key # P!NoKey /\ P!Allows(conn[c].key, conn[c].request)
    BY <2>1 DEF P!Admit, P!Allows
  <2>3. conn[c].key = owner[Sender(c)]
    BY <1>1, <2>2, OwnKey DEF RulesInv
  <2>4. rules[conn[c].key] # P!NoRules
    BY <2>2 DEF P!Allows, P!AllowsHost, P!AllowsHTTP, P!NoRules
  <2>5. PICK u \in AllowURLs : rules[conn[c].key] = P!Rules(u)
    BY <1>1, <2>2, <2>4, SomeList DEF RulesInv
  <2>6. conn[c].request \in Request
    BY <1>1 DEF RulesInv, ConnInv, P!Free, Handler, ConnRec
  <2>7. \E entry \in u : Means(entry, conn[c].request)
    BY <2>2, <2>5, <2>6, RequestAllowed DEF P!Allows
  <2> QED BY <2>3, <2>5, <2>7 DEF Listed
<1>2. ASSUME RulesInv, [Next]_vars, NEW c \in Conn, Alone(Sender(c)),
             conn[c].at = "peek", conn'[c].at = "dial", conn'[c].got > conn[c].got,
             conn[c].hello.tls, conn'[c].got >= conn[c].hello.parts, conn[c].hello.name # ""
      PROVE  Listed(c, LAMBDA entry :
               MeansHost(entry, conn[c].hello.name, PortAsked(conn[c].request)))
  <2>1. P!Peek(c) /\ conn'[c].got = conn[c].got + 1
    BY <1>2, Peeked DEF RulesInv
  <2>2. Handler(conn[c], from[c], net, owner)
    BY <1>2, Handled DEF RulesInv
  <2>3. conn[c].key # P!NoKey /\ conn[c].request.method = "CONNECT"
    BY <1>2, <2>2 DEF Handler
  <2>4. conn[c].key = owner[Sender(c)]
    BY <1>2, <2>3, OwnKey DEF RulesInv
  <2>5. P!ExtractSNI(conn[c].hello, conn[c].got + 1) # ""
    BY <1>2, <2>1 DEF P!ExtractSNI
  <2>6. P!AllowsHost(rules[conn[c].key], conn[c].hello.name, conn[c].request.port)
    BY <2>1, <2>5 DEF P!Peek, P!SNIAllowed
  <2>7. rules[conn[c].key] # P!NoRules
    BY <2>6 DEF P!AllowsHost, P!NoRules
  <2>8. PICK u \in AllowURLs : rules[conn[c].key] = P!Rules(u)
    BY <1>2, <2>3, <2>7, SomeList DEF RulesInv
  <2>9. \E entry \in u : MeansHost(entry, conn[c].hello.name, PortAsked(conn[c].request))
    <3>1. PortAsked(conn[c].request)
            = IF conn[c].request.port = "" THEN "443" ELSE conn[c].request.port
      BY <2>3 DEF PortAsked
    <3>2. conn[c].hello \in Hello \cup {P!NoHello}
      BY <2>2 DEF Handler, ConnRec
    <3>4. conn[c].hello # P!NoHello
      <4>1. P!NoHello.name = ""
        BY DEF P!NoHello
      <4> QED BY <1>2, <4>1
    <3>5. conn[c].hello.name \in {h.name : h \in Hello} \ {""}
      BY <1>2, <3>2, <3>4
    <3>3. Lower[conn[c].hello.name] # Lower[""]
      BY <3>5, EgressAssumption
    <3> QED BY <2>6, <2>8, <3>1, <3>3, HostAllowed
  <2> QED BY <2>4, <2>8, <2>9 DEF Listed
<1>3. RulesInv /\ [Next]_vars =>
        \A c \in Conn : from[c] # Nobody /\ Alone(Sender(c)) =>
          /\ conn[c].at = "check" /\ conn'[c].at \in {"peek", "forward"} =>
               Listed(c, LAMBDA entry : Means(entry, conn[c].request))
          /\ conn[c].at = "peek" /\ conn'[c].at = "dial" /\ conn'[c].got > conn[c].got
               /\ conn[c].hello.tls /\ conn'[c].got >= conn[c].hello.parts
               /\ conn[c].hello.name # "" =>
               Listed(c, LAMBDA entry :
                 MeansHost(entry, conn[c].hello.name, PortAsked(conn[c].request)))
  BY <1>1, <1>2
<1> QED BY <1>3, RulesInvariant, PTL DEF Spec, OwnRules

-----------------------------------------------------------------------------
(* Who is being launched or held, and whom the proxy has been told of. *)
Busy(p) == \/ InLaunch(p) \/ net[p].held \/ serving[p] \in {"tell", "again"}
           \/ net[p].at \in {"up", "off"} /\ serving[p] = "no"
ListTold(i) == i \notin pending => rules[i] = P!Rules(rec[i].urls)
Told(p) == /\ owner[p] \in Id /\ ListTold(owner[p])
           /\ Alone(p) => addrIndex[net[p].addr] = owner[p]

(* One process at a time is launched, held or to be taken up again for an id, and
   in the last two cases it is the one on record. *)
HeldInv ==
  /\ \A p, q \in Proc : Busy(p) /\ Busy(q) /\ owner[p] = owner[q] => p = q
  /\ \A p \in Proc : net[p].held \/ serving[p] = "again" => rec[owner[p]].proc = p
ToldInv ==
  /\ \A p \in Proc : net[p].held /\ serving[p] = "done" => Told(p)
  /\ \A c \in Conn : from[c].known =>
       \E p \in Proc : /\ p = from[c].proc /\ Told(p)
                       /\ conn[c].at = "check" /\ Alone(p) => conn[c].key = owner[p]

(* The steps that neither begin a launch nor hold a process. *)
NoHolder ==
  /\ UNCHANGED <<owner, serving>> /\ \A i \in Id : rec'[i].proc = rec[i].proc
  /\ \A p \in Proc : /\ Busy(p)' => Busy(p)
                     /\ net'[p].held => net[p].held

LEMMA HeldSame == ASSUME NetInv, TabInv, HeldInv, NoHolder PROVE HeldInv'
<1>1. \A p \in Proc : net[p].held \/ serving[p] = "again" => owner[p] \in Id
  BY DEF NetInv, Route, RouteOf, TabInv
<1> QED BY <1>1 DEF HeldInv, NoHolder

LEMMA HeldLaunchStep ==
  ASSUME NetInv, NEW p \in Proc, Launching(p)
  PROVE  NoHolder
<1>0. net \in [Proc -> NetRec] /\ UNCHANGED <<owner, serving, rec>>
  BY DEF NetInv, NetType, Launching, Beside
<1>1. /\ InLaunch(p)
      /\ \A q \in Proc : q # p => net'[q] = net[q]
      /\ net'[p].held = net[p].held
  <2> USE DEF At, Goto, InLaunch, NetRec
  <2>1. CASE FindInner(p)
    BY <1>0, <2>1 DEF FindInner
  <2>2. CASE StartSlirp(p)
    BY <1>0, <2>2 DEF StartSlirp
  <2>3. CASE SlirpFailed(p)
    BY <1>0, <2>3 DEF SlirpFailed
  <2>4. CASE CheckTarget(p)
    BY <1>0, <2>4 DEF CheckTarget
  <2>5. CASE Seal(p)
    BY <1>0, <2>5 DEF Seal
  <2>6. CASE Unsealed(p)
    BY <1>0, <2>6 DEF Unsealed
  <2>7. CASE Undo(p)
    BY <1>0, <2>7 DEF Undo
  <2> QED BY <2>1, <2>2, <2>3, <2>4, <2>5, <2>6, <2>7 DEF Launching, LaunchStep
<1> QED BY <1>0, <1>1 DEF NoHolder, Busy, InLaunch

LEMMA HeldStarted ==
  ASSUME NetInv, TabInv, HeldInv, NEW p \in Proc, Launch(p)
  PROVE  HeldInv'
<1>1. PICK i \in Id : Idle(i) /\ owner' = [owner EXCEPT ![p] = i]
  BY DEF Launch
<1>2. /\ net' = [net EXCEPT ![p].alive = TRUE, ![p].addr = nextAddr, ![p].at = "find"]
      /\ net \in [Proc -> NetRec] /\ net[p].at = "unused" /\ UNCHANGED <<rec, serving>>
  BY DEF Launch, Started, NetInv, NetType
<1>3. ~net[p].held
  BY <1>2 DEF NetInv, Route, RouteOf
<1>4. \A q \in Proc : owner[q] = i => ~Busy(q)
  BY <1>1 DEF Idle, Busy, NetInv, Route, RouteOf
<1>5. /\ owner'[p] = i /\ net'[p].at = "find" /\ ~net'[p].held
      /\ \A q \in Proc : q # p => owner'[q] = owner[q] /\ net'[q] = net[q]
  BY <1>1, <1>2, <1>3 DEF TabInv, NetRec
<1>6. \A q \in Proc : q # p => (Busy(q)' <=> Busy(q))
  BY <1>2, <1>5 DEF Busy, InLaunch
<1>7. \A q, r \in Proc : Busy(q)' /\ Busy(r)' /\ owner'[q] = owner'[r] => q = r
  BY <1>4, <1>5, <1>6 DEF HeldInv
<1>8. \A q \in Proc : net'[q].held \/ serving'[q] = "again" => rec'[owner'[q]].proc = q
  <2>1. serving[p] # "again"
    BY <1>2 DEF NetInv, Route, RouteOf
  <2> QED BY <1>2, <1>5, <2>1 DEF HeldInv
<1> QED BY <1>7, <1>8 DEF HeldInv

LEMMA HeldPut ==
  ASSUME NetInv, TabInv, HeldInv, NEW p \in Proc, Put(p)
  PROVE  HeldInv'
<1>1. /\ net' = [net EXCEPT ![p].held = TRUE] /\ net \in [Proc -> NetRec]
      /\ serving' = [serving EXCEPT ![p] = "tell"] /\ DOMAIN serving = Proc
      /\ rec' = [rec EXCEPT ![owner[p]].proc = p] /\ rec \in [Id -> RecRec]
      /\ net[p].at \in {"up", "off"} /\ serving[p] = "no" /\ owner' = owner
  BY DEF Put, NetInv, NetType, TabInv
<1>2. owner[p] \in Id /\ Busy(p)
  BY <1>1 DEF TabInv, Busy
<1>3. /\ net'[p].held /\ net'[p].at = net[p].at /\ serving'[p] = "tell"
      /\ \A q \in Proc : q # p => net'[q] = net[q] /\ serving'[q] = serving[q]
  BY <1>1 DEF NetRec
<1>4. \A q \in Proc : Busy(q)' => Busy(q)
  BY <1>2, <1>3 DEF Busy, InLaunch
<1>5. rec'[owner[p]].proc = p /\ \A i \in Id : i # owner[p] => rec'[i] = rec[i]
  BY <1>1, <1>2 DEF RecRec
<1>6. ASSUME NEW q \in Proc, net'[q].held \/ serving'[q] = "again"
      PROVE  rec'[owner'[q]].proc = q
  <2>1. CASE q = p
    BY <1>1, <1>5, <2>1
  <2>2. CASE q # p
    <3>1. Busy(q) /\ (net[q].held \/ serving[q] = "again")
      BY <1>3, <1>6, <2>2 DEF Busy
    <3>2. owner[q] # owner[p] /\ owner[q] \in Id
      BY <1>2, <2>2, <3>1 DEF HeldInv, TabInv, NetInv, Route, RouteOf
    <3> QED BY <1>1, <1>5, <3>1, <3>2 DEF HeldInv
  <2> QED BY <2>1, <2>2
<1>7. \A q, r \in Proc : Busy(q)' /\ Busy(r)' /\ owner'[q] = owner'[r] => q = r
  BY <1>1, <1>4 DEF HeldInv
<1> QED BY <1>6, <1>7 DEF HeldInv

LEMMA HeldTell ==
  ASSUME NetInv, HeldInv, NEW p \in Proc, Tell(p)
  PROVE  HeldInv'
<1>1. /\ UNCHANGED <<net, rec, owner>> /\ serving' = [serving EXCEPT ![p] = "done"]
      /\ serving[p] = "tell" /\ DOMAIN serving = Proc
  BY DEF Tell, NetInv, NetType
<1>2. \A q \in Proc : (Busy(q)' => Busy(q)) /\ (serving'[q] = "again" => serving[q] = "again")
  BY <1>1 DEF Busy, InLaunch
<1> QED BY <1>1, <1>2 DEF HeldInv

LEMMA HeldReattach ==
  ASSUME NetInv, HeldInv, NEW p \in Proc, Reattach(p)
  PROVE  HeldInv'
<1>1. /\ UNCHANGED <<rec, owner>> /\ serving[p] = "again" /\ Busy(p)
      /\ net \in [Proc -> NetRec] /\ DOMAIN serving = Proc
  BY DEF Reattach, NetInv, NetType, Busy
<1>2. \A q \in Proc : q # p => net'[q] = net[q] /\ serving'[q] = serving[q]
  BY <1>1 DEF Reattach
<1>3. \A q \in Proc : Busy(q)' => Busy(q)
  BY <1>1, <1>2 DEF Busy, InLaunch
<1>4. \A q \in Proc : net'[q].held \/ serving'[q] = "again"
                       => net[q].held \/ serving[q] = "again"
  BY <1>1, <1>2
<1> QED BY <1>1, <1>3, <1>4 DEF HeldInv

LEMMA HeldCrash == ASSUME NetInv, Crash PROVE HeldInv'
<1>1. UNCHANGED <<rec, owner>>
  BY DEF Crash
<1>2. ASSUME NEW p \in Proc
      PROVE  /\ ~net'[p].held /\ (Busy(p)' => serving'[p] = "again")
             /\ serving'[p] = "again" => rec'[owner'[p]].proc = p
  <2>1. net'[p].at \in {"up", "off"} => serving'[p] # "no"
    BY CrashLeaves
  <2>2. Busy(p)' => serving'[p] = "again"
    BY <2>1, CrashLeaves DEF Busy, InLaunch
  <2> QED BY <1>1, <2>2, CrashLeaves
<1> QED BY <1>1, <1>2 DEF HeldInv

LEMMA HeldStep == ASSUME NetInv, TabInv, HeldInv, [Next]_vars PROVE HeldInv'
<1>1. ASSUME NEW p \in Proc, Launching(p) PROVE HeldInv'
  BY <1>1, HeldLaunchStep, HeldSame
<1>2. ASSUME NEW p \in Proc, Ends(p) \/ TearDown(p) PROVE HeldInv'
  <2>1. net \in [Proc -> NetRec] /\ UNCHANGED <<owner, serving, rec>>
    BY <1>2 DEF NetInv, NetType, Ends, TearDown, Beside
  <2>2. \A q \in Proc : /\ net'[q].at = net[q].at
                        /\ net'[q].held => net[q].held
                        /\ net'[q].alive => net[q].alive
    BY <1>2, <2>1 DEF Ends, TearDown, Exit, Wait, NetRec
  <2>3. NoHolder
    BY <2>1, <2>2 DEF NoHolder, Busy, InLaunch
  <2> QED BY <2>3, HeldSame
<1>3. ASSUME UNCHANGED <<net, owner, serving>>, \A i \in Id : rec'[i].proc = rec[i].proc
      PROVE  HeldInv'
  <2>1. NoHolder
    BY <1>3 DEF NoHolder, Busy, InLaunch
  <2> QED BY <2>1, HeldSame
<1>4. ASSUME NEW i \in Id, NEW urls \in AllowURLs, UpdatePut(i, urls) PROVE HeldInv'
  <2>1. /\ rec' = [rec EXCEPT ![i].urls = urls] /\ rec \in [Id -> RecRec]
        /\ UNCHANGED <<net, owner, serving>>
    BY <1>4 DEF UpdatePut, TabInv
  <2>2. \A j \in Id : rec'[j].proc = rec[j].proc
    BY <2>1 DEF RecRec
  <2> QED BY <1>3, <2>1, <2>2
<1>5. ASSUME NEW i \in Id, UpdateTell(i) PROVE HeldInv'
  BY <1>3, <1>5 DEF UpdateTell
<1>6. ASSUME NEW c \in Conn, NEW p \in Proc, Ask(p, c) PROVE HeldInv'
  BY <1>3, <1>6 DEF Ask
<1>7. ASSUME NEW c \in Conn, Proceed(c) \/ Client(c) \/ Refuse(c) PROVE HeldInv'
  BY <1>3, <1>7 DEF Proceed, Client, Refuse
<1>8. CASE UNCHANGED vars
  BY <1>3, <1>8 DEF vars
<1> QED BY <1>1, <1>2, <1>4, <1>5, <1>6, <1>7, <1>8,
           HeldStarted, HeldPut, HeldTell, HeldReattach, HeldCrash DEF Next

(* Once told, the proxy knows: but for an Update that is still to tell it. *)
LEMMA AloneBefore ==
  ASSUME NetInv, TabInv, Stays, NEW p \in Proc, net[p].at # "unused", Alone(p)'
  PROVE  Alone(p)
<1> SUFFICES ASSUME NEW q \in Proc \ {p}, net[q].addr = net[p].addr PROVE FALSE
  BY DEF Alone
<1>1. net[p].addr \in Addr
  BY DEF TabInv
<1>2. net[q].at # "unused"
  BY <1>1, AddrFacts DEF NetInv, Route, RouteOf
<1>3. net'[q].addr = net'[p].addr
  BY <1>2 DEF Stays
<1> QED BY <1>3 DEF Alone

LEMMA ListKept ==
  ASSUME NetInv, TabInv, [Next]_vars, ~Crash, NEW i \in Id, ListTold(i)
  PROVE  ListTold(i)'
<1>0. /\ rec \in [Id -> RecRec] /\ DOMAIN rules = Id
      /\ \A p \in Proc : net[p].at \in {"up", "off"} \/ serving[p] # "no" => owner[p] \in Id
  BY DEF TabInv, NetInv, Route, RouteOf
<1>1. ASSUME UNCHANGED <<rules, rec, pending>> PROVE ListTold(i)'
  BY <1>1 DEF ListTold
<1>2. ASSUME NEW p \in Proc, Put(p) PROVE ListTold(i)'
  <2>1. rec' = [rec EXCEPT ![owner[p]].proc = p] /\ UNCHANGED <<rules, pending>>
        /\ owner[p] \in Id
    BY <1>0, <1>2 DEF Put
  <2>2. rec'[i].urls = rec[i].urls
    BY <1>0, <2>1 DEF RecRec
  <2> QED BY <2>1, <2>2 DEF ListTold
<1>3. ASSUME NEW j \in Id, UNCHANGED rec, P!SetAllowlist(j, rec[j].urls),
             pending' \in {pending, pending \ {j}}
      PROVE  ListTold(i)'
  BY <1>0, <1>3 DEF P!SetAllowlist, ListTold
<1>4. ASSUME NEW p \in Proc, Tell(p) PROVE ListTold(i)'
  BY <1>0, <1>3, <1>4 DEF Tell
<1>11. ASSUME NEW p \in Proc, Reattach(p) PROVE ListTold(i)'
  BY <1>0, <1>1, <1>3, <1>11 DEF Reattach
<1>5. ASSUME NEW j \in Id, UpdateTell(j) PROVE ListTold(i)'
  BY <1>3, <1>5 DEF UpdateTell
<1>6. ASSUME NEW j \in Id, NEW urls \in AllowURLs, UpdatePut(j, urls) PROVE ListTold(i)'
  <2>1. rec' = [rec EXCEPT ![j].urls = urls] /\ rules' = rules /\ pending' = pending \cup {j}
    BY <1>6 DEF UpdatePut
  <2> QED BY <1>0, <2>1 DEF ListTold
<1>7. ASSUME NEW p \in Proc, Launch(p) \/ Launching(p) \/ Ends(p) \/ TearDown(p)
      PROVE  ListTold(i)'
  BY <1>1, <1>7 DEF Launch, Launching, Ends, TearDown, Beside
<1>8. ASSUME NEW c \in Conn, NEW p \in Proc, Ask(p, c) PROVE ListTold(i)'
  BY <1>1, <1>8 DEF Ask, P!Arrive, P!Tables
<1>9. ASSUME NEW c \in Conn, Proceed(c) \/ Client(c) \/ Refuse(c) PROVE ListTold(i)'
  BY <1>1, <1>9 DEF Proceed, Client, Refuse, P!Resolve, P!Admit, P!PeekTimeout, P!Dial,
                    P!Peek, P!HangUp, P!Finish, P!Deny, P!PeekDeny, P!Tables
<1>10. CASE UNCHANGED vars
  BY <1>1, <1>10 DEF vars
<1> QED BY <1>2, <1>4, <1>5, <1>6, <1>7, <1>8, <1>9, <1>10, <1>11 DEF Next

LEMMA IndexKept ==
  ASSUME NetInv, TabInv, [Next]_vars, ~Crash, NEW p \in Proc, Alone(p),
         addrIndex[net[p].addr] = owner[p], net[p].addr \in Addr
  PROVE  addrIndex'[net[p].addr] = owner[p]
<1>1. ASSUME UNCHANGED addrIndex PROVE addrIndex'[net[p].addr] = owner[p]
  BY <1>1
<1>2. ASSUME NEW q \in Proc, Tell(q) \/ Reattach(q)
      PROVE  addrIndex'[net[p].addr] = owner[p]
  <2>1. addrIndex' = [addrIndex EXCEPT ![net[q].addr] = owner[q]] \/ UNCHANGED addrIndex
    BY <1>2 DEF Tell, Reattach, P!RegisterSandboxAddr
  <2>2. q # p => net[q].addr # net[p].addr
    BY DEF Alone
  <2> QED BY <2>1, <2>2 DEF TabInv
<1>3. ASSUME NEW q \in Proc, Launch(q) \/ Launching(q) \/ Put(q) \/ Ends(q) \/ TearDown(q)
      PROVE  UNCHANGED addrIndex
  BY <1>3 DEF Launch, Launching, Put, Ends, TearDown, Beside
<1>4. ASSUME NEW i \in Id, (\E urls \in AllowURLs : UpdatePut(i, urls)) \/ UpdateTell(i)
      PROVE  UNCHANGED addrIndex
  BY <1>4 DEF UpdatePut, UpdateTell
<1>5. ASSUME NEW c \in Conn, NEW q \in Proc, Ask(q, c) PROVE UNCHANGED addrIndex
  BY <1>5 DEF Ask, P!Arrive, P!Tables
<1>6. ASSUME NEW c \in Conn, Proceed(c) \/ Client(c) \/ Refuse(c) PROVE UNCHANGED addrIndex
  BY <1>6 DEF Proceed, Client, Refuse, P!Resolve, P!Admit, P!PeekTimeout, P!Dial,
              P!Peek, P!HangUp, P!Finish, P!Deny, P!PeekDeny, P!Tables
<1>7. CASE UNCHANGED vars
  BY <1>7 DEF vars
<1> QED BY <1>1, <1>2, <1>3, <1>4, <1>5, <1>6, <1>7 DEF Next

LEMMA ToldKept ==
  ASSUME NetInv, TabInv, [Next]_vars, ~Crash, NEW p \in Proc, Told(p)
  PROVE  Told(p)'
<1>1. owner[p] \in Id /\ net[p].at # "unused" /\ net[p].addr \in Addr
  BY EgressAssumption DEF Told, TabInv, P!NoKey
<1>2. owner'[p] = owner[p] /\ net'[p].addr = net[p].addr
  BY <1>1, StaysStep DEF Stays
<1>3. ASSUME NEW i \in Id, i = owner[p] PROVE ListTold(i)'
  BY <1>3, ListKept DEF Told
<1>4. Alone(p)' => addrIndex'[net[p].addr] = owner[p]
  BY <1>1, StaysStep, AloneBefore, IndexKept DEF Told
<1>5. owner'[p] \notin pending' => rules'[owner'[p]] = P!Rules(rec'[owner'[p]].urls)
  BY <1>1, <1>2, <1>3 DEF ListTold
<1> QED BY <1>1, <1>2, <1>4, <1>5 DEF Told, ListTold

LEMMA ToldAnnounced ==
  ASSUME NetInv, TabInv, NEW p \in Proc, serving[p] # "no", Announced(p),
         net'[p].addr = net[p].addr, UNCHANGED <<rec, owner, pending>>,
         Alone(p)' => Alone(p)
  PROVE  Told(p)'
<1>1. owner[p] \in Id /\ net[p].addr \in Addr
  BY DEF NetInv, Route, RouteOf, TabInv
<1>2. /\ rules' = [rules EXCEPT ![owner[p]] = P!Rules(rec[owner[p]].urls)]
      /\ addrIndex' = [addrIndex EXCEPT ![net[p].addr] = owner[p]]
  BY DEF Announced, P!SetAllowlist, P!RegisterSandboxAddr
<1>3. rules'[owner[p]] = P!Rules(rec[owner[p]].urls) /\ addrIndex'[net[p].addr] = owner[p]
  BY <1>1, <1>2 DEF TabInv
<1> QED BY <1>1, <1>3 DEF Told, ListTold

LEMMA ToldCrash == ASSUME NetInv, Crash PROVE ToldInv'
<1>1. \A p \in Proc : ~net'[p].held
  BY CrashLeaves
<1>2. \A c \in Conn : ~from'[c].known
  BY DEF Crash, Nobody
<1> QED BY <1>1, <1>2 DEF ToldInv

LEMMA ToldHeld ==
  ASSUME NetInv, TabInv, ToldInv, [Next]_vars, ~Crash, NEW p \in Proc,
         net'[p].held, serving'[p] = "done"
  PROVE  Told(p)'
<1>0. net \in [Proc -> NetRec] /\ DOMAIN serving = Proc
  BY DEF NetInv, NetType
<1>1. CASE Tell(p) \/ Reattach(p)
  <2>1. net'[p].addr = net[p].addr /\ serving[p] # "no" /\ UNCHANGED <<rec, owner, pending>>
    BY <1>0, <1>1 DEF Tell, Reattach, NetRec
  <2>2. Announced(p)
    <3>1. CASE Tell(p)
      BY <3>1 DEF Tell, Announced
    <3>2. CASE Reattach(p)
      BY <1>0, <3>2 DEF Reattach, Announced
    <3> QED BY <1>1, <3>1, <3>2
  <2>3. Alone(p)' => Alone(p)
    BY <2>1, StaysStep, AloneBefore DEF NetInv, Route, RouteOf
  <2> QED BY <2>1, <2>2, <2>3, ToldAnnounced
<1>2. CASE ~Tell(p) /\ ~Reattach(p)
  <2>1. ASSUME NEW q \in Proc, Launch(q) PROVE net[p].held /\ serving[p] = "done"
    BY <1>0, <2>1 DEF Launch, Started, NetRec
  <2>2. ASSUME NEW q \in Proc, Launching(q) PROVE net[p].held /\ serving[p] = "done"
    <3>1. NoHolder
      BY <2>2, HeldLaunchStep
    <3> QED BY <3>1 DEF NoHolder
  <2>3. ASSUME NEW q \in Proc, Put(q) PROVE net[p].held /\ serving[p] = "done"
    BY <1>0, <2>3 DEF Put, NetRec
  <2>4. ASSUME NEW q \in Proc, Tell(q) PROVE net[p].held /\ serving[p] = "done"
    BY <1>0, <1>2, <2>4 DEF Tell
  <2>9. ASSUME NEW q \in Proc, Reattach(q) PROVE net[p].held /\ serving[p] = "done"
    BY <1>0, <1>2, <2>9 DEF Reattach
  <2>5. ASSUME NEW q \in Proc, Ends(q) \/ TearDown(q) PROVE net[p].held /\ serving[p] = "done"
    BY <1>0, <2>5 DEF Ends, TearDown, Exit, Wait, Beside, NetRec
  <2>6. ASSUME UNCHANGED <<net, serving>> PROVE net[p].held /\ serving[p] = "done"
    BY <2>6
  <2>7. net[p].held /\ serving[p] = "done"
    BY <2>1, <2>2, <2>3, <2>4, <2>5, <2>6, <2>9
       DEF Next, vars, UpdatePut, UpdateTell, Ask, Proceed, Client, Refuse
  <2>8. Told(p)
    BY <2>7 DEF ToldInv
  <2> QED BY <2>8, ToldKept
<1> QED BY <1>1, <1>2

LEMMA ToldConn ==
  ASSUME RulesInv, HeldInv, ToldInv, [Next]_vars, ~Crash, NEW c \in Conn, from'[c].known
  PROVE  \E p \in Proc : /\ p = from'[c].proc /\ Told(p)'
                         /\ conn'[c].at = "check" /\ Alone(p)' => conn'[c].key = owner'[p]
<1> USE DEF RulesInv
<1>0. DOMAIN conn = Conn /\ DOMAIN from = Conn
  BY DEF ConnInv
<1>1. ASSUME from'[c] = from[c],
             conn'[c].at = "check" => \/ conn[c].at = "check" /\ conn'[c].key = conn[c].key
                                      \/ P!Resolve(c)
      PROVE  \E p \in Proc : /\ p = from'[c].proc /\ Told(p)'
                             /\ conn'[c].at = "check" /\ Alone(p)' => conn'[c].key = owner'[p]
  <2>1. PICK p \in Proc : /\ p = from[c].proc /\ Told(p)
                          /\ conn[c].at = "check" /\ Alone(p) => conn[c].key = owner[p]
    BY <1>1 DEF ToldInv
  <2>2. Told(p)'
    BY <2>1, ToldKept
  <2>3. net[p].at # "unused"
    BY <2>1, EgressAssumption DEF Told, TabInv, P!NoKey
  <2>4. Alone(p)' => Alone(p)
    BY <2>3, StaysStep, AloneBefore
  <2>5. owner'[p] = owner[p]
    BY <2>3, StaysStep DEF Stays
  <2>6. ASSUME P!Resolve(c), Alone(p) PROVE conn'[c].key = owner[p]
    <3>1. Handler(conn[c], from[c], net, owner)
      BY <2>6, Handled DEF P!Resolve
    <3>2. conn'[c].key = addrIndex[conn[c].from]
      BY <1>0, <2>6, <3>1 DEF P!Resolve, P!Become, Handler, ConnRec
    <3>3. conn[c].from = net[p].addr
      BY <2>1, <3>1 DEF Handler
    <3> QED BY <2>1, <2>6, <3>2, <3>3 DEF Told
  <2>7. conn'[c].at = "check" /\ Alone(p)' => conn'[c].key = owner'[p]
    BY <1>1, <2>1, <2>4, <2>5, <2>6
  <2> QED BY <1>1, <2>1, <2>2, <2>7
<1>2. ASSUME NEW p \in Proc, Ask(p, c)
      PROVE  /\ p = from'[c].proc /\ Told(p)' /\ conn'[c].at # "check"
  <2>1. /\ from'[c] = [proc |-> p, known |-> serving[p] = "done"] /\ conn'[c].at = "resolve"
        /\ net[p].alive /\ net[p].slirp = "up"
    BY <1>0, <1>2 DEF Ask, P!Arrive, P!Become
  <2>2. serving[p] = "done"
    <3> DEFINE done == serving[p] = "done"
    <3>1. from'[c] = [proc |-> p, known |-> done]
      BY <2>1
    <3> HIDE DEF done
    <3>2. from'[c].known = done
      BY <3>1
    <3>3. done
      BY <3>2
    <3> QED BY <3>3 DEF done
  <2>4. net[p].held
    BY <2>1, <2>2 DEF NetInv, Route, RouteOf
  <2>5. Told(p)
    BY <2>2, <2>4 DEF ToldInv
  <2> QED BY <2>1, <2>5, ToldKept
<1>3. CASE Proceed(c) \/ Refuse(c)
  <2>1. Handler(conn[c], from[c], net, owner)
    BY <1>3, Handled DEF Proceed, Refuse, P!Resolve, P!Admit, P!PeekTimeout, P!Dial,
                         P!Deny, P!PeekDeny
  <2>2. ASSUME NEW x, P!Goto(c, x) PROVE conn'[c].at = x
    BY <1>0, <2>1, <2>2 DEF P!Goto, P!Become, Handler, ConnRec
  <2>3. ASSUME P!PeekDeny(c) PROVE conn'[c].at = "denied"
    <3>1. conn[c] \in ConnRec
      BY <2>1 DEF Handler
    <3>2. conn' = [conn EXCEPT ![c] = [conn[c] EXCEPT !.got = conn[c].got + 1, !.at = "denied"]]
      BY <2>3 DEF P!PeekDeny, P!Become
    <3> QED BY <1>0, <3>1, <3>2 DEF ConnRec
  <2>4. conn'[c].at = "check" => P!Resolve(c)
    BY <1>3, <2>2, <2>3 DEF Proceed, Refuse, P!Admit, P!PeekTimeout, P!Dial, P!Deny
  <2>5. from' = from
    BY <1>3 DEF Proceed, Refuse
  <2> QED BY <1>1, <2>4, <2>5
<1>4. CASE Client(c) /\ from' = from
  <2>1. ~P!Finish(c) => Handler(conn[c], from[c], net, owner)
    BY <1>4, Handled DEF Client, P!Peek, P!HangUp
  <2>2. conn'[c].at # "check"
    <3>1. CASE P!Finish(c)
      BY <1>0, <3>1 DEF P!Finish, P!Become, P!Free
    <3>2. CASE P!HangUp(c)
      BY <1>0, <3>2, Handled DEF P!HangUp, P!Goto, P!Become, Handler, ConnRec
    <3>3. CASE P!Peek(c)
      <4>1. conn[c] \in ConnRec
        BY <3>3, Handled DEF P!Peek, Handler
      <4>2. PICK at \in {"dial", "peek"} :
              conn' = [conn EXCEPT ![c] = [conn[c] EXCEPT !.got = conn[c].got + 1, !.at = at]]
        BY <3>3 DEF P!Peek, P!Become
      <4> QED BY <1>0, <4>1, <4>2 DEF ConnRec
    <3> QED BY <1>4, <3>1, <3>2, <3>3 DEF Client
  <2> QED BY <1>1, <1>4, <2>2
<1>5. ASSUME Client(c), from' # from PROVE FALSE
  BY <1>0, <1>5 DEF Client, Nobody
<1>6. CASE conn'[c] = conn[c] /\ from'[c] = from[c]
  BY <1>1, <1>6
<1> QED BY <1>2, <1>3, <1>4, <1>5, <1>6, ConnTouched

ServedInv == RulesInv /\ HeldInv /\ ToldInv

THEOREM ServedInvariant == Spec => []ServedInv
<1>1. Init => HeldInv
  BY DEF Init, NetInit, Unused, HeldInv, Busy, InLaunch
<1>2. Init => ToldInv
  BY DEF Init, NetInit, Unused, ToldInv, Nobody
<1>3. ASSUME ServedInv, [Next]_vars PROVE ServedInv'
  <2>1. RulesInv' /\ HeldInv'
    BY <1>3, NetStep, TabStep, ConnStep, HeldStep DEF ServedInv, RulesInv
  <2>2. ToldInv'
    <3>1. CASE Crash
      BY <1>3, <3>1, ToldCrash DEF ServedInv, RulesInv
    <3>2. CASE ~Crash
      BY <1>3, <3>2, ToldHeld, ToldConn DEF ServedInv, RulesInv, ToldInv
    <3> QED BY <3>1, <3>2
  <2> QED BY <2>1, <2>2 DEF ServedInv
<1> QED BY RulesInit, <1>1, <1>2, <1>3, PTL DEF Spec, ServedInv

(* What its record allows is not refused to a sandbox that this murod has announced
   to the proxy, after a launch or a relaunch or when startup took it up again. *)
THEOREM RecordServed == Spec => NotRefused
<1>1. ASSUME ServedInv, [Next]_vars, NEW c \in Conn, from[c].known, Alone(Sender(c)),
             owner[Sender(c)] \notin pending, conn[c].at = "check", conn'[c].at = "denied",
             NEW entry \in rec[owner[Sender(c)]].urls, Means(entry, conn[c].request)
      PROVE  FALSE
  <2>1. PICK p \in Proc : p = Sender(c) /\ Told(p) /\ conn[c].key = owner[p]
    BY <1>1 DEF ServedInv, ToldInv, Sender
  <2>2. /\ conn[c].key \in Id /\ conn[c].key # P!NoKey
        /\ rules[conn[c].key] = P!Rules(rec[conn[c].key].urls)
    BY <1>1, <2>1, EgressAssumption DEF Told, ListTold, P!NoKey
  <2>3. rec[conn[c].key].urls \in AllowURLs /\ conn[c].request \in Request
    BY <1>1, <2>2, Handled DEF ServedInv, RulesInv, TabInv, RecRec, Handler, ConnRec
  <2>4. P!Allows(conn[c].key, conn[c].request)
    BY <1>1, <2>1, <2>2, <2>3, RequestAllowed DEF P!Allows
  <2>5. P!Deny(c)
    BY <1>1, Admitted DEF ServedInv, RulesInv
  <2> QED BY <2>4, <2>5 DEF P!Deny
<1>2. ServedInv /\ [Next]_vars =>
        \A c \in Conn : from[c].known /\ Alone(Sender(c)) /\ owner[Sender(c)] \notin pending =>
          (conn[c].at = "check" /\ conn'[c].at = "denied" =>
             ~ \E entry \in rec[owner[Sender(c)]].urls : Means(entry, conn[c].request))
  BY <1>1
<1> QED BY <1>2, ServedInvariant, PTL DEF Spec, NotRefused

-----------------------------------------------------------------------------
(* The ring of denied events, as its array is read: the i-th of the s events
   before n stands in slot Spot(n, s, i). *)

Cap == Ring!cap
Denials == Ring!Event
Slots == 0..(Cap - 1)
Spot(n, s, i) == IF n - s + i - 1 >= 0 THEN n - s + i - 1 ELSE n - s + i - 1 + Cap
Shown(b, n, s) == [i \in 1..s |-> b[Spot(n, s, i)]]

(* A ring, of which what it shows are denials. *)
Whole(b, n, s) ==
  /\ b \in [Slots -> Denials \cup {Zero}]
  /\ n \in Slots /\ s \in 0..Cap
  /\ Shown(b, n, s) \in Seq(Denials)

RingInv ==
  /\ Whole(buf, next, size)
  /\ disk \in Seq(Denials) /\ Len(disk) <= Cap

LEMMA CapFacts == Cap \in Nat /\ Cap >= 1
<1>1. ReqCap \in Int
  BY EgressAssumption
<1> QED BY <1>1 DEF Cap, Ring!cap

LEMMA ModOnce ==
  ASSUME NEW k \in Int, k > 0, NEW a \in Int, 0 <= a, a < 2 * k
  PROVE  a % k = IF a < k THEN a ELSE a - k
  OBVIOUS

LEMMA SpotIs ==
  ASSUME NEW n \in Slots, NEW s \in 0..Cap, NEW i \in 1..s
  PROVE  /\ (((n - s + Cap) % Cap) + i - 1) % Cap = Spot(n, s, i)
         /\ Spot(n, s, i) \in Slots
<1>1. /\ Cap \in Nat /\ Cap >= 1 /\ n \in Nat /\ n < Cap
      /\ s \in Nat /\ s <= Cap /\ i \in Nat /\ 1 <= i /\ i <= s
  BY CapFacts DEF Slots
<1>2. PICK k : k = Cap
  OBVIOUS
<1>3. PICK t \in Int : t = (n - s + k) % k
  BY <1>1, <1>2, ModOnce
<1>4. t = IF n - s + k < k THEN n - s + k ELSE n - s
  <2>1. n - s + k \in Int /\ 0 <= n - s + k /\ n - s + k < 2 * k /\ k \in Int /\ k > 0
    BY <1>1, <1>2
  <2>2. t = IF n - s + k < k THEN n - s + k ELSE (n - s + k) - k
    BY <1>3, <2>1, ModOnce
  <2> QED BY <1>1, <1>2, <2>2
<1>5. t + i - 1 \in Int /\ 0 <= t + i - 1 /\ t + i - 1 < 2 * k /\ k \in Int /\ k > 0
  BY <1>1, <1>2, <1>4
<1>6. (t + i - 1) % k = IF t + i - 1 < k THEN t + i - 1 ELSE t + i - 1 - k
  BY <1>5, ModOnce
<1>7. (t + i - 1) % k = Spot(n, s, i) /\ Spot(n, s, i) \in 0..(k - 1)
  BY <1>1, <1>2, <1>4, <1>6 DEF Spot
<1> QED BY <1>2, <1>3, <1>7 DEF Slots

LEMMA Wraps ==
  ASSUME NEW n \in Slots
  PROVE  /\ (n + 1) % Cap = IF n + 1 = Cap THEN 0 ELSE n + 1
         /\ (n + 1) % Cap \in Slots
<1>1. Cap \in Nat /\ Cap >= 1 /\ n \in Nat /\ n < Cap
  BY CapFacts DEF Slots
<1>2. (n + 1) % Cap = IF n + 1 < Cap THEN n + 1 ELSE n + 1 - Cap
  BY <1>1, ModOnce
<1> QED BY <1>1, <1>2 DEF Slots

(* Last reads the slots in the order in which they were filled. *)
LEMMA ReadIs ==
  ASSUME NEW b, NEW n \in Slots, NEW s \in 0..Cap
  PROVE  (IF s <= 0 THEN <<>>
          ELSE [i \in 1..s |-> b[(((n - s + Cap) % Cap) + i - 1) % Cap]]) = Shown(b, n, s)
<1>1. s \in Nat /\ s <= Cap
  BY CapFacts
<1>2. CASE s = 0
  BY <1>2 DEF Shown
<1>3. CASE s # 0
  <2>1. ~(s <= 0)
    BY <1>1, <1>3
  <2>2. \A i \in 1..s : b[(((n - s + Cap) % Cap) + i - 1) % Cap] = b[Spot(n, s, i)]
    BY SpotIs
  <2> QED BY <2>1, <2>2 DEF Shown
<1> QED BY <1>2, <1>3

(* Last(m), of m events or of all when there are fewer. *)
Within(m, s) == IF m <= 0 THEN 0 ELSE IF m > s THEN s ELSE m
LEMMA LastIs ==
  ASSUME next \in Slots, size \in 0..Cap, NEW m \in Int
  PROVE  Ring!Last(m) = Shown(buf, next, Within(m, size))
<1>1. size \in Nat /\ size <= Cap /\ Cap \in Nat
  BY CapFacts
<1>2. PICK k : k = IF m > size THEN size ELSE m
  OBVIOUS
<1>3. CASE k <= 0
  <2>1. Ring!Last(m) = <<>>
    BY <1>2, <1>3 DEF Ring!Last
  <2>2. Within(m, size) = 0
    BY <1>1, <1>2, <1>3 DEF Within
  <2> QED BY <2>1, <2>2 DEF Shown
<1>4. CASE ~(k <= 0)
  <2>1. k \in 0..Cap /\ Within(m, size) = k
    BY <1>1, <1>2, <1>4 DEF Within
  <2>2. Ring!Last(m) = [i \in 1..k |-> buf[(((next - k + Cap) % Cap) + i - 1) % Cap]]
    BY <1>2, <1>4 DEF Ring!Last, Cap
  <2> QED BY <1>4, <2>1, <2>2, ReadIs
<1> QED BY <1>3, <1>4

LEMMA SnapshotIs ==
  ASSUME next \in Slots, size \in 0..Cap
  PROVE  Ring!Snapshot = Shown(buf, next, size)
<1>1. Within(size, size) = size /\ size \in Int
  BY CapFacts DEF Within
<1> QED BY <1>1, LastIs DEF Ring!Snapshot

LEMMA SnapshotThen ==
  ASSUME next' \in Slots, size' \in 0..Cap
  PROVE  Ring!Snapshot' = Shown(buf', next', size')
<1>1. size' \in Nat /\ size' <= Cap
  BY CapFacts
<1>2. Ring!Snapshot' = IF size' <= 0 THEN <<>>
                       ELSE [i \in 1..size' |->
                               buf'[(((next' - size' + Cap) % Cap) + i - 1) % Cap]]
  BY <1>1 DEF Ring!Snapshot, Ring!Last, Cap
<1> QED BY <1>2, ReadIs
-----------------------------------------------------------------------------
(* Push: the newest events are those shown. *)
Newest(s, n) == Ring!Log!Newest(s, n)

LEMMA SeqIs == ASSUME NEW S, NEW q \in Seq(S) PROVE q = [i \in 1..Len(q) |-> q[i]]
  OBVIOUS

LEMMA ShownLen ==
  ASSUME NEW b, NEW n, NEW s \in 0..Cap, Shown(b, n, s) \in Seq(Denials)
  PROVE  Len(Shown(b, n, s)) = s /\ s <= Cap
<1>1. DOMAIN Shown(b, n, s) = 1..s /\ s \in Nat /\ s <= Cap
  BY CapFacts DEF Shown
<1> QED BY <1>1

LEMMA ShownIn ==
  ASSUME NEW b, NEW n, NEW s \in 0..Cap, Shown(b, n, s) \in Seq(Denials)
  PROVE  \A i \in 1..s : Shown(b, n, s)[i] \in Denials
BY ShownLen

PushOf(b, n, s, e, b2, n2, s2) ==
  /\ b2 = [b EXCEPT ![n] = e]
  /\ n2 = (n + 1) % Cap
  /\ s2 = IF s < Cap THEN s + 1 ELSE s

LEMMA PushShows ==
  ASSUME NEW b, NEW n, NEW s, NEW e \in Denials, Whole(b, n, s),
         NEW b2, NEW n2, NEW s2, PushOf(b, n, s, e, b2, n2, s2)
  PROVE  /\ Whole(b2, n2, s2)
         /\ Shown(b2, n2, s2) = Newest(Append(Shown(b, n, s), e), Cap)
<1> DEFINE old == Shown(b, n, s)
           more == Append(old, e)
<1>1. /\ Cap \in Nat /\ Cap >= 1 /\ n \in Nat /\ n < Cap /\ n \in Slots /\ s \in 0..Cap
      /\ s \in Nat /\ s <= Cap /\ old \in Seq(Denials)
  BY CapFacts DEF Whole, Slots
<1>2. n2 \in Slots /\ n2 = IF n + 1 = Cap THEN 0 ELSE n + 1
  BY <1>1, Wraps DEF PushOf
<1>3. s2 \in 0..Cap /\ s2 \in Nat /\ s2 >= 1
  BY <1>1 DEF PushOf
<1>4. b2 \in [Slots -> Denials \cup {Zero}] /\ b2[n] = e /\ \A j \in Slots : j # n => b2[j] = b[j]
  BY <1>1 DEF Whole, PushOf
<1>5. Len(old) = s /\ DOMAIN old = 1..s /\ \A i \in 1..s : old[i] = b[Spot(n, s, i)]
  <2>1. DOMAIN old = 1..s /\ \A i \in 1..s : old[i] = b[Spot(n, s, i)]
    BY DEF Shown
  <2> QED BY <1>1, <2>1
<1> HIDE DEF old
<1>6. /\ more \in Seq(Denials) /\ Len(more) = s + 1 /\ more[s + 1] = e
      /\ \A i \in 1..s : more[i] = old[i]
  BY <1>1, <1>5
<1> HIDE DEF more
<1>7. \A i \in 1..s2 : Spot(n2, s2, i) \in Slots
  BY <1>2, <1>3, SpotIs
<1>8. CASE s < Cap
  <2>1. s2 = s + 1
    BY <1>8 DEF PushOf
  <2>2. Newest(more, Cap) = more
    BY <1>1, <1>6, <1>8 DEF Newest, Ring!Log!Newest
  <2>3. ASSUME NEW i \in 1..s2
        PROVE  b2[Spot(n2, s2, i)] = more[i]
    <3>1. CASE i = s + 1
      <4>1. Spot(n2, s2, i) = n
        BY <1>1, <1>2, <2>1, <3>1 DEF Spot
      <4> QED BY <1>4, <1>6, <3>1, <4>1
    <3>2. CASE i # s + 1
      <4>1. i \in 1..s
        BY <1>1, <2>1, <3>2
      <4>2. Spot(n2, s2, i) = Spot(n, s, i) /\ Spot(n, s, i) # n
        <5>1. PICK k \in Nat : k = Cap
          BY <1>1
        <5>2. i \in Nat /\ 1 <= i /\ i <= s /\ s < k /\ n < k /\ s \in Nat /\ n \in Nat
          BY <1>1, <1>8, <4>1, <5>1
        <5>3. CASE n + 1 = k
          BY <1>2, <2>1, <5>1, <5>2, <5>3 DEF Spot
        <5>4. CASE n + 1 # k
          BY <1>2, <2>1, <5>1, <5>2, <5>4 DEF Spot
        <5> QED BY <5>3, <5>4
      <4>3. Spot(n, s, i) \in Slots
        BY <1>1, <4>1, SpotIs
      <4> QED BY <1>4, <1>5, <1>6, <4>1, <4>2, <4>3
    <3> QED BY <3>1, <3>2
  <2>4. Shown(b2, n2, s2) = more
    <3>1. more = [i \in 1..s2 |-> more[i]]
      BY <1>6, <2>1, SeqIs
    <3> QED BY <2>3, <3>1 DEF Shown
  <2>5. Whole(b2, n2, s2)
    BY <1>2, <1>3, <1>4, <1>6, <2>4 DEF Whole
  <2> QED BY <2>2, <2>4, <2>5 DEF more, old
<1>9. CASE ~(s < Cap)
  <2>1. s2 = Cap /\ s = Cap
    BY <1>1, <1>9 DEF PushOf
  <2>2. PICK cut : cut = SubSeq(more, 2, Cap + 1)
    OBVIOUS
  <2>3. Newest(more, Cap) = cut
    <3>1. Len(more) = Cap + 1 /\ ~(Cap + 1 <= Cap) /\ (Cap + 1) - Cap + 1 = 2
      BY <1>1, <1>6, <2>1
    <3> QED BY <2>2, <3>1 DEF Newest, Ring!Log!Newest
  <2>4. /\ cut \in Seq(Denials) /\ DOMAIN cut = 1..Cap
        /\ cut = [i \in 1..Cap |-> cut[i]]
        /\ \A i \in 1..Cap : cut[i] = more[i + 1]
    BY <1>1, <1>6, <2>1, <2>2
  <2>5. ASSUME NEW i \in 1..Cap
        PROVE  b2[Spot(n2, Cap, i)] = more[i + 1]
    <3>1. CASE i = Cap
      <4>1. Spot(n2, Cap, i) = n
        BY <1>1, <1>2, <3>1 DEF Spot
      <4> QED BY <1>4, <1>6, <2>1, <3>1, <4>1
    <3>2. CASE i # Cap
      <4>1. i + 1 \in 1..s /\ i + 1 \in 1..Cap
        BY <1>1, <2>1, <3>2
      <4>2. Spot(n2, Cap, i) = Spot(n, s, i + 1) /\ Spot(n, s, i + 1) # n
        BY <1>1, <1>2, <2>1, <4>1 DEF Spot
      <4>3. Spot(n, s, i + 1) \in Slots
        BY <1>1, <4>1, SpotIs
      <4> QED BY <1>4, <1>5, <1>6, <4>1, <4>2, <4>3
    <3> QED BY <3>1, <3>2
  <2>6. Shown(b2, n2, s2) = cut
    BY <2>1, <2>4, <2>5 DEF Shown
  <2>7. Whole(b2, n2, s2)
    BY <1>2, <1>3, <1>4, <2>4, <2>6 DEF Whole
  <2> QED BY <2>3, <2>6, <2>7 DEF more, old
<1> QED BY <1>8, <1>9
-----------------------------------------------------------------------------
(* Induction over the natural numbers, from a set that has the ones for which
   a fact holds: of the library, the least element of a well-founded set. *)

LEMMA LeastNatural ==
  ASSUME NEW T, T \subseteq Nat, T # {}
  PROVE  \E x \in T : \A y \in T : ~(y < x)
<1>1. \E x \in T : \A y \in T : ~(<<y, x>> \in OpToRel(<, Nat))
  BY NatLessThanWellFounded, WFMin
<1> QED BY <1>1 DEF OpToRel

LEMMA Induction ==
  ASSUME NEW T, 0 \in T, \A n \in Nat : n \in T => n + 1 \in T
  PROVE  Nat \subseteq T
<1> DEFINE Rest == {n \in Nat : n \notin T}
<1> SUFFICES ASSUME Rest # {} PROVE FALSE
  OBVIOUS
<1>1. PICK x \in Rest : \A y \in Rest : ~(y < x)
  BY LeastNatural
<1>2. x # 0 /\ x - 1 \in Nat /\ x - 1 < x
  BY <1>1
<1>3. x - 1 \in T
  BY <1>1, <1>2
<1> QED BY <1>1, <1>2, <1>3

(* LoadSnapshot of no more events than the ring holds: it shows them. *)
Empty == [i \in Slots |-> Zero]
LoadedUpTo(f, events) ==
  f = [i \in 0..Len(events) |->
         IF i = 0 THEN [buf |-> Empty, next |-> 0, size |-> 0]
                  ELSE Ring!Pushed(f[i - 1], events[i])]

(* The ring after i of the events. *)
Filled(events, i) ==
  [buf |-> [j \in Slots |-> IF j < i THEN events[j + 1] ELSE Zero],
   next |-> IF i = Cap THEN 0 ELSE i,
   size |-> i]

LEMMA FilledMore ==
  ASSUME NEW events \in Seq(Denials), Len(events) <= Cap, NEW i \in Nat, i + 1 <= Len(events)
  PROVE  Ring!Pushed(Filled(events, i), events[i + 1]) = Filled(events, i + 1)
<1> DEFINE r == Filled(events, i)
           e == events[i + 1]
<1>1. /\ Cap \in Nat /\ i < Cap /\ i # Cap /\ i \in Slots /\ Len(events) \in Nat
  BY CapFacts DEF Slots
<1>2. r.next = i /\ r.size = i /\ r.buf = [j \in Slots |-> IF j < i THEN events[j + 1] ELSE Zero]
  BY <1>1 DEF Filled
<1>3. [r.buf EXCEPT ![i] = e] = [j \in Slots |-> IF j < i + 1 THEN events[j + 1] ELSE Zero]
  <2>1. \A j \in Slots : j \in Nat /\ (j < i + 1 <=> j < i \/ j = i)
    BY <1>1 DEF Slots
  <2> QED BY <1>1, <1>2, <2>1
<1>4. (i + 1) % Cap = IF i + 1 = Cap THEN 0 ELSE i + 1
  BY <1>1, Wraps
<1> HIDE DEF r
<1>5. Ring!Pushed(r, e) = [buf |-> [r.buf EXCEPT ![i] = e],
                           next |-> (i + 1) % Cap, size |-> i + 1]
  BY <1>1, <1>2 DEF Ring!Pushed, Cap
<1> QED BY <1>3, <1>4, <1>5 DEF r, Filled

LEMMA LoadIs ==
  ASSUME NEW events \in Seq(Denials), Len(events) <= Cap
  PROVE  Ring!LoadSnapshot(events) = Filled(events, Len(events))
<1> DEFINE n == Len(events)
           f == CHOOSE f : LoadedUpTo(f, events)
           g == [i \in 0..n |-> Filled(events, i)]
           T == {m \in Nat : m <= n => f[m] = Filled(events, m)}
<1>1. n \in Nat
  OBVIOUS
<1>2. Ring!LoadSnapshot(events) = f[n]
  BY DEF Ring!LoadSnapshot, LoadedUpTo, Ring!EmptyBuf, Empty, Slots, Cap
<1>3. Filled(events, 0) = [buf |-> Empty, next |-> 0, size |-> 0]
  <2>1. Cap # 0 /\ \A j \in Slots : ~(j < 0)
    BY CapFacts DEF Slots
  <2> QED BY <2>1 DEF Filled, Empty
<1>4. LoadedUpTo(g, events)
  <2>1. ASSUME NEW i \in 0..n
        PROVE  g[i] = IF i = 0 THEN [buf |-> Empty, next |-> 0, size |-> 0]
                      ELSE Ring!Pushed(g[i - 1], events[i])
    <3>1. CASE i = 0
      BY <1>3, <3>1
    <3>2. CASE i # 0
      <4>1. i - 1 \in Nat /\ (i - 1) + 1 = i /\ (i - 1) + 1 <= n /\ i - 1 \in 0..n
        BY <1>1, <3>2
      <4>2. Ring!Pushed(Filled(events, i - 1), events[i]) = Filled(events, i)
        BY <4>1, FilledMore
      <4>3. g[i] = Filled(events, i) /\ g[i - 1] = Filled(events, i - 1)
        BY <4>1
      <4> QED BY <3>2, <4>2, <4>3
    <3> QED BY <3>1, <3>2
  <2>2. g = [i \in 0..n |-> g[i]]
    OBVIOUS
  <2> HIDE DEF g
  <2> QED BY <2>1, <2>2 DEF LoadedUpTo
<1>5. LoadedUpTo(f, events)
  BY <1>4
<1> HIDE DEF f, g
<1>6. \A i \in 0..n : f[i] = IF i = 0 THEN [buf |-> Empty, next |-> 0, size |-> 0]
                             ELSE Ring!Pushed(f[i - 1], events[i])
  BY <1>5 DEF LoadedUpTo
<1>7. 0 \in T
  BY <1>1, <1>3, <1>6
<1>8. ASSUME NEW m \in Nat, m \in T
      PROVE  m + 1 \in T
  <2> SUFFICES ASSUME m + 1 <= n PROVE f[m + 1] = Filled(events, m + 1)
    OBVIOUS
  <2>1. m <= n /\ m + 1 \in 0..n /\ m + 1 # 0 /\ (m + 1) - 1 = m
    BY <1>1
  <2>2. f[m + 1] = Ring!Pushed(Filled(events, m), events[m + 1])
    BY <1>6, <1>8, <2>1
  <2> QED BY <2>2, FilledMore
<1>9. Nat \subseteq T
  BY <1>7, <1>8, Induction
<1> QED BY <1>1, <1>2, <1>9

LEMMA FilledShows ==
  ASSUME NEW events \in Seq(Denials), Len(events) <= Cap,
         NEW r, r = Filled(events, Len(events))
  PROVE  Whole(r.buf, r.next, r.size) /\ Shown(r.buf, r.next, r.size) = events
<1> DEFINE n == Len(events)
<1>1. Cap \in Nat /\ Cap >= 1 /\ n \in Nat /\ n <= Cap /\ \A i \in 1..n : events[i] \in Denials
  BY CapFacts
<1>2. /\ r.next = IF n = Cap THEN 0 ELSE n
      /\ r.size = n /\ n \in 0..Cap
      /\ r.buf = [j \in Slots |-> IF j < n THEN events[j + 1] ELSE Zero]
  BY <1>1 DEF Filled
<1>3. r.next \in Slots
  BY <1>1, <1>2 DEF Slots
<1>4. ASSUME NEW i \in 1..n
      PROVE  r.buf[Spot(r.next, n, i)] = events[i]
  <2>1. PICK k \in Nat : k = n
    BY <1>1
  <2>2. PICK m \in Nat : m = r.next /\ m = IF k = Cap THEN 0 ELSE k
    BY <1>1, <1>2, <2>1
  <2>3. Spot(m, k, i) = i - 1 /\ i - 1 \in 0..(Cap - 1) /\ i - 1 < k /\ (i - 1) + 1 = i
    BY <1>1, <2>1, <2>2 DEF Spot
  <2> QED BY <1>2, <2>1, <2>2, <2>3 DEF Slots
<1>5. Shown(r.buf, r.next, n) = events
  BY <1>4, SeqIs DEF Shown
<1>6. r.buf \in [Slots -> Denials \cup {Zero}]
  <2>1. ASSUME NEW j \in Slots, j < n
        PROVE  events[j + 1] \in Denials
    BY <1>1, <2>1 DEF Slots
  <2> QED BY <1>2, <2>1
<1> QED BY <1>2, <1>3, <1>5, <1>6 DEF Whole
-----------------------------------------------------------------------------
(* Every step of Egress is one of the log's: RingInv is kept on the way. *)
ringNow == [buf |-> buf, next |-> next, size |-> size]
Pushes == \E e \in Denials :
            /\ Ring!Become(Ring!Pushed(ringNow, e))
            /\ Ring!persist \/ disk' = disk
RingStep == UNCHANGED ringVars \/ Ring!Put \/ Pushes \/ Ring!Restart

LEMMA KeyDenied == ASSUME NEW k \in Id \cup {P!NoKey} PROVE Ring!splitKey(<<k>>) \in Denials
<1>1. <<k>> \in Ring!SandboxKey
  <2>1. CASE k = P!NoKey
    BY <2>1 DEF Ring!SandboxKey, P!NoKey
  <2>2. CASE k \in Id
    <3>1. PICK s \in Sandbox : k = s.id
      BY <2>2, EgressAssumption
    <3> QED BY <3>1 DEF Ring!SandboxKey
  <2> QED BY <2>1, <2>2
<1> QED BY <1>1 DEF Denials, Ring!Event

LEMMA EveryRingStep == ASSUME RulesInv, [Next]_vars PROVE RingStep
<1>1. CASE UNCHANGED vars
  BY <1>1 DEF vars, ringVars, RingStep
<1>2. ASSUME NEW p \in Proc,
             \/ Launch(p) \/ Launching(p) \/ Put(p) \/ Tell(p)
             \/ Ends(p) \/ TearDown(p) \/ Reattach(p)
      PROVE  RingStep
  BY <1>2 DEF Launch, Launching, Put, Tell, Ends, TearDown, Reattach, Beside, RingStep
<1>3. ASSUME NEW i \in Id, (\E urls \in AllowURLs : UpdatePut(i, urls)) \/ UpdateTell(i)
      PROVE  RingStep
  BY <1>3 DEF UpdatePut, UpdateTell, RingStep
<1>4. ASSUME NEW c \in Conn, (\E p \in Proc : Ask(p, c)) \/ Proceed(c) \/ Client(c)
      PROVE  RingStep
  BY <1>4 DEF Ask, Proceed, Client, RingStep
<1>5. ASSUME NEW c \in Conn, Refuse(c)
      PROVE  RingStep
  <2>1. conn[c].at \in {"check", "peek"} /\ Ring!RecordDenied(<<conn[c].key>>)
    BY <1>5 DEF Refuse, P!Deny, P!PeekDeny
  <2>2. conn[c].key \in Id \cup {P!NoKey}
    <3>1. conn[c] # P!Free
      BY <2>1 DEF P!Free
    <3> QED BY <3>1 DEF RulesInv, ConnInv, Handler, ConnRec
  <2>3. PICK e : e = Ring!splitKey(<<conn[c].key>>)
    OBVIOUS
  <2>4. e \in Denials
    BY <2>2, <2>3, KeyDenied
  <2>5. /\ Ring!Become(Ring!Pushed(ringNow, e))
        /\ Ring!persist \/ Ring!NotPersisted
    BY <2>1, <2>3 DEF Ring!RecordDenied, ringNow
  <2> QED BY <2>4, <2>5 DEF RingStep, Pushes, Ring!NotPersisted
<1>6. CASE Crash
  BY <1>6 DEF Crash, RingStep
<1> QED BY <1>1, <1>2, <1>3, <1>4, <1>5, <1>6 DEF Next

Step == /\ RingInv'
        /\ [Ring!Log!Next]_(Ring!Log!vars)

LEMMA LogPushed == ASSUME RingInv, Pushes PROVE Step
<1>1. PICK e \in Denials : /\ Ring!Become(Ring!Pushed(ringNow, e))
                           /\ Ring!persist \/ disk' = disk
  BY DEF Pushes
<1>2. /\ buf' = [buf EXCEPT ![next] = e] /\ next' = (next + 1) % Cap
      /\ size' = IF size < Cap THEN size + 1 ELSE size
  BY <1>1 DEF Ring!Become, Ring!Pushed, ringNow, Cap
<1>3. /\ Whole(buf', next', size')
      /\ Shown(buf', next', size') = Newest(Append(Shown(buf, next, size), e), Cap)
  <2>1. Whole(buf, next, size) /\ PushOf(buf, next, size, e, buf', next', size')
    BY <1>2 DEF RingInv, PushOf
  <2> QED BY <2>1, PushShows
<1>4. /\ Ring!Snapshot = Shown(buf, next, size)
      /\ Ring!Snapshot' = Shown(buf', next', size')
  BY <1>3, SnapshotIs, SnapshotThen DEF RingInv, Whole
<1>5. disk' \in {disk, Ring!Snapshot'}
  BY <1>1 DEF Ring!persist
<1>6. Ring!Log!Record(e)
  BY <1>3, <1>4, <1>5 DEF Ring!Log!Record, Newest, Cap
<1>7. disk' \in Seq(Denials) /\ Len(disk') <= Cap
  BY <1>3, <1>4, <1>5, ShownLen DEF RingInv, Whole
<1> QED BY <1>3, <1>6, <1>7 DEF Step, RingInv, Ring!Log!Next, Denials

LEMMA LogPut == ASSUME RingInv, Ring!Put PROVE Step
<1>1. UNCHANGED <<buf, next, size>> /\ (Ring!persist \/ disk' = disk)
  BY DEF Ring!Put, Ring!NotPersisted
<1>2. /\ Ring!Snapshot = Shown(buf, next, size)
      /\ Ring!Snapshot' = Ring!Snapshot
      /\ Whole(buf', next', size')
  BY <1>1, SnapshotIs, SnapshotThen DEF RingInv, Whole
<1>3. disk' \in {disk, Ring!Snapshot}
  BY <1>1, <1>2 DEF Ring!persist
<1>4. disk' \in Seq(Denials) /\ Len(disk') <= Cap
  BY <1>2, <1>3, ShownLen DEF RingInv, Whole
<1>5. Ring!Log!Save \/ UNCHANGED Ring!Log!vars
  BY <1>2, <1>3 DEF Ring!Log!Save, Ring!Log!vars
<1> QED BY <1>2, <1>4, <1>5 DEF Step, RingInv, Ring!Log!Next

LEMMA LogRestart == ASSUME RingInv, Ring!Restart PROVE Step
<1>1. PICK r : r = Filled(disk, Len(disk))
  OBVIOUS
<1>2. Ring!LoadSnapshot(disk) = r /\ Whole(r.buf, r.next, r.size)
      /\ Shown(r.buf, r.next, r.size) = disk
  BY <1>1, LoadIs, FilledShows DEF RingInv
<1>3. buf' = r.buf /\ next' = r.next /\ size' = r.size /\ disk' = disk
  BY <1>2 DEF Ring!Restart, Ring!Become
<1>4. Whole(buf', next', size') /\ Ring!Snapshot' = disk
  BY <1>2, <1>3, SnapshotThen DEF Whole
<1>5. Ring!Log!Restart
  BY <1>3, <1>4 DEF Ring!Log!Restart
<1> QED BY <1>3, <1>4, <1>5 DEF Step, RingInv, Ring!Log!Next

LEMMA LogIdle == ASSUME RingInv, UNCHANGED ringVars PROVE Step
<1>1. UNCHANGED <<buf, next, size, disk>>
  BY DEF ringVars
<1>2. Ring!Snapshot' = Ring!Snapshot
  BY <1>1 DEF Ring!Snapshot, Ring!Last
<1> QED BY <1>1, <1>2 DEF Step, RingInv, Ring!Log!vars

LEMMA LogStep == ASSUME RulesInv, RingInv, [Next]_vars PROVE Step
BY EveryRingStep, LogIdle, LogPut, LogPushed, LogRestart DEF RingStep

LEMMA LogInit == Init => RingInv /\ Ring!Log!Init
<1> SUFFICES ASSUME Init PROVE RingInv /\ Ring!Log!Init
  OBVIOUS
<1>1. buf = [i \in Slots |-> Zero] /\ next = 0 /\ size = 0 /\ disk = <<>>
  BY DEF Init, Ring!Init, Ring!EmptyBuf, Slots, Cap
<1>2. 0 \in Slots /\ 0 \in 0..Cap /\ <<>> \in Seq(Denials) /\ Len(<<>>) <= Cap
  BY CapFacts DEF Slots
<1>3. Shown(buf, 0, 0) = <<>>
  BY DEF Shown
<1>4. Ring!Snapshot = <<>>
  BY <1>1, <1>2, <1>3, SnapshotIs
<1> QED BY <1>1, <1>2, <1>3, <1>4 DEF RingInv, Whole, Ring!Log!Init

(* Whatever is denied, saved, not saved and loaded again, the ring's indices
   stay within its array and what it shows are denials of some sandbox. *)
THEOREM RingInvariant == Spec => []RingInv
<1>1. Init => RingInv
  BY LogInit
<1>2. RulesInv /\ RingInv /\ [Next]_vars => RingInv'
  BY LogStep DEF Step
<1> QED BY <1>1, <1>2, RulesInvariant, PTL DEF Spec

(* events.go: Push, Last and LoadSnapshot keep, save and load the newest `cap'
   denials in their order: the ring implements DeniedLog. *)
THEOREM RingKeepsNewest == Spec => KeepsNewest
<1>1. Init => Ring!Log!Init
  BY LogInit
<1>2. RulesInv /\ RingInv /\ [Next]_vars => [Ring!Log!Next]_(Ring!Log!vars)
  BY LogStep DEF Step
<1> QED BY <1>1, <1>2, RulesInvariant, RingInvariant, PTL
        DEF Spec, KeepsNewest, Ring!KeepsNewest, Ring!Log!Spec

(* Everything on the way out of a sandbox has its type; the ring shows no slot
   that no denial was written to. *)
THEOREM EgressTyped == Spec => []EgressTypeOK
<1>1. NetInv /\ TabInv /\ ConnInv /\ RingInv => EgressTypeOK
  <2> SUFFICES ASSUME NetInv, TabInv, ConnInv, RingInv PROVE EgressTypeOK
    OBVIOUS
  <2>1. nextAddr \in Addr
    BY DEF NetInv, NetType
  <2>2. \A p \in Proc : net[p].addr \in Addr \cup {0} /\ net[p].slirp \in {"none", "up", "gone"}
    BY DEF NetInv, NetType, NetRec
  <2>3. \A i \in Id : rec[i].proc \in Proc \cup {NoProc} /\ rec[i].urls \in AllowURLs
    BY DEF TabInv, RecRec
  <2>4. \A c \in Conn : conn[c].at \in {"idle", "resolve", "check", "forward", "peek", "dial",
                                     "relay", "denied", "closed"}
    BY DEF ConnInv, Handler, ConnRec, P!Free
  <2>5. \A a \in Addr : addrIndex[a] \in Id \cup {P!NoKey}
    BY DEF TabInv
  <2>6. Ring!TypeOK
    <3>1. buf \in [0..(Cap - 1) -> Denials \cup {Zero}] /\ next \in 0..(Cap - 1) /\ size \in 0..Cap
      BY DEF RingInv, Whole, Slots
    <3>2. \A i \in 1..size : Ring!Snapshot[i] \in Denials
      BY SnapshotIs, ShownIn DEF RingInv, Whole
    <3> QED BY <3>1, <3>2 DEF RingInv, Ring!TypeOK, Cap, Denials
  <2> QED BY <2>1, <2>2, <2>3, <2>4, <2>5, <2>6 DEF EgressTypeOK
<1> QED BY <1>1, RulesInvariant, RingInvariant, PTL DEF RulesInv

(* events.go 50: Last(n) is, for every n, the end of what Snapshot saves. *)
THEOREM LastsAgree == Spec => []LastAgrees
<1>1. RingInv => LastAgrees
  <2> SUFFICES ASSUME RingInv, NEW n \in -1..(Cap + 1)
               PROVE  Ring!Last(n) = Ring!Log!Newest(Ring!Snapshot, IF n < 0 THEN 0 ELSE n)
    BY DEF LastAgrees, Ring!LastAgrees, Cap
  <2> DEFINE all == Shown(buf, next, size)
             m == Within(n, size)
             k == IF n < 0 THEN 0 ELSE n
  <2>1. /\ n \in Int /\ size \in Nat /\ size <= Cap /\ Cap \in Nat /\ k \in Nat
        /\ next \in Nat /\ next < Cap /\ next \in Slots /\ size \in 0..Cap
    BY CapFacts DEF RingInv, Whole, Slots
  <2>2. Ring!Last(n) = Shown(buf, next, m) /\ Ring!Snapshot = all
    BY <2>1, LastIs, SnapshotIs
  <2>3. /\ Len(all) = size /\ all \in Seq(Denials)
        /\ \A i \in 1..size : all[i] = buf[Spot(next, size, i)]
    BY <2>1, ShownLen DEF RingInv, Whole, Shown
  <2>4. m \in 0..size /\ m \in Nat /\ m <= size
    BY <2>1 DEF Within
  <2>5. CASE size <= k
    <3>1. m = size
      BY <2>1, <2>5 DEF Within
    <3>2. Newest(all, k) = all
      BY <2>3, <2>5 DEF Newest, Ring!Log!Newest
    <3> QED BY <2>2, <3>1, <3>2 DEF Newest
  <2>6. CASE ~(size <= k)
    <3>1. m = k
      BY <2>1, <2>6 DEF Within
    <3>2. PICK cut : cut = SubSeq(all, size - k + 1, size)
      OBVIOUS
    <3> HIDE DEF all
    <3>3. Newest(all, k) = cut
      BY <2>3, <2>6, <3>2 DEF Newest, Ring!Log!Newest
    <3>4. /\ cut \in Seq(Denials) /\ Len(cut) = k
          /\ \A i \in 1..k : cut[i] = all[size - k + i]
      BY <2>1, <2>3, <2>6, <3>2
    <3>5. ASSUME NEW i \in 1..k
          PROVE  cut[i] = buf[Spot(next, k, i)]
      <4>1. size - k + i \in 1..size
        BY <2>1, <2>6
      <4>2. Spot(next, size, size - k + i) = Spot(next, k, i)
        BY <2>1, <2>6 DEF Spot
      <4> QED BY <2>3, <3>4, <4>1, <4>2
    <3>6. cut = Shown(buf, next, k)
      BY <3>4, <3>5, SeqIs DEF Shown
    <3> QED BY <2>2, <3>1, <3>3, <3>6 DEF Newest
  <2> QED BY <2>5, <2>6
<1> QED BY <1>1, RingInvariant, PTL
=============================================================================
