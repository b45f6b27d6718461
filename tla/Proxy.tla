------------------------------- MODULE Proxy -------------------------------
(***************************************************************************)
(* internal/proxy/proxy.go: the two tables of the Server and its handlers, *)
(* cut where they take a lock or wait for the network.  A connection is    *)
(* told apart by the loopback address it comes from.                       *)
(***************************************************************************)
EXTENDS Allowlist, Naturals

CONSTANTS
  Id,        \* sandbox ids: the keys the manager registers
  SrcAddr,   \* addresses a connection can come from
  Conn,      \* connections
  Request,   \* [method, scheme, host, port, path]
  Hello,     \* what a CONNECT's client sends first: [tls, name, parts]
  MaxPeek    \* parts read before the server name is given up

VARIABLES
  rules,      \* Server.rules: an Allowlist by id; swapped in place
  addrIndex,  \* Server.addrIndex
  conn        \* the handlers' locals

NoRules == {}   \* no entry in `rules' and an empty one refuse alike
NoKey == ""
Free == [at |-> "idle"]
NoHello == [tls |-> FALSE, name |-> "", parts |-> 1]   \* of a plain request

proxyVars == <<rules, addrIndex, conn>>

ProxyInit == /\ rules = [i \in Id |-> NoRules]
             /\ addrIndex = [a \in SrcAddr |-> NoKey]
             /\ conn = [c \in Conn |-> Free]

SetAllowlist(i, entries) == rules' = [rules EXCEPT ![i] = Rules(entries)]
RegisterSandboxAddr(i, a) == addrIndex' = [addrIndex EXCEPT ![a] = i]

Tables == UNCHANGED <<rules, addrIndex>>
Become(c, r) == conn' = [conn EXCEPT ![c] = r]
Goto(c, point) == Become(c, [conn[c] EXCEPT !.at = point])

(* A request arrives on a new connection from address a. *)
Arrive(c, a, request, hello) ==
  /\ conn[c].at = "idle"
  /\ Become(c, [at |-> "resolve", from |-> a, key |-> NoKey, request |-> request,
                hello |-> hello, got |-> 0])
  /\ Tables

(* SandboxKeyFunc, resolveSandboxKeyByAddr *)
Resolve(c) ==
  /\ conn[c].at = "resolve"
  /\ Become(c, [conn[c] EXCEPT !.key = addrIndex[conn[c].from], !.at = "check"])
  /\ Tables

(* SandboxKeyFunc's ok, allowlistFor and the match *)
Allows(key, request) ==
  /\ key # NoKey
  /\ IF request.method = "CONNECT"
     THEN AllowsHost(rules[key], request.host, request.port)
     ELSE AllowsHTTP(rules[key], request)

(* handleHTTP and handleCONNECT: the decision.  What is allowed is forwarded,
   or hijacked and told 200 with its client's first bytes still to come. *)
Admit(c) ==
  /\ conn[c].at = "check" /\ Allows(conn[c].key, conn[c].request)
  /\ Goto(c, IF conn[c].request.method = "CONNECT" THEN "peek" ELSE "forward")
  /\ Tables

Deny(c) ==
  /\ conn[c].at = "check" /\ ~Allows(conn[c].key, conn[c].request)
  /\ Goto(c, "denied")
  /\ Tables

(* The client closes before the 200 is written. *)
HangUp(c) == conn[c].at = "peek" /\ conn[c].got = 0 /\ Goto(c, "closed") /\ Tables

(* Slip: a name that is not allowed passes since the target was. *)
PeekTrusting(c) ==
  /\ conn[c].at = "peek"
  /\ Become(c, [conn[c] EXCEPT !.got = @ + 1,
       !.at = IF \/ ExtractSNI(conn[c].hello, conn[c].got + 1) # ""
                 \/ conn[c].got + 1 >= MaxPeek
              THEN "dial" ELSE "peek"])
  /\ Tables

SNIAllowed(c) ==
  AllowsHost(rules[conn[c].key], conn[c].hello.name, conn[c].request.port)

(* peekAndCrossCheckSNI reads another part: a whole ClientHello decides; with
   16K read and no name, the target it was admitted for is enough. *)
Peek(c) ==
  LET got == conn[c].got + 1
      name == ExtractSNI(conn[c].hello, got)
  IN  /\ conn[c].at = "peek"
      /\ name = "" \/ SNIAllowed(c)
      /\ Become(c, [conn[c] EXCEPT !.got = got,
                      !.at = IF name # "" \/ got >= MaxPeek THEN "dial" ELSE "peek"])
      /\ Tables

PeekDeny(c) ==
  LET got == conn[c].got + 1
  IN  /\ conn[c].at = "peek" /\ ExtractSNI(conn[c].hello, got) # "" /\ ~SNIAllowed(c)
      /\ Become(c, [conn[c] EXCEPT !.got = got, !.at = "denied"])
      /\ Tables

(* Slip: the deadline is set once something has been read. *)
PeekTimeoutArmed(c) ==
  conn[c].at = "peek" /\ conn[c].got > 0 /\ Goto(c, "dial") /\ Tables

(* The read's deadline, or the client's end of its stream. *)
PeekTimeout(c) == conn[c].at = "peek" /\ Goto(c, "dial") /\ Tables

(* The backend is dialled, what was read is replayed to it, and both sides
   are relayed; or the dial fails. *)
Dial(c) == /\ conn[c].at = "dial"
           /\ Goto(c, "relay") \/ Goto(c, "closed")
           /\ Tables

(* forwardHTTP's RoundTrip ends, with a response or a 502; a relay ends when
   either side closes; a denied request has its 403. *)
Finish(c) == /\ conn[c].at \in {"forward", "relay", "denied", "closed"}
             /\ Become(c, Free)
             /\ Tables
=============================================================================
