---------------------------- MODULE AttachProofs ----------------------------
(***************************************************************************)
(* The theorems about an attach and about the console that makes many, for *)
(* any number of connections and sandboxes, any output and replay buffer:  *)
(* a served client misses no output (MissInv), murod holds one session to  *)
(* a shim (SlotInv), and the console shows what it was asked for (TuiInv). *)
(***************************************************************************)
EXTENDS AttachProperties, ConsoleProperties, FiniteSetTheorems, TLAPS

ConnRec == [handler: {"none", "try", "dial", "reply", "relay", "unwind", "detach"},
            target: Sandbox \cup {None},
            client: {"closed", "waiting", "answered", "refused", "open"},
            server: BOOLEAN, pty: {"none", "open", "closed"}, ended: BOOLEAN,
            got: SUBSET Nat]
ShimRec == [read: Nat, hand: Conn \cup {None}, current: Conn \cup {None},
            serving: Conn \cup {None}, stage: {"accept", "snapshot", "send", "relay"},
            snap: SUBSET Nat, backlog: Seq(Conn)]

StreamTypes ==
  /\ conn \in [Conn -> ConnRec]
  /\ shim \in [Sandbox -> ShimRec]
  /\ slot \subseteq Sandbox /\ stops \in Nat
  /\ \A c \in Conn : conn[c].handler # "none" => conn[c].target \in Sandbox

(* The shim sets the receiver with the connection it serves; only between
   Snapshot and SendReplay does it hold a copy of the replay buffer. *)
Serving(s) ==
  /\ shim[s].current = shim[s].serving
  /\ shim[s].serving = None <=> shim[s].stage = "accept"
  /\ shim[s].stage # "send" => shim[s].snap = {}

(* What a shim holds of connections is of its own sandbox; a connection waits
   there once, and nothing has been sent to one that waits. *)
Waiting(s, i) == shim[s].backlog[i]
Queue(s) ==
  /\ shim[s].hand # None => conn[shim[s].hand].target = s
  /\ shim[s].serving # None => /\ conn[shim[s].serving].target = s
                               /\ conn[shim[s].serving].pty # "none"
  /\ \A i \in DOMAIN shim[s].backlog :
       /\ conn[Waiting(s, i)].target = s /\ conn[Waiting(s, i)].pty # "none"
       /\ conn[Waiting(s, i)].got = {}
       /\ Waiting(s, i) \notin {shim[s].hand, shim[s].serving}
       /\ \A j \in DOMAIN shim[s].backlog : Waiting(s, i) = Waiting(s, j) => i = j

(* A connection the shim has not been asked for yet is nowhere. *)
Unasked(c) ==
  conn[c].handler \in {"try", "dial"} =>
    /\ conn[c].pty = "none" /\ conn[c].got = {}
    /\ \A s \in Sandbox : /\ c \notin {shim[s].hand, shim[s].serving}
                          /\ \A i \in DOMAIN shim[s].backlog : Waiting(s, i) # c

(* What the connection served has been sent, is about to be handed, or will get
   with the replay. *)
Due(s) == IF shim[s].hand = shim[s].serving THEN {shim[s].read} ELSE {}
All(s) == conn[shim[s].serving].got \cup Due(s) \cup shim[s].snap
Whole(s) ==
  shim[s].serving # None /\ conn[shim[s].serving].pty = "open" =>
    /\ \A m \in All(s) : m..shim[s].read \subseteq All(s)
    /\ shim[s].stage # "snapshot" => Replay(s) \subseteq All(s)

MissInv ==
  /\ StreamTypes
  /\ \A s \in Sandbox : Serving(s) /\ Queue(s) /\ Whole(s)
  /\ \A c \in Conn : Unasked(c)

(* A handler past TryAttach has its sandbox's slot, where none was freed by
   its key, and no other handler has it. *)
Past(c) == conn[c].handler \notin {"none", "try"}
Owned ==
  \A c \in Conn : Past(c) => /\ conn[c].target \in slot
                             /\ \A d \in Conn : Past(d) /\ conn[d].target = conn[c].target => d = c
SlotInv ==
  /\ StreamTypes /\ SlotBacked
  /\ \A c \in Conn : conn[c].pty = "open" => conn[c].handler \in {"reply", "relay", "unwind"}
  /\ stops = 0 => Owned

(* What the console selects or restarts is a sandbox. *)
Chosen == sel \in Sandbox /\ (starting # None => starting.target \in Sandbox)

(* The console holds the session it shows, and none when it shows nothing;
   where it shows another sandbox than it asked for last, that is on its way. *)
TuiInv ==
  /\ StreamTypes
  /\ sess # None => sess \in Conn /\ conn[sess].client = "open" /\ conn[sess].target = showing
  /\ sess = None => showing = None
  /\ HoldsOne
  /\ showing \notin {pending, None} =>
       \E c \in Conn : /\ conn[c].target = pending
                       /\ conn[c].client \in {"waiting", "answered", "refused"}
-----------------------------------------------------------------------------
(* Types. *)

LEMMA ConnUpdates ==
  ASSUME NEW r \in ConnRec
  PROVE  /\ \A h \in {"none", "try", "dial", "reply", "relay", "unwind", "detach"} :
              [r EXCEPT !.handler = h] \in ConnRec
         /\ \A k \in {"closed", "waiting", "answered", "refused", "open"} :
              [r EXCEPT !.client = k] \in ConnRec
         /\ \A m \in SUBSET Nat : [r EXCEPT !.got = @ \cup m] \in ConnRec
         /\ [r EXCEPT !.ended = TRUE] \in ConnRec
         /\ [r EXCEPT !.server = TRUE] \in ConnRec
         /\ [r EXCEPT !.handler = "relay", !.client = "answered"] \in ConnRec
         /\ [r EXCEPT !.handler = "reply", !.pty = "open"] \in ConnRec
         /\ [r EXCEPT !.handler = "detach", !.pty = "closed"] \in ConnRec
         /\ [r EXCEPT !.handler = "none", !.server = TRUE,
                      !.client = IF @ = "waiting" THEN "refused" ELSE @] \in ConnRec
         /\ [r EXCEPT !.handler = "none", !.server = @ \/ r.handler # "none",
                      !.pty = IF @ = "open" THEN "closed" ELSE @,
                      !.client = IF @ = "waiting" THEN "refused" ELSE @] \in ConnRec
<1>1. /\ [r EXCEPT !.handler = "none", !.server = TRUE,
                   !.client = IF @ = "waiting" THEN "refused" ELSE @] \in ConnRec
      /\ [r EXCEPT !.handler = "none", !.server = @ \/ r.handler # "none",
                   !.pty = IF @ = "open" THEN "closed" ELSE @,
                   !.client = IF @ = "waiting" THEN "refused" ELSE @] \in ConnRec
  <2>1. (r.server \/ r.handler # "none") \in BOOLEAN
    OBVIOUS
  <2>2. CASE r.client = "waiting"
    BY <2>1, <2>2 DEF ConnRec
  <2>3. CASE r.client # "waiting"
    BY <2>1, <2>3 DEF ConnRec
  <2> QED BY <2>2, <2>3
<1>2. \A m \in SUBSET Nat : [r EXCEPT !.got = @ \cup m] \in ConnRec
  BY DEF ConnRec
<1>3. \A h \in {"none", "try", "dial", "reply", "relay", "unwind", "detach"} :
        [r EXCEPT !.handler = h] \in ConnRec
  BY DEF ConnRec
<1>4. \A k \in {"closed", "waiting", "answered", "refused", "open"} :
        [r EXCEPT !.client = k] \in ConnRec
  BY DEF ConnRec
<1>5. /\ [r EXCEPT !.ended = TRUE] \in ConnRec
      /\ [r EXCEPT !.server = TRUE] \in ConnRec
      /\ [r EXCEPT !.handler = "relay", !.client = "answered"] \in ConnRec
      /\ [r EXCEPT !.handler = "reply", !.pty = "open"] \in ConnRec
      /\ [r EXCEPT !.handler = "detach", !.pty = "closed"] \in ConnRec
  BY DEF ConnRec
<1> QED BY <1>1, <1>2, <1>3, <1>4, <1>5

LEMMA ShimUpdates ==
  ASSUME NEW r \in ShimRec
  PROVE  /\ \A c \in Conn : [r EXCEPT !.backlog = Append(@, c)] \in ShimRec
         /\ [r EXCEPT !.read = @ + 1, !.hand = r.current] \in ShimRec
         /\ [r EXCEPT !.hand = None] \in ShimRec
         /\ \A m \in SUBSET Nat : [r EXCEPT !.snap = m, !.stage = "send"] \in ShimRec
         /\ [r EXCEPT !.stage = "relay", !.snap = {}] \in ShimRec
         /\ [r EXCEPT !.serving = None, !.current = None,
                      !.stage = "accept", !.snap = {}] \in ShimRec
         /\ NewShim \in ShimRec
<1>1. \A c \in Conn : [r EXCEPT !.backlog = Append(@, c)] \in ShimRec
  <2> SUFFICES ASSUME NEW c \in Conn PROVE [r EXCEPT !.backlog = Append(@, c)] \in ShimRec
    OBVIOUS
  <2>1. r.backlog \in Seq(Conn)
    BY DEF ShimRec
  <2>2. Append(r.backlog, c) \in Seq(Conn)
    BY <2>1
  <2> QED BY <2>2 DEF ShimRec
<1>2. NewShim \in ShimRec
  <2>1. <<>> \in Seq(Conn)
    OBVIOUS
  <2> QED BY <2>1 DEF NewShim, ShimRec
<1>3. \A m \in SUBSET Nat : [r EXCEPT !.snap = m, !.stage = "send"] \in ShimRec
  BY DEF ShimRec
<1>4. [r EXCEPT !.read = @ + 1, !.hand = r.current] \in ShimRec
  <2>1. r.read + 1 \in Nat /\ r.current \in Conn \cup {None}
    BY DEF ShimRec
  <2> QED BY <2>1 DEF ShimRec
<1>5. [r EXCEPT !.hand = None] \in ShimRec
  BY DEF ShimRec
<1>6. [r EXCEPT !.stage = "relay", !.snap = {}] \in ShimRec
  BY DEF ShimRec
<1>7. [r EXCEPT !.serving = None, !.current = None, !.stage = "accept", !.snap = {}] \in ShimRec
  BY DEF ShimRec
<1> QED BY <1>1, <1>2, <1>3, <1>4, <1>5, <1>6, <1>7

LEMMA SentTypes ==
  ASSUME StreamTypes, NEW c, NEW chunks \in SUBSET Nat, conn' = Sent(c, chunks)
  PROVE  /\ conn' \in [Conn -> ConnRec]
         /\ \A d \in Conn : /\ conn'[d].handler = conn[d].handler /\ conn'[d].target = conn[d].target
                            /\ conn'[d].client = conn[d].client /\ conn'[d].pty = conn[d].pty
                            /\ conn'[d].ended = conn[d].ended /\ conn'[d].server = conn[d].server
                            /\ conn'[d].got = IF d = c /\ conn[d].pty = "open"
                                          THEN conn[d].got \cup chunks ELSE conn[d].got
<1>1. conn \in [Conn -> ConnRec]
  BY DEF StreamTypes
<1>2. CASE c \in Conn /\ conn[c].pty = "open"
  <2>1. PICK r \in ConnRec : r = [conn[c] EXCEPT !.got = @ \cup chunks]
    BY <1>1, <1>2, ConnUpdates
  <2>2. conn' = [conn EXCEPT ![c] = r]
    BY <1>1, <1>2, <2>1 DEF Sent
  <2>3. /\ r.handler = conn[c].handler /\ r.target = conn[c].target /\ r.client = conn[c].client
        /\ r.pty = conn[c].pty /\ r.ended = conn[c].ended /\ r.server = conn[c].server
        /\ r.got = conn[c].got \cup chunks
    BY <1>1, <1>2, <2>1 DEF ConnRec
  <2> QED BY <1>1, <1>2, <2>1, <2>2, <2>3
<1>3. CASE ~(c \in Conn /\ conn[c].pty = "open")
  <2>1. conn' = conn
    BY <1>1, <1>3 DEF Sent
  <2> QED BY <1>1, <1>3, <2>1
<1> QED BY <1>2, <1>3

(* A step that leaves the shims alone, or changes one. *)
LEMMA TypesFrom ==
  ASSUME StreamTypes, conn' \in [Conn -> ConnRec],
         \A c \in Conn : \/ conn'[c].handler = "none"
                         \/ conn'[c].target \in Sandbox
                         \/ conn'[c].target = conn[c].target /\ conn[c].handler # "none",
         shim' = shim \/ (\E s \in Sandbox, r \in ShimRec : shim' = [shim EXCEPT ![s] = r]),
         \/ slot' = slot \/ slot' = {}
         \/ \E s \in Sandbox : slot' = slot \cup {s} \/ slot' = slot \ {s},
         stops' = stops \/ stops' = stops + 1
  PROVE  StreamTypes'
<1>1. shim' \in [Sandbox -> ShimRec]
  BY DEF StreamTypes
<1>2. slot' \subseteq Sandbox /\ stops' \in Nat
  BY DEF StreamTypes
<1>3. \A c \in Conn : conn'[c].handler # "none" => conn'[c].target \in Sandbox
  BY DEF StreamTypes
<1> QED BY <1>1, <1>2, <1>3 DEF StreamTypes

(* What the steps of a handler and of a client do to its connection. *)
Moved(c, r) ==
  /\ r \in ConnRec /\ conn' = [conn EXCEPT ![c] = r]
  /\ r.target = conn[c].target /\ r.got = conn[c].got /\ r.ended = conn[c].ended

HandlerMove(c, r) ==
  \/ /\ conn[c].handler = "try" /\ r.handler = "dial" /\ r.pty = conn[c].pty
     /\ r.client = conn[c].client
  \/ /\ conn[c].handler \in {"try", "detach"} /\ r.handler = "none" /\ r.pty = conn[c].pty
     /\ r.client = IF conn[c].client = "waiting" THEN "refused" ELSE conn[c].client
  \/ /\ conn[c].handler = "dial" /\ r.handler = "reply" /\ r.pty = "open"
     /\ r.client = conn[c].client
  \/ /\ conn[c].handler = "dial" /\ r.handler = "detach" /\ r.pty = conn[c].pty
     /\ r.client = conn[c].client
  \/ /\ conn[c].handler = "reply" /\ r.handler \in {"relay", "unwind"} /\ r.pty = conn[c].pty
     /\ r.client = conn[c].client \/ (conn[c].client = "waiting" /\ r.client = "answered")
  \/ /\ conn[c].handler \in {"relay", "unwind", "detach"} /\ r.handler = conn[c].handler
     /\ r.pty = conn[c].pty /\ r.client = conn[c].client
  \/ /\ conn[c].handler = "relay" /\ r.handler = "unwind" /\ r.pty = conn[c].pty
     /\ r.client = conn[c].client
  \/ /\ conn[c].handler = "unwind" /\ r.handler = "detach" /\ r.pty = "closed"
     /\ r.client = conn[c].client

LEMMA HandlerConn ==
  ASSUME StreamTypes, NEW c \in Conn, HandlerStep(c) \/ DetachKeys(c) \/ Type(c)
  PROVE  \E r : Moved(c, r) /\ HandlerMove(c, r)
<1>1. conn[c] \in ConnRec /\ conn \in [Conn -> ConnRec]
  BY DEF StreamTypes
<1>2. CASE AttachTry(c)
  <2>1. CASE SetConn(c, [conn[c] EXCEPT !.handler = "dial"])
    <3>1. PICK r \in ConnRec : r = [conn[c] EXCEPT !.handler = "dial"]
      BY <1>1, ConnUpdates
    <3>2. Moved(c, r)
      BY <1>1, <2>1, <3>1 DEF Moved, SetConn, ConnRec
    <3>3. HandlerMove(c, r)
      BY <1>1, <1>2, <3>1 DEF HandlerMove, AttachTry, At, ConnRec
    <3> QED BY <3>2, <3>3
  <2>2. CASE SetConn(c, Refused(c))
    <3>1. PICK r \in ConnRec : r = Refused(c)
      BY <1>1, ConnUpdates DEF Refused
    <3>2. Moved(c, r)
      BY <1>1, <2>2, <3>1 DEF Moved, SetConn, ConnRec, Refused
    <3>3. HandlerMove(c, r)
      BY <1>1, <1>2, <3>1 DEF HandlerMove, AttachTry, At, ConnRec, Refused
    <3> QED BY <3>2, <3>3
  <2> QED BY <1>2, <2>1, <2>2 DEF AttachTry
<1>3. CASE AttachDial(c)
  <2>1. CASE SetConn(c, [conn[c] EXCEPT !.handler = "reply", !.pty = "open"])
    <3>1. PICK r \in ConnRec : r = [conn[c] EXCEPT !.handler = "reply", !.pty = "open"]
      BY <1>1, ConnUpdates
    <3>2. Moved(c, r)
      BY <1>1, <2>1, <3>1 DEF Moved, SetConn, ConnRec
    <3>3. HandlerMove(c, r)
      BY <1>1, <1>3, <3>1 DEF HandlerMove, AttachDial, At, ConnRec
    <3> QED BY <3>2, <3>3
  <2>2. CASE SetConn(c, [conn[c] EXCEPT !.handler = "detach"])
    <3>1. PICK r \in ConnRec : r = [conn[c] EXCEPT !.handler = "detach"]
      BY <1>1, ConnUpdates
    <3>2. Moved(c, r)
      BY <1>1, <2>2, <3>1 DEF Moved, SetConn, ConnRec
    <3>3. HandlerMove(c, r)
      BY <1>1, <1>3, <3>1 DEF HandlerMove, AttachDial, At, ConnRec
    <3> QED BY <3>2, <3>3
  <2> QED BY <1>3, <2>1, <2>2 DEF AttachDial
<1>4. CASE AttachReply(c)
  <2>1. PICK r \in ConnRec : r = IF conn[c].client = "waiting"
                                 THEN [conn[c] EXCEPT !.handler = "relay", !.client = "answered"]
                                 ELSE [conn[c] EXCEPT !.handler = "unwind"]
    BY <1>1, ConnUpdates
  <2>2. Moved(c, r)
    BY <1>1, <1>4, <2>1 DEF AttachReply, Moved, SetConn, ConnRec
  <2>3. HandlerMove(c, r)
    BY <1>1, <1>4, <2>1 DEF HandlerMove, AttachReply, At, ConnRec
  <2> QED BY <2>2, <2>3
<1>5. CASE PumpEnd(c)
  <2>1. PICK r \in ConnRec : r = [conn[c] EXCEPT !.server = TRUE]
    BY <1>1, ConnUpdates
  <2>2. Moved(c, r)
    BY <1>1, <1>5, <2>1 DEF PumpEnd, Moved, SetConn, ConnRec
  <2>3. HandlerMove(c, r)
    BY <1>1, <1>5, <2>1 DEF HandlerMove, PumpEnd, ConnRec
  <2> QED BY <2>2, <2>3
<1>9. CASE SendKeys(c) \/ Type(c)
  <2>1. PICK r \in ConnRec : r = conn[c]
    BY <1>1
  <2>2. conn' = conn /\ conn[c].handler = "relay"
    BY <1>9 DEF SendKeys, Type
  <2>3. Moved(c, r) /\ HandlerMove(c, r)
    BY <1>1, <2>1, <2>2 DEF Moved, HandlerMove
  <2> QED BY <2>3
<1>6. CASE RelayEnd(c) \/ DetachKeys(c)
  <2>1. PICK r \in ConnRec : r = [conn[c] EXCEPT !.handler = "unwind"]
    BY <1>1, ConnUpdates
  <2>2. Moved(c, r)
    BY <1>1, <1>6, <2>1 DEF RelayEnd, DetachKeys, Moved, SetConn, ConnRec
  <2>3. HandlerMove(c, r)
    BY <1>1, <1>6, <2>1 DEF HandlerMove, RelayEnd, DetachKeys, At, ConnRec
  <2> QED BY <2>2, <2>3
<1>7. CASE Unwind(c)
  <2>1. PICK r \in ConnRec : r = [conn[c] EXCEPT !.handler = "detach", !.pty = "closed"]
    BY <1>1, ConnUpdates
  <2>2. Moved(c, r)
    BY <1>1, <1>7, <2>1 DEF Unwind, Moved, SetConn, ConnRec
  <2>3. HandlerMove(c, r)
    BY <1>1, <1>7, <2>1 DEF HandlerMove, Unwind, At, ConnRec
  <2> QED BY <2>2, <2>3
<1>8. CASE Detach(c)
  <2>1. PICK r \in ConnRec : r = Refused(c)
    BY <1>1, ConnUpdates DEF Refused
  <2>2. Moved(c, r)
    BY <1>1, <1>8, <2>1 DEF Detach, Moved, SetConn, ConnRec, Refused
  <2>3. HandlerMove(c, r)
    BY <1>1, <1>8, <2>1 DEF HandlerMove, Detach, At, ConnRec, Refused
  <2> QED BY <2>2, <2>3
<1> QED BY <1>2, <1>3, <1>4, <1>5, <1>6, <1>7, <1>8, <1>9 DEF HandlerStep

(* The client's end, with no more of the connection. *)
ClientMove(c, r) ==
  /\ r.handler = conn[c].handler /\ r.pty = conn[c].pty
  /\ \/ conn[c].client = "answered" /\ r.client = "open"
     \/ conn[c].client # "closed" /\ r.client = "closed"

LEMMA ClientConn ==
  ASSUME StreamTypes, NEW c \in Conn, ClientOpen(c) \/ ClientLeave(c)
  PROVE  \E r : Moved(c, r) /\ ClientMove(c, r)
<1>1. conn[c] \in ConnRec /\ conn \in [Conn -> ConnRec]
  BY DEF StreamTypes
<1>2. PICK k \in {"open", "closed"} :
        /\ conn' = [conn EXCEPT ![c] = [conn[c] EXCEPT !.client = k]]
        /\ k = "open" => conn[c].client = "answered"
        /\ conn[c].client # "closed"
  BY <1>1 DEF ClientOpen, ClientLeave, Hangup
<1>3. PICK r \in ConnRec : r = [conn[c] EXCEPT !.client = k]
  BY <1>1, ConnUpdates
<1>4. Moved(c, r) /\ ClientMove(c, r)
  BY <1>1, <1>2, <1>3 DEF Moved, ClientMove, ConnRec
<1> QED BY <1>4

(* A new attach, over a connection of which nothing is left. *)
LEMMA DialConn ==
  ASSUME StreamTypes, NEW c \in Conn, NEW s \in Sandbox, Dial(c, s)
  PROVE  \E r \in ConnRec : /\ conn' = [conn EXCEPT ![c] = r]
                            /\ r.handler = "try" /\ r.target = s /\ r.client = "waiting"
                            /\ r.pty = "none" /\ r.got = {} /\ ~r.ended
<1>1. PICK r : r = [NoConn EXCEPT !.handler = "try", !.target = s, !.client = "waiting"]
  OBVIOUS
<1>2. /\ r \in ConnRec /\ r.handler = "try" /\ r.target = s /\ r.client = "waiting"
      /\ r.pty = "none" /\ r.got = {} /\ ~r.ended
  BY <1>1 DEF NoConn, ConnRec
<1>3. conn' = [conn EXCEPT ![c] = r]
  BY <1>1 DEF Dial, SetConn
<1> QED BY <1>2, <1>3

LEMMA InitTypes == StreamInit => StreamTypes
<1> SUFFICES ASSUME StreamInit PROVE StreamTypes
  OBVIOUS
<1>1. NewShim \in ShimRec
  <2>1. <<>> \in Seq(Conn)
    OBVIOUS
  <2> QED BY <2>1 DEF NewShim, ShimRec
<1>2. NoConn \in ConnRec /\ NoConn.handler = "none"
  BY DEF NoConn, ConnRec
<1> QED BY <1>1, <1>2 DEF StreamInit, StreamTypes

LEMMA MovedTypes ==
  ASSUME StreamTypes, NEW c \in Conn, NEW r, Moved(c, r),
         r.handler # "none" => conn[c].handler # "none",
         shim' = shim \/ (\E s \in Sandbox, q \in ShimRec : shim' = [shim EXCEPT ![s] = q]),
         slot' = slot \/ (\E s \in Sandbox : slot' = slot \cup {s} \/ slot' = slot \ {s}),
         stops' = stops
  PROVE  StreamTypes'
<1>1. conn' \in [Conn -> ConnRec]
  BY DEF StreamTypes, Moved
<1>2. \A d \in Conn : \/ conn'[d].handler = "none"
                      \/ conn'[d].target \in Sandbox
                      \/ conn'[d].target = conn[d].target /\ conn[d].handler # "none"
  BY DEF StreamTypes, Moved
<1> QED BY <1>1, <1>2, TypesFrom

LEMMA HandlerTypes ==
  ASSUME StreamTypes, NEW c \in Conn, HandlerStep(c) \/ ClientStep(c)
  PROVE  StreamTypes'
<1>1. ASSUME HandlerStep(c) \/ DetachKeys(c) \/ Type(c)
      PROVE  StreamTypes'
  <2>1. PICK r : Moved(c, r) /\ HandlerMove(c, r)
    BY <1>1, HandlerConn
  <2>2. conn[c].handler # "none" /\ conn[c].target \in Sandbox
    BY <2>1 DEF HandlerMove, StreamTypes
  <2>3. shim' = shim \/ (\E s \in Sandbox, q \in ShimRec : shim' = [shim EXCEPT ![s] = q])
    <3>1. CASE AttachDial(c)
      <4>1. PICK q : q = [shim[conn[c].target] EXCEPT !.backlog = Append(@, c)]
        OBVIOUS
      <4>2. q \in ShimRec
        BY <2>2, <4>1, ShimUpdates DEF StreamTypes
      <4> QED BY <2>2, <3>1, <4>1, <4>2 DEF AttachDial, SetShim
    <3>2. CASE ~AttachDial(c)
      BY <1>1, <3>2 DEF HandlerStep, AttachTry, AttachReply, SendKeys, PumpEnd, RelayEnd, Unwind, Detach,
                        DetachKeys, Type
    <3> QED BY <3>1, <3>2
  <2>4. slot' = slot \/ (\E s \in Sandbox : slot' = slot \cup {s} \/ slot' = slot \ {s})
    BY <1>1, <2>2 DEF HandlerStep, AttachTry, AttachDial, AttachReply, SendKeys, PumpEnd,
           RelayEnd,                      Unwind, Detach, DetachKeys, Type
  <2>5. stops' = stops
    BY <1>1 DEF HandlerStep, AttachTry, AttachDial, AttachReply, SendKeys, PumpEnd, RelayEnd,
                Unwind, Detach, DetachKeys, Type, At
  <2> QED BY <2>1, <2>2, <2>3, <2>4, <2>5, MovedTypes
<1>2. ASSUME ClientOpen(c) \/ ClientLeave(c)
      PROVE  StreamTypes'
  <2>1. PICK r : Moved(c, r) /\ ClientMove(c, r)
    BY <1>2, ClientConn
  <2> QED BY <1>2, <2>1, MovedTypes DEF ClientMove, ClientOpen, ClientLeave
<1>3. ASSUME NEW s \in Sandbox, Dial(c, s)
      PROVE  StreamTypes'
  <2>1. PICK r \in ConnRec : conn' = [conn EXCEPT ![c] = r] /\ r.target = s
    BY <1>3, DialConn
  <2>2. conn' \in [Conn -> ConnRec]
    BY <2>1 DEF StreamTypes
  <2>3. \A d \in Conn : \/ conn'[d].handler = "none"
                        \/ conn'[d].target \in Sandbox
                        \/ conn'[d].target = conn[d].target /\ conn[d].handler # "none"
    BY <2>1 DEF StreamTypes
  <2> QED BY <1>3, <2>2, <2>3, TypesFrom DEF Dial
<1> QED BY <1>1, <1>2, <1>3 DEF ClientStep

LEMMA ShimTypes ==
  ASSUME StreamTypes, NEW s \in Sandbox,
         DrainStep(s) \/ ServeStep(s) \/ TakeKeys(s) \/ ForceDetach(s) \/ Exit(s) \/ Launch(s)
  PROVE  StreamTypes'
<1>1. shim[s] \in ShimRec /\ conn \in [Conn -> ConnRec]
  BY DEF StreamTypes
<1>2. CASE Drain(s)
  <2>1. PICK q \in ShimRec : q = [shim[s] EXCEPT !.read = @ + 1, !.hand = shim[s].current]
    BY <1>1, ShimUpdates
  <2> QED BY <1>1, <1>2, <2>1, TypesFrom DEF Drain, SetShim, StreamTypes
<1>3. CASE DrainSend(s)
  <2>1. PICK q \in ShimRec : q = [shim[s] EXCEPT !.hand = None]
    BY <1>1, ShimUpdates
  <2>2. {shim[s].read} \in SUBSET Nat
    BY <1>1 DEF ShimRec
  <2>3. conn' = Sent(shim[s].hand, {shim[s].read})
    BY <1>3 DEF DrainSend
  <2>4. /\ conn' \in [Conn -> ConnRec]
        /\ \A c \in Conn : conn'[c].target = conn[c].target /\ conn'[c].handler = conn[c].handler
    BY <2>2, <2>3, SentTypes
  <2>5. shim' = [shim EXCEPT ![s] = q] /\ slot' = slot /\ stops' = stops
    BY <1>3, <2>1 DEF DrainSend, SetShim
  <2>6. \A c \in Conn : \/ conn'[c].handler = "none"
                        \/ conn'[c].target \in Sandbox
                        \/ conn'[c].target = conn[c].target /\ conn[c].handler # "none"
    BY <2>4
  <2> QED BY <2>4, <2>5, <2>6, TypesFrom
<1>4. CASE Accept(s)
  <2>1. PICK c : c = Head(shim[s].backlog)
    OBVIOUS
  <2>2. c \in Conn /\ Tail(shim[s].backlog) \in Seq(Conn)
    <3>1. shim[s].backlog \in Seq(Conn) /\ shim[s].backlog # <<>>
      BY <1>1, <1>4 DEF ShimRec, Accept
    <3> QED BY <2>1, <3>1
  <2>3. PICK q : q = [shim[s] EXCEPT !.serving = c, !.current = c,
                                     !.stage = "snapshot", !.backlog = Tail(@)]
    OBVIOUS
  <2>4. q \in ShimRec
    BY <1>1, <2>2, <2>3 DEF ShimRec
  <2> QED BY <1>1, <1>4, <2>1, <2>3, <2>4, TypesFrom DEF Accept, SetShim, StreamTypes
<1>5. CASE Snapshot(s)
  <2>1. Replay(s) \in SUBSET Nat
    BY <1>1 DEF Replay, ShimRec
  <2>2. PICK q \in ShimRec : q = [shim[s] EXCEPT !.snap = Replay(s), !.stage = "send"]
    BY <1>1, <2>1, ShimUpdates
  <2> QED BY <1>1, <1>5, <2>2, TypesFrom DEF Snapshot, SetShim, StreamTypes
<1>6. CASE SendReplay(s)
  <2>1. PICK q \in ShimRec : q = [shim[s] EXCEPT !.stage = "relay", !.snap = {}]
    BY <1>1, ShimUpdates
  <2>2. shim[s].snap \in SUBSET Nat
    BY <1>1 DEF ShimRec
  <2>3. conn' = Sent(shim[s].serving, shim[s].snap)
    BY <1>6 DEF SendReplay
  <2>4. /\ conn' \in [Conn -> ConnRec]
        /\ \A c \in Conn : conn'[c].target = conn[c].target /\ conn'[c].handler = conn[c].handler
    BY <2>2, <2>3, SentTypes
  <2>5. shim' = [shim EXCEPT ![s] = q] /\ slot' = slot /\ stops' = stops
    BY <1>6, <2>1 DEF SendReplay, SetShim
  <2>6. \A c \in Conn : \/ conn'[c].handler = "none"
                        \/ conn'[c].target \in Sandbox
                        \/ conn'[c].target = conn[c].target /\ conn[c].handler # "none"
    BY <2>4
  <2> QED BY <2>4, <2>5, <2>6, TypesFrom
<1>7. CASE ServeEnd(s)
  <2>1. PICK q \in ShimRec : q = [shim[s] EXCEPT !.serving = None, !.current = None,
                                                !.stage = "accept", !.snap = {}]
    BY <1>1, ShimUpdates
  <2>2. PICK c : c = shim[s].serving
    OBVIOUS
  <2>3. conn' = [conn EXCEPT ![c] = [conn[c] EXCEPT !.ended = TRUE]]
    BY <1>7, <2>2 DEF ServeEnd, SetConn
  <2>4. /\ conn' \in [Conn -> ConnRec]
        /\ \A d \in Conn : conn'[d].target = conn[d].target /\ conn'[d].handler = conn[d].handler
    <3>1. CASE c \in Conn
      <4>1. PICK r \in ConnRec : r = [conn[c] EXCEPT !.ended = TRUE]
        BY <1>1, <3>1, ConnUpdates
      <4>2. r.target = conn[c].target /\ r.handler = conn[c].handler
        BY <1>1, <3>1, <4>1 DEF ConnRec
      <4> QED BY <1>1, <2>3, <4>1, <4>2
    <3>2. CASE c \notin Conn
      <4>1. conn' = conn
        BY <1>1, <2>3, <3>2
      <4> QED BY <1>1, <4>1
    <3> QED BY <3>1, <3>2
  <2>5. shim' = [shim EXCEPT ![s] = q] /\ slot' = slot /\ stops' = stops
    BY <1>7, <2>1 DEF ServeEnd, SetShim
  <2>6. \A d \in Conn : \/ conn'[d].handler = "none"
                        \/ conn'[d].target \in Sandbox
                        \/ conn'[d].target = conn[d].target /\ conn[d].handler # "none"
    BY <2>4
  <2> QED BY <2>4, <2>5, <2>6, TypesFrom
<1>8. CASE ForceDetach(s) \/ Launch(s) \/ ReadKeys(s) \/ TakeKeys(s)
  BY <1>1, <1>8, TypesFrom DEF ForceDetach, Launch, ReadKeys, TakeKeys, StreamTypes
<1>9. CASE Exit(s)
  <2>1. \A c \in Conn : [conn[c] EXCEPT !.ended = TRUE] \in ConnRec
    BY <1>1, ConnUpdates
  <2>2. /\ conn' \in [Conn -> ConnRec]
        /\ \A d \in Conn : conn'[d].target = conn[d].target /\ conn'[d].handler = conn[d].handler
    <3>1. conn' = [c \in Conn |-> IF conn[c].target = s /\ conn[c].pty # "none"
                                 THEN [conn[c] EXCEPT !.ended = TRUE] ELSE conn[c]]
      BY <1>9 DEF Exit
    <3>2. \A c \in Conn : /\ [conn[c] EXCEPT !.ended = TRUE].target = conn[c].target
                          /\ [conn[c] EXCEPT !.ended = TRUE].handler = conn[c].handler
      BY <1>1 DEF ConnRec
    <3> QED BY <1>1, <2>1, <3>1, <3>2
  <2>3. NewShim \in ShimRec
    BY <1>1, ShimUpdates
  <2>4. shim' = [shim EXCEPT ![s] = NewShim] /\ slot' = slot /\ stops' = stops
    BY <1>9 DEF Exit, SetShim
  <2>5. \A d \in Conn : \/ conn'[d].handler = "none"
                        \/ conn'[d].target \in Sandbox
                        \/ conn'[d].target = conn[d].target /\ conn[d].handler # "none"
    BY <2>2
  <2> QED BY <2>2, <2>3, <2>4, <2>5, TypesFrom
<1> QED BY <1>2, <1>3, <1>4, <1>5, <1>6, <1>7, <1>8, <1>9 DEF DrainStep, ServeStep

(* murod's death leaves no handler and no open connection to a shim. *)
LEMMA DeathConn ==
  ASSUME StreamTypes, MurodDies
  PROVE  /\ conn' \in [Conn -> ConnRec]
         /\ \A c \in Conn : /\ conn'[c].handler = "none" /\ conn'[c].target = conn[c].target
                            /\ conn'[c].got = conn[c].got /\ conn'[c].pty # "open"
                            /\ conn[c].pty # "none" => conn'[c].pty # "none"
<1>1. conn \in [Conn -> ConnRec]
  BY DEF StreamTypes
<1> DEFINE After(c) == [conn[c] EXCEPT !.handler = "none",
                          !.server = @ \/ conn[c].handler # "none",
                          !.pty = IF @ = "open" THEN "closed" ELSE @,
                          !.client = IF @ = "waiting" THEN "refused" ELSE @]
<1>2. conn' = [c \in Conn |-> After(c)]
  BY DEF MurodDies
<1>3. \A c \in Conn : After(c) \in ConnRec
  BY <1>1, ConnUpdates
<1>4. \A c \in Conn : /\ After(c).handler = "none" /\ After(c).target = conn[c].target
                      /\ After(c).got = conn[c].got /\ After(c).pty # "open"
                      /\ conn[c].pty # "none" => After(c).pty # "none"
  BY <1>1 DEF ConnRec
<1> HIDE DEF After
<1> QED BY <1>2, <1>3, <1>4

LEMMA NextTypes == StreamTypes /\ [StreamNext]_streamVars => StreamTypes'
<1> SUFFICES ASSUME StreamTypes, [StreamNext]_streamVars PROVE StreamTypes'
  OBVIOUS
<1>1. CASE UNCHANGED streamVars
  BY <1>1 DEF streamVars, StreamTypes
<1>2. CASE MurodDies
  BY <1>2, DeathConn, TypesFrom DEF MurodDies
<1> QED BY <1>1, <1>2, HandlerTypes, ShimTypes DEF StreamNext

-----------------------------------------------------------------------------
(* A served client misses nothing. *)

LEMMA QueueFacts ==
  /\ \A s \in Seq(Conn), c \in Conn :
       /\ DOMAIN Append(s, c) = DOMAIN s \cup {Len(s) + 1}
       /\ \A i \in DOMAIN s : Append(s, c)[i] = s[i]
       /\ Append(s, c)[Len(s) + 1] = c /\ Len(s) + 1 \notin DOMAIN s
  /\ \A s \in Seq(Conn) : s # <<>> =>
       /\ Head(s) \in Conn /\ 1 \in DOMAIN s /\ s[1] = Head(s)
       /\ \A i \in DOMAIN Tail(s) : /\ i \in Nat /\ i + 1 \in DOMAIN s /\ i + 1 # 1
                                    /\ Tail(s)[i] = s[i + 1]
  /\ \A i \in DOMAIN <<>> : FALSE
<1>1. ASSUME NEW s \in Seq(Conn), NEW c \in Conn
      PROVE  /\ DOMAIN Append(s, c) = DOMAIN s \cup {Len(s) + 1}
             /\ \A i \in DOMAIN s : Append(s, c)[i] = s[i]
             /\ Append(s, c)[Len(s) + 1] = c /\ Len(s) + 1 \notin DOMAIN s
  OBVIOUS
<1>2. ASSUME NEW s \in Seq(Conn), s # <<>>
      PROVE  /\ Head(s) \in Conn /\ 1 \in DOMAIN s /\ s[1] = Head(s)
             /\ \A i \in DOMAIN Tail(s) : /\ i \in Nat /\ i + 1 \in DOMAIN s /\ i + 1 # 1
                                          /\ Tail(s)[i] = s[i + 1]
  BY <1>2
<1>3. \A i \in DOMAIN <<>> : FALSE
  OBVIOUS
<1> QED BY <1>1, <1>2, <1>3

(* The connections a shim holds. *)
Holds(s, c) == \/ c = shim[s].hand \/ c = shim[s].serving
               \/ \E i \in DOMAIN shim[s].backlog : Waiting(s, i) = c

LEMMA ShimFacts ==
  ASSUME MissInv, NEW s \in Sandbox
  PROVE  /\ shim[s] \in ShimRec
         /\ shim[s].read \in Nat /\ shim[s].hand \in Conn \cup {None}
         /\ shim[s].current \in Conn \cup {None} /\ shim[s].serving \in Conn \cup {None}
         /\ shim[s].snap \in SUBSET Nat /\ shim[s].backlog \in Seq(Conn)
         /\ \A i \in DOMAIN shim[s].backlog : Waiting(s, i) \in Conn
         /\ \A c \in Conn : /\ Holds(s, c) => conn[c].target = s
                            /\ conn[c] \in ConnRec /\ conn[c].got \in SUBSET Nat
         /\ None \notin Conn
<1>1. shim[s] \in ShimRec
  BY DEF MissInv, StreamTypes
<1>2. shim[s].backlog \in Seq(Conn)
  BY <1>1 DEF ShimRec
<1>3. \A i \in DOMAIN shim[s].backlog : Waiting(s, i) \in Conn
  BY <1>2 DEF Waiting
<1>4. \A c \in Conn : conn[c] \in ConnRec /\ conn[c].got \in SUBSET Nat
  BY DEF MissInv, StreamTypes, ConnRec
<1>5. \A c \in Conn : Holds(s, c) => conn[c].target = s
  BY StreamAssumption DEF MissInv, Queue, Holds
<1> QED BY <1>1, <1>2, <1>3, <1>4, <1>5, StreamAssumption DEF ShimRec

(* What a step that is not about s's shim leaves of its connections. *)
KeptFor(s) ==
  \A c \in Conn : Holds(s, c) =>
    /\ conn'[c].target = conn[c].target /\ conn'[c].got = conn[c].got
    /\ conn[c].pty # "none" => conn'[c].pty # "none"
    /\ conn'[c].pty = "open" => conn[c].pty = "open"

LEMMA ShimKept ==
  ASSUME MissInv, NEW s \in Sandbox, shim'[s] = shim[s], KeptFor(s)
  PROVE  Serving(s)' /\ Queue(s)' /\ Whole(s)'
<1>1. Serving(s) /\ Queue(s) /\ Whole(s)
  BY DEF MissInv
<1>2. Serving(s)'
  BY <1>1 DEF Serving
<1>3. Queue(s)'
  <2>1. ASSUME NEW c \in Conn, Holds(s, c)
        PROVE  /\ conn'[c].target = conn[c].target /\ conn'[c].got = conn[c].got
               /\ conn[c].pty # "none" => conn'[c].pty # "none"
    BY <2>1 DEF KeptFor
  <2>2. shim[s].hand # None => conn'[shim[s].hand].target = s
    BY <1>1, <2>1, ShimFacts DEF Queue, Holds
  <2>3. shim[s].serving # None => /\ conn'[shim[s].serving].target = s
                                  /\ conn'[shim[s].serving].pty # "none"
    BY <1>1, <2>1, ShimFacts DEF Queue, Holds
  <2>4. ASSUME NEW i \in DOMAIN shim[s].backlog, NEW c, c = Waiting(s, i)
        PROVE  conn'[c].target = s /\ conn'[c].pty # "none" /\ conn'[c].got = {}
    <3>1. c \in Conn /\ Holds(s, c)
      BY <2>4, ShimFacts DEF Holds
    <3> QED BY <1>1, <2>1, <2>4, <3>1 DEF Queue
  <2> QED BY <1>1, <2>2, <2>3, <2>4 DEF Queue, Waiting
<1>4. Whole(s)'
  <2>1. CASE shim[s].serving # None /\ conn'[shim[s].serving].pty = "open"
    <3>1. PICK c \in Conn : c = shim[s].serving /\ Holds(s, c)
      BY <2>1, ShimFacts DEF Holds
    <3>2. conn[c].pty = "open" /\ conn'[c].got = conn[c].got
      BY <2>1, <3>1 DEF KeptFor
    <3>3. All(s)' = All(s) /\ Replay(s)' = Replay(s)
      BY <3>1, <3>2 DEF All, Due, Replay
    <3> QED BY <1>1, <2>1, <3>1, <3>2, <3>3 DEF Whole
  <2>2. CASE ~(shim[s].serving # None /\ conn'[shim[s].serving].pty = "open")
    BY <2>2 DEF Whole
  <2> QED BY <2>1, <2>2
<1> QED BY <1>2, <1>3, <1>4

(* A connection the shim has not been asked for stays so. *)
UnaskedKeeps(c) ==
  conn'[c].handler \in {"try", "dial"} =>
    /\ conn[c].handler \in {"try", "dial"}
    /\ conn'[c].pty = conn[c].pty /\ conn'[c].got = conn[c].got

LEMMA QuietMiss ==
  ASSUME MissInv, StreamTypes', UNCHANGED shim, \A s \in Sandbox : KeptFor(s),
         \A c \in Conn : UnaskedKeeps(c)
  PROVE  MissInv'
<1>1. \A s \in Sandbox : Serving(s)' /\ Queue(s)' /\ Whole(s)'
  BY ShimKept
<1>2. \A c \in Conn : Unasked(c)'
  <2>1. ASSUME NEW c \in Conn, conn'[c].handler \in {"try", "dial"}
        PROVE  conn'[c].pty = "none" /\ conn'[c].got = {}
    BY <2>1 DEF MissInv, Unasked, UnaskedKeeps
  <2>2. ASSUME NEW c \in Conn, conn'[c].handler \in {"try", "dial"}, NEW s \in Sandbox
        PROVE  /\ c \notin {shim[s].hand, shim[s].serving}
               /\ \A i \in DOMAIN shim[s].backlog : Waiting(s, i) # c
    BY <2>2 DEF MissInv, Unasked, UnaskedKeeps
  <2> QED BY <2>1, <2>2 DEF Unasked, Waiting
<1> QED BY <1>1, <1>2 DEF MissInv

LEMMA InitMiss == StreamInit => MissInv
<1> SUFFICES ASSUME StreamInit PROVE MissInv
  OBVIOUS
<1>1. \A s \in Sandbox : shim[s] = NewShim
  BY DEF StreamInit
<1>2. \A c \in Conn : conn[c].handler = "none"
  BY DEF StreamInit, NoConn
<1>3. \A s \in Sandbox : Serving(s) /\ Queue(s) /\ Whole(s)
  BY <1>1, QueueFacts DEF NewShim, Serving, Queue, Whole
<1>4. \A c \in Conn : Unasked(c)
  BY <1>2 DEF Unasked
<1> QED BY <1>3, <1>4, InitTypes DEF MissInv

LEMMA MovedKeeps ==
  ASSUME MissInv, NEW c \in Conn, NEW r, Moved(c, r), HandlerMove(c, r) \/ ClientMove(c, r)
  PROVE  /\ \A s \in Sandbox : KeptFor(s)
         /\ \A d \in Conn : UnaskedKeeps(d)
<1>1. conn \in [Conn -> ConnRec] /\ conn'[c] = r /\ \A d \in Conn : d # c => conn'[d] = conn[d]
  BY DEF MissInv, StreamTypes, Moved
<1>2. r.target = conn[c].target /\ r.got = conn[c].got
  BY DEF Moved
<1>3. \A d \in Conn : UnaskedKeeps(d)
  BY <1>1, <1>2 DEF UnaskedKeeps, HandlerMove, ClientMove
<1>4. ASSUME NEW s \in Sandbox, Holds(s, c)
      PROVE  /\ conn[c].pty # "none" => r.pty # "none"
             /\ r.pty = "open" => conn[c].pty = "open"
  <2>1. conn[c].handler \notin {"try", "dial"}
    BY <1>4 DEF MissInv, Unasked, Holds
  <2> QED BY <2>1 DEF HandlerMove, ClientMove
<1> QED BY <1>1, <1>2, <1>3, <1>4 DEF KeptFor

(* Everything of murod and the client but the dials. *)
LEMMA HandlerMiss ==
  ASSUME MissInv, NEW c \in Conn, UNCHANGED shim,
         HandlerStep(c) \/ DetachKeys(c) \/ Type(c) \/ ClientOpen(c) \/ ClientLeave(c)
  PROVE  MissInv'
<1>1. PICK r : Moved(c, r) /\ (HandlerMove(c, r) \/ ClientMove(c, r))
  BY HandlerConn, ClientConn DEF MissInv
<1>2. StreamTypes'
  BY HandlerTypes DEF MissInv, ClientStep
<1> QED BY <1>1, <1>2, MovedKeeps, QuietMiss

(* A new attach takes a connection that no shim holds. *)
LEMMA DialMiss ==
  ASSUME MissInv, NEW c \in Conn, NEW s \in Sandbox, Dial(c, s)
  PROVE  MissInv'
<1>1. PICK r \in ConnRec : /\ conn' = [conn EXCEPT ![c] = r]
                           /\ r.handler = "try" /\ r.pty = "none" /\ r.got = {}
  BY DialConn DEF MissInv
<1>2. /\ conn'[c] = r /\ \A d \in Conn : d # c => conn'[d] = conn[d]
  BY <1>1 DEF MissInv, StreamTypes
<1>3. StreamTypes'
  BY HandlerTypes DEF MissInv, ClientStep
<1>4. \A t \in Sandbox : ~Holds(t, c)
  BY DEF Dial, Free, Holds, Waiting
<1>5. UNCHANGED shim
  BY DEF Dial
<1>6. \A t \in Sandbox : KeptFor(t)
  BY <1>2, <1>4 DEF KeptFor
<1>7. \A t \in Sandbox : Serving(t)' /\ Queue(t)' /\ Whole(t)'
  BY <1>5, <1>6, ShimKept
<1>8. Unasked(c)'
  BY <1>1, <1>2, <1>4, <1>5 DEF Unasked, Holds, Waiting
<1>9. \A d \in Conn : d # c => Unasked(d)'
  BY <1>2, <1>5 DEF MissInv, Unasked, Waiting
<1> QED BY <1>3, <1>7, <1>8, <1>9 DEF MissInv

(* A connection the shim has been asked for joins its backlog. *)
LEMMA AskMiss ==
  ASSUME MissInv, NEW c \in Conn, AttachDial(c), ~UNCHANGED shim
  PROVE  MissInv'
<1>1. PICK s \in Sandbox : s = conn[c].target /\ conn[c].handler = "dial"
  BY DEF MissInv, StreamTypes, AttachDial, At
<1>2. /\ conn' = [conn EXCEPT ![c] = [conn[c] EXCEPT !.handler = "reply", !.pty = "open"]]
      /\ shim' = [shim EXCEPT ![s] = [shim[s] EXCEPT !.backlog = Append(@, c)]]
  BY <1>1 DEF AttachDial, SetConn, SetShim
<1>3. StreamTypes'
  BY HandlerTypes DEF MissInv, HandlerStep
<1>4. /\ conn'[c].handler = "reply" /\ conn'[c].pty = "open"
      /\ conn'[c].target = s /\ conn'[c].got = conn[c].got
      /\ \A d \in Conn : d # c => conn'[d] = conn[d]
  BY <1>1, <1>2 DEF MissInv, StreamTypes, ConnRec
<1>5. /\ conn[c].got = {} /\ \A t \in Sandbox : ~Holds(t, c)
  BY <1>1 DEF MissInv, Unasked, Holds
<1>6. \A t \in Sandbox : KeptFor(t)
  BY <1>4, <1>5 DEF KeptFor
<1>7. \A t \in Sandbox : t # s => shim'[t] = shim[t]
  BY <1>2 DEF MissInv, StreamTypes
<1>8. /\ shim'[s].read = shim[s].read /\ shim'[s].hand = shim[s].hand
      /\ shim'[s].current = shim[s].current /\ shim'[s].serving = shim[s].serving
      /\ shim'[s].stage = shim[s].stage /\ shim'[s].snap = shim[s].snap
      /\ shim'[s].backlog = Append(shim[s].backlog, c)
  BY <1>2, ShimFacts DEF MissInv, StreamTypes, ShimRec
<1>9. Serving(s)' /\ Queue(s)' /\ Whole(s)'
  <2>0. Serving(s) /\ Queue(s) /\ Whole(s) /\ None \notin Conn
    BY ShimFacts DEF MissInv
  <2>1. Serving(s)'
    BY <1>8, <2>0 DEF Serving
  <2>2. Whole(s)'
    <3>1. CASE shim[s].serving = None
      BY <1>8, <3>1 DEF Whole
    <3>2. CASE shim[s].serving # None
      <4>1. PICK d \in Conn : d = shim[s].serving /\ d # c
        BY <1>5, <3>2, ShimFacts DEF Holds
      <4>2. All(s)' = All(s) /\ Replay(s)' = Replay(s) /\ conn'[d] = conn[d]
        BY <1>4, <1>8, <4>1 DEF All, Due, Replay
      <4> QED BY <1>8, <2>0, <4>1, <4>2 DEF Whole
    <3> QED BY <3>1, <3>2
  <2>3. /\ shim[s].hand # None => shim[s].hand \in Conn /\ shim[s].hand # c
        /\ shim[s].serving # None => shim[s].serving \in Conn /\ shim[s].serving # c
    BY <1>5, ShimFacts DEF Holds
  <2>4. /\ shim'[s].hand # None => conn'[shim'[s].hand].target = s
        /\ shim'[s].serving # None => /\ conn'[shim'[s].serving].target = s
                                      /\ conn'[shim'[s].serving].pty # "none"
    BY <1>4, <1>8, <2>0, <2>3 DEF Queue
  <2>5. PICK b : b = shim[s].backlog
    OBVIOUS
  <2>6. b \in Seq(Conn) /\ \A i \in DOMAIN b : b[i] \in Conn /\ b[i] # c
    BY <1>5, <2>5, ShimFacts DEF Holds, Waiting
  <2>7. PICK e : e = Append(b, c)
    OBVIOUS
  <2>8. /\ DOMAIN e = DOMAIN b \cup {Len(b) + 1} /\ \A i \in DOMAIN b : e[i] = b[i]
        /\ e[Len(b) + 1] = c
    BY <2>6, <2>7, QueueFacts
  <2>9. shim'[s].backlog = e
    BY <1>8, <2>5, <2>7
  <2>10. \A i \in DOMAIN e :
           /\ conn'[e[i]].target = s /\ conn'[e[i]].pty # "none" /\ conn'[e[i]].got = {}
           /\ e[i] \notin {shim'[s].hand, shim'[s].serving}
           /\ \A j \in DOMAIN e : e[i] = e[j] => i = j
    <3>1. \A i \in DOMAIN b :
            /\ conn[b[i]].target = s /\ conn[b[i]].pty # "none" /\ conn[b[i]].got = {}
            /\ b[i] \notin {shim[s].hand, shim[s].serving}
            /\ \A j \in DOMAIN b : b[i] = b[j] => i = j
      BY <2>0, <2>5 DEF Queue, Waiting
    <3>2. \A i \in DOMAIN b : conn'[b[i]] = conn[b[i]]
      BY <1>4, <2>6
    <3>3. c \notin {shim[s].hand, shim[s].serving}
      BY <1>5 DEF Holds
    <3>4. ASSUME NEW i \in DOMAIN e
          PROVE  /\ conn'[e[i]].target = s /\ conn'[e[i]].pty # "none" /\ conn'[e[i]].got = {}
                 /\ e[i] \notin {shim'[s].hand, shim'[s].serving}
      <4>1. CASE i \in DOMAIN b
        BY <1>8, <2>8, <3>1, <3>2, <4>1
      <4>2. CASE i = Len(b) + 1
        BY <1>4, <1>5, <1>8, <2>8, <3>3, <4>2
      <4> QED BY <2>8, <4>1, <4>2
    <3>5. ASSUME NEW i \in DOMAIN e, NEW j \in DOMAIN e, e[i] = e[j]
          PROVE  i = j
      BY <2>6, <2>8, <3>1, <3>5
    <3> QED BY <3>4, <3>5
  <2> QED BY <2>1, <2>2, <2>4, <2>9, <2>10 DEF Queue, Waiting
<1>10. \A t \in Sandbox : t # s => Serving(t)' /\ Queue(t)' /\ Whole(t)'
  BY <1>6, <1>7, ShimKept
<1>11. ASSUME NEW d \in Conn
       PROVE  Unasked(d)'
  <2>1. CASE d = c
    BY <1>4, <2>1 DEF Unasked
  <2>2. CASE d # c
    <3>1. ASSUME conn'[d].handler \in {"try", "dial"}
          PROVE  /\ conn'[d].pty = "none" /\ conn'[d].got = {} /\ \A t \in Sandbox : ~Holds(t, d)
      BY <1>4, <2>2, <3>1 DEF MissInv, Unasked, Holds
    <3>2. ASSUME NEW t \in Sandbox, ~Holds(t, d)
          PROVE  /\ d \notin {shim'[t].hand, shim'[t].serving}
                 /\ \A i \in DOMAIN shim'[t].backlog : shim'[t].backlog[i] # d
      <4>1. CASE t = s
        <5>1. /\ d # shim[s].hand /\ d # shim[s].serving
              /\ \A i \in DOMAIN shim[s].backlog : shim[s].backlog[i] # d
          BY <3>2, <4>1 DEF Holds, Waiting
        <5>2. PICK b \in Seq(Conn) : b = shim[s].backlog
          BY ShimFacts
        <5>3. PICK e : e = Append(b, c)
          OBVIOUS
        <5>4. \A i \in DOMAIN e : e[i] # d
          BY <2>2, <5>1, <5>2, <5>3, QueueFacts
        <5> QED BY <1>8, <4>1, <5>1, <5>2, <5>3, <5>4
      <4>2. CASE t # s
        BY <1>7, <3>2, <4>2 DEF Holds, Waiting
      <4> QED BY <4>1, <4>2
    <3> QED BY <3>1, <3>2 DEF Unasked, Waiting
  <2> QED BY <2>1, <2>2
<1> QED BY <1>3, <1>9, <1>10, <1>11 DEF MissInv

(* A step of one shim that takes up no connection it did not hold. *)
LEMMA ShimMiss ==
  ASSUME MissInv, StreamTypes', NEW s \in Sandbox, NEW q, shim' = [shim EXCEPT ![s] = q],
         Serving(s)' /\ Queue(s)' /\ Whole(s)',
         \A t \in Sandbox : t # s => KeptFor(t),
         \A c \in Conn : UnaskedKeeps(c),
         \A c \in Conn : \/ Holds(s, c)
                         \/ /\ c # q.hand /\ c # q.serving
                            /\ \A i \in DOMAIN q.backlog : q.backlog[i] # c
  PROVE  MissInv'
<1>1. shim'[s] = q /\ \A t \in Sandbox : t # s => shim'[t] = shim[t]
  BY DEF MissInv, StreamTypes
<1>2. \A t \in Sandbox : Serving(t)' /\ Queue(t)' /\ Whole(t)'
  BY <1>1, ShimKept
<1>3. ASSUME NEW c \in Conn, conn'[c].handler \in {"try", "dial"}
      PROVE  /\ conn'[c].pty = "none" /\ conn'[c].got = {}
             /\ \A t \in Sandbox : ~Holds(t, c)
  BY <1>3 DEF MissInv, Unasked, UnaskedKeeps, Holds
<1>4. ASSUME NEW c \in Conn, NEW t \in Sandbox, ~Holds(t, c)
      PROVE  /\ c \notin {shim'[t].hand, shim'[t].serving}
             /\ \A i \in DOMAIN shim'[t].backlog : shim'[t].backlog[i] # c
  <2>1. CASE t = s
    BY <1>1, <1>4, <2>1
  <2>2. CASE t # s
    BY <1>1, <1>4, <2>2 DEF Holds, Waiting
  <2> QED BY <2>1, <2>2
<1>5. \A c \in Conn : Unasked(c)'
  BY <1>3, <1>4 DEF Unasked, Waiting
<1> QED BY <1>2, <1>5 DEF MissInv

(* The same, where connections are at most sent something or ended. *)
LEMMA SameConn ==
  ASSUME MissInv, NEW s \in Sandbox,
         \A c \in Conn : /\ conn'[c].handler = conn[c].handler /\ conn'[c].target = conn[c].target
                         /\ conn'[c].pty = conn[c].pty
                         /\ conn'[c].got = conn[c].got \/ Holds(s, c)
  PROVE  /\ \A t \in Sandbox : t # s => KeptFor(t)
         /\ \A c \in Conn : UnaskedKeeps(c)
<1>1. ASSUME NEW t \in Sandbox, t # s, NEW c \in Conn, Holds(t, c)
      PROVE  ~Holds(s, c)
  BY <1>1, ShimFacts
<1>2. ASSUME NEW c \in Conn, conn[c].handler \in {"try", "dial"}
      PROVE  ~Holds(s, c)
  BY <1>2 DEF MissInv, Unasked, Holds
<1> QED BY <1>1, <1>2 DEF KeptFor, UnaskedKeeps

(* A chunk is read: the connection served is handed it. *)
LEMMA DrainMiss ==
  ASSUME MissInv, NEW s \in Sandbox, Drain(s)
  PROVE  MissInv'
<1>1. PICK q : q = [shim[s] EXCEPT !.read = @ + 1, !.hand = shim[s].current]
  OBVIOUS
<1>2. /\ q.read = shim[s].read + 1 /\ q.hand = shim[s].current
      /\ q.current = shim[s].current /\ q.serving = shim[s].serving
      /\ q.stage = shim[s].stage /\ q.snap = shim[s].snap /\ q.backlog = shim[s].backlog
  BY <1>1, ShimFacts DEF ShimRec
<1>3. /\ shim' = [shim EXCEPT ![s] = q] /\ conn' = conn /\ shim[s].hand = None
      /\ shim'[s] = q
  BY <1>1 DEF Drain, SetShim, MissInv, StreamTypes
<1>4. Serving(s) /\ Queue(s) /\ Whole(s) /\ shim[s].current = shim[s].serving
  BY DEF MissInv, Serving
<1>5. Serving(s)'
  BY <1>2, <1>3, <1>4 DEF Serving
<1>6. Queue(s)'
  BY <1>2, <1>3, <1>4 DEF Queue, Waiting
<1>7. Whole(s)'
  <2> SUFFICES ASSUME shim[s].serving # None, conn[shim[s].serving].pty = "open"
               PROVE  /\ \A m \in All(s)' : m..q.read \subseteq All(s)'
                      /\ shim[s].stage # "snapshot" => Replay(s)' \subseteq All(s)'
    BY <1>2, <1>3 DEF Whole
  <2>1. shim[s].read \in Nat /\ conn[shim[s].serving].got \in SUBSET Nat
        /\ shim[s].snap \in SUBSET Nat /\ ReplayCap \in Nat
    BY ShimFacts, StreamAssumption
  <2>2. All(s) = conn[shim[s].serving].got \cup shim[s].snap
    BY <1>3 DEF All, Due
  <2>3. All(s)' = All(s) \cup {shim[s].read + 1}
    BY <1>2, <1>3, <1>4, <2>2 DEF All, Due
  <2>4. \A m \in All(s) : m..shim[s].read \subseteq All(s) /\ m \in Nat
    BY <1>4, <2>1, <2>2 DEF Whole
  <2>5. \A m \in All(s)' : m..q.read \subseteq All(s)'
    BY <1>2, <2>1, <2>3, <2>4
  <2>6. Replay(s)' \subseteq Replay(s) \cup {shim[s].read + 1}
    BY <1>2, <1>3, <2>1 DEF Replay
  <2> QED BY <1>4, <2>3, <2>5, <2>6 DEF Whole
<1>8. \A c \in Conn : \/ Holds(s, c)
                      \/ /\ c # q.hand /\ c # q.serving
                         /\ \A i \in DOMAIN q.backlog : q.backlog[i] # c
  BY <1>2, <1>4 DEF Holds, Waiting
<1>9. StreamTypes'
  BY ShimTypes DEF MissInv, DrainStep
<1> QED BY <1>3, <1>5, <1>6, <1>7, <1>8, <1>9, SameConn, ShimMiss

(* The chunk at hand is written to its connection. *)
LEMMA DrainSendMiss ==
  ASSUME MissInv, NEW s \in Sandbox, DrainSend(s)
  PROVE  MissInv'
<1>1. PICK q : q = [shim[s] EXCEPT !.hand = None]
  OBVIOUS
<1>2. /\ q.read = shim[s].read /\ q.hand = None
      /\ q.current = shim[s].current /\ q.serving = shim[s].serving
      /\ q.stage = shim[s].stage /\ q.snap = shim[s].snap /\ q.backlog = shim[s].backlog
  BY <1>1, ShimFacts DEF ShimRec
<1>3. PICK h \in Conn : h = shim[s].hand /\ Holds(s, h)
  BY ShimFacts DEF DrainSend, Holds
<1>4. shim' = [shim EXCEPT ![s] = q] /\ shim'[s] = q
  BY <1>1 DEF DrainSend, SetShim, MissInv, StreamTypes
<1>5. {shim[s].read} \in SUBSET Nat /\ conn' = Sent(h, {shim[s].read}) /\ StreamTypes
  BY <1>3, ShimFacts DEF DrainSend, MissInv
<1>6. \A d \in Conn : /\ conn'[d].handler = conn[d].handler /\ conn'[d].target = conn[d].target
                      /\ conn'[d].pty = conn[d].pty
                      /\ conn'[d].got = IF d = h /\ conn[d].pty = "open"
                                    THEN conn[d].got \cup {shim[s].read} ELSE conn[d].got
  BY <1>5, SentTypes
<1>7. Serving(s) /\ Queue(s) /\ Whole(s)
  BY DEF MissInv
<1>8. Serving(s)'
  BY <1>2, <1>4, <1>7 DEF Serving
<1>9. Queue(s)'
  <2>1. shim[s].serving # None => /\ conn'[shim[s].serving].target = s
                                  /\ conn'[shim[s].serving].pty # "none"
    BY <1>6, <1>7, ShimFacts DEF Queue
  <2>2. ASSUME NEW i \in DOMAIN shim[s].backlog, NEW c, c = shim[s].backlog[i]
        PROVE  /\ conn'[c].target = s /\ conn'[c].pty # "none" /\ conn'[c].got = {}
               /\ c \notin {None, shim[s].serving}
               /\ \A j \in DOMAIN shim[s].backlog : c = shim[s].backlog[j] => i = j
    <3>1. c \in Conn /\ c # None
      BY <2>2, ShimFacts DEF Waiting
    <3> QED BY <1>3, <1>6, <1>7, <2>2, <3>1 DEF Queue, Waiting
  <2> QED BY <1>2, <1>4, <2>1, <2>2 DEF Queue, Waiting
<1>10. Whole(s)'
  <2>1. CASE shim[s].serving # None /\ conn'[shim[s].serving].pty = "open"
    <3>1. PICK c \in Conn : c = shim[s].serving /\ c # None
      BY <2>1, ShimFacts
    <3>2. All(s)' = All(s) /\ Replay(s)' = Replay(s) /\ conn[c].pty = "open"
      <4>1. All(s) = conn[c].got \cup (IF h = c THEN {shim[s].read} ELSE {}) \cup shim[s].snap
        BY <1>3, <3>1 DEF All, Due
      <4>2. All(s)' = conn'[c].got \cup shim[s].snap
        BY <1>2, <1>4, <3>1 DEF All, Due
      <4>3. Replay(s)' = Replay(s)
        BY <1>2, <1>4 DEF Replay
      <4>4. conn[c].pty = "open"
        BY <1>6, <2>1, <3>1
      <4> QED BY <1>6, <3>1, <4>1, <4>2, <4>3, <4>4
    <3> QED BY <1>2, <1>4, <1>7, <3>1, <3>2 DEF Whole
  <2>2. CASE ~(shim[s].serving # None /\ conn'[shim[s].serving].pty = "open")
    BY <1>2, <1>4, <2>2 DEF Whole
  <2> QED BY <2>1, <2>2
<1>11. \A c \in Conn : \/ Holds(s, c)
                       \/ /\ c # q.hand /\ c # q.serving
                          /\ \A i \in DOMAIN q.backlog : q.backlog[i] # c
  BY <1>2, ShimFacts DEF Holds, Waiting
<1>12. StreamTypes'
  BY ShimTypes DEF MissInv, DrainStep
<1>13. \A c \in Conn : /\ conn'[c].handler = conn[c].handler /\ conn'[c].target = conn[c].target
                       /\ conn'[c].pty = conn[c].pty
                       /\ conn'[c].got = conn[c].got \/ Holds(s, c)
  BY <1>3, <1>6
<1> QED BY <1>4, <1>8, <1>9, <1>10, <1>11, <1>12, <1>13, SameConn, ShimMiss

(* The connection that has waited longest is registered: nothing has been sent
   to it, and nothing is to be handed to it. *)
LEMMA AcceptMiss ==
  ASSUME MissInv, NEW s \in Sandbox, Accept(s)
  PROVE  MissInv'
<1>1. PICK b : b = shim[s].backlog
  OBVIOUS
<1>2. PICK c : c = Head(b)
  OBVIOUS
<1>3. PICK e : e = Tail(b)
  OBVIOUS
<1>4. b \in Seq(Conn) /\ b # <<>>
  BY <1>1, ShimFacts DEF Accept
<1>5. /\ c \in Conn /\ 1 \in DOMAIN b /\ b[1] = c
      /\ \A i \in DOMAIN e : i \in Nat /\ i + 1 \in DOMAIN b /\ i + 1 # 1 /\ e[i] = b[i + 1]
  BY <1>2, <1>3, <1>4, QueueFacts
<1>6. PICK q : q = [shim[s] EXCEPT !.serving = c, !.current = c,
                                   !.stage = "snapshot", !.backlog = e]
  OBVIOUS
<1>7. /\ q.read = shim[s].read /\ q.hand = shim[s].hand /\ q.current = c /\ q.serving = c
      /\ q.stage = "snapshot" /\ q.snap = shim[s].snap /\ q.backlog = e
  BY <1>6, ShimFacts DEF ShimRec
<1>8. shim' = [shim EXCEPT ![s] = q] /\ shim'[s] = q /\ conn' = conn /\ shim[s].serving = None
  BY <1>1, <1>2, <1>3, <1>6 DEF Accept, SetShim, MissInv, StreamTypes
<1>9. /\ shim[s].stage = "accept" /\ shim[s].snap = {}
      /\ shim[s].hand # None => conn[shim[s].hand].target = s
      /\ \A i \in DOMAIN b : /\ conn[b[i]].target = s /\ conn[b[i]].pty # "none"
                             /\ conn[b[i]].got = {} /\ b[i] # shim[s].hand
                             /\ \A j \in DOMAIN b : b[i] = b[j] => i = j
  BY <1>1, <1>8 DEF MissInv, Serving, Queue, Waiting
<1>10. Serving(s)'
  BY <1>5, <1>7, <1>8, <1>9, ShimFacts DEF Serving
<1>11. Queue(s)'
  <2>1. c # None /\ conn[c].target = s /\ conn[c].pty # "none"
    BY <1>5, <1>9, ShimFacts
  <2>2. ASSUME NEW i \in DOMAIN e
        PROVE  /\ conn[e[i]].target = s /\ conn[e[i]].pty # "none" /\ conn[e[i]].got = {}
               /\ e[i] # c /\ e[i] # shim[s].hand
    BY <1>5, <1>9
  <2>3. ASSUME NEW i \in DOMAIN e, NEW j \in DOMAIN e, e[i] = e[j]
        PROVE  i = j
    <3>1. i + 1 = j + 1
      BY <1>5, <1>9, <2>3
    <3> QED BY <1>5, <3>1
  <2> QED BY <1>7, <1>8, <1>9, <2>1, <2>2, <2>3 DEF Queue, Waiting
<1>12. Whole(s)'
  <2>1. conn[c].got = {} /\ c # shim[s].hand
    BY <1>5, <1>9
  <2>2. All(s)' = {}
    BY <1>7, <1>8, <1>9, <2>1 DEF All, Due
  <2> QED BY <1>7, <1>8, <2>2 DEF Whole
<1>13. \A d \in Conn : \/ Holds(s, d)
                       \/ /\ d # q.hand /\ d # q.serving
                          /\ \A i \in DOMAIN q.backlog : q.backlog[i] # d
  BY <1>1, <1>5, <1>7 DEF Holds, Waiting
<1>14. StreamTypes'
  BY ShimTypes DEF MissInv, ServeStep
<1> QED BY <1>8, <1>10, <1>11, <1>12, <1>13, <1>14, SameConn, ShimMiss

(* The replay buffer is copied: all of it but what was handed since. *)
LEMMA SnapshotMiss ==
  ASSUME MissInv, NEW s \in Sandbox, Snapshot(s)
  PROVE  MissInv'
<1>1. PICK q : q = [shim[s] EXCEPT !.snap = Replay(s), !.stage = "send"]
  OBVIOUS
<1>2. /\ q.read = shim[s].read /\ q.hand = shim[s].hand
      /\ q.current = shim[s].current /\ q.serving = shim[s].serving
      /\ q.stage = "send" /\ q.snap = Replay(s) /\ q.backlog = shim[s].backlog
  BY <1>1, ShimFacts DEF ShimRec
<1>3. /\ shim' = [shim EXCEPT ![s] = q] /\ conn' = conn /\ shim[s].stage = "snapshot"
      /\ shim'[s] = q
  BY <1>1 DEF Snapshot, SetShim, MissInv, StreamTypes
<1>4. Serving(s) /\ Queue(s) /\ Whole(s) /\ shim[s].snap = {}
  BY <1>3 DEF MissInv, Serving
<1>5. Serving(s)'
  BY <1>2, <1>3, <1>4 DEF Serving
<1>6. Queue(s)'
  BY <1>2, <1>3, <1>4 DEF Queue, Waiting
<1>7. Whole(s)'
  <2> SUFFICES ASSUME shim[s].serving # None, conn[shim[s].serving].pty = "open"
               PROVE  /\ \A m \in All(s)' : m..shim[s].read \subseteq All(s)'
                      /\ Replay(s)' \subseteq All(s)'
    BY <1>2, <1>3 DEF Whole
  <2>1. shim[s].read \in Nat /\ ReplayCap \in Nat
    BY ShimFacts, StreamAssumption
  <2>2. All(s)' = All(s) \cup Replay(s) /\ Replay(s)' = Replay(s)
    BY <1>2, <1>3, <1>4 DEF All, Due, Replay
  <2>3. \A m \in Replay(s) : m..shim[s].read \subseteq Replay(s)
    BY <2>1 DEF Replay
  <2>4. \A m \in All(s) : m..shim[s].read \subseteq All(s)
    BY <1>4 DEF Whole
  <2> QED BY <2>2, <2>3, <2>4
<1>8. \A c \in Conn : \/ Holds(s, c)
                      \/ /\ c # q.hand /\ c # q.serving
                         /\ \A i \in DOMAIN q.backlog : q.backlog[i] # c
  BY <1>2 DEF Holds, Waiting
<1>9. StreamTypes'
  BY ShimTypes DEF MissInv, ServeStep
<1> QED BY <1>3, <1>5, <1>6, <1>7, <1>8, <1>9, SameConn, ShimMiss

(* The copy is written to the connection. *)
LEMMA SendReplayMiss ==
  ASSUME MissInv, NEW s \in Sandbox, SendReplay(s)
  PROVE  MissInv'
<1>1. PICK q : q = [shim[s] EXCEPT !.stage = "relay", !.snap = {}]
  OBVIOUS
<1>2. /\ q.read = shim[s].read /\ q.hand = shim[s].hand
      /\ q.current = shim[s].current /\ q.serving = shim[s].serving
      /\ q.stage = "relay" /\ q.snap = {} /\ q.backlog = shim[s].backlog
  BY <1>1, ShimFacts DEF ShimRec
<1>3. /\ shim' = [shim EXCEPT ![s] = q] /\ shim'[s] = q /\ shim[s].stage = "send"
  BY <1>1 DEF SendReplay, SetShim, MissInv, StreamTypes
<1>4. Serving(s) /\ Queue(s) /\ Whole(s) /\ shim[s].serving # None
  BY <1>3 DEF MissInv, Serving
<1>5. PICK h \in Conn : h = shim[s].serving /\ Holds(s, h)
  BY <1>4, ShimFacts DEF Holds
<1>6. shim[s].snap \in SUBSET Nat /\ conn' = Sent(h, shim[s].snap) /\ StreamTypes
  BY <1>5, ShimFacts DEF SendReplay, MissInv
<1>7. \A d \in Conn : /\ conn'[d].handler = conn[d].handler /\ conn'[d].target = conn[d].target
                      /\ conn'[d].pty = conn[d].pty
                      /\ conn'[d].got = IF d = h /\ conn[d].pty = "open"
                                    THEN conn[d].got \cup shim[s].snap ELSE conn[d].got
  BY <1>6, SentTypes
<1>8. Serving(s)'
  BY <1>2, <1>3, <1>4 DEF Serving
<1>9. Queue(s)'
  <2>1. /\ conn'[h].target = s /\ conn'[h].pty # "none"
        /\ shim[s].hand # None => conn'[shim[s].hand].target = s
    BY <1>4, <1>5, <1>7, ShimFacts DEF Queue
  <2>2. ASSUME NEW i \in DOMAIN shim[s].backlog, NEW c, c = shim[s].backlog[i]
        PROVE  /\ conn'[c].target = s /\ conn'[c].pty # "none" /\ conn'[c].got = {}
               /\ c \notin {shim[s].hand, shim[s].serving}
               /\ \A j \in DOMAIN shim[s].backlog : c = shim[s].backlog[j] => i = j
    <3>1. c \in Conn
      BY <2>2, ShimFacts DEF Waiting
    <3> QED BY <1>4, <1>5, <1>7, <2>2, <3>1 DEF Queue, Waiting
  <2> QED BY <1>2, <1>3, <1>5, <2>1, <2>2 DEF Queue, Waiting
<1>10. Whole(s)'
  <2>1. CASE conn'[h].pty = "open"
    <3>1. conn'[h].got = conn[h].got \cup shim[s].snap /\ conn[h].pty = "open"
      BY <1>7, <2>1
    <3>2. All(s)' = All(s) /\ Replay(s)' = Replay(s)
      BY <1>2, <1>3, <1>5, <3>1 DEF All, Due, Replay
    <3> QED BY <1>2, <1>3, <1>4, <1>5, <3>1, <3>2 DEF Whole
  <2>2. CASE conn'[h].pty # "open"
    BY <1>2, <1>3, <1>5, <2>2 DEF Whole
  <2> QED BY <2>1, <2>2
<1>11. \A c \in Conn : \/ Holds(s, c)
                       \/ /\ c # q.hand /\ c # q.serving
                          /\ \A i \in DOMAIN q.backlog : q.backlog[i] # c
  BY <1>2 DEF Holds, Waiting
<1>12. StreamTypes'
  BY ShimTypes DEF MissInv, ServeStep
<1>13. \A c \in Conn : /\ conn'[c].handler = conn[c].handler /\ conn'[c].target = conn[c].target
                       /\ conn'[c].pty = conn[c].pty
                       /\ conn'[c].got = conn[c].got \/ Holds(s, c)
  BY <1>5, <1>7
<1> QED BY <1>3, <1>8, <1>9, <1>10, <1>11, <1>12, <1>13, SameConn, ShimMiss

(* A step after which the connections are what they were but for their ends. *)
LEMMA EndedMiss ==
  ASSUME MissInv, StreamTypes', NEW s \in Sandbox, NEW q, shim' = [shim EXCEPT ![s] = q],
         q.serving = None /\ q.current = None /\ q.stage = "accept" /\ q.snap = {},
         q.hand = shim[s].hand \/ q.hand = None,
         q.backlog = shim[s].backlog \/ q.backlog = <<>>,
         \A c \in Conn : /\ conn'[c].handler = conn[c].handler /\ conn'[c].target = conn[c].target
                         /\ conn'[c].pty = conn[c].pty /\ conn'[c].got = conn[c].got
  PROVE  MissInv'
<1>1. shim'[s] = q /\ Queue(s)
  BY DEF MissInv, StreamTypes
<1>2. Serving(s)' /\ Whole(s)'
  BY <1>1 DEF Serving, Whole
<1>3. q.hand # None => conn'[q.hand].target = s
  BY <1>1, ShimFacts DEF Queue
<1>4. ASSUME NEW i \in DOMAIN q.backlog, NEW c, c = q.backlog[i]
      PROVE  /\ conn'[c].target = s /\ conn'[c].pty # "none" /\ conn'[c].got = {}
             /\ c # q.hand /\ c # None /\ c = Waiting(s, i) /\ i \in DOMAIN shim[s].backlog
             /\ \A j \in DOMAIN q.backlog : c = q.backlog[j] => i = j
  <2>1. q.backlog = shim[s].backlog
    BY <1>4, QueueFacts
  <2>2. c \in Conn /\ c # None
    BY <1>4, <2>1, ShimFacts DEF Waiting
  <2> QED BY <1>1, <1>4, <2>1, <2>2 DEF Queue, Waiting
<1>5. Queue(s)'
  BY <1>1, <1>3, <1>4 DEF Queue, Waiting
<1>6. \A c \in Conn : \/ Holds(s, c)
                      \/ /\ c # q.hand /\ c # q.serving
                         /\ \A i \in DOMAIN q.backlog : q.backlog[i] # c
  BY <1>4, StreamAssumption DEF Holds
<1> QED BY <1>2, <1>5, <1>6, SameConn, ShimMiss

LEMMA ServeEndMiss ==
  ASSUME MissInv, NEW s \in Sandbox, ServeEnd(s)
  PROVE  MissInv'
<1>1. PICK q : q = [shim[s] EXCEPT !.serving = None, !.current = None,
                                   !.stage = "accept", !.snap = {}]
  OBVIOUS
<1>2. /\ q.hand = shim[s].hand /\ q.current = None /\ q.serving = None
      /\ q.stage = "accept" /\ q.snap = {} /\ q.backlog = shim[s].backlog
  BY <1>1, ShimFacts DEF ShimRec
<1>3. shim' = [shim EXCEPT ![s] = q] /\ shim[s].stage \in {"relay", "send"}
  BY <1>1 DEF ServeEnd, SetShim
<1>4. shim[s].serving # None
  BY <1>3 DEF MissInv, Serving
<1>5. PICK c \in Conn : c = shim[s].serving
  BY <1>4, ShimFacts
<1>6. conn' = [conn EXCEPT ![c] = [conn[c] EXCEPT !.ended = TRUE]]
  BY <1>5 DEF ServeEnd, SetConn
<1>7. \A d \in Conn : /\ conn'[d].handler = conn[d].handler /\ conn'[d].target = conn[d].target
                      /\ conn'[d].pty = conn[d].pty /\ conn'[d].got = conn[d].got
  BY <1>6 DEF MissInv, StreamTypes, ConnRec
<1>8. StreamTypes'
  BY ShimTypes DEF MissInv, ServeStep
<1> QED BY <1>2, <1>3, <1>4, <1>7, <1>8, EndedMiss

LEMMA ExitMiss ==
  ASSUME MissInv, NEW s \in Sandbox, Exit(s)
  PROVE  MissInv'
<1>1. PICK q : q = NewShim
  OBVIOUS
<1>2. /\ q.hand = None /\ q.current = None /\ q.serving = None
      /\ q.stage = "accept" /\ q.snap = {} /\ q.backlog = <<>>
  BY <1>1 DEF NewShim
<1>3. shim' = [shim EXCEPT ![s] = q]
  BY <1>1 DEF Exit, SetShim
<1>4. conn' = [c \in Conn |-> IF conn[c].target = s /\ conn[c].pty # "none"
                             THEN [conn[c] EXCEPT !.ended = TRUE] ELSE conn[c]]
  BY DEF Exit
<1>5. ASSUME NEW d \in Conn
      PROVE  /\ conn'[d].handler = conn[d].handler /\ conn'[d].target = conn[d].target
             /\ conn'[d].pty = conn[d].pty /\ conn'[d].got = conn[d].got
  <2>1. PICK r \in ConnRec : r = conn[d]
    BY DEF MissInv, StreamTypes
  <2>2. conn'[d] = r \/ conn'[d] = [r EXCEPT !.ended = TRUE]
    BY <1>4, <2>1
  <2> QED BY <2>1, <2>2 DEF ConnRec
<1>6. StreamTypes'
  BY ShimTypes DEF MissInv
<1> QED BY <1>2, <1>3, <1>5, <1>6, EndedMiss

LEMMA NextMiss == MissInv /\ [StreamNext]_streamVars => MissInv'
<1> SUFFICES ASSUME MissInv, [StreamNext]_streamVars PROVE MissInv'
  OBVIOUS
<1>1. CASE \/ UNCHANGED streamVars
           \/ \E s \in Sandbox : ForceDetach(s) \/ Launch(s) \/ ReadKeys(s) \/ TakeKeys(s)
  <2>1. UNCHANGED <<conn, shim>>
    BY <1>1 DEF streamVars, ForceDetach, Launch, ReadKeys, TakeKeys
  <2>2. (\A s \in Sandbox : KeptFor(s)) /\ \A c \in Conn : UnaskedKeeps(c)
    BY <2>1 DEF KeptFor, UnaskedKeeps
  <2> QED BY <2>1, <2>2, NextTypes, QuietMiss DEF MissInv
<1>2. ASSUME NEW c \in Conn, HandlerStep(c) \/ ClientStep(c)
      PROVE  MissInv'
  <2>1. CASE /\ UNCHANGED shim
             /\ \/ HandlerStep(c) \/ DetachKeys(c) \/ Type(c)
                \/ ClientOpen(c) \/ ClientLeave(c)
    BY <2>1, HandlerMiss
  <2>2. CASE AttachDial(c) /\ ~UNCHANGED shim
    BY <2>2, AskMiss
  <2>3. CASE \E s \in Sandbox : Dial(c, s)
    BY <2>3, DialMiss
  <2> QED BY <1>2, <2>1, <2>2, <2>3 DEF HandlerStep, ClientStep, AttachTry, AttachReply, SendKeys,
                 PumpEnd, RelayEnd, Unwind, Detach, DetachKeys, Type, ClientOpen, ClientLeave
<1>3. CASE MurodDies
  <2>1. UNCHANGED shim
    BY <1>3 DEF MurodDies
  <2>2. (\A s \in Sandbox : KeptFor(s)) /\ \A c \in Conn : UnaskedKeeps(c)
    BY <1>3, DeathConn DEF MissInv, KeptFor, UnaskedKeeps
  <2>3. StreamTypes'
    BY NextTypes DEF MissInv
  <2> QED BY <2>1, <2>2, <2>3, QuietMiss
<1> QED BY <1>1, <1>2, <1>3, DrainMiss, DrainSendMiss, AcceptMiss, SnapshotMiss, SendReplayMiss,
           ServeEndMiss, ExitMiss DEF StreamNext, DrainStep, ServeStep

LEMMA MissImplies == MissInv => NothingMissed
<1> SUFFICES ASSUME MissInv, NEW s \in Sandbox, shim[s].serving # None, shim[s].stage = "relay",
                    conn[shim[s].serving].pty = "open"
             PROVE  /\ Replay(s) \subseteq All(s)
                    /\ \A m \in All(s) : m..shim[s].read \subseteq All(s)
                    /\ shim[s].snap = {}
  BY DEF NothingMissed, All, Due
<1> QED BY DEF MissInv, Whole, Serving

(* A client that is served misses no output, from the first chunk it was sent:
   ptyBroadcaster registers the receiver and copies the replay buffer in two
   critical sections, and writes come in between. *)
THEOREM NoOutputMissed == StreamSpec => []NothingMissed
<1>1. StreamSpec => []MissInv
  BY InitMiss, NextMiss, PTL DEF StreamSpec
<1> QED BY <1>1, MissImplies, PTL

-----------------------------------------------------------------------------
(* One session to a shim, and no slot without an attach to free it. *)

(* A step at which no handler passes TryAttach or leaves the registry. *)
LEMMA SlotKeeps ==
  ASSUME SlotInv, StreamTypes',
         \A c \in Conn : /\ Past(c)' <=> Past(c)
                         /\ Past(c) => conn'[c].target = conn[c].target
                         /\ conn'[c].pty = "open" => conn'[c].handler \in {"reply", "relay", "unwind"},
         \/ slot' = slot /\ stops' = stops
         \/ slot' \subseteq slot /\ stops' = stops + 1
  PROVE  SlotInv'
<1>1. SlotBacked'
  BY DEF SlotInv, SlotBacked, Past
<1>2. stops' = 0 => Owned'
  <2>1. stops' = 0 => slot' = slot /\ stops = 0
    BY DEF SlotInv, StreamTypes
  <2>2. stops' = 0 => Owned
    BY <2>1 DEF SlotInv
  <2> QED BY <2>1, <2>2 DEF Owned
<1> QED BY <1>1, <1>2 DEF SlotInv

(* The shim's steps leave the handlers and murod's ends alone. *)
LEMMA ShimSteps ==
  ASSUME StreamTypes, NEW s \in Sandbox,
         DrainStep(s) \/ ServeStep(s) \/ TakeKeys(s) \/ ForceDetach(s) \/ Exit(s) \/ Launch(s)
  PROVE  \A c \in Conn : /\ conn'[c].handler = conn[c].handler /\ conn'[c].target = conn[c].target
                         /\ conn'[c].pty = conn[c].pty /\ conn'[c].client = conn[c].client
<1>1. \A c \in Conn : conn[c] \in ConnRec
  BY DEF StreamTypes
<1>2. CASE UNCHANGED conn
  BY <1>2
<1>3. CASE DrainSend(s)
  <2>1. {shim[s].read} \in SUBSET Nat
    BY DEF StreamTypes, ShimRec
  <2> QED BY <1>3, <2>1, SentTypes DEF DrainSend
<1>4. CASE SendReplay(s)
  <2>1. shim[s].snap \in SUBSET Nat
    BY DEF StreamTypes, ShimRec
  <2>2. conn' = Sent(shim[s].serving, shim[s].snap)
    BY <1>4 DEF SendReplay
  <2> QED BY <2>1, <2>2, SentTypes
<1>5. CASE ServeEnd(s) \/ Exit(s)
  <2> SUFFICES ASSUME NEW c \in Conn
               PROVE  /\ conn'[c].handler = conn[c].handler /\ conn'[c].target = conn[c].target
                      /\ conn'[c].pty = conn[c].pty /\ conn'[c].client = conn[c].client
    OBVIOUS
  <2>1. conn'[c] = conn[c] \/ conn'[c] = [conn[c] EXCEPT !.ended = TRUE]
    BY <1>5 DEF ServeEnd, Exit, SetConn, StreamTypes
  <2> QED BY <1>1, <2>1 DEF ConnRec
<1> QED BY <1>2, <1>3, <1>4, <1>5 DEF DrainStep, ServeStep, Drain, Accept, Snapshot,
                                      ReadKeys, TakeKeys, ForceDetach, Launch

LEMMA InitSlot == StreamInit => SlotInv
<1> SUFFICES ASSUME StreamInit PROVE SlotInv
  OBVIOUS
<1>1. \A c \in Conn : conn[c].handler = "none" /\ conn[c].pty = "none"
  BY DEF StreamInit, NoConn
<1> QED BY <1>1, InitTypes DEF SlotInv, SlotBacked, Owned, Past, StreamInit

LEMMA HandlerSlot ==
  ASSUME SlotInv, NEW c \in Conn, HandlerStep(c) \/ DetachKeys(c) \/ Type(c)
  PROVE  SlotInv'
<1>1. PICK r : Moved(c, r) /\ HandlerMove(c, r)
  BY HandlerConn DEF SlotInv
<1>2. /\ conn'[c] = r /\ \A d \in Conn : d # c => conn'[d] = conn[d]
      /\ r.target = conn[c].target /\ conn[c].target \in Sandbox
  BY <1>1 DEF SlotInv, StreamTypes, Moved, HandlerMove
<1>3. StreamTypes' /\ stops' = stops
  BY HandlerTypes DEF SlotInv, ClientStep, HandlerStep, AttachTry, AttachDial, AttachReply,
     SendKeys, PumpEnd, RelayEnd, Unwind, Detach, DetachKeys, Type, At
<1>4. \A d \in Conn : conn'[d].pty = "open" => conn'[d].handler \in {"reply", "relay", "unwind"}
  BY <1>1, <1>2 DEF SlotInv, HandlerMove
<1>5. CASE AttachTry(c) /\ slot' # slot
  <2>1. /\ slot' = slot \cup {conn[c].target} /\ conn[c].target \notin slot
        /\ conn[c].handler = "try"
    BY <1>5 DEF AttachTry, At
  <2>2. conn' = [conn EXCEPT ![c] = [conn[c] EXCEPT !.handler = "dial"]]
    BY <1>5 DEF AttachTry, SetConn
  <2>3. r.handler = "dial"
    BY <1>2, <2>2 DEF SlotInv, StreamTypes, ConnRec
  <2>4. SlotBacked'
    BY <1>2, <2>1, <2>3 DEF SlotInv, SlotBacked
  <2>5. stops' = 0 => Owned'
    BY <1>2, <1>3, <2>1, <2>3 DEF SlotInv, Owned, Past
  <2> QED BY <1>3, <1>4, <2>4, <2>5 DEF SlotInv
<1>6. CASE Detach(c)
  <2>1. slot' = slot \ {conn[c].target} /\ conn[c].handler = "detach"
    BY <1>6 DEF Detach, At
  <2>2. conn' = [conn EXCEPT ![c] = Refused(c)]
    BY <1>6 DEF Detach, SetConn
  <2>3. r.handler = "none"
    BY <1>2, <2>2 DEF SlotInv, StreamTypes, ConnRec, Refused
  <2>4. SlotBacked'
    BY <1>2, <2>1, <2>3 DEF SlotInv, SlotBacked
  <2>5. stops' = 0 => Owned'
    BY <1>2, <1>3, <2>1, <2>3 DEF SlotInv, Owned, Past
  <2> QED BY <1>3, <1>4, <2>4, <2>5 DEF SlotInv
<1>7. CASE slot' = slot /\ ~Detach(c)
  <2>1. conn[c].handler = "detach" => r.handler = "detach"
    <3> SUFFICES ASSUME conn[c].handler = "detach" PROVE r.handler = "detach"
      OBVIOUS
    <3>1. conn' = [conn EXCEPT ![c] = [conn[c] EXCEPT !.server = TRUE]]
      BY <1>7 DEF HandlerStep, AttachTry, AttachDial, AttachReply, SendKeys, PumpEnd, RelayEnd,
                  Unwind, DetachKeys, Type, At, SetConn
    <3> QED BY <1>2, <3>1 DEF SlotInv, StreamTypes, ConnRec
  <2>2. conn[c].handler = "try" => r.handler = "none"
    <3> SUFFICES ASSUME conn[c].handler = "try" PROVE r.handler = "none"
      OBVIOUS
    <3>1. AttachTry(c)
      BY <1>7 DEF HandlerStep, AttachDial, AttachReply, SendKeys, PumpEnd, RelayEnd,
                  Unwind, DetachKeys, Type, At
    <3>2. conn' = [conn EXCEPT ![c] = Refused(c)]
      BY <1>2, <1>7, <3>1 DEF AttachTry, SetConn
    <3> QED BY <1>2, <3>2 DEF SlotInv, StreamTypes, ConnRec, Refused
  <2>3. \A d \in Conn : (Past(d)' <=> Past(d)) /\ (Past(d) => conn'[d].target = conn[d].target)
    BY <1>1, <1>2, <2>1, <2>2 DEF Past, HandlerMove
  <2> QED BY <1>3, <1>4, <1>7, <2>3, SlotKeeps
<1> QED BY <1>5, <1>6, <1>7 DEF HandlerStep, AttachTry, AttachDial, AttachReply, SendKeys,
           PumpEnd, RelayEnd, Unwind, DetachKeys, Type

LEMMA NextSlot == SlotInv /\ [StreamNext]_streamVars => SlotInv'
<1> SUFFICES ASSUME SlotInv, [StreamNext]_streamVars PROVE SlotInv'
  OBVIOUS
<1>0. StreamTypes'
  BY NextTypes DEF SlotInv
<1>1. CASE UNCHANGED streamVars
  <2>1. conn' = conn /\ slot' = slot /\ stops' = stops
    BY <1>1 DEF streamVars
  <2> QED BY <1>0, <2>1, SlotKeeps DEF SlotInv, Past
<1>2. ASSUME NEW c \in Conn, ClientOpen(c) \/ ClientLeave(c)
      PROVE  SlotInv'
  <2>1. PICK r : Moved(c, r) /\ ClientMove(c, r)
    BY <1>2, ClientConn DEF SlotInv
  <2>2. /\ conn'[c] = r /\ \A d \in Conn : d # c => conn'[d] = conn[d]
        /\ slot' = slot /\ stops' = stops
    BY <1>2, <2>1 DEF SlotInv, StreamTypes, Moved, ClientOpen, ClientLeave
  <2> QED BY <1>0, <2>1, <2>2, SlotKeeps DEF SlotInv, Past, ClientMove, Moved
<1>3. ASSUME NEW c \in Conn, NEW s \in Sandbox, Dial(c, s)
      PROVE  SlotInv'
  <2>1. PICK r \in ConnRec : conn' = [conn EXCEPT ![c] = r] /\ r.handler = "try" /\ r.pty = "none"
    BY <1>3, DialConn DEF SlotInv
  <2>2. /\ conn'[c] = r /\ \A d \in Conn : d # c => conn'[d] = conn[d]
        /\ slot' = slot /\ stops' = stops /\ conn[c].handler = "none"
    BY <1>3, <2>1 DEF SlotInv, StreamTypes, Dial, Free
  <2> QED BY <1>0, <2>1, <2>2, SlotKeeps DEF SlotInv, Past
<1>4. ASSUME NEW s \in Sandbox,
             DrainStep(s) \/ ServeStep(s) \/ TakeKeys(s) \/ ForceDetach(s) \/ Exit(s) \/ Launch(s)
      PROVE  SlotInv'
  <2>1. \A c \in Conn : /\ conn'[c].handler = conn[c].handler /\ conn'[c].target = conn[c].target
                        /\ conn'[c].pty = conn[c].pty
    BY <1>4, ShimSteps DEF SlotInv
  <2>2. \/ slot' = slot /\ stops' = stops
        \/ slot' \subseteq slot /\ stops' = stops + 1
    BY <1>4 DEF DrainStep, ServeStep, Drain, DrainSend, Accept, Snapshot, SendReplay, ServeEnd,
                ReadKeys, TakeKeys, ForceDetach, Exit, Launch
  <2> QED BY <1>0, <2>1, <2>2, SlotKeeps DEF SlotInv, Past
<1>5. CASE MurodDies
  <2>1. slot' = {} /\ \A c \in Conn : conn'[c].handler = "none" /\ conn'[c].pty # "open"
    BY <1>5, DeathConn DEF SlotInv, MurodDies
  <2> QED BY <1>0, <2>1 DEF SlotInv, SlotBacked, Owned, Past
<1> QED BY <1>1, <1>2, <1>3, <1>4, <1>5, HandlerSlot DEF StreamNext, ClientStep

LEMMA SlotImplies == SlotInv => OneSession
<1> SUFFICES ASSUME SlotInv, stops = 0, NEW s \in Sandbox
             PROVE  Cardinality(Sessions(s)) <= 1
  BY DEF OneSession
<1>1. \A c \in Sessions(s) : c \in Conn /\ Past(c) /\ conn[c].target = s
  BY DEF SlotInv, Sessions, Past
<1>2. \A c, d \in Sessions(s) : c = d
  BY <1>1 DEF SlotInv, Owned
<1>3. CASE Sessions(s) = {}
  BY <1>3, FS_EmptySet
<1>4. CASE Sessions(s) # {}
  <2>1. PICK c : Sessions(s) = {c}
    BY <1>2, <1>4
  <2>2. Cardinality({c}) = 1
    BY FS_Singleton
  <2> QED BY <2>1, <2>2
<1> QED BY <1>3, <1>4

(* A claimed slot belongs to an attach that is on its way or in session, and so
   to one that will free it: no way out of handleAttach keeps the slot. *)
THEOREM SlotIsBacked == StreamSpec => []SlotBacked
<1>1. StreamSpec => []SlotInv
  BY InitSlot, NextSlot, PTL DEF StreamSpec
<1>2. SlotInv => SlotBacked
  BY DEF SlotInv
<1> QED BY <1>1, <1>2, PTL

(* murod never holds two open sessions to one live shim, while no Stop or
   Restart has freed a slot by its key (DESIGN.md 12). *)
THEOREM OneSessionAtATime == StreamSpec => []OneSession
<1>1. StreamSpec => []SlotInv
  BY InitSlot, NextSlot, PTL DEF StreamSpec
<1> QED BY <1>1, SlotImplies, PTL

-----------------------------------------------------------------------------
(* The console. *)

(* What the console's invariant needs of a step of its connections. *)
Onwards(c) ==
  /\ conn'[c].target = conn[c].target
  /\ \/ conn'[c].client = conn[c].client
     \/ conn[c].client = "waiting" /\ conn'[c].client \in {"answered", "refused"}

LEMMA StreamOnwards ==
  ASSUME StreamTypes,
         \/ UNCHANGED streamVars
         \/ \E c \in Conn : HandlerStep(c) \/ DetachKeys(c) \/ Type(c)
         \/ \E s \in Sandbox : \/ DrainStep(s) \/ ServeStep(s) \/ TakeKeys(s) \/ ForceDetach(s)
                               \/ Exit(s) \/ Launch(s)
  PROVE  StreamTypes' /\ \A c \in Conn : Onwards(c)
<1>1. CASE UNCHANGED streamVars
  BY <1>1 DEF streamVars, StreamTypes, Onwards
<1>2. ASSUME NEW c \in Conn, HandlerStep(c) \/ DetachKeys(c) \/ Type(c)
      PROVE  StreamTypes' /\ \A d \in Conn : Onwards(d)
  <2>1. PICK r : Moved(c, r) /\ HandlerMove(c, r)
    BY <1>2, HandlerConn
  <2>2. conn'[c] = r /\ \A d \in Conn : d # c => conn'[d] = conn[d]
    BY <2>1 DEF StreamTypes, Moved
  <2>3. Onwards(c)
    BY <2>1, <2>2 DEF Onwards, Moved, HandlerMove
  <2>4. \A d \in Conn : d # c => Onwards(d)
    BY <2>2 DEF Onwards
  <2> QED BY <1>2, <2>3, <2>4, HandlerTypes DEF ClientStep
<1>3. ASSUME NEW s \in Sandbox,
             DrainStep(s) \/ ServeStep(s) \/ TakeKeys(s) \/ ForceDetach(s) \/ Exit(s) \/ Launch(s)
      PROVE  StreamTypes' /\ \A c \in Conn : Onwards(c)
  BY <1>3, ShimTypes, ShimSteps DEF Onwards
<1> QED BY <1>1, <1>2, <1>3

(* A step that leaves the session as it is. *)
LEMMA TuiKeeps ==
  ASSUME TuiInv, StreamTypes', \A c \in Conn : Onwards(c), UNCHANGED <<sess, showing, pending>>
  PROVE  TuiInv'
<1>1. sess # None => sess \in Conn /\ conn'[sess].client = "open" /\ conn'[sess].target = showing
  BY DEF TuiInv, Onwards
<1>2. \A c \in Conn : conn'[c].client = "open" => c = sess /\ conn'[c].target = showing
  BY DEF TuiInv, Onwards, HoldsOne
<1>3. showing \notin {pending, None} =>
        \E c \in Conn : /\ conn'[c].target = pending
                        /\ conn'[c].client \in {"waiting", "answered", "refused"}
  BY DEF TuiInv, Onwards
<1> QED BY <1>1, <1>2, <1>3 DEF TuiInv, HoldsOne

(* A dial of the sandbox that is asked for now, on a connection that is closed. *)
LEMMA TuiDials ==
  ASSUME TuiInv, NEW s \in Sandbox, SwitchTo(s), UNCHANGED <<sess, showing>>
  PROVE  TuiInv'
<1>1. PICK c \in Conn : Dial(c, s) /\ pending' = s
  BY DEF SwitchTo
<1>2. PICK r \in ConnRec : /\ conn' = [conn EXCEPT ![c] = r]
                           /\ r.target = s /\ r.client = "waiting"
  BY <1>1, DialConn DEF TuiInv
<1>3. /\ conn'[c] = r /\ \A d \in Conn : d # c => conn'[d] = conn[d]
      /\ conn[c].client = "closed"
  BY <1>1, <1>2 DEF TuiInv, StreamTypes, Dial, Free
<1>4. StreamTypes'
  BY <1>1, HandlerTypes DEF TuiInv, ClientStep
<1>5. sess # None => sess \in Conn /\ conn'[sess].client = "open" /\ conn'[sess].target = showing
  BY <1>3 DEF TuiInv
<1>6. HoldsOne'
  BY <1>2, <1>3 DEF TuiInv, HoldsOne
<1> QED BY <1>1, <1>2, <1>3, <1>4, <1>5, <1>6 DEF TuiInv

(* The console's end of some connections is opened or closed. *)
LEMMA EndTypes ==
  ASSUME StreamTypes, NEW c \in Conn, NEW f \in [Conn -> ConnRec],
         NEW k \in {"closed", "open"}, conn' = [f EXCEPT ![c].client = k],
         \A d \in Conn : f[d].target = conn[d].target /\ f[d].handler = conn[d].handler,
         UNCHANGED <<shim, slot, stops>>
  PROVE  /\ StreamTypes' /\ conn'[c].client = k
         /\ \A d \in Conn : conn'[d].target = conn[d].target /\ conn'[d].handler = conn[d].handler
         /\ \A d \in Conn : d # c => conn'[d] = f[d]
<1>1. PICK r \in ConnRec : r = [f[c] EXCEPT !.client = k]
  BY ConnUpdates
<1>2. r.client = k /\ r.target = f[c].target /\ r.handler = f[c].handler
  BY <1>1 DEF ConnRec
<1>3. conn' = [f EXCEPT ![c] = r]
  BY <1>1
<1>4. conn' \in [Conn -> ConnRec] /\ conn'[c] = r /\ \A d \in Conn : d # c => conn'[d] = f[d]
  BY <1>3
<1>5. \A d \in Conn : conn'[d].target = conn[d].target /\ conn'[d].handler = conn[d].handler
  BY <1>2, <1>4
<1>6. StreamTypes'
  BY <1>4, <1>5, TypesFrom DEF StreamTypes
<1> QED BY <1>2, <1>4, <1>5, <1>6

LEMMA ReleasedConn ==
  ASSUME TuiInv
  PROVE  /\ Released \in [Conn -> ConnRec]
         /\ \A d \in Conn : /\ Released[d].target = conn[d].target
                            /\ Released[d].handler = conn[d].handler
                            /\ Released[d].client # "open"
                            /\ d # sess => Released[d] = conn[d]
<1>1. conn \in [Conn -> ConnRec]
  BY DEF TuiInv, StreamTypes
<1>2. CASE sess = None
  <2>1. Released = conn /\ \A d \in Conn : d # sess
    BY <1>2, StreamAssumption DEF Released
  <2> QED BY <1>1, <2>1 DEF TuiInv, HoldsOne
<1>3. CASE sess # None
  <2>1. sess \in Conn
    BY <1>3 DEF TuiInv
  <2>2. PICK r \in ConnRec : r = [conn[sess] EXCEPT !.client = "closed"]
    BY <1>1, <2>1, ConnUpdates
  <2>3. Released = [conn EXCEPT ![sess] = r]
    BY <1>3, <2>2 DEF Released, Hangup
  <2>4. r.client = "closed" /\ r.target = conn[sess].target /\ r.handler = conn[sess].handler
    BY <1>1, <2>1, <2>2 DEF ConnRec
  <2>5. Released[sess] = r /\ \A d \in Conn : d # sess => Released[d] = conn[d]
    BY <1>1, <2>1, <2>3
  <2> QED BY <1>1, <2>1, <2>2, <2>3, <2>4, <2>5 DEF TuiInv, HoldsOne
<1> QED BY <1>2, <1>3

(* An answer to a dial that was superseded is let go of. *)
LEMMA TuiSuperseded ==
  ASSUME TuiInv, NEW c \in Conn, Superseded(c), UNCHANGED <<shim, slot, stops, pending>>
  PROVE  TuiInv'
<1>1. /\ conn' = [conn EXCEPT ![c].client = "closed"] /\ UNCHANGED <<sess, showing>>
      /\ conn[c].client \in {"answered", "refused"} /\ conn[c].target # pending
  BY DEF Superseded, Hangup
<1>2. /\ StreamTypes' /\ conn'[c].client = "closed"
      /\ \A d \in Conn : conn'[d].target = conn[d].target
      /\ \A d \in Conn : d # c => conn'[d] = conn[d]
  BY <1>1, EndTypes DEF TuiInv, StreamTypes
<1>3. sess # None => sess \in Conn /\ conn'[sess].client = "open" /\ conn'[sess].target = showing
  BY <1>1, <1>2 DEF TuiInv
<1>4. HoldsOne'
  BY <1>1, <1>2 DEF TuiInv, HoldsOne
<1> QED BY <1>1, <1>2, <1>3, <1>4 DEF TuiInv

(* An answer to the dial that was asked for last replaces the session. *)
LEMMA TuiReplaces ==
  ASSUME TuiInv, NEW c \in Conn, Opened(c) \/ OpenFailed(c), UNCHANGED <<shim, slot, stops, pending>>
  PROVE  TuiInv'
<1>1. PICK k \in {"closed", "open"} :
        /\ conn' = [Released EXCEPT ![c].client = k] /\ conn[c].target = pending
        /\ k = "open" => sess' = c /\ showing' = pending
        /\ k = "closed" => sess' = None /\ showing' = None
  BY DEF Opened, OpenFailed
<1>2. /\ StreamTypes' /\ conn'[c].client = k
      /\ \A d \in Conn : conn'[d].target = conn[d].target
      /\ \A d \in Conn : d # c => conn'[d] = Released[d]
  <2>1. PICK f : f = Released
    OBVIOUS
  <2>2. f \in [Conn -> ConnRec]
    BY <2>1, ReleasedConn
  <2>3. conn' = [f EXCEPT ![c].client = k]
    BY <1>1, <2>1
  <2>4. \A d \in Conn : f[d].target = conn[d].target /\ f[d].handler = conn[d].handler
    BY <2>1, ReleasedConn
  <2>5. StreamTypes /\ UNCHANGED <<shim, slot, stops>>
    BY DEF TuiInv
  <2>6. /\ StreamTypes' /\ conn'[c].client = k
        /\ \A d \in Conn : conn'[d].target = conn[d].target
        /\ \A d \in Conn : d # c => conn'[d] = f[d]
    BY <2>2, <2>3, <2>4, <2>5, EndTypes
  <2> QED BY <2>1, <2>6
<1>3. \A d \in Conn : conn'[d].client = "open" => d = c /\ k = "open"
  BY <1>2, ReleasedConn
<1>4. showing' \in {pending', None}
  BY <1>1
<1> QED BY <1>1, <1>2, <1>3, <1>4, StreamAssumption DEF TuiInv, HoldsOne

LEMMA TuiInit == Init => TuiInv /\ Chosen
<1> SUFFICES ASSUME Init PROVE TuiInv /\ Chosen
  OBVIOUS
<1>1. \A c \in Conn : conn[c].client = "closed"
  BY DEF Init, StreamInit, NoConn
<1> QED BY <1>1, InitTypes DEF Init, TuiInv, Chosen, HoldsOne

LEMMA ChosenNext == Chosen /\ [Next]_vars => Chosen'
<1> SUFFICES ASSUME Chosen, [Next]_vars PROVE Chosen'
  OBVIOUS
<1>1. ASSUME NEW s \in Sandbox, starting' = Starting(s), sel' = sel
      PROVE  Chosen'
  BY <1>1 DEF Chosen, Starting
<1>2. ASSUME starting' \in {starting, None}, sel' = sel \/ sel' \in Sandbox
      PROVE  Chosen'
  BY <1>2 DEF Chosen
<1>3. ASSUME NEW s \in Sandbox, LaunchStep(s)
      PROVE  Chosen'
  <2>1. CASE starting = Starting(s)
    <3>1. starting' = [Starting(s) EXCEPT !.up = TRUE] /\ sel' = sel
      BY <1>3, <2>1 DEF LaunchStep
    <3>2. starting'.target = s
      BY <3>1 DEF Starting
    <3> QED BY <3>1, <3>2 DEF Chosen
  <2>2. CASE starting # Starting(s)
    BY <1>2, <1>3, <2>2 DEF LaunchStep
  <2> QED BY <2>1, <2>2
<1>4. CASE Operator
  <2>1. sel \in Sandbox
    BY DEF Chosen
  <2> QED BY <1>1, <1>2, <1>4, <2>1
          DEF Operator, MoveSelection, LaunchForm, Enter, TypeKeys, LeaveConsole,
              DetachConsole, consoleVars
<1>5. CASE Message \/ Status \/ Stream \/ UNCHANGED vars
  BY <1>2, <1>5 DEF Message, PaneTick, Started, SessionOpened, Status, Stream, consoleVars, vars
<1> QED BY <1>3, <1>4, <1>5 DEF Next

LEMMA TuiNext == Chosen /\ TuiInv /\ [Next]_vars => TuiInv'
<1> SUFFICES ASSUME Chosen, TuiInv, [Next]_vars PROVE TuiInv'
  OBVIOUS
<1> DEFINE Quiet == /\ UNCHANGED <<sess, showing, pending>>
                    /\ \/ UNCHANGED streamVars
                       \/ \E c \in Conn : HandlerStep(c) \/ DetachKeys(c) \/ Type(c)
                       \/ \E s \in Sandbox : \/ DrainStep(s) \/ ServeStep(s) \/ TakeKeys(s)
                                             \/ ForceDetach(s) \/ Exit(s) \/ Launch(s)
           Switch == UNCHANGED <<sess, showing>> /\ \E s \in Sandbox : SwitchTo(s)
<1>1. CASE Quiet
  BY <1>1, StreamOnwards, TuiKeeps DEF TuiInv
<1>2. CASE Switch
  BY <1>2, TuiDials
<1>3. CASE UNCHANGED vars
  <2>1. Quiet
    BY <1>3 DEF vars, consoleVars
  <2> QED BY <1>1, <2>1
<1>4. ASSUME NEW s \in Sandbox, MoveSelection(s) \/ LaunchForm(s)
      PROVE  TuiInv'
  <2>1. Quiet \/ Switch
    BY <1>4 DEF MoveSelection, LaunchForm, FollowSelection
  <2> QED BY <1>1, <1>2, <2>1
<1>5. CASE Enter
  <2>1. Quiet \/ Switch
    BY <1>5 DEF Enter, Chosen
  <2> QED BY <1>1, <1>2, <2>1
<1>6. CASE TypeKeys \/ LeaveConsole \/ DetachConsole \/ PaneTick
  <2>1. Quiet
    BY <1>6 DEF TypeKeys, LeaveConsole, DetachConsole, PaneTick, consoleVars, TuiInv
  <2> QED BY <1>1, <2>1
<1>7. CASE Started
  <2>1. Quiet \/ Switch
    BY <1>7 DEF Started, Chosen
  <2> QED BY <1>1, <1>2, <2>1
<1>8. CASE Status
  <2>1. Quiet \/ Switch
    BY <1>8 DEF Status, FollowSelection
  <2> QED BY <1>1, <1>2, <2>1
<1>9. CASE Stream
  <2>1. Quiet
    BY <1>9 DEF Stream, consoleVars
  <2> QED BY <1>1, <2>1
<1>10. ASSUME NEW s \in Sandbox, LaunchStep(s)
       PROVE  TuiInv'
  <2>1. Quiet
    BY <1>10 DEF LaunchStep
  <2> QED BY <1>1, <2>1
<1>11. ASSUME NEW c \in Conn, SessionOpened(c)
       PROVE  TuiInv'
  BY <1>11, TuiSuperseded, TuiReplaces DEF SessionOpened
<1> HIDE DEF Quiet, Switch
<1> QED BY <1>3, <1>4, <1>5, <1>6, <1>7, <1>8, <1>9, <1>10, <1>11 DEF Next, Operator, Message

(* The console leaks no session: a connection of its that is open is the one it
   shows, under the name it shows it by, whatever order sessions answer in. *)
THEOREM HoldsOneSession == Spec => []HoldsOne
<1>1. Spec => [](TuiInv /\ Chosen)
  BY TuiInit, TuiNext, ChosenNext, PTL DEF Spec
<1>2. TuiInv => HoldsOne
  BY DEF TuiInv
<1> QED BY <1>1, <1>2, PTL

(* Where no session is being dialled, the console shows the sandbox it asked for
   last, whatever the order in which the sessions answered. *)
THEOREM ShowsLastRequested == Spec => []ShowsRequested
<1>1. Spec => [](TuiInv /\ Chosen)
  BY TuiInit, TuiNext, ChosenNext, PTL DEF Spec
<1>2. TuiInv => ShowsRequested
  BY DEF TuiInv, ShowsRequested
<1> QED BY <1>1, <1>2, PTL
=============================================================================
