---------------------------- MODULE AttachStream ----------------------------
(***************************************************************************)
(* One attach from end to end: murod's handleAttach goroutine and its slot *)
(* in the attach registry (internal/control/stream.go, manager.go), and    *)
(* the shim that holds a sandbox's pty, with the goroutine that drains it  *)
(* (drainToLog) and the one that serves attach connections, one at a time  *)
(* (acceptLoop, handleAttachConn of cmd/muro-shim).                        *)
(*                                                                         *)
(* A connection has a client's end, murod's handler between the client and *)
(* the shim's socket (the "pty"), and the shim's end.  Output comes in     *)
(* chunks, numbered as the shim reads them; keys go the other way, and     *)
(* wait where the next one does not read: a handler in pty.Write, a shim   *)
(* in ptmx.Write, which has no deadline.                                   *)
(***************************************************************************)
EXTENDS Naturals, Sequences, FiniteSets

CONSTANTS
  Sandbox,    \* sandboxes, each with at most one live shim
  Conn,       \* control connections that carry an attach
  ReplayCap,  \* replayBufferCap, in chunks
  MaxOut,     \* bound: chunks a shim reads in its life
  MaxStop,    \* bound: Stops and Restarts
  MaxExit,    \* bound: deaths of a sandbox
  Mortal,     \* bound: the sandboxes that die
  MaxLaunch,  \* bound: relaunches
  Typing,     \* bound: the connections whose client types
  None        \* "no connection", "no sandbox"

ASSUME StreamAssumption ==
  /\ None \notin Conn \cup Sandbox
  /\ ReplayCap \in Nat \ {0}
  /\ Mortal \subseteq Sandbox /\ Typing \subseteq Conn
  /\ {MaxOut, MaxStop, MaxExit, MaxLaunch} \subseteq Nat

VARIABLES
  life,      \* sandbox -> "up", "stopping" (detached, about to die), "down"
  slot,      \* attachRegistry.attached
  conn,      \* connection -> its handler, its two ends, what it was sent
  shim,      \* sandbox -> the shim's goroutines and its ptyBroadcaster
  keys,      \* what was typed and not read
  stops,     \* Stops and Restarts so far
  launches   \* relaunches so far

streamVars == <<life, slot, conn, shim, keys, stops, launches>>

(* handler: the point handleAttach has reached; server: murod has closed the
   control connection; pty: its connection to the shim ("open" until murod
   closes it); ended: the shim has closed it; got: the chunks written to it. *)
NoConn == [handler |-> "none", target |-> None, client |-> "closed",
           server |-> FALSE, pty |-> "none", ended |-> FALSE, got |-> {}]

(* read: chunks read from the pty; hand: the connection drainToLog is about to
   write the last of them to; serving, stage: handleAttachConn; snap: its copy
   of the replay buffer; backlog: dialled and not yet accepted. *)
NewShim == [read |-> 0, hand |-> None, current |-> None, serving |-> None,
            stage |-> "accept", snap |-> {}, backlog |-> <<>>]

(* A handler goes from "none" through "try", "dial", "reply", "relay" and "unwind" to
   "detach"; a client's end is "closed", "waiting", "answered", "refused" or "open"; a
   shim's stage is "accept", "snapshot", "send" or "relay". *)

(* hand: the connections whose handler is writing keys to the shim; socket:
   those with keys there that the shim has not read (it has room for one
   read's worth); pty: the sandboxes whose shim is writing keys to the pty,
   which its program need not read. *)
NoKeys == [hand |-> {}, socket |-> {}, pty |-> {}]

(* Nothing of a connection is left at its client, in murod or at the shim. *)
Free(c) ==
  /\ conn[c].handler = "none" /\ conn[c].client = "closed"
  /\ \A s \in Sandbox : /\ c \notin {shim[s].hand, shim[s].serving}
                        /\ \A i \in DOMAIN shim[s].backlog : shim[s].backlog[i] # c

SetConn(c, r) == conn' = [conn EXCEPT ![c] = r]
SetShim(s, r) == shim' = [shim EXCEPT ![s] = r]
At(c, point) == /\ conn[c].handler = point
                /\ UNCHANGED <<life, keys, stops, launches>>

----------------------------------------------------------------------------
(* The client: control.Client.Attach sends the request and waits. *)

Dial(c, s) ==
  /\ Free(c)
  /\ SetConn(c, [NoConn EXCEPT !.handler = "try", !.target = s,
                               !.client = "waiting"])
  /\ UNCHANGED <<life, slot, shim, keys, stops, launches>>

(* What the connections are when the client of c closes its end. *)
Hangup(c) == [conn EXCEPT ![c].client = "closed"]

(* `muro sandbox attach' reads the answer, and ends when it likes. *)
ClientOpen(c) ==
  /\ \/ conn[c].client = "answered" /\ conn' = [conn EXCEPT ![c].client = "open"]
     \/ conn[c].client = "refused" /\ conn' = Hangup(c)
  /\ UNCHANGED <<life, slot, shim, keys, stops, launches>>

ClientLeave(c) ==
  /\ conn[c].client \in {"waiting", "answered", "open"}
  /\ conn' = Hangup(c)
  /\ UNCHANGED <<life, slot, shim, keys, stops, launches>>

----------------------------------------------------------------------------
(* murod: handleAttach. *)

(* The error response, and handleConn's close. *)
Refused(c) == [conn[c] EXCEPT !.handler = "none", !.server = TRUE,
                 !.client = IF @ = "waiting" THEN "refused" ELSE @]

(* Manager.Attach: a record that is not active (a sandbox that is stopping or
   down may still be), then TryAttach.  Slip: a claimed slot is no obstacle. *)
AttachTryShared(c) ==
  LET s == conn[c].target IN
  /\ At(c, "try")
  /\ \/ slot' = slot \cup {s} /\ SetConn(c, [conn[c] EXCEPT !.handler = "dial"])
     \/ life[s] # "up" /\ SetConn(c, Refused(c)) /\ UNCHANGED slot
  /\ UNCHANGED shim

AttachTry(c) ==
  LET s == conn[c].target IN
  /\ At(c, "try")
  /\ \/ /\ s \notin slot
        /\ slot' = slot \cup {s} /\ SetConn(c, [conn[c] EXCEPT !.handler = "dial"])
     \/ /\ s \in slot \/ life[s] # "up"
        /\ SetConn(c, Refused(c)) /\ UNCHANGED slot
  /\ UNCHANGED shim

(* getHandle and Stdio: the handle is cleared while the sandbox is being
   stopped, and a dead shim has no socket. *)
AttachDial(c) ==
  LET s == conn[c].target IN
  /\ At(c, "dial")
  /\ \/ /\ life[s] # "down"
        /\ SetConn(c, [conn[c] EXCEPT !.handler = "reply", !.pty = "open"])
        /\ SetShim(s, [shim[s] EXCEPT !.backlog = Append(@, c)])
     \/ /\ life[s] # "up"
        /\ SetConn(c, [conn[c] EXCEPT !.handler = "detach"])
        /\ UNCHANGED shim
  /\ UNCHANGED slot

(* The handshake; the pump is started, unless the client has gone. *)
AttachReply(c) ==
  /\ At(c, "reply")
  /\ SetConn(c, IF conn[c].client = "waiting"
                THEN [conn[c] EXCEPT !.handler = "relay", !.client = "answered"]
                ELSE [conn[c] EXCEPT !.handler = "unwind"])
  /\ UNCHANGED <<slot, shim>>

(* pumpPtyToConn finds its connection to the shim closed, by either end, and
   closes the client's. *)
PumpEnd(c) ==
  /\ conn[c].handler \in {"relay", "unwind", "detach"}
  /\ conn[c].ended \/ conn[c].pty = "closed"
  /\ ~conn[c].server
  /\ SetConn(c, [conn[c] EXCEPT !.server = TRUE])
  /\ UNCHANGED <<life, slot, shim, keys, stops, launches>>

(* The client types: the handler writes it to the shim's socket, and is in
   pty.Write until that has room. *)
Type(c) ==
  /\ c \in Typing \ keys.hand /\ conn[c].handler = "relay"
  /\ conn[c].client = "open" /\ ~conn[c].server /\ ~conn[c].ended
  /\ keys' = IF c \in keys.socket THEN [keys EXCEPT !.hand = @ \cup {c}]
             ELSE [keys EXCEPT !.socket = @ \cup {c}]
  /\ UNCHANGED <<life, slot, conn, shim, stops, launches>>

SendKeys(c) ==
  /\ conn[c].handler = "relay" /\ ~conn[c].ended
  /\ c \in keys.hand \ keys.socket
  /\ keys' = [keys EXCEPT !.hand = @ \ {c}, !.socket = @ \cup {c}]
  /\ UNCHANGED <<life, slot, conn, shim, stops, launches>>

(* The handler's loop ends: a write finds that the shim closed its end, or a read
   that the client hung up or the pump closed it. *)
RelayEnd(c) ==
  /\ conn[c].handler = "relay"
  /\ \/ conn[c].ended
     \/ c \notin keys.hand /\ (conn[c].client = "closed" \/ conn[c].server)
  /\ SetConn(c, [conn[c] EXCEPT !.handler = "unwind"])
  /\ keys' = [keys EXCEPT !.hand = @ \ {c}]
  /\ UNCHANGED <<life, slot, shim, stops, launches>>

(* Ctrl-P Ctrl-Q from a client that is attached. *)
DetachKeys(c) ==
  /\ At(c, "relay") /\ c \notin keys.hand
  /\ conn[c].client = "open" /\ ~conn[c].server
  /\ SetConn(c, [conn[c] EXCEPT !.handler = "unwind"])
  /\ UNCHANGED <<slot, shim>>

(* The deferred calls: pty.Close, then detach, then handleConn's close.
   Slip: the connection to the shim is left open. *)
UnwindLeaks(c) ==
  /\ At(c, "unwind")
  /\ SetConn(c, [conn[c] EXCEPT !.handler = "detach"])
  /\ UNCHANGED <<slot, shim>>

Unwind(c) ==
  /\ At(c, "unwind")
  /\ SetConn(c, [conn[c] EXCEPT !.handler = "detach", !.pty = "closed"])
  /\ UNCHANGED <<slot, shim>>

(* Slip: a failed dial keeps the slot. *)
DetachDialled(c) ==
  /\ At(c, "detach")
  /\ slot' = IF conn[c].pty = "none" THEN slot ELSE slot \ {conn[c].target}
  /\ SetConn(c, Refused(c))
  /\ UNCHANGED shim

Detach(c) ==
  /\ At(c, "detach")
  /\ slot' = slot \ {conn[c].target}
  /\ SetConn(c, Refused(c))
  /\ UNCHANGED shim

----------------------------------------------------------------------------
(* The shim: drainToLog. *)

Replay(s) == {n \in 1..shim[s].read : n + ReplayCap > shim[s].read}

(* ptyBroadcaster.write up to its unlock: the chunk joins the replay buffer
   and the receiver is copied. *)
Drain(s) ==
  /\ life[s] # "down" /\ shim[s].hand = None
  /\ shim[s].read < MaxOut
  /\ SetShim(s, [shim[s] EXCEPT !.read = @ + 1, !.hand = shim[s].current])
  /\ UNCHANGED <<life, slot, conn, keys, stops, launches>>

(* A write to a connection that murod has closed is lost. *)
Sent(c, chunks) ==
  IF conn[c].pty = "open" THEN [conn EXCEPT ![c].got = @ \cup chunks] ELSE conn

DrainSend(s) ==
  /\ shim[s].hand # None
  /\ conn' = Sent(shim[s].hand, {shim[s].read})
  /\ SetShim(s, [shim[s] EXCEPT !.hand = None])
  /\ UNCHANGED <<life, slot, keys, stops, launches>>

----------------------------------------------------------------------------
(* The shim: acceptLoop and handleAttachConn. *)

(* Slip: the last connection's deferred setCurrent(nil) comes after this one's
   registration, as it could with a goroutine for each. *)
AcceptCleared(s) ==
  /\ shim[s].serving = None /\ shim[s].backlog # <<>>
  /\ SetShim(s, [shim[s] EXCEPT !.serving = Head(shim[s].backlog), !.current = None,
                   !.stage = "snapshot", !.backlog = Tail(@)])
  /\ UNCHANGED <<life, slot, conn, keys, stops, launches>>

Accept(s) ==
  /\ shim[s].serving = None /\ shim[s].backlog # <<>>
  /\ LET c == Head(shim[s].backlog)
     IN  SetShim(s, [shim[s] EXCEPT !.serving = c, !.current = c,
                       !.stage = "snapshot", !.backlog = Tail(@)])
  /\ UNCHANGED <<life, slot, conn, keys, stops, launches>>

Snapshot(s) ==
  /\ shim[s].stage = "snapshot"
  /\ SetShim(s, [shim[s] EXCEPT !.snap = Replay(s), !.stage = "send"])
  /\ UNCHANGED <<life, slot, conn, keys, stops, launches>>

(* A write to a connection that murod has closed fails, where there is something
   to write. *)
Fails(s) == conn[shim[s].serving].pty = "closed" /\ shim[s].snap # {}

SendReplay(s) ==
  LET c == shim[s].serving IN
  /\ shim[s].stage = "send" /\ ~Fails(s)
  /\ conn' = Sent(c, shim[s].snap)
  /\ SetShim(s, [shim[s] EXCEPT !.stage = "relay", !.snap = {}])
  /\ UNCHANGED <<life, slot, keys, stops, launches>>

(* The loop reads keys, those sent before murod closed its end included, and is
   in ptmx.Write until the program reads them or the pty has room. *)
ReadKeys(s) ==
  /\ shim[s].stage = "relay"
  /\ s \notin keys.pty /\ shim[s].serving \in keys.socket
  /\ keys' = [keys EXCEPT !.socket = @ \ {shim[s].serving}, !.pty = @ \cup {s}]
  /\ UNCHANGED <<life, slot, conn, shim, stops, launches>>

TakeKeys(s) ==
  /\ s \in keys.pty
  /\ keys' = [keys EXCEPT !.pty = @ \ {s}]
  /\ UNCHANGED <<life, slot, conn, shim, stops, launches>>

(* murod's end is closed: the read returns, or the replay could not be written;
   the receiver is cleared and the connection closed. *)
ServeEnd(s) ==
  LET c == shim[s].serving IN
  /\ \/ /\ shim[s].stage = "relay" /\ conn[c].pty = "closed"
        /\ s \notin keys.pty /\ c \notin keys.socket
     \/ shim[s].stage = "send" /\ Fails(s)
  /\ SetConn(c, [conn[c] EXCEPT !.ended = TRUE])
  /\ SetShim(s, [shim[s] EXCEPT !.serving = None, !.current = None,
                                !.stage = "accept", !.snap = {}])
  /\ keys' = [keys EXCEPT !.socket = @ \ {c}]
  /\ UNCHANGED <<life, slot, stops, launches>>

----------------------------------------------------------------------------
(* The sandbox: Stop and Restart begin by freeing the slot, whatever is left
   of the process; it ends, of itself or killed, and its shim with it; a later
   one is launched. *)

ForceDetach(s) ==
  /\ stops < MaxStop
  /\ stops' = stops + 1
  /\ life' = [life EXCEPT ![s] = IF @ = "up" THEN "stopping" ELSE @]
  /\ slot' = slot \ {s}
  /\ UNCHANGED <<conn, shim, keys, launches>>

Exit(s) ==
  /\ s \in Mortal /\ life[s] # "down"
  /\ launches + Cardinality({t \in Sandbox : life[t] = "down"}) < MaxExit
  /\ life' = [life EXCEPT ![s] = "down"]
  /\ conn' = [c \in Conn |->
               IF conn[c].target = s /\ conn[c].pty # "none"
               THEN [conn[c] EXCEPT !.ended = TRUE] ELSE conn[c]]
  /\ SetShim(s, NewShim)
  /\ keys' = [keys EXCEPT !.socket = {c \in @ : conn[c].target # s}, !.pty = @ \ {s}]
  /\ UNCHANGED <<slot, stops, launches>>

Launch(s) ==
  /\ life[s] = "down" /\ launches < MaxLaunch
  /\ launches' = launches + 1
  /\ life' = [life EXCEPT ![s] = "up"]
  /\ UNCHANGED <<slot, conn, shim, keys, stops>>

(* murod dies and is started again, without the slots; the kernel closes its
   connections and the shims live on. *)
MurodDies ==
  /\ slot' = {}
  /\ conn' = [c \in Conn |->
               [conn[c] EXCEPT !.handler = "none",
                  !.server = @ \/ conn[c].handler # "none",
                  !.pty = IF @ = "open" THEN "closed" ELSE @,
                  !.client = IF @ = "waiting" THEN "refused" ELSE @]]
  /\ keys' = [keys EXCEPT !.hand = {}]
  /\ UNCHANGED <<life, shim, stops, launches>>

----------------------------------------------------------------------------
StreamInit ==
  /\ life = [s \in Sandbox |-> "up"]
  /\ slot = {}
  /\ conn = [c \in Conn |-> NoConn]
  /\ shim = [s \in Sandbox |-> NewShim]
  /\ keys = NoKeys
  /\ stops = 0 /\ launches = 0

HandlerStep(c) == \/ AttachTry(c) \/ AttachDial(c) \/ AttachReply(c)
                  \/ SendKeys(c) \/ PumpEnd(c) \/ RelayEnd(c)
                  \/ Unwind(c) \/ Detach(c)
ClientStep(c) == \/ \E s \in Sandbox : Dial(c, s)
                 \/ ClientOpen(c) \/ ClientLeave(c)
                 \/ Type(c) \/ DetachKeys(c)
DrainStep(s) == Drain(s) \/ DrainSend(s)
ServeStep(s) == Accept(s) \/ Snapshot(s) \/ SendReplay(s) \/ ReadKeys(s) \/ ServeEnd(s)

StreamNext ==
  \/ \E c \in Conn : HandlerStep(c) \/ ClientStep(c)
  \/ \E s \in Sandbox : \/ DrainStep(s) \/ ServeStep(s) \/ TakeKeys(s)
                        \/ ForceDetach(s) \/ Exit(s) \/ Launch(s)
  \/ MurodDies

StreamSpec == StreamInit /\ [][StreamNext]_streamVars

(* The shims' acceptLoops are scheduled; nothing makes a client dial, answer,
   read or leave, a sandbox read, write or exit, or a Stop come. *)
FairStreamSpec == StreamSpec /\ \A s \in Sandbox : WF_streamVars(ServeStep(s))
=============================================================================
