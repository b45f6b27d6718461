-------------------------- MODULE AttachProperties --------------------------
(***************************************************************************)
(* What the attach path promises.                                          *)
(***************************************************************************)
EXTENDS AttachStream

(* A client that is served misses no output: with what drainToLog is about to
   hand it, it has been sent everything from some chunk on, the replay buffer
   included.  (Registering the receiver and copying the replay are two
   critical sections of ptyBroadcaster.mu, and writes come in between.) *)
NothingMissed ==
  \A s \in Sandbox :
    LET c == shim[s].serving
        due == IF shim[s].hand = c THEN {shim[s].read} ELSE {}
        sent == conn[c].got \cup due
    IN  c # None /\ shim[s].stage = "relay" /\ conn[c].pty = "open" =>
          /\ Replay(s) \subseteq sent
          /\ \A m \in sent : m..shim[s].read \subseteq sent

(* The sessions murod holds open to a sandbox's live shim. *)
Sessions(s) == {c \in Conn : /\ conn[c].target = s
                             /\ conn[c].pty = "open" /\ ~conn[c].ended}

(* DESIGN.md 12: a second attach is rejected outright, not queued behind the
   first: murod never holds two sessions to one shim, where no Stop or Restart
   has freed a slot by its key. *)
OneSession == stops = 0 => \A s \in Sandbox : Cardinality(Sessions(s)) <= 1

(* A claimed slot belongs to an attach that is on its way or in session, and
   so to one that will free it: no way out of handleAttach keeps the slot. *)
SlotBacked ==
  \A s \in slot : \E c \in Conn :
    conn[c].target = s /\ conn[c].handler \notin {"none", "try"}

(* An attach that was told OK is served by the shim or ends: it is not left in
   the backlog.  No earlier session of its sandbox stays on acceptLoop's hands,
   unless it is writing keys that the program does not take (handleAttachConn
   does not read meanwhile, so that it does not find the session ended), a slot
   has been freed by a Stop or Restart, or the sandbox is gone.  (An attach that
   still waits when the keys have been taken is to be served again.) *)
AttachServed ==
  \A c \in Conn :
    conn[c].handler = "relay" ~>
      \/ conn[c].handler # "relay"
      \/ shim[conn[c].target].serving = c
      \/ conn[c].target \in keys.pty
      \/ conn[c].ended \/ stops > 0
=============================================================================
