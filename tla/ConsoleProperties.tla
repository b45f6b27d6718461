-------------------------- MODULE ConsoleProperties --------------------------
(***************************************************************************)
(* What the console promises.                                              *)
(***************************************************************************)
EXTENDS Console

(* The console leaks no session: a connection of its that is open is the one
   it shows, under the name it shows it by. *)
HoldsOne ==
  \A c \in Conn : conn[c].client = "open" => c = sess /\ conn[c].target = showing

(* Where no session is being dialled, the console shows the sandbox it asked
   for last, whatever the order in which the sessions answered. *)
ShowsRequested ==
  (\A c \in Conn : conn[c].client \in {"open", "closed"}) =>
    showing \in {pending, None}

(* The console catches up with the highlight: if the selection rests on a
   sandbox that stays up, the console comes to show a session of it again and
   again, whatever was refused or late before.  (The session may have died
   since: nothing reattaches after a detach.  A shim that is writing keys to a
   program that does not take them may keep its session, and the handler its
   slot, so that the console is refused for as long.) *)
Settled(s) == sel = s /\ life[s] = "up" /\ focus = "list"
Watching(s) == sess # None /\ showing = s
CatchesUp == \A s \in Sandbox : <>[]Settled(s) => []<>(Watching(s) \/ keys.pty # {})
=============================================================================
