----------------------------- MODULE DeniedLog -----------------------------
(***************************************************************************)
(* What the log of denied requests promises: the last Cap of them, oldest  *)
(* first; after a restart of murod, those last saved.                      *)
(***************************************************************************)
EXTENDS Naturals, Sequences

CONSTANTS Cap, Event

VARIABLES
  log,    \* the events kept, oldest first
  saved   \* the events on disk

vars == <<log, saved>>

Newest(s, n) == IF Len(s) <= n THEN s ELSE SubSeq(s, Len(s) - n + 1, Len(s))

Init == log = <<>> /\ saved = <<>>

Record(e) == /\ log' = Newest(Append(log, e), Cap)
             /\ saved' \in {saved, log'}
Save == saved' = log /\ UNCHANGED log
Restart == log' = saved /\ UNCHANGED saved

Next == (\E e \in Event : Record(e)) \/ Save \/ Restart

Spec == Init /\ [][Next]_vars
=============================================================================
