---------------------------- MODULE SandboxLife ----------------------------
(***************************************************************************)
(* What a sandbox's name promises its user, with nothing of how murod      *)
(* keeps the promise: at most one process lives under a name, the name is  *)
(* announced as active only once that process lives, a relaunch only       *)
(* follows a death, and a name is forgotten only when nothing of it runs.  *)
(* Manager, its requests taken one at a time, implements this              *)
(* (ManagerLife).                                                          *)
(***************************************************************************)
CONSTANTS Key, Process, None

VARIABLES
  life,   \* key -> "unknown", "active" or "inactive": what `muro status' says
  lives,  \* key -> its live process, or None
  used    \* the processes launched so far

lifeVars == <<life, lives, used>>

Init ==
  /\ life = [k \in Key |-> "unknown"]
  /\ lives = [k \in Key |-> None]
  /\ used = {}

Spawn(k) ==
  /\ lives[k] = None
  /\ \E p \in Process \ used : /\ lives' = [lives EXCEPT ![k] = p]
                               /\ used' = used \cup {p}
  /\ UNCHANGED life

(* Its own exit, or a Stop, a Restart or the host killing it. *)
Die(k) ==
  /\ lives[k] # None
  /\ lives' = [lives EXCEPT ![k] = None]
  /\ UNCHANGED <<life, used>>

Announce(k) ==
  /\ life[k] # "active" /\ lives[k] # None
  /\ life' = [life EXCEPT ![k] = "active"]
  /\ UNCHANGED <<lives, used>>

Retire(k) ==
  /\ life[k] = "active"
  /\ life' = [life EXCEPT ![k] = "inactive"]
  /\ UNCHANGED <<lives, used>>

Forget(k) ==
  /\ life[k] = "inactive" /\ lives[k] = None
  /\ life' = [life EXCEPT ![k] = "unknown"]
  /\ UNCHANGED <<lives, used>>

Next == \E k \in Key : Spawn(k) \/ Die(k) \/ Announce(k) \/ Retire(k) \/ Forget(k)

Spec == Init /\ [][Next]_lifeVars

=============================================================================
