---------------------------- MODULE ManagerLife ----------------------------
(***************************************************************************)
(* Manager as an implementation of SandboxLife.  The record is the         *)
(* store's, or the persisted one while murod is down.                      *)
(***************************************************************************)
EXTENDS ManagerInvariant

RecordOf(k) == IF murod = "down" THEN disk[k] ELSE store[k]

LifeOf(k) == IF RecordOf(k) = None THEN "unknown"
             ELSE IF isActive(RecordOf(k).state) THEN "active" ELSE "inactive"

LiveOf(k) == {p \in Process : Alive(p) /\ proc[p].key = k}
LivesOf(k) == IF LiveOf(k) = {} THEN None ELSE CHOOSE p \in LiveOf(k) : TRUE

Life == INSTANCE SandboxLife WITH
          life <- [k \in Key |-> LifeOf(k)],
          lives <- [k \in Key |-> LivesOf(k)],
          used <- {p \in Process : proc[p] # Unborn}

(* Every step of murod, of its requests taken one at a time, of its
   watchLoops and of its own death and recovery, is a step of the life it
   promises a sandbox or changes nothing of it. *)
ImplementsLife == Life!Spec

=============================================================================
