----------------------------- MODULE EventRing -----------------------------
(***************************************************************************)
(* internal/state/events.go's Ring, filled by the proxy's denials and      *)
(* saved with the registry by every mutation of the Store.                 *)
(***************************************************************************)
EXTENDS Integers, Sequences

CONSTANTS
  ReqCap,     \* the capacity NewRing is asked for
  Sandbox,    \* records [namespace, name, id] of the sandboxes
  Zero,       \* DeniedEvent{}
  Faults      \* "put": persist may fail

VARIABLES
  buf, next, size,  \* the Ring
  disk              \* state.json's denied_events

cap == IF ReqCap <= 0 THEN 1 ELSE ReqCap

(* The key a request is denied under: what RegisterSandboxAddr recorded for
   its address, a sandbox's id, or nothing.  splitKey finds no "/" in either. *)
SandboxKey == {<<s.id>> : s \in Sandbox} \cup {<<"">>}
splitKey(key) == IF Len(key) = 1
                 THEN [namespace |-> "", name |-> key[1]]
                 ELSE [namespace |-> key[1], name |-> key[2]]

EmptyBuf == [i \in 0..(cap - 1) |-> Zero]

(* Push's three assignments, on a ring r. *)
Pushed(r, e) == [buf  |-> [r.buf EXCEPT ![r.next] = e],
                 next |-> (r.next + 1) % cap,
                 size |-> IF r.size < cap THEN r.size + 1 ELSE r.size]

(* Slip: the start is counted from the number asked for. *)
LastAsked(n) ==
  LET m == IF n > size THEN size ELSE n
      start == (next - n + 2 * cap) % cap
  IN  IF m <= 0 THEN <<>> ELSE [i \in 1..m |-> buf[(start + i - 1) % cap]]

(* Last(n): up to n most recent events, oldest first. *)
Last(n) ==
  LET m == IF n > size THEN size ELSE n
      start == (next - m + cap) % cap
  IN  IF m <= 0 THEN <<>> ELSE [i \in 1..m |-> buf[(start + i - 1) % cap]]
Snapshot == Last(size)

(* Slip: the events are copied and `next' is left at the start. *)
LoadSnapshotCopied(events) ==
  [buf |-> [i \in 0..(cap - 1) |-> IF i < Len(events) THEN events[i + 1] ELSE Zero],
   next |-> 0, size |-> Len(events)]

(* LoadSnapshot of a file's events: the ring after pushing each to an empty one. *)
LoadSnapshot(events) ==
  LET after[i \in 0..Len(events)] ==
        IF i = 0 THEN [buf |-> EmptyBuf, next |-> 0, size |-> 0]
                 ELSE Pushed(after[i - 1], events[i])
  IN  after[Len(events)]

Become(r) == buf' = r.buf /\ next' = r.next /\ size' = r.size
persist == disk' = Snapshot'
NotPersisted == "put" \in Faults /\ UNCHANGED disk

(* deny: RecordDenied under Store.mu, push and persist. *)
RecordDenied(key) ==
  /\ Become(Pushed([buf |-> buf, next |-> next, size |-> size], splitKey(key)))
  /\ persist \/ NotPersisted

(* Store.Put or Delete of some sandbox persists the events as well. *)
Put == /\ UNCHANGED <<buf, next, size>>
       /\ persist \/ NotPersisted

(* murod dies and starts again: a new Store, Load. *)
Restart == Become(LoadSnapshot(disk)) /\ UNCHANGED disk

Init == /\ buf = EmptyBuf /\ next = 0 /\ size = 0
        /\ disk = <<>>

----------------------------------------------------------------------------
Event == {splitKey(key) : key \in SandboxKey}

(* The ring's indices stay within it and nothing it shows is a leftover of
   make or of LoadSnapshot's clearing. *)
TypeOK ==
  /\ buf \in [0..(cap - 1) -> Event \cup {Zero}]
  /\ next \in 0..(cap - 1) /\ size \in 0..cap
  /\ \A i \in 1..size : Snapshot[i] \in Event
  /\ Len(disk) <= cap

(* The ring is the log of the last `cap' denials: Push, the wrap-around of
   Last's start, and LoadSnapshot after a restart never lose, repeat or
   reorder one. *)
Log == INSTANCE DeniedLog WITH Cap <- cap, log <- Snapshot, saved <- disk
KeepsNewest == Log!Spec

(* Asking for fewer events gives the newest of them, for more gives all: every
   Last(n) is the end of every longer one. *)
LastAgrees ==
  \A n \in -1..(cap + 1) :
    Last(n) = Log!Newest(Snapshot, IF n < 0 THEN 0 ELSE n)
=============================================================================
