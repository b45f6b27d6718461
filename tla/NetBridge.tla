----------------------------- MODULE NetBridge -----------------------------
(***************************************************************************)
(* internal/sandbox/network.go and its use in bwrap.go: the address each   *)
(* launched sandbox gets, slirp4netns and the nft rules that are put       *)
(* around it after it has been started, and their end.  The sandbox, its   *)
(* slirp4netns and its shim are processes of the host: they outlive murod. *)
(***************************************************************************)
EXTENDS Naturals

CONSTANTS
  Proc,       \* processes, each the sandbox of one launch
  LastAddr,   \* 254: the last 127.0.0.x handed out
  NetFaults   \* what may fail in a launch: of "slow", "slirp", "early", "nft"

FirstAddr == 2
Addr == FirstAddr..LastAddr

ASSUME NetAssumption == Proc \subseteq Nat \ {0} /\ LastAddr \in Nat /\ LastAddr >= FirstAddr

VARIABLES
  nextAddr,   \* outboundAddrAllocator.next
  net         \* for each process, what has been built around it

(* alive   the sandboxed process runs
   addr    h.netAddr, 0 before it has one
   slirp   its slirp4netns: "none", "up" or "gone"
   sealed  the nft rules are in its namespace
   at      the point Launch has reached:
           "find"   InnerNamespacePID          "slirp"  startSlirp4netns
           "noslirp" it failed                 "nft"    applyEgressRestriction
           "sealing" past its liveness check   "unsealed" it failed
           "undo"   Launch's Stop              "up"/"off" returned, bridged or not
           "error"  returned an error          "lost"   murod died meanwhile
   held    murod has the handle Launch or Reattach returned *)
Unused == [alive |-> FALSE, addr |-> 0, slirp |-> "none", sealed |-> FALSE,
           at |-> "unused", held |-> FALSE]

netVars == <<nextAddr, net>>

NetInit == nextAddr = FirstAddr /\ net = [p \in Proc |-> Unused]

At(p, point) == net[p].at = point /\ UNCHANGED nextAddr
Goto(p, point) == net' = [net EXCEPT ![p].at = point]

(* Slip: the allocator never wraps. *)
StartedNoWrap(p) ==
  /\ net[p].at = "unused"
  /\ net' = [net EXCEPT ![p].alive = TRUE, ![p].addr = nextAddr, ![p].at = "find"]
  /\ nextAddr' = nextAddr + 1

(* Launch: the shim has reported its bwrap; allocate(). *)
Started(p) ==
  /\ net[p].at = "unused"
  /\ net' = [net EXCEPT ![p].alive = TRUE, ![p].addr = nextAddr, ![p].at = "find"]
  /\ nextAddr' = IF nextAddr + 1 > LastAddr THEN FirstAddr ELSE nextAddr + 1

(* InnerNamespacePID: no child within the deadline counts as an exit, also
   when the process is only slow. *)
FindInner(p) ==
  /\ At(p, "find")
  /\ \/ net[p].alive /\ Goto(p, "slirp")
     \/ /\ ~net[p].alive \/ "slow" \in NetFaults[p]
        /\ Goto(p, "off")

(* startSlirp4netns.  Its ready descriptor is closed by a slirp4netns that
   exits as well, and cmd.ProcessState is nil before Wait: an early exit is
   taken for success. *)
StartSlirp(p) ==
  /\ At(p, "slirp")
  /\ \/ net[p].alive /\ net' = [net EXCEPT ![p].slirp = "up", ![p].at = "nft"]
     \/ /\ "early" \in NetFaults[p]
        /\ net' = [net EXCEPT ![p].slirp = "gone", ![p].at = "nft"]
     \/ /\ ~net[p].alive \/ "slirp" \in NetFaults[p]
        /\ Goto(p, "noslirp")

(* setupNetworkBridge, after the failure: is there anything to bridge? *)
SlirpFailed(p) ==
  /\ At(p, "noslirp")
  /\ Goto(p, IF net[p].alive THEN "undo" ELSE "off")

(* applyEgressRestriction's liveness check; on an exit setupNetworkBridge
   stops slirp4netns, as on any failure. *)
CheckTarget(p) ==
  /\ At(p, "nft")
  /\ Goto(p, IF net[p].alive THEN "sealing" ELSE "unsealed")

(* nft within the target's namespace, or not if there is none any more. *)
Seal(p) ==
  /\ At(p, "sealing")
  /\ \/ net[p].alive /\ net' = [net EXCEPT ![p].sealed = TRUE, ![p].at = "up"]
     \/ /\ ~net[p].alive \/ "nft" \in NetFaults[p]
        /\ Goto(p, "unsealed")

StopSlirp(bridge) == IF bridge = "up" THEN "gone" ELSE bridge

(* Slip: slirp4netns is left running for Stop, which has no bridge to stop. *)
UnsealedKeeps(p) ==
  /\ At(p, "unsealed")
  /\ Goto(p, IF net[p].alive THEN "undo" ELSE "off")

(* setupNetworkBridge, after nft failed: stop slirp4netns, then look. *)
Unsealed(p) ==
  /\ At(p, "unsealed")
  /\ net' = [net EXCEPT ![p].slirp = StopSlirp(@),
                         ![p].at = IF net[p].alive THEN "undo" ELSE "off"]

(* Launch: Stop(h) of a handle that has no bridge yet. *)
Undo(p) == At(p, "undo") /\ net' = [net EXCEPT ![p].alive = FALSE, ![p].at = "error"]

(* The sandbox ends by itself, or Stop has killed it. *)
Exit(p) == net[p].alive /\ net' = [net EXCEPT ![p].alive = FALSE] /\ UNCHANGED nextAddr

(* Slip: the bridge is left to an explicit Stop. *)
WaitLeaves(p) ==
  /\ net[p].held /\ ~net[p].alive
  /\ net' = [net EXCEPT ![p].held = FALSE] /\ UNCHANGED nextAddr

(* Once the shim is gone the bridge is stopped, by its command or by the pid on
   record, in waitLive, waitReconstructed or Stop's deferred call: stopOnce
   makes them one.  The handle is let go. *)
Wait(p) ==
  /\ net[p].held /\ ~net[p].alive
  /\ net' = [net EXCEPT ![p].held = FALSE, ![p].slirp = StopSlirp(@)]
  /\ UNCHANGED nextAddr

InLaunch(p) ==
  net[p].at \in {"find", "slirp", "noslirp", "nft", "sealing", "unsealed", "undo"}

LaunchStep(p) ==
  \/ FindInner(p) \/ StartSlirp(p) \/ SlirpFailed(p) \/ CheckTarget(p)
  \/ Seal(p) \/ Unsealed(p) \/ Undo(p)
=============================================================================
