------------------------------- MODULE PubSub -------------------------------
(***************************************************************************)
(* internal/pubsub: the connection of each murod to the MQTT broker, its   *)
(* presence, and the retained claims of ClaimSandbox and ReleaseClaim.     *)
(* The broker, and the paho library with its reconnects and its resending  *)
(* of what was not acknowledged, are as client.go configures them.         *)
(***************************************************************************)
EXTENDS Naturals, Sequences

CONSTANTS
  Daemon,   \* daemon ids: every start of a murod takes a fresh one
  Key       \* namespace/name

VARIABLES
  mode,     \* each murod: "new", "connecting", "enabled" or "disabled" (its
            \* pub/sub), "quit" by SIGTERM, "crashed"
  link,     \* its connection: "none", "up", "cut" and not yet noticed, "lost"
  out,      \* what it has published and the broker has not acknowledged
  presence, \* retained at presenceTopic: "none", "online", "offline"
  claim,    \* retained at ClaimTopic
  subs,     \* inbox topics the broker has a subscription for
  call,     \* the ClaimSandbox or ReleaseClaim in progress
  holds,    \* keys whose ClaimSandbox succeeded, until they are released
  raced     \* history: keys whose claim was replaced by a publish that had been
            \* decided on another one, or on a presence that came too late

NoClaim == 0   \* also an empty payload; daemon ids are positive numbers
ASSUME DaemonAssumption == Daemon \subseteq Nat \ {NoClaim}
NoCall == [at |-> "idle"]
clientVars == <<mode, link, out, presence, claim, subs, call, holds, raced>>

PubSubInit ==
  /\ mode = [d \in Daemon |-> "new"]
  /\ link = [d \in Daemon |-> "none"]
  /\ out = [d \in Daemon |-> <<>>]
  /\ presence = [d \in Daemon |-> "none"]
  /\ claim = [k \in Key |-> NoClaim]
  /\ subs = [d \in Daemon |-> {}]
  /\ call = [d \in Daemon |-> NoCall]
  /\ holds = [d \in Daemon |-> {}]
  /\ raced = {}

Running(d) == mode[d] \in {"connecting", "enabled", "disabled"}
Up(d) == link[d] = "up"

Online == [kind |-> "online"]
ClaimBy(d, k, seen) == [kind |-> "claim", key |-> k, by |-> d, seen |-> seen, late |-> FALSE]

Publish(d, message) == out' = [out EXCEPT ![d] = Append(@, message)]

(* Connect: CONNECT with a clean session and the will, then "online"; or the
   broker is not there, and pub/sub is disabled for this run. *)
Connect(d) ==
  /\ mode[d] = "new"
  /\ \/ /\ mode' = [mode EXCEPT ![d] = "connecting"]
        /\ link' = [link EXCEPT ![d] = "up"]
        /\ Publish(d, Online)
     \/ mode' = [mode EXCEPT ![d] = "disabled"] /\ UNCHANGED <<link, out>>
  /\ UNCHANGED <<presence, claim, subs, call, holds, raced>>

(* Connect's 5 seconds pass: disabled, over a connection that stays. *)
ConnectTimesOut(d) ==
  /\ mode[d] = "connecting" /\ out[d] # <<>>
  /\ mode' = [mode EXCEPT ![d] = "disabled"]
  /\ UNCHANGED <<link, out, presence, claim, subs, call, holds, raced>>

Connected(d) ==
  /\ mode[d] = "connecting" /\ out[d] = <<>>
  /\ mode' = [mode EXCEPT ![d] = "enabled"]

(* ClaimSandbox *)
Claim(d, k) ==
  /\ mode[d] = "enabled" /\ call[d] = NoCall
  /\ call' = [call EXCEPT ![d] = [at |-> "lookup", key |-> k]]
  /\ UNCHANGED <<mode, link, out, presence, claim, subs, holds, raced>>

Return(d) == call' = [call EXCEPT ![d] = NoCall]

Decide(d, seen) ==
  /\ call' = [call EXCEPT ![d] = [at |-> "wait", key |-> @.key]]
  /\ Publish(d, ClaimBy(d, call[d].key, seen))

(* currentRetained of the claim: its subscription fails, or what is retained
   comes within half a second, or it does not and counts as none. *)
LookUp(d, slow) ==
  LET seen == IF slow THEN NoClaim ELSE claim[call[d].key]
  IN  /\ call[d].at = "lookup"
      /\ IF ~Up(d) THEN Return(d) /\ UNCHANGED out
         ELSE IF seen \in {NoClaim, d} THEN Decide(d, seen)
         ELSE call' = [call EXCEPT ![d] = [at |-> "presence", key |-> @.key, seen |-> seen]]
              /\ UNCHANGED out
      /\ UNCHANGED <<mode, link, presence, claim, subs, holds, raced>>

(* Slip: the other daemon's presence is not consulted. *)
PresenceBlind(d, slow) ==
  /\ call[d].at = "presence"
  /\ IF ~Up(d) THEN Return(d) /\ UNCHANGED out ELSE Decide(d, call[d].seen)
  /\ UNCHANGED <<mode, link, presence, claim, subs, holds, raced>>

(* daemonIsOnline of the other daemon: its claim stands while it is; a presence
   that does not come in time counts as none. *)
Presence(d, slow) ==
  /\ call[d].at = "presence"
  /\ IF ~Up(d) \/ (~slow /\ presence[call[d].seen] = "online")
     THEN Return(d) /\ UNCHANGED <<out, raced>>
     ELSE /\ Decide(d, call[d].seen)
          /\ raced' = IF presence[call[d].seen] = "online" THEN raced \cup {call[d].key}
                      ELSE raced
  /\ UNCHANGED <<mode, link, presence, claim, subs, holds>>

(* ReleaseClaim, of a sandbox that has been stopped *)
Release(d, k) ==
  /\ mode[d] = "enabled" /\ call[d] = NoCall /\ k \in holds[d]
  /\ holds' = [holds EXCEPT ![d] = @ \ {k}]
  /\ call' = [call EXCEPT ![d] = [at |-> "wait", key |-> k]]
  /\ Publish(d, ClaimBy(NoClaim, k, d))
  /\ UNCHANGED <<mode, link, presence, claim, subs, raced>>

(* Its 5 seconds pass: an error is returned and the publish goes on. *)
CallTimesOut(d) ==
  /\ call[d].at = "wait"
  /\ Return(d)
  /\ out' = [out EXCEPT ![d] =
               [i \in DOMAIN @ |-> IF @[i].kind = "claim" THEN [@[i] EXCEPT !.late = TRUE]
                                   ELSE @[i]]]
  /\ UNCHANGED <<mode, link, presence, claim, subs, holds, raced>>

(* The broker takes the oldest publish of d. *)
Retain(d, message) ==
  CASE message.kind = "online" ->
         /\ presence' = [presence EXCEPT ![d] = "online"]
         /\ UNCHANGED <<claim, raced>>
    [] message.kind = "claim" ->
         /\ claim' = [claim EXCEPT ![message.key] = message.by]
         /\ raced' = IF claim[message.key] \in {message.seen, message.by} THEN raced
                     ELSE raced \cup {message.key}
         /\ UNCHANGED presence
    [] OTHER -> UNCHANGED <<presence, claim, raced>>

(* ... and acknowledges it: the call that waits for it returns. *)
Acked(d, message) ==
  IF message.kind = "claim" /\ ~message.late
  THEN /\ Return(d)
       /\ holds' = IF message.by = d THEN [holds EXCEPT ![d] = @ \cup {message.key}] ELSE holds
  ELSE UNCHANGED <<call, holds>>

Land(d) ==
  /\ Up(d) /\ out[d] # <<>>
  /\ Retain(d, Head(out[d]))
  /\ Acked(d, Head(out[d]))
  /\ out' = [out EXCEPT ![d] = Tail(@)]
  /\ UNCHANGED <<mode, link, subs>>

(* The acknowledgement is lost with the connection: paho will send it again. *)
LandUnacked(d) ==
  /\ Up(d) /\ out[d] # <<>>
  /\ Retain(d, Head(out[d]))
  /\ link' = [link EXCEPT ![d] = "cut"]
  /\ UNCHANGED <<mode, out, subs, call, holds>>

Cut(d) ==
  /\ Up(d)
  /\ link' = [link EXCEPT ![d] = "cut"]
  /\ UNCHANGED <<mode, out, presence, claim, subs, call, holds, raced>>

(* Slip: no will is registered. *)
WillFiresNot(d) ==
  /\ link[d] = "cut"
  /\ link' = [link EXCEPT ![d] = IF Running(d) THEN "lost" ELSE "none"]
  /\ subs' = [subs EXCEPT ![d] = {}]
  /\ UNCHANGED <<mode, out, presence, claim, call, holds, raced>>

(* The broker notices: the will is published and the clean session ends. *)
WillFires(d) ==
  /\ link[d] = "cut"
  /\ link' = [link EXCEPT ![d] = IF Running(d) THEN "lost" ELSE "none"]
  /\ presence' = [presence EXCEPT ![d] = "offline"]
  /\ subs' = [subs EXCEPT ![d] = {}]
  /\ UNCHANGED <<mode, out, claim, call, holds, raced>>

(* paho reconnects by itself: nothing publishes "online" or subscribes again. *)
Reconnect(d) ==
  /\ link[d] = "lost" /\ Running(d)
  /\ link' = [link EXCEPT ![d] = "up"]
  /\ UNCHANGED <<mode, out, presence, claim, subs, call, holds, raced>>

(* Disconnect, on SIGTERM: the broker drops the will; an unnoticed cut stays. *)
Quit(d) ==
  /\ Running(d)
  /\ mode' = [mode EXCEPT ![d] = "quit"]
  /\ IF Up(d) /\ mode[d] = "enabled"
     THEN link' = [link EXCEPT ![d] = "none"] /\ subs' = [subs EXCEPT ![d] = {}]
     ELSE link' = [link EXCEPT ![d] = IF @ \in {"up", "cut"} THEN "cut" ELSE "none"]
          /\ UNCHANGED subs

(* murod dies. *)
Crash(d) ==
  /\ Running(d)
  /\ mode' = [mode EXCEPT ![d] = "crashed"]
  /\ link' = [link EXCEPT ![d] = IF @ \in {"up", "cut"} THEN "cut" ELSE "none"]
  /\ UNCHANGED subs

(* What ends with the process. *)
Forget(d) ==
  /\ out' = [out EXCEPT ![d] = <<>>]
  /\ call' = [call EXCEPT ![d] = NoCall]
  /\ holds' = [holds EXCEPT ![d] = {}]
  /\ UNCHANGED <<presence, claim, raced>>
=============================================================================
