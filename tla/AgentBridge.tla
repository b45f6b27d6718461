---------------------------- MODULE AgentBridge ----------------------------
(***************************************************************************)
(* internal/sandbox/agentsocket.go, inject.go and manager.go's bridges:    *)
(* messages from one sandboxed agent to another, over the PubSub of the    *)
(* murod of each host.  Sandboxes, their records and the socket their shim *)
(* injects from outlive a murod; its listeners and subscriptions do not.   *)
(***************************************************************************)
EXTENDS PubSub

CONSTANTS
  Host, HostOf,   \* the host of each daemon
  NamespaceOf,    \* of each key
  Proc,           \* sandboxes, numbered in the order they are launched
  Msg,
  Claimed,        \* the keys that are claimed
  Budgets         \* what may still happen: see Spend

VARIABLES
  record,    \* state.json of each host: the sandbox of a key, or NoProc
  box,       \* each sandbox: [key, host, alive]
  sockets,   \* agentSockets: the sandboxes whose agent socket is served
  inboxes,   \* inboxSubscribed
  post,      \* each message: [st, from, to], st its sender's view of it
  arriving,  \* inbox messages on their way to a murod, in order
  dialing,   \* its handler, between Store.Get and the dial: [msg, to]
  heard,     \* messages typed into each sandbox
  left

NoProc == 0
(* Every murod runs on a host; a key is never empty (a name is required). *)
ASSUME BridgeAssumption ==
  /\ Proc \subseteq Nat \ {NoProc} /\ HostOf \in [Daemon -> Host]
  /\ "" \notin Key /\ Claimed \subseteq Key
Unborn == [key |-> "", host |-> "", alive |-> FALSE]
Unsent == [st |-> "unsent", from |-> NoProc, to |-> ""]
NoDial == [msg |-> "", to |-> NoProc]
bridgeVars == <<sockets, inboxes>>
boxVars == <<record, box>>
mailVars == <<post, arriving, dialing, heard>>
vars == <<mode, link, out, presence, claim, subs, call, holds, raced,
          record, box, sockets, inboxes, post, arriving, dialing, heard, left>>

Init ==
  /\ PubSubInit
  /\ record = [h \in Host |-> [k \in Key |-> NoProc]]
  /\ box = [p \in Proc |-> Unborn]
  /\ sockets = [d \in Daemon |-> {}]
  /\ inboxes = [d \in Daemon |-> {}]
  /\ post = [m \in Msg |-> Unsent]
  /\ arriving = [d \in Daemon |-> <<>>]
  /\ dialing = [d \in Daemon |-> NoDial]
  /\ heard = [p \in Proc |-> {}]
  /\ left \in Budgets

Spend(what) == left[what] > 0 /\ left' = [left EXCEPT ![what] = @ - 1]
Live(h) == {k \in Key : record[h][k] # NoProc /\ box[record[h][k]].alive}

(* One murod at a time on a host; the next has another id. *)
Start(d) ==
  /\ \A e \in Daemon : HostOf[e] = HostOf[d] => ~Running(e) /\ (e < d => mode[e] # "new")
  /\ Connect(d)
  /\ UNCHANGED <<boxVars, bridgeVars, mailVars, left>>

(* SubscribeInbox of each key not subscribed yet; it fails without a link, and
   an error is not told to anyone. *)
Subscribe(d, keys) ==
  /\ inboxes' = [inboxes EXCEPT ![d] = @ \cup keys]
  /\ subs' = [subs EXCEPT ![d] = @ \cup keys]
Subscribable(d, keys) == IF Up(d) THEN keys \ inboxes[d] ELSE {}

(* EnablePubsub, and ReattachAll's startAgentBridge of what is running. *)
Serve(d) ==
  /\ Connected(d)
  /\ sockets' = [sockets EXCEPT ![d] = {record[HostOf[d]][k] : k \in Live(HostOf[d])}]
  /\ Subscribe(d, Subscribable(d, Live(HostOf[d])))
  /\ UNCHANGED <<link, out, presence, claim, call, holds, raced, boxVars, mailVars, left>>

(* Run: startAgentBridge, which does nothing without pub/sub; Launch; Put. *)
Run(d, k, p) ==
  LET h == HostOf[d]
  IN  /\ mode[d] \in {"enabled", "disabled"} /\ Spend("runs")
      /\ k \notin Live(h)
      /\ box[p] = Unborn /\ \A q \in Proc : q < p => box[q] # Unborn
      /\ box' = [box EXCEPT ![p] = [key |-> k, host |-> h, alive |-> TRUE]]
      /\ record' = [record EXCEPT ![h][k] = p]
      /\ IF mode[d] = "enabled"
         THEN /\ sockets' = [sockets EXCEPT ![d] = @ \cup {p}]
              /\ Subscribe(d, Subscribable(d, {k}))
         ELSE UNCHANGED <<sockets, inboxes, subs>>
      /\ UNCHANGED <<mode, link, out, presence, claim, call, holds, raced, mailVars>>

(* Slip: the subscription is given up with the sandbox. *)
StopUnsubscribes(d, k) ==
  LET p == record[HostOf[d]][k]
  IN  /\ mode[d] \in {"enabled", "disabled"} /\ k \in Live(HostOf[d])
      /\ box' = [box EXCEPT ![p].alive = FALSE]
      /\ sockets' = [sockets EXCEPT ![d] = @ \ {p}]
      /\ subs' = [subs EXCEPT ![d] = @ \ {k}]
      /\ UNCHANGED <<mode, link, out, presence, claim, call, holds, raced,
                     record, inboxes, mailVars, left>>

(* Stop, or Stop and Delete: stopAgentBridge leaves the subscription, and a
   stopped record its socket's path. *)
Stop(d, k) ==
  LET p == record[HostOf[d]][k]
  IN  /\ mode[d] \in {"enabled", "disabled"} /\ k \in Live(HostOf[d])
      /\ box' = [box EXCEPT ![p].alive = FALSE]
      /\ sockets' = [sockets EXCEPT ![d] = @ \ {p}]
      /\ \/ record' = [record EXCEPT ![HostOf[d]][k] = NoProc]
         \/ UNCHANGED record
      /\ UNCHANGED <<clientVars, inboxes, mailVars, left>>

(* Slip: a target of any namespace is written to. *)
MayWriteAnyone(p, to) == to \in Key

(* agentSocketServer.publish: who may be written to.  A request that names both
   or neither of to and broadcast, or no proper name, is refused as well, and
   a broadcast has no subscriber in muro. *)
MayWrite(p, to) == NamespaceOf[to] = NamespaceOf[box[p].key]

(* handleConn: an agent asks for m to be sent. *)
Send(d, p, to, m) ==
  /\ Running(d) /\ p \in sockets[d] /\ box[p].alive
  /\ post[m] = Unsent /\ Spend("sends")
  /\ IF MayWrite(p, to)
     THEN /\ Publish(d, [kind |-> "inbox", msg |-> m])
          /\ post' = [post EXCEPT ![m] = [st |-> "flying", from |-> p, to |-> to]]
     ELSE /\ post' = [post EXCEPT ![m] = [st |-> "refused", from |-> p, to |-> to]]
          /\ UNCHANGED out
  /\ UNCHANGED <<mode, link, presence, claim, subs, call, holds, raced,
                 boxVars, bridgeVars, arriving, dialing, heard>>

(* The broker hands a message to every subscription of its topic. *)
Spread(d) ==
  LET message == Head(out[d])
  IN  arriving' = IF message.kind # "inbox" THEN arriving
                  ELSE [e \in Daemon |-> IF post[message.msg].to \in subs[e]
                                         THEN Append(arriving[e], message.msg)
                                         ELSE arriving[e]]

Deliver(d) ==
  /\ Land(d) /\ Spread(d)
  /\ post' = IF Head(out[d]).kind = "inbox" THEN [post EXCEPT ![Head(out[d]).msg].st = "ok"]
             ELSE post
  /\ UNCHANGED <<boxVars, bridgeVars, dialing, heard, left>>

DeliverUnacked(d) ==
  /\ Spend("cuts") /\ LandUnacked(d) /\ Spread(d)
  /\ UNCHANGED <<boxVars, bridgeVars, post, dialing, heard>>

(* The subscription's callback: one message at a time; its target is looked up
   as the message comes. *)
LookedUp(d) == record[HostOf[d]][post[Head(arriving[d])].to]
Handle(d) ==
  /\ arriving[d] # <<>> /\ dialing[d] = NoDial
  /\ dialing' = [dialing EXCEPT ![d] =
                   IF LookedUp(d) = NoProc THEN NoDial
                   ELSE [msg |-> Head(arriving[d]), to |-> LookedUp(d)]]
  /\ arriving' = [arriving EXCEPT ![d] = Tail(@)]
  /\ UNCHANGED <<clientVars, boxVars, bridgeVars, post, heard, left>>

(* injectMessage: what is not there any more is not dialled. *)
Inject(d) ==
  /\ dialing[d] # NoDial
  /\ dialing' = [dialing EXCEPT ![d] = NoDial]
  /\ heard' = IF box[dialing[d].to].alive
              THEN [heard EXCEPT ![dialing[d].to] = @ \cup {dialing[d].msg}] ELSE heard
  /\ UNCHANGED <<clientVars, boxVars, bridgeVars, post, arriving, left>>

(* The session ends, and what the broker had for it. *)
SessionEnds(d) ==
  /\ WillFires(d)
  /\ arriving' = [arriving EXCEPT ![d] = <<>>]
  /\ UNCHANGED <<boxVars, bridgeVars, post, dialing, heard, left>>

Gone(d) ==
  /\ Forget(d)
  /\ sockets' = [sockets EXCEPT ![d] = {}]
  /\ inboxes' = [inboxes EXCEPT ![d] = {}]
  /\ arriving' = [arriving EXCEPT ![d] = <<>>]
  /\ dialing' = [dialing EXCEPT ![d] = NoDial]
  /\ UNCHANGED <<boxVars, post, heard>>

Ends(d) ==
  \/ Spend("quits") /\ Quit(d) /\ Gone(d)
  \/ Spend("crashes") /\ Crash(d) /\ Gone(d)

Claims(d) ==
  /\ \/ \E k \in Claimed : (Claim(d, k) \/ Release(d, k)) /\ Spend("claims")
     \/ (LookUp(d, FALSE) \/ Presence(d, FALSE)) /\ UNCHANGED left
     \/ (LookUp(d, TRUE) \/ Presence(d, TRUE) \/ CallTimesOut(d)) /\ Spend("slow")
  /\ UNCHANGED <<boxVars, bridgeVars, mailVars>>

Network(d) ==
  /\ \/ (Cut(d) /\ Spend("cuts"))
     \/ (ConnectTimesOut(d) /\ Spend("slow"))
     \/ (Reconnect(d) /\ UNCHANGED left)
  /\ UNCHANGED <<boxVars, bridgeVars, mailVars>>

Next == \E d \in Daemon :
  \/ Start(d) \/ Serve(d) \/ Claims(d) \/ Network(d) \/ SessionEnds(d) \/ Ends(d)
  \/ Deliver(d) \/ DeliverUnacked(d) \/ Handle(d) \/ Inject(d)
  \/ \E k \in Key : \/ Stop(d, k)
                    \/ \E p \in Proc : Run(d, k, p)
                    \/ \E p \in Proc, m \in Msg : Send(d, p, k, m)

(* A murod's goroutines go on, and so does the broker, which notices a dead
   connection by its keep-alive. *)
Fairness == \A d \in Daemon : /\ WF_vars(Deliver(d)) /\ WF_vars(SessionEnds(d))
                              /\ WF_vars(Handle(d)) /\ WF_vars(Inject(d))

Spec == Init /\ [][Next]_vars
FairSpec == Spec /\ Fairness
=============================================================================
