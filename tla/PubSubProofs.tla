---------------------------- MODULE PubSubProofs ----------------------------
(***************************************************************************)
(* The theorems about the claims and the agent bridges, for any number of  *)
(* murods, hosts, keys, sandboxes, messages, crashes and lost links: who   *)
(* was told that a name is its own is named by the claim (ClaimInv), and a *)
(* sandbox hears its own namespace only (MailInv).                         *)
(***************************************************************************)
EXTENDS PubSubProperties, TLAPS

Inboxed == [kind: {"inbox"}, msg: Msg]
Claiming == [kind: {"claim"}, key: Key, by: Daemon \cup {NoClaim},
             seen: Daemon \cup {NoClaim}, late: BOOLEAN]
Message == {Online} \cup Claiming \cup Inboxed
Call == {NoCall} \cup [at: {"lookup", "wait"}, key: Key]
                 \cup [at: {"presence"}, key: Key, seen: Daemon]

ClientTypes ==
  /\ mode \in [Daemon -> {"new", "connecting", "enabled", "disabled", "quit", "crashed"}]
  /\ link \in [Daemon -> {"none", "up", "cut", "lost"}]
  /\ out \in [Daemon -> Seq(Message)]
  /\ presence \in [Daemon -> {"none", "online", "offline"}]
  /\ claim \in [Key -> Daemon \cup {NoClaim}]
  /\ call \in [Daemon -> Call]
  /\ holds \in [Daemon -> SUBSET Key]
  /\ raced \subseteq Key

(* d has published "online" for the last time. *)
Passed(d) == d # NoClaim => mode[d] \in {"enabled", "quit", "crashed"}

(* A claim that d has published was decided on another one whose daemon is not
   online, and will not be again; what releases one names d as its holder. *)
Decided(d, m) ==
  /\ mode[d] = "enabled"
  /\ m.by \in {d, NoClaim}
  /\ m.by = NoClaim => m.seen = d /\ m.key \notin holds[d]
  /\ Passed(m.seen)
  /\ m.seen \notin {d, NoClaim} => presence[m.seen] # "online" \/ m.key \in raced

(* Only the last claim is waited for. *)
Queued(d) == \A i \in DOMAIN out[d] :
  /\ out[d][i].kind = "online" => mode[d] \in {"connecting", "disabled"}
  /\ out[d][i].kind = "claim" =>
       /\ Decided(d, out[d][i])
       /\ ~out[d][i].late =>
            /\ call[d].at = "wait"
            /\ \A j \in DOMAIN out[d] : out[d][j].kind = "claim" => j <= i

Calling(d) ==
  /\ call[d] # NoCall => mode[d] = "enabled"
  /\ call[d].at = "presence" => Passed(call[d].seen) /\ call[d].seen # d
Held(d) == holds[d] # {} => mode[d] = "enabled"

ClaimInv ==
  /\ ClientTypes
  /\ \A d \in Daemon : Queued(d) /\ Calling(d) /\ Held(d)
  /\ \A k \in Key : Passed(claim[k])
  /\ HolderNamed

-----------------------------------------------------------------------------
Box == [key: Key \cup {""}, host: Host \cup {""}, alive: BOOLEAN]
Born(p) == p \in Proc /\ box[p].key \in Key

MailTypes ==
  /\ record \in [Host -> [Key -> Proc \cup {NoProc}]]
  /\ box \in [Proc -> Box]
  /\ sockets \in [Daemon -> SUBSET Proc]
  /\ post \in [Msg -> [st: {"unsent", "flying", "ok", "refused"},
                       from: Proc \cup {NoProc}, to: Key \cup {""}]]
  /\ arriving \in [Daemon -> Seq(Msg)]
  /\ dialing \in [Daemon -> {NoDial} \cup [msg: Msg, to: Proc]]
  /\ heard \in [Proc -> SUBSET Msg]

(* m was let through, and goes to one of its sender's namespace. *)
Sent(m) ==
  /\ post[m].st \in {"flying", "ok"}
  /\ Born(post[m].from) /\ post[m].to \in Key
  /\ NamespaceOf[post[m].to] = NamespaceOf[box[post[m].from].key]

Recorded == \A h \in Host, k \in Key : record[h][k] # NoProc => box[record[h][k]].key = k
Served == \A d \in Daemon : \A p \in sockets[d] : Born(p)
LetThrough == \A m \in Msg : post[m].st \in {"flying", "ok"} => Sent(m)
Outgoing == \A d \in Daemon : \A i \in DOMAIN out[d] :
              out[d][i].kind = "inbox" => Sent(out[d][i].msg)
Incoming == \A d \in Daemon : \A i \in DOMAIN arriving[d] : Sent(arriving[d][i])
Dialled == \A d \in Daemon : dialing[d] # NoDial =>
             /\ Sent(dialing[d].msg)
             /\ box[dialing[d].to].key = post[dialing[d].msg].to
Told == \A p \in Proc : \A m \in heard[p] : Sent(m) /\ box[p].key = post[m].to

MailInv ==
  /\ MailTypes /\ Recorded /\ Served /\ LetThrough
  /\ Outgoing /\ Incoming /\ Dialled /\ Told

-----------------------------------------------------------------------------
(* What publishing and acknowledging do to a queue. *)
LEMMA Appended ==
  ASSUME NEW M, NEW s \in Seq(M), NEW m \in M
  PROVE  /\ Append(s, m) \in Seq(M)
         /\ DOMAIN Append(s, m) = DOMAIN s \cup {Len(s) + 1}
         /\ \A i \in DOMAIN s : Append(s, m)[i] = s[i]
         /\ Append(s, m)[Len(s) + 1] = m
         /\ \A i \in DOMAIN s : i \in Nat /\ i < Len(s) + 1
  OBVIOUS

LEMMA Tailed ==
  ASSUME NEW M, NEW s \in Seq(M), s # <<>>
  PROVE  /\ Tail(s) \in Seq(M)
         /\ Head(s) \in M /\ 1 \in DOMAIN s /\ s[1] = Head(s)
         /\ \A i \in DOMAIN Tail(s) : i \in Nat /\ i + 1 \in DOMAIN s /\ Tail(s)[i] = s[i + 1]
         /\ \A i \in DOMAIN s : i \in Nat /\ i >= 1
  OBVIOUS

LEMMA KindFacts ==
  /\ \A m \in Message : m.kind = "claim" => m \in Claiming
  /\ \A m \in Message : m.kind = "inbox" => m \in Inboxed
  /\ \A m \in Message : m.kind \in {"online", "claim", "inbox"}
  /\ \A m \in Message : m.kind = "online" => m = Online
  /\ \A m \in Claiming : m \in Message /\ m.kind = "claim" /\ m.key \in Key
  /\ \A m \in Inboxed : m \in Message /\ m.kind = "inbox" /\ m.msg \in Msg
  /\ Online \in Message /\ Online.kind = "online"
  BY DEF Message, Claiming, Inboxed, Online

(* What no step does: a daemon that has passed goes on having passed, and does
   not come online; a race is not forgotten. *)
Keeps ==
  /\ \A x \in Daemon \cup {NoClaim} : Passed(x) => Passed(x)'
  /\ \A x \in Daemon : Passed(x) /\ presence'[x] = "online" => presence[x] = "online"
  /\ raced \subseteq raced'

(* Nothing of e's own changes: not what it has published, nor its calls. *)
Apart(e) ==
  out'[e] = out[e] /\ call'[e] = call[e] /\ holds'[e] = holds[e] /\ mode'[e] = mode[e]

LEMMA ApartKeeps ==
  ASSUME ClaimInv, Keeps, NEW e \in Daemon, Apart(e)
  PROVE  Queued(e)' /\ Calling(e)' /\ Held(e)'
<1>1. Queued(e) /\ Calling(e) /\ Held(e) /\ out[e] \in Seq(Message) /\ call[e] \in Call
  BY DEF ClaimInv, ClientTypes
<1>2. ASSUME NEW i \in DOMAIN out[e], out[e][i].kind = "claim"
      PROVE  Decided(e, out[e][i])'
  <2>1. Decided(e, out[e][i]) /\ out[e][i] \in Claiming
    BY <1>1, <1>2, KindFacts DEF Queued
  <2>2. out'[e][i] = out[e][i] /\ Passed(out[e][i].seen)' 
    BY <2>1 DEF Apart, Keeps, Decided, Claiming
  <2> QED BY <2>1, <2>2 DEF Apart, Keeps, Decided, Claiming
<1>3. Queued(e)'
  BY <1>1, <1>2 DEF Queued, Apart
<1>4. Calling(e)'
  <2>1. CASE call[e].at = "presence"
    <3>1. call[e].seen \in Daemon
      BY <1>1, <2>1 DEF Call, NoCall
    <3> QED BY <1>1, <2>1, <3>1 DEF Calling, Apart, Keeps
  <2>2. CASE call[e].at # "presence"
    BY <1>1, <2>2 DEF Calling, Apart
  <2> QED BY <2>1, <2>2
<1>5. Held(e)'
  BY <1>1 DEF Held, Apart
<1> QED BY <1>3, <1>4, <1>5

(* Who knows that its claim is named, when the claim stays. *)
LEMMA NamedKeeps ==
  ASSUME ClaimInv, Keeps, UNCHANGED claim,
         \A d \in Daemon : holds'[d] \subseteq holds[d]
  PROVE  HolderNamed' /\ \A k \in Key : Passed(claim[k])'
<1>1. \A k \in Key : Passed(claim[k])'
  BY DEF ClaimInv, ClientTypes, Keeps
<1>2. ASSUME NEW d \in Daemon, NEW k \in Key,
             k \in holds'[d], presence'[d] = "online", k \notin raced'
      PROVE  claim'[k] = d
  <2>1. k \in holds[d] /\ k \notin raced /\ mode[d] = "enabled"
    BY <1>2 DEF ClaimInv, Keeps, Held
  <2>2. d # NoClaim => Passed(d)
    BY <2>1 DEF Passed
  <2>3. presence[d] = "online"
    BY <1>2, <2>1, <2>2 DEF Keeps, Passed
  <2> QED BY <2>1, <2>3 DEF ClaimInv, HolderNamed
<1> QED BY <1>1, <1>2 DEF HolderNamed

LEMMA Published ==
  ASSUME out \in [Daemon -> Seq(Message)], NEW d \in Daemon, NEW m \in Message, Publish(d, m)
  PROVE  /\ out' \in [Daemon -> Seq(Message)]
         /\ \A e \in Daemon \ {d} : out'[e] = out[e]
         /\ Len(out[d]) \in Nat
         /\ DOMAIN out'[d] = DOMAIN out[d] \cup {Len(out[d]) + 1}
         /\ \A i \in DOMAIN out[d] : out'[d][i] = out[d][i] /\ i \in Nat /\ i < Len(out[d]) + 1
         /\ out'[d][Len(out[d]) + 1] = m
<1>1. out[d] \in Seq(Message) /\ Append(out[d], m) \in Seq(Message) /\ Len(out[d]) \in Nat
  BY Appended
<1>2. out'[d] = Append(out[d], m) /\ out' \in [Daemon -> Seq(Message)]
  BY <1>1 DEF Publish
<1>3. \A e \in Daemon \ {d} : out'[e] = out[e]
  BY DEF Publish
<1> QED BY <1>1, <1>2, <1>3, Appended

LEMMA Popped ==
  ASSUME out \in [Daemon -> Seq(Message)], NEW d \in Daemon, out[d] # <<>>,
         out' = [out EXCEPT ![d] = Tail(@)]
  PROVE  /\ out' \in [Daemon -> Seq(Message)]
         /\ \A e \in Daemon \ {d} : out'[e] = out[e]
         /\ Head(out[d]) \in Message /\ 1 \in DOMAIN out[d] /\ out[d][1] = Head(out[d])
         /\ \A i \in DOMAIN out'[d] : i \in Nat /\ i + 1 \in DOMAIN out[d]
                                      /\ out'[d][i] = out[d][i + 1]
         /\ \A i \in DOMAIN out[d] : i \in Nat /\ i >= 1
<1>1. out[d] \in Seq(Message) /\ Tail(out[d]) \in Seq(Message)
  BY Tailed
<1>2. out'[d] = Tail(out[d]) /\ out' \in [Daemon -> Seq(Message)]
  BY <1>1
<1>3. \A e \in Daemon \ {d} : out'[e] = out[e]
  OBVIOUS
<1> QED BY <1>1, <1>2, <1>3, Tailed

LEMMA NoneQueued ==
  ASSUME NEW d \in Daemon,
         \A i \in DOMAIN out[d] : /\ out[d][i].kind # "claim"
                                  /\ out[d][i].kind = "online" =>
                                       mode[d] \in {"connecting", "disabled"}
  PROVE  Queued(d)
  BY DEF Queued

LEMMA NothingQueued == \A i \in DOMAIN <<>> : FALSE
  OBVIOUS

-----------------------------------------------------------------------------
LEMMA InitClaims == Init => ClaimInv
<1> SUFFICES ASSUME Init PROVE ClaimInv
  OBVIOUS
<1>1. ClientTypes
  BY DEF Init, PubSubInit, ClientTypes, Call
<1>2. \A d \in Daemon : Queued(d) /\ Calling(d) /\ Held(d)
  BY NothingQueued DEF Init, PubSubInit, Queued, Calling, Held, NoCall
<1>3. \A k \in Key : Passed(claim[k])
  BY DEF Init, PubSubInit, Passed
<1>4. HolderNamed
  BY DEF Init, PubSubInit, HolderNamed
<1> QED BY <1>1, <1>2, <1>3, <1>4 DEF ClaimInv

LEMMA ConnectClaims ==
  ASSUME ClaimInv, NEW d \in Daemon, Connect(d)
  PROVE  ClaimInv'
<1> USE DEF ClaimInv
<1>1. ClientTypes'
  <2>1. out' \in [Daemon -> Seq(Message)]
    <3>1. out \in [Daemon -> Seq(Message)] /\ (UNCHANGED out \/ Publish(d, Online))
      BY DEF ClientTypes, Connect
    <3> QED BY <3>1, KindFacts, Published
  <2> QED BY <2>1 DEF ClientTypes, Connect
<1>2. Keeps
  BY DEF Keeps, Connect, ClientTypes, Passed
<1>3. \A e \in Daemon \ {d} : Apart(e)
  BY DEF Apart, Connect, Publish, ClientTypes
<1>4. Queued(d)' /\ Calling(d)' /\ Held(d)'
  <2>1. call[d] = NoCall /\ holds[d] = {}
    BY DEF Connect, Calling, Held, ClientTypes
  <2>2. Calling(d)' /\ Held(d)'
    BY <2>1 DEF Calling, Held, Connect, NoCall
  <2>3. \A i \in DOMAIN out[d] : out[d][i].kind \notin {"online", "claim"}
    BY DEF Queued, Decided, Connect, ClientTypes
  <2>4. CASE UNCHANGED out
    <3>1. \A i \in DOMAIN out'[d] : out'[d][i].kind \notin {"online", "claim"}
      BY <2>3, <2>4
    <3> QED BY <2>2, <3>1 DEF Queued
  <2>5. CASE mode'[d] = "connecting" /\ Publish(d, Online)
    <3>1. out'[d] = Append(out[d], Online) /\ out[d] \in Seq(Message)
      BY <2>5 DEF Publish, ClientTypes
    <3>2. \A i \in DOMAIN out'[d] : out'[d][i].kind # "claim"
      BY <2>3, <3>1, Appended, KindFacts
    <3>3. mode'[d] \in {"connecting", "disabled"}
      BY <2>5
    <3> QED BY <2>2, <3>2, <3>3 DEF Queued
  <2>6. UNCHANGED out \/ (mode'[d] = "connecting" /\ Publish(d, Online))
    BY DEF Connect, ClientTypes
  <2> QED BY <2>2, <2>4, <2>5, <2>6
<1>5. UNCHANGED <<claim, holds>>
  BY DEF Connect
<1> QED BY <1>1, <1>2, <1>3, <1>4, <1>5, ApartKeeps, NamedKeeps

LEMMA ModeClaims ==
  ASSUME ClaimInv, NEW d \in Daemon,
         ConnectTimesOut(d) \/ (Connected(d) /\ UNCHANGED <<link, out, presence, claim, call, holds, raced>>)
  PROVE  ClaimInv'
<1> USE DEF ClaimInv
<1>1. ClientTypes'
  BY DEF ClientTypes, ConnectTimesOut, Connected
<1>2. Keeps
  BY DEF Keeps, ConnectTimesOut, Connected, ClientTypes, Passed
<1>3. \A e \in Daemon \ {d} : Apart(e)
  BY DEF Apart, ConnectTimesOut, Connected, ClientTypes
<1>4. Queued(d)' /\ Calling(d)' /\ Held(d)'
  <2>1. call[d] = NoCall /\ holds[d] = {} /\ UNCHANGED <<out, call, holds>>
    BY DEF ConnectTimesOut, Connected, Calling, Held, ClientTypes
  <2>2. Calling(d)' /\ Held(d)'
    BY <2>1 DEF Calling, Held, NoCall
  <2>3. \A i \in DOMAIN out[d] : out[d][i].kind # "claim"
    BY DEF Queued, Decided, ConnectTimesOut, Connected, ClientTypes
  <2>4. CASE out[d] = <<>>
    BY <2>1, <2>2, <2>4, NothingQueued DEF Queued
  <2>5. CASE mode'[d] = "disabled"
    <3>1. \A i \in DOMAIN out'[d] : out'[d][i].kind # "claim"
      BY <2>1, <2>3
    <3>2. mode'[d] \in {"connecting", "disabled"}
      BY <2>5
    <3> QED BY <2>2, <3>1, <3>2 DEF Queued
  <2> QED BY <2>2, <2>4, <2>5 DEF ConnectTimesOut, Connected, ClientTypes
<1>5. UNCHANGED <<claim, holds>>
  BY DEF ConnectTimesOut, Connected
<1> QED BY <1>1, <1>2, <1>3, <1>4, <1>5, ApartKeeps, NamedKeeps

LEMMA DecidedKeeps ==
  ASSUME Keeps, NEW d \in Daemon, NEW m \in Claiming, Decided(d, m),
         mode'[d] = mode[d], holds'[d] \subseteq holds[d]
  PROVE  Decided(d, m)'
<1>1. Passed(m.seen)'
  BY DEF Keeps, Decided, Claiming
<1>2. m.seen \notin {d, NoClaim} => presence'[m.seen] # "online" \/ m.key \in raced'
  BY DEF Keeps, Decided, Claiming
<1> QED BY <1>1, <1>2 DEF Decided

(* d publishes a claim and waits for it: all it published before are late. *)
LEMMA ClaimPublished ==
  ASSUME ClaimInv, Keeps, NEW d \in Daemon, NEW m \in Claiming, Publish(d, m),
         Decided(d, m)', mode'[d] = mode[d], holds'[d] \subseteq holds[d],
         call[d].at # "wait", call'[d].at = "wait"
  PROVE  Queued(d)'
<1>1. Queued(d) /\ out \in [Daemon -> Seq(Message)] /\ out[d] \in Seq(Message) /\ m \in Message
  BY KindFacts DEF ClaimInv, ClientTypes
<1>2. m.kind = "claim"
  BY KindFacts
<1>3. ASSUME NEW m1 \in Claiming, NEW i \in DOMAIN out[d], m1 = out[d][i]
      PROVE  Decided(d, m1)' /\ m1.late = TRUE
  <2>1. Decided(d, m1) /\ m1.late
    BY <1>1, <1>3, KindFacts DEF Queued
  <2> QED BY <2>1, DecidedKeeps DEF Claiming
<1>4. ASSUME NEW i \in DOMAIN out'[d], NEW m1, m1 = out'[d][i]
      PROVE  /\ m1.kind = "online" => mode'[d] \in {"connecting", "disabled"}
             /\ m1.kind = "claim" => Decided(d, m1)' /\ (~m1.late => i = Len(out[d]) + 1)
  <2>1. CASE i \in DOMAIN out[d]
    <3>1. m1 = out[d][i] /\ m1 \in Message
      BY <1>1, <1>4, <2>1, Published
    <3>2. m1.kind = "claim" => m1 \in Claiming
      BY <3>1, KindFacts
    <3>3. m1.kind = "online" => mode[d] \in {"connecting", "disabled"}
      BY <1>1, <2>1, <3>1 DEF Queued
    <3> QED BY <1>3, <2>1, <3>1, <3>2, <3>3
  <2>2. CASE i = Len(out[d]) + 1
    <3>1. m1 = m
      BY <1>1, <1>4, <2>2, Published
    <3> QED BY <1>2, <2>2, <3>1
  <2> QED BY <1>1, <1>4, <2>1, <2>2, Published
<1>5. \A j \in DOMAIN out'[d] : j <= Len(out[d]) + 1
  BY <1>1, Published
<1> QED BY <1>4, <1>5 DEF Queued

LEMMA ClaimClaims ==
  ASSUME ClaimInv, NEW d \in Daemon, NEW k \in Key, Claim(d, k)
  PROVE  ClaimInv'
<1> USE DEF ClaimInv
<1>1. ClientTypes'
  BY DEF ClientTypes, Claim, Call
<1>2. Keeps
  BY DEF Keeps, Claim, Passed
<1>3. \A e \in Daemon \ {d} : Apart(e)
  BY DEF Apart, Claim, ClientTypes
<1>4. Queued(d)' /\ Calling(d)' /\ Held(d)'
  <2>1. call'[d].at = "lookup" /\ call[d].at # "wait" /\ mode[d] = "enabled"
    BY DEF ClientTypes, Claim, NoCall
  <2>2. Calling(d)' /\ Held(d)'
    BY <2>1 DEF Calling, Held, Claim
  <2>3. \A i \in DOMAIN out[d] : out[d][i].kind = "claim" => out[d][i].late
    BY <2>1 DEF Queued
  <2>4. \A i \in DOMAIN out[d] : out[d][i].kind = "claim" => Decided(d, out[d][i])'
    BY <1>2, DecidedKeeps, KindFacts DEF Claim, Queued, ClientTypes
  <2> QED BY <2>2, <2>3, <2>4 DEF Queued, Claim
<1>5. UNCHANGED <<claim, holds>>
  BY DEF Claim
<1> QED BY <1>1, <1>2, <1>3, <1>4, <1>5, ApartKeeps, NamedKeeps

(* A step of ClaimSandbox that reads and perhaps decides. *)
LEMMA ReturnClaims ==
  ASSUME ClaimInv, Keeps, NEW d \in Daemon, call[d].at \in {"lookup", "presence"},
         NEW c \in Call, call' = [call EXCEPT ![d] = c], c.at # "wait",
         c.at = "presence" => Passed(c.seen)' /\ c.seen # d,
         UNCHANGED <<mode, link, out, presence, claim, holds>>, raced' \subseteq Key
  PROVE  ClaimInv'
<1> USE DEF ClaimInv
<1>1. ClientTypes'
  BY DEF ClientTypes
<1>2. \A e \in Daemon \ {d} : Apart(e)
  BY DEF Apart, ClientTypes
<1>3. Queued(d)' /\ Calling(d)' /\ Held(d)'
  <2>1. call'[d] = c /\ call[d].at # "wait" /\ mode[d] = "enabled"
    BY DEF ClientTypes, Calling, NoCall
  <2>2. Calling(d)' /\ Held(d)'
    BY <2>1 DEF Calling, Held
  <2>3. \A i \in DOMAIN out[d] : out[d][i].kind = "claim" => out[d][i].late
    BY <2>1 DEF Queued
  <2>4. \A i \in DOMAIN out[d] : out[d][i].kind = "claim" => Decided(d, out[d][i])'
    BY DecidedKeeps, KindFacts DEF Queued, ClientTypes
  <2> QED BY <2>2, <2>3, <2>4 DEF Queued
<1> QED BY <1>1, <1>2, <1>3, ApartKeeps, NamedKeeps

LEMMA DecideClaims ==
  ASSUME ClaimInv, Keeps, NEW d \in Daemon, NEW m \in Claiming, Publish(d, m), ~m.late,
         Decided(d, m)', call[d].at # "wait",
         call' = [call EXCEPT ![d] = [at |-> "wait", key |-> m.key]],
         UNCHANGED <<mode, link, presence, claim>>, raced' \subseteq Key,
         holds' = holds \/ holds' = [holds EXCEPT ![d] = @ \ {m.key}]
  PROVE  ClaimInv'
<1> USE DEF ClaimInv
<1>1. ClientTypes'
  <2>1. out' \in [Daemon -> Seq(Message)]
    BY KindFacts, Published DEF ClientTypes
  <2>2. [at |-> "wait", key |-> m.key] \in Call
    BY DEF Call, Claiming
  <2>3. holds' \in [Daemon -> SUBSET Key]
    BY DEF ClientTypes
  <2> QED BY <2>1, <2>2, <2>3 DEF ClientTypes
<1>2. \A e \in Daemon \ {d} : Apart(e)
  BY DEF Apart, ClientTypes, Publish
<1>3. Queued(d)' /\ Calling(d)' /\ Held(d)'
  <2>1. call'[d].at = "wait" /\ mode[d] = "enabled" /\ holds'[d] \subseteq holds[d]
    BY DEF ClientTypes, Decided
  <2>2. Calling(d)' /\ Held(d)'
    BY <2>1 DEF Calling, Held
  <2>3. Queued(d)'
    BY <2>1, ClaimPublished
  <2> QED BY <2>2, <2>3
<1>4. \A e \in Daemon : holds'[e] \subseteq holds[e]
  BY DEF ClientTypes
<1> QED BY <1>1, <1>2, <1>3, <1>4, ApartKeeps, NamedKeeps

LEMMA CallFacts ==
  ASSUME ClientTypes, NEW d \in Daemon
  PROVE  /\ call[d].at \in {"lookup", "wait", "presence"} => call[d].key \in Key
         /\ call[d].at = "presence" => call[d].seen \in Daemon
         /\ NoCall \in Call /\ NoCall.at = "idle"
  BY DEF ClientTypes, Call, NoCall

LEMMA LookUpClaims ==
  ASSUME ClaimInv, NEW d \in Daemon, NEW slow \in BOOLEAN, LookUp(d, slow)
  PROVE  ClaimInv'
<1>1. Keeps /\ UNCHANGED <<mode, link, presence, claim, holds, raced>>
  BY DEF Keeps, LookUp, Passed
<1>2. PICK k \in Key, seen \in Daemon \cup {NoClaim} :
        /\ k = call[d].key /\ seen = IF slow THEN NoClaim ELSE claim[k]
        /\ call[d].at = "lookup" /\ mode[d] = "enabled" /\ ClientTypes /\ Passed(seen)
  BY CallFacts DEF ClaimInv, LookUp, Calling, NoCall, ClientTypes, Passed
<1>3. CASE Return(d) /\ UNCHANGED out
  BY <1>1, <1>2, <1>3, CallFacts, ReturnClaims DEF Return, ClientTypes
<1>4. CASE Decide(d, seen) /\ seen \in {NoClaim, d}
  <2>1. PICK m \in Claiming : m = ClaimBy(d, k, seen) /\ m.late = FALSE /\ m.key = k
                               /\ m.by = d /\ m.seen = seen
    <3>1. LET n == ClaimBy(d, k, seen)
          IN  n \in Claiming /\ n.late = FALSE /\ n.key = k /\ n.by = d /\ n.seen = seen
      BY <1>2 DEF ClaimBy, Claiming
    <3> QED BY <3>1
  <2>2. Decided(d, m)'
    <3>1. Passed(m.seen)'
      BY <1>1, <1>2, <2>1 DEF Passed
    <3> QED BY <1>1, <1>2, <1>4, <2>1, <3>1, DaemonAssumption DEF Decided
  <2>3. Publish(d, m) /\ call' = [call EXCEPT ![d] = [at |-> "wait", key |-> m.key]]
    BY <1>2, <1>4, <2>1 DEF Decide, ClientTypes
  <2> QED BY <1>1, <1>2, <2>1, <2>2, <2>3, DecideClaims DEF ClientTypes
<1>5. CASE /\ seen \notin {NoClaim, d} /\ UNCHANGED out
           /\ call' = [call EXCEPT ![d] = [at |-> "presence", key |-> k, seen |-> seen]]
  <2>1. PICK c \in Call : /\ c = [at |-> "presence", key |-> k, seen |-> seen]
                          /\ c.at = "presence" /\ c.seen = seen
    <3>1. [at |-> "presence", key |-> k, seen |-> seen] \in Call
      BY <1>2, <1>5 DEF Call
    <3> QED BY <3>1
  <2>2. Passed(c.seen)' /\ call' = [call EXCEPT ![d] = c]
    BY <1>1, <1>2, <1>5, <2>1 DEF Passed
  <2> QED BY <1>1, <1>2, <1>5, <2>1, <2>2, ReturnClaims DEF ClientTypes
<1> QED BY <1>2, <1>3, <1>4, <1>5 DEF LookUp, ClientTypes

LEMMA PresenceClaims ==
  ASSUME ClaimInv, NEW d \in Daemon, NEW slow \in BOOLEAN, Presence(d, slow)
  PROVE  ClaimInv'
<1>1. /\ UNCHANGED <<mode, link, presence, claim, holds>>
      /\ raced \subseteq raced'
  BY DEF Presence
<1>2. Keeps
  BY <1>1 DEF Keeps, Passed
<1>3. PICK k \in Key, seen \in Daemon :
        /\ k = call[d].key /\ seen = call[d].seen /\ seen # d
        /\ call[d].at = "presence" /\ mode[d] = "enabled" /\ ClientTypes /\ Passed(seen)
  BY CallFacts DEF ClaimInv, Presence, Calling, NoCall
<1>4. raced' \subseteq Key
  BY <1>3 DEF Presence, ClientTypes
<1>5. CASE Return(d) /\ UNCHANGED out
  BY <1>1, <1>2, <1>3, <1>4, <1>5, CallFacts, ReturnClaims DEF Return
<1>6. CASE Decide(d, seen) /\ (presence[seen] = "online" => k \in raced')
  <2>1. PICK m \in Claiming : m = ClaimBy(d, k, seen) /\ m.late = FALSE /\ m.key = k
                               /\ m.by = d /\ m.seen = seen
    <3>1. LET n == ClaimBy(d, k, seen)
          IN  n \in Claiming /\ n.late = FALSE /\ n.key = k /\ n.by = d /\ n.seen = seen
      BY <1>3 DEF ClaimBy, Claiming
    <3> QED BY <3>1
  <2>2. Decided(d, m)'
    <3>1. Passed(m.seen)'
      BY <1>1, <1>3, <2>1 DEF Passed
    <3> QED BY <1>1, <1>3, <1>6, <2>1, <3>1, DaemonAssumption DEF Decided
  <2>3. Publish(d, m) /\ call' = [call EXCEPT ![d] = [at |-> "wait", key |-> m.key]]
    BY <1>3, <1>6, <2>1 DEF Decide, ClientTypes
  <2> QED BY <1>1, <1>2, <1>3, <1>4, <2>1, <2>2, <2>3, DecideClaims
<1> QED BY <1>3, <1>5, <1>6 DEF Presence

LEMMA ReleaseClaims ==
  ASSUME ClaimInv, NEW d \in Daemon, NEW k \in Key, Release(d, k)
  PROVE  ClaimInv'
<1>1. /\ UNCHANGED <<mode, link, presence, claim, raced>> /\ ClientTypes
      /\ mode[d] = "enabled" /\ call[d].at # "wait"
      /\ holds' = [holds EXCEPT ![d] = @ \ {k}]
  BY DEF Release, ClaimInv, NoCall
<1>2. Keeps
  BY <1>1 DEF Keeps, Passed
<1>3. PICK m \in Claiming : m = ClaimBy(NoClaim, k, d) /\ m.late = FALSE /\ m.key = k
                             /\ m.by = NoClaim /\ m.seen = d
  <2>1. LET n == ClaimBy(NoClaim, k, d)
        IN  n \in Claiming /\ n.late = FALSE /\ n.key = k /\ n.by = NoClaim /\ n.seen = d
    BY DEF ClaimBy, Claiming
  <2> QED BY <2>1
<1>4. Decided(d, m)'
  <2>1. Passed(m.seen)' /\ m.key \notin holds'[d]
    BY <1>1, <1>3 DEF Passed, ClientTypes
  <2> QED BY <1>1, <1>3, <2>1, DaemonAssumption DEF Decided
<1>5. Publish(d, m) /\ call' = [call EXCEPT ![d] = [at |-> "wait", key |-> m.key]]
  BY <1>3 DEF Release
<1> QED BY <1>1, <1>2, <1>3, <1>4, <1>5, DecideClaims DEF ClientTypes

LEMMA CallTimesOutClaims ==
  ASSUME ClaimInv, NEW d \in Daemon, CallTimesOut(d)
  PROVE  ClaimInv'
<1> USE DEF ClaimInv
<1> DEFINE Belated(m) == IF m.kind = "claim" THEN [m EXCEPT !.late = TRUE] ELSE m
<1>1. out[d] \in Seq(Message) /\ ClientTypes
  BY DEF ClientTypes
<1>2. /\ out'[d] = [i \in DOMAIN out[d] |-> Belated(out[d][i])]
      /\ out' = [out EXCEPT ![d] = [i \in DOMAIN out[d] |-> Belated(out[d][i])]]
      /\ UNCHANGED <<mode, link, presence, claim, holds, raced>>
      /\ call' = [call EXCEPT ![d] = NoCall]
  BY DEF ClientTypes, CallTimesOut, Return
<1>3. \A m \in Message : Belated(m) \in Message
  <2>1. \A m \in Claiming : [m EXCEPT !.late = TRUE] \in Claiming
    BY DEF Claiming
  <2> QED BY <2>1, KindFacts
<1>4. [i \in DOMAIN out[d] |-> Belated(out[d][i])] \in Seq(Message)
  BY <1>1, <1>3
<1>5. ClientTypes'
  <2>1. out' \in [Daemon -> Seq(Message)]
    BY <1>1, <1>2, <1>4 DEF ClientTypes
  <2>2. call' \in [Daemon -> Call]
    BY <1>1, <1>2, CallFacts DEF ClientTypes
  <2> QED BY <1>1, <1>2, <2>1, <2>2 DEF ClientTypes
<1>6. Keeps
  BY <1>2 DEF Keeps, Passed
<1>7. \A e \in Daemon \ {d} : Apart(e)
  BY <1>1, <1>2 DEF Apart, ClientTypes
<1>8. Queued(d)' /\ Calling(d)' /\ Held(d)'
  <2>1. Calling(d)' /\ Held(d)'
    BY <1>1, <1>2 DEF Calling, Held, ClientTypes, NoCall
  <2>2. ASSUME NEW i \in DOMAIN out'[d], NEW m, m = out'[d][i]
        PROVE  /\ m.kind = "online" => mode'[d] \in {"connecting", "disabled"}
               /\ m.kind = "claim" => Decided(d, m)' /\ m.late
    <3>1. i \in DOMAIN out[d] /\ m = Belated(out[d][i])
      BY <1>2, <2>2
    <3>2. PICK n \in Message : n = out[d][i] /\ m = Belated(n)
      <4>1. out[d][i] \in Message
        BY <1>1, <3>1
      <4> QED BY <3>1, <4>1
    <3>3. CASE n.kind = "claim"
      <4>1. n \in Claiming /\ Decided(d, n)
        BY <3>1, <3>2, <3>3, KindFacts DEF Queued
      <4>2. Decided(d, n)'
        BY <1>2, <1>6, <4>1, DecidedKeeps
      <4>3. m = [n EXCEPT !.late = TRUE]
        BY <3>2, <3>3
      <4>4. m.kind = "claim" /\ m.late /\ m.by = n.by /\ m.seen = n.seen /\ m.key = n.key
        BY <4>1, <4>3, <3>3 DEF Claiming
      <4>5. Decided(d, m)'
        BY <4>2, <4>4 DEF Decided
      <4> QED BY <4>4, <4>5
    <3>4. CASE n.kind # "claim"
      <4>1. m = n
        BY <3>2, <3>4
      <4>2. n.kind = "online" => mode[d] \in {"connecting", "disabled"}
        BY <3>1, <3>2 DEF Queued
      <4> QED BY <1>2, <3>4, <4>1, <4>2
    <3> QED BY <3>3, <3>4
  <2>3. Queued(d)'
    BY <2>2 DEF Queued
  <2> QED BY <2>1, <2>3
<1> QED BY <1>2, <1>5, <1>6, <1>7, <1>8, ApartKeeps, NamedKeeps

(* The link, and what the broker makes of it. *)
LEMMA LinkClaims ==
  ASSUME ClaimInv, NEW d \in Daemon, Cut(d) \/ WillFires(d) \/ Reconnect(d)
  PROVE  ClaimInv'
<1> USE DEF ClaimInv
<1>1. /\ UNCHANGED <<mode, out, claim, call, holds, raced>>
      /\ presence' = presence \/ presence' = [presence EXCEPT ![d] = "offline"]
  BY DEF Cut, WillFires, Reconnect
<1>2. ClientTypes'
  <2>1. link' \in [Daemon -> {"none", "up", "cut", "lost"}]
    BY DEF ClientTypes, Cut, WillFires, Reconnect
  <2> QED BY <1>1, <2>1 DEF ClientTypes
<1>3. Keeps
  BY <1>1 DEF Keeps, Passed, ClientTypes
<1>4. \A e \in Daemon : Apart(e)
  BY <1>1 DEF Apart
<1> QED BY <1>1, <1>2, <1>3, <1>4, ApartKeeps, NamedKeeps

(* murod ends, and with it what it had not got through. *)
LEMMA EndsClaims ==
  ASSUME ClaimInv, NEW d \in Daemon, Quit(d) \/ Crash(d), Forget(d)
  PROVE  ClaimInv'
<1> USE DEF ClaimInv
<1>1. /\ UNCHANGED <<presence, claim, raced>> /\ ClientTypes
      /\ out' = [out EXCEPT ![d] = <<>>]
      /\ call' = [call EXCEPT ![d] = NoCall]
      /\ holds' = [holds EXCEPT ![d] = {}]
      /\ \E how \in {"quit", "crashed"} : mode' = [mode EXCEPT ![d] = how]
  BY DEF Quit, Crash, Forget
<1>2. ClientTypes'
  <2>1. link' \in [Daemon -> {"none", "up", "cut", "lost"}]
    BY DEF ClientTypes, Quit, Crash
  <2>2. <<>> \in Seq(Message) /\ NoCall \in Call
    BY DEF Call
  <2>3. out' \in [Daemon -> Seq(Message)] /\ call' \in [Daemon -> Call]
        /\ holds' \in [Daemon -> SUBSET Key]
    BY <1>1, <2>2 DEF ClientTypes
  <2>4. mode' \in [Daemon -> {"new", "connecting", "enabled", "disabled", "quit", "crashed"}]
    BY <1>1 DEF ClientTypes
  <2> QED BY <1>1, <2>1, <2>3, <2>4 DEF ClientTypes
<1>3. Keeps
  BY <1>1 DEF Keeps, Passed, ClientTypes
<1>4. \A e \in Daemon \ {d} : Apart(e)
  BY <1>1 DEF Apart, ClientTypes
<1>5. Queued(d)' /\ Calling(d)' /\ Held(d)'
  BY <1>1, NothingQueued DEF ClientTypes, Queued, Calling, Held, NoCall
<1>6. \A e \in Daemon : holds'[e] \subseteq holds[e]
  BY <1>1 DEF ClientTypes
<1> QED BY <1>1, <1>2, <1>3, <1>4, <1>5, <1>6, ApartKeeps, NamedKeeps

(* An agent's message is published. *)
LEMMA InboxClaims ==
  ASSUME ClaimInv, NEW d \in Daemon, NEW m \in Msg,
         Publish(d, [kind |-> "inbox", msg |-> m]) \/ UNCHANGED out,
         UNCHANGED <<mode, link, presence, claim, call, holds, raced>>
  PROVE  ClaimInv'
<1> USE DEF ClaimInv
<1>1. Keeps
  BY DEF Keeps, Passed
<1>2. CASE UNCHANGED out
  <2>1. ClientTypes' /\ \A e \in Daemon : Apart(e)
    BY <1>2 DEF ClientTypes, Apart
  <2> QED BY <1>1, <2>1, ApartKeeps, NamedKeeps
<1>3. CASE Publish(d, [kind |-> "inbox", msg |-> m])
  <2>1. PICK n \in Message : n = [kind |-> "inbox", msg |-> m] /\ n.kind = "inbox"
    BY DEF Message, Inboxed
  <2>2. ClientTypes' /\ \A e \in Daemon \ {d} : Apart(e)
    BY <1>3, <2>1, Published DEF ClientTypes, Apart
  <2>3. Calling(d)' /\ Held(d)'
    BY <1>1 DEF Calling, Held, Passed
  <2>4. \A i \in DOMAIN out'[d] : \/ i \in DOMAIN out[d] /\ out'[d][i] = out[d][i]
                                  \/ out'[d][i].kind = "inbox"
    BY <1>3, <2>1, Published DEF ClientTypes
  <2>5. ASSUME NEW i \in DOMAIN out'[d], NEW m1, m1 = out'[d][i], m1.kind # "inbox"
        PROVE  /\ m1 \in Message /\ m1 = out[d][i] /\ i \in DOMAIN out[d]
               /\ m1.kind = "claim" => m1 \in Claiming /\ Decided(d, m1)'
    <3>1. i \in DOMAIN out[d] /\ m1 = out[d][i] /\ m1 \in Message
      BY <2>4, <2>5 DEF ClientTypes
    <3>2. m1.kind = "claim" => m1 \in Claiming /\ Decided(d, m1)
      BY <3>1, KindFacts DEF Queued
    <3> QED BY <1>1, <3>1, <3>2, DecidedKeeps
  <2>6. Queued(d)'
    BY <2>5 DEF Queued
  <2> QED BY <1>1, <2>2, <2>3, <2>6, ApartKeeps, NamedKeeps
<1> QED BY <1>2, <1>3

(* The broker takes the oldest publish of d, a claim: the claim of another one
   that is online is only replaced in a race. *)
LEMMA RetainNames ==
  ASSUME ClaimInv, Keeps, NEW d \in Daemon, NEW m \in Claiming, Decided(d, m),
         claim' = [claim EXCEPT ![m.key] = m.by], UNCHANGED <<mode, presence>>,
         raced' = IF claim[m.key] \in {m.seen, m.by} THEN raced ELSE raced \cup {m.key},
         \A e \in Daemon \ {d} : holds'[e] = holds[e],
         holds'[d] = holds[d] \/ (m.by = d /\ holds'[d] = holds[d] \cup {m.key})
  PROVE  HolderNamed' /\ \A k \in Key : Passed(claim[k])'
<1> USE DEF ClaimInv
<1>1. ClientTypes /\ m.key \in Key /\ m.by \in Daemon \cup {NoClaim}
  BY DEF Claiming
<1>2. ASSUME NEW k \in Key, NEW holder, holder = claim'[k]
      PROVE  Passed(holder)'
  <2>1. CASE k = m.key
    <3>1. holder = m.by /\ m.by \in {d, NoClaim} /\ mode[d] = "enabled"
      BY <1>1, <1>2, <2>1 DEF Decided, ClientTypes
    <3> QED BY <3>1 DEF Passed
  <2>2. CASE k # m.key
    <3>1. holder = claim[k]
      BY <1>1, <1>2, <2>2 DEF ClientTypes
    <3> QED BY <3>1 DEF Passed
  <2> QED BY <2>1, <2>2
<1>3. ASSUME NEW e \in Daemon, NEW k \in Key,
             k \in holds'[e], presence'[e] = "online", k \notin raced'
      PROVE  claim'[k] = e
  <2>1. k \notin raced /\ presence[e] = "online"
    BY <1>3 DEF Keeps
  <2>2. CASE k # m.key
    <3>1. k \in holds[e] /\ claim'[k] = claim[k]
      BY <1>1, <1>3, <2>2 DEF ClientTypes
    <3> QED BY <2>1, <3>1 DEF HolderNamed
  <2>3. CASE k = m.key /\ e = d
    BY <1>1, <1>3, <2>3 DEF Decided, ClientTypes
  <2>4. CASE k = m.key /\ e # d
    <3>1. claim[k] = e
      BY <1>3, <2>1, <2>4 DEF HolderNamed
    <3>2. e \in {m.seen, m.by}
      BY <1>3, <2>4, <3>1
    <3> QED BY <2>1, <2>4, <3>2, DaemonAssumption DEF Decided
  <2> QED BY <2>2, <2>3, <2>4
<1> QED BY <1>2, <1>3 DEF HolderNamed

LEMMA LandFacts ==
  ASSUME ClaimInv, NEW d \in Daemon, out[d] # <<>>, NEW m, m = Head(out[d])
  PROVE  /\ m \in Message /\ 1 \in DOMAIN out[d] /\ m = out[d][1] /\ ClientTypes
         /\ m.kind = "claim" => m \in Claiming /\ Decided(d, m)
         /\ m.kind = "online" => mode[d] \in {"connecting", "disabled"}
<1>1. m \in Message /\ 1 \in DOMAIN out[d] /\ m = out[d][1] /\ ClientTypes
  BY Tailed DEF ClaimInv, ClientTypes
<1> QED BY <1>1, KindFacts DEF ClaimInv, Queued

LEMMA RetainKeeps ==
  ASSUME ClaimInv, NEW d \in Daemon, out[d] # <<>>, Retain(d, Head(out[d])), UNCHANGED mode
  PROVE  /\ Keeps
         /\ presence' \in [Daemon -> {"none", "online", "offline"}]
         /\ claim' \in [Key -> Daemon \cup {NoClaim}]
         /\ raced' \subseteq Key
<1>1. PICK m : m = Head(out[d])
  OBVIOUS
<1>2. /\ m \in Message /\ ClientTypes
      /\ m.kind = "claim" => m \in Claiming
      /\ m.kind = "online" => mode[d] \in {"connecting", "disabled"}
  BY <1>1, LandFacts
<1>3. Retain(d, m)
  BY <1>1
<1>4. CASE m.kind = "online"
  BY <1>2, <1>3, <1>4, DaemonAssumption DEF Retain, Keeps, Passed, ClientTypes
<1>5. CASE m.kind = "claim"
  BY <1>2, <1>3, <1>5 DEF Retain, Keeps, Passed, ClientTypes, Claiming
<1>6. CASE m.kind = "inbox"
  BY <1>2, <1>3, <1>6 DEF Retain, Keeps, Passed, ClientTypes
<1> QED BY <1>2, <1>4, <1>5, <1>6, KindFacts

LEMMA RetainHolder ==
  ASSUME ClaimInv, NEW d \in Daemon, out[d] # <<>>, Retain(d, Head(out[d])),
         UNCHANGED <<mode, holds>> \/ (Acked(d, Head(out[d])) /\ UNCHANGED mode)
  PROVE  HolderNamed' /\ \A k \in Key : Passed(claim[k])'
<1>1. PICK m : m = Head(out[d])
  OBVIOUS
<1>2. /\ m \in Message /\ ClientTypes
      /\ m.kind = "claim" => m \in Claiming /\ Decided(d, m)
  BY <1>1, LandFacts
<1>3. Keeps /\ Retain(d, m) /\ UNCHANGED mode
  BY <1>1, RetainKeeps
<1>4. CASE m.kind # "claim"
  <2>1. UNCHANGED <<claim, holds>>
    BY <1>1, <1>2, <1>3, <1>4, KindFacts DEF Retain, Acked
  <2> QED BY <1>3, <2>1, NamedKeeps
<1>5. CASE m.kind = "claim"
  <2>1. /\ claim' = [claim EXCEPT ![m.key] = m.by] /\ UNCHANGED presence
        /\ raced' = IF claim[m.key] \in {m.seen, m.by} THEN raced ELSE raced \cup {m.key}
    BY <1>3, <1>5 DEF Retain
  <2>2. holds' = holds \/ (m.by = d /\ holds' = [holds EXCEPT ![d] = @ \cup {m.key}])
    BY <1>1, <1>5 DEF Acked
  <2>3. /\ \A e \in Daemon \ {d} : holds'[e] = holds[e]
        /\ holds'[d] = holds[d] \/ (m.by = d /\ holds'[d] = holds[d] \cup {m.key})
    BY <1>2, <2>2 DEF ClientTypes
  <2> QED BY <1>2, <1>3, <1>5, <2>1, <2>3, RetainNames
<1> QED BY <1>4, <1>5

LEMMA LandUnackedClaims ==
  ASSUME ClaimInv, NEW d \in Daemon, LandUnacked(d)
  PROVE  ClaimInv'
<1>1. /\ out[d] # <<>> /\ Retain(d, Head(out[d])) /\ ClientTypes
      /\ UNCHANGED <<mode, out, call, holds>>
      /\ link' = [link EXCEPT ![d] = "cut"]
  BY DEF LandUnacked, ClaimInv
<1>2. ClientTypes' /\ Keeps
  BY <1>1, RetainKeeps DEF ClientTypes
<1>3. \A e \in Daemon : Apart(e)
  BY <1>1 DEF Apart
<1>4. HolderNamed' /\ \A k \in Key : Passed(claim[k])'
  BY <1>1, RetainHolder
<1> QED BY <1>2, <1>3, <1>4, ApartKeeps DEF ClaimInv

LEMMA LandClaims ==
  ASSUME ClaimInv, NEW d \in Daemon, Land(d)
  PROVE  ClaimInv'
<1> USE DEF ClaimInv
<1>1. /\ out[d] # <<>> /\ Retain(d, Head(out[d])) /\ Acked(d, Head(out[d])) /\ ClientTypes
      /\ UNCHANGED <<mode, link>>
      /\ out' = [out EXCEPT ![d] = Tail(@)]
      /\ Queued(d) /\ Calling(d) /\ Held(d)
  BY DEF Land
<1>2. PICK m : m = Head(out[d])
  OBVIOUS
<1>3. /\ m \in Message /\ 1 \in DOMAIN out[d] /\ m = out[d][1]
      /\ m.kind = "claim" => m \in Claiming /\ Decided(d, m)
      /\ m.kind = "online" => mode[d] \in {"connecting", "disabled"}
  BY <1>1, <1>2, LandFacts
<1>4. Keeps
  BY <1>1, RetainKeeps
<1>5. \/ /\ m.kind = "claim" /\ ~m.late /\ call' = [call EXCEPT ![d] = NoCall]
         /\ \/ holds' = holds
            \/ m.by = d /\ holds' = [holds EXCEPT ![d] = @ \cup {m.key}]
      \/ UNCHANGED <<call, holds>> /\ ~(m.kind = "claim" /\ ~m.late)
  BY <1>1, <1>2 DEF Acked, Return
<1>6. ClientTypes'
  <2>1. out' \in [Daemon -> Seq(Message)]
    BY <1>1, Popped DEF ClientTypes
  <2>2. call' \in [Daemon -> Call]
    BY <1>1, <1>5, CallFacts DEF ClientTypes
  <2>3. holds' \in [Daemon -> SUBSET Key]
    <3>1. m.kind = "claim" => m.key \in Key
      BY <1>3, KindFacts
    <3>2. CASE UNCHANGED holds
      BY <1>1, <3>2 DEF ClientTypes
    <3>3. CASE m.key \in Key /\ holds' = [holds EXCEPT ![d] = @ \cup {m.key}]
      BY <1>1, <3>3 DEF ClientTypes
    <3> QED BY <1>5, <3>1, <3>2, <3>3
  <2> QED BY <1>1, <2>1, <2>2, <2>3, RetainKeeps DEF ClientTypes
<1>7. \A e \in Daemon \ {d} : Apart(e)
  BY <1>1, <1>5, Popped DEF Apart, ClientTypes
<1>8. ASSUME NEW i \in DOMAIN out'[d], NEW n, n = out'[d][i]
      PROVE  /\ n \in Message /\ i \in Nat /\ i + 1 \in DOMAIN out[d] /\ n = out[d][i + 1]
             /\ n.kind = "claim" => n \in Claiming /\ Decided(d, n)
             /\ n.kind = "online" => mode[d] \in {"connecting", "disabled"}
  <2>1. n \in Message /\ i \in Nat /\ i + 1 \in DOMAIN out[d] /\ n = out[d][i + 1]
    BY <1>1, <1>6, <1>8, Popped DEF ClientTypes
  <2> QED BY <1>1, <2>1, KindFacts DEF Queued
<1>9. Queued(d)' /\ Calling(d)' /\ Held(d)'
  <2>1. CASE UNCHANGED <<call, holds>>
    <3>1. Calling(d)' /\ Held(d)'
      <4>1. call[d].at = "presence" => call[d].seen \in Daemon
        BY <1>1, CallFacts
      <4> QED BY <1>1, <1>4, <2>1, <4>1 DEF Calling, Held, Keeps
    <3>2. ASSUME NEW i \in DOMAIN out'[d], NEW n, n = out'[d][i]
          PROVE  /\ n.kind = "claim" => Decided(d, n)'
                 /\ n.kind = "claim" /\ ~n.late =>
                      /\ call[d].at = "wait"
                      /\ \A j \in DOMAIN out'[d] : out'[d][j].kind = "claim" => j <= i
      <4>1. n.kind = "claim" => Decided(d, n)'
        BY <1>1, <1>4, <1>8, <2>1, <3>2, DecidedKeeps
      <4>2. CASE n.kind = "claim" /\ ~n.late
        <5>1. \A j \in DOMAIN out[d] : out[d][j].kind = "claim" => j <= i + 1
          BY <1>1, <1>8, <3>2, <4>2 DEF Queued
        <5>2. \A j \in DOMAIN out'[d] : j \in Nat /\ (out'[d][j].kind = "claim" => j + 1 <= i + 1)
          BY <1>8, <5>1
        <5> QED BY <1>1, <1>8, <3>2, <4>1, <4>2, <5>2 DEF Queued
      <4> QED BY <4>1, <4>2
    <3> QED BY <1>1, <1>8, <2>1, <3>1, <3>2 DEF Queued
  <2>2. CASE m.kind = "claim" /\ ~m.late /\ call' = [call EXCEPT ![d] = NoCall]
    <3>1. \A j \in DOMAIN out[d] : out[d][j].kind = "claim" => j <= 1
      BY <1>1, <1>3, <2>2 DEF Queued
    <3>2. mode[d] = "enabled"
      BY <1>3, <2>2 DEF Decided
    <3>3. \A i \in DOMAIN out'[d] : out'[d][i].kind \notin {"claim", "online"}
      <4>1. ASSUME NEW i \in DOMAIN out'[d], NEW n, n = out'[d][i]
            PROVE  n.kind \notin {"claim", "online"}
        <5>1. i + 1 \in DOMAIN out[d] /\ n = out[d][i + 1] /\ i >= 1 /\ i \in Nat
          BY <1>1, <1>6, <1>8, <4>1 DEF ClientTypes
        <5> QED BY <1>8, <3>1, <3>2, <4>1, <5>1
      <4> QED BY <4>1
    <3>4. Queued(d)'
      BY <3>3 DEF Queued
    <3>5. call'[d] = NoCall /\ mode'[d] = "enabled"
      BY <1>1, <2>2, <3>2 DEF ClientTypes
    <3> QED BY <3>4, <3>5 DEF Calling, Held, NoCall
  <2> QED BY <1>5, <2>1, <2>2
<1>10. HolderNamed' /\ \A k \in Key : Passed(claim[k])'
  BY <1>1, RetainHolder
<1> QED BY <1>6, <1>7, <1>9, <1>10, <1>4, ApartKeeps

-----------------------------------------------------------------------------
LEMMA NextClaims == ClaimInv /\ [Next]_vars => ClaimInv'
<1> SUFFICES ASSUME ClaimInv, [Next]_vars PROVE ClaimInv'
  OBVIOUS
<1>1. ASSUME UNCHANGED <<mode, link, out, presence, claim, call, holds, raced>>
      PROVE  ClaimInv'
  <2>1. Keeps /\ \A e \in Daemon : Apart(e)
    BY <1>1 DEF Keeps, Apart, Passed
  <2>2. ClientTypes'
    BY <1>1 DEF ClaimInv, ClientTypes
  <2> QED BY <1>1, <2>1, <2>2, ApartKeeps, NamedKeeps DEF ClaimInv
<1>2. CASE UNCHANGED vars
  BY <1>1, <1>2 DEF vars
<1>3. ASSUME NEW d \in Daemon,
             \/ Start(d) \/ Serve(d) \/ Claims(d) \/ Network(d) \/ SessionEnds(d) \/ Ends(d)
             \/ Deliver(d) \/ DeliverUnacked(d) \/ Handle(d) \/ Inject(d)
      PROVE  ClaimInv'
  <2>1. CASE Start(d)
    BY <2>1, ConnectClaims DEF Start
  <2>2. CASE Serve(d)
    BY <2>2, ModeClaims DEF Serve
  <2>3. CASE Claims(d)
    <3>1. CASE \E k \in Claimed : Claim(d, k) \/ Release(d, k)
      BY <3>1, ClaimClaims, ReleaseClaims, BridgeAssumption
    <3>2. CASE \E slow \in BOOLEAN : LookUp(d, slow) \/ Presence(d, slow)
      BY <3>2, LookUpClaims, PresenceClaims
    <3>3. CASE CallTimesOut(d)
      BY <3>3, CallTimesOutClaims
    <3> QED BY <2>3, <3>1, <3>2, <3>3 DEF Claims
  <2>4. CASE Network(d)
    BY <2>4, LinkClaims, ModeClaims DEF Network
  <2>5. CASE SessionEnds(d)
    BY <2>5, LinkClaims DEF SessionEnds
  <2>6. CASE Ends(d)
    BY <2>6, EndsClaims DEF Ends, Gone
  <2>7. CASE Deliver(d)
    BY <2>7, LandClaims DEF Deliver
  <2>8. CASE DeliverUnacked(d)
    BY <2>8, LandUnackedClaims DEF DeliverUnacked
  <2>9. CASE Handle(d) \/ Inject(d)
    BY <1>1, <2>9 DEF Handle, Inject, clientVars
  <2> QED BY <1>3, <2>1, <2>2, <2>3, <2>4, <2>5, <2>6, <2>7, <2>8, <2>9
<1>4. ASSUME NEW d \in Daemon, NEW k \in Key,
             Stop(d, k) \/ \E p \in Proc : Run(d, k, p)
      PROVE  ClaimInv'
  BY <1>1, <1>4 DEF Stop, Run, clientVars
<1>5. ASSUME NEW d \in Daemon, NEW k \in Key, NEW p \in Proc, NEW m \in Msg, Send(d, p, k, m)
      PROVE  ClaimInv'
  <2>1. /\ Publish(d, [kind |-> "inbox", msg |-> m]) \/ UNCHANGED out
        /\ UNCHANGED <<mode, link, presence, claim, call, holds, raced>>
    BY <1>5 DEF Send
  <2> QED BY <2>1, InboxClaims
<1> QED BY <1>2, <1>3, <1>4, <1>5 DEF Next

(* claims.go 67-82, for any number of murods, keys, crashes and lost links: whom
   ClaimSandbox told that a name is its own is the one the retained claim names
   as long as its presence says "online", unless the claim was replaced in a
   race.  ClaimInv adds what the publishes on their way were decided on. *)
THEOREM HolderIsNamed == Spec => []HolderNamed
<1>1. Init => ClaimInv
  BY InitClaims
<1>2. ClaimInv /\ [Next]_vars => ClaimInv'
  BY NextClaims
<1>3. ClaimInv => HolderNamed
  BY DEF ClaimInv
<1> QED BY <1>1, <1>2, <1>3, PTL DEF Spec

-----------------------------------------------------------------------------
LEMMA InitMail == Init => MailInv
<1> SUFFICES ASSUME Init PROVE MailInv
  OBVIOUS
<1>1. MailTypes
  <2>1. record \in [Host -> [Key -> Proc \cup {NoProc}]] /\ sockets \in [Daemon -> SUBSET Proc]
        /\ heard \in [Proc -> SUBSET Msg]
    BY DEF Init
  <2>2. box \in [Proc -> Box]
    BY DEF Init, Unborn, Box
  <2>3. post \in [Msg -> [st: {"unsent", "flying", "ok", "refused"},
                          from: Proc \cup {NoProc}, to: Key \cup {""}]]
    BY DEF Init, Unsent
  <2>4. arriving \in [Daemon -> Seq(Msg)]
    <3>1. <<>> \in Seq(Msg)
      OBVIOUS
    <3> QED BY <3>1 DEF Init
  <2>5. dialing \in [Daemon -> {NoDial} \cup [msg: Msg, to: Proc]]
    BY DEF Init
  <2> QED BY <2>1, <2>2, <2>3, <2>4, <2>5 DEF MailTypes
<1>2. \A m \in Msg : post[m].st = "unsent"
  BY DEF Init, Unsent
<1>3. \A d \in Daemon : out[d] = <<>> /\ arriving[d] = <<>> /\ dialing[d] = NoDial /\ sockets[d] = {}
  BY DEF Init, PubSubInit
<1>4. \A h \in Host, k \in Key : record[h][k] = NoProc
  BY DEF Init
<1>5. \A p \in Proc : heard[p] = {}
  BY DEF Init
<1>6. Outgoing /\ Incoming
  BY <1>3, NothingQueued DEF Outgoing, Incoming
<1>7. Recorded /\ Served /\ LetThrough /\ Dialled /\ Told
  BY <1>2, <1>3, <1>4, <1>5 DEF Recorded, Served, LetThrough, Dialled, Told
<1> QED BY <1>1, <1>6, <1>7 DEF MailInv

(* Whose a sandbox is and what was let through stay as they are. *)
MailKeeps ==
  /\ \A p \in Proc : Born(p) => box'[p].key = box[p].key
  /\ \A m \in Msg : post[m].st \in {"flying", "ok"} =>
       /\ post'[m].from = post[m].from /\ post'[m].to = post[m].to
       /\ post'[m].st \in {"flying", "ok"}

LEMMA SentKeeps ==
  ASSUME MailKeeps, NEW m \in Msg, Sent(m)
  PROVE  Sent(m)' /\ post'[m].to = post[m].to
  BY DEF MailKeeps, Sent, Born

LEMMA BornKeeps ==
  ASSUME MailKeeps, NEW p \in Proc, Born(p)
  PROVE  Born(p)' /\ box'[p].key = box[p].key
  BY DEF MailKeeps, Born

(* No message is published but those that were on their way. *)
OutFrom == \A d \in Daemon : \A i \in DOMAIN out'[d] : out'[d][i].kind = "inbox" =>
             \E j \in DOMAIN out[d] : out[d][j] = out'[d][i]

LEMMA MailFrame ==
  ASSUME ClientTypes, MailInv, MailKeeps
  PROVE  /\ UNCHANGED record => Recorded'
         /\ (\A d \in Daemon : sockets'[d] \subseteq sockets[d]) => Served'
         /\ UNCHANGED post => LetThrough'
         /\ OutFrom => Outgoing'
         /\ UNCHANGED arriving => Incoming'
         /\ UNCHANGED dialing => Dialled'
         /\ UNCHANGED heard => Told'
<1>1. ASSUME UNCHANGED record PROVE Recorded'
  <2>1. ASSUME NEW h \in Host, NEW k \in Key, NEW p, p = record'[h][k], p # NoProc
        PROVE  box'[p].key = k
    <3>1. p \in Proc /\ box[p].key = k /\ Born(p)
      <4>1. p = record[h][k] /\ record \in [Host -> [Key -> Proc \cup {NoProc}]]
        BY <1>1, <2>1 DEF MailInv, MailTypes
      <4>2. p \in Proc /\ box[p].key = k
        BY <2>1, <4>1 DEF MailInv, Recorded
      <4> QED BY <4>2 DEF Born
    <3> QED BY <3>1, BornKeeps
  <2> QED BY <2>1 DEF Recorded
<1>2. ASSUME \A d \in Daemon : sockets'[d] \subseteq sockets[d] PROVE Served'
  <2>1. ASSUME NEW d \in Daemon, NEW p \in sockets'[d]
        PROVE  Born(p)'
    <3>1. p \in Proc /\ Born(p)
      BY <1>2 DEF MailInv, MailTypes, Served
    <3> QED BY <3>1, BornKeeps
  <2> QED BY <2>1 DEF Served
<1>3. ASSUME UNCHANGED post PROVE LetThrough'
  BY <1>3, SentKeeps DEF MailInv, LetThrough
<1>4. ASSUME OutFrom PROVE Outgoing'
  <2>1. ASSUME NEW d \in Daemon, NEW i \in DOMAIN out'[d], NEW m, NEW n,
               n = out'[d][i], n.kind = "inbox", m = n.msg
        PROVE  Sent(m)'
    <3>1. PICK j \in DOMAIN out[d] : out[d][j] = n
      BY <1>4, <2>1 DEF OutFrom
    <3>2. m \in Msg /\ Sent(m)
      <4>1. n \in Message
        BY <3>1 DEF ClientTypes
      <4> QED BY <2>1, <3>1, <4>1, KindFacts DEF MailInv, Outgoing
    <3> QED BY <3>2, SentKeeps
  <2> QED BY <2>1 DEF Outgoing
<1>5. ASSUME UNCHANGED arriving PROVE Incoming'
  <2>1. ASSUME NEW d \in Daemon, NEW i \in DOMAIN arriving'[d], NEW m, m = arriving'[d][i]
        PROVE  Sent(m)'
    <3>1. m \in Msg /\ Sent(m)
      <4>1. m = arriving[d][i] /\ i \in DOMAIN arriving[d] /\ arriving[d] \in Seq(Msg)
        BY <1>5, <2>1 DEF MailInv, MailTypes
      <4>2. m \in Msg
        BY <4>1
      <4> QED BY <4>1, <4>2 DEF MailInv, Incoming
    <3> QED BY <3>1, SentKeeps
  <2> QED BY <2>1 DEF Incoming
<1>6. ASSUME UNCHANGED dialing PROVE Dialled'
  <2>1. ASSUME NEW d \in Daemon, NEW c, c = dialing'[d], c # NoDial, NEW m, NEW p, m = c.msg, p = c.to
        PROVE  Sent(m)' /\ box'[p].key = post'[m].to
    <3>1. m \in Msg /\ p \in Proc /\ Sent(m) /\ box[p].key = post[m].to
      BY <1>6, <2>1 DEF MailInv, MailTypes, Dialled
    <3>2. Born(p)
      BY <3>1 DEF MailInv, MailTypes, Sent, Born
    <3> QED BY <3>1, <3>2, SentKeeps, BornKeeps
  <2> QED BY <2>1 DEF Dialled
<1>7. ASSUME UNCHANGED heard PROVE Told'
  <2>1. ASSUME NEW p \in Proc, NEW m \in heard'[p]
        PROVE  Sent(m)' /\ box'[p].key = post'[m].to
    <3>1. m \in Msg /\ Sent(m) /\ box[p].key = post[m].to
      BY <1>7, <2>1 DEF MailInv, MailTypes, Told
    <3>2. Born(p)
      BY <3>1 DEF MailInv, MailTypes, Sent, Born
    <3> QED BY <3>1, <3>2, SentKeeps, BornKeeps
  <2> QED BY <2>1 DEF Told
<1> QED BY <1>1, <1>2, <1>3, <1>4, <1>5, <1>6, <1>7

LEMMA StaysFrom == UNCHANGED out => OutFrom
  BY DEF OutFrom

LEMMA AppendedFrom ==
  ASSUME NEW M, NEW s \in Seq(M), NEW m
  PROVE  \A i \in DOMAIN Append(s, m) : \/ Append(s, m)[i] = m
                                        \/ i \in DOMAIN s /\ s[i] = Append(s, m)[i]
<1> DEFINE N == M \cup {m}
<1>1. Len(s) \in Nat /\ s \in [1..Len(s) -> N]
  OBVIOUS
<1>2. s \in Seq(N) /\ m \in N
  BY <1>1
<1> HIDE DEF N
<1>3. /\ DOMAIN Append(s, m) = DOMAIN s \cup {Len(s) + 1}
      /\ \A i \in DOMAIN s : Append(s, m)[i] = s[i]
      /\ Append(s, m)[Len(s) + 1] = m
  BY <1>2, Appended
<1> QED BY <1>3

LEMMA PublishFrom ==
  ASSUME ClientTypes, NEW d \in Daemon, NEW m, m.kind # "inbox", Publish(d, m)
  PROVE  OutFrom
<1>1. out[d] \in Seq(Message)
  BY DEF ClientTypes
<1>2. out'[d] = Append(out[d], m) /\ \A e \in Daemon \ {d} : out'[e] = out[e]
  BY DEF ClientTypes, Publish
<1>3. \A i \in DOMAIN out'[d] : \/ out'[d][i] = m
                                \/ i \in DOMAIN out[d] /\ out[d][i] = out'[d][i]
  <2>1. \A i \in DOMAIN Append(out[d], m) :
          \/ Append(out[d], m)[i] = m
          \/ i \in DOMAIN out[d] /\ out[d][i] = Append(out[d], m)[i]
    BY <1>1, AppendedFrom
  <2> QED BY <1>2, <2>1
<1> QED BY <1>2, <1>3 DEF OutFrom

LEMMA ClientFrom ==
  ASSUME ClientTypes, NEW d \in Daemon,
         \/ Connect(d) \/ Forget(d) \/ CallTimesOut(d) \/ Land(d)
         \/ \E k \in Key : Claim(d, k) \/ Release(d, k)
         \/ \E slow \in BOOLEAN : LookUp(d, slow) \/ Presence(d, slow)
  PROVE  OutFrom
<1>1. CASE UNCHANGED out
  BY <1>1, StaysFrom
<1>2. CASE Publish(d, Online)
  BY <1>2, PublishFrom DEF Online
<1>3. ASSUME NEW by, NEW k, NEW seen, Publish(d, ClaimBy(by, k, seen))
      PROVE  OutFrom
  <2>1. ClaimBy(by, k, seen).kind # "inbox"
    BY DEF ClaimBy
  <2> QED BY <1>3, <2>1, PublishFrom
<1>4. CASE Forget(d)
  BY <1>4, NothingQueued DEF Forget, OutFrom, ClientTypes
<1>5. CASE Land(d)
  <2>1. /\ \A e \in Daemon \ {d} : out'[e] = out[e]
        /\ \A i \in DOMAIN out'[d] : i + 1 \in DOMAIN out[d] /\ out'[d][i] = out[d][i + 1]
    BY <1>5, Popped DEF Land, ClientTypes
  <2> QED BY <2>1 DEF OutFrom
<1>6. CASE CallTimesOut(d)
  <2>1. /\ \A e \in Daemon \ {d} : out'[e] = out[e]
        /\ DOMAIN out'[d] = DOMAIN out[d]
        /\ \A i \in DOMAIN out[d] : out'[d][i] = IF out[d][i].kind = "claim"
                                                THEN [out[d][i] EXCEPT !.late = TRUE]
                                                ELSE out[d][i]
    BY <1>6 DEF CallTimesOut, ClientTypes
  <2>2. ASSUME NEW i \in DOMAIN out[d], NEW m, m = out[d][i], m.kind = "claim"
        PROVE  out'[d][i].kind # "inbox"
    <3>1. m \in Claiming /\ out'[d][i] = [m EXCEPT !.late = TRUE]
      <4>1. m \in Message
        BY <2>2 DEF ClientTypes
      <4> QED BY <2>1, <2>2, <4>1, KindFacts
    <3> QED BY <3>1 DEF Claiming
  <2> QED BY <2>1, <2>2 DEF OutFrom
<1>7. CASE Connect(d)
  BY <1>1, <1>2, <1>7 DEF Connect
<1>8. ASSUME NEW k \in Key, Claim(d, k) \/ Release(d, k)
      PROVE  OutFrom
  BY <1>1, <1>3, <1>8 DEF Claim, Release
<1>9. ASSUME NEW slow \in BOOLEAN, LookUp(d, slow) \/ Presence(d, slow)
      PROVE  OutFrom
  BY <1>1, <1>3, <1>9 DEF LookUp, Presence, Decide
<1> QED BY <1>4, <1>5, <1>6, <1>7, <1>8, <1>9

(* The steps of the claims and of the network leave the agents' mail alone. *)
LEMMA ClientMail ==
  ASSUME ClientTypes, MailInv, OutFrom, UNCHANGED <<boxVars, sockets, mailVars>>
  PROVE  MailInv'
<1>1. MailKeeps /\ MailTypes'
  BY DEF MailKeeps, MailInv, MailTypes, boxVars, mailVars
<1> QED BY <1>1, MailFrame DEF MailInv, boxVars, mailVars

LEMMA ServeMail ==
  ASSUME ClientTypes, MailInv, NEW d \in Daemon, Serve(d)
  PROVE  MailInv'
<1> PICK h \in Host : h = HostOf[d]
  BY BridgeAssumption
<1> DEFINE served == {record[h][k] : k \in Live(h)}
<1>1. /\ UNCHANGED <<out, boxVars, mailVars>>
      /\ sockets' = [sockets EXCEPT ![d] = served]
      /\ record[h] \in [Key -> Proc \cup {NoProc}]
  BY DEF Serve, MailInv, MailTypes
<1>2. \A p \in served : Born(p)
  <2>1. ASSUME NEW k \in Live(h) PROVE Born(record[h][k])
    <3>1. k \in Key /\ record[h][k] # NoProc /\ record[h][k] \in Proc
      BY <1>1 DEF Live
    <3> QED BY <1>1, <3>1 DEF MailInv, Recorded, Born
  <2> QED BY <2>1
<1>3. MailKeeps
  BY <1>1 DEF MailKeeps, boxVars, mailVars
<1>4. MailTypes'
  <2>1. served \subseteq Proc
    BY <1>2 DEF Born
  <2>2. sockets' \in [Daemon -> SUBSET Proc]
    BY <1>1, <2>1 DEF MailInv, MailTypes
  <2> QED BY <1>1, <2>2 DEF MailInv, MailTypes, boxVars, mailVars
<1>5. Served'
  <2>1. ASSUME NEW e \in Daemon, NEW p \in sockets'[e] PROVE Born(p)
    <3>1. CASE e = d
      BY <1>1, <1>2, <2>1, <3>1 DEF MailInv, MailTypes
    <3>2. CASE e # d
      BY <1>1, <2>1, <3>2 DEF MailInv, MailTypes, Served
    <3> QED BY <3>1, <3>2
  <2>2. \A p \in Proc : Born(p) => Born(p)'
    BY <1>3, BornKeeps
  <2> QED BY <2>1, <2>2 DEF Served, Born
<1> QED BY <1>1, <1>3, <1>4, <1>5, MailFrame, StaysFrom DEF MailInv, boxVars, mailVars

LEMMA RunMail ==
  ASSUME ClientTypes, MailInv, NEW d \in Daemon, NEW k \in Key, NEW p \in Proc, Run(d, k, p)
  PROVE  MailInv'
<1> PICK h \in Host : h = HostOf[d]
  BY BridgeAssumption
<1>1. /\ UNCHANGED <<out, mailVars>> /\ MailTypes
      /\ box[p] = Unborn
      /\ box' = [box EXCEPT ![p] = [key |-> k, host |-> h, alive |-> TRUE]]
      /\ record' = [record EXCEPT ![h][k] = p]
      /\ sockets' = [sockets EXCEPT ![d] = @ \cup {p}] \/ UNCHANGED sockets
  BY DEF Run, MailInv
<1>2. ~Born(p) /\ box'[p].key = k /\ \A q \in Proc \ {p} : box'[q] = box[q]
  <2>1. Unborn.key = ""
    BY DEF Unborn
  <2> QED BY <1>1, <2>1, BridgeAssumption DEF Born, MailTypes
<1>3. MailKeeps
  BY <1>1, <1>2 DEF MailKeeps, mailVars
<1>4. MailTypes'
  <2>1. [key |-> k, host |-> h, alive |-> TRUE] \in Box
    BY <1>1 DEF Box
  <2>2. box' \in [Proc -> Box]
    BY <1>1, <2>1 DEF MailTypes
  <2>3. record' \in [Host -> [Key -> Proc \cup {NoProc}]]
    BY <1>1 DEF MailTypes
  <2>4. sockets' \in [Daemon -> SUBSET Proc]
    <3>1. CASE UNCHANGED sockets
      BY <1>1, <3>1 DEF MailTypes
    <3>2. CASE sockets' = [sockets EXCEPT ![d] = @ \cup {p}]
      BY <1>1, <3>2 DEF MailTypes
    <3> QED BY <1>1, <3>1, <3>2
  <2> QED BY <1>1, <2>2, <2>3, <2>4 DEF MailTypes, mailVars
<1>5. Born(p)'
  BY <1>2 DEF Born
<1>6. Served'
  <2>1. ASSUME NEW e \in Daemon, NEW q \in sockets'[e] PROVE Born(q)'
    <3>1. q = p \/ q \in sockets[e]
      BY <1>1, <2>1 DEF MailTypes
    <3>2. q \in sockets[e] => q \in Proc /\ Born(q)
      BY <1>1 DEF MailInv, MailTypes, Served
    <3> QED BY <1>3, <1>5, <3>1, <3>2, BornKeeps
  <2> QED BY <2>1 DEF Served
<1>7. Recorded'
  <2>1. ASSUME NEW g \in Host, NEW j \in Key, NEW q, q = record'[g][j], q # NoProc
        PROVE  box'[q].key = j
    <3>1. CASE g = h /\ j = k
      <4>1. q = p
        BY <1>1, <2>1, <3>1 DEF MailTypes
      <4> QED BY <1>2, <3>1, <4>1
    <3>2. CASE ~(g = h /\ j = k)
      <4>1. q = record[g][j]
        BY <1>1, <2>1, <3>2 DEF MailTypes
      <4>2. q \in Proc /\ box[q].key = j
        <5>1. record[g] \in [Key -> Proc \cup {NoProc}]
          BY <1>1 DEF MailTypes
        <5>2. q \in Proc
          BY <2>1, <4>1, <5>1
        <5> QED BY <2>1, <4>1, <5>2 DEF MailInv, Recorded
      <4>3. q # p
        BY <1>2, <4>2 DEF Born
      <4> QED BY <1>2, <4>2, <4>3
    <3> QED BY <3>1, <3>2
  <2> QED BY <2>1 DEF Recorded
<1> QED BY <1>1, <1>3, <1>4, <1>6, <1>7, MailFrame, StaysFrom DEF MailInv, mailVars

LEMMA StopMail ==
  ASSUME ClientTypes, MailInv, NEW d \in Daemon, NEW k \in Key, Stop(d, k)
  PROVE  MailInv'
<1> PICK h \in Host : h = HostOf[d]
  BY BridgeAssumption
<1> PICK p : p = record[h][k]
  OBVIOUS
<1>1. /\ UNCHANGED <<clientVars, mailVars>> /\ MailTypes
      /\ k \in Live(h) /\ p \in Proc
      /\ box' = [box EXCEPT ![p].alive = FALSE]
      /\ sockets' = [sockets EXCEPT ![d] = @ \ {p}]
      /\ record' = [record EXCEPT ![h][k] = NoProc] \/ UNCHANGED record
  <2>1. record[h] \in [Key -> Proc \cup {NoProc}] /\ MailTypes
    BY DEF MailInv, MailTypes
  <2>2. k \in Live(h)
    BY DEF Stop
  <2>3. p \in Proc
    BY <2>1, <2>2 DEF Live
  <2> QED BY <2>1, <2>2, <2>3 DEF Stop
<1>2. box' \in [Proc -> Box] /\ \A q \in Proc : box'[q].key = box[q].key
  <2>1. \A b \in Box : [b EXCEPT !.alive = FALSE] \in Box /\ [b EXCEPT !.alive = FALSE].key = b.key
    BY DEF Box
  <2>2. box \in [Proc -> Box] /\ box' = [box EXCEPT ![p] = [@ EXCEPT !.alive = FALSE]]
    BY <1>1 DEF MailTypes
  <2> QED BY <1>1, <2>1, <2>2
<1>3. MailKeeps
  BY <1>1, <1>2 DEF MailKeeps, mailVars
<1>4. MailTypes'
  <2>1. box' \in [Proc -> Box]
    BY <1>2
  <2>2. record' \in [Host -> [Key -> Proc \cup {NoProc}]]
    <3>1. CASE UNCHANGED record
      BY <1>1, <3>1 DEF MailTypes
    <3>2. CASE record' = [record EXCEPT ![h][k] = NoProc]
      BY <1>1, <3>2 DEF MailTypes
    <3> QED BY <1>1, <3>1, <3>2
  <2>3. sockets' \in [Daemon -> SUBSET Proc]
    BY <1>1 DEF MailTypes
  <2> QED BY <1>1, <2>1, <2>2, <2>3 DEF MailTypes, mailVars
<1>5. Recorded'
  <2>1. ASSUME NEW g \in Host, NEW j \in Key, NEW q, q = record'[g][j], q # NoProc
        PROVE  box'[q].key = j
    <3>1. q = record[g][j] /\ q \in Proc
      <4>1. record[g] \in [Key -> Proc \cup {NoProc}]
        BY <1>1 DEF MailTypes
      <4>2. q = record[g][j]
        <5>1. CASE UNCHANGED record
          BY <2>1, <5>1
        <5>2. CASE record' = [record EXCEPT ![h][k] = NoProc]
          BY <1>1, <2>1, <5>2 DEF MailTypes
        <5> QED BY <1>1, <5>1, <5>2
      <4> QED BY <2>1, <4>1, <4>2
    <3> QED BY <1>2, <2>1, <3>1 DEF MailInv, Recorded
  <2> QED BY <2>1 DEF Recorded
<1>6. \A e \in Daemon : sockets'[e] \subseteq sockets[e]
  BY <1>1 DEF MailTypes
<1> QED BY <1>1, <1>3, <1>4, <1>5, <1>6, MailFrame, StaysFrom DEF MailInv, mailVars, clientVars

(* Every sender is of the namespace it writes to. *)
LEMMA SendMail ==
  ASSUME ClientTypes, MailInv, NEW d \in Daemon, NEW p \in Proc, NEW k \in Key, NEW m \in Msg,
         Send(d, p, k, m)
  PROVE  MailInv'
<1> PICK st \in {"flying", "refused"} :
      /\ post' = [post EXCEPT ![m] = [st |-> st, from |-> p, to |-> k]]
      /\ st = "flying" => /\ MayWrite(p, k)
                          /\ Publish(d, [kind |-> "inbox", msg |-> m])
      /\ st = "refused" => UNCHANGED out
  BY DEF Send
<1>1. /\ UNCHANGED <<boxVars, bridgeVars, arriving, dialing, heard>> /\ MailTypes
      /\ post[m] = Unsent /\ p \in sockets[d]
  BY DEF Send, MailInv
<1>2. Unsent.st = "unsent"
  BY DEF Unsent
<1>3. post'[m] = [st |-> st, from |-> p, to |-> k] /\ \A n \in Msg \ {m} : post'[n] = post[n]
  BY <1>1 DEF MailTypes
<1>4. MailKeeps
  BY <1>1, <1>2, <1>3 DEF MailKeeps, boxVars
<1>5. MailTypes'
  BY <1>1 DEF MailTypes, boxVars, bridgeVars
<1>6. st = "flying" => Sent(m)'
  <2>1. Born(p)
    BY <1>1 DEF MailInv, Served
  <2> QED BY <1>1, <1>3, <2>1 DEF Sent, Born, MayWrite, boxVars
<1>7. LetThrough'
  <2>1. ASSUME NEW n \in Msg, post'[n].st \in {"flying", "ok"} PROVE Sent(n)'
    <3>1. CASE n = m
      BY <1>3, <1>6, <2>1, <3>1
    <3>2. CASE n # m
      <4>1. Sent(n)
        BY <1>3, <2>1, <3>2 DEF MailInv, LetThrough
      <4> QED BY <1>4, <4>1, SentKeeps
    <3> QED BY <3>1, <3>2
  <2> QED BY <2>1 DEF LetThrough
<1>8. Outgoing'
  <2>1. CASE st = "refused"
    BY <1>1, <1>4, <2>1, MailFrame, StaysFrom
  <2>2. CASE st = "flying"
    <3>1. PICK note \in Message : note = [kind |-> "inbox", msg |-> m] /\ note.msg = m
      BY DEF Message, Inboxed
    <3>2. /\ \A e \in Daemon \ {d} : out'[e] = out[e]
          /\ \A i \in DOMAIN out'[d] : \/ out'[d][i] = note
                                       \/ i \in DOMAIN out[d] /\ out'[d][i] = out[d][i]
      <4>1. Publish(d, note) /\ out \in [Daemon -> Seq(Message)]
        BY <2>2, <3>1 DEF ClientTypes
      <4>2. out'[d] = Append(out[d], note) /\ \A e \in Daemon \ {d} : out'[e] = out[e]
        BY <4>1 DEF Publish
      <4>3. \A i \in DOMAIN Append(out[d], note) :
              \/ Append(out[d], note)[i] = note
              \/ i \in DOMAIN out[d] /\ out[d][i] = Append(out[d], note)[i]
        BY <4>1, AppendedFrom
      <4> QED BY <4>2, <4>3
    <3>3. ASSUME NEW e \in Daemon, NEW i \in DOMAIN out'[e], NEW n, NEW o,
                 n = out'[e][i], n.kind = "inbox", o = n.msg
          PROVE  Sent(o)'
      <4>1. CASE n = note
        BY <1>6, <2>2, <3>1, <3>3, <4>1
      <4>2. CASE i \in DOMAIN out[e] /\ n = out[e][i]
        <5>1. n \in Message
          BY <4>2 DEF ClientTypes
        <5>2. o \in Msg /\ Sent(o)
          BY <3>3, <4>2, <5>1, KindFacts DEF MailInv, Outgoing
        <5> QED BY <1>4, <5>2, SentKeeps
      <4> QED BY <3>2, <3>3, <4>1, <4>2
    <3> QED BY <3>3 DEF Outgoing
  <2> QED BY <2>1, <2>2
<1> QED BY <1>1, <1>4, <1>5, <1>7, <1>8, MailFrame DEF MailInv, boxVars, bridgeVars

(* The broker spreads the oldest publish of d. *)
LEMMA SpreadMail ==
  ASSUME ClientTypes, MailInv, NEW d \in Daemon, out[d] # <<>>, Spread(d), OutFrom,
         UNCHANGED <<boxVars, bridgeVars, dialing, heard>>,
         \/ UNCHANGED post
         \/ /\ Head(out[d]).kind = "inbox"
            /\ post' = [post EXCEPT ![Head(out[d]).msg].st = "ok"]
  PROVE  MailInv'
<1>1. PICK head : head = Head(out[d])
  OBVIOUS
<1>2. head \in Message /\ 1 \in DOMAIN out[d] /\ head = out[d][1] /\ MailTypes
  BY <1>1, Tailed DEF ClientTypes, MailInv
<1>3. head.kind = "inbox" => head.msg \in Msg /\ Sent(head.msg)
  BY <1>2, KindFacts DEF MailInv, Outgoing
<1>4. \/ UNCHANGED post
      \/ head.kind = "inbox" /\ post' = [post EXCEPT ![head.msg] = [@ EXCEPT !.st = "ok"]]
  BY <1>1
<1>5. /\ post' \in [Msg -> [st: {"unsent", "flying", "ok", "refused"},
                            from: Proc \cup {NoProc}, to: Key \cup {""}]]
      /\ \A n \in Msg : /\ post'[n].from = post[n].from /\ post'[n].to = post[n].to
                        /\ post'[n].st = post[n].st \/ (post'[n].st = "ok" /\ Sent(n))
  <2>1. CASE UNCHANGED post
    BY <1>2, <2>1 DEF MailTypes
  <2>2. CASE head.kind = "inbox" /\ post' = [post EXCEPT ![head.msg] = [@ EXCEPT !.st = "ok"]]
    <3> DEFINE Post == [st: {"unsent", "flying", "ok", "refused"},
                       from: Proc \cup {NoProc}, to: Key \cup {""}]
    <3>1. \A r \in Post : LET s == [r EXCEPT !.st = "ok"]
                         IN  s \in Post /\ s.st = "ok" /\ s.from = r.from /\ s.to = r.to
      OBVIOUS
    <3>2. post \in [Msg -> Post]
      BY <1>2 DEF MailTypes
    <3> HIDE DEF Post
    <3>3. /\ post' \in [Msg -> Post]
          /\ \A n \in Msg : /\ post'[n].from = post[n].from /\ post'[n].to = post[n].to
                            /\ post'[n].st = post[n].st \/ (post'[n].st = "ok" /\ Sent(n))
      BY <1>3, <2>2, <3>1, <3>2
    <3> QED BY <3>3 DEF Post
  <2> QED BY <1>4, <2>1, <2>2
<1>6. MailKeeps
  BY <1>5 DEF MailKeeps, boxVars
<1>7. /\ arriving' \in [Daemon -> Seq(Msg)]
      /\ \A e \in Daemon : \/ arriving'[e] = arriving[e]
                           \/ head.kind = "inbox" /\ arriving'[e] = Append(arriving[e], head.msg)
  <2>1. CASE head.kind # "inbox"
    <3>1. arriving' = arriving
      BY <1>1, <2>1 DEF Spread
    <3> QED BY <1>2, <3>1 DEF MailTypes
  <2>2. CASE head.kind = "inbox"
    <3>1. arriving' = [e \in Daemon |-> IF post[head.msg].to \in subs[e]
                                       THEN Append(arriving[e], head.msg) ELSE arriving[e]]
      BY <1>1, <2>2 DEF Spread
    <3>2. \A e \in Daemon : Append(arriving[e], head.msg) \in Seq(Msg)
      BY <1>2, <1>3, <2>2, Appended DEF MailTypes
    <3>3. arriving \in [Daemon -> Seq(Msg)]
      BY <1>2 DEF MailTypes
    <3>4. arriving' \in [Daemon -> Seq(Msg)]
      BY <3>1, <3>2, <3>3
    <3>5. \A e \in Daemon : \/ arriving'[e] = arriving[e]
                            \/ arriving'[e] = Append(arriving[e], head.msg)
      BY <3>1
    <3> QED BY <2>2, <3>4, <3>5
  <2> QED BY <2>1, <2>2
<1>8. MailTypes'
  BY <1>2, <1>5, <1>7 DEF MailTypes, boxVars, bridgeVars
<1>9. LetThrough'
  <2>1. ASSUME NEW n \in Msg, post'[n].st \in {"flying", "ok"} PROVE Sent(n)'
    BY <1>5, <1>6, <2>1, SentKeeps DEF MailInv, LetThrough
  <2> QED BY <2>1 DEF LetThrough
<1>10. Incoming'
  <2>1. ASSUME NEW e \in Daemon, NEW i \in DOMAIN arriving'[e], NEW n, n = arriving'[e][i]
        PROVE  Sent(n)'
    <3>1. arriving[e] \in Seq(Msg)
      BY <1>2 DEF MailTypes
    <3>2. \/ i \in DOMAIN arriving[e] /\ n = arriving[e][i]
          \/ head.kind = "inbox" /\ n = head.msg
      <4>1. CASE arriving'[e] = arriving[e]
        BY <2>1, <4>1
      <4>2. CASE head.kind = "inbox" /\ arriving'[e] = Append(arriving[e], head.msg)
        BY <2>1, <3>1, <4>2, AppendedFrom
      <4> QED BY <1>7, <4>1, <4>2
    <3>3. n \in Msg /\ Sent(n)
      <4>1. CASE i \in DOMAIN arriving[e] /\ n = arriving[e][i]
        BY <3>1, <4>1 DEF MailInv, Incoming
      <4> QED BY <1>3, <3>2, <4>1
    <3> QED BY <1>6, <3>3, SentKeeps
  <2> QED BY <2>1 DEF Incoming
<1> QED BY <1>6, <1>8, <1>9, <1>10, MailFrame DEF MailInv, boxVars, bridgeVars

(* The subscription's callback takes the oldest that arrived. *)
LEMMA HandleMail ==
  ASSUME ClientTypes, MailInv, NEW d \in Daemon, Handle(d)
  PROVE  MailInv'
<1>1. /\ UNCHANGED <<clientVars, boxVars, bridgeVars, post, heard>> /\ MailTypes
      /\ arriving[d] # <<>> /\ arriving[d] \in Seq(Msg)
      /\ arriving' = [arriving EXCEPT ![d] = Tail(@)]
  BY DEF Handle, MailInv, MailTypes
<1>2. PICK m \in Msg : m = Head(arriving[d]) /\ 1 \in DOMAIN arriving[d] /\ m = arriving[d][1]
  BY <1>1, Tailed
<1>3. PICK h \in Host : h = HostOf[d]
  BY BridgeAssumption
<1>4. PICK p : p = record[h][post[m].to]
  OBVIOUS
<1>5. dialing' = [dialing EXCEPT ![d] = IF p = NoProc THEN NoDial ELSE [msg |-> m, to |-> p]]
  BY <1>2, <1>3, <1>4 DEF Handle, LookedUp
<1>6. Sent(m)
  BY <1>2 DEF MailInv, Incoming
<1>7. p # NoProc => p \in Proc /\ box[p].key = post[m].to
  <2>1. post[m].to \in Key /\ record[h] \in [Key -> Proc \cup {NoProc}]
    BY <1>1, <1>6 DEF Sent, MailTypes
  <2> QED BY <1>4, <2>1 DEF MailInv, Recorded
<1>8. MailKeeps
  BY <1>1 DEF MailKeeps, boxVars
<1>9. MailTypes'
  <2>1. Tail(arriving[d]) \in Seq(Msg)
    BY <1>1, Tailed
  <2>2. arriving' \in [Daemon -> Seq(Msg)]
    BY <1>1, <2>1 DEF MailTypes
  <2>3. dialing' \in [Daemon -> {NoDial} \cup [msg: Msg, to: Proc]]
    BY <1>1, <1>5, <1>7 DEF MailTypes
  <2> QED BY <1>1, <2>2, <2>3 DEF MailTypes, boxVars, bridgeVars
<1>10. Incoming'
  <2>1. ASSUME NEW e \in Daemon, NEW i \in DOMAIN arriving'[e], NEW n, n = arriving'[e][i]
        PROVE  Sent(n)'
    <3>1. arriving[e] \in Seq(Msg)
      BY <1>1 DEF MailTypes
    <3>2. \E j \in DOMAIN arriving[e] : n = arriving[e][j]
      <4>1. CASE e = d
        <5>1. arriving'[e] = Tail(arriving[e]) /\ arriving[e] # <<>>
          BY <1>1, <4>1 DEF MailTypes
        <5>2. i + 1 \in DOMAIN arriving[e] /\ Tail(arriving[e])[i] = arriving[e][i + 1]
          BY <2>1, <3>1, <5>1, Tailed
        <5> QED BY <2>1, <5>1, <5>2
      <4>2. CASE e # d
        BY <1>1, <2>1, <4>2 DEF MailTypes
      <4> QED BY <4>1, <4>2
    <3>3. n \in Msg /\ Sent(n)
      BY <3>1, <3>2 DEF MailInv, Incoming
    <3> QED BY <1>8, <3>3, SentKeeps
  <2> QED BY <2>1 DEF Incoming
<1>11. Dialled'
  <2>1. ASSUME NEW e \in Daemon, NEW c, c = dialing'[e], c # NoDial, NEW n, NEW q,
               n = c.msg, q = c.to
        PROVE  Sent(n)' /\ box'[q].key = post'[n].to
    <3>1. n \in Msg /\ q \in Proc /\ Sent(n) /\ box[q].key = post[n].to
      <4>1. CASE e = d
        <5>1. p # NoProc /\ c = [msg |-> m, to |-> p]
          BY <1>1, <1>5, <2>1, <4>1 DEF MailTypes
        <5> QED BY <1>6, <1>7, <2>1, <5>1
      <4>2. CASE e # d
        <5>1. c = dialing[e]
          BY <1>1, <1>5, <2>1, <4>2 DEF MailTypes
        <5>2. n \in Msg /\ q \in Proc
          BY <1>1, <2>1, <5>1 DEF MailTypes
        <5> QED BY <2>1, <5>1, <5>2 DEF MailInv, Dialled
      <4> QED BY <4>1, <4>2
    <3>2. Born(q)
      BY <3>1 DEF Sent, Born
    <3> QED BY <1>8, <3>1, <3>2, SentKeeps, BornKeeps
  <2> QED BY <2>1 DEF Dialled
<1> QED BY <1>1, <1>8, <1>9, <1>10, <1>11, MailFrame, StaysFrom
        DEF MailInv, boxVars, bridgeVars, clientVars

LEMMA InjectMail ==
  ASSUME ClientTypes, MailInv, NEW d \in Daemon, Inject(d)
  PROVE  MailInv'
<1>1. PICK c : c = dialing[d] /\ c # NoDial
  BY DEF Inject
<1>2. PICK m \in Msg, p \in Proc :
        m = c.msg /\ p = c.to /\ Sent(m) /\ box[p].key = post[m].to
  <2>1. c.msg \in Msg /\ c.to \in Proc
    BY <1>1 DEF MailInv, MailTypes
  <2> QED BY <1>1, <2>1 DEF MailInv, Dialled
<1>3. /\ UNCHANGED <<clientVars, boxVars, bridgeVars, post, arriving>> /\ MailTypes
      /\ dialing' = [dialing EXCEPT ![d] = NoDial]
      /\ heard' = [heard EXCEPT ![p] = @ \cup {m}] \/ UNCHANGED heard
  BY <1>1, <1>2 DEF Inject, MailInv
<1>4. MailKeeps
  BY <1>3 DEF MailKeeps, boxVars
<1>5. MailTypes'
  <2>1. dialing' \in [Daemon -> {NoDial} \cup [msg: Msg, to: Proc]]
    BY <1>3 DEF MailTypes
  <2>2. heard' \in [Proc -> SUBSET Msg]
    <3>1. heard \in [Proc -> SUBSET Msg]
      BY <1>3 DEF MailTypes
    <3> QED BY <1>3, <3>1
  <2> QED BY <1>3, <2>1, <2>2 DEF MailTypes, boxVars, bridgeVars
<1>6. Dialled'
  <2>1. ASSUME NEW e \in Daemon, NEW b, b = dialing'[e], b # NoDial
        PROVE  Sent(b.msg) /\ box[b.to].key = post[b.msg].to
    BY <1>3, <2>1 DEF MailInv, MailTypes, Dialled
  <2> QED BY <1>3, <2>1 DEF Dialled, Sent, Born, boxVars
<1>7. Told'
  <2>1. ASSUME NEW q \in Proc, NEW n \in heard'[q]
        PROVE  Sent(n)' /\ box'[q].key = post'[n].to
    <3>1. n \in heard[q] \/ (n = m /\ q = p)
      <4>1. heard \in [Proc -> SUBSET Msg]
        BY <1>3 DEF MailTypes
      <4> QED BY <1>3, <2>1, <4>1
    <3>2. n \in Msg /\ Sent(n) /\ box[q].key = post[n].to
      BY <1>2, <1>3, <3>1 DEF MailInv, MailTypes, Told
    <3>3. Born(q)
      BY <3>2 DEF Sent, Born
    <3> QED BY <1>4, <3>2, <3>3, SentKeeps, BornKeeps
  <2> QED BY <2>1 DEF Told
<1> QED BY <1>3, <1>4, <1>5, <1>6, <1>7, MailFrame, StaysFrom
        DEF MailInv, boxVars, bridgeVars, clientVars

(* The session, or murod, ends. *)
LEMMA EmptiedMail ==
  ASSUME ClientTypes, MailInv, NEW d \in Daemon, OutFrom, UNCHANGED <<boxVars, post, heard>>,
         arriving' = [arriving EXCEPT ![d] = <<>>],
         UNCHANGED sockets \/ sockets' = [sockets EXCEPT ![d] = {}],
         UNCHANGED dialing \/ dialing' = [dialing EXCEPT ![d] = NoDial]
  PROVE  MailInv'
<1>1. MailTypes /\ <<>> \in Seq(Msg)
  BY DEF MailInv
<1>2. MailKeeps
  BY DEF MailKeeps, boxVars
<1>3. MailTypes'
  <2>1. arriving' \in [Daemon -> Seq(Msg)]
    BY <1>1 DEF MailTypes
  <2>2. sockets' \in [Daemon -> SUBSET Proc]
    BY <1>1 DEF MailTypes
  <2>3. dialing' \in [Daemon -> {NoDial} \cup [msg: Msg, to: Proc]]
    BY <1>1 DEF MailTypes
  <2> QED BY <1>1, <2>1, <2>2, <2>3 DEF MailTypes, boxVars
<1>4. Incoming'
  <2>1. ASSUME NEW e \in Daemon, NEW i \in DOMAIN arriving'[e], NEW n, n = arriving'[e][i]
        PROVE  Sent(n)'
    <3>1. e # d /\ arriving'[e] = arriving[e] /\ arriving[e] \in Seq(Msg)
      BY <1>1, <2>1, NothingQueued DEF MailTypes
    <3>2. n \in Msg /\ Sent(n)
      BY <2>1, <3>1 DEF MailInv, Incoming
    <3> QED BY <1>2, <3>2, SentKeeps
  <2> QED BY <2>1 DEF Incoming
<1>5. Dialled'
  <2>1. ASSUME NEW e \in Daemon, NEW b, b = dialing'[e], b # NoDial
        PROVE  Sent(b.msg) /\ box[b.to].key = post[b.msg].to
    BY <1>1, <2>1 DEF MailInv, MailTypes, Dialled
  <2> QED BY <2>1 DEF Dialled, Sent, Born, boxVars
<1>6. \A e \in Daemon : sockets'[e] \subseteq sockets[e]
  BY <1>1 DEF MailTypes
<1> QED BY <1>2, <1>3, <1>4, <1>5, <1>6, MailFrame DEF MailInv, boxVars

-----------------------------------------------------------------------------
LEMMA NextMail == ClaimInv /\ MailInv /\ [Next]_vars => MailInv'
<1> SUFFICES ASSUME ClaimInv, MailInv, [Next]_vars PROVE MailInv'
  OBVIOUS
<1>1. ClientTypes
  BY DEF ClaimInv
<1>2. CASE UNCHANGED vars
  BY <1>1, <1>2, ClientMail, StaysFrom DEF vars, boxVars, mailVars
<1>3. ASSUME NEW d \in Daemon,
             \/ Start(d) \/ Serve(d) \/ Claims(d) \/ Network(d) \/ SessionEnds(d) \/ Ends(d)
             \/ Deliver(d) \/ DeliverUnacked(d) \/ Handle(d) \/ Inject(d)
      PROVE  MailInv'
  <2>1. CASE Start(d)
    BY <1>1, <2>1, ClientMail, ClientFrom DEF Start, bridgeVars
  <2>2. CASE Serve(d)
    BY <1>1, <2>2, ServeMail
  <2>3. CASE Claims(d)
    <3>1. UNCHANGED <<boxVars, sockets, mailVars>>
      BY <2>3 DEF Claims, bridgeVars
    <3>2. CASE \E k \in Claimed : Claim(d, k) \/ Release(d, k)
      <4>1. \E k \in Key : Claim(d, k) \/ Release(d, k)
        BY <3>2, BridgeAssumption
      <4> QED BY <1>1, <3>1, <4>1, ClientMail, ClientFrom
    <3>3. CASE \E slow \in BOOLEAN : LookUp(d, slow) \/ Presence(d, slow)
      BY <1>1, <3>1, <3>3, ClientMail, ClientFrom
    <3>4. CASE CallTimesOut(d)
      BY <1>1, <3>1, <3>4, ClientMail, ClientFrom
    <3> QED BY <2>3, <3>2, <3>3, <3>4 DEF Claims
  <2>4. CASE Network(d)
    <3>1. UNCHANGED <<out, boxVars, sockets, mailVars>>
      BY <2>4 DEF Network, Cut, ConnectTimesOut, Reconnect, bridgeVars
    <3> QED BY <1>1, <3>1, ClientMail, StaysFrom
  <2>5. CASE SessionEnds(d)
    <3>1. OutFrom
      BY <2>5, StaysFrom DEF SessionEnds, WillFires
    <3> QED BY <1>1, <2>5, <3>1, EmptiedMail DEF SessionEnds, bridgeVars
  <2>6. CASE Ends(d)
    <3>1. OutFrom
      BY <1>1, <2>6, ClientFrom DEF Ends, Gone
    <3> QED BY <1>1, <2>6, <3>1, EmptiedMail DEF Ends, Gone
  <2>7. CASE Deliver(d)
    <3>1. OutFrom
      BY <1>1, <2>7, ClientFrom DEF Deliver
    <3> QED BY <1>1, <2>7, <3>1, SpreadMail DEF Deliver, Land
  <2>8. CASE DeliverUnacked(d)
    <3>1. OutFrom
      BY <2>8, StaysFrom DEF DeliverUnacked, LandUnacked
    <3> QED BY <1>1, <2>8, <3>1, SpreadMail DEF DeliverUnacked, LandUnacked
  <2>9. CASE Handle(d) \/ Inject(d)
    BY <1>1, <2>9, HandleMail, InjectMail
  <2> QED BY <1>3, <2>1, <2>2, <2>3, <2>4, <2>5, <2>6, <2>7, <2>8, <2>9
<1>4. ASSUME NEW d \in Daemon, NEW k \in Key,
             Stop(d, k) \/ \E p \in Proc : Run(d, k, p)
      PROVE  MailInv'
  BY <1>1, <1>4, StopMail, RunMail
<1>5. ASSUME NEW d \in Daemon, NEW k \in Key, NEW p \in Proc, NEW m \in Msg, Send(d, p, k, m)
      PROVE  MailInv'
  BY <1>1, <1>5, SendMail
<1> QED BY <1>2, <1>3, <1>4, <1>5 DEF Next

(* agentsocket.go 150-165 and manager.go 322-350, for any number of hosts,
   sandboxes and messages: what a sandbox hears was sent to its name from its
   own namespace, whoever runs under that name by the time it comes.  MailInv
   follows a message from the socket it was let through at to the socket it is
   dialled at. *)
THEOREM HeardOfOwn == Spec => []OwnNamespace
<1>1. Init => ClaimInv /\ MailInv
  BY InitClaims, InitMail
<1>2. ClaimInv /\ MailInv /\ [Next]_vars => ClaimInv' /\ MailInv'
  BY NextClaims, NextMail
<1>3. MailInv => OwnNamespace
  <2> SUFFICES ASSUME MailInv, NEW p \in Proc, NEW m \in heard[p]
               PROVE  /\ post[m].to = box[p].key
                      /\ NamespaceOf[box[post[m].from].key] = NamespaceOf[box[p].key]
    BY DEF OwnNamespace
  <2> QED BY DEF MailInv, Told, Sent
<1> QED BY <1>1, <1>2, <1>3, PTL DEF Spec
=============================================================================
