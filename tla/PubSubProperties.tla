-------------------------- MODULE PubSubProperties --------------------------
(***************************************************************************)
(* What the claims and the bridges between agents guarantee.               *)
(***************************************************************************)
EXTENDS AgentBridge

(* claims.go 67-82: who has been told that the name is its own is the one its
   claim names, as long as its presence says "online"; but for a claim that was
   published over another one than it was decided on (the lookup and the publish
   are two steps) and for a release, which clears whatever is there. *)
HolderNamed ==
  \A d \in Daemon, k \in Key :
    k \in holds[d] /\ presence[d] = "online" /\ k \notin raced => claim[k] = d

(* claims.go 76-82: a daemon that crashed does not block a name for ever. *)
NotBlocked ==
  \A d \in Daemon :
    mode[d] = "crashed" ~> presence[d] # "online" \/ \A k \in Key : claim[k] # d

(* d has pub/sub, has never lost its link, and its k runs. *)
Ready(d, k) ==
  mode[d] = "enabled" /\ Up(d) /\ presence[d] = "online" /\ k \in Live(HostOf[d])
Sending(m) == \E d \in Daemon : Up(d) /\ \E i \in DOMAIN out[d] :
                out[d][i].kind = "inbox" /\ out[d][i].msg = m

(* manager.go 322-330, 345-350: a message the broker takes is typed into the
   sandbox on record under its name, on each host whose murod has pub/sub and has
   never lost its link: also into one that replaced another since, or was taken
   up by a murod started again. *)
Reaches ==
  \A m \in Msg, d \in Daemon :
    (Sending(m) /\ Ready(d, post[m].to))
      ~> \/ ~Ready(d, post[m].to)
         \/ m \in heard[record[HostOf[d]][post[m].to]]
         \/ post[m].st = "flying" /\ ~Sending(m)

(* agentsocket.go 150-165: a sandbox hears only its own namespace, under the name
   it was sent to. *)
OwnNamespace ==
  \A p \in Proc : \A m \in heard[p] :
    /\ post[m].to = box[p].key
    /\ NamespaceOf[box[post[m].from].key] = NamespaceOf[box[p].key]
=============================================================================
