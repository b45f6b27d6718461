-------------------------- MODULE EgressProperties --------------------------
(***************************************************************************)
(* What the way out of a sandbox guarantees.                               *)
(***************************************************************************)
EXTENDS Egress

(* What an entry of allow_urls stands for, by the profile's documentation:
   the ports it names (those of its scheme, or any), and for plain requests
   its scheme and everything below its path. *)
MeansPort(entry, port) ==
  \/ entry.port # "" /\ port = entry.port
  \/ entry.port = "" /\ \/ entry.scheme = "https" /\ port = "443"
                        \/ entry.scheme = "http" /\ port = "80"
                        \/ entry.scheme \notin {"https", "http"}
PortAsked(request) == IF request.port # "" THEN request.port
                      ELSE IF request.method = "CONNECT" \/ request.scheme = "https"
                           THEN "443" ELSE "80"
Below(path, prefix) == \E rest \in 0..Len(path) : SubSeq(path, 1, rest) = prefix
MeansHost(entry, host, port) ==
  /\ entry.host # "" /\ Lower[entry.host] = Lower[host]
  /\ MeansPort(entry, port)
Means(entry, request) ==
  /\ MeansHost(entry, request.host, PortAsked(request))
  /\ \/ request.method = "CONNECT"
     \/ entry.scheme = ""
     \/ entry.scheme = request.scheme /\ Below(request.path, entry.path)

(* The process has an address that no other launch was ever given. *)
Alone(p) == \A q \in Proc \ {p} : net[q].addr # net[p].addr

(* The lists of entries the proxy may hold for an id: what is on record, or,
   while an Update has not told it yet, what was. *)
Sender(c) == from[c].proc
Listed(c, Fits(_)) == \E urls \in AllowURLs :
  /\ rules[owner[Sender(c)]] = P!Rules(urls)
  /\ \E entry \in urls : Fits(entry)

(* Every variable holds what the code can put there. *)
EgressTypeOK ==
  /\ nextAddr \in Addr
  /\ \A p \in Proc : net[p].addr \in Addr \cup {0} /\ net[p].slirp \in {"none", "up", "gone"}
  /\ \A i \in Id : rec[i].proc \in Proc \cup {NoProc} /\ rec[i].urls \in AllowURLs
  /\ \A c \in Conn : conn[c].at \in {"idle", "resolve", "check", "forward", "peek", "dial",
                                     "relay", "denied", "closed"}
  /\ \A a \in Addr : addrIndex[a] \in Id \cup {P!NoKey}
  /\ Ring!TypeOK

(* network.go 268-285: a live sandbox has a route that nft does not restrict
   only while its Launch is under way (the window the code documents), or when
   murod died in that Launch. *)
NoOpenRoute ==
  \A p \in Proc :
    net[p].alive /\ net[p].slirp = "up" /\ ~net[p].sealed
      => net[p].at \in {"nft", "sealing", "unsealed", "lost"}

(* proxy.go: a request is let through, and a tunnel's server name accepted,
   only if an entry of the sandbox it comes from stands for it: the address
   leads to no other sandbox's list, whatever was launched, updated or restarted
   since the connection came.  (Of processes that share an address see README.) *)
OwnRules ==
  [][\A c \in Conn : from[c] # Nobody /\ Alone(Sender(c)) =>
       /\ conn[c].at = "check" /\ conn'[c].at \in {"peek", "forward"} =>
            Listed(c, LAMBDA entry : Means(entry, conn[c].request))
       /\ conn[c].at = "peek" /\ conn'[c].at = "dial" /\ conn'[c].got > conn[c].got
            /\ conn[c].hello.tls /\ conn'[c].got >= conn[c].hello.parts
            /\ conn[c].hello.name # "" =>
            Listed(c, LAMBDA entry :
              MeansHost(entry, conn[c].hello.name, PortAsked(conn[c].request)))]_vars

(* manager.go 133-137, 719-722, 966-968, 1245: a sandbox of which this murod has
   told the proxy, when it launched, relaunched or reattached it, is not refused
   what its record allows, whatever is launched, updated or restarted meanwhile.
   (A restarted murod refuses everything until its startup has come to the sandbox,
   and a sandbox that startup passes over for good: see README.) *)
NotRefused ==
  [][\A c \in Conn : from[c].known /\ Alone(Sender(c)) /\ owner[Sender(c)] \notin pending =>
       (conn[c].at = "check" /\ conn'[c].at = "denied" =>
          ~ \E entry \in rec[owner[Sender(c)]].urls : Means(entry, conn[c].request))]_vars

(* bwrap.go 541-549, 670-682, 708-714: a slirp4netns whose sandbox has ended
   always has a goroutine that will stop it: the Launch that has not returned, or
   whoever holds the handle; unless a murod has died since it was started and
   startup has not taken the sandbox up, or not yet. *)
NoStraySlirp ==
  \A p \in Proc : net[p].slirp = "up" /\ ~net[p].alive =>
    \/ InLaunch(p) \/ net[p].held
    \/ net[p].at = "up" /\ serving[p] = "no"
    \/ net[p].at = "lost" \/ serving[p] \in {"again", "lost"}

(* proxy.go 367: no client keeps a handler from deciding, by sending its
   ClientHello slowly or never. *)
Decides ==
  \A c \in Conn : conn[c].at \in {"resolve", "check", "peek", "dial"}
                    ~> conn[c].at \in {"idle", "forward", "relay", "denied", "closed"}

(* EventRing's properties, of the ring that the proxy's handlers fill. *)
LastAgrees == Ring!LastAgrees
KeepsNewest == Ring!KeepsNewest
=============================================================================
