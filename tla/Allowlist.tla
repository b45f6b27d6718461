----------------------------- MODULE Allowlist -----------------------------
(***************************************************************************)
(* internal/proxy/allowlist.go and the part of sni.go the proxy relies on: *)
(* what an entry of a profile's allow_urls parses to, and which requests   *)
(* the parsed rules let pass.  Names are symbols, ports and schemes        *)
(* strings as in the code, a path is a sequence of characters.             *)
(***************************************************************************)
EXTENDS Sequences, SequencesExt

CONSTANT Lower   \* strings.ToLower on the hosts: a function

(* defaultPort(scheme) *)
defaultPort(scheme) == CASE scheme = "https" -> "443"
                         [] scheme = "http"  -> "80"
                         [] OTHER            -> ""

(* parseRule: an entry is "host[:port]", which has no scheme and no path, or
   "scheme://host[:port][path]". *)
parseRule(entry) ==
  [scheme |-> entry.scheme,
   host   |-> Lower[entry.host],
   port   |-> IF entry.port = "" THEN defaultPort(entry.scheme) ELSE entry.port,
   path   |-> IF entry.scheme = "" THEN <<>> ELSE entry.path]

(* What parseRule refuses: a scheme and nothing to reach. *)
Parses(entry) == entry.scheme # "" => entry.host # "" \/ entry.port # ""

(* Swap: the rules of the entries that parse. *)
Rules(entries) == {parseRule(entry) : entry \in {e \in entries : Parses(e)}}

PortMatches(rule, port) == rule.port \in {"", port}

(* AllowsHTTP, of a plain request's URL. *)
AllowsHTTP(rules, url) ==
  LET named == IF url.port = "" THEN defaultPort(url.scheme) ELSE url.port
      port == IF named = "" THEN "80" ELSE named
  IN  /\ url.host # "" \/ url.port # ""
      /\ \E rule \in rules : /\ rule.scheme \in {"", url.scheme}
                             /\ rule.host = Lower[url.host]
                             /\ PortMatches(rule, port)
                             /\ IsPrefix(rule.path, url.path)

(* AllowsHost, of a CONNECT's target or of a server name at its port. *)
AllowsHost(rules, host, port) ==
  \E rule \in rules :
    /\ rule.host = Lower[host]
    /\ PortMatches(rule, IF port = "" THEN "443" ELSE port)

(* ExtractSNI of the first `got' parts of what a client sends: a name only
   when its ClientHello is whole and has the extension. *)
ExtractSNI(hello, got) ==
  IF hello.tls /\ got >= hello.parts THEN hello.name ELSE ""
=============================================================================
