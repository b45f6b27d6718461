------------------------------ MODULE MCEgress ------------------------------
EXTENDS EgressProperties

AUrl(scheme, host, port, path) == [scheme |-> scheme, host |-> host, port |-> port, path |-> path]
Docs == <<"/", "d">>
(* "https://H", "g:80" and "http://g/d"; an empty entry, whose rule no request
   matches, and "http://", which does not parse *)
Wide == {AUrl("https", "H", "", <<>>), AUrl("", "g", "80", <<>>),
         AUrl("", "", "", <<>>), AUrl("http", "", "", <<>>)}
Narrow == {AUrl("http", "g", "", Docs)}
SomeURLs == {Wide, Narrow}
EachURLs == [i \in {"i1", "i2"} |-> IF i = "i1" THEN Wide ELSE Narrow]
LowerCase == [h \in {"h", "H", "g", "G", ""} |->
                CASE h = "H" -> "h" [] h = "G" -> "g" [] OTHER -> h]

Ask1(method, host, port, path) ==
  [method |-> method, scheme |-> "http", host |-> host, port |-> port, path |-> path]
SomeRequests == {Ask1("CONNECT", "h", "443", <<>>), Ask1("CONNECT", "g", "80", <<>>),
                 Ask1("GET", "G", "", Docs \o <<"x">>), Ask1("GET", "g", "", <<"/">>)}
(* a name, which may be another than the one asked for, in two parts; and bytes
   that are no ClientHello *)
SomeHellos == {[tls |-> TRUE, name |-> "g", parts |-> 2],
               [tls |-> FALSE, name |-> "", parts |-> 1]}

TwoSandboxes == {[namespace |-> "ns", name |-> "a", id |-> "i1"],
                 [namespace |-> "ns", name |-> "b", id |-> "i2"]}

(* what fails in one launch does not depend on the other *)
FirstFails == <<{"slow", "slirp", "early", "nft"}, {"slirp"}>>

Budget(launches, requests, updates, crashes) ==
  [launches |-> launches, requests |-> requests, updates |-> updates, crashes |-> crashes]
(* relaunches and restarts with a request; or many requests of one launch *)
SomeBudgets == {Budget(2, 1, 0, 1), Budget(1, 2, 1, 0), Budget(1, 4, 0, 1)}
=============================================================================
