------------------------------ MODULE MCPubSub ------------------------------
EXTENDS PubSubProperties

(* a murod that is started again, and one on another host *)
TwoHosts == <<"h1", "h1", "h2">>
(* two agents of different namespaces *)
Namespaces == [k \in {"n/a", "m/b"} |-> IF k = "n/a" THEN "n" ELSE "m"]

NoBudget == [claims |-> 0, slow |-> 0, cuts |-> 0, crashes |-> 0, quits |-> 0,
             runs |-> 0, sends |-> 0]
(* claims against a crash, a restart and a lost link; or messages *)
SomeBudgets ==
  {[NoBudget EXCEPT !.claims = 3, !.crashes = 1],
   [NoBudget EXCEPT !.claims = 2, !.crashes = 1, !.cuts = 1],
   [NoBudget EXCEPT !.claims = 3, !.cuts = 1],
   [NoBudget EXCEPT !.claims = 2, !.quits = 1, !.slow = 1],
   [NoBudget EXCEPT !.runs = 2, !.sends = 1, !.crashes = 1],
   [NoBudget EXCEPT !.runs = 2, !.sends = 1, !.cuts = 1]}
=============================================================================
