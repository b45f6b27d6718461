------------------------------ MODULE MCTools ------------------------------
EXTENDS ToolsProperties

(* the agent's branch, pushed by name, by what is checked out and to another branch;
   pulled over, and into another branch; "src" is what the mounted tree is seen as *)
ArgLooks == [a \in {"-m", "msg", "origin", "agent", "HEAD:agent", "agent:main", "agent:fix",
                    "+main:agent"} |->
               IF a = "-m" THEN "flag" ELSE "plain"]
Refspecs ==
  [a \in {"agent", "HEAD:agent", "agent:main", "agent:fix", "+main:agent"} |->
     [src |-> CASE a = "HEAD:agent" -> "HEAD" [] a = "+main:agent" -> "main" [] OTHER -> "agent",
      dst |-> CASE a = "agent:main" -> "main" [] a = "agent:fix" -> "fix" [] OTHER -> "agent",
      force |-> a = "+main:agent",
      pair |-> a # "agent"]]

Asked(sub, args) == [sub |-> sub, cwd |-> <<"src", "pkg">>, args |-> args]
SomeAsks == {Asked("commit", <<"-m", "msg">>)} \cup
            {Asked("push", <<"origin", a>>) : a \in {"HEAD:agent", "agent:main"}} \cup
            {Asked("pull", args) : args \in {<<>>, <<"origin", "agent:fix">>,
                                              <<"origin", "+main:agent">>}}
(* the tree lies within another mount *)
SomeMounts == << [host |-> <<"home">>, sandbox |-> <<>>],
                 [host |-> <<"tree">>, sandbox |-> <<"src">>] >>
SomeRepos == << [host |-> <<"tree">>, branches |-> {"agent"}, remotes |-> {"origin"}] >>

Budget(ops, asks, edits, switches, crashes) ==
  [ops |-> ops, asks |-> asks, edits |-> edits, switches |-> switches, crashes |-> crashes]
(* Runs, Merges and Deletes; or requests *)
NoSwitches == {Budget(2, 2, 2, 0, 0)}
SomeBudgets == {Budget(3, 1, 1, 0, 1), Budget(2, 2, 1, 1, 0), Budget(1, 3, 2, 1, 0)}
=============================================================================
