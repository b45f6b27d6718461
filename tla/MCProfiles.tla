---------------------------- MODULE MCProfiles ----------------------------
EXTENDS ProfilesProperties

At1(host, sandbox) == [host |-> host, sandbox |-> sandbox, mode |-> "rw"]
HomeDir == <<"home", "u">>
GuardedDirs == {<<"etc">>, <<"home", "u", ".config", "muro">>}
ScaffoldDirs == {<<"proc">>, <<"dev">>, <<"tmp">>}
work == <<"workspace">>
baseWork == At1(<<"~", "base">>, work)
ownGit == At1(<<"srv", "git">>, Append(toolRoot, "git"))
rootMount == [host |-> <<"opt", "bin">>, sandbox |-> toolRoot, mode |-> "ro"]
badMount == At1(<<"etc", "muro">>, <<"conf">>)

Empty == [name |-> "", extends |-> "", workdir |-> <<>>, audio |-> FALSE,
          mounts |-> <<>>, tools |-> <<>>, private |-> <<>>, repos |-> <<>>]
gitTool == [host |-> <<"usr", "bin", "git">>, as |-> "git"]
lsTool == [host |-> <<"usr", "bin", "ls">>, as |-> "ls"]
allTools == [host |-> <<"~", "bin">>, as |-> "*"]
mounted == [host |-> <<"~", "base">>, worktree |-> FALSE, at |-> <<>>,
            branches |-> {"main"}, remotes |-> {"origin"}]
treed == [host |-> <<"~", "lib">>, worktree |-> TRUE, at |-> <<"lib">>,
          branches |-> {}, remotes |-> {}]

(* a base with everything, and drafts that extend a base, each other or a name
   that is not there; of two, one clashes with the base's tool once merged *)
TheBase == [Empty EXCEPT !.name = "base", !.workdir = work, !.mounts = <<baseWork>>,
              !.tools = <<gitTool, lsTool>>, !.private = << <<"~", "history">> >>,
              !.repos = <<mounted, treed>>]
Child == [Empty EXCEPT !.name = "child", !.extends = "base", !.audio = TRUE, !.tools = <<allTools>>]
Looped == [Empty EXCEPT !.extends = "child", !.tools = <<allTools>>]
SomeDrafts == {Child, Looped}
SomeBundles == {[profile |-> [Child EXCEPT !.mounts = <<ownGit>>, !.tools = <<>>], docs |-> TRUE],
                [profile |-> [Empty EXCEPT !.name = "child", !.mounts = <<badMount>>], docs |-> FALSE]}
SomeMounts == {rootMount, ownGit}
SomeDirs == {<<"srv">>}

OnlyBase == {[n \in {"base", "child"} |-> IF n = "base" THEN TheBase ELSE NoFile]}

Budget(writes, loads, faults) == [writes |-> writes, loads |-> loads, faults |-> faults]
SomeBudgets == {Budget(2, 1, 1), Budget(3, 1, 0)}
=============================================================================
