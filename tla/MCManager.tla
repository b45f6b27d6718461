------------------------------ MODULE MCManager ------------------------------
EXTENDS RecordsInvariant, TLC

CONSTANTS base, extra, wt, u

NeverProfile == [policy |-> "never", mounts |-> {base}, urls |-> {}, git |-> FALSE]
FailProfile == [NeverProfile EXCEPT !.policy = "on-failure", !.git = TRUE]
AlwaysProfile == [NeverProfile EXCEPT !.policy = "always"]

AddMount == [mounts |-> {extra}, allow |-> {}, deny |-> {}]
AllowUrl == [mounts |-> {}, allow |-> {u}, deny |-> {}]

NeverOnly == {NeverProfile}
FailOnly == {FailProfile}
BothDeltas == {AddMount, AllowUrl}
OneDelta == {AllowUrl}
MountDelta == {AddMount}
WtOnly == {[FailProfile EXCEPT !.mounts = {base, wt}]}

Symmetry == Permutations(Client) \cup Permutations(Process) \cup Permutations(Id)
SymmetryKeys == Symmetry \cup Permutations(Key)
=============================================================================
