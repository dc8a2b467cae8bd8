------------------------------ MODULE MCTaskQueue ------------------------------
(* Two tasks of one worktree, the second depending on the first and sharing  *)
(* its root cause.                                                           *)
EXTENDS TaskQueue, TLC

CONSTANTS r1, cause, p1, p2

TwoTasks == {1, 2}
Worktrees == <<r1, r1>>
Second    == <<{}, {1}>>
BothProcs == {p1, p2}
Swapped   == Permutations(BothProcs)
OneCause  == [t \in Tasks |-> cause]
AllOrNone == {{}, Tasks}
TwoRevs   == {1, 2}
============================================================================
