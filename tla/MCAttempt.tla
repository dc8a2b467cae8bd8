---- MODULE MCAttempt ----
EXTENDS Attempt

\* A file of the project, a note of the person's and a file no one has yet written.
MCFolder == [tracked |-> "top", note |-> "top", new |-> "dir"]
MCPaths == DOMAIN MCFolder
MCAllowed == {"tracked", "note"}
MCAdapter == <<"claude", "agy", "local">>

Committed == [head |-> "base", index |-> "base", work |-> "base"]
Absent == [head |-> Missing, index |-> Missing, work |-> Missing]
Loose == [Absent EXCEPT !.work = "user"]
Edited == [Committed EXCEPT !.work = "user"]

MCFound == [tracked |-> {Committed, [Edited EXCEPT !.index = "user"]},
            note |-> {Loose}, new |-> {Absent}]

====
