------------------------- MODULE MCWorkerReadiness -------------------------
EXTENDS WorkerReadiness
MCAbove == [f \in Folders |-> IF f = "tree" THEN {"root"} ELSE {}]
MCPolicy == [w \in Writers |-> IF w = "s1" THEN "bypass" ELSE "prepare"]
MCWary == {<<"cursor", "tree", "flag">>}
=============================================================================
