----------------------------- MODULE MCFactory -----------------------------
(* Instances of Factory for TLC.                                             *)
EXTENDS Factory, TLC

CONSTANTS p1, p2, a, c

\* What keeps the instance small.  Nothing else happens while a process starts; the
\* second one is started only while the first works its first item; a fault and a
\* command befall the same behaviour only before the first run.
Small ==
    /\ \A p \in Procs : pc[p] \in Building => pc'[p] # pc[p]
    /\ \A p \in Procs \ {p1} : pc[p] # pc'[p] /\ pc[p] = "off" => pc[p1] = "running" /\ runs = 1
    /\ faults' + commands' # faults + commands => faults' + commands' <= (IF runs = 0 THEN 2 ELSE 1)

\* a comes from the backlog, c is a direction of the owner.
Origin2 == a :> "auto" @@ c :> "owner"

Seen(i, r, f, t) == [item |-> i, refs |-> r, fps |-> f, trusted |-> t]

\* A backlog item, and a direction whose provenance nobody has shown.
Unproven == {Seen(a, {1}, {1}, FALSE), Seen(c, {1}, {1}, FALSE)}
============================================================================
