------------------------- MODULE WorkItemLifecycle -------------------------
(* What the factory promises about the work items of one state directory,    *)
(* whatever process works on them and whenever it dies: an item moves only   *)
(* along the documented adjacency or because new evidence readmits it, no    *)
(* item is readmitted while it runs, and work runs one item at a time.       *)
(* Factory.tla is shown to implement this specification.                     *)
EXTENDS FiniteSets

CONSTANT Items

VARIABLE st    \* the durable state of every item; "absent" before admission

States == {"absent", "ready", "in_progress", "blocked", "awaiting_owner",
           "deferred", "shipped", "failed", "rejected"}

\* The states evidence admits an item to.
Admissions == {"ready", "awaiting_owner"}

\* The adjacency between the states the store can hold between two saves.
\* proposed, admitted and verifying are never saved, and nothing abandons.
Adjacent ==
    [s \in States |->
        CASE s = "ready"          -> {"in_progress", "blocked", "awaiting_owner",
                                      "deferred"}
          [] s = "in_progress"    -> {"blocked", "awaiting_owner", "failed",
                                      "shipped", "deferred"}
          [] s = "blocked"        -> {"ready", "awaiting_owner"}
          [] s = "awaiting_owner" -> {"ready", "rejected"}
          [] s = "deferred"       -> {"ready"}
          [] s = "failed"         -> {"ready", "awaiting_owner"}
          [] OTHER                -> {}]

Running == {i \in Items : st[i] = "in_progress"}

Init == st = [i \in Items |-> "absent"]

\* Evidence admits an item, or readmits one that is not running.
Readmit(i) == st[i] # "in_progress" /\ st'[i] \in Admissions

\* An item starts only when nothing else runs.
Start(i) == st'[i] = "in_progress" => Running \subseteq {i}

Move(i) == st'[i] \in Adjacent[st[i]] /\ Start(i)

\* One tick requeues several items at once, so items move independently.
Next ==
    /\ st' \in [Items -> States]
    /\ \A i \in Items : st'[i] = st[i] \/ Move(i) \/ Readmit(i)
    /\ \A i, j \in Items :
          st'[i] = "in_progress" /\ st'[j] = "in_progress" => i = j

Spec == Init /\ [][Next]_st
============================================================================
